---------------------- MODULE LayerUnpackProofs ----------------------
(* Theorems about LayerUnpack. *)
EXTENDS LayerUnpack, FiniteSetTheorems, SequenceTheorems, WellFoundedInduction, TLAPS

-----------------------------------------------------------------------------
(* Induction. *)

\* A set of numbers has a least one.
LEMMA Minimum ==
  ASSUME NEW S, S \subseteq Nat, S # {}
  PROVE  \E m \in S : \A k \in S : m <= k
<1> DEFINE R == OpToRel(<, Nat)
<1>1. \E m \in S : \A k \in S : <<k, m>> \notin R
  <2>1. IsWellFoundedOn(R, Nat)
    BY NatLessThanWellFounded
  <2> HIDE DEF R
  <2> QED
    BY <2>1, WFMin
<1>2. PICK m \in S : \A k \in S : <<k, m>> \notin R
  BY <1>1
<1>3. ASSUME NEW k \in S
      PROVE  m <= k
  <2>1. <<k, m>> \notin R
    BY <1>2
  <2>2. k \in Nat /\ m \in Nat
    OBVIOUS
  <2>3. ~(k < m)
    BY <2>1, <2>2 DEF OpToRel
  <2> QED
    BY <2>2, <2>3
<1> QED
  BY <1>3

\* The induction on numbers, for the set of those that have a property.
LEMMA Induction ==
  ASSUME NEW S, 0 \in S, \A n \in Nat : n \in S => n + 1 \in S
  PROVE  Nat \subseteq S
<1> SUFFICES ASSUME Nat \ S # {}
             PROVE  FALSE
  OBVIOUS
<1>1. PICK m \in Nat \ S : \A k \in Nat \ S : m <= k
  BY Minimum
<1>2. m # 0 /\ m - 1 \in Nat /\ ~(m <= m - 1)
  BY <1>1
<1>3. m - 1 \in S
  BY <1>1, <1>2
<1>4. (m - 1) + 1 \in S
  BY <1>2, <1>3
<1> QED
  BY <1>1, <1>4

\* What Min and Max choose.
LEMMA MinChosen ==
  ASSUME NEW S, S \subseteq Nat, S # {}
  PROVE  Min(S) \in S /\ \A k \in S : Min(S) <= k
BY Minimum DEF Min

\* What Max chooses, of numbers that are bounded: the greatest of them.
LEMMA MaxChosen ==
  ASSUME NEW n \in Nat, NEW S, S \subseteq 0..n, S # {}
  PROVE  Max(S) \in S /\ \A k \in S : Max(S) >= k
<1> DEFINE U == {n - k : k \in S}
<1>1. U \subseteq Nat /\ U # {}
  <2>1. \A k \in S : k \in 0..n /\ n - k \in Nat
    OBVIOUS
  <2> QED
    BY <2>1
<1>2. PICK m \in U : \A k \in U : m <= k
  <2> HIDE DEF U
  <2> QED
    BY <1>1, Minimum
<1>3. PICK g \in S : m = n - g
  BY <1>2
<1>4. ASSUME NEW k \in S
      PROVE  g >= k
  <2>1. n - k \in U
    OBVIOUS
  <2>2. n - g <= n - k
    BY <1>2, <1>3, <2>1
  <2>3. g \in Nat /\ k \in Nat
    OBVIOUS
  <2> QED
    BY <2>2, <2>3
<1> QED
  BY <1>4 DEF Max

-----------------------------------------------------------------------------
(* Walks is a recursive function of the number of links: what it is at each. *)

\* The definition of Walks is well-founded: there is one function for each number of
\* levels, built on the one before.
LEMMA WalksLevels ==
  ASSUME NEW C
  PROVE  Walks(C) = [l \in 0..MaxLinks |-> Follow(C, l, Walks(C)[l - 1])]
<1> DEFINE Upto(m, f) == f = [l \in 0..m |-> Follow(C, l, f[l - 1])]
           S == {m \in Nat : \E f : Upto(m, f)}
<1>1. ASSUME NEW below, NEW other
      PROVE  Follow(C, 0, below) = Follow(C, 0, other)
  BY DEF Follow
<1>2. 0 \in S
  <2> DEFINE f == [l \in 0..0 |-> Follow(C, l, {})]
  <2>1. f = [l \in 0..0 |-> Follow(C, l, f[l - 1])]
    <3>1. \A l \in 0..0 : l = 0
      OBVIOUS
    <3>2. Follow(C, 0, {}) = Follow(C, 0, f[0 - 1])
      BY <1>1
    <3> HIDE DEF f
    <3>3. \A l \in 0..0 : Follow(C, l, {}) = Follow(C, l, f[l - 1])
      BY <3>1, <3>2
    <3>4. [l \in 0..0 |-> Follow(C, l, {})] = [l \in 0..0 |-> Follow(C, l, f[l - 1])]
      BY <3>3
    <3> QED
      BY <3>4 DEF f
  <2> QED
    BY <2>1
<1>3. ASSUME NEW m \in Nat, m \in S
      PROVE  m + 1 \in S
  <2>1. PICK f : Upto(m, f)
    BY <1>3
  <2> DEFINE g == [l \in 0..m + 1 |-> IF l = m + 1 THEN Follow(C, l, f[m]) ELSE f[l]]
  <2>2. ASSUME NEW l \in 0..m + 1
        PROVE  g[l] = Follow(C, l, g[l - 1])
    <3>1. CASE l = m + 1
      <4>1. g[l] = Follow(C, l, f[m]) /\ l - 1 = m /\ m \in 0..m + 1 /\ m # m + 1
        BY <3>1
      <4>2. g[m] = f[m]
        BY <4>1
      <4> QED
        BY <4>1, <4>2
    <3>2. CASE l # m + 1 /\ l # 0
      <4>1. l \in 0..m /\ l - 1 \in 0..m + 1 /\ l - 1 # m + 1
        BY <3>2
      <4>2. g[l] = f[l] /\ g[l - 1] = f[l - 1]
        BY <3>2, <4>1
      <4> HIDE DEF g
      <4>3. f[l] = Follow(C, l, f[l - 1])
        BY <2>1, <4>1
      <4> QED
        BY <4>2, <4>3
    <3>3. CASE l # m + 1 /\ l = 0
      <4>1. l \in 0..m /\ g[l] = f[l]
        BY <3>3
      <4> HIDE DEF g
      <4>2. f[0] = Follow(C, 0, f[0 - 1])
        BY <2>1, <4>1, <3>3
      <4> QED
        BY <4>1, <4>2, <1>1, <3>3
    <3> QED
      BY <3>1, <3>2, <3>3
  <2>3. g = [l \in 0..m + 1 |-> g[l]]
    OBVIOUS
  <2> HIDE DEF g
  <2>4. Upto(m + 1, g)
    BY <2>2, <2>3
  <2> QED
    BY <2>4
<1>4. \E f : Upto(MaxLinks, f)
  <2> HIDE DEF Upto
  <2>1. Nat \subseteq S
    BY <1>2, <1>3, Induction
  <2> QED
    BY <2>1 DEF MaxLinks
<1>5. Walks(C) = CHOOSE f : Upto(MaxLinks, f)
  BY DEF Walks
<1> HIDE DEF Upto
<1>6. Upto(MaxLinks, Walks(C))
  BY <1>4, <1>5
<1> QED
  BY <1>6 DEF Upto

-----------------------------------------------------------------------------
(* Paths. *)

\* The first components of a path.
LEMMA FirstFacts ==
  ASSUME NEW s \in Seq(Names), NEW n \in 0..Len(s)
  PROVE  /\ First(s, n) \in Seq(Names) /\ Len(First(s, n)) = n
         /\ \A i \in 1..n : First(s, n)[i] = s[i]
<1>1. Len(s) \in Nat /\ \A i \in 1..n : s[i] \in Names
  BY LenProperties, ElementOfSeq
<1>2. n \in Int /\ 1 \in Int
  OBVIOUS
<1> QED
  BY <1>1, <1>2, SubSeqProperties DEF First

\* The other components.
LEMMA RestFacts ==
  ASSUME NEW s \in Seq(Names), NEW n \in 0..Len(s), NEW m \in n..Len(s)
  PROVE  /\ SubSeq(s, n + 1, m) \in Seq(Names) /\ Len(SubSeq(s, n + 1, m)) = m - n
         /\ \A i \in 1..m - n : SubSeq(s, n + 1, m)[i] = s[n + i]
<1>1. Len(s) \in Nat /\ \A i \in n + 1..m : s[i] \in Names
  BY LenProperties, ElementOfSeq
<1>2. n + 1 \in Int /\ m \in Int
  OBVIOUS
<1> QED
  BY <1>1, <1>2, SubSeqProperties

\* The first components of a prefix of a path are those of the path.
LEMMA FirstOfFirst ==
  ASSUME NEW s \in Seq(Names), NEW n \in 0..Len(s), NEW m \in 0..n
  PROVE  First(First(s, n), m) = First(s, m)
<1>1. Len(s) \in Nat
  BY LenProperties
<1>2. /\ First(s, n) \in Seq(Names) /\ Len(First(s, n)) = n
      /\ \A i \in 1..n : First(s, n)[i] = s[i]
  BY FirstFacts
<1>3. m \in 0..Len(First(s, n)) /\ m \in 0..Len(s)
  BY <1>1, <1>2
<1>4. /\ First(First(s, n), m) \in Seq(Names) /\ Len(First(First(s, n), m)) = m
      /\ \A i \in 1..m : First(First(s, n), m)[i] = First(s, n)[i]
  BY <1>2, <1>3, FirstFacts
<1>5. /\ First(s, m) \in Seq(Names) /\ Len(First(s, m)) = m
      /\ \A i \in 1..m : First(s, m)[i] = s[i]
  BY <1>3, FirstFacts
<1>6. \A i \in 1..m : First(First(s, n), m)[i] = First(s, m)[i]
  BY <1>2, <1>4, <1>5
<1> QED
  BY <1>4, <1>5, <1>6, SeqEqual

\* The two ends of a path: no component of it, and all of them.
LEMMA FirstEnds ==
  ASSUME NEW s \in Seq(Names)
  PROVE  /\ First(s, 0) = Root /\ Root \in Seq(Names) /\ Len(Root) = 0
         /\ First(s, Len(s)) = s
         /\ Len(s) = 0 <=> s = Root
BY SubSeqFull, SubSeqEmpty, LenProperties, EmptySeq DEF First, Root

\* A path is its parent and its last component.
LEMMA FrontFacts ==
  ASSUME NEW s \in Seq(Names), s # Root
  PROVE  /\ Len(s) \in Nat \ {0}
         /\ Front(s) = First(s, Len(s) - 1)
         /\ Front(s) \in Seq(Names) /\ Len(Front(s)) = Len(s) - 1
         /\ Last(s) \in Names
         /\ Append(Front(s), Last(s)) = s
<1>1. Len(s) \in Nat \ {0}
  BY EmptySeq DEF Root
<1>2. Front(s) = First(s, Len(s) - 1)
  BY DEF Front, First
<1>3. Last(s) \in Names
  BY <1>1, ElementOfSeq DEF Last
<1>4. Len(s) - 1 \in 0..Len(s)
  BY <1>1
<1>5. /\ Front(s) \in Seq(Names) /\ Len(Front(s)) = Len(s) - 1
      /\ \A i \in 1..Len(s) - 1 : Front(s)[i] = s[i]
  BY <1>2, <1>4, FirstFacts
<1>6. /\ Append(Front(s), Last(s)) \in Seq(Names)
      /\ Len(Append(Front(s), Last(s))) = Len(s) - 1 + 1
      /\ \A i \in 1..Len(s) - 1 : Append(Front(s), Last(s))[i] = Front(s)[i]
      /\ Append(Front(s), Last(s))[Len(s) - 1 + 1] = Last(s)
  BY <1>3, <1>5, AppendProperties
<1>7. \A i \in 1..Len(s) : Append(Front(s), Last(s))[i] = s[i]
  BY <1>1, <1>5, <1>6 DEF Last
<1>8. Append(Front(s), Last(s)) = s
  BY <1>1, <1>6, <1>7, SeqEqual
<1> QED
  BY <1>1, <1>2, <1>3, <1>5, <1>8

\* A path one component longer: its length, its prefixes, its parent and its last component.
LEMMA AppendFacts ==
  ASSUME NEW s \in Seq(Names), NEW x \in Names
  PROVE  /\ Append(s, x) \in Seq(Names) /\ Len(Append(s, x)) = Len(s) + 1
         /\ \A n \in 0..Len(s) : First(Append(s, x), n) = First(s, n)
         /\ First(Append(s, x), Len(s)) = s
         /\ Append(s, x) # Root
         /\ Front(Append(s, x)) = s
         /\ Last(Append(s, x)) = x
<1> DEFINE t == Append(s, x)
<1>1. /\ t \in Seq(Names) /\ Len(t) = Len(s) + 1 /\ t # Root
      /\ \A i \in 1..Len(s) : t[i] = s[i]
      /\ t[Len(s) + 1] = x
  BY AppendProperties DEF Root
<1>2. Len(s) \in Nat
  BY LenProperties
<1> HIDE DEF t
<1>3. ASSUME NEW n \in 0..Len(s)
      PROVE  First(t, n) = First(s, n)
  <2>1. n \in 0..Len(t)
    BY <1>1, <1>2
  <2>2. /\ First(t, n) \in Seq(Names) /\ Len(First(t, n)) = n
        /\ \A i \in 1..n : First(t, n)[i] = t[i]
    BY <2>1, <1>1, FirstFacts
  <2>3. /\ First(s, n) \in Seq(Names) /\ Len(First(s, n)) = n
        /\ \A i \in 1..n : First(s, n)[i] = s[i]
    BY FirstFacts
  <2>4. ASSUME NEW i \in 1..n
        PROVE  First(t, n)[i] = First(s, n)[i]
    <3>1. i \in 1..Len(s)
      BY <1>2
    <3>2. t[i] = s[i]
      BY <1>1, <3>1
    <3> QED
      BY <2>2, <2>3, <3>2
  <2> QED
    BY <2>2, <2>3, <2>4, SeqEqual
<1>4. First(t, Len(s)) = s
  BY <1>2, <1>3, FirstEnds
<1>5. Front(t) = s
  BY <1>1, <1>2, <1>4 DEF Front, First
<1>6. Last(t) = x
  BY <1>1 DEF Last
<1> QED
  BY <1>1, <1>3, <1>4, <1>5, <1>6 DEF t

\* The parent of the path that is left behind a link.
LEMMA RestFront ==
  ASSUME NEW s \in Seq(Names), NEW n \in 1..Len(s) - 1, NEW to \in Seq(Names)
  PROVE  LET rest == to \o SubSeq(s, n + 1, Len(s))
         IN  /\ rest \in Seq(Names) /\ rest # Root
             /\ Front(rest) = to \o SubSeq(Front(s), n + 1, Len(Front(s)))
             /\ Last(rest) = Last(s)
<1>1. Len(s) \in Nat \ {0} /\ s # Root
  BY LenProperties, FirstEnds
<1>2. n \in 0..Len(s) /\ Len(s) \in n..Len(s) /\ n + 1 \in 1..Len(s)
  BY <1>1
<1> DEFINE r == SubSeq(s, n + 1, Len(s))
           f == SubSeq(Front(s), n + 1, Len(Front(s)))
           rest == to \o r
<1>3. /\ r \in Seq(Names) /\ Len(r) = Len(s) - n
      /\ \A i \in 1..Len(s) - n : r[i] = s[n + i]
  BY <1>2, RestFacts
<1>4. /\ Front(s) \in Seq(Names) /\ Len(Front(s)) = Len(s) - 1
      /\ Front(s) = First(s, Len(s) - 1)
  BY <1>1, FrontFacts
<1>5. Len(s) - 1 \in 0..Len(s)
  BY <1>1
<1>6. \A i \in 1..Len(s) - 1 : Front(s)[i] = s[i]
  BY <1>4, <1>5, FirstFacts
<1>7. n \in 0..Len(Front(s)) /\ Len(Front(s)) \in n..Len(Front(s))
  BY <1>1, <1>4
<1>8. /\ f \in Seq(Names) /\ Len(f) = Len(s) - 1 - n
      /\ \A i \in 1..Len(s) - 1 - n : f[i] = Front(s)[n + i]
  BY <1>4, <1>7, RestFacts
<1>9. \A i \in 1..Len(s) - 1 - n : f[i] = r[i]
  <2>1. \A i \in 1..Len(s) - 1 - n : n + i \in 1..Len(s) - 1 /\ i \in 1..Len(s) - n
    BY <1>1
  <2> QED
    BY <2>1, <1>3, <1>6, <1>8
<1> HIDE DEF r, f
<1>10. Len(to) \in Nat
  BY LenProperties
<1>11. /\ rest \in Seq(Names) /\ Len(rest) = Len(to) + (Len(s) - n)
       /\ \A i \in 1..Len(to) + (Len(s) - n) :
             rest[i] = IF i <= Len(to) THEN to[i] ELSE r[i - Len(to)]
  <2>1. /\ rest \in Seq(Names) /\ Len(rest) = Len(to) + Len(r)
        /\ \A i \in 1..Len(to) + Len(r) :
              rest[i] = IF i <= Len(to) THEN to[i] ELSE r[i - Len(to)]
    BY <1>3, ConcatProperties
  <2> QED
    BY <2>1, <1>3
<1>12. /\ to \o f \in Seq(Names) /\ Len(to \o f) = Len(to) + (Len(s) - 1 - n)
       /\ \A i \in 1..Len(to) + (Len(s) - 1 - n) :
             (to \o f)[i] = IF i <= Len(to) THEN to[i] ELSE f[i - Len(to)]
  <2>1. /\ to \o f \in Seq(Names) /\ Len(to \o f) = Len(to) + Len(f)
        /\ \A i \in 1..Len(to) + Len(f) :
              (to \o f)[i] = IF i <= Len(to) THEN to[i] ELSE f[i - Len(to)]
    BY <1>8, ConcatProperties
  <2> QED
    BY <2>1, <1>8
<1> HIDE DEF rest
<1>13. rest # Root
  <2>1. Len(rest) # 0
    BY <1>1, <1>10, <1>11
  <2> QED
    BY <2>1, <1>11, FirstEnds
<1>14. /\ Front(rest) \in Seq(Names) /\ Len(Front(rest)) = Len(rest) - 1
       /\ Front(rest) = First(rest, Len(rest) - 1)
  BY <1>11, <1>13, FrontFacts
<1>15. \A i \in 1..Len(rest) - 1 : Front(rest)[i] = rest[i]
  <2>1. Len(rest) - 1 \in 0..Len(rest)
    BY <1>1, <1>10, <1>11
  <2>2. \A i \in 1..Len(rest) - 1 : First(rest, Len(rest) - 1)[i] = rest[i]
    BY <2>1, <1>11, FirstFacts
  <2> QED
    BY <2>2, <1>14
<1>16. Front(rest) = to \o f
  <2>1. Len(Front(rest)) = Len(to \o f)
    BY <1>1, <1>10, <1>11, <1>12, <1>14
  <2>2. ASSUME NEW i \in 1..Len(Front(rest))
        PROVE  Front(rest)[i] = (to \o f)[i]
    <3>1. /\ i \in 1..Len(rest) - 1 /\ i \in 1..Len(to) + (Len(s) - n)
          /\ i \in 1..Len(to) + (Len(s) - 1 - n)
      BY <1>1, <1>10, <1>11, <1>14
    <3>2. ~(i <= Len(to)) => i - Len(to) \in 1..Len(s) - 1 - n
      BY <3>1, <1>1, <1>10
    <3> QED
      BY <3>1, <3>2, <1>9, <1>11, <1>12, <1>15
  <2> QED
    BY <2>1, <2>2, <1>12, <1>14, SeqEqual
<1>17. Last(rest) = Last(s)
  <2>1. /\ Len(rest) \in 1..Len(to) + (Len(s) - n) /\ ~(Len(rest) <= Len(to))
        /\ Len(rest) - Len(to) = Len(s) - n /\ Len(s) - n \in 1..Len(s) - n
        /\ n + (Len(s) - n) = Len(s)
    BY <1>1, <1>10, <1>11
  <2>2. rest[Len(rest)] = r[Len(s) - n]
    BY <2>1, <1>11
  <2>3. r[Len(s) - n] = s[Len(s)]
    BY <2>1, <1>3
  <2> QED
    BY <2>2, <2>3 DEF Last
<1> QED
  BY <1>11, <1>13, <1>16, <1>17 DEF rest, r, f

-----------------------------------------------------------------------------
(* What Walks computes, for contents of the shape of a file system. *)

\* Every path but the root is in a directory, and links hold paths.
Shape(C) == /\ DOMAIN C \subseteq Seq(Names)
            /\ Has(C, Root, "dir")
            /\ \A p \in DOMAIN C : /\ C[p].type \in {"dir", "file", "link"}
                                   /\ C[p].type = "link" => C[p].to \in Seq(Names)
            /\ \A p \in DOMAIN C : \A n \in 0..Len(p) - 1 : Has(C, First(p, n), "dir")

\* The induction on the number of links.
LEMMA LinksInduction ==
  ASSUME NEW S, \A l \in 0..MaxLinks : (l # 0 => l - 1 \in S) => l \in S
  PROVE  0..MaxLinks \subseteq S
<1> DEFINE U == {l \in Nat : l <= MaxLinks => l \in S}
<1>1. 0 \in U
  BY DEF MaxLinks
<1>2. ASSUME NEW l \in Nat, l \in U
      PROVE  l + 1 \in U
  <2>1. SUFFICES ASSUME l + 1 <= MaxLinks
                 PROVE  l + 1 \in S
    OBVIOUS
  <2>2. l + 1 \in 0..MaxLinks /\ l <= MaxLinks /\ (l + 1) - 1 = l
    BY <2>1 DEF MaxLinks
  <2> QED
    BY <1>2, <2>2
<1>3. Nat \subseteq U
  <2> HIDE DEF U
  <2> QED
    BY <1>1, <1>2, Induction
<1> QED
  BY <1>3 DEF MaxLinks

\* A walk that does not stop.
LEMMA WalkDown ==
  ASSUME NEW C, NEW l \in 0..MaxLinks, NEW path \in Seq(Names),
         \A i \in 1..Len(path) : Has(C, First(path, i), "dir")
  PROVE  Walks(C)[l][path] = Found(path)
<1>1. Walks(C)[l] = Follow(C, l, Walks(C)[l - 1])
  BY WalksLevels
<1>2. Stops(C, path) = {}
  <2>1. DOMAIN path = 1..Len(path)
    BY LenProperties
  <2> QED
    BY <2>1 DEF Stops
<1> QED
  BY <1>1, <1>2 DEF Follow

\* A walk that stops at component n.
LEMMA WalkStops ==
  ASSUME NEW C, NEW l \in 0..MaxLinks, NEW path \in Seq(Names),
         NEW n \in 1..Len(path),
         ~Has(C, First(path, n), "dir"),
         \A i \in 1..n - 1 : Has(C, First(path, i), "dir")
  PROVE  LET p == First(path, n)
             w == Walks(C)[l][path]
         IN  /\ p \notin DOMAIN C => w = Error("not_found")
             /\ Has(C, p, "file") /\ n = Len(path) => w = Found(p)
             /\ Has(C, p, "file") /\ n # Len(path) => w = Error("not_dir")
             /\ Has(C, p, "link") /\ l = 0 => w = Error("loop")
             /\ Has(C, p, "link") /\ l # 0 =>
                   w = Walks(C)[l - 1][C[p].to \o SubSeq(path, n + 1, Len(path))]
<1>1. Walks(C)[l] = Follow(C, l, Walks(C)[l - 1])
  BY WalksLevels
<1>2. DOMAIN path = 1..Len(path) /\ Len(path) \in Nat
  BY LenProperties
<1>3. n \in Stops(C, path) /\ Stops(C, path) \subseteq Nat
  BY <1>2 DEF Stops
<1>4. /\ Min(Stops(C, path)) \in Stops(C, path)
      /\ Min(Stops(C, path)) <= n
  BY <1>3, MinChosen
<1>5. /\ Min(Stops(C, path)) \in 1..Len(path)
      /\ ~Has(C, First(path, Min(Stops(C, path))), "dir")
  BY <1>2, <1>4 DEF Stops
<1>6. Min(Stops(C, path)) = n
  <2>1. Min(Stops(C, path)) \notin 1..n - 1
    BY <1>5
  <2> QED
    BY <1>2, <1>4, <1>5, <2>1
<1> DEFINE p == First(path, n)
<1>7. Walks(C)[l][path] =
         CASE p \notin DOMAIN C -> Error("not_found")
           [] Has(C, p, "file") -> IF n = Len(path) THEN Found(p) ELSE Error("not_dir")
           [] Has(C, p, "link") -> IF l = 0 THEN Error("loop")
                                   ELSE Walks(C)[l - 1][C[p].to \o SubSeq(path, n + 1, Len(path))]
  BY <1>1, <1>3, <1>6, Zenon DEF Follow
<1> HIDE DEF p
<1>8. /\ ~(Has(C, p, "file") /\ Has(C, p, "link"))
      /\ Has(C, p, "file") \/ Has(C, p, "link") => p \in DOMAIN C
  BY DEF Has
<1>9. /\ p \notin DOMAIN C => Walks(C)[l][path] = Error("not_found")
      /\ Has(C, p, "file") => Walks(C)[l][path] = IF n = Len(path) THEN Found(p) ELSE Error("not_dir")
      /\ Has(C, p, "link") => Walks(C)[l][path] = IF l = 0 THEN Error("loop")
             ELSE Walks(C)[l - 1][C[p].to \o SubSeq(path, n + 1, Len(path))]
  BY <1>7, <1>8
<1> QED
  BY <1>9 DEF p

\* Either a walk does not stop, or it stops somewhere for the first time.
LEMMA WalkCases ==
  ASSUME NEW C, NEW path \in Seq(Names)
  PROVE  \/ \A i \in 1..Len(path) : Has(C, First(path, i), "dir")
         \/ \E n \in 1..Len(path) : /\ ~Has(C, First(path, n), "dir")
                                    /\ \A i \in 1..n - 1 : Has(C, First(path, i), "dir")
<1> DEFINE S == {i \in 1..Len(path) : ~Has(C, First(path, i), "dir")}
<1>1. Len(path) \in Nat
  BY LenProperties
<1>2. CASE S = {}
  BY <1>2
<1>3. CASE S # {}
  <2>1. S \subseteq Nat
    BY <1>1
  <2>2. PICK n \in S : \A k \in S : n <= k
    <3> HIDE DEF S
    <3> QED
      BY <1>3, <2>1, Minimum
  <2>3. ASSUME NEW i \in 1..n - 1
        PROVE  Has(C, First(path, i), "dir")
    <3>1. i \in 1..Len(path) /\ ~(n <= i)
      BY <1>1
    <3> QED
      BY <2>2, <3>1
  <2> QED
    BY <2>2, <2>3
<1> QED
  BY <1>2, <1>3

\* What is left to walk, behind a link.
LEMMA BehindLink ==
  ASSUME NEW C, Shape(C), NEW path \in Seq(Names), NEW n \in 1..Len(path),
         Has(C, First(path, n), "link")
  PROVE  C[First(path, n)].to \o SubSeq(path, n + 1, Len(path)) \in Seq(Names)
<1>1. C[First(path, n)].to \in Seq(Names)
  BY DEF Has, Shape
<1>2. n \in 0..Len(path) /\ Len(path) \in n..Len(path)
  BY LenProperties
<1>3. SubSeq(path, n + 1, Len(path)) \in Seq(Names)
  BY <1>2, RestFacts
<1> QED
  BY <1>1, <1>3, ConcatProperties

\* What a path leads to is a directory or a file, if it leads to anything.
IsFound(C, w) == \/ w.err \in {"not_found", "not_dir", "loop"}
                 \/ /\ w = Found(w.at) /\ w.err = "none"
                    /\ w.at \in Seq(Names)
                    /\ Has(C, w.at, "dir") \/ Has(C, w.at, "file")

\* By induction on the links still allowed and on the length of the path, every walk has such a result.
LEMMA WalkType ==
  ASSUME NEW C, Shape(C)
  PROVE  \A l \in 0..MaxLinks : \A path \in Seq(Names) : IsFound(C, Walks(C)[l][path])
<1> DEFINE S == {l \in 0..MaxLinks : \A path \in Seq(Names) : IsFound(C, Walks(C)[l][path])}
<1>1. ASSUME NEW l \in 0..MaxLinks, NEW path \in Seq(Names),
             l # 0 => \A rest \in Seq(Names) : IsFound(C, Walks(C)[l - 1][rest])
      PROVE  IsFound(C, Walks(C)[l][path])
  <2>1. CASE \A i \in 1..Len(path) : Has(C, First(path, i), "dir")
    <3>1. Walks(C)[l][path] = Found(path)
      BY <2>1, WalkDown
    <3>2. Has(C, path, "dir")
      <4>1. CASE path = Root
        BY <4>1 DEF Shape
      <4>2. CASE path # Root
        <5>1. Len(path) \in 1..Len(path)
          BY <4>2, LenProperties, FirstEnds
        <5> QED
          BY <5>1, <2>1, FirstEnds
      <4> QED
        BY <4>1, <4>2
    <3> QED
      BY <3>1, <3>2 DEF IsFound, Found
  <2>2. ASSUME NEW n \in 1..Len(path), ~Has(C, First(path, n), "dir"),
               \A i \in 1..n - 1 : Has(C, First(path, i), "dir")
        PROVE  IsFound(C, Walks(C)[l][path])
    <3> DEFINE p == First(path, n)
    <3>1. p \in Seq(Names)
      <4>1. n \in 0..Len(path)
        BY LenProperties
      <4> QED
        BY <4>1, FirstFacts
    <3>2. p \notin DOMAIN C \/ Has(C, p, "file") \/ Has(C, p, "link")
      BY <2>2 DEF Has, Shape
    <3>3. CASE p \notin DOMAIN C
      <4>1. Walks(C)[l][path] = Error("not_found")
        BY <3>3, <2>2, WalkStops
      <4> QED
        BY <4>1 DEF IsFound, Error
    <3>4. CASE Has(C, p, "file")
      <4>1. Walks(C)[l][path] \in {Found(p), Error("not_dir")}
        BY <3>4, <2>2, WalkStops
      <4> QED
        BY <4>1, <3>1, <3>4 DEF IsFound, Error, Found
    <3>5. CASE Has(C, p, "link") /\ l = 0
      <4>1. Walks(C)[l][path] = Error("loop")
        BY <3>5, <2>2, WalkStops
      <4> QED
        BY <4>1 DEF IsFound, Error
    <3>6. CASE Has(C, p, "link") /\ l # 0
      <4>1. C[p].to \o SubSeq(path, n + 1, Len(path)) \in Seq(Names)
        BY <3>6, BehindLink
      <4>2. Walks(C)[l][path] = Walks(C)[l - 1][C[p].to \o SubSeq(path, n + 1, Len(path))]
        BY <3>6, <2>2, WalkStops
      <4> QED
        BY <4>1, <4>2, <3>6, <1>1
    <3> QED
      BY <3>2, <3>3, <3>4, <3>5, <3>6
  <2> QED
    BY <2>1, <2>2, WalkCases
<1>2. \A l \in 0..MaxLinks : (l # 0 => l - 1 \in S) => l \in S
  BY <1>1
<1>3. 0..MaxLinks \subseteq S
  <2> HIDE DEF S
  <2> QED
    BY <1>2, LinksInduction
<1> QED
  BY <1>3

\* The prefixes of the parent of a path.
LEMMA FirstOfFront ==
  ASSUME NEW s \in Seq(Names), s # Root
  PROVE  /\ Front(s) \in Seq(Names) /\ Len(Front(s)) = Len(s) - 1
         /\ \A i \in 0..Len(s) - 1 : First(Front(s), i) = First(s, i)
<1>1. /\ Front(s) \in Seq(Names) /\ Len(Front(s)) = Len(s) - 1
      /\ Front(s) = First(s, Len(s) - 1) /\ Len(s) \in Nat \ {0}
  BY FrontFacts
<1>2. Len(s) - 1 \in 0..Len(s)
  BY <1>1
<1> QED
  BY <1>1, <1>2, FirstOfFirst

\* What leads to a directory or a file leads to a directory without its last component.
LEMMA WalkFront ==
  ASSUME NEW C, Shape(C)
  PROVE  \A l \in 0..MaxLinks : \A path \in Seq(Names) \ {Root} :
            Walks(C)[l][path].err = "none" =>
               \E at \in Seq(Names) : Walks(C)[l][Front(path)] = Found(at) /\ Has(C, at, "dir")
<1> DEFINE Goal(l, path) == \E at \in Seq(Names) :
                               Walks(C)[l][Front(path)] = Found(at) /\ Has(C, at, "dir")
           S == {l \in 0..MaxLinks : \A path \in Seq(Names) \ {Root} :
                    Walks(C)[l][path].err = "none" => Goal(l, path)}
<1>1. ASSUME NEW l \in 0..MaxLinks, NEW path \in Seq(Names) \ {Root},
             Walks(C)[l][path].err = "none",
             l # 0 => l - 1 \in S
      PROVE  Goal(l, path)
  <2>1. /\ Front(path) \in Seq(Names) /\ Len(Front(path)) = Len(path) - 1
        /\ \A i \in 0..Len(path) - 1 : First(Front(path), i) = First(path, i)
    BY FirstOfFront
  <2>2. Len(path) \in Nat \ {0} /\ Front(path) = First(path, Len(path) - 1)
    BY FrontFacts
  <2>3. CASE \A i \in 1..Len(path) - 1 : Has(C, First(path, i), "dir")
    <3>1. \A i \in 1..Len(Front(path)) : Has(C, First(Front(path), i), "dir")
      BY <2>1, <2>3
    <3>2. Walks(C)[l][Front(path)] = Found(Front(path))
      BY <2>1, <3>1, WalkDown
    <3>3. Has(C, Front(path), "dir")
      <4>1. CASE Front(path) = Root
        BY <4>1 DEF Shape
      <4>2. CASE Front(path) # Root
        <5>1. Len(Front(path)) \in 1..Len(Front(path))
          BY <4>2, <2>1, LenProperties, FirstEnds
        <5>2. Len(path) - 1 \in 1..Len(path) - 1
          BY <5>1, <2>1
        <5> QED
          BY <5>2, <2>2, <2>3
      <4> QED
        BY <4>1, <4>2
    <3> QED
      BY <2>1, <3>2, <3>3
  <2>4. ASSUME NEW n \in 1..Len(path) - 1, ~Has(C, First(path, n), "dir"),
               \A i \in 1..n - 1 : Has(C, First(path, i), "dir")
        PROVE  Goal(l, path)
    <3> DEFINE p == First(path, n)
               rest == C[p].to \o SubSeq(path, n + 1, Len(path))
    <3>1. n \in 1..Len(path) /\ n # Len(path) /\ n \in 1..Len(Front(path))
      BY <2>1, <2>2
    <3>2. Has(C, p, "link") /\ l # 0
      <4>1. /\ p \notin DOMAIN C => Walks(C)[l][path] = Error("not_found")
            /\ Has(C, p, "file") => Walks(C)[l][path] = Error("not_dir")
            /\ Has(C, p, "link") /\ l = 0 => Walks(C)[l][path] = Error("loop")
        BY <2>4, <3>1, WalkStops
      <4>2. p \notin DOMAIN C \/ Has(C, p, "file") \/ Has(C, p, "link")
        BY <2>4 DEF Has, Shape
      <4> QED
        BY <1>1, <4>1, <4>2 DEF Error
    <3>3. C[p].to \in Seq(Names)
      BY <3>2 DEF Has, Shape
    <3>4. rest \in Seq(Names) /\ rest # Root
      BY <3>3, RestFront
    <3>5. Front(rest) = C[p].to \o SubSeq(Front(path), n + 1, Len(Front(path)))
      BY <3>3, RestFront
    <3>6. Walks(C)[l][path] = Walks(C)[l - 1][rest]
      BY <2>4, <3>1, <3>2, WalkStops
    <3>7. Walks(C)[l][Front(path)] = Walks(C)[l - 1][Front(rest)]
      <4>1. First(Front(path), n) = p
        BY <2>1, <2>2
      <4>2. \A i \in 1..n - 1 : Has(C, First(Front(path), i), "dir")
        <5>1. \A i \in 1..n - 1 : i \in 0..Len(path) - 1
          BY <2>2
        <5> QED
          BY <5>1, <2>1, <2>4
      <4>3. ~Has(C, First(Front(path), n), "dir")
        BY <4>1, <2>4
      <4>4. Has(C, First(Front(path), n), "link")
        BY <4>1, <3>2
      <4> HIDE DEF p
      <4>5. Walks(C)[l][Front(path)] = Walks(C)[l - 1][C[First(Front(path), n)].to
                                          \o SubSeq(Front(path), n + 1, Len(Front(path)))]
        <5> DEFINE f == Front(path)
        <5>1. f \in Seq(Names) /\ n \in 1..Len(f) /\ l # 0
          BY <2>1, <3>1, <3>2
        <5>2. \A i \in 1..n - 1 : Has(C, First(f, i), "dir")
          BY <4>2
        <5>3. ~Has(C, First(f, n), "dir") /\ Has(C, First(f, n), "link")
          BY <4>3, <4>4
        <5> HIDE DEF f
        <5>4. Walks(C)[l][f] = Walks(C)[l - 1][C[First(f, n)].to \o SubSeq(f, n + 1, Len(f))]
          BY <5>1, <5>2, <5>3, WalkStops
        <5> QED
          BY <5>4 DEF f
      <4> QED
        BY <4>1, <4>5, <3>5
    <3> HIDE DEF rest
    <3>8. Goal(l - 1, rest)
      BY <1>1, <3>2, <3>4, <3>6
    <3> QED
      BY <3>7, <3>8
  <2>5. \/ \A i \in 1..Len(path) - 1 : Has(C, First(path, i), "dir")
        \/ \E n \in 1..Len(path) - 1 : /\ ~Has(C, First(path, n), "dir")
                                       /\ \A i \in 1..n - 1 : Has(C, First(path, i), "dir")
    <3>1. \/ \A i \in 1..Len(path) : Has(C, First(path, i), "dir")
          \/ \E n \in 1..Len(path) : /\ ~Has(C, First(path, n), "dir")
                                     /\ \A i \in 1..n - 1 : Has(C, First(path, i), "dir")
      BY WalkCases
    <3> QED
      BY <3>1, <2>2
  <2> QED
    BY <2>3, <2>4, <2>5
<1>2. \A l \in 0..MaxLinks : (l # 0 => l - 1 \in S) => l \in S
  BY <1>1
<1>3. 0..MaxLinks \subseteq S
  <2> HIDE DEF S
  <2> QED
    BY <1>2, LinksInduction
<1> QED
  BY <1>3

\* A directory in the directory that a path leads to is where the longer path leads.
LEMMA WalkInto ==
  ASSUME NEW C, Shape(C)
  PROVE  \A l \in 0..MaxLinks : \A path \in Seq(Names) \ {Root} : \A at \in Seq(Names) :
            /\ Walks(C)[l][Front(path)] = Found(at)
            /\ Has(C, at, "dir")
            /\ Has(C, Append(at, Last(path)), "dir")
            => Walks(C)[l][path] = Found(Append(at, Last(path)))
<1> DEFINE Hyp(l, path, at) == /\ Walks(C)[l][Front(path)] = Found(at)
                               /\ Has(C, at, "dir")
                               /\ Has(C, Append(at, Last(path)), "dir")
           Goal(l, path, at) == Walks(C)[l][path] = Found(Append(at, Last(path)))
           S == {l \in 0..MaxLinks : \A path \in Seq(Names) \ {Root} : \A at \in Seq(Names) :
                    Hyp(l, path, at) => Goal(l, path, at)}
<1>1. ASSUME NEW l \in 0..MaxLinks, NEW path \in Seq(Names) \ {Root}, NEW at \in Seq(Names),
             Hyp(l, path, at),
             l # 0 => l - 1 \in S
      PROVE  Goal(l, path, at)
  <2>1. /\ Front(path) \in Seq(Names) /\ Len(Front(path)) = Len(path) - 1
        /\ \A i \in 0..Len(path) - 1 : First(Front(path), i) = First(path, i)
    BY FirstOfFront
  <2>2. Len(path) \in Nat \ {0} /\ Append(Front(path), Last(path)) = path
    BY FrontFacts
  <2>3. CASE \A i \in 1..Len(Front(path)) : Has(C, First(Front(path), i), "dir")
    <3>1. Walks(C)[l][Front(path)] = Found(Front(path))
      BY <2>1, <2>3, WalkDown
    <3>2. at = Front(path)
      BY <1>1, <3>1 DEF Found
    <3>3. Has(C, path, "dir")
      BY <1>1, <2>2, <3>2
    <3>4. ASSUME NEW i \in 1..Len(path)
          PROVE  Has(C, First(path, i), "dir")
      <4>1. CASE i = Len(path)
        BY <4>1, <3>3, FirstEnds
      <4>2. CASE i # Len(path)
        BY <4>2, <2>1, <2>2, <2>3
      <4> QED
        BY <4>1, <4>2
    <3>5. Walks(C)[l][path] = Found(path)
      BY <3>4, WalkDown
    <3> QED
      BY <2>2, <3>2, <3>5
  <2>4. ASSUME NEW n \in 1..Len(Front(path)), ~Has(C, First(Front(path), n), "dir"),
               \A i \in 1..n - 1 : Has(C, First(Front(path), i), "dir")
        PROVE  Goal(l, path, at)
    <3> DEFINE p == First(path, n)
               rest == C[p].to \o SubSeq(path, n + 1, Len(path))
    <3>1. /\ n \in 1..Len(path) - 1 /\ n \in 1..Len(path) /\ n # Len(path)
          /\ First(Front(path), n) = p
      BY <2>1, <2>2
    <3>2. /\ ~Has(C, p, "dir") /\ ~Has(C, First(path, n), "dir")
          /\ \A i \in 1..n - 1 : Has(C, First(path, i), "dir")
      <4>1. \A i \in 1..n - 1 : i \in 0..Len(path) - 1
        BY <2>2, <3>1
      <4> QED
        BY <4>1, <2>1, <2>4, <3>1
    <3>3. Has(C, p, "link") /\ l # 0
      <4>1. /\ p \notin DOMAIN C => Walks(C)[l][Front(path)] = Error("not_found")
            /\ Has(C, p, "file") => Walks(C)[l][Front(path)] \in {Found(p), Error("not_dir")}
            /\ Has(C, p, "link") /\ l = 0 => Walks(C)[l][Front(path)] = Error("loop")
        <5> DEFINE f == Front(path)
                   r == First(f, n)
        <5>1. f \in Seq(Names) /\ n \in 1..Len(f) /\ r = p
          BY <2>1, <3>1
        <5>2. ~Has(C, First(f, n), "dir") /\ \A i \in 1..n - 1 : Has(C, First(f, i), "dir")
          BY <2>4
        <5> HIDE DEF f, p
        <5>3. /\ r \notin DOMAIN C => Walks(C)[l][f] = Error("not_found")
              /\ Has(C, r, "file") => Walks(C)[l][f] \in {Found(r), Error("not_dir")}
              /\ Has(C, r, "link") /\ l = 0 => Walks(C)[l][f] = Error("loop")
          BY <5>1, <5>2, WalkStops
        <5> HIDE DEF r
        <5> QED
          BY <5>1, <5>3 DEF f
      <4>2. p \notin DOMAIN C \/ Has(C, p, "file") \/ Has(C, p, "link")
        BY <3>2 DEF Has, Shape
      <4>3. Walks(C)[l][Front(path)].err = "none" /\ Walks(C)[l][Front(path)].at # p
        BY <1>1, <3>2 DEF Found
      <4> HIDE DEF p
      <4>4. Found(p).at = p /\ Error("not_found").err # "none" /\ Error("not_dir").err # "none"
            /\ Error("loop").err # "none"
        BY DEF Found, Error
      <4> QED
        BY <4>1, <4>2, <4>3, <4>4
    <3>4. C[p].to \in Seq(Names)
      BY <3>3 DEF Has, Shape
    <3>5. /\ rest \in Seq(Names) /\ rest # Root /\ Last(rest) = Last(path)
          /\ Front(rest) = C[p].to \o SubSeq(Front(path), n + 1, Len(Front(path)))
      BY <3>1, <3>4, RestFront
    <3>6. Walks(C)[l][path] = Walks(C)[l - 1][rest]
      BY <3>1, <3>2, <3>3, WalkStops
    <3>7. Walks(C)[l][Front(path)] = Walks(C)[l - 1][Front(rest)]
      <4>1. Has(C, First(Front(path), n), "link")
        BY <3>1, <3>3
      <4>2. Walks(C)[l][Front(path)] = Walks(C)[l - 1][C[First(Front(path), n)].to
                                          \o SubSeq(Front(path), n + 1, Len(Front(path)))]
        <5>1. Front(path) \in Seq(Names) /\ n \in 1..Len(Front(path)) /\ l \in 0..MaxLinks
          BY <2>1
        <5>2. /\ ~Has(C, First(Front(path), n), "dir")
              /\ \A i \in 1..n - 1 : Has(C, First(Front(path), i), "dir")
          BY <2>4
        <5> QED
          BY <5>1, <5>2, <3>3, <4>1, WalkStops
      <4> QED
        BY <4>2, <3>1, <3>5
    <3> HIDE DEF rest
    <3>8. Hyp(l - 1, rest, at)
      BY <1>1, <3>5, <3>7
    <3>9. Goal(l - 1, rest, at)
      BY <1>1, <3>3, <3>5, <3>8
    <3> QED
      BY <3>5, <3>6, <3>9
  <2> QED
    BY <2>1, <2>3, <2>4, WalkCases
<1>2. \A l \in 0..MaxLinks : (l # 0 => l - 1 \in S) => l \in S
  BY <1>1
<1>3. 0..MaxLinks \subseteq S
  <2> HIDE DEF S
  <2> QED
    BY <1>2, LinksInduction
<1> QED
  BY <1>3

\* New nodes do not change what is found.
Extends(D, C) == DOMAIN C \subseteq DOMAIN D /\ \A p \in DOMAIN C : D[p] = C[p]

\* What was found is found at the same place in a tree that has more (openat2 reads only what is on the way).
LEMMA WalkExtends ==
  ASSUME NEW C, NEW D, Shape(C), Extends(D, C)
  PROVE  \A l \in 0..MaxLinks : \A path \in Seq(Names) :
            Walks(C)[l][path].err = "none" => Walks(D)[l][path] = Walks(C)[l][path]
<1> DEFINE S == {l \in 0..MaxLinks : \A path \in Seq(Names) :
                    Walks(C)[l][path].err = "none" => Walks(D)[l][path] = Walks(C)[l][path]}
<1>1. \A p, type : Has(C, p, type) => Has(D, p, type)
  BY DEF Has, Extends
<1>2. ASSUME NEW l \in 0..MaxLinks, NEW path \in Seq(Names),
             Walks(C)[l][path].err = "none",
             l # 0 => l - 1 \in S
      PROVE  Walks(D)[l][path] = Walks(C)[l][path]
  <2>1. CASE \A i \in 1..Len(path) : Has(C, First(path, i), "dir")
    <3>1. \A i \in 1..Len(path) : Has(D, First(path, i), "dir")
      BY <1>1, <2>1
    <3>2. Walks(C)[l][path] = Found(path)
      BY <2>1, WalkDown
    <3>3. Walks(D)[l][path] = Found(path)
      BY <3>1, WalkDown
    <3> QED
      BY <3>2, <3>3
  <2>2. ASSUME NEW n \in 1..Len(path), ~Has(C, First(path, n), "dir"),
               \A i \in 1..n - 1 : Has(C, First(path, i), "dir")
        PROVE  Walks(D)[l][path] = Walks(C)[l][path]
    <3> DEFINE p == First(path, n)
               rest == C[p].to \o SubSeq(path, n + 1, Len(path))
    <3>1. /\ p \notin DOMAIN C => Walks(C)[l][path] = Error("not_found")
          /\ Has(C, p, "file") /\ n = Len(path) => Walks(C)[l][path] = Found(p)
          /\ Has(C, p, "file") /\ n # Len(path) => Walks(C)[l][path] = Error("not_dir")
          /\ Has(C, p, "link") /\ l = 0 => Walks(C)[l][path] = Error("loop")
          /\ Has(C, p, "link") /\ l # 0 => Walks(C)[l][path] = Walks(C)[l - 1][rest]
      BY <2>2, WalkStops
    <3>2. p \in DOMAIN C /\ (Has(C, p, "file") \/ Has(C, p, "link"))
      BY <1>2, <2>2, <3>1 DEF Has, Shape, Error
    <3>3. D[p] = C[p] /\ ~Has(D, p, "dir")
      BY <2>2, <3>2 DEF Has, Extends
    <3>4. \A i \in 1..n - 1 : Has(D, First(path, i), "dir")
      BY <1>1, <2>2
    <3>5. /\ Has(D, p, "file") /\ n = Len(path) => Walks(D)[l][path] = Found(p)
          /\ Has(D, p, "link") /\ l # 0 =>
                Walks(D)[l][path] = Walks(D)[l - 1][D[p].to \o SubSeq(path, n + 1, Len(path))]
      BY <3>3, <3>4, WalkStops
    <3>6. CASE Has(C, p, "file")
      <4>1. n = Len(path)
        BY <1>2, <3>1, <3>6 DEF Error
      <4> QED
        BY <4>1, <3>1, <3>5, <3>6, <1>1
    <3>7. CASE Has(C, p, "link")
      <4>1. l # 0
        BY <1>2, <3>1, <3>7 DEF Error
      <4>2. rest \in Seq(Names)
        BY <3>7, BehindLink
      <4>3. Walks(C)[l][path] = Walks(C)[l - 1][rest] /\ Walks(D)[l][path] = Walks(D)[l - 1][rest]
        BY <4>1, <3>1, <3>3, <3>5, <3>7, <1>1
      <4> HIDE DEF rest
      <4> QED
        BY <4>1, <4>2, <4>3, <1>2
    <3> QED
      BY <3>2, <3>6, <3>7
  <2> QED
    BY <2>1, <2>2, WalkCases
<1>3. \A l \in 0..MaxLinks : (l # 0 => l - 1 \in S) => l \in S
  BY <1>2
<1>4. 0..MaxLinks \subseteq S
  <2> HIDE DEF S
  <2> QED
    BY <1>3, LinksInduction
<1> QED
  BY <1>4

-----------------------------------------------------------------------------
(* Trees and their contents. *)

\* What an open directory can see of a tree has the paths of the tree.
LEMMA ContentsFacts ==
  ASSUME NEW T
  PROVE  /\ DOMAIN Contents(T) = DOMAIN T
         /\ \A p \in DOMAIN T : Contents(T)[p] = Content(T[p])
BY DEF Contents

\* What can be seen of one node: its type, and where a link leads.
LEMMA ContentFacts ==
  ASSUME NEW node, node.type \in {"dir", "file", "link"}
  PROVE  /\ Content(node).type = node.type
         /\ node.type = "link" => Content(node).to = node.to
         /\ node.type = "dir" => Content(node) = [type |-> "dir"]
BY DEF Content

\* A tree and its contents have the same types at each path.
LEMMA ContentsHave ==
  ASSUME NEW T, Shape(T)
  PROVE  /\ \A p, type : Has(Contents(T), p, type) <=> Has(T, p, type)
         /\ Shape(Contents(T))
<1>1. \A p \in DOMAIN T : /\ T[p].type \in {"dir", "file", "link"}
                          /\ Contents(T)[p].type = T[p].type
                          /\ T[p].type = "link" => Contents(T)[p].to = T[p].to
  BY ContentsFacts, ContentFacts DEF Shape
<1>2. \A p, type : Has(Contents(T), p, type) <=> Has(T, p, type)
  BY <1>1, ContentsFacts DEF Has
<1>3. /\ DOMAIN Contents(T) \subseteq Seq(Names)
      /\ Has(Contents(T), Root, "dir")
  BY <1>2, ContentsFacts DEF Shape
<1>4. \A p \in DOMAIN Contents(T) :
         /\ Contents(T)[p].type \in {"dir", "file", "link"}
         /\ Contents(T)[p].type = "link" => Contents(T)[p].to \in Seq(Names)
  BY <1>1, ContentsFacts DEF Shape
<1>5. \A p \in DOMAIN Contents(T) : \A n \in 0..Len(p) - 1 : Has(Contents(T), First(p, n), "dir")
  BY <1>2, ContentsFacts DEF Shape
<1> QED
  BY <1>2, <1>3, <1>4, <1>5 DEF Shape

\* Where a path leads depends on the contents only.
LEMMA SameWalk ==
  ASSUME NEW T, NEW U, Shape(T), Shape(U), Contents(T) = Contents(U), NEW path
  PROVE  /\ DOMAIN T = DOMAIN U
         /\ \A p, type : Has(T, p, type) <=> Has(U, p, type)
         /\ Walk(T, path) = Walk(U, path)
         /\ WalkToDir(T, path) = WalkToDir(U, path)
<1>1. DOMAIN T = DOMAIN U
  BY ContentsFacts
<1>2. \A p, type : Has(T, p, type) <=> Has(U, p, type)
  BY ContentsHave
<1>3. Walk(T, path) = Walk(U, path)
  BY DEF Walk
<1>4. WalkToDir(T, path) = WalkToDir(U, path)
  BY <1>2, <1>3 DEF WalkToDir, DirOnly
<1> QED
  BY <1>1, <1>2, <1>3, <1>4

\* Either a path leads to a directory, or there is an error.
LEMMA WalkToDirType ==
  ASSUME NEW T, Shape(T), NEW path \in Seq(Names)
  PROVE  LET w == WalkToDir(T, path)
         IN  \/ w.err \in {"not_found", "not_dir", "loop"}
             \/ /\ w.err = "none" /\ w = Found(w.at) /\ w = Walk(T, path)
                /\ w.at \in Seq(Names)
                /\ Has(T, w.at, "dir")
<1> DEFINE w == Walk(T, path)
<1>1. MaxLinks \in 0..MaxLinks
  BY DEF MaxLinks
<1>2. IsFound(Contents(T), w)
  BY <1>1, ContentsHave, WalkType DEF Walk
<1>3. \/ w.err \in {"not_found", "not_dir", "loop"}
      \/ w = Found(w.at) /\ w.err = "none" /\ w.at \in Seq(Names)
  BY <1>2 DEF IsFound
<1>4. WalkToDir(T, path) = IF w.err = "none" /\ ~Has(T, w.at, "dir") THEN Error("not_dir") ELSE w
  BY DEF WalkToDir, DirOnly
<1> HIDE DEF w
<1>5. Error("not_dir").err = "not_dir"
  BY DEF Error
<1>6. CASE w.err = "none" /\ ~Has(T, w.at, "dir")
  BY <1>4, <1>5, <1>6
<1>7. CASE ~(w.err = "none" /\ ~Has(T, w.at, "dir"))
  <2>1. WalkToDir(T, path) = w
    BY <1>4, <1>7
  <2> QED
    BY <2>1, <1>3, <1>7 DEF w
<1> QED
  BY <1>6, <1>7

\* The path of a directory, with no links in it, leads to it.
LEMMA WalkReal ==
  ASSUME NEW T, Shape(T), NEW p, Has(T, p, "dir")
  PROVE  p \in Seq(Names) /\ Walk(T, p) = Found(p) /\ WalkToDir(T, p) = Found(p)
<1>1. p \in Seq(Names)
  BY DEF Has, Shape
<1>2. \A i \in 1..Len(p) : Has(T, First(p, i), "dir")
  <2>1. SUFFICES ASSUME NEW i \in 1..Len(p)
                 PROVE  Has(T, First(p, i), "dir")
    OBVIOUS
  <2>2. Len(p) \in Nat
    BY <1>1, LenProperties
  <2>3. CASE i = Len(p)
    BY <2>3, <1>1, FirstEnds
  <2>4. CASE i # Len(p)
    <3>1. i \in 0..Len(p) - 1
      BY <2>2, <2>4
    <3> QED
      BY <3>1 DEF Has, Shape
  <2> QED
    BY <2>3, <2>4
<1>3. \A i \in 1..Len(p) : Has(Contents(T), First(p, i), "dir")
  BY <1>2, ContentsHave
<1>4. MaxLinks \in 0..MaxLinks
  BY DEF MaxLinks
<1>5. Walk(T, p) = Found(p)
  BY <1>1, <1>3, <1>4, WalkDown DEF Walk
<1>6. WalkToDir(T, p) = Found(p)
  BY <1>5 DEF WalkToDir, DirOnly, Found
<1> QED
  BY <1>1, <1>5, <1>6

\* What is not there, in a directory that is, is not found.
LEMMA WalkMissing ==
  ASSUME NEW T, Shape(T), NEW at, Has(T, at, "dir"), NEW x \in Names,
         Append(at, x) \notin DOMAIN T
  PROVE  WalkToDir(T, Append(at, x)) = Error("not_found")
<1> DEFINE p == Append(at, x)
<1>1. at \in Seq(Names) /\ Len(at) \in Nat
  BY LenProperties DEF Has, Shape
<1>2. /\ p \in Seq(Names) /\ Len(p) = Len(at) + 1
      /\ \A n \in 0..Len(at) : First(p, n) = First(at, n)
  BY <1>1, AppendFacts
<1>3. First(p, Len(p)) = p
  BY <1>2, FirstEnds
<1>4. p \notin DOMAIN Contents(T) /\ ~Has(Contents(T), p, "dir")
  BY ContentsFacts DEF Has
<1>5. \A i \in 1..Len(p) - 1 : Has(T, First(p, i), "dir")
  <2>1. SUFFICES ASSUME NEW i \in 1..Len(at)
                 PROVE  Has(T, First(at, i), "dir")
    <3>1. \A i \in 1..Len(p) - 1 : i \in 1..Len(at) /\ i \in 0..Len(at)
      BY <1>1, <1>2
    <3> QED
      BY <1>2, <3>1
  <2>2. CASE i = Len(at)
    BY <2>2, <1>1, FirstEnds
  <2>3. CASE i # Len(at)
    <3>1. i \in 0..Len(at) - 1
      BY <1>1, <2>3
    <3> QED
      BY <3>1 DEF Has, Shape
  <2> QED
    BY <2>2, <2>3
<1>6. \A i \in 1..Len(p) - 1 : Has(Contents(T), First(p, i), "dir")
  BY <1>5, ContentsHave
<1>7. MaxLinks \in 0..MaxLinks /\ Len(p) \in 1..Len(p)
  BY <1>1, <1>2 DEF MaxLinks
<1> HIDE DEF p
<1>8. Walk(T, p) = Error("not_found")
  <2>1. Walks(Contents(T))[MaxLinks][p] = Error("not_found")
    BY <1>2, <1>3, <1>4, <1>6, <1>7, WalkStops
  <2> QED
    BY <2>1 DEF Walk
<1>9. WalkToDir(T, p) = Error("not_found")
  BY <1>8 DEF WalkToDir, DirOnly, Error
<1> QED
  BY <1>9 DEF p

\* A path that leads to a directory has a parent that leads to one.
LEMMA DirFront ==
  ASSUME NEW T, Shape(T), NEW path \in Seq(Names), path # Root, WalkToDir(T, path).err = "none"
  PROVE  WalkToDir(T, Front(path)).err = "none"
<1>1. MaxLinks \in 0..MaxLinks
  BY DEF MaxLinks
<1>2. Walk(T, path).err = "none"
  BY WalkToDirType
<1>3. PICK at \in Seq(Names) : Walk(T, Front(path)) = Found(at) /\ Has(Contents(T), at, "dir")
  BY <1>1, <1>2, ContentsHave, WalkFront DEF Walk
<1>4. Has(T, at, "dir")
  BY <1>3, ContentsHave
<1> QED
  BY <1>3, <1>4 DEF WalkToDir, DirOnly, Found

\* To walk to a child that is a directory is to walk to its parent and go down once.
LEMMA DirInto ==
  ASSUME NEW T, Shape(T), NEW path \in Seq(Names), path # Root, NEW at,
         WalkToDir(T, Front(path)) = Found(at),
         Has(T, Append(at, Last(path)), "dir")
  PROVE  WalkToDir(T, path) = Found(Append(at, Last(path)))
<1>1. MaxLinks \in 0..MaxLinks
  BY DEF MaxLinks
<1>2. Front(path) \in Seq(Names)
  BY FrontFacts
<1>3. /\ Found(at).err = "none" /\ Found(at).at = at
      /\ "none" \notin {"not_found", "not_dir", "loop"}
  BY DEF Found
<1>4. at \in Seq(Names) /\ Has(T, at, "dir") /\ Walk(T, Front(path)) = Found(at)
  BY <1>2, <1>3, WalkToDirType
<1>5. Has(Contents(T), at, "dir") /\ Has(Contents(T), Append(at, Last(path)), "dir")
  BY <1>4, ContentsHave
<1>6. Walk(T, path) = Found(Append(at, Last(path)))
  BY <1>1, <1>4, <1>5, ContentsHave, WalkInto DEF Walk
<1> QED
  BY <1>6 DEF WalkToDir, DirOnly, Found

\* A directory that was reached is reached at the same place in a tree that has more.
LEMMA DirExtends ==
  ASSUME NEW T, NEW U, Shape(T), Shape(U), Extends(Contents(U), Contents(T)),
         NEW path \in Seq(Names), WalkToDir(T, path).err = "none"
  PROVE  WalkToDir(U, path) = WalkToDir(T, path)
<1>1. MaxLinks \in 0..MaxLinks
  BY DEF MaxLinks
<1> DEFINE w == WalkToDir(T, path)
<1>2. w = Walk(T, path) /\ w.err = "none" /\ Has(T, w.at, "dir")
  BY WalkToDirType
<1>3. Walk(U, path) = w
  BY <1>1, <1>2, ContentsHave, WalkExtends DEF Walk
<1>4. Has(U, w.at, "dir")
  <2>1. Has(Contents(T), w.at, "dir")
    BY <1>2, ContentsHave
  <2>2. Has(Contents(U), w.at, "dir")
    BY <2>1 DEF Has, Extends
  <2> QED
    BY <2>2, ContentsHave
<1> QED
  BY <1>2, <1>3, <1>4 DEF WalkToDir, DirOnly

-----------------------------------------------------------------------------
(* What is done to trees. *)

\* Strict prefixes, in terms of lengths and first components.
LEMMA PrefixMeans ==
  ASSUME NEW p \in Seq(Names), NEW q \in Seq(Names)
  PROVE  /\ IsStrictPrefix(p, q) <=> Len(p) < Len(q) /\ First(q, Len(p)) = p
         /\ Len(p) \in Nat /\ Len(q) \in Nat
<1>1. Len(p) \in Nat /\ Len(q) \in Nat
  BY LenProperties
<1>2. SubSeq(p, 1, Len(p)) = p /\ SubSeq(q, 1, Len(q)) = q
  BY FirstEnds DEF First
<1>3. IsPrefix(p, q) <=> Len(p) <= Len(q) /\ First(q, Len(p)) = p
  BY <1>2 DEF IsPrefix, First
<1>4. Len(p) = Len(q) /\ First(q, Len(p)) = p => p = q
  BY <1>2 DEF First
<1> QED
  BY <1>1, <1>3, <1>4 DEF IsStrictPrefix

\* What is not a directory has nothing beneath it.
LEMMA NothingBeneath ==
  ASSUME NEW T, Shape(T), NEW p \in Seq(Names), ~Has(T, p, "dir")
  PROVE  Beneath(T, p) = {}
<1> SUFFICES ASSUME NEW q \in DOMAIN T, IsStrictPrefix(p, q)
             PROVE  FALSE
  BY DEF Beneath
<1>1. q \in Seq(Names)
  BY DEF Shape
<1>2. Len(p) \in 0..Len(q) - 1 /\ First(q, Len(p)) = p
  BY <1>1, PrefixMeans
<1> QED
  BY <1>2 DEF Shape

\* A tree in which a node is put where nothing lies beneath is a tree.
LEMMA ShapeWith ==
  ASSUME NEW T, Shape(T), NEW p \in Seq(Names), p # Root, Has(T, Front(p), "dir"),
         Beneath(T, p) = {}, NEW node, node.type \in {"dir", "file", "link"},
         node.type = "link" => node.to \in Seq(Names)
  PROVE  Shape(With(T, p, node))
<1> DEFINE U == With(T, p, node)
<1>1. /\ DOMAIN U = DOMAIN T \union {p}
      /\ U[p] = node
      /\ \A q \in DOMAIN T \ {p} : U[q] = T[q]
  BY DEF With
<1> HIDE DEF U
<1>2. DOMAIN U \subseteq Seq(Names) /\ Has(U, Root, "dir")
  BY <1>1 DEF Shape, Has
<1>3. \A q \in DOMAIN U : /\ U[q].type \in {"dir", "file", "link"}
                          /\ U[q].type = "link" => U[q].to \in Seq(Names)
  BY <1>1 DEF Shape
<1>4. ASSUME NEW q \in DOMAIN U, NEW n \in 0..Len(q) - 1
      PROVE  Has(U, First(q, n), "dir")
  <2>1. q \in Seq(Names) /\ Len(q) \in Nat /\ n \in 0..Len(q) /\ n < Len(q)
    BY <1>2, LenProperties
  <2>2. First(q, n) \in Seq(Names) /\ Len(First(q, n)) = n
    BY <2>1, FirstFacts
  <2>3. CASE q = p
    <3>1. /\ Front(p) \in Seq(Names) /\ Len(Front(p)) = Len(p) - 1
          /\ Front(p) = First(p, Len(p) - 1)
      BY FrontFacts
    <3>2. Has(T, First(p, n), "dir")
      <4>1. CASE n = Len(p) - 1
        BY <4>1, <3>1
      <4>2. CASE n # Len(p) - 1
        <5>1. n \in 0..Len(Front(p)) - 1 /\ n \in 0..Len(p) - 1
          BY <2>1, <2>3, <3>1, <4>2
        <5>2. First(p, n) = First(Front(p), n)
          BY <5>1, FirstOfFront
        <5> QED
          BY <5>1, <5>2 DEF Has, Shape
      <4> QED
        BY <4>1, <4>2
    <3>3. First(p, n) # p
      BY <2>1, <2>2, <2>3
    <3> QED
      BY <2>3, <3>2, <3>3, <1>1 DEF Has
  <2>4. CASE q # p
    <3>1. q \in DOMAIN T /\ Has(T, First(q, n), "dir")
      BY <1>1, <2>4 DEF Shape
    <3>2. First(q, n) # p
      <4>1. ~IsStrictPrefix(p, q)
        BY <3>1 DEF Beneath
      <4> QED
        BY <4>1, <2>1, <2>2, PrefixMeans
    <3> QED
      BY <3>1, <3>2, <1>1 DEF Has
  <2> QED
    BY <2>3, <2>4
<1> QED
  BY <1>2, <1>3, <1>4 DEF U, Shape

\* A part of a tree, without some path and all beneath it, or only what is beneath it.
LEMMA ShapeRestrict ==
  ASSUME NEW T, Shape(T), NEW p \in Seq(Names),
         NEW gone, gone = Beneath(T, p) \/ (p # Root /\ gone = Beneath(T, p) \union {p})
  PROVE  Shape(Restrict(T, DOMAIN T \ gone))
<1> DEFINE U == Restrict(T, DOMAIN T \ gone)
<1>1. DOMAIN U = DOMAIN T \ gone /\ \A q \in DOMAIN U : U[q] = T[q]
  BY DEF Restrict
<1> HIDE DEF U
<1>2. Root \in DOMAIN U
  <2>1. Root \in Seq(Names) /\ Len(Root) = 0
    BY FirstEnds
  <2>2. ~IsStrictPrefix(p, Root)
    <3>1. IsStrictPrefix(p, Root) <=> Len(p) < Len(Root) /\ First(Root, Len(p)) = p
      BY <2>1, PrefixMeans
    <3>2. Len(p) \in Nat
      BY LenProperties
    <3> QED
      BY <2>1, <3>1, <3>2
  <2>3. Root \in DOMAIN T
    BY DEF Shape, Has
  <2>4. Root \notin gone
    BY <2>2 DEF Beneath
  <2> QED
    BY <2>3, <2>4, <1>1
<1>3. DOMAIN U \subseteq Seq(Names) /\ Has(U, Root, "dir")
  BY <1>1, <1>2 DEF Shape, Has
<1>4. \A q \in DOMAIN U : /\ U[q].type \in {"dir", "file", "link"}
                          /\ U[q].type = "link" => U[q].to \in Seq(Names)
  BY <1>1 DEF Shape
<1>5. ASSUME NEW q \in DOMAIN U, NEW n \in 0..Len(q) - 1
      PROVE  Has(U, First(q, n), "dir")
  <2> DEFINE r == First(q, n)
  <2>1. q \in Seq(Names) /\ q \in DOMAIN T /\ ~IsStrictPrefix(p, q) /\ Has(T, r, "dir")
    BY <1>1, <1>3 DEF Beneath, Shape
  <2>2. Len(q) \in Nat /\ n \in 0..Len(q) /\ n < Len(q)
    BY <2>1, LenProperties
  <2>3. r \in Seq(Names) /\ Len(r) = n
    BY <2>1, <2>2, FirstFacts
  <2>4. r # p
    <3>1. SUFFICES ASSUME r = p
                   PROVE  IsStrictPrefix(p, q)
      BY <2>1
    <3>2. Len(p) < Len(q) /\ First(q, Len(p)) = p
      BY <2>2, <2>3, <3>1
    <3> QED
      BY <2>1, <3>2, PrefixMeans
  <2>5. ~IsStrictPrefix(p, r)
    <3>1. SUFFICES ASSUME Len(p) < Len(r), First(r, Len(p)) = p
                   PROVE  FALSE
      BY <2>3, PrefixMeans
    <3>2. Len(p) \in 0..n /\ Len(p) < Len(q)
      BY <2>2, <2>3, <3>1, LenProperties
    <3>3. First(r, Len(p)) = First(q, Len(p))
      BY <2>1, <2>2, <3>2, FirstOfFirst
    <3> QED
      BY <2>1, <3>1, <3>2, <3>3, PrefixMeans
  <2>6. r \in DOMAIN U
    BY <1>1, <2>1, <2>4, <2>5 DEF Beneath, Has
  <2> QED
    BY <1>1, <2>1, <2>6 DEF Has
<1> QED
  BY <1>3, <1>4, <1>5 DEF U, Shape

\* A tree from which a node is removed with all beneath it is a tree (remove_entry).
LEMMA WithoutFacts ==
  ASSUME NEW T, Shape(T), NEW p \in Seq(Names), p # Root
  PROVE  /\ Shape(Without(T, p)) /\ Beneath(Without(T, p), p) = {}
         /\ DOMAIN Without(T, p) = DOMAIN T \ (Beneath(T, p) \union {p})
         /\ \A q \in DOMAIN Without(T, p) : Without(T, p)[q] = T[q]
         /\ Has(T, Front(p), "dir") => Has(Without(T, p), Front(p), "dir")
<1>1. Shape(Without(T, p))
  BY ShapeRestrict DEF Without
<1>2. /\ DOMAIN Without(T, p) = DOMAIN T \ (Beneath(T, p) \union {p})
      /\ \A q \in DOMAIN Without(T, p) : Without(T, p)[q] = T[q]
  BY DEF Without, Restrict
<1>3. Beneath(Without(T, p), p) = {}
  BY <1>2 DEF Beneath
<1>4. ASSUME Has(T, Front(p), "dir")
      PROVE  Has(Without(T, p), Front(p), "dir")
  <2>1. /\ Front(p) \in Seq(Names) /\ Len(Front(p)) = Len(p) - 1
        /\ Len(p) \in Nat
    BY FrontFacts
  <2>2. Front(p) # p /\ ~IsStrictPrefix(p, Front(p))
    BY <2>1, PrefixMeans
  <2> QED
    BY <2>2, <1>2, <1>4 DEF Beneath, Has
<1> QED
  BY <1>1, <1>2, <1>3, <1>4

\* A tree from which all beneath a node is removed is a tree (an opaque whiteout).
LEMMA WithoutSubtreeFacts ==
  ASSUME NEW T, Shape(T), NEW p \in Seq(Names)
  PROVE  /\ Shape(WithoutSubtree(T, p))
         /\ DOMAIN WithoutSubtree(T, p) = DOMAIN T \ Beneath(T, p)
         /\ \A q \in DOMAIN WithoutSubtree(T, p) : WithoutSubtree(T, p)[q] = T[q]
BY ShapeRestrict DEF WithoutSubtree, Restrict

\* The contents of what is left depend on the contents of what there was.
LEMMA SameRemoved ==
  ASSUME NEW T, NEW U, Contents(T) = Contents(U), NEW p
  PROVE  /\ Beneath(T, p) = Beneath(U, p)
         /\ Contents(Without(T, p)) = Contents(Without(U, p))
         /\ Contents(WithoutSubtree(T, p)) = Contents(WithoutSubtree(U, p))
<1>1. DOMAIN T = DOMAIN U /\ \A q \in DOMAIN T : Content(T[q]) = Content(U[q])
  BY ContentsFacts
<1>2. Beneath(T, p) = Beneath(U, p)
  BY <1>1 DEF Beneath
<1>3. ASSUME NEW left, left \subseteq DOMAIN T
      PROVE  Contents(Restrict(T, left)) = Contents(Restrict(U, left))
  BY <1>1, <1>3 DEF Contents, Restrict
<1> QED
  BY <1>1, <1>2, <1>3 DEF Without, WithoutSubtree

\* Equal contents stay equal when equal nodes are put at the same path.
LEMMA SameWith ==
  ASSUME NEW T, NEW U, Contents(T) = Contents(U), NEW p, NEW node, NEW other,
         Content(node) = Content(other)
  PROVE  Contents(With(T, p, node)) = Contents(With(U, p, other))
<1>1. DOMAIN T = DOMAIN U /\ \A q \in DOMAIN T : Content(T[q]) = Content(U[q])
  BY ContentsFacts
<1>2. \A q \in DOMAIN T \union {p} : Content(IF q = p THEN node ELSE T[q])
                                   = Content(IF q = p THEN other ELSE U[q])
  BY <1>1
<1>3. /\ DOMAIN With(T, p, node) = DOMAIN T \union {p}
      /\ \A q \in DOMAIN T \union {p} : With(T, p, node)[q] = IF q = p THEN node ELSE T[q]
      /\ DOMAIN With(U, p, other) = DOMAIN T \union {p}
      /\ \A q \in DOMAIN T \union {p} : With(U, p, other)[q] = IF q = p THEN other ELSE U[q]
  BY <1>1 DEF With
<1> QED
  BY <1>2, <1>3 DEF Contents

\* Nothing is removed where nothing is.
LEMMA WithoutNothing ==
  ASSUME NEW T, Shape(T), NEW p \in Seq(Names), NEW node, ~Has(T, p, "dir")
  PROVE  With(Without(T, p), p, node) = With(T, p, node)
<1>1. Beneath(T, p) = {}
  BY NothingBeneath
<1>2. /\ DOMAIN Without(T, p) = DOMAIN T \ {p}
      /\ \A q \in DOMAIN T \ {p} : Without(T, p)[q] = T[q]
  BY <1>1 DEF Without, Restrict
<1>3. (DOMAIN T \ {p}) \union {p} = DOMAIN T \union {p}
  OBVIOUS
<1> QED
  BY <1>2, <1>3 DEF With

-----------------------------------------------------------------------------
(* open_directory. *)

\* The parts of OpenDirectory: the components that lead somewhere, where, and the
\* directories that are made below.
Deepest(T, path) == Max({i \in 0..Len(path) : WalkToDir(T, First(path, i)).err # "not_found"})
Base(T, path)    == WalkToDir(T, First(path, Deepest(T, path)))
Made(T, path, i) == Base(T, path).at \o SubSeq(path, Deepest(T, path) + 1, i)
MadeDirs(T, path) == {Made(T, path, i) : i \in Deepest(T, path) + 1..Len(path)}

\* T with new directories.
Grown(T, new) == [p \in DOMAIN T \union new |-> IF p \in new THEN NewDir(p, Default) ELSE T[p]]

\* The three outcomes of open_directory: no base to start from, a name that is taken, and a directory reached.
LEMMA OpenCases ==
  ASSUME NEW T, NEW path, NEW O, O = OpenDirectory(T, path)
  PROVE  \/ /\ Base(T, path).err # "none"
            /\ O = [err |-> Base(T, path).err, tree |-> T]
         \/ /\ Base(T, path).err = "none" /\ MadeDirs(T, path) \intersect DOMAIN T # {}
            /\ O = [err |-> "exists", tree |-> T]
         \/ /\ Base(T, path).err = "none" /\ MadeDirs(T, path) \intersect DOMAIN T = {}
            /\ O = [err |-> "none", at |-> Made(T, path, Len(path)),
                    tree |-> Grown(T, MadeDirs(T, path))]
<1> DEFINE n    == Max({i \in 0..Len(path) : WalkToDir(T, First(path, i)).err # "not_found"})
           base == WalkToDir(T, First(path, n))
           M(i) == base.at \o SubSeq(path, n + 1, i)
           new  == {M(i) : i \in n + 1..Len(path)}
<1>1. /\ n = Deepest(T, path) /\ base = Base(T, path) /\ new = MadeDirs(T, path)
      /\ M(Len(path)) = Made(T, path, Len(path))
  BY DEF Deepest, Base, MadeDirs, Made
<1>2. OpenDirectory(T, path) =
         CASE base.err # "none" -> [err |-> base.err, tree |-> T]
           [] base.err = "none" /\ new \intersect DOMAIN T # {} -> [err |-> "exists", tree |-> T]
           [] OTHER -> [err |-> "none", at |-> M(Len(path)), tree |-> Grown(T, new)]
  BY DEF OpenDirectory, Grown
<1> HIDE DEF n, base, M, new
<1> QED
  BY <1>1, <1>2

\* A directory that open_directory creates is empty to whoever looks at it.
LEMMA NewDirFacts ==
  ASSUME NEW p, NEW mode
  PROVE  NewDir(p, mode).type = "dir" /\ Content(NewDir(p, mode)) = [type |-> "dir"]
<1>1. PICK g : NewDir(p, mode) = Dir(g, mode)
  BY DEF NewDir
<1> QED
  BY <1>1 DEF Dir, Content

\* The tree after open_directory: what it had, and the directories it created.
LEMMA GrownFacts ==
  ASSUME NEW T, NEW new
  PROVE  /\ DOMAIN Grown(T, new) = DOMAIN T \union new
         /\ \A p \in new : Grown(T, new)[p] = NewDir(p, Default)
         /\ \A p \in DOMAIN T \ new : Grown(T, new)[p] = T[p]
BY DEF Grown

\* The first components of a concatenation.
LEMMA ConcatFirst ==
  ASSUME NEW s \in Seq(Names), NEW t \in Seq(Names)
  PROVE  /\ s \o t \in Seq(Names) /\ Len(s \o t) = Len(s) + Len(t)
         /\ \A k \in 0..Len(s) : First(s \o t, k) = First(s, k)
         /\ \A j \in 0..Len(t) : First(s \o t, Len(s) + j) = s \o First(t, j)
<1> DEFINE u == s \o t
<1>1. /\ u \in Seq(Names) /\ Len(u) = Len(s) + Len(t)
      /\ \A i \in 1..Len(s) + Len(t) : u[i] = IF i <= Len(s) THEN s[i] ELSE t[i - Len(s)]
  BY ConcatProperties
<1>2. Len(s) \in Nat /\ Len(t) \in Nat
  BY LenProperties
<1> HIDE DEF u
<1>3. ASSUME NEW k \in 0..Len(s)
      PROVE  First(u, k) = First(s, k)
  <2>1. k \in 0..Len(u)
    BY <1>1, <1>2
  <2>2. /\ First(u, k) \in Seq(Names) /\ Len(First(u, k)) = k
        /\ \A i \in 1..k : First(u, k)[i] = u[i]
    BY <1>1, <2>1, FirstFacts
  <2>3. /\ First(s, k) \in Seq(Names) /\ Len(First(s, k)) = k
        /\ \A i \in 1..k : First(s, k)[i] = s[i]
    BY FirstFacts
  <2>4. \A i \in 1..k : First(u, k)[i] = First(s, k)[i]
    BY <1>1, <1>2, <2>2, <2>3
  <2> QED
    BY <2>2, <2>3, <2>4, SeqEqual
<1>4. ASSUME NEW j \in 0..Len(t)
      PROVE  First(u, Len(s) + j) = s \o First(t, j)
  <2> DEFINE k == Len(s) + j
             f == First(t, j)
             v == s \o f
  <2>1. k \in 0..Len(u)
    BY <1>1, <1>2
  <2>2. /\ First(u, k) \in Seq(Names) /\ Len(First(u, k)) = k
        /\ \A i \in 1..k : First(u, k)[i] = u[i]
    BY <1>1, <2>1, FirstFacts
  <2>3. /\ f \in Seq(Names) /\ Len(f) = j
        /\ \A i \in 1..j : f[i] = t[i]
    BY FirstFacts
  <2> HIDE DEF f
  <2>4. /\ v \in Seq(Names) /\ Len(v) = Len(s) + Len(f)
        /\ \A i \in 1..Len(s) + Len(f) : v[i] = IF i <= Len(s) THEN s[i] ELSE f[i - Len(s)]
    BY <2>3, ConcatProperties
  <2> HIDE DEF v
  <2>5. ASSUME NEW i \in 1..k
        PROVE  First(u, k)[i] = v[i]
    <3>1. i \in 1..Len(s) + Len(t) /\ i \in 1..Len(s) + Len(f)
      BY <1>2, <2>3
    <3>2. ~(i <= Len(s)) => i - Len(s) \in 1..j
      BY <1>2
    <3> QED
      BY <3>1, <3>2, <1>1, <2>2, <2>3, <2>4
  <2>6. First(u, k) = v
    BY <2>2, <2>3, <2>4, <2>5, SeqEqual
  <2> QED
    BY <2>6 DEF v, f
<1> QED
  BY <1>1, <1>3, <1>4 DEF u

\* The first components of a slice of a path are a slice of it.
LEMMA FirstOfRest ==
  ASSUME NEW s \in Seq(Names), NEW n \in 0..Len(s), NEW m \in n..Len(s), NEW j \in 0..m - n
  PROVE  First(SubSeq(s, n + 1, m), j) = SubSeq(s, n + 1, n + j)
<1> DEFINE r == SubSeq(s, n + 1, m)
<1>1. Len(s) \in Nat
  BY LenProperties
<1>2. /\ r \in Seq(Names) /\ Len(r) = m - n
      /\ \A i \in 1..m - n : r[i] = s[n + i]
  BY RestFacts
<1>3. n + j \in n..Len(s)
  BY <1>1
<1>4. /\ SubSeq(s, n + 1, n + j) \in Seq(Names) /\ Len(SubSeq(s, n + 1, n + j)) = (n + j) - n
      /\ \A i \in 1..(n + j) - n : SubSeq(s, n + 1, n + j)[i] = s[n + i]
  BY <1>3, RestFacts
<1> HIDE DEF r
<1>5. /\ First(r, j) \in Seq(Names) /\ Len(First(r, j)) = j
      /\ \A i \in 1..j : First(r, j)[i] = r[i]
  <2>1. j \in 0..Len(r)
    BY <1>2
  <2> QED
    BY <1>2, <2>1, FirstFacts
<1>6. \A i \in 1..j : First(r, j)[i] = SubSeq(s, n + 1, n + j)[i]
  <2>1. \A i \in 1..j : i \in 1..m - n /\ i \in 1..(n + j) - n
    BY <1>1
  <2> QED
    BY <2>1, <1>2, <1>4, <1>5
<1>7. (n + j) - n = j
  BY <1>1
<1> QED
  BY <1>4, <1>5, <1>6, <1>7, SeqEqual DEF r

\* The longest part of the path that leads somewhere, and where.
LEMMA BaseFacts ==
  ASSUME NEW T, Shape(T), NEW path \in Seq(Names)
  PROVE  /\ Deepest(T, path) \in 0..Len(path)
         /\ Base(T, path).err = "none" => Base(T, path).at \in Seq(Names)
                                           /\ Has(T, Base(T, path).at, "dir")
         /\ WalkToDir(T, path).err # "not_found" => /\ Deepest(T, path) = Len(path)
                                                    /\ Base(T, path) = WalkToDir(T, path)
<1> DEFINE S == {i \in 0..Len(path) : WalkToDir(T, First(path, i)).err # "not_found"}
<1>1. Len(path) \in Nat
  BY LenProperties
<1>2. 0 \in S
  <2>1. First(path, 0) = Root
    BY FirstEnds
  <2>2. Has(T, Root, "dir")
    BY DEF Shape
  <2>3. WalkToDir(T, Root) = Found(Root)
    BY <2>2, WalkReal
  <2>4. WalkToDir(T, First(path, 0)).err # "not_found"
    BY <2>1, <2>3 DEF Found
  <2> QED
    BY <1>1, <2>4
<1>3. Deepest(T, path) \in S /\ \A k \in S : Deepest(T, path) >= k
  <2>1. S \subseteq 0..Len(path) /\ S # {}
    BY <1>2
  <2>2. Deepest(T, path) = Max(S)
    BY DEF Deepest
  <2> HIDE DEF S
  <2> QED
    BY <1>1, <2>1, <2>2, MaxChosen
<1>4. Deepest(T, path) \in 0..Len(path)
  BY <1>3
<1>5. First(path, Deepest(T, path)) \in Seq(Names)
  BY <1>4, FirstFacts
<1>6. Base(T, path).err = "none" => Base(T, path).at \in Seq(Names)
                                     /\ Has(T, Base(T, path).at, "dir")
  BY <1>5, WalkToDirType DEF Base
<1>7. ASSUME WalkToDir(T, path).err # "not_found"
      PROVE  Deepest(T, path) = Len(path) /\ Base(T, path) = WalkToDir(T, path)
  <2>1. First(path, Len(path)) = path
    BY FirstEnds
  <2>2. Len(path) \in S
    BY <1>1, <1>7, <2>1
  <2>3. Deepest(T, path) = Len(path)
    BY <1>1, <1>3, <1>4, <2>2
  <2> QED
    BY <2>1, <2>3 DEF Base
<1> QED
  BY <1>4, <1>6, <1>7

\* The new directories are in each other, the first of them where the path leads.
LEMMA MadeFacts ==
  ASSUME NEW T, Shape(T), NEW path \in Seq(Names), Base(T, path).err = "none",
         NEW i \in Deepest(T, path)..Len(path)
  PROVE  /\ Made(T, path, i) \in Seq(Names)
         /\ Made(T, path, i) = Base(T, path).at \/ Made(T, path, i) \in MadeDirs(T, path)
         /\ \A k \in 0..Len(Made(T, path, i)) - 1 :
               \/ Has(T, First(Made(T, path, i), k), "dir")
               \/ First(Made(T, path, i), k) \in MadeDirs(T, path)
<1> DEFINE n  == Deepest(T, path)
           at == Base(T, path).at
           r  == SubSeq(path, n + 1, i)
<1>1. n \in 0..Len(path) /\ at \in Seq(Names) /\ Has(T, at, "dir") /\ Len(path) \in Nat /\ Len(at) \in Nat
  BY BaseFacts, LenProperties
<1>2. r \in Seq(Names) /\ Len(r) = i - n
  BY <1>1, RestFacts
<1>3. /\ at \o r \in Seq(Names) /\ Len(at \o r) = Len(at) + (i - n)
      /\ \A k \in 0..Len(at) : First(at \o r, k) = First(at, k)
      /\ \A j \in 0..i - n : First(at \o r, Len(at) + j) = at \o First(r, j)
  <2> HIDE DEF at, n, r
  <2>1. /\ at \o r \in Seq(Names) /\ Len(at \o r) = Len(at) + Len(r)
        /\ \A k \in 0..Len(at) : First(at \o r, k) = First(at, k)
        /\ \A j \in 0..Len(r) : First(at \o r, Len(at) + j) = at \o First(r, j)
    BY <1>1, <1>2, ConcatFirst
  <2> QED
    BY <1>2, <2>1
<1>4. \A j \in 0..i - n : First(r, j) = SubSeq(path, n + 1, n + j)
  BY <1>1, FirstOfRest
<1>5. Made(T, path, i) = at \o r
  BY DEF Made
<1>6. \A j \in 1..i - n : at \o SubSeq(path, n + 1, n + j) \in MadeDirs(T, path)
  <2>1. \A j \in 1..i - n : n + j \in n + 1..Len(path)
    BY <1>1
  <2> QED
    BY <2>1 DEF MadeDirs, Made
<1>7. ASSUME NEW k \in 0..Len(at)
      PROVE  Has(T, First(at, k), "dir")
  <2>1. CASE k = Len(at)
    BY <2>1, <1>1, FirstEnds
  <2>2. CASE k # Len(at)
    <3>1. k \in 0..Len(at) - 1 /\ at \in DOMAIN T
      BY <1>1, <2>2 DEF Has
    <3> QED
      BY <3>1 DEF Shape
  <2> QED
    BY <2>1, <2>2
<1> HIDE DEF r, at, n
<1>8. ASSUME NEW k \in 0..Len(at \o r) - 1
      PROVE  Has(T, First(at \o r, k), "dir") \/ First(at \o r, k) \in MadeDirs(T, path)
  <2>1. CASE k <= Len(at)
    <3>1. k \in 0..Len(at)
      BY <1>1, <2>1
    <3> QED
      BY <3>1, <1>3, <1>7
  <2>2. CASE ~(k <= Len(at))
    <3> DEFINE j == k - Len(at)
    <3>1. j \in 1..i - n /\ j \in 0..i - n /\ Len(at) + j = k
      BY <1>1, <1>3, <2>2 DEF n
    <3> HIDE DEF j
    <3>2. First(at \o r, k) = at \o SubSeq(path, n + 1, n + j)
      BY <3>1, <1>3, <1>4
    <3> QED
      BY <3>1, <3>2, <1>6
  <2> QED
    BY <2>1, <2>2
<1>9. at \o r = at \/ at \o r \in MadeDirs(T, path)
  <2>1. CASE i = n
    <3>1. r = <<>>
      BY <2>1, <1>1, <1>2, FirstEnds DEF Root
    <3> QED
      BY <3>1, <1>1, ConcatEmptySeq
  <2>2. CASE i # n
    <3>1. i \in Deepest(T, path) + 1..Len(path)
      BY <1>1, <2>2 DEF n
    <3> QED
      BY <3>1, <1>5 DEF MadeDirs
  <2> QED
    BY <2>1, <2>2
<1> QED
  BY <1>3, <1>5, <1>8, <1>9 DEF at

\* What open_directory returns: the directory is there, and nothing else has changed
\* but for new directories.
LEMMA OpenFacts ==
  ASSUME NEW T, Shape(T), NEW path \in Seq(Names)
  PROVE  LET O == OpenDirectory(T, path)
         IN  /\ Shape(O.tree)
             /\ DOMAIN T \subseteq DOMAIN O.tree
             /\ \A p \in DOMAIN T : O.tree[p] = T[p]
             /\ \A p \in DOMAIN O.tree \ DOMAIN T : O.tree[p] = NewDir(p, Default)
             /\ O.err = "none" => O.at \in Seq(Names) /\ Has(O.tree, O.at, "dir")
<1> DEFINE O == OpenDirectory(T, path)
<1> HIDE DEF O
<1>1. CASE Base(T, path).err # "none" /\ O = [err |-> Base(T, path).err, tree |-> T]
  BY <1>1 DEF O
<1>2. CASE O = [err |-> "exists", tree |-> T]
  BY <1>2 DEF O
<1>3. CASE /\ Base(T, path).err = "none" /\ MadeDirs(T, path) \intersect DOMAIN T = {}
           /\ O = [err |-> "none", at |-> Made(T, path, Len(path)),
                   tree |-> Grown(T, MadeDirs(T, path))]
  <2> DEFINE new == MadeDirs(T, path)
             U == Grown(T, new)
  <2>1. /\ O.err = "none" /\ O.at = Made(T, path, Len(path)) /\ O.tree = U
        /\ DOMAIN U = DOMAIN T \union new
        /\ \A p \in DOMAIN T : U[p] = T[p]
        /\ \A p \in new : U[p] = NewDir(p, Default)
        /\ DOMAIN U \ DOMAIN T = new
    BY <1>3, GrownFacts
  <2> HIDE DEF U
  <2>2. \A p : Has(T, p, "dir") \/ p \in new => Has(U, p, "dir")
    BY <2>1, NewDirFacts DEF Has
  <2>3. \A p \in new : \E i \in Deepest(T, path)..Len(path) : p = Made(T, path, i)
    <3>1. Deepest(T, path) \in 0..Len(path) /\ Len(path) \in Nat
      BY BaseFacts, LenProperties
    <3>2. \A i \in Deepest(T, path) + 1..Len(path) : i \in Deepest(T, path)..Len(path)
      BY <3>1
    <3> QED
      BY <3>2 DEF MadeDirs
  <2>4. \A p \in new : /\ p \in Seq(Names)
                       /\ \A k \in 0..Len(p) - 1 : Has(U, First(p, k), "dir")
    BY <1>3, <2>2, <2>3, MadeFacts
  <2>5. \A p \in DOMAIN T : \A k \in 0..Len(p) - 1 : Has(U, First(p, k), "dir")
    BY <2>2 DEF Shape
  <2>6. \A p \in DOMAIN U : /\ U[p].type \in {"dir", "file", "link"}
                            /\ U[p].type = "link" => U[p].to \in Seq(Names)
    BY <2>1, NewDirFacts DEF Shape
  <2>7. DOMAIN U \subseteq Seq(Names) /\ Has(U, Root, "dir")
    BY <2>1, <2>2, <2>4 DEF Shape
  <2>8. Shape(U)
    BY <2>1, <2>4, <2>5, <2>6, <2>7 DEF Shape
  <2>9. O.at \in Seq(Names) /\ Has(U, O.at, "dir")
    <3>1. Len(path) \in Deepest(T, path)..Len(path)
      BY BaseFacts, LenProperties
    <3>2. /\ O.at \in Seq(Names)
          /\ O.at = Base(T, path).at \/ O.at \in new
      BY <1>3, <2>1, <3>1, MadeFacts
    <3>3. Has(T, Base(T, path).at, "dir")
      BY <1>3, BaseFacts
    <3> QED
      BY <2>2, <3>2, <3>3
  <2> QED
    BY <2>1, <2>8, <2>9 DEF O
<1>4. O = OpenDirectory(T, path)
  BY DEF O
<1>5. \/ Base(T, path).err # "none" /\ O = [err |-> Base(T, path).err, tree |-> T]
      \/ O = [err |-> "exists", tree |-> T]
      \/ /\ Base(T, path).err = "none" /\ MadeDirs(T, path) \intersect DOMAIN T = {}
         /\ O = [err |-> "none", at |-> Made(T, path, Len(path)),
                 tree |-> Grown(T, MadeDirs(T, path))]
  BY <1>4, OpenCases
<1> QED
  BY <1>1, <1>2, <1>3, <1>5 DEF O

\* Nothing is made if the directory is there.
LEMMA OpenExisting ==
  ASSUME NEW T, Shape(T), NEW path \in Seq(Names), WalkToDir(T, path).err = "none"
  PROVE  LET O == OpenDirectory(T, path)
         IN  /\ O.err = "none" /\ O.at = WalkToDir(T, path).at
             /\ DOMAIN O.tree = DOMAIN T
             /\ Contents(O.tree) = Contents(T)
<1> DEFINE O == OpenDirectory(T, path)
<1>1. /\ Deepest(T, path) = Len(path) /\ Base(T, path) = WalkToDir(T, path)
      /\ Len(path) \in Nat
  <2>1. WalkToDir(T, path).err # "not_found"
    OBVIOUS
  <2> QED
    BY <2>1, BaseFacts, LenProperties
<1>2. MadeDirs(T, path) = {}
  BY <1>1 DEF MadeDirs
<1>3. WalkToDir(T, path).err # "not_found" /\ Base(T, path).err = "none"
  BY <1>1
<1>4. /\ O.err = "none" /\ O.at = Made(T, path, Len(path)) /\ O.tree = Grown(T, {})
  <2> HIDE DEF O
  <2>1. O = OpenDirectory(T, path)
    BY DEF O
  <2>2. \/ Base(T, path).err # "none"
        \/ MadeDirs(T, path) \intersect DOMAIN T # {}
        \/ O = [err |-> "none", at |-> Made(T, path, Len(path)),
                tree |-> Grown(T, MadeDirs(T, path))]
    BY <2>1, OpenCases
  <2>3. O = [err |-> "none", at |-> Made(T, path, Len(path)), tree |-> Grown(T, {})]
    BY <1>2, <1>3, <2>2
  <2> QED
    BY <2>3
<1>5. O.at = WalkToDir(T, path).at
  <2>1. SubSeq(path, Len(path) + 1, Len(path)) = <<>>
    BY <1>1, SubSeqEmpty
  <2>2. WalkToDir(T, path).at \in Seq(Names)
    BY WalkToDirType
  <2> QED
    BY <1>1, <1>4, <2>1, <2>2, ConcatEmptySeq DEF Made
<1> HIDE DEF O
<1>6. DOMAIN O.tree = DOMAIN T /\ \A p \in DOMAIN T : O.tree[p] = T[p]
  <2>1. DOMAIN Grown(T, {}) = DOMAIN T /\ \A p \in DOMAIN T : Grown(T, {})[p] = T[p]
    BY DEF Grown
  <2> QED
    BY <1>4, <2>1
<1>7. Contents(O.tree) = Contents(T)
  BY <1>6 DEF Contents
<1> QED
  BY <1>4, <1>5, <1>6, <1>7 DEF O

\* What open_directory does depends on the contents only.
LEMMA OpenSame ==
  ASSUME NEW T, NEW U, Shape(T), Shape(U), Contents(T) = Contents(U), NEW path \in Seq(Names)
  PROVE  LET O == OpenDirectory(T, path)
             Q == OpenDirectory(U, path)
         IN  /\ O.err = Q.err
             /\ O.err = "none" => O.at = Q.at
             /\ Contents(O.tree) = Contents(Q.tree)
<1> DEFINE O == OpenDirectory(T, path)
           Q == OpenDirectory(U, path)
<1>1. ASSUME NEW p
      PROVE  WalkToDir(T, p) = WalkToDir(U, p)
  BY SameWalk
<1>2. Deepest(T, path) = Deepest(U, path)
  <2>1. {i \in 0..Len(path) : WalkToDir(T, First(path, i)).err # "not_found"}
        = {i \in 0..Len(path) : WalkToDir(U, First(path, i)).err # "not_found"}
    BY <1>1
  <2> QED
    BY <2>1 DEF Deepest
<1>3. Base(T, path) = Base(U, path)
  BY <1>1, <1>2 DEF Base
<1>4. \A i : Made(T, path, i) = Made(U, path, i)
  BY <1>2, <1>3 DEF Made
<1>5. MadeDirs(T, path) = MadeDirs(U, path)
  BY <1>2, <1>4 DEF MadeDirs
<1>6. DOMAIN T = DOMAIN U /\ \A p \in DOMAIN T : Content(T[p]) = Content(U[p])
  BY ContentsFacts
<1>7. CASE Base(T, path).err # "none"
  <2>1. /\ O = [err |-> Base(T, path).err, tree |-> T]
        /\ Q = [err |-> Base(T, path).err, tree |-> U]
    BY <1>3, <1>7, OpenCases
  <2> QED
    BY <2>1, <1>7
<1>8. CASE Base(T, path).err = "none" /\ MadeDirs(T, path) \intersect DOMAIN T # {}
  <2>1. /\ O = [err |-> "exists", tree |-> T]
        /\ Q = [err |-> "exists", tree |-> U]
    BY <1>3, <1>5, <1>6, <1>8, OpenCases
  <2> QED
    BY <2>1
<1>9. CASE Base(T, path).err = "none" /\ MadeDirs(T, path) \intersect DOMAIN T = {}
  <2> DEFINE new == MadeDirs(T, path)
             V == Grown(T, new)
             W == Grown(U, new)
  <2>1. /\ O = [err |-> "none", at |-> Made(T, path, Len(path)), tree |-> V]
        /\ Q = [err |-> "none", at |-> Made(U, path, Len(path)), tree |-> W]
    BY <1>3, <1>5, <1>6, <1>9, OpenCases
  <2> HIDE DEF new
  <2>2. DOMAIN V = DOMAIN W /\ \A p \in DOMAIN V : Content(V[p]) = Content(W[p])
    <3>1. /\ DOMAIN V = DOMAIN T \union new /\ DOMAIN W = DOMAIN T \union new
          /\ \A p \in new : V[p] = NewDir(p, Default) /\ W[p] = NewDir(p, Default)
          /\ \A p \in DOMAIN T \ new : V[p] = T[p] /\ W[p] = U[p]
      <4>1. /\ DOMAIN V = DOMAIN T \union new
            /\ \A p \in new : V[p] = NewDir(p, Default)
            /\ \A p \in DOMAIN T \ new : V[p] = T[p]
        BY GrownFacts
      <4>2. /\ DOMAIN W = DOMAIN U \union new
            /\ \A p \in new : W[p] = NewDir(p, Default)
            /\ \A p \in DOMAIN U \ new : W[p] = U[p]
        BY GrownFacts
      <4>3. DOMAIN U = DOMAIN T
        BY <1>6
      <4> HIDE DEF V, W
      <4> QED
        BY <4>1, <4>2, <4>3
    <3> HIDE DEF V, W
    <3>2. ASSUME NEW p \in DOMAIN V
          PROVE  Content(V[p]) = Content(W[p])
      <4>1. CASE p \in new
        BY <3>1, <4>1
      <4>2. CASE p \in DOMAIN T \ new
        BY <1>6, <3>1, <4>2
      <4> QED
        BY <3>1, <4>1, <4>2
    <3> QED
      BY <3>1, <3>2
  <2> HIDE DEF V, W
  <2>3. Contents(V) = Contents(W)
    BY <2>2 DEF Contents
  <2> QED
    BY <2>1, <2>3, <1>4
<1> HIDE DEF O, Q
<1> QED
  BY <1>7, <1>8, <1>9

-----------------------------------------------------------------------------
(* The types of the variables. *)

\* The paths of the entries.
LEMMA PathsFacts ==
  /\ Paths \subseteq Seq(Names)
  /\ Root \in Paths
<1> USE BoundsAssumption
<1>1. MaxDepth \in Nat
  OBVIOUS
<1>2. ASSUME NEW p \in Paths
      PROVE  p \in Seq(Names)
  <2>1. PICK n \in 0..MaxDepth : p \in [1..n -> Names]
    BY DEF Paths
  <2> QED
    BY <1>1, <2>1, SeqDef
<1>3. Root \in [1..0 -> Names]
  BY DEF Root
<1>4. [1..0 -> Names] \in {[1..n -> Names] : n \in 0..MaxDepth}
  BY <1>1
<1>5. Root \in Paths
  BY <1>3, <1>4 DEF Paths
<1> QED
  BY <1>2, <1>5

\* The modes of the entries.
LEMMA ModesFacts ==
  /\ Default \in Modes
  /\ layer \in 1..MaxLayers => \A p \in Paths : Mode(p) \in Modes
<1>1. Default \in Modes
  BY DEF Modes
<1>2. ASSUME layer \in 1..MaxLayers, NEW p \in Paths
      PROVE  Mode(p) \in Modes
  <2>1. Mode(p) \in {<<layer>> \o q : q \in Paths}
    BY DEF Mode
  <2> QED
    BY <1>2, <2>1 DEF Modes
<1> QED
  BY <1>1, <1>2

\* A descriptor, and how the caches hold it.
Fds  == [at : Seq(Names), gen : 0..FdsCache + 1]
Held == [path : Seq(Names), fd : Fds]

\* The tree has the shape of a tree, and nodes.
TreeOK(T) == Shape(T) /\ \A p \in DOMAIN T : T[p] \in Nodes

\* The descriptors that are held.
CachesType == /\ cache \in Seq(Held) /\ Len(cache) <= FdsCache
              /\ linkFd \subseteq Held
              /\ linkFd = {} \/ \E c : linkFd = {c}

\* What the nodes are.
LEMMA NodesFacts ==
  ASSUME NEW node \in Nodes
  PROVE  /\ node.type \in {"dir", "file", "link"}
         /\ node.type = "link" => node.to \in Seq(Names)
         /\ node.type = "dir" => node.gen \in 0..FdsCache + 1
BY PathsFacts DEF Nodes

\* The nodes that the entries make.
LEMMA NewNodes ==
  /\ \A gen \in 0..FdsCache + 1 : \A mode \in Modes : Dir(gen, mode) \in Nodes
  /\ \A mode \in Modes : File(mode) \in Nodes
  /\ \A to \in Paths : Link(to) \in Nodes
BY DEF Nodes, Dir, File, Link

\* There are fewer descriptors than generations: a new directory has one of its own.
LEMMA FreshGen ==
  ASSUME CachesType, NEW p, NEW mode
  PROVE  /\ NewDir(p, mode).gen \in 0..FdsCache + 1
         /\ [at |-> p, gen |-> NewDir(p, mode).gen] \notin HeldFds
<1> DEFINE S == 0..FdsCache + 1
           R == 0..FdsCache
           fd(g) == [at |-> p, gen |-> g]
<1>1. FdsCache \in Nat \ {0}
  BY BoundsAssumption
<1>2. \E g \in S : fd(g) \notin HeldFds
  <2> SUFFICES ASSUME \A g \in S : fd(g) \in HeldFds
               PROVE  FALSE
    OBVIOUS
  <2> DEFINE h == [g \in S |-> IF \E c \in linkFd : c.fd = fd(g) THEN 0
                               ELSE CHOOSE i \in DOMAIN cache : cache[i].fd = fd(g)]
  <2>1. DOMAIN cache = 1..Len(cache) /\ Len(cache) \in Nat /\ Len(cache) <= FdsCache
    BY DEF CachesType
  <2>2. ASSUME NEW g \in S
        PROVE  \/ h[g] = 0 /\ \E c \in linkFd : c.fd = fd(g)
               \/ h[g] \in DOMAIN cache /\ cache[h[g]].fd = fd(g)
    <3>1. CASE \E c \in linkFd : c.fd = fd(g)
      BY <3>1
    <3>2. CASE ~ \E c \in linkFd : c.fd = fd(g)
      <4>1. PICK c \in ToSet(cache) \union linkFd : c.fd = fd(g)
        BY DEF HeldFds
      <4>2. \E i \in DOMAIN cache : cache[i].fd = fd(g)
        BY <3>2, <4>1 DEF ToSet
      <4>3. h[g] = CHOOSE i \in DOMAIN cache : cache[i].fd = fd(g)
        BY <3>2
      <4> QED
        BY <4>2, <4>3
    <3> QED
      BY <3>1, <3>2
  <2> HIDE DEF h
  <2>3. h \in [S -> R]
    <3>1. DOMAIN cache \subseteq R /\ 0 \in R
      BY <1>1, <2>1
    <3>2. \A g \in S : h[g] \in R
      BY <2>2, <3>1
    <3> QED
      BY <3>2 DEF h
  <2>4. Cardinality(S) = FdsCache + 2 /\ IsFiniteSet(S)
    BY <1>1, FS_Interval
  <2>5. Cardinality(R) = FdsCache + 1 /\ IsFiniteSet(R)
    BY <1>1, FS_Interval
  <2> HIDE DEF S, R
  <2>6. PICK x \in S, y \in S : x # y /\ h[x] = h[y]
    BY <1>1, <2>3, <2>4, <2>5, FS_PigeonHole
  <2>7. fd(x) = fd(y)
    <3>1. \A c, d : c \in linkFd /\ d \in linkFd => c = d
      BY DEF CachesType
    <3>2. 0 \notin DOMAIN cache
      BY <2>1
    <3>3. CASE h[x] = 0
      <4>1. PICK c \in linkFd : c.fd = fd(x)
        BY <2>2, <3>2, <3>3
      <4>2. PICK d \in linkFd : d.fd = fd(y)
        BY <2>2, <2>6, <3>2, <3>3
      <4> QED
        BY <3>1, <4>1, <4>2
    <3>4. CASE h[x] # 0
      <4>1. cache[h[x]].fd = fd(x)
        BY <2>2, <3>4
      <4>2. cache[h[y]].fd = fd(y)
        BY <2>2, <2>6, <3>4
      <4> QED
        BY <2>6, <4>1, <4>2
    <3> QED
      BY <3>3, <3>4
  <2> QED
    BY <2>6, <2>7
<1>3. NewDir(p, mode).gen = CHOOSE g \in S : fd(g) \notin HeldFds
  BY DEF NewDir, Dir
<1> QED
  BY <1>2, <1>3

\* The new directories of a tree are nodes, that no descriptor held is of.
LEMMA OpenNodes ==
  ASSUME CachesType, NEW T, TreeOK(T), NEW path \in Seq(Names)
  PROVE  LET O == OpenDirectory(T, path)
         IN  /\ TreeOK(O.tree)
             /\ \A p \in DOMAIN O.tree \ DOMAIN T :
                   [at |-> p, gen |-> O.tree[p].gen] \notin HeldFds
<1> DEFINE O == OpenDirectory(T, path)
<1>1. /\ Shape(O.tree) /\ Shape(T)
      /\ \A p \in DOMAIN T : O.tree[p] = T[p]
      /\ \A p \in DOMAIN O.tree \ DOMAIN T : O.tree[p] = NewDir(p, Default)
  BY OpenFacts DEF TreeOK
<1> HIDE DEF O
<1>2. \A p : NewDir(p, Default) \in Nodes
  BY FreshGen, NewNodes, ModesFacts DEF NewDir, Dir
<1>3. \A p \in DOMAIN O.tree : O.tree[p] \in Nodes
  BY <1>1, <1>2 DEF TreeOK
<1> QED
  BY <1>1, <1>3, FreshGen DEF TreeOK, O

\* The mode of a node is no part of the contents.
LEMMA SameMode ==
  ASSUME NEW T, TreeOK(T), NEW at \in DOMAIN T, T[at].type \in {"dir", "file"}, NEW mode \in Modes
  PROVE  LET U == [T EXCEPT ![at].mode = mode]
         IN  /\ TreeOK(U) /\ Contents(U) = Contents(T)
             /\ \A fd : Live(U, fd) <=> Live(T, fd)
<1> DEFINE U == [T EXCEPT ![at].mode = mode]
<1>1. DOMAIN U = DOMAIN T /\ \A p \in DOMAIN T \ {at} : U[p] = T[p]
  OBVIOUS
<1>2. U[at] = [T[at] EXCEPT !.mode = mode]
  OBVIOUS
<1>3. T[at] \in Nodes
  BY DEF TreeOK
<1> HIDE DEF U
<1>4. /\ U[at] \in Nodes /\ U[at].type = T[at].type
      /\ T[at].type = "dir" => U[at].gen = T[at].gen
      /\ T[at].type = "file" => U[at].data = T[at].data
  BY <1>2, <1>3 DEF Nodes
<1>5. Content(U[at]) = Content(T[at])
  BY <1>4 DEF Content
<1>6. Contents(U) = Contents(T)
  <2>1. \A p \in DOMAIN T : Content(U[p]) = Content(T[p])
    BY <1>1, <1>5
  <2> QED
    BY <1>1, <2>1 DEF Contents
<1>7. Shape(U)
  <2>1. Shape(T)
    BY DEF TreeOK
  <2>2. \A p, type : Has(U, p, type) <=> Has(T, p, type)
    BY <1>1, <1>4 DEF Has
  <2>3. \A p \in DOMAIN U : /\ U[p].type \in {"dir", "file", "link"}
                            /\ U[p].type = "link" => U[p].to \in Seq(Names)
    BY <1>1, <1>4, <2>1 DEF Shape
  <2> QED
    BY <1>1, <2>1, <2>2, <2>3 DEF Shape
<1>8. \A p \in DOMAIN U : U[p] \in Nodes
  BY <1>1, <1>4 DEF TreeOK
<1>9. \A fd : Live(U, fd) <=> Live(T, fd)
  BY <1>1, <1>4 DEF Live, Has
<1> QED
  BY <1>6, <1>7, <1>8, <1>9 DEF TreeOK, U

-----------------------------------------------------------------------------
(* The caches of descriptors. *)

\* The parents of paths and of nodes.
LEMMA ParentFacts ==
  /\ \A p \in Seq(Names) : ParentOf(p) \in Seq(Names)
  /\ \A T : Shape(T) => \A p \in DOMAIN T : Has(T, ParentOf(p), "dir")
<1>1. \A p \in Seq(Names) : ParentOf(p) \in Seq(Names)
  BY FrontFacts, FirstEnds DEF ParentOf
<1>2. ASSUME NEW T, Shape(T), NEW p \in DOMAIN T
      PROVE  Has(T, ParentOf(p), "dir")
  <2>1. CASE p = Root
    BY <1>2, <2>1 DEF ParentOf, Shape
  <2>2. CASE p # Root
    <3>1. p \in Seq(Names)
      BY <1>2 DEF Shape
    <3>2. Len(p) \in Nat \ {0} /\ Front(p) = First(p, Len(p) - 1)
      BY <2>2, <3>1, FrontFacts
    <3>3. Len(p) - 1 \in 0..Len(p) - 1
      BY <3>2
    <3> QED
      BY <1>2, <2>2, <3>2, <3>3 DEF ParentOf, Shape
  <2> QED
    BY <2>1, <2>2
<1> QED
  BY <1>1, <1>2

\* The entry of a directory at which a path ends.
LEMMA ChildFacts ==
  ASSUME NEW at \in Seq(Names), NEW p \in Seq(Names)
  PROVE  /\ Child(at, p) \in Seq(Names)
         /\ p = Root => Child(at, p) = at
         /\ p # Root => /\ Child(at, p) = Append(at, Last(p)) /\ Last(p) \in Names
                        /\ Child(at, p) # Root
                        /\ ParentOf(Child(at, p)) = at
                        /\ Front(Child(at, p)) = at
<1>1. CASE p = Root
  BY <1>1 DEF Child
<1>2. CASE p # Root
  <2>1. Last(p) \in Names /\ Child(at, p) = Append(at, Last(p))
    BY <1>2, FrontFacts DEF Child
  <2> QED
    BY <1>2, <2>1, AppendFacts DEF ParentOf
<1> QED
  BY <1>1, <1>2

\* What is known of the types of an entry.
EntryType(s) == /\ s.path \in Seq(Names) /\ s.at \in Seq(Names)
                /\ s.kind = "link" => /\ s.source \in Seq(Names) \ {Root} /\ s.from \in Seq(Names)

\* The entry s used the descriptor c of the directory it is in, or of its source.
Opened(c, s)     == s.kind \notin Whiteouts /\ c.path = ParentOf(s.path) /\ c.fd.at = ParentOf(s.at)
LinkOpened(c, s) == s.kind = "link" /\ c.path = ParentOf(s.source) /\ c.fd.at = ParentOf(s.from)

\* The entries so far are in place.
EntriesOK == (\A s \in seen : EntryType(s)) /\ InPlace(want, seen)

\* The descriptors in the cache are live, and each was used by an entry; that of the
\* last hard link is live too, unless a whiteout came after other entries.
CachesOK == /\ \A i \in DOMAIN cache : /\ Live(tree, cache[i].fd)
                                       /\ \E s \in seen : Opened(cache[i], s)
            /\ \A c \in linkFd : \E s \in seen : LinkOpened(c, s)
            /\ ~LateWhiteout(seen) => \A c \in linkFd : Live(tree, c.fd)

\* The directory that an entry used is still where the path leads.
LEMMA EntryParent ==
  ASSUME NEW T, Shape(T), NEW entries, InPlace(T, entries), NEW s \in entries,
         EntryType(s), s.kind \notin Whiteouts
  PROVE  /\ WalkToDir(T, ParentOf(s.path)) = Found(ParentOf(s.at))
         /\ Has(T, ParentOf(s.at), "dir")
<1>1. /\ s.at \in DOMAIN T
      /\ s.at # s.path => WalkToDir(T, ParentOf(s.path)) = Found(ParentOf(s.at))
  BY DEF InPlace
<1>2. Has(T, ParentOf(s.at), "dir")
  BY <1>1, ParentFacts
<1>3. WalkToDir(T, ParentOf(s.at)) = Found(ParentOf(s.at))
  BY <1>2, WalkReal
<1> QED
  BY <1>1, <1>2, <1>3

\* A directory that was neither removed nor replaced has the same descriptor.
LEMMA StillLive ==
  ASSUME NEW T, NEW U, NEW fd, Live(T, fd), Has(U, fd.at, "dir"),
         \A r \in DOMAIN T \intersect DOMAIN U : Has(U, r, "dir") => U[r] = T[r]
  PROVE  Live(U, fd)
BY DEF Live, Has

\* A sequence with one more element in front.
LEMMA InFront ==
  ASSUME NEW S, NEW x \in S, NEW r \in Seq(S)
  PROVE  LET t == <<x>> \o r
         IN  /\ t \in Seq(S) /\ Len(t) = Len(r) + 1
             /\ \A k \in DOMAIN t : t[k] = x \/ \E j \in DOMAIN r : t[k] = r[j]
<1>1. <<x>> \in Seq(S) /\ Len(<<x>>) = 1 /\ <<x>>[1] = x
  OBVIOUS
<1>2. Len(r) \in Nat /\ DOMAIN r = 1..Len(r)
  BY LenProperties
<1> DEFINE t == <<x>> \o r
<1>3. /\ t \in Seq(S) /\ Len(t) = Len(<<x>>) + Len(r)
      /\ \A i \in 1..Len(<<x>>) + Len(r) :
            t[i] = IF i <= Len(<<x>>) THEN <<x>>[i] ELSE r[i - Len(<<x>>)]
  BY <1>1, ConcatProperties
<1>4. DOMAIN t = 1..Len(t)
  BY <1>3, LenProperties
<1> HIDE DEF t
<1>5. Len(t) = Len(r) + 1
  BY <1>1, <1>2, <1>3
<1>6. ASSUME NEW k \in DOMAIN t
      PROVE  t[k] = x \/ \E j \in DOMAIN r : t[k] = r[j]
  <2>1. k \in 1..Len(r) + 1
    BY <1>4, <1>5
  <2>2. t[k] = IF k <= 1 THEN <<x>>[k] ELSE r[k - 1]
    BY <1>1, <1>2, <1>3, <2>1
  <2>3. CASE k = 1
    BY <1>1, <2>2, <2>3
  <2>4. CASE k # 1
    <3>1. k - 1 \in DOMAIN r
      BY <1>2, <2>1, <2>4
    <3> QED
      BY <1>2, <2>1, <2>2, <2>4, <3>1
  <2> QED
    BY <2>3, <2>4
<1> QED
  BY <1>3, <1>5, <1>6 DEF t

\* A sequence without one of its elements.
LEMMA RemoveAtFacts ==
  ASSUME NEW S, NEW s \in Seq(S), NEW i \in DOMAIN s
  PROVE  LET t == RemoveAt(s, i)
         IN  /\ t \in Seq(S) /\ Len(t) = Len(s) - 1
             /\ \A k \in DOMAIN t : \E j \in DOMAIN s : t[k] = s[j]
<1> DEFINE a == SubSeq(s, 1, i - 1)
           b == SubSeq(s, i + 1, Len(s))
           t == a \o b
<1>1. Len(s) \in Nat /\ DOMAIN s = 1..Len(s) /\ i \in 1..Len(s)
  BY LenProperties
<1>2. /\ a \in Seq(S) /\ Len(a) = i - 1
      /\ \A k \in 1..i - 1 : a[k] = s[k]
  <2>1. \A k \in 1..i - 1 : k \in DOMAIN s
    BY <1>1
  <2> QED
    BY <1>1, <2>1, SubSeqProperties
<1>3. /\ b \in Seq(S) /\ Len(b) = Len(s) - i
      /\ \A k \in 1..Len(s) - i : b[k] = s[i + k]
  <2>1. CASE i = Len(s)
    BY <1>1, <2>1, SubSeqProperties
  <2>2. CASE i # Len(s)
    <3>1. /\ i + 1 \in Int /\ Len(s) \in Int /\ i + 1 <= Len(s)
          /\ \A k \in i + 1..Len(s) : s[k] \in S
      BY <1>1, <2>2
    <3>2. /\ b \in Seq(S) /\ Len(b) = Len(s) - (i + 1) + 1
          /\ \A k \in 1..Len(s) - (i + 1) + 1 : b[k] = s[(i + 1) + k - 1]
      BY <3>1, SubSeqProperties
    <3> HIDE DEF b
    <3> QED
      BY <1>1, <3>2
  <2> QED
    BY <2>1, <2>2
<1> HIDE DEF a, b
<1>4. /\ t \in Seq(S) /\ Len(t) = Len(a) + Len(b)
      /\ \A k \in 1..Len(a) + Len(b) : t[k] = IF k <= Len(a) THEN a[k] ELSE b[k - Len(a)]
  BY <1>2, <1>3, ConcatProperties
<1>5. DOMAIN t = 1..Len(t)
  BY <1>4, LenProperties
<1> HIDE DEF t
<1>6. Len(t) = Len(s) - 1
  BY <1>1, <1>2, <1>3, <1>4
<1>7. ASSUME NEW k \in DOMAIN t
      PROVE  \E j \in DOMAIN s : t[k] = s[j]
  <2>1. k \in 1..Len(s) - 1
    BY <1>5, <1>6
  <2>2. t[k] = IF k <= i - 1 THEN a[k] ELSE b[k - (i - 1)]
    <3>1. k \in 1..Len(a) + Len(b)
      BY <1>4, <1>5
    <3>2. Len(a) = i - 1
      BY <1>2
    <3> QED
      BY <1>4, <3>1, <3>2
  <2>3. CASE k <= i - 1
    <3>1. k \in 1..i - 1 /\ k \in DOMAIN s
      BY <1>1, <2>1, <2>3
    <3> QED
      BY <1>2, <2>2, <2>3, <3>1
  <2>4. CASE ~(k <= i - 1)
    <3>1. k - (i - 1) \in 1..Len(s) - i /\ i + (k - (i - 1)) = k + 1 /\ k + 1 \in DOMAIN s
      BY <1>1, <2>1, <2>4
    <3>2. t[k] = s[k + 1]
      BY <1>3, <2>2, <2>4, <3>1
    <3> QED
      BY <3>1, <3>2
  <2> QED
    BY <2>3, <2>4
<1> QED
  BY <1>4, <1>6, <1>7 DEF RemoveAt, t, a, b

\* What the cache gives for a path that leads to the directory opened by up in the
\* expected tree: the same directory, new ones, and no more descriptors than it may have.
Gets(path, parent, up) ==
    /\ parent.err = "none"
    /\ TreeOK(parent.tree) /\ Contents(parent.tree) = Contents(up.tree)
    /\ DOMAIN tree \subseteq DOMAIN parent.tree
    /\ \A p \in DOMAIN tree : parent.tree[p] = tree[p]
    /\ \A p \in DOMAIN parent.tree \ DOMAIN tree : [at |-> p, gen |-> parent.tree[p].gen] \notin HeldFds
    /\ parent.fd \in Fds /\ parent.fd.at = up.at /\ Live(parent.tree, parent.fd)
    /\ parent.cache \in Seq(Held) /\ Len(parent.cache) <= FdsCache
    /\ \A i \in DOMAIN parent.cache : \/ parent.cache[i] = [path |-> path, fd |-> parent.fd]
                                      \/ \E j \in DOMAIN cache : parent.cache[i] = cache[j]

\* A descriptor that was not in the cache is put in front of the others.
LEMMA InsertFacts ==
  ASSUME CachesType, NEW c \in Held
  PROVE  LET t == CacheInsert(c, cache)
         IN  /\ t \in Seq(Held) /\ Len(t) <= FdsCache
             /\ \A k \in DOMAIN t : t[k] = c \/ \E j \in DOMAIN cache : t[k] = cache[j]
<1> DEFINE n == IF Len(cache) < FdsCache THEN Len(cache) ELSE FdsCache - 1
           r == First(cache, n)
<1>1. /\ Len(cache) \in Nat /\ DOMAIN cache = 1..Len(cache) /\ Len(cache) <= FdsCache
      /\ FdsCache \in Nat \ {0}
  BY LenProperties, BoundsAssumption DEF CachesType
<1>2. n \in 0..Len(cache) /\ n + 1 <= FdsCache
  BY <1>1
<1>3. CacheInsert(c, cache) = <<c>> \o r
  BY DEF CacheInsert
<1> HIDE DEF n
<1>4. \A i \in 1..n : cache[i] \in Held
  BY <1>1, <1>2 DEF CachesType
<1>5. r \in Seq(Held) /\ Len(r) = n /\ \A i \in 1..n : r[i] = cache[i]
  BY <1>2, <1>4, SubSeqProperties DEF First
<1> HIDE DEF r
<1>6. DOMAIN r = 1..n
  BY <1>5, LenProperties
<1>7. \A j \in DOMAIN r : j \in DOMAIN cache /\ r[j] = cache[j]
  BY <1>1, <1>2, <1>5, <1>6
<1> DEFINE t == <<c>> \o r
<1>8. /\ t \in Seq(Held) /\ Len(t) = Len(r) + 1
      /\ \A k \in DOMAIN t : t[k] = c \/ \E j \in DOMAIN r : t[k] = r[j]
  BY <1>5, InFront
<1> HIDE DEF t
<1>9. Len(t) <= FdsCache
  BY <1>1, <1>2, <1>5, <1>8
<1> QED
  BY <1>3, <1>7, <1>8, <1>9 DEF t

\* A cached descriptor is of the directory to which its path leads.
LEMMA CacheHit ==
  ASSUME TreeOK(tree), TreeOK(want), Contents(tree) = Contents(want),
         EntriesOK, CachesType, CachesOK,
         NEW path \in Seq(Names), \E i \in DOMAIN cache : cache[i].path = path
  PROVE  Gets(path, CacheGet(path), OpenDirectory(want, path))
<1> DEFINE hits == {i \in DOMAIN cache : cache[i].path = path}
           i == Min(hits)
           up == OpenDirectory(want, path)
           t == <<cache[i]>> \o RemoveAt(cache, i)
           parent == [err |-> "none", fd |-> cache[i].fd, tree |-> tree, cache |-> t]
<1>1. CacheGet(path) = parent
  BY DEF CacheGet
<1>2. /\ Len(cache) \in Nat /\ DOMAIN cache = 1..Len(cache) /\ Len(cache) <= FdsCache
      /\ cache \in Seq(Held)
  BY LenProperties DEF CachesType
<1>3. i \in hits
  <2>1. hits # {} /\ hits \subseteq Nat
    BY <1>2
  <2> HIDE DEF hits
  <2> QED
    BY <2>1, MinChosen
<1> HIDE DEF i
<1>4. i \in DOMAIN cache /\ cache[i].path = path
  BY <1>3
<1>5. cache[i] \in Held
  BY <1>2, <1>4, ElementOfSeq
<1>6. PICK s \in seen : Opened(cache[i], s)
  BY <1>4 DEF CachesOK
<1>7. WalkToDir(want, path) = Found(cache[i].fd.at)
  <2>1. Shape(want) /\ InPlace(want, seen) /\ EntryType(s)
    BY DEF EntriesOK, TreeOK
  <2>2. s.kind \notin Whiteouts /\ path = ParentOf(s.path) /\ cache[i].fd.at = ParentOf(s.at)
    BY <1>4, <1>6 DEF Opened
  <2> QED
    BY <2>1, <2>2, EntryParent
<1>8. up.at = cache[i].fd.at /\ Contents(up.tree) = Contents(want)
  <2>1. WalkToDir(want, path).err = "none" /\ WalkToDir(want, path).at = cache[i].fd.at
    BY <1>7 DEF Found
  <2> QED
    BY <2>1, OpenExisting DEF TreeOK
<1>9. /\ t \in Seq(Held) /\ Len(t) <= FdsCache
      /\ \A k \in DOMAIN t : \E j \in DOMAIN cache : t[k] = cache[j]
  <2> DEFINE r == RemoveAt(cache, i)
  <2>1. /\ r \in Seq(Held) /\ Len(r) = Len(cache) - 1
        /\ \A k \in DOMAIN r : \E j \in DOMAIN cache : r[k] = cache[j]
    <3>1. cache \in Seq(Held) /\ i \in DOMAIN cache
      BY <1>2, <1>4
    <3> QED
      BY <3>1, RemoveAtFacts
  <2> HIDE DEF r
  <2>2. LET u == <<cache[i]>> \o r
        IN  /\ u \in Seq(Held) /\ Len(u) = Len(r) + 1
            /\ \A k \in DOMAIN u : u[k] = cache[i] \/ \E j \in DOMAIN r : u[k] = r[j]
    BY <1>5, <2>1, InFront
  <2>3. /\ t \in Seq(Held) /\ Len(t) = Len(r) + 1
        /\ \A k \in DOMAIN t : t[k] = cache[i] \/ \E j \in DOMAIN r : t[k] = r[j]
    BY <2>2 DEF r
  <2> HIDE DEF t
  <2>4. Len(t) = Len(cache)
    BY <1>2, <2>1, <2>3
  <2> QED
    BY <1>2, <1>4, <2>1, <2>3, <2>4
<1>10. Live(tree, cache[i].fd)
  BY <1>4 DEF CachesOK
<1> HIDE DEF t, up
<1>11. /\ parent.err = "none" /\ parent.fd = cache[i].fd /\ parent.tree = tree /\ parent.cache = t
  OBVIOUS
<1>12. cache[i].fd \in Fds
  BY <1>5 DEF Held
<1> HIDE DEF parent
<1>13. Gets(path, parent, up)
  BY <1>8, <1>9, <1>10, <1>11, <1>12 DEF Gets
<1> QED
  BY <1>1, <1>13 DEF up

\* A directory is opened by its path if no descriptor is cached.
LEMMA CacheMiss ==
  ASSUME TreeOK(tree), TreeOK(want), Contents(tree) = Contents(want),
         CachesType, NEW path \in Seq(Names),
         ~ \E i \in DOMAIN cache : cache[i].path = path,
         OpenDirectory(want, path).err = "none"
  PROVE  Gets(path, CacheGet(path), OpenDirectory(want, path))
<1> DEFINE up == OpenDirectory(want, path)
           opened == OpenDirectory(tree, path)
           fd == Fd(opened.tree, opened.at)
           c == [path |-> path, fd |-> fd]
           t == CacheInsert(c, cache)
           parent == [err |-> "none", fd |-> fd, tree |-> opened.tree, cache |-> t]
<1>1. opened.err = "none" /\ opened.at = up.at /\ Contents(opened.tree) = Contents(up.tree)
  BY OpenSame DEF TreeOK
<1>2. CacheGet(path) = parent
  <2>1. CacheGet(path) = CacheAdd(path, OpenDirectory(tree, path), cache)
    BY DEF CacheGet
  <2> QED
    BY <1>1, <2>1 DEF CacheAdd
<1>3. /\ DOMAIN tree \subseteq DOMAIN opened.tree
      /\ \A p \in DOMAIN tree : opened.tree[p] = tree[p]
      /\ opened.at \in Seq(Names) /\ Has(opened.tree, opened.at, "dir")
  BY <1>1, OpenFacts DEF TreeOK
<1>4. /\ TreeOK(opened.tree)
      /\ \A p \in DOMAIN opened.tree \ DOMAIN tree :
            [at |-> p, gen |-> opened.tree[p].gen] \notin HeldFds
  BY OpenNodes
<1> HIDE DEF opened, up
<1>5. fd \in Fds /\ fd.at = opened.at /\ Live(opened.tree, fd)
  <2>1. opened.tree[opened.at] \in Nodes /\ opened.tree[opened.at].type = "dir"
    BY <1>3, <1>4 DEF TreeOK, Has
  <2> QED
    BY <1>3, <2>1, NodesFacts DEF Fds, Fd, Live
<1> HIDE DEF fd
<1>6. c \in Held
  BY <1>5 DEF Held
<1> HIDE DEF c
<1>7. /\ t \in Seq(Held) /\ Len(t) <= FdsCache
      /\ \A k \in DOMAIN t : t[k] = c \/ \E j \in DOMAIN cache : t[k] = cache[j]
  BY <1>6, InsertFacts
<1> HIDE DEF t
<1>8. /\ parent.err = "none" /\ parent.fd = fd /\ parent.tree = opened.tree /\ parent.cache = t
  OBVIOUS
<1> HIDE DEF parent
<1>9. Gets(path, parent, up)
  BY <1>1, <1>3, <1>4, <1>5, <1>7, <1>8 DEF Gets, c
<1> QED
  BY <1>2, <1>9 DEF up

-----------------------------------------------------------------------------
(* The inductive invariant. *)

\* The values of outcome, and the directories whose metadata waits.
Outcomes == {"layers", "metadata"} \union Ends

MetaType == /\ DOMAIN dirsMeta \subseteq {Key(p) : p \in Paths}
            /\ \A k \in DOMAIN dirsMeta : dirsMeta[k] \in Modes

\* The inductive invariant.  That the tree is the expected one (TreeIsOverlay) is not
\* inductive alone: an entry uses a descriptor opened for an earlier entry, so it must be
\* live (CachesOK) and of the directory to which the path still leads.  The latter follows
\* from the entry that opened it (Opened, LinkOpened), which is still in place (EntriesOK).
\* A descriptor is live for good since no new directory has the generation of one that
\* is held, and some generation is free since the caches are bounded (CachesType).
IInv == /\ TreeOK(tree) /\ TreeOK(want)
        /\ EntriesOK
        /\ CachesType /\ CachesOK
        /\ MetaType
        /\ layer \in 1..MaxLayers /\ shape \in Shapes
        /\ outcome \in Outcomes
        /\ TreeIsOverlay

\* The directory in which an entry is put, and its path there.
LEMMA EntryFacts ==
  ASSUME IInv, NEW kind, NEW p \in Paths, NEW to \in Paths, Entry(kind, p, to)
  PROVE  LET up == OpenDirectory(want, ParentOf(p))
             q  == Child(up.at, p)
         IN  /\ outcome = "layers" /\ layer' = layer /\ shape' = shape
             /\ Contents(tree) = Contents(want)
             /\ p \in Seq(Names) /\ to \in Seq(Names) /\ ParentOf(p) \in Seq(Names)
             /\ up.err = "none" /\ TreeOK(up.tree) /\ Has(up.tree, up.at, "dir")
             /\ up.at \in Seq(Names) /\ q \in Seq(Names)
             /\ p = Root => up.at = Root /\ q = Root
             /\ p # Root => q # Root /\ q = Append(up.at, Last(p)) /\ Front(q) = up.at
                            /\ Last(p) \in Names
             /\ ParentOf(q) = up.at
             /\ WellFormed(kind, p, to)
             /\ want' = Overlay(kind, p, to, up)
             /\ seen' = seen \union {Record(kind, p, to, q)}
             /\ InPlace(want', seen')
             /\ Gets(ParentOf(p), CacheGet(ParentOf(p)), up)
<1> DEFINE up == OpenDirectory(want, ParentOf(p))
           q  == Child(up.at, p)
<1>1. /\ outcome = "layers" /\ layer' = layer /\ shape' = shape
      /\ WellFormed(kind, p, to) /\ up.err = "none"
      /\ want' = Overlay(kind, p, to, up)
      /\ seen' = seen \union {Record(kind, p, to, q)}
      /\ InPlace(want', seen')
  BY DEF Entry, WellFormed
<1>2. Contents(tree) = Contents(want)
  BY <1>1 DEF IInv, TreeIsOverlay
<1>3. p \in Seq(Names) /\ to \in Seq(Names) /\ ParentOf(p) \in Seq(Names)
  BY PathsFacts, ParentFacts
<1>4. TreeOK(up.tree) /\ Has(up.tree, up.at, "dir") /\ up.at \in Seq(Names)
  BY <1>1, <1>3, OpenFacts, OpenNodes DEF IInv, TreeOK
<1>5. p = Root => up.at = Root
  <2> SUFFICES ASSUME p = Root
               PROVE  up.at = Root
    OBVIOUS
  <2>1. ParentOf(p) = Root /\ Shape(want) /\ Has(want, Root, "dir")
    BY DEF ParentOf, IInv, TreeOK, Shape
  <2>2. WalkToDir(want, Root) = Found(Root) /\ Root \in Seq(Names)
    BY <2>1, WalkReal
  <2>3. WalkToDir(want, Root).err = "none" /\ WalkToDir(want, Root).at = Root
    BY <2>2 DEF Found
  <2> QED
    BY <2>1, <2>2, <2>3, OpenExisting
<1>6. Gets(ParentOf(p), CacheGet(ParentOf(p)), up)
  BY <1>1, <1>2, <1>3, CacheHit, CacheMiss DEF IInv
<1> HIDE DEF up
<1>7. /\ q \in Seq(Names)
      /\ p = Root => q = Root
      /\ p # Root => q # Root /\ q = Append(up.at, Last(p)) /\ Front(q) = up.at
                     /\ Last(p) \in Names
      /\ ParentOf(q) = up.at
  <2>1. CASE p = Root
    BY <1>3, <1>4, <1>5, <2>1, ChildFacts DEF ParentOf
  <2>2. CASE p # Root
    BY <1>3, <1>4, <2>2, ChildFacts
  <2> QED
    BY <2>1, <2>2
<1> QED
  BY <1>1, <1>2, <1>3, <1>4, <1>5, <1>6, <1>7 DEF up

\* The source of a hard link is in the expected tree, where the path of its parent leads.
LEMMA SourceFacts ==
  ASSUME IInv, NEW p \in Paths, NEW to \in Paths, WellFormed("link", p, to)
  PROVE  LET w   == WalkToDir(want, ParentOf(to))
             old == Child(w.at, to)
         IN  /\ to # Root /\ w = Found(w.at) /\ w.err = "none"
             /\ w.at \in Seq(Names) /\ Has(want, w.at, "dir")
             /\ old \in DOMAIN want /\ want[old].type # "dir"
             /\ old \in Seq(Names) /\ ParentOf(old) = w.at
             /\ old # Child(OpenDirectory(want, ParentOf(p)).at, p)
<1> DEFINE w == WalkToDir(want, ParentOf(to))
           old == Child(w.at, to)
<1>1. /\ to # Root /\ w.err = "none"
      /\ old \in DOMAIN want /\ want[old].type # "dir"
      /\ old # Child(OpenDirectory(want, ParentOf(p)).at, p)
  BY DEF WellFormed, WellFormedLink
<1>2. to \in Seq(Names) /\ ParentOf(to) \in Seq(Names)
  BY PathsFacts, ParentFacts
<1>3. w = Found(w.at) /\ w.at \in Seq(Names) /\ Has(want, w.at, "dir")
  BY <1>1, <1>2, WalkToDirType DEF IInv, TreeOK
<1>4. old \in Seq(Names) /\ ParentOf(old) = w.at
  BY <1>1, <1>2, <1>3, ChildFacts
<1> QED
  BY <1>1, <1>3, <1>4

\* The entries that have been seen, with one more.
LEMMA SeenFacts ==
  ASSUME IInv, NEW kind, NEW p \in Paths, NEW to \in Paths, Entry(kind, p, to)
  PROVE  /\ EntriesOK'
         /\ seen \subseteq seen'
         /\ LET up == OpenDirectory(want, ParentOf(p))
                s  == Record(kind, p, to, Child(up.at, p))
            IN  /\ s \in seen' /\ s.kind = kind /\ s.path = p /\ s.at = Child(up.at, p)
                /\ ParentOf(s.at) = up.at
                /\ kind = "link" => /\ s.source = to
                                    /\ ParentOf(s.from) = WalkToDir(want, ParentOf(to)).at
<1> DEFINE up == OpenDirectory(want, ParentOf(p))
           q  == Child(up.at, p)
           s  == Record(kind, p, to, q)
<1>1. /\ p \in Seq(Names) /\ q \in Seq(Names) /\ ParentOf(q) = up.at
      /\ WellFormed(kind, p, to)
      /\ seen' = seen \union {s}
      /\ InPlace(want', seen')
  BY EntryFacts
<1> HIDE DEF up, q
<1>2. s.kind = kind /\ s.path = p /\ s.at = q
  BY DEF Record
<1>3. ASSUME kind = "link"
      PROVE  /\ s.source = to /\ s.source \in Seq(Names) \ {Root} /\ s.from \in Seq(Names)
             /\ ParentOf(s.from) = WalkToDir(want, ParentOf(to)).at
  <2>1. s.source = to /\ s.from = Child(WalkToDir(want, ParentOf(to)).at, to)
    BY <1>3 DEF Record
  <2>2. to \in Seq(Names)
    BY PathsFacts
  <2> QED
    BY <1>1, <1>3, <2>1, <2>2, SourceFacts
<1>4. EntryType(s)
  BY <1>1, <1>2, <1>3 DEF EntryType
<1>5. \A r \in seen' : EntryType(r)
  BY <1>1, <1>4 DEF IInv, EntriesOK
<1>6. EntriesOK'
  BY <1>1, <1>5 DEF EntriesOK, InPlace, EntryType, LateWhiteout
<1> QED
  BY <1>1, <1>2, <1>3, <1>6 DEF up, q

\* A whiteout that came late stays among the entries.
LEMMA StaysLate ==
  ASSUME NEW entries, NEW more, entries \subseteq more, LateWhiteout(entries)
  PROVE  LateWhiteout(more)
BY DEF LateWhiteout

\* An entry that is refused, or whose cached directory is gone, ends the call.
LEMMA Refusal ==
  ASSUME IInv, NEW kind, NEW p \in Paths, NEW to \in Paths, Entry(kind, p, to),
         TreeOK(want'), Fail(kind, p, to), Refused(kind, p, to) \/ StaleSource(kind, to)
  PROVE  IInv'
<1>1. /\ outcome' \in {"refused", "stale"} /\ layer' = layer /\ shape' = shape
      /\ tree' = tree /\ cache' = cache /\ linkFd' = linkFd /\ dirsMeta' = dirsMeta
      /\ outcome' = "stale" => StaleSource(kind, to)
  BY EntryFacts DEF Fail
<1>2. EntriesOK' /\ seen \subseteq seen'
  BY SeenFacts
<1>3. TreeOK(tree)' /\ TreeOK(want)'
  BY <1>1 DEF IInv
<1>4. CachesType' /\ MetaType'
  BY <1>1 DEF IInv, CachesType, MetaType
<1>5. CachesOK'
  <2>1. ~LateWhiteout(seen') => \A c \in linkFd : Live(tree, c.fd)
    BY <1>2, StaysLate DEF IInv, CachesOK
  <2> QED
    BY <1>1, <1>2, <2>1 DEF IInv, CachesOK, Live, Has, Opened, LinkOpened, LateWhiteout
<1>6. TreeIsOverlay'
  <2>1. outcome' = "stale" => LateWhiteout(seen)
    BY <1>1 DEF IInv, CachesOK, StaleSource
  <2>2. outcome' = "stale" => LateWhiteout(seen')
    BY <1>2, <2>1, StaysLate
  <2> QED
    BY <1>1, <2>2 DEF TreeIsOverlay, LateWhiteout
<1> QED
  BY <1>1, <1>2, <1>3, <1>4, <1>5, <1>6 DEF IInv, Outcomes, Ends

\* The caches after an entry that is put in the tree: nothing that a descriptor was of
\* is gone.
LEMMA CachesKept ==
  ASSUME IInv, NEW kind, NEW p \in Paths, NEW to \in Paths, Entry(kind, p, to),
         kind \notin Whiteouts,
         TreeOK(want'), TreeOK(tree'), Contents(tree') = Contents(want'),
         cache' = CacheGet(ParentOf(p)).cache,
         LET parent == CacheGet(ParentOf(p))
         IN  \A r \in DOMAIN parent.tree \intersect DOMAIN tree' :
                Has(tree', r, "dir") => tree'[r] = parent.tree[r],
         \/ linkFd' = linkFd
         \/ /\ kind = "link"
            /\ \E fd \in Fds : /\ linkFd' = {[path |-> ParentOf(to), fd |-> fd]}
                               /\ fd.at = WalkToDir(want, ParentOf(to)).at
                               /\ Live(CacheGet(ParentOf(p)).tree, fd)
  PROVE  CachesType' /\ CachesOK'
<1> DEFINE parent == CacheGet(ParentOf(p))
           up == OpenDirectory(want, ParentOf(p))
           s  == Record(kind, p, to, Child(up.at, p))
<1>1. /\ EntriesOK' /\ seen \subseteq seen'
      /\ s \in seen' /\ s.kind = kind /\ s.path = p
      /\ ParentOf(s.at) = up.at
      /\ kind = "link" => /\ s.source = to
                          /\ ParentOf(s.from) = WalkToDir(want, ParentOf(to)).at
  BY SeenFacts
<1>2. Gets(ParentOf(p), parent, up) /\ ParentOf(p) \in Seq(Names) /\ to \in Seq(Names)
  BY EntryFacts
<1> HIDE DEF parent, up, s
<1>3. ASSUME NEW e \in seen', e.kind \notin Whiteouts
      PROVE  Has(tree', ParentOf(e.at), "dir")
  <2>1. InPlace(want', seen') /\ EntryType(e) /\ Shape(want')
    BY <1>1 DEF EntriesOK, InPlace, EntryType, TreeOK
  <2>2. Has(want', ParentOf(e.at), "dir")
    BY <1>3, <2>1, EntryParent
  <2> QED
    BY <2>2, SameWalk DEF TreeOK
<1>4. cache' \in Seq(Held) /\ Len(cache') <= FdsCache
  BY <1>2 DEF Gets, parent
<1>5. ASSUME NEW e \in seen', e.kind = "link", ~LateWhiteout(seen')
      PROVE  Has(tree', ParentOf(e.from), "dir")
  <2>1. InPlace(want', seen') /\ Shape(want')
    BY <1>1 DEF EntriesOK, InPlace, EntryType, LateWhiteout, TreeOK
  <2>2. Has(want', ParentOf(e.from), "dir")
    BY <1>5, <2>1 DEF InPlace, Whiteouts
  <2> QED
    BY <2>2, SameWalk DEF TreeOK
<1>6. ASSUME NEW c, NEW e \in seen', LinkOpened(c, e), ~LateWhiteout(seen'), Live(parent.tree, c.fd)
      PROVE  Live(tree', c.fd)
  <2>1. Has(tree', c.fd.at, "dir")
    BY <1>5, <1>6 DEF LinkOpened
  <2>2. \A r \in DOMAIN parent.tree \intersect DOMAIN tree' :
           Has(tree', r, "dir") => tree'[r] = parent.tree[r]
    BY DEF parent
  <2> QED
    BY <1>6, <2>1, <2>2, StillLive
<1>7. ASSUME NEW i \in DOMAIN cache'
      PROVE  Live(tree', cache'[i].fd) /\ \E e \in seen' : Opened(cache'[i], e)
  <2> DEFINE c == cache'[i]
  <2>1. \/ c = [path |-> ParentOf(p), fd |-> parent.fd]
        \/ \E j \in DOMAIN cache : c = cache[j]
    BY <1>2 DEF Gets, parent
  <2>2. ASSUME c = [path |-> ParentOf(p), fd |-> parent.fd]
        PROVE  Live(parent.tree, c.fd) /\ Opened(c, s)
    <3>1. c.path = ParentOf(p) /\ c.fd = parent.fd
      BY <2>2
    <3> QED
      BY <1>1, <1>2, <3>1 DEF Gets, Opened
  <2>3. ASSUME NEW j \in DOMAIN cache, c = cache[j]
        PROVE  Live(parent.tree, c.fd) /\ \E e \in seen' : Opened(c, e)
    <3>1. Live(tree, c.fd) /\ \E e \in seen : Opened(c, e)
      BY <2>3 DEF IInv, CachesOK
    <3>2. Live(parent.tree, c.fd)
      BY <1>2, <3>1 DEF Gets, Live, Has
    <3> QED
      BY <1>1, <3>1, <3>2
  <2> HIDE DEF c
  <2>4. Live(parent.tree, c.fd) /\ \E e \in seen' : Opened(c, e)
    BY <1>1, <2>1, <2>2, <2>3
  <2>5. PICK e \in seen' : Opened(c, e)
    BY <2>4
  <2>6. Has(tree', c.fd.at, "dir")
    BY <1>3, <2>5 DEF Opened
  <2>7. \A r \in DOMAIN parent.tree \intersect DOMAIN tree' :
           Has(tree', r, "dir") => tree'[r] = parent.tree[r]
    BY DEF parent
  <2>8. Live(tree', c.fd)
    BY <2>4, <2>6, <2>7, StillLive
  <2> QED
    BY <2>5, <2>8 DEF c
<1>8. CASE linkFd' = linkFd
  <2>1. CachesType'
    BY <1>4, <1>8 DEF IInv, CachesType
  <2>2. \A c \in linkFd' : \E e \in seen' : LinkOpened(c, e)
    BY <1>1, <1>8 DEF IInv, CachesOK
  <2>3. ASSUME ~LateWhiteout(seen'), NEW c \in linkFd'
        PROVE  Live(tree', c.fd)
    <3>1. Live(tree, c.fd)
      BY <1>1, <1>8, <2>3, StaysLate DEF IInv, CachesOK
    <3>2. Live(parent.tree, c.fd)
      BY <1>2, <3>1 DEF Gets, Live, Has
    <3> QED
      BY <1>6, <2>2, <2>3, <3>2
  <2>4. CachesOK'
    BY <1>7, <2>2, <2>3 DEF CachesOK, Live, Has, Opened, LinkOpened, LateWhiteout
  <2> QED
    BY <2>1, <2>4
<1>9. CASE kind = "link" /\ \E fd \in Fds : /\ linkFd' = {[path |-> ParentOf(to), fd |-> fd]}
                                            /\ fd.at = WalkToDir(want, ParentOf(to)).at
                                            /\ Live(parent.tree, fd)
  <2>1. PICK fd \in Fds : /\ linkFd' = {[path |-> ParentOf(to), fd |-> fd]}
                          /\ fd.at = WalkToDir(want, ParentOf(to)).at
                          /\ Live(parent.tree, fd)
    BY <1>9
  <2> DEFINE d == [path |-> ParentOf(to), fd |-> fd]
  <2>2. d \in Held /\ d.path = ParentOf(to) /\ d.fd = fd
    BY <1>2, ParentFacts DEF Held
  <2> HIDE DEF d
  <2>3. linkFd' = {d}
    BY <2>1 DEF d
  <2>4. CachesType'
    BY <1>4, <2>2, <2>3 DEF CachesType
  <2>5. LinkOpened(d, s)
    BY <1>1, <1>9, <2>1, <2>2 DEF LinkOpened
  <2>6. \A c \in linkFd' : \E e \in seen' : LinkOpened(c, e)
    BY <1>1, <2>3, <2>5
  <2>7. ASSUME ~LateWhiteout(seen'), NEW c \in linkFd'
        PROVE  Live(tree', c.fd)
    BY <1>6, <1>1, <2>1, <2>2, <2>3, <2>5, <2>7
  <2> QED
    BY <1>7, <2>4, <2>6, <2>7 DEF CachesOK, Live, Has, Opened, LinkOpened, LateWhiteout
<1> QED
  BY <1>8, <1>9 DEF parent

\* Any entry that is unpacked.
LEMMA Unpacked ==
  ASSUME IInv, NEW kind, NEW p \in Paths, NEW to \in Paths, Entry(kind, p, to),
         TreeOK(want'), TreeOK(tree'), Contents(tree') = Contents(want'),
         CachesType', CachesOK', MetaType', outcome' = outcome
  PROVE  IInv'
<1>1. outcome = "layers" /\ layer' = layer /\ shape' = shape
  BY EntryFacts
<1>2. EntriesOK'
  BY SeenFacts
<1>3. TreeOK(tree)' /\ TreeOK(want)'
  OBVIOUS
<1>4. TreeIsOverlay'
  BY <1>1 DEF TreeIsOverlay, Contents, Content
<1> QED
  BY <1>1, <1>2, <1>3, <1>4 DEF IInv, Outcomes

\* A whiteout, that closes all the descriptors but that of the last hard link: if there
\* is one, the whiteout comes late.
LEMMA CachesCleared ==
  ASSUME IInv, NEW kind \in Whiteouts, NEW p \in Paths, NEW to \in Paths, Entry(kind, p, to),
         cache' = <<>>, linkFd' = linkFd
  PROVE  CachesType' /\ CachesOK'
<1>1. seen \subseteq seen'
  BY SeenFacts
<1>2. CachesType'
  <2>1. FdsCache \in Nat
    BY BoundsAssumption
  <2>2. cache' \in Seq(Held) /\ Len(cache') = 0
    BY EmptySeq
  <2>3. linkFd' \subseteq Held /\ (linkFd' = {} \/ \E c : linkFd' = {c})
    BY DEF IInv, CachesType
  <2>4. Len(cache') <= FdsCache
    BY <2>1, <2>2
  <2> QED
    BY <2>2, <2>3, <2>4 DEF CachesType
<1>3. DOMAIN cache' = {}
  OBVIOUS
<1>4. \A c \in linkFd' : \E e \in seen' : LinkOpened(c, e)
  BY <1>1 DEF IInv, CachesOK
<1>5. ASSUME NEW c \in linkFd
      PROVE  LateWhiteout(seen')
  <2> DEFINE s == Record(kind, p, to, Child(OpenDirectory(want, ParentOf(p)).at, p))
  <2>1. s \in seen' /\ s.kind = kind
    BY SeenFacts
  <2>2. Upper(seen) # {}
    BY DEF IInv, CachesOK, LinkOpened, Upper, Whiteouts
  <2>3. s.late = (Upper(seen) # {})
    BY DEF Record, Whiteouts
  <2> HIDE DEF s
  <2> QED
    BY <2>1, <2>2, <2>3 DEF LateWhiteout
<1> QED
  BY <1>2, <1>3, <1>4, <1>5 DEF CachesOK, Live, Has, Opened, LinkOpened, LateWhiteout

-----------------------------------------------------------------------------
(* What an entry puts in a tree or removes from it. *)

\* A node that replaces what is at its path.
LEMMA PutFacts ==
  ASSUME NEW T, TreeOK(T), NEW q \in Seq(Names), q # Root, Has(T, Front(q), "dir"),
         NEW node \in Nodes
  PROVE  LET U == With(Without(T, q), q, node)
         IN  /\ TreeOK(U)
             /\ U[q] = node /\ q \in DOMAIN U
             /\ \A r \in DOMAIN U : r # q => r \in DOMAIN T /\ U[r] = T[r]
<1> DEFINE V == Without(T, q)
           U == With(V, q, node)
<1>1. /\ Shape(V) /\ Beneath(V, q) = {} /\ Has(V, Front(q), "dir")
      /\ DOMAIN V = DOMAIN T \ (Beneath(T, q) \union {q}) /\ \A r \in DOMAIN V : V[r] = T[r]
  <2>1. Shape(T)
    BY DEF TreeOK
  <2> QED
    BY <2>1, WithoutFacts
<1> HIDE DEF V
<1>2. Shape(U)
  <2>1. Shape(V) /\ Beneath(V, q) = {} /\ Has(V, Front(q), "dir")
    BY <1>1
  <2>2. node.type \in {"dir", "file", "link"} /\ (node.type = "link" => node.to \in Seq(Names))
    BY NodesFacts
  <2> QED
    BY <2>1, <2>2, ShapeWith
<1>3. /\ DOMAIN U = DOMAIN V \union {q} /\ U[q] = node
      /\ \A r \in DOMAIN V : r # q => U[r] = V[r]
  BY DEF With
<1> HIDE DEF U
<1>4. \A r \in DOMAIN U : r # q => r \in DOMAIN T /\ U[r] = T[r]
  BY <1>1, <1>3
<1>5. \A r \in DOMAIN U : U[r] \in Nodes
  BY <1>3, <1>4 DEF TreeOK
<1> QED
  BY <1>2, <1>3, <1>4, <1>5 DEF TreeOK, U, V

\* A part of a tree.
LEMMA PartFacts ==
  ASSUME NEW T, TreeOK(T), NEW q \in Seq(Names)
  PROVE  /\ q # Root => TreeOK(Without(T, q))
         /\ TreeOK(WithoutSubtree(T, q))
<1>1. TreeOK(WithoutSubtree(T, q))
  <2> DEFINE U == WithoutSubtree(T, q)
  <2>1. Shape(U) /\ DOMAIN U \subseteq DOMAIN T /\ \A r \in DOMAIN U : U[r] = T[r]
    BY WithoutSubtreeFacts DEF TreeOK
  <2> HIDE DEF U
  <2>2. TreeOK(U)
    BY <2>1 DEF TreeOK
  <2> QED
    BY <2>2 DEF U
<1>2. ASSUME q # Root
      PROVE  TreeOK(Without(T, q))
  <2> DEFINE U == Without(T, q)
  <2>1. /\ Shape(U) /\ DOMAIN U = DOMAIN T \ (Beneath(T, q) \union {q})
        /\ \A r \in DOMAIN U : U[r] = T[r]
    <3>1. Shape(T)
      BY DEF TreeOK
    <3> QED
      BY <1>2, <3>1, WithoutFacts
  <2> HIDE DEF U
  <2>2. TreeOK(U)
    BY <2>1 DEF TreeOK
  <2> QED
    BY <2>2 DEF U
<1> QED
  BY <1>1, <1>2

\* The same node in two trees of the same contents.
LEMMA SamePut ==
  ASSUME NEW T, NEW U, Contents(T) = Contents(U), NEW q, NEW node, NEW other,
         Content(node) = Content(other)
  PROVE  Contents(With(Without(T, q), q, node)) = Contents(With(Without(U, q), q, other))
BY SameRemoved, SameWith

\* dirs_metadata gets and loses a key.
LEMMA MetaFacts ==
  ASSUME IInv, NEW p \in Paths
  PROVE  /\ dirsMeta' = StoreMetadata(p) => MetaType'
         /\ dirsMeta' = dirsMeta => MetaType'
         /\ \A k : dirsMeta' = Restrict(dirsMeta, DOMAIN dirsMeta \ {k}) => MetaType'
<1>1. MetaType /\ Mode(p) \in Modes
  BY ModesFacts DEF IInv
<1>2. ASSUME dirsMeta' = StoreMetadata(p)
      PROVE  MetaType'
  <2>1. /\ DOMAIN dirsMeta' = DOMAIN dirsMeta \union {Key(p)}
        /\ \A k \in DOMAIN dirsMeta' :
              dirsMeta'[k] = IF k = Key(p) THEN Mode(p) ELSE dirsMeta[k]
    BY <1>2 DEF StoreMetadata, With
  <2>2. \A k \in DOMAIN dirsMeta' : dirsMeta'[k] \in Modes
    BY <1>1, <2>1 DEF MetaType
  <2>3. DOMAIN dirsMeta' \subseteq {Key(r) : r \in Paths}
    BY <1>1, <2>1 DEF MetaType
  <2> QED
    BY <2>2, <2>3 DEF MetaType, Modes
<1>3. ASSUME dirsMeta' = dirsMeta
      PROVE  MetaType'
  BY <1>1, <1>3 DEF MetaType, Modes
<1>4. ASSUME NEW k, dirsMeta' = Restrict(dirsMeta, DOMAIN dirsMeta \ {k})
      PROVE  MetaType'
  <2>1. /\ DOMAIN dirsMeta' \subseteq DOMAIN dirsMeta
        /\ \A j \in DOMAIN dirsMeta' : dirsMeta'[j] = dirsMeta[j]
    BY <1>4 DEF Restrict
  <2>2. \A j \in DOMAIN dirsMeta' : dirsMeta'[j] \in Modes
    BY <1>1, <2>1 DEF MetaType
  <2>3. DOMAIN dirsMeta' \subseteq {Key(r) : r \in Paths}
    BY <1>1, <2>1 DEF MetaType
  <2> QED
    BY <2>2, <2>3 DEF MetaType, Modes
<1> QED
  BY <1>2, <1>3, <1>4

-----------------------------------------------------------------------------
(* The actions keep the invariant. *)

\* The tree in which the code puts an entry, and the one that the expected tree gives.
LEMMA ParentOpened ==
  ASSUME IInv, NEW kind, NEW p \in Paths, NEW to \in Paths, Entry(kind, p, to)
  PROVE  LET parent == CacheGet(ParentOf(p))
             up     == OpenDirectory(want, ParentOf(p))
         IN  /\ parent.err = "none" /\ TreeOK(parent.tree) /\ TreeOK(up.tree)
             /\ Contents(parent.tree) = Contents(up.tree)
             /\ DOMAIN parent.tree = DOMAIN up.tree
             /\ \A r, type : Has(parent.tree, r, type) <=> Has(up.tree, r, type)
             /\ \A r : WalkToDir(parent.tree, r) = WalkToDir(up.tree, r)
             /\ Live(parent.tree, parent.fd)
             /\ Child(parent.fd.at, p) = Child(up.at, p)
<1> DEFINE parent == CacheGet(ParentOf(p))
           up     == OpenDirectory(want, ParentOf(p))
<1>1. Gets(ParentOf(p), parent, up) /\ TreeOK(up.tree)
  BY EntryFacts
<1> HIDE DEF parent, up
<1>2. Shape(parent.tree) /\ Shape(up.tree) /\ Contents(parent.tree) = Contents(up.tree)
  BY <1>1 DEF Gets, TreeOK
<1>3. /\ DOMAIN parent.tree = DOMAIN up.tree
      /\ \A r, type : Has(parent.tree, r, type) <=> Has(up.tree, r, type)
      /\ \A r : WalkToDir(parent.tree, r) = WalkToDir(up.tree, r)
  BY <1>2, SameWalk
<1> QED
  BY <1>1, <1>2, <1>3 DEF Gets, parent, up

\* A node that replaces what is at the path of an entry, in the tree and in the expected one.
LEMMA PutEntry ==
  ASSUME IInv, NEW kind, NEW p \in Paths \ {Root}, NEW to \in Paths, Entry(kind, p, to),
         NEW node \in Nodes, NEW other \in Nodes, Content(node) = Content(other)
  PROVE  LET parent == CacheGet(ParentOf(p))
             up     == OpenDirectory(want, ParentOf(p))
             q      == Child(up.at, p)
             T      == With(Without(parent.tree, q), q, node)
             W      == With(Without(up.tree, q), q, other)
         IN  /\ TreeOK(T) /\ TreeOK(W) /\ Contents(T) = Contents(W)
             /\ T[q] = node
             /\ \A r \in DOMAIN T : r # q => r \in DOMAIN parent.tree /\ T[r] = parent.tree[r]
<1> DEFINE parent == CacheGet(ParentOf(p))
           up     == OpenDirectory(want, ParentOf(p))
           q      == Child(up.at, p)
<1>1. /\ q \in Seq(Names) /\ q # Root /\ Front(q) = up.at
      /\ Has(up.tree, up.at, "dir")
  BY EntryFacts
<1>2. /\ TreeOK(parent.tree) /\ TreeOK(up.tree) /\ Contents(parent.tree) = Contents(up.tree)
      /\ \A r, type : Has(parent.tree, r, type) <=> Has(up.tree, r, type)
  BY ParentOpened
<1> HIDE DEF parent, up, q
<1> DEFINE T == With(Without(parent.tree, q), q, node)
           W == With(Without(up.tree, q), q, other)
<1>3. Has(parent.tree, Front(q), "dir") /\ Has(up.tree, Front(q), "dir")
  BY <1>1, <1>2
<1>4. /\ TreeOK(T) /\ T[q] = node
      /\ \A r \in DOMAIN T : r # q => r \in DOMAIN parent.tree /\ T[r] = parent.tree[r]
  BY <1>1, <1>2, <1>3, PutFacts
<1>5. TreeOK(W)
  BY <1>1, <1>2, <1>3, PutFacts
<1>6. Contents(T) = Contents(W)
  BY <1>2, SamePut
<1> QED
  BY <1>4, <1>5, <1>6 DEF parent, up, q

\* What the steps for files and links have in common.
LEMMA PutStep ==
  ASSUME IInv, NEW kind \in {"file", "symlink", "link"},
         NEW p \in Paths \ {Root}, NEW to \in Paths, Entry(kind, p, to),
         NEW node \in Nodes, NEW other \in Nodes, Content(node) = Content(other),
         node.type # "dir",
         LET parent == CacheGet(ParentOf(p))
             up     == OpenDirectory(want, ParentOf(p))
             q      == Child(up.at, p)
         IN  /\ want' = With(Without(up.tree, q), q, other)
             /\ tree' = With(Without(parent.tree, q), q, node)
             /\ cache' = parent.cache,
         \/ linkFd' = linkFd
         \/ /\ kind = "link"
            /\ \E fd \in Fds : /\ linkFd' = {[path |-> ParentOf(to), fd |-> fd]}
                               /\ fd.at = WalkToDir(want, ParentOf(to)).at
                               /\ Live(CacheGet(ParentOf(p)).tree, fd),
         MetaType', outcome' = outcome
  PROVE  IInv'
<1> DEFINE parent == CacheGet(ParentOf(p))
           up     == OpenDirectory(want, ParentOf(p))
           q      == Child(up.at, p)
<1>1. /\ TreeOK(tree') /\ TreeOK(want') /\ Contents(tree') = Contents(want')
      /\ tree'[q] = node
      /\ \A r \in DOMAIN tree' : r # q => tree'[r] = parent.tree[r]
  BY PutEntry
<1>2. \A r \in DOMAIN parent.tree \intersect DOMAIN tree' :
         Has(tree', r, "dir") => tree'[r] = parent.tree[r]
  <2> HIDE DEF parent, q
  <2> QED
    BY <1>1 DEF Has
<1>3. kind \notin Whiteouts
  BY DEF Whiteouts
<1>4. cache' = CacheGet(ParentOf(p)).cache
  OBVIOUS
<1>5. CachesType' /\ CachesOK'
  BY <1>1, <1>2, <1>3, <1>4, CachesKept
<1> QED
  BY <1>1, <1>5, Unpacked

\* A directory.
LEMMA DirStep ==
  ASSUME IInv, NEW p \in Paths, UnpackDir(p)
  PROVE  IInv'
<1> DEFINE parent == CacheGet(ParentOf(p))
           up     == OpenDirectory(want, ParentOf(p))
           q      == Child(up.at, p)
<1>1. Entry("dir", p, Root) /\ Root \in Paths
  BY PathsFacts DEF UnpackDir
<1>2. /\ q \in Seq(Names) /\ Has(up.tree, up.at, "dir") /\ up.at \in Seq(Names)
      /\ p = Root => q = Root
      /\ p # Root => q # Root /\ Front(q) = up.at /\ q = Append(up.at, Last(p))
                     /\ Last(p) \in Names
      /\ want' = Overlay("dir", p, Root, up)
      /\ layer \in 1..MaxLayers
  BY <1>1, EntryFacts DEF IInv
<1>3. /\ parent.err = "none" /\ TreeOK(parent.tree) /\ TreeOK(up.tree)
      /\ Contents(parent.tree) = Contents(up.tree)
      /\ DOMAIN parent.tree = DOMAIN up.tree
      /\ \A r : WalkToDir(parent.tree, r) = WalkToDir(up.tree, r)
      /\ Live(parent.tree, parent.fd)
      /\ Child(parent.fd.at, p) = q
  BY <1>1, ParentOpened
<1>4. IsDirectory(parent.tree, q) <=> IsDirectory(up.tree, q)
  BY <1>3 DEF IsDirectory
<1>5. IF q \in DOMAIN parent.tree /\ ~IsDirectory(parent.tree, q)
      THEN Fail("dir", p, Root)
      ELSE /\ tree' = IF q \in DOMAIN parent.tree THEN parent.tree
                      ELSE With(parent.tree, q, NewDir(q, Default))
           /\ cache' = parent.cache
           /\ dirsMeta' = StoreMetadata(p)
           /\ UNCHANGED <<linkFd, outcome>>
  BY <1>3 DEF UnpackDir
<1>6. want' = IF IsDirectory(up.tree, q)
              THEN [up.tree EXCEPT ![Walk(up.tree, q).at].mode = Mode(p)]
              ELSE With(Without(up.tree, q), q, Dir(0, Mode(p)))
  BY <1>2 DEF Overlay
<1>7. Refused("dir", p, Root) <=> q \in DOMAIN up.tree /\ ~IsDirectory(up.tree, q)
  BY DEF Refused
<1> HIDE DEF parent, up, q
<1>8. Mode(p) \in Modes /\ 0 \in 0..FdsCache + 1
  BY <1>2, ModesFacts, BoundsAssumption
<1>9. Dir(0, Mode(p)) \in Nodes /\ NewDir(q, Default) \in Nodes
      /\ Content(NewDir(q, Default)) = Content(Dir(0, Mode(p)))
  <2>1. NewDir(q, Default) = Dir(NewDir(q, Default).gen, Default)
    BY DEF NewDir, Dir
  <2>2. NewDir(q, Default).gen \in 0..FdsCache + 1
    BY FreshGen DEF IInv
  <2>3. Content(Dir(0, Mode(p))) = [type |-> "dir"]
    BY DEF Content, Dir
  <2> QED
    BY <1>8, <2>1, <2>2, <2>3, NewNodes, NewDirFacts, ModesFacts
<1>10. IsDirectory(up.tree, q) =>
         /\ TreeOK(want') /\ Contents(want') = Contents(up.tree)
  <2> SUFFICES ASSUME IsDirectory(up.tree, q)
               PROVE  TreeOK(want') /\ Contents(want') = Contents(up.tree)
    OBVIOUS
  <2> DEFINE at == Walk(up.tree, q).at
  <2>1. Has(up.tree, at, "dir")
    <3>1. WalkToDir(up.tree, q).err = "none" /\ Shape(up.tree)
      BY <1>3 DEF IsDirectory, TreeOK
    <3> QED
      BY <1>2, <3>1, WalkToDirType
  <2> HIDE DEF at
  <2>2. at \in DOMAIN up.tree /\ up.tree[at].type \in {"dir", "file"}
    BY <2>1 DEF Has
  <2>3. want' = [up.tree EXCEPT ![at].mode = Mode(p)]
    BY <1>6 DEF at
  <2> QED
    BY <1>3, <1>8, <2>2, <2>3, SameMode
<1>11. ~IsDirectory(up.tree, q) => p # Root
  <2> SUFFICES ASSUME p = Root
               PROVE  IsDirectory(up.tree, q)
    OBVIOUS
  <2>1. Shape(up.tree) /\ Has(up.tree, Root, "dir")
    BY <1>3 DEF TreeOK, Shape
  <2> QED
    BY <1>2, <2>1, WalkReal DEF IsDirectory, Found
<1>12. TreeOK(want')
  <2>1. CASE IsDirectory(up.tree, q)
    BY <1>10, <2>1
  <2>2. CASE ~IsDirectory(up.tree, q)
    BY <1>2, <1>3, <1>6, <1>9, <1>11, <2>2, PutFacts
  <2> QED
    BY <2>1, <2>2
<1>13. CASE q \in DOMAIN parent.tree /\ ~IsDirectory(parent.tree, q)
  BY <1>1, <1>3, <1>4, <1>5, <1>7, <1>12, <1>13, Refusal
<1>14. CASE ~(q \in DOMAIN parent.tree /\ ~IsDirectory(parent.tree, q))
  <2>1. MetaType' /\ outcome' = outcome /\ linkFd' = linkFd /\ cache' = parent.cache
    BY <1>5, <1>14, MetaFacts
  <2>2. /\ TreeOK(tree') /\ Contents(tree') = Contents(want')
        /\ \A r \in DOMAIN parent.tree \intersect DOMAIN tree' : tree'[r] = parent.tree[r]
    <3>1. CASE q \in DOMAIN parent.tree
      BY <1>3, <1>4, <1>5, <1>10, <1>14, <3>1
    <3>2. CASE q \notin DOMAIN parent.tree
      <4>1. p # Root
        <5>1. Root \in DOMAIN parent.tree
          BY <1>3 DEF TreeOK, Shape, Has
        <5> QED
          BY <1>2, <3>2, <5>1
      <4>2. ~IsDirectory(up.tree, q)
        <5>1. Shape(up.tree) /\ q = Append(up.at, Last(p)) /\ q \notin DOMAIN up.tree
              /\ Last(p) \in Names
          BY <1>2, <1>3, <3>2, <4>1 DEF TreeOK
        <5>2. WalkToDir(up.tree, q) = Error("not_found")
          BY <1>2, <5>1, WalkMissing
        <5> QED
          BY <5>2 DEF IsDirectory, Error
      <4>3. want' = With(Without(up.tree, q), q, Dir(0, Mode(p)))
        BY <1>6, <4>2
      <4>4. tree' = With(Without(parent.tree, q), q, NewDir(q, Default))
        <5>1. tree' = With(parent.tree, q, NewDir(q, Default))
          BY <1>5, <1>14, <3>2
        <5>2. Shape(parent.tree) /\ ~Has(parent.tree, q, "dir")
          BY <1>3, <3>2 DEF TreeOK, Has
        <5> QED
          BY <1>2, <5>1, <5>2, WithoutNothing
      <4>5. /\ TreeOK(tree') /\ Contents(tree') = Contents(want')
            /\ \A r \in DOMAIN tree' : r # q => tree'[r] = parent.tree[r]
        <5> DEFINE T == With(Without(parent.tree, q), q, NewDir(q, Default))
                   W == With(Without(up.tree, q), q, Dir(0, Mode(p)))
        <5>1. p \in Paths \ {Root}
          BY <4>1
        <5>2. /\ TreeOK(T) /\ TreeOK(W) /\ Contents(T) = Contents(W)
              /\ T[q] = NewDir(q, Default)
              /\ \A r \in DOMAIN T : r # q => r \in DOMAIN parent.tree /\ T[r] = parent.tree[r]
          BY <1>1, <1>9, <5>1, PutEntry DEF parent, up, q
        <5> HIDE DEF T, W
        <5>3. tree' = T /\ want' = W
          BY <4>3, <4>4 DEF T, W
        <5> QED
          BY <5>2, <5>3
      <4> QED
        BY <3>2, <4>5
    <3> QED
      BY <3>1, <3>2
  <2>3. "dir" \notin Whiteouts
    BY DEF Whiteouts
  <2>4. CachesType' /\ CachesOK'
    BY <1>1, <1>12, <2>1, <2>2, <2>3, CachesKept DEF parent
  <2> QED
    BY <1>1, <1>12, <2>1, <2>2, <2>4, Unpacked
<1> QED
  BY <1>13, <1>14

\* A regular file.
LEMMA FileStep ==
  ASSUME IInv, NEW p \in Paths, UnpackRegular(p)
  PROVE  IInv'
<1> DEFINE parent == CacheGet(ParentOf(p))
           up     == OpenDirectory(want, ParentOf(p))
           q      == Child(up.at, p)
           node   == File(Mode(p))
<1>1. Entry("file", p, Root) /\ Root \in Paths
  BY PathsFacts DEF UnpackRegular
<1>2. want' = Overlay("file", p, Root, up) /\ p # Root /\ layer \in 1..MaxLayers
  <2>1. want' = Overlay("file", p, Root, up) /\ WellFormed("file", p, Root)
    BY <1>1, EntryFacts
  <2>2. p # Root
    BY <2>1 DEF WellFormed
  <2> QED
    BY <2>1, <2>2 DEF IInv
<1>3. parent.err = "none" /\ Live(parent.tree, parent.fd) /\ Child(parent.fd.at, p) = q
  BY <1>1, ParentOpened
<1>4. want' = With(Without(up.tree, q), q, node)
  BY <1>2 DEF Overlay
<1>5. /\ tree' = With(Without(parent.tree, q), q, node)
      /\ cache' = parent.cache
      /\ dirsMeta' = IF Has(parent.tree, q, "dir")
                     THEN Restrict(dirsMeta, DOMAIN dirsMeta \ {Key(p)}) ELSE dirsMeta
      /\ UNCHANGED <<linkFd, outcome>>
  BY <1>3 DEF UnpackRegular
<1> HIDE DEF parent, up, q
<1>6. node \in Nodes /\ node.type # "dir"
  BY <1>2, ModesFacts, NewNodes DEF File
<1>7. MetaType' /\ outcome' = outcome /\ linkFd' = linkFd
  BY <1>5, MetaFacts
<1> HIDE DEF node
<1> QED
  BY <1>1, <1>2, <1>4, <1>5, <1>6, <1>7, PutStep DEF parent, up, q

\* A symbolic link.
LEMMA SymlinkStep ==
  ASSUME IInv, NEW p \in Paths \ {Root}, NEW to \in Paths \ {Root}, UnpackSymlink(p, to)
  PROVE  IInv'
<1> DEFINE parent == CacheGet(ParentOf(p))
           up     == OpenDirectory(want, ParentOf(p))
           q      == Child(up.at, p)
           node   == Link(to)
<1>1. Entry("symlink", p, to) /\ to \in Paths
  BY DEF UnpackSymlink
<1>2. want' = Overlay("symlink", p, to, up) /\ q \in Seq(Names)
  BY <1>1, EntryFacts
<1>3. /\ parent.err = "none" /\ Live(parent.tree, parent.fd) /\ Child(parent.fd.at, p) = q
      /\ Has(parent.tree, q, "dir") <=> Has(up.tree, q, "dir")
      /\ TreeOK(parent.tree)
  BY <1>1, ParentOpened
<1>4. want' = With(Without(up.tree, q), q, node)
  BY <1>2 DEF Overlay
<1>5. IF Has(parent.tree, q, "dir")
      THEN Fail("symlink", p, to)
      ELSE /\ tree' = With(parent.tree, q, node)
           /\ cache' = parent.cache
           /\ UNCHANGED <<linkFd, dirsMeta, outcome>>
  BY <1>3 DEF UnpackSymlink
<1>6. Has(up.tree, q, "dir") => Refused("symlink", p, to)
  BY DEF Refused
<1>7. node \in Nodes /\ node.type # "dir"
  BY NewNodes DEF Link
<1> HIDE DEF node
<1>8. CASE Has(parent.tree, q, "dir")
  <2>1. TreeOK(want')
    <3> DEFINE W == With(Without(up.tree, q), q, node)
    <3>1. TreeOK(W)
      BY <1>1, <1>7, PutEntry
    <3> HIDE DEF W
    <3>2. want' = W
      BY <1>4 DEF W
    <3> QED
      BY <3>1, <3>2
  <2> HIDE DEF parent, up, q
  <2> QED
    BY <1>1, <1>3, <1>5, <1>6, <1>8, <2>1, Refusal
<1>9. CASE ~Has(parent.tree, q, "dir")
  <2> HIDE DEF parent, up, q
  <2>1. tree' = With(Without(parent.tree, q), q, node)
    <3>1. Shape(parent.tree)
      BY <1>3 DEF TreeOK
    <3>2. With(Without(parent.tree, q), q, node) = With(parent.tree, q, node)
      BY <1>2, <1>9, <3>1, WithoutNothing
    <3> QED
      BY <1>5, <1>9, <3>2
  <2>2. /\ MetaType' /\ outcome' = outcome /\ linkFd' = linkFd
        /\ cache' = parent.cache
    BY <1>5, <1>9, MetaFacts
  <2> QED
    BY <1>1, <1>4, <1>7, <2>1, <2>2, PutStep DEF parent, up, q
<1> QED
  BY <1>8, <1>9

\* Whiteouts. What is not found is not in the expected tree either.
LEMMA WhiteoutStep ==
  ASSUME IInv, NEW p \in Paths, Whiteout(p)
  PROVE  IInv'
<1> DEFINE parent == CacheGet(ParentOf(p))
           up     == OpenDirectory(want, ParentOf(p))
           q      == Child(up.at, p)
<1>1. Entry("whiteout", p, Root) /\ Root \in Paths
  BY PathsFacts DEF Whiteout
<1>2. /\ want' = Overlay("whiteout", p, Root, up)
      /\ q \in Seq(Names) /\ p # Root /\ q # Root
  <2>1. /\ want' = Overlay("whiteout", p, Root, up) /\ WellFormed("whiteout", p, Root)
        /\ q \in Seq(Names)
        /\ p # Root => q # Root
    BY <1>1, EntryFacts
  <2>2. p # Root
    BY <2>1 DEF WellFormed
  <2> QED
    BY <2>1, <2>2
<1>3. /\ parent.err = "none" /\ Live(parent.tree, parent.fd) /\ Child(parent.fd.at, p) = q
      /\ TreeOK(parent.tree) /\ TreeOK(up.tree) /\ Contents(parent.tree) = Contents(up.tree)
  BY <1>1, ParentOpened
<1>4. want' = Without(up.tree, q)
  BY <1>2 DEF Overlay
<1>5. /\ tree' = Without(parent.tree, q)
      /\ cache' = CacheClear(parent.cache)
      /\ UNCHANGED <<linkFd, dirsMeta, outcome>>
  BY <1>3 DEF Whiteout
<1> HIDE DEF parent, up, q
<1>6. TreeOK(Without(parent.tree, q)) /\ TreeOK(Without(up.tree, q))
  BY <1>2, <1>3, PartFacts
<1>7. Contents(Without(parent.tree, q)) = Contents(Without(up.tree, q))
  BY <1>3, SameRemoved
<1>8. MetaType' /\ outcome' = outcome
  BY <1>5, MetaFacts
<1>9. CachesType' /\ CachesOK'
  BY <1>1, <1>5, CachesCleared DEF CacheClear, Whiteouts
<1>10. TreeOK(want') /\ TreeOK(tree') /\ Contents(tree') = Contents(want')
  BY <1>4, <1>5, <1>6, <1>7
<1> QED
  BY <1>1, <1>8, <1>9, <1>10, Unpacked

\* An opaque whiteout (OpaqueWhiteout) preserves the invariant.
LEMMA OpaqueStep ==
  ASSUME IInv, NEW p \in Paths, OpaqueWhiteout(p)
  PROVE  IInv'
<1> DEFINE dir == CacheGet(p)
           up  == OpenDirectory(want, p)
           at  == Walk(want, p).at
<1>1. Entry("opaque", p, Root) /\ Root \in Paths
  BY PathsFacts DEF OpaqueWhiteout
<1>2. /\ want' = Overlay("opaque", p, Root, OpenDirectory(want, ParentOf(p)))
      /\ p \in Seq(Names) /\ IsDirectory(want, p)
      /\ Contents(tree) = Contents(want)
  <2>1. /\ want' = Overlay("opaque", p, Root, OpenDirectory(want, ParentOf(p)))
        /\ p \in Seq(Names) /\ WellFormed("opaque", p, Root)
        /\ Contents(tree) = Contents(want)
    BY <1>1, EntryFacts
  <2>2. IsDirectory(want, p)
    BY <2>1 DEF WellFormed
  <2> QED
    BY <2>1, <2>2
<1>3. want' = WithoutSubtree(want, at)
  BY <1>2 DEF Overlay
<1>4. Shape(want) /\ WalkToDir(want, p).err = "none"
  BY <1>2 DEF IsDirectory, IInv, TreeOK
<1>5. WalkToDir(want, p).at = at /\ at \in Seq(Names)
  BY <1>2, <1>4, WalkToDirType
<1>6. up.err = "none" /\ up.at = at /\ Contents(up.tree) = Contents(want)
  BY <1>2, <1>4, <1>5, OpenExisting
<1>7. Gets(p, dir, up)
  BY <1>2, <1>6, CacheHit, CacheMiss DEF IInv
<1>8. IF dir.err # "none" THEN Fail("opaque", p, Root)
      ELSE /\ tree' = IF Live(dir.tree, dir.fd) THEN WithoutSubtree(dir.tree, dir.fd.at)
                      ELSE dir.tree
           /\ cache' = CacheClear(dir.cache)
           /\ UNCHANGED <<linkFd, dirsMeta, outcome>>
  BY DEF OpaqueWhiteout
<1> HIDE DEF dir, up, at
<1>9. /\ tree' = WithoutSubtree(dir.tree, at)
      /\ cache' = <<>>
      /\ UNCHANGED <<linkFd, dirsMeta, outcome>>
      /\ TreeOK(dir.tree) /\ Contents(dir.tree) = Contents(want)
  BY <1>6, <1>7, <1>8 DEF Gets, CacheClear
<1>10. TreeOK(WithoutSubtree(dir.tree, at)) /\ TreeOK(WithoutSubtree(want, at))
  BY <1>5, <1>9, PartFacts DEF IInv
<1>11. Contents(WithoutSubtree(dir.tree, at)) = Contents(WithoutSubtree(want, at))
  BY <1>9, SameRemoved
<1>12. MetaType' /\ outcome' = outcome
  BY <1>9, MetaFacts
<1>13. CachesType' /\ CachesOK'
  BY <1>1, <1>9, CachesCleared DEF Whiteouts
<1>14. TreeOK(want') /\ TreeOK(tree') /\ Contents(tree') = Contents(want')
  BY <1>3, <1>9, <1>10, <1>11
<1> QED
  BY <1>1, <1>12, <1>13, <1>14, Unpacked

\* The directory of the source of a hard link is opened where the path leads, unless
\* it is behind a symbolic link.
LEMMA LinkDirFacts ==
  ASSUME NEW T, Shape(T), NEW path \in Seq(Names), NEW at, WalkToDir(T, path) = Found(at)
  PROVE  LET O == OpenLinkDir(T, path)
         IN  O = Error("not_dir") \/ O = [err |-> "none", fd |-> Fd(T, at)]
<1> DEFINE O  == OpenLinkDir(T, path)
           up == WalkToDir(T, ParentOf(path))
           p  == Child(up.at, path)
<1>1. up.err = "none" /\ up = Found(up.at) /\ up.at \in Seq(Names)
  <2>1. up.err = "none"
    <3>1. CASE path = Root
      BY <3>1 DEF ParentOf, Found
    <3>2. CASE path # Root
      BY <3>2, DirFront DEF ParentOf, Found
    <3> QED
      BY <3>1, <3>2
  <2>2. ParentOf(path) \in Seq(Names)
    BY ParentFacts
  <2> QED
    BY <2>1, <2>2, WalkToDirType
<1>2. O = IF Has(T, p, "dir") THEN [err |-> "none", fd |-> Fd(T, p)] ELSE Error("not_dir")
  BY <1>1 DEF OpenLinkDir
<1>3. Has(T, p, "dir") => at = p
  <2> SUFFICES ASSUME Has(T, p, "dir")
               PROVE  Found(at) = Found(p)
    BY DEF Found
  <2>1. CASE path = Root
    BY <1>1, <2>1 DEF ParentOf, Child
  <2>2. CASE path # Root
    <3>1. p = Append(up.at, Last(path)) /\ WalkToDir(T, Front(path)) = Found(up.at)
      BY <1>1, <2>2 DEF Child, ParentOf
    <3> HIDE DEF up, p
    <3>2. Has(T, Append(up.at, Last(path)), "dir")
      BY <3>1
    <3> QED
      BY <2>2, <3>1, <3>2, DirInto
  <2> QED
    BY <2>1, <2>2
<1> QED
  BY <1>2, <1>3

\* Opening the directory of a hard link's source fails alike in two trees of equal contents.
LEMMA SameLinkDir ==
  ASSUME NEW T, NEW U, Shape(T), Shape(U), Contents(T) = Contents(U), NEW path
  PROVE  OpenLinkDir(T, path).err = OpenLinkDir(U, path).err
<1>1. /\ WalkToDir(T, ParentOf(path)) = WalkToDir(U, ParentOf(path))
      /\ \A p : Has(T, p, "dir") <=> Has(U, p, "dir")
  BY SameWalk
<1> QED
  BY <1>1 DEF OpenLinkDir

\* The directory of the source of a hard link: the one to which its path leads, or the
\* link fails.
LEMMA SourceOpened ==
  ASSUME IInv, NEW p \in Paths \ {Root}, NEW to \in Paths \ {Root}, Entry("link", p, to)
  PROVE  LET parent == CacheGet(ParentOf(p))
             src == LinkFdGet(parent.tree, ParentOf(to))
         IN  \/ /\ src.err = "none" /\ src.fd \in Fds /\ Live(parent.tree, src.fd)
                /\ src.fd.at = WalkToDir(want, ParentOf(to)).at
             \/ /\ Refused("link", p, to) \/ StaleSource("link", to)
                /\ src.err # "none" \/ ~Live(parent.tree, src.fd)
<1> DEFINE parent == CacheGet(ParentOf(p))
           up  == OpenDirectory(want, ParentOf(p))
           dir == ParentOf(to)
           src == LinkFdGet(parent.tree, dir)
           w   == WalkToDir(want, dir)
<1>1. /\ Contents(tree) = Contents(want) /\ dir \in Seq(Names) /\ ParentOf(p) \in Seq(Names)
      /\ WellFormed("link", p, to)
      /\ Gets(ParentOf(p), parent, up)
  BY EntryFacts, ParentFacts
<1>2. w = Found(w.at) /\ w.err = "none" /\ w.at \in Seq(Names) /\ Has(want, w.at, "dir")
  BY <1>1, SourceFacts
<1>3. /\ Shape(tree) /\ Shape(want) /\ Shape(parent.tree) /\ Shape(up.tree)
      /\ TreeOK(parent.tree) /\ Contents(parent.tree) = Contents(up.tree)
      /\ \A r : WalkToDir(parent.tree, r) = WalkToDir(up.tree, r)
  <2>1. TreeOK(parent.tree) /\ TreeOK(up.tree) /\ Contents(parent.tree) = Contents(up.tree)
        /\ \A r : WalkToDir(parent.tree, r) = WalkToDir(up.tree, r)
    BY ParentOpened
  <2> HIDE DEF parent, up
  <2> QED
    BY <2>1 DEF TreeOK, IInv
<1>4. WalkToDir(parent.tree, dir) = w
  <2>1. DOMAIN want \subseteq DOMAIN up.tree /\ \A r \in DOMAIN want : up.tree[r] = want[r]
    BY <1>1, <1>3, OpenFacts
  <2> HIDE DEF parent, up
  <2>2. Extends(Contents(up.tree), Contents(want))
    BY <2>1 DEF Extends, Contents
  <2>3. WalkToDir(up.tree, dir) = w
    BY <1>1, <1>2, <1>3, <2>2, DirExtends
  <2> QED
    BY <1>3, <2>3
<1>5. OpenLinkDir(up.tree, dir).err = "not_dir" => Refused("link", p, to)
  BY DEF Refused
<1>6. ASSUME NEW c \in linkFd, c.path = dir, ~Live(tree, c.fd)
      PROVE  StaleSource("link", to)
  BY <1>6 DEF StaleSource
<1> HIDE DEF parent, up
<1>7. CASE CachedLinkFd(dir) = {}
  <2>1. src = OpenLinkDir(parent.tree, dir)
    BY <1>7 DEF LinkFdGet
  <2>2. src = Error("not_dir") \/ src = [err |-> "none", fd |-> Fd(parent.tree, w.at)]
    BY <1>1, <1>2, <1>3, <1>4, <2>1, LinkDirFacts
  <2>3. CASE src = Error("not_dir")
    <3>1. src.err = "not_dir"
      BY <2>3 DEF Error
    <3>2. OpenLinkDir(up.tree, dir).err = "not_dir"
      BY <1>3, <2>1, <3>1, SameLinkDir
    <3> QED
      BY <1>5, <3>1, <3>2 DEF parent
  <2>4. CASE src = [err |-> "none", fd |-> Fd(parent.tree, w.at)]
    <3>1. Has(parent.tree, w.at, "dir")
      <4>1. WalkToDir(parent.tree, dir).err = "none"
        BY <1>2, <1>4
      <4> QED
        BY <1>1, <1>3, <1>4, <4>1, WalkToDirType
    <3>2. parent.tree[w.at] \in Nodes /\ parent.tree[w.at].type = "dir"
      BY <1>3, <3>1 DEF TreeOK, Has
    <3>3. Fd(parent.tree, w.at) \in Fds /\ Live(parent.tree, Fd(parent.tree, w.at))
          /\ Fd(parent.tree, w.at).at = w.at
      BY <1>2, <3>1, <3>2, NodesFacts DEF Fd, Fds, Live
    <3> QED
      BY <2>4, <3>3 DEF parent
  <2> QED
    BY <2>2, <2>3, <2>4
<1>8. CASE CachedLinkFd(dir) # {}
  <2> DEFINE c == CHOOSE c \in CachedLinkFd(dir) : TRUE
  <2>1. c \in linkFd /\ c.path = dir
    BY <1>8 DEF CachedLinkFd
  <2>2. src.err = "none" /\ src.fd = c.fd
    BY <1>8 DEF LinkFdGet
  <2> HIDE DEF c, src
  <2>3. c.fd \in Fds
    BY <2>1 DEF IInv, CachesType, Held
  <2>4. CASE Live(tree, c.fd)
    <3>1. PICK s \in seen : LinkOpened(c, s)
      BY <2>1 DEF IInv, CachesOK
    <3>2. s.kind = "link" /\ ParentOf(s.source) = dir /\ ParentOf(s.from) = c.fd.at
      BY <2>1, <3>1 DEF LinkOpened
    <3>3. SourceInPlace(want, s)
      BY <3>2 DEF IInv, EntriesOK, InPlace, Whiteouts
    <3>4. Has(want, c.fd.at, "dir")
      BY <1>1, <1>3, <2>4, SameWalk DEF Live
    <3>5. w.at = c.fd.at
      BY <1>2, <3>2, <3>3, <3>4 DEF SourceInPlace
    <3>6. Live(parent.tree, c.fd)
      BY <1>1, <2>4 DEF Gets, Live, Has
    <3> QED
      BY <2>2, <2>3, <3>5, <3>6 DEF parent, src
  <2>5. CASE ~Live(tree, c.fd)
    <3>1. ~Live(parent.tree, c.fd)
      <4> SUFFICES ASSUME Live(parent.tree, c.fd)
                   PROVE  FALSE
        OBVIOUS
      <4>1. c.fd.at \in DOMAIN parent.tree /\ parent.tree[c.fd.at].gen = c.fd.gen
        BY DEF Live, Has
      <4>2. CASE c.fd.at \in DOMAIN tree
        BY <1>1, <2>5, <4>2 DEF Gets, Live, Has
      <4>3. CASE c.fd.at \notin DOMAIN tree
        <5>1. [at |-> c.fd.at, gen |-> c.fd.gen] \notin HeldFds
          BY <1>1, <4>1, <4>3 DEF Gets
        <5>2. [at |-> c.fd.at, gen |-> c.fd.gen] = c.fd
          BY <2>3 DEF Fds
        <5> QED
          BY <2>1, <5>1, <5>2 DEF HeldFds
      <4> QED
        BY <4>2, <4>3
    <3> QED
      BY <1>6, <2>1, <2>2, <2>5, <3>1 DEF parent, src
  <2> QED
    BY <2>4, <2>5
<1> QED
  BY <1>7, <1>8

\* A hard link.
LEMMA LinkStep ==
  ASSUME IInv, NEW p \in Paths \ {Root}, NEW to \in Paths \ {Root}, UnpackHardLink(p, to)
  PROVE  IInv'
<1> DEFINE parent == CacheGet(ParentOf(p))
           up     == OpenDirectory(want, ParentOf(p))
           q      == Child(up.at, p)
           w      == WalkToDir(want, ParentOf(to))
           src    == LinkFdGet(parent.tree, ParentOf(to))
           old    == Child(w.at, to)
<1>1. Entry("link", p, to) /\ to \in Paths
  BY DEF UnpackHardLink
<1>2. /\ want' = Overlay("link", p, to, up) /\ WellFormed("link", p, to)
      /\ q \in Seq(Names) /\ ParentOf(p) \in Seq(Names) /\ up.err = "none"
  BY <1>1, EntryFacts
<1>3. /\ parent.err = "none" /\ Live(parent.tree, parent.fd) /\ Child(parent.fd.at, p) = q
      /\ TreeOK(parent.tree) /\ TreeOK(up.tree) /\ Contents(parent.tree) = Contents(up.tree)
      /\ \A r, type : Has(parent.tree, r, type) <=> Has(up.tree, r, type)
  BY <1>1, ParentOpened
<1>4. old \in DOMAIN want /\ want[old].type # "dir" /\ old # q
  BY <1>2, SourceFacts
<1>5. want' = With(Without(up.tree, q), q, want[old])
  BY <1>2 DEF Overlay
<1>6. IF \/ src.err # "none" \/ ~Live(parent.tree, src.fd)
         \/ Child(src.fd.at, to) \notin DOMAIN parent.tree
         \/ Has(parent.tree, Child(src.fd.at, to), "dir")
         \/ Child(src.fd.at, to) = q \/ Has(parent.tree, q, "dir")
      THEN Fail("link", p, to)
      ELSE /\ tree' = With(parent.tree, q, parent.tree[Child(src.fd.at, to)])
           /\ cache' = parent.cache
           /\ linkFd' = {[path |-> ParentOf(to), fd |-> src.fd]}
           /\ UNCHANGED <<dirsMeta, outcome>>
  BY <1>3 DEF UnpackHardLink
<1>7. \/ /\ src.err = "none" /\ src.fd \in Fds /\ Live(parent.tree, src.fd)
         /\ src.fd.at = w.at
      \/ /\ Refused("link", p, to) \/ StaleSource("link", to)
         /\ src.err # "none" \/ ~Live(parent.tree, src.fd)
  BY <1>1, SourceOpened
<1>8. Has(up.tree, q, "dir") => Refused("link", p, to)
  BY DEF Refused
<1>9. DOMAIN want \subseteq DOMAIN up.tree /\ \A r \in DOMAIN want : up.tree[r] = want[r]
  <2>1. Shape(want)
    BY DEF IInv, TreeOK
  <2> QED
    BY <1>2, <2>1, OpenFacts
<1>10. /\ old \in DOMAIN parent.tree /\ ~Has(parent.tree, old, "dir")
       /\ parent.tree[old] \in Nodes /\ want[old] \in Nodes /\ parent.tree[old].type # "dir"
       /\ Content(parent.tree[old]) = Content(want[old])
  <2> HIDE DEF parent, up, old
  <2>1. /\ DOMAIN parent.tree = DOMAIN up.tree
        /\ \A r \in DOMAIN parent.tree : Content(parent.tree[r]) = Content(up.tree[r])
    BY <1>3, ContentsFacts
  <2>2. old \in DOMAIN parent.tree /\ Content(parent.tree[old]) = Content(want[old])
    BY <1>4, <1>9, <2>1
  <2>3. ~Has(up.tree, old, "dir")
    BY <1>4, <1>9 DEF Has
  <2>4. ~Has(parent.tree, old, "dir") /\ parent.tree[old].type # "dir"
    BY <1>3, <2>2, <2>3 DEF Has
  <2>5. parent.tree[old] \in Nodes /\ want[old] \in Nodes
    BY <1>3, <1>4, <2>2 DEF TreeOK, IInv
  <2> QED
    BY <2>2, <2>4, <2>5
<1>11. TreeOK(want')
  <2> DEFINE W == With(Without(up.tree, q), q, want[old])
  <2>1. TreeOK(W)
    BY <1>1, <1>10, PutEntry
  <2> HIDE DEF W
  <2>2. want' = W
    BY <1>5 DEF W
  <2> QED
    BY <2>1, <2>2
<1>12. CASE /\ Refused("link", p, to) \/ StaleSource("link", to)
            /\ src.err # "none" \/ ~Live(parent.tree, src.fd) \/ Has(parent.tree, q, "dir")
  <2> HIDE DEF parent, up, q, w, src, old
  <2> QED
    BY <1>1, <1>6, <1>11, <1>12, Refusal
<1>13. CASE /\ src.err = "none" /\ src.fd \in Fds /\ Live(parent.tree, src.fd)
            /\ src.fd.at = w.at
            /\ ~Has(parent.tree, q, "dir")
  <2>1. Child(src.fd.at, to) = old
    BY <1>13
  <2> HIDE DEF parent, up, q, src, old
  <2>2. /\ tree' = With(parent.tree, q, parent.tree[old])
        /\ cache' = parent.cache
        /\ linkFd' = {[path |-> ParentOf(to), fd |-> src.fd]}
        /\ UNCHANGED <<dirsMeta, outcome>>
    BY <1>4, <1>6, <1>10, <1>13, <2>1
  <2>3. tree' = With(Without(parent.tree, q), q, parent.tree[old])
    <3>1. Shape(parent.tree)
      BY <1>3 DEF TreeOK
    <3>2. With(Without(parent.tree, q), q, parent.tree[old]) = With(parent.tree, q, parent.tree[old])
      BY <1>2, <1>13, <3>1, WithoutNothing
    <3> QED
      BY <2>2, <3>2
  <2>4. MetaType' /\ outcome' = outcome
    BY <2>2, MetaFacts
  <2>5. \E fd \in Fds : /\ linkFd' = {[path |-> ParentOf(to), fd |-> fd]}
                        /\ fd.at = WalkToDir(want, ParentOf(to)).at
                        /\ Live(CacheGet(ParentOf(p)).tree, fd)
    BY <1>13, <2>2 DEF parent
  <2> DEFINE node  == parent.tree[old]
             other == want[old]
  <2>6. /\ node \in Nodes /\ other \in Nodes /\ Content(node) = Content(other)
        /\ node.type # "dir"
    BY <1>10
  <2>7. /\ want' = With(Without(up.tree, q), q, other)
        /\ tree' = With(Without(parent.tree, q), q, node)
    BY <1>5, <2>3
  <2> HIDE DEF node, other
  <2> QED
    BY <1>1, <2>2, <2>4, <2>5, <2>6, <2>7, PutStep DEF parent, up, q
<1> QED
  <2> HIDE DEF parent, up, q, w, src, old
  <2> QED
    BY <1>3, <1>7, <1>8, <1>12, <1>13

\* The other steps: the next layer, and the metadata of a directory.
LEMMA LayerStep ==
  ASSUME IInv, NextLayer \/ LastLayer
  PROVE  IInv'
<1>1. /\ tree' = tree /\ want' = want /\ dirsMeta' = dirsMeta
      /\ seen' = {} /\ cache' = <<>> /\ linkFd' = {}
      /\ layer' \in 1..MaxLayers /\ shape' = shape
      /\ outcome = "layers" /\ outcome' \in {"layers", "metadata"}
  BY BoundsAssumption DEF IInv, NextLayer, LastLayer
<1>2. TreeOK(tree)' /\ TreeOK(want)'
  BY <1>1 DEF IInv
<1>3. EntriesOK'
  BY <1>1 DEF EntriesOK, InPlace
<1>4. CachesType'
  <2>1. FdsCache \in Nat
    BY BoundsAssumption
  <2>2. cache' \in Seq(Held) /\ Len(cache') = 0
    BY <1>1, EmptySeq
  <2>3. Len(cache') <= FdsCache
    BY <2>1, <2>2
  <2> QED
    BY <1>1, <2>2, <2>3 DEF CachesType
<1>5. CachesOK'
  <2>1. DOMAIN cache' = {} /\ linkFd' = {}
    BY <1>1
  <2> QED
    BY <2>1 DEF CachesOK, LateWhiteout, Live, Has
<1>6. MetaType'
  BY <1>1 DEF IInv, MetaType, Modes
<1>7. TreeIsOverlay'
  BY <1>1 DEF IInv, TreeIsOverlay, LateWhiteout
<1> QED
  BY <1>1, <1>2, <1>3, <1>4, <1>5, <1>6, <1>7 DEF IInv, Outcomes

\* One directory's metadata (ApplyMetadata), applied or failed, preserves the invariant.
LEMMA MetadataStep ==
  ASSUME IInv, ApplyMetadata
  PROVE  IInv'
<1>1. PICK k \in NextKeys :
         LET p      == IF k = Key(Root) THEN Root ELSE k
             parent == WalkToDir(tree, ParentOf(p))
             found  == IF parent.err = "none" THEN Walk(tree, Child(parent.at, p)) ELSE parent
         IN  /\ dirsMeta' = Restrict(dirsMeta, DOMAIN dirsMeta \ {k})
             /\ CASE found.err = "none" -> /\ tree' = [tree EXCEPT ![found.at].mode = dirsMeta[k]]
                                           /\ UNCHANGED outcome
                  [] found.err = "not_found" -> UNCHANGED <<tree, outcome>>
                  [] OTHER -> outcome' = "metadata_failed" /\ UNCHANGED tree
  BY DEF ApplyMetadata
<1> DEFINE p      == IF k = Key(Root) THEN Root ELSE k
           parent == WalkToDir(tree, ParentOf(p))
           found  == IF parent.err = "none" THEN Walk(tree, Child(parent.at, p)) ELSE parent
<1>2. /\ outcome = "metadata"
      /\ UNCHANGED <<cache, linkFd, layer, seen, want, shape>>
  BY DEF ApplyMetadata
<1>3. dirsMeta[k] \in Modes /\ p \in Seq(Names)
  <2>1. k \in DOMAIN dirsMeta
    BY DEF NextKeys
  <2>2. PICK r \in Paths : k = Key(r)
    BY <2>1 DEF IInv, MetaType
  <2>3. p \in Paths
    BY <2>2, PathsFacts DEF Key
  <2> QED
    BY <2>1, <2>3, PathsFacts DEF IInv, MetaType
<1>4. found.err = "none" => Has(tree, found.at, "dir") \/ Has(tree, found.at, "file")
  <2>1. Shape(tree) /\ Shape(Contents(tree)) /\ ParentOf(p) \in Seq(Names)
        /\ \A r, type : Has(Contents(tree), r, type) <=> Has(tree, r, type)
    BY <1>3, ParentFacts, ContentsHave DEF IInv, TreeOK
  <2> HIDE DEF p
  <2>2. SUFFICES ASSUME parent.err = "none", Walk(tree, Child(parent.at, p)).err = "none"
                 PROVE  LET at == Walk(tree, Child(parent.at, p)).at
                        IN  Has(tree, at, "dir") \/ Has(tree, at, "file")
    OBVIOUS
  <2>3. parent.at \in Seq(Names)
    BY <2>1, <2>2, WalkToDirType
  <2>4. Child(parent.at, p) \in Seq(Names)
    BY <1>3, <2>3, ChildFacts
  <2> HIDE DEF parent
  <2>5. MaxLinks \in 0..MaxLinks
    BY DEF MaxLinks
  <2>6. IsFound(Contents(tree), Walk(tree, Child(parent.at, p)))
    BY <2>1, <2>4, <2>5, WalkType DEF Walk
  <2> QED
    BY <2>1, <2>2, <2>6 DEF IsFound
<1>5. /\ dirsMeta' = Restrict(dirsMeta, DOMAIN dirsMeta \ {k})
      /\ \/ found.err = "none" /\ tree' = [tree EXCEPT ![found.at].mode = dirsMeta[k]] /\ outcome' = outcome
         \/ tree' = tree /\ outcome' \in {outcome, "metadata_failed"}
  BY <1>1
<1> HIDE DEF p, parent, found
<1>6. TreeOK(tree') /\ Contents(tree') = Contents(tree) /\ (\A fd : Live(tree', fd) <=> Live(tree, fd))
      /\ outcome' \in {"metadata", "metadata_failed"}
  <2>1. CASE found.err = "none" /\ tree' = [tree EXCEPT ![found.at].mode = dirsMeta[k]] /\ outcome' = outcome
    <3>1. found.at \in DOMAIN tree /\ tree[found.at].type \in {"dir", "file"} /\ TreeOK(tree)
      BY <1>4, <2>1 DEF Has, IInv
    <3> QED
      BY <1>2, <1>3, <2>1, <3>1, SameMode
  <2>2. CASE tree' = tree /\ outcome' \in {outcome, "metadata_failed"}
    BY <1>2, <2>2 DEF IInv
  <2> QED
    BY <1>5, <2>1, <2>2
<1>7. MetaType'
  <2>1. Root \in Paths
    BY PathsFacts
  <2> QED
    BY <1>5, <2>1, MetaFacts
<1>8. TreeOK(tree)' /\ TreeOK(want)'
  BY <1>2, <1>6 DEF IInv
<1>9. EntriesOK' /\ CachesType'
  BY <1>2 DEF IInv, EntriesOK, InPlace, SourceInPlace, LateWhiteout, CachesType
<1>10. CachesOK'
  <2>1. /\ \A i \in DOMAIN cache : Live(tree, cache[i].fd) /\ \E s \in seen : Opened(cache[i], s)
        /\ \A c \in linkFd : \E s \in seen : LinkOpened(c, s)
        /\ ~LateWhiteout(seen) => \A c \in linkFd : Live(tree, c.fd)
    BY DEF IInv, CachesOK
  <2>2. /\ \A i \in DOMAIN cache : Live(tree', cache[i].fd) /\ \E s \in seen : Opened(cache[i], s)
        /\ \A c \in linkFd : \E s \in seen : LinkOpened(c, s)
        /\ ~LateWhiteout(seen) => \A c \in linkFd : Live(tree', c.fd)
    BY <1>6, <2>1
  <2> QED
    BY <1>2, <2>2 DEF CachesOK, Live, Has, Opened, LinkOpened, LateWhiteout
<1>11. Contents(tree) = Contents(want)
  BY <1>2 DEF IInv, TreeIsOverlay
<1>12. TreeIsOverlay'
  <2>1. Contents(tree') = Contents(want')
    BY <1>2, <1>6, <1>11
  <2> QED
    BY <1>6, <2>1 DEF TreeIsOverlay, Contents, Content
<1> QED
  BY <1>2, <1>6, <1>7, <1>8, <1>9, <1>10, <1>12 DEF IInv, Outcomes, Ends

\* Nothing changes, but perhaps the outcome.
LEMMA SameStep ==
  ASSUME IInv, RefusePath \/ Finish \/ UNCHANGED vars
  PROVE  IInv'
<1>1. /\ UNCHANGED <<tree, cache, linkFd, dirsMeta, layer, seen, want, shape>>
      /\ \/ outcome' = outcome
         \/ outcome = "metadata" /\ outcome' = "ok"
         \/ outcome' = "refused"
  BY DEF RefusePath, Finish, vars
<1>2. TreeOK(tree)' /\ TreeOK(want)'
  BY <1>1 DEF IInv
<1>3. EntriesOK' /\ CachesType' /\ MetaType'
  BY <1>1 DEF IInv, EntriesOK, InPlace, SourceInPlace, LateWhiteout, CachesType, MetaType, Modes
<1>4. CachesOK'
  BY <1>1 DEF IInv, CachesOK, Live, Has, Opened, LinkOpened, LateWhiteout
<1>5. TreeIsOverlay'
  BY <1>1 DEF IInv, TreeIsOverlay, LateWhiteout
<1> QED
  BY <1>1, <1>2, <1>3, <1>4, <1>5 DEF IInv, Outcomes, Ends

-----------------------------------------------------------------------------
(* The theorems. *)

\* The invariant holds before the first layer, with an empty root and empty caches.
LEMMA InitInv == Init => IInv
<1> SUFFICES ASSUME Init
             PROVE  IInv
  OBVIOUS
<1>1. /\ tree = [p \in {Root} |-> Dir(0, Default)] /\ want = [p \in {Root} |-> Dir(0, Default)]
      /\ cache = <<>> /\ linkFd = {} /\ dirsMeta = <<>>
      /\ layer = 1 /\ seen = {} /\ outcome = "layers" /\ shape \in Shapes
  BY DEF Init
<1>2. FdsCache \in Nat /\ 1 \in 1..MaxLayers
  BY BoundsAssumption
<1>3. TreeOK([p \in {Root} |-> Dir(0, Default)])
  <2> DEFINE T == [p \in {Root} |-> Dir(0, Default)]
  <2>1. DOMAIN T = {Root} /\ T[Root] = Dir(0, Default)
    OBVIOUS
  <2> HIDE DEF T
  <2>2. Dir(0, Default) \in Nodes /\ Dir(0, Default).type = "dir"
    <3>1. 0 \in 0..FdsCache + 1
      BY <1>2
    <3>2. Dir(0, Default) \in Nodes
      BY <3>1, ModesFacts, NewNodes
    <3> QED
      BY <3>2 DEF Dir
  <2>3. Root \in Seq(Names) /\ Len(Root) = 0
    BY EmptySeq DEF Root
  <2>4. 0..Len(Root) - 1 = {}
    BY <2>3
  <2>5. Shape(T)
    BY <2>1, <2>2, <2>3, <2>4 DEF Shape, Has
  <2>6. TreeOK(T)
    BY <2>1, <2>2, <2>5 DEF TreeOK
  <2> QED
    BY <2>6 DEF T
<1>4. EntriesOK
  BY <1>1 DEF EntriesOK, InPlace
<1>5. CachesType
  <2>1. cache \in Seq(Held) /\ Len(cache) = 0
    BY <1>1, EmptySeq
  <2>2. Len(cache) <= FdsCache
    BY <1>2, <2>1
  <2> QED
    BY <1>1, <2>1, <2>2 DEF CachesType
<1>6. CachesOK
  <2>1. DOMAIN cache = {} /\ linkFd = {}
    BY <1>1
  <2> QED
    BY <2>1 DEF CachesOK
<1>7. MetaType
  <2>1. DOMAIN dirsMeta = {}
    BY <1>1
  <2> QED
    BY <2>1 DEF MetaType
<1>8. TreeIsOverlay
  BY <1>1 DEF TreeIsOverlay
<1> QED
  BY <1>1, <1>2, <1>3, <1>4, <1>5, <1>6, <1>7, <1>8 DEF IInv, Outcomes

\* Every step preserves the invariant: one case per action of Next.
LEMMA NextInv == IInv /\ [Next]_vars => IInv'
<1> SUFFICES ASSUME IInv, [Next]_vars
             PROVE  IInv'
  OBVIOUS
<1>1. ASSUME NEW p \in Paths, UnpackDir(p)
      PROVE  IInv'
  BY <1>1, DirStep
<1>2. ASSUME NEW p \in Paths, UnpackRegular(p)
      PROVE  IInv'
  BY <1>2, FileStep
<1>3. ASSUME NEW p \in Paths \ {Root}, NEW to \in Paths \ {Root}, UnpackSymlink(p, to)
      PROVE  IInv'
  BY <1>3, SymlinkStep
<1>4. ASSUME NEW p \in Paths \ {Root}, NEW to \in Paths \ {Root}, UnpackHardLink(p, to)
      PROVE  IInv'
  BY <1>4, LinkStep
<1>5. ASSUME NEW p \in Paths, Whiteout(p)
      PROVE  IInv'
  BY <1>5, WhiteoutStep
<1>6. ASSUME NEW p \in Paths, OpaqueWhiteout(p)
      PROVE  IInv'
  BY <1>6, OpaqueStep
<1>7. CASE NextLayer \/ LastLayer
  BY <1>7, LayerStep
<1>8. CASE ApplyMetadata
  BY <1>8, MetadataStep
<1>9. CASE RefusePath \/ Finish
  BY <1>9, SameStep
<1>10. CASE Done
  BY <1>10, SameStep DEF Done
<1>11. CASE UNCHANGED vars
  BY <1>11, SameStep
<1> QED
  BY <1>1, <1>2, <1>3, <1>4, <1>5, <1>6, <1>7, <1>8, <1>9, <1>10, <1>11 DEF Next

\* What the layers have in common with the expected tree, and what the descriptors
\* that are held are of, at each step of images::get: those of DirFdCache are always
\* live, and cached_link_dirfd is, unless a whiteout came after other entries.
THEOREM Invariance == Spec => []IInv
BY InitInv, NextInv, PTL DEF Spec

\* Type correctness: the trees are trees, and the caches keep to their capacity.
THEOREM TypeCorrect == Spec => []TypeOK
<1>1. IInv => TypeOK
  <2> SUFFICES ASSUME IInv
               PROVE  TypeOK
    OBVIOUS
  <2>1. ASSUME NEW T \in {tree, want}
        PROVE  /\ \A p \in DOMAIN T : T[p] \in Nodes
               /\ Has(T, Root, "dir")
               /\ \A p \in DOMAIN T \ {Root} : Has(T, Front(p), "dir")
    <3>1. Shape(T) /\ \A p \in DOMAIN T : T[p] \in Nodes
      BY DEF IInv, TreeOK
    <3>2. ASSUME NEW p \in DOMAIN T \ {Root}
          PROVE  Has(T, Front(p), "dir")
      <4>1. Has(T, ParentOf(p), "dir")
        BY <3>1, ParentFacts
      <4> QED
        BY <4>1 DEF ParentOf
    <3> QED
      BY <3>1, <3>2 DEF Shape
  <2>2. Cardinality(linkFd) <= 1
    <3>1. CASE linkFd = {}
      BY <3>1, FS_EmptySet
    <3>2. CASE \E c : linkFd = {c}
      <4>1. PICK c : linkFd = {c}
        BY <3>2
      <4>2. Cardinality({c}) = 1
        BY FS_Singleton
      <4> QED
        BY <4>1, <4>2
    <3>3. linkFd = {} \/ \E c : linkFd = {c}
      BY DEF IInv, CachesType
    <3> QED
      BY <3>1, <3>2, <3>3
  <2>3. Len(cache) <= FdsCache
    BY DEF IInv, CachesType
  <2>4. /\ DOMAIN dirsMeta \subseteq {Key(p) : p \in Paths}
        /\ \A k \in DOMAIN dirsMeta : dirsMeta[k] \in Modes
    BY DEF IInv, MetaType
  <2>5. layer \in 1..MaxLayers /\ shape \in Shapes /\ outcome \in Outcomes
    BY DEF IInv
  <2> QED
    BY <2>1, <2>2, <2>3, <2>4, <2>5 DEF TypeOK, Outcomes
<1> QED
  BY <1>1, Invariance, PTL

\* Context::unpack with its caches of descriptors makes of any layers, of which the
\* entries are well formed and in place, the tree that the layers stack up to.
THEOREM OverlayCorrect == Spec => []TreeIsOverlay
<1>1. IInv => TreeIsOverlay
  BY DEF IInv
<1> QED
  BY <1>1, Invariance, PTL

-----------------------------------------------------------------------------
(* The modes of the directories, if there are no symbolic links. *)

NoLinks(T) == \A p \in DOMAIN T : T[p].type # "link"

\* With no links a path leads to itself.
LEMMA NoLinkWalk ==
  ASSUME NEW T, Shape(T), NoLinks(T), NEW path \in Seq(Names), Walk(T, path).err = "none"
  PROVE  Walk(T, path) = Found(path)
<1> DEFINE C == Contents(T)
<1>1. /\ Walk(T, path) = Walks(C)[MaxLinks][path] /\ MaxLinks \in 0..MaxLinks
      /\ \A p, type : Has(C, p, type) <=> Has(T, p, type)
      /\ Shape(C)
  BY ContentsHave DEF Walk, MaxLinks
<1> HIDE DEF C
<1>2. CASE \A i \in 1..Len(path) : Has(C, First(path, i), "dir")
  BY <1>1, <1>2, WalkDown
<1>3. CASE \E n \in 1..Len(path) : /\ ~Has(C, First(path, n), "dir")
                                   /\ \A i \in 1..n - 1 : Has(C, First(path, i), "dir")
  <2>1. PICK n \in 1..Len(path) : /\ ~Has(C, First(path, n), "dir")
                                  /\ \A i \in 1..n - 1 : Has(C, First(path, i), "dir")
    BY <1>3
  <2> DEFINE p == First(path, n)
             w == Walks(C)[MaxLinks][path]
  <2>2. /\ p \notin DOMAIN C => w = Error("not_found")
        /\ Has(C, p, "file") /\ n = Len(path) => w = Found(p)
        /\ Has(C, p, "file") /\ n # Len(path) => w = Error("not_dir")
    BY <1>1, <2>1, WalkStops
  <2>3. First(path, Len(path)) = path
    BY FirstEnds
  <2> HIDE DEF p, w
  <2>4. p \notin DOMAIN C \/ Has(C, p, "file")
    <3>1. ~Has(C, p, "link")
      BY <1>1 DEF NoLinks, Has
    <3> QED
      BY <1>1, <2>1, <3>1 DEF Shape, Has, p
  <2>5. w.err = "none"
    BY <1>1 DEF w
  <2>6. w = Found(p) /\ n = Len(path)
    BY <2>2, <2>4, <2>5 DEF Error
  <2> QED
    BY <1>1, <2>3, <2>6 DEF w, p
<1> QED
  BY <1>2, <1>3, WalkCases

\* Without links, a path leads to the directory of that name.
LEMMA NoLinkDir ==
  ASSUME NEW T, Shape(T), NoLinks(T), NEW path \in Seq(Names), WalkToDir(T, path).err = "none"
  PROVE  WalkToDir(T, path) = Found(path)
BY WalkToDirType, NoLinkWalk

\* Without links, open_directory opens the directory of that name.
LEMMA NoLinkOpen ==
  ASSUME NEW T, Shape(T), NoLinks(T), NEW path \in Seq(Names), OpenDirectory(T, path).err = "none"
  PROVE  OpenDirectory(T, path).at = path
<1> DEFINE O == OpenDirectory(T, path)
           d == Deepest(T, path)
<1>1. O.err = "none"
  OBVIOUS
<1>2. O = OpenDirectory(T, path)
  OBVIOUS
<1> HIDE DEF O
<1>3. Base(T, path).err = "none" /\ O.at = Made(T, path, Len(path))
  <2>1. \/ /\ Base(T, path).err # "none"
           /\ O = [err |-> Base(T, path).err, tree |-> T]
        \/ O = [err |-> "exists", tree |-> T]
        \/ /\ Base(T, path).err = "none"
           /\ O = [err |-> "none", at |-> Made(T, path, Len(path)),
                   tree |-> Grown(T, MadeDirs(T, path))]
    BY <1>2, OpenCases
  <2>2. CASE Base(T, path).err # "none" /\ O = [err |-> Base(T, path).err, tree |-> T]
    BY <1>1, <2>2
  <2>3. CASE O = [err |-> "exists", tree |-> T]
    BY <1>1, <2>3
  <2>4. CASE /\ Base(T, path).err = "none"
             /\ O = [err |-> "none", at |-> Made(T, path, Len(path)),
                     tree |-> Grown(T, MadeDirs(T, path))]
    BY <2>4
  <2> QED
    BY <2>1, <2>2, <2>3, <2>4
<1>4. d \in 0..Len(path) /\ Len(path) \in Nat
  BY BaseFacts, LenProperties
<1>5. Base(T, path).at = First(path, d)
  <2>1. First(path, d) \in Seq(Names)
    BY <1>4, FirstFacts
  <2>2. WalkToDir(T, First(path, d)).err = "none"
    BY <1>3 DEF Base
  <2> HIDE DEF d
  <2>3. WalkToDir(T, First(path, d)) = Found(First(path, d))
    BY <2>1, <2>2, NoLinkDir
  <2> QED
    BY <2>3 DEF Base, Found, d
<1>6. O.at = First(path, d) \o SubSeq(path, d + 1, Len(path))
  BY <1>3, <1>5 DEF Made
<1> HIDE DEF d
<1>7. SubSeq(path, 1, d) \o SubSeq(path, d + 1, Len(path)) = SubSeq(path, 1, Len(path))
  <2>1. 1 \in 1..Len(path) + 1 /\ d \in 1 - 1..Len(path) /\ Len(path) \in d..Len(path)
    BY <1>4
  <2> QED
    BY <2>1, ConcatAdjacentSubSeq
<1>8. SubSeq(path, 1, Len(path)) = path
  BY SubSeqFull
<1> QED
  BY <1>6, <1>7, <1>8 DEF First, O

\* The keys tell the paths apart.
LEMMA KeyFacts ==
  ASSUME NEW p \in Seq(Names), NEW r \in Seq(Names), Key(p) = Key(r)
  PROVE  p = r
<1>1. \A s \in Seq(Names) : s # <<".">>
  <2> SUFFICES ASSUME NEW s \in Seq(Names), s = <<".">>
               PROVE  FALSE
    OBVIOUS
  <2>1. Len(s) = 1 /\ s[1] = "."
    OBVIOUS
  <2>2. s[1] \in Names
    BY <2>1, ElementOfSeq
  <2> QED
    BY <2>1, <2>2, NamesAssumption
<1> QED
  BY <1>1 DEF Key

\* A directory that had an entry waits for its mode or has it. Without links the key of
\* the mode is the path of the directory: this is where the theorem needs their absence.
Marked(r)  == want[r].type = "dir" /\ want[r].mode # Default
Pending(r) == Key(r) \in DOMAIN dirsMeta /\ dirsMeta[Key(r)] = want[r].mode
Applied(r) == /\ Key(r) \notin DOMAIN dirsMeta
              /\ outcome \in {"metadata", "ok"}
              /\ tree[r].mode = want[r].mode

ModesInv == outcome \in {"layers", "metadata", "ok"} /\ "symlink" \notin shape.kinds =>
               /\ NoLinks(want)
               /\ \A r \in DOMAIN want : Marked(r) => Pending(r) \/ Applied(r)

\* What an entry makes of the directories that had entries.
LEMMA OverlayMarks ==
  ASSUME IInv, "symlink" \notin shape.kinds, NoLinks(want),
         NEW kind, NEW p \in Paths, NEW to \in Paths, Entry(kind, p, to)
  PROVE  /\ NoLinks(want')
         /\ \A r \in DOMAIN want' : want'[r].type = "dir" /\ want'[r].mode # Default =>
               \/ kind = "dir" /\ r = p /\ want'[r].mode = Mode(p)
               \/ /\ kind \in {"dir", "file"} => r # p
                  /\ r \in DOMAIN want /\ want[r] = want'[r]
<1> DEFINE up == OpenDirectory(want, ParentOf(p))
           q  == Child(up.at, p)
<1>1. /\ want' = Overlay(kind, p, to, up) /\ WellFormed(kind, p, to)
      /\ p \in Seq(Names) /\ ParentOf(p) \in Seq(Names)
      /\ up.err = "none" /\ TreeOK(up.tree)
      /\ q \in Seq(Names) /\ Has(up.tree, up.at, "dir")
      /\ p = Root => up.at = Root /\ q = Root
      /\ p # Root => q # Root /\ q = Append(up.at, Last(p)) /\ Front(q) = up.at
  BY EntryFacts
<1>2. Shape(want)
  BY DEF IInv, TreeOK
<1>3. q = p
  <2>1. up.at = ParentOf(p)
    BY <1>1, <1>2, NoLinkOpen
  <2>2. CASE p = Root
    BY <1>1, <2>2
  <2>3. CASE p # Root
    BY <1>1, <2>1, <2>3, FrontFacts DEF ParentOf
  <2> QED
    BY <2>2, <2>3
<1>4. /\ NoLinks(up.tree)
      /\ \A r \in DOMAIN up.tree : up.tree[r].type = "dir" /\ up.tree[r].mode # Default =>
            r \in DOMAIN want /\ want[r] = up.tree[r]
  <2>1. /\ \A r \in DOMAIN want : up.tree[r] = want[r]
        /\ \A r \in DOMAIN up.tree \ DOMAIN want : up.tree[r] = NewDir(r, Default)
    BY <1>1, <1>2, OpenFacts
  <2>2. \A r : NewDir(r, Default).type = "dir" /\ NewDir(r, Default).mode = Default
    BY DEF NewDir, Dir
  <2> HIDE DEF up
  <2> QED
    BY <2>1, <2>2 DEF NoLinks
<1>5. kind \in {"dir", "file", "link", "whiteout", "opaque"}
  BY ShapesAssumption DEF IInv, Entry, AllKinds
<1>6. ASSUME NEW node \in Nodes, want' = With(Without(up.tree, q), q, node), p # Root,
             node.type # "link", node.type = "dir" => kind = "dir" /\ node.mode = Mode(p)
      PROVE  /\ NoLinks(want')
             /\ \A r \in DOMAIN want' : want'[r].type = "dir" /\ want'[r].mode # Default =>
                   \/ kind = "dir" /\ r = p /\ want'[r].mode = Mode(p)
                   \/ /\ kind \in {"dir", "file"} => r # p
                      /\ r \in DOMAIN want /\ want[r] = want'[r]
  <2> DEFINE U == With(Without(up.tree, q), q, node)
  <2>1. /\ U[q] = node
        /\ \A r \in DOMAIN U : r # q => r \in DOMAIN up.tree /\ U[r] = up.tree[r]
    BY <1>1, <1>6, PutFacts
  <2>2. want' = U
    BY <1>6
  <2> HIDE DEF U, up, q
  <2> QED
    BY <1>3, <1>4, <1>6, <2>1, <2>2 DEF NoLinks
<1>7. CASE kind = "dir"
  <2>1. want' = IF IsDirectory(up.tree, q)
                THEN [up.tree EXCEPT ![Walk(up.tree, q).at].mode = Mode(p)]
                ELSE With(Without(up.tree, q), q, Dir(0, Mode(p)))
    BY <1>1, <1>7 DEF Overlay
  <2> HIDE DEF up, q
  <2>2. CASE IsDirectory(up.tree, q)
    <3>1. Walk(up.tree, q) = Found(q) /\ Has(up.tree, q, "dir")
      <4>1. Shape(up.tree) /\ WalkToDir(up.tree, q).err = "none"
        BY <1>1, <2>2 DEF TreeOK, IsDirectory
      <4>2. WalkToDir(up.tree, q) = Found(q)
        BY <1>1, <1>4, <4>1, NoLinkDir
      <4>3. Found(q).at = q
        BY DEF Found
      <4> QED
        BY <1>1, <4>1, <4>2, <4>3, WalkToDirType
    <3>2. want' = [up.tree EXCEPT ![q].mode = Mode(p)]
      <4>1. Walk(up.tree, q).at = q
        BY <3>1 DEF Found
      <4> QED
        BY <2>1, <2>2, <4>1
    <3>3. q \in DOMAIN up.tree /\ up.tree[q] \in Nodes /\ up.tree[q].type = "dir"
      BY <1>1, <3>1 DEF TreeOK, Has
    <3>4. /\ DOMAIN want' = DOMAIN up.tree
          /\ \A r \in DOMAIN up.tree : r # q => want'[r] = up.tree[r]
          /\ want'[q] = [up.tree[q] EXCEPT !.mode = Mode(p)]
      BY <3>2, <3>3
    <3>5. want'[q].type = "dir" /\ want'[q].mode = Mode(p)
      BY <3>3, <3>4 DEF Nodes
    <3> QED
      BY <1>3, <1>4, <1>7, <3>4, <3>5 DEF NoLinks
  <2>3. CASE ~IsDirectory(up.tree, q)
    <3>1. p # Root
      <4> SUFFICES ASSUME p = Root
                   PROVE  IsDirectory(up.tree, q)
        BY <2>3
      <4>1. Shape(up.tree) /\ Has(up.tree, Root, "dir") /\ q = Root
        BY <1>1, <1>3 DEF TreeOK, Shape
      <4> QED
        BY <4>1, WalkReal DEF IsDirectory, Found
    <3>2. Dir(0, Mode(p)) \in Nodes
      <4>1. Mode(p) \in Modes /\ 0 \in 0..FdsCache + 1
        BY ModesFacts, BoundsAssumption DEF IInv
      <4> QED
        BY <4>1, NewNodes
    <3>3. Dir(0, Mode(p)).type = "dir" /\ Dir(0, Mode(p)).mode = Mode(p)
      BY DEF Dir
    <3> QED
      BY <1>6, <1>7, <2>1, <2>3, <3>1, <3>2, <3>3
  <2> QED
    BY <2>2, <2>3
<1>8. CASE kind = "file"
  <2>1. want' = With(Without(up.tree, q), q, File(Mode(p)))
    BY <1>1, <1>8 DEF Overlay
  <2>2. p # Root
    BY <1>1, <1>8 DEF WellFormed
  <2>3. File(Mode(p)) \in Nodes /\ File(Mode(p)).type = "file"
    BY ModesFacts, NewNodes DEF IInv, File
  <2> HIDE DEF up, q
  <2> QED
    BY <1>6, <2>1, <2>2, <2>3
<1>9. CASE kind = "link"
  <2> DEFINE old == Child(WalkToDir(want, ParentOf(to)).at, to)
  <2>1. want' = With(Without(up.tree, q), q, want[old])
    BY <1>1, <1>9 DEF Overlay
  <2>2. p # Root
    BY <1>1, <1>9 DEF WellFormed
  <2>3. old \in DOMAIN want /\ want[old].type # "dir"
    BY <1>1, <1>9, SourceFacts
  <2> HIDE DEF up, q, old
  <2>4. want[old] \in Nodes /\ want[old].type # "link"
    BY <2>3 DEF IInv, TreeOK, NoLinks
  <2> QED
    BY <1>6, <2>1, <2>2, <2>3, <2>4
<1>10. CASE kind = "whiteout"
  <2>1. want' = Without(up.tree, q)
    BY <1>1, <1>10 DEF Overlay
  <2>2. p # Root
    BY <1>1, <1>10 DEF WellFormed
  <2> HIDE DEF up, q
  <2>3. DOMAIN want' \subseteq DOMAIN up.tree /\ \A r \in DOMAIN want' : want'[r] = up.tree[r]
    BY <2>1 DEF Without, Restrict
  <2> QED
    BY <1>4, <1>10, <2>3 DEF NoLinks
<1>11. CASE kind = "opaque"
  <2>1. want' = WithoutSubtree(want, Walk(want, p).at)
    BY <1>1, <1>11 DEF Overlay
  <2>2. DOMAIN want' \subseteq DOMAIN want /\ \A r \in DOMAIN want' : want'[r] = want[r]
    BY <2>1 DEF WithoutSubtree, Restrict
  <2> QED
    BY <1>11, <2>2 DEF NoLinks
<1> QED
  BY <1>5, <1>7, <1>8, <1>9, <1>10, <1>11

\* An entry preserves it: a directory stores its mode, a file forgets the mode of what it replaces.
LEMMA EntryMarks ==
  ASSUME IInv, IInv', ModesInv, "symlink" \notin shape.kinds,
         NEW kind, NEW p \in Paths, NEW to \in Paths, Entry(kind, p, to),
         \/ outcome' \in {"refused", "stale", "failed"}
         \/ /\ outcome' = outcome
            /\ \/ kind = "dir" /\ dirsMeta' = StoreMetadata(p)
               \/ kind # "dir" /\ dirsMeta' = dirsMeta
               \/ kind = "file" /\ dirsMeta' = Restrict(dirsMeta, DOMAIN dirsMeta \ {Key(p)})
  PROVE  ModesInv'
<1>1. outcome = "layers" /\ p \in Seq(Names)
  BY EntryFacts
<1>2. NoLinks(want) /\ \A r \in DOMAIN want : Marked(r) => Pending(r)
  BY <1>1 DEF ModesInv, Applied
<1>3. /\ NoLinks(want')
      /\ \A r \in DOMAIN want' : want'[r].type = "dir" /\ want'[r].mode # Default =>
            \/ kind = "dir" /\ r = p /\ want'[r].mode = Mode(p)
            \/ /\ kind \in {"dir", "file"} => r # p
               /\ r \in DOMAIN want /\ want[r] = want'[r]
  BY <1>2, OverlayMarks
<1>4. CASE outcome' \in {"refused", "stale", "failed"}
  BY <1>4 DEF ModesInv
<1>5. ASSUME NEW r \in DOMAIN want', want'[r].type = "dir", want'[r].mode # Default,
             \/ kind = "dir" /\ dirsMeta' = StoreMetadata(p)
             \/ kind # "dir" /\ dirsMeta' = dirsMeta
             \/ kind = "file" /\ dirsMeta' = Restrict(dirsMeta, DOMAIN dirsMeta \ {Key(p)})
      PROVE  Key(r) \in DOMAIN dirsMeta' /\ dirsMeta'[Key(r)] = want'[r].mode
  <2>1. r \in Seq(Names)
    BY <1>5 DEF IInv, TreeOK, Shape
  <2>2. CASE kind = "dir" /\ r = p /\ want'[r].mode = Mode(p)
    BY <1>5, <2>2 DEF StoreMetadata, With
  <2>3. CASE (kind \in {"dir", "file"} => r # p) /\ r \in DOMAIN want /\ want[r] = want'[r]
    <3>1. Key(r) \in DOMAIN dirsMeta /\ dirsMeta[Key(r)] = want'[r].mode
      BY <1>2, <1>5, <2>3 DEF Marked, Pending
    <3>2. kind \in {"dir", "file"} => Key(r) # Key(p)
      BY <1>1, <2>1, <2>3, KeyFacts
    <3>3. CASE kind = "dir" /\ dirsMeta' = StoreMetadata(p)
      BY <3>1, <3>2, <3>3 DEF StoreMetadata, With
    <3>4. CASE kind # "dir" /\ dirsMeta' = dirsMeta
      BY <3>1, <3>4
    <3>5. CASE kind = "file" /\ dirsMeta' = Restrict(dirsMeta, DOMAIN dirsMeta \ {Key(p)})
      BY <3>1, <3>2, <3>5 DEF Restrict
    <3> QED
      BY <1>5, <3>3, <3>4, <3>5
  <2> QED
    BY <1>3, <1>5, <2>2, <2>3
<1>6. CASE outcome' = outcome /\ outcome' \notin {"refused", "stale", "failed"}
  BY <1>3, <1>5, <1>6 DEF ModesInv, Marked, Pending, Applied, NoLinks
<1> QED
  BY <1>4, <1>6

\* The mode that waits for a directory is given to that directory.
LEMMA ApplyMarks ==
  ASSUME IInv, IInv', ModesInv, "symlink" \notin shape.kinds, ApplyMetadata
  PROVE  ModesInv'
<1>1. PICK k \in NextKeys :
         LET p      == IF k = Key(Root) THEN Root ELSE k
             parent == WalkToDir(tree, ParentOf(p))
             found  == IF parent.err = "none" THEN Walk(tree, Child(parent.at, p)) ELSE parent
         IN  /\ dirsMeta' = Restrict(dirsMeta, DOMAIN dirsMeta \ {k})
             /\ CASE found.err = "none" -> /\ tree' = [tree EXCEPT ![found.at].mode = dirsMeta[k]]
                                           /\ UNCHANGED outcome
                  [] found.err = "not_found" -> UNCHANGED <<tree, outcome>>
                  [] OTHER -> outcome' = "metadata_failed" /\ UNCHANGED tree
  BY DEF ApplyMetadata
<1> DEFINE p      == IF k = Key(Root) THEN Root ELSE k
           parent == WalkToDir(tree, ParentOf(p))
           found  == IF parent.err = "none" THEN Walk(tree, Child(parent.at, p)) ELSE parent
<1>2. outcome = "metadata" /\ want' = want /\ shape' = shape
  BY DEF ApplyMetadata
<1>3. p \in Paths /\ p \in Seq(Names) /\ k = Key(p) /\ k \in DOMAIN dirsMeta
  <2>1. k \in DOMAIN dirsMeta
    BY DEF NextKeys
  <2>2. PICK r \in Paths : k = Key(r)
    BY <2>1 DEF IInv, MetaType
  <2> QED
    BY <2>1, <2>2, PathsFacts DEF Key
<1>4. /\ dirsMeta' = Restrict(dirsMeta, DOMAIN dirsMeta \ {k})
      /\ \/ /\ found.err = "none" /\ tree' = [tree EXCEPT ![found.at].mode = dirsMeta[k]]
            /\ outcome' = outcome
         \/ found.err # "none" /\ tree' = tree /\ outcome' = outcome
         \/ outcome' = "metadata_failed"
  BY <1>1
<1> HIDE DEF p
<1>5. CASE outcome' = "metadata_failed"
  BY <1>5 DEF ModesInv
<1>6. CASE outcome' = outcome /\ outcome' # "metadata_failed"
  <2>1. Shape(tree) /\ Contents(tree) = Contents(want) /\ Shape(want) /\ NoLinks(want)
    BY <1>2 DEF IInv, TreeOK, TreeIsOverlay, ModesInv
  <2>2. /\ \A r, type : Has(tree, r, type) <=> Has(want, r, type)
        /\ DOMAIN tree = DOMAIN want
    BY <2>1, SameWalk
  <2>3. NoLinks(tree)
    BY <2>1, <2>2 DEF NoLinks, Has
  <2>4. found.err = "none" => found = Found(p) /\ p \in DOMAIN tree
    <3> SUFFICES ASSUME found.err = "none"
                 PROVE  found = Found(p) /\ p \in DOMAIN tree
      OBVIOUS
    <3>1. parent.err = "none" /\ found = Walk(tree, Child(parent.at, p))
      OBVIOUS
    <3>2. ParentOf(p) \in Seq(Names)
      BY <1>3, ParentFacts
    <3>3. parent = Found(ParentOf(p))
      BY <2>1, <2>3, <3>1, <3>2, NoLinkDir
    <3>4. Child(parent.at, p) = p
      <4>1. parent.at = ParentOf(p)
        BY <3>3 DEF Found
      <4>2. CASE p = Root
        BY <4>1, <4>2 DEF ParentOf, Child
      <4>3. CASE p # Root
        BY <1>3, <4>1, <4>3, FrontFacts DEF ParentOf, Child
      <4> QED
        BY <4>2, <4>3
    <3> HIDE DEF parent, found
    <3>5. found = Walk(tree, p)
      BY <3>1, <3>4
    <3>6. found = Found(p)
      BY <1>3, <2>1, <2>3, <3>5, NoLinkWalk
    <3>7. IsFound(Contents(tree), Walk(tree, p))
      <4>1. Shape(Contents(tree)) /\ MaxLinks \in 0..MaxLinks
        BY <2>1, ContentsHave DEF MaxLinks
      <4> QED
        BY <1>3, <4>1, WalkType DEF Walk
    <3>8. p \in DOMAIN Contents(tree)
      BY <3>5, <3>6, <3>7 DEF IsFound, Found, Has
    <3> QED
      BY <3>6, <3>8, ContentsFacts
  <2>5. Has(tree, p, "dir") => found.err = "none"
    <3> SUFFICES ASSUME Has(tree, p, "dir")
                 PROVE  found.err = "none"
      OBVIOUS
    <3>1. Has(tree, ParentOf(p), "dir")
      BY <2>1, ParentFacts DEF Has
    <3>2. parent = Found(ParentOf(p)) /\ Walk(tree, p) = Found(p)
      BY <2>1, <3>1, WalkReal
    <3>3. Child(ParentOf(p), p) = p
      <4>1. CASE p = Root
        BY <4>1 DEF ParentOf, Child
      <4>2. CASE p # Root
        BY <1>3, <4>2, FrontFacts DEF ParentOf, Child
      <4> QED
        BY <4>1, <4>2
    <3>4. parent.err = "none" /\ parent.at = ParentOf(p)
      BY <3>2 DEF Found
    <3> HIDE DEF parent
    <3>5. found = Found(p)
      BY <3>2, <3>3, <3>4
    <3> QED
      BY <3>5 DEF Found
  <2> HIDE DEF parent, found
  <2>6. \A r \in DOMAIN tree : r # p => tree'[r] = tree[r]
    <3>1. CASE found.err = "none" /\ tree' = [tree EXCEPT ![found.at].mode = dirsMeta[k]]
      <4>1. found.at = p
        BY <2>4, <3>1 DEF Found
      <4> QED
        BY <3>1, <4>1
    <3>2. CASE tree' = tree
      BY <3>2
    <3> QED
      BY <1>4, <1>6, <3>1, <3>2
  <2>7. Has(tree, p, "dir") => tree'[p].mode = dirsMeta[k]
    <3> SUFFICES ASSUME Has(tree, p, "dir")
                 PROVE  tree'[p].mode = dirsMeta[k]
      OBVIOUS
    <3>1. found.err = "none" /\ found.at = p /\ p \in DOMAIN tree
      BY <2>4, <2>5 DEF Found
    <3>2. tree' = [tree EXCEPT ![p].mode = dirsMeta[k]]
      BY <1>4, <1>6, <3>1
    <3>3. tree'[p] = [tree[p] EXCEPT !.mode = dirsMeta[k]]
      BY <3>1, <3>2
    <3>4. tree[p] \in Nodes /\ tree[p].type = "dir"
      BY <3>1 DEF IInv, TreeOK, Has
    <3> QED
      BY <3>3, <3>4 DEF Nodes
  <2>8. ASSUME NEW r \in DOMAIN want, want[r].type = "dir", want[r].mode # Default
        PROVE  \/ Key(r) \in DOMAIN dirsMeta' /\ dirsMeta'[Key(r)] = want[r].mode
               \/ Key(r) \notin DOMAIN dirsMeta' /\ tree'[r].mode = want[r].mode
    <3>1. Pending(r) \/ Applied(r)
      BY <1>2, <2>8 DEF ModesInv, Marked
    <3>2. /\ DOMAIN dirsMeta' = DOMAIN dirsMeta \ {k}
          /\ \A j \in DOMAIN dirsMeta \ {k} : dirsMeta'[j] = dirsMeta[j]
      BY <1>4 DEF Restrict
    <3>3. CASE r = p
      <4>1. Pending(r) /\ Has(tree, p, "dir")
        BY <1>3, <2>2, <2>8, <3>1, <3>3 DEF Applied, Has
      <4> QED
        BY <1>3, <2>7, <3>2, <3>3, <4>1 DEF Pending
    <3>4. CASE r # p
      <4>1. Key(r) # k
        <5>1. r \in Seq(Names)
          BY <2>1 DEF Shape
        <5> QED
          BY <1>3, <3>4, <5>1, KeyFacts
      <4>2. tree'[r] = tree[r]
        BY <2>2, <2>6, <3>4
      <4> QED
        BY <3>1, <3>2, <4>1, <4>2 DEF Pending, Applied
    <3> QED
      BY <3>3, <3>4
  <2> QED
    BY <1>2, <1>6, <2>1, <2>8 DEF ModesInv, Marked, Pending, Applied, NoLinks
<1> QED
  BY <1>2, <1>4, <1>5, <1>6

\* The types and the numbers of the entries are those of one image.
LEMMA SameShape == [Next]_vars => shape' = shape
<1>1. \A kind, p, to : Entry(kind, p, to) => shape' = shape
  BY DEF Entry
<1>2. (NextLayer \/ LastLayer \/ RefusePath \/ ApplyMetadata \/ Finish \/ Done \/ UNCHANGED vars)
      => shape' = shape
  BY DEF NextLayer, LastLayer, RefusePath, ApplyMetadata, Finish, Done, vars
<1> QED
  BY <1>1, <1>2 DEF Next, UnpackDir, UnpackRegular, UnpackSymlink, UnpackHardLink,
                    Whiteout, OpaqueWhiteout

\* Every step preserves it, without links.
LEMMA NextMarks == IInv /\ IInv' /\ ModesInv /\ [Next]_vars => ModesInv'
<1> SUFFICES ASSUME IInv, IInv', ModesInv, [Next]_vars, "symlink" \notin shape.kinds
             PROVE  ModesInv'
  BY SameShape DEF ModesInv
<1>0. Root \in Paths
  BY PathsFacts
<1>1. ASSUME NEW p \in Paths, UnpackDir(p)
      PROVE  ModesInv'
  <2>1. /\ Entry("dir", p, Root)
        /\ \/ outcome' \in {"refused", "stale", "failed"}
           \/ outcome' = outcome /\ dirsMeta' = StoreMetadata(p)
    BY <1>1 DEF UnpackDir, Fail
  <2> QED
    BY <1>0, <2>1, EntryMarks
<1>2. ASSUME NEW p \in Paths, UnpackRegular(p)
      PROVE  ModesInv'
  <2>1. /\ Entry("file", p, Root)
        /\ \/ outcome' \in {"refused", "stale", "failed"}
           \/ /\ outcome' = outcome
              /\ \/ dirsMeta' = dirsMeta
                 \/ dirsMeta' = Restrict(dirsMeta, DOMAIN dirsMeta \ {Key(p)})
    BY <1>2 DEF UnpackRegular, Fail
  <2> QED
    BY <1>0, <2>1, EntryMarks
<1>3. ASSUME NEW p \in Paths \ {Root}, NEW to \in Paths \ {Root}, UnpackSymlink(p, to)
      PROVE  FALSE
  BY <1>3 DEF UnpackSymlink, Entry
<1>4. ASSUME NEW p \in Paths \ {Root}, NEW to \in Paths \ {Root}, UnpackHardLink(p, to)
      PROVE  ModesInv'
  <2>1. /\ Entry("link", p, to)
        /\ \/ outcome' \in {"refused", "stale", "failed"}
           \/ outcome' = outcome /\ dirsMeta' = dirsMeta
    BY <1>4 DEF UnpackHardLink, Fail
  <2> QED
    BY <2>1, EntryMarks
<1>5. ASSUME NEW p \in Paths, Whiteout(p)
      PROVE  ModesInv'
  <2>1. /\ Entry("whiteout", p, Root)
        /\ \/ outcome' \in {"refused", "stale", "failed"}
           \/ outcome' = outcome /\ dirsMeta' = dirsMeta
    BY <1>5 DEF Whiteout, Fail
  <2> QED
    BY <1>0, <2>1, EntryMarks
<1>6. ASSUME NEW p \in Paths, OpaqueWhiteout(p)
      PROVE  ModesInv'
  <2>1. /\ Entry("opaque", p, Root)
        /\ \/ outcome' \in {"refused", "stale", "failed"}
           \/ outcome' = outcome /\ dirsMeta' = dirsMeta
    BY <1>6 DEF OpaqueWhiteout, Fail
  <2> QED
    BY <1>0, <2>1, EntryMarks
<1>7. CASE NextLayer \/ LastLayer
  <2>1. /\ UNCHANGED <<tree, dirsMeta, want, shape>>
        /\ outcome = "layers" /\ outcome' \in {"layers", "metadata"}
    BY <1>7 DEF NextLayer, LastLayer
  <2> QED
    BY <2>1 DEF ModesInv, Marked, Pending, Applied, NoLinks
<1>8. CASE ApplyMetadata
  BY <1>8, ApplyMarks
<1>9. CASE RefusePath \/ Finish \/ Done \/ UNCHANGED vars
  <2>1. /\ UNCHANGED <<tree, dirsMeta, want, shape>>
        /\ \/ outcome' = outcome
           \/ outcome = "metadata" /\ outcome' = "ok"
           \/ outcome' = "refused"
    BY <1>9 DEF RefusePath, Finish, Done, vars
  <2> QED
    BY <2>1 DEF ModesInv, Marked, Pending, Applied, NoLinks
<1> QED
  BY <1>1, <1>2, <1>3, <1>4, <1>5, <1>6, <1>7, <1>8, <1>9 DEF Next

\* It holds of the empty root, whose mode is the default one.
LEMMA InitMarks == Init => ModesInv
<1> SUFFICES ASSUME Init
             PROVE  ModesInv
  OBVIOUS
<1>1. want = [p \in {Root} |-> Dir(0, Default)]
  BY DEF Init
<1>2. \A r \in DOMAIN want : want[r].type = "dir" /\ want[r].mode = Default
  BY <1>1 DEF Dir
<1> QED
  BY <1>2 DEF ModesInv, Marked, NoLinks

\* All the modes are applied at the end.
Emptied == outcome = "ok" => DOMAIN dirsMeta = {}

\* An unpacking that ends well has applied every mode that it had stored.
LEMMA NextEmptied ==
  /\ Init => Emptied
  /\ Emptied /\ IInv /\ [Next]_vars => Emptied'
<1>1. Init => Emptied
  BY DEF Init, Emptied
<1>2. ASSUME Emptied, IInv, [Next]_vars
      PROVE  Emptied'
  <2>1. CASE outcome' # "ok"
    BY <2>1 DEF Emptied
  <2>2. CASE outcome' = "ok"
    <3>1. Finish \/ (outcome = "ok" /\ UNCHANGED dirsMeta)
      <4>1. ASSUME NEW p \in Paths, UnpackDir(p)
            PROVE  FALSE
        BY <2>2, <4>1 DEF UnpackDir, Entry, Fail
      <4>2. ASSUME NEW p \in Paths, UnpackRegular(p)
            PROVE  FALSE
        BY <2>2, <4>2 DEF UnpackRegular, Entry, Fail
      <4>3. ASSUME NEW p \in Paths, NEW to \in Paths, UnpackSymlink(p, to)
            PROVE  FALSE
        BY <2>2, <4>3 DEF UnpackSymlink, Entry, Fail
      <4>4. ASSUME NEW p \in Paths, NEW to \in Paths, UnpackHardLink(p, to)
            PROVE  FALSE
        BY <2>2, <4>4 DEF UnpackHardLink, Entry, Fail
      <4>5. ASSUME NEW p \in Paths, Whiteout(p)
            PROVE  FALSE
        BY <2>2, <4>5 DEF Whiteout, Entry, Fail
      <4>6. ASSUME NEW p \in Paths, OpaqueWhiteout(p)
            PROVE  FALSE
        BY <2>2, <4>6 DEF OpaqueWhiteout, Entry, Fail
      <4>7. CASE NextLayer \/ LastLayer
        BY <2>2, <4>7 DEF NextLayer, LastLayer
      <4>8. CASE ApplyMetadata
        BY <2>2, <4>8 DEF ApplyMetadata
      <4>9. CASE RefusePath \/ Finish \/ Done \/ UNCHANGED vars
        BY <2>2, <4>9 DEF RefusePath, Done, vars
      <4> QED
        BY <1>2, <4>1, <4>2, <4>3, <4>4, <4>5, <4>6, <4>7, <4>8, <4>9 DEF Next
    <3> QED
      BY <1>2, <3>1 DEF Finish, Emptied
  <2> QED
    BY <2>1, <2>2
<1> QED
  BY <1>1, <1>2

\* If the layers have no symbolic links, each directory has in the end the mode of the
\* last entry for it, though the modes are applied after all the layers, by path. With
\* links two paths may lead to one directory, and the shorter one wins.
THEOREM ModesCorrect == Spec => []DirModesApplied
<1>1. IInv /\ ModesInv /\ Emptied => DirModesApplied
  <2> SUFFICES ASSUME IInv, ModesInv, Emptied, outcome = "ok", "symlink" \notin shape.kinds,
                      NEW p \in DOMAIN want, want[p].type = "dir", want[p].mode # Default
               PROVE  tree[p].mode = want[p].mode
    BY DEF DirModesApplied
  <2> QED
    BY DEF ModesInv, Marked, Pending, Applied, Emptied
<1>2. Init => IInv /\ ModesInv /\ Emptied
  BY InitInv, InitMarks, NextEmptied
<1>3. (IInv /\ ModesInv /\ Emptied) /\ [Next]_vars => (IInv /\ ModesInv /\ Emptied)'
  BY NextInv, NextMarks, NextEmptied
<1> QED
  BY <1>1, <1>2, <1>3, PTL DEF Spec

-----------------------------------------------------------------------------
(* The order in which the modes are applied. *)

\* f has the length of the text of the first components of a path.
Measures(path, f) ==
    f = [i \in 0..Len(path) |-> IF i = 0 THEN 0 ELSE f[i - 1] + NameLen[path[i]] + 1]

\* TextLen is well-founded, as Walks is.
LEMMA MeasureExists ==
  ASSUME NEW path \in Seq(Names)
  PROVE  \E f : Measures(path, f)
<1> DEFINE Upto(n, f) == /\ f \in [0..n -> Nat]
                         /\ f = [i \in 0..n |-> IF i = 0 THEN 0 ELSE f[i - 1] + NameLen[path[i]] + 1]
           S == {n \in Nat : n <= Len(path) => \E f : Upto(n, f)}
<1>1. Len(path) \in Nat /\ \A i \in 1..Len(path) : NameLen[path[i]] \in Nat
  BY LenProperties, ElementOfSeq, NameLenAssumption
<1>2. 0 \in S
  <2> DEFINE f == [i \in 0..0 |-> 0]
  <2>1. Upto(0, f)
    OBVIOUS
  <2> QED
    BY <2>1
<1>3. ASSUME NEW n \in Nat, n \in S
      PROVE  n + 1 \in S
  <2> HIDE DEF Upto
  <2> SUFFICES ASSUME n + 1 <= Len(path)
               PROVE  \E f : Upto(n + 1, f)
    OBVIOUS
  <2>0. n <= Len(path)
    BY <1>1
  <2>1. PICK f : Upto(n, f)
    BY <1>3, <2>0
  <2> USE DEF Upto
  <2> DEFINE g == [i \in 0..n + 1 |-> IF i = n + 1 THEN f[n] + NameLen[path[n + 1]] + 1 ELSE f[i]]
  <2>2. f[n] \in Nat /\ NameLen[path[n + 1]] \in Nat
    BY <1>1, <2>1
  <2>3. g \in [0..n + 1 -> Nat]
    BY <2>1, <2>2
  <2>4. ASSUME NEW i \in 0..n + 1
        PROVE  g[i] = IF i = 0 THEN 0 ELSE g[i - 1] + NameLen[path[i]] + 1
    <3>1. CASE i = n + 1
      <4>1. g[i] = f[n] + NameLen[path[i]] + 1 /\ i # 0 /\ i - 1 = n
        BY <3>1
      <4>2. g[n] = f[n]
        OBVIOUS
      <4> QED
        BY <4>1, <4>2
    <3>2. CASE i # n + 1 /\ i # 0
      <4>1. i \in 0..n /\ i - 1 \in 0..n + 1 /\ i - 1 # n + 1
        BY <3>2
      <4>2. g[i] = f[i] /\ g[i - 1] = f[i - 1]
        BY <3>2, <4>1
      <4>3. f[i] = f[i - 1] + NameLen[path[i]] + 1
        BY <2>1, <3>2, <4>1
      <4> QED
        BY <3>2, <4>2, <4>3
    <3>3. CASE i # n + 1 /\ i = 0
      <4>1. g[i] = f[0] /\ 0 \in 0..n
        BY <3>3
      <4>2. f[0] = 0
        BY <2>1, <4>1
      <4> QED
        BY <3>3, <4>1, <4>2
    <3> QED
      BY <3>1, <3>2, <3>3
  <2>5. g = [i \in 0..n + 1 |-> g[i]]
    OBVIOUS
  <2> HIDE DEF g
  <2>6. g = [i \in 0..n + 1 |-> IF i = 0 THEN 0 ELSE g[i - 1] + NameLen[path[i]] + 1]
    BY <2>4, <2>5
  <2> QED
    BY <2>3, <2>6
<1>4. \E f : Upto(Len(path), f)
  <2> HIDE DEF Upto
  <2>1. Nat \subseteq S
    BY <1>2, <1>3, Induction
  <2> QED
    BY <1>1, <2>1
<1> QED
  BY <1>4 DEF Measures

\* What TextLen returns, but for the root.
LEMMA TextLenFacts ==
  ASSUME NEW path \in Seq(Names)
  PROVE  \E f : Measures(path, f) /\ TextLen(path) = f[Len(path)]
<1> DEFINE len == CHOOSE f : Measures(path, f)
<1>1. Measures(path, len)
  BY MeasureExists
<1>2. path # Key(Root)
  <2> SUFFICES ASSUME path = Key(Root)
               PROVE  FALSE
    OBVIOUS
  <2>1. path = <<".">>
    BY DEF Key
  <2>2. Len(path) = 1 /\ path[1] = "."
    BY <2>1
  <2>3. path[1] \in Names
    BY <2>2, ElementOfSeq
  <2> QED
    BY <2>2, <2>3, NamesAssumption
<1>3. TextLen(path) = len[Len(path)]
  BY <1>2 DEF TextLen, Measures
<1> QED
  BY <1>1, <1>3

\* The text of a path is longer than that of its prefixes.
LEMMA LongerText ==
  ASSUME NEW k \in Seq(Names), NEW j \in Seq(Names), IsStrictPrefix(k, j)
  PROVE  TextLen(k) \in Nat /\ TextLen(j) \in Nat /\ TextLen(k) < TextLen(j)
<1>1. PICK f : Measures(k, f) /\ TextLen(k) = f[Len(k)]
  BY TextLenFacts
<1>2. PICK g : Measures(j, g) /\ TextLen(j) = g[Len(j)]
  BY TextLenFacts
<1>3. /\ Len(k) \in Nat /\ Len(j) \in Nat /\ Len(k) < Len(j)
      /\ First(j, Len(k)) = k
  BY PrefixMeans
<1>4. \A i \in 1..Len(k) : k[i] = j[i]
  <2>1. Len(k) \in 0..Len(j)
    BY <1>3
  <2>2. \A i \in 1..Len(k) : First(j, Len(k))[i] = j[i]
    BY <2>1, FirstFacts
  <2> QED
    BY <1>3, <2>2
<1>5. \A i \in 1..Len(j) : NameLen[j[i]] \in Nat \ {0}
  BY ElementOfSeq, NameLenAssumption
<1>6. /\ \A i \in 0..Len(k) : f[i] = IF i = 0 THEN 0 ELSE f[i - 1] + NameLen[k[i]] + 1
      /\ \A i \in 0..Len(j) : g[i] = IF i = 0 THEN 0 ELSE g[i - 1] + NameLen[j[i]] + 1
  BY <1>1, <1>2 DEF Measures
<1>7. \A n \in Nat : n <= Len(j) =>
         \A m \in 0..n : g[m] \in Nat /\ (m < n => g[m] < g[n])
  <2> DEFINE S == {n \in Nat : n <= Len(j) =>
                     \A m \in 0..n : g[m] \in Nat /\ (m < n => g[m] < g[n])}
  <2>1. 0 \in S
    <3>1. g[0] = 0
      BY <1>3, <1>6
    <3> QED
      BY <3>1
  <2>2. ASSUME NEW n \in Nat, n \in S
        PROVE  n + 1 \in S
    <3> SUFFICES ASSUME n + 1 <= Len(j)
                 PROVE  \A m \in 0..n + 1 : g[m] \in Nat /\ (m < n + 1 => g[m] < g[n + 1])
      OBVIOUS
    <3>1. g[n] \in Nat /\ \A m \in 0..n : g[m] \in Nat /\ (m < n => g[m] < g[n])
      BY <1>3, <2>2
    <3>2. g[n + 1] = g[n] + NameLen[j[n + 1]] + 1
      <4>1. n + 1 \in 0..Len(j) /\ n + 1 # 0 /\ (n + 1) - 1 = n
        BY <1>3
      <4> QED
        BY <1>6, <4>1
    <3>3. NameLen[j[n + 1]] \in Nat
      BY <1>3, <1>5
    <3>4. g[n + 1] \in Nat /\ g[n] < g[n + 1]
      BY <3>1, <3>2, <3>3
    <3>5. ASSUME NEW m \in 0..n + 1
          PROVE  g[m] \in Nat /\ (m < n + 1 => g[m] < g[n + 1])
      <4>1. CASE m = n + 1
        BY <3>4, <4>1
      <4>2. CASE m = n
        BY <3>1, <3>4, <4>2
      <4>3. CASE m # n /\ m # n + 1
        <5>1. m \in 0..n /\ m < n
          BY <4>3
        <5>2. g[m] \in Nat /\ g[m] < g[n]
          BY <3>1, <5>1
        <5> QED
          BY <3>1, <3>4, <5>2
      <4> QED
        BY <4>1, <4>2, <4>3
    <3> QED
      BY <3>5
  <2> HIDE DEF S
  <2>3. Nat \subseteq S
    BY <2>1, <2>2, Induction
  <2> QED
    BY <2>3 DEF S
<1>8. \A n \in Nat : n <= Len(k) => f[n] = g[n]
  <2> DEFINE S == {n \in Nat : n <= Len(k) => f[n] = g[n]}
  <2>1. 0 \in S
    <3>1. f[0] = 0 /\ g[0] = 0
      BY <1>3, <1>6
    <3> QED
      BY <3>1
  <2>2. ASSUME NEW n \in Nat, n \in S
        PROVE  n + 1 \in S
    <3> SUFFICES ASSUME n + 1 <= Len(k)
                 PROVE  f[n + 1] = g[n + 1]
      OBVIOUS
    <3>1. f[n] = g[n]
      BY <1>3, <2>2
    <3>2. n + 1 \in 0..Len(k) /\ n + 1 \in 0..Len(j) /\ n + 1 # 0 /\ (n + 1) - 1 = n
          /\ n + 1 \in 1..Len(k)
      BY <1>3
    <3>3. f[n + 1] = f[n] + NameLen[k[n + 1]] + 1
      BY <1>6, <3>2
    <3>4. g[n + 1] = g[n] + NameLen[j[n + 1]] + 1
      BY <1>6, <3>2
    <3>5. k[n + 1] = j[n + 1]
      BY <1>4, <3>2
    <3> QED
      BY <3>1, <3>3, <3>4, <3>5
  <2> HIDE DEF S
  <2>3. Nat \subseteq S
    BY <2>1, <2>2, Induction
  <2> QED
    BY <2>3 DEF S
<1>9. f[Len(k)] = g[Len(k)]
  BY <1>3, <1>8
<1>10. g[Len(j)] \in Nat /\ g[Len(k)] \in Nat /\ g[Len(k)] < g[Len(j)]
  <2>1. Len(k) \in 0..Len(j) /\ Len(k) <= Len(j) /\ Len(j) <= Len(j)
    BY <1>3
  <2> QED
    BY <1>3, <1>7, <2>1
<1> QED
  BY <1>1, <1>2, <1>9, <1>10

\* The prefixes of the key of a directory are the keys of those above it, but that of
\* the root.
LEMMA KeyPrefix ==
  ASSUME NEW p \in Seq(Names), NEW r \in Seq(Names), IsStrictPrefix(Key(p), Key(r))
  PROVE  /\ Key(p) = p /\ Key(r) = r
         /\ IsStrictPrefix(p, r)
<1> DEFINE dot == <<".">>
<1>1. dot \in Seq({"."}) /\ Len(dot) = 1 /\ dot[1] = "."
  OBVIOUS
<1>2. /\ Len(Key(p)) <= Len(Key(r)) /\ Key(p) # Key(r)
      /\ SubSeq(Key(p), 1, Len(Key(p))) = SubSeq(Key(r), 1, Len(Key(p)))
  BY DEF IsStrictPrefix, IsPrefix
<1>3. p # Root
  <2> SUFFICES ASSUME p = Root
               PROVE  FALSE
    OBVIOUS
  <2>1. Key(p) = dot /\ r # Root /\ Key(r) = r
    BY <1>2 DEF Key
  <2>2. Len(r) \in Nat /\ 1 <= Len(r) /\ SubSeq(r, 1, 1) = SubSeq(dot, 1, 1)
    BY <1>1, <1>2, <2>1, LenProperties
  <2>3. SubSeq(dot, 1, 1) = dot
    BY <1>1, SubSeqFull
  <2>4. 1 \in 0..Len(r) /\ 1 \in 1..1
    BY <2>2
  <2>5. First(r, 1)[1] = r[1]
    BY <2>4, FirstFacts
  <2>6. r[1] = "."
    BY <1>1, <2>2, <2>3, <2>5 DEF First
  <2>7. r[1] \in Names
    BY <2>2, ElementOfSeq
  <2> QED
    BY <2>6, <2>7, NamesAssumption
<1>4. r # Root
  <2> SUFFICES ASSUME r = Root
               PROVE  FALSE
    OBVIOUS
  <2>1. Key(r) = dot /\ Key(p) = p
    BY <1>3 DEF Key
  <2>2. Len(p) \in Nat \ {0} /\ Len(p) <= 1
    BY <1>1, <1>2, <1>3, <2>1, FrontFacts
  <2>3. Len(p) = 1
    <3>1. \A n \in Nat \ {0} : n <= 1 => n = 1
      OBVIOUS
    <3> QED
      BY <2>2, <3>1
  <2>4. SubSeq(p, 1, Len(p)) = p /\ SubSeq(dot, 1, 1) = dot
    BY <1>1, SubSeqFull
  <2>5. p = dot
    BY <1>2, <2>1, <2>3, <2>4
  <2> QED
    BY <1>2, <2>1, <2>5
<1> QED
  BY <1>3, <1>4 DEF Key

\* A directory gets its mode after those below it, whatever the lengths of the names.
THEOREM ParentsLast == Spec => ChildrenFirst
<1>1. IInv /\ [Next]_vars =>
         [\A k \in DOMAIN dirsMeta \ DOMAIN dirsMeta' :
            outcome = "metadata" => \A j \in DOMAIN dirsMeta' : ~IsStrictPrefix(k, j)]_vars
  <2> SUFFICES ASSUME IInv, Next, outcome = "metadata",
                      NEW k \in DOMAIN dirsMeta \ DOMAIN dirsMeta',
                      NEW j \in DOMAIN dirsMeta', IsStrictPrefix(k, j)
               PROVE  FALSE
    OBVIOUS
  <2>1. ApplyMetadata
    <3>1. \A kind, p, to : ~Entry(kind, p, to)
      BY DEF Entry
    <3>2. ~NextLayer /\ ~LastLayer /\ ~RefusePath /\ ~Done
      BY DEF NextLayer, LastLayer, RefusePath, Done, Ends
    <3>3. ~Finish
      BY DEF Finish
    <3> QED
      BY <3>1, <3>2, <3>3 DEF Next, UnpackDir, UnpackRegular, UnpackSymlink, UnpackHardLink,
                              Whiteout, OpaqueWhiteout
  <2>2. PICK h \in NextKeys : dirsMeta' = Restrict(dirsMeta, DOMAIN dirsMeta \ {h})
    BY <2>1 DEF ApplyMetadata
  <2>3. h = k /\ j \in DOMAIN dirsMeta
    BY <2>2 DEF Restrict
  <2>4. TextLen(j) <= TextLen(k)
    BY <2>2, <2>3 DEF NextKeys
  <2>5. PICK p \in Paths : k = Key(p)
    BY DEF IInv, MetaType
  <2>6. PICK r \in Paths : j = Key(r)
    BY <2>3 DEF IInv, MetaType
  <2>7. p \in Seq(Names) /\ r \in Seq(Names)
    BY PathsFacts
  <2>8. k = p /\ j = r
    BY <2>5, <2>6, <2>7, KeyPrefix
  <2>9. TextLen(k) \in Nat /\ TextLen(j) \in Nat /\ TextLen(k) < TextLen(j)
    BY <2>7, <2>8, LongerText
  <2> QED
    BY <2>4, <2>9
<1> QED
  BY <1>1, Invariance, PTL DEF Spec, ChildrenFirst

=============================================================================
