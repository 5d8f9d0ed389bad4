---------------------------- MODULE ParserProofs ----------------------------
(***************************************************************************)
(* What the parsers do with every text, for any algorithms and any sizes   *)
(* of their hashes.  The loop of check_hash accepts exactly the bytes that *)
(* an accepted digest spells.  A reference keeps its meaning when its      *)
(* defaults are written down, and one that is put together as documented   *)
(* is taken apart again.  No parameter of a challenge is lost.             *)
(***************************************************************************)
EXTENDS MCParsers, SequenceTheorems, WellFoundedInduction, TLAPS

USE HashBytesAssumption
-----------------------------------------------------------------------------
(* Digests. *)

\* The digits are different: each has one value.
LEMMA DigitsDiffer ==
    ASSUME NEW m \in Nibble, NEW n \in Nibble, NEW c,
           c \in {Lower[m + 1], Upper[m + 1]}, c \in {Lower[n + 1], Upper[n + 1]}
    PROVE  m = n
<1>1. CASE m \in 0..3
  BY <1>1 DEF Nibble, Lower, Upper
<1>2. CASE m \in 4..7
  BY <1>2 DEF Nibble, Lower, Upper
<1>3. CASE m \in 8..11
  BY <1>3 DEF Nibble, Lower, Upper
<1>4. CASE m \in 12..15
  BY <1>4 DEF Nibble, Lower, Upper
<1>5. QED
  BY <1>1, <1>2, <1>3, <1>4 DEF Nibble

\* The value of a digit is a nibble.
LEMMA ValueType == \A c : IsHexDigit(c) => DigitValue(c) \in Nibble
  BY DEF IsHexDigit, DigitValue

\* HexString writes a nibble as a digit of that value.
LEMMA ValueOfLower ==
    ASSUME NEW n \in Nibble
    PROVE  IsHexDigit(Lower[n + 1]) /\ DigitValue(Lower[n + 1]) = n
<1> DEFINE c == Lower[n + 1]
<1>1. c \in {Lower[n + 1], Upper[n + 1]}
  OBVIOUS
<1>2. IsHexDigit(c)
  BY <1>1 DEF IsHexDigit
<1>3. DigitValue(c) \in Nibble /\ c \in {Lower[DigitValue(c) + 1], Upper[DigitValue(c) + 1]}
  BY <1>2 DEF IsHexDigit, DigitValue
<1>4. QED
  BY <1>1, <1>2, <1>3, DigitsDiffer

\* A pair of nibbles is one byte.
LEMMA PairOfNibbles ==
    ASSUME NEW a \in Nibble, NEW b \in Nibble, NEW o \in Byte
    PROVE  16 * a + b = o <=> a = o \div 16 /\ b = o % 16
  BY DEF Nibble, Byte

\* The digits of a hash as HexString writes them.
LEMMA HexDigits ==
    ASSUME NEW out \in Seq(Byte), NEW i \in 1..Len(out)
    PROVE  /\ 2 * i - 1 \in 1..2 * Len(out) /\ 2 * i \in 1..2 * Len(out)
           /\ IsHexDigit(HexString(out)[2 * i - 1]) /\ IsHexDigit(HexString(out)[2 * i])
           /\ DigitValue(HexString(out)[2 * i - 1]) = out[i] \div 16
           /\ DigitValue(HexString(out)[2 * i]) = out[i] % 16
<1>1. /\ 2 * i - 1 \in 1..2 * Len(out) /\ 2 * i \in 1..2 * Len(out)
      /\ (2 * i - 1) % 2 = 1 /\ (2 * i) % 2 = 0
      /\ ((2 * i - 1) + 1) \div 2 = i /\ (2 * i + 1) \div 2 = i
  OBVIOUS
<1>2. out[i] \div 16 \in Nibble /\ out[i] % 16 \in Nibble
  <2>1. out[i] \in Byte
    OBVIOUS
  <2>2. \A o \in Byte : o \div 16 \in Nibble /\ o % 16 \in Nibble
    BY DEF Byte, Nibble
  <2>3. QED
    BY <2>1, <2>2
<1>3. ASSUME NEW k \in 1..2 * Len(out), NEW n \in Nibble, (k + 1) \div 2 = i,
             n = IF k % 2 = 1 THEN out[i] \div 16 ELSE out[i] % 16
      PROVE  IsHexDigit(HexString(out)[k]) /\ DigitValue(HexString(out)[k]) = n
  <2>1. HexString(out)[k] = Lower[1 + n]
    BY <1>3 DEF HexString
  <2>2. 1 + n = n + 1
    BY DEF Nibble
  <2>3. QED
    BY <2>1, <2>2, ValueOfLower
<1>4. /\ IsHexDigit(HexString(out)[2 * i - 1])
      /\ DigitValue(HexString(out)[2 * i - 1]) = out[i] \div 16
  BY <1>1, <1>2, <1>3
<1>5. /\ IsHexDigit(HexString(out)[2 * i])
      /\ DigitValue(HexString(out)[2 * i]) = out[i] % 16
  BY <1>1, <1>2, <1>3
<1>6. QED
  BY <1>1, <1>4, <1>5

\* The value of a text and of a hash, two digits at a time.
Pairs(value, out) == \A i \in 1..Len(out) :
                        /\ DigitValue(value[2 * i - 1]) = out[i] \div 16
                        /\ DigitValue(value[2 * i]) = out[i] % 16

\* Without signs and with the right length, check_hash compares all the digits.
LEMMA CheckIsPairs ==
    ASSUME NEW value, NEW out \in Seq(Byte), Len(value) = 2 * Len(out),
           \A k \in 1..2 * Len(out) : IsHexDigit(value[k])
    PROVE  CheckHash(value, out) <=> Pairs(value, out)
<1>1. ASSUME NEW i \in 1..Len(out)
      PROVE  /\ 2 * i <= Len(value)
             /\ FromStrRadix(value[2 * i - 1], value[2 * i]) = out[i]
                <=> /\ DigitValue(value[2 * i - 1]) = out[i] \div 16
                    /\ DigitValue(value[2 * i]) = out[i] % 16
  <2> DEFINE a == value[2 * i - 1]
             b == value[2 * i]
  <2>1. 2 * i - 1 \in 1..2 * Len(out) /\ 2 * i \in 1..2 * Len(out) /\ out[i] \in Byte
    OBVIOUS
  <2>2. IsHexDigit(a) /\ IsHexDigit(b)
    BY <2>1
  <2>3. DigitValue(a) \in Nibble /\ DigitValue(b) \in Nibble
    BY <2>2, ValueType
  <2>4. FromStrRadix(a, b) = 16 * DigitValue(a) + DigitValue(b)
    BY <2>2 DEF FromStrRadix
  <2>5. QED
    BY <2>1, <2>3, <2>4, PairOfNibbles
<1>2. DOMAIN out = 1..Len(out)
  OBVIOUS
<1>3. QED
  BY <1>1, <1>2 DEF CheckHash, Pairs

\* HexString is compared digit by digit.
LEMMA SameIsPairs ==
    ASSUME NEW value \in Seq(Symbol), NEW out \in Seq(Byte), Len(value) = 2 * Len(out),
           \A k \in 1..2 * Len(out) : IsHexDigit(value[k])
    PROVE  SameDigits(value, HexString(out)) <=> Pairs(value, out)
<1>1. DOMAIN value = 1..2 * Len(out) /\ Len(HexString(out)) = 2 * Len(out)
  <2>1. 2 * Len(out) \in Nat
    OBVIOUS
  <2>2. DOMAIN HexString(out) = 1..2 * Len(out)
    BY DEF HexString
  <2>3. QED
    BY <2>1, <2>2
<1>2. SameDigits(value, HexString(out)) <=>
         \A k \in 1..2 * Len(out) : DigitValue(value[k]) = DigitValue(HexString(out)[k])
  BY <1>1 DEF SameDigits
<1>3. ASSUME NEW k \in 1..2 * Len(out)
      PROVE  \E i \in 1..Len(out) : k = 2 * i - 1 \/ k = 2 * i
  <2>1. (k + 1) \div 2 \in 1..Len(out)
    OBVIOUS
  <2>2. k = 2 * ((k + 1) \div 2) - 1 \/ k = 2 * ((k + 1) \div 2)
    OBVIOUS
  <2>3. QED
    BY <2>1, <2>2
<1>4. ASSUME NEW i \in 1..Len(out)
      PROVE  /\ 2 * i - 1 \in 1..2 * Len(out) /\ 2 * i \in 1..2 * Len(out)
             /\ DigitValue(HexString(out)[2 * i - 1]) = out[i] \div 16
             /\ DigitValue(HexString(out)[2 * i]) = out[i] % 16
  BY HexDigits
<1>5. ASSUME Pairs(value, out), NEW k \in 1..2 * Len(out)
      PROVE  DigitValue(value[k]) = DigitValue(HexString(out)[k])
  BY <1>3, <1>4, <1>5 DEF Pairs
<1>6. ASSUME \A k \in 1..2 * Len(out) : DigitValue(value[k]) = DigitValue(HexString(out)[k])
      PROVE  Pairs(value, out)
  BY <1>4, <1>6 DEF Pairs
<1>7. QED
  BY <1>2, <1>5, <1>6

\* Digest::try_from and check_hash: an accepted digest is matched by the bytes that
\* it spells, in either case of the letters, and by no others.
THEOREM DigestComparisonExact ==
    ASSUME NEW txt \in Seq(Symbol), NEW out \in Seq(Byte)
    PROVE  DigestIsExact(txt, out)
<1> SUFFICES ASSUME Accepted(txt), Len(out) = HashBytes[Algorithm(txt)]
             PROVE  CheckHash(HashValue(txt), out)
                       <=> SameDigits(HashValue(txt), HexString(out))
  BY DEF DigestIsExact
<1>1. HashValue(txt) \in Seq(Symbol) /\ Len(HashValue(txt)) = 2 * Len(out)
  BY DEF Accepted, HasAlgorithm, HashValue
<1>2. \A k \in 1..2 * Len(out) : IsHexDigit(HashValue(txt)[k])
  BY <1>1 DEF Accepted
<1>3. QED
  BY <1>1, <1>2, CheckIsPairs, SameIsPairs
-----------------------------------------------------------------------------
(* Texts. *)

\* The least of some numbers.
LEMMA LeastNumber ==
    ASSUME NEW S, S # {}, S \subseteq Nat
    PROVE  \E m \in S : \A k \in S : m <= k
<1> DEFINE R == OpToRel(<, Nat)
<1>1. \E m \in S : \A k \in S : <<k, m>> \notin R
  <2>1. IsWellFoundedOn(R, Nat)
    BY NatLessThanWellFounded
  <2> HIDE DEF R
  <2>2. QED
    BY <2>1, WFMin
<1>2. PICK m \in S : \A k \in S : <<k, m>> \notin R
  BY <1>1
<1>3. ASSUME NEW k \in S
      PROVE  ~(k < m)
  <2>1. <<k, m>> \notin R
    BY <1>2
  <2>2. k \in Nat /\ m \in Nat
    OBVIOUS
  <2>3. QED
    BY <2>1, <2>2 DEF OpToRel
<1>4. QED
  BY <1>3

\* The places of a symbol, the first and the last of them.
LEMMA FirstIs ==
    ASSUME NEW s, Len(s) \in Nat, DOMAIN s = 1..Len(s), NEW S, NEW m \in 1..Len(s), s[m] \in S,
           \A i \in 1..Len(s) : s[i] \in S => m <= i
    PROVE  FirstAt(s, S) = m
<1>1. m \in Places(s, S) /\ \A y \in Places(s, S) : m <= y /\ y \in Nat
  BY DEF Places
<1>2. \A x \in Places(s, S) : (\A y \in Places(s, S) : x <= y) => x = m
  BY <1>1
<1>3. Min(Places(s, S)) = m
  BY <1>1, <1>2 DEF Min
<1>4. QED
  BY <1>1, <1>3 DEF FirstAt

LEMMA LastIs ==
    ASSUME NEW s, Len(s) \in Nat, DOMAIN s = 1..Len(s), NEW S, NEW m \in 1..Len(s), s[m] \in S,
           \A i \in 1..Len(s) : s[i] \in S => i <= m
    PROVE  LastAt(s, S) = m
<1>1. m \in Places(s, S) /\ \A y \in Places(s, S) : y <= m /\ y \in Nat
  BY DEF Places
<1>2. \A x \in Places(s, S) : (\A y \in Places(s, S) : x >= y) => x = m
  BY <1>1
<1>3. Max(Places(s, S)) = m
  BY <1>1, <1>2 DEF Max
<1>4. QED
  BY <1>1, <1>3 DEF LastAt

LEMMA NoPlace ==
    ASSUME NEW s, Len(s) \in Nat, DOMAIN s = 1..Len(s), NEW S, \A i \in 1..Len(s) : s[i] \notin S
    PROVE  FirstAt(s, S) = 0 /\ LastAt(s, S) = 0
  BY DEF Places, FirstAt, LastAt

LEMMA FirstExists ==
    ASSUME NEW s, Len(s) \in Nat, DOMAIN s = 1..Len(s), NEW S, \E i \in 1..Len(s) : s[i] \in S
    PROVE  \E m \in 1..Len(s) : s[m] \in S /\ \A i \in 1..Len(s) : s[i] \in S => m <= i
<1> DEFINE P == {i \in 1..Len(s) : s[i] \in S}
<1>1. \E m \in P : \A k \in P : m <= k
  <2>1. P # {} /\ P \subseteq Nat
    OBVIOUS
  <2> HIDE DEF P
  <2>2. QED
    BY <2>1, LeastNumber
<1>2. QED
  BY <1>1

LEMMA LastExists ==
    ASSUME NEW s, Len(s) \in Nat, DOMAIN s = 1..Len(s), NEW S, \E i \in 1..Len(s) : s[i] \in S
    PROVE  \E m \in 1..Len(s) : s[m] \in S /\ \A i \in 1..Len(s) : s[i] \in S => i <= m
<1> DEFINE P == {k \in Nat : \A i \in 1..Len(s) : s[i] \in S => i <= k}
<1>1. \E m \in P : \A k \in P : m <= k
  <2>1. Len(s) \in P /\ P \subseteq Nat
    OBVIOUS
  <2> HIDE DEF P
  <2>2. QED
    BY <2>1, LeastNumber
<1>2. PICK m \in P : \A k \in P : m <= k
  BY <1>1
<1>3. PICK i \in 1..Len(s) : s[i] \in S
  OBVIOUS
<1>4. m \in Nat /\ i <= m /\ m >= 1 /\ m - 1 \in Nat /\ ~(m <= m - 1)
  BY <1>2, <1>3
<1>5. m - 1 \notin P
  BY <1>2, <1>4
<1>6. PICK j \in 1..Len(s) : s[j] \in S /\ ~(j <= m - 1)
  BY <1>4, <1>5
<1>7. j <= m
  BY <1>2, <1>6
<1>8. j = m
  BY <1>4, <1>6, <1>7
<1>9. QED
  BY <1>2, <1>6, <1>8

\* Contains of a text that is put together.
LEMMA ContainsParts ==
    ASSUME NEW s \in Seq(Symbol), NEW t \in Seq(Symbol), NEW c
    PROVE  Contains(s \o t, c) <=> Contains(s, c) \/ Contains(t, c)
<1>1. ASSUME NEW i \in 1..Len(s \o t), (s \o t)[i] = c
      PROVE  Contains(s, c) \/ Contains(t, c)
  <2>1. CASE i <= Len(s)
    BY <1>1, <2>1 DEF Contains
  <2>2. CASE i > Len(s)
    <3>1. i - Len(s) \in 1..Len(t) /\ t[i - Len(s)] = c
      BY <1>1, <2>2
    <3>2. QED
      BY <3>1 DEF Contains
  <2>3. QED
    BY <2>1, <2>2
<1>2. ASSUME NEW i \in 1..Len(s), s[i] = c
      PROVE  i \in 1..Len(s \o t) /\ (s \o t)[i] = c
  BY <1>2
<1>3. ASSUME NEW i \in 1..Len(t), t[i] = c
      PROVE  i + Len(s) \in 1..Len(s \o t) /\ (s \o t)[i + Len(s)] = c
  BY <1>3
<1>4. QED
  BY <1>1, <1>2, <1>3 DEF Contains

LEMMA ContainsOne == ASSUME NEW a, NEW c PROVE Contains(<<a>>, c) <=> a = c
<1>1. Len(<<a>>) = 1 /\ <<a>>[1] = a /\ 1..1 = {1}
  OBVIOUS
<1>2. Contains(<<a>>, c) <=> \E i \in {1} : <<a>>[i] = c
  BY <1>1 DEF Contains
<1>3. QED
  BY <1>1, <1>2

LEMMA Regroup ==
    ASSUME NEW s \in Seq(Symbol), NEW t \in Seq(Symbol), NEW u \in Seq(Symbol)
    PROVE  (s \o t) \o u = s \o (t \o u)
BY ConcatAssociative

\* A text that is cut at a place, in s, c and t.
Cut(u, s, c, t) == /\ u \in Seq(Symbol) /\ Len(u) = Len(s) + 1 + Len(t)
                   /\ Len(s) + 1 \in 1..Len(u) /\ u[Len(s) + 1] = c
                   /\ \A i \in 1..Len(s) : u[i] = s[i]
                   /\ \A i \in 1..Len(t) : u[Len(s) + 1 + i] = t[i]
                   /\ Split(u, Len(s) + 1) = Some(<<s, t>>)

LEMMA CutAt ==
    ASSUME NEW s \in Seq(Symbol), NEW t \in Seq(Symbol), NEW c \in Symbol
    PROVE  Cut(s \o <<c>> \o t, s, c, t)
<1> DEFINE v == s \o <<c>>
           u == v \o t
<1>a. /\ v \in Seq(Symbol) /\ Len(v) = Len(s) + 1 /\ v[Len(s) + 1] = c
      /\ \A i \in 1..Len(s) : v[i] = s[i]
  <2>1. <<c>> \in Seq(Symbol) /\ Len(<<c>>) = 1 /\ <<c>>[1] = c
    OBVIOUS
  <2> DEFINE w == <<c>>
  <2> HIDE DEF w
  <2>2. w \in Seq(Symbol) /\ Len(w) = 1 /\ w[1] = c
    BY <2>1 DEF w
  <2>3. /\ s \o w \in Seq(Symbol) /\ Len(s \o w) = Len(s) + 1 /\ (s \o w)[Len(s) + 1] = c
        /\ \A i \in 1..Len(s) : (s \o w)[i] = s[i]
    <3> DEFINE x == s \o w
    <3>1. /\ x \in Seq(Symbol) /\ Len(x) = Len(s) + Len(w)
          /\ \A i \in 1..Len(s) + Len(w) : x[i] = IF i <= Len(s) THEN s[i] ELSE w[i - Len(s)]
      BY <2>2, ConcatProperties
    <3>2. Len(s) \in Nat /\ (Len(s) + 1) - Len(s) = 1 /\ ~(Len(s) + 1 <= Len(s))
      OBVIOUS
    <3> HIDE DEF x
    <3>3. /\ x \in Seq(Symbol) /\ Len(x) = Len(s) + 1 /\ x[Len(s) + 1] = c
          /\ \A i \in 1..Len(s) : x[i] = s[i]
      BY <2>2, <3>1, <3>2
    <3>4. QED
      BY <3>3 DEF x
  <2>4. QED
    BY <2>3 DEF w
<1> HIDE DEF v
<1>1. /\ u \in Seq(Symbol) /\ Len(u) = Len(s) + 1 + Len(t)
      /\ Len(s) + 1 \in 1..Len(u) /\ u[Len(s) + 1] = c
      /\ \A i \in 1..Len(s) : u[i] = s[i]
      /\ \A i \in 1..Len(t) : u[Len(s) + 1 + i] = t[i]
  <2>1. /\ u \in Seq(Symbol) /\ Len(u) = Len(v) + Len(t)
        /\ \A i \in 1..Len(v) + Len(t) : u[i] = IF i <= Len(v) THEN v[i] ELSE t[i - Len(v)]
    BY <1>a, ConcatProperties
  <2>2. Len(s) \in Nat /\ Len(t) \in Nat
    OBVIOUS
  <2> HIDE DEF u
  <2>3. Len(u) = Len(s) + 1 + Len(t) /\ Len(s) + 1 \in 1..Len(u)
    BY <1>a, <2>1, <2>2
  <2>4. \A i \in 1..Len(s) + 1 : u[i] = v[i]
    BY <1>a, <2>1, <2>2
  <2>5. ASSUME NEW i \in 1..Len(t)
        PROVE  u[Len(s) + 1 + i] = t[i]
    <3>1. PICK j \in 1..Len(v) + Len(t) : j = Len(s) + 1 + i
      BY <1>a, <2>2
    <3>2. ~(j <= Len(v)) /\ j - Len(v) = i
      BY <1>a, <2>2, <3>1
    <3>3. u[j] = t[j - Len(v)]
      BY <2>1, <3>2
    <3>4. QED
      BY <3>1, <3>2, <3>3
  <2>6. QED
    BY <1>a, <2>1, <2>2, <2>3, <2>4, <2>5
<1> HIDE DEF u
<1>2. Before(u, Len(s) + 1) = s
  <2> DEFINE b == SubSeq(u, 1, Len(s))
  <2>1. b \in Seq(Symbol) /\ Len(b) = Len(s) /\ \A i \in 1..Len(s) : b[i] = u[i]
    BY <1>1
  <2> HIDE DEF b
  <2>2. b = s
    BY <1>1, <2>1, SeqEqual
  <2>3. QED
    BY <2>2 DEF Before, b
<1>3. After(u, Len(s) + 1) = t
  <2> DEFINE b == SubSeq(u, Len(s) + 2, Len(u))
  <2>1. b \in Seq(Symbol) /\ Len(b) = Len(t) /\ \A i \in 1..Len(t) : b[i] = u[Len(s) + 1 + i]
    BY <1>1
  <2> HIDE DEF b
  <2>2. b = t
    BY <1>1, <2>1, SeqEqual
  <2>3. After(u, Len(s) + 1) = b
    BY DEF After, b
  <2>4. QED
    BY <2>2, <2>3
<1>4. Split(u, Len(s) + 1) = Some(<<s, t>>)
  <2>1. Len(s) + 1 # 0
    OBVIOUS
  <2>2. QED
    BY <1>2, <1>3, <2>1 DEF Split
<1>5. u = s \o <<c>> \o t
  BY DEF u, v
<1>6. QED
  BY <1>1, <1>4, <1>5 DEF Cut

\* split_once and rsplit_once find the symbol that parts are joined with.
LEMMA SplitJoined ==
    ASSUME NEW s \in Seq(Symbol), NEW t \in Seq(Symbol), NEW c \in Symbol, ~Contains(s, c)
    PROVE  SplitOnce(s \o <<c>> \o t, c) = Some(<<s, t>>)
<1> DEFINE u == s \o <<c>> \o t
<1>a. Cut(u, s, c, t)
  BY CutAt
<1> HIDE DEF u
<1>1. /\ u \in Seq(Symbol) /\ Len(s) + 1 \in 1..Len(u) /\ u[Len(s) + 1] = c
      /\ \A i \in 1..Len(s) : u[i] # c
      /\ Split(u, Len(s) + 1) = Some(<<s, t>>)
  BY <1>a DEF Cut, Contains
<1>2. \A i \in 1..Len(u) : u[i] \in {c} => Len(s) + 1 <= i
  BY <1>1
<1>3. FirstAt(u, {c}) = Len(s) + 1
  <2>1. u[Len(s) + 1] \in {c}
    BY <1>1
  <2>2. QED
    BY <1>1, <1>2, <2>1, LenProperties, FirstIs
<1>4. QED
  BY <1>1, <1>3 DEF SplitOnce, u

LEMMA RSplitJoined ==
    ASSUME NEW s \in Seq(Symbol), NEW t \in Seq(Symbol), NEW c \in Symbol, ~Contains(t, c)
    PROVE  RSplitOnce(s \o <<c>> \o t, c) = Some(<<s, t>>)
<1> DEFINE u == s \o <<c>> \o t
<1>a. Cut(u, s, c, t)
  BY CutAt
<1> HIDE DEF u
<1>1. /\ u \in Seq(Symbol) /\ Len(s) + 1 \in 1..Len(u) /\ u[Len(s) + 1] = c
      /\ Len(u) = Len(s) + 1 + Len(t) /\ \A i \in 1..Len(t) : u[Len(s) + 1 + i] # c
      /\ Split(u, Len(s) + 1) = Some(<<s, t>>)
  BY <1>a DEF Cut, Contains
<1>2. ASSUME NEW i \in 1..Len(u), u[i] \in {c}, i > Len(s) + 1
      PROVE  FALSE
  <2>1. i - (Len(s) + 1) \in 1..Len(t) /\ Len(s) + 1 + (i - (Len(s) + 1)) = i
    BY <1>1, <1>2
  <2>2. QED
    BY <1>1, <1>2, <2>1
<1>3. \A i \in 1..Len(u) : u[i] \in {c} => i <= Len(s) + 1
  BY <1>1, <1>2
<1>4. LastAt(u, {c}) = Len(s) + 1
  <2>1. u[Len(s) + 1] \in {c}
    BY <1>1
  <2>2. QED
    BY <1>1, <1>3, <2>1, LenProperties, LastIs
<1>5. QED
  BY <1>1, <1>4 DEF RSplitOnce, u

\* A text is what it is split into.
LEMMA JoinSplit ==
    ASSUME NEW s \in Seq(Symbol), NEW m \in 1..Len(s)
    PROVE  /\ Before(s, m) \in Seq(Symbol) /\ After(s, m) \in Seq(Symbol)
           /\ s[m] \in Symbol /\ s = Before(s, m) \o <<s[m]>> \o After(s, m)
           /\ Len(Before(s, m)) = m - 1 /\ Len(After(s, m)) = Len(s) - m
           /\ \A i \in 1..Len(Before(s, m)) : Before(s, m)[i] = s[i]
           /\ \A i \in 1..Len(After(s, m)) : After(s, m)[i] = s[m + i]
<1> DEFINE a == Before(s, m)
           b == After(s, m)
<1>1. /\ a \in Seq(Symbol) /\ Len(a) = m - 1 /\ \A i \in 1..Len(a) : a[i] = s[i]
  BY DEF Before
<1>2. /\ b \in Seq(Symbol) /\ Len(b) = Len(s) - m /\ \A i \in 1..Len(b) : b[i] = s[m + i]
  BY DEF After
<1>3. s[m] \in Symbol
  OBVIOUS
<1> HIDE DEF a, b
<1>4. s = a \o <<s[m]>> \o b
  <2> DEFINE c == s[m]
             u == a \o <<c>> \o b
  <2> HIDE DEF c
  <2>a. c \in Symbol /\ c = s[m]
    BY <1>3 DEF c
  <2>b. Cut(u, a, c, b)
    BY <1>1, <1>2, <2>a, CutAt
  <2> HIDE DEF u
  <2>1. /\ u \in Seq(Symbol) /\ Len(u) = Len(a) + 1 + Len(b) /\ u[Len(a) + 1] = c
        /\ \A i \in 1..Len(a) : u[i] = a[i]
        /\ \A i \in 1..Len(b) : u[Len(a) + 1 + i] = b[i]
    BY <2>b DEF Cut
  <2>2. ASSUME NEW i \in 1..Len(s)
        PROVE  u[i] = s[i]
    <3>1. CASE i < m
      BY <1>1, <2>1, <3>1
    <3>2. CASE i = m
      BY <1>1, <2>1, <2>a, <3>2
    <3>3. CASE i > m
      <4>1. i - m \in 1..Len(b) /\ m + (i - m) = i /\ Len(a) + 1 + (i - m) = i
        BY <1>1, <1>2, <3>3
      <4>2. u[i] = b[i - m]
        BY <2>1, <4>1
      <4>3. QED
        BY <1>2, <4>1, <4>2
    <3>4. QED
      BY <3>1, <3>2, <3>3
  <2>3. u = s
    <3>1. Len(u) = Len(s)
      BY <1>1, <1>2, <2>1
    <3>2. QED
      BY <2>1, <2>2, <3>1, SeqEqual
  <2>4. QED
    BY <2>3, <2>a DEF u
<1>5. QED
  BY <1>1, <1>2, <1>3, <1>4 DEF a, b

LEMMA SplitFound ==
    ASSUME NEW s \in Seq(Symbol), NEW c \in Symbol, Contains(s, c)
    PROVE  \E a, b \in Seq(Symbol) : /\ s = a \o <<c>> \o b /\ ~Contains(a, c)
                                     /\ SplitOnce(s, c) = Some(<<a, b>>)
<1>1. PICK m \in 1..Len(s) : s[m] \in {c} /\ \A i \in 1..Len(s) : s[i] \in {c} => m <= i
  <2>1. \E i \in 1..Len(s) : s[i] \in {c}
    BY DEF Contains
  <2>2. QED
    BY <2>1, LenProperties, FirstExists
<1>2. FirstAt(s, {c}) = m
  BY <1>1, LenProperties, FirstIs
<1>3. SplitOnce(s, c) = Some(<<Before(s, m), After(s, m)>>)
  BY <1>2 DEF SplitOnce, Split
<1>4. ~Contains(Before(s, m), c)
  <2> DEFINE a == Before(s, m)
  <2>1. Len(a) = m - 1 /\ \A i \in 1..Len(a) : a[i] = s[i]
    BY JoinSplit
  <2> HIDE DEF a
  <2>2. \A i \in 1..Len(a) : i \in 1..Len(s) /\ ~(m <= i) /\ a[i] = s[i]
    BY <2>1
  <2>3. ~Contains(a, c)
    BY <1>1, <2>2 DEF Contains
  <2>4. QED
    BY <2>3 DEF a
<1>5. QED
  BY <1>1, <1>3, <1>4, JoinSplit

LEMMA RSplitFound ==
    ASSUME NEW s \in Seq(Symbol), NEW c \in Symbol, Contains(s, c)
    PROVE  \E a, b \in Seq(Symbol) : /\ s = a \o <<c>> \o b /\ ~Contains(b, c)
                                     /\ RSplitOnce(s, c) = Some(<<a, b>>)
<1>1. PICK m \in 1..Len(s) : s[m] \in {c} /\ \A i \in 1..Len(s) : s[i] \in {c} => i <= m
  <2>1. \E i \in 1..Len(s) : s[i] \in {c}
    BY DEF Contains
  <2>2. QED
    BY <2>1, LenProperties, LastExists
<1>2. LastAt(s, {c}) = m
  BY <1>1, LenProperties, LastIs
<1>3. RSplitOnce(s, c) = Some(<<Before(s, m), After(s, m)>>)
  BY <1>2 DEF RSplitOnce, Split
<1>4. ~Contains(After(s, m), c)
  <2> DEFINE b == After(s, m)
  <2>1. Len(b) = Len(s) - m /\ \A i \in 1..Len(b) : b[i] = s[m + i]
    BY JoinSplit
  <2> HIDE DEF b
  <2>2. \A i \in 1..Len(b) : m + i \in 1..Len(s) /\ ~(m + i <= m) /\ b[i] = s[m + i]
    BY <2>1
  <2>3. ~Contains(b, c)
    BY <1>1, <2>2 DEF Contains
  <2>4. QED
    BY <2>3 DEF b
<1>5. QED
  BY <1>1, <1>3, <1>4, JoinSplit

LEMMA NotSplit ==
    ASSUME NEW s \in Seq(Symbol), NEW c \in Symbol, ~Contains(s, c)
    PROVE  SplitOnce(s, c) = None /\ RSplitOnce(s, c) = None
<1>1. FirstAt(s, {c}) = 0 /\ LastAt(s, {c}) = 0
  BY NoPlace DEF Contains
<1>2. QED
  BY <1>1 DEF SplitOnce, RSplitOnce, Split
-----------------------------------------------------------------------------
(* References: what each step of parse takes from a text that is put       *)
(* together, and from any text.                                            *)

LEMMA Literals == /\ {".", ":", "/", "@", "=", ",", Blank, Quote, "Bearer"} \subseteq Symbol
                  /\ {DefaultRegistry, DefaultNamespace, DefaultTag} \subseteq Seq(Symbol)
<1>1. \A a, b, c, d, e \in Symbol : <<a, b, c, d, e>> \in Seq(Symbol) /\ <<a>> \in Seq(Symbol)
  OBVIOUS
<1>2. DefaultRegistry \in Seq(Symbol)
  BY <1>1, ReferenceSymbols DEF DefaultRegistry
<1>3. DefaultNamespace \in Seq(Symbol) /\ DefaultTag \in Seq(Symbol)
  BY <1>1, ReferenceSymbols DEF DefaultNamespace, DefaultTag
<1>4. QED
  BY <1>2, <1>3, ReferenceSymbols, ChallengeSymbols

\* A text of one symbol.
LEMMA OneSymbol == \A c \in Symbol : <<c>> \in Seq(Symbol)
  OBVIOUS

\* Concatenation, with no more of it to be seen than that it is associative.
Cat(s, t) == s \o t

LEMMA CatType == \A s, t \in Seq(Symbol) : Cat(s, t) \in Seq(Symbol)
<1> TAKE s, t \in Seq(Symbol)
<1>1. QED
  BY ConcatProperties DEF Cat

LEMMA CatFacts ==
    ASSUME NEW s \in Seq(Symbol), NEW t \in Seq(Symbol)
    PROVE  /\ Len(Cat(s, t)) = Len(s) + Len(t)
           /\ \A i \in 1..Len(s) + Len(t) : Cat(s, t)[i] = IF i <= Len(s) THEN s[i] ELSE t[i - Len(s)]
  BY ConcatProperties DEF Cat

LEMMA CatAssoc == \A s, t, u \in Seq(Symbol) : Cat(Cat(s, t), u) = Cat(s, Cat(t, u))
<1> TAKE s, t, u \in Seq(Symbol)
<1>1. (s \o t) \o u = s \o (t \o u)
  BY ConcatAssociative, SMT
<1>2. QED
  BY <1>1 DEF Cat

LEMMA CatFour ==
    ASSUME NEW s \in Seq(Symbol), NEW t \in Seq(Symbol), NEW u \in Seq(Symbol),
           NEW v \in Seq(Symbol)
    PROVE  Cat(Cat(Cat(s, t), u), v) = Cat(s, Cat(Cat(t, u), v))
<1>1. Cat(Cat(s, t), u) = Cat(s, Cat(t, u))
  BY CatAssoc
<1>2. PICK w \in Seq(Symbol) : w = Cat(t, u)
  BY CatType
<1>3. Cat(Cat(s, w), v) = Cat(s, Cat(w, v))
  BY CatAssoc
<1>4. QED
  BY <1>1, <1>2, <1>3

LEMMA DefaultParts ==
    /\ Contains(DefaultRegistry, ".")
    /\ ~Contains(DefaultRegistry, "/") /\ ~Contains(DefaultRegistry, "@")
    /\ \A c \in {":", "/", "@"} : ~Contains(DefaultTag, c)
    /\ ~Contains(DefaultNamespace, "/") /\ ~Contains(DefaultNamespace, "@")
<1>1. Len(DefaultRegistry) = 5 /\ 1..5 = {1, 2, 3, 4, 5}
  BY DEF DefaultRegistry
<1>2. /\ DefaultRegistry[1] = "registry-1" /\ DefaultRegistry[2] = "."
      /\ DefaultRegistry[3] = "docker" /\ DefaultRegistry[4] = "." /\ DefaultRegistry[5] = "io"
  BY DEF DefaultRegistry
<1>3. \A c : Contains(DefaultRegistry, c) <=> \E i \in {1, 2, 3, 4, 5} : DefaultRegistry[i] = c
  BY <1>1 DEF Contains
<1>4. \A c : Contains(DefaultRegistry, c) <=> c \in {"registry-1", ".", "docker", "io"}
  BY <1>2, <1>3
<1>5. \A c \in {":", "/", "@"} : ~Contains(DefaultTag, c)
  BY ContainsOne DEF DefaultTag
<1>6. ~Contains(DefaultNamespace, "/") /\ ~Contains(DefaultNamespace, "@")
  BY ContainsOne DEF DefaultNamespace
<1>7. QED
  BY <1>4, <1>5, <1>6

\* An option.
LEMMA OptionFacts == \A v : Some(v) # None /\ Some(v)[1] = v
  BY DEF Some, None

\* s <<c>> t has the symbols of s and t, and c.
LEMMA ContainsJoined ==
    ASSUME NEW s \in Seq(Symbol), NEW t \in Seq(Symbol), NEW c \in Symbol, NEW d
    PROVE  /\ s \o <<c>> \in Seq(Symbol) /\ s \o <<c>> \o t \in Seq(Symbol)
           /\ Contains(s \o <<c>> \o t, d) <=> Contains(s, d) \/ c = d \/ Contains(t, d)
<1> DEFINE o == <<c>>
<1>1. o \in Seq(Symbol) /\ (Contains(o, d) <=> c = d)
  BY ContainsOne
<1> HIDE DEF o
<1>2. s \o o \in Seq(Symbol) /\ (s \o o) \o t \in Seq(Symbol)
  BY <1>1, ConcatProperties
<1>3. /\ Contains(s \o o, d) <=> Contains(s, d) \/ Contains(o, d)
      /\ Contains((s \o o) \o t, d) <=> Contains(s \o o, d) \/ Contains(t, d)
  BY <1>1, <1>2, ContainsParts
<1>4. QED
  BY <1>1, <1>2, <1>3 DEF o

\* The digest of an option: it is accepted, and @ is not in it.
IsDigest(d) == d = None \/ \E v \in Seq(Symbol) : d = Some(v) /\ ~Contains(v, "@")

LEMMA DigestRead ==
    ASSUME NEW base \in Seq(Symbol), NEW d, IsDigest(d), d = None => ~Contains(base, "@")
    PROVE  DigestOf(base \o (IF d = None THEN <<>> ELSE <<"@">> \o d[1])) = <<base, d>>
<1>1. CASE d = None
  <2>1. base \o <<>> = base
    BY ConcatEmptySeq
  <2>2. RSplitOnce(base, "@") = None
    BY <1>1, NotSplit, Literals
  <2>3. QED
    BY <1>1, <2>1, <2>2 DEF DigestOf
<1>2. CASE d # None
  <2>1. PICK v \in Seq(Symbol) : d = Some(v) /\ ~Contains(v, "@")
    BY <1>2 DEF IsDigest
  <2>2. d[1] = v
    BY <2>1, OptionFacts
  <2>3. base \o (<<"@">> \o v) = base \o <<"@">> \o v
    <3> DEFINE o == <<"@">>
    <3>1. o \in Seq(Symbol)
      BY Literals, OneSymbol
    <3> HIDE DEF o
    <3>2. (base \o o) \o v = base \o (o \o v)
      BY <2>1, <3>1, Regroup
    <3>3. QED
      BY <3>2 DEF o
  <2>4. RSplitOnce(base \o <<"@">> \o v, "@") = Some(<<base, v>>)
    BY <2>1, RSplitJoined, Literals
  <2>5. DigestOf(base \o <<"@">> \o v) = <<base, Some(v)>>
    BY <2>4, OptionFacts DEF DigestOf
  <2>6. QED
    BY <1>2, <2>1, <2>2, <2>3, <2>5
<1>3. QED
  BY <1>1, <1>2

LEMMA DigestCut ==
    ASSUME NEW txt \in Seq(Symbol)
    PROVE  \E base \in Seq(Symbol) : \E d :
              /\ DigestOf(txt) = <<base, d>> /\ IsDigest(d)
              /\ d = None => ~Contains(base, "@")
<1>1. CASE Contains(txt, "@")
  <2>1. PICK a, b \in Seq(Symbol) : ~Contains(b, "@") /\ RSplitOnce(txt, "@") = Some(<<a, b>>)
    BY <1>1, RSplitFound, Literals
  <2>2. DigestOf(txt) = <<a, Some(b)>>
    BY <2>1, OptionFacts DEF DigestOf
  <2>3. IsDigest(Some(b)) /\ Some(b) # None
    BY <2>1, OptionFacts DEF IsDigest
  <2>4. QED
    BY <2>2, <2>3
<1>2. CASE ~Contains(txt, "@")
  <2>1. RSplitOnce(txt, "@") = None
    BY <1>2, NotSplit, Literals
  <2>2. DigestOf(txt) = <<txt, None>>
    BY <2>1 DEF DigestOf
  <2>3. QED
    BY <1>2, <2>2 DEF IsDigest
<1>3. QED
  BY <1>1, <1>2

LEMMA TagRead ==
    ASSUME NEW base \in Seq(Symbol), NEW tag \in Seq(Symbol),
           ~Contains(tag, ":"), ~Contains(tag, "/")
    PROVE  TagOf(base \o <<":">> \o tag) = <<base, tag>>
<1>1. RSplitOnce(base \o <<":">> \o tag, ":") = Some(<<base, tag>>)
  BY RSplitJoined, Literals
<1>2. QED
  BY <1>1, OptionFacts DEF TagOf

LEMMA NoTagRead ==
    ASSUME NEW base \in Seq(Symbol), ~Contains(base, ":")
    PROVE  TagOf(base) = <<base, DefaultTag>>
<1>1. RSplitOnce(base, ":") = None
  BY NotSplit, Literals
<1>2. QED
  BY <1>1 DEF TagOf

\* A : before the last / is about a port.
LEMMA PortRead ==
    ASSUME NEW s \in Seq(Symbol), NEW t \in Seq(Symbol), ~Contains(t, ":")
    PROVE  TagOf(s \o <<"/">> \o t) = <<s \o <<"/">> \o t, DefaultTag>>
<1> DEFINE u == s \o <<"/">> \o t
<1>1. u \in Seq(Symbol) /\ (Contains(u, ":") <=> Contains(s, ":"))
  <2>1. "/" # ":"
    OBVIOUS
  <2>2. QED
    BY <2>1, ContainsJoined, Literals
<1>2. CASE Contains(s, ":")
  <2>1. PICK a, b \in Seq(Symbol) : s = a \o <<":">> \o b /\ ~Contains(b, ":")
    BY <1>2, RSplitFound, Literals
  <2> DEFINE w == b \o <<"/">> \o t
  <2>2. w \in Seq(Symbol) /\ ~Contains(w, ":") /\ Contains(w, "/")
    <3>1. "/" # ":" /\ "/" \in Symbol
      BY Literals
    <3>2. /\ w \in Seq(Symbol) /\ (Contains(w, ":") <=> Contains(b, ":") \/ "/" = ":" \/ Contains(t, ":"))
          /\ Contains(w, "/") <=> Contains(b, "/") \/ "/" = "/" \/ Contains(t, "/")
      BY <3>1, ContainsJoined
    <3> HIDE DEF w
    <3>3. QED
      BY <2>1, <3>1, <3>2
  <2>3. u = a \o <<":">> \o w
    <3>1. PICK p \in Seq(Symbol) : p = <<":">>
      BY Literals, OneSymbol
    <3>2. PICK q \in Seq(Symbol) : q = <<"/">>
      BY Literals, OneSymbol
    <3>3. Cat(Cat(Cat(Cat(a, p), b), q), t) = Cat(Cat(a, p), Cat(Cat(b, q), t))
      <4>1. PICK o \in Seq(Symbol) : o = Cat(a, p)
        BY <3>1, CatType
      <4>2. Cat(Cat(Cat(o, b), q), t) = Cat(o, Cat(Cat(b, q), t))
        BY CatFour
      <4>3. QED
        BY <4>1, <4>2
    <3>4. QED
      BY <2>1, <3>1, <3>2, <3>3 DEF Cat
  <2> HIDE DEF u, w
  <2>4. RSplitOnce(u, ":") = Some(<<a, w>>)
    BY <2>2, <2>3, RSplitJoined, Literals
  <2>5. TagOf(u) = <<u, DefaultTag>>
    BY <2>2, <2>4, OptionFacts DEF TagOf
  <2>6. QED
    BY <2>5 DEF u
<1>3. CASE ~Contains(s, ":")
  BY <1>1, <1>3, NoTagRead
<1>4. QED
  BY <1>2, <1>3

LEMMA TagCut ==
    ASSUME NEW base \in Seq(Symbol)
    PROVE  \E loc, tag \in Seq(Symbol) :
              /\ TagOf(base) = <<loc, tag>> /\ ~Contains(tag, ":") /\ ~Contains(tag, "/")
              /\ ~Contains(base, "@") => ~Contains(loc, "@") /\ ~Contains(tag, "@")
<1>1. CASE Contains(base, ":")
  <2>1. PICK a, b \in Seq(Symbol) : /\ base = a \o <<":">> \o b /\ ~Contains(b, ":")
                                    /\ RSplitOnce(base, ":") = Some(<<a, b>>)
    BY <1>1, RSplitFound, Literals
  <2>2. ~Contains(base, "@") => ~Contains(a, "@") /\ ~Contains(b, "@")
    BY <2>1, ContainsJoined, Literals
  <2>3. TagOf(base) = IF ~Contains(b, "/") THEN <<a, b>> ELSE <<base, DefaultTag>>
    BY <2>1, OptionFacts DEF TagOf
  <2>4. CASE ~Contains(b, "/")
    BY <2>1, <2>2, <2>3, <2>4
  <2>5. CASE Contains(b, "/")
    BY <2>3, <2>5, DefaultParts, Literals
  <2>6. QED
    BY <2>4, <2>5
<1>2. CASE ~Contains(base, ":")
  BY <1>2, NoTagRead, DefaultParts, Literals
<1>3. QED
  BY <1>1, <1>2

\* Two repositories that are the same to whoever asks.
SameRepository(r, s) == /\ Display(r) = Display(s) /\ Name(r) = Name(s)
                        /\ Namespace(r) = Namespace(s)

LEMMA FullFacts == \A n : /\ Full(n).kind = "full" /\ Full(n).name = n /\ Display(Full(n)) = n
  BY DEF Full, Display

LEMMA ComponentsFacts ==
    \A ns, n : /\ Components(ns, n).kind # "full" /\ Display(Components(ns, n)) = ns \o <<"/">> \o n
               /\ Name(Components(ns, n)) = n /\ Namespace(Components(ns, n)) = Some(ns)
  BY DEF Components, Display, Name, Namespace

\* Components(a, b) and Full(a/b).
LEMMA ComponentsAreFull ==
    ASSUME NEW ns \in Seq(Symbol), NEW n \in Seq(Symbol), ~Contains(ns, "/")
    PROVE  SameRepository(Components(ns, n), Full(Display(Components(ns, n))))
<1> DEFINE c == Components(ns, n)
<1>1. PICK u : u = ns \o <<"/">> \o n
  OBVIOUS
<1>2. SplitOnce(u, "/") = Some(<<ns, n>>)
  BY <1>1, SplitJoined, Literals
<1>3. Contains(u, "/")
  BY <1>1, ContainsJoined, Literals
<1>4. Display(c) = u /\ Name(c) = n /\ Namespace(c) = Some(ns)
  BY <1>1, ComponentsFacts
<1> HIDE DEF c
<1>5. Name(Full(u)) = n /\ Namespace(Full(u)) = Some(ns) /\ Display(Full(u)) = u
  BY <1>2, <1>3, OptionFacts, FullFacts DEF Name, Namespace
<1>6. SameRepository(c, Full(Display(c)))
  BY <1>4, <1>5 DEF SameRepository
<1>7. QED
  BY <1>6 DEF c

LEMMA LocationRead ==
    ASSUME NEW registry \in Seq(Symbol), NEW name \in Seq(Symbol),
           Contains(registry, "."), ~Contains(registry, "/")
    PROVE  LocationOf(registry \o <<"/">> \o name) = <<registry, Full(name)>>
<1>1. SplitOnce(registry \o <<"/">> \o name, "/") = Some(<<registry, name>>)
  BY SplitJoined, Literals
<1>2. QED
  BY <1>1, OptionFacts DEF LocationOf

LEMMA PlainRead ==
    ASSUME NEW name \in Seq(Symbol),
           Namespace(Full(name)) = None \/ ~Contains(Namespace(Full(name))[1], ".")
    PROVE  LocationOf(name) = <<DefaultRegistry, IF Contains(name, "/") THEN Full(name)
                                                 ELSE Components(DefaultNamespace, name)>>
<1>1. CASE Contains(name, "/")
  <2>1. PICK a, b \in Seq(Symbol) : SplitOnce(name, "/") = Some(<<a, b>>)
    BY <1>1, SplitFound, Literals
  <2>2. Namespace(Full(name)) = Some(a)
    BY <1>1, <2>1, OptionFacts, FullFacts DEF Namespace
  <2>3. ~Contains(a, ".")
    BY <2>2, OptionFacts
  <2>4. QED
    BY <1>1, <2>1, <2>3, OptionFacts DEF LocationOf
<1>2. CASE ~Contains(name, "/")
  <2>1. SplitOnce(name, "/") = None
    BY <1>2, NotSplit, Literals
  <2>2. QED
    BY <1>2, <2>1 DEF LocationOf
<1>3. QED
  BY <1>1, <1>2

LEMMA LocationCut ==
    ASSUME NEW loc \in Seq(Symbol)
    PROVE  \E registry, name \in Seq(Symbol) : \E repository :
              /\ LocationOf(loc) = <<registry, repository>>
              /\ Contains(registry, ".") /\ ~Contains(registry, "/")
              /\ Display(repository) = name /\ SameRepository(repository, Full(name))
              /\ ~Contains(loc, "@") => ~Contains(registry, "@") /\ ~Contains(name, "@")
<1>1. CASE Contains(loc, "/")
  <2>1. PICK a, b \in Seq(Symbol) : /\ loc = a \o <<"/">> \o b /\ ~Contains(a, "/")
                                    /\ SplitOnce(loc, "/") = Some(<<a, b>>)
    BY <1>1, SplitFound, Literals
  <2>2. ~Contains(loc, "@") => ~Contains(a, "@") /\ ~Contains(b, "@")
    BY <2>1, ContainsJoined, Literals
  <2>3. LocationOf(loc) = IF Contains(a, ".") THEN <<a, Full(b)>>
                          ELSE <<DefaultRegistry, Full(loc)>>
    BY <2>1, OptionFacts DEF LocationOf
  <2>4. \A n : Display(Full(n)) = n /\ SameRepository(Full(n), Full(n))
    BY FullFacts DEF SameRepository
  <2>5. CASE Contains(a, ".")
    BY <2>1, <2>2, <2>3, <2>4, <2>5
  <2>6. CASE ~Contains(a, ".")
    <3>1. LocationOf(loc) = <<DefaultRegistry, Full(loc)>>
      BY <2>3, <2>6
    <3>2. /\ DefaultRegistry \in Seq(Symbol) /\ Contains(DefaultRegistry, ".")
          /\ ~Contains(DefaultRegistry, "/") /\ ~Contains(DefaultRegistry, "@")
      BY DefaultParts, Literals
    <3>3. Display(Full(loc)) = loc /\ SameRepository(Full(loc), Full(loc))
      BY <2>4
    <3> DEFINE repository == Full(loc)
    <3> HIDE DEF repository
    <3>4. /\ LocationOf(loc) = <<DefaultRegistry, repository>>
          /\ Display(repository) = loc /\ SameRepository(repository, Full(loc))
      BY <3>1, <3>3 DEF repository
    <3>5. QED
      BY <3>2, <3>4
  <2>7. QED
    BY <2>5, <2>6
<1>2. CASE ~Contains(loc, "/")
  <2>1. SplitOnce(loc, "/") = None
    BY <1>2, NotSplit, Literals
  <2>2. LocationOf(loc) = <<DefaultRegistry, Components(DefaultNamespace, loc)>>
    BY <2>1 DEF LocationOf
  <2>3. PICK name \in Seq(Symbol) : /\ name = DefaultNamespace \o <<"/">> \o loc
                                    /\ Contains(name, "@") <=> Contains(loc, "@")
    <3>1. PICK u : u = DefaultNamespace \o <<"/">> \o loc
      OBVIOUS
    <3>2. /\ u \in Seq(Symbol)
          /\ Contains(u, "@") <=> Contains(DefaultNamespace, "@") \/ "/" = "@" \/ Contains(loc, "@")
      BY <3>1, ContainsJoined, Literals
    <3>3. QED
      BY <3>1, <3>2, DefaultParts
  <2>4. /\ Display(Components(DefaultNamespace, loc)) = name
        /\ SameRepository(Components(DefaultNamespace, loc), Full(name))
    <3>1. Display(Components(DefaultNamespace, loc)) = name
      BY <2>3, ComponentsFacts
    <3>2. SameRepository(Components(DefaultNamespace, loc),
                         Full(Display(Components(DefaultNamespace, loc))))
      BY ComponentsAreFull, DefaultParts, Literals
    <3>3. QED
      BY <3>1, <3>2
  <2>5. QED
    BY <2>2, <2>3, <2>4, DefaultParts, Literals
<1>3. QED
  BY <1>1, <1>2

\* The steps of parse, put together.
LEMMA ParseSteps ==
    ASSUME NEW txt, NEW base, NEW d, NEW loc, NEW tag, NEW registry, NEW repository,
           DigestOf(txt) = <<base, d>>, TagOf(base) = <<loc, tag>>,
           LocationOf(loc) = <<registry, repository>>
    PROVE  Parse(txt) = IF (d # None /\ ~Accepted(d[1])) \/ Name(repository) = <<>> THEN None
                        ELSE Some([registry |-> registry, repository |-> repository,
                                   tag |-> tag, digest |-> d])
<1>1. DigestOf(txt)[1] = base /\ DigestOf(txt)[2] = d /\ TagOf(base)[1] = loc
  OBVIOUS
<1>2. TagOf(base)[2] = tag /\ LocationOf(loc)[1] = registry /\ LocationOf(loc)[2] = repository
  OBVIOUS
<1>3. Parse(txt) = IF d # None /\ ~Accepted(d[1]) THEN None
                   ELSE IF Name(repository) = <<>> THEN None
                   ELSE Some([registry |-> registry, repository |-> repository,
                              tag |-> tag, digest |-> d])
  BY <1>1, <1>2 DEF Parse
<1>4. QED
  BY <1>3

\* A reference with all its parts written down.
LEMMA WrittenRead ==
    ASSUME NEW registry \in Seq(Symbol), NEW name \in Seq(Symbol), NEW tag \in Seq(Symbol),
           NEW d, IsDigest(d), d # None => Accepted(d[1]),
           Contains(registry, "."), ~Contains(registry, "/"), Name(Full(name)) # <<>>,
           ~Contains(tag, ":"), ~Contains(tag, "/"),
           d = None => ~Contains(registry, "@") /\ ~Contains(name, "@") /\ ~Contains(tag, "@")
    PROVE  Parse(registry \o <<"/">> \o name \o <<":">> \o tag
                 \o (IF d = None THEN <<>> ELSE <<"@">> \o d[1]))
           = Some([registry |-> registry, repository |-> Full(name), tag |-> tag, digest |-> d])
<1>1. PICK loc \in Seq(Symbol) : /\ loc = registry \o <<"/">> \o name
                                 /\ d = None => ~Contains(loc, "@")
  <2>1. PICK u : u = registry \o <<"/">> \o name
    OBVIOUS
  <2>2. /\ u \in Seq(Symbol)
        /\ Contains(u, "@") <=> Contains(registry, "@") \/ "/" = "@" \/ Contains(name, "@")
    BY <2>1, ContainsJoined, Literals
  <2>3. QED
    BY <2>1, <2>2
<1>2. PICK base \in Seq(Symbol) : /\ base = loc \o <<":">> \o tag
                                  /\ d = None => ~Contains(base, "@")
  <2>1. PICK u : u = loc \o <<":">> \o tag
    OBVIOUS
  <2>2. /\ u \in Seq(Symbol)
        /\ Contains(u, "@") <=> Contains(loc, "@") \/ ":" = "@" \/ Contains(tag, "@")
    BY <2>1, ContainsJoined, Literals
  <2>3. QED
    BY <1>1, <2>1, <2>2
<1>3. PICK txt : txt = base \o (IF d = None THEN <<>> ELSE <<"@">> \o d[1])
  OBVIOUS
<1>4. DigestOf(txt) = <<base, d>>
  BY <1>2, <1>3, DigestRead
<1>5. TagOf(base) = <<loc, tag>>
  BY <1>2, TagRead
<1>6. LocationOf(loc) = <<registry, Full(name)>>
  BY <1>1, LocationRead
<1>7. Parse(txt) = Some([registry |-> registry, repository |-> Full(name),
                         tag |-> tag, digest |-> d])
  BY <1>4, <1>5, <1>6, ParseSteps
<1>8. QED
  BY <1>1, <1>2, <1>3, <1>7

\* Reference::try_from: whatever the text, with its separators in any order, a
\* reference that is accepted and the same one with its defaults written down (the
\* registry, the namespace library, the tag latest) are one image.
THEOREM DefaultsNeutral ==
    ASSUME NEW txt \in Seq(Symbol)
    PROVE  DefaultsAreNeutral(txt)
<1>a. PICK base \in Seq(Symbol) :
         \E d : DigestOf(txt) = <<base, d>> /\ IsDigest(d) /\ (d = None => ~Contains(base, "@"))
  BY DigestCut
<1>1. PICK d : DigestOf(txt) = <<base, d>> /\ IsDigest(d) /\ (d = None => ~Contains(base, "@"))
  BY <1>a
<1>2. PICK loc, tag \in Seq(Symbol) :
         /\ TagOf(base) = <<loc, tag>> /\ ~Contains(tag, ":") /\ ~Contains(tag, "/")
         /\ ~Contains(base, "@") => ~Contains(loc, "@") /\ ~Contains(tag, "@")
  BY TagCut
<1>b. PICK registry, name \in Seq(Symbol) : \E repository :
         /\ LocationOf(loc) = <<registry, repository>>
         /\ Contains(registry, ".") /\ ~Contains(registry, "/")
         /\ Display(repository) = name /\ SameRepository(repository, Full(name))
         /\ ~Contains(loc, "@") => ~Contains(registry, "@") /\ ~Contains(name, "@")
  BY LocationCut
<1>3. PICK repository :
         /\ LocationOf(loc) = <<registry, repository>>
         /\ Contains(registry, ".") /\ ~Contains(registry, "/")
         /\ Display(repository) = name /\ SameRepository(repository, Full(name))
         /\ ~Contains(loc, "@") => ~Contains(registry, "@") /\ ~Contains(name, "@")
  BY <1>b
<1> DEFINE r == [registry |-> registry, repository |-> repository, tag |-> tag, digest |-> d]
           w == [registry |-> registry, repository |-> Full(name), tag |-> tag, digest |-> d]
<1>4. Parse(txt) = IF (d # None /\ ~Accepted(d[1])) \/ Name(repository) = <<>> THEN None
                   ELSE Some(r)
  BY <1>1, <1>2, <1>3, ParseSteps
<1>5. SUFFICES ASSUME d # None => Accepted(d[1]), Name(repository) # <<>>
               PROVE  Parse(Written(r)) # None /\ SameImage(r, Parse(Written(r))[1])
  <2> HIDE DEF r
  <2>1. QED
    BY <1>4, OptionFacts DEF DefaultsAreNeutral
<1>6. Name(Full(name)) # <<>>
  BY <1>3, <1>5 DEF SameRepository
<1>7. Written(r) = registry \o <<"/">> \o name \o <<":">> \o tag
                   \o (IF d = None THEN <<>> ELSE <<"@">> \o d[1])
  BY <1>3 DEF Written
<1>8. Parse(Written(r)) = Some(w)
  <2>1. /\ Contains(registry, ".") /\ ~Contains(registry, "/")
        /\ ~Contains(tag, ":") /\ ~Contains(tag, "/") /\ IsDigest(d)
        /\ d = None => ~Contains(registry, "@") /\ ~Contains(name, "@") /\ ~Contains(tag, "@")
    BY <1>1, <1>2, <1>3
  <2>2. Parse(registry \o <<"/">> \o name \o <<":">> \o tag
              \o (IF d = None THEN <<>> ELSE <<"@">> \o d[1])) = Some(w)
    BY <1>5, <1>6, <2>1, WrittenRead
  <2> HIDE DEF r, w
  <2>3. QED
    BY <1>7, <2>2
<1>9. SameImage(r, w)
  BY <1>3 DEF SameImage, SameRepository
<1>10. QED
  BY <1>8, <1>9, OptionFacts

\* The parts of a reference, as texts.
IsOption(o) == o = None \/ \E s \in Seq(Symbol) : o = Some(s)
ArePartsOf(c) == /\ c.registry \in Seq(Symbol) /\ c.repository \in Seq(Symbol)
                 /\ IsOption(c.tag) /\ IsOption(c.digest)

LEMMA OptionValue ==
    ASSUME NEW o, IsOption(o), o # None
    PROVE  o[1] \in Seq(Symbol) /\ o = Some(o[1])
  BY OptionFacts DEF IsOption

LEMMA FreeOf ==
    ASSUME NEW s \in Seq(Symbol), NEW S, NEW c \in S, Free(s, S)
    PROVE  ~Contains(s, c)
  BY DEF Free, Contains

\* An option after a separator, or nothing.
Added(u, s, o, c) ==
    /\ u \in Seq(Symbol) /\ u = IF o = None THEN s ELSE s \o <<c>> \o o[1]
    /\ \A d : Contains(u, d) <=> Contains(s, d) \/ (o # None /\ (c = d \/ Contains(o[1], d)))

LEMMA AddOption ==
    ASSUME NEW s \in Seq(Symbol), NEW o, IsOption(o), NEW c \in Symbol
    PROVE  Added(s \o (IF o = None THEN <<>> ELSE <<c>> \o o[1]), s, o, c)
<1>1. CASE o = None
  <2>1. s \o <<>> = s
    BY ConcatEmptySeq
  <2>2. QED
    BY <1>1, <2>1 DEF Added
<1>2. CASE o # None
  <2>1. PICK v \in Seq(Symbol) : v = o[1]
    BY <1>2, OptionValue
  <2>2. PICK p \in Seq(Symbol) : p = <<c>>
    BY OneSymbol
  <2>3. s \o (p \o v) = (s \o p) \o v
    <3>1. Cat(s, Cat(p, v)) = Cat(Cat(s, p), v)
      BY CatAssoc
    <3>2. QED
      BY <3>1 DEF Cat
  <2>4. PICK u : u = s \o <<c>> \o v
    OBVIOUS
  <2>5. u \in Seq(Symbol) /\ \A d : Contains(u, d) <=> Contains(s, d) \/ c = d \/ Contains(v, d)
    BY <2>4, ContainsJoined
  <2>6. s \o (IF o = None THEN <<>> ELSE <<c>> \o o[1]) = u
    BY <1>2, <2>1, <2>2, <2>3, <2>4
  <2>7. Added(u, s, o, c)
    BY <1>2, <2>1, <2>4, <2>5 DEF Added
  <2>8. QED
    BY <2>6, <2>7
<1>3. QED
  BY <1>1, <1>2

\* Reference::try_from, for the references of the documentation: whatever the names, the
\* registry, the repository, the tag and the digest that a reference is put together
\* from are found again, and only an image with no registry and no namespace is in library.
THEOREM DocumentedPartsFound ==
    ASSUME NEW c, ArePartsOf(c), Documented(c)
    PROVE  PartsFound(c)
<1> DEFINE reg == c.registry
           repo == c.repository
           loc == IF reg = <<>> THEN repo ELSE reg \o <<"/">> \o repo
           tag == IF c.tag = None THEN DefaultTag ELSE c.tag[1]
           repository == IF reg # <<>> \/ Contains(repo, "/") THEN Full(repo)
                         ELSE Components(DefaultNamespace, repo)
           registry == IF reg = <<>> THEN DefaultRegistry ELSE reg
           r == [registry |-> registry, repository |-> repository, tag |-> tag,
                 digest |-> c.digest]
<1>1. /\ reg \in Seq(Symbol) /\ repo \in Seq(Symbol) /\ IsOption(c.tag) /\ IsOption(c.digest)
      /\ ~Contains(repo, ":") /\ ~Contains(repo, "@") /\ Name(Full(repo)) # <<>>
      /\ reg # <<>> => Contains(reg, ".") /\ ~Contains(reg, "/") /\ ~Contains(reg, "@")
  BY FreeOf DEF ArePartsOf, Documented
<1>2. c.tag # None => /\ c.tag[1] \in Seq(Symbol)
                      /\ \A s \in {":", "/", "@"} : ~Contains(c.tag[1], s)
  BY <1>1, OptionValue, FreeOf DEF Documented
<1>3. IsDigest(c.digest) /\ (c.digest # None => Accepted(c.digest[1]))
  <2>1. c.digest # None => /\ c.digest[1] \in Seq(Symbol) /\ c.digest = Some(c.digest[1])
                           /\ ~Contains(c.digest[1], "@") /\ Accepted(c.digest[1])
    BY <1>1, OptionValue, FreeOf DEF Documented
  <2>2. QED
    BY <2>1 DEF IsDigest
<1>4. loc \in Seq(Symbol) /\ ~Contains(loc, "@")
  <2>1. PICK u : u = reg \o <<"/">> \o repo
    OBVIOUS
  <2>2. /\ u \in Seq(Symbol)
        /\ Contains(u, "@") <=> Contains(reg, "@") \/ "/" = "@" \/ Contains(repo, "@")
    BY <1>1, <2>1, ContainsJoined, Literals
  <2>3. QED
    BY <1>1, <2>1, <2>2
<1>5. LocationOf(loc) = <<registry, repository>>
  <2>1. CASE reg = <<>>
    <3>1. Namespace(Full(repo)) = None \/ ~Contains(Namespace(Full(repo))[1], ".")
      <4>1. CASE Contains(repo, "/")
        <5>1. PICK a, b \in Seq(Symbol) : SplitOnce(repo, "/") = Some(<<a, b>>)
          BY <1>1, <4>1, SplitFound, Literals
        <5>2. Namespace(Full(repo)) = Some(a)
          BY <4>1, <5>1, OptionFacts, FullFacts DEF Namespace
        <5>3. Free(a, {"."})
          BY <2>1, <5>2, OptionFacts DEF Documented
        <5>4. QED
          BY <5>2, <5>3, FreeOf, OptionFacts
      <4>2. CASE ~Contains(repo, "/")
        BY <4>2, FullFacts DEF Namespace
      <4>3. QED
        BY <4>1, <4>2
    <3>2. LocationOf(repo) = <<DefaultRegistry, IF Contains(repo, "/") THEN Full(repo)
                                                ELSE Components(DefaultNamespace, repo)>>
      BY <1>1, <3>1, PlainRead
    <3>3. QED
      BY <2>1, <3>2
  <2>2. CASE reg # <<>>
    <3>1. LocationOf(reg \o <<"/">> \o repo) = <<reg, Full(repo)>>
      BY <1>1, <2>2, LocationRead
    <3>2. QED
      BY <2>2, <3>1
  <2>3. QED
    BY <2>1, <2>2
<1>6. loc = repo \/ loc = reg \o <<"/">> \o repo
  OBVIOUS
<1>7. PICK base \in Seq(Symbol) :
         /\ base = loc \o (IF c.tag = None THEN <<>> ELSE <<":">> \o c.tag[1])
         /\ base = IF c.tag = None THEN loc ELSE loc \o <<":">> \o c.tag[1]
         /\ ~Contains(base, "@")
  <2> HIDE DEF loc
  <2>1. PICK u : u = loc \o (IF c.tag = None THEN <<>> ELSE <<":">> \o c.tag[1])
    OBVIOUS
  <2>a. Added(u, loc, c.tag, ":")
    BY <1>1, <1>4, <2>1, AddOption, Literals
  <2>2. /\ u \in Seq(Symbol) /\ u = IF c.tag = None THEN loc ELSE loc \o <<":">> \o c.tag[1]
        /\ Contains(u, "@") <=> Contains(loc, "@") \/ (c.tag # None /\ (":" = "@" \/ Contains(c.tag[1], "@")))
    BY <2>a DEF Added
  <2>3. QED
    BY <1>2, <1>4, <2>1, <2>2
<1>8. TagOf(base) = <<loc, tag>>
  <2>1. CASE c.tag = None
    <3>1. base = loc /\ tag = DefaultTag
      BY <1>7, <2>1
    <3>2. TagOf(repo) = <<repo, DefaultTag>>
      BY <1>1, NoTagRead
    <3>3. TagOf(reg \o <<"/">> \o repo) = <<reg \o <<"/">> \o repo, DefaultTag>>
      BY <1>1, PortRead
    <3> HIDE DEF loc, tag
    <3>4. QED
      BY <1>6, <3>1, <3>2, <3>3
  <2>2. CASE c.tag # None
    <3>1. base = loc \o <<":">> \o c.tag[1] /\ tag = c.tag[1]
      BY <1>7, <2>2
    <3> HIDE DEF loc, tag
    <3>2. TagOf(loc \o <<":">> \o c.tag[1]) = <<loc, c.tag[1]>>
      BY <1>2, <1>4, <2>2, TagRead
    <3>3. QED
      BY <3>1, <3>2
  <2>3. QED
    BY <2>1, <2>2
<1>9. PICK txt : txt = base \o (IF c.digest = None THEN <<>> ELSE <<"@">> \o c.digest[1])
  OBVIOUS
<1>10. DigestOf(txt) = <<base, c.digest>>
  <2>1. PICK d : d = c.digest
    OBVIOUS
  <2>a. IsDigest(d) /\ ~Contains(base, "@")
    BY <1>3, <1>7, <2>1
  <2>2. DigestOf(base \o (IF d = None THEN <<>> ELSE <<"@">> \o d[1])) = <<base, d>>
    BY <2>a, DigestRead
  <2>3. QED
    BY <1>9, <2>1, <2>2
<1>11. ComposedText(c) = txt
  BY <1>7, <1>9 DEF ComposedText
<1>12. Name(repository) # <<>>
  <2>1. CASE reg # <<>> \/ Contains(repo, "/")
    BY <1>1, <2>1
  <2>2. CASE reg = <<>> /\ ~Contains(repo, "/")
    <3>1. Name(Full(repo)) = repo
      BY <2>2, FullFacts DEF Name
    <3>2. Name(Components(DefaultNamespace, repo)) = repo
      BY ComponentsFacts
    <3>3. QED
      BY <1>1, <2>2, <3>1, <3>2
  <2>3. QED
    BY <2>1, <2>2
<1>13. Parse(txt) = Some(r)
  <2> HIDE DEF loc, tag, registry, repository
  <2>1. PICK d : d = c.digest
    OBVIOUS
  <2>2. PICK l : l = loc
    OBVIOUS
  <2>3. PICK t : t = tag
    OBVIOUS
  <2>4. PICK gr, ry : gr = registry /\ ry = repository
    OBVIOUS
  <2>5. DigestOf(txt) = <<base, d>> /\ TagOf(base) = <<l, t>> /\ LocationOf(l) = <<gr, ry>>
    BY <1>5, <1>8, <1>10, <2>1, <2>2, <2>3, <2>4
  <2>6. Parse(txt) = IF (d # None /\ ~Accepted(d[1])) \/ Name(ry) = <<>> THEN None
                     ELSE Some([registry |-> gr, repository |-> ry, tag |-> t, digest |-> d])
    BY <2>5, ParseSteps
  <2>7. QED
    BY <1>3, <1>12, <2>1, <2>3, <2>4, <2>6
<1>14. Display(repository) = (IF reg = <<>> /\ ~Contains(repo, "/")
                              THEN DefaultNamespace \o <<"/">> ELSE <<>>) \o repo
  <2>1. <<>> \o repo = repo
    BY <1>1, ConcatEmptySeq
  <2>2. Display(Full(repo)) = repo
    BY FullFacts
  <2>3. Display(Components(DefaultNamespace, repo)) = DefaultNamespace \o <<"/">> \o repo
    BY ComponentsFacts
  <2>4. QED
    BY <2>1, <2>2, <2>3
<1>15. QED
  <2>1. /\ r.registry = registry /\ r.repository = repository /\ r.tag = tag
        /\ r.digest = c.digest
    OBVIOUS
  <2> HIDE DEF repository, r
  <2>2. Parse(ComposedText(c)) = Some(r) /\ Some(r) # None /\ Some(r)[1] = r
    BY <1>11, <1>13, OptionFacts
  <2>3. QED
    BY <1>14, <2>1, <2>2 DEF PartsFound
-----------------------------------------------------------------------------
(* Challenges: blanks, and one parameter of the header. *)

\* A text of nothing but blanks.
Blanks(b) == b \in Seq(Symbol) /\ \A i \in 1..Len(b) : b[i] = Blank

LEMMA NotBlankPlaces ==
    ASSUME NEW s \in Seq(Symbol), NEW i \in 1..Len(s)
    PROVE  s[i] \in Range(s) \ {Blank} <=> s[i] # Blank
  BY DEF Range

LEMMA TrimStartBlanks ==
    ASSUME NEW s \in Seq(Symbol), Blanks(s)
    PROVE  TrimStart(s) = <<>>
<1>1. FirstAt(s, Range(s) \ {Blank}) = 0
  BY NoPlace, NotBlankPlaces DEF Blanks
<1>2. QED
  BY <1>1 DEF TrimStart

LEMMA TrimStartAt ==
    ASSUME NEW s \in Seq(Symbol), NEW m \in 1..Len(s), s[m] # Blank,
           \A i \in 1..Len(s) : s[i] # Blank => m <= i
    PROVE  TrimStart(s) = SubSeq(s, m, Len(s))
<1>1. FirstAt(s, Range(s) \ {Blank}) = m
  <2>1. PICK S : S = Range(s) \ {Blank}
    OBVIOUS
  <2>2. s[m] \in S /\ \A i \in 1..Len(s) : s[i] \in S => m <= i
    BY <2>1, NotBlankPlaces
  <2>3. FirstAt(s, S) = m
    BY <2>2, LenProperties, FirstIs
  <2>4. QED
    BY <2>1, <2>3
<1>2. m # 0
  OBVIOUS
<1>3. QED
  BY <1>1, <1>2 DEF TrimStart

\* Blanks at the start are removed, and nothing else.
LEMMA TrimStartOf ==
    ASSUME NEW b, Blanks(b), NEW s \in Seq(Symbol), s # <<>> => s[1] # Blank
    PROVE  TrimStart(b \o s) = s
<1> DEFINE u == b \o s
<1>1. /\ b \in Seq(Symbol) /\ u \in Seq(Symbol) /\ Len(u) = Len(b) + Len(s)
      /\ \A i \in 1..Len(b) : u[i] = Blank
      /\ \A i \in 1..Len(s) : u[Len(b) + i] = s[i]
  <2>1. b \in Seq(Symbol)
    BY DEF Blanks
  <2>2. /\ u \in Seq(Symbol) /\ Len(u) = Len(b) + Len(s)
        /\ \A i \in 1..Len(b) + Len(s) : u[i] = IF i <= Len(b) THEN b[i] ELSE s[i - Len(b)]
    BY <2>1, ConcatProperties
  <2> HIDE DEF u
  <2>3. \A i \in 1..Len(b) : u[i] = Blank
    BY <2>1, <2>2 DEF Blanks
  <2>4. ASSUME NEW i \in 1..Len(s)
        PROVE  u[Len(b) + i] = s[i]
    <3>1. Len(b) + i \in 1..Len(b) + Len(s) /\ ~(Len(b) + i <= Len(b)) /\ (Len(b) + i) - Len(b) = i
      BY <2>1
    <3>2. QED
      BY <2>2, <3>1
  <2>5. QED
    BY <2>1, <2>2, <2>3, <2>4
<1>2. CASE s = <<>>
  <2> HIDE DEF u
  <2>1. Blanks(u)
    BY <1>1, <1>2 DEF Blanks
  <2>2. TrimStart(u) = <<>>
    BY <1>1, <2>1, TrimStartBlanks
  <2>3. QED
    BY <1>2, <2>2 DEF u
<1>3. CASE s # <<>>
  <2>1. Len(s) \in Nat \ {0} /\ s[1] # Blank
    BY <1>3, EmptySeq
  <2>2. SubSeq(u, Len(b) + 1, Len(u)) = s
    <3> DEFINE v == SubSeq(u, Len(b) + 1, Len(u))
    <3> HIDE DEF u
    <3>1. v \in Seq(Symbol) /\ Len(v) = Len(s) /\ \A i \in 1..Len(s) : v[i] = u[Len(b) + i]
      BY <1>1, <2>1
    <3> HIDE DEF v
    <3>2. v = s
      BY <1>1, <3>1, SeqEqual
    <3>3. QED
      BY <3>2 DEF v
  <2> HIDE DEF u
  <2>3. /\ Len(b) + 1 \in 1..Len(u) /\ u[Len(b) + 1] # Blank
        /\ \A i \in 1..Len(u) : u[i] # Blank => Len(b) + 1 <= i
    BY <1>1, <2>1
  <2>4. TrimStart(u) = SubSeq(u, Len(b) + 1, Len(u))
    BY <1>1, <2>3, TrimStartAt
  <2>5. QED
    BY <2>2, <2>4 DEF u
<1>4. QED
  BY <1>2, <1>3

\* What trim_ascii does at the end of a text, it does at the start of the reversed one.
LEMMA ReverseFacts ==
    ASSUME NEW s \in Seq(Symbol)
    PROVE  /\ Reverse(s) \in Seq(Symbol) /\ Len(Reverse(s)) = Len(s)
           /\ \A i \in 1..Len(s) : Reverse(s)[i] = s[Len(s) - i + 1]
<1>1. \A i \in 1..Len(s) : Len(s) - i + 1 \in 1..Len(s)
  OBVIOUS
<1>2. QED
  BY <1>1 DEF Reverse

LEMMA ReverseTwice ==
    ASSUME NEW s \in Seq(Symbol)
    PROVE  Reverse(Reverse(s)) = s
<1>1. PICK r \in Seq(Symbol) : /\ r = Reverse(s) /\ Len(r) = Len(s)
                               /\ \A i \in 1..Len(s) : r[i] = s[Len(s) - i + 1]
  BY ReverseFacts
<1>2. PICK q \in Seq(Symbol) : /\ q = Reverse(r) /\ Len(q) = Len(r)
                               /\ \A i \in 1..Len(r) : q[i] = r[Len(r) - i + 1]
  BY ReverseFacts
<1>3. ASSUME NEW i \in 1..Len(s)
      PROVE  q[i] = s[i]
  <2>1. Len(s) - i + 1 \in 1..Len(s) /\ Len(s) - (Len(s) - i + 1) + 1 = i
    OBVIOUS
  <2>2. QED
    BY <1>1, <1>2, <2>1
<1>4. q = s
  BY <1>1, <1>2, <1>3, SeqEqual
<1>5. QED
  BY <1>1, <1>2, <1>4

LEMMA ReverseJoined ==
    ASSUME NEW s \in Seq(Symbol), NEW t \in Seq(Symbol)
    PROVE  Reverse(Cat(s, t)) = Cat(Reverse(t), Reverse(s))
<1>1. PICK u \in Seq(Symbol) :
         /\ u = Cat(s, t) /\ Len(u) = Len(s) + Len(t)
         /\ \A i \in 1..Len(s) + Len(t) : u[i] = IF i <= Len(s) THEN s[i] ELSE t[i - Len(s)]
  BY CatType, CatFacts
<1>2. PICK r \in Seq(Symbol) : /\ r = Reverse(u) /\ Len(r) = Len(u)
                               /\ \A i \in 1..Len(u) : r[i] = u[Len(u) - i + 1]
  BY ReverseFacts
<1>3. PICK a \in Seq(Symbol) : /\ a = Reverse(s) /\ Len(a) = Len(s)
                               /\ \A i \in 1..Len(s) : a[i] = s[Len(s) - i + 1]
  BY ReverseFacts
<1>4. PICK b \in Seq(Symbol) : /\ b = Reverse(t) /\ Len(b) = Len(t)
                               /\ \A i \in 1..Len(t) : b[i] = t[Len(t) - i + 1]
  BY ReverseFacts
<1>5. PICK w \in Seq(Symbol) :
         /\ w = Cat(b, a) /\ Len(w) = Len(b) + Len(a)
         /\ \A i \in 1..Len(b) + Len(a) : w[i] = IF i <= Len(b) THEN b[i] ELSE a[i - Len(b)]
  BY CatType, CatFacts
<1>6. ASSUME NEW i \in 1..Len(r)
      PROVE  r[i] = w[i]
  <2> PICK k : k = Len(s) + Len(t) - i + 1
    OBVIOUS
  <2>1. k \in 1..Len(s) + Len(t) /\ i \in 1..Len(s) + Len(t) /\ r[i] = u[k]
    BY <1>1, <1>2
  <2>2. CASE i <= Len(t)
    <3>1. i \in 1..Len(t) /\ ~(k <= Len(s)) /\ k - Len(s) = Len(t) - i + 1
      BY <2>1, <2>2
    <3>2. u[k] = t[Len(t) - i + 1]
      BY <1>1, <2>1, <3>1
    <3>a. w[i] = b[i]
      <4>1. i \in 1..Len(b) + Len(a) /\ i <= Len(b)
        BY <1>3, <1>4, <2>1, <2>2
      <4>2. QED
        BY <1>5, <4>1
    <3>3. QED
      BY <1>4, <2>1, <3>1, <3>2, <3>a
  <2>3. CASE i > Len(t)
    <3>1. i - Len(t) \in 1..Len(s) /\ k <= Len(s) /\ k = Len(s) - (i - Len(t)) + 1
      BY <2>1, <2>3
    <3>2. u[k] = s[k]
      BY <1>1, <2>1, <3>1
    <3>a. w[i] = a[i - Len(t)]
      BY <1>3, <1>4, <1>5, <2>1, <2>3
    <3>3. QED
      BY <1>3, <2>1, <3>1, <3>2, <3>a
  <2>4. QED
    BY <2>2, <2>3
<1>7. r = w
  <2>1. Len(r) = Len(w)
    BY <1>1, <1>2, <1>3, <1>4, <1>5
  <2>2. QED
    BY <1>6, <2>1, SeqEqual
<1>8. QED
  BY <1>1, <1>2, <1>3, <1>4, <1>5, <1>7

\* Blanks stay blanks.
LEMMA BlanksFacts ==
    ASSUME NEW b, Blanks(b)
    PROVE  /\ b \in Seq(Symbol) /\ Blanks(Reverse(b)) /\ Blanks(Cat(b, b))
           /\ \A c : Contains(b, c) => c = Blank
<1>1. b \in Seq(Symbol) /\ \A i \in 1..Len(b) : b[i] = Blank
  BY DEF Blanks
<1>2. Blanks(Reverse(b))
  <2>1. PICK r \in Seq(Symbol) : /\ r = Reverse(b) /\ Len(r) = Len(b)
                                 /\ \A i \in 1..Len(b) : r[i] = b[Len(b) - i + 1]
    BY <1>1, ReverseFacts
  <2>2. \A i \in 1..Len(b) : Len(b) - i + 1 \in 1..Len(b)
    BY <1>1
  <2>3. QED
    BY <1>1, <2>1, <2>2 DEF Blanks
<1>3. Blanks(Cat(b, b))
  <2>1. PICK u \in Seq(Symbol) :
           /\ u = Cat(b, b) /\ Len(u) = Len(b) + Len(b)
           /\ \A i \in 1..Len(b) + Len(b) : u[i] = IF i <= Len(b) THEN b[i] ELSE b[i - Len(b)]
    BY <1>1, CatType, CatFacts
  <2>2. \A i \in 1..Len(u) : i <= Len(b) \/ i - Len(b) \in 1..Len(b)
    BY <1>1, <2>1
  <2>3. QED
    BY <1>1, <2>1, <2>2 DEF Blanks
<1>4. QED
  BY <1>1, <1>2, <1>3 DEF Contains

\* trim_ascii finds the key between the blanks.
LEMMA TrimOf ==
    ASSUME NEW b, Blanks(b), NEW k \in Seq(Symbol),
           k # <<>> => k[1] # Blank /\ k[Len(k)] # Blank
    PROVE  Trim(Cat(Cat(b, k), b)) = k
<1>1. b \in Seq(Symbol) /\ Cat(Cat(b, k), b) = Cat(b, Cat(k, b)) /\ Cat(k, b) \in Seq(Symbol)
  <2>1. b \in Seq(Symbol)
    BY BlanksFacts
  <2>2. QED
    BY <2>1, CatAssoc, CatType
<1>2. CASE k = <<>>
  <2>1. Cat(k, b) = b
    BY <1>1, <1>2, ConcatEmptySeq DEF Cat
  <2>2. TrimStart(Cat(b, b)) = <<>>
    <3>1. Cat(b, b) \in Seq(Symbol)
      BY <1>1, CatType
    <3>2. QED
      BY <3>1, BlanksFacts, TrimStartBlanks
  <2>3. <<>> \in Seq(Symbol) /\ Blanks(<<>>) /\ Reverse(<<>>) = <<>>
    <3>1. <<>> \in Seq(Symbol) /\ Len(<<>>) = 0 /\ 1..0 = {}
      OBVIOUS
    <3>2. Reverse(<<>>) \in Seq(Symbol) /\ Len(Reverse(<<>>)) = 0
      BY <3>1, ReverseFacts
    <3>3. Reverse(<<>>) = <<>>
      BY <3>2, EmptySeq
    <3>4. QED
      BY <3>1, <3>3 DEF Blanks
  <2>4. TrimStart(<<>>) = <<>>
    BY <2>3, TrimStartBlanks
  <2>5. QED
    BY <1>1, <1>2, <2>1, <2>2, <2>3, <2>4 DEF Trim
<1>3. CASE k # <<>>
  <2>1. Len(k) \in Nat \ {0} /\ k[1] # Blank /\ k[Len(k)] # Blank
    BY <1>3, EmptySeq
  <2>2. TrimStart(Cat(b, Cat(k, b))) = Cat(k, b)
    <3>1. PICK u \in Seq(Symbol) :
             /\ u = Cat(k, b) /\ Len(u) = Len(k) + Len(b)
             /\ \A i \in 1..Len(k) + Len(b) : u[i] = IF i <= Len(k) THEN k[i] ELSE b[i - Len(k)]
      BY <1>1, CatType, CatFacts
    <3>2. u[1] # Blank
      BY <1>1, <2>1, <3>1
    <3>3. TrimStart(b \o u) = u
      BY <3>2, TrimStartOf
    <3>4. QED
      BY <3>1, <3>3 DEF Cat
  <2>3. Reverse(Cat(k, b)) = Cat(Reverse(b), Reverse(k))
    BY <1>1, ReverseJoined
  <2>4. TrimStart(Cat(Reverse(b), Reverse(k))) = Reverse(k)
    <3>1. PICK r \in Seq(Symbol) : r = Reverse(k) /\ r[1] # Blank
      <4>1. Reverse(k) \in Seq(Symbol) /\ Reverse(k)[1] = k[Len(k) - 1 + 1]
        BY <2>1, ReverseFacts
      <4>2. Len(k) - 1 + 1 = Len(k)
        BY <2>1
      <4>3. QED
        BY <2>1, <4>1, <4>2
    <3>2. PICK a : a = Reverse(b) /\ Blanks(a)
      BY BlanksFacts
    <3>3. TrimStart(a \o r) = r
      BY <3>1, <3>2, TrimStartOf
    <3>4. QED
      BY <3>1, <3>2, <3>3 DEF Cat
  <2>5. Reverse(Reverse(k)) = k
    BY ReverseTwice
  <2>6. QED
    BY <1>1, <2>2, <2>3, <2>4, <2>5 DEF Trim
<1>4. QED
  BY <1>2, <1>3

\* The same text, with its parts put together from the other side.
SameText(k, e, q, v, b, r) ==
    Cat(Cat(Cat(Cat(Cat(k, Cat(e, q)), v), q), b), r)
    = Cat(Cat(k, e), Cat(q, Cat(Cat(v, q), Cat(b, r))))

LEMMA CatRight ==
    ASSUME NEW k \in Seq(Symbol), NEW e \in Seq(Symbol), NEW q \in Seq(Symbol),
           NEW v \in Seq(Symbol), NEW b \in Seq(Symbol), NEW r \in Seq(Symbol)
    PROVE  SameText(k, e, q, v, b, r)
<1>1. Cat(k, Cat(e, q)) = Cat(Cat(k, e), q)
  BY CatAssoc
<1>2. PICK a \in Seq(Symbol) : a = Cat(k, e)
  BY CatType
<1>3. Cat(Cat(Cat(a, q), v), q) = Cat(a, Cat(q, Cat(v, q)))
  <2>1. Cat(Cat(a, q), v) = Cat(a, Cat(q, v))
    BY CatAssoc
  <2>2. Cat(q, v) \in Seq(Symbol)
    BY CatType
  <2>3. Cat(Cat(a, Cat(q, v)), q) = Cat(a, Cat(Cat(q, v), q))
    BY <2>2, CatAssoc
  <2>4. Cat(Cat(q, v), q) = Cat(q, Cat(v, q))
    BY CatAssoc
  <2>5. QED
    BY <2>1, <2>3, <2>4
<1>4. PICK c \in Seq(Symbol) : c = Cat(v, q)
  BY CatType
<1>5. Cat(Cat(Cat(a, Cat(q, c)), b), r) = Cat(a, Cat(q, Cat(c, Cat(b, r))))
  <2>1. PICK d \in Seq(Symbol) : d = Cat(q, c)
    BY CatType
  <2>2. Cat(Cat(Cat(a, d), b), r) = Cat(a, Cat(d, Cat(b, r)))
    <3>1. Cat(a, d) \in Seq(Symbol)
      BY CatType
    <3>2. Cat(Cat(Cat(a, d), b), r) = Cat(Cat(a, d), Cat(b, r))
      BY <3>1, CatAssoc
    <3>3. PICK g \in Seq(Symbol) : g = Cat(b, r)
      BY CatType
    <3>4. Cat(Cat(a, d), g) = Cat(a, Cat(d, g))
      BY CatAssoc
    <3>5. QED
      BY <3>2, <3>3, <3>4
  <2>3. Cat(d, Cat(b, r)) = Cat(q, Cat(c, Cat(b, r)))
    BY <2>1, CatType, CatAssoc
  <2>4. QED
    BY <2>1, <2>2, <2>3
<1>6. QED
  BY <1>1, <1>2, <1>3, <1>4, <1>5 DEF SameText

\* A parameter that can be read.
IsParam(p) == /\ p[1] \in Seq(Symbol) /\ p[2] \in Seq(Symbol) /\ p = <<p[1], p[2]>>
              /\ ~Contains(p[1], "=") /\ ~Contains(p[2], Quote)
              /\ p[1] # <<>> => p[1][1] # Blank /\ p[1][Len(p[1])] # Blank

\* The first parameter of the header, and what is after it.
LEMMA ParamRead ==
    ASSUME NEW p, IsParam(p), NEW b, Blanks(b), NEW r \in Seq(Symbol)
    PROVE  ReadParam(WriteParam(p, b) \o r)
           = Some([key |-> p[1], value |-> p[2], after |-> b \o r])
<1>1. PICK k \in Seq(Symbol) : k = p[1]
  BY DEF IsParam
<1>2. PICK v \in Seq(Symbol) : v = p[2]
  BY DEF IsParam
<1>3. /\ b \in Seq(Symbol) /\ ~Contains(k, "=") /\ ~Contains(v, Quote)
      /\ k # <<>> => k[1] # Blank /\ k[Len(k)] # Blank
  BY <1>1, <1>2, BlanksFacts DEF IsParam
<1>4. PICK e \in Seq(Symbol) : e = <<"=">>
  BY Literals, OneSymbol
<1>5. PICK q \in Seq(Symbol) : q = <<Quote>>
  BY Literals, OneSymbol
<1>6. PICK a \in Seq(Symbol) : a = Cat(Cat(b, k), b)
  BY <1>3, CatType
<1>7. PICK t \in Seq(Symbol) : t = Cat(b, r)
  BY <1>3, CatType
<1>8. PICK u \in Seq(Symbol) : u = Cat(Cat(v, q), t)
  BY CatType
<1>9. PICK w \in Seq(Symbol) : w = Cat(q, u)
  BY CatType
<1>10. WriteParam(p, b) \o r = Cat(Cat(a, e), w)
  <2>1. <<"=", Quote>> = Cat(e, q)
    BY <1>4, <1>5 DEF Cat
  <2>2. WriteParam(p, b) \o r = Cat(Cat(Cat(Cat(Cat(a, Cat(e, q)), v), q), b), r)
    BY <1>1, <1>2, <1>5, <1>6, <2>1 DEF WriteParam, Cat
  <2>3. SameText(a, e, q, v, b, r)
    <3>1. a \in Seq(Symbol) /\ e \in Seq(Symbol) /\ q \in Seq(Symbol)
      BY <1>4, <1>5, <1>6
    <3>2. v \in Seq(Symbol) /\ b \in Seq(Symbol)
      BY <1>2, <1>3
    <3>3. QED
      BY <3>1, <3>2, CatRight
  <2>4. QED
    BY <1>7, <1>8, <1>9, <2>2, <2>3 DEF SameText
<1>11. SplitOnce(Cat(Cat(a, e), w), "=") = Some(<<a, w>>)
  <2>1. ~Contains(a, "=")
    <3>1. ~Contains(b, "=")
      BY BlanksFacts DEF Blank
    <3>2. Cat(b, k) \in Seq(Symbol) /\ ~Contains(Cat(b, k), "=")
      BY <1>3, <3>1, CatType, ContainsParts DEF Cat
    <3>3. ~Contains(Cat(Cat(b, k), b), "=")
      BY <1>3, <3>1, <3>2, ContainsParts DEF Cat
    <3>4. QED
      BY <1>6, <3>3
  <2>2. SplitOnce(a \o <<"=">> \o w, "=") = Some(<<a, w>>)
    BY <2>1, SplitJoined, Literals
  <2>3. a \o <<"=">> \o w = Cat(Cat(a, e), w)
    BY <1>4, Zenon DEF Cat
  <2>4. QED
    BY <2>2, <2>3, Zenon
<1>12. StripPrefix(w, Quote) = Some(u)
  <2>1. w # <<>> /\ Head(w) = Quote /\ Tail(w) = u
    BY <1>5, <1>9 DEF Cat
  <2>2. QED
    BY <2>1 DEF StripPrefix
<1>13. SplitOnce(u, Quote) = Some(<<v, t>>)
  <2>1. SplitOnce(v \o <<Quote>> \o t, Quote) = Some(<<v, t>>)
    BY <1>3, SplitJoined, Literals
  <2>2. QED
    BY <1>5, <1>8, <2>1 DEF Cat
<1>14. Trim(a) = k
  BY <1>3, <1>6, TrimOf
<1>15. ReadParam(Cat(Cat(a, e), w)) = Some([key |-> k, value |-> v, after |-> t])
  BY <1>11, <1>12, <1>13, <1>14, OptionFacts DEF ReadParam
<1>16. t = b \o r
  BY <1>7 DEF Cat
<1>17. QED
  BY <1>1, <1>2, <1>10, <1>15, <1>16
-----------------------------------------------------------------------------
(* Challenges: one turn of the loop. *)

\* What AddParam makes of a parameter.
Taken(p, request, pending) == AddParam([key |-> p[1], value |-> p[2], after |-> <<>>], request, pending)

\* The header may go on with r, after a parameter.
GoesOn(r) == r \in Seq(Symbol) /\ (r # <<>> => r[1] # Blank /\ StripPrefix(r, ",") # None)

\* A turn over parameter p, with r after it.
TurnOver(p, b, r, request, pending) ==
    Turn([tail |-> WriteParam(p, b) \o r, request |-> request, pending |-> pending, returned |-> FALSE])
    = [tail |-> IF r = <<>> THEN <<>> ELSE Tail(r), request |-> Taken(p, request, pending)[1],
       pending |-> Taken(p, request, pending)[2], returned |-> r = <<>>]

LEMMA TurnReads ==
    ASSUME NEW p, IsParam(p), NEW b, Blanks(b), NEW r, GoesOn(r),
           NEW request, NEW pending
    PROVE  TurnOver(p, b, r, request, pending)
<1>1. PICK w : w = WriteParam(p, b) \o r
  OBVIOUS
<1>2. PICK f : f = [key |-> p[1], value |-> p[2], after |-> b \o r]
  OBVIOUS
<1>3. ReadParam(w) = Some(f) /\ Some(f) # None /\ Some(f)[1] = f
  BY <1>1, <1>2, ParamRead, OptionFacts DEF GoesOn
<1>4. TrimStart(f.after) = r
  <2>1. TrimStart(b \o r) = r
    BY TrimStartOf DEF GoesOn
  <2>2. QED
    BY <1>2, <2>1
<1>5. AddParam(f, request, pending) = Taken(p, request, pending)
  BY <1>2 DEF Taken, AddParam
<1>6. PICK s : s = [tail |-> w, request |-> request, pending |-> pending, returned |-> FALSE]
  OBVIOUS
<1>7. s.tail = w /\ s.request = request /\ s.pending = pending /\ s.returned = FALSE
  BY <1>6
<1>8. Turn(s) = [tail |-> IF r = <<>> THEN <<>> ELSE Tail(r),
                 request |-> AddParam(f, request, pending)[1],
                 pending |-> AddParam(f, request, pending)[2], returned |-> r = <<>>]
  BY <1>3, <1>4, <1>7 DEF Turn, GoesOn
<1>9. QED
  BY <1>1, <1>5, <1>6, <1>8 DEF TurnOver

\* The state of the loop.
State(tail, request, pending, returned) ==
    [tail |-> tail, request |-> request, pending |-> pending, returned |-> returned]

\* What returned stays.
LEMMA TurnStays ==
    ASSUME NEW tail, NEW request, NEW pending
    PROVE  Turn(State(tail, request, pending, TRUE)) = State(tail, request, pending, TRUE)
<1>1. PICK s : s = State(tail, request, pending, TRUE)
  OBVIOUS
<1>2. s.returned = TRUE
  BY <1>1 DEF State
<1>3. Turn(s) = s
  BY <1>2 DEF Turn
<1>4. QED
  BY <1>1, <1>3

\* Where no parameter can be read, None is returned.
LEMMA TurnFails ==
    ASSUME NEW tail \in Seq(Symbol), ~Contains(tail, "="), NEW request, NEW pending
    PROVE  Turn(State(tail, request, pending, FALSE)) = State(tail, None, pending, TRUE)
<1>1. PICK s : s = State(tail, request, pending, FALSE)
  OBVIOUS
<1>2. /\ s = [tail |-> tail, request |-> request, pending |-> pending, returned |-> FALSE]
      /\ s.tail = tail /\ s.returned = FALSE
  BY <1>1 DEF State
<1>3. SplitOnce(tail, "=") = None
  BY NotSplit, Literals
<1>4. ReadParam(tail) = None
  BY <1>3, OptionFacts DEF ReadParam
<1>5. Turn(s) = [s EXCEPT !.request = None, !.returned = TRUE]
  BY <1>2, <1>4 DEF Turn
<1>6. [s EXCEPT !.request = None, !.returned = TRUE] = State(tail, None, pending, TRUE)
  <2>1. PICK no : no = FALSE
    OBVIOUS
  <2>2. PICK yes : yes = TRUE
    OBVIOUS
  <2>3. PICK x : x = [tail |-> tail, request |-> None, pending |-> pending, returned |-> no]
    OBVIOUS
  <2>4. s = [tail |-> tail, request |-> request, pending |-> pending, returned |-> no]
    BY <1>2, <2>1
  <2>5. [s EXCEPT !.request = None] = x
    BY <2>3, <2>4
  <2>6. [x EXCEPT !.returned = yes]
        = [tail |-> tail, request |-> None, pending |-> pending, returned |-> yes]
    BY <2>3
  <2>7. QED
    BY <2>2, <2>5, <2>6 DEF State
<1>7. QED
  BY <1>1, <1>5, <1>6
-----------------------------------------------------------------------------
(* Challenges: what the loop has collected, and one more parameter. *)

\* A parameter: its key and its value.
Pair == Seq(Symbol) \X Seq(Symbol)
HasRealm(s) == \E i \in 1..Len(s) : s[i][1] = Realm

\* The parameters that wait for realm.
Waiting(s) == IF HasRealm(s) THEN <<>> ELSE s

\* The request after any list of parameters: a second realm starts it anew, with the
\* parameters after it.
Collected(s) ==
    LET realm == LastAt(s, Realms(s))
        alone == FirstAt(s, Realms(s)) = realm
    IN  IF realm = 0 THEN None
        ELSE Some([url   |-> s[realm][2],
                   query |-> (IF alone THEN Before(s, realm) ELSE <<>>) \o After(s, realm)])

\* The places of realm, as Collected finds them.
LEMMA RealmPlaces ==
    ASSUME NEW s \in Seq(Pair), NEW i \in 1..Len(s)
    PROVE  s[i] \in Realms(s) <=> s[i][1] = Realm
  BY DEF Realms, Range

\* What Collected is without a realm, and with the first one and the last one.
LEMMA NoRequest ==
    ASSUME NEW s \in Seq(Pair), ~HasRealm(s)
    PROVE  Collected(s) = None
<1>1. LastAt(s, Realms(s)) = 0
  <2>1. PICK S : S = Realms(s)
    OBVIOUS
  <2>2. \A i \in 1..Len(s) : s[i] \notin S
    BY <2>1, RealmPlaces DEF HasRealm
  <2>3. LastAt(s, S) = 0
    BY <2>2, LenProperties, NoPlace
  <2>4. QED
    BY <2>1, <2>3
<1>2. QED
  BY <1>1 DEF Collected

LEMMA RequestOf ==
    ASSUME NEW s \in Seq(Pair), NEW f \in 1..Len(s), NEW l \in 1..Len(s),
           s[f][1] = Realm, s[l][1] = Realm,
           \A i \in 1..Len(s) : s[i][1] = Realm => f <= i /\ i <= l
    PROVE  Collected(s) = Some([url   |-> s[l][2],
                                 query |-> (IF f = l THEN Before(s, l) ELSE <<>>) \o After(s, l)])
<1>1. PICK S : S = Realms(s)
  OBVIOUS
<1>2. s[f] \in S /\ s[l] \in S /\ \A i \in 1..Len(s) : s[i] \in S => f <= i /\ i <= l
  BY <1>1, RealmPlaces
<1>3. FirstAt(s, S) = f
  BY <1>2, LenProperties, FirstIs
<1>4. LastAt(s, S) = l
  BY <1>2, LenProperties, LastIs
<1>5. l # 0
  OBVIOUS
<1>6. QED
  BY <1>1, <1>3, <1>4, <1>5 DEF Collected

\* The places of the realms, if there is one.
LEMMA RealmsExist ==
    ASSUME NEW s \in Seq(Pair), HasRealm(s)
    PROVE  \E f, l \in 1..Len(s) : /\ s[f][1] = Realm /\ s[l][1] = Realm
                                   /\ \A i \in 1..Len(s) : s[i][1] = Realm => f <= i /\ i <= l
<1>1. PICK S : S = Realms(s)
  OBVIOUS
<1>2. \A i \in 1..Len(s) : s[i] \in S <=> s[i][1] = Realm
  BY <1>1, RealmPlaces
<1>3. \E i \in 1..Len(s) : s[i] \in S
  BY <1>2 DEF HasRealm
<1>4. PICK f \in 1..Len(s) : s[f] \in S /\ \A i \in 1..Len(s) : s[i] \in S => f <= i
  BY <1>3, LenProperties, FirstExists
<1>5. PICK l \in 1..Len(s) : s[l] \in S /\ \A i \in 1..Len(s) : s[i] \in S => i <= l
  BY <1>3, LenProperties, LastExists
<1>6. QED
  BY <1>2, <1>4, <1>5

\* One more parameter.
LEMMA Appended ==
    ASSUME NEW q \in Seq(Pair), NEW p \in Pair
    PROVE  /\ Append(q, p) \in Seq(Pair) /\ Len(Append(q, p)) = Len(q) + 1
           /\ Append(q, p)[Len(q) + 1] = p
           /\ \A i \in 1..Len(q) : Append(q, p)[i] = q[i]
           /\ HasRealm(Append(q, p)) <=> HasRealm(q) \/ p[1] = Realm
<1> DEFINE u == Append(q, p)
<1>1. u \in Seq(Pair) /\ Len(u) = Len(q) + 1 /\ u[Len(q) + 1] = p
  BY AppendProperties
<1>2. \A i \in 1..Len(q) : u[i] = q[i]
  BY AppendProperties
<1> HIDE DEF u
<1>3. \A i \in 1..Len(u) : i \in 1..Len(q) \/ i = Len(q) + 1
  BY <1>1
<1>4. Len(q) + 1 \in 1..Len(u) /\ \A i \in 1..Len(q) : i \in 1..Len(u)
  BY <1>1
<1>5. HasRealm(u) <=> HasRealm(q) \/ p[1] = Realm
  BY <1>1, <1>2, <1>3, <1>4 DEF HasRealm
<1>6. QED
  BY <1>1, <1>2, <1>5 DEF u

\* The parameters after one of them.
LEMMA AfterFacts ==
    ASSUME NEW s \in Seq(Pair), NEW m \in 1..Len(s)
    PROVE  /\ After(s, m) \in Seq(Pair) /\ Len(After(s, m)) = Len(s) - m
           /\ \A i \in 1..Len(s) - m : After(s, m)[i] = s[m + i]
<1> DEFINE b == After(s, m)
<1>1. b \in Seq(Pair) /\ Len(b) = Len(s) - m /\ \A i \in 1..Len(b) : b[i] = s[m + i]
  BY DEF After
<1> HIDE DEF b
<1>2. \A i \in 1..Len(s) - m : b[i] = s[m + i]
  BY <1>1
<1>3. QED
  BY <1>1, <1>2 DEF b

\* A parameter is added to the request, or to those that wait for realm.
LEMMA RequestAdds ==
    ASSUME NEW q \in Seq(Pair), NEW p \in Pair
    PROVE  Taken(p, Collected(q), Waiting(q))
           = <<Collected(Append(q, p)), Waiting(Append(q, p))>>
<1>1. PICK u \in Seq(Pair) : /\ u = Append(q, p) /\ Len(u) = Len(q) + 1 /\ u[Len(q) + 1] = p
                             /\ \A i \in 1..Len(q) : u[i] = q[i]
                             /\ HasRealm(u) <=> HasRealm(q) \/ p[1] = Realm
  BY Appended
<1>2. p = <<p[1], p[2]>>
  BY DEF Pair
<1>3. Len(q) + 1 \in 1..Len(u) /\ 1..Len(u) = 1..Len(q) \union {Len(q) + 1}
  BY <1>1
<1>4. Before(u, Len(q) + 1) = q /\ After(u, Len(q) + 1) = <<>>
  <2>1. /\ Before(u, Len(q) + 1) \in Seq(Pair) /\ Len(Before(u, Len(q) + 1)) = Len(q)
        /\ \A i \in 1..Len(q) : Before(u, Len(q) + 1)[i] = u[i]
    BY <1>1 DEF Before
  <2>2. After(u, Len(q) + 1) \in Seq(Pair) /\ Len(After(u, Len(q) + 1)) = 0
    BY <1>1 DEF After
  <2>3. Before(u, Len(q) + 1) = q
    BY <1>1, <2>1, SeqEqual
  <2>4. QED
    BY <2>2, <2>3, EmptySeq
<1>5. CASE p[1] = Realm
  <2>1. Taken(p, Collected(q), Waiting(q)) = <<Some([url |-> p[2], query |-> Waiting(q)]), <<>> >>
    BY <1>5 DEF Taken, AddParam
  <2>2. Waiting(u) = <<>>
    BY <1>1, <1>5 DEF Waiting
  <2>3. Collected(u) = Some([url |-> p[2], query |-> Waiting(q)])
    <3>1. CASE HasRealm(q)
      <4>1. PICK f \in 1..Len(q) : q[f][1] = Realm /\ \A i \in 1..Len(q) : q[i][1] = Realm => f <= i
        BY <3>1, RealmsExist
      <4>2. /\ f \in 1..Len(u) /\ u[f][1] = Realm /\ f # Len(q) + 1
            /\ \A i \in 1..Len(u) : u[i][1] = Realm => f <= i /\ i <= Len(q) + 1
        BY <1>1, <1>3, <4>1
      <4>3. PICK n : n = Len(q) + 1
        OBVIOUS
      <4>4. n \in 1..Len(u) /\ u[n] = p /\ f # n /\ After(u, n) = <<>>
        BY <1>1, <1>3, <1>4, <4>2, <4>3
      <4>5. PICK z : z = (IF f = n THEN Before(u, n) ELSE <<>>) \o After(u, n)
        OBVIOUS
      <4>6. Collected(u) = Some([url |-> u[n][2], query |-> z])
        <5>1. /\ f \in 1..Len(u) /\ n \in 1..Len(u) /\ u[f][1] = Realm /\ u[n][1] = Realm
              /\ \A i \in 1..Len(u) : u[i][1] = Realm => f <= i /\ i <= n
          BY <1>5, <4>2, <4>3, <4>4
        <5>2. QED
          BY <4>5, <5>1, RequestOf
      <4>7. z = <<>>
        <5>1. <<>> \in Seq(Pair) /\ <<>> \o <<>> = <<>>
          BY ConcatEmptySeq
        <5>2. QED
          BY <4>4, <4>5, <5>1
      <4>8. QED
        BY <3>1, <4>4, <4>6, <4>7 DEF Waiting
    <3>2. CASE ~HasRealm(q)
      <4>1. \A i \in 1..Len(u) : u[i][1] = Realm => Len(q) + 1 <= i /\ i <= Len(q) + 1
        BY <1>1, <1>3, <3>2 DEF HasRealm
      <4>2. Collected(u) = Some([url |-> p[2], query |-> q \o <<>>])
        BY <1>1, <1>3, <1>4, <1>5, <4>1, RequestOf
      <4>3. q \o <<>> = q
        BY ConcatEmptySeq
      <4>4. QED
        BY <3>2, <4>2, <4>3 DEF Waiting
    <3>3. QED
      BY <3>1, <3>2
  <2>4. QED
    BY <1>1, <2>1, <2>2, <2>3
<1>6. CASE p[1] # Realm /\ ~HasRealm(q)
  <2>1. Collected(q) = None /\ Collected(u) = None /\ Waiting(q) = q /\ Waiting(u) = u
    BY <1>1, <1>6, NoRequest DEF Waiting
  <2>2. Taken(p, None, q) = <<None, Append(q, <<p[1], p[2]>>)>>
    BY <1>6 DEF Taken, AddParam
  <2>3. QED
    BY <1>1, <1>2, <2>1, <2>2
<1>7. CASE p[1] # Realm /\ HasRealm(q)
  <2>1. PICK f, l \in 1..Len(q) :
           /\ q[f][1] = Realm /\ q[l][1] = Realm
           /\ \A i \in 1..Len(q) : q[i][1] = Realm => f <= i /\ i <= l
    BY <1>7, RealmsExist
  <2>2. PICK x \in Seq(Pair) : x = IF f = l THEN Before(q, l) ELSE <<>>
    <3>1. Before(q, l) \in Seq(Pair) /\ <<>> \in Seq(Pair)
      BY <2>1 DEF Before
    <3>2. QED
      BY <3>1
  <2>3. Collected(q) = Some([url |-> q[l][2], query |-> x \o After(q, l)])
    BY <2>1, <2>2, RequestOf
  <2>4. Before(u, l) = Before(q, l) /\ After(u, l) = Append(After(q, l), p)
    <3>1. /\ Before(u, l) \in Seq(Pair) /\ Len(Before(u, l)) = l - 1
          /\ \A i \in 1..l - 1 : Before(u, l)[i] = u[i]
      BY <1>1 DEF Before
    <3>2. /\ Before(q, l) \in Seq(Pair) /\ Len(Before(q, l)) = l - 1
          /\ \A i \in 1..l - 1 : Before(q, l)[i] = q[i]
      BY DEF Before
    <3>3. \A i \in 1..l - 1 : i \in 1..Len(q)
      OBVIOUS
    <3>4. Before(u, l) = Before(q, l)
      BY <1>1, <3>1, <3>2, <3>3, SeqEqual
    <3>5. PICK t \in Seq(Pair) : /\ t = After(q, l) /\ Len(t) = Len(q) - l
                                 /\ \A i \in 1..Len(q) - l : t[i] = q[l + i]
      BY AfterFacts
    <3>6. PICK v \in Seq(Pair) : /\ v = After(u, l) /\ Len(v) = Len(q) + 1 - l
                                 /\ \A i \in 1..Len(q) + 1 - l : v[i] = u[l + i]
      <4>1. l \in 1..Len(u)
        BY <1>3
      <4>2. /\ After(u, l) \in Seq(Pair) /\ Len(After(u, l)) = Len(u) - l
            /\ \A i \in 1..Len(u) - l : After(u, l)[i] = u[l + i]
        BY <4>1, AfterFacts
      <4>3. Len(u) - l = Len(q) + 1 - l
        BY <1>1
      <4>4. QED
        BY <4>2, <4>3
    <3>7. PICK w \in Seq(Pair) : /\ w = Append(t, p) /\ Len(w) = Len(t) + 1 /\ w[Len(t) + 1] = p
                                 /\ \A i \in 1..Len(t) : w[i] = t[i]
      BY Appended
    <3>8. ASSUME NEW i \in 1..Len(v)
          PROVE  v[i] = w[i]
      <4>1. CASE i <= Len(t)
        <5>1. i \in 1..Len(q) - l /\ i \in 1..Len(q) + 1 - l /\ l + i \in 1..Len(q)
          BY <3>5, <4>1
        <5>2. QED
          BY <1>1, <3>5, <3>6, <3>7, <5>1
      <4>2. CASE ~(i <= Len(t))
        <5>1. i = Len(t) + 1 /\ l + i = Len(q) + 1 /\ i \in 1..Len(q) + 1 - l
          <6>1. Len(t) = Len(q) - l /\ Len(v) = Len(q) + 1 - l
            BY <3>5, <3>6
          <6>2. Len(q) \in Nat /\ l \in Nat /\ i \in Nat /\ i <= Len(v) /\ l <= Len(q)
            BY <6>1, LenProperties
          <6>3. QED
            BY <4>2, <6>1, <6>2
        <5>2. QED
          BY <1>1, <3>6, <3>7, <5>1
      <4>3. QED
        BY <4>1, <4>2
    <3>9. v = w
      <4>1. Len(v) = Len(w)
        BY <3>5, <3>6, <3>7
      <4>2. QED
        BY <3>8, <4>1, SeqEqual
    <3>10. QED
      BY <3>4, <3>5, <3>6, <3>7, <3>9
  <2>5. Collected(u) = Some([url |-> q[l][2], query |-> x \o After(u, l)])
    <3>1. /\ f \in 1..Len(u) /\ l \in 1..Len(u) /\ u[f] = q[f] /\ u[l] = q[l]
          /\ \A i \in 1..Len(u) : u[i][1] = Realm => f <= i /\ i <= l
      BY <1>1, <1>3, <1>7, <2>1
    <3>2. Collected(u) = Some([url   |-> u[l][2],
                                query |-> (IF f = l THEN Before(u, l) ELSE <<>>) \o After(u, l)])
      BY <2>1, <3>1, RequestOf
    <3>3. QED
      BY <2>2, <2>4, <3>1, <3>2
  <2>6. x \o Append(After(q, l), p) = Append(x \o After(q, l), p)
    <3>1. After(q, l) \in Seq(Pair)
      BY DEF After
    <3>2. QED
      BY <3>1
  <2>7. Waiting(u) = <<>> /\ Waiting(q) = <<>>
    BY <1>1, <1>7 DEF Waiting
  <2>8. PICK y : y = x \o After(q, l)
    OBVIOUS
  <2>9. PICK g : g = [url |-> q[l][2], query |-> y]
    OBVIOUS
  <2>10. Taken(p, Some(g), <<>>) = <<Some([g EXCEPT !.query = Append(@, <<p[1], p[2]>>)]), <<>> >>
    BY <1>7, OptionFacts DEF Taken, AddParam
  <2>11. [g EXCEPT !.query = Append(@, <<p[1], p[2]>>)] = [url |-> q[l][2], query |-> Append(y, p)]
    <3>1. PICK z : z = Append(y, p)
      OBVIOUS
    <3>2. Append(g.query, <<p[1], p[2]>>) = z
      BY <1>2, <2>9, <3>1
    <3>3. [g EXCEPT !.query = z] = [url |-> q[l][2], query |-> z]
      BY <2>9
    <3>4. QED
      BY <3>1, <3>2, <3>3
  <2>12. QED
    BY <1>1, <2>3, <2>4, <2>5, <2>6, <2>7, <2>8, <2>9, <2>10, <2>11
<1>8. QED
  BY <1>5, <1>6, <1>7
-----------------------------------------------------------------------------
(* Challenges: the header, and the turns over it. *)

\* Induction over the numbers up to n.
LEMMA UpTo ==
    ASSUME NEW n \in Nat, NEW S, 0 \in S, \A k \in 1..n : k - 1 \in S => k \in S
    PROVE  \A k \in 0..n : k \in S
<1> DEFINE B == {k \in 0..n : k \notin S}
<1>1. SUFFICES ASSUME B # {} PROVE FALSE
  OBVIOUS
<1>2. B \subseteq Nat
  OBVIOUS
<1> HIDE DEF B
<1>3. PICK m \in B : \A k \in B : m <= k
  BY <1>1, <1>2, LeastNumber
<1>4. m \in 0..n /\ m \notin S
  BY <1>3 DEF B
<1>5. m # 0 /\ m - 1 \in 0..n /\ m \in 1..n
  BY <1>4
<1>6. m - 1 \in S
  <2>1. m - 1 \notin B
    BY <1>2, <1>3, <1>5
  <2>2. QED
    BY <1>5, <2>1 DEF B
<1>7. QED
  BY <1>4, <1>5, <1>6

\* The parameters of a challenge that is written as it should be.
IsHeader(params, b) == params \in Seq(Pair) /\ Blanks(b) /\ \A i \in 1..Len(params) : IsParam(params[i])

\* The parameter number k from the end, and the comma after it.
Row(params, b, k) == WriteParam(params[Len(params) + 1 - k], b) \o (IF k = 1 THEN <<>> ELSE <<",">>)

Rows(params, b, f) ==
    f = [k \in 0..Len(params) |->
            IF k = 0 THEN <<>>
            ELSE WriteParam(params[Len(params) + 1 - k], b)
                 \o (IF k = 1 THEN <<>> ELSE <<",">>) \o f[k - 1]]

\* The header exists: the function that is chosen in WriteHeader.
LEMMA RowsExist ==
    ASSUME NEW params \in Seq(Pair), NEW b
    PROVE  \E f : Rows(params, b, f)
<1> DEFINE N == Len(params)
           Rest(f, k) == IF k = 0 THEN <<>> ELSE Row(params, b, k) \o f[k - 1]
           Upto(n, f) == f = [k \in 0..n |-> f[k]] /\ \A k \in 0..n : f[k] = Rest(f, k)
           S == {n \in 0..N : \E f : Upto(n, f)}
<1>1. N \in Nat
  BY LenProperties
<1> HIDE DEF N
<1>2. 0 \in S
  <2> DEFINE f == [k \in 0..0 |-> <<>>]
  <2>1. f = [k \in 0..0 |-> f[k]] /\ \A k \in 0..0 : k = 0 /\ f[k] = <<>>
    OBVIOUS
  <2> HIDE DEF f
  <2>2. Upto(0, f)
    BY <2>1
  <2>3. QED
    BY <1>1, <2>2
<1>3. ASSUME NEW n \in 1..N, n - 1 \in S
      PROVE  n \in S
  <2>1. PICK f : Upto(n - 1, f)
    BY <1>3
  <2> DEFINE h == [k \in 0..n |-> IF k = n THEN Rest(f, n) ELSE f[k]]
  <2>2. h = [k \in 0..n |-> h[k]]
    OBVIOUS
  <2>3. ASSUME NEW k \in 0..n
        PROVE  h[k] = Rest(h, k)
    <3>1. k # 0 => k - 1 \in 0..n /\ k - 1 # n /\ h[k - 1] = f[k - 1]
      BY <1>1
    <3>2. CASE k = n
      <4>1. h[k] = Rest(f, n)
        BY <3>2
      <4> HIDE DEF h
      <4>2. QED
        BY <3>1, <3>2, <4>1
    <3>3. CASE k # n
      <4>1. k \in 0..n - 1 /\ h[k] = f[k]
        BY <1>1, <3>3
      <4> HIDE DEF h
      <4>2. QED
        BY <2>1, <3>1, <4>1
    <3>4. QED
      BY <3>2, <3>3
  <2> HIDE DEF h
  <2>4. Upto(n, h)
    BY <2>2, <2>3
  <2> HIDE DEF Upto
  <2>5. QED
    BY <1>1, <2>4
<1>4. N \in S
  <2> HIDE DEF S
  <2>1. \A k \in 0..N : k \in S
    BY <1>1, <1>2, <1>3, UpTo
  <2>2. QED
    BY <1>1, <2>1
<1>5. PICK f : Upto(N, f)
  BY <1>4
<1>6. f = [k \in 0..N |-> Rest(f, k)]
  BY <1>5
<1>7. QED
  BY <1>6 DEF Rows, Row, N

\* The start of the loop, and its turns.
Started(tail) == [tail |-> tail, request |-> None, pending |-> <<>>, returned |-> FALSE]

Turns(tail, f) ==
    f = [n \in 0..Len(tail) + 1 |->
            IF n = 0 THEN [tail |-> tail, request |-> None, pending |-> <<>>, returned |-> FALSE]
            ELSE Turn(f[n - 1])]

\* So do the turns of Loop.
LEMMA TurnsExist ==
    ASSUME NEW tail \in Seq(Symbol)
    PROVE  \E f : Turns(tail, f)
<1> DEFINE N == Len(tail) + 1
           Rest(f, k) == IF k = 0 THEN Started(tail) ELSE Turn(f[k - 1])
           Upto(n, f) == f = [k \in 0..n |-> f[k]] /\ \A k \in 0..n : f[k] = Rest(f, k)
           S == {n \in 0..N : \E f : Upto(n, f)}
<1>1. N \in Nat
  BY LenProperties
<1> HIDE DEF N
<1>2. 0 \in S
  <2> DEFINE f == [k \in 0..0 |-> Started(tail)]
  <2>1. f = [k \in 0..0 |-> f[k]] /\ \A k \in 0..0 : k = 0 /\ f[k] = Started(tail)
    OBVIOUS
  <2> HIDE DEF f
  <2>2. Upto(0, f)
    BY <2>1
  <2>3. QED
    BY <1>1, <2>2
<1>3. ASSUME NEW n \in 1..N, n - 1 \in S
      PROVE  n \in S
  <2>1. PICK f : Upto(n - 1, f)
    BY <1>3
  <2> DEFINE h == [k \in 0..n |-> IF k = n THEN Rest(f, n) ELSE f[k]]
  <2>2. h = [k \in 0..n |-> h[k]]
    OBVIOUS
  <2>3. ASSUME NEW k \in 0..n
        PROVE  h[k] = Rest(h, k)
    <3>1. k # 0 => k - 1 \in 0..n /\ k - 1 # n /\ h[k - 1] = f[k - 1]
      BY <1>1
    <3>2. CASE k = n
      <4>1. h[k] = Rest(f, n)
        BY <3>2
      <4> HIDE DEF h
      <4>2. QED
        BY <3>1, <3>2, <4>1
    <3>3. CASE k # n
      <4>1. k \in 0..n - 1 /\ h[k] = f[k]
        BY <1>1, <3>3
      <4> HIDE DEF h
      <4>2. QED
        BY <2>1, <3>1, <4>1
    <3>4. QED
      BY <3>2, <3>3
  <2> HIDE DEF h
  <2>4. Upto(n, h)
    BY <2>2, <2>3
  <2> HIDE DEF Upto
  <2>5. QED
    BY <1>1, <2>4
<1>4. N \in S
  <2> HIDE DEF S
  <2>1. \A k \in 0..N : k \in S
    BY <1>1, <1>2, <1>3, UpTo
  <2>2. QED
    BY <1>1, <2>1
<1>5. PICK f : Upto(N, f)
  BY <1>4
<1>6. f = [k \in 0..N |-> Rest(f, k)]
  BY <1>5
<1>7. QED
  BY <1>6 DEF Turns, Started, N

\* What Loop returns.
LEMMA LoopFacts ==
    ASSUME NEW tail \in Seq(Symbol)
    PROVE  \E turns : /\ turns[0] = Started(tail)
                      /\ \A n \in 1..Len(tail) + 1 : turns[n] = Turn(turns[n - 1])
                      /\ Loop(tail) = turns[Len(tail) + 1].request
<1> DEFINE turns == CHOOSE f : Turns(tail, f)
<1>1. Turns(tail, turns)
  BY TurnsExist
<1>2. Loop(tail) = turns[Len(tail) + 1].request
  BY DEF Loop, Turns
<1> HIDE DEF turns
<1>3. Len(tail) + 1 \in Nat
  BY LenProperties
<1>4. turns[0] = Started(tail) /\ \A n \in 1..Len(tail) + 1 : turns[n] = Turn(turns[n - 1])
  <2> DEFINE At(n) == IF n = 0 THEN Started(tail) ELSE Turn(turns[n - 1])
  <2>1. turns = [n \in 0..Len(tail) + 1 |-> At(n)]
    BY <1>1 DEF Turns, Started
  <2> HIDE DEF At
  <2>2. \A n \in 0..Len(tail) + 1 : turns[n] = At(n)
    BY <2>1
  <2>3. At(0) = Started(tail) /\ \A n \in 1..Len(tail) + 1 : At(n) = Turn(turns[n - 1])
    BY <1>3 DEF At
  <2>4. QED
    BY <1>3, <2>2, <2>3
<1>5. QED
  BY <1>2, <1>4

\* A parameter in the header is text, with a quote in it.
LEMMA ParamText ==
    ASSUME NEW p, IsParam(p), NEW b, Blanks(b)
    PROVE  WriteParam(p, b) \in Seq(Symbol) /\ 1 <= Len(WriteParam(p, b))
<1>1. PICK x \in Seq(Symbol) : WriteParam(p, b) = Cat(Cat(x, <<Quote>>), b)
  <2>1. b \in Seq(Symbol) /\ p[1] \in Seq(Symbol) /\ p[2] \in Seq(Symbol)
    BY BlanksFacts DEF IsParam
  <2>2. PICK e \in Seq(Symbol) : e = <<"=", Quote>>
    <3>1. PICK c \in Symbol : c = "="
      BY Literals
    <3>2. PICK d \in Symbol : d = Quote
      BY Literals
    <3>3. <<c, d>> \in Seq(Symbol)
      OBVIOUS
    <3>4. QED
      BY <3>1, <3>2, <3>3
  <2>3. WriteParam(p, b) = Cat(Cat(Cat(Cat(Cat(Cat(b, p[1]), b), e), p[2]), <<Quote>>), b)
    BY <2>2 DEF WriteParam, Cat
  <2>4. Cat(Cat(Cat(Cat(b, p[1]), b), e), p[2]) \in Seq(Symbol)
    BY <2>1, CatType
  <2>5. QED
    BY <2>3, <2>4
<1>2. WriteParam(p, b) \in Seq(Symbol) /\ 1 <= Len(WriteParam(p, b))
  <2>1. PICK q \in Seq(Symbol) : q = <<Quote>> /\ Len(q) = 1
    BY Literals, OneSymbol
  <2>2. PICK z \in Seq(Symbol) : z = Cat(x, q) /\ Len(z) = Len(x) + 1
    BY <2>1, CatType, CatFacts
  <2>3. b \in Seq(Symbol)
    BY BlanksFacts
  <2>4. Cat(z, b) \in Seq(Symbol) /\ Len(Cat(z, b)) = Len(z) + Len(b)
    BY <2>3, CatType, CatFacts
  <2>5. Len(x) \in Nat /\ Len(b) \in Nat
    BY <2>3, LenProperties
  <2>6. QED
    BY <1>1, <2>1, <2>2, <2>4, <2>5
<1>3. QED
  BY <1>2

\* The header, from its end: each parameter is some text.
RowsOf(params, b, rows) ==
    /\ rows[0] = <<>>
    /\ \A k \in 0..Len(params) : rows[k] \in Seq(Symbol) /\ k <= Len(rows[k])
    /\ \A k \in 1..Len(params) : rows[k] = Row(params, b, k) \o rows[k - 1]

LEMMA HeaderFacts ==
    ASSUME NEW params, NEW b, IsHeader(params, b)
    PROVE  \E rows : /\ RowsOf(params, b, rows)
                     /\ WriteHeader(params, b) = <<"Bearer">> \o rows[Len(params)]
<1> DEFINE rows == CHOOSE f : Rows(params, b, f)
<1>0. params \in Seq(Pair) /\ Blanks(b) /\ Len(params) \in Nat
  BY LenProperties DEF IsHeader
<1>1. Rows(params, b, rows)
  BY <1>0, RowsExist
<1>2. WriteHeader(params, b) = <<"Bearer">> \o rows[Len(params)]
  BY DEF WriteHeader, Rows
<1> HIDE DEF rows
<1>3. rows[0] = <<>> /\ \A k \in 1..Len(params) : rows[k] = Row(params, b, k) \o rows[k - 1]
  <2> DEFINE At(k) == IF k = 0 THEN <<>> ELSE Row(params, b, k) \o rows[k - 1]
  <2>1. rows = [k \in 0..Len(params) |-> At(k)]
    BY <1>1 DEF Rows, Row
  <2> HIDE DEF At
  <2>2. \A k \in 0..Len(params) : rows[k] = At(k)
    BY <2>1
  <2>3. At(0) = <<>> /\ \A k \in 1..Len(params) : At(k) = Row(params, b, k) \o rows[k - 1]
    BY <1>0 DEF At
  <2>4. QED
    BY <1>0, <2>2, <2>3
<1>4. ASSUME NEW k \in 1..Len(params)
      PROVE  Row(params, b, k) \in Seq(Symbol) /\ 1 <= Len(Row(params, b, k))
  <2>1. PICK p : p = params[Len(params) + 1 - k]
    OBVIOUS
  <2>2. IsParam(p)
    <3>1. Len(params) + 1 - k \in 1..Len(params)
      BY <1>0
    <3>2. QED
      BY <2>1, <3>1 DEF IsHeader
  <2>4. PICK y \in Seq(Symbol) : y = WriteParam(p, b) /\ 1 <= Len(y)
    BY <1>0, <2>2, ParamText
  <2>5. PICK c \in Seq(Symbol) : c = IF k = 1 THEN <<>> ELSE <<",">>
    <3>1. PICK d \in Symbol : d = ","
      BY Literals
    <3>2. <<>> \in Seq(Symbol) /\ <<d>> \in Seq(Symbol)
      OBVIOUS
    <3>3. QED
      BY <3>1, <3>2
  <2>6. Row(params, b, k) = Cat(y, c)
    BY <2>1, <2>4, <2>5 DEF Row, Cat
  <2>7. Cat(y, c) \in Seq(Symbol) /\ Len(Cat(y, c)) = Len(y) + Len(c) /\ Len(y) \in Nat /\ Len(c) \in Nat
    BY CatType, CatFacts, LenProperties
  <2>8. QED
    BY <2>4, <2>6, <2>7
<1>5. \A k \in 0..Len(params) : rows[k] \in Seq(Symbol) /\ k <= Len(rows[k])
  <2> DEFINE S == {k \in 0..Len(params) : rows[k] \in Seq(Symbol) /\ k <= Len(rows[k])}
  <2>1. 0 \in S
    <3>1. <<>> \in Seq(Symbol) /\ Len(<<>>) = 0
      OBVIOUS
    <3>2. rows[0] \in Seq(Symbol) /\ Len(rows[0]) = 0
      BY <1>3, <3>1
    <3>3. QED
      BY <1>0, <3>2
  <2>2. ASSUME NEW k \in 1..Len(params), k - 1 \in S
        PROVE  k \in S
    <3>1. PICK t \in Seq(Symbol) : t = rows[k - 1] /\ k - 1 <= Len(t)
      BY <2>2
    <3>2. PICK w \in Seq(Symbol) : w = Row(params, b, k) /\ 1 <= Len(w)
      BY <1>4
    <3>3. rows[k] = Cat(w, t)
      BY <1>3, <3>1, <3>2 DEF Cat
    <3>4. Cat(w, t) \in Seq(Symbol) /\ Len(Cat(w, t)) = Len(w) + Len(t) /\ Len(w) \in Nat /\ Len(t) \in Nat
      BY CatType, CatFacts, LenProperties
    <3>5. k <= Len(rows[k])
      BY <3>1, <3>2, <3>3, <3>4
    <3>6. QED
      BY <1>0, <3>3, <3>4, <3>5
  <2> HIDE DEF S
  <2>3. \A k \in 0..Len(params) : k \in S
    BY <1>0, <2>1, <2>2, UpTo
  <2>4. QED
    BY <2>3 DEF S
<1>6. QED
  BY <1>2, <1>3, <1>5 DEF RowsOf

\* What is after a parameter: a comma and more, or the end.
LEMMA CommaFacts ==
    ASSUME NEW t \in Seq(Symbol)
    PROVE  \E r \in Seq(Symbol) : r = Cat(<<",">>, t) /\ r # <<>> /\ GoesOn(r) /\ Tail(r) = t
<1>1. PICK c \in Symbol : c = ","
  BY Literals
<1>2. PICK r \in Seq(Symbol) : r = <<c>> \o t
  <2>1. <<c>> \in Seq(Symbol)
    OBVIOUS
  <2>2. QED
    BY <2>1, CatType DEF Cat
<1>3. r # <<>> /\ r[1] = c /\ Head(r) = c /\ Tail(r) = t
  BY <1>2
<1>4. c # Blank
  BY <1>1 DEF Blank
<1>5. StripPrefix(r, c) # None
  BY <1>3, OptionFacts DEF StripPrefix
<1>6. QED
  BY <1>1, <1>2, <1>3, <1>4, <1>5 DEF Cat, GoesOn

\* A header that ends with its last parameter, or with a comma.
Comma(E) == E = <<",">>

LEMMA EndFacts ==
    ASSUME NEW E, E = <<>> \/ Comma(E)
    PROVE  /\ E \in Seq(Symbol) /\ ~Contains(E, "=") /\ (Comma(E) => E # <<>>)
           /\ GoesOn(E) /\ (E # <<>> => Tail(E) = <<>>)
<1>1. <<>> \in Seq(Symbol) /\ ~Contains(<<>>, "=")
  <2>1. Len(<<>>) = 0 /\ 1..0 = {}
    OBVIOUS
  <2>2. QED
    BY <2>1 DEF Contains
<1>2. CASE E = <<>>
  BY <1>1, <1>2 DEF Comma, GoesOn
<1>3. CASE Comma(E)
  <2>1. PICK r \in Seq(Symbol) : r = Cat(<<",">>, <<>>) /\ r # <<>> /\ GoesOn(r) /\ Tail(r) = <<>>
    BY <1>1, CommaFacts
  <2>2. PICK c \in Symbol : c = ","
    BY Literals
  <2>3. <<c>> \in Seq(Symbol) /\ <<c>> \o <<>> = <<c>>
    BY ConcatEmptySeq
  <2>4. E = r
    BY <1>3, <2>1, <2>2, <2>3 DEF Comma, Cat
  <2>5. ~Contains(<<c>>, "=")
    <3>1. c # "="
      BY <2>2
    <3>2. QED
      BY <3>1, ContainsOne
  <2>6. E = <<c>>
    BY <1>3, <2>2 DEF Comma
  <2>7. QED
    BY <2>1, <2>4, <2>5, <2>6
<1>4. QED
  BY <1>2, <1>3

\* The first parameters of a challenge.
First(params, n) == SubSeq(params, 1, n)

LEMMA FirstFacts ==
    ASSUME NEW params \in Seq(Pair)
    PROVE  /\ First(params, 0) = <<>> /\ First(params, Len(params)) = params
           /\ \A n \in 0..Len(params) : First(params, n) \in Seq(Pair)
           /\ \A n \in 1..Len(params) :
                 First(params, n) = Append(First(params, n - 1), params[n])
<1>1. ASSUME NEW n \in 0..Len(params)
      PROVE  /\ First(params, n) \in Seq(Pair) /\ Len(First(params, n)) = n
             /\ \A i \in 1..n : First(params, n)[i] = params[i]
  BY DEF First
<1>2. First(params, 0) = <<>>
  BY <1>1, EmptySeq, LenProperties
<1>3. First(params, Len(params)) = params
  BY <1>1, SeqEqual, LenProperties
<1>4. ASSUME NEW n \in 1..Len(params)
      PROVE  First(params, n) = Append(First(params, n - 1), params[n])
  <2>0. n - 1 \in 0..Len(params) /\ n \in 0..Len(params) /\ params[n] \in Pair
    OBVIOUS
  <2>1. PICK q \in Seq(Pair) : /\ q = First(params, n - 1) /\ Len(q) = n - 1
                               /\ \A i \in 1..n - 1 : q[i] = params[i]
    BY <1>1, <2>0
  <2>2. PICK v \in Seq(Pair) : /\ v = First(params, n) /\ Len(v) = n
                               /\ \A i \in 1..n : v[i] = params[i]
    BY <1>1, <2>0
  <2>3. PICK u \in Seq(Pair) : /\ u = Append(q, params[n]) /\ Len(u) = Len(q) + 1
                               /\ u[Len(q) + 1] = params[n]
                               /\ \A i \in 1..Len(q) : u[i] = q[i]
    BY <2>0, Appended
  <2>4. ASSUME NEW i \in 1..Len(v)
        PROVE  v[i] = u[i]
    <3>1. CASE i = n
      BY <2>1, <2>2, <2>3, <3>1
    <3>2. CASE i # n
      <4>1. i \in 1..n - 1
        BY <2>2, <3>2
      <4>2. QED
        BY <2>1, <2>2, <2>3, <4>1
    <3>3. QED
      BY <3>1, <3>2
  <2>5. v = u
    <3>1. Len(v) = Len(u)
      BY <2>1, <2>2, <2>3
    <3>2. QED
      BY <2>4, <3>1, SeqEqual
  <2>6. QED
    BY <2>1, <2>2, <2>3, <2>5
<1>5. QED
  BY <1>1, <1>2, <1>3, <1>4

\* Where the loop is after n parameters.
Mid(params, rows, E, n) ==
    [tail |-> Cat(rows[Len(params) - n], E), request |-> Collected(First(params, n)),
     pending |-> Waiting(First(params, n)), returned |-> FALSE]

\* A turn over parameter number n.
RowOver(params, b, n, r) ==
    Turn([tail |-> WriteParam(params[n], b) \o r, request |-> Collected(First(params, n - 1)),
          pending |-> Waiting(First(params, n - 1)), returned |-> FALSE])
    = [tail |-> IF r = <<>> THEN <<>> ELSE Tail(r), request |-> Collected(First(params, n)),
       pending |-> Waiting(First(params, n)), returned |-> r = <<>>]

LEMMA RowTurn ==
    ASSUME NEW params, NEW b, IsHeader(params, b), NEW n \in 1..Len(params), NEW r, GoesOn(r)
    PROVE  RowOver(params, b, n, r)
<1>1. params \in Seq(Pair) /\ Blanks(b) /\ IsParam(params[n])
  BY DEF IsHeader
<1>2. PICK p \in Pair : p = params[n]
  <2>1. params[n] \in Pair
    BY <1>1
  <2>2. QED
    BY <2>1
<1>3. n - 1 \in 0..Len(params)
  BY <1>1, LenProperties
<1>4. PICK q \in Seq(Pair) : q = First(params, n - 1)
  BY <1>1, <1>3, FirstFacts
<1>5. First(params, n) = Append(q, p)
  BY <1>1, <1>2, <1>4, FirstFacts
<1>6. PICK u : u = Append(q, p)
  OBVIOUS
<1>7. Taken(p, Collected(q), Waiting(q)) = <<Collected(u), Waiting(u)>>
  BY <1>6, RequestAdds
<1>8. PICK request : request = Collected(q)
  OBVIOUS
<1>9. PICK pending : pending = Waiting(q)
  OBVIOUS
<1>10. TurnOver(p, b, r, request, pending)
  BY <1>1, <1>2, TurnReads
<1>11. PICK x : x = Taken(p, request, pending)
  OBVIOUS
<1>12. x[1] = Collected(u) /\ x[2] = Waiting(u)
  BY <1>7, <1>8, <1>9, <1>11
<1>13. Turn([tail |-> WriteParam(p, b) \o r, request |-> request, pending |-> pending,
             returned |-> FALSE])
       = [tail |-> IF r = <<>> THEN <<>> ELSE Tail(r), request |-> x[1], pending |-> x[2],
          returned |-> r = <<>>]
  BY <1>10, <1>11 DEF TurnOver
<1>14. QED
  BY <1>2, <1>4, <1>5, <1>6, <1>8, <1>9, <1>12, <1>13 DEF RowOver

\* A turn that is not the last one.
LEMMA MidTurn ==
    ASSUME NEW params, NEW b, IsHeader(params, b), NEW rows, RowsOf(params, b, rows),
           NEW E \in Seq(Symbol), NEW n \in 1..Len(params) - 1
    PROVE  Turn(Mid(params, rows, E, n - 1)) = Mid(params, rows, E, n)
<1>1. PICK k : k = Len(params) - n
  OBVIOUS
<1>2. /\ k \in 0..Len(params) /\ k + 1 \in 1..Len(params) /\ k + 1 # 1 /\ n \in 1..Len(params)
      /\ (k + 1) - 1 = k /\ Len(params) - (n - 1) = k + 1 /\ Len(params) + 1 - (k + 1) = n
  BY <1>1, LenProperties DEF IsHeader
<1>3. PICK w \in Seq(Symbol) : w = WriteParam(params[n], b)
  BY <1>2, ParamText DEF IsHeader
<1>4. PICK t \in Seq(Symbol) : t = rows[k]
  BY <1>2 DEF RowsOf
<1>5. PICK c \in Seq(Symbol) : c = <<",">>
  BY Literals, OneSymbol
<1>6. rows[k + 1] = Cat(Cat(w, c), t)
  BY <1>2, <1>3, <1>4, <1>5 DEF RowsOf, Row, Cat
<1>7. PICK u \in Seq(Symbol) : u = Cat(t, E)
  BY CatType
<1>8. PICK r \in Seq(Symbol) : r = Cat(c, u) /\ r # <<>> /\ GoesOn(r) /\ Tail(r) = u
  BY <1>5, CommaFacts
<1>9. Cat(rows[k + 1], E) = w \o r
  <2>1. Cat(w, c) \in Seq(Symbol)
    BY CatType
  <2>2. Cat(Cat(Cat(w, c), t), E) = Cat(Cat(w, c), Cat(t, E))
    BY <2>1, CatAssoc
  <2>3. Cat(Cat(w, c), u) = Cat(w, Cat(c, u))
    BY CatAssoc
  <2>4. QED
    BY <1>6, <1>7, <1>8, <2>2, <2>3 DEF Cat
<1>10. PICK q : q = First(params, n)
  OBVIOUS
<1>11. PICK s : s = Mid(params, rows, E, n - 1)
  OBVIOUS
<1>12. s = [tail |-> w \o r, request |-> Collected(First(params, n - 1)),
            pending |-> Waiting(First(params, n - 1)), returned |-> FALSE]
  BY <1>2, <1>9, <1>11 DEF Mid
<1>13. Turn(s) = [tail |-> IF r = <<>> THEN <<>> ELSE Tail(r), request |-> Collected(q),
                  pending |-> Waiting(q), returned |-> r = <<>>]
  <2>1. RowOver(params, b, n, r)
    BY <1>2, <1>8, RowTurn
  <2>2. QED
    BY <1>3, <1>10, <1>12, <2>1 DEF RowOver
<1>14. Turn(s) = [tail |-> u, request |-> Collected(q), pending |-> Waiting(q), returned |-> FALSE]
  BY <1>8, <1>13
<1>15. QED
  BY <1>1, <1>4, <1>7, <1>10, <1>11, <1>14 DEF Mid

\* The turn over the last parameter.
LEMMA LastTurn ==
    ASSUME NEW params, NEW b, IsHeader(params, b), NEW rows, RowsOf(params, b, rows),
           NEW E, E = <<>> \/ Comma(E), Len(params) # 0
    PROVE  Turn(Mid(params, rows, E, Len(params) - 1))
           = [tail |-> <<>>, request |-> Collected(params), pending |-> Waiting(params),
              returned |-> E = <<>>]
<1>1. PICK n \in 1..Len(params) : n = Len(params) /\ Len(params) - (n - 1) = 1 /\ 1 \in 1..Len(params)
                                  /\ Len(params) + 1 - 1 = n
  BY LenProperties DEF IsHeader
<1>2. PICK w \in Seq(Symbol) : w = WriteParam(params[n], b)
  BY ParamText DEF IsHeader
<1>3. rows[1] = w
  <2>1. rows[1] = (w \o <<>>) \o <<>>
    <3>1. rows[1] = Row(params, b, 1) \o rows[1 - 1] /\ rows[1 - 1] = <<>>
      BY <1>1 DEF RowsOf
    <3>2. Row(params, b, 1) = w \o <<>>
      BY <1>1, <1>2 DEF Row
    <3>3. QED
      BY <3>1, <3>2
  <2>2. w \o <<>> = w
    BY ConcatEmptySeq
  <2>3. QED
    BY <2>1, <2>2
<1>4. First(params, n) = params
  BY <1>1, FirstFacts DEF IsHeader
<1>5. E \in Seq(Symbol) /\ GoesOn(E) /\ (E # <<>> => Tail(E) = <<>>)
  BY EndFacts
<1>6. PICK s : s = Mid(params, rows, E, n - 1)
  OBVIOUS
<1>7. s = [tail |-> w \o E, request |-> Collected(First(params, n - 1)),
           pending |-> Waiting(First(params, n - 1)), returned |-> FALSE]
  BY <1>1, <1>3, <1>6 DEF Mid, Cat
<1>8. PICK q : q = First(params, n)
  OBVIOUS
<1>9. Turn(s) = [tail |-> IF E = <<>> THEN <<>> ELSE Tail(E), request |-> Collected(q),
                 pending |-> Waiting(q), returned |-> E = <<>>]
  <2>1. RowOver(params, b, n, E)
    BY <1>5, RowTurn
  <2>2. QED
    BY <1>2, <1>7, <1>8, <2>1 DEF RowOver
<1>10. (IF E = <<>> THEN <<>> ELSE Tail(E)) = <<>>
  BY <1>5
<1>11. QED
  BY <1>1, <1>4, <1>6, <1>8, <1>9, <1>10

\* The turns up to the last parameter.
LEMMA TurnsOver ==
    ASSUME NEW params, NEW b, IsHeader(params, b), NEW rows, RowsOf(params, b, rows),
           NEW E \in Seq(Symbol), NEW turns, NEW m \in Nat, Len(params) <= m,
           turns[0] = Started(Cat(rows[Len(params)], E)),
           \A n \in 1..m : turns[n] = Turn(turns[n - 1])
    PROVE  \A n \in 0..Len(params) :
              n = 0 \/ n # Len(params) => turns[n] = Mid(params, rows, E, n)
<1>1. params \in Seq(Pair) /\ Len(params) \in Nat
  BY LenProperties DEF IsHeader
<1> DEFINE S == {n \in 0..Len(params) :
                   n = 0 \/ n # Len(params) => turns[n] = Mid(params, rows, E, n)}
<1>2. 0 \in S
  <2>1. ~HasRealm(<<>>) /\ <<>> \in Seq(Pair)
    <3>1. Len(<<>>) = 0 /\ 1..0 = {} /\ <<>> \in Seq(Pair)
      OBVIOUS
    <3>2. QED
      BY <3>1 DEF HasRealm
  <2>2. Collected(<<>>) = None /\ Waiting(<<>>) = <<>>
    BY <2>1, NoRequest DEF Waiting
  <2>3. First(params, 0) = <<>> /\ Len(params) - 0 = Len(params)
    BY <1>1, FirstFacts
  <2>4. turns[0] = Mid(params, rows, E, 0)
    BY <2>2, <2>3 DEF Mid, Started
  <2>5. QED
    BY <1>1, <2>4
<1>3. ASSUME NEW n \in 1..Len(params), n - 1 \in S
      PROVE  n \in S
  <2>1. CASE n = Len(params)
    BY <1>1, <2>1
  <2>2. CASE n # Len(params)
    <3>1. n \in 1..Len(params) - 1 /\ n \in 1..m /\ n - 1 # Len(params)
      BY <1>1, <2>2
    <3>2. turns[n - 1] = Mid(params, rows, E, n - 1)
      BY <1>3, <3>1
    <3>3. turns[n] = Turn(Mid(params, rows, E, n - 1))
      BY <3>1, <3>2
    <3>4. turns[n] = Mid(params, rows, E, n)
      BY <3>1, <3>3, MidTurn
    <3>5. QED
      BY <3>4
  <2>3. QED
    BY <2>1, <2>2
<1> HIDE DEF S
<1>4. \A n \in 0..Len(params) : n \in S
  BY <1>1, <1>2, <1>3, UpTo
<1>5. QED
  BY <1>4 DEF S

\* A run of the loop, and a state of it in which it has returned.
AreTurns(turns, m) == \A k \in 1..m : turns[k] = Turn(turns[k - 1])
Ended(turns, n, request) == \E tail, pending : turns[n] = State(tail, request, pending, TRUE)

\* After the turn that returns, nothing changes.
LEMMA TurnsStay ==
    ASSUME NEW turns, NEW m \in Nat, AreTurns(turns, m), NEW n \in 0..m, NEW request,
           Ended(turns, n, request)
    PROVE  turns[m].request = request
<1>0. PICK tail, pending : turns[n] = State(tail, request, pending, TRUE)
  BY DEF Ended
<1>1. PICK s : s = State(tail, request, pending, TRUE)
  OBVIOUS
<1>2. Turn(s) = s
  BY <1>1, TurnStays
<1> DEFINE S == {k \in 0..m - n : turns[n + k] = s}
<1>3. 0 \in S
  <2>1. 0 \in 0..m - n /\ n + 0 = n
    OBVIOUS
  <2>2. QED
    BY <1>0, <1>1, <2>1
<1>4. ASSUME NEW k \in 1..m - n, k - 1 \in S
      PROVE  k \in S
  <2>1. n + k \in 1..m /\ (n + k) - 1 = n + (k - 1) /\ k \in 0..m - n
    OBVIOUS
  <2>2. turns[n + k] = s
    BY <1>2, <1>4, <2>1 DEF AreTurns
  <2>3. QED
    BY <2>1, <2>2
<1>5. m - n \in Nat
  OBVIOUS
<1> HIDE DEF S
<1>6. \A k \in 0..m - n : k \in S
  BY <1>3, <1>4, <1>5, UpTo
<1>7. m - n \in S
  BY <1>5, <1>6
<1>8. turns[m] = s
  <2>1. n + (m - n) = m
    OBVIOUS
  <2>2. QED
    BY <1>7, <2>1 DEF S
<1>9. QED
  BY <1>1, <1>8 DEF State

\* The whole header, read to its end.
LEMMA HeaderRead ==
    ASSUME NEW params, NEW b, IsHeader(params, b), NEW E, E = <<>> \/ Comma(E)
    PROVE  BuildAuthRequest(Cat(WriteHeader(params, b), E))
           = IF E = <<>> THEN Collected(params) ELSE None
<1>1. PICK rows : RowsOf(params, b, rows) /\ WriteHeader(params, b) = <<"Bearer">> \o rows[Len(params)]
  BY HeaderFacts
<1>2. params \in Seq(Pair) /\ Len(params) \in Nat
  BY LenProperties DEF IsHeader
<1>3. E \in Seq(Symbol) /\ ~Contains(E, "=")
  BY EndFacts
<1>4. PICK row \in Seq(Symbol) : row = rows[Len(params)] /\ Len(params) <= Len(row)
  BY <1>1, <1>2 DEF RowsOf
<1>5. PICK tail \in Seq(Symbol) : tail = Cat(row, E) /\ Len(params) <= Len(tail)
  <2>1. Len(Cat(row, E)) = Len(row) + Len(E) /\ Cat(row, E) \in Seq(Symbol)
    BY <1>3, CatType, CatFacts
  <2>2. Len(row) \in Nat /\ Len(E) \in Nat
    BY <1>3, LenProperties
  <2>3. QED
    BY <1>2, <1>4, <2>1, <2>2
<1>6. BuildAuthRequest(Cat(WriteHeader(params, b), E)) = Loop(tail)
  <2>1. PICK c \in Symbol : c = "Bearer"
    BY Literals
  <2>2. <<c>> \in Seq(Symbol)
    OBVIOUS
  <2>3. Cat(WriteHeader(params, b), E) = Cat(<<c>>, tail)
    <3>1. WriteHeader(params, b) = Cat(<<c>>, row)
      BY <1>1, <1>4, <2>1 DEF Cat
    <3>2. Cat(Cat(<<c>>, row), E) = Cat(<<c>>, Cat(row, E))
      BY <1>3, <2>2, CatAssoc
    <3>3. QED
      BY <1>5, <3>1, <3>2
  <2>4. PICK h : h = Cat(<<c>>, tail)
    OBVIOUS
  <2>5. h # <<>> /\ Head(h) = c /\ Tail(h) = tail
    BY <2>4 DEF Cat
  <2>6. StripPrefix(h, "Bearer") = Some(tail)
    BY <2>1, <2>5 DEF StripPrefix
  <2>7. BuildAuthRequest(h) = Loop(tail)
    BY <2>6, OptionFacts DEF BuildAuthRequest
  <2>8. QED
    BY <2>3, <2>4, <2>7
<1>7. PICK turns : /\ turns[0] = Started(tail)
                   /\ \A n \in 1..Len(tail) + 1 : turns[n] = Turn(turns[n - 1])
                   /\ Loop(tail) = turns[Len(tail) + 1].request
  BY LoopFacts
<1>8. PICK m \in Nat : m = Len(tail) + 1 /\ Len(params) + 1 <= m
  BY <1>2, <1>5, LenProperties
<1>9. PICK result : result = IF E = <<>> THEN Collected(params) ELSE None
  OBVIOUS
<1>10. \E n \in 0..m : Ended(turns, n, result)
  <2>1. CASE Len(params) = 0
    <3>1. params = <<>>
      BY <1>2, <2>1, EmptySeq
    <3>2. Collected(params) = None
      <4>1. ~HasRealm(params)
        BY <2>1 DEF HasRealm
      <4>2. QED
        BY <1>2, <4>1, NoRequest
    <3>3. row = <<>> /\ tail = E
      <4>1. rows[0] = <<>>
        BY <1>1 DEF RowsOf
      <4>2. <<>> \o E = E
        BY <1>3, ConcatEmptySeq
      <4>3. QED
        BY <1>4, <1>5, <2>1, <4>1, <4>2 DEF Cat
    <3>4. Turn(Started(tail)) = State(tail, None, <<>>, TRUE)
      <4>1. ~Contains(tail, "=")
        BY <1>3, <3>3
      <4>2. Turn(State(tail, None, <<>>, FALSE)) = State(tail, None, <<>>, TRUE)
        BY <4>1, TurnFails
      <4>3. Started(tail) = State(tail, None, <<>>, FALSE)
        BY DEF Started, State
      <4>4. QED
        BY <4>2, <4>3
    <3>5. turns[1] = Turn(turns[0])
      <4>1. 1 \in 1..m /\ 1 - 1 = 0
        BY <1>8, <2>1
      <4>2. QED
        BY <1>7, <1>8, <4>1
    <3>6. turns[1] = State(tail, result, <<>>, TRUE)
      BY <1>7, <1>9, <3>2, <3>4, <3>5
    <3>7. 1 \in 0..m
      BY <1>8, <2>1
    <3>8. QED
      BY <3>6, <3>7 DEF Ended
  <2>2. CASE Len(params) # 0
    <3>0. PICK n \in Nat : n = Len(params) - 1
      BY <1>2, <2>2
    <3>1. /\ n = Len(params) - 1 /\ n + 1 = Len(params) /\ n \in 0..Len(params)
          /\ n # Len(params) /\ n + 1 \in 1..m /\ n + 2 \in 1..m
          /\ (n + 1) - 1 = n /\ (n + 2) - 1 = n + 1
      BY <1>2, <1>8, <3>0
    <3>2. turns[n] = Mid(params, rows, E, n)
      <4>1. /\ turns[0] = Started(Cat(rows[Len(params)], E)) /\ Len(params) <= m
            /\ \A k \in 1..m : turns[k] = Turn(turns[k - 1])
        BY <1>2, <1>4, <1>5, <1>7, <1>8
      <4>2. \A k \in 0..Len(params) : k = 0 \/ k # Len(params) => turns[k] = Mid(params, rows, E, k)
        BY <1>1, <1>3, <4>1, TurnsOver
      <4>3. QED
        BY <3>1, <4>2
    <3>3. PICK q : q = Collected(params)
      OBVIOUS
    <3>4. PICK w : w = Waiting(params)
      OBVIOUS
    <3>5. turns[n + 1] = State(<<>>, q, w, E = <<>>)
      <4>1. turns[n + 1] = Turn(turns[n])
        BY <1>7, <1>8, <3>1
      <4>2. Turn(Mid(params, rows, E, Len(params) - 1))
            = [tail |-> <<>>, request |-> Collected(params), pending |-> Waiting(params),
               returned |-> E = <<>>]
        BY <1>1, <2>2, LastTurn
      <4>3. QED
        BY <3>1, <3>2, <3>3, <3>4, <4>1, <4>2 DEF State
    <3>6. CASE E = <<>>
      <4>1. turns[n + 1] = State(<<>>, result, w, TRUE)
        BY <1>9, <3>3, <3>5, <3>6
      <4>2. n + 1 \in 0..m
        BY <3>1
      <4>3. QED
        BY <4>1, <4>2 DEF Ended
    <3>7. CASE E # <<>>
      <4>1. turns[n + 1] = State(<<>>, q, w, FALSE)
        BY <3>5, <3>7
      <4>2. <<>> \in Seq(Symbol) /\ ~Contains(<<>>, "=")
        <5>1. Len(<<>>) = 0 /\ 1..0 = {} /\ <<>> \in Seq(Symbol)
          OBVIOUS
        <5>2. QED
          BY <5>1 DEF Contains
      <4>3. Turn(State(<<>>, q, w, FALSE)) = State(<<>>, None, w, TRUE)
        BY <4>2, TurnFails
      <4>4. turns[n + 2] = Turn(turns[n + 1])
        BY <1>7, <1>8, <3>1
      <4>5. turns[n + 2] = State(<<>>, result, w, TRUE)
        BY <1>9, <3>7, <4>1, <4>3, <4>4
      <4>6. n + 2 \in 0..m
        BY <3>1
      <4>7. QED
        BY <4>5, <4>6 DEF Ended
    <3>8. QED
      BY <3>6, <3>7
  <2>3. QED
    BY <2>1, <2>2
<1>11. Loop(tail) = result
  <2>1. AreTurns(turns, m)
    BY <1>7, <1>8 DEF AreTurns
  <2>2. turns[m].request = result
    BY <1>10, <2>1, TurnsStay
  <2>3. QED
    BY <1>7, <1>8, <2>2
<1>12. QED
  BY <1>6, <1>9, <1>11

\* A challenge that is Readable has parameters that can be read.
LEMMA ReadableHeader ==
    ASSUME NEW params \in Seq(Pair), NEW b \in Seq(Symbol), Readable(params, b)
    PROVE  IsHeader(params, b)
<1>1. Blanks(b)
  BY DEF Readable, Blanks
<1>2. ASSUME NEW i \in 1..Len(params)
      PROVE  IsParam(params[i])
  <2>1. PICK p \in Pair : p = params[i]
    <3>1. params[i] \in Pair
      OBVIOUS
    <3>2. QED
      BY <3>1
  <2>2. PICK k \in Seq(Symbol) : k = p[1]
    BY DEF Pair
  <2>3. p[2] \in Seq(Symbol) /\ p = <<p[1], p[2]>>
    BY DEF Pair
  <2>4. /\ ~Contains(k, "=") /\ ~Contains(p[2], Quote)
        /\ \A j \in {1, Len(k)} \intersect DOMAIN k : k[j] # Blank
    <3>1. i \in DOMAIN params
      OBVIOUS
    <3>2. QED
      BY <2>1, <2>2, <3>1 DEF Readable
  <2>5. k # <<>> => k[1] # Blank /\ k[Len(k)] # Blank
    <3>1. SUFFICES ASSUME k # <<>> PROVE k[1] # Blank /\ k[Len(k)] # Blank
      OBVIOUS
    <3>2. Len(k) # 0 /\ Len(k) \in Nat /\ DOMAIN k = 1..Len(k)
      BY <3>1, EmptySeq, LenProperties
    <3>3. 1 \in DOMAIN k /\ Len(k) \in DOMAIN k
      BY <3>2
    <3>4. QED
      BY <2>4, <3>3
  <2>6. QED
    BY <2>1, <2>2, <2>3, <2>4, <2>5 DEF IsParam
<1>3. QED
  BY <1>1, <1>2 DEF IsHeader

\* With one realm at most nothing is dropped.
LEMMA CollectedAll ==
    ASSUME NEW params \in Seq(Pair), NEW b, Readable(params, b)
    PROVE  Collected(params) = RequestFor(params)
<1>1. CASE ~HasRealm(params)
  <2>1. Collected(params) = None
    BY <1>1, NoRequest
  <2>2. LastAt(params, Realms(params)) = 0
    <3>1. PICK S : S = Realms(params)
      OBVIOUS
    <3>2. \A i \in 1..Len(params) : params[i] \notin S
      BY <1>1, <3>1, RealmPlaces DEF HasRealm
    <3>3. QED
      BY <3>1, <3>2, LenProperties, NoPlace
  <2>3. QED
    BY <2>1, <2>2 DEF RequestFor
<1>2. CASE HasRealm(params)
  <2>1. PICK f, l \in 1..Len(params) :
               /\ params[f][1] = Realm /\ params[l][1] = Realm
               /\ \A i \in 1..Len(params) : params[i][1] = Realm => f <= i /\ i <= l
    BY <1>2, RealmsExist
  <2>2. f = l
    BY <2>1 DEF Readable
  <2>3. LastAt(params, Realms(params)) = l
    <3>1. PICK S : S = Realms(params)
      OBVIOUS
    <3>2. params[l] \in S /\ \A i \in 1..Len(params) : params[i] \in S => i <= l
      BY <2>1, <3>1, RealmPlaces
    <3>3. QED
      BY <3>1, <3>2, LenProperties, LastIs
  <2>4. Collected(params) = Some([url |-> params[l][2], query |-> Before(params, l) \o After(params, l)])
    BY <2>1, <2>2, RequestOf
  <2>5. l # 0
    OBVIOUS
  <2>6. QED
    BY <2>3, <2>4, <2>5 DEF RequestFor
<1>3. QED
  BY <1>1, <1>2

(***************************************************************************)
(* build_auth_request: a challenge of any number of parameters, one of     *)
(* them realm, and written as registries write it, is sent with all of     *)
(* them, wherever realm is; with a comma at its end it is refused.         *)
(***************************************************************************)
THEOREM ChallengeSent ==
    ASSUME NEW params \in Seq(Pair), NEW b \in Seq(Symbol)
    PROVE  ChallengeIsSent(params, b)
<1>1. SUFFICES ASSUME Readable(params, b)
               PROVE  /\ BuildAuthRequest(WriteHeader(params, b)) = RequestFor(params)
                      /\ BuildAuthRequest(WriteHeader(params, b) \o <<",">>) = None
  BY DEF ChallengeIsSent
<1>2. IsHeader(params, b)
  BY <1>1, ReadableHeader
<1>3. PICK h \in Seq(Symbol) : h = WriteHeader(params, b)
  <2>1. PICK rows : RowsOf(params, b, rows) /\ WriteHeader(params, b) = <<"Bearer">> \o rows[Len(params)]
    BY <1>2, HeaderFacts
  <2>2. PICK c \in Symbol : c = "Bearer"
    BY Literals
  <2>3. rows[Len(params)] \in Seq(Symbol)
    BY <2>1, LenProperties DEF RowsOf
  <2>4. <<c>> \in Seq(Symbol)
    OBVIOUS
  <2>5. Cat(<<c>>, rows[Len(params)]) \in Seq(Symbol)
    BY <2>3, <2>4, CatType
  <2>6. QED
    BY <2>1, <2>2, <2>5 DEF Cat
<1>4. BuildAuthRequest(h) = RequestFor(params)
  <2>1. PICK E : E = <<>>
    OBVIOUS
  <2>2. BuildAuthRequest(Cat(h, E)) = Collected(params)
    BY <1>2, <1>3, <2>1, HeaderRead
  <2>3. Cat(h, E) = h
    BY <2>1, ConcatEmptySeq DEF Cat
  <2>4. QED
    BY <1>1, <2>2, <2>3, CollectedAll
<1>5. BuildAuthRequest(h \o <<",">>) = None
  <2>1. PICK E : Comma(E)
    BY DEF Comma
  <2>2. E # <<>>
    BY <2>1, EndFacts
  <2>3. BuildAuthRequest(Cat(h, E)) = None
    BY <1>2, <1>3, <2>1, <2>2, HeaderRead
  <2>4. QED
    BY <2>1, <2>3 DEF Cat, Comma
<1>6. QED
  BY <1>3, <1>4, <1>5
-----------------------------------------------------------------------------
(* The behaviours of MCParsers: what is parsed in them is text. *)

InputsAreTexts == /\ text \in Seq(Symbol)
                  /\ kind = "composed" => ArePartsOf(parts)
                  /\ kind = "challenge" => parts \in Seq(Pair)

\* A composed reference, and a list of parameters.
LEMMA ComposedIsText ==
    ASSUME NEW c \in Composed
    PROVE  ArePartsOf(c) /\ ComposedText(c) \in Seq(Symbol)
<1>1. PICK reg \in Seq(Symbol) : reg = c.registry
  BY InputSymbols DEF Composed
<1>2. PICK repo \in Seq(Symbol) : repo = c.repository
  BY InputSymbols DEF Composed
<1>3. IsOption(c.tag) /\ IsOption(c.digest)
  <2>1. c.tag \in Tags \union Digests /\ c.digest \in Tags \union Digests
    BY DEF Composed
  <2>2. \A t \in Tags \union Digests : t = None \/ (t = Some(t[1]) /\ t[1] \in Seq(Symbol))
    BY InputSymbols
  <2>3. QED
    BY <2>1, <2>2 DEF IsOption
<1>4. PICK loc \in Seq(Symbol) : loc = IF reg = <<>> THEN repo ELSE reg \o <<"/">> \o repo
  <2>1. reg \o <<"/">> \o repo \in Seq(Symbol)
    BY ContainsJoined, Literals
  <2>2. QED
    BY <2>1
<1>5. PICK u \in Seq(Symbol) : u = loc \o (IF c.tag = None THEN <<>> ELSE <<":">> \o c.tag[1])
  BY <1>3, AddOption, Literals DEF Added
<1>6. PICK v \in Seq(Symbol) : v = u \o (IF c.digest = None THEN <<>> ELSE <<"@">> \o c.digest[1])
  BY <1>3, AddOption, Literals DEF Added
<1>7. ComposedText(c) = v
  BY <1>1, <1>2, <1>4, <1>5, <1>6 DEF ComposedText
<1>8. QED
  BY <1>1, <1>2, <1>3, <1>7 DEF ArePartsOf

LEMMA ChallengesAreLists == ASSUME NEW c \in Challenges PROVE c \in Seq(Pair)
<1>1. PICK n \in 0..3 : c \in [1..n -> Params]
  BY DEF Challenges
<1>2. Params \subseteq Pair
  BY InputSymbols DEF Pair
<1>3. c \in [1..n -> Pair]
  BY <1>1, <1>2
<1>4. QED
  BY <1>3

\* What a behaviour types, and what it puts a reference or a challenge together from, is
\* text: the theorems above are about it.
THEOREM InputsCorrect == Spec => []InputsAreTexts
<1>1. Init => InputsAreTexts
  <2>1. SUFFICES ASSUME Init PROVE InputsAreTexts
    OBVIOUS
  <2>2. CASE kind \in {"reference", "digest"} /\ text \in Start[kind]
    <3>1. kind \in DOMAIN Alphabet /\ kind # "composed" /\ kind # "challenge"
      BY <2>2 DEF Alphabet
    <3>2. Start[kind] \subseteq Seq(Symbol)
      BY <3>1, InputSymbols
    <3>3. QED
      BY <2>2, <3>1, <3>2 DEF InputsAreTexts
  <2>3. CASE kind = "composed" /\ parts \in Composed /\ text = ComposedText(parts)
    <3>1. kind # "challenge"
      BY <2>3
    <3>2. QED
      BY <2>3, <3>1, ComposedIsText DEF InputsAreTexts
  <2>4. CASE kind = "challenge" /\ parts \in Challenges /\ text \in {<<>>, <<Blank>>}
    <3>1. kind # "composed"
      BY <2>4
    <3>2. <<>> \in Seq(Symbol) /\ <<Blank>> \in Seq(Symbol)
      <4>1. PICK c \in Symbol : c = Blank
        BY Literals
      <4>2. <<>> \in Seq(Symbol) /\ <<c>> \in Seq(Symbol)
        OBVIOUS
      <4>3. QED
        BY <4>1, <4>2
    <3>3. QED
      BY <2>4, <3>1, <3>2, ChallengesAreLists DEF InputsAreTexts
  <2>5. QED
    BY <2>1, <2>2, <2>3, <2>4 DEF Init
<1>2. InputsAreTexts /\ [Type]_vars => InputsAreTexts'
  <2>1. SUFFICES ASSUME InputsAreTexts, [Type]_vars PROVE InputsAreTexts'
    OBVIOUS
  <2>2. CASE Type
    <3>1. PICK c \in Alphabet[kind] : text' = Append(text, c)
      BY <2>2 DEF Type
    <3>2. kind \in DOMAIN Alphabet /\ UNCHANGED <<kind, parts>>
      BY <2>2 DEF Type
    <3>3. c \in Symbol /\ text \in Seq(Symbol)
      BY <2>1, <3>2, InputSymbols DEF InputsAreTexts
    <3>4. text' \in Seq(Symbol)
      BY <3>1, <3>3, AppendProperties
    <3>5. QED
      BY <2>1, <3>2, <3>4 DEF InputsAreTexts
  <2>3. CASE UNCHANGED vars
    BY <2>1, <2>3 DEF InputsAreTexts, vars
  <2>4. QED
    BY <2>1, <2>2, <2>3
<1>3. QED
  BY <1>1, <1>2, PTL DEF Spec

\* check_hash, Digest::try_from: in every behaviour, the bytes that are accepted are
\* those that the digest spells.
THEOREM DigestsExact == Spec => []DigestsAreExact
<1>1. InputsAreTexts => DigestsAreExact
  <2>1. SUFFICES ASSUME InputsAreTexts, NEW n \in {1, 2}, NEW out \in [1..n -> Bytes]
                 PROVE  DigestIsExact(text, out)
    BY DEF DigestsAreExact
  <2>2. Bytes \subseteq Byte
    BY DEF Bytes, Byte
  <2>3. out \in [1..n -> Byte] /\ n \in Nat
    BY <2>2
  <2>4. out \in Seq(Byte)
    BY <2>3
  <2>5. QED
    BY <2>1, <2>4, DigestComparisonExact DEF InputsAreTexts
<1>2. QED
  BY <1>1, InputsCorrect, PTL

\* Reference::try_from: in every behaviour, the defaults may be written down.
THEOREM ReferencesStable == Spec => []ReferencesAreStable
<1>1. InputsAreTexts => ReferencesAreStable
  BY DefaultsNeutral DEF InputsAreTexts, ReferencesAreStable
<1>2. QED
  BY <1>1, InputsCorrect, PTL

\* Reference::try_from: in every behaviour, the parts of a reference that is put
\* together as documented are found again.
THEOREM PartsFoundAgain == Spec => []PartsAreFound
<1>1. InputsAreTexts => PartsAreFound
  BY DocumentedPartsFound DEF InputsAreTexts, PartsAreFound
<1>2. QED
  BY <1>1, InputsCorrect, PTL

\* build_auth_request: in every behaviour, no parameter of a challenge with one realm
\* is lost.
THEOREM ChallengesSent == Spec => []ChallengesAreSent
<1>1. InputsAreTexts => ChallengesAreSent
  BY ChallengeSent DEF InputsAreTexts, ChallengesAreSent
<1>2. QED
  BY <1>1, InputsCorrect, PTL
=============================================================================
