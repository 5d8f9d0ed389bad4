--------------------------- MODULE ManifestsProofs ---------------------------
(***************************************************************************)
(* Proofs about Manifests, for any registry: any documents, any indices    *)
(* that do not contain themselves, any list of platforms.                  *)
(***************************************************************************)
EXTENDS Manifests, SequenceTheorems, TLAPS

USE NamesAssumption, ImagesAssumption, IndexAssumption, RankAssumption

\* What is requested next: the reference, then what the last index lists.
TagInv == IF path = <<>> THEN tag = reference
                         ELSE tag \in Docs /\ FirstListed(path[Len(path)], tag)

\* The indices that were followed are a chain from the reference.
PathInv == /\ path # <<>> /\ reference # Tag => path[1] = reference
           /\ \A i \in 1..Len(path) - 1 : FirstListed(path[i], path[i + 1])

\* The manifest is the document that was requested, unless that was by a tag.
OutcomeInv == outcome \in Docs /\ tag # Tag => outcome = tag

\* Each index contains the next ones, and what is requested.
RankInv == /\ \A i, j \in 1..Len(path) : i < j => Rank[path[j]] < Rank[path[i]]
           /\ \A i \in 1..Len(path) : tag \in Docs /\ Rank[tag] < Rank[path[i]]

IndInv == TypeOK /\ TagInv /\ PathInv /\ OutcomeInv /\ RankInv
-----------------------------------------------------------------------------
\* Nothing was requested yet.
LEMMA IndInit == Init => IndInv
<1> SUFFICES ASSUME Init PROVE IndInv
  OBVIOUS
<1>1. path \in Seq(DOMAIN Index) /\ Len(path) = 0 /\ path = <<>>
  BY EmptySeq DEF Init
<1>2. TypeOK
  BY <1>1 DEF Init, TypeOK
<1>3. TagInv /\ PathInv /\ OutcomeInv /\ RankInv
  BY <1>1 DEF Init, TagInv, PathInv, OutcomeInv, RankInv
<1>4. QED
  BY <1>2, <1>3 DEF IndInv

\* The loop ends with an error.
LEMMA ErrorStep ==
    ASSUME IndInv, NEW e \in Errors, Return(e)
    PROVE  IndInv'
<1>1. TypeOK'
  BY DEF IndInv, TypeOK, Return
<1>2. TagInv' /\ PathInv'
  BY DEF IndInv, TagInv, PathInv, FirstListed, Return
<1>3. OutcomeInv'
  BY DEF OutcomeInv, Return
<1>4. RankInv'
  BY DEF IndInv, RankInv, Return
<1>5. QED
  BY <1>1, <1>2, <1>3, <1>4 DEF IndInv

\* The loop ends with a manifest.
LEMMA ManifestStep ==
    ASSUME IndInv, NEW type, NEW d \in Docs, ReturnManifest(type, d)
    PROVE  IndInv'
<1>1. TypeOK'
  BY DEF IndInv, TypeOK, ReturnManifest, Return
<1>2. TagInv' /\ PathInv'
  BY DEF IndInv, TagInv, PathInv, FirstListed, ReturnManifest, Return
<1>3. OutcomeInv'
  BY DEF OutcomeInv, ReturnManifest, Verified, Return
<1>4. RankInv'
  BY DEF IndInv, RankInv, ReturnManifest, Return
<1>5. QED
  BY <1>1, <1>2, <1>3, <1>4 DEF IndInv

\* The body is an index, and the document that it lists is requested.
LEMMA IndexStep ==
    ASSUME IndInv, NEW d \in DOMAIN Index, Verified(d), Requesting,
           NEW i \in Select(d, platform), Index[d][i].digest # Invalid,
           tag' = Index[d][i].digest, path' = Append(path, d),
           UNCHANGED <<platform, reference, outcome>>
    PROVE  IndInv'
<1> DEFINE n == Len(path)
<1>1. /\ path \in Seq(DOMAIN Index) /\ n \in Nat /\ d \in Docs
      /\ path = <<>> <=> n = 0
  BY EmptySeq, LenProperties DEF IndInv, TypeOK
<1>2. /\ path' \in Seq(DOMAIN Index) /\ path' # <<>> /\ Len(path') = n + 1
      /\ \A k \in 1..n : path'[k] = path[k]
      /\ path'[n + 1] = d
  BY <1>1, AppendProperties
<1>3. /\ i \in DOMAIN Index[d] /\ Index[d][i].platform = platform
      /\ \A j \in 1..i - 1 : Index[d][j].platform # platform
  BY DEF Select
<1>4. Index[d][i] \in Listed
  <2>1. Index[d] \in Seq(Listed)
    OBVIOUS
  <2>2. QED
    BY <1>3, <2>1, LenProperties, ElementOfSeq
<1>5. tag' \in Docs /\ Index[d][i] = [platform |-> platform, digest |-> tag']
  BY <1>3, <1>4 DEF Listed
<1>6. FirstListed(d, tag)'
  BY <1>3, <1>5 DEF FirstListed
<1>7. Rank[tag'] < Rank[d] /\ Rank[tag'] \in Nat /\ Rank[d] \in Nat
  BY <1>1, <1>3, <1>5
<1>8. tag # Tag => d = tag
  BY DEF Verified
<1>9. n > 0 => tag \in Docs /\ tag # Tag
  BY <1>1 DEF IndInv, TagInv
<1> HIDE DEF n
<1>10. TypeOK'
  BY <1>2, <1>5 DEF IndInv, TypeOK
<1>11. TagInv'
  BY <1>1, <1>2, <1>5, <1>6 DEF TagInv
<1>12. PathInv'
  <2>1. n = 0 /\ reference # Tag => d = reference
    BY <1>1, <1>8 DEF IndInv, TagInv
  <2>2. reference # Tag => path'[1] = reference
    BY <1>1, <1>2, <2>1 DEF IndInv, PathInv, n
  <2>3. ASSUME NEW k \in 1..n PROVE FirstListed(path[k], path[k + 1])'
    <3>1. CASE k = n
      <4>1. path'[k] = path[n] /\ path'[k + 1] = tag
        BY <1>1, <1>2, <1>8, <1>9, <2>3, <3>1
      <4>2. FirstListed(path[n], tag)
        BY <1>1, <2>3 DEF IndInv, TagInv, n
      <4>3. QED
        BY <4>1, <4>2 DEF FirstListed
    <3>2. CASE k # n
      <4>1. path'[k] = path[k] /\ path'[k + 1] = path[k + 1] /\ k \in 1..n - 1
        BY <1>1, <1>2, <2>3, <3>2
      <4>2. FirstListed(path[k], path[k + 1])
        BY <4>1 DEF IndInv, PathInv, n
      <4>3. QED
        BY <4>1, <4>2 DEF FirstListed
    <3>3. QED
      BY <3>1, <3>2
  <2>4. QED
    BY <1>1, <1>2, <2>2, <2>3 DEF PathInv
<1>13. OutcomeInv'
  BY DEF Requesting, OutcomeInv
<1>14. RankInv'
  <2>1. ASSUME NEW k \in 1..n PROVE Rank[d] < Rank[path[k]] /\ Rank[path[k]] \in Nat
    <3>1. path[k] \in Docs
      BY <1>1, ElementOfSeq DEF n
    <3>2. tag = d
      BY <1>1, <1>8, <1>9, <2>1
    <3>3. QED
      BY <3>1, <3>2 DEF IndInv, RankInv, n
  <2>2. \A k \in 1..n + 1 : Rank[tag'] < Rank[path'[k]]
    BY <1>1, <1>2, <1>7, <2>1
  <2>3. ASSUME NEW k \in 1..n + 1, NEW l \in 1..n + 1, k < l
        PROVE  Rank[path'[l]] < Rank[path'[k]]
    <3>1. CASE l = n + 1
      BY <1>1, <1>2, <2>1, <2>3, <3>1
    <3>2. CASE l # n + 1
      <4>1. k \in 1..n /\ l \in 1..n
        BY <1>1, <2>3, <3>2
      <4>2. QED
        BY <1>2, <2>3, <4>1 DEF IndInv, RankInv, n
    <3>3. QED
      BY <3>1, <3>2
  <2>4. QED
    BY <1>2, <1>5, <2>2, <2>3 DEF RankInv
<1>15. QED
  BY <1>10, <1>11, <1>12, <1>13, <1>14 DEF IndInv

\* Every action preserves IndInv.
LEMMA IndStep == IndInv /\ [Next]_vars => IndInv'
<1> SUFFICES ASSUME IndInv, [Next]_vars PROVE IndInv'
  OBVIOUS
<1>1. CASE RequestFails
  BY <1>1, ErrorStep DEF RequestFails, Errors
<1>2. CASE UNCHANGED vars
  <2>1. TypeOK'
    BY <1>2 DEF IndInv, TypeOK, vars
  <2>2. TagInv' /\ PathInv'
    BY <1>2 DEF IndInv, TagInv, PathInv, FirstListed, vars
  <2>3. OutcomeInv' /\ RankInv'
    BY <1>2 DEF IndInv, OutcomeInv, RankInv, vars
  <2>4. QED
    BY <2>1, <2>2, <2>3 DEF IndInv
<1>3. ASSUME NEW type \in ContentTypes, NEW body \in Docs,
             \/ BadContentType(type, body) \/ BadBody(type, body)
             \/ FollowIndex(type, body) \/ ReturnManifest(type, body)
      PROVE  IndInv'
  <2>1. CASE BadContentType(type, body)
    BY <2>1, ErrorStep DEF BadContentType, Errors
  <2>2. CASE BadBody(type, body)
    BY <2>2, ErrorStep DEF BadBody, Errors
  <2>3. CASE ReturnManifest(type, body)
    <3>1. body \in Docs
      BY <2>3 DEF ReturnManifest
    <3>2. QED
      BY <2>3, <3>1, ManifestStep
  <2>4. CASE FollowIndex(type, body)
    <3>1. CASE Return("architecture") \/ Return("digest")
      BY <3>1, ErrorStep DEF Errors
    <3>2. CASE ~(Return("architecture") \/ Return("digest"))
      BY <2>4, <3>2, IndexStep DEF FollowIndex
    <3>3. QED
      BY <3>1, <3>2
  <2>5. QED
    BY <1>3, <2>1, <2>2, <2>3, <2>4
<1>4. QED
  BY <1>1, <1>2, <1>3 DEF Next, Returned
-----------------------------------------------------------------------------
\* The invariant behind the theorems below.
LEMMA Invariant == Spec => []IndInv
BY IndInit, IndStep, PTL DEF Spec

\* The variables stay in their types: only digests are requested and only
\* manifests are returned.
THEOREM TypeCorrect == Spec => []TypeOK
<1>1. IndInv => TypeOK
  BY DEF IndInv
<1>2. QED
  BY <1>1, Invariant, PTL

\* Whatever the registry sends, every document that is accepted is the one that
\* the reference, or the index before it, names.
THEOREM ChainOfDigests == Spec => []ChainIsVerified
<1>1. ASSUME IndInv PROVE ChainIsVerified
  <2> DEFINE n == Len(path)
  <2>1. /\ path \in Seq(DOMAIN Index) /\ n \in Nat /\ (path = <<>> <=> n = 0)
        /\ path \in Seq(Docs)
    BY <1>1, EmptySeq, LenProperties, SeqMonotonic DEF IndInv, TypeOK
  <2>2. CASE outcome \in Docs
    <3>1. /\ Chain = Append(path, outcome) /\ Len(Chain) = n + 1
          /\ \A k \in 1..n : Chain[k] = path[k]
          /\ Chain[n + 1] = outcome
      BY <2>1, <2>2, AppendProperties DEF Chain
    <3>2. tag # Tag => outcome = tag
      BY <1>1, <2>2 DEF IndInv, OutcomeInv
    <3>3. n > 0 => FirstListed(path[n], outcome)
      BY <1>1, <2>1, <3>2 DEF IndInv, TagInv
    <3>4. n = 0 /\ reference # Tag => outcome = reference
      BY <1>1, <2>1, <3>2 DEF IndInv, TagInv
    <3>5. n > 0 /\ reference # Tag => path[1] = reference
      BY <1>1, <2>1 DEF IndInv, PathInv
    <3>6. \A k \in 1..n - 1 : FirstListed(path[k], path[k + 1])
      BY <1>1 DEF IndInv, PathInv
    <3> HIDE DEF n
    <3>7. reference # Tag => Chain[1] = reference
      BY <2>1, <3>1, <3>4, <3>5
    <3>8. ASSUME NEW k \in 1..Len(Chain) - 1 PROVE FirstListed(Chain[k], Chain[k + 1])
      <4>1. CASE k = n
        BY <2>1, <3>1, <3>3, <4>1
      <4>2. CASE k # n
        BY <2>1, <3>1, <3>6, <4>2
      <4>3. QED
        BY <4>1, <4>2
    <3>9. QED
      BY <3>7, <3>8 DEF ChainIsVerified
  <2>3. CASE outcome \notin Docs
    BY <1>1, <2>3 DEF IndInv, PathInv, ChainIsVerified, Chain
  <2>4. QED
    BY <2>2, <2>3
<1>2. QED
  BY <1>1, Invariant, PTL

\* The client follows no index twice, so the loop ends for any finite set of
\* documents.
THEOREM NeverTwice == Spec => []NoIndexTwice
<1>1. ASSUME IndInv PROVE NoIndexTwice
  <2>1. path \in Seq(Docs) /\ Len(path) \in Nat
    BY <1>1, SeqMonotonic, LenProperties DEF IndInv, TypeOK
  <2>2. ASSUME NEW i \in 1..Len(path), NEW j \in 1..Len(path), i < j PROVE path[i] # path[j]
    <3>1. Rank[path[j]] < Rank[path[i]]
      BY <1>1, <2>2 DEF IndInv, RankInv
    <3>2. Rank[path[i]] \in Nat
      BY <2>1, ElementOfSeq
    <3>3. QED
      BY <3>1, <3>2
  <2>3. QED
    BY <2>1, <2>2 DEF NoIndexTwice
<1>2. QED
  BY <1>1, Invariant, PTL
=============================================================================
