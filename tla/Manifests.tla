------------------------------ MODULE Manifests ------------------------------
(***************************************************************************)
(* src/manifests.rs, function get: from a reference, a tag or a digest, to *)
(* the manifest of the image for a platform.  The registry answers with a  *)
(* manifest or with an index, and an index is followed by its digest.      *)
(*                                                                         *)
(* The registry is external: it may answer any request with any document   *)
(* and any content type.  A document is named by its digest, and it can't  *)
(* contain its own digest: Rank orders the documents by what they contain. *)
(* serde ignores the fields that it does not know, so that a document may  *)
(* be both an index and a manifest, or none of them.                       *)
(***************************************************************************)
EXTENDS Integers, Sequences

CONSTANTS Docs,       \* documents that the registry may send
          Index,      \* those that can be read as an index, with their list of manifests
          Images,     \* those that can be read as a manifest
          Rank,       \* depth of a document
          Platforms,  \* pairs architecture/os
          Tag,        \* the tag of the reference
          Invalid     \* a string that is not a digest

Listed == [platform : Platforms, digest : Docs \union {Invalid}]

Errors == {"http", "content_type", "json", "architecture", "digest"}

ASSUME NamesAssumption == ({Tag, Invalid, "none"} \union Errors) \intersect Docs = {}
ASSUME ImagesAssumption == Images \subseteq Docs
ASSUME IndexAssumption ==
    /\ DOMAIN Index \subseteq Docs
    /\ \A d \in DOMAIN Index : Index[d] \in Seq(Listed)
ASSUME RankAssumption ==
    /\ Rank \in [Docs -> Nat]
    /\ \A d \in DOMAIN Index : \A i \in DOMAIN Index[d] :
          Index[d][i].digest \in Docs => Rank[Index[d][i].digest] < Rank[d]

IndexTypes   == {"DockerManifestList", "OciImageIndex"}
ManifestTypes == {"DockerManifestV2", "OciManifestV1"}
ContentTypes == IndexTypes \union ManifestTypes \union {"missing", "other"}

VARIABLES platform,   \* architecture and os
          reference,  \* reference.digest, or Tag if it is None
          tag,        \* what is requested: Tag or a digest
          path,       \* history: the indices that were followed
          outcome     \* "none", an error, or the manifest

vars == <<platform, reference, tag, path, outcome>>

Init == /\ platform \in Platforms
        /\ reference \in Docs \union {Tag}
        /\ tag = reference
        /\ path = <<>>
        /\ outcome = "none"

\* Fault: the body is not wrapped in a DigestReader.
VerifiedNever(body) == TRUE

\* The body of a document requested by its digest goes through a DigestReader.
Verified(body) == tag = Tag \/ body = tag

\* Fault: the first manifest is taken for any platform.
SelectFirst(d, p) == {1} \intersect DOMAIN Index[d]

\* parse_index takes the first manifest for the platform, if there is one.
Select(d, p) == {i \in DOMAIN Index[d] : /\ Index[d][i].platform = p
                                         /\ \A j \in 1..i - 1 : Index[d][j].platform # p}

Return(r) == outcome' = r /\ UNCHANGED <<platform, reference, tag, path>>

Requesting == outcome = "none"

RequestFails == Requesting /\ Return("http")

\* The header is missing, is not a media type, or is that of something else.
BadContentType(type, body) == /\ Requesting
                              /\ type \in {"missing", "other"}
                              /\ Return("content_type")

\* The body is not what the header says, or its digest is wrong.
BadBody(type, body) ==
    /\ Requesting
    /\ \/ type \in IndexTypes /\ body \notin DOMAIN Index
       \/ type \in ManifestTypes /\ body \notin Images
       \/ type \in IndexTypes \union ManifestTypes /\ ~Verified(body)
    /\ Return("json")

\* Fault: the string in the index is used with no Digest::try_from.
FollowUnparsed(type, body) ==
    /\ Requesting
    /\ type \in IndexTypes
    /\ body \in DOMAIN Index
    /\ Verified(body)
    /\ \E i \in Select(body, platform) : tag' = Index[body][i].digest
    /\ path' = Append(path, body)
    /\ UNCHANGED <<platform, reference, outcome>>

FollowIndex(type, body) ==
    /\ Requesting
    /\ type \in IndexTypes
    /\ body \in DOMAIN Index
    /\ Verified(body)
    /\ \/ Select(body, platform) = {} /\ Return("architecture")
       \/ \E i \in Select(body, platform) :
             IF Index[body][i].digest = Invalid THEN Return("digest")
             ELSE /\ tag' = Index[body][i].digest
                  /\ path' = Append(path, body)
                  /\ UNCHANGED <<platform, reference, outcome>>

ReturnManifest(type, body) == /\ Requesting
                              /\ type \in ManifestTypes
                              /\ body \in Images
                              /\ Verified(body)
                              /\ Return(body)

Returned == ~Requesting /\ UNCHANGED vars

Next == \/ RequestFails
        \/ \E type \in ContentTypes, body \in Docs :
              \/ BadContentType(type, body)
              \/ BadBody(type, body)
              \/ FollowIndex(type, body)
              \/ ReturnManifest(type, body)
        \/ Returned

Spec == Init /\ [][Next]_vars
-----------------------------------------------------------------------------
(* Properties. *)

TypeOK == /\ platform \in Platforms
          /\ reference \in Docs \union {Tag}
          /\ tag \in Docs \union {Tag}
          /\ path \in Seq(DOMAIN Index)
          /\ outcome \in Errors \union {"none"} \union Images

\* The documents that were accepted, from the first index to the manifest.
Chain == IF outcome \in Docs THEN Append(path, outcome) ELSE path

\* e is the first document that the index d lists for the platform.
FirstListed(d, e) ==
    \E i \in DOMAIN Index[d] : /\ Index[d][i] = [platform |-> platform, digest |-> e]
                               /\ \A j \in 1..i - 1 : Index[d][j].platform # platform

\* Every document is the one that the previous one lists for the platform, and
\* the first one is that of the reference if it has a digest: whatever the
\* registry sends, a digest in the reference decides the manifest.
ChainIsVerified ==
    /\ Chain # <<>> /\ reference # Tag => Chain[1] = reference
    /\ \A i \in 1..Len(Chain) - 1 : FirstListed(Chain[i], Chain[i + 1])

\* The registry can't keep the client in the loop: it never follows an index
\* twice, because each document is contained in the previous one.
NoIndexTwice == \A i, j \in 1..Len(path) : path[i] = path[j] => i = j
=============================================================================
