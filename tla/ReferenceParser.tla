-------------------------- MODULE ReferenceParser ---------------------------
(***************************************************************************)
(* src/reference/parser.rs and the Repository of src/reference/mod.rs: a   *)
(* reference is split at its last @, then at the last : unless a / follows *)
(* it, then at the first / if there is a dot before it.                    *)
(***************************************************************************)
EXTENDS Text, Digest

DefaultRegistry  == <<"registry-1", ".", "docker", ".", "io">>
DefaultNamespace == <<"library">>
DefaultTag       == <<"latest">>

ASSUME ReferenceSymbols ==
    {".", ":", "/", "@", "registry-1", "docker", "io", "library", "latest"} \subseteq Symbol

\* Repository::full and Repository::components
Full(name)           == [kind |-> "full", namespace |-> <<>>, name |-> name]
Components(ns, name) == [kind |-> "components", namespace |-> ns, name |-> name]

\* Fault: the name of a full repository is not split.
NameWhole(r) == r.name

\* Repository::name and Repository::namespace
Name(r) == IF r.kind = "full" /\ Contains(r.name, "/") THEN SplitOnce(r.name, "/")[1][2]
           ELSE r.name
Namespace(r) == IF r.kind = "components" THEN Some(r.namespace)
                ELSE IF Contains(r.name, "/") THEN Some(SplitOnce(r.name, "/")[1][1])
                ELSE None

\* Repository as text.
Display(r) == IF r.kind = "full" THEN r.name ELSE r.namespace \o <<"/">> \o r.name

\* The digest after the last @.
DigestOf(text) == LET at == RSplitOnce(text, "@")
                  IN  IF at = None THEN <<text, None>> ELSE <<at[1][1], Some(at[1][2])>>

\* Fault: a port is taken for a tag.
TagOfAny(base) == LET colon == RSplitOnce(base, ":")
                  IN  IF colon # None THEN colon[1] ELSE <<base, DefaultTag>>

\* The tag after the last :, unless it is the port of the registry.
TagOf(base) == LET colon == RSplitOnce(base, ":")
               IN  IF colon # None /\ ~Contains(colon[1][2], "/") THEN colon[1]
                   ELSE <<base, DefaultTag>>

\* The registry and the repository.
LocationOf(base) ==
    LET slash == SplitOnce(base, "/")
    IN  IF slash = None THEN <<DefaultRegistry, Components(DefaultNamespace, base)>>
        ELSE IF Contains(slash[1][1], ".") THEN <<slash[1][1], Full(slash[1][2])>>
        ELSE <<DefaultRegistry, Full(base)>>

\* parse: None stands for both errors, InvalidDigest and MissingRepository.
Parse(text) ==
    LET at == DigestOf(text)
        tagged == TagOf(at[1])
        location == LocationOf(tagged[1])
    IN  IF at[2] # None /\ ~Accepted(at[2][1]) THEN None
        ELSE IF Name(location[2]) = <<>> THEN None
        ELSE Some([registry |-> location[1], repository |-> location[2],
                   tag |-> tagged[2], digest |-> at[2]])
-----------------------------------------------------------------------------
\* Every part of a reference written down, the defaults included.
Written(r) == r.registry \o <<"/">> \o Display(r.repository) \o <<":">> \o r.tag
              \o (IF r.digest = None THEN <<>> ELSE <<"@">> \o r.digest[1])

\* The same image: Components(a, b) and Full(a/b) are the same repository.
SameImage(r, s) == /\ r.registry = s.registry /\ r.tag = s.tag /\ r.digest = s.digest
                   /\ Display(r.repository) = Display(s.repository)
                   /\ Name(r.repository) = Name(s.repository)
                   /\ Namespace(r.repository) = Namespace(s.repository)

\* "debian is parsed as registry-1.docker.io/library/debian": whatever the
\* separators in it, a reference that is accepted and the same reference with
\* its defaults written down are one image.
DefaultsAreNeutral(text) ==
    LET r == Parse(text)
    IN  r # None => /\ Parse(Written(r[1])) # None
                    /\ SameImage(r[1], Parse(Written(r[1]))[1])

\* References as they are documented: the parts c of a reference, where the registry
\* (<<>> if there is none), the tag and the digest may be left out.  The registry has a
\* dot, and may have a port; a repository with no registry has no dot before a slash.
Free(s, S) == \A i \in DOMAIN s : s[i] \notin S

Documented(c) ==
    /\ c.registry # <<>> => Contains(c.registry, ".") /\ Free(c.registry, {"/", "@"})
    /\ Name(Full(c.repository)) # <<>> /\ Free(c.repository, {":", "@"})
    /\ c.registry = <<>> =>
          Namespace(Full(c.repository)) = None \/ Free(Namespace(Full(c.repository))[1], {"."})
    /\ c.tag # None => Free(c.tag[1], {":", "/", "@"})
    /\ c.digest # None => Accepted(c.digest[1]) /\ Free(c.digest[1], {"@"})

ComposedText(c) ==
    (IF c.registry = <<>> THEN c.repository ELSE c.registry \o <<"/">> \o c.repository)
    \o (IF c.tag = None THEN <<>> ELSE <<":">> \o c.tag[1])
    \o (IF c.digest = None THEN <<>> ELSE <<"@">> \o c.digest[1])

\* "close to what docker pull does": the parts that a reference is put together from
\* are found again, and only an image of Docker Hub with no namespace is in library.
PartsFound(c) ==
    \E r \in {Parse(ComposedText(c))} :
        /\ r # None
        /\ r[1].registry = (IF c.registry = <<>> THEN DefaultRegistry ELSE c.registry)
        /\ Display(r[1].repository) =
              (IF c.registry = <<>> /\ ~Contains(c.repository, "/")
               THEN DefaultNamespace \o <<"/">> ELSE <<>>) \o c.repository
        /\ r[1].tag = (IF c.tag = None THEN DefaultTag ELSE c.tag[1])
        /\ r[1].digest = c.digest
=============================================================================
