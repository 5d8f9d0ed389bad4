---------------------------- MODULE LayerUnpack ----------------------------
(***************************************************************************)
(* src/unpacker/layers.rs, with src/fs.rs and the end of images::get: the  *)
(* entries of the layers are unpacked into rootfs one by one, then the     *)
(* metadata of the directories is applied.                                 *)
(*                                                                         *)
(* The file system is a function from canonical paths, sequences of names, *)
(* to nodes.  A file descriptor is the path and the generation of a        *)
(* directory: nothing is renamed, so a descriptor is stale if there is no  *)
(* directory of that generation there.  A symbolic link holds the path,    *)
(* from rootfs, of its target: it is relative, without going above rootfs. *)
(* Owner and mtime follow mode.                                            *)
(*                                                                         *)
(* The entries are arbitrary, but WellFormed and InPlace describe what     *)
(* image builders write: entries that can be unpacked, that never remove,  *)
(* replace or redirect what those before them in the layer have put.       *)
(* want is the tree that the same entries give if each of them replaces    *)
(* what is at its path at once, with no caches and no pending metadata.    *)
(***************************************************************************)
EXTENDS Integers, Sequences, SequencesExt, FiniteSets

CONSTANTS Names,        \* file names
          NameLen,      \* length of each name, in bytes
          MaxDepth,     \* bound: components of the path of an entry
          MaxLayers,    \* bound: layers of the image
          Shapes,       \* bounds: the types and the numbers of the entries in the layers
          FdsCache      \* FDS_CACHE, the capacity of DirFdCache

AllKinds == {"dir", "file", "symlink", "link", "whiteout", "opaque"}

ASSUME NamesAssumption   == "." \notin Names
ASSUME NameLenAssumption == NameLen \in [Names -> Nat \ {0}]
ASSUME BoundsAssumption  == {MaxDepth, MaxLayers, FdsCache} \subseteq Nat \ {0}
ASSUME ShapesAssumption  == \A s \in Shapes : /\ s.kinds \subseteq AllKinds
                                             /\ s.entries \in [1..MaxLayers -> Nat]

First(s, n) == SubSeq(s, 1, n)

Paths == UNION {[1..n -> Names] : n \in 0..MaxDepth}
Root  == <<>>

VARIABLES tree,       \* contents of rootfs
          cache,      \* DirFdCache: pairs [path, fd], the last used is first
          linkFd,     \* cached_link_dirfd: at most one pair [path, fd]
          dirsMeta,   \* dirs_metadata: the mode for each path
          layer,      \* number of the layer
          seen,       \* entries of the layer so far
          outcome,    \* "layers", "metadata", "ok", or how unpack failed
          want,       \* the expected tree
          shape       \* the one of Shapes that the image has

vars == <<tree, cache, linkFd, dirsMeta, layer, seen, outcome, want, shape>>

Default == <<>>          \* mode 0755, given to directories with no entry
Mode(p) == <<layer>> \o p  \* mode and contents of the entry p of this layer

Dir(gen, mode) == [type |-> "dir", gen |-> gen, mode |-> mode]
File(data)     == [type |-> "file", data |-> data, mode |-> data]
Link(to)       == [type |-> "link", to |-> to]

Has(T, p, type)   == p \in DOMAIN T /\ T[p].type = type
With(T, p, node)  == [q \in DOMAIN T \union {p} |-> IF q = p THEN node ELSE T[q]]
Beneath(T, p)     == {q \in DOMAIN T : IsStrictPrefix(p, q)}
WithoutSubtree(T, p) == Restrict(T, DOMAIN T \ Beneath(T, p))
Without(T, p)        == Restrict(T, DOMAIN T \ (Beneath(T, p) \union {p}))
-----------------------------------------------------------------------------
(* Resolution of paths: openat2 with IN_ROOT, open_directory, DirFdCache. *)

MaxLinks == 40   \* symbolic links followed by the kernel

Found(at) == [err |-> "none", at |-> at]
Error(e)  == [err |-> e]

\* What there is at each path, but for generations and modes.
Content(node) == CASE node.type = "dir"  -> [type |-> "dir"]
                   [] node.type = "file" -> [type |-> "file", data |-> node.data]
                   [] node.type = "link" -> [type |-> "link", to |-> node.to]

Contents(T) == [p \in DOMAIN T |-> Content(T[p])]

\* The components of path at which its walk down the directories stops.
Stops(C, path) == {i \in DOMAIN path : ~Has(C, First(path, i), "dir")}

\* Where paths lead in the contents C if links may be followed, given where they
\* lead with one link less.
Follow(C, links, fewer) ==
    [path \in Seq(Names) |->
        IF Stops(C, path) = {} THEN Found(path)
        ELSE LET n == Min(Stops(C, path))
                 p == First(path, n)
             IN  CASE p \notin DOMAIN C -> Error("not_found")
                   [] Has(C, p, "file") -> IF n = Len(path) THEN Found(p) ELSE Error("not_dir")
                   [] Has(C, p, "link") -> IF links = 0 THEN Error("loop")
                                           ELSE fewer[C[p].to \o SubSeq(path, n + 1, Len(path))]]

Walks(C) == LET walk[links \in 0..MaxLinks] == Follow(C, links, walk[links - 1]) IN walk

\* The directory or the file that a path leads to.
Walk(T, path) == Walks(Contents(T))[MaxLinks][path]

DirOnly(T, found) == IF found.err = "none" /\ ~Has(T, found.at, "dir")
                        THEN Error("not_dir") ELSE found

WalkToDir(T, path) == DirOnly(T, Walk(T, path))

IsDirectory(T, p) == WalkToDir(T, p).err = "none"   \* a link is followed

Fd(T, p)    == [at |-> p, gen |-> T[p].gen]
Live(T, fd) == Has(T, fd.at, "dir") /\ T[fd.at].gen = fd.gen

\* A new directory has no descriptor yet.
HeldFds == {c.fd : c \in ToSet(cache) \union linkFd}
NewDir(p, mode) == Dir(CHOOSE g \in 0..FdsCache + 1 : [at |-> p, gen |-> g] \notin HeldFds, mode)

\* open_directory: missing components are created, below the first that exists,
\* unless the first of them is a link that leads nowhere.
OpenDirectory(T, path) ==
    LET n       == Max({i \in 0..Len(path) : WalkToDir(T, First(path, i)).err # "not_found"})
        found   == WalkToDir(T, First(path, n))
        Made(i) == found.at \o SubSeq(path, n + 1, i)
        new     == {Made(i) : i \in n + 1..Len(path)}
    IN  CASE found.err # "none" -> [err |-> found.err, tree |-> T]
          [] found.err = "none" /\ new \intersect DOMAIN T # {} -> [err |-> "exists", tree |-> T]
          [] OTHER -> [err |-> "none", at |-> Made(Len(path)),
                       tree |-> [p \in DOMAIN T \union new |-> IF p \in new THEN NewDir(p, Default) ELSE T[p]]]

\* Fault: the capacity of the cache is not set.
CacheInsertAll(entry, rest) == <<entry>> \o rest

CacheInsert(entry, rest) == <<entry>> \o First(rest, IF Len(rest) < FdsCache THEN Len(rest)
                                                     ELSE FdsCache - 1)

CacheAdd(path, opened, rest) ==
    LET fd == Fd(opened.tree, opened.at)
    IN  IF opened.err # "none" THEN [err |-> opened.err, tree |-> opened.tree, cache |-> cache]
        ELSE [err |-> "none", fd |-> fd, tree |-> opened.tree,
              cache |-> CacheInsert([path |-> path, fd |-> fd], rest)]

\* DirFdCache::get: the descriptor, the tree with the directories it created, and
\* the cache with the descriptor in front.
CacheGet(path) ==
    LET hits == {i \in DOMAIN cache : cache[i].path = path}
        i    == Min(hits)
    IN  IF hits # {}
           THEN [err |-> "none", fd |-> cache[i].fd, tree |-> tree,
                 cache |-> <<cache[i]>> \o RemoveAt(cache, i)]
           ELSE CacheAdd(path, OpenDirectory(tree, path), cache)

\* Fault: the descriptors of removed directories stay in the cache.
CacheKeep(entries) == entries

CacheClear(entries) == <<>>
-----------------------------------------------------------------------------
(* The expected tree, and the entries that builders write. *)

ParentOf(p)  == IF p = Root THEN Root ELSE Front(p)       \* normalize_path
Child(at, p) == IF p = Root THEN at ELSE Append(at, Last(p))

Overlay(kind, p, to, up) ==
    LET q   == Child(up.at, p)
        source == Child(WalkToDir(want, ParentOf(to)).at, to)
        Put(node) == With(Without(up.tree, q), q, node)
    IN  CASE kind = "dir"      -> IF IsDirectory(up.tree, q)
                                     THEN [up.tree EXCEPT ![Walk(up.tree, q).at].mode = Mode(p)]
                                     ELSE Put(Dir(0, Mode(p)))
          [] kind = "file"     -> Put(File(Mode(p)))
          [] kind = "symlink"  -> Put(Link(to))
          [] kind = "link"     -> Put(want[source])
          [] kind = "whiteout" -> Without(up.tree, q)
          [] kind = "opaque"   -> WithoutSubtree(want, Walk(want, p).at)

Whiteouts == {"whiteout", "opaque"}

\* The source of a hard link is a file or a symbolic link, and another one.
WellFormedLink(p, to) ==
    LET up == WalkToDir(want, ParentOf(to))
        q  == Child(up.at, to)
    IN  /\ to # Root
        /\ up.err = "none"
        /\ q \in DOMAIN want
        /\ want[q].type # "dir"
        /\ q # Child(OpenDirectory(want, ParentOf(p)).at, p)

Upper(entries) == {s \in entries : s.kind \notin Whiteouts}

\* What is known of an entry of the layer: where its path leads, of a hard link the
\* path of its source and where that leads, of a whiteout if entries that are none
\* came before it.
Record(kind, p, to, at) ==
    IF kind = "link" THEN [kind |-> kind, path |-> p, at |-> at,
                           source |-> to, from |-> Child(WalkToDir(want, ParentOf(to)).at, to)]
    ELSE IF kind \in Whiteouts THEN [kind |-> kind, path |-> p, at |-> at, late |-> Upper(seen) # {}]
    ELSE [kind |-> kind, path |-> p, at |-> at]

\* The specification wants the whiteouts of a layer before its other entries.
LateWhiteout(entries) == \E s \in entries : s.kind \in Whiteouts /\ s.late

\* The path of the source of a hard link does not lead to another directory, unless
\* the one that it led to is gone.
SourceInPlace(T, s) ==
    LET found == WalkToDir(T, ParentOf(s.source))
    IN  found.err = "none" /\ Has(T, ParentOf(s.from), "dir") => found.at = ParentOf(s.from)

\* The entries of the layer are where their paths lead.
InPlace(T, entries) ==
    \A s \in entries : s.kind \in Whiteouts \/
        /\ s.at \in DOMAIN T
        /\ s.at # s.path => WalkToDir(T, ParentOf(s.path)) = Found(ParentOf(s.at))
        /\ s.kind = "link" => /\ SourceInPlace(T, s)
                              /\ Has(T, ParentOf(s.from), "dir") \/ LateWhiteout(entries)

WellFormed(kind, p, to) ==
    /\ OpenDirectory(want, ParentOf(p)).err = "none"
    /\ p = Root => kind \in {"dir", "opaque"}
    /\ kind = "whiteout" => IsDirectory(want, ParentOf(p))
    /\ kind = "opaque" => IsDirectory(want, p)
    /\ kind = "link" => WellFormedLink(p, to)

\* The next entry of the archive.
Entry(kind, p, to) ==
    /\ outcome = "layers"
    /\ Cardinality(seen) < shape.entries[layer]
    /\ kind \in shape.kinds
    /\ WellFormed(kind, p, to)
    /\ LET up == OpenDirectory(want, ParentOf(p))
           q  == Child(up.at, p)
       IN  /\ \A s \in seen : {s.kind, kind} \intersect Whiteouts = {} => s.at # q
           /\ want' = Overlay(kind, p, to, up)
           /\ seen' = seen \union {Record(kind, p, to, q)}
           /\ InPlace(want', seen')
    /\ UNCHANGED <<layer, shape>>
-----------------------------------------------------------------------------
(* Context::unpack, one action for each type of entry.  \E x \in {e} names the value of e. *)

Init == /\ tree = [p \in {Root} |-> Dir(0, Default)]
        /\ cache = <<>> /\ linkFd = {} /\ dirsMeta = <<>>
        /\ layer = 1 /\ seen = {}
        /\ outcome = "layers"
        /\ want = [p \in {Root} |-> Dir(0, Default)]
        /\ shape \in Shapes

\* openat2 of the directory of the source of a hard link, with NOFOLLOW for its last
\* component.
OpenLinkDir(T, path) ==
    LET up == WalkToDir(T, ParentOf(path))
        p  == Child(up.at, path)
    IN  CASE up.err # "none" -> up
          [] up.err = "none" /\ ~Has(T, p, "dir") -> Error("not_dir")
          [] OTHER -> [err |-> "none", fd |-> Fd(T, p)]

\* What the code does not unpack: a directory over anything else, a link over a
\* directory, and a hard link whose source is given through a symbolic link to its
\* directory (NOFOLLOW).
Refused(kind, p, to) ==
    LET up == OpenDirectory(want, ParentOf(p))
        q  == Child(up.at, p)
    IN  \/ kind = "dir" /\ q \in DOMAIN up.tree /\ ~IsDirectory(up.tree, q)
        \/ kind \in {"symlink", "link"} /\ Has(up.tree, q, "dir")
        \/ kind = "link" /\ OpenLinkDir(up.tree, ParentOf(to)).err = "not_dir"

\* cached_link_dirfd has the directory of the source, but that one was removed.
StaleSource(kind, to) == kind = "link" /\ \E c \in linkFd : c.path = ParentOf(to) /\ ~Live(tree, c.fd)

\* An I/O error ends the call: what the failed entry leaves is not modelled.
Fail(kind, p, to) == /\ outcome' = IF Refused(kind, p, to) THEN "refused"
                                   ELSE IF StaleSource(kind, to) THEN "stale" ELSE "failed"
                     /\ UNCHANGED <<tree, cache, linkFd, dirsMeta>>

Key(p) == IF p = Root THEN <<".">> ELSE p

\* Fault: AlreadyExists is taken for a directory that needs no metadata.
StoreNewMetadata(p) == IF p \in DOMAIN tree THEN dirsMeta
                       ELSE With(dirsMeta, Key(p), Mode(p))

StoreMetadata(p) == With(dirsMeta, Key(p), Mode(p))

\* mkdirat: all its errors are ignored, except for an entry of another type.
UnpackDir(p) ==
    /\ Entry("dir", p, Root)
    /\ \E parent \in {CacheGet(ParentOf(p))} :
          LET q      == Child(parent.fd.at, p)
              exists == Live(parent.tree, parent.fd) /\ q \in DOMAIN parent.tree
          IN  IF parent.err # "none" \/ (exists /\ ~IsDirectory(parent.tree, q))
              THEN Fail("dir", p, Root)
              ELSE /\ tree' = IF exists \/ ~Live(parent.tree, parent.fd) THEN parent.tree
                              ELSE With(parent.tree, q, NewDir(q, Default))
                   /\ cache' = parent.cache
                   /\ dirsMeta' = StoreMetadata(p)
                   /\ UNCHANGED <<linkFd, outcome>>

\* The file is created with O_EXCL, once remove_entry removed what was there.
UnpackRegular(p) ==
    /\ Entry("file", p, Root)
    /\ \E parent \in {CacheGet(ParentOf(p))} :
          LET q == Child(parent.fd.at, p)
          IN  IF parent.err # "none" \/ ~Live(parent.tree, parent.fd) THEN Fail("file", p, Root)
              ELSE /\ tree' = With(Without(parent.tree, q), q, File(Mode(p)))
                   /\ cache' = parent.cache
                   /\ dirsMeta' = IF Has(parent.tree, q, "dir")
                                     THEN Restrict(dirsMeta, DOMAIN dirsMeta \ {Key(p)})
                                     ELSE dirsMeta
                   /\ UNCHANGED <<linkFd, outcome>>

\* unlinkat removes a file or a link, and fails on a directory.
UnpackSymlink(p, to) ==
    /\ Entry("symlink", p, to)
    /\ \E parent \in {CacheGet(ParentOf(p))} :
          LET q == Child(parent.fd.at, p)
          IN  IF \/ parent.err # "none" \/ ~Live(parent.tree, parent.fd)
                 \/ Has(parent.tree, q, "dir")
              THEN Fail("symlink", p, to)
              ELSE /\ tree' = With(parent.tree, q, Link(to))
                   /\ cache' = parent.cache
                   /\ UNCHANGED <<linkFd, dirsMeta, outcome>>

CachedLinkFd(path) == {c \in linkFd : c.path = path}

LinkFdGet(T, path) ==
    LET hits == CachedLinkFd(path)
    IN  IF hits = {} THEN OpenLinkDir(T, path)
        ELSE [err |-> "none", fd |-> (CHOOSE c \in hits : TRUE).fd]

UnpackHardLink(p, to) ==
    /\ Entry("link", p, to)
    /\ \E parent \in {CacheGet(ParentOf(p))} : \E source \in {LinkFdGet(parent.tree, ParentOf(to))} :
          LET q   == Child(parent.fd.at, p)
              old == Child(source.fd.at, to)
          IN  IF \/ parent.err # "none" \/ ~Live(parent.tree, parent.fd)
                 \/ source.err # "none" \/ ~Live(parent.tree, source.fd)
                 \/ old \notin DOMAIN parent.tree \/ Has(parent.tree, old, "dir")
                 \/ old = q \/ Has(parent.tree, q, "dir")
              THEN Fail("link", p, to)
              ELSE /\ tree' = With(parent.tree, q, parent.tree[old])
                   /\ cache' = parent.cache
                   /\ linkFd' = {[path |-> ParentOf(to), fd |-> source.fd]}
                   /\ UNCHANGED <<dirsMeta, outcome>>

\* process_whiteout: what is not there is ignored.
Whiteout(p) ==
    /\ Entry("whiteout", p, Root)
    /\ \E parent \in {CacheGet(ParentOf(p))} :
          IF parent.err # "none" THEN Fail("whiteout", p, Root)
          ELSE /\ tree' = IF Live(parent.tree, parent.fd)
                             THEN Without(parent.tree, Child(parent.fd.at, p))
                             ELSE parent.tree
               /\ cache' = CacheClear(parent.cache)
               /\ UNCHANGED <<linkFd, dirsMeta, outcome>>

OpaqueWhiteout(p) ==
    /\ Entry("opaque", p, Root)
    /\ \E dir \in {CacheGet(p)} :
          IF dir.err # "none" THEN Fail("opaque", p, Root)
          ELSE /\ tree' = IF Live(dir.tree, dir.fd) THEN WithoutSubtree(dir.tree, dir.fd.at)
                          ELSE dir.tree
               /\ cache' = CacheClear(dir.cache)
               /\ UNCHANGED <<linkFd, dirsMeta, outcome>>

\* Each layer has its own Context, and dirs_metadata outlives it.
NextLayer == /\ outcome = "layers"
             /\ layer < MaxLayers
             /\ seen # {}
             /\ layer' = layer + 1
             /\ seen' = {} /\ cache' = <<>> /\ linkFd' = {}
             /\ UNCHANGED <<tree, dirsMeta, outcome, want, shape>>

\* normalize_path refuses the path of an entry, or of the source of a hard link, with
\* ".." in it; the removal of "." and of ".." fails.
RefusePath == /\ outcome = "layers"
              /\ Cardinality(seen) < shape.entries[layer]
              /\ outcome' = "refused"
              /\ UNCHANGED <<tree, cache, linkFd, dirsMeta, layer, seen, want, shape>>
-----------------------------------------------------------------------------
(* The end of images::get. *)

LastLayer == /\ outcome = "layers"
             /\ outcome' = "metadata"
             /\ seen' = {} /\ cache' = <<>> /\ linkFd' = {}
             /\ UNCHANGED <<tree, dirsMeta, layer, want, shape>>

\* Bytes of the path "/a/b", with one name of the model for each name.
TextLen(key) ==
    LET len[i \in 0..Len(key)] == IF i = 0 THEN 0 ELSE len[i - 1] + NameLen[key[i]] + 1
    IN  IF key = Key(Root) THEN 2 ELSE len[Len(key)]

\* Fault: the keys are sorted by the length, instead of usize::MAX - length.
NextKeysByLength == {k \in DOMAIN dirsMeta : \A j \in DOMAIN dirsMeta : TextLen(k) <= TextLen(j)}

\* The longest paths come first, as BTreeMap sorts usize::MAX - length; the order of equal lengths is left open.
NextKeys == {k \in DOMAIN dirsMeta : \A j \in DOMAIN dirsMeta : TextLen(j) <= TextLen(k)}

\* No entry is removed here, so the descriptors of this DirFdCache are never stale and
\* it is left out. chmodat follows a link; only NotFound errors are ignored.
ApplyMetadata ==
    /\ outcome = "metadata"
    /\ \E k \in NextKeys :
          LET p      == IF k = Key(Root) THEN Root ELSE k
              parent == WalkToDir(tree, ParentOf(p))
              found  == IF parent.err = "none" THEN Walk(tree, Child(parent.at, p)) ELSE parent
          IN  /\ dirsMeta' = Restrict(dirsMeta, DOMAIN dirsMeta \ {k})
              /\ CASE found.err = "none" -> /\ tree' = [tree EXCEPT ![found.at].mode = dirsMeta[k]]
                                            /\ UNCHANGED outcome
                   [] found.err = "not_found" -> UNCHANGED <<tree, outcome>>
                   [] OTHER -> outcome' = "metadata_failed" /\ UNCHANGED tree
    /\ UNCHANGED <<cache, linkFd, layer, seen, want, shape>>

Finish == /\ outcome = "metadata"
          /\ dirsMeta = <<>>
          /\ outcome' = "ok"
          /\ UNCHANGED <<tree, cache, linkFd, dirsMeta, layer, seen, want, shape>>

Ends == {"ok", "refused", "stale", "failed", "metadata_failed"}
Done == outcome \in Ends /\ UNCHANGED vars
-----------------------------------------------------------------------------
Next == \/ \E p \in Paths : \/ UnpackDir(p) \/ OpaqueWhiteout(p)
                           \/ UnpackRegular(p) \/ Whiteout(p)
        \/ \E p, to \in Paths \ {Root} : UnpackSymlink(p, to) \/ UnpackHardLink(p, to)
        \/ RefusePath \/ NextLayer \/ LastLayer \/ ApplyMetadata \/ Finish \/ Done

Spec == Init /\ [][Next]_vars
-----------------------------------------------------------------------------
(* Properties. *)

Modes == {Default} \union UNION {{<<n>> \o p : p \in Paths} : n \in 1..MaxLayers}
Nodes == [type : {"dir"}, gen : 0..FdsCache + 1, mode : Modes]
           \union [type : {"file"}, data : Modes, mode : Modes]
           \union [type : {"link"}, to : Paths]

TypeOK == /\ \A T \in {tree, want} : /\ \A p \in DOMAIN T : T[p] \in Nodes
                                     /\ Has(T, Root, "dir")
                                     /\ \A p \in DOMAIN T \ {Root} : Has(T, Front(p), "dir")
          /\ Len(cache) <= FdsCache
          /\ Cardinality(linkFd) <= 1
          /\ DOMAIN dirsMeta \subseteq {Key(p) : p \in Paths}
          /\ \A k \in DOMAIN dirsMeta : dirsMeta[k] \in Modes
          /\ layer \in 1..MaxLayers
          /\ outcome \in {"layers", "metadata"} \union Ends
          /\ shape \in Shapes

\* After any number of layers rootfs has the directories, the files and the links
\* that the layers stack up to: nothing is missing, nothing that a whiteout hides
\* is left, whatever the descriptors in the caches. No entry fails, but for those
\* that the code refuses and, if whiteouts come after other entries, against what
\* unpack assumes, for the hard links whose cached directory they removed.
TreeIsOverlay == /\ outcome # "failed"
                 /\ outcome = "stale" => LateWhiteout(seen)
                 /\ outcome \notin {"refused", "stale"} => Contents(tree) = Contents(want)

\* With no symbolic links, a directory has in the end the mode of the last entry
\* for it.
DirModesApplied ==
    outcome = "ok" /\ "symlink" \notin shape.kinds =>
        \A p \in DOMAIN want :
            want[p].type = "dir" /\ want[p].mode # Default => tree[p].mode = want[p].mode

\* A directory gets its mode, which may forbid the access to it, after those
\* that are below it. The root is left out, though the rule of the comment in
\* unpacker/mod.rs has no exception: its key, "/.", may come before longer ones.
ChildrenFirst ==
    [][\A k \in DOMAIN dirsMeta \ DOMAIN dirsMeta' :
          outcome = "metadata" => \A j \in DOMAIN dirsMeta' : ~IsStrictPrefix(k, j)]_vars

\* A directory that was removed by upper layers is not an error in the end.
MetadataNeverFails == outcome # "metadata_failed"
=============================================================================
