# A TLA+ verification of oci-unpack

`oci-unpack` downloads an OCI image from a registry and unpacks its layers into
`<target>/rootfs`. This directory holds TLA+ modules of the crate, the TLC
configurations that check them on small instances, and proofs, checked by TLAPS,
of what must hold for every size. `PROJECT.json` relates every definition to the
lines it models, and lists the runs, the faults that each property detects, the
hazards of the code and the theorems.

Paths below are relative to the crate (`src/unpacker/images.rs` is
written `src/src/unpacker/images.rs` in `PROJECT.json`, where the first `src/` is
the checkout).

## 1. The system

`Unpacker::unpack` is one call:

    Reference::try_from ─► Unpacker::unpack
        check_empty_dir(target)
        http::Client::new
        manifests::get ───────── GET manifests/<tag or digest>, follow the index
        sandbox(target) ──────── Landlock, for good
        images::get
            worker threads ───── GET blobs/<digest> ─► DigestReader ─► BufWriter ─► file
                 │ Mutex + Condvar, one slot for each blob
            main thread ──────── unpack_layer, in the order of the manifest
                                 apply dirs_metadata, deepest first
            all threads ──────── EventHandler

| Component | State | Operations | Interacts with | Hard behaviour | What makes it correct |
|---|---|---|---|---|---|
| Download pool, `unpacker/images.rs` | queue of tasks, result slot and condition variable of each task, `is_alive`, umask | `get`, `Download::complete`, `Download::get`, `run_download`, guards dropped on return or panic | client (per request), blob transfer, layers, handlers | interleaving, lost wakeups, cancellation, panics, join | each blob once, in order, no lost wakeup, no false success, returns unless a worker panics |
| Registry client, `http/mod.rs` | token in a `RwLock`, host | `get`, `download_blob`, `send` | all workers share it; token server; handlers called under the lock | lock upgrade with a gap, recursion, poisoning, expired tokens | guards last as long as requests, a token is not replaced while it is used, no deadlock |
| Blob transfer, `run_download` + `digest.rs` | hasher, chunk, `BufWriter`, file, `is_alive` | read, hash, write, check at the end, flush on drop | the file goes to `unpack_layer` | short reads, errors, a full disk, cancellation | only verified bytes are returned |
| Manifests, `manifests.rs` | tag or digest in hand | request, parse an index, follow it, parse a manifest | client; result drives the pool | an arbitrary registry, nested indices | each document is the one the previous one lists |
| Layers and file system, `unpacker/layers.rs`, `fs.rs` | rootfs, `DirFdCache`, `cached_link_dirfd`, `dirs_metadata` | one for each type of entry, whiteouts, the final update of the directories | kernel (`openat2` in rootfs); metadata used by `images::get` | stale descriptors, entries that replace others, order of the updates | rootfs is the overlay of the layers, and no entry fails without a reason |
| Unpacker, `unpacker/mod.rs` | target directory, Landlock domain of the thread, umask of the process | `check_empty_dir`, `sandbox`, `unpack` | everything; other calls in the process, calls before a crash | two calls that overlap, a kill, a retry | one call fills a target, the sandbox covers all writes, the umask comes back |
| Events, `unpacker/event_handler.rs`, and the handler of `examples/unpack.rs` | counters, the lock of the printer | callbacks from all threads, `show_progress` | pool, layers | any thread prints while others count, `try_write` gives up | lines never go back, none shows a position beside the length of a later layer, the last one is complete |
| Authentication header, scheme, `http/mod.rs` | none | `build_auth_request`, `guess_scheme` | client | order of parameters, separators in values | every parameter is sent |
| Reference parser, `reference/` | none | `parse`, `Repository` | client, manifests | ambiguous separators | split as documented, defaults change nothing |
| Digests, `digest.rs` | none | `TryFrom`, `check_hash`, `HexString` | blob transfer, manifests | a lenient comparison behind a strict parser | an accepted digest is exact |
| Media types | none | conversions | manifests, layers | – | – |
| Command line of the example, tests, CI | – | – | – | – | not part of the crate |

## 2. Modules

| Module | What it is |
|---|---|
| `ImageUnpack` | What `images::get` promises, with no threads: blobs arrive in any order, are applied in order, the call returns once and succeeds only at the end |
| `DownloadPool` | `images::get`: workers, slots, condition variables, guards, panics |
| `RegistryClient` | `Client::send` with the shared token |
| `BlobTransfer` | one `run_download`, byte by byte |
| `Manifests` | `manifests::get` against an arbitrary registry |
| `LayerUnpack` | `layers.rs`, `fs.rs` and the last loop of `images::get` |
| `TargetClaims` | What several calls of `unpack` promise about their targets: one owner each, and only the owner fills it and succeeds |
| `Unpacker` | `Unpacker::unpack`, called by several threads, with a crash |
| `Progress` | the events of one call and the handler of the example |
| `Text` | the methods of `str` that the parsers use |
| `Digest` | the text of a digest and its comparison with a hash |
| `ReferenceParser` | `parse` and `Repository` |
| `AuthChallenge` | `build_auth_request` |
| `MC*` | definitions and symmetries of the instances for TLC; `MCParsers` also types the inputs of the parsers |
| `*Proofs` | the theorems about the module of that name; `ParserProofs` is about the four modules of the parsers |

The modules are composed by what they promise each other. `Unpacker` treats the
pool as: the guard of the umask, one worker that creates `config.json`, `rootfs`,
the layers, and the join; `DownloadPool` opens that box. `DownloadPool` treats
one download as: a request, the creation of the file, chunks, and an end that is
a file or an error; `BlobTransfer` opens that box and shows when the end may be
a file. `DownloadPool` treats `unpack_layer` as one step that may fail;
`LayerUnpack` opens that one. `RegistryClient` opens the request, and
`AuthChallenge` the challenge that it takes for granted; `Digest` is why
`BlobTransfer` and `Manifests` may treat a digest as the identity of its
contents. `Progress` puts the workers and main together again, with only what
their events tell.

Several definitions carry a comment `Fault:`. They are plausible bugs, not used
by any specification; each property is checked to fail when the definition they
imitate is replaced by them (`mutants` in `PROJECT.json`).

### DownloadPool

`pending` is the `VecDeque`, `slot[t]` the `Download.result` of a task, `alive`
is `is_alive`. Every worker and the calling thread ("main") have a program
counter. One action is one critical section of the code, or one step between two
looks at shared state: `TakeTask` is the `while let` of the worker (the guard of
the queue is released before the body), `CheckAlive` the load of `is_alive`,
`ReadChunk` / `ReadEof` / `ReadError` one turn of the loop, `Complete` stores and
notifies under the lock of the slot, `Get` and `Park` are the two branches of
`Download::get`. `LeaveScope` is every way out of the closure given to
`thread::scope`: it drops `AliveTracker`, so it clears `alive`. `Join` waits for
the threads and restores the umask. `downloaded` is a history variable.

A worker whose handler panics keeps its task and stores nothing, and neither does
anyone else: the task is `Lost`, as are those left in the queue once every worker
panicked. Nothing tells main, which waits on the condition variable of the task and
does not look at its threads: `PanicIsFinal` says that it is `Stuck` from then on.
`WaitedTaskIsComing` is what is true besides: a task for which main sleeps has no
result yet, and it is either `Coming` (queued for a worker that still runs, or held by
one) or lost in this way.

`Relaxed` loads of `is_alive` may see the old value for a while; as main does
nothing a worker can observe after the store, a late load is the same as a late
store, and interleaving covers it.

### RegistryClient

A caller announces its request (`registry_request`), takes the read lock and
sends the request under it if there is a token (`AuthCall`). If there is none it
trades the read lock for the write lock - other callers may run in the gap - and
sends the request without a token (`PlainCall`), asks for a token (`TokenError`,
`StoreToken`) and starts again. Tokens are numbered. Answers are arbitrary: a token may
expire, so that a request with one is answered with 401 and a challenge. `asked` tells,
as a history, whether the request in hand has gone to the URL of a challenge. The
lock has no queue, as `std::sync::RwLock` documents no policy. A panic of
`registry_auth` poisons the lock (`AuthPanic`, `MeetPoison`).

### BlobTransfer

`DigestReader` hashes what it delivers (`ReadChunk`) and compares at the end of
the stream (`ReadEof`). `BufWriter` keeps small writes, flushes, or writes
through (`WriteKeep`, `WriteThrough`, `WriteError`); its drop flushes and loses
the error (`Return`). The bytes are abstract and two contents have the same
digest only if they are equal. `OthersUseDisk` fills or frees the disk.

### Manifests

The document with digest `d` is `d` itself; `Index` says which documents can be
read as an index and `Images` which as a manifest (a document may be both, as
serde ignores unknown fields), and `Rank` that no document contains its own
digest, directly or not.
The registry may answer any request with any document, under any content type.
`Verified` is the `DigestReader` around the body, which is there only when the
document was requested by digest. `serde_json::from_reader` reads to the end of
the stream, so the digest is always compared.

### LayerUnpack

`tree` maps canonical paths to nodes. `Walk` is the resolution of `openat2` with
`RESOLVE_IN_ROOT`: `Walks` is where each path leads if so many links may be followed,
a function of the number of links, so that it can be reasoned about; it sees the
`Contents` of the tree, without generations and modes. `OpenDirectory` and `CacheGet`
are the two functions of `fs.rs`; a descriptor is a path and a generation, so that a
removed directory and its successor differ. `UnpackDir`, `UnpackRegular`,
`UnpackSymlink`, `UnpackHardLink`, `Whiteout` and `OpaqueWhiteout` are
`Context::unpack`; `RefusePath` is an entry that ends the call for its name alone (a
`..` in its path or in that of its source, a whiteout of `.` or `..`); `ApplyMetadata`
is the loop over `dirs_mtimes`. `Shapes` bounds the images: `shape`, of which a
behaviour has one, gives the types of their entries and how many each layer has.

`want` is the specification: the tree that the same entries give if each of them
replaces at once what is at its path, with no caches and no deferred metadata.
`WellFormed` and `InPlace` describe the archives that image builders write: each
place once in a layer, whatever the paths that lead to it; whiteouts for what is
there; no entry that moves, removes or redirects what the entries before it in
the layer have put. A path may go through symbolic links of the same layer or of
lower ones. `Record` keeps of each entry where its path led and, of a hard link, where
that of its source did: `InPlace` asks that these do not change within the layer, for
the source unless the directory it led to is gone (section 6 says what happens
otherwise). Whiteouts may come anywhere in a layer. `Record` keeps whether one came
after an entry of another type, and `LateWhiteout` whether there was one: the comment of
`process_whiteout` (`layers.rs:403`) assumes that there is none.

Other entries are refused for what is in the tree, and `Refused` names them: a directory
over anything that is not one, a link over a directory, a hard link whose source
is given through a symbolic link to its directory (`O_NOFOLLOW`). `TreeIsOverlay`
says that no other entry fails, so a stale descriptor, a directory that was not
created or a file that is in the way is a violation and not an error. There is one
exception, which is not a refusal: `cached_link_dirfd` is not reset by a whiteout, and
a hard link whose source is below the directory that the whiteout removed fails, even
if the directory was created again (`StaleSource`, outcome `"stale"`). The property
allows this outcome only in a layer with a late whiteout, so that it holds of
every layer that keeps to the assumption of the code. An I/O
error ends the call, and what the failed entry leaves behind is not modelled.

### Unpacker and TargetClaims

`Calls` are the calls of `unpack`, several for each thread, one after another, on
targets that they may share and that may hold files of others (`foreign`). `Exists`,
`MakeTarget` and `List` are the three looks of `check_empty_dir`; `Sandbox` shrinks
the Landlock `domain` of the thread, for good, and fails only if the call requires it
(the crate is built with its default feature `sandbox`: without it there is no
`Sandbox` and `require_sandbox` does nothing); `ClearUmask` and `Join` are the two
ends of `UmaskGuard`. `CreateConfig` is the worker with the first task: `O_EXCL`, in
the domain that its thread inherits. `OpenRootfs` and `MakeRootfs` are the two
`openat2` of `open_directory`, which accepts a rootfs that is already there.
`LeaveScope` is the end of the closure, or any error or panic in it. `Crash` kills the
process once: files stay, the umask and the domains start anew.

There is no lock between two calls, nor between the check of the target and its
first file. `TargetClaims` says what they promise all the same, and the
refinement shows why: `config[t]`, the creator of `config.json`, is the owner.

### Progress

The counters of `Logger` (`total`, `received`, `layers`, `curLen`, `curPos`) are
read and written one by one by workers and main; the last two carry the layer
that they are about, as a history. `Look`, `TryWrite`, the four loads and
`PrintLine` are the steps of `show_progress`, each a step of its own, in whatever
thread sent the event. `LayerProgress` moves the position to any byte up to the
length of the archive, as a decompressor that reads ahead may. `DownloadStart` may
find any sum (0 stands for all that are not the sum), as the sizes are those of
the manifest and nothing checks that they fit in `usize`.

`layer_progress` stores the position with `Relaxed` ordering; all the other accesses
are `SeqCst`. That store follows the `SeqCst` store of 0 in `layer_start` to the same
counter, so a thread that loads its value is ordered after `layer_start`, and the
model may treat the counters as accessed in one order.

`Receive` counts any number of bytes up to `MaxBody`, more or fewer than the blob has
(`Size`): `run_download` counts what it reads, whatever the manifest says of its size, and
compares the digest at the end only. `Complete` is an error for a body of another length
than the blob, since its digest differs.

### Text, Digest, ReferenceParser, AuthChallenge

A text is a sequence of symbols: separators, and runs of characters that no parser
looks into (in `Digest`, characters). `Symbol` is the set of them, of which the
modules assume only that it has the separators and the words of the defaults. `Parse`,
`BuildAuthRequest`, `Accepted` and `CheckHash` follow the code step by step and are
compared with definitions that look at the input as a whole: `ComposedText` with the
parts a reference was put together from (`Documented` says what references are
documented), `RequestFor` with the list of parameters, `SameDigits` with the text of
the hash. `RequestFor` says what a challenge with one realm at most should give, and
`ChallengeIsSent` is about those: a second realm makes the code drop what it has
collected, and nothing in the repository says what it should do. `Turn` is the body of
the loop of `build_auth_request`, and `Loop` as many turns as the header can take.
`MCParsers` types every text up to a length, one symbol in each step.

## 3. What is checked

All runs are exhaustive. "Distinct" is the number of distinct states, after
symmetry.

| Run | Question | Instance | Distinct |
|---|---|---|---|
| `pool` | Is each blob downloaded once and unpacked in order, is no wakeup lost, is a task lost only with a worker that panics, does success mean everything, does the pool implement `ImageUnpack`, and does `get` return? | 4 tasks, 2 workers, panics in any thread | 36 951 |
| `client` | Do guards follow requests, is a token stable while used, does every request return? | 2 threads, 3 requests each, panics in handlers | 35 926 |
| `client_challenge` | Does a request that is answered with 401 and a challenge get another token? No (section 6) | 1 thread, 1 request | – |
| `transfer` | Is only verified contents returned? | every body of up to 6 bytes over 2 values, a blob of 5, buffers of 2, disk of up to 6 | 133 665 |
| `transfer_full` | Does the file always hold the blob? No (section 6) | the same | – |
| `manifests` | Can the registry make the client accept another document, or loop? | 2 manifests, 4 indices, one that is both, one document that is neither, 3 levels, 2 platforms | 170 |
| `layers` | Is rootfs the overlay of the layers, with the right modes, and does no entry fail that should not? | 2 layers, 2 names, depth 2, a cache of 2; entries in the lower and the upper layer: 2 and 3 without links; 2 and 2 with symbolic links or with hard links; 1 and 2, or 2 and 1, with both; 1 and 4 with hard links and late whiteouts | 247 147 |
| `layers_shadow` | Is a directory that upper layers removed never an error? No (section 6) | 2 layers, 2 entries each, directories and files | – |
| `calls` | Does one call fill a target, does the sandbox cover what it should, does the umask come back when calls do not overlap, and does `unpack` implement `TargetClaims`? | 3 calls of 2 threads, 2 targets, 1 crash | 221 556 |
| `calls_umask` | Is the umask back when no call is running? No (section 6) | the same | – |
| `parsers` | Are digests, references and challenges read as documented? | every text of up to 6 symbols, 54 composed references, 259 lists of parameters with and without blanks | 61 224 |
| `progress` | Do the lines of the example go back, show a position beside the length of a later layer, or miss the end? | 3 workers, 3 layers of up to 2 entries, blobs of 1 or 2 bytes, bodies of up to 2 | 3 131 555 |

Why the bounds are enough. In the pool, workers are interchangeable, and a
violation of its properties needs two workers (a task taken twice), main, and
one more task behind the one that is awaited; four tasks and two workers leave
room for a queue that is not empty when main leaves. The safety properties of the
pool are also proved for every size. In the client the hazards are pairs: one
caller in the gap between the two locks while another one stores a token; three
requests let a caller send with a token, fail and send again. A longer body in
`progress` is one byte too many for the blobs of one byte. In the transfer, five
bytes and buffers of two make every case of `BufWriter` happen (kept, flushed,
written through, and a rest at the end), and a body may be shorter, longer or
different.

In the layers, three entries of the upper one are what it takes to cache a directory, remove it and
unpack below it again, and the cache of two overflows; a descriptor in
`cached_link_dirfd` that is stale when it is used takes four (a link, the whiteout of the
directory of its source, a file there, another link). Names differ in nothing but
their length, which is the same here, so they are symmetric. Paths have at most two
components: a cached directory of hard links that is only reached through a link
and lies deeper is not exercised, and neither are names of different lengths. The
theorems of `LayerUnpackProofs` have no such bounds: they hold for any names, lengths,
depths, layers, entries and any capacity of the cache.

The two threads of `calls` make two calls and one: enough for two calls of one
thread, before and after a restriction, and for two that overlap on one target or
on two. One of the calls does not require the sandbox. A second crash would find
what the first one may leave: any of `config.json` and `rootfs`, or both. In
`parsers`, six symbols hold every order of the four separators of a reference; a
digest is typed for algorithms of one and of two bytes, and for one that is unknown; the
theorems of `ParserProofs` are about texts of any length. In
`progress` the third worker lets two of them take the lock in turn while the other
one is between its look and its `try_write`.

Deadlock is checked in every run but `parsers`, whose texts stop growing; the final
states of the others stutter explicitly (`Terminated`, `Finished`, `Returned`,
`Done`).

### Fairness

`DownloadPool!Fairness` is weak fairness of each thread: the operating system
schedules threads that can run, and no single request, read or write lasts
forever. The crate sets no timeouts, so this is an assumption about the server;
`is_alive` is not looked at inside a blocking read. There is no fairness of
panics and of spurious wakeups. `CancelTerminates` needs no more than that.
`TerminatesUnlessWorkerPanics` assumes `BlobsEnd` in its statement: a download
that is still being read ends sooner or later (strong fairness, because the loop
leaves the read between two chunks).

`RegistryClient!FairSpec` is weak fairness of each caller. A lock that is free
over and over, but not continuously, might starve a writer; here each caller
sends a bounded number of requests, so weak fairness is enough.

## 4. What is proved

`DownloadPoolProofs` proves, for any number of layers, any limit of the queue
and any finite pool of the size that the code computes (`NumLayersAssumption`,
`WorkersAssumption`), and whether or not handlers panic:

| Theorem | Statement |
|---|---|
| `TypeCorrect` | `Spec => []TypeOK` |
| `Inductive` | `Spec => []IndInv` |
| `OnePlace` | `Spec => []TaskInOnePlace` |
| `NoLostWakeup` | `Spec => []WaitedTaskIsComing` |
| `NothingEndsTheWait` | `Spec => PanicIsFinal` |
| `NeverInterrupted` | `Spec => []InterruptedStaysInside` |
| `UmaskCleared` | `Spec => []UmaskCoversScope` |
| `SuccessIsComplete` | `Spec => []SuccessMeansEverything` |
| `Refinement` | `Spec => ImplementsPromise` |

The argument. None of the properties is inductive: that main's task is coming depends
on where every task is. `IndInv` (in `DownloadPool`) says so in six parts. `QueueInv`:
the queue is always a suffix of the list of tasks, so that "queued" is an inequality
on its length and no reasoning about sequences is needed beyond the pop. `HolderInv`
and `OneHolderInv`: a worker holds a task exactly while it is inside `run_download`,
and no two hold the same. `PlaceInv`: a task is queued, held, in its slot or consumed,
and what main still awaits is in one of the first three. `PhaseInv`: what main's
position says about `alive`, the umask, the threads and the result. `PoolInv`: while
main waits all workers were started, and none retires from a queue that has tasks, so
that a queued task is lost only if every worker panicked. A panicked worker stays
`Panicked` and keeps its task (`LostStays`), and a lost task is in no slot
(`LostIsAbsent`): so `Get` is never enabled for it. `TypeStep` proves the types and
`HolderInv` alone; `IndStep` has one lemma for each kind of step (`TakeStep`,
`CompleteStep`, `MoveStep`, `GetStep`, ...), and `WorkerCases` first reduces the eight
actions of a worker to pop, retire, move and complete. The refinement maps `Complete`
with a file to `Fetch`, the end of `Unpack` to `Apply`, `Join` (or a failure before
the scope) to `Succeed` or `Fail`, and the rest to stuttering.

`RegistryClientProofs` proves, for any finite set of callers and any number of
requests (`CallersAssumption`, `SendsAssumption`), with handlers that may panic:

| Theorem | Statement |
|---|---|
| `TypeCorrect` | `Spec => []TypeOK` |
| `GuardsFollowCalls` | `Spec => []LockHeldOnlyInCalls` |
| `TokenIsStable` | `Spec => []TokenStableDuringCall` |

`LockHeldOnlyInCalls` is inductive with the types, and `TokenStableDuringCall` needs
it: the token changes only under the write lock, when no caller is in `auth_call`. The
mutual exclusion of the RwLock is modelled, not proved: it is what the standard
library promises.

`BlobTransferProofs` proves, for any blob, any set of bodies, any size of the
buffer and any disk (`ChunkAssumption`, `SpaceAssumption`, `BlobAssumption`):

| Theorem | Statement |
|---|---|
| `TypeCorrect` | `Spec => []TypeOK` |
| `NothingLost` | `Spec => []HashedIsWritten` |
| `OnlyVerified` | `Spec => []OkMeansVerified` |
| `CancelIsSoon` | `Spec => []CancelledSoon` |

`OkMeansVerified` follows from `HashedIsWritten` at the end of the stream, with
`LoopInv` (`data` is empty when the loop reads). Each write moves bytes along
`file \o buffer \o data`: the steps are associativity and `Split`, a sequence is
its first `n` elements and the others. `LateInv` says that a late read is followed
by the look at `is_alive` that ends the loop.

`ManifestsProofs` proves, for any documents, indices and platforms
(`NamesAssumption`, `ImagesAssumption`, `IndexAssumption`, `RankAssumption`: a
digest identifies a document and is not an error or a tag):

| Theorem | Statement |
|---|---|
| `TypeCorrect` | `Spec => []TypeOK` |
| `ChainOfDigests` | `Spec => []ChainIsVerified` |
| `NeverTwice` | `Spec => []NoIndexTwice` |

`TagInv` connects what is requested with the last index; `RankInv` says that each
index has a higher rank than those after it and than what is requested.

`UnpackerProofs` proves, for any calls, threads and targets, with a crash
(`ThreadsAssumption`, `CallsAssumption`, `ElsewhereAssumption`):

| Theorem | Statement |
|---|---|
| `TypeCorrect` | `Spec => []TypeOK` |
| `Inductive` | `Spec => []IndInv` |
| `CreatorUnpacks` | `Spec => []OnlyCreatorUnpacks` |
| `ExclusiveSuccess` | `Spec => []SuccessIsExclusive` |
| `SandboxCovers` | `Spec => []SandboxCoversGet` |
| `SuccessOnce` | `Spec => []OneSuccessPerThread` |
| `UmaskRestored` | `Spec => []UmaskGivenBackAlone` |
| `Refinement` | `Spec => ImplementsClaims` |

`check_empty_dir` says little about the target when a call unpacks: `Placed` only
keeps that no file of others is there. The owner comes from `Fetched`: a worker
that holds a file created it, so that a call whose `Await` succeeded is
`config[target[c]]`; `Owned` and `Unpacked` carry this to the layers. `Confined`
says that a thread that got into `images::get` has nothing but one target left,
which is the one where its worker could write; with `OneAtATime`, a second success
in the thread would be on the same target, which has an owner already. `Alone` is
what the umask needs: as long as no two guards were alive, the one that is holds
the mask of the caller. In the refinement, `CreateConfig` is `Claim`,
`UnpackLayers` is `Fill`, a return is `Succeed` or `Fail`, and `Crash` a `Fail` of
all calls that run.

`LayerUnpackProofs` proves, for any names with lengths, depth, number of layers, types
and numbers of entries, and capacity of the cache (`NamesAssumption`: `.` is no name;
`NameLenAssumption`, `BoundsAssumption`, `ShapesAssumption`):

| Theorem | Statement |
|---|---|
| `Invariance` | `Spec => []IInv` |
| `TypeCorrect` | `Spec => []TypeOK` |
| `OverlayCorrect` | `Spec => []TreeIsOverlay` |
| `ModesCorrect` | `Spec => []DirModesApplied`, which is about images without symbolic links |
| `ParentsLast` | `Spec => ChildrenFirst` |

That the tree is the expected one is not inductive: an entry that finds its directory
in the cache does not look at the path again. `IInv` adds why it need not.

* `CachesOK`: each descriptor in the cache was used by an entry of this layer
  (`Opened`), or by a hard link for its source (`LinkOpened`). Those of `DirFdCache`
  are live, and so is `cached_link_dirfd` unless there was a late whiteout. Only
  whiteouts remove directories without replacing them, and they empty the cache; a
  file that replaces a directory whose descriptor is cached would displace the entry
  that opened it.
* `EntriesOK`: the entries of the layer are in place (`InPlace`, which is what builders
  write). With `CachesOK`, the path of a cached descriptor still leads to its directory
  (`EntryParent`, `StillLive`), so that an entry that finds its directory in the cache
  goes where an entry that walks there goes (`CacheHit`, `ParentOpened`). If
  `cached_link_dirfd` is stale, the entry fails (`StaleSource`), and it is never taken for
  another directory.
* `CachesType`: a new directory needs a generation that no descriptor has. There are
  `FdsCache + 2` generations and at most `FdsCache + 1` descriptors (`FreshGen`), so the
  finite generations of the model stand for the inodes of a file system.

Below this are lemmas about the file system: `Walks` is a function of the contents
(`SameWalk`), and what is found in a tree is found at the same place in a larger one
(`WalkExtends`), so that directories that `open_directory` creates redirect no path; a
tree from which a subtree is removed, and one to which a node is added, is a tree
(`ShapeRestrict`, `ShapeWith`). They are proved by induction on the number of links and
the length of the path. The induction theorems of the library take an operator, which
the provers can't instantiate: the lemmas use a set of numbers in its place, of which a
counterexample would be the least element outside (`Minimum`, `Induction`, from
well-foundedness).

`ModesInv` says that a directory with an entry has its mode waiting in `dirs_metadata`,
or applied. It needs that the key, which is the path in the archive, is the path of
the directory, hence the condition in `DirModesApplied`: with symbolic links two paths may
lead to one directory, and then the shorter path wins, whichever entry was last.
`ParentsLast` computes with the bytes of the paths, by induction on their components.

`ProgressProofs` proves, for any number of workers, layers and entries
(`ThreadsAssumption`, `SizesAssumption`):

| Theorem | Statement |
|---|---|
| `Inductive` | `Spec => []PrinterInv` |
| `EveryByte` | `Spec => []BytesInv` |
| `TypeCorrect` | `Spec => []TypeOK` |
| `OneLayerPerLine` | `Spec => []LineIsOrdered` |
| `NeverBack` | `Spec => LinesNeverGoBack` |
| `LastLineComplete` | `Spec => []LastLineIsComplete` |

`Locked` gives the line to one thread at a time. `Loaded` says what a thread that
is at some load has seen already, each value a lower bound of the counter it was
read from, and no less than the last line; `Sequenced` says how far main is in
`layer_start`, and that the three counters are ordered at each of its stores.

`BytesInv` says that the counter of bytes is the total of a share for each task
(`Received`): the share of a task that a worker has is what it read, which may be more
than the blob, and a task whose result is not an error has the bytes of its blob. Main
passes such tasks only (`Advanced`), so at `finished` each share is the size, and the
total is that of the image; the workers have no task left, hence are not in
`show_progress` (`Assigned`), hence nobody has the lock (`Exclusive`) and `try_write`
succeeds. `TotalGrows` and `TotalBounded` are the two facts about sums that this
takes. Before the end nothing bounds `received`: `TypeOK` says no more of it than that
it is a number.

`ParserProofs` proves, for any set of symbols with the separators in it, any algorithms
and sizes of their hashes, and texts of any length (`ReferenceSymbols`,
`ChallengeSymbols`, `HashBytesAssumption`):

| Theorem | Statement |
|---|---|
| `DigestComparisonExact` | `DigestIsExact`, for every text and hash |
| `DefaultsNeutral` | `DefaultsAreNeutral`, for every text |
| `DocumentedPartsFound` | `PartsFound`, for all parts that are `Documented` |
| `ChallengeSent` | `ChallengeIsSent`, for every list of parameters, with one realm at most |
| `InputsCorrect` | `Spec => []InputsAreTexts`, of `MCParsers` |
| `DigestsExact`, `ReferencesStable`, `PartsFoundAgain`, `ChallengesSent` | `Spec => []DigestsAreExact`, and so on for the four invariants of the run `parsers` |

The last four follow from the first ones, since what a behaviour types or composes is
text (`InputSymbols`). The others are about the operators.

* Digests: `FromStrRadix` of two hexadecimal digits is the byte, and nothing else is.
* References: `SplitJoined` and `RSplitJoined` say that the text before a separator and
  the text after it are found again if it is not in the one (or the other); `SplitFound`
  and `RSplitFound` that a text with a separator in it is two such texts. Each step of
  `parse` takes one part away (`DigestCut`, `TagCut`, `LocationCut`) and finds one that
  was put there (`DigestRead`, `TagRead`, `PortRead`, `LocationRead`, `PlainRead`). What
  `parse` returns therefore meets the conditions under which it is read back once it is
  written in full (`WrittenRead`): the subtle one is that a text without a digest has no
  `@` in any of its parts, so that none appears when the defaults are added.
* Challenges: `ParamRead` reads one parameter with its blanks; `RequestAdds` says that
  `AddParam` keeps the request at `Collected` of the parameters read so far, which is
  `RequestFor` of them if they have one realm at most (`CollectedAll`), and the
  pending ones at those that wait for realm (`Waiting`). `Mid` is where the loop is after
  `n` parameters, by induction on `n` (`TurnsOver`); after the last one the loop has
  returned and changes nothing (`TurnsStay`), and no more turns were needed than the
  header has symbols.

`Turn` and the header are recursive functions, not `RECURSIVE` operators, which the
provers can't take; that they exist (`TurnsExist`, `RowsExist`) and what they are is
proved as for the sums of `Progress`, by induction over a set of numbers (`UpTo`).

Only model-checked: liveness (`CancelTerminates`, `TerminatesUnlessWorkerPanics`,
`SendReturns`), which is beyond the prover; and `DirModesApplied` in trees with symbolic
links, where it does not hold in general.

## 5. What is not modelled

* Decompression and the tar format: they turn bytes into entries, with no state of
  the crate. `Progress` has the one thing that is visible, the read-ahead.
* Owners, groups and mtimes: they follow `mode` through the same code
  (`DirectoryMetadataEntry`). Entry types that are skipped (devices, FIFOs) change
  nothing but an event.
* What a failed entry leaves in rootfs: the call ends with an error and removes
  nothing, so that nothing reads it again.
* Absolute targets of symbolic links in `is_directory` (`layers.rs:360`), which are
  followed from the root of the host: the answer would be arbitrary and nothing in
  the repository says what it should be. Links that go above rootfs.
* `guess_scheme` and the media types: tables, with no state and no interaction; what
  matters of them is in `Manifests` (`ContentTypes`) and section 6.
* The rest of Landlock: reads, and the rights other than writing files. The model
  has where a thread may create files.
* The syntax of JSON and HTTP, which is that of `serde_json` and `ureq`.
* The command line of the example, its terminal, the tests and the CI scripts.

## 6. Where the code and its documentation differ

Each of these is a run that TLC shows violated.

* `client_challenge`: a request that is answered with `401` should get a token from the
  URL of the challenge and be sent again (`http/mod.rs:80`), but a request that had a
  token returns the `401` as its result (`:90`): once any token is stored, one that
  expires is never renewed, and every request fails from then on. One caller with one
  request is enough, as the requests for the manifest may have left a token in the client.
* `transfer_full`: `run_download` returns "the file where its contents are
  written" (`images.rs:203`), but `drop(output)` swallows the error of the last
  flush: on a full disk `config.json` may be truncated and the call succeed.
* `calls_umask`: `UmaskGuard` is there to store the previous umask and "restore it
  on drop" (`images.rs:147`), but the umask is one for the process: if two calls
  overlap, the second guard saves an empty mask, and leaves it if it is dropped last.
* `layers_shadow`: the metadata of directories that upper layers removed should be
  ignored (`images.rs:132`); if a file replaced a parent of theirs the error is
  `ENOTDIR`, which is not ignored, and the call fails at its very end.

Seen while modelling, with no run:

* A handler that panics in a worker ends that worker, but not the call: main waits for
  its task forever, so that `thread::scope` never gets to propagate the panic
  (`images.rs:68`). `PanicIsFinal` states it; nothing in the repository promises otherwise.
* `unpack_regular` removes the metadata of a directory that it replaces
  (`layers.rs:257`), whiteouts do not (`:162`): a file of a later layer at that path
  gets the mode of the directory.
* The length in the key is "needed to guarantee that child directories are updated
  before their parents" (`mod.rs:73`); the key of the root, `/.`, is no longer than
  `/a` and comes first. `ChildrenFirst` leaves the root out.
* A file that replaces a directory does not reset the cache of descriptors, though
  `layers.rs:154` says that any removal does. `TreeIsOverlay` holds all the same for
  the archives of `WellFormed`: a layer that replaces a directory does not go on to
  unpack below it.
* A whiteout does not reset `cached_link_dirfd` (`layers.rs:154` says that the cache is
  reset, which is that of `DirFdCache`): a hard link after it fails if its source is below
  the removed directory, even if that was created again. It takes a whiteout after other
  entries, which `process_whiteout` assumes away (`layers.rs:403`): outcome `"stale"`.
* A second `realm` in a challenge (`http/mod.rs:183`) starts the request anew, without the
  parameters that the first one had collected. What it should do is written nowhere, so
  `ChallengeIsSent` is about challenges with one.
* A symbolic link inside the path of the source of two hard links, replaced between them
  by the same layer, redirects the path but not `cached_link_dirfd` (`layers.rs:309`),
  which is found by its path: with `L -> A`, the entries "hard link to `L/d/f`",
  "`L -> B`", "hard link to `L/d/g`" take both sources from `A/d`. This needs three
  components, and a layer that has one path twice. `InPlace` (`SourceInPlace`) leaves
  such layers out: it is the weakest condition on sources under which `IInv` was found to
  be inductive.
* The mode of a directory is stored under the path of the entry (`layers.rs:212`). If a
  symbolic link leads to the directory, there may be two modes for it, and the longer
  path is applied first: with a directory `b/c`, the link `a -> b/c` and in the next layer
  an entry for the directory `a/`, then one for `b/c/`, the mode of `a/` is the one that
  stays. `ModesCorrect` has no symbolic links.
* With the digest of an index in the reference the index is followed, though
  `manifests.rs:29` says that it is skipped.
* `guess_scheme` uses `http://` for a loopback IP (`http/mod.rs:42`) only if it has a
  port: `SocketAddr` does not parse without one. An IPv6 address has no dot, so the
  parser never takes it for a registry.
* `archive_position` may be equal to `archive_length` before the last entry is
  unpacked, or never (`event_handler.rs:38`).
* A target that is created while another call has cleared the umask gets mode 0777.

## 7. Plan

Done: every component of section 1 but the media types, `guess_scheme` and what is
outside of the crate; abstract specifications for the pool and for the calls, and
their refinements, checked and proved.

What could still be added, and why it is not there:

* Deeper trees. Depth 3 with all types of entries was explored by random simulation
  only (millions of states, no violation of `TreeIsOverlay`), and is out of reach of
  an exhaustive run of some minutes. The theorems hold for every depth.
* The composition of two calls, each with its whole pool. `Unpacker` keeps the one
  worker whose file decides; the others touch nothing that two calls share.

## 8. Running it

    tlc -config DownloadPool.cfg DownloadPool.tla
    tlc -config MCUnpacker.cfg MCUnpacker.tla
    tlapm DownloadPoolProofs.tla
    tlapm RegistryClientProofs.tla
    tlapm BlobTransferProofs.tla
    tlapm ManifestsProofs.tla
    tlapm UnpackerProofs.tla
    tlapm ParserProofs.tla
    tlapm ProgressProofs.tla
    tlapm LayerUnpackProofs.tla

`PROJECT.json` gives the module and the configuration of each run.
