------------------------------ MODULE Unpacker ------------------------------
(***************************************************************************)
(* src/unpacker/mod.rs, Unpacker::unpack, called by several threads of a   *)
(* process, one call after another in each thread, on targets that the     *)
(* calls may share.  What the calls have in common is modelled:            *)
(*                                                                         *)
(*   - the target directories: the check at the beginning (check_empty_dir)*)
(*     and, long after, the creation of config.json (with O_EXCL, by a     *)
(*     worker of the pool) and of rootfs (by the calling thread);          *)
(*   - the Landlock domain of each thread, which can only shrink, and that *)
(*     the workers, spawned later, inherit;                                *)
(*   - the umask of the process, saved and cleared by UmaskGuard.          *)
(*                                                                         *)
(* The pool is reduced to what these need: the worker that downloads the   *)
(* configuration (DownloadPool has the rest).  The process may be killed   *)
(* once, and another one goes on with the calls that had not started.      *)
(***************************************************************************)
EXTENDS Naturals, FiniteSets

CONSTANTS Calls,       \* the calls of unpack
          Threads,
          ThreadOf,    \* the thread that makes each call
          Required,    \* the calls with require_sandbox
          Targets,     \* the directories given to the calls
          NoCall, Others

ASSUME ThreadsAssumption == ThreadOf \in [Calls -> Threads] /\ Required \subseteq Calls
ASSUME CallsAssumption == NoCall \notin Calls /\ Others \notin Calls /\ NoCall # Others

\* In a Landlock domain: what is not in a target, the parents of targets included.
Elsewhere == "elsewhere"
ASSUME ElsewhereAssumption == Elsewhere \notin Targets

VARIABLES target,           \* the argument of each call
          landlock,         \* the kernel supports what sandbox() asks for
          made,             \* targets that exist
          foreign,          \* targets that held files of others at first
          config,           \* who created config.json in each target
          rootfs,           \* targets where rootfs exists
          layers,           \* of each target: the calls that unpacked into rootfs
          umask,            \* of the process: the caller's, or empty
          saved,            \* what the UmaskGuard of each call holds, or "none"
          domain,           \* of each thread: where it may create files
          pc, fetch,        \* of each call: its thread, its worker
          outcome,          \* result of each call
          overlapped,       \* history: two guards of this process were alive
          crashed           \* history: the process was killed

inputs == <<target, landlock, foreign>>
files  == <<made, config, rootfs, layers>>
mask   == <<umask, saved, overlapped>>
vars   == <<inputs, files, mask, domain, pc, fetch, outcome, crashed>>

InScope  == {"rootfs", "mkrootfs", "await", "layers", "metadata", "leave"}
InGet    == InScope \union {"open", "umask"}       \* images::get
InUnpack == InGet \union {"exists", "mkdir", "list", "manifest", "sandbox"}

Guards == {c \in Calls : saved[c] # "none"}
Mine(c) == domain[ThreadOf[c]]
NotEmpty(t) == t \in foreign \/ t \in rootfs \/ config[t] # NoCall

Init == /\ target \in [Calls -> Targets]
        /\ landlock \in BOOLEAN
        /\ foreign \in SUBSET Targets
        /\ made \in {m \in SUBSET Targets : foreign \subseteq m}
        /\ config = [t \in Targets |-> NoCall]
        /\ rootfs = {}
        /\ layers = [t \in Targets |-> {}]
        /\ umask = "caller"
        /\ saved = [c \in Calls |-> "none"]
        /\ domain = [th \in Threads |-> Targets \union {Elsewhere}]
        /\ pc = [c \in Calls |-> "idle"]
        /\ fetch = [c \in Calls |-> "none"]
        /\ outcome = [c \in Calls |-> "none"]
        /\ overlapped = FALSE
        /\ crashed = FALSE
-----------------------------------------------------------------------------
Go(c, from, to) == pc[c] = from /\ pc' = [pc EXCEPT ![c] = to]

\* A failure before UmaskGuard exists, as an error or as a panic of a handler.
Return(c) == /\ pc' = [pc EXCEPT ![c] = "returned"]
             /\ outcome' = [outcome EXCEPT ![c] = "error"]

Start(c) == /\ \A d \in Calls : ThreadOf[d] = ThreadOf[c] => pc[d] \notin InUnpack
            /\ Go(c, "idle", "exists")
            /\ UNCHANGED <<inputs, files, mask, domain, fetch, outcome, crashed>>

\* Path::exists needs no access right.
Exists(c) == /\ Go(c, "exists", IF target[c] \in made THEN "list" ELSE "mkdir")
             /\ UNCHANGED <<inputs, files, mask, domain, fetch, outcome, crashed>>

\* Fault: an error of create_dir_all is ignored.
MakeTargetIgnored(c) == /\ Go(c, "mkdir", "manifest")
                        /\ UNCHANGED <<inputs, files, mask, domain, fetch, outcome, crashed>>

\* create_dir_all: nothing to do if the directory appeared meanwhile.
MakeTarget(c) == /\ Go(c, "mkdir", "manifest")
                 /\ target[c] \in made \/ Elsewhere \in Mine(c)
                 /\ made' = made \union {target[c]}
                 /\ UNCHANGED <<inputs, config, rootfs, layers, mask, domain, fetch,
                                outcome, crashed>>

MakeTargetFails(c) == /\ pc[c] = "mkdir"
                      /\ target[c] \notin made
                      /\ Return(c)
                      /\ UNCHANGED <<inputs, files, mask, domain, fetch, crashed>>

\* Fault: a target that exists is not looked into.
ListNothing(c) == /\ Go(c, "list", "manifest")
                  /\ UNCHANGED <<inputs, files, mask, domain, fetch, outcome, crashed>>

\* read_dir: the target has no entries.
List(c) == /\ Go(c, "list", "manifest")
           /\ target[c] \in Mine(c)
           /\ ~NotEmpty(target[c])
           /\ UNCHANGED <<inputs, files, mask, domain, fetch, outcome, crashed>>

\* ENOTEMPTY, or an error of read_dir.
ListFails(c) == /\ pc[c] = "list"
                /\ Return(c)
                /\ UNCHANGED <<inputs, files, mask, domain, fetch, crashed>>

Manifest(c) == /\ pc[c] = "manifest"
               /\ \/ Go(c, "manifest", "sandbox") /\ UNCHANGED outcome
                  \/ Return(c)
               /\ UNCHANGED <<inputs, files, mask, domain, fetch, crashed>>

\* Fault: an error of sandbox() is always ignored.
SandboxOptional(c) ==
    /\ Go(c, "sandbox", "open")
    /\ domain' = [domain EXCEPT ![ThreadOf[c]] =
                     IF landlock THEN @ \intersect {target[c]} ELSE @]
    /\ UNCHANGED <<inputs, files, mask, fetch, outcome, crashed>>

\* Fault: only the last rule counts, as if a new domain replaced the old one.
SandboxReplaced(c) ==
    /\ Go(c, "sandbox", "open")
    /\ landlock \/ c \notin Required
    /\ domain' = [domain EXCEPT ![ThreadOf[c]] =
                     IF landlock THEN {target[c], Elsewhere} ELSE @]
    /\ UNCHANGED <<inputs, files, mask, fetch, outcome, crashed>>

\* restrict_self: the new domain is the intersection with the old one. As in builds
\* with the feature sandbox, which is a default one.
Sandbox(c) ==
    /\ Go(c, "sandbox", "open")
    /\ landlock \/ c \notin Required
    /\ domain' = [domain EXCEPT ![ThreadOf[c]] =
                     IF landlock THEN @ \intersect {target[c]} ELSE @]
    /\ UNCHANGED <<inputs, files, mask, fetch, outcome, crashed>>

SandboxFails(c) == /\ pc[c] = "sandbox"
                   /\ ~landlock /\ c \in Required
                   /\ Return(c)
                   /\ UNCHANGED <<inputs, files, mask, domain, fetch, crashed>>
-----------------------------------------------------------------------------
(* images::get *)

\* Directory::new opens the target with O_PATH; download_start may panic.
Open(c) == /\ pc[c] = "open"
           /\ \/ Go(c, "open", "umask") /\ UNCHANGED outcome
              \/ Return(c)
           /\ UNCHANGED <<inputs, files, mask, domain, fetch, crashed>>

\* The guard, then the scope and its workers.
ClearUmask(c) == /\ Go(c, "umask", "rootfs")
                 /\ saved' = [saved EXCEPT ![c] = umask]
                 /\ umask' = "empty"
                 /\ overlapped' = (overlapped \/ Guards # {})
                 /\ fetch' = [fetch EXCEPT ![c] = "queued"]
                 /\ UNCHANGED <<inputs, files, domain, outcome, crashed>>

\* Fault: config.json is opened if it exists.
CreateConfigShared(c) == /\ fetch[c] = "queued"
                         /\ target[c] \in Mine(c)
                         /\ fetch' = [fetch EXCEPT ![c] = "writing"]
                         /\ config' = [config EXCEPT ![target[c]] = c]
                         /\ UNCHANGED <<inputs, made, rootfs, layers, mask, domain,
                                        pc, outcome, crashed>>

\* The worker that took the first task: Directory::create, with O_EXCL.
CreateConfig(c) == /\ fetch[c] = "queued"
                   /\ config[target[c]] = NoCall
                   /\ target[c] \in Mine(c)
                   /\ fetch' = [fetch EXCEPT ![c] = "writing"]
                   /\ config' = [config EXCEPT ![target[c]] = c]
                   /\ UNCHANGED <<inputs, made, rootfs, layers, mask, domain, pc,
                                  outcome, crashed>>

\* A request, the creation or the transfer fails; or the blob is complete.
FetchEnds(c) == /\ \/ fetch[c] \in {"queued", "writing"} /\ fetch' = [fetch EXCEPT ![c] = "error"]
                   \/ fetch[c] = "writing" /\ fetch' = [fetch EXCEPT ![c] = "file"]
                /\ UNCHANGED <<inputs, files, mask, domain, pc, outcome, crashed>>

\* open_directory: the first openat2.
OpenRootfs(c) == /\ Go(c, "rootfs", IF target[c] \in rootfs THEN "await" ELSE "mkrootfs")
                 /\ UNCHANGED <<inputs, files, mask, domain, fetch, outcome, crashed>>

\* open_directory: mkdirat, and openat2 again.
MakeRootfs(c) == /\ Go(c, "mkrootfs", "await")
                 /\ target[c] \notin rootfs
                 /\ target[c] \in Mine(c)
                 /\ rootfs' = rootfs \union {target[c]}
                 /\ UNCHANGED <<inputs, made, config, layers, mask, domain, fetch,
                                outcome, crashed>>

\* Fault: any result of the configuration starts the layers.
AwaitAnything(c) == /\ Go(c, "await", "layers")
                    /\ fetch[c] \in {"file", "error"}
                    /\ UNCHANGED <<inputs, files, mask, domain, fetch, outcome, crashed>>

\* The first task.get() of the loop.
Await(c) == /\ Go(c, "await", "layers")
            /\ fetch[c] = "file"
            /\ UNCHANGED <<inputs, files, mask, domain, fetch, outcome, crashed>>

UnpackLayers(c) == /\ Go(c, "layers", "metadata")
                   /\ layers' = [layers EXCEPT ![target[c]] = @ \union {c}]
                   /\ UNCHANGED <<inputs, made, config, rootfs, mask, domain, fetch,
                                  outcome, crashed>>

\* The end of the closure of the scope, or any error or panic in it.
LeaveScope(c) == /\ \/ pc[c] \in InScope \ {"leave", "await"}
                    \/ pc[c] = "await" /\ fetch[c] = "error"
                 /\ pc' = [pc EXCEPT ![c] = "leave"]
                 /\ \/ outcome' = [outcome EXCEPT ![c] = "error"]
                    \/ pc[c] = "metadata" /\ outcome' = [outcome EXCEPT ![c] = "ok"]
                 /\ UNCHANGED <<inputs, files, mask, domain, fetch, crashed>>

\* Fault: the umask is set back only if the call succeeds.
JoinUnguarded(c) == /\ Go(c, "leave", "returned")
                    /\ fetch[c] \notin {"queued", "writing"}
                    /\ umask' = IF outcome[c] = "ok" THEN saved[c] ELSE umask
                    /\ saved' = [saved EXCEPT ![c] = "none"]
                    /\ UNCHANGED <<inputs, files, overlapped, domain, fetch, outcome, crashed>>

\* The workers are joined, UmaskGuard is dropped.
Join(c) == /\ Go(c, "leave", "returned")
           /\ fetch[c] \notin {"queued", "writing"}
           /\ umask' = saved[c]
           /\ saved' = [saved EXCEPT ![c] = "none"]
           /\ UNCHANGED <<inputs, files, overlapped, domain, fetch, outcome, crashed>>
-----------------------------------------------------------------------------
\* The process is killed: files stay, and the threads of another process go on.
Crash == /\ ~crashed
         /\ crashed' = TRUE
         /\ \E c \in Calls : pc[c] \in InUnpack
         /\ outcome' = [c \in Calls |-> IF pc[c] \in InUnpack THEN "error" ELSE outcome[c]]
         /\ pc' = [c \in Calls |-> IF pc[c] \in InUnpack THEN "returned" ELSE pc[c]]
         /\ fetch' = [c \in Calls |-> "none"]
         /\ domain' = [th \in Threads |-> Targets \union {Elsewhere}]
         /\ umask' = "caller"
         /\ saved' = [c \in Calls |-> "none"]
         /\ overlapped' = FALSE
         /\ UNCHANGED <<inputs, files>>

Step(c) == \/ Start(c) \/ Exists(c) \/ MakeTarget(c) \/ MakeTargetFails(c)
           \/ List(c) \/ ListFails(c) \/ Manifest(c) \/ Sandbox(c) \/ SandboxFails(c)
           \/ Open(c) \/ ClearUmask(c) \/ CreateConfig(c) \/ FetchEnds(c)
           \/ OpenRootfs(c) \/ MakeRootfs(c) \/ Await(c) \/ UnpackLayers(c)
           \/ LeaveScope(c) \/ Join(c)

Finished == (\A c \in Calls : pc[c] = "returned") /\ UNCHANGED vars

Next == (\E c \in Calls : Step(c)) \/ Crash \/ Finished

Spec == Init /\ [][Next]_vars
-----------------------------------------------------------------------------
(* Properties. *)

\* The variables keep their types: the type invariant of unpack and of its guards.
TypeOK ==
    /\ target \in [Calls -> Targets]
    /\ landlock \in BOOLEAN /\ overlapped \in BOOLEAN /\ crashed \in BOOLEAN
    /\ foreign \subseteq made /\ made \subseteq Targets /\ rootfs \subseteq made
    /\ config \in [Targets -> Calls \union {NoCall}]
    /\ layers \in [Targets -> SUBSET Calls]
    /\ umask \in {"caller", "empty"} /\ saved \in [Calls -> {"none", "caller", "empty"}]
    /\ domain \in [Threads -> SUBSET (Targets \union {Elsewhere})]
    /\ pc \in [Calls -> InUnpack \union {"idle", "returned"}]
    /\ fetch \in [Calls -> {"none", "queued", "writing", "file", "error"}]
    /\ outcome \in [Calls -> {"none", "ok", "error"}]

\* Both check_empty_dir of two calls may find the target empty, but only the one
\* that creates config.json unpacks, and nobody unpacks over files of others.
OnlyCreatorUnpacks ==
    \A t \in Targets : layers[t] \subseteq (IF t \in foreign THEN {} ELSE {config[t]})

\* What is in a target after a success is the image of that call: no other call
\* unpacked into it, before or after, in this process or in one that was killed.
SuccessIsExclusive ==
    \A c \in Calls : outcome[c] = "ok" =>
        /\ config[target[c]] = c
        /\ layers[target[c]] = {c}

\* With require_sandbox, all that images::get and its workers do is done in a
\* domain without anything but the target.
SandboxCoversGet ==
    \A c \in Calls : pc[c] \in InGet /\ c \in Required => Mine(c) \subseteq {target[c]}

\* The sandbox is for good: a thread restricted by a call never succeeds again.
OneSuccessPerThread ==
    landlock /\ ~crashed =>
        \A c, d \in Calls : ThreadOf[c] = ThreadOf[d] /\ outcome[c] = "ok"
                            /\ outcome[d] = "ok" => c = d

\* Unless two calls overlapped, the umask of the caller is back when no call is in
\* images::get, however the calls ended, and it is empty as long as one is.
UmaskGivenBackAlone ==
    ~overlapped => umask = (IF Guards = {} THEN "caller" ELSE "empty")

\* UmaskGuard is said to store the previous value of umask, to restore it on drop:
\* after the last drop the umask is the caller's.
UmaskGivenBack == Guards = {} => umask = "caller"

\* config.json is what makes the calls implement TargetClaims.
Claims == INSTANCE TargetClaims WITH
    owner  <- [t \in Targets |-> IF t \in foreign THEN Others ELSE config[t]],
    filled <- {t \in Targets : layers[t] # {}},
    result <- [c \in Calls |-> IF pc[c] = "returned" THEN outcome[c] ELSE "none"]

\* A target has one owner, and only the owner's call may fill it and succeed.
ImplementsClaims == Claims!Spec
=============================================================================
