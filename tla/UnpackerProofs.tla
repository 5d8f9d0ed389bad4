--------------------------- MODULE UnpackerProofs ---------------------------
(***************************************************************************)
(* Proofs about Unpacker, for any calls, threads and targets: what is in a *)
(* target belongs to the call that created config.json, what the sandbox   *)
(* and the umask guard cover, and the implementation of TargetClaims.      *)
(***************************************************************************)
EXTENDS Unpacker, TLAPS

USE ThreadsAssumption, CallsAssumption, ElsewhereAssumption

Kept == {"manifest", "sandbox"} \union InGet   \* after check_empty_dir

\* A call that passed check_empty_dir has a directory, with no files of others.
Placed == \A c \in Calls : /\ pc[c] = "mkdir" => target[c] \notin foreign
                           /\ pc[c] = "list" => target[c] \in made
                           /\ pc[c] \in Kept => target[c] \in made \ foreign

\* The guard lives exactly as long as the scope.
Guarded == \A c \in Calls : pc[c] \in InScope <=> saved[c] # "none"

\* The worker lives in the scope, and holds a file that it created.
Fetched == \A c \in Calls : /\ fetch[c] \in {"queued", "writing"} => pc[c] \in InScope
                            /\ fetch[c] \in {"writing", "file"} => config[target[c]] = c
                            /\ fetch[c] # "none" => pc[c] \in InScope \union {"returned"}
                            /\ pc[c] \in {"layers", "metadata"} => fetch[c] = "file"

\* config.json is only created where there was nothing.
Owned == \A t \in foreign : config[t] = NoCall

\* Only the owner unpacks, and a call that is done with the layers did.
Unpacked == /\ OnlyCreatorUnpacks
            /\ \A c \in Calls : pc[c] = "metadata" => layers[target[c]] = {c}

\* A call has a result when it leaves the scope.
Decided == \A c \in Calls : pc[c] \in {"leave", "returned"} => outcome[c] # "none"

\* As long as no two guards were alive, the one that is holds the caller's umask.
Alone == ~overlapped => /\ \A c, d \in Guards : c = d
                        /\ \A c \in Calls : saved[c] # "empty"
                        /\ UmaskGivenBackAlone

\* A thread makes one call at a time.
OneAtATime == \A c, d \in Calls :
                 ThreadOf[c] = ThreadOf[d] /\ pc[c] \in InUnpack /\ pc[d] \in InUnpack => c = d

\* If the kernel has Landlock, a call that got into images::get leaves its thread
\* with nothing but the target, which it had while its worker wrote there.
Confined ==
    landlock /\ ~crashed =>
        \A c \in Calls :
            /\ pc[c] \in InGet \/ outcome[c] = "ok" => Mine(c) \subseteq {target[c]}
            /\ pc[c] \in InScope /\ fetch[c] \in {"writing", "file"} => target[c] \in Mine(c)

IndInv == /\ TypeOK /\ Placed /\ Guarded /\ Fetched /\ Owned /\ Unpacked /\ Decided
          /\ SuccessIsExclusive /\ Alone /\ OneAtATime /\ SandboxCoversGet
          /\ Confined /\ OneSuccessPerThread
-----------------------------------------------------------------------------
(* Each part of the invariant, step by step. *)

\* The variables start with their types, and nothing has happened.
LEMMA InitIndInv == Init => IndInv
<1>1. Init => Owned
  <2> SUFFICES ASSUME Init, NEW t \in foreign PROVE config[t] = NoCall
    BY DEF Owned
  <2>1. t \in Targets /\ config = [u \in Targets |-> NoCall]
    BY DEF Init
  <2>2. QED
    BY <2>1
<1>2. Init => TypeOK
  <2> SUFFICES ASSUME Init PROVE TypeOK
    OBVIOUS
  <2>1. foreign \subseteq made /\ made \subseteq Targets
    BY Zenon DEF Init
  <2>2. pc \in [Calls -> InUnpack \union {"idle", "returned"}]
    BY DEF Init
  <2>3. /\ config \in [Targets -> Calls \union {NoCall}] /\ layers \in [Targets -> SUBSET Calls]
        /\ domain \in [Threads -> SUBSET (Targets \union {Elsewhere})]
    BY DEF Init
  <2>4. QED
    BY <2>1, <2>2, <2>3 DEF TypeOK, Init
<1>3. Init => Placed /\ Guarded /\ Fetched
  BY DEF Init, Placed, Guarded, Fetched, Kept, InScope, InGet, InUnpack
<1>4. Init => Unpacked /\ Decided /\ SuccessIsExclusive /\ Alone
  BY DEF Init, Unpacked, Decided, SuccessIsExclusive, Alone, OnlyCreatorUnpacks, Guards,
         UmaskGivenBackAlone
<1>5. Init => OneAtATime /\ SandboxCoversGet /\ Confined /\ OneSuccessPerThread
  BY DEF Init, OneAtATime, SandboxCoversGet, Confined, OneSuccessPerThread,
         InUnpack, InGet, InScope
<1>6. QED
  BY <1>1, <1>2, <1>3, <1>4, <1>5 DEF IndInv

\* The steps before images::get, which only move the call on or end it.
Early(c) == \/ Start(c) \/ Exists(c) \/ MakeTarget(c) \/ MakeTargetFails(c)
            \/ List(c) \/ ListFails(c) \/ Manifest(c) \/ Sandbox(c) \/ SandboxFails(c)
            \/ Open(c)

\* The steps of the scope.
Scoped(c) == \/ ClearUmask(c) \/ CreateConfig(c) \/ FetchEnds(c) \/ OpenRootfs(c)
             \/ MakeRootfs(c) \/ Await(c) \/ UnpackLayers(c) \/ LeaveScope(c) \/ Join(c)

\* A step is one of a call, the end of the process, or nothing.
LEMMA NextCases ==
    [Next]_vars => \/ \E c \in Calls : Early(c) \/ Scoped(c)
                   \/ Crash
                   \/ UNCHANGED vars
  BY DEF Next, Step, Early, Scoped, Finished

\* Only CreateConfig writes config.json, and only UnpackLayers the layers.
LEMMA ConfigCases ==
    [Next]_vars => /\ UNCHANGED <<target, landlock, foreign>>
                   /\ \/ \E c \in Calls : CreateConfig(c) \/ UnpackLayers(c)
                      \/ UNCHANGED <<config, layers>>
<1> SUFFICES ASSUME [Next]_vars
             PROVE  /\ UNCHANGED <<target, landlock, foreign>>
                    /\ \/ \E c \in Calls : CreateConfig(c) \/ UnpackLayers(c)
                       \/ UNCHANGED <<config, layers>>
  OBVIOUS
<1> USE DEF inputs, files
<1>1. ASSUME NEW c \in Calls, Early(c)
      PROVE  UNCHANGED <<target, landlock, foreign, config, layers>>
  BY <1>1 DEF Early, Start, Exists, MakeTarget, MakeTargetFails, List, ListFails,
              Manifest, Sandbox, SandboxFails, Open
<1>2. ASSUME NEW c \in Calls, Scoped(c)
      PROVE  /\ UNCHANGED <<target, landlock, foreign>>
             /\ CreateConfig(c) \/ UnpackLayers(c) \/ UNCHANGED <<config, layers>>
  BY <1>2 DEF Scoped, ClearUmask, CreateConfig, FetchEnds, OpenRootfs, MakeRootfs,
              Await, UnpackLayers, LeaveScope, Join
<1>3. CASE Crash \/ UNCHANGED vars
  BY <1>3 DEF Crash, vars
<1>4. QED
  BY <1>1, <1>2, <1>3, NextCases

\* Every step keeps the types.
LEMMA TypeStep ==
    ASSUME TypeOK, Placed, Guarded, [Next]_vars
    PROVE  TypeOK'
<1>1. ASSUME NEW c \in Calls, Early(c) PROVE TypeOK'
  <2> USE TypeOK DEF TypeOK, Go, Return, inputs, files, mask, InUnpack, InGet, InScope
  <2>1. CASE Start(c) \/ Exists(c)
    BY <2>1 DEF Start, Exists
  <2>2. CASE MakeTarget(c) \/ MakeTargetFails(c)
    BY <2>2 DEF MakeTarget, MakeTargetFails
  <2>3. CASE List(c) \/ ListFails(c)
    BY <2>3 DEF List, ListFails
  <2>4. CASE Manifest(c) \/ SandboxFails(c) \/ Open(c)
    BY <2>4 DEF Manifest, SandboxFails, Open
  <2>5. CASE Sandbox(c)
    BY <2>5 DEF Sandbox
  <2>6. QED
    BY <1>1, <2>1, <2>2, <2>3, <2>4, <2>5 DEF Early
<1>2. ASSUME NEW c \in Calls, Scoped(c) PROVE TypeOK'
  <2> USE TypeOK DEF TypeOK, Go, inputs, files, mask, InUnpack, InGet, InScope
  <2>1. CASE ClearUmask(c)
    BY <2>1 DEF ClearUmask
  <2>2. CASE CreateConfig(c) \/ FetchEnds(c)
    BY <2>2 DEF CreateConfig, FetchEnds
  <2>3. CASE OpenRootfs(c) \/ Await(c) \/ UnpackLayers(c)
    BY <2>3 DEF OpenRootfs, Await, UnpackLayers
  <2>4. CASE MakeRootfs(c)
    BY <2>4, Placed DEF MakeRootfs, Placed, Kept
  <2>5. CASE LeaveScope(c)
    BY <2>5 DEF LeaveScope
  <2>6. CASE Join(c)
    BY <2>6, Guarded DEF Join, Guarded
  <2>7. QED
    BY <1>2, <2>1, <2>2, <2>3, <2>4, <2>5, <2>6 DEF Scoped
<1>3. CASE Crash
  BY <1>3 DEF TypeOK, Crash, inputs, files, InUnpack, InGet, InScope
<1>4. CASE UNCHANGED vars
  BY <1>4 DEF TypeOK, vars, inputs, files, mask
<1>5. QED
  BY <1>1, <1>2, <1>3, <1>4, NextCases

\* What a step may change: the place of the call, and its directory.
LEMMA PlacedStep ==
    ASSUME TypeOK, Placed, [Next]_vars
    PROVE  Placed'
<1> USE DEF Placed, Kept, InGet, InScope
<1>1. ASSUME NEW c \in Calls, Early(c) PROVE Placed'
  <2> USE TypeOK DEF TypeOK, Go, Return, inputs, files, mask
  <2>1. CASE Start(c) \/ Exists(c)
    BY <2>1, Placed DEF Start, Exists
  <2>2. CASE MakeTarget(c) \/ MakeTargetFails(c)
    BY <2>2, Placed DEF MakeTarget, MakeTargetFails
  <2>3. CASE List(c)
    <3>1. target[c] \in made \ foreign
      BY <2>3, Placed DEF List, NotEmpty
    <3>2. QED
      BY <2>3, <3>1, Placed DEF List
  <2>4. CASE ListFails(c) \/ Manifest(c) \/ SandboxFails(c) \/ Open(c)
    BY <2>4, Placed DEF ListFails, Manifest, SandboxFails, Open
  <2>5. CASE Sandbox(c)
    BY <2>5, Placed DEF Sandbox
  <2>6. QED
    BY <1>1, <2>1, <2>2, <2>3, <2>4, <2>5 DEF Early
<1>2. ASSUME NEW c \in Calls, Scoped(c) PROVE Placed'
  <2> USE Placed, TypeOK DEF TypeOK, Go, inputs, files, mask
  <2>1. CASE ClearUmask(c) \/ CreateConfig(c) \/ FetchEnds(c)
    BY <2>1 DEF ClearUmask, CreateConfig, FetchEnds
  <2>2. CASE OpenRootfs(c) \/ MakeRootfs(c) \/ Await(c)
    BY <2>2 DEF OpenRootfs, MakeRootfs, Await
  <2>3. CASE UnpackLayers(c) \/ LeaveScope(c) \/ Join(c)
    BY <2>3 DEF UnpackLayers, LeaveScope, Join
  <2>4. QED
    BY <1>2, <2>1, <2>2, <2>3 DEF Scoped
<1>3. CASE Crash
  BY <1>3, Placed, TypeOK DEF TypeOK, Crash, inputs, files, InUnpack
<1>4. CASE UNCHANGED vars
  BY <1>4, Placed DEF vars, inputs, files
<1>5. QED
  BY <1>1, <1>2, <1>3, <1>4, NextCases

\* The guard is created when the scope begins and dropped when it ends.
LEMMA GuardedStep ==
    ASSUME TypeOK, Guarded, [Next]_vars
    PROVE  Guarded'
<1> USE DEF Guarded, InScope, Go, mask
<1>1. ASSUME NEW c \in Calls, Early(c) PROVE Guarded'
  <2> USE Guarded, TypeOK DEF TypeOK, Return
  <2>1. CASE Start(c) \/ Exists(c) \/ MakeTarget(c) \/ MakeTargetFails(c)
    BY <2>1 DEF Start, Exists, MakeTarget, MakeTargetFails
  <2>2. CASE List(c) \/ ListFails(c) \/ Manifest(c) \/ Sandbox(c)
    BY <2>2 DEF List, ListFails, Manifest, Sandbox
  <2>3. CASE SandboxFails(c) \/ Open(c)
    BY <2>3 DEF SandboxFails, Open
  <2>4. QED
    BY <1>1, <2>1, <2>2, <2>3 DEF Early
<1>2. ASSUME NEW c \in Calls, Scoped(c) PROVE Guarded'
  <2> USE Guarded, TypeOK DEF TypeOK
  <2>1. CASE ClearUmask(c) \/ CreateConfig(c) \/ FetchEnds(c)
    BY <2>1 DEF ClearUmask, CreateConfig, FetchEnds
  <2>2. CASE OpenRootfs(c) \/ MakeRootfs(c) \/ Await(c)
    BY <2>2 DEF OpenRootfs, MakeRootfs, Await
  <2>3. CASE UnpackLayers(c) \/ LeaveScope(c) \/ Join(c)
    BY <2>3 DEF UnpackLayers, LeaveScope, Join
  <2>4. QED
    BY <1>2, <2>1, <2>2, <2>3 DEF Scoped
<1>3. CASE Crash
  BY <1>3, TypeOK DEF TypeOK, Crash, InUnpack, InGet
<1>4. CASE UNCHANGED vars
  BY <1>4, Guarded DEF vars
<1>5. QED
  BY <1>1, <1>2, <1>3, <1>4, NextCases

\* The worker of a call starts with the scope, and the scope waits for its end.
LEMMA FetchedStep ==
    ASSUME TypeOK, Fetched, [Next]_vars
    PROVE  Fetched'
<1> USE DEF Fetched, InScope, Go, files
<1>1. ASSUME NEW c \in Calls, Early(c) PROVE Fetched'
  <2> USE Fetched, TypeOK DEF TypeOK, Return, inputs
  <2>1. CASE Start(c) \/ Exists(c) \/ MakeTarget(c) \/ MakeTargetFails(c)
    BY <2>1 DEF Start, Exists, MakeTarget, MakeTargetFails
  <2>2. CASE List(c) \/ ListFails(c) \/ Manifest(c) \/ Sandbox(c)
    BY <2>2 DEF List, ListFails, Manifest, Sandbox
  <2>3. CASE SandboxFails(c) \/ Open(c)
    BY <2>3 DEF SandboxFails, Open
  <2>4. QED
    BY <1>1, <2>1, <2>2, <2>3 DEF Early
<1>2. ASSUME NEW c \in Calls, Scoped(c) PROVE Fetched'
  <2> USE Fetched, TypeOK DEF TypeOK, inputs
  <2>1. CASE ClearUmask(c)
    BY <2>1 DEF ClearUmask
  <2>2. CASE CreateConfig(c)
    BY <2>2 DEF CreateConfig
  <2>3. CASE FetchEnds(c)
    BY <2>3 DEF FetchEnds
  <2>4. CASE OpenRootfs(c) \/ MakeRootfs(c) \/ Await(c)
    BY <2>4 DEF OpenRootfs, MakeRootfs, Await
  <2>5. CASE UnpackLayers(c) \/ LeaveScope(c)
    BY <2>5 DEF UnpackLayers, LeaveScope
  <2>6. CASE Join(c)
    BY <2>6 DEF Join
  <2>7. QED
    BY <1>2, <2>1, <2>2, <2>3, <2>4, <2>5, <2>6 DEF Scoped
<1>3. CASE Crash
  BY <1>3, TypeOK DEF TypeOK, Crash, InUnpack, InGet
<1>4. CASE UNCHANGED vars
  BY <1>4, Fetched DEF vars, inputs
<1>5. QED
  BY <1>1, <1>2, <1>3, <1>4, NextCases

\* A worker only starts for a target that passed check_empty_dir.
LEMMA OwnedStep ==
    ASSUME TypeOK, Placed, Fetched, Owned, [Next]_vars
    PROVE  Owned'
<1> USE DEF Owned
<1>1. ASSUME NEW c \in Calls, CreateConfig(c) PROVE Owned'
  <2>1. target[c] \notin foreign
    BY <1>1, Placed, Fetched DEF CreateConfig, Placed, Fetched, Kept, InGet
  <2>2. QED
    BY <1>1, <2>1, Owned, TypeOK DEF CreateConfig, TypeOK, inputs
<1>2. CASE UNCHANGED <<config, foreign>>
  BY <1>2, Owned
<1>3. QED
  BY <1>1, <1>2, ConfigCases DEF UnpackLayers

\* How a call may get to the end of the layers, and to an outcome.
Moved(d) == /\ pc'[d] = "metadata" => pc[d] = "metadata" \/ UnpackLayers(d)
            /\ outcome'[d] = "ok" => outcome[d] = "ok" \/ pc[d] = "metadata"
            /\ outcome'[d] = "none" => outcome[d] = "none"
            /\ pc'[d] \in {"leave", "returned"} =>
                   outcome'[d] # "none" \/ pc[d] \in {"leave", "returned"}

\* A call succeeds at the end of the metadata, which follows the layers, and none
\* leaves the scope or returns without a result.
LEMMA MoveCases ==
    ASSUME TypeOK, [Next]_vars, NEW d \in Calls
    PROVE  Moved(d)
<1> USE TypeOK DEF TypeOK, Moved
<1>1. ASSUME NEW c \in Calls, Early(c) PROVE Moved(d)
  <2> USE DEF Go, Return
  <2>1. CASE Start(c) \/ Exists(c) \/ MakeTarget(c) \/ MakeTargetFails(c)
    BY <2>1 DEF Start, Exists, MakeTarget, MakeTargetFails
  <2>2. CASE List(c) \/ ListFails(c) \/ Manifest(c) \/ Sandbox(c)
    BY <2>2 DEF List, ListFails, Manifest, Sandbox
  <2>3. CASE SandboxFails(c) \/ Open(c)
    BY <2>3 DEF SandboxFails, Open
  <2>4. QED
    BY <1>1, <2>1, <2>2, <2>3 DEF Early
<1>2. ASSUME NEW c \in Calls, Scoped(c) PROVE Moved(d)
  <2> USE DEF Go
  <2>1. CASE ClearUmask(c) \/ CreateConfig(c) \/ FetchEnds(c) \/ OpenRootfs(c)
    BY <2>1 DEF ClearUmask, CreateConfig, FetchEnds, OpenRootfs
  <2>2. CASE MakeRootfs(c) \/ Await(c) \/ Join(c)
    BY <2>2 DEF MakeRootfs, Await, Join
  <2>3. CASE UnpackLayers(c)
    <3>1. c = d \/ pc'[d] = pc[d]
      BY <2>3 DEF UnpackLayers
    <3>2. outcome' = outcome /\ pc'[c] = "metadata"
      BY <2>3 DEF UnpackLayers
    <3>3. QED
      BY <2>3, <3>1, <3>2
  <2>4. CASE LeaveScope(c)
    BY <2>4 DEF LeaveScope, InScope
  <2>5. QED
    BY <1>2, <2>1, <2>2, <2>3, <2>4 DEF Scoped
<1>3. CASE Crash
  BY <1>3 DEF Crash, InUnpack, InGet, InScope
<1>4. CASE UNCHANGED vars
  BY <1>4 DEF vars
<1>5. QED
  BY <1>1, <1>2, <1>3, <1>4, NextCases

\* Layers go to the target of the call that created config.json.
LEMMA UnpackedStep ==
    ASSUME TypeOK, Placed, Fetched, Owned, Unpacked, [Next]_vars
    PROVE  Unpacked'
<1>1. ASSUME NEW c \in Calls, UnpackLayers(c) PROVE Unpacked'
  <2>1. /\ pc[c] = "layers" /\ config' = config /\ target' = target /\ foreign' = foreign
        /\ layers' = [layers EXCEPT ![target[c]] = @ \union {c}]
    BY <1>1, ConfigCases DEF UnpackLayers, Go
  <2>2. config[target[c]] = c /\ target[c] \notin foreign /\ target[c] \in Targets
    BY <2>1, Fetched, Placed, TypeOK DEF Fetched, Placed, Kept, InGet, InScope, TypeOK
  <2>3. layers[target[c]] \subseteq {c}
    BY <2>2, Unpacked DEF Unpacked, OnlyCreatorUnpacks
  <2>4. layers'[target[c]] = {c}
    BY <2>1, <2>2, <2>3, TypeOK DEF TypeOK
  <2>5. OnlyCreatorUnpacks'
    BY <2>1, <2>2, <2>4, Unpacked, TypeOK DEF Unpacked, OnlyCreatorUnpacks, TypeOK
  <2>6. ASSUME NEW d \in Calls, pc'[d] = "metadata" PROVE layers'[target[d]] = {d}
    <3>1. CASE d = c
      BY <3>1, <2>4
    <3>2. CASE d # c
      <4>1. pc[d] = "metadata"
        BY <1>1, <3>2, <2>6, TypeOK DEF UnpackLayers, Go, TypeOK
      <4>2. config[target[d]] = d
        BY <4>1, Fetched DEF Fetched
      <4>3. layers[target[d]] = {d} /\ target[d] # target[c] /\ target[d] \in Targets
        BY <4>1, <4>2, <2>2, <3>2, Unpacked, TypeOK DEF Unpacked, TypeOK
      <4>4. QED
        BY <4>3, <2>1, TypeOK DEF TypeOK
    <3>3. QED
      BY <3>1, <3>2
  <2>7. QED
    BY <2>1, <2>5, <2>6 DEF Unpacked
<1>2. ASSUME NEW c \in Calls, CreateConfig(c) PROVE Unpacked'
  <2>1. /\ config[target[c]] = NoCall /\ config' = [config EXCEPT ![target[c]] = c]
        /\ layers' = layers /\ pc' = pc /\ target' = target /\ foreign' = foreign
    BY <1>2, ConfigCases DEF CreateConfig
  <2>2. layers[target[c]] = {} /\ target[c] \in Targets
    BY <2>1, Unpacked, TypeOK DEF Unpacked, OnlyCreatorUnpacks, TypeOK
  <2>3. QED
    BY <2>1, <2>2, Unpacked, TypeOK DEF Unpacked, OnlyCreatorUnpacks, TypeOK
<1>3. CASE UNCHANGED <<config, layers>>
  BY <1>3, Unpacked, ConfigCases, MoveCases, <1>1 DEF Unpacked, OnlyCreatorUnpacks, Moved
<1>4. QED
  BY <1>1, <1>2, <1>3, ConfigCases

\* Every path out of the scope, and out of the call, decides its result.
LEMMA DecidedStep ==
    ASSUME TypeOK, Decided, [Next]_vars
    PROVE  Decided'
  BY Decided, MoveCases DEF Decided, Moved

\* Only one call can be done with the layers of a target.
LEMMA ExclusiveStep ==
    ASSUME TypeOK, Fetched, Unpacked, SuccessIsExclusive, [Next]_vars
    PROVE  SuccessIsExclusive'
<1> SUFFICES ASSUME NEW d \in Calls, outcome'[d] = "ok"
             PROVE  config'[target[d]] = d /\ layers'[target[d]] = {d}
  BY ConfigCases DEF SuccessIsExclusive
<1>1. config[target[d]] = d /\ layers[target[d]] = {d}
  BY MoveCases, SuccessIsExclusive, Unpacked, Fetched
     DEF Moved, SuccessIsExclusive, Unpacked, Fetched
<1>2. target[d] \in Targets /\ d # NoCall
  BY TypeOK DEF TypeOK
<1>3. ASSUME NEW c \in Calls, CreateConfig(c) PROVE config'[target[d]] = d /\ layers' = layers
  BY <1>1, <1>2, <1>3, TypeOK DEF CreateConfig, TypeOK
<1>4. ASSUME NEW c \in Calls, UnpackLayers(c)
      PROVE  config' = config /\ layers'[target[d]] = {d}
  <2>1. config[target[c]] = c
    BY <1>4, Fetched DEF UnpackLayers, Go, Fetched
  <2>2. QED
    BY <1>1, <1>2, <1>4, <2>1, TypeOK DEF UnpackLayers, TypeOK
<1>5. QED
  BY <1>1, <1>3, <1>4, ConfigCases

\* Only the guard and the end of the process touch the umask.
LEMMA MaskCases ==
    [Next]_vars => \/ \E c \in Calls : ClearUmask(c) \/ Join(c)
                   \/ Crash
                   \/ UNCHANGED <<umask, saved, overlapped>>
<1> SUFFICES ASSUME [Next]_vars
             PROVE  \/ \E c \in Calls : ClearUmask(c) \/ Join(c)
                    \/ Crash
                    \/ UNCHANGED <<umask, saved, overlapped>>
  OBVIOUS
<1> USE DEF mask
<1>1. ASSUME NEW c \in Calls, Early(c) PROVE UNCHANGED <<umask, saved, overlapped>>
  BY <1>1 DEF Early, Start, Exists, MakeTarget, MakeTargetFails, List, ListFails,
              Manifest, Sandbox, SandboxFails, Open
<1>2. ASSUME NEW c \in Calls, Scoped(c)
      PROVE  ClearUmask(c) \/ Join(c) \/ UNCHANGED <<umask, saved, overlapped>>
  BY <1>2 DEF Scoped, CreateConfig, FetchEnds, OpenRootfs, MakeRootfs, Await,
              UnpackLayers, LeaveScope
<1>3. CASE UNCHANGED vars
  BY <1>3 DEF vars
<1>4. QED
  BY <1>1, <1>2, <1>3, NextCases

\* With one guard at a time, what it saved is what it gives back.
LEMMA AloneStep ==
    ASSUME TypeOK, Guarded, Alone, [Next]_vars
    PROVE  Alone'
<1> USE TypeOK DEF TypeOK, Alone, UmaskGivenBackAlone, Guards
<1>1. ASSUME NEW c \in Calls, ClearUmask(c), ~overlapped' PROVE Alone'
  <2>1. ~overlapped /\ \A d \in Calls : saved[d] = "none"
    BY <1>1 DEF ClearUmask
  <2>2. umask = "caller"
    BY <2>1, Alone
  <2>3. saved' = [saved EXCEPT ![c] = "caller"] /\ umask' = "empty"
    BY <1>1, <2>2 DEF ClearUmask
  <2>4. \A d \in Calls : saved'[d] = IF d = c THEN "caller" ELSE "none"
    BY <2>1, <2>3
  <2>5. QED
    BY <2>3, <2>4
<1>2. ASSUME NEW c \in Calls, Join(c), ~overlapped' PROVE Alone'
  <2>1. ~overlapped /\ saved[c] # "none"
    BY <1>2, Guarded DEF Join, Go, Guarded, InScope
  <2>2. /\ saved[c] = "caller"
        /\ \A d \in Calls : d # c => saved[d] = "none"
    BY <2>1, Alone
  <2>3. saved' = [saved EXCEPT ![c] = "none"] /\ umask' = "caller"
    BY <1>2, <2>2 DEF Join
  <2>4. \A d \in Calls : saved'[d] = "none"
    BY <2>2, <2>3
  <2>5. QED
    BY <2>3, <2>4
<1>3. CASE Crash
  <2>1. umask' = "caller" /\ \A d \in Calls : saved'[d] = "none"
    BY <1>3 DEF Crash
  <2>2. QED
    BY <2>1
<1>4. CASE UNCHANGED <<umask, saved, overlapped>>
  BY <1>4, Alone
<1>5. QED
  BY <1>1, <1>2, <1>3, <1>4, MaskCases

\* How a call gets into unpack, into images::get, and to a file.
Entered(d) == /\ pc'[d] \in InUnpack => pc[d] \in InUnpack \/ Start(d)
              /\ pc'[d] \in InGet => pc[d] \in InGet \/ Sandbox(d)
              /\ pc'[d] \in InScope /\ fetch'[d] \in {"writing", "file"} =>
                    pc[d] \in InScope /\ (CreateConfig(d) \/ fetch[d] \in {"writing", "file"})

\* A call enters unpack with Start, images::get with Sandbox, and its worker opens a
\* file with CreateConfig.
LEMMA EnterCases ==
    ASSUME TypeOK, [Next]_vars, NEW d \in Calls
    PROVE  Entered(d)
<1> USE TypeOK DEF TypeOK, Entered, InUnpack, InGet, InScope
<1>1. ASSUME NEW c \in Calls, Early(c) PROVE Entered(d)
  <2> USE DEF Go, Return
  <2>1. CASE Start(c)
    <3>1. CASE c = d
      BY <3>1, <2>1 DEF Start
    <3>2. CASE c # d
      BY <3>2, <2>1 DEF Start
    <3>3. QED
      BY <3>1, <3>2
  <2>2. CASE Exists(c) \/ MakeTarget(c) \/ MakeTargetFails(c)
    BY <2>2 DEF Exists, MakeTarget, MakeTargetFails
  <2>3. CASE List(c) \/ ListFails(c) \/ Manifest(c)
    BY <2>3 DEF List, ListFails, Manifest
  <2>4. CASE Sandbox(c)
    <3>1. CASE c = d
      BY <3>1, <2>4 DEF Sandbox
    <3>2. CASE c # d
      BY <3>2, <2>4 DEF Sandbox
    <3>3. QED
      BY <3>1, <3>2
  <2>5. CASE SandboxFails(c) \/ Open(c)
    BY <2>5 DEF SandboxFails, Open
  <2>6. QED
    BY <1>1, <2>1, <2>2, <2>3, <2>4, <2>5 DEF Early
<1>2. ASSUME NEW c \in Calls, Scoped(c) PROVE Entered(d)
  <2> USE DEF Go
  <2>1. CASE ClearUmask(c)
    BY <2>1 DEF ClearUmask
  <2>2. CASE CreateConfig(c)
    <3>1. CASE c = d
      BY <3>1, <2>2 DEF CreateConfig
    <3>2. CASE c # d
      BY <3>2, <2>2 DEF CreateConfig
    <3>3. QED
      BY <3>1, <3>2
  <2>3. CASE FetchEnds(c)
    BY <2>3 DEF FetchEnds
  <2>4. CASE OpenRootfs(c) \/ MakeRootfs(c) \/ Await(c)
    BY <2>4 DEF OpenRootfs, MakeRootfs, Await
  <2>5. CASE UnpackLayers(c) \/ LeaveScope(c) \/ Join(c)
    BY <2>5 DEF UnpackLayers, LeaveScope, Join
  <2>6. QED
    BY <1>2, <2>1, <2>2, <2>3, <2>4, <2>5 DEF Scoped
<1>3. CASE Crash
  BY <1>3 DEF Crash
<1>4. CASE UNCHANGED vars
  BY <1>4 DEF vars
<1>5. QED
  BY <1>1, <1>2, <1>3, <1>4, NextCases

\* Start waits for the other calls of the thread.
LEMMA OneAtATimeStep ==
    ASSUME TypeOK, OneAtATime, [Next]_vars
    PROVE  OneAtATime'
<1> SUFFICES ASSUME NEW c \in Calls, NEW d \in Calls, ThreadOf[c] = ThreadOf[d],
                    pc'[c] \in InUnpack, pc'[d] \in InUnpack
             PROVE  c = d
  BY DEF OneAtATime
<1>1. /\ pc[c] \in InUnpack \/ Start(c)
      /\ pc[d] \in InUnpack \/ Start(d)
  BY EnterCases DEF Entered
<1>2. ASSUME NEW a \in Calls, NEW b \in Calls, ThreadOf[a] = ThreadOf[b], Start(a),
             pc'[b] \in InUnpack
      PROVE  a = b
  BY <1>2, TypeOK DEF Start, Go, TypeOK
<1>3. QED
  BY <1>1, <1>2, OneAtATime DEF OneAtATime

\* The domain of a thread changes with Sandbox only, except when the process ends.
LEMMA DomainCases ==
    [Next]_vars => \/ \E c \in Calls : Sandbox(c)
                   \/ Crash
                   \/ UNCHANGED <<domain, crashed>>
<1> SUFFICES ASSUME [Next]_vars
             PROVE  \/ \E c \in Calls : Sandbox(c)
                    \/ Crash
                    \/ UNCHANGED <<domain, crashed>>
  OBVIOUS
<1>1. ASSUME NEW c \in Calls, Early(c) PROVE Sandbox(c) \/ UNCHANGED <<domain, crashed>>
  BY <1>1 DEF Early, Start, Exists, MakeTarget, MakeTargetFails, List, ListFails,
              Manifest, SandboxFails, Open
<1>2. ASSUME NEW c \in Calls, Scoped(c) PROVE UNCHANGED <<domain, crashed>>
  BY <1>2 DEF Scoped, ClearUmask, CreateConfig, FetchEnds, OpenRootfs, MakeRootfs,
              Await, UnpackLayers, LeaveScope, Join
<1>3. CASE UNCHANGED vars
  BY <1>3 DEF vars
<1>4. QED
  BY <1>1, <1>2, <1>3, NextCases

\* What Sandbox does to the domains: that of its thread shrinks.
LEMMA SandboxShrinks ==
    ASSUME TypeOK, NEW c \in Calls, Sandbox(c), NEW d \in Calls
    PROVE  /\ pc[c] = "sandbox" /\ pc'[c] = "open" /\ (landlock \/ c \notin Required)
           /\ target' = target /\ landlock' = landlock
           /\ crashed' = crashed /\ outcome' = outcome
           /\ Mine(d)' \subseteq Mine(d)
           /\ landlock => Mine(c)' \subseteq {target[c]}
           /\ ThreadOf[d] # ThreadOf[c] => Mine(d)' = Mine(d)
<1>1. domain' = [domain EXCEPT ![ThreadOf[c]] =
                    IF landlock THEN @ \intersect {target[c]} ELSE @]
  BY DEF Sandbox
<1>2. /\ Mine(d)' \subseteq Mine(d)
      /\ landlock => Mine(c)' \subseteq {target[c]}
      /\ ThreadOf[d] # ThreadOf[c] => Mine(d)' = Mine(d)
  BY <1>1, TypeOK DEF Mine, TypeOK
<1>3. QED
  BY <1>2, TypeOK DEF Sandbox, Go, inputs, TypeOK

\* Nothing gives a thread of images::get more than it had.
LEMMA CoversStep ==
    ASSUME TypeOK, SandboxCoversGet, [Next]_vars
    PROVE  SandboxCoversGet'
<1> SUFFICES ASSUME NEW d \in Calls, pc'[d] \in InGet, d \in Required
             PROVE  Mine(d)' \subseteq {target[d]}
  BY ConfigCases DEF SandboxCoversGet
<1>1. CASE Sandbox(d)
  BY <1>1, SandboxShrinks
<1>2. ASSUME NEW c \in Calls, Sandbox(c), ~Sandbox(d) PROVE Mine(d)' \subseteq {target[d]}
  <2>1. Mine(d) \subseteq {target[d]}
    BY <1>2, EnterCases, SandboxCoversGet DEF Entered, SandboxCoversGet
  <2>2. QED
    BY <1>2, <2>1, SandboxShrinks
<1>3. CASE Crash
  <2>1. pc'[d] \notin InGet
    BY <1>3, TypeOK DEF Crash, TypeOK, InUnpack, InGet, InScope
  <2>2. QED
    BY <2>1
<1>4. CASE UNCHANGED domain /\ ~Sandbox(d)
  BY <1>4, EnterCases, SandboxCoversGet DEF Entered, SandboxCoversGet, Mine
<1>5. QED
  BY <1>1, <1>2, <1>3, <1>4, DomainCases

\* The domain of a thread is what its calls left of it.
LEMMA ConfinedStep ==
    ASSUME TypeOK, OneAtATime, Confined, [Next]_vars
    PROVE  Confined'
<1> SUFFICES ASSUME landlock, ~crashed', NEW d \in Calls
             PROVE  /\ pc'[d] \in InGet \/ outcome'[d] = "ok" => Mine(d)' \subseteq {target[d]}
                    /\ pc'[d] \in InScope /\ fetch'[d] \in {"writing", "file"} =>
                          target[d] \in Mine(d)'
  BY ConfigCases DEF Confined
<1>1. ~Crash
  BY DEF Crash
<1>2. \/ \E c \in Calls : Sandbox(c)
      \/ UNCHANGED <<domain, crashed>>
  BY <1>1, DomainCases
<1>3. ~crashed
  BY <1>2, SandboxShrinks
<1>4. "metadata" \in InGet /\ InScope \subseteq InGet /\ InGet \subseteq InUnpack
      /\ "sandbox" \in InUnpack /\ "sandbox" \notin InGet
  BY DEF InScope, InGet, InUnpack
<1>5. pc'[d] \in InGet \/ outcome'[d] = "ok" => Sandbox(d) \/ Mine(d) \subseteq {target[d]}
  BY <1>3, <1>4, EnterCases, MoveCases, Confined DEF Entered, Moved, Confined
<1>6. pc'[d] \in InScope /\ fetch'[d] \in {"writing", "file"} =>
         pc[d] \in InScope /\ target[d] \in Mine(d)
  BY <1>3, EnterCases, Confined DEF Entered, Confined, CreateConfig
<1>7. ASSUME NEW c \in Calls, Sandbox(c)
      PROVE  /\ pc'[d] \in InGet \/ outcome'[d] = "ok" => Mine(d)' \subseteq {target[d]}
             /\ pc'[d] \in InScope /\ fetch'[d] \in {"writing", "file"} =>
                   target[d] \in Mine(d)'
  <2>1. pc'[d] \in InGet \/ outcome'[d] = "ok" => Mine(d)' \subseteq {target[d]}
    BY <1>5, <1>7, SandboxShrinks
  <2>2. pc[d] \in InScope => ThreadOf[d] # ThreadOf[c]
    BY <1>4, <1>7, SandboxShrinks, OneAtATime DEF OneAtATime
  <2>3. QED
    BY <1>6, <1>7, <2>1, <2>2, SandboxShrinks
<1>8. CASE UNCHANGED domain
  <2>1. ~Sandbox(d) \/ Mine(d)' \subseteq {target[d]}
    BY SandboxShrinks
  <2>2. QED
    BY <1>5, <1>6, <1>8, <2>1 DEF Mine
<1>9. QED
  BY <1>2, <1>7, <1>8

\* A second call of the thread could only have succeeded in the same target.
LEMMA OneSuccessStep ==
    ASSUME TypeOK, Fetched, OneAtATime, Confined, OneSuccessPerThread, SuccessIsExclusive,
           [Next]_vars, SuccessIsExclusive'
    PROVE  OneSuccessPerThread'
<1> SUFFICES ASSUME landlock, ~crashed', NEW c \in Calls, NEW d \in Calls,
                    ThreadOf[c] = ThreadOf[d], outcome'[c] = "ok", outcome'[d] = "ok"
             PROVE  c = d
  BY ConfigCases DEF OneSuccessPerThread
<1>1. ~crashed
  BY DomainCases, SandboxShrinks DEF Crash
<1>2. ASSUME NEW a \in Calls, NEW b \in Calls, ThreadOf[a] = ThreadOf[b],
             outcome'[a] = "ok", outcome'[b] = "ok", outcome[a] = "ok", pc[b] = "metadata"
      PROVE  a = b
  <2>1. target[b] \in Mine(b) /\ Mine(a) \subseteq {target[a]} /\ Mine(a) = Mine(b)
    BY <1>1, <1>2, Fetched, Confined DEF Confined, Fetched, InScope, Mine
  <2>2. target[a] = target[b] /\ target' = target
    BY <2>1, ConfigCases
  <2>3. QED
    BY <1>2, <2>2, SuccessIsExclusive' DEF SuccessIsExclusive
<1>3. /\ outcome[c] = "ok" \/ pc[c] = "metadata"
      /\ outcome[d] = "ok" \/ pc[d] = "metadata"
  BY MoveCases DEF Moved
<1>4. CASE pc[c] = "metadata" /\ pc[d] = "metadata"
  BY <1>4, OneAtATime DEF OneAtATime, InUnpack, InGet, InScope
<1>5. CASE outcome[c] = "ok" /\ outcome[d] = "ok"
  BY <1>1, <1>5, OneSuccessPerThread DEF OneSuccessPerThread
<1>6. QED
  BY <1>2, <1>3, <1>4, <1>5
-----------------------------------------------------------------------------
(* The properties. *)

\* No step leaves the invariant.
LEMMA StepIndInv == IndInv /\ [Next]_vars => IndInv'
<1> SUFFICES ASSUME IndInv, [Next]_vars PROVE IndInv'
  OBVIOUS
<1>1. TypeOK' /\ Placed' /\ Guarded' /\ Fetched' /\ Owned'
  BY TypeStep, PlacedStep, GuardedStep, FetchedStep, OwnedStep DEF IndInv
<1>2. Unpacked' /\ Decided' /\ SuccessIsExclusive'
  BY UnpackedStep, DecidedStep, ExclusiveStep DEF IndInv
<1>3. Alone' /\ OneAtATime' /\ SandboxCoversGet' /\ Confined'
  BY AloneStep, OneAtATimeStep, CoversStep, ConfinedStep DEF IndInv
<1>4. OneSuccessPerThread'
  BY <1>2, OneSuccessStep DEF IndInv
<1>5. QED
  BY <1>1, <1>2, <1>3, <1>4 DEF IndInv

\* IndInv, the facts behind all the other theorems, holds in every state of every
\* set of calls.
THEOREM Inductive == Spec => []IndInv
  BY InitIndInv, StepIndInv, PTL DEF Spec

\* The variables of unpack and of its guards keep their types.
THEOREM TypeCorrect == Spec => []TypeOK
<1>1. IndInv => TypeOK
  BY DEF IndInv
<1>2. QED
  BY <1>1, Inductive, PTL

\* However many calls found the target empty, one at most unpacks into it.
THEOREM CreatorUnpacks == Spec => []OnlyCreatorUnpacks
<1>1. IndInv => OnlyCreatorUnpacks
  BY DEF IndInv, Unpacked
<1>2. QED
  BY <1>1, Inductive, PTL

\* A target where unpack succeeded has the image of that call and nothing else.
THEOREM ExclusiveSuccess == Spec => []SuccessIsExclusive
<1>1. IndInv => SuccessIsExclusive
  BY DEF IndInv
<1>2. QED
  BY <1>1, Inductive, PTL

\* images::get with require_sandbox runs in a domain with nothing but the target.
THEOREM SandboxCovers == Spec => []SandboxCoversGet
<1>1. IndInv => SandboxCoversGet
  BY DEF IndInv
<1>2. QED
  BY <1>1, Inductive, PTL

\* A thread that was restricted by a call never makes another one that succeeds.
THEOREM SuccessOnce == Spec => []OneSuccessPerThread
<1>1. IndInv => OneSuccessPerThread
  BY DEF IndInv
<1>2. QED
  BY <1>1, Inductive, PTL

\* Calls that do not overlap give the umask back, on every path.
THEOREM UmaskRestored == Spec => []UmaskGivenBackAlone
<1>1. IndInv => UmaskGivenBackAlone
  BY DEF IndInv, Alone, UmaskGivenBackAlone
<1>2. QED
  BY <1>1, Inductive, PTL
-----------------------------------------------------------------------------
(* The implementation of TargetClaims. *)

Owner  == [t \in Targets |-> IF t \in foreign THEN Others ELSE config[t]]
Filled == {t \in Targets : layers[t] # {}}
Result == [c \in Calls |-> IF pc[c] = "returned" THEN outcome[c] ELSE "none"]

\* How a call gets its result: an error at any time, a success only from Join.
Judged(d) == \/ Result'[d] = Result[d]
             \/ Result[d] = "none" /\ Result'[d] = "error"
             \/ Join(d) /\ outcome[d] = "ok"

\* A result is final, and none but Join's is a success.
LEMMA JudgedCases ==
    ASSUME IndInv, [Next]_vars, NEW d \in Calls
    PROVE  Judged(d)
<1> USE DEF IndInv, TypeOK, Judged, Result
<1>1. ASSUME NEW c \in Calls, Early(c) PROVE Judged(d)
  <2> USE DEF Go, Return
  <2>1. CASE Start(c) \/ Exists(c) \/ MakeTarget(c) \/ MakeTargetFails(c)
    BY <2>1 DEF Start, Exists, MakeTarget, MakeTargetFails
  <2>2. CASE List(c) \/ ListFails(c) \/ Manifest(c) \/ Sandbox(c)
    BY <2>2 DEF List, ListFails, Manifest, Sandbox
  <2>3. CASE SandboxFails(c) \/ Open(c)
    BY <2>3 DEF SandboxFails, Open
  <2>4. QED
    BY <1>1, <2>1, <2>2, <2>3 DEF Early
<1>2. ASSUME NEW c \in Calls, Scoped(c) PROVE Judged(d)
  <2> USE DEF Go
  <2>1. CASE ClearUmask(c) \/ CreateConfig(c) \/ FetchEnds(c) \/ OpenRootfs(c)
    BY <2>1 DEF ClearUmask, CreateConfig, FetchEnds, OpenRootfs
  <2>2. CASE MakeRootfs(c) \/ Await(c) \/ UnpackLayers(c)
    BY <2>2 DEF MakeRootfs, Await, UnpackLayers
  <2>3. CASE LeaveScope(c)
    BY <2>3 DEF LeaveScope, InScope
  <2>4. CASE Join(c)
    <3>1. CASE c = d
      BY <3>1, <2>4 DEF Join, Decided
    <3>2. CASE c # d
      BY <3>2, <2>4 DEF Join
    <3>3. QED
      BY <3>1, <3>2
  <2>5. QED
    BY <1>2, <2>1, <2>2, <2>3, <2>4 DEF Scoped
<1>3. CASE Crash
  BY <1>3 DEF Crash, InUnpack, InGet, InScope
<1>4. CASE UNCHANGED vars
  BY <1>4 DEF vars
<1>5. QED
  BY <1>1, <1>2, <1>3, <1>4, NextCases

\* Nobody has a target at first, except those with files of others.
LEMMA ClaimsInit == Init => Claims!Init
  BY DEF Init, Claims!Init

\* Errors, and steps that the promise does not see.
LEMMA FailStep ==
    ASSUME Owner' = Owner, Filled' = Filled,
           \A d \in Calls : \/ Result'[d] = Result[d]
                            \/ Result[d] = "none" /\ Result'[d] = "error"
    PROVE  Claims!Next
<1> DEFINE C == {d \in Calls : Result[d] = "none" /\ Result'[d] = "error"}
<1>1. Result' = [d \in Calls |-> IF d \in C THEN "error" ELSE Result[d]]
  BY DEF Result
<1>2. C \in SUBSET Calls /\ \A d \in C : Result[d] = "none"
  OBVIOUS
<1>3. QED
  BY <1>1, <1>2 DEF Claims!Next, Claims!Fail, Owner, Filled, Result

\* config.json claims the target, the layers fill it, and Join succeeds.
LEMMA ClaimsStep == IndInv /\ [Next]_vars => [Claims!Next]_Claims!vars
<1> SUFFICES ASSUME IndInv, [Next]_vars PROVE Claims!Next
  OBVIOUS
<1>1. ASSUME NEW c \in Calls, CreateConfig(c) PROVE Claims!Next
  <2>1. /\ config' = [config EXCEPT ![target[c]] = c] /\ config[target[c]] = NoCall
        /\ layers' = layers /\ foreign' = foreign /\ pc' = pc /\ outcome' = outcome
    BY <1>1, ConfigCases DEF CreateConfig
  <2>2. pc[c] \in InScope /\ target[c] \in Targets \ foreign
    BY <1>1 DEF CreateConfig, IndInv, Fetched, Placed, Kept, InGet, TypeOK
  <2>3. Owner' = [Owner EXCEPT ![target[c]] = c] /\ Owner[target[c]] = NoCall
    <3>1. \A t \in Targets : config'[t] = IF t = target[c] THEN c ELSE config[t]
      BY <2>1 DEF IndInv, TypeOK
    <3>2. \A t \in Targets : Owner'[t] = IF t = target[c] THEN c ELSE Owner[t]
      BY <2>1, <2>2, <3>1 DEF Owner
    <3>3. QED
      BY <2>1, <2>2, <3>2 DEF Owner
  <2>4. Filled' = Filled /\ Result' = Result /\ Result[c] = "none"
    BY <2>1, <2>2 DEF Filled, Result, InScope
  <2>5. QED
    BY <2>2, <2>3, <2>4 DEF Claims!Next, Claims!Claim, Owner, Filled, Result
<1>2. ASSUME NEW c \in Calls, UnpackLayers(c) PROVE Claims!Next
  <2>1. /\ layers' = [layers EXCEPT ![target[c]] = @ \union {c}] /\ outcome' = outcome
        /\ config' = config /\ foreign' = foreign
        /\ pc[c] = "layers" /\ pc' = [pc EXCEPT ![c] = "metadata"]
    BY <1>2, ConfigCases DEF UnpackLayers, Go
  <2>2. config[target[c]] = c /\ target[c] \in Targets \ foreign
    BY <2>1 DEF IndInv, Fetched, Placed, Kept, InGet, InScope, TypeOK
  <2>3. Owner' = Owner /\ Owner[target[c]] = c
    BY <2>1, <2>2 DEF Owner
  <2>4. Result' = Result /\ Result[c] = "none"
    BY <2>1 DEF Result, IndInv, TypeOK
  <2>5. Filled' = Filled \union {target[c]}
    <3>1. \A t \in Targets :
             layers'[t] = IF t = target[c] THEN layers[t] \union {c} ELSE layers[t]
      BY <2>1 DEF IndInv, TypeOK
    <3>2. \A t \in Targets : layers'[t] # {} <=> t = target[c] \/ layers[t] # {}
      BY <3>1
    <3>3. QED
      BY <2>2, <3>2 DEF Filled
  <2>6. QED
    BY <2>2, <2>3, <2>4, <2>5 DEF Claims!Next, Claims!Fill, Owner, Filled, Result
<1>3. ASSUME NEW c \in Calls, Join(c), outcome[c] = "ok" PROVE Claims!Next
  <2>1. /\ pc[c] = "leave" /\ pc' = [pc EXCEPT ![c] = "returned"] /\ outcome' = outcome
        /\ config' = config /\ foreign' = foreign /\ layers' = layers
    BY <1>3 DEF Join, Go, inputs, files
  <2>2. /\ config[target[c]] = c /\ layers[target[c]] = {c}
        /\ target[c] \in Targets \ foreign
    BY <1>3, <2>1 DEF IndInv, SuccessIsExclusive, Placed, Kept, InGet, InScope, TypeOK
  <2>3. Owner' = Owner /\ Filled' = Filled /\ Owner[target[c]] = c /\ target[c] \in Filled
    BY <2>1, <2>2 DEF Owner, Filled
  <2>4. Result' = [Result EXCEPT ![c] = "ok"] /\ Result[c] = "none"
    BY <1>3, <2>1 DEF Result, IndInv, TypeOK
  <2>5. QED
    BY <2>2, <2>3, <2>4 DEF Claims!Next, Claims!Succeed, Owner, Filled, Result
<1>4. CASE UNCHANGED <<config, layers>> /\ \A c \in Calls : ~(Join(c) /\ outcome[c] = "ok")
  <2>1. Owner' = Owner /\ Filled' = Filled
    BY <1>4, ConfigCases DEF Owner, Filled
  <2>2. QED
    BY <1>4, <2>1, JudgedCases, FailStep DEF Judged
<1>5. QED
  BY <1>1, <1>2, <1>3, <1>4, ConfigCases

\* Though nothing in the code is a lock on a target, the calls behave as if each
\* target had one owner: config.json with O_EXCL is enough.
THEOREM Refinement == Spec => ImplementsClaims
<1>1. Spec => Claims!Spec
  BY ClaimsInit, ClaimsStep, Inductive, PTL DEF Spec, Claims!Spec
<1>2. QED
  BY <1>1 DEF ImplementsClaims
=============================================================================
