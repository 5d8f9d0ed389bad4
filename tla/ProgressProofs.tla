--------------------------- MODULE ProgressProofs ---------------------------
(***************************************************************************)
(* Proofs about Progress, for any number of workers, layers and reads: the *)
(* lines of Logger never go back, none of them shows a position beside the *)
(* length of a later layer, and the last one counts every byte.            *)
(***************************************************************************)
EXTENDS Progress, WellFoundedInduction, TLAPS

USE ThreadsAssumption, SizesAssumption

Printing == {"received", "len", "position", "print"}   \* with the write lock
Lines == [received : Nat, len : Nat, lenOf : Nat, pos : Nat, posOf : Nat,
          layer : Nat, some : BOOLEAN]
Values == [value : Nat, of : Nat]

Types == /\ show \in [Threads -> Printing \union {"no", "look", "looking", "try"}]
         /\ seen \in [Threads -> Lines] /\ line \in Lines
         /\ received \in Nat /\ layers \in Nat
         /\ curLen \in Values /\ curPos \in Values
         /\ task \in Nat /\ position \in Nat

\* The layers that were started, by where main is.
Counted ==
    /\ mpc \in {"layer", "reset", "length", "entry", "unpack", "next"} => task \in 1..NumLayers
    /\ mpc = "start" => task = 0 /\ layers = 0
    /\ mpc = "get" => layers = (IF task = 0 THEN 0 ELSE task - 1)
    /\ mpc = "layer" => layers = task - 1
    /\ mpc \in {"reset", "length", "entry", "unpack", "next"} => layers = task
    /\ mpc \in {"length", "entry", "unpack", "next"} => curPos.of = task

\* The thread that prints holds the lock.
Locked == \A th \in Threads : show[th] \in Printing => writer = th

\* What a thread loaded is not older than the last line.
Loaded == /\ line.received <= received
          /\ \A th \in Threads :
                show[th] \in {"len", "position", "print"} =>
                    line.received <= seen[th].received /\ seen[th].received <= received

\* Lengths are stored after positions, and positions after the number of the
\* layer; they are loaded the other way round.
Sequenced == /\ curLen.of <= curPos.of /\ curPos.of <= layers
             /\ LineIsOrdered
             /\ \A th \in Threads :
                   /\ show[th] = "position" => seen[th].lenOf <= curPos.of
                   /\ show[th] = "print" => /\ seen[th].lenOf <= seen[th].posOf
                                            /\ seen[th].posOf <= layers

PrinterInv == Types /\ Counted /\ Locked /\ Loaded /\ Sequenced

\* The tasks that workers have are their own, and without a result yet; a worker
\* that prints has a task.
Assigned == /\ queue \in 0..NumLayers + 1
            /\ broken \subseteq done /\ done \subseteq {t \in Tasks : t < queue}
            /\ job \in [Workers -> 0..NumLayers + 1] /\ read \in [Workers -> 0..MaxBody]
            /\ \A w \in Workers :
                  /\ job[w] \in Tasks => job[w] < queue /\ job[w] \notin done
                  /\ show[w] # "no" => job[w] \in Tasks
                  /\ \A v \in Workers : job[v] = job[w] /\ job[w] \in Tasks => v = w

\* The bytes received of each task, fewer or more than those of its blob: as many as
\* the blob has, if its result is not an error.
Shares(got) == /\ received = TotalOf(got)
               /\ \A t \in Tasks : t >= queue => got[t] = 0
               /\ \A w \in Workers : job[w] \in Tasks => got[job[w]] = read[w]
               /\ \A t \in done \ broken : got[t] = Size[t]

Received == \E got \in [Tasks -> Nat] : Shares(got)

\* Main goes through the tasks in order, and no further than the results that are not
\* errors.
InLayer == {"layer", "reset", "length", "entry", "unpack", "next"}

Advanced == /\ task \in 0..NumLayers + 1
            /\ \A t \in Tasks : t < task \/ (t = task /\ mpc \in InLayer) => t \in done \ broken
            /\ mpc = "finished" => task \notin Tasks
            /\ layers <= NumLayers
            /\ entries \in 0..MaxEntries /\ (mpc = "unpack" => entries < MaxEntries)
            /\ total \in Nat

\* The lock: threads that look, or one that prints.
Exclusive == /\ readers \subseteq {th \in Threads : show[th] = "looking"}
             /\ writer \in Threads \union {Nobody}
             /\ writer # Nobody => readers = {} /\ show[writer] \in Printing

\* After the last event only main is in show_progress.
Ended == mpc = "finished" =>
            /\ show[Main] \notin {"look", "looking"}
            /\ show[Main] \in {"len", "position", "print"} =>
                  seen[Main].some /\ seen[Main].received = AllBytes
            /\ show[Main] = "no" /\ total # 0 => line.some /\ line.received = AllBytes

\* The rest of the inductive invariant: what LastLineIsComplete needs.
BytesInv == Assigned /\ Received /\ Advanced /\ Exclusive /\ Ended
-----------------------------------------------------------------------------
(* Sums over the tasks. *)

\* The induction on the numbers of the tasks, for the set of those that have a property.
LEMMA TaskInduction ==
    ASSUME NEW S, 0 \in S, \A t \in Tasks \ {0} : t - 1 \in S => t \in S
    PROVE  Tasks \subseteq S
<1> DEFINE R == OpToRel(<, Nat)
           U == Tasks \ S
<1> SUFFICES ASSUME U # {} PROVE FALSE
  OBVIOUS
<1>1. \E m \in U : \A k \in U : <<k, m>> \notin R
  <2>1. IsWellFoundedOn(R, Nat)
    BY NatLessThanWellFounded
  <2> HIDE DEF R
  <2>2. U \subseteq Nat
    BY DEF Tasks
  <2> HIDE DEF U
  <2>3. QED
    BY <2>1, <2>2, WFMin
<1>2. PICK m \in U : \A k \in U : <<k, m>> \notin R
  BY <1>1
<1>3. m \in Tasks \ {0} /\ m - 1 \in Tasks /\ m \in Nat /\ m - 1 \in Nat /\ m - 1 < m
  BY DEF Tasks
<1>4. m - 1 \notin U
  <2>1. m - 1 \in U => <<m - 1, m>> \notin R
    BY <1>2
  <2>2. QED
    BY <1>3, <2>1 DEF OpToRel
<1>5. QED
  BY <1>3, <1>4

\* sum has the sum of what the tasks up to each of them have.
Sums(g, sum) == sum = [t \in Tasks |-> g[t] + (IF t = 0 THEN 0 ELSE sum[t - 1])]

\* There is one.
LEMMA SumExists ==
    ASSUME NEW g \in [Tasks -> Nat]
    PROVE  \E sum : Sums(g, sum)
<1> DEFINE Upto(n, f) == /\ f \in [0..n -> Nat]
                         /\ \A t \in 0..n : f[t] = g[t] + (IF t = 0 THEN 0 ELSE f[t - 1])
           S == {n \in Tasks : \E f : Upto(n, f)}
<1>1. 0 \in S
  <2> DEFINE f == [t \in 0..0 |-> g[0]]
  <2>1. 0 \in Tasks /\ g[0] \in Nat
    BY DEF Tasks
  <2>2. f \in [0..0 -> Nat] /\ \A t \in 0..0 : t = 0 /\ f[t] = g[0]
    BY <2>1
  <2>3. Upto(0, f)
    BY <2>1, <2>2
  <2>4. QED
    BY <2>1, <2>3
<1>2. ASSUME NEW n \in Tasks \ {0}, n - 1 \in S
      PROVE  n \in S
  <2>1. PICK f : Upto(n - 1, f)
    BY <1>2
  <2> DEFINE h == [t \in 0..n |-> IF t = n THEN f[n - 1] + g[n] ELSE f[t]]
  <2>2. n \in Nat /\ n - 1 \in 0..n - 1 /\ f[n - 1] \in Nat /\ g[n] \in Nat
    BY <2>1 DEF Tasks
  <2>3. h \in [0..n -> Nat]
    BY <2>1, <2>2
  <2>4. ASSUME NEW t \in 0..n
        PROVE  h[t] = g[t] + (IF t = 0 THEN 0 ELSE h[t - 1])
    <3>1. CASE t = n
      <4>1. h[t] = f[n - 1] + g[n] /\ t # 0
        BY <3>1
      <4>2. h[n - 1] = f[n - 1]
        BY <2>2
      <4>3. QED
        BY <2>2, <3>1, <4>1, <4>2
    <3>2. CASE t # n
      <4>1. t \in 0..n - 1 /\ h[t] = f[t]
        BY <2>2, <3>2
      <4>2. t # 0 => t - 1 \in 0..n /\ t - 1 # n /\ h[t - 1] = f[t - 1]
        BY <2>2, <4>1
      <4>3. QED
        BY <2>1, <4>1, <4>2
    <3>3. QED
      BY <3>1, <3>2
  <2> HIDE DEF h
  <2>5. QED
    BY <2>3, <2>4
<1>3. Tasks \subseteq S
  <2> HIDE DEF S
  <2>1. QED
    BY <1>1, <1>2, TaskInduction
<1>4. NumLayers \in Tasks
  BY DEF Tasks
<1>5. PICK f : Upto(NumLayers, f)
  BY <1>3, <1>4
<1>6. f = [t \in Tasks |-> f[t]]
  BY <1>5 DEF Tasks
<1>7. f = [t \in Tasks |-> g[t] + (IF t = 0 THEN 0 ELSE f[t - 1])]
  BY <1>5, <1>6 DEF Tasks
<1>8. QED
  BY <1>7 DEF Sums

\* What TotalOf returns.
LEMMA TotalFacts ==
    ASSUME NEW g \in [Tasks -> Nat]
    PROVE  \E sum : /\ \A t \in Tasks : sum[t] = g[t] + (IF t = 0 THEN 0 ELSE sum[t - 1])
                    /\ TotalOf(g) = sum[NumLayers]
<1> DEFINE sum == CHOOSE f : Sums(g, f)
<1>1. Sums(g, sum)
  BY SumExists
<1>2. TotalOf(g) = sum[NumLayers]
  BY DEF TotalOf, Sums
<1> HIDE DEF sum
<1>3. QED
  BY <1>1, <1>2 DEF Sums

\* A task that has more adds as much to the total.
LEMMA TotalGrows ==
    ASSUME NEW g \in [Tasks -> Nat], NEW t \in Tasks
    PROVE  /\ [g EXCEPT ![t] = @ + 1] \in [Tasks -> Nat]
           /\ TotalOf([g EXCEPT ![t] = @ + 1]) = TotalOf(g) + 1
           /\ TotalOf(g) \in Nat
<1> DEFINE h == [g EXCEPT ![t] = @ + 1]
<1>1. h \in [Tasks -> Nat] /\ \A k \in Tasks : h[k] = g[k] + (IF k = t THEN 1 ELSE 0)
  OBVIOUS
<1> HIDE DEF h
<1>2. PICK a : /\ \A k \in Tasks : a[k] = g[k] + (IF k = 0 THEN 0 ELSE a[k - 1])
               /\ TotalOf(g) = a[NumLayers]
  BY TotalFacts
<1>3. PICK b : /\ \A k \in Tasks : b[k] = h[k] + (IF k = 0 THEN 0 ELSE b[k - 1])
               /\ TotalOf(h) = b[NumLayers]
  BY <1>1, TotalFacts
<1> DEFINE S == {k \in Tasks : a[k] \in Nat /\ b[k] = a[k] + (IF k >= t THEN 1 ELSE 0)}
<1>4. 0 \in S
  <2>1. 0 \in Tasks /\ a[0] = g[0] /\ b[0] = h[0] /\ g[0] \in Nat
    BY <1>1, <1>2, <1>3 DEF Tasks
  <2>2. 0 >= t <=> 0 = t
    BY DEF Tasks
  <2>3. QED
    BY <1>1, <2>1, <2>2
<1>5. ASSUME NEW k \in Tasks \ {0}, k - 1 \in S
      PROVE  k \in S
  <2>1. a[k] = g[k] + a[k - 1] /\ b[k] = h[k] + b[k - 1]
    BY <1>2, <1>3
  <2>2. a[k - 1] \in Nat /\ b[k - 1] = a[k - 1] + (IF k - 1 >= t THEN 1 ELSE 0)
    BY <1>5
  <2>3. g[k] \in Nat /\ h[k] = g[k] + (IF k = t THEN 1 ELSE 0)
    BY <1>1
  <2>4. k \in Nat /\ t \in Nat
    BY DEF Tasks
  <2>5. b[k] = a[k] + (IF k >= t THEN 1 ELSE 0) /\ a[k] \in Nat
    BY <2>1, <2>2, <2>3, <2>4
  <2>6. QED
    BY <2>5
<1>6. NumLayers \in S
  <2>1. NumLayers \in Tasks
    BY DEF Tasks
  <2> HIDE DEF S
  <2>2. QED
    BY <1>4, <1>5, <2>1, TaskInduction
<1>7. NumLayers >= t
  BY DEF Tasks
<1>8. TotalOf(h) = TotalOf(g) + 1 /\ TotalOf(g) \in Nat
  BY <1>2, <1>3, <1>6, <1>7
<1>9. QED
  BY <1>1, <1>8 DEF h

\* Tasks that have no more have no greater total.
LEMMA TotalBounded ==
    ASSUME NEW g \in [Tasks -> Nat], NEW h \in [Tasks -> Nat], \A t \in Tasks : g[t] <= h[t]
    PROVE  TotalOf(g) \in Nat /\ TotalOf(h) \in Nat /\ TotalOf(g) <= TotalOf(h)
<1>1. PICK a : /\ \A k \in Tasks : a[k] = g[k] + (IF k = 0 THEN 0 ELSE a[k - 1])
               /\ TotalOf(g) = a[NumLayers]
  BY TotalFacts
<1>2. PICK b : /\ \A k \in Tasks : b[k] = h[k] + (IF k = 0 THEN 0 ELSE b[k - 1])
               /\ TotalOf(h) = b[NumLayers]
  BY TotalFacts
<1> DEFINE S == {k \in Tasks : a[k] \in Nat /\ b[k] \in Nat /\ a[k] <= b[k]}
<1>3. 0 \in S
  BY <1>1, <1>2 DEF Tasks
<1>4. ASSUME NEW k \in Tasks \ {0}, k - 1 \in S
      PROVE  k \in S
  <2>1. a[k] = g[k] + a[k - 1] /\ b[k] = h[k] + b[k - 1]
    BY <1>1, <1>2
  <2>2. g[k] \in Nat /\ h[k] \in Nat /\ g[k] <= h[k]
    OBVIOUS
  <2>3. a[k - 1] \in Nat /\ b[k - 1] \in Nat /\ a[k - 1] <= b[k - 1] /\ k \in Tasks
    BY <1>4
  <2>4. a[k] \in Nat /\ b[k] \in Nat /\ a[k] <= b[k]
    <3>1. \A x, y, u, v \in Nat : x <= y /\ u <= v => x + u \in Nat /\ y + v \in Nat /\ x + u <= y + v
      OBVIOUS
    <3>2. QED
      BY <2>1, <2>2, <2>3, <3>1
  <2>5. QED
    BY <2>3, <2>4
<1>5. NumLayers \in S
  <2>1. NumLayers \in Tasks
    BY DEF Tasks
  <2> HIDE DEF S
  <2>2. QED
    BY <1>3, <1>4, <2>1, TaskInduction
<1>6. QED
  BY <1>1, <1>2, <1>5
-----------------------------------------------------------------------------
\* Nothing is counted or printed at first.
LEMMA InitPrinterInv == Init => PrinterInv
<1> SUFFICES ASSUME Init PROVE PrinterInv
  OBVIOUS
<1>1. Types
  BY DEF Init, Types, Lines, Values, NoLine, Archive
<1>2. Counted /\ Locked
  BY DEF Init, Counted, Locked, Printing
<1>3. Loaded /\ Sequenced
  BY DEF Init, Loaded, Sequenced, LineIsOrdered, NoLine, Archive
<1>4. QED
  BY <1>1, <1>2, <1>3 DEF PrinterInv

\* The steps of show_progress change nothing else.
LEMMA ShowKeeps ==
    ASSUME NEW th \in Threads, ShowStep(th), PrinterInv
    PROVE  PrinterInv'
<1> USE DEF PrinterInv, Types, Lines, Values, poolVars, mainVars, counters
<1>1. UNCHANGED <<poolVars, mainVars, counters>>
  BY DEF ShowStep, Look, Looked, TryWrite, LoadReceived, LoadLen, LoadPosition, PrintLine
<1>2. Types'
  <2>1. CASE Look(th) \/ Looked(th) \/ TryWrite(th)
    BY <2>1 DEF Look, Looked, TryWrite, Printing
  <2>2. CASE LoadReceived(th)
    BY <2>2 DEF LoadReceived, Printing
  <2>3. CASE LoadLen(th)
    BY <2>3 DEF LoadLen, Printing
  <2>4. CASE LoadPosition(th)
    BY <2>4 DEF LoadPosition, Printing
  <2>5. CASE PrintLine(th)
    BY <2>5 DEF PrintLine, NoLine, Printing
  <2>6. QED
    BY <2>1, <2>2, <2>3, <2>4, <2>5 DEF ShowStep
<1>3. Counted'
  BY <1>1 DEF Counted
<1>4. \A other \in Threads \ {th} : show'[other] = show[other] /\ seen'[other] = seen[other]
  BY DEF ShowStep, Look, Looked, TryWrite, LoadReceived, LoadLen, LoadPosition, PrintLine
<1>5. ASSUME Look(th) \/ Looked(th) \/ TryWrite(th)
      PROVE  /\ show'[th] \in {"looking", "try", "no", "received"}
             /\ seen' = seen /\ line' = line
  BY <1>5 DEF Look, Looked, TryWrite
<1>6. Locked'
  <2>1. CASE Look(th) \/ Looked(th)
    BY <2>1 DEF Look, Looked, Locked, Printing
  <2>2. CASE TryWrite(th)
    <3>1. CASE writer = Nobody /\ writer' = th
      <4>1. \A other \in Threads : show[other] \notin Printing
        BY <3>1 DEF Locked
      <4>2. QED
        BY <1>4, <3>1, <4>1 DEF Locked
    <3>2. CASE writer' = writer /\ show' = [show EXCEPT ![th] = "no"]
      BY <3>2 DEF Locked, Printing
    <3>3. QED
      BY <2>2, <3>1, <3>2 DEF TryWrite
  <2>3. CASE LoadReceived(th) \/ LoadLen(th) \/ LoadPosition(th)
    BY <2>3 DEF LoadReceived, LoadLen, LoadPosition, Locked, Printing
  <2>4. CASE PrintLine(th)
    BY <2>4 DEF PrintLine, Locked, Printing
  <2>5. QED
    BY <2>1, <2>2, <2>3, <2>4 DEF ShowStep
<1>7. Loaded'
  <2>1. CASE Look(th) \/ Looked(th) \/ TryWrite(th)
    <3>1. /\ show'[th] \notin {"len", "position", "print"}
          /\ seen' = seen /\ line' = line /\ received' = received
      BY <1>1, <1>5, <2>1
    <3>2. \A other \in Threads : show'[other] \in {"len", "position", "print"} =>
                                    show[other] \in {"len", "position", "print"}
      BY <1>4, <3>1
    <3>3. QED
      BY <3>1, <3>2 DEF Loaded
  <2>2. CASE LoadReceived(th)
    <3>1. line' = line /\ seen'[th].received = received /\ received' = received
      BY <1>1, <2>2 DEF LoadReceived
    <3>2. line.received <= received /\ received <= received
      BY DEF Loaded
    <3>3. ASSUME NEW o \in Threads, show'[o] \in {"len", "position", "print"}
          PROVE  line'.received <= seen'[o].received /\ seen'[o].received <= received'
      <4>1. CASE o = th
        BY <3>1, <3>2, <4>1, Zenon
      <4>2. CASE o # th
        BY <1>4, <3>1, <3>3, <4>2 DEF Loaded
      <4>3. QED
        BY <4>1, <4>2
    <3>4. QED
      BY <3>1, <3>2, <3>3 DEF Loaded
  <2>3. CASE LoadLen(th)
    BY <2>3 DEF LoadLen, Loaded
  <2>4. CASE LoadPosition(th)
    BY <2>4 DEF LoadPosition, Loaded
  <2>5. CASE PrintLine(th)
    <3>1. \A other \in Threads \ {th} : show'[other] \notin Printing
      BY <2>5 DEF PrintLine, Locked, Printing
    <3>2. show'[th] = "no" /\ line'.received = seen[th].received
      BY <2>5 DEF PrintLine
    <3>3. seen[th].received <= received
      BY <2>5 DEF PrintLine, Loaded
    <3>4. QED
      BY <1>1, <3>1, <3>2, <3>3 DEF Loaded, Printing
  <2>6. QED
    BY <2>1, <2>2, <2>3, <2>4, <2>5 DEF ShowStep
<1>8. Sequenced'
  <2>1. CASE Look(th) \/ Looked(th) \/ TryWrite(th)
    <3>1. /\ show'[th] \notin {"position", "print"}
          /\ seen' = seen /\ line' = line /\ UNCHANGED counters
      BY <1>1, <1>5, <2>1
    <3>2. QED
      BY <1>4, <3>1 DEF Sequenced, LineIsOrdered
  <2> USE DEF Sequenced, LineIsOrdered
  <2>2. CASE LoadReceived(th)
    BY <2>2 DEF LoadReceived
  <2>3. CASE LoadLen(th)
    BY <2>3 DEF LoadLen
  <2>4. CASE LoadPosition(th)
    BY <2>4 DEF LoadPosition
  <2>5. CASE PrintLine(th)
    BY <2>5 DEF PrintLine
  <2>6. QED
    BY <2>1, <2>2, <2>3, <2>4, <2>5 DEF ShowStep
<1>9. QED
  BY <1>2, <1>3, <1>6, <1>7, <1>8

\* The steps that send an event, and those that send none, do not touch what is
\* being printed.
LEMMA EventKeeps ==
    ASSUME PrinterInv, received' \in Nat, received <= received',
           NEW th \in Threads, show[th] = "no",
           show' = show \/ \E s \in {"look", "try"} : show' = [show EXCEPT ![th] = s],
           UNCHANGED <<writer, seen, line>>
    PROVE  /\ show' \in [Threads -> Printing \union {"no", "look", "looking", "try"}]
           /\ Locked' /\ Loaded'
           /\ \A o \in Threads : show'[o] \in Printing => show'[o] = show[o]
<1>1. show \in [Threads -> Printing \union {"no", "look", "looking", "try"}]
  BY DEF PrinterInv, Types
<1>2. /\ show' \in [Threads -> Printing \union {"no", "look", "looking", "try"}]
      /\ \A o \in Threads : show'[o] \in Printing => show'[o] = show[o]
  BY <1>1 DEF Printing
<1>3. Locked'
  BY <1>2 DEF PrinterInv, Locked
<1>4. Loaded'
  <2>1. /\ line.received \in Nat /\ received \in Nat
        /\ \A o \in Threads : seen[o].received \in Nat
    BY DEF PrinterInv, Types, Lines
  <2>2. QED
    BY <1>2, <2>1 DEF PrinterInv, Loaded, Printing
<1>5. QED
  BY <1>2, <1>3, <1>4

\* A worker receives and completes while main goes on.
LEMMA WorkerKeeps ==
    ASSUME NEW w \in Workers, WorkerStep(w), PrinterInv
    PROVE  PrinterInv'
<1>1. /\ UNCHANGED <<mpc, task, position, layers, curLen, curPos, writer, seen, line>>
      /\ received' \in Nat /\ received <= received' /\ show[w] = "no" /\ w \in Threads
      /\ show' = show \/ \E s \in {"look", "try"} : show' = [show EXCEPT ![w] = s]
  BY DEF WorkerStep, TakeTask, Receive, Complete, Show, PrinterInv, Types,
         mainVars, counters, printVars, Threads
<1>2. /\ show' \in [Threads -> Printing \union {"no", "look", "looking", "try"}]
      /\ Locked' /\ Loaded'
      /\ \A o \in Threads : show'[o] \in Printing => show'[o] = show[o]
  BY <1>1, EventKeeps
<1>3. Types' /\ Counted'
  BY <1>1, <1>2 DEF PrinterInv, Types, Counted
<1>4. Sequenced'
  BY <1>1, <1>2 DEF PrinterInv, Sequenced, LineIsOrdered, Printing
<1>5. QED
  BY <1>2, <1>3, <1>4 DEF PrinterInv

\* Main stores the counters in the order of layer_start.
LEMMA MainKeeps ==
    ASSUME MainStep, PrinterInv
    PROVE  PrinterInv'
<1>1. /\ UNCHANGED <<received, writer, seen, line>>
      /\ show[Main] = "no" /\ Main \in Threads
      /\ show' = show \/ \E s \in {"look", "try"} : show' = [show EXCEPT ![Main] = s]
  BY DEF MainStep, DownloadStart, Get, CountLayer, ResetPosition, StoreLength, LayerProgress,
         UnpackEntry, NextTask, Finished, Ready, Show, counters, printVars, Threads
<1>2. /\ show' \in [Threads -> Printing \union {"no", "look", "looking", "try"}]
      /\ Locked' /\ Loaded'
      /\ \A o \in Threads : show'[o] \in Printing => show'[o] = show[o]
  <2>1. received \in Nat
    BY DEF PrinterInv, Types
  <2>2. received' \in Nat /\ received <= received'
    BY <1>1, <2>1
  <2>3. QED
    BY <1>1, <2>2, EventKeeps
<1>a. /\ task \in Nat /\ position \in Nat /\ layers \in Nat
      /\ curLen \in Values /\ curPos \in Values /\ curLen.of \in Nat /\ curPos.of \in Nat
      /\ curLen.of <= curPos.of /\ curPos.of <= layers /\ curLen.of <= layers
  BY DEF PrinterInv, Types, Sequenced, Values
<1>b. Counted /\ NumLayers \in Nat
  BY DEF PrinterInv
<1>c. Counted' /\ task' \in Nat /\ position' \in Nat
  <2> USE DEF Counted, Ready, Tasks, counters, poolVars
  <2>1. CASE DownloadStart \/ UnpackEntry \/ Finished
    BY <1>a, <1>b, <2>1 DEF DownloadStart, UnpackEntry, Finished
  <2>2. CASE Get
    <3>1. UNCHANGED <<position, layers, curLen, curPos>> /\ mpc = "get" /\ task \in 0..NumLayers
      BY <2>2 DEF Get
    <3>2. \/ mpc' = "failed" /\ task' = task
          \/ task = 0 /\ task' = 1 /\ mpc' = mpc
          \/ task # 0 /\ mpc' = "layer" /\ task' = task
      BY <2>2 DEF Get
    <3>3. QED
      BY <1>a, <1>b, <3>1, <3>2
  <2>3. CASE NextTask
    <3>1. /\ UNCHANGED <<layers, curLen, curPos>> /\ position' = 0
          /\ mpc = "next" /\ mpc' = "get" /\ task' = task + 1
      BY <2>3 DEF NextTask
    <3>2. QED
      BY <1>a, <1>b, <3>1
  <2>4. CASE CountLayer
    BY <1>a, <1>b, <2>4 DEF CountLayer
  <2>5. CASE ResetPosition
    BY <1>a, <1>b, <2>5 DEF ResetPosition, Archive
  <2>6. CASE StoreLength
    BY <1>a, <1>b, <2>6 DEF StoreLength
  <2>7. CASE LayerProgress
    <3>1. /\ UNCHANGED <<task, layers>> /\ mpc = "entry" /\ mpc' \in {"unpack", "next"}
          /\ curPos'.of = task
      BY <2>7 DEF LayerProgress, Archive
    <3>2. position' \in Nat
      <4>1. task \in 0..NumLayers
        BY <1>b, <3>1
      <4>2. Size[task] \in Nat
        BY <4>1
      <4>3. PICK p \in position..Size[task] : position' = p
        BY <2>7 DEF LayerProgress
      <4>4. QED
        BY <1>a, <4>2, <4>3
    <3>3. QED
      BY <1>a, <1>b, <3>1, <3>2
  <2>8. QED
    BY <2>1, <2>2, <2>3, <2>4, <2>5, <2>6, <2>7 DEF MainStep
<1>d. /\ layers' \in Nat /\ layers <= layers' /\ curLen' \in Values /\ curPos' \in Values
      /\ curPos.of <= curPos'.of /\ curPos'.of <= layers' /\ curLen'.of <= curPos'.of
  <2>1. CASE DownloadStart \/ UnpackEntry \/ Finished \/ Get \/ NextTask
    <3>1. UNCHANGED <<layers, curLen, curPos>>
      BY <2>1 DEF DownloadStart, UnpackEntry, Finished, Get, NextTask, counters
    <3>2. QED
      BY <1>a, <3>1
  <2>2. CASE CountLayer
    <3>1. UNCHANGED <<curLen, curPos>> /\ layers' = layers + 1
      BY <2>2 DEF CountLayer
    <3>2. QED
      BY <1>a, <3>1
  <2>3. CASE ResetPosition
    <3>1. /\ UNCHANGED <<curLen, layers>> /\ curPos' = [value |-> 0, of |-> task]
          /\ task = layers
      BY <1>b, <2>3 DEF ResetPosition, Archive, Counted, Ready
    <3>2. QED
      BY <1>a, <3>1 DEF Values
  <2>4. CASE StoreLength
    <3>1. /\ UNCHANGED <<curPos, layers>> /\ curLen' = [value |-> Size[task], of |-> task]
          /\ task = curPos.of /\ task \in 1..NumLayers
      BY <1>b, <2>4 DEF StoreLength, Archive, Counted, Ready
    <3>2. Size[task] \in Nat
      BY <1>b, <3>1
    <3>3. QED
      BY <1>a, <3>1, <3>2 DEF Values
  <2>5. CASE LayerProgress
    <3>1. /\ UNCHANGED <<curLen, layers>> /\ task = curPos.of
          /\ curPos' = [value |-> position', of |-> task]
      BY <1>b, <2>5 DEF LayerProgress, Archive, Counted, Ready
    <3>2. QED
      BY <1>a, <1>c, <3>1 DEF Values
  <2>6. QED
    BY <2>1, <2>2, <2>3, <2>4, <2>5 DEF MainStep
<1>3. /\ Counted' /\ task' \in Nat /\ position' \in Nat /\ layers' \in Nat /\ layers <= layers'
      /\ curLen' \in Values /\ curPos' \in Values
      /\ curPos.of <= curPos'.of /\ curPos'.of <= layers' /\ curLen'.of <= curPos'.of
  BY <1>c, <1>d
<1>4. Types'
  BY <1>1, <1>2, <1>3 DEF PrinterInv, Types
<1>5. Sequenced'
  <2>1. /\ \A th \in Threads : show'[th] = "position" => seen'[th].lenOf <= curPos'.of
        /\ \A th \in Threads : show'[th] = "print" => seen'[th].posOf <= layers'
    <3>1. /\ curPos.of \in Nat /\ curPos'.of \in Nat /\ layers \in Nat /\ layers' \in Nat
          /\ \A th \in Threads : seen[th].lenOf \in Nat /\ seen[th].posOf \in Nat
      BY <1>3 DEF PrinterInv, Types, Values, Lines
    <3>2. QED
      BY <1>1, <1>2, <1>3, <3>1 DEF PrinterInv, Sequenced, Printing
  <2>2. \A th \in Threads : show'[th] = "print" => seen'[th].lenOf <= seen'[th].posOf
    BY <1>1, <1>2 DEF PrinterInv, Sequenced, Printing
  <2>3. LineIsOrdered'
    BY <1>1 DEF PrinterInv, Sequenced, LineIsOrdered
  <2>4. QED
    BY <1>3, <2>1, <2>2, <2>3 DEF Sequenced
<1>6. QED
  BY <1>2, <1>3, <1>4, <1>5 DEF PrinterInv

\* No step leaves the invariant.
LEMMA StepPrinterInv == PrinterInv /\ [Next]_vars => PrinterInv'
<1> SUFFICES ASSUME PrinterInv, [Next]_vars PROVE PrinterInv'
  OBVIOUS
<1>1. CASE UNCHANGED vars
  BY <1>1 DEF vars, mainVars, counters, printVars, PrinterInv, Types, Counted, Locked,
             Loaded, Sequenced, LineIsOrdered
<1>2. CASE Next
  BY <1>1, <1>2, ShowKeeps, WorkerKeeps, MainKeeps DEF Next, Returned
<1>3. QED
  BY <1>1, <1>2
-----------------------------------------------------------------------------
(* The bytes, and the last line. *)

\* What the sizes of the tasks are.
LEMMA SizeFacts == Size \in [Tasks -> Nat] /\ AllBytes \in Nat /\ AllBytes = TotalOf(Size)
<1>1. Size \in [Tasks -> Nat]
  BY DEF Tasks
<1>2. QED
  BY <1>1, TotalBounded DEF AllBytes

\* The total of nothing.
LEMMA TotalZero ==
    ASSUME NEW g \in [Tasks -> Nat], \A t \in Tasks : g[t] = 0
    PROVE  TotalOf(g) = 0
<1>1. PICK a : /\ \A k \in Tasks : a[k] = g[k] + (IF k = 0 THEN 0 ELSE a[k - 1])
               /\ TotalOf(g) = a[NumLayers]
  BY TotalFacts
<1> DEFINE S == {k \in Tasks : a[k] = 0}
<1>2. 0 \in S
  <2>1. 0 \in Tasks
    BY DEF Tasks
  <2>2. g[0] = 0 /\ a[0] = g[0] + 0
    BY <1>1, <2>1
  <2>3. QED
    BY <2>1, <2>2
<1>3. ASSUME NEW k \in Tasks \ {0}, k - 1 \in S
      PROVE  k \in S
  BY <1>1, <1>3
<1>4. NumLayers \in S
  <2>1. NumLayers \in Tasks
    BY DEF Tasks
  <2> HIDE DEF S
  <2>2. QED
    BY <1>2, <1>3, <2>1, TaskInduction
<1>5. QED
  BY <1>1, <1>4

\* When main has gone through the tasks, every byte was received and the workers are idle.
LEMMA AllDone ==
    ASSUME BytesInv, task \notin Tasks
    PROVE  /\ received = AllBytes /\ queue \notin Tasks
           /\ \A w \in Workers : job[w] \notin Tasks /\ show[w] = "no"
<1>1. \A t \in Tasks : t \in done \ broken
  BY DEF BytesInv, Advanced, Tasks
<1>2. PICK got \in [Tasks -> Nat] : Shares(got)
  BY DEF BytesInv, Received
<1>3. \A t \in Tasks : got[t] = Size[t]
  BY <1>1, <1>2 DEF Shares
<1>4. got = Size
  BY <1>3, SizeFacts
<1>5. received = AllBytes
  BY <1>2, <1>4 DEF Shares, AllBytes
<1>6. queue \notin Tasks
  BY <1>1 DEF BytesInv, Assigned, Tasks
<1>7. QED
  BY <1>1, <1>5, <1>6 DEF BytesInv, Assigned

\* Nothing is received at first.
LEMMA InitBytesInv == Init => BytesInv
<1> SUFFICES ASSUME Init PROVE BytesInv
  OBVIOUS
<1>1. Assigned
  BY DEF Init, Assigned, Tasks, Threads
<1>2. Received
  <2> DEFINE got == [t \in Tasks |-> 0]
  <2>1. got \in [Tasks -> Nat] /\ \A t \in Tasks : got[t] = 0
    OBVIOUS
  <2> HIDE DEF got
  <2>2. TotalOf(got) = 0
    BY <2>1, TotalZero
  <2>3. \A t \in Tasks : Size[t] \in Nat
    BY SizeFacts
  <2>4. \A w \in Workers : job[w] \notin Tasks
    BY DEF Init, Tasks
  <2>5. Shares(got)
    BY <2>1, <2>2, <2>3, <2>4 DEF Init, Shares
  <2>6. QED
    BY <2>1, <2>5 DEF Received
<1>3. Advanced /\ Ended
  BY DEF Init, Advanced, Ended, InLayer, Tasks
<1>4. Exclusive
  BY DEF Init, Exclusive
<1>5. QED
  BY <1>1, <1>2, <1>3, <1>4 DEF BytesInv

\* The lock of the printer, and what the last line is made of.
LEMMA ShowBytes ==
    ASSUME NEW th \in Threads, ShowStep(th), PrinterInv, BytesInv
    PROVE  BytesInv'
<1>1. UNCHANGED <<poolVars, mainVars, counters>>
  BY DEF ShowStep, Look, Looked, TryWrite, LoadReceived, LoadLen, LoadPosition, PrintLine
<1>2. /\ show[th] # "no" /\ show \in [Threads -> Printing \union {"no", "look", "looking", "try"}]
      /\ \A o \in Threads \ {th} : show'[o] = show[o] /\ seen'[o] = seen[o]
  BY DEF ShowStep, Look, Looked, TryWrite, LoadReceived, LoadLen, LoadPosition, PrintLine,
         PrinterInv, Types
<1>3. Assigned'
  <2>1. \A w \in Workers : w \in Threads /\ (show'[w] # "no" => show[w] # "no")
    BY <1>2 DEF Threads
  <2>2. QED
    BY <1>1, <2>1 DEF BytesInv, Assigned, poolVars
<1>4. Received' /\ Advanced'
  BY <1>1 DEF BytesInv, Received, Shares, Advanced, poolVars, mainVars, counters
<1>5. Exclusive'
  <2>1. /\ writer \in Threads \union {Nobody} /\ readers \subseteq {o \in Threads : show[o] = "looking"}
        /\ writer # Nobody => readers = {} /\ writer \in Threads /\ show[writer] \in Printing
    BY DEF BytesInv, Exclusive
  <2>2. CASE Look(th)
    <3>1. /\ writer = Nobody /\ writer' = Nobody /\ readers' = readers \union {th}
          /\ show'[th] = "looking"
      BY <1>2, <2>2 DEF Look
    <3>2. QED
      BY <1>2, <2>1, <3>1 DEF Exclusive
  <2>3. CASE Looked(th)
    <3>1. writer' = writer /\ readers' = readers \ {th} /\ show[th] = "looking"
      BY <2>3 DEF Looked
    <3>2. writer # Nobody => writer # th
      BY <2>1, <3>1 DEF Printing
    <3>3. QED
      BY <1>2, <2>1, <3>1, <3>2 DEF Exclusive
  <2>4. CASE TryWrite(th)
    <3>1. show[th] = "try" /\ readers' = readers /\ th \notin readers
      BY <2>1, <2>4 DEF TryWrite
    <3>2. CASE writer' = th /\ readers = {} /\ show' = [show EXCEPT ![th] = "received"]
      <4>1. show'[th] \in Printing
        BY <1>2, <3>2 DEF Printing
      <4>2. QED
        BY <3>1, <3>2, <4>1 DEF Exclusive
    <3>3. CASE writer' = writer
      <4>1. writer # Nobody => writer # th
        BY <2>1, <3>1 DEF Printing
      <4>2. QED
        BY <1>2, <2>1, <3>1, <3>3, <4>1 DEF Exclusive
    <3>4. QED
      BY <2>4, <3>2, <3>3 DEF TryWrite
  <2>5. CASE LoadReceived(th) \/ LoadLen(th) \/ LoadPosition(th)
    <3>1. /\ writer' = writer /\ readers' = readers
          /\ show[th] \in Printing /\ show'[th] \in Printing
      BY <1>2, <2>5 DEF LoadReceived, LoadLen, LoadPosition, Printing
    <3>2. th \notin readers
      BY <2>1, <3>1 DEF Printing
    <3>3. QED
      BY <1>2, <2>1, <3>1, <3>2 DEF Exclusive
  <2>6. CASE PrintLine(th)
    <3>1. show[th] = "print" /\ readers' = readers
      BY <2>6 DEF PrintLine
    <3>2. writer = th
      BY <3>1 DEF PrinterInv, Locked, Printing
    <3>3. writer' = Nobody /\ readers = {}
      BY <2>1, <2>6, <3>2 DEF PrintLine
    <3>4. QED
      BY <3>1, <3>3 DEF Exclusive
  <2>7. QED
    BY <2>2, <2>3, <2>4, <2>5, <2>6 DEF ShowStep
<1>6. Ended'
  <2> SUFFICES ASSUME mpc = "finished"
               PROVE  /\ show'[Main] \notin {"look", "looking"}
                      /\ show'[Main] \in {"len", "position", "print"} =>
                            seen'[Main].some /\ seen'[Main].received = AllBytes
                      /\ show'[Main] = "no" /\ total # 0 => line'.some /\ line'.received = AllBytes
    BY <1>1 DEF Ended, mainVars, counters
  <2>1. /\ received = AllBytes /\ \A w \in Workers : show[w] = "no"
        /\ show[Main] \notin {"look", "looking"}
        /\ show[Main] \in {"len", "position", "print"} =>
              seen[Main].some /\ seen[Main].received = AllBytes
    BY AllDone DEF BytesInv, Advanced, Ended
  <2>2. th = Main /\ Main \in Threads
    BY <1>2, <2>1 DEF Threads
  <2>3. seen[Main] \in Lines
    BY <2>2 DEF PrinterInv, Types
  <2>4. CASE TryWrite(th)
    <3>1. writer = Nobody /\ readers = {}
      <4>1. \A o \in Threads : show[o] \in {"no", "try"}
        BY <2>1, <2>2, <2>4 DEF TryWrite, Threads
      <4>2. QED
        BY <4>1 DEF BytesInv, Exclusive, Printing
    <3>2. show'[Main] = IF total # 0 THEN "received" ELSE "no"
      BY <1>2, <2>2, <2>4, <3>1 DEF TryWrite
    <3>3. QED
      BY <3>2
  <2>5. CASE LoadReceived(th)
    <3>1. show'[Main] = "len" /\ seen' = [seen EXCEPT ![th].received = received, ![th].some = TRUE]
      BY <1>2, <2>2, <2>5 DEF LoadReceived
    <3>2. seen'[Main].received = received /\ seen'[Main].some
      BY <2>2, <2>3, <3>1 DEF PrinterInv, Types, Lines
    <3>3. QED
      BY <2>1, <3>1, <3>2
  <2>6. CASE LoadLen(th) \/ LoadPosition(th)
    <3>1. /\ show[Main] \in {"len", "position"} /\ show'[Main] \in {"position", "print"}
          /\ seen'[Main].received = seen[Main].received /\ seen'[Main].some = seen[Main].some
      <4>1. show \in [Threads -> Printing \union {"no", "look", "looking", "try"}] /\ seen \in [Threads -> Lines]
        BY DEF PrinterInv, Types
      <4>2. CASE LoadLen(th)
        BY <1>2, <2>2, <2>3, <4>1, <4>2 DEF LoadLen, Lines
      <4>3. CASE LoadPosition(th)
        BY <1>2, <2>2, <2>3, <4>1, <4>3 DEF LoadPosition, Lines
      <4>4. QED
        BY <2>6, <4>2, <4>3
    <3>2. QED
      BY <2>1, <3>1
  <2>7. CASE PrintLine(th)
    <3>1. /\ show[Main] = "print" /\ show'[Main] = "no"
          /\ line'.received = seen[Main].received /\ line'.some = seen[Main].some
      BY <1>2, <2>2, <2>3, <2>7 DEF PrintLine, Lines
    <3>2. QED
      BY <2>1, <3>1
  <2>8. CASE Look(th) \/ Looked(th)
    BY <2>1, <2>2, <2>8 DEF Look, Looked
  <2>9. QED
    BY <2>4, <2>5, <2>6, <2>7, <2>8 DEF ShowStep
<1>7. QED
  BY <1>3, <1>4, <1>5, <1>6 DEF BytesInv

\* A worker takes a task of its own, counts its bytes and leaves with all of them or an error.
LEMMA WorkerBytes ==
    ASSUME NEW w \in Workers, WorkerStep(w), PrinterInv, BytesInv
    PROVE  BytesInv'
<1>1. /\ UNCHANGED <<mpc, task, entries, layers, total, readers, writer, seen, line>>
      /\ show[w] = "no" /\ w \in Threads
      /\ \A th \in Threads \ {w} : show'[th] = show[th]
  BY DEF WorkerStep, TakeTask, Receive, Complete, Show, PrinterInv, Types,
         mainVars, counters, printVars, Threads
<1>2. PICK got \in [Tasks -> Nat] : Shares(got)
  BY DEF BytesInv, Received
<1>3. /\ queue \in 0..NumLayers + 1 /\ NumLayers + 1 \notin Tasks
      /\ broken \subseteq done /\ done \subseteq {t \in Tasks : t < queue}
      /\ job \in [Workers -> 0..NumLayers + 1] /\ read \in [Workers -> 0..MaxBody]
      /\ \A v \in Workers : /\ job[v] \in Tasks => job[v] < queue /\ job[v] \notin done
                            /\ show[v] # "no" => job[v] \in Tasks
                            /\ \A u \in Workers : job[u] = job[v] /\ job[v] \in Tasks => u = v
  BY DEF BytesInv, Assigned, Tasks
<1>4. /\ received = TotalOf(got)
      /\ \A t \in Tasks : t >= queue => got[t] = 0
      /\ \A v \in Workers : job[v] \in Tasks => got[job[v]] = read[v]
      /\ \A t \in done \ broken : got[t] = Size[t]
  BY <1>2 DEF Shares
<1>5. /\ Assigned' /\ Received' /\ done \ broken \subseteq done' \ broken'
      /\ show'[w] \notin Printing /\ show'[w] # "looking"
  <2>1. CASE TakeTask(w)
    <3>1. /\ job[w] \notin Tasks /\ queue \in Tasks /\ queue' = queue + 1
          /\ job' = [job EXCEPT ![w] = queue] /\ read' = [read EXCEPT ![w] = 0]
          /\ UNCHANGED <<done, broken, received, show>>
      BY <2>1 DEF TakeTask, counters, printVars
    <3>2. queue \in Nat /\ queue' \in 0..NumLayers + 1
      BY <3>1, SizeFacts DEF Tasks
    <3>3. /\ job'[w] = queue /\ read'[w] = 0
          /\ \A v \in Workers \ {w} : job'[v] = job[v] /\ read'[v] = read[v]
      BY <1>3, <3>1
    <3>4. \A t \in Tasks : t \in Nat /\ (t < queue => t < queue') /\ (t >= queue' => t >= queue)
      BY <3>1, <3>2 DEF Tasks
    <3>5. \A v \in Workers \ {w} : job[v] # queue
      BY <1>3, <3>1, <3>2
    <3>6. queue \notin done /\ queue < queue' /\ got[queue] = 0
      <4>1. ~(queue < queue) /\ queue < queue + 1 /\ queue >= queue
        BY <3>2
      <4>2. QED
        BY <1>3, <1>4, <3>1, <4>1
    <3>7. job' \in [Workers -> 0..NumLayers + 1] /\ read' \in [Workers -> 0..MaxBody]
      BY <1>3, <3>1, <3>2
    <3>8. Assigned'
      <4>1. done' \subseteq {t \in Tasks : t < queue'} /\ broken' \subseteq done'
        BY <1>3, <3>1, <3>4
      <4>2. ASSUME NEW v \in Workers
            PROVE  /\ job'[v] \in Tasks => job'[v] < queue' /\ job'[v] \notin done'
                   /\ show'[v] # "no" => job'[v] \in Tasks
                   /\ \A u \in Workers : job'[u] = job'[v] /\ job'[v] \in Tasks => u = v
        <5>1. CASE v = w
          BY <3>1, <3>3, <3>5, <3>6, <5>1
        <5>2. CASE v # w
          BY <1>3, <3>1, <3>3, <3>4, <3>5, <5>2
        <5>3. QED
          BY <5>1, <5>2
      <4>3. QED
        BY <3>2, <3>7, <4>1, <4>2 DEF Assigned
    <3>9. Shares(got)'
      <4>1. \A v \in Workers : job'[v] \in Tasks => got[job'[v]] = read'[v]
        BY <1>4, <3>2, <3>3, <3>6
      <4>2. QED
        BY <1>4, <3>1, <3>4, <4>1 DEF Shares
    <3>10. QED
      BY <1>1, <3>1, <3>8, <3>9 DEF Received, Printing
  <2>2. CASE Receive(w)
    <3>1. /\ job[w] \in Tasks /\ read[w] < MaxBody /\ read' = [read EXCEPT ![w] = @ + 1]
          /\ received' = received + 1 /\ UNCHANGED <<queue, job, done, broken>>
          /\ show' = [show EXCEPT ![w] = "look"]
      BY <2>2 DEF Receive, Show
    <3>2. /\ read[w] \in 0..MaxBody /\ read'[w] = read[w] + 1
          /\ \A v \in Workers \ {w} : read'[v] = read[v]
      BY <1>3, <3>1
    <3>3. read' \in [Workers -> 0..MaxBody] /\ show'[w] = "look"
      <4>1. read[w] + 1 \in 0..MaxBody
        BY <3>1, <3>2
      <4>2. QED
        BY <1>1, <1>3, <3>1, <4>1 DEF PrinterInv, Types
    <3>4. Assigned'
      <4>1. \A v \in Workers : show'[v] # "no" => job'[v] \in Tasks
        BY <1>1, <1>3, <3>1 DEF Threads
      <4>2. QED
        BY <1>3, <3>1, <3>3, <4>1 DEF Assigned
    <3>5. PICK h \in [Tasks -> Nat] : h = [got EXCEPT ![job[w]] = @ + 1]
      BY <3>1, TotalGrows
    <3>6. /\ TotalOf(h) = TotalOf(got) + 1
          /\ h[job[w]] = got[job[w]] + 1 /\ \A t \in Tasks \ {job[w]} : h[t] = got[t]
      BY <3>1, <3>5, TotalGrows
    <3>7. h[job[w]] = read'[w]
      BY <1>4, <3>1, <3>2, <3>6
    <3>8. job[w] < queue /\ ~(job[w] >= queue) /\ job[w] \notin done
      BY <1>3, <3>1 DEF Tasks
    <3>9. Shares(h)'
      <4>1. \A t \in Tasks : t >= queue => h[t] = 0
        BY <1>4, <3>6, <3>8
      <4>2. ASSUME NEW v \in Workers, job[v] \in Tasks
            PROVE  h[job[v]] = read'[v]
        <5>1. CASE v = w
          BY <3>7, <5>1
        <5>2. CASE v # w
          <6>1. job[v] # job[w] /\ read'[v] = read[v]
            BY <1>3, <3>1, <3>2, <4>2, <5>2
          <6>2. h[job[v]] = got[job[v]]
            BY <3>6, <4>2, <6>1
          <6>3. QED
            BY <1>4, <4>2, <6>1, <6>2
        <5>3. QED
          BY <5>1, <5>2
      <4>3. \A t \in done \ broken : h[t] = Size[t]
        BY <1>3, <1>4, <3>6, <3>8
      <4>4. QED
        BY <1>4, <3>1, <3>6, <4>1, <4>2, <4>3 DEF Shares
    <3>10. QED
      BY <3>1, <3>3, <3>4, <3>9 DEF Received, Printing
  <2>3. CASE Complete(w)
    <3>1. /\ job[w] \in Tasks /\ done' = done \union {job[w]}
          /\ broken' = broken \union {job[w]} \/ (read[w] = Size[job[w]] /\ broken' = broken)
          /\ job' = [job EXCEPT ![w] = NumLayers + 1]
          /\ UNCHANGED <<queue, read, received, show>>
      BY <2>3 DEF Complete, counters, printVars
    <3>2. job[w] < queue /\ job[w] \notin done
      BY <1>3, <3>1
    <3>3. /\ job'[w] \notin Tasks /\ job' \in [Workers -> 0..NumLayers + 1]
          /\ \A v \in Workers \ {w} : job'[v] = job[v]
      BY <1>3, <3>1
    <3>4. Assigned'
      <4>1. done' \subseteq {t \in Tasks : t < queue'} /\ broken' \subseteq done'
        BY <1>3, <3>1, <3>2
      <4>2. ASSUME NEW v \in Workers
            PROVE  /\ job'[v] \in Tasks => job'[v] < queue' /\ job'[v] \notin done'
                   /\ show'[v] # "no" => job'[v] \in Tasks
                   /\ \A u \in Workers : job'[u] = job'[v] /\ job'[v] \in Tasks => u = v
        <5>1. CASE v = w
          BY <1>1, <3>1, <3>3, <5>1
        <5>2. CASE v # w
          BY <1>3, <3>1, <3>3, <5>2
        <5>3. QED
          BY <5>1, <5>2
      <4>3. QED
        BY <1>3, <3>1, <3>3, <4>1, <4>2 DEF Assigned
    <3>5. Shares(got)'
      <4>1. \A v \in Workers : job'[v] \in Tasks => got[job'[v]] = read'[v]
        BY <1>4, <3>1, <3>3
      <4>2. \A t \in done' \ broken' : got[t] = Size[t]
        <5>1. read[w] = Size[job[w]] => got[job[w]] = Size[job[w]]
          BY <1>4, <3>1
        <5>2. QED
          BY <1>4, <3>1, <5>1
      <4>3. QED
        BY <1>4, <3>1, <4>1, <4>2 DEF Shares
    <3>6. QED
      BY <1>1, <3>1, <3>2, <3>4, <3>5 DEF Received, Printing
  <2>4. QED
    BY <2>1, <2>2, <2>3 DEF WorkerStep
<1>6. Advanced'
  BY <1>1, <1>5 DEF BytesInv, Advanced
<1>7. Exclusive'
  <2>1. /\ writer \in Threads \union {Nobody} /\ readers \subseteq {o \in Threads : show[o] = "looking"}
        /\ writer # Nobody => readers = {} /\ writer \in Threads /\ show[writer] \in Printing
    BY DEF BytesInv, Exclusive
  <2>2. writer # w /\ w \notin readers
    BY <1>1, <2>1 DEF Printing
  <2>3. QED
    BY <1>1, <2>1, <2>2 DEF Exclusive
<1>8. mpc # "finished"
  <2>1. job[w] \in Tasks \/ queue \in Tasks
    BY DEF WorkerStep, TakeTask, Receive, Complete
  <2>2. QED
    BY <2>1, AllDone DEF BytesInv, Advanced
<1>9. QED
  BY <1>1, <1>5, <1>6, <1>7, <1>8 DEF BytesInv, Ended

\* Main goes on with what is done and not broken, and sends its events.
LEMMA MainBytes ==
    ASSUME MainStep, PrinterInv, BytesInv
    PROVE  BytesInv'
<1>1. /\ UNCHANGED <<queue, job, read, done, broken, received, readers, writer, seen, line>>
      /\ show[Main] = "no" /\ Main \in Threads
      /\ \A th \in Threads \ {Main} : show'[th] = show[th]
      /\ show'[Main] \in {"no", "look", "try"}
  BY DEF MainStep, DownloadStart, Get, CountLayer, ResetPosition, StoreLength, LayerProgress,
         UnpackEntry, NextTask, Finished, Ready, Show, poolVars, counters, printVars, Threads,
         PrinterInv, Types
<1>2. Assigned'
  <2>1. \A w \in Workers : w \in Threads \ {Main}
    BY DEF Threads
  <2>2. QED
    BY <1>1, <2>1 DEF BytesInv, Assigned
<1>a. Received'
  BY <1>1 DEF BytesInv, Received, Shares
<1>3. Exclusive'
  <2>1. /\ writer \in Threads \union {Nobody} /\ readers \subseteq {o \in Threads : show[o] = "looking"}
        /\ writer # Nobody => readers = {} /\ writer \in Threads /\ show[writer] \in Printing
    BY DEF BytesInv, Exclusive
  <2>2. writer # Main /\ Main \notin readers
    BY <1>1, <2>1 DEF Printing
  <2>3. QED
    BY <1>1, <2>1, <2>2 DEF Exclusive
<1>4. /\ task \in 0..NumLayers + 1 /\ layers \in Nat /\ layers <= NumLayers
      /\ \A t \in Tasks : t < task \/ (t = task /\ mpc \in InLayer) => t \in done \ broken
      /\ entries \in 0..MaxEntries /\ (mpc = "unpack" => entries < MaxEntries)
      /\ total \in Nat
      /\ mpc \in InLayer => task \in 1..NumLayers
      /\ mpc = "layer" => layers = task - 1
  BY DEF BytesInv, Advanced, PrinterInv, Types, Counted, InLayer
<1>5. Advanced' /\ (mpc' = "finished" => show'[Main] = "try")
  <2>1. CASE DownloadStart
    <3>1. /\ total' \in {0, AllBytes} /\ mpc' = "get" /\ UNCHANGED <<task, entries, layers>>
      BY <2>1 DEF DownloadStart
    <3>2. total' \in Nat
      BY <3>1, SizeFacts
    <3>3. QED
      BY <1>1, <1>4, <3>1, <3>2 DEF Advanced, InLayer
  <2>2. CASE Get
    <3>1. /\ task \in Tasks /\ task \in done /\ UNCHANGED <<entries, layers, total>>
          /\ \/ mpc' = "failed" /\ task' = task
             \/ task \notin broken /\ task = 0 /\ task' = 1 /\ mpc' = "get"
             \/ task \notin broken /\ mpc' = "layer" /\ task' = task
      BY <2>2 DEF Get, Ready, counters
    <3>2. CASE mpc' = "failed" /\ task' = task
      BY <1>1, <1>4, <3>1, <3>2 DEF Advanced, InLayer
    <3>3. CASE task \notin broken /\ task = 0 /\ task' = 1 /\ mpc' = "get"
      <4>1. \A t \in Tasks : t < 1 => t = 0
        BY DEF Tasks
      <4>2. \A t \in Tasks : t < task' => t \in done' \ broken'
        BY <1>1, <3>1, <3>3, <4>1
      <4>3. task' \in 0..NumLayers + 1
        BY <3>3
      <4>4. QED
        BY <1>4, <3>1, <3>3, <4>2, <4>3 DEF Advanced, InLayer
    <3>4. CASE task \notin broken /\ mpc' = "layer" /\ task' = task
      BY <1>1, <1>4, <3>1, <3>4 DEF Advanced, InLayer
    <3>5. QED
      BY <3>1, <3>2, <3>3, <3>4
  <2>3. CASE CountLayer
    <3>1. /\ layers' = layers + 1 /\ mpc = "layer" /\ mpc' = "reset"
          /\ UNCHANGED <<task, entries, total>>
      BY <2>3 DEF CountLayer, Ready
    <3>2. layers' <= NumLayers
      BY <1>4, <3>1 DEF InLayer
    <3>3. QED
      BY <1>1, <1>4, <3>1, <3>2 DEF Advanced, InLayer
  <2>4. CASE ResetPosition \/ StoreLength
    <3>1. /\ mpc \in {"reset", "length"} /\ mpc' \in {"length", "entry"}
          /\ UNCHANGED <<task, entries, total, layers>>
      BY <2>4 DEF ResetPosition, StoreLength, Ready
    <3>2. QED
      BY <1>1, <1>4, <3>1 DEF Advanced, InLayer
  <2>5. CASE LayerProgress
    <3>1. /\ mpc = "entry" /\ mpc' \in {"unpack", "next"} /\ (mpc' = "unpack" => entries < MaxEntries)
          /\ UNCHANGED <<task, entries, total, layers>>
      BY <2>5 DEF LayerProgress, Ready
    <3>2. QED
      BY <1>1, <1>4, <3>1 DEF Advanced, InLayer
  <2>6. CASE UnpackEntry
    <3>1. /\ mpc = "unpack" /\ mpc' \in {"entry", "failed"} /\ entries' = entries + 1
          /\ UNCHANGED <<task, total, layers>>
      BY <2>6 DEF UnpackEntry, Ready, counters
    <3>2. entries' \in 0..MaxEntries
      BY <1>4, <3>1
    <3>3. QED
      BY <1>1, <1>4, <3>1, <3>2 DEF Advanced, InLayer
  <2>7. CASE NextTask
    <3>1. /\ mpc = "next" /\ mpc' = "get" /\ entries' = 0 /\ task' = task + 1
          /\ UNCHANGED <<total, layers>>
      BY <2>7 DEF NextTask, Ready, counters
    <3>2. task \in 1..NumLayers /\ task' \in 0..NumLayers + 1
      BY <1>4, <3>1 DEF InLayer
    <3>3. \A t \in Tasks : t < task' => t < task \/ t = task
      BY <3>1, <3>2 DEF Tasks
    <3>4. \A t \in Tasks : t < task' => t \in done' \ broken'
      BY <1>1, <1>4, <3>1, <3>3 DEF InLayer
    <3>5. QED
      BY <1>4, <3>1, <3>2, <3>4 DEF Advanced, InLayer
  <2>8. CASE Finished
    <3>1. /\ task \notin Tasks /\ mpc' = "finished" /\ UNCHANGED <<task, entries, total, layers>>
          /\ show' = [show EXCEPT ![Main] = "try"]
      BY <2>8 DEF Finished, Show, counters
    <3>2. show'[Main] = "try"
      BY <1>1, <3>1 DEF PrinterInv, Types
    <3>3. QED
      BY <1>1, <1>4, <3>1, <3>2 DEF Advanced, InLayer
  <2>9. QED
    BY <2>1, <2>2, <2>3, <2>4, <2>5, <2>6, <2>7, <2>8 DEF MainStep
<1>6. QED
  BY <1>2, <1>a, <1>3, <1>5 DEF BytesInv, Ended

\* No step leaves it.
LEMMA StepBytesInv == PrinterInv /\ BytesInv /\ [Next]_vars => BytesInv'
<1> SUFFICES ASSUME PrinterInv, BytesInv, [Next]_vars PROVE BytesInv'
  OBVIOUS
<1>1. CASE UNCHANGED vars
  <2>1. Assigned' /\ Advanced'
    BY <1>1 DEF vars, poolVars, mainVars, counters, printVars, BytesInv, Assigned, Advanced
  <2>2. Received'
    BY <1>1 DEF vars, poolVars, counters, BytesInv, Received, Shares
  <2>3. Exclusive' /\ Ended'
    BY <1>1 DEF vars, mainVars, counters, printVars, BytesInv, Exclusive, Ended
  <2>4. QED
    BY <2>1, <2>2, <2>3 DEF BytesInv
<1>2. CASE Next
  BY <1>1, <1>2, ShowBytes, WorkerBytes, MainBytes DEF Next, Returned
<1>3. QED
  BY <1>1, <1>2
-----------------------------------------------------------------------------
\* PrinterInv, who prints and what it loaded, holds in every state.
THEOREM Inductive == Spec => []PrinterInv
  BY InitPrinterInv, StepPrinterInv, PTL DEF Spec

\* No line of Logger compares the position in one layer with the length of a later
\* one: layer_start and show_progress use the counters in opposite orders.
THEOREM OneLayerPerLine == Spec => []LineIsOrdered
<1>1. PrinterInv => LineIsOrdered
  BY DEF PrinterInv, Sequenced
<1>2. QED
  BY <1>1, Inductive, PTL

\* The numbers that Logger prints never decrease, whoever prints.
THEOREM NeverBack == Spec => LinesNeverGoBack
<1>1. PrinterInv /\ [Next]_vars => [line'.received >= line.received]_line
  <2> SUFFICES ASSUME PrinterInv, [Next]_vars, line' # line
               PROVE  line'.received >= line.received
    OBVIOUS
  <2>1. PICK th \in Threads : PrintLine(th)
    <3>1. ASSUME NEW w \in Workers, WorkerStep(w) PROVE line' = line
      BY <3>1 DEF WorkerStep, TakeTask, Receive, Complete, printVars
    <3>2. ASSUME MainStep PROVE line' = line
      BY <3>2 DEF MainStep, DownloadStart, Get, CountLayer, ResetPosition, StoreLength,
                 LayerProgress, UnpackEntry, NextTask, Finished, printVars
    <3>3. ASSUME NEW th \in Threads, ShowStep(th) PROVE PrintLine(th) \/ line' = line
      BY <3>3 DEF ShowStep, Look, Looked, TryWrite, LoadReceived, LoadLen, LoadPosition
    <3>4. UNCHANGED vars => line' = line
      BY DEF vars, printVars
    <3>5. QED
      BY <3>1, <3>2, <3>3, <3>4 DEF Next, Returned
  <2>2. line'.received = seen[th].received /\ line.received <= seen[th].received
    BY <2>1 DEF PrintLine, PrinterInv, Types, Lines, Loaded
  <2>3. line.received \in Nat /\ seen[th].received \in Nat
    BY DEF PrinterInv, Types, Lines
  <2>4. QED
    BY <2>2, <2>3
<1>2. QED
  BY <1>1, Inductive, PTL DEF Spec, LinesNeverGoBack

\* BytesInv, where each byte was received, holds in every state too.
THEOREM EveryByte == Spec => []BytesInv
<1>1. Init => PrinterInv /\ BytesInv
  BY InitPrinterInv, InitBytesInv
<1>2. (PrinterInv /\ BytesInv) /\ [Next]_vars => (PrinterInv /\ BytesInv)'
  BY StepPrinterInv, StepBytesInv
<1>3. QED
  BY <1>1, <1>2, PTL DEF Spec

\* Type correctness, whatever the registry sends: in particular no thread looks at the
\* clock while another one prints.
THEOREM TypeCorrect == Spec => []TypeOK
<1>1. PrinterInv /\ BytesInv => TypeOK
  <2> SUFFICES ASSUME PrinterInv, BytesInv PROVE TypeOK
    OBVIOUS
  <2>1. /\ queue \in 0..NumLayers + 1 /\ broken \subseteq done /\ done \subseteq Tasks
        /\ job \in [Workers -> 0..NumLayers + 1] /\ read \in [Workers -> 0..MaxBody]
    BY DEF BytesInv, Assigned
  <2>2. /\ task \in 0..NumLayers + 1 /\ entries \in 0..MaxEntries /\ total \in Nat
        /\ received \in Nat /\ layers \in 0..NumLayers /\ position \in Nat
    BY DEF BytesInv, Advanced, PrinterInv, Types
  <2>3. /\ readers \subseteq Threads /\ writer \in Threads \union {Nobody}
        /\ writer # Nobody => readers = {}
    BY DEF BytesInv, Exclusive
  <2>4. QED
    BY <2>1, <2>2, <2>3 DEF TypeOK
<1>2. QED
  BY <1>1, Inductive, EveryByte, PTL

\* The line that finished prints is the last one, and it counts every byte of the image:
\* by then no worker is in show_progress, so try_write succeeds.
THEOREM LastLineComplete == Spec => []LastLineIsComplete
<1>1. BytesInv => LastLineIsComplete
  BY DEF BytesInv, Ended, LastLineIsComplete
<1>2. QED
  BY <1>1, EveryByte, PTL
=============================================================================
