---------------------- MODULE ConnectionDispatch_proofs ----------------------
(***************************************************************************)
(* Theorems about ConnectionDispatch, for any number of connections,       *)
(* threads and messages and for each of the three loops.                   *)
(***************************************************************************)
EXTENDS ConnectionDispatch, ListLemmas

USE LoopAssumption, NullAssumption, MaxAssumption

TypedAndKept == TypeOK /\ StatusIsKept
DispatchInv == TypedAndKept /\ CopyIsLocal

-----------------------------------------------------------------------------
(* Steps.                                                                  *)

\* The five ways libdbus comes to read a connection.
Inputs(c, n, closing) ==
  \/ InputInHandler(c, n, closing)
  \/ WatchReady(c, n, closing)
  \/ \E t \in Threads : InputInThread(t, c, n, closing)

LEMMA StepCases ==
  ASSUME Next,
         NEW P,
         \A c \in Connections : Setup(c) /\ woken' \in BOOLEAN => P,
         \A c \in Connections : Arrive(c) => P,
         \A c \in Connections, n \in Nat, closing \in BOOLEAN :
            Inputs(c, n, closing) => P,
         \A t \in Threads : QueueConnection(t) => P,
         CopyQueue => P, TestConnected => P, NothingToDispatch => P,
         CallHandler => P, HandlerReturns => P, EraseCopied => P,
         Enter \/ QueueEmpty \/ Poll \/ WatchesDone \/ Prepare => P,
         \A c \in Connections : WatchRemoved(c) => P,
         TypeOK
  PROVE  P
<1>1. \A c \in Connections : \A n \in Totals(c) : n \in Nat
  BY DEF Totals, TypeOK
<1>2. ASSUME NEW c \in Connections,
             SetupInLoopThread(c) \/ \E t \in Threads : SetupInThread(t, c)
      PROVE  Setup(c) /\ woken' \in BOOLEAN
  BY <1>2 DEF SetupInLoopThread, SetupInThread, TypeOK
<1> QED
  BY <1>1, <1>2, Zenon DEF Next, LoopStep, Environment, Inputs

\* Queueing a connection leaves those behind the copied entries where they are.
LEMMA PushFacts ==
  ASSUME TypeOK, NEW c \in Connections, Push(c), UNCHANGED copied
  PROVE  /\ pendingQueue' \in Seq(Connections)
         /\ copied' \in 0..Len(pendingQueue')
         /\ QueuedBehind \subseteq QueuedBehind'
         /\ c \in QueuedBehind'
<1>1. /\ pendingQueue \in Seq(Connections) /\ copied \in 0..Len(pendingQueue)
      /\ pendingQueue' = Append(pendingQueue, c) /\ copied' = copied
  BY DEF TypeOK, Push
<1>2. /\ pendingQueue' \in Seq(Connections)
      /\ Len(pendingQueue) \in Nat /\ Len(pendingQueue') = Len(pendingQueue) + 1
      /\ \A i \in 1..Len(pendingQueue) : pendingQueue'[i] = pendingQueue[i]
      /\ pendingQueue'[Len(pendingQueue) + 1] = c
  BY <1>1, AppendFacts
<1>3. QueuedBehind \subseteq QueuedBehind' /\ c \in QueuedBehind'
  BY <1>1, <1>2 DEF QueuedBehind
<1> QED BY <1>1, <1>2, <1>3

LEMMA TypeInit == Init => TypeOK
<1> SUFFICES ASSUME Init PROVE TypeOK OBVIOUS
<1>1. /\ state \in [Connections -> States] /\ sending \in [Connections -> Nat]
      /\ socket \in [Connections -> Nat] /\ incoming \in [Connections -> Nat]
      /\ status \in [Connections -> Statuses]
  BY DEF Init, States, Statuses
<1>2. notify \in [Threads -> Connections \cup {Null}]
  BY DEF Init
<1>3. /\ pendingQueue \in Seq(Connections) /\ Len(pendingQueue) = 0
      /\ copy \in Seq(Connections) /\ copy = <<>>
      /\ index \in Nat \ {0} /\ copied \in 0..Len(pendingQueue)
  BY DEF Init
<1>4. ready \in SUBSET Connections /\ woken \in BOOLEAN /\ dpc \in Places
      /\ dpc \notin {"dispatch", "handler"}
  BY DEF Init, Places
<1> QED BY <1>1, <1>2, <1>3, <1>4 DEF TypeOK

\* What libdbus reads keeps the types.
LEMMA TypeInput ==
  ASSUME TypeOK, NEW c \in Connections, NEW n \in Nat, NEW closing \in BOOLEAN,
         Input(c, n, closing)
  PROVE  /\ state' \in [Connections -> States]
         /\ sending' \in [Connections -> Nat] /\ socket' \in [Connections -> Nat]
         /\ incoming' \in [Connections -> Nat] /\ status' \in [Connections -> Statuses]
<1>1. socket' \in [Connections -> Nat]
  <2> DEFINE read == n - incoming[c] - (IF closing THEN 1 ELSE 0)
  <2>1. read \in 0..socket[c] /\ socket' = [socket EXCEPT ![c] = @ - read]
    BY DEF Input
  <2>2. socket \in [Connections -> Nat]
    BY DEF TypeOK
  <2> HIDE DEF read
  <2>3. socket[c] - read \in Nat
    BY <2>1, <2>2
  <2> QED BY <2>1, <2>2, <2>3
<1>2. /\ state' \in [Connections -> States] /\ sending' \in [Connections -> Nat]
      /\ incoming' \in [Connections -> Nat] /\ status' \in [Connections -> Statuses]
  BY DEF TypeOK, Input, Status, States, Statuses
<1> QED BY <1>1, <1>2

LEMMA TypeInputs ==
  ASSUME TypeOK, NEW c \in Connections, NEW n \in Nat, NEW closing \in BOOLEAN,
         Inputs(c, n, closing)
  PROVE  TypeOK'
<1>1. Input(c, n, closing) /\ UNCHANGED copyVars
  BY DEF Inputs, InputInHandler, WatchReady, InputInThread, copyVars
<1>2. pendingQueue' \in Seq(Connections) /\ copied' \in 0..Len(pendingQueue')
  <2>1. UNCHANGED pendingQueue \/ Push(c)
    BY DEF Inputs, InputInHandler, WatchReady, InputInThread
  <2>2. CASE UNCHANGED pendingQueue
    BY <1>1, <2>2 DEF TypeOK, copyVars
  <2>3. CASE Push(c)
    BY <1>1, <2>3, PushFacts DEF copyVars
  <2> QED BY <2>1, <2>2, <2>3
<1>3. /\ notify' \in [Threads -> Connections \cup {Null}]
      /\ ready' \in SUBSET Connections /\ woken' \in BOOLEAN /\ dpc' \in Places
      /\ dpc' \in {"dispatch", "handler"} => dpc \in {"dispatch", "handler"}
  BY DEF TypeOK, Inputs, InputInHandler, WatchReady, InputInThread, pollVars,
     AfterWatch, Places
<1>4. /\ copy' \in Seq(Connections) /\ index' \in Nat \ {0}
      /\ copy' # <<>> => index' <= Len(copy')
      /\ dpc' \in {"dispatch", "handler"} => copy' # <<>>
  BY <1>1, <1>3 DEF TypeOK, copyVars
<1>5. /\ state' \in [Connections -> States]
      /\ sending' \in [Connections -> Nat] /\ socket' \in [Connections -> Nat]
      /\ incoming' \in [Connections -> Nat] /\ status' \in [Connections -> Statuses]
  BY <1>1, TypeInput
<1> QED BY <1>2, <1>3, <1>4, <1>5 DEF TypeOK

\* The iterator stays in the copy, wherever do_dispatch() leaves it.
LEMMA IteratorFacts ==
  ASSUME TypeOK, copy # <<>>, DropFromCopy \/ KeepInCopy
  PROVE  /\ copy' \in Seq(Connections) /\ index' \in Nat \ {0}
         /\ copy' # <<>> => index' <= Len(copy')
         /\ copied' = copied
         /\ copy[index] \in Connections /\ copy[index] \in ToSet(copy)
         /\ KeepInCopy => copy' = copy
         /\ \A x \in ToSet(copy) : x = copy[index] \/ x \in ToSet(copy')
<1>1. copy \in Seq(Connections) /\ Len(copy) \in Nat /\ index \in 1..Len(copy)
  BY DEF TypeOK
<1>2. copy[index] \in Connections /\ copy[index] \in ToSet(copy)
  BY <1>1 DEF ToSet
<1>3. /\ RemoveAt(copy, index) \in Seq(Connections)
      /\ Len(RemoveAt(copy, index)) \in Nat
      /\ \A x \in ToSet(copy) :
           x = copy[index] \/ x \in ToSet(RemoveAt(copy, index))
  BY <1>1, RemoveAtFacts
<1>4. \A s \in Seq(Connections), i \in Nat \ {0} :
        Around(s, i) \in Nat \ {0} /\ (s # <<>> => Around(s, i) <= Len(s))
  BY DEF Around
<1>5. CASE DropFromCopy
  <2>1. copy' = RemoveAt(copy, index) /\ index' = Around(copy', index) /\ copied' = copied
    BY <1>5 DEF DropFromCopy, Settle
  <2>2. KeepInCopy => copy' = copy
    BY DEF KeepInCopy, Settle
  <2> QED BY <1>1, <1>2, <1>3, <1>4, <2>1, <2>2
<1>6. CASE KeepInCopy
  <2>1. copy' = copy /\ index' = Around(copy, index + 1) /\ copied' = copied
    BY <1>6 DEF KeepInCopy, Settle
  <2>2. index + 1 \in Nat \ {0}
    BY <1>1
  <2> QED BY <1>1, <1>2, <1>4, <2>1, <2>2
<1> QED BY <1>5, <1>6

LEMMA TypeSetup ==
  ASSUME TypeOK, NEW c \in Connections, Setup(c), UNCHANGED ready,
         woken' \in BOOLEAN
  PROVE  TypeOK'
<1>1. /\ state' \in [Connections -> States] /\ sending' \in [Connections -> Nat]
      /\ incoming' \in [Connections -> Nat] /\ status' \in [Connections -> Statuses]
  <2>1. PICK n \in 0..sending[c] :
          /\ sending' = [sending EXCEPT ![c] = @ - n]
          /\ incoming' = [incoming EXCEPT ![c] = n]
          /\ status' = [status EXCEPT ![c] = Status(n)]
    BY DEF Setup
  <2>2. n \in Nat /\ sending[c] - n \in Nat /\ Status(n) \in Statuses
    BY <2>1 DEF TypeOK, Status, Statuses
  <2>3. state' \in [Connections -> States]
    BY DEF TypeOK, Setup, States
  <2> QED BY <2>1, <2>2, <2>3 DEF TypeOK
<1>2. pendingQueue' \in Seq(Connections) /\ copied' \in 0..Len(pendingQueue')
  BY PushFacts DEF Setup, SetupQueues, copyVars
<1>3. UNCHANGED <<socket, notify, copyVars, ready, dpc>>
  BY DEF Setup
<1> QED BY <1>1, <1>2, <1>3 DEF TypeOK, copyVars

\* The steps of dispatch_pending() keep the types.
LEMMA TypeDispatch ==
  ASSUME TypeOK, CopyIsLocal,
         CopyQueue \/ TestConnected \/ NothingToDispatch \/ CallHandler
         \/ HandlerReturns \/ EraseCopied
  PROVE  TypeOK'
<1>1. CASE CopyQueue
  <2>1. /\ copy' = pendingQueue /\ index' = 1 /\ copied' = Len(pendingQueue)
        /\ pendingQueue' = pendingQueue /\ pendingQueue \in Seq(Connections)
        /\ dpc' = "test" /\ UNCHANGED <<libdbusVars, notify, pollVars>>
    BY <1>1 DEF CopyQueue, TypeOK
  <2>2. /\ index' \in Nat \ {0} /\ copied' \in 0..Len(pendingQueue')
        /\ copy' # <<>> => index' <= Len(copy')
    BY <2>1
  <2> QED BY <2>1, <2>2 DEF TypeOK, libdbusVars, pollVars, Places
<1>2. CASE TestConnected
  <2>1. CASE SkipsClosed(copy[index])
    <3>1. copy # <<>> /\ DropFromCopy /\ UNCHANGED <<dpc, libdbusVars, notify, pendingQueue, pollVars>>
          /\ dpc = "test"
      BY <1>2, <2>1 DEF TestConnected
    <3> QED BY <3>1, IteratorFacts DEF TypeOK, libdbusVars, pollVars
  <2>2. CASE ~SkipsClosed(copy[index])
    BY <1>2, <2>2 DEF TypeOK, TestConnected, libdbusVars, copyVars, pollVars, Places
  <2> QED BY <2>1, <2>2
<1>3. CASE NothingToDispatch
  <2>1. /\ copy # <<>> /\ DropFromCopy /\ dpc' = "test"
        /\ status' = [status EXCEPT ![copy[index]] = "COMPLETE"]
        /\ UNCHANGED <<state, sending, socket, incoming, notify, pendingQueue, pollVars>>
    BY <1>3 DEF NothingToDispatch, TypeOK
  <2>2. status' \in [Connections -> Statuses]
    BY <2>1 DEF TypeOK, Statuses
  <2> QED BY <2>1, <2>2, IteratorFacts DEF TypeOK, pollVars, Places
<1>4. CASE CallHandler
  <2>1. copy # <<>> /\ copy[index] \in Connections
    BY <1>4 DEF CallHandler, TypeOK
  <2>2. incoming' \in [Connections -> Nat]
    BY <1>4, <2>1, SMTT(30) DEF CallHandler, TypeOK
  <2> QED BY <1>4, <2>1, <2>2 DEF TypeOK, CallHandler, copyVars, pollVars, Places
<1>5. CASE HandlerReturns
  <2>1. /\ copy # <<>> /\ dpc' = "test"
        /\ DropFromCopy \/ KeepInCopy
        /\ status' = [status EXCEPT ![copy[index]] = Status(incoming[copy[index]])]
        /\ UNCHANGED pendingQueue \/ Push(copy[index])
        /\ UNCHANGED <<state, sending, socket, incoming, notify, pollVars>>
    BY <1>5 DEF HandlerReturns, TypeOK
  <2>2. status' \in [Connections -> Statuses]
    BY <2>1 DEF TypeOK, Status, Statuses
  <2>3. copied' = copied /\ copy[index] \in Connections
    BY <2>1, IteratorFacts
  <2>4. pendingQueue' \in Seq(Connections) /\ copied' \in 0..Len(pendingQueue')
    BY <2>1, <2>3, PushFacts DEF TypeOK
  <2> QED BY <2>1, <2>2, <2>4, IteratorFacts DEF TypeOK, pollVars, Places
<1>6. CASE EraseCopied
  <2>1. /\ pendingQueue' = SubSeq(pendingQueue, copied + 1, Len(pendingQueue))
        /\ copied' = 0 /\ dpc' = "iterate" /\ copy = <<>>
        /\ UNCHANGED <<libdbusVars, notify, copy, index, pollVars>>
    BY <1>6 DEF EraseCopied, Remaining
  <2>2. pendingQueue' \in Seq(Connections) /\ Len(pendingQueue') \in Nat
    BY <2>1, TailFacts DEF TypeOK
  <2>3. copied' \in 0..Len(pendingQueue')
    BY <2>1, <2>2
  <2> QED BY <2>1, <2>2, <2>3 DEF TypeOK, libdbusVars, pollVars, Places
<1> QED BY <1>1, <1>2, <1>3, <1>4, <1>5, <1>6

\* So do the others.
LEMMA TypeOther ==
  ASSUME TypeOK,
         \/ \E c \in Connections : Arrive(c) \/ WatchRemoved(c)
         \/ \E t \in Threads : QueueConnection(t)
         \/ Enter \/ QueueEmpty \/ Poll \/ WatchesDone \/ Prepare
  PROVE  TypeOK'
<1>1. ASSUME NEW c \in Connections, Arrive(c) PROVE TypeOK'
  <2>1. sending' \in [Connections -> Nat] /\ socket' \in [Connections -> Nat]
    BY <1>1 DEF Arrive, TypeOK
  <2> QED BY <1>1, <2>1 DEF Arrive, TypeOK, copyVars, pollVars
<1>2. ASSUME NEW c \in Connections, WatchRemoved(c) PROVE TypeOK'
  BY <1>2 DEF WatchRemoved, TypeOK, libdbusVars, copyVars
<1>3. ASSUME NEW t \in Threads, QueueConnection(t) PROVE TypeOK'
  <2>1. notify[t] \in Connections /\ Push(notify[t]) /\ UNCHANGED copied
    BY <1>3 DEF QueueConnection, TypeOK, copyVars
  <2>2. pendingQueue' \in Seq(Connections) /\ copied' \in 0..Len(pendingQueue')
    BY <2>1, PushFacts
  <2>3. notify' \in [Threads -> Connections \cup {Null}]
    BY <1>3 DEF QueueConnection, TypeOK
  <2> QED BY <1>3, <2>2, <2>3 DEF QueueConnection, TypeOK, libdbusVars, copyVars, pollVars
<1>4. CASE Poll
  BY <1>4 DEF Poll, Readable, TypeOK, libdbusVars, copyVars, Places
<1>5. CASE Enter \/ QueueEmpty \/ WatchesDone \/ Prepare
  <2>1. dpc' \in Places \ {"dispatch", "handler"}
        /\ UNCHANGED <<libdbusVars, notify, pendingQueue, copyVars, pollVars>>
    BY <1>5 DEF Enter, QueueEmpty, WatchesDone, Prepare, AfterDispatch,
       AfterWatches, Places
  <2> QED BY <2>1 DEF TypeOK, libdbusVars, copyVars, pollVars
<1> QED BY <1>1, <1>2, <1>3, <1>4, <1>5

-----------------------------------------------------------------------------
(* Scheduling.                                                             *)

LEMMA ScheduledStays ==
  ASSUME NEW x, Scheduled(x),
         x \in ToSet(copy) => x \in ToSet(copy'),
         QueuedBehind \subseteq QueuedBehind',
         \A t \in Threads : notify[t] = x => notify'[t] = x
  PROVE  Scheduled(x)'
BY DEF Scheduled

\* Setting a connection up queues it.
LEMMA KeptBySetup ==
  ASSUME DispatchInv, NEW c \in Connections, Setup(c)
  PROVE  StatusIsKept'
<1>1. PICK n \in 0..sending[c] :
        /\ incoming' = [incoming EXCEPT ![c] = n]
        /\ status' = [status EXCEPT ![c] = Status(n)]
  BY DEF Setup
<1>2. /\ state' = [state EXCEPT ![c] = "open"] /\ Push(c)
      /\ UNCHANGED <<notify, copy, copied>>
  BY DEF Setup, SetupQueues, copyVars
<1>3. QueuedBehind \subseteq QueuedBehind' /\ c \in QueuedBehind'
  BY <1>2, PushFacts DEF DispatchInv, TypedAndKept
<1>4. ASSUME NEW x \in Connections, state'[x] = "open"
      PROVE  /\ incoming'[x] > 0 => status'[x] = "DATA_REMAINS"
             /\ status'[x] = "DATA_REMAINS" => Scheduled(x)'
  <2>1. CASE x = c
    <3>1. incoming'[x] = n /\ status'[x] = Status(n)
      BY <1>1, <2>1 DEF DispatchInv, TypedAndKept, TypeOK
    <3>2. Scheduled(x)'
      BY <1>3, <2>1 DEF Scheduled
    <3> QED BY <3>1, <3>2 DEF Status
  <2>2. CASE x # c
    <3>1. state[x] = "open" /\ incoming'[x] = incoming[x] /\ status'[x] = status[x]
      BY <1>1, <1>2, <1>4, <2>2 DEF DispatchInv, TypedAndKept, TypeOK
    <3>2. Scheduled(x) => Scheduled(x)'
      BY <1>2, <1>3, ScheduledStays
    <3> QED BY <3>1, <3>2 DEF DispatchInv, TypedAndKept, StatusIsKept
  <2> QED BY <2>1, <2>2
<1> QED BY <1>4 DEF StatusIsKept

\* Reading announces a connection that had nothing left, and the thread that
\* read queues it, now or after it has left libdbus.
LEMMA KeptByInputs ==
  ASSUME DispatchInv, NEW c \in Connections, NEW n \in Nat,
         NEW closing \in BOOLEAN, Inputs(c, n, closing)
  PROVE  StatusIsKept'
<1>1. /\ Input(c, n, closing) /\ UNCHANGED <<copy, copied>>
  BY DEF Inputs, InputInHandler, WatchReady, InputInThread, copyVars
<1>2. /\ state[c] = "open" /\ incoming' = [incoming EXCEPT ![c] = n]
      /\ status' = [status EXCEPT ![c] = Status(n)]
      /\ state' = [state EXCEPT ![c] = IF closing THEN "closed" ELSE @]
  BY <1>1 DEF Input
<1>3. /\ QueuedBehind \subseteq QueuedBehind'
      /\ \A t \in Threads : notify[t] # Null => notify'[t] = notify[t]
      /\ Announces(c, n) => c \in QueuedBehind' \/ \E t \in Threads : notify'[t] = c
  <2>1. CASE InputInHandler(c, n, closing) \/ WatchReady(c, n, closing)
    <3>1. UNCHANGED notify /\ (IF Announces(c, n) THEN Push(c) ELSE UNCHANGED pendingQueue)
      BY <2>1 DEF InputInHandler, WatchReady
    <3>2. CASE Announces(c, n)
      BY <1>1, <3>1, <3>2, PushFacts DEF DispatchInv, TypedAndKept
    <3>3. CASE ~Announces(c, n)
      BY <1>1, <3>1, <3>3 DEF QueuedBehind
    <3> QED BY <3>2, <3>3
  <2>2. ASSUME NEW t \in Threads, InputInThread(t, c, n, closing)
        PROVE  /\ QueuedBehind \subseteq QueuedBehind'
               /\ \A u \in Threads : notify[u] # Null => notify'[u] = notify[u]
               /\ Announces(c, n) => \E u \in Threads : notify'[u] = c
    <3>1. /\ notify[t] = Null /\ UNCHANGED pendingQueue
          /\ notify' = IF Announces(c, n) THEN [notify EXCEPT ![t] = c] ELSE notify
      BY <2>2 DEF InputInThread
    <3>2. notify \in [Threads -> Connections \cup {Null}]
      BY DEF DispatchInv, TypedAndKept, TypeOK
    <3> QED BY <1>1, <3>1, <3>2 DEF QueuedBehind
  <2> QED BY <2>1, <2>2 DEF Inputs
<1>4. ASSUME NEW x \in Connections, state'[x] = "open"
      PROVE  /\ incoming'[x] > 0 => status'[x] = "DATA_REMAINS"
             /\ status'[x] = "DATA_REMAINS" => Scheduled(x)'
  <2>1. Scheduled(x) => Scheduled(x)'
    BY <1>1, <1>3, ScheduledStays
  <2>2. CASE x = c
    <3>1. incoming'[x] = n /\ status'[x] = Status(n)
      BY <1>2, <2>2 DEF DispatchInv, TypedAndKept, TypeOK
    <3>2. CASE Announces(c, n)
      BY <1>3, <2>2, <3>1, <3>2 DEF Scheduled, Announces, Status
    <3>3. CASE ~Announces(c, n)
      <4>1. n = 0 \/ status[c] = "DATA_REMAINS"
        BY <3>3 DEF Announces, DispatchInv, TypedAndKept, TypeOK, Statuses
      <4>2. status[c] = "DATA_REMAINS" => Scheduled(c)
        BY <1>2 DEF DispatchInv, TypedAndKept, StatusIsKept
      <4> QED BY <2>1, <2>2, <3>1, <4>1, <4>2 DEF Status
    <3> QED BY <3>2, <3>3
  <2>3. CASE x # c
    <3>1. state[x] = "open" /\ incoming'[x] = incoming[x] /\ status'[x] = status[x]
      BY <1>2, <1>4, <2>3 DEF DispatchInv, TypedAndKept, TypeOK
    <3> QED BY <2>1, <3>1 DEF DispatchInv, TypedAndKept, StatusIsKept
  <2> QED BY <2>2, <2>3
<1> QED BY <1>4 DEF StatusIsKept

LEMMA KeptByQueueConnection ==
  ASSUME DispatchInv, NEW t \in Threads, QueueConnection(t)
  PROVE  StatusIsKept'
<1>1. /\ notify[t] \in Connections /\ Push(notify[t])
      /\ notify' = [notify EXCEPT ![t] = Null]
      /\ UNCHANGED <<state, incoming, status, copy, copied>>
  BY DEF DispatchInv, TypedAndKept, TypeOK, QueueConnection, libdbusVars, copyVars
<1>2. QueuedBehind \subseteq QueuedBehind' /\ notify[t] \in QueuedBehind'
  BY <1>1, PushFacts DEF DispatchInv, TypedAndKept
<1>3. ASSUME NEW x \in Connections, Scheduled(x) PROVE Scheduled(x)'
  <2>1. CASE x = notify[t]
    BY <1>2, <2>1 DEF Scheduled
  <2>2. CASE x # notify[t]
    <3>1. \A u \in Threads : notify[u] = x => notify'[u] = x
      BY <1>1, <2>2 DEF DispatchInv, TypedAndKept, TypeOK
    <3> QED BY <1>1, <1>2, <1>3, <3>1, ScheduledStays
  <2> QED BY <2>1, <2>2
<1> QED BY <1>1, <1>3 DEF DispatchInv, TypedAndKept, StatusIsKept

\* Taking the copy, and erasing what was copied, lose nothing.
LEMMA KeptByCopying ==
  ASSUME DispatchInv, CopyQueue \/ EraseCopied
  PROVE  StatusIsKept'
<1>1. UNCHANGED <<state, incoming, status, notify>>
  BY DEF CopyQueue, EraseCopied, libdbusVars
<1>2. pendingQueue \in Seq(Connections) /\ copied \in 0..Len(pendingQueue)
  BY DEF DispatchInv, TypedAndKept, TypeOK
<1>3. CASE CopyQueue
  <2>1. copy = <<>> /\ copied = 0 /\ copy' = pendingQueue
    BY <1>3 DEF CopyQueue, DispatchInv, TypedAndKept, CopyIsLocal
  <2>2. QueuedBehind = ToSet(copy') /\ ToSet(copy) = {}
    BY <2>1, <1>2 DEF QueuedBehind, ToSet
  <2>3. ASSUME NEW x \in Connections, Scheduled(x) PROVE Scheduled(x)'
    BY <1>1, <2>2, <2>3 DEF Scheduled
  <2> QED BY <1>1, <2>3 DEF DispatchInv, TypedAndKept, StatusIsKept
<1>4. CASE EraseCopied
  <2>1. /\ pendingQueue' = SubSeq(pendingQueue, copied + 1, Len(pendingQueue))
        /\ copied' = 0 /\ copy' = copy
    BY <1>4 DEF EraseCopied, Remaining
  <2>2. /\ pendingQueue' \in Seq(Connections)
        /\ \A i \in (copied + 1)..Len(pendingQueue) :
             pendingQueue[i] \in ToSet(pendingQueue')
    BY <1>2, <2>1, TailFacts
  <2>3. ToSet(pendingQueue') = QueuedBehind'
    <3>1. ToSet(pendingQueue')
            = {pendingQueue'[i] : i \in 1..Len(pendingQueue')}
      BY <2>2, ElementsOfList
    <3>2. copied' + 1 = 1
      BY <2>1
    <3> QED BY <3>1, <3>2 DEF QueuedBehind
  <2>4. QueuedBehind \subseteq QueuedBehind'
    BY <2>2, <2>3 DEF QueuedBehind
  <2>5. ASSUME NEW x \in Connections, Scheduled(x) PROVE Scheduled(x)'
    BY <1>1, <2>1, <2>4, <2>5, ScheduledStays
  <2> QED BY <1>1, <2>5 DEF DispatchInv, TypedAndKept, StatusIsKept
<1> QED BY <1>3, <1>4

\* What leaves the copy is closed, or has nothing left to dispatch.
LEMMA KeptByDispatching ==
  ASSUME DispatchInv,
         TestConnected \/ NothingToDispatch \/ CallHandler \/ HandlerReturns
  PROVE  StatusIsKept'
<1>0. PICK c : c = copy[index]
  OBVIOUS
<1>1. /\ copy # <<>> /\ c \in Connections /\ c \in ToSet(copy)
      /\ state' = state /\ notify' = notify
  <2>1. copy # <<>> /\ state' = state /\ notify' = notify
    BY DEF DispatchInv, TypedAndKept, TypeOK, TestConnected, NothingToDispatch, CallHandler,
       HandlerReturns, libdbusVars
  <2>2. copy \in Seq(Connections) /\ index \in 1..Len(copy)
    BY <2>1 DEF DispatchInv, TypedAndKept, TypeOK
  <2> QED BY <1>0, <2>1, <2>2 DEF ToSet
<1>2. ASSUME NEW x \in Connections, Scheduled(x), QueuedBehind \subseteq QueuedBehind',
             x \in ToSet(copy) => x \in ToSet(copy')
      PROVE  Scheduled(x)'
  BY <1>1, <1>2, ScheduledStays
<1>3. DropFromCopy \/ KeepInCopy
      => \A x \in ToSet(copy) : x = c \/ x \in ToSet(copy')
  BY <1>0, <1>1, IteratorFacts DEF DispatchInv, TypedAndKept
<1>4. CASE TestConnected
  <2>1. UNCHANGED <<incoming, status, pendingQueue, copied>>
        /\ ((state[c] = "closed" /\ DropFromCopy) \/ UNCHANGED copy)
    BY <1>0, <1>4 DEF TestConnected, SkipsClosed, DropFromCopy, Settle, libdbusVars,
       copyVars
  <2>2. QueuedBehind' = QueuedBehind
    BY <2>1 DEF QueuedBehind
  <2>3. \A x \in Connections : state[x] = "open" /\ x \in ToSet(copy) => x \in ToSet(copy')
    BY <1>3, <2>1
  <2> QED BY <1>1, <1>2, <2>1, <2>2, <2>3 DEF DispatchInv, TypedAndKept, StatusIsKept
<1>5. CASE NothingToDispatch
  <2>1. /\ UNCHANGED <<incoming, pendingQueue, copied>> /\ incoming[c] = 0
        /\ DropFromCopy /\ status' = [status EXCEPT ![c] = "COMPLETE"]
    BY <1>0, <1>5 DEF NothingToDispatch, DropFromCopy, Settle
  <2>2. QueuedBehind' = QueuedBehind
    BY <2>1 DEF QueuedBehind
  <2>3. status'[c] = "COMPLETE" /\ \A x \in Connections : x # c => status'[x] = status[x]
    BY <1>1, <2>1 DEF DispatchInv, TypedAndKept, TypeOK
  <2> QED BY <1>1, <1>2, <1>3, <2>1, <2>2, <2>3 DEF DispatchInv, TypedAndKept, StatusIsKept
<1>6. CASE CallHandler
  <2>1. /\ UNCHANGED <<status, pendingQueue, copy, copied>> /\ incoming[c] > 0
        /\ incoming' = [incoming EXCEPT ![c] = @ - 1]
    BY <1>0, <1>6 DEF CallHandler, copyVars
  <2>2. QueuedBehind' = QueuedBehind
    BY <2>1 DEF QueuedBehind
  <2>3. \A x \in Connections : incoming'[x] > 0 => incoming[x] > 0
    BY <1>1, <2>1 DEF DispatchInv, TypedAndKept, TypeOK
  <2> QED BY <1>1, <1>2, <2>1, <2>2, <2>3 DEF DispatchInv, TypedAndKept, StatusIsKept
<1>7. CASE HandlerReturns
  <2>1. /\ UNCHANGED incoming
        /\ status' = [status EXCEPT ![c] = Status(incoming[c])]
        /\ UNCHANGED pendingQueue \/ Push(c)
        /\ IF incoming[c] > 0 THEN KeepInCopy ELSE DropFromCopy
    BY <1>0, <1>7 DEF HandlerReturns
  <2>2. copied' = copied /\ (KeepInCopy => copy' = copy)
    BY <1>1, <2>1, IteratorFacts DEF DispatchInv, TypedAndKept
  <2>3. QueuedBehind \subseteq QueuedBehind'
    <3>1. CASE UNCHANGED pendingQueue
      BY <2>2, <3>1 DEF QueuedBehind
    <3>2. CASE Push(c)
      BY <1>1, <2>2, <3>2, PushFacts DEF DispatchInv, TypedAndKept
    <3> QED BY <2>1, <3>1, <3>2
  <2>4. /\ status'[c] = Status(incoming[c])
        /\ \A x \in Connections : x # c => status'[x] = status[x]
    BY <1>1, <2>1 DEF DispatchInv, TypedAndKept, TypeOK
  <2>5. incoming[c] > 0 => c \in ToSet(copy')
    BY <1>1, <2>1, <2>2
  <2>6. ASSUME NEW x \in Connections, x # c, Scheduled(x) PROVE Scheduled(x)'
    BY <1>2, <1>3, <2>1, <2>3, <2>6
  <2>7. incoming[c] > 0 => Scheduled(c)'
    BY <2>5 DEF Scheduled
  <2>8. /\ incoming[c] > 0 => Status(incoming[c]) = "DATA_REMAINS"
        /\ Status(incoming[c]) = "DATA_REMAINS" => incoming[c] > 0
    BY <1>1 DEF Status, DispatchInv, TypedAndKept, TypeOK
  <2> QED BY <1>1, <2>1, <2>4, <2>6, <2>7, <2>8 DEF DispatchInv, TypedAndKept, StatusIsKept
<1> QED BY <1>4, <1>5, <1>6, <1>7

\* The remaining steps change none of it.
LEMMA KeptByOthers ==
  ASSUME DispatchInv,
         UNCHANGED <<state, incoming, status, notify, pendingQueue, copy, copied>>
  PROVE  StatusIsKept'
<1>1. ToSet(copy') = ToSet(copy) /\ QueuedBehind' = QueuedBehind
  BY DEF QueuedBehind
<1>2. ASSUME NEW x PROVE Scheduled(x)' <=> Scheduled(x)
  BY <1>1 DEF Scheduled
<1> QED BY <1>2 DEF DispatchInv, TypedAndKept, StatusIsKept

-----------------------------------------------------------------------------
\* The copy exists only inside dispatch_pending().
LEMMA LocalStep ==
  ASSUME DispatchInv, Next
  PROVE  CopyIsLocal'
<1> SUFFICES ASSUME dpc' \notin {"test", "dispatch", "handler"}
             PROVE  copy' = <<>> /\ copied' = 0
  BY DEF CopyIsLocal
<1>1. CASE EraseCopied
  BY <1>1 DEF EraseCopied
<1>2. CASE ~EraseCopied
  <2>1. dpc \notin {"test", "dispatch", "handler"} /\ UNCHANGED <<copy, copied>>
    <3> USE <1>2 DEF copyVars
    <3>1. CASE LoopStep
      BY <3>1 DEF LoopStep, Enter, CopyQueue, QueueEmpty, TestConnected,
         NothingToDispatch, CallHandler, HandlerReturns, Poll, WatchesDone,
         Prepare, WatchRemoved, WatchReady
    <3>2. CASE Environment
      BY <3>2 DEF Environment, Poll, Arrive, SetupInLoopThread, Setup,
         InputInHandler, SetupInThread, InputInThread
    <3>3. CASE \E t \in Threads : QueueConnection(t)
      BY <3>3 DEF QueueConnection
    <3> QED BY <3>1, <3>2, <3>3 DEF Next
  <2> QED BY <2>1 DEF DispatchInv, TypedAndKept, CopyIsLocal
<1> QED BY <1>1, <1>2

\* The inductive step.
LEMMA StepKeeps ==
  ASSUME DispatchInv, Next
  PROVE  TypedAndKept'
<1> USE DEF TypedAndKept
<1>1. TypeOK /\ CopyIsLocal /\ Next
  BY DEF DispatchInv, TypedAndKept
<1>2. ASSUME NEW c \in Connections, Setup(c), woken' \in BOOLEAN PROVE TypedAndKept'
  <2>1. UNCHANGED ready
    BY <1>2 DEF Setup
  <2> QED BY <1>1, <1>2, <2>1, TypeSetup, KeptBySetup
<1>3. ASSUME NEW c \in Connections, NEW n \in Nat, NEW closing \in BOOLEAN,
             Inputs(c, n, closing)
      PROVE  TypedAndKept'
  BY <1>1, <1>3, TypeInputs, KeptByInputs
<1>4. ASSUME NEW t \in Threads, QueueConnection(t) PROVE TypedAndKept'
  BY <1>1, <1>4, TypeOther, KeptByQueueConnection
<1>5. CASE CopyQueue \/ EraseCopied
  BY <1>1, <1>5, TypeDispatch, KeptByCopying
<1>6. CASE TestConnected \/ NothingToDispatch \/ CallHandler \/ HandlerReturns
  BY <1>1, <1>6, TypeDispatch, KeptByDispatching
<1>7. CASE Enter \/ QueueEmpty \/ Poll \/ WatchesDone \/ Prepare
  <2>1. UNCHANGED <<state, incoming, status, notify, pendingQueue, copy, copied>>
    BY <1>7 DEF Enter, QueueEmpty, Poll, WatchesDone, Prepare, libdbusVars, copyVars
  <2> QED BY <1>1, <1>7, <2>1, TypeOther, KeptByOthers
<1>8. ASSUME NEW c \in Connections, Arrive(c) \/ WatchRemoved(c) PROVE TypedAndKept'
  <2>1. UNCHANGED <<state, incoming, status, notify, pendingQueue, copy, copied>>
    BY <1>8 DEF Arrive, WatchRemoved, libdbusVars, copyVars
  <2> QED BY <1>1, <1>8, <2>1, TypeOther, KeptByOthers
<1> HIDE DEF TypedAndKept
<1>9. TypedAndKept'
  BY ONLY <1>1, <1>2, <1>3, <1>4, <1>5, <1>6, <1>7, <1>8, StepCases, Zenon
<1> QED BY <1>9

LEMMA DispatchInvariant == Spec => []DispatchInv
<1>1. Init => DispatchInv
  <2> SUFFICES ASSUME Init PROVE DispatchInv OBVIOUS
  <2>1. CopyIsLocal /\ StatusIsKept
    BY DEF Init, CopyIsLocal, StatusIsKept
  <2> QED BY <2>1, TypeInit DEF DispatchInv, TypedAndKept
<1>2. DispatchInv /\ [Next]_vars => DispatchInv'
  <2> SUFFICES ASSUME DispatchInv, [Next]_vars PROVE DispatchInv' OBVIOUS
  <2>1. CASE Next
    BY <2>1, LocalStep, StepKeeps DEF DispatchInv, TypedAndKept
  <2>2. CASE UNCHANGED vars
    <3>1. UNCHANGED <<state, incoming, status, notify, pendingQueue, copy, copied>>
      BY <2>2 DEF vars, libdbusVars, copyVars
    <3>2. TypeOK'
      BY <2>2 DEF DispatchInv, TypedAndKept, TypeOK, vars, libdbusVars, copyVars, pollVars
    <3>3. CopyIsLocal'
      BY <2>2 DEF DispatchInv, TypedAndKept, CopyIsLocal, vars, copyVars
    <3> QED BY <3>1, <3>2, <3>3, KeptByOthers DEF DispatchInv, TypedAndKept
  <2> QED BY <2>1, <2>2
<1> QED BY <1>1, <1>2, PTL DEF Spec

\* Type correctness of the dispatching of connections.
THEOREM TypeCorrect == Spec => []TypeOK
<1>1. DispatchInv => TypeOK
  BY DEF DispatchInv, TypedAndKept
<1> QED BY <1>1, DispatchInvariant, PTL

\* No lost wakeup in Dispatcher::dispatch_pending(), queue_connection() and
\* dispatch_status_stub(): an open connection with messages is scheduled, for
\* any number of connections and threads and for every main loop.
THEOREM NoLostWakeup == Spec => []DataIsScheduled
<1>1. DispatchInv => DataIsScheduled
  BY DEF DispatchInv, TypedAndKept, StatusIsKept, DataIsScheduled
<1> QED BY <1>1, DispatchInvariant, PTL

\* What has been read is in the queue when neither a copy nor a thread has it.
LEMMA UndispatchedIsQueued ==
  ASSUME DispatchInv, Threads = {}, dpc \notin {"test", "dispatch", "handler"},
         NEW c \in Connections, state[c] = "open", incoming[c] > 0
  PROVE  c \in ToSet(pendingQueue)
<1>1. copy = <<>> /\ copied = 0 /\ pendingQueue \in Seq(Connections)
  BY DEF DispatchInv, TypedAndKept, CopyIsLocal, TypeOK
<1>2. ToSet(copy) = {}
  BY <1>1 DEF ToSet
<1>3. Scheduled(c)
  BY DEF DispatchInv, TypedAndKept, StatusIsKept
<1>4. c \in QueuedBehind
  BY <1>2, <1>3 DEF Scheduled
<1>5. copied + 1 = 1
  BY <1>1
<1>6. QueuedBehind = ToSet(pendingQueue)
  BY <1>1, <1>5, ElementsOfList DEF QueuedBehind
<1> QED BY <1>4, <1>6

\* The library's loop goes to poll() when the queue is empty, and that of GLib
\* when nothing in it has messages; in poll() nothing is read.
LEMMA DrainedStep ==
  ASSUME DispatchInv, PollsOnlyWhenDrained, Next, Threads = {}, Loop # "ecore"
  PROVE  PollsOnlyWhenDrained'
<1> SUFFICES ASSUME dpc' = "poll", NEW c \in Connections, state'[c] = "open"
             PROVE  incoming'[c] = 0
  BY DEF PollsOnlyWhenDrained
<1>1. incoming[c] \in Nat
  BY DEF DispatchInv, TypedAndKept, TypeOK
<1>2. Loop \in {"bus", "glib"}
  OBVIOUS
<1>3. CASE dpc = "poll"
  <2>1. state'[c] = state[c] /\ incoming'[c] = incoming[c]
    <3>1. CASE LoopStep
      BY <1>3, <3>1 DEF LoopStep, Enter, CopyQueue, QueueEmpty, TestConnected,
         NothingToDispatch, CallHandler, HandlerReturns, EraseCopied, Poll,
         WatchesDone, Prepare, WatchRemoved, WatchReady
    <3>2. CASE Environment
      BY <1>3, <3>2 DEF Environment, Poll, Arrive, SetupInLoopThread, InputInHandler
    <3> QED BY <3>1, <3>2 DEF Next
  <2> QED BY <1>3, <2>1 DEF PollsOnlyWhenDrained
<1>4. CASE QueueEmpty
  <2>1. /\ dpc = "iterate" /\ pendingQueue = <<>> /\ state' = state /\ incoming' = incoming
    BY <1>4 DEF QueueEmpty, libdbusVars
  <2>2. c \notin ToSet(pendingQueue)
    BY <2>1 DEF ToSet
  <2>3. ~(incoming[c] > 0)
    BY <2>1, <2>2, UndispatchedIsQueued
  <2> QED BY <1>1, <2>1, <2>3
<1>5. CASE Prepare
  <2>1. /\ dpc = "prepare" /\ ~HasSomethingToDispatch
        /\ state' = state /\ incoming' = incoming
    BY <1>5 DEF Prepare, libdbusVars
  <2>2. c \in ToSet(pendingQueue) => ~(incoming[c] > 0)
    BY <2>1 DEF HasSomethingToDispatch
  <2>3. ~(incoming[c] > 0)
    BY <2>1, <2>2, UndispatchedIsQueued
  <2> QED BY <1>1, <2>1, <2>3
<1>6. CASE dpc # "poll" /\ ~QueueEmpty /\ ~Prepare
  <2>1. dpc' # "poll"
    <3>1. CASE LoopStep
      BY <1>2, <1>6, <3>1 DEF LoopStep, Enter, CopyQueue, TestConnected,
         NothingToDispatch, CallHandler, HandlerReturns, EraseCopied, Poll,
         WatchesDone, WatchRemoved, WatchReady, AfterWatches, AfterWatch
    <3>2. CASE Environment
      BY <1>6, <3>2 DEF Environment, Poll, Arrive, SetupInLoopThread, Setup, InputInHandler
    <3> QED BY <3>1, <3>2 DEF Next
  <2> QED BY <2>1
<1> QED BY <1>3, <1>4, <1>5, <1>6

\* When no other thread uses the connections, the library's loop and that of
\* GLib sleep only after every message libdbus has read was dispatched, for any
\* number of connections.  It is not so of Ecore's, which dispatches after I/O.
THEOREM SleepsWhenDrained ==
  ASSUME Threads = {}, Loop # "ecore" PROVE Spec => []PollsOnlyWhenDrained
<1>1. Init => PollsOnlyWhenDrained
  BY DEF Init, PollsOnlyWhenDrained
<1>2. DispatchInv /\ PollsOnlyWhenDrained /\ [Next]_vars => PollsOnlyWhenDrained'
  <2> SUFFICES ASSUME DispatchInv, PollsOnlyWhenDrained, [Next]_vars
               PROVE  PollsOnlyWhenDrained'
    OBVIOUS
  <2>1. CASE Next
    BY <2>1, DrainedStep
  <2>2. CASE UNCHANGED vars
    BY <2>2 DEF vars, libdbusVars, PollsOnlyWhenDrained
  <2> QED BY <2>1, <2>2
<1> QED BY <1>1, <1>2, DispatchInvariant, PTL DEF Spec
=============================================================================
