------------------------ MODULE RequestPiper_proofs ------------------------
(***************************************************************************)
(* Theorems about RequestPiper, for all calls, signals, workers, addresses  *)
(* and capacities: who owns each Tag, so that every response finds its      *)
(* Continuation; and about what it sends: each answer goes to its caller,   *)
(* nothing is sent twice, the order of posting is the order of sending, and *)
(* so RequestPiper is a ForwardingService.                                  *)
(***************************************************************************)
EXTENDS RequestPiperInvariant, RequestPiperRefinement, FiniteSetTheorems,
        SequenceTheorems, TLAPS

USE NullAssumption, DisjointAssumption, CapacityAssumption

\* Every step of a live process is one of these actions.
LEMMA StepCases ==
  ASSUME Next,
         NEW P,
         \A c \in Calls : Deliver(c) => P,
         WriteRequest => P, Register => P, ReadFrame => P,
         HandleResponse => P, HandleSignal => P, Leave => P, Stop => P,
         \A s \in Signals : EmitLocal(s) => P,
         \A w \in Workers : TestFd(w) \/ ReadByte(w) \/ ReadClosed(w)
                            \/ PopRequest(w) \/ DeferAnswer(w) => P,
         \A th \in Threads, s \in Signals : EmitSignal(th, s) => P,
         \A th \in Threads : PostResponse(th) => P,
         \A th \in Threads : WriteFrame(th) \/ UseDeletedPipe(th) => P,
         \A u \in Tags : FindCall(u) \/ TakeContinuation(u) \/ DeleteTag(u)
                         => P,
         UNCHANGED vars => P
  PROVE  P
BY Zenon DEF Next, Environment, DispatcherStep, ThreadStep, Alive, Quiescent,
     DeferAnswer, FindCall, TakeContinuation, DeleteTag

-----------------------------------------------------------------------------
(* Sequences.                                                              *)

\* Taking the first element of a queue shifts the others down by one.
LEMMA PopFrontFacts ==
  ASSUME NEW S, NEW q \in Seq(S), q # <<>>
  PROVE  /\ Head(q) \in S /\ Head(q) = q[1] /\ Len(q) \in Nat \ {0}
         /\ PopFront(q) \in Seq(S) /\ Tail(q) = PopFront(q)
         /\ Len(PopFront(q)) = Len(q) - 1
         /\ \A i \in 1..(Len(q) - 1) : PopFront(q)[i] = q[i + 1]
BY DEF PopFront

\* Appending leaves the earlier elements where they are.
LEMMA AppendFacts ==
  ASSUME NEW S, NEW q \in Seq(S), NEW x \in S
  PROVE  /\ Append(q, x) \in Seq(S)
         /\ Len(q) \in Nat /\ Len(Append(q, x)) = Len(q) + 1
         /\ \A i \in 1..Len(q) : Append(q, x)[i] = q[i]
         /\ Append(q, x)[Len(q) + 1] = x
OBVIOUS

-----------------------------------------------------------------------------
(* Types.                                                                  *)

LEMMA TypeInit == Init => TypeOK
<1> SUFFICES ASSUME Init PROVE TypeOK OBVIOUS
<1>1. dpc \in DispatcherPcs /\ dcall \in Calls \cup {Null} /\ dtag \in Tags \cup {Null}
  BY DEF Init, DispatcherPcs
<1>2. requestQueue \in Seq(Jobs) /\ requestPipe \in Nat
  BY DEF Init
<1>3. pc \in [Threads -> ThreadPcs]
  BY DEF Init, ThreadPcs
<1>4. job \in [Threads -> Jobs \cup {NoJob}] /\ pipeContinuations \in [Tags -> Jobs \cup {NoJob}]
  BY DEF Init
<1>5. responseQueue \in Seq(Calls)
      /\ signalQueue \in Seq(Signals) /\ responsePipe \in Seq(Tags \cup {Null})
      /\ posted \in Seq(Calls \cup Signals) /\ sent \in Seq(Calls \cup Signals)
  BY DEF Init
<1>6. continuations \in [Tags -> Calls \cup {Null}] /\ heap \in [Tags -> Stages]
  BY DEF Init, Stages
<1>7. replied \in [Calls -> Calls \cup {Null}]
  BY DEF Init
<1> QED BY <1>1, <1>2, <1>3, <1>4, <1>5, <1>6, <1>7 DEF Init, TypeOK

\* A step of the dispatcher thread keeps the types.
LEMMA TypeDispatcher ==
  ASSUME TypeOK,
         \/ \E c \in Calls : Deliver(c)
         \/ WriteRequest \/ Register \/ ReadFrame
         \/ Leave \/ Stop \/ \E s \in Signals : EmitLocal(s)
  PROVE  TypeOK'
<1>1. ASSUME NEW c \in Calls, Deliver(c) PROVE TypeOK'
  BY <1>1 DEF TypeOK, Deliver, Jobs, threadVars, responseVars, DispatcherPcs, Stages
<1>2. CASE WriteRequest
  BY <1>2 DEF TypeOK, WriteRequest, Wake, DispatcherPcs, threadVars, responseVars, tagVars, historyVars
<1>3. CASE Register
  BY <1>3 DEF TypeOK, Register, DispatcherPcs, requestVars, threadVars, responseVars, historyVars
<1>4. CASE ReadFrame
  BY <1>4 DEF TypeOK, ReadFrame, DispatcherPcs, requestVars, threadVars, historyVars, Stages
<1>5. CASE Leave
  BY <1>5 DEF TypeOK, Leave, requestVars, threadVars, responseVars, tagVars, historyVars
<1>6. CASE Stop
  BY <1>6 DEF TypeOK, Stop, StopPipe, StopPcs, DispatcherPcs, requestVars, threadVars, responseVars, tagVars, historyVars
<1>7. ASSUME NEW s \in Signals, EmitLocal(s) PROVE TypeOK'
  BY <1>7 DEF TypeOK, EmitLocal, dispatcherVars, requestVars, threadVars, responseVars, tagVars
<1> QED BY <1>1, <1>2, <1>3, <1>4, <1>5, <1>6, <1>7

\* So does handling a frame: what is popped is an element of the queue.
LEMMA TypeHandler ==
  ASSUME TypeOK, HandleResponse \/ HandleSignal
  PROVE  TypeOK'
<1>1. CASE HandleResponse
  <2>1. /\ Head(responseQueue) \in Calls
        /\ PopFront(responseQueue) \in Seq(Calls)
    <3>1. responseQueue # <<>> /\ responseQueue \in Seq(Calls)
      BY <1>1 DEF TypeOK, HandleResponse
    <3> QED BY <3>1, PopFrontFacts
  <2>2. continuations[dtag] # Null => continuations[dtag] \in Calls
    BY <1>1 DEF TypeOK, HandleResponse, EndHandler
  <2>3. replied' \in [Calls -> Calls \cup {Null}]
    <3>1. replied \in [Calls -> Calls \cup {Null}]
      BY DEF TypeOK
    <3> QED BY <1>1, <2>1, <2>2, <3>1 DEF HandleResponse
  <2>6. sent' \in Seq(Calls \cup Signals)
    <3>1. sent' = sent \/ (continuations[dtag] # Null /\ sent' = Append(sent, continuations[dtag]))
      BY <1>1 DEF HandleResponse
    <3>2. sent \in Seq(Calls \cup Signals)
      BY DEF TypeOK
    <3> QED BY <2>2, <3>1, <3>2
  <2>4. continuations' \in [Tags -> Calls \cup {Null}] /\ heap' \in [Tags -> Stages]
    BY <1>1 DEF TypeOK, HandleResponse, Erase, Stages
  <2>5. dpc' \in DispatcherPcs
    BY <1>1 DEF HandleResponse, EndHandler, DispatcherPcs, StopPcs, StopPipe
  <2> QED
    BY <1>1, <2>1, <2>3, <2>4, <2>5, <2>6
    DEF TypeOK, HandleResponse, EndHandler, requestVars, threadVars
<1>2. CASE HandleSignal
  <2>1. /\ Head(signalQueue) \in Signals
        /\ PopFront(signalQueue) \in Seq(Signals)
    BY <1>2, PopFrontFacts DEF TypeOK, HandleSignal
  <2>2. dpc' \in DispatcherPcs
    BY <1>2 DEF HandleSignal, EndHandler, DispatcherPcs, StopPcs, StopPipe
  <2> QED
    BY <1>2, <2>1, <2>2
    DEF TypeOK, HandleSignal, EndHandler, requestVars, threadVars
<1> QED BY <1>1, <1>2

\* The steps of the workers.
LEMMA TypeWorker ==
  ASSUME TypeOK, NEW w \in Workers,
         TestFd(w) \/ ReadByte(w) \/ ReadClosed(w) \/ PopRequest(w)
         \/ DeferAnswer(w)
  PROVE  TypeOK'
<1> USE DEF Threads
<1>1. CASE TestFd(w)
  BY <1>1 DEF TypeOK, TestFd, ThreadPcs, dispatcherVars, requestVars, responseVars, tagVars, historyVars
<1>2. CASE ReadByte(w)
  BY <1>2 DEF TypeOK, ReadByte, ThreadPcs, dispatcherVars, responseVars, tagVars, historyVars
<1>3. CASE ReadClosed(w)
  BY <1>3 DEF TypeOK, ReadClosed, ThreadPcs, dispatcherVars, requestVars, responseVars, tagVars, historyVars
<1>4. CASE PopRequest(w)
  <2>1. requestQueue # <<>> => /\ Head(requestQueue) \in Jobs
                               /\ PopFront(requestQueue) \in Seq(Jobs)
    BY PopFrontFacts DEF TypeOK
  <2>2. CASE requestQueue = <<>>
    BY <1>4, <2>2 DEF TypeOK, PopRequest, ThreadPcs, dispatcherVars, responseVars, historyVars
  <2>3. CASE requestQueue # <<>>
    <3>0. /\ pc' = [pc EXCEPT ![w] = "method"]
          /\ job' = [job EXCEPT ![w] = Head(requestQueue)]
          /\ requestQueue' = PopFront(requestQueue)
          /\ heap' = [heap EXCEPT ![Head(requestQueue).tag] = "serving"]
      BY <1>4, <2>3 DEF PopRequest
    <3>1. pc' \in [Threads -> ThreadPcs]
      BY <3>0 DEF TypeOK, ThreadPcs
    <3>2. heap' \in [Tags -> Stages]
      BY <3>0 DEF TypeOK, Stages
    <3>3. job' \in [Threads -> Jobs \cup {NoJob}] /\ requestQueue' \in Seq(Jobs)
      BY <2>1, <2>3, <3>0 DEF TypeOK
    <3> QED BY <1>4, <3>1, <3>2, <3>3 DEF TypeOK, PopRequest, dispatcherVars, responseVars, historyVars
  <2> QED BY <2>2, <2>3
<1>5. CASE DeferAnswer(w)
  <2>1. pc' \in [Threads -> ThreadPcs]
    BY <1>5 DEF TypeOK, DeferAnswer, ThreadPcs
  <2>3. heap' \in [Tags -> Stages]
    BY <1>5 DEF TypeOK, DeferAnswer, Stages
  <2>4. job' \in [Threads -> Jobs \cup {NoJob}]
    BY <1>5 DEF TypeOK, DeferAnswer
  <2>2. pipeContinuations' \in [Tags -> Jobs \cup {NoJob}]
    BY <1>5 DEF TypeOK, DeferAnswer, Park
  <2> QED
    BY <1>5, <2>1, <2>2, <2>3, <2>4 DEF TypeOK, DeferAnswer, dispatcherVars, requestVars, responseVars, historyVars
<1> QED BY <1>1, <1>2, <1>3, <1>4, <1>5

\* Posting and writing, by workers and helpers.  A thread that posts a
\* response has a job.
LEMMA TypePost ==
  ASSUME TypeOK, JobInv, NEW th \in Threads,
         \/ \E s \in Signals : EmitSignal(th, s)
         \/ PostResponse(th)
         \/ WriteFrame(th) \/ UseDeletedPipe(th)
  PROVE  TypeOK'
<1> USE DEF Threads
<1>1. ASSUME NEW s \in Signals, EmitSignal(th, s) PROVE TypeOK'
  BY <1>1 DEF TypeOK, EmitSignal, Post, ThreadPcs, Writing, dispatcherVars, requestVars, PipeIsNull
<1>2. ASSUME PostResponse(th) PROVE TypeOK'
  <2>1. job[th] \in Jobs
    <3>1. job[th] # NoJob
      BY <1>2 DEF JobInv, PostResponse, HelperPcs, WorkerPcs, Writing
    <3> QED BY <3>1 DEF TypeOK
  <2>2. /\ posted' \in Seq(Calls \cup Signals)
        /\ responseQueue' \in Seq(Calls)
        /\ heap' \in [Tags -> Stages]
    <3>1. job[th].call \in Calls
      BY <2>1 DEF Jobs
    <3> QED BY <1>2, <3>1, AppendFacts DEF TypeOK, PostResponse, Post, Stages
  <2> QED
    BY <1>2, <2>2 DEF TypeOK, PostResponse, Post, ThreadPcs, Writing, dispatcherVars, requestVars, PipeIsNull
<1>3. CASE WriteFrame(th)
  <2>1. job[th].tag \in Tags \cup {Null}
    BY DEF TypeOK, Jobs, NoJob
  <2>2. /\ pc' \in [Threads -> ThreadPcs]
        /\ job' \in [Threads -> Jobs \cup {NoJob}]
    BY <1>3 DEF TypeOK, WriteFrame, ThreadPcs, Writing
  <2>3. responsePipe' \in Seq(Tags \cup {Null})
    <3>1. \E frame \in Tags \cup {Null} : responsePipe' = Append(responsePipe, frame)
      BY <1>3, <2>1 DEF WriteFrame
    <3> QED BY <3>1, AppendFacts DEF TypeOK
  <2> QED
    BY <1>3, <2>2, <2>3 DEF TypeOK, WriteFrame, dispatcherVars, requestVars, tagVars, historyVars
<1>4. CASE UseDeletedPipe(th)
  BY <1>4 DEF TypeOK, UseDeletedPipe, dispatcherVars, requestVars, threadVars, responseVars, tagVars, historyVars
<1> QED BY <1>1, <1>2, <1>3, <1>4

\* The other steps of the helpers.
LEMMA TypeHelper ==
  ASSUME TypeOK, NEW u \in Tags,
         FindCall(u) \/ TakeContinuation(u) \/ DeleteTag(u)
  PROVE  TypeOK'
<1> USE DEF Threads
<1>1. CASE FindCall(u)
  BY <1>1 DEF TypeOK, FindCall, ThreadPcs, dispatcherVars, requestVars, responseVars, tagVars, historyVars
<1>2. CASE TakeContinuation(u)
  BY <1>2 DEF TypeOK, TakeContinuation, ThreadPcs, Stages, dispatcherVars, requestVars, responseVars, historyVars
<1>3. CASE DeleteTag(u)
  BY <1>3 DEF TypeOK, DeleteTag, ThreadPcs, Stages, dispatcherVars, requestVars, responseVars, historyVars
<1> QED BY <1>1, <1>2, <1>3

LEMMA TypeNext == TypeOK /\ JobInv /\ [Next]_vars => TypeOK'
<1> SUFFICES ASSUME TypeOK, JobInv, [Next]_vars PROVE TypeOK' OBVIOUS
<1>1. CASE UNCHANGED vars
  BY <1>1 DEF TypeOK, vars, dispatcherVars, requestVars, threadVars, responseVars, tagVars, historyVars
<1>2. CASE Next
  BY ONLY TypeOK, JobInv, <1>1, <1>2, StepCases, TypeDispatcher, TypeHandler, TypeWorker, TypePost, TypeHelper, Zenon
<1> QED BY <1>1, <1>2

-----------------------------------------------------------------------------
(* Ownership: one lemma per action, one step per conjunct it can disturb.  *)

\* The parts of TypeOK that ownership needs.
LEMMA OwnTypes ==
  ASSUME TypeOK
  PROVE  /\ dpc \in DispatcherPcs
         /\ dcall \in Calls \cup {Null} /\ dtag \in Tags \cup {Null}
         /\ heap \in [Tags -> Stages]
         /\ pc \in [Threads -> ThreadPcs]
         /\ job \in [Threads -> Jobs \cup {NoJob}]
         /\ continuations \in [Tags -> Calls \cup {Null}]
         /\ pipeContinuations \in [Tags -> Jobs \cup {NoJob}]
         /\ requestQueue \in Seq(Jobs)
         /\ responsePipe \in Seq(Tags \cup {Null})
         /\ \A i \in 1..Len(requestQueue) : requestQueue[i] \in Jobs
         /\ \A i \in 1..Len(responsePipe) : responsePipe[i] \in Tags \cup {Null}
BY DEF TypeOK

\* A pair of a call and a Tag is not the empty pair.
LEMMA JobFacts ==
  /\ NoJob \notin Jobs /\ NoJob.tag = Null /\ NoJob.tag \notin Tags
  /\ \A j \in Jobs : j # NoJob /\ j.tag \in Tags /\ j.tag # Null /\ j.call \in Calls
BY DEF Jobs, NoJob

LEMMA OwnDeleteTag ==
  ASSUME TypeOK, Ownership, NEW u \in Tags, DeleteTag(u)
  PROVE  Ownership'
<1>1. /\ pc[u] = "delete" /\ heap[u] = "user"
      /\ heap' = [heap EXCEPT ![u] = "free"] /\ pc' = [pc EXCEPT ![u] = "none"]
      /\ UNCHANGED <<dpc, dcall, dtag, requestQueue, job, continuations,
                     pipeContinuations, responsePipe>>
  BY DEF DeleteTag, Ownership, ParkedInv, dispatcherVars, requestVars, responseVars
<1>2. /\ \A t \in Tags : t # u => heap'[t] = heap[t]
      /\ heap'[u] = "free"
      /\ \A th \in Threads : th # u => pc'[th] = pc[th]
      /\ pc'[u] = "none"
  BY <1>1, OwnTypes DEF Threads
<1>3. JobInv'
  BY <1>1, <1>2 DEF JobInv, Ownership, Threads, HelperPcs, Writing
<1>4. DispatcherInv'
  BY <1>1, <1>2, OwnTypes DEF DispatcherInv, Ownership, LaterStages
<1>5. ContinuationInv'
  BY <1>1, <1>2 DEF ContinuationInv, Ownership, LaterStages
<1>6. QueuedInv'
  BY <1>1, <1>2, OwnTypes, JobFacts DEF QueuedInv, Ownership
<1>7. ServedInv'
  BY <1>1, <1>2, OwnTypes, JobFacts DEF ServedInv, JobInv, Ownership, Threads
<1>8. ParkedInv'
  BY <1>1, <1>2, OwnTypes, JobFacts DEF ParkedInv, Ownership, Threads
<1>9. PostedInv'
  BY <1>1, <1>2, OwnTypes DEF PostedInv, Ownership
<1> QED BY <1>3, <1>4, <1>5, <1>6, <1>7, <1>8, <1>9 DEF Ownership

\* The steps of a worker that move no Tag.
LEMMA OwnWorkerLoop ==
  ASSUME TypeOK, Ownership, NEW w \in Workers,
         TestFd(w) \/ ReadByte(w) \/ ReadClosed(w)
  PROVE  Ownership'
<1>1. /\ pc[w] \in {"loop", "read"}
      /\ \E next \in {"loop", "read", "process", "exited"} :
           pc' = [pc EXCEPT ![w] = next]
      /\ UNCHANGED <<dpc, dcall, dtag, requestQueue, job, continuations,
                     pipeContinuations, heap, responsePipe>>
  BY DEF TestFd, ReadByte, ReadClosed, dispatcherVars, requestVars,
         responseVars, tagVars
<1>2. /\ \A th \in Threads : th # w => pc'[th] = pc[th]
      /\ pc'[w] \in {"loop", "read", "process", "exited"}
      /\ w \in Threads /\ w \notin Tags
  BY <1>1, OwnTypes DEF Threads
<1>3. JobInv'
  BY <1>1, <1>2 DEF JobInv, Ownership, Threads, WorkerPcs, Writing
<1>4. DispatcherInv' /\ ContinuationInv' /\ QueuedInv' /\ PostedInv'
  BY <1>1 DEF DispatcherInv, ContinuationInv, QueuedInv, PostedInv, Ownership
<1>5. ServedInv'
  BY <1>1, <1>2 DEF ServedInv, JobInv, Ownership, Threads, Writing
<1>6. ParkedInv'
  BY <1>1, <1>2 DEF ParkedInv, Ownership, Threads
<1> QED BY <1>3, <1>4, <1>5, <1>6 DEF Ownership

\* The first request of the queue goes to a worker.
LEMMA OwnPopRequest ==
  ASSUME TypeOK, Ownership, NEW w \in Workers, PopRequest(w)
  PROVE  Ownership'
<1>1. CASE requestQueue = <<>>
  <2>1. /\ pc[w] = "process" /\ pc' = [pc EXCEPT ![w] = "loop"]
        /\ UNCHANGED <<dpc, dcall, dtag, requestQueue, job, continuations,
                       pipeContinuations, heap, responsePipe>>
    BY <1>1 DEF PopRequest, dispatcherVars, responseVars
  <2>2. /\ \A th \in Threads : th # w => pc'[th] = pc[th]
        /\ pc'[w] = "loop"
        /\ w \in Threads /\ w \notin Tags
    BY <2>1, OwnTypes DEF Threads
  <2>3. JobInv'
    BY <2>1, <2>2 DEF JobInv, Ownership, Threads, WorkerPcs, Writing
  <2>4. DispatcherInv' /\ ContinuationInv' /\ QueuedInv' /\ PostedInv'
    BY <2>1 DEF DispatcherInv, ContinuationInv, QueuedInv, PostedInv, Ownership
  <2>5. ServedInv'
    BY <2>1, <2>2 DEF ServedInv, JobInv, Ownership, Threads, Writing
  <2>6. ParkedInv'
    BY <2>1, <2>2 DEF ParkedInv, Ownership, Threads
  <2> QED BY <2>3, <2>4, <2>5, <2>6 DEF Ownership
<1>2. CASE requestQueue # <<>>
  <2> DEFINE first == requestQueue[1]
  <2>1. /\ pc[w] = "process" /\ pc' = [pc EXCEPT ![w] = "method"]
        /\ job' = [job EXCEPT ![w] = Head(requestQueue)]
        /\ heap' = [heap EXCEPT ![Head(requestQueue).tag] = "serving"]
        /\ requestQueue' = PopFront(requestQueue)
        /\ UNCHANGED <<dpc, dcall, dtag, continuations, pipeContinuations,
                       responsePipe>>
    BY <1>2 DEF PopRequest, dispatcherVars, responseVars
  <2>2. /\ Head(requestQueue) = first /\ first \in Jobs
        /\ Len(requestQueue) \in Nat \ {0} /\ 1 \in 1..Len(requestQueue)
        /\ Len(requestQueue') = Len(requestQueue) - 1
        /\ \A i \in 1..(Len(requestQueue) - 1) :
             /\ requestQueue'[i] = requestQueue[i + 1]
             /\ i + 1 \in 1..Len(requestQueue) /\ i + 1 # 1
    BY <1>2, <2>1, OwnTypes, PopFrontFacts
  <2>3. /\ first.tag \in Tags /\ first # NoJob /\ heap[first.tag] = "queued"
        /\ \A i \in 2..Len(requestQueue) : requestQueue[i].tag # first.tag
    BY <2>2, JobFacts DEF Ownership, QueuedInv
  <2>4. /\ \A th \in Threads : th # w => pc'[th] = pc[th] /\ job'[th] = job[th]
        /\ pc'[w] = "method" /\ job'[w] = first /\ job[w] = NoJob
        /\ \A t \in Tags : t # first.tag => heap'[t] = heap[t]
        /\ heap'[first.tag] = "serving"
        /\ w \in Threads /\ w \notin Tags
    BY <2>1, <2>2, <2>3, OwnTypes DEF Threads, Ownership, JobInv, Writing
  <2> HIDE DEF first
  <2>5. JobInv'
    BY <2>3, <2>4 DEF JobInv, Ownership, Threads, WorkerPcs, Writing
  <2>6. DispatcherInv'
    BY <2>1, <2>3, <2>4, OwnTypes DEF DispatcherInv, Ownership, LaterStages, Stages
  <2>7. ContinuationInv'
    BY <2>1, <2>3, <2>4 DEF ContinuationInv, Ownership, LaterStages, Stages
  <2>8. QueuedInv'
    <3>1. \A i \in 1..Len(requestQueue') :
            /\ requestQueue'[i] = requestQueue[i + 1] /\ i + 1 \in 1..Len(requestQueue)
            /\ requestQueue'[i].tag # first.tag /\ requestQueue'[i].tag \in Tags
      BY <2>2, <2>3, OwnTypes, JobFacts
    <3>2. \A i \in 1..Len(requestQueue') : heap'[requestQueue'[i].tag] = "queued"
      BY <2>4, <3>1 DEF QueuedInv, Ownership
    <3>3. ASSUME NEW i \in 1..Len(requestQueue'), NEW j \in 1..Len(requestQueue'),
                 requestQueue'[i].tag = requestQueue'[j].tag
          PROVE  i = j
      <4>1. i + 1 = j + 1
        BY <3>1, <3>3 DEF QueuedInv, Ownership
      <4> QED BY <2>2, <4>1
    <3> QED BY <3>2, <3>3 DEF QueuedInv
  <2>9. ServedInv'
    BY <2>3, <2>4, OwnTypes, JobFacts DEF ServedInv, JobInv, Ownership, Threads
  <2>10. ParkedInv'
    BY <2>1, <2>3, <2>4, OwnTypes, JobFacts DEF ParkedInv, Ownership, Threads
  <2>11. PostedInv'
    BY <2>1, <2>3, <2>4, OwnTypes DEF PostedInv, Ownership
  <2> QED BY <2>5, <2>6, <2>7, <2>8, <2>9, <2>10, <2>11 DEF Ownership
<1> QED BY <1>1, <1>2

\* A worker parks its job under a new Tag, and the helper of that Tag starts.
LEMMA OwnDeferAnswer ==
  ASSUME TypeOK, Ownership, NEW w \in Workers, DeferAnswer(w)
  PROVE  Ownership'
<1>1. PICK u \in Tags :
        /\ heap[u] = "free"
        /\ heap' = [heap EXCEPT ![u] = "user", ![job[w].tag] = "parked"]
        /\ pipeContinuations' = [pipeContinuations EXCEPT ![u] = job[w]]
        /\ pc' = [pc EXCEPT ![w] = "loop", ![u] = "method"]
  BY DEF DeferAnswer, Park
<1>2. /\ pc[w] = "method" /\ job' = [job EXCEPT ![w] = NoJob]
      /\ UNCHANGED <<dpc, dcall, dtag, requestQueue, continuations,
                     responsePipe>>
  BY DEF DeferAnswer, dispatcherVars, requestVars, responseVars
<1>3. /\ job[w] # NoJob /\ job[w] \in Jobs /\ job[w].tag \in Tags
      /\ heap[job[w].tag] = "serving" /\ job[w].tag # u
      /\ w \in Threads /\ u \in Threads /\ w \notin Tags /\ w # u
  BY <1>1, <1>2, OwnTypes, JobFacts DEF Ownership, JobInv, ServedInv, Threads, Writing
<1>4. /\ \A t \in Tags : t # u /\ t # job[w].tag => heap'[t] = heap[t]
      /\ heap'[u] = "user" /\ heap'[job[w].tag] = "parked"
      /\ \A th \in Threads : th # w /\ th # u => pc'[th] = pc[th]
      /\ pc'[w] = "loop" /\ pc'[u] = "method"
      /\ \A th \in Threads : th # w => job'[th] = job[th]
      /\ job'[w] = NoJob
      /\ \A v \in Tags : v # u => pipeContinuations'[v] = pipeContinuations[v]
      /\ pipeContinuations'[u] = job[w]
  BY <1>1, <1>2, <1>3, OwnTypes
<1>5. pc[u] = "none" /\ pipeContinuations[u] = NoJob /\ job[u] = NoJob
  BY <1>1 DEF Ownership, ParkedInv, JobInv
<1>6. JobInv'
  BY <1>3, <1>4, <1>5 DEF JobInv, Ownership, Threads, WorkerPcs, HelperPcs, Writing
<1>7. DispatcherInv'
  BY <1>1, <1>2, <1>3, <1>4, OwnTypes DEF DispatcherInv, Ownership, LaterStages, Stages
<1>8. ContinuationInv'
  BY <1>1, <1>2, <1>3, <1>4, ZenonT(60) DEF ContinuationInv, Ownership, LaterStages, Stages
<1>9. QueuedInv'
  BY <1>1, <1>2, <1>3, <1>4, OwnTypes, JobFacts DEF QueuedInv, Ownership
<1>10. ServedInv'
  <2>1. \A th \in Threads : th # w /\ job[th] # NoJob =>
          /\ job[th].tag \in Tags /\ job[th].tag # u /\ job[th].tag # job[w].tag
          /\ th # u
    BY <1>1, <1>3, <1>5, OwnTypes, JobFacts DEF ServedInv, Ownership
  <2>2. \A th \in Threads : th # w /\ job[th] # NoJob =>
          heap'[job[th].tag] = heap[job[th].tag] /\ pc'[th] = pc[th]
    BY <1>4, <2>1
  <2> QED BY <1>3, <1>4, <2>2 DEF ServedInv, Ownership
<1>11. ParkedInv'
  BY <1>1, <1>3, <1>4, <1>5, OwnTypes, JobFacts DEF ParkedInv, Ownership, Threads
<1>12. PostedInv'
  BY <1>1, <1>2, <1>3, <1>4, OwnTypes, JobFacts DEF PostedInv, Ownership
<1> QED BY <1>6, <1>7, <1>8, <1>9, <1>10, <1>11, <1>12 DEF Ownership

\* A signal moves no Tag.
LEMMA OwnEmitSignal ==
  ASSUME TypeOK, Ownership, NEW th \in Threads, NEW s \in Signals,
         EmitSignal(th, s)
  PROVE  Ownership'
<1>1. /\ pc[th] = "method" /\ pc' = [pc EXCEPT ![th] = "writeSignal"]
      /\ UNCHANGED <<dpc, dcall, dtag, requestQueue, job, continuations,
                     pipeContinuations, heap, responsePipe>>
  BY DEF EmitSignal, Post, dispatcherVars, requestVars
<1>2. /\ \A other \in Threads : other # th => pc'[other] = pc[other]
      /\ pc'[th] = "writeSignal"
  BY <1>1, OwnTypes
<1>3. JobInv'
  BY <1>1, <1>2 DEF JobInv, Ownership, Threads, WorkerPcs, HelperPcs, Writing
<1>4. DispatcherInv' /\ ContinuationInv' /\ QueuedInv' /\ PostedInv'
  BY <1>1 DEF DispatcherInv, ContinuationInv, QueuedInv, PostedInv, Ownership
<1>5. ServedInv'
  BY <1>1, <1>2 DEF ServedInv, Ownership, Threads
<1>6. ParkedInv'
  BY <1>1, <1>2 DEF ParkedInv, Ownership, Threads
<1> QED BY <1>3, <1>4, <1>5, <1>6 DEF Ownership

\* The Tag of a job is marked as posted, and the thread is at its write.
LEMMA OwnPostResponse ==
  ASSUME TypeOK, Ownership, NEW th \in Threads, PostResponse(th)
  PROVE  Ownership'
<1>1. /\ \/ th \in Workers /\ pc[th] = "method"
         \/ pc[th] = "answer"
      /\ pc' = [pc EXCEPT ![th] = "writeReply"]
      /\ heap' = [heap EXCEPT ![job[th].tag] = "posted"]
      /\ UNCHANGED <<dpc, dcall, dtag, requestQueue, job, continuations,
                     pipeContinuations, responsePipe>>
  BY DEF PostResponse, Post, dispatcherVars, requestVars
<1>2. th \in Workers \/ th \in Tags
  BY DEF Threads
<1>3. /\ job[th] # NoJob /\ job[th] \in Jobs /\ job[th].tag \in Tags
      /\ heap[job[th].tag] = "serving"
  BY <1>1, <1>2, OwnTypes, JobFacts, SMTT(30) DEF Ownership, JobInv, ServedInv, WorkerPcs, HelperPcs, Writing
<1>4. /\ \A other \in Threads : other # th => pc'[other] = pc[other]
      /\ pc'[th] = "writeReply"
      /\ \A t \in Tags : t # job[th].tag => heap'[t] = heap[t]
      /\ heap'[job[th].tag] = "posted"
  BY <1>1, <1>3, OwnTypes
<1>5. JobInv'
  BY <1>1, <1>2, <1>3, <1>4 DEF JobInv, Ownership, Threads, WorkerPcs, HelperPcs, Writing
<1>6. DispatcherInv'
  BY <1>1, <1>3, <1>4, OwnTypes DEF DispatcherInv, Ownership, LaterStages, Stages
<1>7. ContinuationInv'
  BY <1>1, <1>3, <1>4 DEF ContinuationInv, Ownership, LaterStages, Stages
<1>8. QueuedInv'
  BY <1>1, <1>3, <1>4, OwnTypes, JobFacts DEF QueuedInv, Ownership
<1>9. ServedInv'
  BY <1>1, <1>3, <1>4, OwnTypes, JobFacts DEF ServedInv, Ownership
<1>10. ParkedInv'
  BY <1>1, <1>2, <1>3, <1>4, OwnTypes, JobFacts DEF ParkedInv, Ownership, Threads
<1>11. PostedInv'
  BY <1>1, <1>3, <1>4, OwnTypes DEF PostedInv, Ownership
<1> QED BY <1>5, <1>6, <1>7, <1>8, <1>9, <1>10, <1>11 DEF Ownership

\* The Tag passes from the thread to the pipe.
LEMMA OwnWriteFrame ==
  ASSUME TypeOK, Ownership, NEW th \in Threads, WriteFrame(th)
  PROVE  Ownership'
<1>0. /\ pc[th] \in Writing /\ (th \in Workers \/ th \in Tags)
      /\ UNCHANGED <<dpc, dcall, dtag, requestQueue, heap, continuations,
                     pipeContinuations>>
  BY DEF WriteFrame, Threads, dispatcherVars, requestVars, tagVars
<1>1. CASE pc[th] = "writeSignal"
  <2>1. /\ pc' = [pc EXCEPT ![th] = "method"] /\ job' = job
        /\ responsePipe' = Append(responsePipe, Null)
    BY <1>1 DEF WriteFrame
  <2>2. /\ \A other \in Threads : other # th => pc'[other] = pc[other]
        /\ pc'[th] = "method"
        /\ Len(responsePipe) \in Nat /\ Len(responsePipe') = Len(responsePipe) + 1
        /\ \A i \in 1..Len(responsePipe) : responsePipe'[i] = responsePipe[i]
        /\ responsePipe'[Len(responsePipe) + 1] = Null
    BY <2>1, OwnTypes, AppendFacts
  <2>3. JobInv'
    BY <1>0, <1>1, <2>1, <2>2 DEF JobInv, Ownership, Threads, WorkerPcs, HelperPcs, Writing
  <2>4. DispatcherInv' /\ ContinuationInv' /\ QueuedInv'
    BY <1>0 DEF DispatcherInv, ContinuationInv, QueuedInv, Ownership
  <2>5. ServedInv'
    BY <1>0, <1>1, <2>1, <2>2 DEF ServedInv, Ownership, Threads
  <2>6. ParkedInv'
    BY <1>0, <1>1, <2>1, <2>2 DEF ParkedInv, Ownership, Threads
  <2>7. PostedInv'
    <3>1. \A i \in 1..Len(responsePipe') :
            responsePipe'[i] # Null => i \in 1..Len(responsePipe)
      BY <2>2
    <3> QED BY <1>0, <2>1, <2>2, <3>1 DEF PostedInv, Ownership
  <2> QED BY <2>3, <2>4, <2>5, <2>6, <2>7 DEF Ownership
<1>2. CASE pc[th] = "writeReply"
  <2>1. /\ pc' = [pc EXCEPT ![th] = IF th \in Workers THEN "loop" ELSE "delete"]
        /\ job' = [job EXCEPT ![th] = NoJob]
        /\ responsePipe' = Append(responsePipe, job[th].tag)
    BY <1>2 DEF WriteFrame
  <2>2. /\ job[th] # NoJob /\ job[th] \in Jobs /\ job[th].tag \in Tags
        /\ heap[job[th].tag] = "posted"
    BY <1>0, <1>2, OwnTypes, JobFacts DEF Ownership, JobInv, ServedInv, Writing
  <2>3. /\ \A other \in Threads : other # th => pc'[other] = pc[other] /\ job'[other] = job[other]
        /\ pc'[th] = IF th \in Workers THEN "loop" ELSE "delete"
        /\ job'[th] = NoJob
    BY <2>1, OwnTypes
  <2>4. /\ Len(responsePipe) \in Nat /\ Len(responsePipe') = Len(responsePipe) + 1
        /\ \A i \in 1..Len(responsePipe) : responsePipe'[i] = responsePipe[i]
        /\ responsePipe'[Len(responsePipe) + 1] = job[th].tag
    BY <2>1, <2>2, OwnTypes, AppendFacts
  <2>5. JobInv'
    BY <1>0, <2>1, <2>3 DEF JobInv, Ownership, Threads, WorkerPcs, HelperPcs, Writing
  <2>6. DispatcherInv' /\ ContinuationInv' /\ QueuedInv'
    BY <1>0 DEF DispatcherInv, ContinuationInv, QueuedInv, Ownership
  <2>7. ServedInv'
    BY <1>0, <2>3 DEF ServedInv, Ownership, Threads
  <2>8. ParkedInv'
    BY <1>0, <1>2, <2>3 DEF ParkedInv, Ownership, Threads
  <2>9. PostedInv'
    <3>1. \A other \in Threads : other # th => job[other].tag # job[th].tag
      BY <2>2, JobFacts, OwnTypes DEF ServedInv, Ownership
    <3>2. \A i \in 1..Len(responsePipe) : responsePipe[i] # job[th].tag
      BY <2>2, JobFacts DEF PostedInv, Ownership
    <3>3. \A i \in 1..Len(responsePipe') :
            \/ i \in 1..Len(responsePipe)
            \/ i = Len(responsePipe) + 1 /\ responsePipe'[i] = job[th].tag
      BY <2>4
    <3>4. \A other \in Threads : job'[other].tag # job[th].tag
      BY <2>2, <2>3, <3>1, JobFacts
    <3>5. \A i \in 1..Len(responsePipe) : responsePipe[i] # Null =>
            \A other \in Threads : job'[other].tag # responsePipe[i]
      BY <2>3, JobFacts DEF PostedInv, Ownership
    <3>6. \A i, j \in 1..Len(responsePipe') :
            responsePipe'[i] # Null /\ responsePipe'[j] = responsePipe'[i] => i = j
      BY <2>4, <3>2, <3>3 DEF PostedInv, Ownership
    <3>7. \A i \in 1..Len(responsePipe') : responsePipe'[i] # Null =>
            heap[responsePipe'[i]] = "posted"
      BY <2>2, <2>4, <3>3 DEF PostedInv, Ownership
    <3>8. \A i \in 1..Len(responsePipe') : responsePipe'[i] # Null =>
            \A other \in Threads : job'[other].tag # responsePipe'[i]
      BY <2>4, <3>3, <3>4, <3>5
    <3> QED BY <1>0, <3>6, <3>7, <3>8 DEF PostedInv
  <2> QED BY <2>5, <2>6, <2>7, <2>8, <2>9 DEF Ownership
<1> QED BY <1>0, <1>1, <1>2 DEF Writing

\* The parked job passes to the helper.
LEMMA OwnTakeContinuation ==
  ASSUME TypeOK, Ownership, NEW u \in Tags, TakeContinuation(u)
  PROVE  Ownership'
<1> DEFINE taken == pipeContinuations[u]
<1>1. /\ pc[u] = "found" /\ taken # NoJob
      /\ job' = [job EXCEPT ![u] = taken]
      /\ heap' = [heap EXCEPT ![taken.tag] = "serving"]
      /\ pipeContinuations' = [pipeContinuations EXCEPT ![u] = NoJob]
      /\ pc' = [pc EXCEPT ![u] = "answer"]
      /\ UNCHANGED <<dpc, dcall, dtag, requestQueue, continuations, responsePipe>>
  BY DEF TakeContinuation, dispatcherVars, requestVars, responseVars
<1>2. /\ taken \in Jobs /\ taken.tag \in Tags /\ heap[taken.tag] = "parked"
      /\ u \in Threads /\ u \notin Workers
  BY <1>1, OwnTypes, JobFacts DEF Ownership, ParkedInv, Threads
<1> HIDE DEF taken
<1>3. /\ \A th \in Threads : th # u => pc'[th] = pc[th] /\ job'[th] = job[th]
      /\ pc'[u] = "answer" /\ job'[u] = taken
      /\ \A t \in Tags : t # taken.tag => heap'[t] = heap[t]
      /\ heap'[taken.tag] = "serving"
      /\ \A v \in Tags : v # u => pipeContinuations'[v] = pipeContinuations[v]
      /\ pipeContinuations'[u] = NoJob
  BY <1>1, <1>2, OwnTypes
<1>4. JobInv'
  BY <1>1, <1>2, <1>3 DEF JobInv, Ownership, Threads, HelperPcs, Writing
<1>5. DispatcherInv'
  BY <1>1, <1>2, <1>3, OwnTypes DEF DispatcherInv, Ownership, LaterStages, Stages
<1>6. ContinuationInv'
  BY <1>1, <1>2, <1>3 DEF ContinuationInv, Ownership, LaterStages, Stages
<1>7. QueuedInv'
  BY <1>1, <1>2, <1>3, OwnTypes, JobFacts DEF QueuedInv, Ownership
<1>8. ServedInv'
  BY <1>2, <1>3, OwnTypes, JobFacts DEF ServedInv, Ownership
<1>9. ParkedInv'
  <2>1. \A v \in Tags : v # u /\ pipeContinuations[v] # NoJob =>
          /\ pipeContinuations[v].tag # taken.tag
          /\ pipeContinuations[v].tag \in Tags
    BY <1>1, OwnTypes, JobFacts DEF ParkedInv, Ownership, taken
  <2> QED BY <1>1, <1>2, <1>3, <2>1, OwnTypes, JobFacts DEF ParkedInv, Ownership, Threads
<1>10. PostedInv'
  BY <1>1, <1>2, <1>3, OwnTypes DEF PostedInv, Ownership
<1> QED BY <1>4, <1>5, <1>6, <1>7, <1>8, <1>9, <1>10 DEF Ownership

\* A helper that has found its call goes on; nothing moves.
LEMMA OwnFindCall ==
  ASSUME TypeOK, Ownership, NEW u \in Tags, FindCall(u)
  PROVE  Ownership'
<1>1. /\ pc[u] = "method" /\ pc' = [pc EXCEPT ![u] = "found"]
      /\ UNCHANGED <<dpc, dcall, dtag, requestQueue, job, continuations,
                     pipeContinuations, heap, responsePipe>>
  BY DEF FindCall, dispatcherVars, requestVars, responseVars, tagVars
<1>2. /\ \A th \in Threads : th # u => pc'[th] = pc[th]
      /\ pc'[u] = "found" /\ u \notin Workers
  BY <1>1, OwnTypes DEF Threads
<1>3. JobInv'
  BY <1>1, <1>2 DEF JobInv, Ownership, Threads, HelperPcs, Writing
<1>4. DispatcherInv' /\ ContinuationInv' /\ QueuedInv' /\ PostedInv'
  BY <1>1 DEF DispatcherInv, ContinuationInv, QueuedInv, PostedInv, Ownership
<1>5. ServedInv'
  BY <1>1, <1>2 DEF ServedInv, Ownership, Threads
<1>6. ParkedInv'
  BY <1>1, <1>2 DEF ParkedInv, Ownership, Threads
<1> QED BY <1>3, <1>4, <1>5, <1>6 DEF Ownership

\* A new Tag enters the request queue.
LEMMA OwnDeliver ==
  ASSUME TypeOK, Ownership, NEW c \in Calls, Deliver(c)
  PROVE  Ownership'
<1>1. PICK t \in Tags :
        /\ heap[t] = "free"
        /\ heap' = [heap EXCEPT ![t] = "queued"]
        /\ requestQueue' = Append(requestQueue, [call |-> c, tag |-> t])
        /\ dtag' = t
  BY DEF Deliver
<1>2. /\ dpc = "iterate" /\ dpc' = "write" /\ dcall' = c
      /\ UNCHANGED <<pc, job, continuations, pipeContinuations, responsePipe>>
  BY DEF Deliver, threadVars, responseVars
<1> DEFINE new == [call |-> c, tag |-> t]
<1>3. /\ \A a \in Tags : a # t => heap'[a] = heap[a]
      /\ heap'[t] = "queued"
      /\ new.tag = t
      /\ Len(requestQueue) \in Nat /\ Len(requestQueue') = Len(requestQueue) + 1
      /\ \A i \in 1..Len(requestQueue) : requestQueue'[i] = requestQueue[i]
      /\ requestQueue'[Len(requestQueue) + 1] = new
  <2>1. new \in Jobs
    BY DEF Jobs
  <2> HIDE DEF new
  <2>2. requestQueue' = Append(requestQueue, new)
    BY <1>1 DEF new
  <2>3. requestQueue \in Seq(Jobs) /\ heap \in [Tags -> Stages]
    BY OwnTypes
  <2>4. /\ Len(requestQueue) \in Nat /\ Len(requestQueue') = Len(requestQueue) + 1
        /\ \A i \in 1..Len(requestQueue) : requestQueue'[i] = requestQueue[i]
        /\ requestQueue'[Len(requestQueue) + 1] = new
    BY <2>1, <2>2, <2>3, AppendFacts
  <2> QED BY <1>1, <2>3, <2>4 DEF new
<1> HIDE DEF new
<1>4. \A i \in 1..Len(requestQueue) : requestQueue[i].tag \in Tags /\ requestQueue[i].tag # t
  BY <1>1, OwnTypes, JobFacts DEF QueuedInv, Ownership
<1>5. JobInv'
  BY <1>2 DEF JobInv, Ownership
<1>6. DispatcherInv'
  BY <1>1, <1>2, <1>3 DEF DispatcherInv, LaterStages, Stages
<1>7. ContinuationInv'
  BY <1>1, <1>2, <1>3 DEF ContinuationInv, Ownership, LaterStages, Stages
<1>8. QueuedInv'
  <2>1. \A i \in 1..Len(requestQueue') :
          \/ i \in 1..Len(requestQueue) /\ requestQueue'[i].tag # t
          \/ i = Len(requestQueue) + 1 /\ requestQueue'[i].tag = t
    BY <1>3, <1>4
  <2>2. \A i \in 1..Len(requestQueue') : heap'[requestQueue'[i].tag] = "queued"
    BY <1>3, <1>4, <2>1 DEF QueuedInv, Ownership
  <2>3. \A i, j \in 1..Len(requestQueue') :
          requestQueue'[i].tag = requestQueue'[j].tag => i = j
    BY <1>3, <2>1 DEF QueuedInv, Ownership
  <2> QED BY <2>2, <2>3 DEF QueuedInv
<1>9. ServedInv'
  BY <1>1, <1>2, <1>3, OwnTypes, JobFacts DEF ServedInv, Ownership
<1>10. ParkedInv'
  BY <1>1, <1>2, <1>3, OwnTypes, JobFacts DEF ParkedInv, Ownership
<1>11. PostedInv'
  BY <1>1, <1>2, <1>3, OwnTypes DEF PostedInv, Ownership
<1> QED BY <1>5, <1>6, <1>7, <1>8, <1>9, <1>10, <1>11 DEF Ownership

\* The continuation of the Tag the dispatcher has in hand is recorded.
LEMMA OwnRegister ==
  ASSUME TypeOK, Ownership, Register
  PROVE  Ownership'
<1>1. /\ dpc = "register" /\ dpc' = "iterate" /\ dtag' = Null
      /\ continuations' = [continuations EXCEPT ![dtag] = dcall]
      /\ UNCHANGED <<pc, job, heap, requestQueue, pipeContinuations, responsePipe>>
  BY DEF Register, threadVars, responseVars, requestVars
<1>2. dcall \in Calls /\ dcall # Null /\ dtag \in Tags /\ heap[dtag] \in LaterStages
  BY <1>1 DEF DispatcherInv, Ownership
<1>3. /\ \A t \in Tags : t # dtag => continuations'[t] = continuations[t]
      /\ continuations'[dtag] = dcall
  BY <1>1, <1>2, OwnTypes
<1>4. JobInv' /\ QueuedInv' /\ ServedInv' /\ ParkedInv' /\ PostedInv'
  BY <1>1 DEF JobInv, QueuedInv, ServedInv, ParkedInv, PostedInv, Ownership
<1>5. DispatcherInv'
  BY <1>1 DEF DispatcherInv
<1>6. ContinuationInv'
  BY <1>1, <1>2, <1>3 DEF ContinuationInv, Ownership
<1> QED BY <1>4, <1>5, <1>6 DEF Ownership

\* Steps of the dispatcher that move no Tag.
LEMMA OwnDispatcherIdle ==
  ASSUME TypeOK, Ownership, WriteRequest \/ Stop \/ HandleSignal
  PROVE  Ownership'
<1>1. /\ UNCHANGED <<pc, job, heap, requestQueue, continuations,
                     pipeContinuations, responsePipe>>
      /\ \/ dpc = "write" /\ dpc' = "register" /\ UNCHANGED <<dcall, dtag>>
         \/ /\ dpc \in StopPcs \cup {"iterate", "handle"}
            /\ dpc' \in StopPcs \cup {"iterate"}
            /\ dtag = Null \/ dpc # "handle"
            /\ dtag' \in {dtag, Null}
  <2>1. CASE WriteRequest
    BY <2>1 DEF WriteRequest, threadVars, responseVars, tagVars
  <2>2. CASE Stop
    BY <2>2 DEF Stop, StopPcs, StopPipe, requestVars, threadVars, responseVars, tagVars
  <2>3. CASE HandleSignal
    BY <2>3 DEF HandleSignal, EndHandler, StopPcs, StopPipe, requestVars, threadVars
  <2> QED BY <2>1, <2>2, <2>3
<1>2. \A pcd \in StopPcs : pcd \notin {"iterate", "write", "register", "handle"}
  BY DEF StopPcs, StopPipe
<1>3. JobInv' /\ QueuedInv' /\ ServedInv' /\ ParkedInv' /\ PostedInv'
  BY <1>1 DEF JobInv, QueuedInv, ServedInv, ParkedInv, PostedInv, Ownership
<1>4. DispatcherInv'
  BY <1>1, <1>2, OwnTypes DEF DispatcherInv, Ownership
<1>5. ContinuationInv'
  BY <1>1, <1>2 DEF ContinuationInv, Ownership
<1> QED BY <1>3, <1>4, <1>5 DEF Ownership

\* Steps that touch none of the variables of the invariant.
LEMMA OwnUnchanged ==
  ASSUME Ownership,
         UNCHANGED <<dpc, dcall, dtag, pc, job, heap, requestQueue,
                     continuations, pipeContinuations, responsePipe>>
  PROVE  Ownership'
BY DEF Ownership, JobInv, DispatcherInv, ContinuationInv, QueuedInv,
       ServedInv, ParkedInv, PostedInv

\* The first frame of the pipe goes to the dispatcher.
LEMMA OwnReadFrame ==
  ASSUME TypeOK, Ownership, ReadFrame
  PROVE  Ownership'
<1> DEFINE first == responsePipe[1]
<1>1. /\ dpc = "iterate" /\ dpc' = "handle" /\ responsePipe # <<>>
      /\ responsePipe' = Tail(responsePipe)
      /\ dtag' = Head(responsePipe)
      /\ heap' = [t \in Tags |-> IF t = Head(responsePipe) THEN "reply" ELSE heap[t]]
      /\ UNCHANGED <<pc, job, requestQueue, continuations, pipeContinuations>>
  BY DEF ReadFrame, threadVars, requestVars
<1>2. /\ Head(responsePipe) = first /\ first \in Tags \cup {Null}
      /\ Len(responsePipe) \in Nat \ {0} /\ 1 \in 1..Len(responsePipe)
      /\ Len(responsePipe') = Len(responsePipe) - 1
      /\ \A i \in 1..(Len(responsePipe) - 1) :
           /\ responsePipe'[i] = responsePipe[i + 1]
           /\ i + 1 \in 1..Len(responsePipe) /\ i + 1 # 1
  BY <1>1, OwnTypes, PopFrontFacts DEF PopFront
<1>3. /\ first # Null => heap[first] = "posted"
      /\ \A th \in Threads : first # Null => job[th].tag # first
      /\ \A i \in 2..Len(responsePipe) : first # Null => responsePipe[i] # first
  BY <1>2 DEF PostedInv, Ownership
<1> HIDE DEF first
<1>4. \A t \in Tags : heap'[t] = IF t = first THEN "reply" ELSE heap[t]
  BY <1>1, <1>2
<1>5. JobInv'
  BY <1>1 DEF JobInv, Ownership
<1>6. DispatcherInv'
  BY <1>1, <1>2, <1>4 DEF DispatcherInv
<1>7. ContinuationInv'
  BY <1>1, <1>2, <1>3, <1>4 DEF ContinuationInv, Ownership, LaterStages, Stages
<1>8. QueuedInv'
  BY <1>1, <1>2, <1>3, <1>4, OwnTypes, JobFacts DEF QueuedInv, Ownership
<1>9. ServedInv'
  BY <1>1, <1>2, <1>3, <1>4, OwnTypes, JobFacts DEF ServedInv, Ownership
<1>10. ParkedInv'
  BY <1>1, <1>2, <1>3, <1>4, OwnTypes, JobFacts DEF ParkedInv, Ownership
<1>11. PostedInv'
  <2>1. \A i \in 1..Len(responsePipe') :
          /\ responsePipe'[i] = responsePipe[i + 1] /\ i + 1 \in 1..Len(responsePipe)
          /\ responsePipe'[i] \in Tags \cup {Null}
          /\ responsePipe'[i] # Null => responsePipe'[i] # first
    BY <1>2, <1>3, OwnTypes
  <2>2. \A i \in 1..Len(responsePipe') : responsePipe'[i] # Null =>
          /\ heap'[responsePipe'[i]] = "posted"
          /\ \A th \in Threads : job[th].tag # responsePipe'[i]
    BY <1>4, <2>1 DEF PostedInv, Ownership
  <2>3. ASSUME NEW i \in 1..Len(responsePipe'), NEW j \in 1..Len(responsePipe'),
               responsePipe'[i] # Null, responsePipe'[j] = responsePipe'[i]
        PROVE  i = j
    <3>1. i + 1 = j + 1
      BY <2>1, <2>3 DEF PostedInv, Ownership
    <3> QED BY <1>2, <3>1
  <2> QED BY <1>1, <2>2, <2>3 DEF PostedInv
<1> QED BY <1>5, <1>6, <1>7, <1>8, <1>9, <1>10, <1>11 DEF Ownership

\* The Tag in hand is deleted together with its continuation.
LEMMA OwnHandleResponse ==
  ASSUME TypeOK, Ownership, HandleResponse
  PROVE  Ownership'
<1>1. /\ dpc = "handle" /\ dpc' \in {"iterate", "del_pipe"} /\ dtag # Null /\ dtag' = Null
      /\ heap' = [heap EXCEPT ![dtag] = "free"]
      /\ UNCHANGED <<pc, job, requestQueue, pipeContinuations, responsePipe>>
  BY DEF HandleResponse, EndHandler, requestVars, threadVars
<1>2. dtag \in Tags /\ heap[dtag] = "reply"
  BY <1>1, OwnTypes DEF DispatcherInv, Ownership
<1>3. /\ continuations[dtag] # Null /\ pipeContinuations[dtag] = NoJob
  BY <1>1, <1>2 DEF ContinuationInv, ParkedInv, Ownership, LaterStages, Stages
<1>4. continuations' = [continuations EXCEPT ![dtag] = Null]
  BY <1>3 DEF HandleResponse, Erase
<1>5. /\ \A t \in Tags : t # dtag => heap'[t] = heap[t] /\ continuations'[t] = continuations[t]
      /\ heap'[dtag] = "free" /\ continuations'[dtag] = Null
  BY <1>1, <1>2, <1>4, OwnTypes
<1>6. JobInv'
  BY <1>1 DEF JobInv, Ownership
<1>7. DispatcherInv'
  BY <1>1 DEF DispatcherInv
<1>8. ContinuationInv'
  BY <1>1, <1>2, <1>5 DEF ContinuationInv, Ownership, LaterStages
<1>9. QueuedInv'
  BY <1>1, <1>2, <1>5, OwnTypes, JobFacts DEF QueuedInv, Ownership
<1>10. ServedInv'
  BY <1>1, <1>2, <1>5, OwnTypes, JobFacts DEF ServedInv, Ownership
<1>11. ParkedInv'
  BY <1>1, <1>2, <1>5, OwnTypes, JobFacts DEF ParkedInv, Ownership
<1>12. PostedInv'
  BY <1>1, <1>2, <1>5, OwnTypes DEF PostedInv, Ownership
<1> QED BY <1>6, <1>7, <1>8, <1>9, <1>10, <1>11, <1>12 DEF Ownership

-----------------------------------------------------------------------------
(* The invariant and what follows from it.                                 *)

LEMMA OwnInit == Init => Ownership
<1> SUFFICES ASSUME Init PROVE Ownership OBVIOUS
<1>1. \A th \in Threads : pc[th] = (IF th \in Workers THEN "loop" ELSE "none") /\ job[th] = NoJob
  BY DEF Init
<1>2. \A t \in Tags : heap[t] = "free" /\ continuations[t] = Null /\ pipeContinuations[t] = NoJob
  BY DEF Init
<1>3. JobInv
  BY <1>1 DEF JobInv, Threads, WorkerPcs, HelperPcs, Writing
<1>4. DispatcherInv /\ QueuedInv /\ PostedInv
  BY DEF Init, DispatcherInv, QueuedInv, PostedInv
<1>5. ContinuationInv /\ ServedInv
  BY <1>1, <1>2 DEF ContinuationInv, ServedInv, LaterStages
<1>6. ParkedInv
  BY <1>1, <1>2 DEF ParkedInv, Threads
<1> QED BY <1>3, <1>4, <1>5, <1>6 DEF Ownership

LEMMA OwnNext == TypeOK /\ Ownership /\ [Next]_vars => Ownership'
<1> SUFFICES ASSUME TypeOK, Ownership, [Next]_vars PROVE Ownership' OBVIOUS
<1>1. UNCHANGED vars => Ownership'
  BY OwnUnchanged DEF vars, dispatcherVars, requestVars, threadVars, responseVars, tagVars
<1>2. Leave => Ownership'
  BY OwnUnchanged DEF Leave, requestVars, threadVars, responseVars, tagVars
<1>3. \A s \in Signals : EmitLocal(s) => Ownership'
  BY OwnUnchanged DEF EmitLocal, dispatcherVars, requestVars, threadVars, responseVars, tagVars
<1>4. \A th \in Threads : UseDeletedPipe(th) => Ownership'
  BY OwnUnchanged DEF UseDeletedPipe, dispatcherVars, requestVars, threadVars, responseVars, tagVars
<1>5. CASE Next
  BY ONLY TypeOK, Ownership, <1>1, <1>2, <1>3, <1>4, <1>5, StepCases,
     OwnDeliver, OwnRegister, OwnDispatcherIdle, OwnReadFrame, OwnHandleResponse,
     OwnWorkerLoop, OwnPopRequest, OwnDeferAnswer, OwnEmitSignal, OwnPostResponse,
     OwnWriteFrame, OwnFindCall, OwnTakeContinuation, OwnDeleteTag, Zenon
<1> QED BY <1>1, <1>5

\* The variables always have their types.  (Every step keeps them, given that
\* a thread that posts a response holds a job.)
THEOREM TypeCorrect == Spec => []TypeOK
<1>1. Init => TypeOK /\ Ownership
  BY TypeInit, OwnInit
<1>2. TypeOK /\ Ownership /\ [Next]_vars => TypeOK' /\ Ownership'
  BY TypeNext, OwnNext DEF Ownership
<1> QED BY <1>1, <1>2, PTL DEF Spec

\* At any time each Tag has exactly one owner among the request queue, the
\* threads, _pipe_continuations, the response pipe and the dispatcher.
THEOREM TagsHaveOneOwner == Spec => []Ownership
<1>1. Init => TypeOK /\ Ownership
  BY TypeInit, OwnInit
<1>2. TypeOK /\ Ownership /\ [Next]_vars => TypeOK' /\ Ownership'
  BY TypeNext, OwnNext DEF Ownership
<1> QED BY <1>1, <1>2, PTL DEF Spec

\* No response the dispatcher takes from the pipe is dropped for want of a
\* continuation, however early the worker or helper posted it.
THEOREM ResponsesAreSent == Spec => []ContinuationFound
<1>1. TypeOK /\ Ownership => ContinuationFound
  <2> SUFFICES ASSUME TypeOK, Ownership, dpc = "handle", dtag # Null
               PROVE  continuations[dtag] # Null /\ pipeContinuations[dtag] = NoJob
    BY DEF ContinuationFound
  <2>1. dtag \in Tags /\ heap[dtag] = "reply"
    BY OwnTypes DEF DispatcherInv, Ownership
  <2> QED BY <2>1 DEF ContinuationInv, ParkedInv, Ownership, LaterStages, Stages
<1> QED BY <1>1, TypeCorrect, TagsHaveOneOwner, PTL

\* Nothing reachable from a queue, a map, the pipe or a thread has been
\* deleted.
THEOREM NoDeletedTagIsHeld == Spec => []HeldTagsAreAllocated
<1>1. TypeOK /\ Ownership => HeldTagsAreAllocated
  <2> SUFFICES ASSUME TypeOK, Ownership PROVE HeldTagsAreAllocated OBVIOUS
  <2>1. \A i \in 1..Len(requestQueue) : heap[requestQueue[i].tag] # "free"
    BY DEF QueuedInv, Ownership
  <2>2. \A i \in 1..Len(responsePipe) :
          responsePipe[i] # Null => heap[responsePipe[i]] # "free"
    BY DEF PostedInv, Ownership
  <2>3. \A th \in Threads : job[th] # NoJob => heap[job[th].tag] # "free"
    BY DEF ServedInv, Ownership
  <2>4. \A u \in Tags : pipeContinuations[u] # NoJob =>
          heap[u] # "free" /\ heap[pipeContinuations[u].tag] # "free"
    BY DEF ParkedInv, Ownership
  <2>5. \A t \in Tags : continuations[t] # Null => heap[t] # "free"
    BY DEF ContinuationInv, LaterStages, Ownership
  <2>6. dtag # Null => heap[dtag] # "free"
    BY OwnTypes DEF DispatcherInv, LaterStages, Ownership
  <2> QED BY <2>1, <2>2, <2>3, <2>4, <2>5, <2>6 DEF HeldTagsAreAllocated
<1> QED BY <1>1, TypeCorrect, TagsHaveOneOwner, PTL

-----------------------------------------------------------------------------
(* What is sent, to whom and in which order. *)

\* The parts of TypeOK that the order needs.
LEMMA OrderTypes ==
  ASSUME TypeOK
  PROVE  /\ posted \in Seq(Calls \cup Signals) /\ sent \in Seq(Calls \cup Signals)
         /\ responseQueue \in Seq(Calls) /\ signalQueue \in Seq(Signals)
         /\ responsePipe \in Seq(Tags \cup {Null})
         /\ Len(posted) \in Nat /\ Len(sent) \in Nat /\ Len(responsePipe) \in Nat
         /\ Len(responseQueue) \in Nat /\ Len(signalQueue) \in Nat
         /\ \A i \in 1..Len(posted) : posted[i] \in Calls \cup Signals
         /\ accepted \in SUBSET Calls /\ emitted \in SUBSET Signals
         /\ replied \in [Calls -> Calls \cup {Null}]
BY DEF TypeOK

\* The calls of the later_tags are what they were before the step.
CallsKept == \A t \in Tags : heap[t] \in LaterStages => CallOf(t)' = CallOf(t)

\* A pair's Tag is a later_tag, so it stands for a call.
LEMMA PairFacts ==
  ASSUME TypeOK, Ownership, NEW pair \in Pairs, pair # NoJob
  PROVE  /\ pair \in Jobs /\ pair.tag \in Tags
         /\ heap[pair.tag] \in LaterStages /\ heap[pair.tag] # "reply"
<1>1. CASE \E i \in 1..Len(requestQueue) : pair = requestQueue[i]
  BY <1>1, OwnTypes, JobFacts DEF Ownership, QueuedInv, LaterStages, Stages
<1>2. CASE \E th \in Threads : pair = job[th]
  BY <1>2, OwnTypes, JobFacts DEF Ownership, ServedInv, LaterStages, Stages
<1>3. CASE \E u \in Tags : pair = pipeContinuations[u]
  BY <1>3, OwnTypes, JobFacts DEF Ownership, ParkedInv, LaterStages, Stages
<1> QED BY <1>1, <1>2, <1>3 DEF Pairs

\* A frame in the pipe or in a thread's hand is NULL or a later_tag.
LEMMA FrameFacts ==
  ASSUME TypeOK, Ownership
  PROVE  /\ \A i \in 1..Len(responsePipe) : responsePipe[i] # Null =>
              responsePipe[i] \in Tags /\ heap[responsePipe[i]] = "posted"
         /\ dpc = "handle" /\ dtag # Null => dtag \in Tags /\ heap[dtag] = "reply"
         /\ \A th \in Threads : pc[th] = "writeReply" =>
              /\ job[th] # NoJob /\ job[th] \in Jobs /\ job[th].tag \in Tags
              /\ job[th].tag # Null /\ heap[job[th].tag] = "posted"
<1>1. \A i \in 1..Len(responsePipe) : responsePipe[i] # Null =>
        responsePipe[i] \in Tags /\ heap[responsePipe[i]] = "posted"
  BY OwnTypes DEF Ownership, PostedInv
<1>2. dpc = "handle" /\ dtag # Null => dtag \in Tags /\ heap[dtag] = "reply"
  BY OwnTypes DEF Ownership, DispatcherInv
<1>3. ASSUME NEW th \in Threads, pc[th] = "writeReply"
      PROVE  /\ job[th] # NoJob /\ job[th] \in Jobs /\ job[th].tag \in Tags
             /\ job[th].tag # Null /\ heap[job[th].tag] = "posted"
  <2>1. job[th] # NoJob
    BY <1>3 DEF Ownership, JobInv, Threads, Writing
  <2> QED BY <1>3, <2>1, OwnTypes, JobFacts DEF Ownership, ServedInv
<1> QED BY <1>1, <1>2, <1>3

-----------------------------------------------------------------------------
(* Sequences: what a queue holds of the items that wait.                   *)

\* A new item goes to the end of its queue.
LEMMA HoldsPushed ==
  ASSUME NEW S, NEW T \in SUBSET S, NEW queue \in Seq(T), NEW items \in Seq(S),
         NEW x \in T, NEW first \in 1..(Len(items) + 1),
         \A k \in 1..Len(items) : items[k] # x,
         Holds(queue, T, items, first)
  PROVE  Holds(Append(queue, x), T, Append(items, x), first)
<1> DEFINE q == Append(queue, x)
           p == Append(items, x)
<1>1. /\ Len(queue) \in Nat /\ Len(q) = Len(queue) + 1
      /\ \A i \in 1..Len(queue) : q[i] = queue[i]
      /\ q[Len(queue) + 1] = x
  BY AppendFacts
<1>2. /\ Len(items) \in Nat /\ Len(p) = Len(items) + 1
      /\ \A k \in 1..Len(items) : p[k] = items[k]
      /\ p[Len(items) + 1] = x
  BY AppendFacts
<1> HIDE DEF q, p
<1>3. /\ \A k \in first..Len(p) : \/ k \in first..Len(items) /\ p[k] = items[k] /\ p[k] # x
                                  \/ k = Len(items) + 1 /\ p[k] = x
      /\ \A i \in 1..Len(q) : \/ i \in 1..Len(queue) /\ q[i] = queue[i]
                              \/ i = Len(queue) + 1 /\ q[i] = x
      /\ \A k \in first..Len(items) : k \in first..Len(p) /\ p[k] = items[k]
      /\ \A i \in 1..Len(queue) : i \in 1..Len(q)
      /\ Len(items) + 1 \in first..Len(p) /\ Len(queue) + 1 \in 1..Len(q)
      /\ first..Len(items) \subseteq 1..Len(items)
  BY <1>1, <1>2
<1>4. /\ \A i \in 1..Len(queue) : \E k \in first..Len(items) : items[k] = queue[i]
      /\ \A k \in first..Len(items) : items[k] \in T =>
           \E i \in 1..Len(queue) : queue[i] = items[k]
      /\ \A i, j \in 1..Len(queue) : i < j =>
           \A k, l \in first..Len(items) : items[k] = queue[i] /\ items[l] = queue[j] => k < l
  BY DEF Holds
<1>5. \A i \in 1..Len(queue) : queue[i] # x
  BY <1>3, <1>4
<1>6. \A i \in 1..Len(q) : \E k \in first..Len(p) : p[k] = q[i]
  BY <1>2, <1>3, <1>4
<1>7. ASSUME NEW k \in first..Len(p), p[k] \in T
      PROVE  \E i \in 1..Len(q) : q[i] = p[k]
  <2>1. CASE k \in first..Len(items) /\ p[k] = items[k]
    <3>1. PICK i \in 1..Len(queue) : queue[i] = items[k]
      BY <1>4, <1>7, <2>1
    <3> QED BY <1>1, <1>3, <2>1, <3>1
  <2>2. CASE p[k] = x
    BY <1>1, <1>3, <2>2
  <2> QED BY <1>3, <2>1, <2>2
<1>8. ASSUME NEW i \in 1..Len(q), NEW j \in 1..Len(q), i < j,
             NEW k \in first..Len(p), NEW l \in first..Len(p), p[k] = q[i], p[l] = q[j]
      PROVE  k < l
  <2>1. i \in 1..Len(queue) /\ q[i] = queue[i] /\ q[i] # x
    BY <1>1, <1>5, <1>8, SMTT(30)
  <2>2. k \in first..Len(items) /\ p[k] = items[k]
    BY <1>3, <1>8, <2>1
  <2>3. CASE j \in 1..Len(queue)
    <3>1. q[j] = queue[j] /\ q[j] # x
      BY <1>1, <1>5, <2>3
    <3>2. l \in first..Len(items) /\ p[l] = items[l]
      BY <1>3, <1>8, <3>1
    <3> QED BY <1>4, <1>8, <2>1, <2>2, <2>3, <3>1, <3>2, SMTT(30)
  <2>4. CASE j = Len(queue) + 1
    <3>1. p[l] = x
      BY <1>1, <1>8, <2>4
    <3>2. l = Len(items) + 1
      BY <1>3, <3>1
    <3> QED BY <1>2, <2>2, <3>2
  <2> QED BY <1>1, <2>3, <2>4
<1> QED BY <1>6, <1>7, <1>8 DEF Holds, q, p

\* A new item of another kind changes nothing for a queue.
LEMMA HoldsUntouched ==
  ASSUME NEW S, NEW T, NEW queue, NEW items \in Seq(S),
         NEW x \in S, NEW first \in 1..(Len(items) + 1),
         x \notin T, \A k \in 1..Len(items) : items[k] # x,
         Holds(queue, T, items, first)
  PROVE  Holds(queue, T, Append(items, x), first)
<1> DEFINE p == Append(items, x)
<1>1. /\ Len(items) \in Nat /\ Len(p) = Len(items) + 1
      /\ \A k \in 1..Len(items) : p[k] = items[k]
      /\ p[Len(items) + 1] = x
  BY AppendFacts
<1> HIDE DEF p
<1>2. /\ \A k \in first..Len(p) : \/ k \in first..Len(items) /\ p[k] = items[k] /\ p[k] # x
                                  \/ k = Len(items) + 1 /\ p[k] = x
      /\ \A k \in first..Len(items) : k \in first..Len(p) /\ p[k] = items[k] /\ p[k] # x
  BY <1>1
<1>3. /\ \A i \in 1..Len(queue) : \E k \in first..Len(items) : items[k] = queue[i]
      /\ \A k \in first..Len(items) : items[k] \in T =>
           \E i \in 1..Len(queue) : queue[i] = items[k]
      /\ \A i, j \in 1..Len(queue) : i < j =>
           \A k, l \in first..Len(items) : items[k] = queue[i] /\ items[l] = queue[j] => k < l
  BY DEF Holds
<1>4. \A i \in 1..Len(queue) : \E k \in first..Len(p) : p[k] = queue[i]
  BY <1>2, <1>3
<1>5. \A k \in first..Len(p) : p[k] \in T => \E i \in 1..Len(queue) : queue[i] = p[k]
  BY <1>2, <1>3
<1>6. \A i \in 1..Len(queue) : queue[i] # x
  BY <1>2, <1>3
<1>7. ASSUME NEW i \in 1..Len(queue), NEW j \in 1..Len(queue), i < j,
             NEW k \in first..Len(p), NEW l \in first..Len(p),
             p[k] = queue[i], p[l] = queue[j]
      PROVE  k < l
  <2>1. p[k] # x /\ p[l] # x
    BY <1>6, <1>7
  <2>2. k \in first..Len(items) /\ p[k] = items[k]
    BY <1>2, <2>1
  <2>3. l \in first..Len(items) /\ p[l] = items[l]
    BY <1>2, <2>1
  <2>4. items[k] = queue[i] /\ items[l] = queue[j]
    BY <1>7, <2>2, <2>3
  <2> QED BY <1>3, <1>7, <2>2, <2>3, <2>4
<1> QED BY <1>4, <1>5, <1>7 DEF Holds, p

\* When the next item is of its kind, a queue has it in front.
LEMMA HoldsPopped ==
  ASSUME NEW S, NEW T \in SUBSET S, NEW queue \in Seq(T), NEW items \in Seq(S),
         NEW first \in 1..Len(items), items[first] \in T,
         \A k, l \in 1..Len(items) : items[k] = items[l] => k = l,
         Holds(queue, T, items, first)
  PROVE  /\ queue # <<>> /\ Head(queue) = items[first]
         /\ Holds(PopFront(queue), T, items, first + 1)
<1>1. /\ \A i \in 1..Len(queue) : \E k \in first..Len(items) : items[k] = queue[i]
      /\ \A k \in first..Len(items) : items[k] \in T =>
           \E i \in 1..Len(queue) : queue[i] = items[k]
      /\ \A i, j \in 1..Len(queue) : i < j =>
           \A k, l \in first..Len(items) : items[k] = queue[i] /\ items[l] = queue[j] => k < l
  BY DEF Holds
<1>2. Len(queue) \in Nat /\ Len(items) \in Nat /\ first \in first..Len(items)
  OBVIOUS
<1>3. PICK i \in 1..Len(queue) : queue[i] = items[first]
  BY <1>1, <1>2
<1>4. i = 1
  <2> SUFFICES ASSUME 1 < i PROVE FALSE
    BY <1>2
  <2>1. 1 \in 1..Len(queue)
    BY <1>2
  <2>2. PICK k \in first..Len(items) : items[k] = queue[1]
    BY <1>1, <2>1
  <2>3. k < first
    BY <1>1, <1>2, <1>3, <2>1, <2>2
  <2> QED BY <1>2, <2>3
<1>5. /\ queue # <<>> /\ Head(queue) = items[first]
      /\ Len(PopFront(queue)) = Len(queue) - 1
      /\ \A n \in 1..(Len(queue) - 1) : PopFront(queue)[n] = queue[n + 1]
  <2>1. queue # <<>>
    BY <1>2, <1>3
  <2> QED BY <1>3, <1>4, <2>1, PopFrontFacts
<1> DEFINE rest == PopFront(queue)
<1> HIDE DEF rest
<1>6. /\ \A n \in 1..Len(rest) : /\ n + 1 \in 1..Len(queue) /\ rest[n] = queue[n + 1]
                                  /\ 1 < n + 1 /\ 1 \in 1..Len(queue)
      /\ \A n \in 1..Len(queue) : n # 1 => n - 1 \in 1..Len(rest) /\ rest[n - 1] = queue[n]
      /\ \A k \in (first + 1)..Len(items) : k \in first..Len(items) /\ k \in 1..Len(items)
                                              /\ k # first
  BY <1>2, <1>5 DEF rest
<1>7. ASSUME NEW n \in 1..Len(rest)
      PROVE  \E k \in (first + 1)..Len(items) : items[k] = rest[n]
  <2>1. PICK k \in first..Len(items) : items[k] = queue[n + 1]
    BY <1>1, <1>6
  <2>2. first < k
    BY <1>1, <1>2, <1>3, <1>4, <1>6, <2>1
  <2>3. k \in (first + 1)..Len(items)
    BY <1>2, <2>2
  <2>4. items[k] = rest[n]
    BY <1>6, <2>1
  <2> QED BY <2>3, <2>4
<1>8. ASSUME NEW k \in (first + 1)..Len(items), items[k] \in T
      PROVE  \E n \in 1..Len(rest) : rest[n] = items[k]
  <2>1. PICK n \in 1..Len(queue) : queue[n] = items[k]
    BY <1>1, <1>6, <1>8
  <2>2. n # 1
    BY <1>3, <1>4, <1>6, <2>1
  <2> QED BY <1>6, <2>1, <2>2
<1>9. ASSUME NEW n \in 1..Len(rest), NEW m \in 1..Len(rest), n < m,
             NEW k \in (first + 1)..Len(items), NEW l \in (first + 1)..Len(items),
             items[k] = rest[n], items[l] = rest[m]
      PROVE  k < l
  <2>1. /\ n + 1 < m + 1 /\ n + 1 \in 1..Len(queue) /\ m + 1 \in 1..Len(queue)
        /\ k \in first..Len(items) /\ l \in first..Len(items)
    BY <1>6, <1>9
  <2>2. items[k] = queue[n + 1] /\ items[l] = queue[m + 1]
    BY <1>6, <1>9
  <2> QED BY <1>1, <2>1, <2>2
<1>10. Holds(rest, T, items, first + 1)
  <2>1. \A n \in 1..Len(rest) : \E k \in (first + 1)..Len(items) : items[k] = rest[n]
    BY ONLY <1>7
  <2>2. \A k \in (first + 1)..Len(items) : items[k] \in T =>
          \E n \in 1..Len(rest) : rest[n] = items[k]
    BY ONLY <1>8
  <2>3. \A n, m \in 1..Len(rest) : n < m =>
          \A k, l \in (first + 1)..Len(items) : items[k] = rest[n] /\ items[l] = rest[m] => k < l
    BY ONLY <1>9
  <2> QED BY ONLY <2>1, <2>2, <2>3, Zenon DEF Holds
<1> QED BY <1>5, <1>10 DEF rest

\* When it is of another kind, the queue has nothing to lose.
LEMMA HoldsSkipped ==
  ASSUME NEW S, NEW T, NEW queue \in Seq(T), NEW items \in Seq(S),
         NEW first \in 1..Len(items), items[first] \notin T,
         Holds(queue, T, items, first)
  PROVE  Holds(queue, T, items, first + 1)
<1>1. /\ \A i \in 1..Len(queue) : \E k \in first..Len(items) : items[k] = queue[i]
      /\ \A k \in first..Len(items) : items[k] \in T =>
           \E i \in 1..Len(queue) : queue[i] = items[k]
      /\ \A i, j \in 1..Len(queue) : i < j =>
           \A k, l \in first..Len(items) : items[k] = queue[i] /\ items[l] = queue[j] => k < l
  BY DEF Holds
<1>2. /\ \A i \in 1..Len(queue) : queue[i] \in T
      /\ \A k \in first..Len(items) : k = first \/ k \in (first + 1)..Len(items)
      /\ \A k \in (first + 1)..Len(items) : k \in first..Len(items)
  OBVIOUS
<1>3. \A i \in 1..Len(queue) : \E k \in (first + 1)..Len(items) : items[k] = queue[i]
  BY <1>1, <1>2
<1> QED BY <1>1, <1>2, <1>3 DEF Holds

-----------------------------------------------------------------------------
(* What a step that keeps the calls of the Tags keeps of the order.        *)

\* Pairs that only move stay together.
LEMMA PairsMove ==
  ASSUME TypeOK, Ownership, PairsInv, CallsKept,
         \A pair \in Pairs' : pair \in Pairs \/ pair = NoJob
  PROVE  PairsInv'
<1> SUFFICES ASSUME NEW pair \in Pairs', pair # NoJob
             PROVE  pair.call = CallOf(pair.tag)'
  BY DEF PairsInv
<1>1. pair \in Pairs
  OBVIOUS
<1>2. pair.call = CallOf(pair.tag)
  BY <1>1 DEF PairsInv
<1> QED BY <1>1, <1>2, PairFacts DEF CallsKept

\* Tags that advance towards the dispatcher keep their calls apart.
LEMMA CallsAdvance ==
  ASSUME CallsInv, CallsKept, accepted \subseteq accepted',
         \A t \in Tags : heap'[t] \in LaterStages => heap[t] \in LaterStages,
         \A t \in Tags : heap'[t] \in {"queued", "serving", "parked"} =>
           /\ heap[t] \in {"queued", "serving", "parked"}
           /\ CallOf(t) \in Posted' => CallOf(t) \in Posted
  PROVE  CallsInv'
<1> SUFFICES ASSUME NEW t \in Tags, heap'[t] \in LaterStages
             PROVE  /\ CallOf(t)' \in accepted'
                    /\ \A u \in Tags : heap'[u] \in LaterStages
                                       /\ CallOf(u)' = CallOf(t)' => u = t
                    /\ heap'[t] \in {"queued", "serving", "parked"} =>
                         CallOf(t)' \notin Posted'
  BY DEF CallsInv
<1>1. heap[t] \in LaterStages /\ CallOf(t)' = CallOf(t)
  BY DEF CallsKept
<1>2. CallOf(t)' \in accepted'
  BY <1>1 DEF CallsInv
<1>3. ASSUME NEW u \in Tags, heap'[u] \in LaterStages, CallOf(u)' = CallOf(t)'
      PROVE  u = t
  <2>1. heap[u] \in LaterStages /\ CallOf(u)' = CallOf(u)
    BY <1>3 DEF CallsKept
  <2> QED BY <1>1, <1>3, <2>1 DEF CallsInv
<1>4. heap'[t] \in {"queued", "serving", "parked"} => CallOf(t)' \notin Posted'
  BY <1>1 DEF CallsInv
<1> QED BY <1>2, <1>3, <1>4

\* Nothing is posted and nothing sent.
LEMMA OrderStays ==
  ASSUME OnceInv, SentInv, QueuesInv,
         UNCHANGED <<posted, sent, responseQueue, signalQueue>>,
         accepted \subseteq accepted', emitted \subseteq emitted'
  PROVE  OnceInv' /\ SentInv' /\ QueuesInv' /\ Posted' = Posted
<1>1. Posted' = Posted
  BY DEF Posted
<1>2. OnceInv'
  BY <1>1 DEF OnceInv
<1>3. SentInv' /\ QueuesInv'
  BY DEF SentInv, QueuesInv
<1> QED BY <1>1, <1>2, <1>3

\* No frame moves.
LEMMA FramesStay ==
  ASSUME TypeOK, Ownership, FramesInv, CallsKept,
         UNCHANGED <<posted, sent, responsePipe>>,
         dpc' = "handle" <=> dpc = "handle",
         dpc = "handle" => dtag' = dtag,
         \A th \in Threads : pc[th] \in Writing \/ pc'[th] \in Writing =>
           pc'[th] = pc[th] /\ job'[th] = job[th]
  PROVE  FramesInv'
<1>1. PostMutexFree' = PostMutexFree /\ InHand' = InHand
  BY DEF PostMutexFree, InHand
<1>2. dpc = "handle" => Announces(dtag, posted[Len(sent) + 1])'
  BY FrameFacts DEF FramesInv, Announces, CallsKept, LaterStages, Stages
<1>3. ASSUME NEW i \in 1..Len(responsePipe)
      PROVE  Announces(responsePipe[i], posted[Len(sent) + InHand + i])'
  BY <1>1, FrameFacts DEF FramesInv, Announces, CallsKept, LaterStages, Stages
<1>4. ASSUME NEW th \in Threads, pc'[th] \in Writing
      PROVE  /\ Announces(FrameOf(th), posted[Len(posted)])'
             /\ \A other \in Threads : pc'[other] \in Writing => other = th
  <2>1. pc'[th] = pc[th] /\ job'[th] = job[th]
    BY <1>4
  <2>2. Announces(FrameOf(th), posted[Len(posted)])
    BY <1>4, <2>1 DEF FramesInv
  <2>3. FrameOf(th)' = FrameOf(th)
    BY <2>1 DEF FrameOf
  <2>4. FrameOf(th) = Null \/ (FrameOf(th) \in Tags /\ heap[FrameOf(th)] = "posted")
    BY <1>4, <2>1, FrameFacts DEF FrameOf, Writing
  <2>5. Announces(FrameOf(th), posted[Len(posted)])'
    BY <2>2, <2>3, <2>4 DEF Announces, CallsKept, LaterStages, Stages
  <2> QED BY <1>4, <2>1, <2>5 DEF FramesInv
<1> QED BY <1>1, <1>2, <1>3, <1>4 DEF FramesInv

\* Steps that post nothing, send nothing and move no frame.
LEMMA QuietStep ==
  ASSUME TypeOK, Ownership, OneOrder, CallsKept,
         UNCHANGED <<posted, sent, responseQueue, signalQueue, responsePipe>>,
         accepted \subseteq accepted', emitted \subseteq emitted',
         \A pair \in Pairs' : pair \in Pairs \/ pair = NoJob,
         \A t \in Tags : heap'[t] \in LaterStages => heap[t] \in LaterStages,
         \A t \in Tags : heap'[t] \in {"queued", "serving", "parked"} =>
                           heap[t] \in {"queued", "serving", "parked"},
         dpc' = "handle" <=> dpc = "handle",
         dpc = "handle" => dtag' = dtag,
         \A th \in Threads : pc[th] \in Writing \/ pc'[th] \in Writing =>
           pc'[th] = pc[th] /\ job'[th] = job[th]
  PROVE  OneOrder'
<1>1. OnceInv' /\ SentInv' /\ QueuesInv' /\ Posted' = Posted
  BY OrderStays DEF OneOrder
<1>2. PairsInv'
  BY PairsMove DEF OneOrder
<1>3. CallsInv'
  BY <1>1, CallsAdvance DEF OneOrder
<1>4. FramesInv'
  BY FramesStay DEF OneOrder
<1> QED BY <1>1, <1>2, <1>3, <1>4 DEF OneOrder

-----------------------------------------------------------------------------
(* The order: one lemma for each kind of step.                             *)

\* Steps that move neither Tags nor frames.
LEMMA OrderIdle ==
  ASSUME TypeOK, Ownership, OneOrder,
         UNCHANGED <<posted, sent, responseQueue, signalQueue, responsePipe,
                     accepted, dcall, dtag, continuations, requestQueue, job,
                     pipeContinuations, heap>>,
         emitted \subseteq emitted',
         dpc' \in {"write", "register"} <=> dpc \in {"write", "register"},
         dpc' = "handle" <=> dpc = "handle",
         \A th \in Threads : pc[th] \in Writing \/ pc'[th] \in Writing =>
           pc'[th] = pc[th]
  PROVE  OneOrder'
<1>1. CallsKept
  BY DEF CallsKept, CallOf
<1>2. Pairs' = Pairs
  BY DEF Pairs
<1> QED BY <1>1, <1>2, QuietStep

LEMMA OrderDispatcherIdle ==
  ASSUME TypeOK, Ownership, OneOrder,
         \/ WriteRequest \/ Leave \/ Stop \/ \E s \in Signals : EmitLocal(s)
  PROVE  OneOrder'
<1>1. CASE WriteRequest
  BY <1>1, OrderIdle DEF WriteRequest, threadVars, responseVars, tagVars, historyVars
<1>2. CASE Leave
  BY <1>2, OrderIdle DEF Leave, requestVars, threadVars, responseVars, tagVars, historyVars
<1>3. CASE Stop
  <2>1. /\ dpc \notin {"write", "register", "handle"}
        /\ dpc' \notin {"write", "register", "handle"}
    BY <1>3 DEF Stop, StopPipe
  <2> QED
    BY <1>3, <2>1, OrderIdle DEF Stop, requestVars, threadVars, responseVars, tagVars, historyVars
<1>4. ASSUME NEW s \in Signals, EmitLocal(s) PROVE OneOrder'
  BY <1>4, OrderIdle DEF EmitLocal, dispatcherVars, requestVars, threadVars, responseVars, tagVars
<1> QED BY <1>1, <1>2, <1>3, <1>4

LEMMA OrderThreadIdle ==
  ASSUME TypeOK, Ownership, OneOrder, NEW th \in Threads,
         \/ TestFd(th) \/ ReadByte(th) \/ ReadClosed(th)
         \/ UseDeletedPipe(th) \/ FindCall(th)
  PROVE  OneOrder'
<1>1. /\ \/ pc' = pc
         \/ /\ pc[th] \notin Writing
            /\ \E next \in ThreadPcs \ Writing : pc' = [pc EXCEPT ![th] = next]
      /\ UNCHANGED <<posted, sent, responseQueue, signalQueue, responsePipe,
                     accepted, emitted, dcall, dtag, dpc, continuations,
                     requestQueue, job, pipeContinuations, heap>>
  BY DEF TestFd, ReadByte, ReadClosed, UseDeletedPipe, FindCall, ThreadPcs, Writing,
         dispatcherVars, requestVars, threadVars, responseVars, tagVars, historyVars
<1>2. \A other \in Threads : pc[other] \in Writing \/ pc'[other] \in Writing =>
        pc'[other] = pc[other]
  BY <1>1, OwnTypes
<1> QED BY <1>1, <1>2, OrderIdle

\* A worker takes the first request.
LEMMA OrderPopRequest ==
  ASSUME TypeOK, Ownership, OneOrder, NEW w \in Workers, PopRequest(w)
  PROVE  OneOrder'
<1>1. /\ pc[w] = "process" /\ w \in Threads
      /\ UNCHANGED <<posted, sent, responseQueue, signalQueue, responsePipe,
                     accepted, emitted, dcall, dtag, dpc, continuations,
                     pipeContinuations>>
  BY DEF PopRequest, dispatcherVars, responseVars, historyVars, Threads
<1>2. CASE requestQueue = <<>>
  <2>1. pc' = [pc EXCEPT ![w] = "loop"] /\ UNCHANGED <<job, requestQueue, heap>>
    BY <1>2 DEF PopRequest
  <2>2. \A other \in Threads : pc[other] \in Writing \/ pc'[other] \in Writing =>
          pc'[other] = pc[other]
    BY <1>1, <2>1, OwnTypes DEF Writing
  <2> QED BY <1>1, <2>1, <2>2, OrderIdle
<1>3. CASE requestQueue # <<>>
  <2> DEFINE first == requestQueue[1]
  <2>1. /\ pc' = [pc EXCEPT ![w] = "method"]
        /\ job' = [job EXCEPT ![w] = Head(requestQueue)]
        /\ requestQueue' = PopFront(requestQueue)
        /\ heap' = [heap EXCEPT ![Head(requestQueue).tag] = "serving"]
    BY <1>3 DEF PopRequest
  <2>2. /\ Head(requestQueue) = first /\ first \in Jobs
        /\ Len(requestQueue) \in Nat \ {0} /\ 1 \in 1..Len(requestQueue)
        /\ Len(requestQueue') = Len(requestQueue) - 1
        /\ \A i \in 1..(Len(requestQueue) - 1) :
             requestQueue'[i] = requestQueue[i + 1] /\ i + 1 \in 1..Len(requestQueue)
    BY <1>3, <2>1, OwnTypes, PopFrontFacts
  <2>3. first.tag \in Tags /\ heap[first.tag] = "queued" /\ first \in Pairs
    BY <2>2, JobFacts DEF Ownership, QueuedInv, Pairs
  <2> HIDE DEF first
  <2>4. /\ \A t \in Tags : t # first.tag => heap'[t] = heap[t]
        /\ heap'[first.tag] = "serving"
        /\ \A th \in Threads : th # w => pc'[th] = pc[th] /\ job'[th] = job[th]
        /\ pc'[w] = "method" /\ job'[w] = first
    BY <1>1, <2>1, <2>2, <2>3, OwnTypes
  <2>5. \A pair \in Pairs' : pair \in Pairs
    <3>1. \A i \in 1..Len(requestQueue') : requestQueue'[i] \in Pairs
      BY <2>2 DEF Pairs
    <3>2. \A th \in Threads : job'[th] \in Pairs
      BY <2>3, <2>4 DEF Pairs
    <3>3. \A u \in Tags : pipeContinuations'[u] \in Pairs
      BY <1>1 DEF Pairs
    <3> QED BY <3>1, <3>2, <3>3 DEF Pairs
  <2>6. CallsKept
    BY <1>1 DEF CallsKept, CallOf
  <2>7. \A th \in Threads : pc[th] \in Writing \/ pc'[th] \in Writing =>
          pc'[th] = pc[th] /\ job'[th] = job[th]
    BY <1>1, <2>4 DEF Writing
  <2>8. \A t \in Tags : heap'[t] = heap[t] \/ (heap[t] = "queued" /\ heap'[t] = "serving")
    BY <2>3, <2>4
  <2> QED BY <1>1, <2>5, <2>6, <2>7, <2>8, QuietStep DEF LaterStages, Stages
<1> QED BY <1>2, <1>3

\* A worker parks its pair for a helper.
LEMMA OrderDeferAnswer ==
  ASSUME TypeOK, Ownership, OneOrder, NEW w \in Workers, DeferAnswer(w)
  PROVE  OneOrder'
<1>1. PICK u \in Tags :
        /\ heap[u] = "free"
        /\ heap' = [heap EXCEPT ![u] = "user", ![job[w].tag] = "parked"]
        /\ pipeContinuations' = [pipeContinuations EXCEPT ![u] = job[w]]
        /\ pc' = [pc EXCEPT ![w] = "loop", ![u] = "method"]
  BY DEF DeferAnswer, Park
<1>2. /\ pc[w] = "method" /\ w \in Threads /\ u \in Threads /\ w # u
      /\ job' = [job EXCEPT ![w] = NoJob]
      /\ UNCHANGED <<posted, sent, responseQueue, signalQueue, responsePipe,
                     accepted, emitted, dcall, dtag, dpc, continuations,
                     requestQueue>>
  BY DEF DeferAnswer, dispatcherVars, requestVars, responseVars, historyVars, Threads
<1>3. /\ job[w] # NoJob /\ heap[job[w].tag] = "serving" /\ pc[u] = "none"
  <2>1. job[w] # NoJob
    BY <1>2 DEF Ownership, JobInv
  <2>2. pc[u] = "none"
    BY <1>1 DEF Ownership, ParkedInv
  <2> QED BY <1>2, <2>1, <2>2 DEF Ownership, ServedInv
<1>4. /\ \A t \in Tags : \/ heap'[t] = heap[t]
                         \/ t = u /\ heap'[t] = "user"
                         \/ heap[t] = "serving" /\ heap'[t] = "parked"
      /\ \A th \in Threads : th \notin {w, u} => pc'[th] = pc[th]
      /\ pc'[w] = "loop" /\ pc'[u] = "method"
      /\ \A th \in Threads : th # w => job'[th] = job[th]
      /\ job'[w] = NoJob
      /\ \A v \in Tags : v # u => pipeContinuations'[v] = pipeContinuations[v]
      /\ pipeContinuations'[u] = job[w]
  BY <1>1, <1>2, <1>3, OwnTypes
<1>5. \A pair \in Pairs' : pair \in Pairs \/ pair = NoJob
  <2>1. \A th \in Threads : job'[th] \in Pairs \/ job'[th] = NoJob
    BY <1>2, <1>4 DEF Pairs
  <2>2. \A v \in Tags : pipeContinuations'[v] \in Pairs
    BY <1>2, <1>4 DEF Pairs
  <2> QED BY <1>2, <2>1, <2>2 DEF Pairs
<1>6. CallsKept
  BY <1>2 DEF CallsKept, CallOf
<1>7. \A th \in Threads : pc[th] \in Writing \/ pc'[th] \in Writing =>
        pc'[th] = pc[th] /\ job'[th] = job[th]
  BY <1>2, <1>3, <1>4 DEF Writing
<1> QED BY <1>2, <1>4, <1>5, <1>6, <1>7, QuietStep DEF LaterStages, Stages

\* A helper takes the pair that was parked for it.
LEMMA OrderTakeContinuation ==
  ASSUME TypeOK, Ownership, OneOrder, NEW u \in Tags, TakeContinuation(u)
  PROVE  OneOrder'
<1> DEFINE taken == pipeContinuations[u]
<1>1. /\ pc[u] = "found" /\ taken # NoJob
      /\ job' = [job EXCEPT ![u] = taken]
      /\ heap' = [heap EXCEPT ![taken.tag] = "serving"]
      /\ pipeContinuations' = [pipeContinuations EXCEPT ![u] = NoJob]
      /\ pc' = [pc EXCEPT ![u] = "answer"]
      /\ UNCHANGED <<posted, sent, responseQueue, signalQueue, responsePipe,
                     accepted, emitted, dcall, dtag, dpc, continuations,
                     requestQueue>>
  BY DEF TakeContinuation, dispatcherVars, requestVars, responseVars, historyVars
<1>2. /\ taken.tag \in Tags /\ heap[taken.tag] = "parked"
      /\ u \in Threads /\ taken \in Pairs
  BY <1>1, OwnTypes, JobFacts DEF Ownership, ParkedInv, Threads, Pairs
<1> HIDE DEF taken
<1>3. /\ \A t \in Tags : t # taken.tag => heap'[t] = heap[t]
      /\ heap'[taken.tag] = "serving"
      /\ \A th \in Threads : th # u => pc'[th] = pc[th] /\ job'[th] = job[th]
      /\ pc'[u] = "answer" /\ job'[u] = taken
      /\ \A v \in Tags : pipeContinuations'[v] \in {pipeContinuations[v], NoJob}
  BY <1>1, <1>2, OwnTypes
<1>4. \A pair \in Pairs' : pair \in Pairs \/ pair = NoJob
  BY <1>1, <1>2, <1>3 DEF Pairs
<1>5. CallsKept
  BY <1>1 DEF CallsKept, CallOf
<1>6. \A th \in Threads : pc[th] \in Writing \/ pc'[th] \in Writing =>
        pc'[th] = pc[th] /\ job'[th] = job[th]
  BY <1>1, <1>3 DEF Writing
<1>7. \A t \in Tags : heap'[t] = heap[t] \/ (heap[t] = "parked" /\ heap'[t] = "serving")
  BY <1>2, <1>3
<1> QED BY <1>1, <1>4, <1>5, <1>6, <1>7, QuietStep DEF LaterStages, Stages

\* A helper ends.
LEMMA OrderDeleteTag ==
  ASSUME TypeOK, Ownership, OneOrder, NEW u \in Tags, DeleteTag(u)
  PROVE  OneOrder'
<1>1. /\ pc[u] = "delete" /\ u \in Threads
      /\ heap' = [heap EXCEPT ![u] = "free"]
      /\ pc' = [pc EXCEPT ![u] = "none"]
      /\ UNCHANGED <<posted, sent, responseQueue, signalQueue, responsePipe,
                     accepted, emitted, dcall, dtag, dpc, continuations,
                     requestQueue, job, pipeContinuations>>
  BY DEF DeleteTag, dispatcherVars, requestVars, responseVars, historyVars, Threads
<1>2. /\ \A t \in Tags : heap'[t] = heap[t] \/ heap'[t] = "free"
      /\ \A th \in Threads : th # u => pc'[th] = pc[th]
      /\ pc'[u] = "none"
  BY <1>1, OwnTypes
<1>3. Pairs' = Pairs /\ CallsKept
  BY <1>1 DEF Pairs, CallsKept, CallOf
<1>4. \A th \in Threads : pc[th] \in Writing \/ pc'[th] \in Writing =>
        pc'[th] = pc[th] /\ job'[th] = job[th]
  BY <1>1, <1>2 DEF Writing
<1> QED BY <1>1, <1>2, <1>3, <1>4, QuietStep DEF LaterStages, Stages

\* The continuation that is recorded is that of the call in hand.
LEMMA OrderRegister ==
  ASSUME TypeOK, Ownership, OneOrder, Register
  PROVE  OneOrder'
<1>1. /\ dpc = "register" /\ dpc' = "iterate" /\ dtag' = Null
      /\ continuations' = [continuations EXCEPT ![dtag] = dcall]
      /\ UNCHANGED <<posted, sent, responseQueue, signalQueue, responsePipe,
                     accepted, emitted, requestQueue, job, pipeContinuations,
                     heap, pc>>
  BY DEF Register, requestVars, threadVars, responseVars, historyVars
<1>2. CallsKept
  BY <1>1, OwnTypes DEF CallsKept, CallOf
<1>3. Pairs' = Pairs
  BY <1>1 DEF Pairs
<1> QED BY <1>1, <1>2, <1>3, QuietStep

\* A new call gets a Tag of its own.
LEMMA OrderDeliver ==
  ASSUME TypeOK, Ownership, OneOrder, NEW c \in Calls, Deliver(c)
  PROVE  OneOrder'
<1>1. PICK t \in Tags :
        /\ heap[t] = "free"
        /\ heap' = [heap EXCEPT ![t] = "queued"]
        /\ requestQueue' = Append(requestQueue, [call |-> c, tag |-> t])
        /\ dtag' = t
  BY DEF Deliver
<1>2. /\ dpc = "iterate" /\ dpc' = "write" /\ dcall' = c
      /\ c \notin accepted /\ accepted' = accepted \cup {c}
      /\ UNCHANGED <<pc, job, continuations, pipeContinuations, responsePipe,
                     posted, sent, responseQueue, signalQueue, emitted>>
  BY DEF Deliver, threadVars, responseVars
<1>3. /\ \A a \in Tags : a # t => heap'[a] = heap[a]
      /\ heap'[t] = "queued"
      /\ t # Null /\ dtag = Null
  BY <1>1, <1>2, OwnTypes DEF Ownership, DispatcherInv
<1>4. CallsKept /\ CallOf(t)' = c
  BY <1>1, <1>2, <1>3 DEF CallsKept, CallOf, LaterStages
<1>5. OnceInv' /\ SentInv' /\ QueuesInv' /\ Posted' = Posted
  BY <1>2, OrderStays DEF OneOrder
<1>6. c \notin Posted
  BY <1>2, OrderTypes DEF OneOrder, OnceInv
<1>7. PairsInv'
  <2>1. [call |-> c, tag |-> t] \in Jobs
    BY DEF Jobs
  <2>2. \A pair \in Pairs' : pair \in Pairs \/ pair = [call |-> c, tag |-> t]
    <3>1. \A i \in 1..Len(requestQueue') :
            requestQueue'[i] \in Pairs \/ requestQueue'[i] = [call |-> c, tag |-> t]
      BY <1>1, <2>1, OwnTypes, AppendFacts DEF Pairs
    <3> QED BY <1>2, <3>1 DEF Pairs
  <2> SUFFICES ASSUME NEW pair \in Pairs', pair # NoJob
               PROVE  pair.call = CallOf(pair.tag)'
    BY DEF PairsInv
  <2>3. CASE pair \in Pairs
    BY <1>4, <2>3, PairFacts DEF PairsInv, OneOrder, CallsKept
  <2>4. CASE pair = [call |-> c, tag |-> t]
    BY <1>4, <2>4
  <2> QED BY <2>2, <2>3, <2>4
<1>8. CallsInv'
  <2>1. ASSUME NEW a \in Tags, heap'[a] \in LaterStages, a # t
        PROVE  /\ heap[a] \in LaterStages /\ CallOf(a)' = CallOf(a)
               /\ CallOf(a) \in accepted /\ heap'[a] = heap[a]
    BY <1>3, <1>4, <2>1 DEF CallsKept, CallsInv, OneOrder
  <2>2. ASSUME NEW a \in Tags, heap'[a] \in LaterStages
        PROVE  CallOf(a)' \in accepted'
    BY <1>2, <1>4, <2>1, <2>2
  <2>3. ASSUME NEW a \in Tags, NEW b \in Tags, heap'[a] \in LaterStages,
               heap'[b] \in LaterStages, CallOf(b)' = CallOf(a)'
        PROVE  b = a
    BY <1>2, <1>4, <2>1, <2>3 DEF CallsInv, OneOrder
  <2>4. ASSUME NEW a \in Tags, heap'[a] \in {"queued", "serving", "parked"}
        PROVE  CallOf(a)' \notin Posted'
    <3>1. heap'[a] \in LaterStages
      BY <2>4 DEF LaterStages, Stages
    <3>2. CASE a = t
      BY <1>4, <1>5, <1>6, <3>2
    <3>3. CASE a # t
      BY <1>5, <2>1, <2>4, <3>1, <3>3 DEF CallsInv, OneOrder
    <3> QED BY <3>2, <3>3
  <2> QED BY <2>2, <2>3, <2>4 DEF CallsInv
<1>9. FramesInv'
  BY <1>2, <1>4, FramesStay DEF OneOrder
<1> QED BY <1>5, <1>7, <1>8, <1>9 DEF OneOrder

-----------------------------------------------------------------------------
(* Posting and writing.                                                    *)

\* A thread posts an event and takes the mutex to write the event's frame.
LEMMA OrderPost ==
  ASSUME TypeOK, Ownership, OneOrder,
         NEW th \in Threads, NEW next \in Writing, NEW event \in Calls \cup Signals,
         Post(th, next, event),
         event \notin Posted, event \in accepted' \cup emitted',
         emitted \subseteq emitted',
         IF next = "writeSignal" THEN event \in Signals
                                 ELSE /\ job[th].tag # Null
                                      /\ event \in Calls /\ event = CallOf(job[th].tag),
         UNCHANGED requestQueue
  PROVE  /\ OnceInv' /\ SentInv' /\ FramesInv' /\ PairsInv' /\ CallsKept
         /\ Posted' = Posted \cup {event}
<1>1. /\ PostMutexFree /\ pc' = [pc EXCEPT ![th] = next]
      /\ posted' = Append(posted, event)
      /\ UNCHANGED <<dpc, dcall, dtag, job, responsePipe, continuations,
                     pipeContinuations, accepted, sent>>
  BY DEF Post, dispatcherVars
<1>2. /\ Len(posted) \in Nat /\ Len(posted') = Len(posted) + 1
      /\ \A i \in 1..Len(posted) : posted'[i] = posted[i]
      /\ posted'[Len(posted) + 1] = event
  BY <1>1, OrderTypes, AppendFacts
<1>3. /\ \A i \in 1..Len(posted') : \/ i \in 1..Len(posted) /\ posted'[i] = posted[i]
                                    \/ i = Len(posted) + 1 /\ posted'[i] = event
      /\ \A i \in 1..Len(posted) : i \in 1..Len(posted')
      /\ Len(posted) + 1 \in 1..Len(posted')
  BY <1>2
<1>4. Posted' = Posted \cup {event}
  <2>1. Posted' \subseteq Posted \cup {event}
    BY <1>3 DEF Posted
  <2>2. Posted \subseteq Posted' /\ event \in Posted'
    BY <1>2, <1>3 DEF Posted
  <2> QED BY <2>1, <2>2
<1>5. CallsKept
  BY <1>1 DEF CallsKept, CallOf
<1>6. PairsInv'
  <2>1. Pairs' = Pairs
    BY <1>1 DEF Pairs
  <2> QED BY <1>5, <2>1, PairsMove DEF OneOrder
<1>7. OnceInv'
  <2>1. Posted' \subseteq accepted' \cup emitted'
    BY <1>1, <1>4 DEF OnceInv, OneOrder
  <2>2. \A i \in 1..Len(posted) : posted[i] # event
    BY DEF Posted
  <2>3. ASSUME NEW i \in 1..Len(posted'), NEW k \in 1..Len(posted'),
               posted'[i] = posted'[k]
        PROVE  i = k
    <3>1. CASE i \in 1..Len(posted) /\ k \in 1..Len(posted)
      BY <1>2, <2>3, <3>1 DEF OnceInv, OneOrder
    <3>2. CASE i = Len(posted) + 1 \/ k = Len(posted) + 1
      BY <1>2, <1>3, <2>2, <2>3, <3>2
    <3> QED BY <1>3, <3>1, <3>2
  <2> QED BY <2>1, <2>3 DEF OnceInv
<1>8. SentInv'
  BY <1>1, <1>2, OrderTypes DEF SentInv, OneOrder
<1>9. FramesInv'
  <2>1. /\ InHand' = InHand /\ InHand \in {0, 1} /\ (dpc = "handle" => InHand = 1)
        /\ Len(posted) = Len(sent) + InHand + Len(responsePipe)
        /\ Len(sent) \in Nat /\ Len(responsePipe) \in Nat
    BY <1>1, OrderTypes DEF InHand, FramesInv, OneOrder
  <2>2. pc'[th] = next /\ \A other \in Threads : pc'[other] \in Writing => other = th
    BY <1>1, OwnTypes DEF PostMutexFree
  <2>3. ~PostMutexFree'
    BY <2>2 DEF PostMutexFree
  <2>4. Len(posted') = Len(sent') + InHand' + Len(responsePipe')
                       + (IF PostMutexFree' THEN 0 ELSE 1)
    BY <1>1, <1>2, <2>1, <2>3
  <2>5. dpc' = "handle" => Announces(dtag, posted[Len(sent) + 1])'
    <3> SUFFICES ASSUME dpc = "handle" PROVE Announces(dtag, posted[Len(sent) + 1])'
      BY <1>1
    <3>1. Announces(dtag, posted[Len(sent) + 1])
      BY DEF FramesInv, OneOrder
    <3>2. posted'[Len(sent) + 1] = posted[Len(sent) + 1]
      BY <1>2, <2>1
    <3> QED BY <1>1, <1>5, <3>1, <3>2, FrameFacts DEF Announces, CallsKept, LaterStages, Stages
  <2>6. ASSUME NEW i \in 1..Len(responsePipe')
        PROVE  Announces(responsePipe[i], posted[Len(sent) + InHand + i])'
    <3>1. i \in 1..Len(responsePipe) /\ responsePipe'[i] = responsePipe[i]
      BY <1>1
    <3>2. Announces(responsePipe[i], posted[Len(sent) + InHand + i])
      BY <3>1 DEF FramesInv, OneOrder
    <3>3. posted'[Len(sent) + InHand + i] = posted[Len(sent) + InHand + i]
      BY <1>2, <2>1, <3>1
    <3> QED BY <1>1, <1>5, <2>1, <3>1, <3>2, <3>3, FrameFacts DEF Announces, CallsKept, LaterStages, Stages
  <2>7. Announces(FrameOf(th), posted[Len(posted)])'
    <3>1. FrameOf(th)' = IF next = "writeSignal" THEN Null ELSE job[th].tag
      BY <1>1, <2>2 DEF FrameOf
    <3>2. posted'[Len(posted')] = event
      BY <1>2
    <3>3. CallOf(job[th].tag)' = CallOf(job[th].tag)
      BY <1>1 DEF CallOf
    <3> QED BY <1>1, <3>1, <3>2, <3>3 DEF Announces
  <2> QED BY <2>2, <2>4, <2>5, <2>6, <2>7 DEF FramesInv
<1> QED BY <1>4, <1>5, <1>6, <1>7, <1>8, <1>9

\* A signal is posted once, and is no call.
LEMMA OrderEmitSignal ==
  ASSUME TypeOK, Ownership, OneOrder, NEW th \in Threads, NEW s \in Signals,
         EmitSignal(th, s)
  PROVE  OneOrder'
<1>1. /\ Post(th, "writeSignal", s) /\ s \notin emitted /\ emitted' = emitted \cup {s}
      /\ signalQueue' = Append(signalQueue, s)
      /\ UNCHANGED <<responseQueue, heap, requestQueue, accepted, sent>>
      /\ posted' = Append(posted, s)
  BY DEF EmitSignal, Post, requestVars
<1>2. s \notin Calls /\ s \notin Posted
  BY <1>1, OrderTypes DEF OnceInv, OneOrder
<1>3. /\ OnceInv' /\ SentInv' /\ FramesInv' /\ PairsInv' /\ CallsKept
      /\ Posted' = Posted \cup {s}
  BY <1>1, <1>2, OrderPost DEF Writing
<1>4. CallsInv'
  <2>1. \A t \in Tags : heap[t] \in LaterStages => CallOf(t) # s
    BY <1>2, OrderTypes DEF CallsInv, OneOrder
  <2>2. \A t \in Tags : heap[t] \in {"queued", "serving", "parked"} => heap[t] \in LaterStages
    BY DEF LaterStages, Stages
  <2> QED BY <1>1, <1>3, <2>1, <2>2, CallsAdvance DEF OneOrder
<1>5. QueuesInv'
  <2>1. /\ Len(sent) + 1 \in 1..(Len(posted) + 1)
        /\ \A k \in 1..Len(posted) : posted[k] # s
    BY <1>2, OrderTypes DEF SentInv, Posted, OneOrder
  <2>2. Holds(signalQueue, Signals, posted, Len(sent) + 1)'
    BY <1>1, <2>1, OrderTypes, HoldsPushed DEF QueuesInv, OneOrder
  <2>3. Holds(responseQueue, Calls, posted, Len(sent) + 1)'
    BY <1>1, <1>2, <2>1, OrderTypes, HoldsUntouched DEF QueuesInv, OneOrder
  <2> QED BY <2>2, <2>3 DEF QueuesInv
<1> QED BY <1>3, <1>4, <1>5 DEF OneOrder

\* The call of a pair in a thread's hand has not been answered.
LEMMA FreshAnswer ==
  ASSUME TypeOK, Ownership, OneOrder, NEW th \in Threads, PostResponse(th)
  PROVE  /\ job[th].tag \in Tags /\ job[th].tag # Null /\ heap[job[th].tag] = "serving"
         /\ job[th].call \in accepted /\ job[th].call = CallOf(job[th].tag)
         /\ job[th].call \in Calls /\ job[th].call \notin Posted /\ job[th].call \notin Signals
<1>1. /\ job[th] # NoJob /\ job[th] \in Pairs /\ pc[th] # "writeReply"
  BY DEF PostResponse, Ownership, JobInv, Pairs, Threads, WorkerPcs, HelperPcs, Writing
<1> DEFINE c == job[th].call
           t == job[th].tag
<1>2. /\ t \in Tags /\ c \in Calls /\ t # Null /\ heap[t] = "serving"
  BY <1>1, OwnTypes, JobFacts DEF Ownership, ServedInv
<1>3. c = CallOf(t)
  BY <1>1 DEF PairsInv, OneOrder
<1> HIDE DEF c, t
<1>4. c \in accepted /\ c \notin Posted /\ c \notin Signals
  BY <1>2, <1>3 DEF CallsInv, OneOrder, LaterStages, Stages
<1> QED BY <1>2, <1>3, <1>4 DEF c, t

\* It is posted as its answer.
LEMMA OrderPostResponse ==
  ASSUME TypeOK, Ownership, OneOrder, NEW th \in Threads, PostResponse(th)
  PROVE  OneOrder'
<1> DEFINE c == job[th].call
           t == job[th].tag
<1>1. /\ Post(th, "writeReply", c)
      /\ responseQueue' = Append(responseQueue, c)
      /\ heap' = [heap EXCEPT ![t] = "posted"]
      /\ UNCHANGED <<signalQueue, requestQueue, accepted, emitted, sent>>
      /\ posted' = Append(posted, c)
  BY DEF PostResponse, Post, requestVars
<1>2. /\ t \in Tags /\ c \in Calls /\ t # Null /\ heap[t] = "serving"
  BY FreshAnswer
<1>3. c = CallOf(t)
  BY FreshAnswer
<1>4. c \in accepted /\ c \notin Posted /\ c \notin Signals
  BY FreshAnswer
<1> HIDE DEF c, t
<1>5. /\ OnceInv' /\ SentInv' /\ FramesInv' /\ PairsInv' /\ CallsKept
      /\ Posted' = Posted \cup {c}
  <2>1. c = CallOf(job[th].tag) /\ job[th].tag # Null
    BY <1>2, <1>3 DEF t
  <2> QED BY <1>1, <1>2, <1>4, <2>1, OrderPost DEF Writing
<1>6. CallsInv'
  <2>1. \A u \in Tags : u # t => heap'[u] = heap[u]
    BY <1>1, <1>2, OwnTypes
  <2>2. heap'[t] = "posted"
    BY <1>1, <1>2, OwnTypes
  <2>3. \A u \in Tags : heap[u] \in LaterStages /\ CallOf(u) = c => u = t
    BY <1>2, <1>3 DEF CallsInv, OneOrder, LaterStages, Stages
  <2>4. \A u \in Tags : heap'[u] \in LaterStages => heap[u] \in LaterStages
    BY <1>2, <2>1 DEF LaterStages, Stages
  <2>5. ASSUME NEW u \in Tags, heap'[u] \in {"queued", "serving", "parked"}
        PROVE  /\ heap[u] \in {"queued", "serving", "parked"}
               /\ CallOf(u) \in Posted' => CallOf(u) \in Posted
    <3>1. u # t /\ heap[u] = heap'[u]
      BY <2>1, <2>2, <2>5
    <3>2. heap[u] \in LaterStages
      BY <2>5, <3>1 DEF LaterStages, Stages
    <3> QED BY <1>5, <2>3, <2>5, <3>1, <3>2
  <2> QED BY <1>1, <1>5, <2>4, <2>5, CallsAdvance DEF OneOrder
<1>7. QueuesInv'
  <2>1. /\ Len(sent) + 1 \in 1..(Len(posted) + 1)
        /\ \A k \in 1..Len(posted) : posted[k] # c
    BY <1>4, OrderTypes DEF SentInv, Posted, OneOrder
  <2>2. Holds(responseQueue, Calls, posted, Len(sent) + 1)'
    BY <1>1, <1>2, <2>1, OrderTypes, HoldsPushed DEF QueuesInv, OneOrder
  <2>3. Holds(signalQueue, Signals, posted, Len(sent) + 1)'
    BY <1>1, <1>2, <1>4, <2>1, OrderTypes, HoldsUntouched DEF QueuesInv, OneOrder
  <2> QED BY <2>2, <2>3 DEF QueuesInv
<1> QED BY <1>5, <1>6, <1>7 DEF OneOrder

\* The frame of the last item goes to the end of the pipe.
LEMMA OrderWriteFrame ==
  ASSUME TypeOK, Ownership, OneOrder, NEW th \in Threads, WriteFrame(th)
  PROVE  OneOrder'
<1>0. PICK frame : frame = FrameOf(th)
  OBVIOUS
<1>1. /\ pc[th] \in Writing
      /\ responsePipe' = Append(responsePipe, frame)
      /\ \E next \in ThreadPcs \ Writing : pc' = [pc EXCEPT ![th] = next]
      /\ job' = job \/ job' = [job EXCEPT ![th] = NoJob]
      /\ UNCHANGED <<dpc, dcall, dtag, requestQueue, responseQueue, signalQueue,
                     continuations, pipeContinuations, heap, posted, sent,
                     accepted, emitted>>
  BY <1>0 DEF WriteFrame, FrameOf, Writing, ThreadPcs, dispatcherVars, requestVars,
         tagVars, historyVars
<1>2. /\ \A other \in Threads : other # th => pc'[other] = pc[other]
      /\ pc'[th] \notin Writing
      /\ \A other \in Threads : job'[other] \in {job[other], NoJob}
  BY <1>1, OwnTypes
<1>3. /\ Announces(frame, posted[Len(posted)])
      /\ \A other \in Threads : pc[other] \in Writing => other = th
      /\ frame = Null \/ (frame \in Tags /\ heap[frame] = "posted")
  <2>1. FrameOf(th) = Null \/ (FrameOf(th) \in Tags /\ heap[FrameOf(th)] = "posted")
    BY <1>1, FrameFacts DEF FrameOf, Writing
  <2> QED BY <1>0, <1>1, <2>1 DEF FramesInv, OneOrder
<1>4. CallsKept
  BY <1>1 DEF CallsKept, CallOf
<1>5. OnceInv' /\ SentInv' /\ QueuesInv' /\ Posted' = Posted
  BY <1>1, OrderStays DEF OneOrder
<1>6. PairsInv'
  <2>1. \A pair \in Pairs' : pair \in Pairs \/ pair = NoJob
    BY <1>1, <1>2 DEF Pairs
  <2> QED BY <1>4, <2>1, PairsMove DEF OneOrder
<1>7. CallsInv'
  BY <1>1, <1>4, <1>5, CallsAdvance DEF OneOrder
<1>8. FramesInv'
  <2>1. PostMutexFree' /\ ~PostMutexFree
    BY <1>1, <1>2, <1>3 DEF PostMutexFree
  <2>2. /\ InHand' = InHand /\ InHand \in {0, 1}
        /\ Len(posted) = Len(sent) + InHand + Len(responsePipe) + 1
        /\ Len(sent) \in Nat /\ Len(responsePipe) \in Nat
    BY <1>1, <2>1, OrderTypes DEF InHand, FramesInv, OneOrder
  <2>3. /\ Len(responsePipe') = Len(responsePipe) + 1
        /\ \A i \in 1..Len(responsePipe) : responsePipe'[i] = responsePipe[i]
        /\ responsePipe'[Len(responsePipe) + 1] = frame
    BY <1>1, <1>3, OrderTypes, AppendFacts
  <2>4. Len(posted') = Len(sent') + InHand' + Len(responsePipe')
                       + (IF PostMutexFree' THEN 0 ELSE 1)
    BY <1>1, <2>1, <2>2, <2>3
  <2>5. dpc' = "handle" => Announces(dtag, posted[Len(sent) + 1])'
    BY <1>1, <1>4, FrameFacts DEF FramesInv, OneOrder, Announces, CallsKept, LaterStages, Stages
  <2>6. ASSUME NEW i \in 1..Len(responsePipe')
        PROVE  Announces(responsePipe[i], posted[Len(sent) + InHand + i])'
    <3>1. CASE i \in 1..Len(responsePipe)
      <4>1. responsePipe'[i] = responsePipe[i] /\ posted' = posted
            /\ Len(sent') + InHand' + i = Len(sent) + InHand + i
        BY <1>1, <2>2, <2>3, <3>1
      <4>2. Announces(responsePipe[i], posted[Len(sent) + InHand + i])
        BY <3>1 DEF FramesInv, OneOrder
      <4> QED
        BY <1>4, <3>1, <4>1, <4>2, FrameFacts DEF Announces, CallsKept, LaterStages, Stages
    <3>2. CASE i = Len(responsePipe) + 1
      <4>1. posted'[Len(sent') + InHand' + i] = posted[Len(posted)]
        BY <1>1, <2>2, <3>2
      <4>2. Announces(frame, posted[Len(posted)])'
        BY <1>1, <1>3, <1>4 DEF Announces, CallsKept, LaterStages, Stages
      <4> QED BY <1>1, <2>3, <3>2, <4>1, <4>2 DEF Announces
    <3> QED BY <2>2, <2>3, <3>1, <3>2
  <2>7. \A other \in Threads : pc'[other] \notin Writing
    BY <2>1 DEF PostMutexFree
  <2> QED BY <2>4, <2>5, <2>6, <2>7 DEF FramesInv
<1> QED BY <1>5, <1>6, <1>7, <1>8 DEF OneOrder

-----------------------------------------------------------------------------
(* Reading a frame and sending the item it announces.                      *)

\* The first frame of the pipe goes to the dispatcher.
LEMMA OrderReadFrame ==
  ASSUME TypeOK, Ownership, OneOrder, ReadFrame
  PROVE  OneOrder'
<1>1. /\ dpc = "iterate" /\ dpc' = "handle" /\ responsePipe # <<>>
      /\ responsePipe' = Tail(responsePipe)
      /\ dtag' = Head(responsePipe)
      /\ heap' = [t \in Tags |-> IF t = Head(responsePipe) THEN "reply" ELSE heap[t]]
      /\ UNCHANGED <<pc, job, requestQueue, responseQueue, signalQueue,
                     continuations, pipeContinuations, posted, sent, accepted, emitted>>
  BY DEF ReadFrame, threadVars, requestVars, historyVars
<1>2. /\ Head(responsePipe) = responsePipe[1]
      /\ Len(responsePipe) \in Nat \ {0} /\ 1 \in 1..Len(responsePipe)
      /\ Len(responsePipe') = Len(responsePipe) - 1
      /\ \A i \in 1..(Len(responsePipe) - 1) :
           responsePipe'[i] = responsePipe[i + 1] /\ i + 1 \in 1..Len(responsePipe)
  BY <1>1, OrderTypes, PopFrontFacts DEF PopFront
<1>3. \A t \in Tags : heap'[t] = heap[t] \/ (heap[t] = "posted" /\ heap'[t] = "reply")
  BY <1>1, <1>2, FrameFacts
<1>4. CallsKept
  BY <1>1 DEF CallsKept, CallOf
<1>5. OnceInv' /\ SentInv' /\ QueuesInv' /\ Posted' = Posted
  BY <1>1, OrderStays DEF OneOrder
<1>6. PairsInv'
  <2>1. Pairs' = Pairs
    BY <1>1 DEF Pairs
  <2> QED BY <1>4, <2>1, PairsMove DEF OneOrder
<1>7. CallsInv'
  <2>1. \A t \in Tags : heap'[t] \in LaterStages => heap[t] \in LaterStages
    BY <1>3 DEF LaterStages, Stages
  <2>2. \A t \in Tags : heap'[t] \in {"queued", "serving", "parked"} =>
                           heap[t] \in {"queued", "serving", "parked"}
    BY <1>3
  <2> QED BY <1>1, <1>4, <1>5, <2>1, <2>2, CallsAdvance DEF OneOrder
<1>8. FramesInv'
  <2>1. InHand = 0 /\ InHand' = 1 /\ PostMutexFree' = PostMutexFree
    BY <1>1 DEF InHand, PostMutexFree
  <2>2. /\ Len(posted) = Len(sent) + Len(responsePipe) + (IF PostMutexFree THEN 0 ELSE 1)
        /\ Len(sent) \in Nat
    BY <2>1, OrderTypes DEF FramesInv, OneOrder
  <2>3. ASSUME NEW i \in 1..Len(responsePipe)
        PROVE  \A frame : frame = responsePipe[i] =>
                  Announces(frame, posted[Len(sent) + i])'
    <3>1. Announces(responsePipe[i], posted[Len(sent) + i])
      BY <2>1, <2>2, OrderTypes DEF FramesInv, OneOrder
    <3> QED
      BY <1>1, <1>4, <3>1, FrameFacts DEF Announces, CallsKept, LaterStages, Stages
  <2>4. Len(posted') = Len(sent') + InHand' + Len(responsePipe')
                       + (IF PostMutexFree' THEN 0 ELSE 1)
    BY <1>1, <1>2, <2>1, <2>2
  <2>5. Announces(dtag, posted[Len(sent) + 1])'
    BY <1>1, <1>2, <2>3 DEF Announces
  <2>6. ASSUME NEW i \in 1..Len(responsePipe')
        PROVE  Announces(responsePipe[i], posted[Len(sent) + InHand + i])'
    <3>1. /\ i + 1 \in 1..Len(responsePipe) /\ responsePipe'[i] = responsePipe[i + 1]
          /\ Len(sent') + InHand' + i = Len(sent) + (i + 1)
      BY <1>1, <1>2, <2>1, <2>2
    <3> QED BY <1>1, <2>3, <3>1 DEF Announces
  <2>7. ASSUME NEW th \in Threads, pc'[th] \in Writing
        PROVE  /\ Announces(FrameOf(th), posted[Len(posted)])'
               /\ \A other \in Threads : pc'[other] \in Writing => other = th
    <3>1. pc[th] \in Writing /\ FrameOf(th)' = FrameOf(th)
      BY <1>1, <2>7 DEF FrameOf
    <3>2. FrameOf(th) = Null \/ (FrameOf(th) \in Tags /\ heap[FrameOf(th)] = "posted")
      BY <3>1, FrameFacts DEF FrameOf, Writing
    <3>3. Announces(FrameOf(th), posted[Len(posted)])
      BY <3>1 DEF FramesInv, OneOrder
    <3>4. \A other \in Threads : pc'[other] \in Writing => other = th
      BY <1>1, <3>1 DEF FramesInv, OneOrder
    <3> QED
      BY <1>1, <1>4, <3>1, <3>2, <3>3, <3>4 DEF Announces, CallsKept, LaterStages, Stages
  <2> QED BY <2>4, <2>5, <2>6, <2>7 DEF FramesInv
<1> QED BY <1>5, <1>6, <1>7, <1>8 DEF OneOrder

\* What the dispatcher has in hand announces the first item that waits.
LEMMA NextItem ==
  ASSUME TypeOK, OneOrder, dpc = "handle", PostMutexFree
  PROVE  /\ Len(sent) \in Nat /\ Len(posted) \in Nat
         /\ Len(sent) + 1 \in 1..Len(posted)
         /\ Len(posted) = Len(sent) + 1 + Len(responsePipe)
         /\ Announces(dtag, posted[Len(sent) + 1])
BY OrderTypes DEF FramesInv, OneOrder, InHand

\* The item is sent and nothing else moves.
LEMMA OrderSend ==
  ASSUME TypeOK, Ownership, OneOrder, EndHandler,
         NEW item, item = posted[Len(sent) + 1], sent' = Append(sent, item),
         UNCHANGED posted,
         \A i \in 1..Len(responsePipe) : responsePipe[i] # Null =>
           CallOf(responsePipe[i])' = CallOf(responsePipe[i])
  PROVE  SentInv' /\ FramesInv' /\ OnceInv' /\ Posted' = Posted
<1>1. /\ dpc = "handle" /\ dpc' # "handle" /\ PostMutexFree
      /\ UNCHANGED <<pc, job, responsePipe, accepted, emitted>>
  BY DEF EndHandler, threadVars
<1>2. /\ Len(sent) \in Nat /\ Len(posted) \in Nat
      /\ Len(sent) + 1 \in 1..Len(posted)
      /\ Len(posted) = Len(sent) + 1 + Len(responsePipe)
  BY <1>1, NextItem
<1>3. item \in Calls \cup Signals
  BY <1>2, OrderTypes
<1>4. /\ Len(sent') = Len(sent) + 1 /\ sent'[Len(sent) + 1] = item
      /\ \A i \in 1..Len(sent) : sent'[i] = sent[i]
  BY <1>3, OrderTypes, AppendFacts
<1>5. SentInv'
  BY <1>2, <1>4 DEF SentInv, OneOrder
<1>6. OnceInv' /\ Posted' = Posted
  BY <1>1 DEF OnceInv, Posted, OneOrder
<1>7. FramesInv'
  <2>1. InHand = 1 /\ InHand' = 0 /\ PostMutexFree'
    BY <1>1 DEF InHand, PostMutexFree
  <2>2. ASSUME NEW i \in 1..Len(responsePipe')
        PROVE  Announces(responsePipe[i], posted[Len(sent) + InHand + i])'
    <3>1. /\ i \in 1..Len(responsePipe) /\ responsePipe'[i] = responsePipe[i]
          /\ Len(sent') + InHand' + i = Len(sent) + InHand + i
      BY <1>1, <1>2, <1>4, <2>1
    <3>2. Announces(responsePipe[i], posted[Len(sent) + InHand + i])
      BY <3>1 DEF FramesInv, OneOrder
    <3> QED BY <3>1, <3>2 DEF Announces
  <2>3. \A th \in Threads : pc'[th] \notin Writing
    BY <2>1 DEF PostMutexFree
  <2>4. Len(posted') = Len(sent') + InHand' + Len(responsePipe')
                       + (IF PostMutexFree' THEN 0 ELSE 1)
    BY <1>1, <1>2, <1>4, <2>1
  <2> QED BY <1>1, <2>2, <2>3, <2>4 DEF FramesInv
<1> QED BY <1>5, <1>6, <1>7

\* The first response is that of the call whose Tag came through the pipe.
LEMMA ResponseMatchesTag ==
  ASSUME TypeOK, Ownership, OneOrder, HandleResponse
  PROVE  /\ dtag \in Tags /\ heap[dtag] = "reply" /\ continuations[dtag] \in Calls
         /\ Head(responseQueue) = continuations[dtag]
         /\ posted[Len(sent) + 1] = continuations[dtag]
         /\ replied' = [replied EXCEPT ![continuations[dtag]] = continuations[dtag]]
         /\ sent' = Append(sent, continuations[dtag])
         /\ continuations' = [continuations EXCEPT ![dtag] = Null]
         /\ Holds(responseQueue', Calls, posted, Len(sent) + 2)
         /\ Holds(signalQueue, Signals, posted, Len(sent) + 2)
<1>1. dpc = "handle" /\ dtag # Null /\ PostMutexFree /\ responseQueue' = PopFront(responseQueue)
  BY DEF HandleResponse, EndHandler
<1>2. dtag \in Tags /\ heap[dtag] = "reply"
  BY <1>1, FrameFacts
<1>3. continuations[dtag] # Null /\ pipeContinuations[dtag] = NoJob
  BY <1>1, <1>2 DEF ContinuationInv, ParkedInv, Ownership, LaterStages, Stages
<1>4. CallOf(dtag) = continuations[dtag]
  BY <1>1 DEF CallOf
<1>5. /\ posted[Len(sent) + 1] \in Calls /\ posted[Len(sent) + 1] = continuations[dtag]
      /\ Len(sent) \in Nat /\ Len(sent) + 1 \in 1..Len(posted)
  BY <1>1, <1>4, NextItem DEF Announces
<1>6. \A i, k \in 1..Len(posted) : posted[i] = posted[k] => i = k
  BY DEF OnceInv, OneOrder
<1>7. /\ Head(responseQueue) = posted[Len(sent) + 1]
      /\ Holds(PopFront(responseQueue), Calls, posted, Len(sent) + 1 + 1)
  <2>1. /\ posted \in Seq(Calls \cup Signals) /\ responseQueue \in Seq(Calls)
        /\ Calls \in SUBSET (Calls \cup Signals)
        /\ Holds(responseQueue, Calls, posted, Len(sent) + 1)
    BY OrderTypes DEF QueuesInv, OneOrder
  <2> QED BY ONLY <1>5, <1>6, <2>1, HoldsPopped
<1>8. Holds(signalQueue, Signals, posted, Len(sent) + 1 + 1)
  BY <1>5, OrderTypes, HoldsSkipped DEF QueuesInv, OneOrder
<1>9. Len(sent) + 1 + 1 = Len(sent) + 2
  BY <1>5
<1> QED BY <1>1, <1>2, <1>3, <1>5, <1>7, <1>8, <1>9 DEF HandleResponse, Erase

LEMMA OrderHandleResponse ==
  ASSUME TypeOK, Ownership, OneOrder, HandleResponse
  PROVE  OneOrder'
<1>1. /\ dpc = "handle" /\ dpc' \notin {"handle", "write", "register"} /\ EndHandler
      /\ heap' = [heap EXCEPT ![dtag] = "free"]
      /\ UNCHANGED <<pc, job, requestQueue, pipeContinuations, responsePipe, posted,
                     accepted, emitted, signalQueue>>
  BY DEF HandleResponse, EndHandler, requestVars, threadVars
<1>2. /\ dtag \in Tags /\ heap[dtag] = "reply"
      /\ posted[Len(sent) + 1] = continuations[dtag]
      /\ sent' = Append(sent, continuations[dtag])
      /\ continuations' = [continuations EXCEPT ![dtag] = Null]
      /\ Holds(responseQueue', Calls, posted, Len(sent) + 2)
      /\ Holds(signalQueue, Signals, posted, Len(sent) + 2)
      /\ continuations[dtag] \in Calls
  BY ResponseMatchesTag
<1>3. /\ \A t \in Tags : t # dtag => CallOf(t)' = CallOf(t) /\ heap'[t] = heap[t]
      /\ heap'[dtag] = "free"
  BY <1>1, <1>2, OwnTypes DEF CallOf
<1>4. SentInv' /\ FramesInv' /\ OnceInv' /\ Posted' = Posted
  <2>1. \A i \in 1..Len(responsePipe) : responsePipe[i] # Null =>
          CallOf(responsePipe[i])' = CallOf(responsePipe[i])
    <3> SUFFICES ASSUME NEW i \in 1..Len(responsePipe), responsePipe[i] # Null
                 PROVE  CallOf(responsePipe[i])' = CallOf(responsePipe[i])
      OBVIOUS
    <3>1. responsePipe[i] \in Tags /\ responsePipe[i] # dtag /\ responsePipe'[i] = responsePipe[i]
      BY <1>1, <1>2, FrameFacts
    <3> QED BY <1>3, <3>1
  <2> QED BY <1>1, <1>2, <2>1, OrderSend
<1>5. PairsInv'
  <2>1. Pairs' = Pairs
    BY <1>1 DEF Pairs
  <2> SUFFICES ASSUME NEW pair \in Pairs, pair # NoJob
               PROVE  pair.call = CallOf(pair.tag)'
    BY <2>1 DEF PairsInv
  <2>2. pair.tag \in Tags /\ pair.tag # dtag
    BY <1>2, PairFacts
  <2> QED BY <1>3, <2>2 DEF PairsInv, OneOrder
<1>6. CallsInv'
  <2>1. \A t \in Tags : heap'[t] \in LaterStages =>
          t # dtag /\ heap'[t] = heap[t] /\ CallOf(t)' = CallOf(t)
    BY <1>3 DEF LaterStages
  <2>2. \A t \in Tags : heap'[t] \in {"queued", "serving", "parked"} =>
          heap'[t] \in LaterStages
    BY DEF LaterStages, Stages
  <2> QED BY <1>1, <1>4, <2>1, <2>2 DEF CallsInv, OneOrder
<1>7. QueuesInv'
  <2>1. Len(sent') + 1 = Len(sent) + 2
    BY <1>2, OrderTypes, AppendFacts
  <2> QED BY <1>1, <1>2, <2>1 DEF QueuesInv
<1> QED BY <1>4, <1>5, <1>6, <1>7 DEF OneOrder

\* NULL comes through the pipe when the next item is a signal.
LEMMA OrderHandleSignal ==
  ASSUME TypeOK, Ownership, OneOrder, HandleSignal
  PROVE  /\ OneOrder' /\ Head(signalQueue) = posted[Len(sent) + 1]
<1>1. /\ dpc = "handle" /\ dpc' \notin {"handle", "write", "register"} /\ EndHandler
      /\ PostMutexFree /\ dtag = Null
      /\ signalQueue' = PopFront(signalQueue)
      /\ sent' = Append(sent, Head(signalQueue))
      /\ UNCHANGED <<pc, job, requestQueue, pipeContinuations, responsePipe, posted,
                     accepted, emitted, responseQueue, continuations, heap>>
  BY DEF HandleSignal, EndHandler, requestVars, threadVars
<1>2. /\ posted[Len(sent) + 1] \in Signals /\ Len(sent) \in Nat
      /\ Len(sent) + 1 \in 1..Len(posted)
  BY <1>1, NextItem DEF Announces
<1>3. \A i, k \in 1..Len(posted) : posted[i] = posted[k] => i = k
  BY DEF OnceInv, OneOrder
<1>4. /\ Head(signalQueue) = posted[Len(sent) + 1]
      /\ Holds(PopFront(signalQueue), Signals, posted, Len(sent) + 1 + 1)
  <2>1. /\ posted \in Seq(Calls \cup Signals) /\ signalQueue \in Seq(Signals)
        /\ Signals \in SUBSET (Calls \cup Signals)
        /\ Holds(signalQueue, Signals, posted, Len(sent) + 1)
    BY OrderTypes DEF QueuesInv, OneOrder
  <2> QED BY ONLY <1>2, <1>3, <2>1, HoldsPopped
<1>5. Holds(responseQueue, Calls, posted, Len(sent) + 1 + 1)
  BY <1>2, OrderTypes, HoldsSkipped DEF QueuesInv, OneOrder
<1>6. CallsKept
  BY <1>1 DEF CallsKept, CallOf
<1>7. SentInv' /\ FramesInv' /\ OnceInv' /\ Posted' = Posted
  <2>1. \A i \in 1..Len(responsePipe) : responsePipe[i] # Null =>
          CallOf(responsePipe[i])' = CallOf(responsePipe[i])
    BY <1>1 DEF CallOf
  <2> QED BY <1>1, <1>4, <2>1, OrderSend
<1>8. PairsInv'
  <2>1. Pairs' = Pairs
    BY <1>1 DEF Pairs
  <2> QED BY <1>6, <2>1, PairsMove DEF OneOrder
<1>9. CallsInv'
  BY <1>1, <1>6, <1>7, CallsAdvance DEF OneOrder
<1>10. QueuesInv'
  <2>1. Len(sent') + 1 = Len(sent) + 1 + 1
    BY <1>1, <1>2, <1>4, OrderTypes, AppendFacts
  <2> QED BY <1>1, <1>4, <1>5, <2>1 DEF QueuesInv
<1> QED BY <1>4, <1>7, <1>8, <1>9, <1>10 DEF OneOrder

-----------------------------------------------------------------------------
(* The order, always.                                                      *)

LEMMA OrderInit == Init => OneOrder
<1> SUFFICES ASSUME Init PROVE OneOrder OBVIOUS
<1>1. /\ \A t \in Tags : heap[t] = "free" /\ pipeContinuations[t] = NoJob
      /\ \A th \in Threads : job[th] = NoJob /\ pc[th] \notin Writing
      /\ requestQueue = <<>> /\ responseQueue = <<>> /\ signalQueue = <<>>
      /\ responsePipe = <<>> /\ posted = <<>> /\ sent = <<>> /\ dpc = "iterate"
      /\ Len(posted) = 0 /\ Len(sent) = 0 /\ Len(responsePipe) = 0
      /\ Len(requestQueue) = 0 /\ Len(responseQueue) = 0 /\ Len(signalQueue) = 0
  BY DEF Init, Writing
<1>2. PairsInv
  BY <1>1 DEF PairsInv, Pairs
<1>3. CallsInv
  BY <1>1 DEF CallsInv, LaterStages
<1>4. OnceInv /\ SentInv
  BY <1>1 DEF OnceInv, SentInv, Posted
<1>5. FramesInv
  BY <1>1 DEF FramesInv, InHand, PostMutexFree
<1>6. QueuesInv
  BY <1>1 DEF QueuesInv, Holds
<1> QED BY <1>2, <1>3, <1>4, <1>5, <1>6 DEF OneOrder

LEMMA OrderNext == TypeOK /\ Ownership /\ OneOrder /\ [Next]_vars => OneOrder'
<1> SUFFICES ASSUME TypeOK, Ownership, OneOrder, [Next]_vars PROVE OneOrder' OBVIOUS
<1>1. UNCHANGED vars => OneOrder'
  BY OrderIdle DEF vars, dispatcherVars, requestVars, threadVars, responseVars, tagVars,
     historyVars
<1>2. ASSUME NEW w \in Workers, TestFd(w) \/ ReadByte(w) \/ ReadClosed(w) PROVE OneOrder'
  BY <1>2, OrderThreadIdle DEF Threads
<1>3. ASSUME NEW u \in Tags, FindCall(u) PROVE OneOrder'
  BY <1>3, OrderThreadIdle DEF Threads
<1>4. CASE Next
  BY ONLY TypeOK, Ownership, OneOrder, <1>1, <1>2, <1>3, <1>4, StepCases,
     OrderDispatcherIdle, OrderThreadIdle, OrderPopRequest, OrderDeferAnswer,
     OrderTakeContinuation, OrderDeleteTag, OrderRegister, OrderDeliver,
     OrderEmitSignal, OrderPostResponse, OrderWriteFrame, OrderReadFrame,
     OrderHandleResponse, OrderHandleSignal, Zenon
<1> QED BY <1>1, <1>4

\* Only a response the dispatcher handles is sent to a caller, and it is sent
\* to the caller of the call that was answered.
LEMMA RightCallerNext ==
  TypeOK /\ Ownership /\ OneOrder /\ RightCaller /\ [Next]_vars => RightCaller'
<1> SUFFICES ASSUME TypeOK, Ownership, OneOrder, RightCaller, [Next]_vars
             PROVE  RightCaller'
  OBVIOUS
<1>1. HandleResponse => RightCaller'
  <2> SUFFICES ASSUME HandleResponse PROVE RightCaller' OBVIOUS
  <2>1. replied' = [replied EXCEPT ![continuations[dtag]] = continuations[dtag]]
    BY ResponseMatchesTag
  <2> QED BY <2>1, OrderTypes DEF RightCaller
<1>2. replied' = replied => RightCaller'
  BY DEF RightCaller
<1>3. UNCHANGED vars => replied' = replied
  BY DEF vars, historyVars
<1>4. /\ \A c \in Calls : Deliver(c) => replied' = replied
      /\ WriteRequest \/ Register \/ ReadFrame \/ HandleSignal \/ Leave \/ Stop
           => replied' = replied
      /\ \A s \in Signals : EmitLocal(s) => replied' = replied
  BY DEF Deliver, WriteRequest, Register, ReadFrame, HandleSignal, Leave, Stop,
         EmitLocal, historyVars
<1>5. /\ \A w \in Workers : TestFd(w) \/ ReadByte(w) \/ ReadClosed(w)
                            \/ PopRequest(w) \/ DeferAnswer(w) => replied' = replied
      /\ \A th \in Threads, s \in Signals : EmitSignal(th, s) => replied' = replied
      /\ \A th \in Threads : PostResponse(th) \/ WriteFrame(th) \/ UseDeletedPipe(th)
                             => replied' = replied
      /\ \A u \in Tags : FindCall(u) \/ TakeContinuation(u) \/ DeleteTag(u)
                             => replied' = replied
  BY DEF TestFd, ReadByte, ReadClosed, PopRequest, DeferAnswer, EmitSignal,
         PostResponse, Post, WriteFrame, UseDeletedPipe, FindCall, TakeContinuation,
         DeleteTag, historyVars
<1>6. CASE Next
  BY ONLY <1>1, <1>2, <1>3, <1>4, <1>5, <1>6, StepCases, Zenon
<1> QED BY <1>2, <1>3, <1>6

-----------------------------------------------------------------------------
(* stop_pipe().                                                            *)

LEMMA StopNext ==
  TypeOK /\ Ownership /\ StopInv /\ [Next]_vars => StopInv'
<1> SUFFICES ASSUME TypeOK, Ownership, StopInv, [Next]_vars PROVE StopInv' OBVIOUS
<1> DEFINE Same == UNCHANGED <<running, dpc, crashed>>
<1>1. Same => StopInv'
  BY DEF StopInv, PipeDeleted
<1>2. UNCHANGED vars => Same
  BY DEF vars, dispatcherVars
<1>3. /\ \A c \in Calls : Deliver(c) => StopInv'
      /\ WriteRequest \/ Register \/ ReadFrame => StopInv'
  BY DEF Deliver, WriteRequest, Register, ReadFrame, StopInv, StopPcs, StopPipe, PipeDeleted
<1>4. HandleResponse \/ HandleSignal => StopInv'
  BY DEF HandleResponse, HandleSignal, EndHandler, StopInv, StopPcs, StopPipe, PipeDeleted
<1>5. Leave => StopInv'
  BY DEF Leave, StopInv, StopPcs, StopPipe, PipeDeleted
<1>6. Stop => StopInv'
  BY DEF Stop, StopInv, StopPcs, StopPipe, PipeDeleted
<1>7. /\ \A s \in Signals : EmitLocal(s) => Same
      /\ \A w \in Workers : TestFd(w) \/ ReadByte(w) \/ ReadClosed(w)
                            \/ PopRequest(w) \/ DeferAnswer(w) => Same
      /\ \A th \in Threads : WriteFrame(th) => Same
      /\ \A u \in Tags : TakeContinuation(u) \/ DeleteTag(u) => Same
  BY DEF EmitLocal, TestFd, ReadByte, ReadClosed, PopRequest, DeferAnswer, WriteFrame,
         TakeContinuation, DeleteTag, dispatcherVars
<1>8. /\ \A th \in Threads, s \in Signals : EmitSignal(th, s) => StopInv'
      /\ \A th \in Threads : PostResponse(th) => StopInv'
  <2>1. ASSUME crashed' = PipeIsNull, UNCHANGED <<running, dpc>> PROVE StopInv'
    <3>1. CASE PipeIsNull
      BY <2>1, <3>1 DEF StopInv, PipeIsNull, PipeDeleted
    <3>2. CASE ~PipeIsNull
      BY <2>1, <3>2, Zenon DEF StopInv, PipeIsNull, PipeDeleted
    <3> QED BY <3>1, <3>2
  <2> QED BY <2>1 DEF EmitSignal, PostResponse, Post, dispatcherVars
<1>9. \A th \in Threads : UseDeletedPipe(th) => StopInv'
  BY DEF UseDeletedPipe, StopInv, PipeDeleted, dispatcherVars
<1>10. ASSUME NEW u \in Tags, FindCall(u) PROVE StopInv'
  <2>1. pc[u] = "method" /\ pipeContinuations[u] # NoJob
    BY <1>10 DEF FindCall, Ownership, ParkedInv
  <2>2. crashed' = FALSE /\ UNCHANGED <<running, dpc>>
    BY <1>10, <2>1 DEF FindCall, dispatcherVars
  <2> QED BY <2>2 DEF StopInv, PipeDeleted
<1> HIDE DEF Same
<1>11. CASE Next
  BY ONLY <1>1, <1>2, <1>3, <1>4, <1>5, <1>6, <1>7, <1>8, <1>9, <1>10, <1>11, StepCases, Zenon
<1> QED BY <1>1, <1>2, <1>11

-----------------------------------------------------------------------------
(* One byte in request_pipefd for each request.                            *)

Poppers == {w \in Workers : pc[w] = "process"}

LEMMA PoppersFinite ==
  IsFiniteSet(Poppers) /\ Cardinality(Poppers) \in Nat
BY WorkersAssumption, FS_Subset, FS_CardinalityType DEF Poppers

\* Steps that neither touch the queue and its pipe nor the threads about to pop.
LEMMA BytesStay ==
  ASSUME ByteForEachRequest, UNCHANGED <<requestPipe, requestQueue>>,
         Poppers' = Poppers, dpc' = "write" <=> dpc = "write",
         RequestClosed => RequestClosed'
  PROVE  ByteForEachRequest'
BY DEF ByteForEachRequest, Poppers

LEMMA BytesDispatcher ==
  ASSUME TypeOK, ByteForEachRequest,
         \/ \E c \in Calls : Deliver(c)
         \/ WriteRequest \/ Register \/ ReadFrame \/ HandleResponse \/ HandleSignal
         \/ Leave \/ Stop \/ \E s \in Signals : EmitLocal(s)
  PROVE  ByteForEachRequest'
<1>1. Poppers' = Poppers
  BY DEF Poppers, Deliver, WriteRequest, Register, ReadFrame, HandleResponse,
         HandleSignal, EndHandler, Leave, Stop, EmitLocal, threadVars
<1>2. ASSUME NEW c \in Calls, Deliver(c) PROVE ByteForEachRequest'
  <2>1. /\ dpc = "iterate" /\ dpc' = "write" /\ requestPipe' = requestPipe
        /\ \E t \in Tags : requestQueue' = Append(requestQueue, [call |-> c, tag |-> t])
    BY <1>2 DEF Deliver
  <2>2. Len(requestQueue') = Len(requestQueue) + 1
    BY <2>1, OwnTypes
  <2>3. requestPipe + Cardinality(Poppers) = Len(requestQueue)
    BY <2>1, PoppersFinite DEF ByteForEachRequest, RequestClosed, Poppers, TypeOK
  <2>4. requestPipe' + Cardinality(Poppers') + 1 = Len(requestQueue')
    BY <1>1, <2>1, <2>2, <2>3
  <2> QED BY <2>1, <2>4 DEF ByteForEachRequest, Poppers
<1>3. CASE WriteRequest
  <2>1. /\ dpc = "write" /\ dpc' = "register" /\ requestPipe' = requestPipe + 1
        /\ requestQueue' = requestQueue
    BY <1>3 DEF WriteRequest, Wake
  <2>2. requestPipe + Cardinality(Poppers) + 1 = Len(requestQueue)
    BY <2>1 DEF ByteForEachRequest, RequestClosed, Poppers
  <2>3. requestPipe' + Cardinality(Poppers') + 0 = Len(requestQueue')
    BY <1>1, <2>1, <2>2, PoppersFinite DEF TypeOK
  <2> QED BY <2>1, <2>3 DEF ByteForEachRequest, Poppers
<1>4. CASE Stop
  <2>1. /\ UNCHANGED <<requestPipe, requestQueue>>
        /\ dpc # "write" /\ dpc' # "write" /\ (RequestClosed => RequestClosed')
    BY <1>4 DEF Stop, StopPipe, RequestClosed, requestVars
  <2> QED BY <1>1, <2>1, BytesStay
<1>5. CASE \/ Register \/ ReadFrame \/ HandleResponse \/ HandleSignal
           \/ Leave \/ \E s \in Signals : EmitLocal(s)
  <2>1. /\ UNCHANGED <<requestPipe, requestQueue>>
        /\ dpc' = "write" <=> dpc = "write"
        /\ RequestClosed => RequestClosed'
    BY <1>5 DEF Register, ReadFrame, HandleResponse, HandleSignal, EndHandler, Leave,
       EmitLocal, RequestClosed, requestVars, dispatcherVars
  <2> QED BY <1>1, <2>1, BytesStay
<1> QED BY <1>2, <1>3, <1>4, <1>5

LEMMA BytesThread ==
  ASSUME TypeOK, ByteForEachRequest, NEW th \in Threads,
         \/ th \in Workers /\ (TestFd(th) \/ DeferAnswer(th))
         \/ PostResponse(th) \/ WriteFrame(th) \/ UseDeletedPipe(th)
         \/ th \in Tags /\ (FindCall(th) \/ TakeContinuation(th) \/ DeleteTag(th))
         \/ \E s \in Signals : EmitSignal(th, s)
  PROVE  ByteForEachRequest'
<1>1. UNCHANGED <<requestPipe, requestQueue, dpc>>
  BY DEF TestFd, DeferAnswer, PostResponse, Post, WriteFrame, UseDeletedPipe, FindCall,
         TakeContinuation, DeleteTag, EmitSignal, dispatcherVars, requestVars
<1>2. ASSUME NEW next \in ThreadPcs, pc' = [pc EXCEPT ![th] = next],
             next # "process", pc[th] # "process"
      PROVE  Poppers' = Poppers
  BY <1>2, OwnTypes DEF Poppers
<1>3. Poppers' = Poppers
  <2>1. CASE th \in Workers /\ TestFd(th)
    BY <1>2, <2>1 DEF TestFd, ThreadPcs
  <2>2. CASE th \in Workers /\ DeferAnswer(th)
    BY <2>2, OwnTypes DEF DeferAnswer, Poppers, Threads
  <2>3. CASE PostResponse(th)
    BY <1>2, <2>3 DEF PostResponse, Post, ThreadPcs, Writing
  <2>4. CASE WriteFrame(th)
    BY <1>2, <2>4 DEF WriteFrame, ThreadPcs, Writing
  <2>5. CASE UseDeletedPipe(th)
    BY <2>5 DEF UseDeletedPipe, threadVars, Poppers
  <2>6. CASE th \in Tags /\ (FindCall(th) \/ TakeContinuation(th) \/ DeleteTag(th))
    BY <1>2, <2>6 DEF FindCall, TakeContinuation, DeleteTag, ThreadPcs
  <2>7. ASSUME NEW s \in Signals, EmitSignal(th, s) PROVE Poppers' = Poppers
    BY <1>2, <2>7 DEF EmitSignal, Post, ThreadPcs, Writing
  <2> QED BY <2>1, <2>2, <2>3, <2>4, <2>5, <2>6, <2>7
<1> QED BY <1>1, <1>3, BytesStay DEF RequestClosed

\* A worker that has read its byte is one of those that are about to pop.
LEMMA BytesReadByte ==
  ASSUME TypeOK, ByteForEachRequest, NEW w \in Workers, ReadByte(w)
  PROVE  ByteForEachRequest'
<1>1. /\ pc[w] = "read" /\ requestPipe > 0 /\ requestPipe' = requestPipe - 1
      /\ pc' = [pc EXCEPT ![w] = "process"] /\ UNCHANGED <<requestQueue, dpc>>
  BY DEF ReadByte, dispatcherVars
<1>2. Poppers' = Poppers \cup {w} /\ w \notin Poppers
  BY <1>1, OwnTypes DEF Poppers, Threads
<1>3. Cardinality(Poppers') = Cardinality(Poppers) + 1
  BY <1>2, PoppersFinite, FS_AddElement
<1> SUFFICES ASSUME ~RequestClosed
             PROVE  requestPipe' + Cardinality(Poppers') + (IF dpc' = "write" THEN 1 ELSE 0)
                      = Len(requestQueue')
  BY <1>1 DEF ByteForEachRequest, RequestClosed, Poppers
<1>4. requestPipe + Cardinality(Poppers) + (IF dpc = "write" THEN 1 ELSE 0) = Len(requestQueue)
  BY DEF ByteForEachRequest, Poppers
<1> QED BY <1>1, <1>3, <1>4, PoppersFinite, SMTT(30) DEF TypeOK

\* Unless the pipe is closed a worker that is about to pop finds a request.
LEMMA BytesPopRequest ==
  ASSUME TypeOK, ByteForEachRequest, NEW w \in Workers, PopRequest(w)
  PROVE  ByteForEachRequest' /\ (requestQueue = <<>> => RequestClosed)
<1>1. /\ pc[w] = "process" /\ dpc # "write" /\ UNCHANGED <<requestPipe, dpc>>
      /\ \/ requestQueue = <<>> /\ pc' = [pc EXCEPT ![w] = "loop"]
         \/ /\ requestQueue # <<>> /\ pc' = [pc EXCEPT ![w] = "method"]
            /\ requestQueue' = PopFront(requestQueue)
  BY DEF PopRequest, RequestMutexFree, dispatcherVars
<1>2. Poppers' = Poppers \ {w} /\ w \in Poppers
  BY <1>1, OwnTypes DEF Poppers, Threads
<1>3. /\ Cardinality(Poppers') = Cardinality(Poppers) - 1
      /\ Cardinality(Poppers) > 0
  <2>1. Cardinality(Poppers) # 0
    BY <1>2, PoppersFinite, FS_EmptySet
  <2>2. Cardinality(Poppers') = Cardinality(Poppers) - 1
    <3>1. Cardinality(Poppers \ {w}) = Cardinality(Poppers) - 1
      BY <1>2, PoppersFinite, FS_RemoveElement, Zenon
    <3> QED BY <1>2, <3>1, Zenon
  <2> QED BY <2>1, <2>2, PoppersFinite
<1>4. CASE RequestClosed
  BY <1>1, <1>4 DEF ByteForEachRequest, RequestClosed
<1>5. CASE ~RequestClosed
  <2>1. requestPipe + Cardinality(Poppers) = Len(requestQueue)
    BY <1>1, <1>5, PoppersFinite DEF ByteForEachRequest, Poppers, TypeOK
  <2>2. requestQueue # <<>>
    <3>1. Len(requestQueue) # 0
      BY <1>3, <2>1, PoppersFinite DEF TypeOK
    <3> QED BY <3>1
  <2>3. Len(requestQueue') = Len(requestQueue) - 1
    BY <1>1, <2>2, OwnTypes, PopFrontFacts
  <2>4. requestPipe' + Cardinality(Poppers') + 0 = Len(requestQueue')
    BY <1>1, <1>3, <2>1, <2>3, PoppersFinite DEF TypeOK
  <2> QED BY <1>1, <2>2, <2>4 DEF ByteForEachRequest, Poppers
<1> QED BY <1>4, <1>5

LEMMA BytesNext == TypeOK /\ ByteForEachRequest /\ [Next]_vars => ByteForEachRequest'
<1> SUFFICES ASSUME TypeOK, ByteForEachRequest, [Next]_vars PROVE ByteForEachRequest'
  OBVIOUS
<1>1. UNCHANGED vars => ByteForEachRequest'
  BY DEF vars, dispatcherVars, requestVars, threadVars, ByteForEachRequest, RequestClosed
<1>2. ASSUME NEW w \in Workers, ReadClosed(w) PROVE ByteForEachRequest'
  BY <1>2 DEF ReadClosed, ByteForEachRequest, RequestClosed, dispatcherVars
<1>3. ASSUME NEW w \in Workers, TestFd(w) \/ DeferAnswer(w) PROVE ByteForEachRequest'
  BY <1>3, BytesThread DEF Threads
<1>4. ASSUME NEW u \in Tags, FindCall(u) \/ TakeContinuation(u) \/ DeleteTag(u)
      PROVE  ByteForEachRequest'
  BY <1>4, BytesThread DEF Threads
<1>5. CASE Next
  BY ONLY TypeOK, ByteForEachRequest, <1>1, <1>2, <1>3, <1>4, <1>5, StepCases,
     BytesDispatcher, BytesThread, BytesReadByte, BytesPopRequest, Zenon
<1> QED BY <1>1, <1>5

LEMMA BytesInit == Init => ByteForEachRequest
<1> SUFFICES ASSUME Init PROVE ByteForEachRequest OBVIOUS
<1>1. Poppers = {}
  BY DEF Init, Poppers, Threads
<1>2. requestPipe = 0 /\ requestQueue = <<>> /\ dpc = "iterate" /\ Len(requestQueue) = 0
  BY DEF Init
<1> QED BY <1>1, <1>2, FS_EmptySet DEF ByteForEachRequest, Poppers

-----------------------------------------------------------------------------
(* The theorems.                                                           *)

\* The inductive invariant: each Tag has one owner and stands for one call, and
\* the frames of the pipe and the contents of the two queues agree, in order,
\* with what has been posted and not yet sent.
THEOREM PiperCorrect == Spec => []PiperInv
<1>1. Init => TypeOK /\ PiperInv
  <2>1. Init => StopInv /\ RightCaller
    BY DEF Init, StopInv, StopPcs, StopPipe, RightCaller
  <2> QED BY <2>1, TypeInit, OwnInit, OrderInit, BytesInit DEF PiperInv
<1>2. TypeOK /\ PiperInv /\ [Next]_vars => TypeOK' /\ PiperInv'
  BY TypeNext, OwnNext, OrderNext, StopNext, RightCallerNext, BytesNext
  DEF PiperInv, Ownership
<1> QED BY <1>1, <1>2, PTL DEF Spec

\* The caller a reply is addressed to is the one whose call computed it, with
\* any number of workers and helpers answering in any order.
THEOREM RepliesReachTheirCallers == Spec => []RightCaller
BY PiperCorrect, PTL DEF PiperInv

\* Nothing is sent twice: a call is answered by the worker or by the helper it
\* was deferred to, never by both.
THEOREM NothingIsSentTwice == Spec => []SentOnce
<1>1. PiperInv => SentOnce
  BY DEF PiperInv, OneOrder, OnceInv, SentInv, SentOnce
<1> QED BY <1>1, PiperCorrect, PTL

\* Two queues and a pipe of frames keep the order in which the threads posted.
THEOREM SentAsPosted == Spec => []InOrder
<1>1. TypeOK /\ PiperInv => InOrder
  <2> SUFFICES ASSUME TypeOK, PiperInv PROVE InOrder OBVIOUS
  <2>1. /\ Len(sent) <= Len(posted)
        /\ \A i \in 1..Len(sent) : sent[i] = posted[i]
    BY DEF PiperInv, OneOrder, SentInv
  <2>2. sent = SubSeq(posted, 1, Len(sent))
    BY <2>1, OrderTypes
  <2> QED BY <2>1, <2>2 DEF InOrder
<1> QED BY <1>1, PiperCorrect, TypeCorrect, PTL

\* While request_pipefd is open no request lacks its wake-up and no worker
\* wakes up for nothing.
THEOREM WakeUpsMatchRequests == Spec => []ByteForEachRequest
BY PiperCorrect, PTL DEF PiperInv

\* As long as nobody calls leave(), no thread follows a pointer that stop_pipe()
\* has cleared or that a map no longer holds.
THEOREM NoBadPointer == ASSUME MayLeave = FALSE PROVE Spec => []CrashFree
<1>1. PiperInv => CrashFree
  BY DEF PiperInv, StopInv, CrashFree, PipeDeleted
<1> QED BY <1>1, PiperCorrect, PTL

\* And with leave(), no thread does before stop_pipe() has deleted the Pipe.
THEOREM BadPointersComeFromStopPipe == Spec => [](crashed => PipeDeleted)
<1>1. PiperInv => (crashed => PipeDeleted)
  BY DEF PiperInv, StopInv
<1> QED BY <1>1, PiperCorrect, PTL

-----------------------------------------------------------------------------
(* RequestPiper implements ForwardingService.                              *)

\* What waits grows at its end when an item is posted ...
LEMMA OutboxGrows ==
  ASSUME NEW S, NEW items \in Seq(S), NEW x \in S, NEW first \in 1..(Len(items) + 1)
  PROVE  SubSeq(Append(items, x), first, Len(Append(items, x)))
           = Append(SubSeq(items, first, Len(items)), x)
OBVIOUS

\* ... and loses its first item when that is sent.
LEMMA OutboxShrinks ==
  ASSUME NEW S, NEW items \in Seq(S), NEW first \in 1..Len(items)
  PROVE  /\ SubSeq(items, first, Len(items)) # <<>>
         /\ Head(SubSeq(items, first, Len(items))) = items[first]
         /\ Tail(SubSeq(items, first, Len(items))) = SubSeq(items, first + 1, Len(items))
<1>1. Len(items) \in first..Len(items)
  OBVIOUS
<1>2. SubSeq(items, first, Len(items)) # <<>>
  <2>1. Len(SubSeq(items, first, Len(items))) = Len(items) - first + 1
    OBVIOUS
  <2>2. Len(items) - first + 1 # 0
    OBVIOUS
  <2> QED BY <2>1, <2>2, EmptySeq
<1>3. /\ Head(SubSeq(items, first, Len(items))) = items[first]
      /\ Tail(SubSeq(items, first, Len(items))) = SubSeq(items, first + 1, Len(items))
  BY <1>1, HeadTailOfSubSeq
<1> QED BY <1>2, <1>3

\* Steps that neither the bus nor the application sees.
LEMMA ServiceStutters ==
  UNCHANGED <<accepted, emitted, posted, sent, running>> => UNCHANGED Service!vars
BY DEF Service!vars

LEMMA ServiceSteps ==
  ASSUME TypeOK, Ownership, OneOrder, [Next]_vars
  PROVE  [Service!Next]_(Service!vars)
<1> DEFINE Same == UNCHANGED <<accepted, emitted, posted, sent, running>>
           Goal == [Service!Next]_(Service!vars)
           Answered == {c \in Calls : \E i \in 1..Len(posted) : posted[i] = c}
           Outbox == SubSeq(posted, Len(sent) + 1, Len(posted))
<1>1. Same => Goal
  BY ServiceStutters
<1>2. Answered = Posted \cap Calls
  BY DEF Posted
<1>3. /\ posted \in Seq(Calls \cup Signals) /\ Len(posted) \in Nat
      /\ Len(sent) + 1 \in 1..(Len(posted) + 1)
  BY OrderTypes DEF OneOrder, SentInv
<1>4. ASSUME NEW c \in Calls, Deliver(c) PROVE Goal
  <2>1. /\ c \notin accepted /\ accepted' = accepted \cup {c}
        /\ UNCHANGED <<emitted, posted, sent, running>>
    BY <1>4 DEF Deliver
  <2>2. Service!Accept(c)
    BY <2>1 DEF Service!Accept
  <2> QED BY <2>2 DEF Service!Next
<1>5. ASSUME NEW th \in Threads, PostResponse(th) PROVE Goal
  <2>0. PICK call : call = job[th].call
    OBVIOUS
  <2>1. call \in Calls /\ call \in accepted /\ call \notin Posted
    BY <1>5, <2>0, FreshAnswer
  <2>2. /\ posted' = Append(posted, call)
        /\ UNCHANGED <<accepted, emitted, sent, running>>
    BY <1>5, <2>0 DEF PostResponse, Post, dispatcherVars
  <2>3. Outbox' = Append(Outbox, call)
    <3>1. SubSeq(posted', Len(sent') + 1, Len(posted'))
            = SubSeq(Append(posted, call), Len(sent) + 1, Len(Append(posted, call)))
      BY <2>1, <2>2
    <3>2. SubSeq(Append(posted, call), Len(sent) + 1, Len(Append(posted, call)))
            = Append(Outbox, call)
      <4>1. call \in Calls \cup Signals
        BY <2>1
      <4> QED BY ONLY <1>3, <4>1, OutboxGrows
    <3> QED BY <3>1, <3>2, Zenon
  <2>4. Answered' = Answered \cup {call}
    <3>1. /\ Len(posted') = Len(posted) + 1 /\ posted'[Len(posted) + 1] = call
          /\ \A i \in 1..Len(posted) : posted'[i] = posted[i]
      BY <1>3, <2>1, <2>2, AppendFacts
    <3>2. \A i \in 1..Len(posted') : i \in 1..Len(posted) \/ i = Len(posted) + 1
      BY <1>3, <3>1
    <3>3. \A i \in 1..Len(posted) : i \in 1..Len(posted')
      BY <1>3, <3>1
    <3>4. Len(posted) + 1 \in 1..Len(posted')
      BY <1>3, <3>1
    <3> QED BY <2>1, <3>1, <3>2, <3>3, <3>4
  <2>5. Service!Answer(call)
    BY <1>2, <2>1, <2>2, <2>3, <2>4 DEF Service!Answer
  <2> QED BY <2>1, <2>5 DEF Service!Next
<1>6. ASSUME NEW th \in Threads, NEW s \in Signals, EmitSignal(th, s) PROVE Goal
  <2>1. /\ posted' = Append(posted, s) /\ s \notin emitted /\ emitted' = emitted \cup {s}
        /\ UNCHANGED <<accepted, sent, running>>
    BY <1>6 DEF EmitSignal, Post, dispatcherVars
  <2>2. Outbox' = Append(Outbox, s)
    <3>1. SubSeq(posted', Len(sent') + 1, Len(posted'))
            = SubSeq(Append(posted, s), Len(sent) + 1, Len(Append(posted, s)))
      BY <2>1
    <3>2. SubSeq(Append(posted, s), Len(sent) + 1, Len(Append(posted, s)))
            = Append(Outbox, s)
      <4>1. s \in Calls \cup Signals
        OBVIOUS
      <4> QED BY ONLY <1>3, <4>1, OutboxGrows
    <3> QED BY <3>1, <3>2, Zenon
  <2>3. Answered' = Answered
    <3>1. /\ Len(posted') = Len(posted) + 1 /\ posted'[Len(posted) + 1] = s
          /\ \A i \in 1..Len(posted) : posted'[i] = posted[i]
      BY <1>3, <2>1, AppendFacts
    <3>2. \A i \in 1..Len(posted') : i \in 1..Len(posted) \/ i = Len(posted) + 1
      BY <1>3, <3>1
    <3>3. \A i \in 1..Len(posted) : i \in 1..Len(posted')
      BY <1>3, <3>1
    <3> QED BY <3>1, <3>2, <3>3
  <2>4. Service!Emit(s)
    BY <2>1, <2>2, <2>3 DEF Service!Emit
  <2> QED BY <2>4 DEF Service!Next
<1>7. ASSUME NEW s \in Signals, EmitLocal(s) PROVE Goal
  <2>1. /\ s \notin emitted /\ emitted' = emitted \cup {s}
        /\ UNCHANGED <<accepted, posted, sent, running>>
    BY <1>7 DEF EmitLocal, dispatcherVars
  <2>2. Service!Emit(s)
    BY <2>1 DEF Service!Emit
  <2> QED BY <2>2 DEF Service!Next
<1>8. ASSUME HandleResponse \/ HandleSignal PROVE Goal
  <2>1. /\ dpc = "handle" /\ PostMutexFree
        /\ UNCHANGED <<accepted, emitted, posted, running>>
    BY <1>8 DEF HandleResponse, HandleSignal, EndHandler
  <2>2. Len(sent) + 1 \in 1..Len(posted)
    BY <2>1, NextItem
  <2>3. sent' = Append(sent, posted[Len(sent) + 1])
    BY <1>8, ResponseMatchesTag, OrderHandleSignal DEF HandleSignal
  <2>4. Len(sent') = Len(sent) + 1
    BY <2>2, <2>3, OrderTypes, AppendFacts
  <2>5. /\ Outbox # <<>> /\ Head(Outbox) = posted[Len(sent) + 1]
        /\ Outbox' = Tail(Outbox)
    <3>1. SubSeq(posted', Len(sent') + 1, Len(posted'))
            = SubSeq(posted, (Len(sent) + 1) + 1, Len(posted))
      BY <2>1, <2>4
    <3> QED BY <1>3, <2>2, <3>1, OutboxShrinks
  <2>6. Answered' = Answered
    BY <2>1
  <2>7. Service!Transmit
    BY <2>1, <2>3, <2>5, <2>6 DEF Service!Transmit
  <2> QED BY <2>7 DEF Service!Next
<1>9. ASSUME Leave PROVE Goal
  <2>1. running' = FALSE /\ UNCHANGED <<accepted, emitted, posted, sent>>
    BY <1>9 DEF Leave, historyVars
  <2>2. Service!Close
    BY <2>1 DEF Service!Close
  <2> QED BY <2>2 DEF Service!Next
<1>10. /\ WriteRequest \/ Register \/ ReadFrame \/ Stop => Same
       /\ \A w \in Workers : TestFd(w) \/ ReadByte(w) \/ ReadClosed(w)
                             \/ PopRequest(w) \/ DeferAnswer(w) => Same
       /\ \A th \in Threads : WriteFrame(th) \/ UseDeletedPipe(th) => Same
       /\ \A u \in Tags : FindCall(u) \/ TakeContinuation(u) \/ DeleteTag(u) => Same
       /\ UNCHANGED vars => Same
  BY DEF WriteRequest, Register, ReadFrame, Stop, TestFd, ReadByte, ReadClosed, PopRequest,
         DeferAnswer, WriteFrame, UseDeletedPipe, FindCall, TakeContinuation, DeleteTag,
         vars, dispatcherVars, historyVars
<1> HIDE DEF Same, Goal
<1>11. /\ WriteRequest => Goal
       /\ Register => Goal
       /\ ReadFrame => Goal
       /\ Stop => Goal
       /\ \A w \in Workers : TestFd(w) \/ ReadByte(w) \/ ReadClosed(w)
                             \/ PopRequest(w) \/ DeferAnswer(w) => Goal
       /\ \A th \in Threads : WriteFrame(th) \/ UseDeletedPipe(th) => Goal
       /\ \A u \in Tags : FindCall(u) \/ TakeContinuation(u) \/ DeleteTag(u) => Goal
       /\ UNCHANGED vars => Goal
  BY ONLY <1>1, <1>10, Zenon
<1>12. ASSUME Next PROVE Goal
  BY ONLY <1>4, <1>5, <1>6, <1>7, <1>8, <1>9, <1>11, <1>12, StepCases, Zenon
<1>13. Goal
  BY ONLY [Next]_vars, <1>11, <1>12, Zenon
<1> QED BY <1>13 DEF Goal

\* What the dispatcher, the workers and the helpers do with two kernel pipes,
\* three queues and two maps is what the service does with one outbox: each
\* accepted call is answered once, and the outbox is sent in order.
THEOREM PiperIsAService == Spec => Service!Spec
<1>1. Init => Service!Init
  BY DEF Init, Service!Init
<1>2. TypeOK /\ PiperInv /\ [Next]_vars => [Service!Next]_(Service!vars)
  BY ServiceSteps DEF PiperInv
<1> QED BY <1>1, <1>2, TypeCorrect, PiperCorrect, PTL DEF Spec, Service!Spec
=============================================================================
