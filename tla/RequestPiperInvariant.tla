----------------------- MODULE RequestPiperInvariant -----------------------
(***************************************************************************)
(* The inductive invariant of RequestPiper: who owns each Tag, and in      *)
(* which order the pipe and the queues carry answers and signals.          *)
(*                                                                         *)
(* A later_tag travels from request_queue to a worker, perhaps through     *)
(* _pipe_continuations to a helper, to response_n_signal_pipe and to the   *)
(* dispatcher, which deletes it.  Wherever it is, it is nowhere else.      *)
(***************************************************************************)
EXTENDS RequestPiper

LaterStages == Stages \ {"free", "user"}

WorkerPcs == {"loop", "read", "process", "method", "exited"} \cup Writing
HelperPcs == {"none", "method", "found", "answer", "delete"} \cup Writing

\* The program of each kind of thread, and when a thread holds a job.
JobInv ==
  /\ \A w \in Workers : /\ pc[w] \in WorkerPcs
                        /\ job[w] # NoJob <=> pc[w] \in {"method"} \cup Writing
  /\ \A u \in Tags : /\ pc[u] \in HelperPcs
                     /\ job[u] # NoJob <=> pc[u] \in {"answer", "writeReply"}

\* The dispatcher's variables are set where its program uses them.
DispatcherInv ==
  /\ dpc \in {"write", "register"} => /\ dcall \in Calls
                                      /\ dtag \in Tags
                                      /\ heap[dtag] \in LaterStages \ {"reply"}
  /\ dpc = "handle" /\ dtag # Null => heap[dtag] = "reply"
  /\ dpc \notin {"write", "register", "handle"} => dtag = Null

\* A later_tag has its continuation from the moment the dispatcher is back
\* in its loop, and no other Tag has one.
ContinuationInv ==
  \A t \in Tags :
    /\ heap[t] \in LaterStages =>
         \/ continuations[t] # Null
         \/ dpc \in {"write", "register"} /\ dtag = t
    /\ heap[t] \notin LaterStages => continuations[t] = Null

QueuedInv ==
  \A i \in 1..Len(requestQueue) :
    /\ heap[requestQueue[i].tag] = "queued"
    /\ \A j \in 1..Len(requestQueue) :
         requestQueue[i].tag = requestQueue[j].tag => i = j

ServedInv ==
  \A th \in Threads : job[th] # NoJob =>
    /\ heap[job[th].tag] = IF pc[th] = "writeReply" THEN "posted"
                                                    ELSE "serving"
    /\ \A other \in Threads : job[other] # NoJob /\ other # th =>
                                job[other].tag # job[th].tag

\* A helper's Tag is live while it runs, and names the parked pair until the
\* helper takes it.
ParkedInv ==
  \A u \in Tags :
    /\ pc[u] # "none" <=> heap[u] = "user"
    /\ pipeContinuations[u] # NoJob <=>
         pc[u] \in {"method", "writeSignal", "found"}
    /\ pipeContinuations[u] # NoJob =>
         /\ heap[pipeContinuations[u].tag] = "parked"
         /\ \A v \in Tags : pipeContinuations[v] # NoJob /\ v # u =>
              pipeContinuations[v].tag # pipeContinuations[u].tag

PostedInv ==
  \A i \in 1..Len(responsePipe) : responsePipe[i] # Null =>
    /\ heap[responsePipe[i]] = "posted"
    /\ \A j \in 1..Len(responsePipe) :
         responsePipe[j] = responsePipe[i] => i = j
    /\ \A th \in Threads : job[th].tag # responsePipe[i]

\* Each Tag has one owner.
Ownership == /\ JobInv /\ DispatcherInv /\ ContinuationInv
             /\ QueuedInv /\ ServedInv /\ ParkedInv /\ PostedInv

-----------------------------------------------------------------------------
(* What the Tags stand for, and why two queues and a pipe keep one order.   *)

\* The call a later_tag was made for: its continuation has been recorded, or
\* the dispatcher is about to record it.
CallOf(t) == IF dpc \in {"write", "register"} /\ dtag = t THEN dcall
                                                        ELSE continuations[t]

Posted == {posted[i] : i \in 1..Len(posted)}

\* The pairs of a call and a Tag that a queue, a thread or a map holds.
Pairs == {requestQueue[i] : i \in 1..Len(requestQueue)}
         \cup {job[th] : th \in Threads} \cup {pipeContinuations[u] : u \in Tags}

\* A pair keeps its call and its Tag together on its way through the process.
PairsInv == \A pair \in Pairs : pair # NoJob => pair.call = CallOf(pair.tag)

\* No two Tags stand for one call, and a call whose Tag is not yet in the
\* response pipe has not been answered.
CallsInv ==
  \A t \in Tags : heap[t] \in LaterStages =>
    /\ CallOf(t) \in accepted
    /\ \A u \in Tags : heap[u] \in LaterStages /\ CallOf(u) = CallOf(t) => u = t
    /\ heap[t] \in {"queued", "serving", "parked"} => CallOf(t) \notin Posted

\* No call is answered and no signal emitted twice.
OnceInv ==
  /\ Posted \subseteq accepted \cup emitted
  /\ \A i, k \in 1..Len(posted) : posted[i] = posted[k] => i = k

\* What has been sent is what was posted first.
SentInv ==
  /\ Len(sent) <= Len(posted)
  /\ \A i \in 1..Len(sent) : sent[i] = posted[i]

\* A frame announces an item: NULL a signal, a Tag the answer to its call.
Announces(frame, item) ==
  IF frame = Null THEN item \in Signals
                  ELSE item \in Calls /\ item = CallOf(frame)

\* The frames in the dispatcher's hand, in the pipe and in the hand of the
\* thread that holds response_n_signal_mutex announce the pending items one by
\* one, in the order posted.
InHand == IF dpc = "handle" THEN 1 ELSE 0
FrameOf(th) == IF pc[th] = "writeSignal" THEN Null ELSE job[th].tag

FramesInv ==
  /\ Len(posted) = Len(sent) + InHand + Len(responsePipe)
                   + (IF PostMutexFree THEN 0 ELSE 1)
  /\ dpc = "handle" => Announces(dtag, posted[Len(sent) + 1])
  /\ \A i \in 1..Len(responsePipe) :
       Announces(responsePipe[i], posted[Len(sent) + InHand + i])
  /\ \A th \in Threads : pc[th] \in Writing =>
       /\ Announces(FrameOf(th), posted[Len(posted)])
       /\ \A other \in Threads : pc[other] \in Writing => other = th

\* A queue holds those of the items from position first on that are of its
\* kind, in their order.
Holds(queue, kind, items, first) ==
  LET rest == first..Len(items)
  IN  /\ \A i \in 1..Len(queue) : \E k \in rest : items[k] = queue[i]
      /\ \A k \in rest : items[k] \in kind =>
           \E i \in 1..Len(queue) : queue[i] = items[k]
      /\ \A i, j \in 1..Len(queue) : i < j =>
           \A k, l \in rest : items[k] = queue[i] /\ items[l] = queue[j] => k < l

\* The queues hold what has been posted and not yet sent.
QueuesInv == /\ Holds(responseQueue, Calls, posted, Len(sent) + 1)
             /\ Holds(signalQueue, Signals, posted, Len(sent) + 1)

\* The pipe and the two queues carry one sequence of answers and signals.
OneOrder == /\ PairsInv /\ CallsInv /\ OnceInv
            /\ SentInv /\ FramesInv /\ QueuesInv

\* stop_pipe() runs only after leave(), and a pointer is bad only after it.
StopInv == /\ ~MayLeave => running
           /\ dpc \in StopPcs => ~running
           /\ crashed => PipeDeleted

\* What every step of RequestPiper keeps.
PiperInv == Ownership /\ OneOrder /\ StopInv /\ RightCaller /\ ByteForEachRequest
=============================================================================
