---------------------------- MODULE RequestPiper ----------------------------
(***************************************************************************)
(* RequestPiper (src/src/request-piper.cpp): method calls that arrive on   *)
(* the dispatcher thread are handed to worker threads, and the replies and *)
(* signals of those threads are handed back to the dispatcher, the only    *)
(* thread that writes to the D-Bus connection.                             *)
(*                                                                         *)
(*   dispatcher --request_queue + one byte in request_pipefd--> worker     *)
(*   worker --response_queue / signal_queue + a Tag* in                    *)
(*            response_n_signal_pipe--> dispatcher                         *)
(*                                                                         *)
(* The threads are the dispatcher, the workers that run worker_thread(),   *)
(* and the helper threads an application starts from tag_registered() to   *)
(* answer a call its worker deferred (src/examples/echo_mt).  A helper is  *)
(* named by the Tag it is started with.  A critical section that cannot    *)
(* block is one step; the two mutexes that are held across a blocking      *)
(* write() are held for as long as a thread is at that write.              *)
(***************************************************************************)
EXTENDS Naturals, Sequences, FiniteSets

CONSTANTS
  Calls,            \* incoming calls of methods re-pointed to _Forwarding_stub
  Signals,          \* signals the threads may emit, each once
  Workers,          \* threads that run worker_thread()
  Tags,             \* heap addresses a Tag may occupy; reused after delete
  Null,             \* the NULL Tag*, which announces a signal; also "nothing"
  RequestCapacity,  \* bytes request_pipefd holds before write() blocks
  PipeCapacity,     \* frames response_n_signal_pipe holds before write() blocks
  MayLeave          \* whether BusDispatcher::leave() may be called

ASSUME NullAssumption == Null \notin Calls \cup Signals \cup Workers \cup Tags
ASSUME DisjointAssumption == Calls \cap Signals = {} /\ Workers \cap Tags = {}
ASSUME CapacityAssumption == RequestCapacity \in Nat /\ PipeCapacity \in Nat
ASSUME WorkersAssumption == IsFiniteSet(Workers)

VARIABLES
  running,           \* BusDispatcher::_running
  dpc,               \* where the dispatcher thread is
  dcall, dtag,       \* the call and the Tag the dispatcher has in hand
  requestQueue,      \* request_queue: calls with the Tag made for each
  requestPipe,       \* number of bytes in request_pipefd
  pc,                \* where each worker and each helper is
  job,               \* the (call, Tag) each of them is answering
  responseQueue,     \* response_queue
  signalQueue,       \* signal_queue
  responsePipe,      \* frames in response_n_signal_pipe
  continuations,     \* ObjectAdaptor::_continuations, by Tag
  pipeContinuations, \* RequestPiper::_pipe_continuations, by Tag
  heap,              \* what each address holds, and at which stage it is
  crashed,           \* the process has died of a bad pointer
  \* History:
  accepted,          \* calls the dispatcher took from the connection
  emitted,           \* signals some thread has emitted
  posted,            \* calls answered and signals emitted, in the order posted
  sent,              \* the same, in the order the dispatcher sent them
  replied            \* the call whose result each caller was sent

dispatcherVars == <<running, dpc, dcall, dtag>>
requestVars    == <<requestQueue, requestPipe>>
threadVars     == <<pc, job>>
responseVars   == <<responseQueue, signalQueue, responsePipe>>
tagVars        == <<continuations, pipeContinuations, heap>>
historyVars    == <<accepted, emitted, posted, sent, replied>>
vars == <<dispatcherVars, requestVars, threadVars, responseVars, tagVars,
          historyVars, crashed>>

-----------------------------------------------------------------------------
Threads == Workers \cup Tags
Jobs    == [call : Calls, tag : Tags]
NoJob   == [call |-> Null, tag |-> Null]

\* The stages of an address: free memory; a later_tag of _Forwarding_stub
\* that is queued, being served, parked in _pipe_continuations, posted to the
\* response pipe, or in the dispatcher's hand; or the Tag of a helper.
Stages == {"free", "queued", "serving", "parked", "posted", "reply", "user"}

\* The steps of stop_pipe() and of main() after it, in order.
StopPipe == <<"del_pipe", "null_pipe", "close_read", "close_write", "join">>
StopPcs  == {StopPipe[i] : i \in 1..5} \cup {"exit"}

DispatcherPcs == {"iterate", "write", "register", "handle"} \cup StopPcs
Writing       == {"writeSignal", "writeReply"}
ThreadPcs     == {"none", "loop", "read", "process", "method", "found",
                  "answer", "delete", "exited"} \cup Writing

\* What stop_pipe() has done to response_n_signal_pipe and request_pipefd.
PipeDeleted   == dpc \in StopPcs \ {"del_pipe"}
PipeIsNull    == dpc \in StopPcs \ {"del_pipe", "null_pipe"}
RequestClosed_Never == FALSE
RequestClosed == dpc \in {"close_write", "join", "exit"}

\* response_n_signal_mutex is held by a thread in Pipe::write().
PostMutexFree_NotLocked == TRUE
PostMutexFree == \A th \in Threads : pc[th] \notin Writing
\* request_mutex is held by the dispatcher in write().
RequestMutexFree == dpc # "write"

TypeOK ==
  /\ running \in BOOLEAN
  /\ dpc \in DispatcherPcs
  /\ dcall \in Calls \cup {Null}
  /\ dtag \in Tags \cup {Null}
  /\ requestQueue \in Seq(Jobs)
  /\ requestPipe \in Nat
  /\ pc \in [Threads -> ThreadPcs]
  /\ job \in [Threads -> Jobs \cup {NoJob}]
  /\ responseQueue \in Seq(Calls)
  /\ signalQueue \in Seq(Signals)
  /\ responsePipe \in Seq(Tags \cup {Null})
  /\ continuations \in [Tags -> Calls \cup {Null}]
  /\ pipeContinuations \in [Tags -> Jobs \cup {NoJob}]
  /\ heap \in [Tags -> Stages]
  /\ crashed \in BOOLEAN
  /\ accepted \in SUBSET Calls
  /\ emitted \in SUBSET Signals
  /\ posted \in Seq(Calls \cup Signals)
  /\ sent \in Seq(Calls \cup Signals)
  /\ replied \in [Calls -> Calls \cup {Null}]

Init ==
  /\ running = TRUE /\ dpc = "iterate" /\ dcall = Null /\ dtag = Null
  /\ requestQueue = <<>> /\ requestPipe = 0
  /\ pc = [th \in Threads |-> IF th \in Workers THEN "loop" ELSE "none"]
  /\ job = [th \in Threads |-> NoJob]
  /\ responseQueue = <<>> /\ signalQueue = <<>> /\ responsePipe = <<>>
  /\ continuations = [t \in Tags |-> Null]
  /\ pipeContinuations = [t \in Tags |-> NoJob]
  /\ heap = [t \in Tags |-> "free"]
  /\ crashed = FALSE
  /\ accepted = {} /\ emitted = {} /\ posted = <<>> /\ sent = <<>>
  /\ replied = [c \in Calls |-> Null]

-----------------------------------------------------------------------------
(* What the steps do to the queues, the pipe and the two maps.  A definition *)
(* whose name has the form <Name>_<Fault> is <Name> with a fault put in; no  *)
(* specification uses it, the mutants of PROJECT.json do.                    *)

\* erase(begin()) of the three queues.
PopFront_Keeps(queue) == queue
PopFront(queue) == Tail(queue)

\* The byte that wakes a worker.
Wake_WhenIdle == IF Len(requestQueue) > 1 THEN requestPipe ELSE requestPipe + 1
Wake == requestPipe + 1

\* The deferred pair is stored under the new Tag, u.
Park_OldTag(u, pair) == [pipeContinuations EXCEPT ![pair.tag] = pair]
Park(u, pair) == [pipeContinuations EXCEPT ![u] = pair]

\* return_now() of ObjectAdaptor erases the continuation it has used.
Erase_Forgotten(t) == continuations
Erase_All(t) == [u \in Tags |-> Null]
Erase(t) == [continuations EXCEPT ![t] = Null]

-----------------------------------------------------------------------------
(* The dispatcher thread: BusDispatcher::enter() and what it calls.        *)

\* handle_message() calls _Forwarding_stub(): a new Tag, and the pair pushed
\* on request_queue with request_mutex locked.
Deliver(c) ==
  /\ dpc = "iterate" /\ dpc' = "write"
  /\ c \notin accepted
  /\ \E t \in Tags :
       /\ heap[t] = "free"
       /\ heap' = [heap EXCEPT ![t] = "queued"]
       /\ requestQueue' = Append(requestQueue, [call |-> c, tag |-> t])
       /\ dtag' = t
  /\ dcall' = c
  /\ accepted' = accepted \cup {c}
  /\ UNCHANGED <<running, requestPipe, threadVars, responseVars, continuations,
                 pipeContinuations, emitted, posted, sent, replied, crashed>>

\* The one-byte write, with request_mutex still locked: it blocks while the
\* pipe is full.  Then the mutex is unlocked and return_later() throws.
WriteRequest ==
  /\ dpc = "write" /\ dpc' = "register"
  /\ requestPipe < RequestCapacity
  /\ requestPipe' = Wake
  /\ UNCHANGED <<running, dcall, dtag, requestQueue, threadVars, responseVars,
                 tagVars, historyVars, crashed>>

\* handle_message() catches the ReturnLaterError and records the
\* continuation; tag_registered() of a plain Tag does nothing.
Register ==
  /\ dpc = "register" /\ dpc' = "iterate"
  /\ continuations' = [continuations EXCEPT ![dtag] = dcall]
  /\ dtag' = Null /\ dcall' = Null
  /\ UNCHANGED <<running, requestVars, threadVars, responseVars,
                 pipeContinuations, heap, historyVars, crashed>>

\* _emit_signal() on the dispatcher thread bypasses the queue and the pipe.
EmitLocal(s) ==
  /\ dpc = "iterate"
  /\ s \notin emitted
  /\ emitted' = emitted \cup {s}
  /\ UNCHANGED <<dispatcherVars, requestVars, threadVars, responseVars,
                 tagVars, accepted, posted, sent, replied, crashed>>

\* enter() reads one frame of the pipe and calls its handler.
ReadFrame ==
  /\ dpc = "iterate" /\ dpc' = "handle"
  /\ responsePipe # <<>>
  /\ responsePipe' = Tail(responsePipe)
  /\ dtag' = Head(responsePipe)
  /\ heap' = [t \in Tags |-> IF t = Head(responsePipe) THEN "reply"
                                                       ELSE heap[t]]
  /\ UNCHANGED <<running, dcall, requestVars, threadVars, responseQueue,
                 signalQueue, continuations, pipeContinuations, historyVars,
                 crashed>>

\* After each frame the loop of enter() tests _running again.
EndHandler ==
  /\ dpc = "handle" /\ dpc' = IF running THEN "iterate" ELSE "del_pipe"
  /\ PostMutexFree
  /\ dtag' = Null
  /\ UNCHANGED <<running, dcall, requestVars, threadVars, responsePipe,
                 pipeContinuations, accepted, emitted, posted, crashed>>

\* dispatcher_pipe_handler() with a Tag pops the first response.  do_send():
\* return_now() copies its body into the method return that was made with the
\* continuation, sends it and erases the continuation; without a continuation
\* nothing is sent.  The Tag is deleted.  (A Tag that is also a key of
\* _pipe_continuations would be piped again; ContinuationFound excludes it.)
HandleResponse ==
  /\ EndHandler
  /\ dtag # Null
  /\ responseQueue # <<>>
  /\ responseQueue' = PopFront(responseQueue)
  /\ IF continuations[dtag] # Null /\ pipeContinuations[dtag] = NoJob
     THEN /\ replied' = [replied EXCEPT ![continuations[dtag]] =
                           Head(responseQueue)]
          /\ sent' = Append(sent, continuations[dtag])
          /\ continuations' = Erase(dtag)
     ELSE UNCHANGED <<replied, sent, continuations>>
  /\ heap' = [heap EXCEPT ![dtag] = "free"]
  /\ UNCHANGED signalQueue

\* dispatcher_pipe_handler() with NULL pops the first signal and sends it.
HandleSignal ==
  /\ EndHandler
  /\ dtag = Null
  /\ signalQueue # <<>>
  /\ signalQueue' = PopFront(signalQueue)
  /\ sent' = Append(sent, Head(signalQueue))
  /\ UNCHANGED <<responseQueue, continuations, heap, replied>>

\* BusDispatcher::leave(), at any moment, from a signal handler.
Leave ==
  /\ MayLeave
  /\ running /\ running' = FALSE
  /\ UNCHANGED <<dpc, dcall, dtag, requestVars, threadVars, responseVars,
                 tagVars, historyVars, crashed>>

\* The loop of enter() ends.  main() calls stop_pipe(), which deletes the
\* Pipe, clears the pointer and closes both ends of request_pipefd, all
\* without a mutex; then it joins the workers and returns.
Stop ==
  /\ \/ dpc = "iterate" /\ ~running /\ dpc' = "del_pipe"
     \/ \E i \in 1..4 : dpc = StopPipe[i] /\ dpc' = StopPipe[i + 1]
     \/ dpc = "join" /\ dpc' = "exit" /\ \A w \in Workers : pc[w] = "exited"
  /\ UNCHANGED <<running, dcall, dtag, requestVars, threadVars, responseVars,
                 tagVars, historyVars, crashed>>

-----------------------------------------------------------------------------
(* The workers: worker_thread(), check_pipe_request() and                  *)
(* process_pipe_request().                                                 *)

\* The loop condition of worker_thread().
TestFd(w) ==
  /\ pc[w] = "loop"
  /\ pc' = [pc EXCEPT ![w] = IF RequestClosed THEN "exited" ELSE "read"]
  /\ UNCHANGED <<dispatcherVars, requestVars, job, responseVars, tagVars,
                 historyVars, crashed>>

\* check_pipe_request() reads a byte, and waits while there is none.
ReadByte_NoWait(w) ==
  /\ pc[w] = "read"
  /\ requestPipe' = requestPipe - 1
  /\ pc' = [pc EXCEPT ![w] = "process"]
  /\ UNCHANGED <<dispatcherVars, requestQueue, job, responseVars, tagVars,
                 historyVars, crashed>>
ReadByte(w) ==
  /\ pc[w] = "read"
  /\ requestPipe > 0
  /\ requestPipe' = requestPipe - 1
  /\ pc' = [pc EXCEPT ![w] = "process"]
  /\ UNCHANGED <<dispatcherVars, requestQueue, job, responseVars, tagVars,
                 historyVars, crashed>>

\* Once stop_pipe() has closed the pipe, read() fails or finds the end of the
\* file and check_pipe_request() returns; or its loop sees the descriptor -1
\* and goes on to process_pipe_request() although no byte was read.
ReadClosed(w) ==
  /\ pc[w] = "read"
  /\ RequestClosed
  /\ \E next \in {"loop", "process"} : pc' = [pc EXCEPT ![w] = next]
  /\ UNCHANGED <<dispatcherVars, requestVars, job, responseVars, tagVars,
                 historyVars, crashed>>

\* process_pipe_request() pops the first request, if there is one.
PopRequest(w) ==
  /\ pc[w] = "process"
  /\ RequestMutexFree
  /\ IF requestQueue = <<>>
     THEN /\ pc' = [pc EXCEPT ![w] = "loop"]
          /\ UNCHANGED <<job, requestQueue, heap>>
     ELSE /\ pc' = [pc EXCEPT ![w] = "method"]
          /\ job' = [job EXCEPT ![w] = Head(requestQueue)]
          /\ requestQueue' = PopFront(requestQueue)
          /\ heap' = [heap EXCEPT ![Head(requestQueue).tag] = "serving"]
  /\ UNCHANGED <<dispatcherVars, requestPipe, continuations,
                 pipeContinuations, responseVars, historyVars, crashed>>

\* The method calls return_later() with a Tag of its own.  The pair is stored
\* in _pipe_continuations under that Tag before tag_registered() starts the
\* helper thread that will answer.
DeferAnswer(w) ==
  /\ w \in Workers
  /\ pc[w] = "method"
  /\ \E u \in Tags :
       /\ heap[u] = "free"
       /\ heap' = [heap EXCEPT ![u] = "user", ![job[w].tag] = "parked"]
       /\ pipeContinuations' = Park(u, job[w])
       /\ pc' = [pc EXCEPT ![w] = "loop", ![u] = "method"]
  /\ job' = [job EXCEPT ![w] = NoJob]
  /\ UNCHANGED <<dispatcherVars, requestVars, continuations, responseVars,
                 historyVars, crashed>>

-----------------------------------------------------------------------------
(* Posting to the dispatcher, from a worker or a helper.                   *)

\* _emit_signal() and do_dispatch() lock response_n_signal_mutex, push, and
\* follow response_n_signal_pipe, which stop_pipe() may have cleared.
Post(th, next, event) ==
  /\ PostMutexFree
  /\ pc' = [pc EXCEPT ![th] = next]
  /\ posted' = Append(posted, event)
  /\ crashed' = PipeIsNull
  /\ UNCHANGED <<dispatcherVars, requestVars, job, responsePipe,
                 continuations, pipeContinuations, accepted, sent, replied>>

\* _emit_signal() on another thread than the dispatcher.
EmitSignal(th, s) ==
  /\ pc[th] = "method"
  /\ s \notin emitted
  /\ emitted' = emitted \cup {s}
  /\ Post(th, "writeSignal", s)
  /\ signalQueue' = Append(signalQueue, s)
  /\ UNCHANGED <<responseQueue, heap>>

\* do_dispatch() of a result: a worker's method returned or raised an Error,
\* or a helper's return_now() found the call.
PostResponse(th) ==
  /\ (th \in Workers /\ pc[th] = "method") \/ pc[th] = "answer"
  /\ Post(th, "writeReply", job[th].call)
  /\ responseQueue' = Append(responseQueue, job[th].call)
  /\ heap' = [heap EXCEPT ![job[th].tag] = "posted"]
  /\ UNCHANGED <<signalQueue, emitted>>

\* Pipe::write() of the Tag, which blocks while the pipe is full, and the
\* unlock.  If the Pipe has been deleted meanwhile this is one outcome among
\* several: the bytes go to descriptors that nobody closed and nobody reads.
WriteFrame(th) ==
  /\ pc[th] \in Writing
  /\ Len(responsePipe) < PipeCapacity
  /\ IF pc[th] = "writeSignal"
     THEN /\ responsePipe' = Append(responsePipe, Null)
          /\ pc' = [pc EXCEPT ![th] = "method"]
          /\ UNCHANGED job
     ELSE /\ responsePipe' = Append(responsePipe, job[th].tag)
          /\ pc' = [pc EXCEPT ![th] = IF th \in Workers THEN "loop"
                                                       ELSE "delete"]
          /\ job' = [job EXCEPT ![th] = NoJob]
  /\ UNCHANGED <<dispatcherVars, requestVars, responseQueue, signalQueue,
                 tagVars, historyVars, crashed>>

\* The other outcome of writing to a deleted Pipe.
UseDeletedPipe(th) ==
  /\ pc[th] \in Writing
  /\ PipeDeleted
  /\ crashed' = TRUE
  /\ UNCHANGED <<dispatcherVars, requestVars, threadVars, responseVars,
                 tagVars, historyVars>>

-----------------------------------------------------------------------------
(* A helper: other_thread_sum() of the echo_mt example.                    *)

\* find_continuation_call_message() looks the Tag up, and the helper reads
\* the call through the pointer it got.
FindCall(u) ==
  /\ u \in Tags
  /\ pc[u] = "method"
  /\ pc' = [pc EXCEPT ![u] = "found"]
  /\ crashed' = (pipeContinuations[u] = NoJob /\ continuations[u] = Null)
  /\ UNCHANGED <<dispatcherVars, requestVars, job, responseVars, tagVars,
                 historyVars>>

\* RequestPiper::return_now() takes the pair out of _pipe_continuations.
TakeContinuation(u) ==
  /\ u \in Tags
  /\ pc[u] = "found"
  /\ pipeContinuations[u] # NoJob
  /\ job' = [job EXCEPT ![u] = pipeContinuations[u]]
  /\ heap' = [heap EXCEPT ![pipeContinuations[u].tag] = "serving"]
  /\ pipeContinuations' = [pipeContinuations EXCEPT ![u] = NoJob]
  /\ pc' = [pc EXCEPT ![u] = "answer"]
  /\ UNCHANGED <<dispatcherVars, requestVars, continuations, responseVars,
                 historyVars, crashed>>

\* The helper deletes its Tag and ends.
DeleteTag(u) ==
  /\ u \in Tags
  /\ pc[u] = "delete"
  /\ heap' = [heap EXCEPT ![u] = "free"]
  /\ pc' = [pc EXCEPT ![u] = "none"]
  /\ UNCHANGED <<dispatcherVars, requestVars, job, continuations,
                 pipeContinuations, responseVars, historyVars, crashed>>

-----------------------------------------------------------------------------
DispatcherStep ==
  \/ WriteRequest \/ Register \/ ReadFrame \/ HandleResponse \/ HandleSignal
  \/ Stop

\* The steps of a thread that its program obliges it to take; emitting a
\* signal and deferring the answer are choices of the application, and dying
\* on a deleted Pipe is one outcome of undefined behaviour.
ThreadStep(th) ==
  \/ th \in Workers /\ (TestFd(th) \/ ReadByte(th) \/ ReadClosed(th)
                        \/ PopRequest(th))
  \/ PostResponse(th)
  \/ WriteFrame(th)
  \/ FindCall(th) \/ TakeContinuation(th) \/ DeleteTag(th)

Environment ==
  \/ \E c \in Calls : Deliver(c)
  \/ \E s \in Signals : EmitLocal(s)
  \/ Leave
  \/ \E th \in Threads : \/ DeferAnswer(th)
                         \/ \E s \in Signals : EmitSignal(th, s)
                         \/ UseDeletedPipe(th)

Alive == ~crashed /\ dpc # "exit"

\* Nothing is left to do: the dispatcher waits in poll() and the workers in
\* read(), or the process has ended.
Quiescent ==
  \/ ~Alive
  \/ /\ dpc = "iterate" /\ running /\ responsePipe = <<>>
     /\ \A w \in Workers : pc[w] = "read" /\ requestPipe = 0
     /\ \A u \in Tags : pc[u] = "none"

Next ==
  \/ Alive /\ (Environment \/ DispatcherStep)
  \/ Alive /\ \E th \in Threads : ThreadStep(th)
  \/ Quiescent /\ UNCHANGED vars

Spec == Init /\ [][Next]_vars

\* Every iteration of enter() serves the pipe, the kernel schedules every
\* thread, and methods and helpers come to an end.
FairSpec ==
  /\ Spec
  /\ WF_vars(Alive /\ DispatcherStep)
  /\ \A th \in Threads : WF_vars(Alive /\ ThreadStep(th))

-----------------------------------------------------------------------------
(* Properties.                                                             *)

\* The dispatcher finds the continuation of every response it takes from the
\* pipe, although a worker may post the response before handle_message() has
\* recorded the continuation (comment in _Forwarding_stub(), lines 65-70).
\* Otherwise return_now() drops the reply and the caller waits for ever.
ContinuationFound ==
  dpc = "handle" /\ dtag # Null => /\ continuations[dtag] # Null
                                   /\ pipeContinuations[dtag] = NoJob

\* The Tag comes through the pipe and the response through the queue; still
\* the caller a reply is addressed to is the one whose call computed it.
RightCaller ==
  \A c \in Calls : replied[c] \in {c, Null}

\* No call is answered twice, whatever thread answers it, and no signal is
\* sent twice.
SentOnce ==
  \A i, j \in 1..Len(sent) : sent[i] = sent[j] => i = j

\* Replies and signals leave in the order the threads posted them: a signal
\* emitted before a reply is sent before it.
InOrder ==
  /\ Len(sent) <= Len(posted)
  /\ sent = SubSeq(posted, 1, Len(sent))

\* Every byte of the request pipe stands for one queued request, so that no
\* request waits without a wake-up and no worker finds the queue empty.
ByteForEachRequest ==
  ~RequestClosed =>
    requestPipe + Cardinality({w \in Workers : pc[w] = "process"})
                + (IF dpc = "write" THEN 1 ELSE 0) = Len(requestQueue)

\* No Tag is used after its delete: whatever a queue, a map, the pipe or a
\* thread holds is still allocated.
HeldTagsAreAllocated ==
  /\ \A i \in 1..Len(requestQueue) : heap[requestQueue[i].tag] # "free"
  /\ \A i \in 1..Len(responsePipe) :
       responsePipe[i] # Null => heap[responsePipe[i]] # "free"
  /\ \A th \in Threads : job[th] # NoJob => heap[job[th].tag] # "free"
  /\ \A u \in Tags : pipeContinuations[u] # NoJob =>
       heap[u] # "free" /\ heap[pipeContinuations[u].tag] # "free"
  /\ \A t \in Tags : continuations[t] # Null => heap[t] # "free"
  /\ dtag # Null => heap[dtag] # "free"

\* Holding response_n_signal_mutex, a thread waits for room in the pipe.
WriterBlocked ==
  \E th \in Threads : pc[th] \in Writing /\ Len(responsePipe) = PipeCapacity

\* The dispatcher, which alone empties the response pipe, never waits for
\* response_n_signal_mutex while its holder waits for room in that pipe.
HandlerNotBlocked == ~(dpc = "handle" /\ WriterBlocked)

\* No thread follows a bad pointer.
CrashFree == ~crashed

\* Every call the service accepts is answered, unless leave() comes first.
EveryCallAnswered ==
  \A c \in Calls : c \in accepted ~> replied[c] # Null \/ ~running

\* After leave(), stop_pipe() and pthread_join() come to an end, unless a
\* thread waits for room in the response pipe, which no one reads any more.
LeaveEnds == ~running ~> ~Alive \/ (dpc = "join" /\ WriterBlocked)
=============================================================================
