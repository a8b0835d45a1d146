----------------------------- MODULE Lifetimes ------------------------------
(***************************************************************************)
(* Who owns what: the handles of the library and the objects of libdbus    *)
(* behind them, in three parts that never meet.                            *)
(*                                                                         *)
(* "messages": the messages RequestPiper passes between the dispatcher,    *)
(*   its workers and the helpers that answer later (request-piper.cpp,     *)
(*   object.cpp, message.cpp), at the grain of the counters, which are not *)
(*   atomic.  (RequestPiper.tla has the same steps and what they are for.) *)
(* "pending": pending calls the application keeps, copies, assigns and     *)
(*   cancels (pendingcall.cpp).                                            *)
(* "connections": connections to a bus and those a server accepts, their   *)
(*   copies, and their end (connection.cpp, server.cpp).                   *)
(***************************************************************************)
EXTENDS RefCounting

CONSTANTS
  Calls,       \* calls that arrive; also names the helper that answers one
  Workers,     \* threads in worker_thread()
  Pending,     \* calls made with send_async()
  Clients,     \* connections the application opens on a bus
  Accepted,    \* connections a Server accepts
  Variables    \* what the application keeps a handle in

ASSUME DistinctAssumption ==
  /\ "dispatcher" \notin Workers \cup Calls
  /\ Workers \cap Calls = {} /\ Clients \cap Accepted = {}
ASSUME PendingAssumption ==  \* the second counter of a pending call is none's first
  \A p, q \in Pending : p # <<"notify", q>>

VARIABLES
  part,          \* which of the three this behaviour shows
  store,         \* handles, counters, Privates and counts of libdbus
  pc, job,       \* of each thread: its next statement, and the call it is at
  touching,      \* the counters the statement it executes reads and writes
  requestQueue, responseQueue,  \* by their calls
  arrived,       \* calls taken from the bus
  attached,      \* pending calls libdbus waits for the reply of
  notified,      \* pending calls whose notify function has run
  connected,     \* connections that have not been closed
  serverUp       \* the Server exists

threadVars  == <<pc, job, touching, requestQueue, responseQueue, arrived>>
pendingVars == <<attached, notified>>
connVars    == <<connected, serverUp>>
vars == <<part, store, threadVars, pendingVars, connVars>>

Threads == {"dispatcher"} \cup Workers \cup Calls
MessagesOf(c) == {<<"call", c>>, <<"answer", c>>}
Objects == (UNION {MessagesOf(c) : c \in Calls}) \cup Pending \cup Clients \cup Accepted

Init ==
  /\ part \in {"messages", "pending", "connections"}
  /\ store = EmptyStore(Objects)
  /\ pc = [th \in Threads |-> CASE th = "dispatcher" -> "loop"
                                [] th \in Workers    -> "pop"
                                [] OTHER             -> "none"]
  /\ job = [th \in Threads |-> "none"]
  /\ touching = [th \in Threads |-> {}]
  /\ requestQueue = << >> /\ responseQueue = << >> /\ arrived = {}
  /\ attached = {} /\ notified = {}
  /\ connected = {} /\ serverUp = TRUE

-----------------------------------------------------------------------------
(* Messages.  A place is a variable of a thread, or an element of a queue  *)
(* or map, which has the name of its call.                                 *)

Held(places) == places \cap DOMAIN store.handles
CountersOf(places) == {store.handles[p].cnt : p \in Held(places)}

Queued(role, queue) == {<<role, c>> : c \in ToSet(queue)}
Locals(th) == {<<"stub", th>>, <<"msg", th>>, <<"res", th>>}

\* What the statement at th touches: the messages it copies, moves or
\* destroys.  vector::push_back() may move every element, and erase() of the
\* first does.
Touches(th) ==
  LET c == job[th]
  IN CountersOf(
       CASE pc[th] = "forward" -> {<<"stub", th>>} \cup Queued("request", requestQueue)
         [] pc[th] = "record"  -> {<<"stub", th>>}
         [] pc[th] \in {"leave", "finish"} -> Locals(th)
         [] pc[th] = "pop"     -> Queued("request", requestQueue)
         [] pc[th] = "method"  -> {}
         [] pc[th] = "defer"   -> {<<"msg", th>>}
         [] pc[th] = "resume"  -> {<<"parked", c>>}
         [] pc[th] = "post"    -> Locals(th) \cup Queued("response", responseQueue)
                                    \cup Queued("answer", responseQueue)
         [] pc[th] = "take"    -> Queued("response", responseQueue)
                                    \cup Queued("answer", responseQueue)
         [] pc[th] = "send"    -> Locals(th) \cup {<<"continuation", c>>}
         [] OTHER              -> {})

\* The mutex the statement is executed under.
MutexOf(step) ==
  CASE step \in {"forward", "pop"}  -> "request_mutex"
    [] step \in {"post", "take"}    -> "response_n_signal_mutex"
    [] step \in {"defer", "resume"} -> "_pipe_continuations_mutex"
    [] OTHER                        -> "none"

\* Every statement takes time: it starts once it has its mutex and something
\* to take from its queue, and other threads go on before it ends.
Start(th) ==
  /\ part = "messages"
  /\ touching[th] = {}
  /\ pc[th] \notin {"none", "loop", "method"}
  /\ pc[th] = "pop" => requestQueue # << >>
  /\ pc[th] = "take" => responseQueue # << >>
  /\ MutexOf(pc[th]) # "none" =>
       \A u \in Threads \ {th} : MutexOf(pc[u]) = MutexOf(pc[th]) => touching[u] = {}
  /\ touching' = [touching EXCEPT ![th] = Touches(th)]
  /\ UNCHANGED <<part, store, pc, job, requestQueue, responseQueue, arrived,
                 pendingVars, connVars>>

\* The statement of th ends, and `next' is the one after it.
End(th, step, next) ==
  /\ pc[th] = step /\ touching[th] # {}
  /\ pc' = [pc EXCEPT ![th] = next]
  /\ touching' = [touching EXCEPT ![th] = {}]

\* message_function_stub(): libdbus has its own reference until it returns.
Deliver(c) ==
  /\ part = "messages"
  /\ pc["dispatcher"] = "loop" /\ c \notin arrived
  /\ arrived' = arrived \cup {c}
  /\ store' = Ref(Ref(NewPrivate(store, <<"stub", "dispatcher">>, <<"stub", c>>, <<"call", c>>),
                      <<"call", c>>), <<"call", c>>)
  /\ pc' = [pc EXCEPT !["dispatcher"] = "forward"]
  /\ job' = [job EXCEPT !["dispatcher"] = c]
  /\ UNCHANGED <<part, touching, requestQueue, responseQueue, pendingVars, connVars>>

\* _Forwarding_stub()
Forward ==
  LET c == job["dispatcher"] IN
  /\ End("dispatcher", "forward", "record")
  /\ store' = CopyApart(store, <<"stub", "dispatcher">>, <<"request", c>>, <<"request", c>>)
  /\ requestQueue' = Append(requestQueue, c)
  /\ UNCHANGED <<part, job, responseQueue, arrived, pendingVars, connVars>>

\* handle_message() makes the Continuation, whose message shares the Private.
Record ==
  /\ End("dispatcher", "record", "leave")
  /\ store' = CopyHandle(store, <<"stub", "dispatcher">>, <<"continuation", job["dispatcher"]>>)
  /\ UNCHANGED <<part, job, requestQueue, responseQueue, arrived, pendingVars, connVars>>

LeaveStub ==
  /\ End("dispatcher", "leave", "loop")
  /\ store' = Unref(DropHandle(store, <<"stub", "dispatcher">>), <<"call", job["dispatcher"]>>)
  /\ UNCHANGED <<part, job, requestQueue, responseQueue, arrived, pendingVars, connVars>>

\* process_pipe_request()
Pop(w) ==
  LET c == Head(requestQueue) IN
  /\ End(w, "pop", "method")
  /\ store' = DropHandle(CopyApart(store, <<"request", c>>, <<"msg", w>>, <<"msg", c>>),
                         <<"request", c>>)
  /\ requestQueue' = Tail(requestQueue)
  /\ job' = [job EXCEPT ![w] = c]
  /\ UNCHANGED <<part, responseQueue, arrived, pendingVars, connVars>>

\* A ReturnMessage adopts the message libdbus makes for it.
NewAnswer(s, th, c) ==
  Ref(NewPrivate(s, <<"res", th>>, <<"res", c>>, <<"answer", c>>), <<"answer", c>>)

Method(w) ==
  /\ pc[w] = "method"
  /\ \/ pc' = [pc EXCEPT ![w] = "post"] /\ store' = NewAnswer(store, w, job[w])
     \/ pc' = [pc EXCEPT ![w] = "defer"] /\ UNCHANGED store
  /\ UNCHANGED <<part, job, touching, requestQueue, responseQueue, arrived,
                 pendingVars, connVars>>

\* The method calls return_later(): a helper has the call from here on.
Defer(w) ==
  LET c == job[w] IN
  /\ pc[w] = "defer" /\ touching[w] # {}
  /\ store' = CopyApart(store, <<"msg", w>>, <<"parked", c>>, <<"parked", c>>)
  /\ pc' = [pc EXCEPT ![w] = "finish", ![c] = "resume"]
  /\ job' = [job EXCEPT ![c] = c]
  /\ touching' = [touching EXCEPT ![w] = {}]
  /\ UNCHANGED <<part, requestQueue, responseQueue, arrived, pendingVars, connVars>>

\* RequestPiper::return_now() in the helper, with a reply to the call.
Resume(c) ==
  /\ End(c, "resume", "post")
  /\ store' = NewAnswer(DropHandle(CopyApart(store, <<"parked", c>>, <<"msg", c>>, <<"call_msg", c>>),
                                   <<"parked", c>>), c, c)
  /\ UNCHANGED <<part, job, requestQueue, responseQueue, arrived, pendingVars, connVars>>

\* do_dispatch(): the queue gets Privates of its own.
Posted_Shared(s, th, c) ==
  CopyHandle(CopyApart(s, <<"msg", th>>, <<"response", c>>, <<"response", c>>),
             <<"res", th>>, <<"answer", c>>)
Posted(s, th, c) ==
  CopyApart(CopyApart(s, <<"msg", th>>, <<"response", c>>, <<"response", c>>),
            <<"res", th>>, <<"answer", c>>, <<"answer", c>>)

Post(th) ==
  /\ End(th, "post", "finish")
  /\ store' = Posted(store, th, job[th])
  /\ responseQueue' = Append(responseQueue, job[th])
  /\ UNCHANGED <<part, job, requestQueue, arrived, pendingVars, connVars>>

\* The thread's own messages go.
DropLocals(s, th) == DropHeld(DropHeld(s, <<"res", th>>), <<"msg", th>>)

Finish(th) ==
  /\ End(th, "finish", IF th \in Workers THEN "pop" ELSE "none")
  /\ store' = DropLocals(store, th)
  /\ UNCHANGED <<part, job, requestQueue, responseQueue, arrived, pendingVars, connVars>>

\* dispatcher_pipe_handler(): the answer is shared with the element that goes.
ReadFrame ==
  /\ part = "messages"
  /\ pc["dispatcher"] = "loop" /\ responseQueue # << >>
  /\ pc' = [pc EXCEPT !["dispatcher"] = "take"]
  /\ UNCHANGED <<part, store, job, touching, requestQueue, responseQueue,
                 arrived, pendingVars, connVars>>

Take ==
  LET c == Head(responseQueue)
      msg == CopyApart(store, <<"response", c>>, <<"msg", "dispatcher">>, <<"sent", c>>)
      res == CopyHandle(msg, <<"answer", c>>, <<"res", "dispatcher">>)
  IN
  /\ End("dispatcher", "take", "send")
  /\ store' = DropHandle(DropHandle(res, <<"response", c>>), <<"answer", c>>)
  /\ responseQueue' = Tail(responseQueue)
  /\ job' = [job EXCEPT !["dispatcher"] = c]
  /\ UNCHANGED <<part, requestQueue, arrived, pendingVars, connVars>>

\* do_send(): the Continuation goes, and the handler's own messages.
SendReply_KeepsContinuation ==
  /\ End("dispatcher", "send", "loop")
  /\ store' = DropLocals(store, "dispatcher")
  /\ UNCHANGED <<part, job, requestQueue, responseQueue, arrived, pendingVars, connVars>>
SendReply ==
  /\ End("dispatcher", "send", "loop")
  /\ store' = DropLocals(DropHandle(store, <<"continuation", job["dispatcher"]>>), "dispatcher")
  /\ UNCHANGED <<part, job, requestQueue, responseQueue, arrived, pendingVars, connVars>>

MessageStep ==
  \/ \E c \in Calls : Deliver(c) \/ Resume(c)
  \/ \E th \in Threads : Start(th) \/ Post(th) \/ Finish(th)
  \/ \E w \in Workers : Pop(w) \/ Method(w) \/ Defer(w)
  \/ Forward \/ Record \/ LeaveStub
  \/ ReadFrame \/ Take \/ SendReply

-----------------------------------------------------------------------------
(* The variables of the application. *)

Var(v) == <<"variable", v>>
Free(v) == Var(v) \notin DOMAIN store.handles
ObjectOf(v) == store.handles[Var(v)].obj
IsLast(v) == one(store, Var(v))

(* Pending calls. *)

\* libdbus keeps a reference until the call is answered or cancelled, the one
\* it returns is the handle's.
SendAsync(v, p) ==
  /\ part = "pending" /\ Free(v) /\ store.refs[p] = 0 /\ p \notin notified
  /\ store' = Ref(Ref(NewPrivate(store, Var(v), p, p), p), p)
  /\ attached' = attached \cup {p}
  /\ UNCHANGED <<part, threadVars, notified, connVars>>

\* What the library needs of the application: it keeps a handle of a call as
\* long as libdbus may notify it, and none later (notify_stub() deletes the
\* Private the handles share).
Usable(v)  == part = "pending" /\ ~Free(v) /\ ObjectOf(v) \in Pending \ notified
MayDrop(v) == Usable(v) /\ ~(IsLast(v) /\ ObjectOf(v) \in attached)

CopyPending(v, w) ==
  /\ Usable(v) /\ Free(w)
  /\ store' = CopyHandle(store, Var(v), Var(w))
  /\ UNCHANGED <<part, threadVars, pendingVars, connVars>>

AssignPending(v, w) ==
  /\ v # w /\ Usable(v) /\ MayDrop(w)
  /\ store' = AssignHandle(store, Var(w), Var(v))
  /\ UNCHANGED <<part, threadVars, pendingVars, connVars>>

DropPending(v) ==
  /\ MayDrop(v)
  /\ store' = DropHandle(store, Var(v))
  /\ UNCHANGED <<part, threadVars, pendingVars, connVars>>

Cancel(v) ==
  /\ Usable(v) /\ ObjectOf(v) \in attached
  /\ attached' = attached \ {ObjectOf(v)}
  /\ store' = Unref(store, ObjectOf(v))
  /\ UNCHANGED <<part, threadVars, notified, connVars>>

\* notify_stub(): a second counter for the Private, which the slot may copy,
\* and a reference of libdbus the stub does not take but drops.
Notify(p) ==
  LET pc1 == RefPtr(store, <<"pc", p>>, p, <<"notify", p>>, p)
      kept == {CopyHandle(pc1, <<"pc", p>>, Var(v)) : v \in {u \in Variables : Free(u)}}
  IN
  /\ p \in attached
  /\ \E s \in {pc1} \cup kept : store' = Unref(DropHandle(s, <<"pc", p>>), p)
  /\ attached' = attached \ {p}
  /\ notified' = notified \cup {p}
  /\ UNCHANGED <<part, threadVars, connVars>>

PendingStep ==
  \/ \E v \in Variables, p \in Pending : SendAsync(v, p)
  \/ \E v, w \in Variables : CopyPending(v, w) \/ AssignPending(v, w)
  \/ \E v \in Variables : DropPending(v) \/ Cancel(v)
  \/ \E p \in Pending : Notify(p)

-----------------------------------------------------------------------------
(* Connections. *)

\* Private::init() takes two references: one is given back by ~Private(), the
\* other by the Connection the Private is made for.
NewConnection(s, place, c) == Ref(Ref(NewPrivate(s, place, c, c), c), c)

\* ~Connection(), and ~Private() for the last.
DropConnection(s, place) ==
  LET c == s.handles[place].obj
  IN  IF one(s, place) THEN Unref(DropHandle(s, place), c) ELSE DropHandle(s, place)

\* ~Private() closes a connection that is not.
Closes_Never(s) == connected
Closes(s) == {c \in connected : c \in s.live}

\* dbus_bus_get_private() has taken a reference too, which no one gives back.
Open(v, c) ==
  /\ part = "connections" /\ Free(v) /\ store.refs[c] = 0
  /\ store' = NewConnection(Ref(store, c), Var(v), c)
  /\ connected' = connected \cup {c}
  /\ UNCHANGED <<part, threadVars, pendingVars, serverUp>>

\* on_new_conn_cb(): libdbus has a reference until it returns; the handler of
\* the application may keep a copy.
Accept(c) ==
  LET nc == <<"nc", c>>
      listed == CopyHandle(NewConnection(Ref(store, c), nc, c), nc, <<"connections", c>>)
      kept == {CopyHandle(listed, nc, Var(v)) : v \in {u \in Variables : Free(u)}}
  IN
  /\ part = "connections" /\ serverUp /\ store.refs[c] = 0
  /\ \E s \in {listed} \cup kept : store' = Unref(DropConnection(s, nc), c)
  /\ connected' = connected \cup {c}
  /\ UNCHANGED <<part, threadVars, pendingVars, serverUp>>

CopyConnection(v, w) ==
  /\ part = "connections" /\ ~Free(v) /\ Free(w)
  /\ store' = CopyHandle(store, Var(v), Var(w))
  /\ UNCHANGED <<part, threadVars, pendingVars, connVars>>

CloseVariable(v) ==
  /\ part = "connections" /\ ~Free(v)
  /\ store' = DropConnection(store, Var(v))
  /\ connected' = Closes(store')
  /\ UNCHANGED <<part, threadVars, pendingVars, serverUp>>

\* disconnect(), or the peer has gone.  detach_server() does nothing: the
\* server goes on to list the connection.
Disconnect(c) ==
  /\ c \in connected
  /\ connected' = connected \ {c}
  /\ UNCHANGED <<part, store, threadVars, pendingVars, serverUp>>

\* ~Server(): the list goes with its Private, and until it is empty nothing
\* else runs.
Listed == {c \in Accepted : <<"connections", c>> \in DOMAIN store.handles}
DestroyServer ==
  /\ part = "connections" /\ serverUp /\ serverUp' = FALSE
  /\ UNCHANGED <<part, store, threadVars, pendingVars, connected>>
DropListed(c) ==
  /\ part = "connections" /\ ~serverUp /\ c \in Listed
  /\ store' = DropConnection(store, <<"connections", c>>)
  /\ connected' = Closes(store')
  /\ UNCHANGED <<part, threadVars, pendingVars, serverUp>>

ConnectionStep ==
  \/ /\ serverUp \/ Listed = {}
     /\ \/ \E v \in Variables, c \in Clients : Open(v, c)
        \/ \E c \in Accepted : Accept(c)
        \/ \E v, w \in Variables : CopyConnection(v, w)
        \/ \E v \in Variables : CloseVariable(v)
        \/ \E c \in Clients \cup Accepted : Disconnect(c)
  \/ DestroyServer
  \/ \E c \in Accepted : DropListed(c)

-----------------------------------------------------------------------------
Next == MessageStep \/ PendingStep \/ ConnectionStep

Spec == Init /\ [][Next]_vars

-----------------------------------------------------------------------------
\* No two threads are at the same counter at once: what is passed from one to
\* another has a Private of its own ("to avoid sharing refcount instances
\* across threads", message.cpp:389-390), and the queues have their mutexes.
NoCounterRace ==
  \A th, u \in Threads : th # u => touching[th] \cap touching[u] = {}

\* The Private of a handle is not deleted before the handle goes, nor that of
\* a pending call while libdbus may pass it to notify_stub(); and libdbus
\* keeps an object as long as a handle has it.  (Handles of a pending call
\* are not used after its notification.)
InUse == {p \in DOMAIN store.handles : store.handles[p].obj \notin notified}
HandlesValid ==
  /\ \A p \in InUse :
       /\ store.handles[p].ptr \in store.live
       /\ store.refs[store.handles[p].obj] > 0
  /\ attached \subseteq store.live

\* What no one has a handle of is gone: a pending call that was cancelled or
\* never kept, a connection a server has accepted; one opened on a bus keeps
\* a reference.  Once every call has been answered and the threads rest, no
\* message is left.
Unheld == {o \in Objects \ (attached \cup notified) :
             \A p \in DOMAIN store.handles : store.handles[p].obj # o}
AllAnswered ==
  /\ part = "messages" /\ arrived = Calls
  /\ requestQueue = << >> /\ responseQueue = << >>
  /\ \A th \in Threads : pc[th] \in {"loop", "pop", "none"}
NothingLeft ==
  /\ \A o \in Unheld :
       IF o \in Clients THEN store.refs[o] <= 1 ELSE store.refs[o] = 0
  /\ \A k \in store.live : \E p \in DOMAIN store.handles : store.handles[p].ptr = k
  /\ AllAnswered => store = EmptyStore(Objects)

\* No connection loses its last reference, or its last handle, while it is
\* open: libdbus aborts the process for the first.
ClosedBeforeItEnds ==
  \A c \in connected : store.refs[c] > 0 /\ c \in store.live
=============================================================================
