------------------------- MODULE ConnectionDispatch -------------------------
(***************************************************************************)
(* How messages get from the sockets of the connections to their handlers: *)
(* Dispatcher's queue of connections to dispatch (src/src/dispatcher.cpp), *)
(* the hooks of Connection::Private that fill and drain it                 *)
(* (src/src/connection.cpp), and the three main loops that drive it: the   *)
(* library's own (eventloop-integration.cpp), GLib's and Ecore's.          *)
(*                                                                         *)
(* libdbus, which keeps the received messages of a connection and tells    *)
(* when its dispatch status changes, is external.  Messages are counted,   *)
(* not named: libdbus hands them out in order.  The last message of a      *)
(* connection that has closed is the "Disconnected" signal libdbus makes.  *)
(*                                                                         *)
(* One thread runs the loop; Threads are application threads that use the  *)
(* same connections, whose blocking calls read the sockets too.            *)
(***************************************************************************)
EXTENDS Naturals, SequencesExt

CONSTANTS
  Connections,   \* Connection::Private objects
  Threads,       \* application threads that make blocking calls
  Loop,          \* the integration that drives the dispatcher
  MaxMessages,   \* bound: messages a peer sends on each connection
  MayDisconnect, \* whether a connection may close
  Null           \* no connection

ASSUME LoopAssumption == Loop \in {"bus", "glib", "ecore"}
ASSUME NullAssumption == Null \notin Connections
ASSUME MaxAssumption == MaxMessages \in Nat /\ MayDisconnect \in BOOLEAN

VARIABLES
  state,        \* of each connection: not made yet, open, or closed
  sending,      \* messages its peer may still send (the bound)
  socket,       \* messages in its socket
  incoming,     \* messages libdbus has read from it and not dispatched
  status,       \* the last dispatch status libdbus announced for it
  notify,       \* the connection a thread is in dispatch_status_stub() for
  pendingQueue, \* Dispatcher::_pending_queue
  copy, index,  \* dispatch_pending()'s pending_queue_copy and its iterator
  copied,       \* copy_elem_num
  ready,        \* connections whose sockets the last poll() found readable
  woken,        \* a source attached to the GLib context has yet to wake poll()
  dpc           \* where the loop's thread is

libdbusVars == <<state, sending, socket, incoming, status>>
copyVars    == <<copy, index, copied>>
pollVars    == <<ready, woken>>
vars == <<libdbusVars, notify, pendingQueue, copyVars, pollVars, dpc>>

\* A definition <Name>_<Fault> is <Name> with a fault put in; no specification
\* uses it, the mutants of PROJECT.json do.

-----------------------------------------------------------------------------
\* dbus_connection_get_dispatch_status() with n messages left.
Status(n) == IF n = 0 THEN "COMPLETE" ELSE "DATA_REMAINS"

\* dispatch_status_stub() is called when the status changes, and queues the
\* connection when messages remain.
Announces(c, n) == status[c] = "COMPLETE" /\ n > 0

\* queue_connection() under _mutex_p.
Push_Front(c) == pendingQueue' = <<c>> \o pendingQueue
Push(c) == pendingQueue' = Append(pendingQueue, c)

\* Connection's constructors and setup(): libdbus may have read messages
\* while it registered with the bus, before there was a stub to tell.
SetupQueues(c) == Push(c)

Setup(c) ==
  /\ state[c] = "none"
  /\ state' = [state EXCEPT ![c] = "open"]
  /\ \E n \in 0..sending[c] :
       /\ sending' = [sending EXCEPT ![c] = @ - n]
       /\ incoming' = [incoming EXCEPT ![c] = n]
       /\ status' = [status EXCEPT ![c] = Status(n)]
  /\ SetupQueues(c)
  /\ UNCHANGED <<socket, notify, copyVars, ready, dpc>>

\* Its watches become sources; GLib wakes its loop for a new source.
SetupInLoopThread(c) == dpc \in {"start", "handler"} /\ Setup(c)
                        /\ UNCHANGED woken
SetupInThread(t, c)  == notify[t] = Null /\ Setup(c)
                        /\ woken' = (Loop = "glib")

\* libdbus reads some of what is in the socket and, if closing, disconnects:
\* n is the number of messages then in the queue.
Input(c, n, closing) ==
  /\ state[c] = "open"
  /\ closing => MayDisconnect
  /\ LET read == n - incoming[c] - (IF closing THEN 1 ELSE 0)
     IN  /\ read \in 0..socket[c]
         /\ socket' = [socket EXCEPT ![c] = @ - read]
  /\ incoming' = [incoming EXCEPT ![c] = n]
  /\ status' = [status EXCEPT ![c] = Status(n)]
  /\ state' = [state EXCEPT ![c] = IF closing THEN "closed" ELSE @]
  /\ UNCHANGED sending

\* The messages a connection can have after one Input.
Totals(c) == incoming[c] .. (incoming[c] + socket[c] + 1)

\* A message arrives.
Arrive(c) ==
  /\ state[c] = "open" /\ sending[c] > 0
  /\ sending' = [sending EXCEPT ![c] = @ - 1]
  /\ socket' = [socket EXCEPT ![c] = @ + 1]
  /\ UNCHANGED <<state, incoming, status, notify, pendingQueue, copyVars,
                 pollVars, dpc>>

-----------------------------------------------------------------------------
(* Application threads.                                                    *)

\* A blocking call of thread t reads the socket, or t disconnects.  libdbus
\* drops its lock before it calls the stub.
InputInThread(t, c, n, closing) ==
  /\ notify[t] = Null
  /\ notify' = IF Announces(c, n) THEN [notify EXCEPT ![t] = c] ELSE notify
  /\ Input(c, n, closing)
  /\ UNCHANGED <<pendingQueue, copyVars, pollVars, dpc>>

QueueConnection(t) ==
  /\ notify[t] # Null
  /\ Push(notify[t])
  /\ notify' = [notify EXCEPT ![t] = Null]
  /\ UNCHANGED <<libdbusVars, copyVars, pollVars, dpc>>

-----------------------------------------------------------------------------
(* dispatch_pending().                                                     *)

\* The iterator goes around until the copy is empty.
Around_Never(s, i) == i
Around(s, i) == IF i > Len(s) THEN 1 ELSE i
Settle(s, i) == copy' = s /\ index' = Around(s, i) /\ UNCHANGED copied

DropFromCopy == Settle(RemoveAt(copy, index), index)
KeepInCopy   == Settle(copy, index + 1)

\* Where each loop goes when dispatch_pending() has found the queue empty,
\* and after each socket it has served.
AfterDispatch ==
  CASE Loop = "bus"   -> "poll"
    [] Loop = "glib"  -> "prepare"
    [] Loop = "ecore" -> "watches"
AfterWatch  == IF Loop = "ecore" THEN "iterate" ELSE "watches"
AfterWatches_Poll == "poll"
AfterWatches ==
  CASE Loop = "bus"   -> "iterate"
    [] Loop = "glib"  -> "prepare"
    [] Loop = "ecore" -> "poll"

Enter ==
  /\ dpc = "start"
  /\ dpc' = AfterWatches
  /\ UNCHANGED <<libdbusVars, notify, pendingQueue, copyVars, pollVars>>

CopyQueue ==
  /\ dpc = "iterate" /\ pendingQueue # <<>>
  /\ copy' = pendingQueue /\ index' = 1 /\ copied' = Len(pendingQueue)
  /\ dpc' = "test"
  /\ UNCHANGED <<libdbusVars, notify, pendingQueue, pollVars>>

QueueEmpty ==
  /\ dpc = "iterate" /\ pendingQueue = <<>>
  /\ dpc' = AfterDispatch
  /\ UNCHANGED <<libdbusVars, notify, pendingQueue, copyVars, pollVars>>

\* do_dispatch() does nothing with a connection that is closed.
SkipsClosed(c) == state[c] = "closed"

TestConnected ==
  /\ dpc = "test" /\ copy # <<>>
  /\ IF SkipsClosed(copy[index])
     THEN DropFromCopy /\ UNCHANGED dpc
     ELSE dpc' = "dispatch" /\ UNCHANGED copyVars
  /\ UNCHANGED <<libdbusVars, notify, pendingQueue, pollVars>>

\* dbus_connection_dispatch() with nothing to dispatch ...
NothingToDispatch ==
  /\ dpc = "dispatch"
  /\ LET c == copy[index]
     IN  /\ incoming[c] = 0
         /\ status' = [status EXCEPT ![c] = "COMPLETE"]
  /\ DropFromCopy
  /\ dpc' = "test"
  /\ UNCHANGED <<state, sending, socket, incoming, notify, pendingQueue, pollVars>>

\* ... or with a message, whose filters and handlers run without the locks.
CallHandler ==
  /\ dpc = "dispatch"
  /\ LET c == copy[index]
     IN  /\ incoming[c] > 0
         /\ incoming' = [incoming EXCEPT ![c] = @ - 1]
  /\ dpc' = "handler"
  /\ UNCHANGED <<state, sending, socket, status, notify, pendingQueue,
                 copyVars, pollVars>>

\* A handler makes a blocking call, or disconnects.
InputInHandler(c, n, closing) ==
  /\ dpc = "handler"
  /\ IF Announces(c, n) THEN Push(c) ELSE UNCHANGED pendingQueue
  /\ Input(c, n, closing)
  /\ UNCHANGED <<notify, copyVars, pollVars, dpc>>

HandlerReturns ==
  /\ dpc = "handler"
  /\ LET c == copy[index]
     IN  /\ status' = [status EXCEPT ![c] = Status(incoming[c])]
         /\ IF Announces(c, incoming[c]) THEN Push(c)
                                         ELSE UNCHANGED pendingQueue
         /\ IF incoming[c] > 0 THEN KeepInCopy ELSE DropFromCopy
  /\ dpc' = "test"
  /\ UNCHANGED <<state, sending, socket, incoming, notify, pollVars>>

\* What was queued since the copy was taken stays.
Remaining(s) == SubSeq(s, copied + 1, Len(s))

EraseCopied ==
  /\ dpc = "test" /\ copy = <<>>
  /\ pendingQueue' = Remaining(pendingQueue)
  /\ copied' = 0
  /\ dpc' = "iterate"
  /\ UNCHANGED <<libdbusVars, notify, copy, index, pollVars>>

-----------------------------------------------------------------------------
(* The main loops.                                                         *)

Readable == {c \in Connections : state[c] = "open" /\ socket[c] > 0}

\* poll() may return at any time, for a timer or a source of the application.
Poll ==
  /\ dpc = "poll"
  /\ ready' = Readable
  /\ woken' = FALSE
  /\ dpc' = "watches"
  /\ UNCHANGED <<libdbusVars, notify, pendingQueue, copyVars>>

\* It must return when a socket is readable or the loop is woken; the library's
\* own loop gives it 10 seconds at most, the others no limit.
PollEnds_NoLimit == Readable # {} \/ woken
PollEnds == Readable # {} \/ woken \/ Loop = "bus"

\* The watch of c: dbus_watch_handle() reads what is there.
WatchReady(c, n, closing) ==
  /\ dpc = "watches" /\ c \in ready
  /\ n > incoming[c] \/ socket[c] = 0
  /\ IF Announces(c, n) THEN Push(c) ELSE UNCHANGED pendingQueue
  /\ Input(c, n, closing)
  /\ ready' = ready \ {c}
  /\ dpc' = AfterWatch
  /\ UNCHANGED <<notify, copyVars, woken>>

\* A connection that closed has no watches any more.
WatchRemoved(c) ==
  /\ dpc = "watches" /\ c \in ready /\ state[c] = "closed"
  /\ ready' = ready \ {c}
  /\ UNCHANGED <<libdbusVars, notify, pendingQueue, copyVars, woken, dpc>>

WatchesDone ==
  /\ dpc = "watches" /\ ready = {}
  /\ dpc' = AfterWatches
  /\ UNCHANGED <<libdbusVars, notify, pendingQueue, copyVars, pollVars>>

\* has_something_to_dispatch()
HasSomethingToDispatch_First == pendingQueue # <<>> /\ incoming[pendingQueue[1]] > 0
HasSomethingToDispatch == \E c \in ToSet(pendingQueue) : incoming[c] > 0

\* dispatcher_prepare() of the GLib integration.
Prepare ==
  /\ dpc = "prepare"
  /\ dpc' = IF HasSomethingToDispatch THEN "iterate" ELSE "poll"
  /\ UNCHANGED <<libdbusVars, notify, pendingQueue, copyVars, pollVars>>

-----------------------------------------------------------------------------
Init ==
  /\ state = [c \in Connections |-> "none"]
  /\ sending = [c \in Connections |-> MaxMessages]
  /\ socket = [c \in Connections |-> 0]
  /\ incoming = [c \in Connections |-> 0]
  /\ status = [c \in Connections |-> "COMPLETE"]
  /\ notify = [t \in Threads |-> Null]
  /\ pendingQueue = <<>>
  /\ copy = <<>> /\ index = 1 /\ copied = 0
  /\ ready = {} /\ woken = FALSE
  /\ dpc = "start"

\* What the loop's thread does of its own accord.
LoopStep ==
  \/ Enter \/ CopyQueue \/ QueueEmpty \/ TestConnected \/ NothingToDispatch
  \/ CallHandler \/ HandlerReturns \/ EraseCopied
  \/ (PollEnds /\ Poll) \/ WatchesDone \/ Prepare
  \/ \E c \in Connections : WatchRemoved(c)
  \/ \E c \in Connections : \E n \in Totals(c), closing \in BOOLEAN :
        WatchReady(c, n, closing)

\* What handlers, application threads and peers may do.
Environment ==
  \/ Poll
  \/ \E c \in Connections : Arrive(c) \/ SetupInLoopThread(c)
  \/ \E c \in Connections : \E n \in Totals(c), closing \in BOOLEAN :
        InputInHandler(c, n, closing)
  \/ \E t \in Threads, c \in Connections :
        \/ SetupInThread(t, c)
        \/ \E n \in Totals(c), closing \in BOOLEAN :
              InputInThread(t, c, n, closing)

Next == LoopStep \/ Environment \/ \E t \in Threads : QueueConnection(t)

Spec == Init /\ [][Next]_vars

\* The loop keeps running, its handlers return, and a thread that is in the
\* stub gets through it.
FairSpec == Spec /\ WF_vars(LoopStep)
                 /\ \A t \in Threads : WF_vars(QueueConnection(t))
-----------------------------------------------------------------------------
(* Properties.                                                             *)

States   == {"none", "open", "closed"}
Statuses == {"COMPLETE", "DATA_REMAINS"}
Places   == {"start", "iterate", "test", "dispatch", "handler", "prepare",
             "poll", "watches"}

\* The types of the variables.  The iterator of dispatch_pending() is at an
\* entry of the copy whenever it is followed.
TypeOK ==
  /\ state \in [Connections -> States]
  /\ sending \in [Connections -> Nat]
  /\ socket \in [Connections -> Nat]
  /\ incoming \in [Connections -> Nat]
  /\ status \in [Connections -> Statuses]
  /\ notify \in [Threads -> Connections \cup {Null}]
  /\ pendingQueue \in Seq(Connections) /\ copy \in Seq(Connections)
  /\ index \in Nat \ {0} /\ copied \in 0..Len(pendingQueue)
  /\ ready \in SUBSET Connections /\ woken \in BOOLEAN
  /\ dpc \in Places
  /\ copy # <<>> => index <= Len(copy)
  /\ dpc \in {"dispatch", "handler"} => copy # <<>>

\* A connection is scheduled when it is in the copy being dispatched, in the
\* queue behind the entries that EraseCopied will remove, or about to be queued.
QueuedBehind == {pendingQueue[i] : i \in (copied + 1)..Len(pendingQueue)}
Scheduled(c) == \/ c \in ToSet(copy)
                \/ c \in QueuedBehind
                \/ \E t \in Threads : notify[t] = c

\* The status is current, and a connection that owes a dispatch is scheduled:
\* the inductive form of DataIsScheduled.
StatusIsKept ==
  \A c \in Connections : state[c] = "open" =>
    /\ incoming[c] > 0 => status[c] = "DATA_REMAINS"
    /\ status[c] = "DATA_REMAINS" => Scheduled(c)

\* Outside dispatch_pending() there is no copy.
CopyIsLocal ==
  dpc \notin {"test", "dispatch", "handler"} => copy = <<>> /\ copied = 0

\* No lost wakeup: an open connection with messages is scheduled, whatever
\* other threads queue while the copy is dispatched and then erased.  libdbus
\* will not announce it again, so a connection that is not would stay silent.
DataIsScheduled ==
  \A c \in Connections :
    state[c] = "open" /\ incoming[c] > 0
      => status[c] = "DATA_REMAINS" /\ Scheduled(c)

\* When no other thread uses the connections, the loop goes to sleep in poll()
\* only after every message libdbus has read was dispatched.
PollsOnlyWhenDrained ==
  dpc = "poll" => \A c \in Connections : state[c] = "open" => incoming[c] = 0

\* Every message that reaches an open connection gets to its handlers.
Drained(c) == state[c] = "open" => incoming[c] + socket[c] = 0
EveryMessageDispatched == \A c \in Connections : ~Drained(c) ~> Drained(c)

\* disconnect() (src/include/dbus-c++/connection.h:289-291): "This function may
\* result in a call to the DBusDispatchStatusFunction set with Private::init(),
\* as the disconnect message it generates needs to be dispatched."
DisconnectedDispatched ==
  \A c \in Connections : state[c] = "closed" ~> incoming[c] = 0
=============================================================================
