------------------------------ MODULE Watches ------------------------------
(***************************************************************************)
(* The watches of the library's main loop: DefaultWatch and the part of    *)
(* DefaultMainLoop::dispatch() that polls and serves them                  *)
(* (src/src/eventloop.cpp), with the BusWatches that libdbus adds, removes *)
(* and toggles (src/src/eventloop-integration.cpp).                        *)
(*                                                                         *)
(* libdbus, external, has two watches for a connection, on one descriptor: *)
(* it adds the one for writing first, keeps it enabled while messages wait *)
(* to be written, and keeps the one for reading enabled.  It acts only on  *)
(* the conditions a watch was made for, and versions of it differ in what  *)
(* a hangup means to the one for writing.  Messages are counted; those it  *)
(* has read are the business of ConnectionDispatch.                        *)
(*                                                                         *)
(* Connections are opened, used and closed by other threads at any time,   *)
(* and so also by the loop's own thread between two calls of dispatch().   *)
(***************************************************************************)
EXTENDS Naturals, SequencesExt

CONSTANTS
  Connections,
  Senders,    \* those on which the program sends
  Closers,    \* those whose peers close
  Capacity,   \* messages a socket holds in each direction
  MaxSend,    \* bound: messages the program sends on a connection
  MaxReceive, \* bound: messages a peer sends on a connection
  PeersRead   \* whether the peers read what they are sent without delay

ASSUME ConnectionsAssumption == Senders \subseteq Connections
                                /\ Closers \subseteq Connections
ASSUME BoundsAssumption == Capacity \in Nat \ {0} /\ MaxSend \in Nat
                           /\ MaxReceive \in Nat /\ PeersRead \in BOOLEAN

VARIABLES
  phase,     \* how far each connection has come, see Phases
  peer,      \* whether the peer is there
  sending,   \* messages the peer may still send
  inbound,   \* messages in the socket, for us
  toSend,    \* messages the program may still send
  queued,    \* messages libdbus could not write yet
  outbound,  \* messages in the socket, for the peer
  list,      \* DefaultMainLoop::_watches
  enabled,   \* DefaultWatch::_enabled
  fds,       \* the array dispatch() gives to poll(), with revents
  j,         \* the entry of the array being served
  lpc,       \* where the loop's thread is
  crashed    \* an iterator to an erased element was used

socketVars == <<peer, sending, inbound, toSend, queued, outbound>>
loopVars   == <<fds, j, lpc, crashed>>
vars == <<phase, socketVars, list, enabled, loopVars>>

-----------------------------------------------------------------------------
Kinds   == {"write", "read"}
Watches == Connections \X Kinds
Fd(w)   == w[1]
Kind(w) == w[2]

\* The life of a connection.  A watch is pushed on the list by the constructor
\* of DefaultWatch; then its flags are set, it is toggled and its handler is
\* stored, without the mutex.
Phases == {"none", "writePushed", "writeSet", "readPushed", "open",
           "readRemoved", "closed"}

\* The watches whose flags and handlers are set.
Complete(w) == phase[Fd(w)] \in IF Kind(w) = "write"
                                THEN Phases \ {"none", "writePushed"}
                                ELSE {"open", "readRemoved", "closed"}

\* dispatch() holds _mutex_w while it serves the array.
MutexFree == lpc # "serve"

-----------------------------------------------------------------------------
(* The sockets and the peers.                                              *)

PeerSends(c) ==
  /\ phase[c] \notin {"none", "closed"} /\ peer[c]
  /\ sending[c] > 0 /\ inbound[c] < Capacity
  /\ sending' = [sending EXCEPT ![c] = @ - 1]
  /\ inbound' = [inbound EXCEPT ![c] = @ + 1]
  /\ UNCHANGED <<phase, peer, toSend, queued, outbound, list, enabled, loopVars>>

PeerReads(c) ==
  /\ outbound[c] > 0
  /\ outbound' = [outbound EXCEPT ![c] = @ - 1]
  /\ UNCHANGED <<phase, peer, sending, inbound, toSend, queued, list, enabled,
                 loopVars>>

\* What it has not read is lost.
PeerCloses(c) ==
  /\ c \in Closers
  /\ phase[c] \notin {"none", "closed"} /\ peer[c]
  /\ peer' = [peer EXCEPT ![c] = FALSE]
  /\ outbound' = [outbound EXCEPT ![c] = 0]
  /\ UNCHANGED <<phase, sending, inbound, toSend, queued, list, enabled, loopVars>>

\* libdbus writes what the socket takes of n waiting messages, nothing without a
\* peer (EPIPE, which it leaves to the watch for reading), and toggles the
\* watch: BusWatch::toggle() copies the state, without the mutex.
Toggle_Off(c, on) == [enabled EXCEPT ![<<c, "write">>] = FALSE]
Toggle(c, on) == [enabled EXCEPT ![<<c, "write">>] = on]

Write(c, n) ==
  LET room    == IF peer[c] THEN Capacity - outbound[c] ELSE 0
      written == IF n < room THEN n ELSE room
  IN  /\ queued' = [queued EXCEPT ![c] = n - written]
      /\ outbound' = [outbound EXCEPT ![c] = @ + written]
      /\ enabled' = Toggle(c, n > written)

\* A message is sent, on any thread.
Send(c) ==
  /\ c \in Senders
  /\ phase[c] = "open" /\ toSend[c] > 0
  /\ toSend' = [toSend EXCEPT ![c] = @ - 1]
  /\ Write(c, queued[c] + 1)
  /\ UNCHANGED <<phase, peer, sending, inbound, list, loopVars>>

-----------------------------------------------------------------------------
(* Adding and removing watches.                                            *)

\* The constructor of DefaultWatch.
Push_Front(w) == list' = <<w>> \o list
Push(w) == list' = Append(list, w)

\* A thread opens the connection: for either watch, push_back() under the
\* mutex, of a watch that is enabled and has no flags; then the rest of the
\* constructor of BusWatch and of add_watch().
PushWatch(c, kind, before, after) ==
  /\ phase[c] = before /\ MutexFree
  /\ phase' = [phase EXCEPT ![c] = after]
  /\ Push(<<c, kind>>)
  /\ enabled' = [enabled EXCEPT ![<<c, kind>>] = TRUE]
  /\ UNCHANGED <<socketVars, loopVars>>

SetWatch(c, kind, before, after) ==
  /\ phase[c] = before
  /\ phase' = [phase EXCEPT ![c] = after]
  /\ enabled' = [enabled EXCEPT ![<<c, kind>>] = (kind = "read")]
  /\ UNCHANGED <<socketVars, list, loopVars>>

Open(c) == \/ PushWatch(c, "write", "none", "writePushed")
           \/ SetWatch(c, "write", "writePushed", "writeSet")
           \/ PushWatch(c, "read", "writeSet", "readPushed")
           \/ SetWatch(c, "read", "readPushed", "open")

\* The descriptor of c is closed; the numbers of a closed connection are kept
\* at zero.
Close(c) ==
  /\ phase' = [phase EXCEPT ![c] = "closed"]
  /\ sending' = [sending EXCEPT ![c] = 0] /\ toSend' = [toSend EXCEPT ![c] = 0]
  /\ inbound' = [inbound EXCEPT ![c] = 0] /\ queued' = [queued EXCEPT ![c] = 0]
  /\ outbound' = [outbound EXCEPT ![c] = 0]
  /\ peer' = [peer EXCEPT ![c] = FALSE]
  /\ enabled' = [enabled EXCEPT ![<<c, "read">>] = FALSE,
                                ![<<c, "write">>] = FALSE]

\* remove(this) in the destructor of DefaultWatch.
Position(s, w) == CHOOSE i \in 1..Len(s) : s[i] = w
Without_Forgotten(s, w) == IF Kind(w) = "write" THEN s
                                                ELSE RemoveAt(s, Position(s, w))
Without(s, w) == RemoveAt(s, Position(s, w))

\* A thread disconnects: libdbus removes its watches one by one.
Disconnect(c) ==
  /\ MutexFree
  /\ \/ /\ phase[c] = "open"
        /\ phase' = [phase EXCEPT ![c] = "readRemoved"]
        /\ list' = Without(list, <<c, "read">>)
        /\ UNCHANGED <<socketVars, enabled>>
     \/ /\ phase[c] = "readRemoved"
        /\ list' = Without(list, <<c, "write">>)
        /\ Close(c)
  /\ UNCHANGED loopVars

-----------------------------------------------------------------------------
(* DefaultMainLoop::dispatch().                                            *)

\* The flags of a watch: none until the constructor of BusWatch sets them.
Events_Unset(w) == {}
Events(w) == IF Complete(w) THEN {Kind(w)} ELSE {}

\* The enabled ones of some watches, in their order.
Polled(watches, on) ==
  LET Of[i \in 0..Len(watches)] ==
        IF i = 0 THEN <<>>
        ELSE IF on[watches[i]] THEN Append(Of[i - 1], watches[i]) ELSE Of[i - 1]
  IN  Of[Len(watches)]

\* The array has an entry for each enabled watch, in the order of the list.
FillArray ==
  /\ lpc = "work" /\ lpc' = "poll"
  /\ LET polled == Polled(list, enabled)
     IN  fds' = [i \in 1..Len(polled) |->
                   [watch |-> polled[i], events |-> Events(polled[i]),
                    revents |-> {}]]
  /\ UNCHANGED <<phase, socketVars, list, enabled, j, crashed>>

\* What poll() reports of a descriptor: the requested conditions that hold, and
\* a hangup always.
Conditions(c) ==
  {k \in Kinds : IF k = "read" THEN inbound[c] > 0 \/ ~peer[c]
                               ELSE outbound[c] < Capacity}
  \cup (IF peer[c] THEN {} ELSE {"hangup"})

Revents(e) == Conditions(Fd(e.watch)) \cap (e.events \cup {"hangup"})

\* It returns when there is something to report, and after 10 s.
PollEnds_NoLimit == \E i \in 1..Len(fds) : Revents(fds[i]) # {}
PollEnds == TRUE

PollReturns ==
  /\ lpc = "poll" /\ lpc' = "serve"
  /\ fds' = [i \in 1..Len(fds) |-> [fds[i] EXCEPT !.revents = Revents(fds[i])]]
  /\ UNCHANGED <<phase, socketVars, list, enabled, j, crashed>>

\* The watches that are enabled and have the descriptor of the entry, and the
\* one whose handler gets its revents: the first in the list.
Matching == {i \in 1..Len(list) :
               enabled[list[i]] /\ Fd(list[i]) = Fd(fds[j].watch)}
First == CHOOSE i \in Matching : \A k \in Matching : i <= k

\* libdbus disconnects in dbus_watch_handle() of the i-th watch of the list and
\* removes both watches, since _mutex_w is recursive.  The loop then follows the
\* iterator it has saved, to the element after the one it served.
HangUp(c, i) ==
  /\ list' = Without(Without(list, <<c, "read">>), <<c, "write">>)
  /\ Close(c)
  /\ crashed' = (i < Len(list) /\ Fd(list[i + 1]) = c)

\* dbus_watch_handle() for reading: libdbus reads some messages; when there are
\* none and the peer is gone it disconnects.
HandleRead(c, i) ==
  IF inbound[c] > 0
  THEN /\ \E n \in 1..inbound[c] : inbound' = [inbound EXCEPT ![c] = @ - n]
       /\ UNCHANGED <<phase, peer, sending, toSend, queued, outbound, list,
                      enabled, crashed>>
  ELSE IF peer[c]
  THEN UNCHANGED <<phase, socketVars, list, enabled, crashed>>
  ELSE HangUp(c, i)

\* ... and for writing: after a hangup, some versions of libdbus disconnect and
\* others leave that to the watch for reading.
HandleWrite(c, i) ==
  \/ /\ Write(c, queued[c])
     /\ UNCHANGED <<phase, peer, sending, inbound, toSend, list, crashed>>
  \/ phase[c] = "open" /\ ~peer[c] /\ HangUp(c, i)

NothingToServe == fds[j].revents = {} \/ Matching = {}

\* watch_ready() of the first matching watch; the revents are then cleared.
ServeEntry ==
  /\ lpc = "serve" /\ j <= Len(fds)
  /\ j' = j + 1
  /\ UNCHANGED <<fds, lpc>>
  /\ IF NothingToServe \/ ~Complete(list[First])
     THEN UNCHANGED <<phase, socketVars, list, enabled, crashed>>
     ELSE LET w  == list[First]
              rv == fds[j].revents
          IN  CASE Kind(w) = "read" /\ rv \cap {"read", "hangup"} # {} ->
                     HandleRead(Fd(w), First)
                [] Kind(w) = "write" /\ rv \cap {"write", "hangup"} # {} ->
                     HandleWrite(Fd(w), First)
                [] OTHER ->
                     UNCHANGED <<phase, socketVars, list, enabled, crashed>>

Unlock ==
  /\ lpc = "serve" /\ j > Len(fds)
  /\ lpc' = "work" /\ fds' = <<>> /\ j' = 1
  /\ UNCHANGED <<phase, socketVars, list, enabled, crashed>>

-----------------------------------------------------------------------------
Init ==
  /\ phase = [c \in Connections |-> "none"]
  /\ peer = [c \in Connections |-> TRUE]
  /\ sending = [c \in Connections |-> MaxReceive]
  /\ inbound = [c \in Connections |-> 0]
  /\ toSend = [c \in Connections |-> MaxSend]
  /\ queued = [c \in Connections |-> 0]
  /\ outbound = [c \in Connections |-> 0]
  /\ list = <<>>
  /\ enabled = [w \in Watches |-> FALSE]
  /\ fds = <<>> /\ j = 1 /\ lpc = "work" /\ crashed = FALSE

LoopStep == ~crashed /\ ( \/ FillArray \/ ServeEntry \/ Unlock
                          \/ (PollEnds /\ PollReturns) )

\* The end of the program.
Crashed == crashed /\ UNCHANGED vars

Next ==
  \/ LoopStep
  \/ Crashed
  \/ ~crashed /\ PollReturns
  \/ ~crashed /\ \E c \in Connections :
       \/ Open(c) \/ Disconnect(c) \/ Send(c)
       \/ PeerSends(c) \/ PeerReads(c) \/ PeerCloses(c)

Spec == Init /\ [][Next]_vars

\* The loop keeps running, a thread that opens a connection comes to an end,
\* and peers read if they are said to.
FairSpec ==
  /\ Spec
  /\ WF_vars(LoopStep)
  /\ \A c \in Connections : SF_vars(~crashed /\ phase[c] # "none" /\ Open(c))
  /\ PeersRead => \A c \in Connections : WF_vars(~crashed /\ PeerReads(c))
-----------------------------------------------------------------------------
(* Properties.                                                             *)

\* The watches a connection has at a phase.
Has(c) == CASE phase[c] \in {"none", "closed"} -> {}
            [] phase[c] \in {"writePushed", "writeSet", "readRemoved"} ->
                 {<<c, "write">>}
            [] OTHER -> {<<c, "write">>, <<c, "read">>}

\* The types of the variables; the list has every watch that exists, once, and
\* no other.
TypeOK ==
  /\ phase \in [Connections -> Phases]
  /\ peer \in [Connections -> BOOLEAN]
  /\ sending \in [Connections -> 0..MaxReceive]
  /\ inbound \in [Connections -> 0..Capacity]
  /\ toSend \in [Connections -> 0..MaxSend]
  /\ queued \in [Connections -> 0..MaxSend]
  /\ outbound \in [Connections -> 0..Capacity]
  /\ list \in Seq(Watches)
  /\ \A i, k \in 1..Len(list) : list[i] = list[k] => i = k
  /\ {list[i] : i \in 1..Len(list)} = UNION {Has(c) : c \in Connections}
  /\ enabled \in [Watches -> BOOLEAN]
  /\ fds \in Seq([watch : Watches, events : SUBSET Kinds,
                  revents : SUBSET (Kinds \cup {"hangup"})])
  /\ j \in Nat \ {0}
  /\ lpc \in {"work", "poll", "serve"}
  /\ crashed \in BOOLEAN

\* Messages wait for a peer that is gone.  The watch for writing, which is
\* enabled then, is before that for reading and takes its events: libdbus
\* disconnects in the handler or is told of the hangup for ever.
Stuck(c) == ~peer[c] /\ queued[c] > 0

\* The iterator that dispatch() saves before it calls a handler is still in the
\* list after it, although libdbus may remove watches in the handler: unless the
\* watch served is the one for writing of a connection that is stuck, after
\* which comes the one for reading.
SavedIteratorValid ==
  [][~crashed /\ crashed' => LET w == list[First] IN Kind(w) = "write" /\ Stuck(Fd(w))]_vars

\* Every message that reaches an open connection is read, unless the connection
\* gets stuck.  Watch (src/include/dbus-c++/dispatcher.h:121-122): handle() is
\* "Called to notify the D-Bus library when a previously-added watch is ready
\* for reading or writing, or has an exception such as a hangup."
EveryMessageRead ==
  \A c \in Connections :
    phase[c] = "open" /\ inbound[c] > 0
      ~> phase[c] # "open" \/ inbound[c] = 0 \/ Stuck(c) \/ crashed

\* Every message that could not be written at once is written later, although
\* the thread that enables the watch does not wake the loop, if the peer stays.
EveryMessageWritten ==
  \A c \in Connections :
    phase[c] = "open" /\ queued[c] > 0
      ~> phase[c] # "open" \/ queued[c] = 0 \/ ~peer[c] \/ crashed

\* The end of a peer is noticed, and the connection closed, unless messages
\* wait for that peer.
HangupNoticed ==
  \A c \in Connections :
    phase[c] = "open" /\ ~peer[c] ~> phase[c] # "open" \/ Stuck(c) \/ crashed
=============================================================================
