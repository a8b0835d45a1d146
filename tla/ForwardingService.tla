------------------------- MODULE ForwardingService -------------------------
(***************************************************************************)
(* What RequestPiper promises its users, without threads, pipes, mutexes   *)
(* and Tags (src/include/dbus-c++/request-piper.h, the comment on top): a  *)
(* call that is accepted is answered once, and replies and signals reach   *)
(* the bus in the order in which the service produced them.  Once it is    *)
(* closed it may go on for a while, and owes nobody anything.              *)
(***************************************************************************)
EXTENDS Naturals, Sequences

CONSTANTS Calls, Signals

VARIABLES
  accepted,  \* calls taken from the bus
  emitted,   \* signals the service has emitted
  answered,  \* calls whose method or helper has produced the answer
  outbox,    \* answers and signals on their way to the bus
  sent,      \* answers and signals the bus has received from the outbox
  open       \* the service has not been told to end

vars == <<accepted, emitted, answered, outbox, sent, open>>

Init ==
  /\ accepted = {} /\ emitted = {} /\ answered = {}
  /\ outbox = <<>> /\ sent = <<>> /\ open = TRUE

Accept(c) ==
  /\ c \notin accepted
  /\ accepted' = accepted \cup {c}
  /\ UNCHANGED <<emitted, answered, outbox, sent, open>>

Answer(c) ==
  /\ c \in accepted \ answered
  /\ answered' = answered \cup {c}
  /\ outbox' = Append(outbox, c)
  /\ UNCHANGED <<accepted, emitted, sent, open>>

\* A signal takes its turn in the outbox, unless the thread that serves the
\* bus emits it: then it goes out at once.
Emit(s) ==
  /\ s \notin emitted
  /\ emitted' = emitted \cup {s}
  /\ outbox' \in {outbox, Append(outbox, s)}
  /\ UNCHANGED <<accepted, answered, sent, open>>

Transmit ==
  /\ outbox # <<>>
  /\ sent' = Append(sent, Head(outbox))
  /\ outbox' = Tail(outbox)
  /\ UNCHANGED <<accepted, emitted, answered, open>>

Close ==
  /\ open' = FALSE
  /\ UNCHANGED <<accepted, emitted, answered, outbox, sent>>

Next ==
  \/ \E c \in Calls : Accept(c) \/ Answer(c)
  \/ \E s \in Signals : Emit(s)
  \/ Transmit
  \/ Close

Spec == Init /\ [][Next]_vars

FairSpec ==
  /\ Spec
  /\ WF_vars(open /\ Transmit)
  /\ \A c \in Calls : WF_vars(open /\ Answer(c))
=============================================================================
