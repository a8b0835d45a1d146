----------------------- MODULE RequestPiperRefinement -----------------------
(***************************************************************************)
(* RequestPiper implements ForwardingService.  Two kernel pipes, three      *)
(* queues and two maps behave as one outbox: what has been posted and not   *)
(* yet sent.                                                                *)
(***************************************************************************)
EXTENDS RequestPiper

Service == INSTANCE ForwardingService WITH
  answered <- {c \in Calls : \E i \in 1..Len(posted) : posted[i] = c},
  outbox   <- SubSeq(posted, Len(sent) + 1, Len(posted)),
  open     <- running

\* Every step of the threads is a step of the service or changes nothing its
\* users can see: each frame the dispatcher handles sends the oldest item of
\* the outbox, and each accepted call is answered once.
\* With fair scheduling the outbox drains and every call is answered, until
\* leave() is called.
ImplementsFairService == Service!FairSpec
=============================================================================
