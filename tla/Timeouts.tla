------------------------------ MODULE Timeouts ------------------------------
(***************************************************************************)
(* The timeouts of the library's main loop: DefaultTimeout and the part of *)
(* DefaultMainLoop::dispatch() that serves them (src/src/eventloop.cpp),   *)
(* with the BusTimeouts that libdbus adds, removes and toggles             *)
(* (src/src/eventloop-integration.cpp).                                    *)
(*                                                                         *)
(* Time is counted in units and only as differences: due[t] is what is     *)
(* left until t's _expiration.  The loop's thread and other threads share  *)
(* the list of timeouts under _mutex_t, which is not recursive and which   *)
(* dispatch() holds while it calls the handlers; toggling needs no mutex.  *)
(***************************************************************************)
EXTENDS Integers, SequencesExt

CONSTANTS
  Timeouts,       \* addresses of DefaultTimeout objects; reused after delete
  Threads,        \* threads other than the loop's
  Null,           \* no timeout
  Intervals,      \* the intervals timeouts are made with
  MaxWait,        \* the longest poll(): the 10000 ms of dispatch()
  MaxWork,        \* bound: time an iteration spends outside poll()
  HandlersChange  \* whether handlers of timeouts add or remove timeouts

ASSUME IntervalAssumption == Intervals \subseteq Nat \ {0}
ASSUME TimeAssumption == MaxWait \in Nat \ {0} /\ MaxWork \in Nat
ASSUME NullAssumption == Null \notin Timeouts
ASSUME HandlersAssumption == HandlersChange \in BOOLEAN

VARIABLES
  list,        \* DefaultMainLoop::_timeouts
  enabled, interval, repeat, due,  \* the fields of each timeout
  adding,      \* the timeout a thread has made and not yet put in the list
  lpc,         \* where the loop's thread is
  cursor,      \* its iterator in the list
  limit,       \* the time poll() was told to wait
  polled,      \* the time it has waited
  lag,         \* the time since poll() returned and now_millis was read
  \* History:
  considered,  \* the timeouts the last wait_min took into account
  overdue      \* how long each has been enabled, expired and not handled

fields   == <<interval, repeat>>
pollVars == <<limit, polled, considered>>
vars == <<list, enabled, fields, due, adding, lpc, cursor, pollVars, lag,
          overdue>>

-----------------------------------------------------------------------------
Listed == ToSet(list)
Active(t) == t \in Listed /\ enabled[t]

\* The loop holds _mutex_t from the return of poll() to the last timeout.
MutexFree == lpc \in {"work", "poll"}
Holding   == {"expire", "handler", "relock"}

\* The timeout whose handler is running.
InHandler(t) == lpc \in {"handler", "relock"} /\ list[cursor] = t

\* One unit of time passes.  What is left until an expiration is not counted
\* below -MaxWork: such a timeout has expired whatever now_millis is.  Nor is
\* overdue counted beyond Late, which HandledInTime excludes.
Late == MaxWait + 2 * MaxWork + 1

Pass ==
  /\ due' = [t \in Timeouts |-> IF due[t] > -MaxWork THEN due[t] - 1
                                                     ELSE due[t]]
  /\ overdue' = [t \in Timeouts |->
                   IF Active(t) /\ due[t] <= 0 /\ ~InHandler(t)
                      /\ overdue[t] < Late
                   THEN overdue[t] + 1 ELSE overdue[t]]

\* The loop's thread works: in a handler, in libdbus, or waiting for a CPU.
Elapse ==
  /\ lpc # "poll" /\ lag < MaxWork
  /\ Pass
  /\ lag' = lag + 1
  /\ UNCHANGED <<list, enabled, fields, adding, lpc, cursor, pollVars>>

-----------------------------------------------------------------------------
(* Making, removing and toggling timeouts.                                 *)

Fresh(t) == t \notin Listed /\ \A th \in Threads : adding[th] # t

\* The constructor computes _expiration before it locks the mutex.
Make(t, d, r) ==
  /\ Fresh(t)
  /\ interval' = [interval EXCEPT ![t] = d]
  /\ repeat' = [repeat EXCEPT ![t] = r]
  /\ enabled' = [enabled EXCEPT ![t] = TRUE]
  /\ due' = [due EXCEPT ![t] = d]
  /\ overdue' = [overdue EXCEPT ![t] = 0]
  /\ UNCHANGED <<lpc, cursor, limit, polled, lag>>

AddInThread(th, t, d, r) ==
  /\ adding[th] = Null
  /\ Make(t, d, r)
  /\ adding' = [adding EXCEPT ![th] = t]
  /\ UNCHANGED <<list, considered>>

\* push_back() under the mutex.
PushBack(th) ==
  /\ adding[th] # Null
  /\ MutexFree
  /\ list' = Append(list, adding[th])
  /\ adding' = [adding EXCEPT ![th] = Null]
  /\ UNCHANGED <<enabled, fields, due, lpc, cursor, pollVars, lag, overdue>>

\* The same by a handler the loop calls outside the critical section.
AddInLoop(t, d, r) ==
  /\ lpc = "work"
  /\ Make(t, d, r)
  /\ list' = Append(list, t)
  /\ UNCHANGED <<adding, considered>>

\* The destructor, on any thread: list.remove(this) under the mutex.  The
\* fields of an address without a timeout are kept at their first values.
Delete(t) ==
  /\ MutexFree
  /\ \E i \in 1..Len(list) : list[i] = t /\ list' = RemoveAt(list, i)
  /\ considered' = considered \ {t}
  /\ enabled' = [enabled EXCEPT ![t] = FALSE]
  /\ interval' = [interval EXCEPT ![t] = MaxWait]
  /\ repeat' = [repeat EXCEPT ![t] = FALSE]
  /\ due' = [due EXCEPT ![t] = -MaxWork]
  /\ overdue' = [overdue EXCEPT ![t] = 0]
  /\ UNCHANGED <<adding, lpc, cursor, limit, polled, lag>>

DeleteInThread(t) == Threads # {} /\ Delete(t)
DeleteInLoop(t)   == lpc = "work" /\ Delete(t)

\* BusTimeout::toggle(), on any thread: neither the interval nor _expiration
\* is set again.
Toggle(t) ==
  /\ t \in Listed
  /\ lpc \in {"work", "handler"} \/ Threads # {}
  /\ enabled' = [enabled EXCEPT ![t] = ~@]
  /\ overdue' = [overdue EXCEPT ![t] = 0]
  /\ UNCHANGED <<list, fields, due, adding, lpc, cursor, pollVars, lag>>

-----------------------------------------------------------------------------
(* DefaultMainLoop::dispatch().                                            *)

\* wait_min: the least interval, not the least time left.
Waits_First == {MaxWait} \cup {interval[t] : t \in {u \in Timeouts :
                                  Active(u) /\ list[1] = u}}
Waits == {MaxWait} \cup {interval[t] : t \in {u \in Timeouts : Active(u)}}

Poll ==
  /\ lpc = "work"
  /\ limit' \in Waits /\ \A w \in Waits : limit' <= w
  /\ polled' = 0
  /\ considered' = {t \in Timeouts : Active(t)}
  /\ lpc' = "poll"
  /\ UNCHANGED <<list, enabled, fields, due, adding, cursor, lag, overdue>>

PollWaits ==
  /\ lpc = "poll" /\ polled < limit
  /\ Pass
  /\ polled' = polled + 1
  /\ UNCHANGED <<list, enabled, fields, adding, lpc, cursor, limit, considered,
                 lag>>

\* poll() returns when its time is up, or sooner, for a descriptor or a signal.
PollReturns ==
  /\ lpc = "poll"
  /\ lpc' = "expire" /\ cursor' = 1 /\ lag' = 0
  /\ UNCHANGED <<list, enabled, fields, due, adding, pollVars, overdue>>

\* now_millis >= _expiration
Expired(t) == enabled[t] /\ due[t] + lag <= 0

\* The iterator moves on.
Advance_Twice == cursor' = cursor + 2
Advance_Stop == cursor' = Len(list) + 1
Advance == cursor' = cursor + 1

SkipTimeout ==
  /\ lpc = "expire" /\ cursor <= Len(list)
  /\ ~Expired(list[cursor])
  /\ cursor' = cursor + 1
  /\ UNCHANGED <<list, enabled, fields, due, adding, lpc, pollVars, lag,
                 overdue>>

\* A handler that makes or deletes a timeout, as libdbus removes the timeout of a
\* pending call when it expires, locks the mutex its own thread holds.
AfterCall == {"handler"} \cup (IF HandlersChange THEN {"relock"} ELSE {})

CallHandler ==
  /\ lpc = "expire" /\ cursor <= Len(list)
  /\ Expired(list[cursor])
  /\ overdue' = [overdue EXCEPT ![list[cursor]] = 0]
  /\ lpc' \in AfterCall
  /\ UNCHANGED <<list, enabled, fields, due, adding, cursor, pollVars, lag>>

\* A timeout that does not repeat keeps its _expiration: it expires again in
\* every iteration.
HandlerReturns ==
  /\ lpc = "handler"
  /\ LET t == list[cursor]
     IN  due' = [due EXCEPT ![t] = IF repeat[t] THEN interval[t] - lag ELSE @]
  /\ Advance
  /\ lpc' = "expire"
  /\ UNCHANGED <<list, enabled, fields, adding, pollVars, lag, overdue>>

Unlock ==
  /\ lpc = "expire" /\ cursor > Len(list)
  /\ lpc' = "work"
  /\ UNCHANGED <<list, enabled, fields, due, adding, cursor, pollVars, lag,
                 overdue>>

-----------------------------------------------------------------------------
Init ==
  /\ list = <<>>
  /\ enabled = [t \in Timeouts |-> FALSE]
  /\ interval = [t \in Timeouts |-> MaxWait]
  /\ repeat = [t \in Timeouts |-> FALSE]
  /\ due = [t \in Timeouts |-> -MaxWork]
  /\ adding = [th \in Threads |-> Null]
  /\ lpc = "work" /\ cursor = 1
  /\ limit = 0 /\ polled = 0 /\ lag = 0
  /\ considered = {} /\ overdue = [t \in Timeouts |-> 0]

LoopStep == \/ Poll \/ PollWaits \/ SkipTimeout \/ CallHandler
            \/ HandlerReturns \/ Unlock
            \/ (polled = limit /\ PollReturns)

Environment ==
  \/ Elapse \/ PollReturns
  \/ \E t \in Timeouts : DeleteInThread(t) \/ DeleteInLoop(t) \/ Toggle(t)
  \/ \E t \in Timeouts, d \in Intervals, r \in BOOLEAN :
        AddInLoop(t, d, r) \/ \E th \in Threads : AddInThread(th, t, d, r)

Next == LoopStep \/ Environment \/ \E th \in Threads : PushBack(th)

Spec == Init /\ [][Next]_vars

\* The loop keeps running, its handlers return, and time passes.
FairSpec == Spec /\ WF_vars(LoopStep) /\ SF_vars(Elapse \/ PollWaits)
-----------------------------------------------------------------------------
(* Properties.                                                             *)

\* The types of the variables; poll() does not overrun its limit and the
\* iterator stays in the list.
TypeOK ==
  /\ list \in Seq(Timeouts)
  /\ enabled \in [Timeouts -> BOOLEAN]
  /\ interval \in [Timeouts -> Nat \ {0}]
  /\ repeat \in [Timeouts -> BOOLEAN]
  /\ due \in [Timeouts -> Int]
  /\ adding \in [Threads -> Timeouts \cup {Null}]
  /\ lpc \in {"work", "poll"} \cup Holding
  /\ cursor \in Nat \ {0}
  /\ limit \in 0..MaxWait /\ polled \in 0..limit /\ lag \in 0..MaxWork
  /\ considered \in SUBSET Timeouts
  /\ overdue \in [Timeouts -> Nat]
  /\ lpc \in Holding => cursor <= Len(list) + 1
  /\ lpc \in {"handler", "relock"} => cursor <= Len(list)

\* How long poll() may last while t waits.
Patience(t) == IF t \in considered /\ interval[t] < MaxWait THEN interval[t]
                                                         ELSE MaxWait

\* No enabled timeout stays unhandled for longer after it has expired than its
\* own interval, or than the longest poll() if it came or was enabled when the
\* loop was in poll() already, plus the time of two iterations' work.
HandledInTime ==
  \A t \in Listed : overdue[t] <= Patience(t) + 2 * MaxWork

\* A timeout that stays enabled is handled again and again, whatever the others
\* do.
HandledAgain ==
  \A t \in Timeouts : []<>(InHandler(t) \/ ~Active(t))

\* send_async() (src/include/dbus-c++/connection.h:389-391): "If no reply is
\* received in the given timeout_milliseconds, this function expires the
\* pending reply and generates a synthetic error reply".  The handler that does
\* it comes to its end: the loop does not wait for a mutex it holds.
HandlerNotBlocked == lpc # "relock"
=============================================================================
