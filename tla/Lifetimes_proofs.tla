--------------------------- MODULE Lifetimes_proofs ---------------------------
(***************************************************************************)
(* NoCounterRace for any number of calls, workers and helpers: which       *)
(* counter each place of a message has, who may have a call at a time, and *)
(* so which counters a thread can be at.                                   *)
(***************************************************************************)
EXTENDS Lifetimes, SequenceTheorems, TLAPS

held == DOMAIN store.handles
Active(w) == pc[w] # "pop"

-----------------------------------------------------------------------------
(* The invariant, for the part in which threads pass messages. *)

IsStore(s) ==
  s = [handles |-> s.handles, count |-> s.count, live |-> s.live, refs |-> s.refs]

ThreadsTyped ==
  /\ IsStore(store)
  /\ touching = [th \in Threads |-> touching[th]]
  /\ pc \in [Threads -> {"none", "loop", "forward", "record", "leave", "take", "send",
                         "pop", "method", "post", "defer", "resume", "finish"}]
  /\ pc["dispatcher"] \in {"loop", "forward", "record", "leave", "take", "send"}
  /\ \A w \in Workers : pc[w] \in {"pop", "method", "post", "defer", "finish"}
  /\ \A c \in Calls : pc[c] \in {"none", "resume", "post", "finish"}
  /\ job \in [Threads -> Calls \cup {"none"}]
  /\ requestQueue \in Seq(Calls) /\ responseQueue \in Seq(Calls)
  /\ arrived \subseteq Calls

\* Who is at a call, and with which call a thread is.
JobsInv ==
  /\ pc["dispatcher"] \notin {"loop", "take"} => job["dispatcher"] \in Calls
  /\ \A w \in Workers : Active(w) => job[w] \in Calls
  /\ \A c \in Calls : pc[c] # "none" => job[c] = c
  /\ \A v, w \in Workers : v # w /\ Active(v) /\ Active(w) => job[v] # job[w]

\* The counter of each place.
CounterOf(place, counter) == place \in held => store.handles[place].cnt = counter
NamesInv ==
  /\ CounterOf(<<"stub", "dispatcher">>, <<"stub", job["dispatcher"]>>)
  /\ CounterOf(<<"msg", "dispatcher">>, <<"sent", job["dispatcher"]>>)
  /\ CounterOf(<<"res", "dispatcher">>, <<"answer", job["dispatcher"]>>)
  /\ \A w \in Workers : /\ CounterOf(<<"msg", w>>, <<"msg", job[w]>>)
                        /\ CounterOf(<<"res", w>>, <<"res", job[w]>>)
  /\ \A c \in Calls :
       /\ CounterOf(<<"continuation", c>>, <<"stub", c>>)
       /\ CounterOf(<<"msg", c>>, <<"call_msg", c>>)
       /\ CounterOf(<<"res", c>>, <<"res", c>>)
       /\ \A role \in {"request", "parked", "response", "answer"} :
            CounterOf(<<role, c>>, <<role, c>>)

\* What a thread has at each place of its program.
HeldInv ==
  /\ <<"stub", "dispatcher">> \in held
       <=> pc["dispatcher"] \in {"forward", "record", "leave"}
  /\ \A th \in Workers \cup Calls : <<"stub", th>> \notin held
  /\ pc["dispatcher"] # "send" => <<"msg", "dispatcher">> \notin held
  /\ pc["dispatcher"] # "send" => <<"res", "dispatcher">> \notin held
  /\ \A w \in Workers : pc[w] \in {"pop", "method", "defer"} => <<"res", w>> \notin held
  /\ \A w \in Workers : pc[w] = "pop" => <<"msg", w>> \notin held
  /\ \A c \in ToSet(responseQueue) : <<"answer", c>> \in held

\* A call that no worker has taken.
Sending(c) == pc["dispatcher"] = "send" /\ job["dispatcher"] = c
Forwarding(c) == pc["dispatcher"] = "forward" /\ job["dispatcher"] = c
Untouched(c) ==
  /\ \A w \in Workers : Active(w) => job[w] # c
  /\ pc[c] = "none" /\ c \notin ToSet(responseQueue) /\ ~Sending(c)
RequestsInv ==
  /\ \A i, j \in DOMAIN requestQueue : i # j => requestQueue[i] # requestQueue[j]
  /\ \A c \in ToSet(requestQueue) : c \in arrived /\ ~Forwarding(c)
  /\ \A c \in Calls : Forwarding(c) => c \in arrived
  /\ \A c \in Calls : c \in ToSet(requestQueue) \/ Forwarding(c) \/ c \notin arrived
                        => Untouched(c)

\* A call that waits for its answer to be sent, and one a helper has.
ResponsesInv ==
  /\ \A i, j \in DOMAIN responseQueue : i # j => responseQueue[i] # responseQueue[j]
  /\ \A c \in ToSet(responseQueue) : ~Sending(c)
  /\ \A c \in Calls : c \in ToSet(responseQueue) \/ Sending(c) =>
       /\ pc[c] \notin {"resume", "post"}
       /\ \A w \in Workers : job[w] = c => pc[w] \in {"pop", "finish"}
  /\ \A c \in Calls : pc[c] # "none" =>
       \A w \in Workers : job[w] = c /\ Active(w) => pc[w] = "finish" /\ <<"res", w>> \notin held

\* The counters a thread can be at.
MsgCounter(th) == <<IF th \in Workers THEN "msg" ELSE "call_msg", job[th]>>
Counters(th) ==
  LET c == job[th] IN
  CASE pc[th] = "forward" -> {<<"stub", c>>} \cup Queued("request", requestQueue)
    [] pc[th] \in {"record", "leave"} -> {<<"stub", c>>}
    [] pc[th] = "pop"     -> Queued("request", requestQueue)
    [] pc[th] = "defer"   -> {<<"msg", c>>}
    [] pc[th] = "resume"  -> {<<"parked", c>>}
    [] pc[th] = "finish"  -> {MsgCounter(th)} \cup {k \in {<<"res", c>>} : <<"res", th>> \in held}
    [] pc[th] = "post"    -> {MsgCounter(th), <<"res", c>>} \cup Queued("response", responseQueue)
                               \cup Queued("answer", responseQueue)
    [] pc[th] = "take"    -> Queued("response", responseQueue) \cup Queued("answer", responseQueue)
    [] pc[th] = "send"    -> {<<"sent", c>>, <<"answer", c>>, <<"stub", c>>}
    [] OTHER              -> {}
TouchInv ==
  /\ \A th \in Threads : touching[th] \subseteq Counters(th)
  /\ \A th, u \in Threads :
       th # u /\ touching[th] # {} /\ touching[u] # {} /\ MutexOf(pc[th]) # "none"
         => MutexOf(pc[th]) # MutexOf(pc[u])

MessagesInv ==
  /\ ThreadsTyped /\ JobsInv /\ NamesInv /\ HeldInv /\ RequestsInv /\ ResponsesInv /\ TouchInv

\* In the other parts the threads rest, and only the second has pending calls.
Resting == \A th \in Threads : touching[th] = {} /\ pc[th] \in {"loop", "pop", "none"}
RaceInv ==
  /\ part # "pending" => attached = {}
  /\ part = "messages" => MessagesInv
  /\ part # "messages" => Resting

-----------------------------------------------------------------------------
(* What the operators on a store do to the handles and their counters. *)

\* There is a handle at the place, with that counter; the others stay.
Puts(s, t, place, counter) ==
  /\ IsStore(t)
  /\ DOMAIN t.handles = DOMAIN s.handles \cup {place}
  /\ t.handles[place].cnt = counter
  /\ \A q \in DOMAIN s.handles \ {place} : t.handles[q].cnt = s.handles[q].cnt

\* There is no handle at the place; the others stay.
Drops(s, t, place) ==
  /\ IsStore(t)
  /\ DOMAIN t.handles = DOMAIN s.handles \ {place}
  /\ \A q \in DOMAIN t.handles : t.handles[q].cnt = s.handles[q].cnt

\* A field of a store is set: the operators of RefCounting are made of this.
LEMMA SetHandles ==
  ASSUME NEW s, IsStore(s), NEW x
  PROVE  LET t == [s EXCEPT !.handles = x] IN
         /\ IsStore(t) /\ t.handles = x
         /\ t.count = s.count /\ t.live = s.live /\ t.refs = s.refs
<1>1. PICK h, c, l, r : s = [handles |-> h, count |-> c, live |-> l, refs |-> r]
  BY DEF IsStore
<1>2. [s EXCEPT !.handles = x] = [handles |-> x, count |-> c, live |-> l, refs |-> r]
  BY ONLY <1>1, SMT
<1> QED BY <1>1, <1>2 DEF IsStore

LEMMA SetCount ==
  ASSUME NEW s, IsStore(s), NEW x
  PROVE  LET t == [s EXCEPT !.count = x] IN
         /\ IsStore(t) /\ t.count = x
         /\ t.handles = s.handles /\ t.live = s.live /\ t.refs = s.refs
<1>1. PICK h, c, l, r : s = [handles |-> h, count |-> c, live |-> l, refs |-> r]
  BY DEF IsStore
<1>2. [s EXCEPT !.count = x] = [handles |-> h, count |-> x, live |-> l, refs |-> r]
  BY ONLY <1>1, SMT
<1> QED BY <1>1, <1>2 DEF IsStore

LEMMA SetLive ==
  ASSUME NEW s, IsStore(s), NEW x
  PROVE  LET t == [s EXCEPT !.live = x] IN
         /\ IsStore(t) /\ t.live = x
         /\ t.handles = s.handles /\ t.count = s.count /\ t.refs = s.refs
<1>1. PICK h, c, l, r : s = [handles |-> h, count |-> c, live |-> l, refs |-> r]
  BY DEF IsStore
<1>2. [s EXCEPT !.live = x] = [handles |-> h, count |-> c, live |-> x, refs |-> r]
  BY ONLY <1>1, SMT
<1> QED BY <1>1, <1>2 DEF IsStore

LEMMA SetRefs ==
  ASSUME NEW s, IsStore(s), NEW x
  PROVE  LET t == [s EXCEPT !.refs = x] IN
         /\ IsStore(t) /\ t.refs = x
         /\ t.handles = s.handles /\ t.count = s.count /\ t.live = s.live
<1>1. PICK h, c, l, r : s = [handles |-> h, count |-> c, live |-> l, refs |-> r]
  BY DEF IsStore
<1>2. [s EXCEPT !.refs = x] = [handles |-> h, count |-> c, live |-> l, refs |-> x]
  BY ONLY <1>1, SMT
<1> QED BY <1>1, <1>2 DEF IsStore

\* dbus_..._ref() and dbus_..._unref() leave the handles (Ref, Unref).
LEMMA RefFields ==
  ASSUME NEW s, IsStore(s), NEW obj
  PROVE  LET t == Ref(s, obj) u == Unref(s, obj) IN
         /\ IsStore(t) /\ t.handles = s.handles /\ t.count = s.count /\ t.live = s.live
         /\ t.refs = [s.refs EXCEPT ![obj] = @ + 1]
         /\ IsStore(u) /\ u.handles = s.handles /\ u.count = s.count /\ u.live = s.live
         /\ u.refs = [s.refs EXCEPT ![obj] = @ - 1]
<1> DEFINE up == [s.refs EXCEPT ![obj] = @ + 1]
           down == [s.refs EXCEPT ![obj] = @ - 1]
<1>1. Ref(s, obj) = [s EXCEPT !.refs = up] /\ Unref(s, obj) = [s EXCEPT !.refs = down]
  BY Zenon DEF Ref, Unref
<1> HIDE DEF up, down
<1>2. LET t == [s EXCEPT !.refs = up] IN
      /\ IsStore(t) /\ t.refs = up
      /\ t.handles = s.handles /\ t.count = s.count /\ t.live = s.live
  BY SetRefs
<1>3. LET u == [s EXCEPT !.refs = down] IN
      /\ IsStore(u) /\ u.refs = down
      /\ u.handles = s.handles /\ u.count = s.count /\ u.live = s.live
  BY SetRefs
<1> QED BY <1>1, <1>2, <1>3 DEF up, down

\* RefPtr(ptr) and a handle made with it.
LEMMA RefPtrFields ==
  ASSUME NEW s, IsStore(s), NEW place, NEW ptr, NEW cnt, NEW obj
  PROVE  LET t == RefPtr(s, place, ptr, cnt, obj) IN
         /\ IsStore(t)
         /\ t.handles = Put(s.handles, place, [ptr |-> ptr, cnt |-> cnt, obj |-> obj])
         /\ t.count = Put(s.count, cnt, 1) /\ t.live = s.live /\ t.refs = s.refs
<1> DEFINE h == Put(s.handles, place, [ptr |-> ptr, cnt |-> cnt, obj |-> obj])
           u == [s EXCEPT !.handles = h]
           t == [u EXCEPT !.count = Put(u.count, cnt, 1)]
<1>1. RefPtr(s, place, ptr, cnt, obj) = t
  BY Zenon DEF RefPtr
<1> HIDE DEF h
<1>2. IsStore(u) /\ u.handles = h /\ u.count = s.count /\ u.live = s.live /\ u.refs = s.refs
  BY SetHandles
<1> HIDE DEF u
<1>3. /\ IsStore(t) /\ t.handles = u.handles /\ t.count = Put(u.count, cnt, 1)
      /\ t.live = u.live /\ t.refs = u.refs
  BY <1>2, SetCount
<1> HIDE DEF t
<1> QED BY <1>1, <1>2, <1>3 DEF h

\* RefCnt(rc) and a handle made with it.
LEMMA CopyPtrFields ==
  ASSUME NEW s, IsStore(s), NEW from, NEW to
  PROVE  LET t == CopyPtr(s, from, to) IN
         /\ IsStore(t)
         /\ t.handles = Put(s.handles, to, s.handles[from])
         /\ t.count = [s.count EXCEPT ![s.handles[from].cnt] = @ + 1]
         /\ t.live = s.live /\ t.refs = s.refs
<1> DEFINE h == Put(s.handles, to, s.handles[from])
           k == s.handles[from].cnt
           u == [s EXCEPT !.handles = h]
           counts == [u.count EXCEPT ![k] = @ + 1]
           t == [u EXCEPT !.count = counts]
<1>1. CopyPtr(s, from, to) = t
  BY Zenon DEF CopyPtr
<1> HIDE DEF h, k
<1>2. IsStore(u) /\ u.handles = h /\ u.count = s.count /\ u.live = s.live /\ u.refs = s.refs
  BY SetHandles
<1> HIDE DEF u
<1> HIDE DEF counts
<1>3. /\ IsStore(t) /\ t.handles = u.handles /\ t.count = counts
      /\ t.live = u.live /\ t.refs = u.refs
  BY <1>2, SetCount
<1> HIDE DEF t
<1> QED BY <1>1, <1>2, <1>3 DEF h, k, counts

\* ~RefPtr(): the handle goes, the counter is counted down or goes with the
\* Private.
LEMMA DestroyPtrFields ==
  ASSUME NEW s, IsStore(s), NEW place
  PROVE  LET t == DestroyPtr(s, place)
             h == s.handles[place]
         IN
         /\ IsStore(t)
         /\ t.handles = Restrict(s.handles, DOMAIN s.handles \ {place})
         /\ t.count = IF one(s, place) THEN Restrict(s.count, DOMAIN s.count \ {h.cnt})
                                       ELSE [s.count EXCEPT ![h.cnt] = @ - 1]
         /\ t.live = IF one(s, place) THEN s.live \ {h.ptr} ELSE s.live
         /\ t.refs = s.refs
<1> DEFINE h == s.handles[place]
           counts == IF one(s, place) THEN Restrict(s.count, DOMAIN s.count \ {h.cnt})
                                      ELSE [s.count EXCEPT ![h.cnt] = @ - 1]
           kept == IF one(s, place) THEN s.live \ {h.ptr} ELSE s.live
           u == Uncount(s, h.cnt)
           v == [u EXCEPT !.live = kept]
           t == [v EXCEPT !.handles = Restrict(v.handles, DOMAIN v.handles \ {place})]
<1>1. u = [s EXCEPT !.count = counts]
  BY Zenon DEF Uncount, one
<1>2. DestroyPtr(s, place) = t
  BY Zenon DEF DestroyPtr
<1> HIDE DEF kept, counts, u
<1>3. IsStore(u) /\ u.count = counts /\ u.handles = s.handles /\ u.live = s.live /\ u.refs = s.refs
  BY <1>1, SetCount
<1>4. /\ IsStore(v) /\ v.live = kept
      /\ v.handles = u.handles /\ v.count = u.count /\ v.refs = u.refs
  BY <1>3, SetLive
<1> HIDE DEF v
<1>5. /\ IsStore(t) /\ t.handles = Restrict(v.handles, DOMAIN v.handles \ {place})
      /\ t.count = v.count /\ t.live = v.live /\ t.refs = v.refs
  BY <1>4, SetHandles
<1> HIDE DEF t
<1> QED BY <1>2, <1>3, <1>4, <1>5 DEF counts, kept

\* `new Private' in a handle gives it the counter of that name (NewPrivate).
LEMMA NewPrivateFields ==
  ASSUME NEW s, IsStore(s), NEW place, NEW name, NEW obj
  PROVE  LET t == NewPrivate(s, place, name, obj) IN
         /\ IsStore(t)
         /\ t.handles = Put(s.handles, place, [ptr |-> name, cnt |-> name, obj |-> obj])
         /\ t.count = Put(s.count, name, 1)
         /\ t.live = s.live \cup {name} /\ t.refs = s.refs
<1> DEFINE u == [s EXCEPT !.live = s.live \cup {name}]
           t == RefPtr(u, place, name, name, obj)
<1>1. NewPrivate(s, place, name, obj) = t
  BY Zenon DEF NewPrivate
<1>2. /\ IsStore(u) /\ u.live = s.live \cup {name}
      /\ u.handles = s.handles /\ u.count = s.count /\ u.refs = s.refs
  BY SetLive
<1> HIDE DEF u
<1>3. /\ IsStore(t)
      /\ t.handles = Put(u.handles, place, [ptr |-> name, cnt |-> name, obj |-> obj])
      /\ t.count = Put(u.count, name, 1) /\ t.live = u.live /\ t.refs = u.refs
  BY <1>2, RefPtrFields
<1> HIDE DEF t
<1> QED BY <1>1, <1>2, <1>3

LEMMA NewPrivatePuts ==
  ASSUME NEW s, IsStore(s), NEW place, NEW name, NEW obj
  PROVE  Puts(s, NewPrivate(s, place, name, obj), place, name)
<1> DEFINE h == [ptr |-> name, cnt |-> name, obj |-> obj]
           t == NewPrivate(s, place, name, obj)
<1>1. IsStore(t) /\ t.handles = Put(s.handles, place, h)
  BY NewPrivateFields
<1>2. h.cnt = name
  OBVIOUS
<1> HIDE DEF h, t
<1>3. /\ DOMAIN t.handles = DOMAIN s.handles \cup {place}
      /\ t.handles[place] = h
      /\ \A q \in DOMAIN s.handles \ {place} : t.handles[q] = s.handles[q]
  <2> DEFINE hs == Put(s.handles, place, h)
  <2>1. /\ DOMAIN hs = DOMAIN s.handles \cup {place} /\ hs[place] = h
        /\ \A q \in DOMAIN s.handles \ {place} : hs[q] = s.handles[q]
    BY DEF Put
  <2> HIDE DEF hs
  <2> QED BY <1>1, <2>1 DEF hs
<1> QED
  BY <1>1, <1>2, <1>3 DEF t, Puts

\* Message(m, false) has a counter of its own (CopyApart).
LEMMA CopyApartPuts ==
  ASSUME NEW s, IsStore(s), NEW from, NEW to, NEW name
  PROVE  Puts(s, CopyApart(s, from, to, name), to, name)
<1> DEFINE obj == s.handles[from].obj
           t == NewPrivate(s, to, name, obj)
<1>1. Puts(s, t, to, name)
  BY NewPrivatePuts
<1>2. CopyApart(s, from, to, name) = Ref(t, obj)
  BY DEF CopyApart
<1> HIDE DEF t
<1>3. IsStore(t)
  BY <1>1 DEF Puts
<1>4. IsStore(Ref(t, obj)) /\ Ref(t, obj).handles = t.handles
  BY <1>3, RefFields, Zenon
<1> QED
  BY <1>1, <1>2, <1>4 DEF Puts

\* A copy shares the counter (CopyHandle).
LEMMA CopyHandlePuts ==
  ASSUME NEW s, IsStore(s), NEW from, NEW to
  PROVE  Puts(s, CopyHandle(s, from, to), to, s.handles[from].cnt)
<1> DEFINE t == CopyPtr(s, from, to)
           u == Ref(t, s.handles[from].obj)
<1>1. IsStore(CopyPtr(s, from, to))
      /\ CopyPtr(s, from, to).handles = Put(s.handles, to, s.handles[from])
  <2> PICK h : h = s.handles[from]
    OBVIOUS
  <2> PICK v : v = CopyPtr(s, from, to)
    OBVIOUS
  <2>1. /\ IsStore(v) /\ v.handles = Put(s.handles, to, h)
        /\ v.count = [s.count EXCEPT ![h.cnt] = @ + 1]
        /\ v.live = s.live /\ v.refs = s.refs
    <3>1. IsStore(s)
      OBVIOUS
    <3> QED BY <3>1, CopyPtrFields
  <2> QED BY <2>1
<1> HIDE DEF t
<1>2. CopyHandle(s, from, to) = u
  BY DEF CopyHandle, t
<1>3. IsStore(u) /\ u.handles = t.handles
  BY <1>1, RefFields, Zenon DEF t
<1> HIDE DEF u
<1>4. /\ DOMAIN u.handles = DOMAIN s.handles \cup {to}
      /\ u.handles[to] = s.handles[from]
      /\ \A q \in DOMAIN s.handles \ {to} : u.handles[q] = s.handles[q]
  <2> DEFINE hs == Put(s.handles, to, s.handles[from])
  <2>1. /\ DOMAIN hs = DOMAIN s.handles \cup {to} /\ hs[to] = s.handles[from]
        /\ \A q \in DOMAIN s.handles \ {to} : hs[q] = s.handles[q]
    BY DEF Put
  <2> HIDE DEF hs
  <2> QED BY <1>1, <1>3, <2>1 DEF hs, t
<1> QED
  BY <1>2, <1>3, <1>4 DEF Puts

\* ~Message() takes its own handle (DropHandle).
LEMMA DropHandleDrops ==
  ASSUME NEW s, IsStore(s), NEW place
  PROVE  Drops(s, DropHandle(s, place), place)
<1> DEFINE u == Unref(s, s.handles[place].obj)
           t == DestroyPtr(u, place)
<1>1. IsStore(u) /\ u.handles = s.handles
  BY RefFields, Zenon
<1>2. DropHandle(s, place) = t
  BY DEF DropHandle
<1> HIDE DEF u
<1>3. IsStore(t) /\ t.handles = Restrict(u.handles, DOMAIN u.handles \ {place})
  BY <1>1, DestroyPtrFields, Zenon
<1> HIDE DEF t
<1>4. /\ DOMAIN t.handles = DOMAIN u.handles \ {place}
      /\ \A q \in DOMAIN t.handles : t.handles[q] = u.handles[q]
  BY <1>3 DEF Restrict
<1> QED
  BY <1>1, <1>2, <1>3, <1>4 DEF Drops

LEMMA DropHeldDrops ==
  ASSUME NEW s, IsStore(s), NEW place
  PROVE  Drops(s, DropHeld(s, place), place)
  BY DropHandleDrops DEF DropHeld, Drops

\* The end of a thread's statements takes its messages (DropLocals).
LEMMA DropLocalsDrops ==
  ASSUME NEW s, IsStore(s), NEW th
  PROVE  LET t == DropLocals(s, th) IN
         /\ IsStore(t)
         /\ DOMAIN t.handles = DOMAIN s.handles \ {<<"res", th>>, <<"msg", th>>}
         /\ \A q \in DOMAIN t.handles : t.handles[q].cnt = s.handles[q].cnt
<1> DEFINE u == DropHeld(s, <<"res", th>>)
<1>1. Drops(s, u, <<"res", th>>)
  BY DropHeldDrops
<1>2. IsStore(u)
  BY <1>1 DEF Drops
<1> HIDE DEF u
<1>3. Drops(u, DropHeld(u, <<"msg", th>>), <<"msg", th>>)
  BY <1>2, DropHeldDrops
<1> QED
  BY <1>1, <1>3 DEF Drops, DropLocals, u

-----------------------------------------------------------------------------
(* The counters two threads are at differ. *)

\* Of each kind of counter, who can be at it.
At(th, k) ==
  \/ th = "dispatcher" /\ k = <<"stub", job[th]>>
  \/ th = "dispatcher" /\ k = <<"sent", job[th]>>
  \/ Sending(job[th]) /\ th = "dispatcher" /\ k = <<"answer", job[th]>>
  \/ MutexOf(pc[th]) = "request_mutex" /\ k[1] = "request"
  \/ MutexOf(pc[th]) = "response_n_signal_mutex"
       /\ k \in Queued("response", responseQueue) \cup Queued("answer", responseQueue)
  \/ th \in Workers /\ Active(th) /\ k = <<"msg", job[th]>>
  \/ th \in Workers /\ pc[th] = "post" /\ k = <<"res", job[th]>>
  \/ th \in Workers /\ pc[th] = "finish" /\ <<"res", th>> \in held /\ k = <<"res", job[th]>>
  \/ th \in Calls /\ pc[th] # "none" /\ k \in {<<"call_msg", th>>, <<"parked", th>>, <<"res", th>>}

LEMMA CountersAreAt ==
  ASSUME ThreadsTyped, JobsInv, NEW th \in Threads, NEW k \in Counters(th)
  PROVE  At(th, k)
<1>1. CASE th = "dispatcher"
  <2>1. th \notin Workers /\ th \notin Calls
    BY <1>1, DistinctAssumption
  <2>2. pc[th] \in {"loop", "forward", "record", "leave", "take", "send"}
    BY <1>1 DEF ThreadsTyped
  <2> QED BY <1>1, <2>1, <2>2 DEF Counters, At, MutexOf, Queued, Sending
<1>2. CASE th \in Workers
  <2>1. pc[th] \in {"pop", "method", "post", "defer", "finish"}
    BY <1>2 DEF ThreadsTyped
  <2> QED BY <1>2, <2>1 DEF Counters, At, MutexOf, Queued, MsgCounter, Active
<1>3. CASE th \in Calls
  <2>1. pc[th] \in {"none", "resume", "post", "finish"} /\ th \notin Workers
        /\ (pc[th] # "none" => job[th] = th)
    BY <1>3, DistinctAssumption DEF ThreadsTyped, JobsInv
  <2> QED BY <1>3, <2>1 DEF Counters, At, MutexOf, Queued, MsgCounter
<1> QED BY <1>1, <1>2, <1>3 DEF Threads

\* Two threads that could be at one counter have the same mutex.
LEMMA CountersDiffer ==
  ASSUME ThreadsTyped, JobsInv, HeldInv, RequestsInv, ResponsesInv,
         NEW th \in Threads, NEW u \in Threads, th # u,
         MutexOf(pc[th]) = "none" \/ MutexOf(pc[th]) # MutexOf(pc[u])
  PROVE  Counters(th) \cap Counters(u) = {}
<1> SUFFICES ASSUME NEW k \in Counters(th), k \in Counters(u) PROVE FALSE
  OBVIOUS
<1>1. At(th, k) /\ At(u, k)
  BY CountersAreAt
<1>2. th \in Workers => th \notin Calls /\ th # "dispatcher"
  BY DistinctAssumption
<1>3. u \in Workers => u \notin Calls /\ u # "dispatcher"
  BY DistinctAssumption
<1>4. \A q, role : k \in Queued(role, q) => k[1] = role /\ k = <<role, k[2]>> /\ k[2] \in ToSet(q)
  BY DEF Queued
<1>5. MutexOf(pc[th]) = MutexOf(pc[u]) => MutexOf(pc[th]) = "none"
  OBVIOUS
<1>6. \A v, w \in Workers : Active(v) /\ Active(w) /\ job[v] = job[w] => v = w
  BY DEF JobsInv
<1>7. \A c \in Calls, w \in Workers : pc[c] # "none" /\ job[w] = c =>
        pc[w] \notin {"post"} /\ (pc[w] = "finish" => <<"res", w>> \notin held)
  BY DEF ResponsesInv, Active
<1>8. \A c \in ToSet(responseQueue) : ~Sending(c)
  BY DEF ResponsesInv
<1>9. CASE k[1] = "res"
  BY <1>1, <1>2, <1>3, <1>4, <1>5, <1>6, <1>7, <1>9 DEF At, Active
<1>10. CASE k[1] = "msg"
  BY <1>1, <1>2, <1>3, <1>4, <1>5, <1>6, <1>10 DEF At
<1>11. CASE k[1] = "answer"
  BY <1>1, <1>4, <1>5, <1>8, <1>11 DEF At
<1>12. CASE k[1] \notin {"res", "msg", "answer"}
  BY <1>1, <1>2, <1>3, <1>4, <1>5, <1>12 DEF At
<1> QED BY <1>9, <1>10, <1>11, <1>12

-----------------------------------------------------------------------------
(* A step leaves what the others are at. *)

LEMMA CountersKept ==
  ASSUME NEW u \in Threads, pc'[u] = pc[u], job'[u] = job[u],
         MutexOf(pc[u]) = "request_mutex" => ToSet(requestQueue) \subseteq ToSet(requestQueue'),
         MutexOf(pc[u]) = "response_n_signal_mutex" =>
           ToSet(responseQueue) \subseteq ToSet(responseQueue'),
         <<"res", u>> \in held => <<"res", u>> \in held'
  PROVE  Counters(u) \subseteq Counters(u)'
<1>1. CASE MutexOf(pc[u]) = "request_mutex"
  <2>1. Queued("request", requestQueue) \subseteq Queued("request", requestQueue')
    BY <1>1 DEF Queued
  <2> HIDE DEF Queued
  <2> QED BY <1>1, <2>1 DEF Counters, MutexOf
<1>2. CASE MutexOf(pc[u]) = "response_n_signal_mutex"
  <2>1. /\ Queued("response", responseQueue) \subseteq Queued("response", responseQueue')
        /\ Queued("answer", responseQueue) \subseteq Queued("answer", responseQueue')
    BY <1>2 DEF Queued
  <2>2. MsgCounter(u)' = MsgCounter(u)
    BY DEF MsgCounter
  <2> QED BY <1>2, <2>1, <2>2 DEF Counters, MutexOf
<1>3. CASE MutexOf(pc[u]) \notin {"request_mutex", "response_n_signal_mutex"}
  <2>1. MsgCounter(u)' = MsgCounter(u)
    BY DEF MsgCounter
  <2>2. pc[u] \notin {"forward", "pop", "post", "take"}
    BY <1>3 DEF MutexOf
  <2> QED BY <2>1, <2>2 DEF Counters
<1> QED BY <1>1, <1>2, <1>3

\* TouchInv over a step that starts no statement.
LEMMA TouchKept ==
  ASSUME TouchInv,
         \A u \in Threads : touching'[u] # {} =>
           touching'[u] = touching[u] /\ pc'[u] = pc[u] /\ Counters(u) \subseteq Counters(u)'
  PROVE  TouchInv'
<1>1. ASSUME NEW th \in Threads
      PROVE  touching'[th] \subseteq Counters(th)'
  <2>1. CASE touching'[th] = {}
    BY <2>1
  <2>2. CASE touching'[th] # {}
    BY <2>2 DEF TouchInv
  <2> QED BY <2>1, <2>2
<1>2. ASSUME NEW th \in Threads, NEW u \in Threads,
             th # u, touching'[th] # {}, touching'[u] # {}, MutexOf(pc'[th]) # "none"
      PROVE  MutexOf(pc'[th]) # MutexOf(pc'[u])
  BY <1>2 DEF TouchInv
<1> QED BY <1>1, <1>2 DEF TouchInv

-----------------------------------------------------------------------------
(* The beginning of a statement. *)

LEMMA CountersOfPlaces ==
  ASSUME NEW places, NEW k \in CountersOf(places)
  PROVE  \E p \in places : p \in held /\ k = store.handles[p].cnt
  BY DEF CountersOf, Held, held

LEMMA QueuedCounters ==
  ASSUME ThreadsTyped, NamesInv, NEW p \in held
  PROVE  /\ p \in Queued("request", requestQueue) => store.handles[p].cnt = p
         /\ p \in Queued("response", responseQueue) \cup Queued("answer", responseQueue)
              => store.handles[p].cnt = p
<1>1. \A q \in Seq(Calls) : \A c \in ToSet(q) : c \in Calls
  BY DEF ToSet
<1>2. ToSet(requestQueue) \subseteq Calls /\ ToSet(responseQueue) \subseteq Calls
  BY <1>1 DEF ThreadsTyped
<1>3. \A c \in Calls : \A role \in {"request", "response", "answer"} :
        <<role, c>> \in held => store.handles[<<role, c>>].cnt = <<role, c>>
  BY DEF NamesInv, CounterOf
<1> QED BY <1>2, <1>3 DEF Queued

\* A statement touches no counters but those of Counters (Touches).
LEMMA TouchesAreCounters ==
  ASSUME ThreadsTyped, JobsInv, NamesInv, HeldInv, NEW th \in Threads
  PROVE  Touches(th) \subseteq Counters(th)
<1> SUFFICES ASSUME NEW k \in Touches(th) PROVE k \in Counters(th)
  OBVIOUS
<1> DEFINE cnt(p) == store.handles[p].cnt
<1>1. CASE th = "dispatcher"
  <2>1. pc[th] \in {"loop", "forward", "record", "leave", "take", "send"}
    BY <1>1 DEF ThreadsTyped
  <2>2. /\ <<"stub", th>> \in held => cnt(<<"stub", th>>) = <<"stub", job[th]>>
        /\ <<"msg", th>> \in held => cnt(<<"msg", th>>) = <<"sent", job[th]>>
        /\ <<"res", th>> \in held => cnt(<<"res", th>>) = <<"answer", job[th]>>
        /\ pc[th] = "send" /\ <<"continuation", job[th]>> \in held
             => cnt(<<"continuation", job[th]>>) = <<"stub", job[th]>>
    BY <1>1 DEF NamesInv, CounterOf, JobsInv
  <2>3. pc[th] # "send" => <<"msg", th>> \notin held /\ <<"res", th>> \notin held
    BY <1>1 DEF HeldInv
  <2>4. CASE pc[th] = "forward"
    <3>1. PICK p \in {<<"stub", th>>} \cup Queued("request", requestQueue) : p \in held /\ k = cnt(p)
      BY <2>4, CountersOfPlaces DEF Touches
    <3> QED BY <2>2, <2>4, <3>1, QueuedCounters DEF Counters
  <2>5. CASE pc[th] = "record"
    <3>1. PICK p \in {<<"stub", th>>} : p \in held /\ k = cnt(p)
      BY <2>5, CountersOfPlaces DEF Touches
    <3> QED BY <2>2, <2>5, <3>1 DEF Counters
  <2>6. CASE pc[th] = "leave"
    <3>1. PICK p \in Locals(th) : p \in held /\ k = cnt(p)
      BY <2>6, CountersOfPlaces DEF Touches
    <3> QED BY <2>2, <2>3, <2>6, <3>1 DEF Counters, Locals
  <2>7. CASE pc[th] = "take"
    <3>1. PICK p \in Queued("response", responseQueue) \cup Queued("answer", responseQueue) :
            p \in held /\ k = cnt(p)
      BY <2>7, CountersOfPlaces DEF Touches
    <3> QED BY <2>7, <3>1, QueuedCounters DEF Counters
  <2>8. CASE pc[th] = "send"
    <3>1. PICK p \in Locals(th) \cup {<<"continuation", job[th]>>} : p \in held /\ k = cnt(p)
      BY <2>8, CountersOfPlaces DEF Touches
    <3> QED BY <2>2, <2>8, <3>1 DEF Counters, Locals
  <2>9. CASE pc[th] = "loop"
    BY <2>9, CountersOfPlaces DEF Touches
  <2> QED BY <2>1, <2>4, <2>5, <2>6, <2>7, <2>8, <2>9
<1>2. CASE th \in Workers \cup Calls
  <2>1. /\ th # "dispatcher" /\ (th \in Workers => th \notin Calls)
        /\ pc[th] \in {"pop", "method", "post", "defer", "finish", "none", "resume"}
        /\ (th \in Workers => pc[th] \notin {"none", "resume"})
        /\ (th \in Calls => pc[th] \in {"none", "resume", "post", "finish"})
        /\ (th \in Calls /\ pc[th] # "none" => job[th] = th)
    BY <1>2, DistinctAssumption DEF ThreadsTyped, JobsInv
  <2>2. th \in Workers => /\ <<"msg", th>> \in held => cnt(<<"msg", th>>) = <<"msg", job[th]>>
                          /\ <<"res", th>> \in held => cnt(<<"res", th>>) = <<"res", job[th]>>
    BY DEF NamesInv, CounterOf
  <2>3. th \in Calls => /\ <<"msg", th>> \in held => cnt(<<"msg", th>>) = <<"call_msg", th>>
                        /\ <<"res", th>> \in held => cnt(<<"res", th>>) = <<"res", th>>
                        /\ <<"parked", th>> \in held => cnt(<<"parked", th>>) = <<"parked", th>>
    BY DEF NamesInv, CounterOf
  <2>4. pc[th] # "pop" /\ pc[th] # "none" =>
          /\ <<"msg", th>> \in held => cnt(<<"msg", th>>) = MsgCounter(th)
          /\ <<"res", th>> \in held => cnt(<<"res", th>>) = <<"res", job[th]>>
    BY <1>2, <2>1, <2>2, <2>3 DEF MsgCounter
  <2>5. <<"stub", th>> \notin held
    BY <1>2 DEF HeldInv
  <2>6. CASE pc[th] = "pop"
    <3>1. PICK p \in Queued("request", requestQueue) : p \in held /\ k = cnt(p)
      BY <2>6, CountersOfPlaces DEF Touches
    <3> QED BY <2>6, <3>1, QueuedCounters DEF Counters
  <2>7. CASE pc[th] = "defer"
    <3>1. PICK p \in {<<"msg", th>>} : p \in held /\ k = cnt(p)
      BY <2>7, CountersOfPlaces DEF Touches
    <3> QED BY <2>1, <2>2, <2>7, <3>1, <1>2 DEF Counters
  <2>8. CASE pc[th] = "resume"
    <3>1. PICK p \in {<<"parked", job[th]>>} : p \in held /\ k = cnt(p)
      BY <2>8, CountersOfPlaces DEF Touches
    <3> QED BY <2>1, <2>3, <2>8, <3>1, <1>2 DEF Counters
  <2>9. CASE pc[th] = "finish"
    <3>1. PICK p \in Locals(th) : p \in held /\ k = cnt(p)
      BY <2>9, CountersOfPlaces DEF Touches
    <3> QED BY <2>4, <2>5, <2>9, <3>1 DEF Counters, Locals
  <2>10. CASE pc[th] = "post"
    <3>1. PICK p \in Locals(th) \cup Queued("response", responseQueue)
                       \cup Queued("answer", responseQueue) : p \in held /\ k = cnt(p)
      BY <2>10, CountersOfPlaces DEF Touches
    <3> QED BY <2>4, <2>5, <2>10, <3>1, QueuedCounters DEF Counters, Locals
  <2>11. CASE pc[th] \in {"method", "none"}
    BY <2>11, CountersOfPlaces DEF Touches
  <2> QED BY <2>1, <2>6, <2>7, <2>8, <2>9, <2>10, <2>11
<1> QED BY <1>1, <1>2 DEF Threads

\* The statements of two threads that are at a counter at once do not meet
\* (NoCounterRace).
LEMMA ThreadsDoNotMeet == MessagesInv => NoCounterRace
<1> SUFFICES ASSUME MessagesInv, NEW th \in Threads, NEW u \in Threads, th # u
             PROVE  touching[th] \cap touching[u] = {}
  BY DEF NoCounterRace
<1>1. CASE touching[th] = {} \/ touching[u] = {}
  BY <1>1
<1>2. CASE touching[th] # {} /\ touching[u] # {}
  <2>1. MutexOf(pc[th]) = "none" \/ MutexOf(pc[th]) # MutexOf(pc[u])
    BY <1>2 DEF MessagesInv, TouchInv
  <2>2. Counters(th) \cap Counters(u) = {}
    BY <2>1, CountersDiffer DEF MessagesInv
  <2> QED BY <2>2 DEF MessagesInv, TouchInv
<1> QED BY <1>1, <1>2

\* A statement starts (Start): what it touches no one else does.
LEMMA StartStep ==
  ASSUME MessagesInv, NEW th \in Threads, Start(th)
  PROVE  MessagesInv'
<1>1. /\ touching' = [touching EXCEPT ![th] = Touches(th)]
      /\ UNCHANGED <<store, pc, job, requestQueue, responseQueue, arrived>>
  BY DEF Start
<1>2. touching'[th] = Touches(th) /\ \A u \in Threads \ {th} : touching'[u] = touching[u]
  BY <1>1 DEF MessagesInv, ThreadsTyped
<1>3. ThreadsTyped'
  BY <1>1 DEF MessagesInv, ThreadsTyped
<1>4. JobsInv' /\ NamesInv' /\ HeldInv' /\ RequestsInv' /\ ResponsesInv'
  <2>1. JobsInv'
    BY <1>1 DEF MessagesInv, JobsInv, Active
  <2>2. NamesInv'
    BY <1>1 DEF MessagesInv, NamesInv, CounterOf, held
  <2>3. HeldInv'
    BY <1>1 DEF MessagesInv, HeldInv, held
  <2>4. RequestsInv'
    BY <1>1 DEF MessagesInv, RequestsInv, Untouched, Sending, Forwarding, Active
  <2>5. ResponsesInv'
    BY <1>1 DEF MessagesInv, ResponsesInv, Sending, Active, held
  <2> QED BY <2>1, <2>2, <2>3, <2>4, <2>5
<1>5. \A u \in Threads : Counters(u)' = Counters(u)
  BY <1>1 DEF Counters, MsgCounter, Queued, held
<1>6. Touches(th) \subseteq Counters(th)
  BY TouchesAreCounters DEF MessagesInv
<1>7. MutexOf(pc[th]) # "none" =>
        \A u \in Threads \ {th} : MutexOf(pc[u]) = MutexOf(pc[th]) => touching[u] = {}
  BY DEF Start
<1>8. TouchInv'
  <2>1. \A u \in Threads : touching'[u] \subseteq Counters(u)'
    BY <1>2, <1>5, <1>6 DEF MessagesInv, TouchInv
  <2>2. ASSUME NEW u \in Threads, NEW v \in Threads,
               u # v, touching'[u] # {}, touching'[v] # {}, MutexOf(pc[u]) # "none"
        PROVE  MutexOf(pc[u]) # MutexOf(pc[v])
    BY <1>2, <1>7, <2>2 DEF MessagesInv, TouchInv
  <2> QED BY <1>1, <2>1, <2>2 DEF TouchInv
<1> QED BY <1>3, <1>4, <1>8 DEF MessagesInv

-----------------------------------------------------------------------------
(* The end of a statement. *)

\* The thread is at no counter any more, and the others are where they were.
LEMMA EndKeepsTouch ==
  ASSUME ThreadsTyped, TouchInv, NEW th \in Threads, touching[th] # {},
         touching' = [touching EXCEPT ![th] = {}],
         \A u \in Threads \ {th} : touching[u] # {} =>
           pc'[u] = pc[u] /\ job'[u] = job[u] /\ (<<"res", u>> \in held => <<"res", u>> \in held'),
         MutexOf(pc[th]) # "request_mutex" => ToSet(requestQueue) \subseteq ToSet(requestQueue'),
         MutexOf(pc[th]) # "response_n_signal_mutex" =>
           ToSet(responseQueue) \subseteq ToSet(responseQueue')
  PROVE  TouchInv'
<1>1. touching'[th] = {} /\ \A u \in Threads \ {th} : touching'[u] = touching[u]
  BY DEF ThreadsTyped
<1>2. ASSUME NEW u \in Threads, touching'[u] # {}
      PROVE  touching'[u] = touching[u] /\ pc'[u] = pc[u] /\ Counters(u) \subseteq Counters(u)'
  <2>1. u # th /\ touching'[u] = touching[u] /\ touching[u] # {}
    BY <1>1, <1>2
  <2>2. pc'[u] = pc[u] /\ job'[u] = job[u] /\ (<<"res", u>> \in held => <<"res", u>> \in held')
    BY <2>1
  <2>3. MutexOf(pc[th]) # "none" => MutexOf(pc[th]) # MutexOf(pc[u])
    BY <2>1 DEF TouchInv
  <2>4. /\ MutexOf(pc[u]) = "request_mutex" => ToSet(requestQueue) \subseteq ToSet(requestQueue')
        /\ MutexOf(pc[u]) = "response_n_signal_mutex" =>
             ToSet(responseQueue) \subseteq ToSet(responseQueue')
    BY <2>3
  <2>5. Counters(u) \subseteq Counters(u)'
    BY <2>2, <2>4, CountersKept
  <2> QED BY <2>1, <2>2, <2>5
<1> QED BY <1>2, TouchKept

LEMMA ToSetFacts ==
  ASSUME NEW S, NEW q \in Seq(S)
  PROVE  /\ \A x : x \in ToSet(q) <=> \E i \in 1..Len(q) : q[i] = x
         /\ ToSet(q) \subseteq S
         /\ DOMAIN q = 1..Len(q)
  BY DEF ToSet

\* A queue gets one more, or loses the first; nothing is in it twice.
LEMMA AppendedQueue ==
  ASSUME NEW S, NEW q \in Seq(S), NEW c \in S, c \notin ToSet(q),
         \A i, j \in DOMAIN q : i # j => q[i] # q[j]
  PROVE  LET r == Append(q, c) IN
         /\ r \in Seq(S) /\ ToSet(r) = ToSet(q) \cup {c}
         /\ \A i, j \in DOMAIN r : i # j => r[i] # r[j]
<1> DEFINE r == Append(q, c)
<1>1. /\ r \in Seq(S) /\ Len(r) = Len(q) + 1 /\ r[Len(q) + 1] = c
      /\ \A i \in 1..Len(q) : r[i] = q[i]
      /\ Len(q) \in Nat
  OBVIOUS
<1> HIDE DEF r
<1>2. /\ DOMAIN r = 1..(Len(q) + 1) /\ DOMAIN q = 1..Len(q)
      /\ \A x : x \in ToSet(q) <=> \E i \in 1..Len(q) : q[i] = x
      /\ \A x : x \in ToSet(r) <=> \E i \in 1..(Len(q) + 1) : r[i] = x
  BY <1>1, ToSetFacts
<1>3. \A i \in 1..(Len(q) + 1) : i \in 1..Len(q) \/ i = Len(q) + 1
  BY <1>1
<1>4. ToSet(r) = ToSet(q) \cup {c}
  <2>1. \A x \in ToSet(q) : x \in ToSet(r)
    BY <1>1, <1>2
  <2>2. c \in ToSet(r)
    BY <1>1, <1>2
  <2>3. \A x \in ToSet(r) : x \in ToSet(q) \/ x = c
    BY <1>1, <1>2, <1>3
  <2> QED BY <2>1, <2>2, <2>3
<1>5. \A i, j \in DOMAIN r : i # j => r[i] # r[j]
  BY <1>1, <1>2, <1>3
<1> QED BY <1>1, <1>4, <1>5 DEF r

LEMMA TailOfQueue ==
  ASSUME NEW S, NEW q \in Seq(S), q # << >>,
         \A i, j \in DOMAIN q : i # j => q[i] # q[j]
  PROVE  LET r == Tail(q) IN
         /\ Head(q) \in S /\ Head(q) \in ToSet(q)
         /\ r \in Seq(S) /\ ToSet(r) = ToSet(q) \ {Head(q)}
         /\ \A i, j \in DOMAIN r : i # j => r[i] # r[j]
<1> DEFINE r == Tail(q)
<1>1. /\ r \in Seq(S) /\ Len(r) = Len(q) - 1 /\ Head(q) = q[1]
      /\ \A i \in 1..(Len(q) - 1) : r[i] = q[i + 1]
      /\ Len(q) \in Nat /\ Len(q) # 0
  OBVIOUS
<1> HIDE DEF r
<1>2. /\ DOMAIN r = 1..(Len(q) - 1) /\ DOMAIN q = 1..Len(q)
      /\ \A x : x \in ToSet(q) <=> \E i \in 1..Len(q) : q[i] = x
      /\ \A x : x \in ToSet(r) <=> \E i \in 1..(Len(q) - 1) : r[i] = x
  BY <1>1, ToSetFacts
<1>3. /\ \A i \in 1..(Len(q) - 1) : i + 1 \in 1..Len(q) /\ i + 1 # 1
      /\ \A i \in 1..Len(q) : i # 1 => i - 1 \in 1..(Len(q) - 1) /\ (i - 1) + 1 = i
      /\ 1 \in 1..Len(q)
  BY <1>1
<1>4. ToSet(r) = ToSet(q) \ {Head(q)}
  <2>1. ASSUME NEW x \in ToSet(q), x # Head(q) PROVE x \in ToSet(r)
    <3>1. PICK i \in 1..Len(q) : q[i] = x
      BY <1>2
    <3>2. i # 1
      BY <1>1, <2>1, <3>1
    <3>3. i - 1 \in 1..(Len(q) - 1) /\ r[i - 1] = q[i]
      BY <1>1, <1>3, <3>2
    <3> QED BY <1>2, <3>1, <3>3
  <2>2. ASSUME NEW x \in ToSet(r) PROVE x \in ToSet(q) /\ x # Head(q)
    BY <1>1, <1>2, <1>3
  <2> QED BY <2>1, <2>2
<1>5. \A i, j \in DOMAIN r : i # j => r[i] # r[j]
  BY <1>1, <1>2, <1>3
<1>6. Head(q) \in S /\ Head(q) \in ToSet(q)
  BY <1>1, <1>2, <1>3
<1> QED BY <1>1, <1>4, <1>5, <1>6 DEF r

\* Each part of the invariant after a step of the dispatcher, given what the
\* step does to the threads, the queues and the handles.
LEMMA DeliverStep ==
  ASSUME MessagesInv, NEW c \in Calls, Deliver(c)
  PROVE  MessagesInv'
<1> DEFINE d == "dispatcher"
           s1 == NewPrivate(store, <<"stub", d>>, <<"stub", c>>, <<"call", c>>)
           s2 == Ref(s1, <<"call", c>>)
<1>1. /\ pc[d] = "loop" /\ c \notin arrived /\ arrived' = arrived \cup {c}
      /\ pc' = [pc EXCEPT ![d] = "forward"] /\ job' = [job EXCEPT ![d] = c]
      /\ store' = Ref(s2, <<"call", c>>)
      /\ UNCHANGED <<touching, requestQueue, responseQueue>>
  BY DEF Deliver
<1>2. /\ pc'[d] = "forward" /\ job'[d] = c /\ d \in Threads
      /\ d \notin Workers /\ d \notin Calls
      /\ \A u \in Workers \cup Calls : pc'[u] = pc[u] /\ job'[u] = job[u]
      /\ \A u \in Threads \ {d} : pc'[u] = pc[u] /\ job'[u] = job[u]
  BY <1>1, DistinctAssumption DEF MessagesInv, ThreadsTyped, Threads
<1>3. Puts(store, s1, <<"stub", d>>, <<"stub", c>>)
  BY NewPrivatePuts DEF MessagesInv, ThreadsTyped
<1>4. IsStore(store') /\ store'.handles = s1.handles
  <2> HIDE DEF s1
  <2>1. IsStore(s2) /\ s2.handles = s1.handles
    BY <1>3, RefFields, Zenon DEF Puts
  <2> HIDE DEF s2
  <2>2. IsStore(Ref(s2, <<"call", c>>)) /\ Ref(s2, <<"call", c>>).handles = s2.handles
    BY <2>1, RefFields, Zenon
  <2> QED BY <1>1, <2>1, <2>2
<1>5. /\ held' = held \cup {<<"stub", d>>}
      /\ store'.handles[<<"stub", d>>].cnt = <<"stub", c>>
      /\ \A q \in held \ {<<"stub", d>>} : store'.handles[q].cnt = store.handles[q].cnt
  <2> HIDE DEF s1
  <2> QED BY <1>3, <1>4 DEF Puts, held
<1> HIDE DEF s1, s2
<1>6. Untouched(c) /\ c \notin ToSet(requestQueue)
  BY <1>1 DEF MessagesInv, RequestsInv
<1>7. ThreadsTyped'
  BY <1>1, <1>2, <1>4 DEF MessagesInv, ThreadsTyped
<1>8. JobsInv'
  BY <1>2 DEF MessagesInv, JobsInv, Active
<1>9. NamesInv'
  <2>1. /\ CounterOf(<<"stub", "dispatcher">>, <<"stub", job["dispatcher"]>>)'
        /\ CounterOf(<<"msg", "dispatcher">>, <<"sent", job["dispatcher"]>>)'
        /\ CounterOf(<<"res", "dispatcher">>, <<"answer", job["dispatcher"]>>)'
    BY <1>1, <1>2, <1>5 DEF MessagesInv, NamesInv, HeldInv, CounterOf
  <2>2. \A v \in Workers : CounterOf(<<"msg", v>>, <<"msg", job[v]>>)'
    BY <1>1, <1>2, <1>5, ZenonT(60) DEF MessagesInv, NamesInv, HeldInv, CounterOf
  <2>3. \A v \in Workers : CounterOf(<<"res", v>>, <<"res", job[v]>>)'
    BY <1>1, <1>2, <1>5, ZenonT(60) DEF MessagesInv, NamesInv, HeldInv, CounterOf
  <2>4. \A x \in Calls : /\ CounterOf(<<"continuation", x>>, <<"stub", x>>)'
                         /\ CounterOf(<<"msg", x>>, <<"call_msg", x>>)'
                         /\ CounterOf(<<"res", x>>, <<"res", x>>)'
    BY <1>1, <1>2, <1>5, ZenonT(60) DEF MessagesInv, NamesInv, HeldInv, CounterOf
  <2>5. \A x \in Calls, role \in {"request", "parked", "response", "answer"} :
          CounterOf(<<role, x>>, <<role, x>>)'
    BY <1>1, <1>2, <1>5 DEF MessagesInv, NamesInv, HeldInv, CounterOf
  <2> QED BY <2>1, <2>2, <2>3, <2>4, <2>5, Zenon DEF NamesInv
<1>10. HeldInv'
  BY <1>1, <1>2, <1>5 DEF MessagesInv, HeldInv
<1>11. RequestsInv'
  BY <1>1, <1>2, <1>6 DEF MessagesInv, RequestsInv, Untouched, Sending, Forwarding, Active
<1>12. ResponsesInv'
  BY <1>1, <1>2, <1>5 DEF MessagesInv, ResponsesInv, Sending, Active
<1>13. TouchInv'
  <2>1. Counters(d) = {}
    BY <1>1 DEF Counters
  <2>2. touching[d] = {}
    BY <1>2, <2>1 DEF MessagesInv, TouchInv
  <2>3. ASSUME NEW u \in Threads, touching'[u] # {}
        PROVE  touching'[u] = touching[u] /\ pc'[u] = pc[u] /\ Counters(u) \subseteq Counters(u)'
    <3>1. u # d
      BY <1>1, <2>2, <2>3
    <3>2. pc'[u] = pc[u] /\ job'[u] = job[u] /\ (<<"res", u>> \in held => <<"res", u>> \in held')
      BY <1>2, <1>5, <3>1
    <3>3. Counters(u) \subseteq Counters(u)'
      BY <1>1, <3>2, CountersKept
    <3> QED BY <1>1, <3>2, <3>3
  <2>4. TouchInv
    BY DEF MessagesInv
  <2> QED BY <2>3, <2>4, TouchKept
<1> QED BY <1>7, <1>8, <1>9, <1>10, <1>11, <1>12, <1>13 DEF MessagesInv

LEMMA ForwardStep ==
  ASSUME MessagesInv, Forward
  PROVE  MessagesInv'
<1> DEFINE d == "dispatcher"
<1> PICK c : c = job[d]
  OBVIOUS
<1>1. /\ pc[d] = "forward" /\ touching[d] # {}
      /\ pc' = [pc EXCEPT ![d] = "record"] /\ touching' = [touching EXCEPT ![d] = {}]
      /\ store' = CopyApart(store, <<"stub", d>>, <<"request", c>>, <<"request", c>>)
      /\ requestQueue' = Append(requestQueue, c)
      /\ UNCHANGED <<job, responseQueue, arrived>>
  BY DEF Forward, End
<1>2. /\ pc'[d] = "record" /\ d \in Threads /\ d \notin Workers /\ d \notin Calls
      /\ \A u \in Workers \cup Calls : pc'[u] = pc[u]
      /\ \A u \in Threads \ {d} : pc'[u] = pc[u]
  BY <1>1, DistinctAssumption DEF MessagesInv, ThreadsTyped, Threads
<1>3. c \in Calls /\ Forwarding(c) /\ Untouched(c) /\ c \in arrived
  BY <1>1 DEF MessagesInv, JobsInv, RequestsInv, Forwarding
<1>4. Puts(store, store', <<"request", c>>, <<"request", c>>)
  BY <1>1, CopyApartPuts DEF MessagesInv, ThreadsTyped
<1>5. /\ held' = held \cup {<<"request", c>>}
      /\ store'.handles[<<"request", c>>].cnt = <<"request", c>>
      /\ \A q \in held \ {<<"request", c>>} : store'.handles[q].cnt = store.handles[q].cnt
  BY <1>4 DEF Puts, held
<1>6. /\ requestQueue' \in Seq(Calls) /\ ToSet(requestQueue') = ToSet(requestQueue) \cup {c}
      /\ \A i, j \in DOMAIN requestQueue' : i # j => requestQueue'[i] # requestQueue'[j]
  <2>1. requestQueue \in Seq(Calls) /\ c \notin ToSet(requestQueue)
        /\ \A i, j \in DOMAIN requestQueue : i # j => requestQueue[i] # requestQueue[j]
    BY <1>3 DEF MessagesInv, ThreadsTyped, RequestsInv
  <2> QED BY <1>1, <1>3, <2>1, AppendedQueue
<1>7. ThreadsTyped'
  BY <1>1, <1>2, <1>4, <1>6, ZenonT(60) DEF MessagesInv, ThreadsTyped, Puts
<1>8. JobsInv'
  BY <1>1, <1>2, <1>3 DEF MessagesInv, JobsInv, Active
<1>9. NamesInv'
  <2>1. /\ CounterOf(<<"stub", "dispatcher">>, <<"stub", job["dispatcher"]>>)'
        /\ CounterOf(<<"msg", "dispatcher">>, <<"sent", job["dispatcher"]>>)'
        /\ CounterOf(<<"res", "dispatcher">>, <<"answer", job["dispatcher"]>>)'
    BY <1>1, <1>2, <1>5 DEF MessagesInv, NamesInv, CounterOf
  <2>2. \A v \in Workers : CounterOf(<<"msg", v>>, <<"msg", job[v]>>)'
    BY <1>1, <1>2, <1>5 DEF MessagesInv, NamesInv, CounterOf
  <2>3. \A v \in Workers : CounterOf(<<"res", v>>, <<"res", job[v]>>)'
    BY <1>1, <1>2, <1>5 DEF MessagesInv, NamesInv, CounterOf
  <2>4. \A x \in Calls : /\ CounterOf(<<"continuation", x>>, <<"stub", x>>)'
                         /\ CounterOf(<<"msg", x>>, <<"call_msg", x>>)'
                         /\ CounterOf(<<"res", x>>, <<"res", x>>)'
    BY <1>1, <1>2, <1>5 DEF MessagesInv, NamesInv, CounterOf
  <2>5. \A x \in Calls, role \in {"request", "parked", "response", "answer"} :
          CounterOf(<<role, x>>, <<role, x>>)'
    BY <1>1, <1>2, <1>5 DEF MessagesInv, NamesInv, CounterOf
  <2> QED BY <2>1, <2>2, <2>3, <2>4, <2>5, Zenon DEF NamesInv
<1>10. HeldInv'
  BY <1>1, <1>2, <1>5 DEF MessagesInv, HeldInv
<1>11. RequestsInv'
  <2>1. \A x : ~Forwarding(x)'
    BY <1>2 DEF Forwarding
  <2>2. \A x \in Calls : Untouched(x) => Untouched(x)'
    BY <1>1, <1>2 DEF Untouched, Sending, Active
  <2> QED BY <1>1, <1>3, <1>6, <2>1, <2>2 DEF MessagesInv, RequestsInv
<1>12. ResponsesInv'
  BY <1>1, <1>2, <1>5 DEF MessagesInv, ResponsesInv, Sending, Active
<1>13. TouchInv'
  <2>1. \A u \in Threads \ {d} : touching[u] # {} =>
          pc'[u] = pc[u] /\ job'[u] = job[u] /\ (<<"res", u>> \in held => <<"res", u>> \in held')
    BY <1>1, <1>2, <1>5
  <2>2. ToSet(requestQueue) \subseteq ToSet(requestQueue') /\ responseQueue' = responseQueue
    BY <1>1, <1>6
  <2> QED BY <1>1, <1>2, <2>1, <2>2, EndKeepsTouch DEF MessagesInv
<1> QED BY <1>7, <1>8, <1>9, <1>10, <1>11, <1>12, <1>13 DEF MessagesInv

LEMMA RecordStep ==
  ASSUME MessagesInv, Record
  PROVE  MessagesInv'
<1> DEFINE d == "dispatcher"
<1> PICK c : c = job[d]
  OBVIOUS
<1>1. /\ pc[d] = "record" /\ touching[d] # {}
      /\ pc' = [pc EXCEPT ![d] = "leave"] /\ touching' = [touching EXCEPT ![d] = {}]
      /\ store' = CopyHandle(store, <<"stub", d>>, <<"continuation", c>>)
      /\ UNCHANGED <<job, requestQueue, responseQueue, arrived>>
  BY DEF Record, End
<1>2. /\ pc'[d] = "leave" /\ d \in Threads /\ d \notin Workers /\ d \notin Calls
      /\ \A u \in Workers \cup Calls : pc'[u] = pc[u]
      /\ \A u \in Threads \ {d} : pc'[u] = pc[u]
  BY <1>1, DistinctAssumption DEF MessagesInv, ThreadsTyped, Threads
<1>3. c \in Calls /\ store.handles[<<"stub", d>>].cnt = <<"stub", c>>
  BY <1>1 DEF MessagesInv, JobsInv, HeldInv, NamesInv, CounterOf
<1>4. Puts(store, store', <<"continuation", c>>, <<"stub", c>>)
  BY <1>1, <1>3, CopyHandlePuts DEF MessagesInv, ThreadsTyped
<1>5. /\ held' = held \cup {<<"continuation", c>>}
      /\ store'.handles[<<"continuation", c>>].cnt = <<"stub", c>>
      /\ \A q \in held \ {<<"continuation", c>>} : store'.handles[q].cnt = store.handles[q].cnt
  BY <1>4 DEF Puts, held
<1>6. ThreadsTyped'
  BY <1>1, <1>2, <1>4 DEF MessagesInv, ThreadsTyped, Puts
<1>7. JobsInv'
  BY <1>1, <1>2, <1>3 DEF MessagesInv, JobsInv, Active
<1>8. NamesInv'
  <2>1. /\ CounterOf(<<"stub", "dispatcher">>, <<"stub", job["dispatcher"]>>)'
        /\ CounterOf(<<"msg", "dispatcher">>, <<"sent", job["dispatcher"]>>)'
        /\ CounterOf(<<"res", "dispatcher">>, <<"answer", job["dispatcher"]>>)'
    BY <1>1, <1>2, <1>5 DEF MessagesInv, NamesInv, CounterOf
  <2>2. \A v \in Workers : CounterOf(<<"msg", v>>, <<"msg", job[v]>>)'
    BY <1>1, <1>2, <1>5 DEF MessagesInv, NamesInv, CounterOf
  <2>3. \A v \in Workers : CounterOf(<<"res", v>>, <<"res", job[v]>>)'
    BY <1>1, <1>2, <1>5 DEF MessagesInv, NamesInv, CounterOf
  <2>4. \A x \in Calls : /\ CounterOf(<<"continuation", x>>, <<"stub", x>>)'
                         /\ CounterOf(<<"msg", x>>, <<"call_msg", x>>)'
                         /\ CounterOf(<<"res", x>>, <<"res", x>>)'
    BY <1>1, <1>2, <1>5 DEF MessagesInv, NamesInv, CounterOf
  <2>5. \A x \in Calls, role \in {"request", "parked", "response", "answer"} :
          CounterOf(<<role, x>>, <<role, x>>)'
    BY <1>1, <1>2, <1>5 DEF MessagesInv, NamesInv, CounterOf
  <2> QED BY <2>1, <2>2, <2>3, <2>4, <2>5, Zenon DEF NamesInv
<1>9. HeldInv'
  BY <1>1, <1>2, <1>5 DEF MessagesInv, HeldInv
<1>10. RequestsInv'
  BY <1>1, <1>2 DEF MessagesInv, RequestsInv, Untouched, Sending, Forwarding, Active
<1>11. ResponsesInv'
  BY <1>1, <1>2, <1>5 DEF MessagesInv, ResponsesInv, Sending, Active
<1>12. TouchInv'
  <2>1. \A u \in Threads \ {d} : touching[u] # {} =>
          pc'[u] = pc[u] /\ job'[u] = job[u] /\ (<<"res", u>> \in held => <<"res", u>> \in held')
    BY <1>1, <1>2, <1>5
  <2> QED BY <1>1, <1>2, <2>1, EndKeepsTouch DEF MessagesInv
<1> QED BY <1>6, <1>7, <1>8, <1>9, <1>10, <1>11, <1>12 DEF MessagesInv

LEMMA LeaveStubStep ==
  ASSUME MessagesInv, LeaveStub
  PROVE  MessagesInv'
<1> DEFINE d == "dispatcher"
           s1 == DropHandle(store, <<"stub", d>>)
<1> PICK c : c = job[d]
  OBVIOUS
<1>1. /\ pc[d] = "leave" /\ touching[d] # {}
      /\ pc' = [pc EXCEPT ![d] = "loop"] /\ touching' = [touching EXCEPT ![d] = {}]
      /\ store' = Unref(s1, <<"call", c>>)
      /\ UNCHANGED <<job, requestQueue, responseQueue, arrived>>
  BY DEF LeaveStub, End
<1>2. /\ pc'[d] = "loop" /\ d \in Threads /\ d \notin Workers /\ d \notin Calls
      /\ \A u \in Workers \cup Calls : pc'[u] = pc[u]
      /\ \A u \in Threads \ {d} : pc'[u] = pc[u]
  BY <1>1, DistinctAssumption DEF MessagesInv, ThreadsTyped, Threads
<1>3. Drops(store, s1, <<"stub", d>>)
  BY DropHandleDrops DEF MessagesInv, ThreadsTyped
<1> HIDE DEF s1
<1>4. IsStore(store') /\ store'.handles = s1.handles
  <2>1. IsStore(Unref(s1, <<"call", c>>)) /\ Unref(s1, <<"call", c>>).handles = s1.handles
    BY <1>3, RefFields, Zenon DEF Drops
  <2> QED BY <1>1, <2>1
<1>5. /\ held' = held \ {<<"stub", d>>}
      /\ \A q \in held' : store'.handles[q].cnt = store.handles[q].cnt
  BY <1>3, <1>4 DEF Drops, held
<1>6. ThreadsTyped'
  BY <1>1, <1>2, <1>4 DEF MessagesInv, ThreadsTyped
<1>7. JobsInv'
  BY <1>1, <1>2 DEF MessagesInv, JobsInv, Active
<1>8. NamesInv'
  <2>1. /\ CounterOf(<<"stub", "dispatcher">>, <<"stub", job["dispatcher"]>>)'
        /\ CounterOf(<<"msg", "dispatcher">>, <<"sent", job["dispatcher"]>>)'
        /\ CounterOf(<<"res", "dispatcher">>, <<"answer", job["dispatcher"]>>)'
    BY <1>1, <1>2, <1>5 DEF MessagesInv, NamesInv, CounterOf
  <2>2. \A v \in Workers : CounterOf(<<"msg", v>>, <<"msg", job[v]>>)'
    BY <1>1, <1>2, <1>5 DEF MessagesInv, NamesInv, CounterOf
  <2>3. \A v \in Workers : CounterOf(<<"res", v>>, <<"res", job[v]>>)'
    BY <1>1, <1>2, <1>5 DEF MessagesInv, NamesInv, CounterOf
  <2>4. \A x \in Calls : /\ CounterOf(<<"continuation", x>>, <<"stub", x>>)'
                         /\ CounterOf(<<"msg", x>>, <<"call_msg", x>>)'
                         /\ CounterOf(<<"res", x>>, <<"res", x>>)'
    BY <1>1, <1>2, <1>5 DEF MessagesInv, NamesInv, CounterOf
  <2>5. \A x \in Calls, role \in {"request", "parked", "response", "answer"} :
          CounterOf(<<role, x>>, <<role, x>>)'
    BY <1>1, <1>2, <1>5 DEF MessagesInv, NamesInv, CounterOf
  <2> QED BY <2>1, <2>2, <2>3, <2>4, <2>5, Zenon DEF NamesInv
<1>9. HeldInv'
  BY <1>1, <1>2, <1>5 DEF MessagesInv, HeldInv
<1>10. RequestsInv'
  BY <1>1, <1>2 DEF MessagesInv, RequestsInv, Untouched, Sending, Forwarding, Active
<1>11. ResponsesInv'
  BY <1>1, <1>2, <1>5 DEF MessagesInv, ResponsesInv, Sending, Active
<1>12. TouchInv'
  <2>1. \A u \in Threads \ {d} : touching[u] # {} =>
          pc'[u] = pc[u] /\ job'[u] = job[u] /\ (<<"res", u>> \in held => <<"res", u>> \in held')
    BY <1>1, <1>2, <1>5
  <2> QED BY <1>1, <1>2, <2>1, EndKeepsTouch DEF MessagesInv
<1> QED BY <1>6, <1>7, <1>8, <1>9, <1>10, <1>11, <1>12 DEF MessagesInv

LEMMA ReadFrameStep ==
  ASSUME MessagesInv, ReadFrame
  PROVE  MessagesInv'
<1> DEFINE d == "dispatcher"
<1>1. /\ pc[d] = "loop" /\ pc' = [pc EXCEPT ![d] = "take"]
      /\ UNCHANGED <<store, job, touching, requestQueue, responseQueue, arrived>>
  BY DEF ReadFrame
<1>2. /\ pc'[d] = "take" /\ d \in Threads /\ d \notin Workers /\ d \notin Calls
      /\ \A u \in Workers \cup Calls : pc'[u] = pc[u]
      /\ \A u \in Threads \ {d} : pc'[u] = pc[u]
  BY <1>1, DistinctAssumption DEF MessagesInv, ThreadsTyped, Threads
<1>3. held' = held
  BY <1>1 DEF held
<1>4. ThreadsTyped'
  BY <1>1, <1>2 DEF MessagesInv, ThreadsTyped
<1>5. JobsInv'
  BY <1>1, <1>2 DEF MessagesInv, JobsInv, Active
<1>6. NamesInv'
  BY <1>1, <1>2, <1>3 DEF MessagesInv, NamesInv, CounterOf
<1>7. HeldInv'
  BY <1>1, <1>2, <1>3 DEF MessagesInv, HeldInv
<1>8. RequestsInv'
  BY <1>1, <1>2 DEF MessagesInv, RequestsInv, Untouched, Sending, Forwarding, Active
<1>9. ResponsesInv'
  BY <1>1, <1>2, <1>3 DEF MessagesInv, ResponsesInv, Sending, Active
<1>10. TouchInv'
  <2>1. touching[d] = {}
    BY <1>1, <1>2 DEF MessagesInv, TouchInv, Counters
  <2>2. ASSUME NEW u \in Threads, touching'[u] # {}
        PROVE  touching'[u] = touching[u] /\ pc'[u] = pc[u] /\ Counters(u) \subseteq Counters(u)'
    <3>1. u # d
      BY <1>1, <2>1, <2>2
    <3>2. pc'[u] = pc[u] /\ job'[u] = job[u]
      BY <1>1, <1>2, <3>1
    <3>3. Counters(u) \subseteq Counters(u)'
      BY <1>1, <1>3, <3>2, CountersKept
    <3> QED BY <1>1, <3>2, <3>3
  <2>3. TouchInv
    BY DEF MessagesInv
  <2> QED BY <2>2, <2>3, TouchKept
<1> QED BY <1>4, <1>5, <1>6, <1>7, <1>8, <1>9, <1>10 DEF MessagesInv

\* What a thread that is not the dispatcher is at.
LEMMA WorkerOrHelper ==
  ASSUME MessagesInv, NEW th \in Threads, pc[th] \in {"post", "finish"}
  PROVE  /\ th \in Workers \cup Calls /\ th # "dispatcher"
         /\ job[th] \in Calls
         /\ th \in Workers => Active(th) /\ th \notin Calls
         /\ th \in Calls => job[th] = th /\ th \notin Workers
<1>1. th # "dispatcher"
  BY DEF MessagesInv, ThreadsTyped
<1>2. th \in Workers \cup Calls
  BY <1>1 DEF Threads
<1> QED BY <1>1, <1>2, DistinctAssumption DEF MessagesInv, JobsInv, Active

LEMMA PopStep ==
  ASSUME MessagesInv, NEW w \in Workers, Pop(w)
  PROVE  MessagesInv'
<1> PICK c : c = Head(requestQueue)
  OBVIOUS
<1> DEFINE s1 == CopyApart(store, <<"request", c>>, <<"msg", w>>, <<"msg", c>>)
<1>1. /\ pc[w] = "pop" /\ touching[w] # {}
      /\ pc' = [pc EXCEPT ![w] = "method"] /\ touching' = [touching EXCEPT ![w] = {}]
      /\ store' = DropHandle(s1, <<"request", c>>)
      /\ requestQueue' = Tail(requestQueue) /\ job' = [job EXCEPT ![w] = c]
      /\ UNCHANGED <<responseQueue, arrived>>
  BY DEF Pop, End
<1>2. /\ pc'[w] = "method" /\ job'[w] = c /\ w \in Threads
      /\ w # "dispatcher" /\ w \notin Calls
      /\ \A u \in Threads \ {w} : pc'[u] = pc[u] /\ job'[u] = job[u]
      /\ pc'["dispatcher"] = pc["dispatcher"] /\ job'["dispatcher"] = job["dispatcher"]
      /\ \A u \in Calls : pc'[u] = pc[u] /\ job'[u] = job[u]
      /\ \A u \in Workers \ {w} : pc'[u] = pc[u] /\ job'[u] = job[u]
  BY <1>1, DistinctAssumption DEF MessagesInv, ThreadsTyped, Threads
<1>3. requestQueue # << >>
  <2>1. Counters(w) = Queued("request", requestQueue)
    BY <1>1 DEF Counters
  <2>2. ToSet(requestQueue) # {}
    BY <1>1, <1>2, <2>1 DEF MessagesInv, TouchInv, Queued
  <2> QED BY <2>2 DEF ToSet
<1>4. /\ c \in Calls /\ c \in ToSet(requestQueue)
      /\ requestQueue' \in Seq(Calls) /\ ToSet(requestQueue') = ToSet(requestQueue) \ {c}
      /\ \A i, j \in DOMAIN requestQueue' : i # j => requestQueue'[i] # requestQueue'[j]
  <2>1. requestQueue \in Seq(Calls)
        /\ \A i, j \in DOMAIN requestQueue : i # j => requestQueue[i] # requestQueue[j]
    BY DEF MessagesInv, ThreadsTyped, RequestsInv
  <2> QED BY <1>1, <1>3, <2>1, TailOfQueue
<1>5. Untouched(c) /\ c \in arrived /\ ~Forwarding(c)
  BY <1>4 DEF MessagesInv, RequestsInv
<1>6. Puts(store, s1, <<"msg", w>>, <<"msg", c>>)
  BY CopyApartPuts DEF MessagesInv, ThreadsTyped
<1> HIDE DEF s1
<1>7. Drops(s1, store', <<"request", c>>)
  BY <1>1, <1>6, DropHandleDrops DEF Puts
<1>8. /\ held' = (held \cup {<<"msg", w>>}) \ {<<"request", c>>}
      /\ store'.handles[<<"msg", w>>].cnt = <<"msg", c>>
      /\ \A q \in held' \ {<<"msg", w>>} : store'.handles[q].cnt = store.handles[q].cnt
  BY <1>6, <1>7 DEF Puts, Drops, held
<1>9. ThreadsTyped'
  BY <1>1, <1>2, <1>4, <1>7 DEF MessagesInv, ThreadsTyped, Drops
<1>10. JobsInv'
  <2>1. \A v \in Workers : Active(v) => job[v] # c
    BY <1>5 DEF Untouched
  <2> QED BY <1>2, <1>4, <2>1 DEF MessagesInv, JobsInv, Active
<1>11. NamesInv'
  <2>1. <<"res", w>> \notin held
    BY <1>1 DEF MessagesInv, HeldInv
  <2>2. /\ CounterOf(<<"stub", "dispatcher">>, <<"stub", job["dispatcher"]>>)'
        /\ CounterOf(<<"msg", "dispatcher">>, <<"sent", job["dispatcher"]>>)'
        /\ CounterOf(<<"res", "dispatcher">>, <<"answer", job["dispatcher"]>>)'
    BY <1>2, <1>8, <2>1 DEF MessagesInv, NamesInv, CounterOf
  <2>3. \A v \in Workers : CounterOf(<<"msg", v>>, <<"msg", job[v]>>)'
    BY <1>2, <1>8, <2>1, ZenonT(60) DEF MessagesInv, NamesInv, CounterOf
  <2>4. \A v \in Workers : CounterOf(<<"res", v>>, <<"res", job[v]>>)'
    BY <1>2, <1>8, <2>1, ZenonT(60) DEF MessagesInv, NamesInv, CounterOf
  <2>5. \A x \in Calls : /\ CounterOf(<<"continuation", x>>, <<"stub", x>>)'
                         /\ CounterOf(<<"msg", x>>, <<"call_msg", x>>)'
                         /\ CounterOf(<<"res", x>>, <<"res", x>>)'
    BY <1>2, <1>8, <2>1 DEF MessagesInv, NamesInv, CounterOf
  <2>6. \A x \in Calls : \A role \in {"request", "parked", "response", "answer"} :
          CounterOf(<<role, x>>, <<role, x>>)'
    BY <1>2, <1>8, <2>1, ZenonT(60) DEF MessagesInv, NamesInv, CounterOf
  <2> QED BY <2>2, <2>3, <2>4, <2>5, <2>6 DEF NamesInv
<1>12. HeldInv'
  BY <1>1, <1>2, <1>8 DEF MessagesInv, HeldInv
<1>13. RequestsInv'
  <2>1. \A x \in Calls : Untouched(x) /\ x # c => Untouched(x)'
    BY <1>1, <1>2 DEF Untouched, Sending, Active
  <2>2. \A x : Forwarding(x)' = Forwarding(x)
    BY <1>2 DEF Forwarding
  <2> QED BY <1>1, <1>4, <1>5, <2>1, <2>2 DEF MessagesInv, RequestsInv
<1>14. ResponsesInv'
  <2>1. pc[c] = "none" /\ c \notin ToSet(responseQueue) /\ ~Sending(c)
    BY <1>5 DEF Untouched
  <2>2. \A x : Sending(x)' = Sending(x)
    BY <1>2 DEF Sending
  <2>3. \A x \in Calls : x \in ToSet(responseQueue) \/ Sending(x) =>
          \A v \in Workers : job'[v] = x => pc'[v] \in {"pop", "finish"}
    BY <1>2, <2>1 DEF MessagesInv, ResponsesInv
  <2>4. \A x \in Calls : pc[x] # "none" =>
          \A v \in Workers : job'[v] = x /\ Active(v)' => pc'[v] = "finish" /\ <<"res", v>> \notin held'
    BY <1>2, <1>8, <2>1 DEF MessagesInv, ResponsesInv, Active
  <2> QED BY <1>1, <1>2, <2>2, <2>3, <2>4 DEF MessagesInv, ResponsesInv
<1>15. TouchInv'
  <2>1. \A u \in Threads \ {w} : touching[u] # {} =>
          pc'[u] = pc[u] /\ job'[u] = job[u] /\ (<<"res", u>> \in held => <<"res", u>> \in held')
    BY <1>1, <1>2, <1>8
  <2>2. MutexOf(pc[w]) = "request_mutex"
    BY <1>1 DEF MutexOf
  <2> QED BY <1>1, <1>2, <2>1, <2>2, EndKeepsTouch DEF MessagesInv
<1> QED BY <1>9, <1>10, <1>11, <1>12, <1>13, <1>14, <1>15 DEF MessagesInv

\* A ReturnMessage is a handle of its own (NewAnswer).
LEMMA NewAnswerPuts ==
  ASSUME NEW s, IsStore(s), NEW th, NEW c
  PROVE  Puts(s, NewAnswer(s, th, c), <<"res", th>>, <<"res", c>>)
<1> DEFINE t == NewPrivate(s, <<"res", th>>, <<"res", c>>, <<"answer", c>>)
<1>1. Puts(s, t, <<"res", th>>, <<"res", c>>)
  BY NewPrivatePuts
<1>2. NewAnswer(s, th, c) = Ref(t, <<"answer", c>>)
  BY DEF NewAnswer
<1> HIDE DEF t
<1>3. IsStore(t)
  BY <1>1 DEF Puts
<1>4. IsStore(Ref(t, <<"answer", c>>)) /\ Ref(t, <<"answer", c>>).handles = t.handles
  BY <1>3, RefFields, Zenon
<1> QED BY <1>1, <1>2, <1>4 DEF Puts

LEMMA MethodStep ==
  ASSUME MessagesInv, NEW w \in Workers, Method(w)
  PROVE  MessagesInv'
<1> PICK c : c = job[w]
  OBVIOUS
<1>1. PICK next \in {"post", "defer"} :
        /\ pc' = [pc EXCEPT ![w] = next]
        /\ next = "post" => store' = NewAnswer(store, w, c)
        /\ next = "defer" => store' = store
  BY DEF Method
<1>2. /\ pc[w] = "method"
      /\ UNCHANGED <<job, touching, requestQueue, responseQueue, arrived>>
  BY DEF Method
<1>3. /\ pc'[w] = next /\ w \in Threads /\ w # "dispatcher" /\ w \notin Calls
      /\ \A u \in Threads \ {w} : pc'[u] = pc[u]
      /\ pc'["dispatcher"] = pc["dispatcher"]
      /\ \A u \in Calls : pc'[u] = pc[u]
      /\ \A u \in Workers \ {w} : pc'[u] = pc[u]
  BY <1>1, DistinctAssumption DEF MessagesInv, ThreadsTyped, Threads
<1>4. c \in Calls /\ pc[c] = "none" /\ c \notin ToSet(responseQueue) /\ ~Sending(c)
  BY <1>2 DEF MessagesInv, JobsInv, ResponsesInv, Active
<1>5. /\ IsStore(store') /\ held \subseteq held' /\ held' \subseteq held \cup {<<"res", w>>}
      /\ next = "defer" => held' = held
      /\ <<"res", w>> \in held' => store'.handles[<<"res", w>>].cnt = <<"res", c>>
      /\ \A q \in held \ {<<"res", w>>} : store'.handles[q].cnt = store.handles[q].cnt
  <2>1. CASE next = "post"
    <3>1. Puts(store, store', <<"res", w>>, <<"res", c>>)
      BY <1>1, <2>1, NewAnswerPuts DEF MessagesInv, ThreadsTyped
    <3> QED BY <2>1, <3>1 DEF Puts, held
  <2>2. CASE next = "defer"
    <3>1. <<"res", w>> \in held => store.handles[<<"res", w>>].cnt = <<"res", c>>
      BY DEF MessagesInv, NamesInv, CounterOf
    <3> QED BY <1>1, <2>2, <3>1 DEF held, MessagesInv, ThreadsTyped
  <2> QED BY <2>1, <2>2
<1>6. ThreadsTyped'
  BY <1>1, <1>2, <1>3, <1>5 DEF MessagesInv, ThreadsTyped
<1>7. JobsInv'
  BY <1>2, <1>3, <1>4 DEF MessagesInv, JobsInv, Active
<1>8. NamesInv'
  <2>1. /\ CounterOf(<<"stub", "dispatcher">>, <<"stub", job["dispatcher"]>>)'
        /\ CounterOf(<<"msg", "dispatcher">>, <<"sent", job["dispatcher"]>>)'
        /\ CounterOf(<<"res", "dispatcher">>, <<"answer", job["dispatcher"]>>)'
    BY <1>2, <1>3, <1>5 DEF MessagesInv, NamesInv, CounterOf
  <2>2. \A v \in Workers : CounterOf(<<"msg", v>>, <<"msg", job[v]>>)'
    BY <1>2, <1>3, <1>5 DEF MessagesInv, NamesInv, CounterOf
  <2>3. \A v \in Workers : CounterOf(<<"res", v>>, <<"res", job[v]>>)'
    BY <1>2, <1>3, <1>5 DEF MessagesInv, NamesInv, CounterOf
  <2>4. \A x \in Calls : /\ CounterOf(<<"continuation", x>>, <<"stub", x>>)'
                         /\ CounterOf(<<"msg", x>>, <<"call_msg", x>>)'
                         /\ CounterOf(<<"res", x>>, <<"res", x>>)'
    BY <1>2, <1>3, <1>5 DEF MessagesInv, NamesInv, CounterOf
  <2>5. \A x \in Calls, role \in {"request", "parked", "response", "answer"} :
          CounterOf(<<role, x>>, <<role, x>>)'
    BY <1>2, <1>3, <1>5 DEF MessagesInv, NamesInv, CounterOf
  <2> QED BY <2>1, <2>2, <2>3, <2>4, <2>5, Zenon DEF NamesInv
<1>9. HeldInv'
  BY <1>2, <1>3, <1>5 DEF MessagesInv, HeldInv
<1>10. RequestsInv'
  BY <1>2, <1>3 DEF MessagesInv, RequestsInv, Untouched, Sending, Forwarding, Active
<1>11. ResponsesInv'
  BY <1>2, <1>3, <1>4, <1>5 DEF MessagesInv, ResponsesInv, Sending, Active
<1>12. TouchInv'
  <2>1. touching[w] = {}
    BY <1>2, <1>3 DEF MessagesInv, TouchInv, Counters
  <2>2. ASSUME NEW u \in Threads, touching'[u] # {}
        PROVE  touching'[u] = touching[u] /\ pc'[u] = pc[u] /\ Counters(u) \subseteq Counters(u)'
    <3>1. u # w
      BY <1>2, <2>1, <2>2
    <3>2. pc'[u] = pc[u] /\ job'[u] = job[u] /\ (<<"res", u>> \in held => <<"res", u>> \in held')
      BY <1>2, <1>3, <1>5, <3>1
    <3>3. Counters(u) \subseteq Counters(u)'
      BY <1>2, <3>2, CountersKept
    <3> QED BY <1>2, <3>2, <3>3
  <2>3. TouchInv
    BY DEF MessagesInv
  <2> QED BY <2>2, <2>3, TouchKept
<1> QED BY <1>6, <1>7, <1>8, <1>9, <1>10, <1>11, <1>12 DEF MessagesInv

LEMMA DeferStep ==
  ASSUME MessagesInv, NEW w \in Workers, Defer(w)
  PROVE  MessagesInv'
<1> PICK c : c = job[w]
  OBVIOUS
<1>1. /\ pc[w] = "defer" /\ touching[w] # {}
      /\ store' = CopyApart(store, <<"msg", w>>, <<"parked", c>>, <<"parked", c>>)
      /\ pc' = [pc EXCEPT ![w] = "finish", ![c] = "resume"]
      /\ job' = [job EXCEPT ![c] = c]
      /\ touching' = [touching EXCEPT ![w] = {}]
      /\ UNCHANGED <<requestQueue, responseQueue, arrived>>
  BY DEF Defer
<1>2. c \in Calls /\ pc[c] = "none" /\ c \notin ToSet(responseQueue) /\ ~Sending(c)
  BY <1>1 DEF MessagesInv, JobsInv, ResponsesInv, Active
<1>3. /\ pc'[w] = "finish" /\ pc'[c] = "resume" /\ job'[c] = c
      /\ w \in Threads /\ c \in Threads /\ w # "dispatcher" /\ c # "dispatcher"
      /\ w \notin Calls /\ c \notin Workers
      /\ \A u \in Threads \ {w, c} : pc'[u] = pc[u]
      /\ \A u \in Threads \ {c} : job'[u] = job[u]
      /\ pc'["dispatcher"] = pc["dispatcher"] /\ job'["dispatcher"] = job["dispatcher"]
      /\ \A u \in Calls \ {c} : pc'[u] = pc[u] /\ job'[u] = job[u]
      /\ \A u \in Workers \ {w} : pc'[u] = pc[u]
      /\ \A u \in Workers : job'[u] = job[u]
  BY <1>1, <1>2, DistinctAssumption DEF MessagesInv, ThreadsTyped, Threads
<1>4. Puts(store, store', <<"parked", c>>, <<"parked", c>>)
  BY <1>1, CopyApartPuts DEF MessagesInv, ThreadsTyped
<1>5. /\ held' = held \cup {<<"parked", c>>}
      /\ store'.handles[<<"parked", c>>].cnt = <<"parked", c>>
      /\ \A q \in held \ {<<"parked", c>>} : store'.handles[q].cnt = store.handles[q].cnt
  BY <1>4 DEF Puts, held
<1>6. ThreadsTyped'
  BY <1>1, <1>2, <1>3, <1>4, ZenonT(60) DEF MessagesInv, ThreadsTyped, Puts
<1>7. JobsInv'
  <2>1. \A v \in Workers : Active(v)' => Active(v) /\ job'[v] = job[v]
    BY <1>1, <1>3 DEF Active
  <2>2. \A x \in Calls : pc'[x] # "none" => job'[x] = x
    BY <1>3 DEF MessagesInv, JobsInv
  <2> QED BY <1>3, <2>1, <2>2 DEF MessagesInv, JobsInv
<1>8. NamesInv'
  <2>1. /\ CounterOf(<<"stub", "dispatcher">>, <<"stub", job["dispatcher"]>>)'
        /\ CounterOf(<<"msg", "dispatcher">>, <<"sent", job["dispatcher"]>>)'
        /\ CounterOf(<<"res", "dispatcher">>, <<"answer", job["dispatcher"]>>)'
    BY <1>3, <1>5 DEF MessagesInv, NamesInv, CounterOf
  <2>2. \A v \in Workers : CounterOf(<<"msg", v>>, <<"msg", job[v]>>)'
    BY <1>3, <1>5 DEF MessagesInv, NamesInv, CounterOf
  <2>3. \A v \in Workers : CounterOf(<<"res", v>>, <<"res", job[v]>>)'
    BY <1>3, <1>5 DEF MessagesInv, NamesInv, CounterOf
  <2>4. \A x \in Calls : /\ CounterOf(<<"continuation", x>>, <<"stub", x>>)'
                         /\ CounterOf(<<"msg", x>>, <<"call_msg", x>>)'
                         /\ CounterOf(<<"res", x>>, <<"res", x>>)'
    BY <1>3, <1>5, ZenonT(60) DEF MessagesInv, NamesInv, CounterOf
  <2>5. \A x \in Calls : \A role \in {"request", "parked", "response", "answer"} :
          CounterOf(<<role, x>>, <<role, x>>)'
    BY <1>3, <1>5 DEF MessagesInv, NamesInv, CounterOf
  <2> QED BY <2>1, <2>2, <2>3, <2>4, <2>5 DEF NamesInv
<1>9. HeldInv'
  BY <1>1, <1>3, <1>5 DEF MessagesInv, HeldInv
<1>10. RequestsInv'
  <2>1. ~Untouched(c)
    BY <1>1 DEF Untouched, Active
  <2>2. \A x \in Calls : Untouched(x) /\ x # c => Untouched(x)'
    BY <1>1, <1>3, ZenonT(60) DEF Untouched, Sending, Active
  <2>3. \A x : Forwarding(x)' = Forwarding(x)
    BY <1>3 DEF Forwarding
  <2> QED BY <1>1, <1>2, <2>1, <2>2, <2>3 DEF MessagesInv, RequestsInv
<1>11. ResponsesInv'
  <2>1. \A x : Sending(x)' = Sending(x)
    BY <1>3 DEF Sending
  <2>2. \A v \in Workers : job[v] = c /\ Active(v) => v = w
    BY <1>1 DEF MessagesInv, JobsInv, Active
  <2>3. <<"res", w>> \notin held'
    BY <1>1, <1>5 DEF MessagesInv, HeldInv
  <2>4. \A x \in Calls : pc'[x] # "none" =>
          \A v \in Workers : job'[v] = x /\ Active(v)' => pc'[v] = "finish" /\ <<"res", v>> \notin held'
    <3>1. \A v \in Workers : Active(v)' => Active(v) /\ job'[v] = job[v]
      BY <1>1, <1>3 DEF Active
    <3>2. \A v \in Workers : <<"res", v>> \in held' => <<"res", v>> \in held
      BY <1>5
    <3>3. \A v \in Workers : pc[v] = "finish" => pc'[v] = "finish"
      BY <1>3
    <3>4. ASSUME NEW x \in Calls, pc'[x] # "none", NEW v \in Workers, job'[v] = x, Active(v)'
          PROVE  pc'[v] = "finish" /\ <<"res", v>> \notin held'
      <4>1. CASE x = c
        BY <1>3, <2>2, <2>3, <3>1, <3>4, <4>1
      <4>2. CASE x # c
        BY <1>3, <3>1, <3>2, <3>3, <3>4, <4>2 DEF MessagesInv, ResponsesInv
      <4> QED BY <4>1, <4>2
    <3> QED BY <3>4
  <2>5. \A x \in Calls : x \in ToSet(responseQueue) \/ Sending(x) =>
          /\ pc'[x] \notin {"resume", "post"}
          /\ \A v \in Workers : job'[v] = x => pc'[v] \in {"pop", "finish"}
    BY <1>2, <1>3 DEF MessagesInv, ResponsesInv
  <2> QED BY <1>1, <2>1, <2>4, <2>5 DEF MessagesInv, ResponsesInv
<1>12. TouchInv'
  <2>1. touching[c] = {}
    BY <1>2, <1>3 DEF MessagesInv, TouchInv, Counters
  <2>2. \A u \in Threads \ {w} : touching[u] # {} =>
          pc'[u] = pc[u] /\ job'[u] = job[u] /\ (<<"res", u>> \in held => <<"res", u>> \in held')
    BY <1>3, <1>5, <2>1
  <2> QED BY <1>1, <1>3, <2>2, EndKeepsTouch DEF MessagesInv
<1> QED BY <1>6, <1>7, <1>8, <1>9, <1>10, <1>11, <1>12 DEF MessagesInv

LEMMA ResumeStep ==
  ASSUME MessagesInv, NEW c \in Calls, Resume(c)
  PROVE  MessagesInv'
<1> DEFINE s1 == CopyApart(store, <<"parked", c>>, <<"msg", c>>, <<"call_msg", c>>)
           s2 == DropHandle(s1, <<"parked", c>>)
<1>1. /\ pc[c] = "resume" /\ touching[c] # {}
      /\ pc' = [pc EXCEPT ![c] = "post"] /\ touching' = [touching EXCEPT ![c] = {}]
      /\ store' = NewAnswer(s2, c, c)
      /\ UNCHANGED <<job, requestQueue, responseQueue, arrived>>
  BY DEF Resume, End
<1>2. /\ pc'[c] = "post" /\ c \in Threads /\ c # "dispatcher" /\ c \notin Workers
      /\ \A u \in Threads \ {c} : pc'[u] = pc[u]
      /\ pc'["dispatcher"] = pc["dispatcher"]
      /\ \A u \in Calls \ {c} : pc'[u] = pc[u]
      /\ \A u \in Workers : pc'[u] = pc[u]
  BY <1>1, DistinctAssumption DEF MessagesInv, ThreadsTyped, Threads
<1>3. job[c] = c /\ c \notin ToSet(responseQueue) /\ ~Sending(c)
  BY <1>1 DEF MessagesInv, JobsInv, ResponsesInv
<1>4. Puts(store, s1, <<"msg", c>>, <<"call_msg", c>>)
  BY CopyApartPuts DEF MessagesInv, ThreadsTyped
<1> HIDE DEF s1
<1>5. Drops(s1, s2, <<"parked", c>>)
  BY <1>4, DropHandleDrops DEF Puts
<1> HIDE DEF s2
<1>6. Puts(s2, store', <<"res", c>>, <<"res", c>>)
  BY <1>1, <1>5, NewAnswerPuts DEF Drops
<1>7. /\ held' = ((held \cup {<<"msg", c>>}) \ {<<"parked", c>>}) \cup {<<"res", c>>}
      /\ store'.handles[<<"msg", c>>].cnt = <<"call_msg", c>>
      /\ store'.handles[<<"res", c>>].cnt = <<"res", c>>
      /\ \A q \in held' \ {<<"msg", c>>, <<"res", c>>} :
           store'.handles[q].cnt = store.handles[q].cnt
  BY <1>4, <1>5, <1>6 DEF Puts, Drops, held
<1>8. ThreadsTyped'
  BY <1>1, <1>2, <1>6 DEF MessagesInv, ThreadsTyped, Puts
<1>9. JobsInv'
  BY <1>1, <1>2, <1>3 DEF MessagesInv, JobsInv, Active
<1>10. NamesInv'
  <2>1. /\ CounterOf(<<"stub", "dispatcher">>, <<"stub", job["dispatcher"]>>)'
        /\ CounterOf(<<"msg", "dispatcher">>, <<"sent", job["dispatcher"]>>)'
        /\ CounterOf(<<"res", "dispatcher">>, <<"answer", job["dispatcher"]>>)'
    BY <1>1, <1>2, <1>7 DEF MessagesInv, NamesInv, CounterOf
  <2>2. \A v \in Workers : CounterOf(<<"msg", v>>, <<"msg", job[v]>>)'
    BY <1>1, <1>2, <1>7 DEF MessagesInv, NamesInv, CounterOf
  <2>3. \A v \in Workers : CounterOf(<<"res", v>>, <<"res", job[v]>>)'
    BY <1>1, <1>2, <1>7 DEF MessagesInv, NamesInv, CounterOf
  <2>4. \A x \in Calls : /\ CounterOf(<<"continuation", x>>, <<"stub", x>>)'
                         /\ CounterOf(<<"msg", x>>, <<"call_msg", x>>)'
                         /\ CounterOf(<<"res", x>>, <<"res", x>>)'
    BY <1>1, <1>2, <1>7 DEF MessagesInv, NamesInv, CounterOf
  <2>5. \A x \in Calls, role \in {"request", "parked", "response", "answer"} :
          CounterOf(<<role, x>>, <<role, x>>)'
    BY <1>1, <1>2, <1>7 DEF MessagesInv, NamesInv, CounterOf
  <2> QED BY <2>1, <2>2, <2>3, <2>4, <2>5, Zenon DEF NamesInv
<1>11. HeldInv'
  BY <1>1, <1>2, <1>7 DEF MessagesInv, HeldInv
<1>12. RequestsInv'
  BY <1>1, <1>2 DEF MessagesInv, RequestsInv, Untouched, Sending, Forwarding, Active
<1>13. ResponsesInv'
  <2>1. \A x : Sending(x)' = Sending(x)
    BY <1>1, <1>2 DEF Sending
  <2>2. \A v \in Workers : <<"res", v>> \in held' => <<"res", v>> \in held
    BY <1>2, <1>7
  <2> QED BY <1>1, <1>2, <1>3, <2>1, <2>2 DEF MessagesInv, ResponsesInv, Active
<1>14. TouchInv'
  <2>1. \A u \in Threads \ {c} : touching[u] # {} =>
          pc'[u] = pc[u] /\ job'[u] = job[u] /\ (<<"res", u>> \in held => <<"res", u>> \in held')
    BY <1>1, <1>2, <1>7
  <2> QED BY <1>1, <1>2, <2>1, EndKeepsTouch DEF MessagesInv
<1> QED BY <1>8, <1>9, <1>10, <1>11, <1>12, <1>13, <1>14 DEF MessagesInv

LEMMA PostStep ==
  ASSUME MessagesInv, NEW th \in Threads, Post(th)
  PROVE  MessagesInv'
<1> PICK c : c = job[th]
  OBVIOUS
<1> DEFINE s1 == CopyApart(store, <<"msg", th>>, <<"response", c>>, <<"response", c>>)
<1>1. /\ pc[th] = "post" /\ touching[th] # {}
      /\ pc' = [pc EXCEPT ![th] = "finish"] /\ touching' = [touching EXCEPT ![th] = {}]
      /\ store' = CopyApart(s1, <<"res", th>>, <<"answer", c>>, <<"answer", c>>)
      /\ responseQueue' = Append(responseQueue, c)
      /\ UNCHANGED <<job, requestQueue, arrived>>
  BY DEF Post, Posted, End
<1>2. /\ c \in Calls /\ th \in Workers \cup Calls /\ th # "dispatcher"
      /\ th \in Workers => Active(th) /\ th \notin Calls
      /\ th \in Calls => c = th /\ th \notin Workers
  BY <1>1, WorkerOrHelper
<1>3. /\ pc'[th] = "finish" /\ pc'["dispatcher"] = pc["dispatcher"]
      /\ \A u \in Threads \ {th} : pc'[u] = pc[u]
      /\ \A u \in (Calls \cup Workers) \ {th} : pc'[u] = pc[u]
  BY <1>1, <1>2 DEF MessagesInv, ThreadsTyped, Threads
<1>4. c \notin ToSet(responseQueue) /\ ~Sending(c)
  BY <1>1, <1>2 DEF MessagesInv, ResponsesInv
<1>5. ~Untouched(c)
  BY <1>1, <1>2 DEF Untouched
<1>6. Puts(store, s1, <<"response", c>>, <<"response", c>>)
  BY CopyApartPuts DEF MessagesInv, ThreadsTyped
<1> HIDE DEF s1
<1>7. Puts(s1, store', <<"answer", c>>, <<"answer", c>>)
  <2>1. IsStore(s1)
    BY <1>6 DEF Puts
  <2> QED BY <1>1, <2>1, CopyApartPuts
<1>8. /\ held' = held \cup {<<"response", c>>, <<"answer", c>>}
      /\ store'.handles[<<"response", c>>].cnt = <<"response", c>>
      /\ store'.handles[<<"answer", c>>].cnt = <<"answer", c>>
      /\ \A q \in held \ {<<"response", c>>, <<"answer", c>>} :
           store'.handles[q].cnt = store.handles[q].cnt
  BY <1>6, <1>7 DEF Puts, held
<1>9. /\ responseQueue' \in Seq(Calls) /\ ToSet(responseQueue') = ToSet(responseQueue) \cup {c}
      /\ \A i, j \in DOMAIN responseQueue' : i # j => responseQueue'[i] # responseQueue'[j]
  <2>1. responseQueue \in Seq(Calls)
        /\ \A i, j \in DOMAIN responseQueue : i # j => responseQueue[i] # responseQueue[j]
    BY DEF MessagesInv, ThreadsTyped, ResponsesInv
  <2> QED BY <1>1, <1>2, <1>4, <2>1, AppendedQueue
<1>10. ThreadsTyped'
  BY <1>1, <1>2, <1>3, <1>7, <1>9, ZenonT(60) DEF MessagesInv, ThreadsTyped, Puts
<1>11. JobsInv'
  BY <1>1, <1>2, <1>3 DEF MessagesInv, JobsInv, Active
<1>12. NamesInv'
  <2>1. /\ CounterOf(<<"stub", "dispatcher">>, <<"stub", job["dispatcher"]>>)'
        /\ CounterOf(<<"msg", "dispatcher">>, <<"sent", job["dispatcher"]>>)'
        /\ CounterOf(<<"res", "dispatcher">>, <<"answer", job["dispatcher"]>>)'
    BY <1>1, <1>2, <1>8 DEF MessagesInv, NamesInv, CounterOf
  <2>2. \A v \in Workers : CounterOf(<<"msg", v>>, <<"msg", job[v]>>)'
    BY <1>1, <1>2, <1>8 DEF MessagesInv, NamesInv, CounterOf
  <2>3. \A v \in Workers : CounterOf(<<"res", v>>, <<"res", job[v]>>)'
    BY <1>1, <1>2, <1>8 DEF MessagesInv, NamesInv, CounterOf
  <2>4. \A x \in Calls : /\ CounterOf(<<"continuation", x>>, <<"stub", x>>)'
                         /\ CounterOf(<<"msg", x>>, <<"call_msg", x>>)'
                         /\ CounterOf(<<"res", x>>, <<"res", x>>)'
    BY <1>1, <1>2, <1>8 DEF MessagesInv, NamesInv, CounterOf
  <2>5. \A x \in Calls : \A role \in {"request", "parked", "response", "answer"} :
          CounterOf(<<role, x>>, <<role, x>>)'
    BY <1>1, <1>2, <1>8, ZenonT(60) DEF MessagesInv, NamesInv, CounterOf
  <2> QED BY <2>1, <2>2, <2>3, <2>4, <2>5 DEF NamesInv
<1>13. HeldInv'
  BY <1>1, <1>2, <1>3, <1>8, <1>9 DEF MessagesInv, HeldInv
<1>14. RequestsInv'
  <2>1. \A x \in Calls : Untouched(x) /\ x # c => Untouched(x)'
    BY <1>1, <1>2, <1>3, <1>9 DEF Untouched, Sending, Active
  <2>2. \A x : Forwarding(x)' = Forwarding(x)
    BY <1>1, <1>3 DEF Forwarding
  <2> QED BY <1>1, <1>5, <2>1, <2>2 DEF MessagesInv, RequestsInv
<1>15. ResponsesInv'
  <2>1. \A x : Sending(x)' = Sending(x)
    BY <1>1, <1>3 DEF Sending
  <2>2. pc'[c] \notin {"resume", "post"}
    BY <1>1, <1>2, <1>3, ZenonT(60) DEF MessagesInv, ThreadsTyped, ResponsesInv, Active
  <2>3. \A v \in Workers : job[v] = c => pc'[v] \in {"pop", "finish"}
    <3>1. CASE th \in Workers
      BY <1>1, <1>2, <1>3, <3>1 DEF MessagesInv, JobsInv, Active
    <3>2. CASE th \in Calls
      BY <1>1, <1>2, <1>3, <3>2 DEF MessagesInv, ResponsesInv, Active
    <3> QED BY <1>2, <3>1, <3>2
  <2>4. \A x \in Calls : x \in ToSet(responseQueue') \/ Sending(x) =>
          /\ pc'[x] \notin {"resume", "post"}
          /\ \A v \in Workers : job'[v] = x => pc'[v] \in {"pop", "finish"}
    BY <1>1, <1>3, <1>9, <2>2, <2>3 DEF MessagesInv, ResponsesInv
  <2>5. \A x \in Calls : pc'[x] # "none" =>
          \A v \in Workers : job'[v] = x /\ Active(v)' => pc'[v] = "finish" /\ <<"res", v>> \notin held'
    <3>1. \A v \in Workers : <<"res", v>> \in held' => <<"res", v>> \in held
      BY <1>8
    <3>2. \A x \in Calls : pc'[x] # "none" => pc[x] # "none"
      BY <1>1, <1>3
    <3>3. \A v \in Workers : pc[v] = "finish" => pc'[v] = "finish"
      BY <1>3
    <3>4. \A v \in Workers : Active(v)' => Active(v)
      BY <1>1, <1>3 DEF Active
    <3> QED BY <1>1, <3>1, <3>2, <3>3, <3>4 DEF MessagesInv, ResponsesInv
  <2>6. \A x \in ToSet(responseQueue') : ~Sending(x)
    BY <1>4, <1>9 DEF MessagesInv, ResponsesInv
  <2> QED BY <1>9, <2>1, <2>4, <2>5, <2>6 DEF ResponsesInv
<1>16. TouchInv'
  <2>1. \A u \in Threads \ {th} : touching[u] # {} =>
          pc'[u] = pc[u] /\ job'[u] = job[u] /\ (<<"res", u>> \in held => <<"res", u>> \in held')
    BY <1>1, <1>3, <1>8
  <2>2. ToSet(responseQueue) \subseteq ToSet(responseQueue') /\ requestQueue' = requestQueue
    BY <1>1, <1>9
  <2> QED BY <1>1, <2>1, <2>2, EndKeepsTouch DEF MessagesInv
<1> QED BY <1>10, <1>11, <1>12, <1>13, <1>14, <1>15, <1>16 DEF MessagesInv

LEMMA FinishStep ==
  ASSUME MessagesInv, NEW th \in Threads, Finish(th)
  PROVE  MessagesInv'
<1> PICK next : next = IF th \in Workers THEN "pop" ELSE "none"
  OBVIOUS
<1>1. /\ pc[th] = "finish" /\ touching[th] # {}
      /\ pc' = [pc EXCEPT ![th] = next] /\ touching' = [touching EXCEPT ![th] = {}]
      /\ store' = DropLocals(store, th)
      /\ UNCHANGED <<job, requestQueue, responseQueue, arrived>>
  BY DEF Finish, End
<1>2. /\ th \in Workers \cup Calls /\ th # "dispatcher"
      /\ th \in Workers => th \notin Calls
      /\ th \in Calls => th \notin Workers
  BY <1>1, WorkerOrHelper
<1>3. /\ pc'[th] = next /\ pc'["dispatcher"] = pc["dispatcher"]
      /\ \A u \in Threads \ {th} : pc'[u] = pc[u]
      /\ \A u \in (Calls \cup Workers) \ {th} : pc'[u] = pc[u]
  BY <1>1, <1>2 DEF MessagesInv, ThreadsTyped, Threads
<1>4. /\ IsStore(store')
      /\ held' = held \ {<<"res", th>>, <<"msg", th>>}
      /\ \A q \in held' : store'.handles[q].cnt = store.handles[q].cnt
  <2>1. IsStore(store)
    BY DEF MessagesInv, ThreadsTyped
  <2> QED BY <1>1, <2>1, DropLocalsDrops DEF held
<1>5. ThreadsTyped'
  BY <1>1, <1>2, <1>3, <1>4 DEF MessagesInv, ThreadsTyped
<1>6. JobsInv'
  BY <1>1, <1>2, <1>3 DEF MessagesInv, JobsInv, Active
<1>7. NamesInv'
  BY <1>1, <1>4 DEF MessagesInv, NamesInv, CounterOf
<1>8. HeldInv'
  BY <1>1, <1>2, <1>3, <1>4 DEF MessagesInv, HeldInv
<1>9. RequestsInv'
  BY <1>1, <1>2, <1>3 DEF MessagesInv, RequestsInv, Untouched, Sending, Forwarding, Active
<1>10. ResponsesInv'
  <2>1. \A x : Sending(x)' = Sending(x)
    BY <1>1, <1>3 DEF Sending
  <2>2. \A v \in Workers : <<"res", v>> \in held' => <<"res", v>> \in held
    BY <1>4
  <2>3. \A v \in Workers : Active(v)' => Active(v) /\ pc'[v] = pc[v]
    BY <1>1, <1>2, <1>3 DEF Active
  <2>4. \A v \in Workers : pc[v] \in {"pop", "finish"} => pc'[v] \in {"pop", "finish"}
    BY <1>1, <1>2, <1>3
  <2>5. \A x \in Calls : pc'[x] = pc[x] \/ pc'[x] = "none"
    BY <1>1, <1>2, <1>3
  <2> QED BY <1>1, <2>1, <2>2, <2>3, <2>4, <2>5 DEF MessagesInv, ResponsesInv
<1>11. TouchInv'
  <2>1. \A u \in Threads \ {th} : touching[u] # {} =>
          pc'[u] = pc[u] /\ job'[u] = job[u] /\ (<<"res", u>> \in held => <<"res", u>> \in held')
    BY <1>1, <1>3, <1>4
  <2> QED BY <1>1, <2>1, EndKeepsTouch DEF MessagesInv
<1> QED BY <1>5, <1>6, <1>7, <1>8, <1>9, <1>10, <1>11 DEF MessagesInv

LEMMA TakeStep ==
  ASSUME MessagesInv, Take
  PROVE  MessagesInv'
<1> DEFINE d == "dispatcher"
<1> PICK c : c = Head(responseQueue)
  OBVIOUS
<1> DEFINE s1 == CopyApart(store, <<"response", c>>, <<"msg", d>>, <<"sent", c>>)
           s2 == CopyHandle(s1, <<"answer", c>>, <<"res", d>>)
           s3 == DropHandle(s2, <<"response", c>>)
<1>1. /\ pc[d] = "take" /\ touching[d] # {}
      /\ pc' = [pc EXCEPT ![d] = "send"] /\ touching' = [touching EXCEPT ![d] = {}]
      /\ store' = DropHandle(s3, <<"answer", c>>)
      /\ responseQueue' = Tail(responseQueue) /\ job' = [job EXCEPT ![d] = c]
      /\ UNCHANGED <<requestQueue, arrived>>
  BY DEF Take, End
<1>2. /\ pc'[d] = "send" /\ job'[d] = c /\ d \in Threads /\ d \notin Workers /\ d \notin Calls
      /\ \A u \in Workers \cup Calls : pc'[u] = pc[u] /\ job'[u] = job[u]
      /\ \A u \in Threads \ {d} : pc'[u] = pc[u] /\ job'[u] = job[u]
  BY <1>1, DistinctAssumption DEF MessagesInv, ThreadsTyped, Threads
<1>3. responseQueue # << >>
  <2>1. Counters(d) = Queued("response", responseQueue) \cup Queued("answer", responseQueue)
    BY <1>1 DEF Counters
  <2>2. ToSet(responseQueue) # {}
    BY <1>1, <1>2, <2>1 DEF MessagesInv, TouchInv, Queued
  <2> QED BY <2>2 DEF ToSet
<1>4. /\ c \in Calls /\ c \in ToSet(responseQueue)
      /\ responseQueue' \in Seq(Calls) /\ ToSet(responseQueue') = ToSet(responseQueue) \ {c}
      /\ \A i, j \in DOMAIN responseQueue' : i # j => responseQueue'[i] # responseQueue'[j]
  <2>1. responseQueue \in Seq(Calls)
        /\ \A i, j \in DOMAIN responseQueue : i # j => responseQueue[i] # responseQueue[j]
    BY DEF MessagesInv, ThreadsTyped, ResponsesInv
  <2> QED BY <1>1, <1>3, <2>1, TailOfQueue
<1>5. <<"answer", c>> \in held /\ store.handles[<<"answer", c>>].cnt = <<"answer", c>>
  BY <1>4 DEF MessagesInv, HeldInv, NamesInv, CounterOf
<1>6. Puts(store, s1, <<"msg", d>>, <<"sent", c>>)
  BY CopyApartPuts DEF MessagesInv, ThreadsTyped
<1> HIDE DEF s1
<1>7. Puts(s1, s2, <<"res", d>>, <<"answer", c>>)
  <2>1. Puts(s1, s2, <<"res", d>>, s1.handles[<<"answer", c>>].cnt)
    BY <1>6, CopyHandlePuts DEF Puts
  <2>2. s1.handles[<<"answer", c>>].cnt = <<"answer", c>>
    BY <1>5, <1>6 DEF Puts, held
  <2> QED BY <2>1, <2>2
<1> HIDE DEF s2
<1>8. Drops(s2, s3, <<"response", c>>)
  BY <1>7, DropHandleDrops DEF Puts
<1> HIDE DEF s3
<1>9. Drops(s3, store', <<"answer", c>>)
  BY <1>1, <1>8, DropHandleDrops DEF Drops
<1>10. /\ held' = (held \cup {<<"msg", d>>, <<"res", d>>}) \ {<<"response", c>>, <<"answer", c>>}
       /\ store'.handles[<<"msg", d>>].cnt = <<"sent", c>>
       /\ store'.handles[<<"res", d>>].cnt = <<"answer", c>>
       /\ \A q \in held' \ {<<"msg", d>>, <<"res", d>>} :
            store'.handles[q].cnt = store.handles[q].cnt
  <2>1. /\ DOMAIN s2.handles = held \cup {<<"msg", d>>, <<"res", d>>}
        /\ s2.handles[<<"msg", d>>].cnt = <<"sent", c>>
        /\ s2.handles[<<"res", d>>].cnt = <<"answer", c>>
        /\ \A q \in held \ {<<"msg", d>>, <<"res", d>>} :
             s2.handles[q].cnt = store.handles[q].cnt
    BY <1>6, <1>7 DEF Puts, held
  <2> QED BY <1>8, <1>9, <2>1 DEF Drops, held
<1>11. ThreadsTyped'
  BY <1>1, <1>2, <1>4, <1>9 DEF MessagesInv, ThreadsTyped, Drops
<1>12. JobsInv'
  BY <1>2, <1>4 DEF MessagesInv, JobsInv, Active
<1>13. NamesInv'
  <2>1. <<"stub", d>> \notin held
    BY <1>1 DEF MessagesInv, HeldInv
  <2>2. /\ CounterOf(<<"stub", "dispatcher">>, <<"stub", job["dispatcher"]>>)'
        /\ CounterOf(<<"msg", "dispatcher">>, <<"sent", job["dispatcher"]>>)'
        /\ CounterOf(<<"res", "dispatcher">>, <<"answer", job["dispatcher"]>>)'
    BY <1>2, <1>10, <2>1 DEF MessagesInv, NamesInv, CounterOf
  <2>3. \A v \in Workers : CounterOf(<<"msg", v>>, <<"msg", job[v]>>)'
    BY <1>2, <1>10, <2>1, ZenonT(60) DEF MessagesInv, NamesInv, CounterOf
  <2>4. \A v \in Workers : CounterOf(<<"res", v>>, <<"res", job[v]>>)'
    BY <1>2, <1>10, <2>1, ZenonT(60) DEF MessagesInv, NamesInv, CounterOf
  <2>5. \A x \in Calls : /\ CounterOf(<<"continuation", x>>, <<"stub", x>>)'
                         /\ CounterOf(<<"msg", x>>, <<"call_msg", x>>)'
                         /\ CounterOf(<<"res", x>>, <<"res", x>>)'
    BY <1>2, <1>10, <2>1 DEF MessagesInv, NamesInv, CounterOf
  <2>6. \A x \in Calls : \A role \in {"request", "parked", "response", "answer"} :
          CounterOf(<<role, x>>, <<role, x>>)'
    BY <1>2, <1>10, <2>1 DEF MessagesInv, NamesInv, CounterOf
  <2> QED BY <2>2, <2>3, <2>4, <2>5, <2>6 DEF NamesInv
<1>14. HeldInv'
  BY <1>1, <1>2, <1>4, <1>10 DEF MessagesInv, HeldInv
<1>15. RequestsInv'
  <2>1. \A x \in Calls : Untouched(x) => x # c
    BY <1>4 DEF Untouched
  <2>2. \A x \in Calls : Untouched(x) => Untouched(x)'
    BY <1>2, <1>4, <2>1 DEF Untouched, Sending, Active
  <2>3. \A x : ~Forwarding(x)' /\ ~Forwarding(x)
    BY <1>1, <1>2 DEF Forwarding
  <2> QED BY <1>1, <2>2, <2>3 DEF MessagesInv, RequestsInv
<1>16. ResponsesInv'
  <2>1. \A x : Sending(x)' <=> x = c
    BY <1>2 DEF Sending
  <2>2. \A v \in Workers : <<"res", v>> \in held' => <<"res", v>> \in held
    BY <1>2, <1>10
  <2>3. ToSet(responseQueue') \subseteq ToSet(responseQueue) /\ c \notin ToSet(responseQueue')
    BY <1>4
  <2>4. \A x \in Calls : x \in ToSet(responseQueue') \/ Sending(x)' => x \in ToSet(responseQueue)
    BY <1>4, <2>1, <2>3
  <2>5. \A x \in Calls : x \in ToSet(responseQueue') \/ Sending(x)' =>
          /\ pc'[x] \notin {"resume", "post"}
          /\ \A v \in Workers : job'[v] = x => pc'[v] \in {"pop", "finish"}
    BY <1>2, <2>4 DEF MessagesInv, ResponsesInv
  <2>6. \A x \in Calls : pc'[x] # "none" =>
          \A v \in Workers : job'[v] = x /\ Active(v)' => pc'[v] = "finish" /\ <<"res", v>> \notin held'
    BY <1>2, <2>2 DEF MessagesInv, ResponsesInv, Active
  <2> QED BY <1>4, <2>1, <2>3, <2>5, <2>6 DEF ResponsesInv
<1>17. TouchInv'
  <2>1. \A u \in Threads \ {d} : touching[u] # {} =>
          pc'[u] = pc[u] /\ job'[u] = job[u] /\ (<<"res", u>> \in held => <<"res", u>> \in held')
    BY <1>1, <1>2, <1>10
  <2>2. MutexOf(pc[d]) = "response_n_signal_mutex"
    BY <1>1 DEF MutexOf
  <2> QED BY <1>1, <1>2, <2>1, <2>2, EndKeepsTouch DEF MessagesInv
<1> QED BY <1>11, <1>12, <1>13, <1>14, <1>15, <1>16, <1>17 DEF MessagesInv

LEMMA SendReplyStep ==
  ASSUME MessagesInv, SendReply
  PROVE  MessagesInv'
<1> DEFINE d == "dispatcher"
<1> PICK c : c = job[d]
  OBVIOUS
<1> DEFINE s1 == DropHandle(store, <<"continuation", c>>)
<1>1. /\ pc[d] = "send" /\ touching[d] # {}
      /\ pc' = [pc EXCEPT ![d] = "loop"] /\ touching' = [touching EXCEPT ![d] = {}]
      /\ store' = DropLocals(s1, d)
      /\ UNCHANGED <<job, requestQueue, responseQueue, arrived>>
  BY DEF SendReply, End
<1>2. /\ pc'[d] = "loop" /\ d \in Threads /\ d \notin Workers /\ d \notin Calls
      /\ \A u \in Workers \cup Calls : pc'[u] = pc[u]
      /\ \A u \in Threads \ {d} : pc'[u] = pc[u]
  BY <1>1, DistinctAssumption DEF MessagesInv, ThreadsTyped, Threads
<1>3. Drops(store, s1, <<"continuation", c>>)
  BY DropHandleDrops DEF MessagesInv, ThreadsTyped
<1> HIDE DEF s1
<1>4. /\ IsStore(store')
      /\ held' = DOMAIN s1.handles \ {<<"res", d>>, <<"msg", d>>}
      /\ \A q \in held' : store'.handles[q].cnt = s1.handles[q].cnt
  <2>1. IsStore(s1)
    BY <1>3 DEF Drops
  <2> QED BY <1>1, <2>1, DropLocalsDrops DEF held
<1>5. /\ held' = held \ {<<"res", d>>, <<"msg", d>>, <<"continuation", c>>}
      /\ \A q \in held' : store'.handles[q].cnt = store.handles[q].cnt
  BY <1>3, <1>4 DEF Drops, held
<1>6. ThreadsTyped'
  BY <1>1, <1>2, <1>4 DEF MessagesInv, ThreadsTyped, Drops
<1>7. JobsInv'
  BY <1>1, <1>2 DEF MessagesInv, JobsInv, Active
<1>8. NamesInv'
  <2>1. /\ CounterOf(<<"stub", "dispatcher">>, <<"stub", job["dispatcher"]>>)'
        /\ CounterOf(<<"msg", "dispatcher">>, <<"sent", job["dispatcher"]>>)'
        /\ CounterOf(<<"res", "dispatcher">>, <<"answer", job["dispatcher"]>>)'
    BY <1>1, <1>2, <1>5 DEF MessagesInv, NamesInv, CounterOf
  <2>2. \A v \in Workers : CounterOf(<<"msg", v>>, <<"msg", job[v]>>)'
    BY <1>1, <1>2, <1>5 DEF MessagesInv, NamesInv, CounterOf
  <2>3. \A v \in Workers : CounterOf(<<"res", v>>, <<"res", job[v]>>)'
    BY <1>1, <1>2, <1>5 DEF MessagesInv, NamesInv, CounterOf
  <2>4. \A x \in Calls : /\ CounterOf(<<"continuation", x>>, <<"stub", x>>)'
                         /\ CounterOf(<<"msg", x>>, <<"call_msg", x>>)'
                         /\ CounterOf(<<"res", x>>, <<"res", x>>)'
    BY <1>1, <1>2, <1>5 DEF MessagesInv, NamesInv, CounterOf
  <2>5. \A x \in Calls, role \in {"request", "parked", "response", "answer"} :
          CounterOf(<<role, x>>, <<role, x>>)'
    BY <1>1, <1>2, <1>5 DEF MessagesInv, NamesInv, CounterOf
  <2> QED BY <2>1, <2>2, <2>3, <2>4, <2>5, Zenon DEF NamesInv
<1>9. HeldInv'
  BY <1>1, <1>2, <1>5 DEF MessagesInv, HeldInv
<1>10. RequestsInv'
  BY <1>1, <1>2 DEF MessagesInv, RequestsInv, Untouched, Sending, Forwarding, Active
<1>11. ResponsesInv'
  BY <1>1, <1>2, <1>5 DEF MessagesInv, ResponsesInv, Sending, Active
<1>12. TouchInv'
  <2>1. \A u \in Threads \ {d} : touching[u] # {} =>
          pc'[u] = pc[u] /\ job'[u] = job[u] /\ (<<"res", u>> \in held => <<"res", u>> \in held')
    BY <1>1, <1>2, <1>5
  <2> QED BY <1>1, <1>2, <2>1, EndKeepsTouch DEF MessagesInv
<1> QED BY <1>6, <1>7, <1>8, <1>9, <1>10, <1>11, <1>12 DEF MessagesInv

-----------------------------------------------------------------------------
(* The invariant. *)

LEMMA InitRace == Init => RaceInv
<1> SUFFICES ASSUME Init PROVE RaceInv
  OBVIOUS
<1>1. /\ \A th \in Threads : touching[th] = {} /\ job[th] = "none"
      /\ touching = [th \in Threads |-> {}] /\ job = [th \in Threads |-> "none"]
      /\ requestQueue = << >> /\ responseQueue = << >> /\ arrived = {}
      /\ store = EmptyStore(Objects)
  BY DEF Init
<1>2. pc = [th \in Threads |-> CASE th = "dispatcher" -> "loop"
                                 [] th \in Workers    -> "pop"
                                 [] OTHER             -> "none"]
  BY DEF Init
<1>3. /\ pc["dispatcher"] = "loop"
      /\ \A w \in Workers : pc[w] = "pop" /\ w \in Threads
      /\ \A c \in Calls : pc[c] = "none" /\ c \in Threads
      /\ \A th \in Threads : pc[th] \in {"loop", "pop", "none"}
  BY <1>2, DistinctAssumption DEF Threads
<1>4. IsStore(store) /\ held = {}
  <2>1. store.handles = << >>
    BY <1>1 DEF EmptyStore
  <2> QED BY <1>1, <2>1 DEF IsStore, EmptyStore, held
<1>5. ToSet(requestQueue) = {} /\ ToSet(responseQueue) = {}
  BY <1>1 DEF ToSet
<1>6. Resting
  BY <1>1, <1>3 DEF Resting
<1>7. ThreadsTyped
  <2>1. pc \in [Threads -> {"none", "loop", "forward", "record", "leave", "take", "send",
                            "pop", "method", "post", "defer", "resume", "finish"}]
    BY <1>2, <1>3
  <2> QED BY <1>1, <1>3, <1>4, <2>1 DEF ThreadsTyped
<1>8. JobsInv /\ NamesInv /\ HeldInv
  BY <1>3, <1>4, <1>5 DEF JobsInv, NamesInv, HeldInv, CounterOf, Active
<1>9. RequestsInv
  BY <1>1, <1>3, <1>5 DEF RequestsInv, Untouched, Sending, Forwarding, Active
<1>10. ResponsesInv
  BY <1>1, <1>3, <1>5 DEF ResponsesInv, Sending
<1>11. TouchInv
  BY <1>1 DEF TouchInv
<1>12. attached = {}
  BY DEF Init
<1> QED BY <1>6, <1>7, <1>8, <1>9, <1>10, <1>11, <1>12 DEF RaceInv, MessagesInv

\* The parts do not meet: a step of one of the others leaves the threads and
\* the messages alone.
LEMMA OtherPartsLeaveThreads ==
  ASSUME RaceInv, PendingStep \/ ConnectionStep
  PROVE  /\ UNCHANGED <<part, threadVars>>
         /\ part = "messages" => UNCHANGED store
         /\ part # "pending" => attached' = {}
<1>1. CASE PendingStep
  <2>1. UNCHANGED <<part, threadVars>> /\ part = "pending"
    BY <1>1 DEF PendingStep, SendAsync, CopyPending, AssignPending, DropPending, Cancel, Notify,
       Usable, MayDrop, RaceInv
  <2> QED BY <2>1
<1>2. CASE ConnectionStep
  <2>1. UNCHANGED <<part, threadVars, pendingVars>> /\ (part = "messages" => UNCHANGED store)
    BY <1>2 DEF ConnectionStep, Open, Accept, CopyConnection, CloseVariable, Disconnect, DestroyServer,
       DropListed
  <2> QED BY <2>1 DEF RaceInv, pendingVars
<1> QED BY <1>1, <1>2

\* And no thread takes a step in the others.
LEMMA ThreadsRest ==
  ASSUME part # "messages", Resting, MessageStep
  PROVE  FALSE
<1>1. \A c \in Calls : c \in Threads
  BY DEF Threads
<1>2. \A w \in Workers : w \in Threads
  BY DEF Threads
<1>3. "dispatcher" \in Threads
  BY DEF Threads
<1>4. ASSUME NEW c \in Calls, Deliver(c) \/ Resume(c) PROVE FALSE
  BY <1>1, <1>4 DEF Deliver, Resume, End, Resting
<1>5. ASSUME NEW th \in Threads, Start(th) \/ Post(th) \/ Finish(th) PROVE FALSE
  BY <1>5 DEF Start, Post, Finish, End, Resting
<1>6. ASSUME NEW w \in Workers, Pop(w) \/ Method(w) \/ Defer(w) PROVE FALSE
  BY <1>2, <1>6 DEF Pop, Method, Defer, End, Resting
<1>7. ASSUME Forward \/ Record \/ LeaveStub \/ ReadFrame \/ Take \/ SendReply PROVE FALSE
  BY <1>3, <1>7 DEF Forward, Record, LeaveStub, ReadFrame, Take, SendReply, End, Resting
<1> QED BY <1>4, <1>5, <1>6, <1>7 DEF MessageStep

LEMMA MessageStepKeeps ==
  ASSUME MessagesInv, MessageStep
  PROVE  MessagesInv'
<1>1. ASSUME NEW c \in Calls, Deliver(c) \/ Resume(c) PROVE MessagesInv'
  BY <1>1, DeliverStep, ResumeStep
<1>2. ASSUME NEW th \in Threads, Start(th) \/ Post(th) \/ Finish(th) PROVE MessagesInv'
  BY <1>2, StartStep, PostStep, FinishStep
<1>3. ASSUME NEW w \in Workers, Pop(w) \/ Method(w) \/ Defer(w) PROVE MessagesInv'
  BY <1>3, PopStep, MethodStep, DeferStep
<1>4. ASSUME Forward \/ Record \/ LeaveStub \/ ReadFrame \/ Take \/ SendReply PROVE MessagesInv'
  BY <1>4, ForwardStep, RecordStep, LeaveStubStep, ReadFrameStep, TakeStep, SendReplyStep
<1> QED BY <1>1, <1>2, <1>3, <1>4 DEF MessageStep

LEMMA MessageStepLeavesParts ==
  MessageStep => UNCHANGED <<part, pendingVars>>
  BY DEF MessageStep, Deliver, Resume, Start, Post, Finish, Pop, Method, Defer, Forward, Record,
     LeaveStub, ReadFrame, Take, SendReply

\* What MessagesInv reads, and what Resting reads.
LEMMA UnchangedThreads ==
  ASSUME UNCHANGED threadVars
  PROVE  /\ Resting => Resting'
         /\ MessagesInv /\ UNCHANGED store => MessagesInv'
<1>1. UNCHANGED <<pc, job, touching, requestQueue, responseQueue, arrived>>
  BY DEF threadVars
<1>2. Resting => Resting'
  BY <1>1 DEF Resting
<1>3. ASSUME MessagesInv, UNCHANGED store PROVE MessagesInv'
  <2>1. \A u \in Threads : Counters(u)' = Counters(u)
    BY <1>1, <1>3 DEF Counters, MsgCounter, Queued, held
  <2>2. ThreadsTyped'
    BY <1>1, <1>3 DEF MessagesInv, ThreadsTyped
  <2>3. JobsInv'
    BY <1>1, <1>3 DEF MessagesInv, JobsInv, Active
  <2>4. NamesInv'
    BY <1>1, <1>3 DEF MessagesInv, NamesInv, CounterOf, held
  <2>5. HeldInv'
    BY <1>1, <1>3 DEF MessagesInv, HeldInv, held
  <2>6. RequestsInv'
    BY <1>1, <1>3 DEF MessagesInv, RequestsInv, Untouched, Sending, Forwarding, Active
  <2>7. ResponsesInv'
    BY <1>1, <1>3 DEF MessagesInv, ResponsesInv, Sending, Active, held
  <2>8. TouchInv'
    BY <1>1, <1>3, <2>1 DEF MessagesInv, TouchInv
  <2> QED BY <2>2, <2>3, <2>4, <2>5, <2>6, <2>7, <2>8 DEF MessagesInv
<1> QED BY <1>2, <1>3

LEMMA NextRace == RaceInv /\ [Next]_vars => RaceInv'
<1> SUFFICES ASSUME RaceInv, [Next]_vars PROVE RaceInv'
  OBVIOUS
<1>1. CASE MessageStep
  <2>1. part = "messages" /\ MessagesInv
    BY <1>1, ThreadsRest DEF RaceInv
  <2>2. MessagesInv'
    BY <1>1, <2>1, MessageStepKeeps
  <2>3. part' = part /\ attached' = attached
    BY <1>1, MessageStepLeavesParts DEF pendingVars
  <2> QED BY <2>1, <2>2, <2>3 DEF RaceInv
<1>2. CASE PendingStep \/ ConnectionStep
  <2>1. /\ part' = part /\ UNCHANGED threadVars
        /\ part = "messages" => UNCHANGED store
        /\ part # "pending" => attached' = {}
    BY <1>2, OtherPartsLeaveThreads
  <2> QED BY <2>1, UnchangedThreads DEF RaceInv
<1>3. CASE UNCHANGED vars
  <2>1. UNCHANGED <<part, store, threadVars, attached>>
    BY <1>3 DEF vars, pendingVars
  <2> QED BY <2>1, UnchangedThreads DEF RaceInv
<1> QED BY <1>1, <1>2, <1>3 DEF Next

LEMMA RaceInvHolds == Spec => []RaceInv
  BY InitRace, NextRace, PTL DEF Spec

\* No two threads are at the same counter at once (the copies that do_dispatch()
\* and _Forwarding_stub() make "to avoid sharing refcount instances across
\* threads", and the mutexes around the queues).
THEOREM NoRaceOnCounters == Spec => []NoCounterRace
<1>1. RaceInv => NoCounterRace
  <2>1. CASE part = "messages"
    BY <2>1, ThreadsDoNotMeet DEF RaceInv
  <2>2. CASE part # "messages"
    BY <2>2 DEF RaceInv, Resting, NoCounterRace
  <2> QED BY <2>1, <2>2
<1> QED BY <1>1, RaceInvHolds, PTL
=============================================================================
