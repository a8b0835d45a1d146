-------------------------- MODULE Timeouts_proofs --------------------------
(***************************************************************************)
(* Theorems about Timeouts, for any number of timeouts and threads, any    *)
(* intervals, and whether or not handlers change the list.                 *)
(***************************************************************************)
EXTENDS Timeouts, ListLemmas

USE IntervalAssumption, TimeAssumption, HandlersAssumption

\* Only a timeout in the list that is enabled can be overdue, by no more than
\* the time since its expiration; poll() has taken into account timeouts that
\* are still there.
OverdueIsCounted ==
  /\ considered \subseteq Listed
  /\ \A t \in Timeouts : overdue[t] > 0 => Active(t)
  /\ \A t \in Timeouts :
       due[t] > -MaxWork => overdue[t] = 0 \/ overdue[t] <= -due[t]

\* How long a timeout may have been overdue at each place of the loop.
OverdueIsBounded ==
  /\ lpc = "work" => \A t \in Timeouts : overdue[t] <= lag
  /\ lpc = "poll" => \A t \in Timeouts : /\ overdue[t] <= lag + polled
                                         /\ limit <= Patience(t)
  /\ lpc \in Holding =>
       \A i \in 1..Len(list) :
         overdue[list[i]] <= IF i < cursor
                             THEN lag ELSE Patience(list[i]) + MaxWork + lag
  /\ lpc \in {"handler", "relock"} => overdue[list[cursor]] = 0

TimelyInv == TypeOK /\ OverdueIsCounted /\ OverdueIsBounded

-----------------------------------------------------------------------------
(* Lemmas.                                                                 *)

\* The positions of the list hold timeouts that are listed.
LEMMA PositionsAreListed ==
  ASSUME TypeOK
  PROVE  /\ Len(list) \in Nat
         /\ \A i \in 1..Len(list) : list[i] \in Timeouts /\ list[i] \in Listed
<1>1. list \in Seq(Timeouts)
  BY DEF TypeOK
<1>2. \A i \in 1..Len(list) : list[i] \in ToSet(list)
  BY <1>1, InList
<1> QED BY <1>1, <1>2 DEF Listed

\* Nothing in the list is overdue by less than nothing, and what is not in it
\* is not overdue.
LEMMA UnlistedIsNotOverdue ==
  ASSUME TypeOK, OverdueIsCounted, NEW t \in Timeouts, ~Active(t)
  PROVE  overdue[t] = 0
BY DEF TypeOK, OverdueIsCounted

\* The patience of a timeout is a time no longer than the longest poll().
LEMMA PatienceIsBounded ==
  ASSUME TypeOK, NEW t \in Timeouts
  PROVE  Patience(t) \in 0..MaxWait
BY DEF TypeOK, Patience

\* A unit of time makes each timeout overdue by at most one unit more, and the
\* one whose handler runs not at all.
LEMMA PassFacts ==
  ASSUME TypeOK, OverdueIsCounted, Pass,
         UNCHANGED <<list, enabled, considered>>
  PROVE  /\ due' \in [Timeouts -> Int] /\ overdue' \in [Timeouts -> Nat]
         /\ OverdueIsCounted'
         /\ \A t \in Timeouts : overdue'[t] <= overdue[t] + 1
         /\ \A t \in Timeouts : InHandler(t) => overdue'[t] = overdue[t]
<1>1. /\ MaxWork \in Nat /\ Late \in Nat
      /\ due \in [Timeouts -> Int] /\ overdue \in [Timeouts -> Nat]
  BY DEF TypeOK, Late
<1>2. ASSUME NEW t \in Timeouts
      PROVE  /\ due'[t] = IF due[t] > -MaxWork THEN due[t] - 1 ELSE due[t]
             /\ overdue'[t] \in {overdue[t], overdue[t] + 1}
             /\ overdue'[t] # overdue[t] =>
                  Active(t) /\ due[t] <= 0 /\ ~InHandler(t)
             /\ due[t] <= 0 \/ overdue'[t] = overdue[t]
  BY DEF Pass
<1>3. due' \in [Timeouts -> Int] /\ overdue' \in [Timeouts -> Nat]
  BY <1>1 DEF Pass
<1>4. OverdueIsCounted'
  <2>1. (considered \subseteq Listed)'
    BY DEF OverdueIsCounted, Listed
  <2>2. ASSUME NEW t \in Timeouts, overdue'[t] > 0 PROVE Active(t)'
    <3>1. Active(t)
      BY <1>1, <1>2, <2>2 DEF OverdueIsCounted
    <3> QED BY <3>1 DEF Active, Listed
  <2>3. ASSUME NEW t \in Timeouts, due'[t] > -MaxWork
        PROVE  overdue'[t] = 0 \/ overdue'[t] <= -due'[t]
    <3>1. due[t] > -MaxWork /\ due'[t] = due[t] - 1
      BY <1>1, <1>2, <2>3
    <3>2. overdue[t] = 0 \/ overdue[t] <= -due[t]
      BY <3>1 DEF OverdueIsCounted
    <3> QED BY <1>1, <1>2, <3>1, <3>2
  <2> QED BY <2>1, <2>2, <2>3 DEF OverdueIsCounted
<1>5. \A t \in Timeouts : overdue'[t] <= overdue[t] + 1
  BY <1>1, <1>2
<1>6. \A t \in Timeouts : InHandler(t) => overdue'[t] = overdue[t]
  BY <1>2
<1> QED BY <1>3, <1>4, <1>5, <1>6

-----------------------------------------------------------------------------
(* Time.                                                                   *)

\* The work of an iteration lasts a unit longer.
LEMMA ElapseStep == ASSUME TimelyInv, Elapse PROVE TimelyInv'
<1> USE DEF TimelyInv
<1>1. /\ UNCHANGED <<list, enabled, interval, repeat, adding, lpc, cursor, limit,
                     polled, considered>>
      /\ Pass /\ lag' = lag + 1 /\ lpc # "poll" /\ lag < MaxWork
  BY DEF Elapse, fields, pollVars
<1>2. /\ due' \in [Timeouts -> Int] /\ overdue' \in [Timeouts -> Nat]
      /\ OverdueIsCounted'
      /\ \A t \in Timeouts : overdue'[t] <= overdue[t] + 1
      /\ \A t \in Timeouts : InHandler(t) => overdue'[t] = overdue[t]
  BY <1>1, PassFacts
<1>3. TypeOK'
  BY <1>1, <1>2 DEF TypeOK
<1>4. OverdueIsBounded'
  <2>1. overdue \in [Timeouts -> Nat] /\ lag \in Nat /\ MaxWork \in Nat
        /\ cursor \in Nat
    BY DEF TypeOK
  <2>2. ASSUME lpc' = "work", NEW t \in Timeouts PROVE overdue'[t] <= lag'
    BY <1>1, <1>2, <2>1, <2>2 DEF OverdueIsBounded
  <2>3. ASSUME (lpc \in Holding)', NEW i \in (1..Len(list))'
        PROVE  (overdue[list[i]] <= IF i < cursor
                                    THEN lag
                                    ELSE Patience(list[i]) + MaxWork + lag)'
    <3>1. lpc \in Holding /\ i \in 1..Len(list) /\ list[i] \in Timeouts
      BY <1>1, <2>3, PositionsAreListed DEF Holding
    <3>2. overdue[list[i]] <= IF i < cursor
                              THEN lag ELSE Patience(list[i]) + MaxWork + lag
      BY <3>1 DEF OverdueIsBounded
    <3>3. Patience(list[i])' = Patience(list[i]) /\ Patience(list[i]) \in Nat
      BY <1>1, <3>1, PatienceIsBounded DEF Patience
    <3>4. overdue'[list[i]] <= overdue[list[i]] + 1
          /\ overdue[list[i]] \in Nat /\ overdue'[list[i]] \in Nat
      BY <1>2, <2>1, <3>1
    <3>5. i \in Nat
      BY <3>1
    <3> QED BY <1>1, <2>1, <3>2, <3>3, <3>4, <3>5, SMTT(30)
  <2>4. ASSUME (lpc \in {"handler", "relock"})' PROVE (overdue[list[cursor]] = 0)'
    <3>1. lpc \in {"handler", "relock"} /\ list[cursor] \in Timeouts
      BY <1>1, <2>4, PositionsAreListed DEF TypeOK
    <3>2. InHandler(list[cursor]) /\ overdue[list[cursor]] = 0
      BY <3>1 DEF InHandler, OverdueIsBounded
    <3> QED BY <1>1, <1>2, <3>1, <3>2
  <2> QED BY <1>1, <2>2, <2>3, <2>4 DEF OverdueIsBounded
<1> QED BY <1>2, <1>3, <1>4

\* poll() waits a unit longer.
LEMMA PollWaitsStep == ASSUME TimelyInv, PollWaits PROVE TimelyInv'
<1> USE DEF TimelyInv
<1>1. /\ UNCHANGED <<list, enabled, interval, repeat, adding, lpc, cursor, limit,
                     considered, lag>>
      /\ Pass /\ polled' = polled + 1 /\ lpc = "poll" /\ polled < limit
  BY DEF PollWaits, fields
<1>2. /\ due' \in [Timeouts -> Int] /\ overdue' \in [Timeouts -> Nat]
      /\ OverdueIsCounted'
      /\ \A t \in Timeouts : overdue'[t] <= overdue[t] + 1
  BY <1>1, PassFacts
<1>3. TypeOK'
  <2>1. limit \in Nat /\ polled \in Nat /\ polled + 1 <= limit
    BY <1>1 DEF TypeOK
  <2>2. polled' \in 0..limit'
    BY <1>1, <2>1
  <2> QED BY <1>1, <1>2, <2>2 DEF TypeOK, Holding
<1>4. ASSUME NEW t \in Timeouts
      PROVE  (overdue[t] <= lag + polled /\ limit <= Patience(t))'
  BY <1>1, <1>2 DEF OverdueIsBounded, TypeOK, Patience
<1>5. OverdueIsBounded'
  BY <1>1, <1>4 DEF OverdueIsBounded, Holding
<1> QED BY <1>2, <1>3, <1>5

-----------------------------------------------------------------------------
(* The list.                                                               *)

\* A timeout that has just been made is nowhere yet, and is not overdue; what
\* is known of the others stays.
LEMMA MakeFacts ==
  ASSUME TimelyInv, NEW t \in Timeouts, NEW d \in Intervals, NEW r \in BOOLEAN,
         Make(t, d, r), considered' = considered,
         list' = list \/ (lpc = "work" /\ list' = Append(list, t))
  PROVE  /\ enabled' \in [Timeouts -> BOOLEAN]
         /\ interval' \in [Timeouts -> Nat \ {0}]
         /\ repeat' \in [Timeouts -> BOOLEAN] /\ due' \in [Timeouts -> Int]
         /\ overdue' \in [Timeouts -> Nat]
         /\ OverdueIsCounted' /\ OverdueIsBounded'
<1> USE DEF TimelyInv
<1>1. /\ t \notin Listed /\ t \notin considered
      /\ UNCHANGED <<lpc, cursor, limit, polled, lag, considered>>
  BY DEF Make, Fresh, OverdueIsCounted
<1>2. /\ enabled' \in [Timeouts -> BOOLEAN] /\ interval' \in [Timeouts -> Nat \ {0}]
      /\ repeat' \in [Timeouts -> BOOLEAN] /\ due' \in [Timeouts -> Int]
      /\ overdue' \in [Timeouts -> Nat]
  BY DEF Make, TypeOK
<1>3. /\ overdue'[t] = 0
      /\ \A u \in Timeouts \ {t} :
           /\ overdue'[u] = overdue[u] /\ due'[u] = due[u]
           /\ enabled'[u] = enabled[u] /\ Patience(u)' = Patience(u)
  BY <1>1 DEF Make, TypeOK, Patience
<1>4. Listed \subseteq Listed'
  <2>1. CASE list' = list
    BY <2>1 DEF Listed
  <2>2. CASE list' = Append(list, t)
    <3>1. list \in Seq(Timeouts)
      BY DEF TypeOK
    <3>2. ToSet(list') = ToSet(list) \cup {t}
      BY <2>2, <3>1, AppendFacts
    <3> QED BY <3>2 DEF Listed
  <2> QED BY <2>1, <2>2
<1>5. OverdueIsCounted'
  <2>1. (considered \subseteq Listed)'
    BY <1>1, <1>4 DEF OverdueIsCounted
  <2>2. ASSUME NEW u \in Timeouts, overdue'[u] > 0 PROVE Active(u)'
    <3>1. u # t
      BY <1>3, <2>2
    <3>2. Active(u)
      BY <1>3, <2>2, <3>1 DEF OverdueIsCounted
    <3> QED BY <1>3, <1>4, <3>1, <3>2 DEF Active
  <2>3. ASSUME NEW u \in Timeouts, due'[u] > -MaxWork
        PROVE  overdue'[u] = 0 \/ overdue'[u] <= -due'[u]
    BY <1>3, <2>3 DEF OverdueIsCounted
  <2> QED BY <2>1, <2>2, <2>3 DEF OverdueIsCounted
<1>6. OverdueIsBounded'
  <2>1. CASE lpc = "work"
    <3>1. ASSUME NEW u \in Timeouts PROVE overdue'[u] <= lag'
      <4>1. overdue[u] <= lag /\ lag \in Nat
        BY <2>1 DEF OverdueIsBounded, TypeOK
      <4> QED BY <1>1, <1>3, <4>1
    <3> QED BY <1>1, <2>1, <3>1 DEF OverdueIsBounded, Holding
  <2>2. CASE lpc = "poll"
    <3>1. Patience(t)' = MaxWait
      BY <1>1 DEF Patience
    <3>2. ASSUME NEW u \in Timeouts
          PROVE  (overdue[u] <= lag + polled /\ limit <= Patience(u))'
      <4>1. /\ overdue[u] <= lag + polled /\ limit <= Patience(u)
            /\ lag \in Nat /\ polled \in Nat /\ limit <= MaxWait
        BY <2>2 DEF OverdueIsBounded, TypeOK
      <4>2. CASE u = t
        BY <1>1, <1>3, <3>1, <4>1, <4>2
      <4>3. CASE u # t
        BY <1>1, <1>3, <4>1, <4>3
      <4> QED BY <4>2, <4>3
    <3> QED BY <1>1, <2>2, <3>2 DEF OverdueIsBounded, Holding
  <2>3. CASE lpc \in Holding
    <3>1. list' = list
      BY <2>3 DEF Holding
    <3>2. \A i \in 1..Len(list) : list[i] \in Timeouts \ {t}
      BY <1>1, PositionsAreListed
    <3>3. \A i \in 1..Len(list) :
            /\ overdue'[list[i]] = overdue[list[i]]
            /\ Patience(list[i])' = Patience(list[i])
      BY <1>3, <3>2
    <3>4. ASSUME NEW i \in (1..Len(list))'
          PROVE  (overdue[list[i]] <= IF i < cursor
                                      THEN lag
                                      ELSE Patience(list[i]) + MaxWork + lag)'
      BY <1>1, <2>3, <3>1, <3>3 DEF OverdueIsBounded
    <3>5. (lpc \in {"handler", "relock"} => overdue[list[cursor]] = 0)'
      BY <1>1, <2>3, <3>1, <3>3, SMTT(30) DEF OverdueIsBounded, TypeOK
    <3> QED BY <1>1, <2>3, <3>4, <3>5 DEF OverdueIsBounded, Holding
  <2> QED BY <2>1, <2>2, <2>3 DEF TypeOK
<1> QED BY <1>2, <1>5, <1>6

\* Another thread makes a timeout.
LEMMA AddInThreadStep ==
  ASSUME TimelyInv, NEW th \in Threads, NEW t \in Timeouts, NEW d \in Intervals,
         NEW r \in BOOLEAN, AddInThread(th, t, d, r)
  PROVE  TimelyInv'
<1>1. /\ Make(t, d, r) /\ list' = list /\ considered' = considered
      /\ adding' = [adding EXCEPT ![th] = t]
      /\ UNCHANGED <<lpc, cursor, limit, polled, lag>>
  BY DEF AddInThread, Make
<1>2. /\ enabled' \in [Timeouts -> BOOLEAN]
      /\ interval' \in [Timeouts -> Nat \ {0}]
      /\ repeat' \in [Timeouts -> BOOLEAN] /\ due' \in [Timeouts -> Int]
      /\ overdue' \in [Timeouts -> Nat]
      /\ OverdueIsCounted' /\ OverdueIsBounded'
  BY <1>1, MakeFacts
<1> QED BY <1>1, <1>2 DEF TimelyInv, TypeOK

\* The loop's thread makes a timeout.
LEMMA AddInLoopStep ==
  ASSUME TimelyInv, NEW t \in Timeouts, NEW d \in Intervals, NEW r \in BOOLEAN,
         AddInLoop(t, d, r)
  PROVE  TimelyInv'
<1>1. /\ Make(t, d, r) /\ lpc = "work" /\ list' = Append(list, t)
      /\ considered' = considered /\ adding' = adding
      /\ UNCHANGED <<lpc, cursor, limit, polled, lag>>
  BY DEF AddInLoop, Make
<1>2. /\ enabled' \in [Timeouts -> BOOLEAN]
      /\ interval' \in [Timeouts -> Nat \ {0}]
      /\ repeat' \in [Timeouts -> BOOLEAN] /\ due' \in [Timeouts -> Int]
      /\ overdue' \in [Timeouts -> Nat]
      /\ OverdueIsCounted' /\ OverdueIsBounded'
  BY <1>1, MakeFacts
<1>3. list' \in Seq(Timeouts)
  BY <1>1, AppendFacts DEF TimelyInv, TypeOK
<1> QED BY <1>1, <1>2, <1>3 DEF TimelyInv, TypeOK, Holding

\* The list changes while the loop is not serving it: what was listed stays
\* listed, except timeouts that are not overdue.
LEMMA PushBackStep ==
  ASSUME TimelyInv, NEW th \in Threads, PushBack(th)
  PROVE  TimelyInv'
<1> USE DEF TimelyInv
<1> DEFINE t == adding[th]
<1>1. /\ lpc \in {"work", "poll"} /\ t \in Timeouts /\ list' = Append(list, t)
      /\ adding' = [adding EXCEPT ![th] = Null]
      /\ UNCHANGED <<enabled, interval, repeat, due, lpc, cursor, limit, polled,
                     considered, lag, overdue>>
  BY DEF PushBack, MutexFree, TypeOK, fields, pollVars
<1> HIDE DEF t
<1>2. list' \in Seq(Timeouts) /\ Listed \subseteq Listed'
  <2>1. list \in Seq(Timeouts)
    BY DEF TypeOK
  <2>2. list' \in Seq(Timeouts) /\ ToSet(list') = ToSet(list) \cup {t}
    BY <1>1, <2>1, AppendFacts
  <2> QED BY <2>2 DEF Listed
<1>3. TypeOK'
  BY <1>1, <1>2 DEF TypeOK, Holding
<1>4. OverdueIsCounted'
  BY <1>1, <1>2 DEF OverdueIsCounted, Active
<1>5. OverdueIsBounded'
  BY <1>1 DEF OverdueIsBounded, Holding, Patience
<1> QED BY <1>3, <1>4, <1>5

\* A timeout is deleted, by any thread.
LEMMA DeleteStep ==
  ASSUME TimelyInv, NEW t \in Timeouts, Delete(t)
  PROVE  TimelyInv'
<1> USE DEF TimelyInv
<1>1. /\ lpc \in {"work", "poll"} /\ considered' = considered \ {t}
      /\ UNCHANGED <<adding, lpc, cursor, limit, polled, lag>>
  BY DEF Delete, MutexFree
<1>2. /\ overdue'[t] = 0 /\ due'[t] = -MaxWork
      /\ \A u \in Timeouts \ {t} :
           /\ overdue'[u] = overdue[u] /\ due'[u] = due[u]
           /\ enabled'[u] = enabled[u] /\ Patience(u)' = Patience(u)
  BY <1>1 DEF Delete, TypeOK, Patience
<1>3. list' \in Seq(Timeouts) /\ Listed \ {t} \subseteq Listed'
  <2>1. list \in Seq(Timeouts)
    BY DEF TypeOK
  <2>2. PICK i \in 1..Len(list) : list[i] = t /\ list' = RemoveAt(list, i)
    BY DEF Delete
  <2>3. /\ RemoveAt(list, i) \in Seq(Timeouts)
        /\ \A x \in ToSet(list) : x = list[i] \/ x \in ToSet(RemoveAt(list, i))
    BY <2>1, RemoveAtFacts
  <2> QED BY <2>2, <2>3 DEF Listed
<1>4. TypeOK'
  <2>1. /\ enabled' \in [Timeouts -> BOOLEAN]
        /\ interval' \in [Timeouts -> Nat \ {0}]
        /\ repeat' \in [Timeouts -> BOOLEAN] /\ due' \in [Timeouts -> Int]
        /\ overdue' \in [Timeouts -> Nat]
    BY SMTT(30) DEF Delete, TypeOK
  <2> QED BY <1>1, <1>3, <2>1 DEF TypeOK, Holding
<1>5. OverdueIsCounted'
  <2>1. (considered \subseteq Listed)'
    BY <1>1, <1>3 DEF OverdueIsCounted
  <2>2. ASSUME NEW u \in Timeouts, overdue'[u] > 0 PROVE Active(u)'
    <3>1. u # t
      BY <1>2, <2>2
    <3>2. Active(u)
      BY <1>2, <2>2, <3>1 DEF OverdueIsCounted
    <3> QED BY <1>2, <1>3, <3>1, <3>2 DEF Active
  <2>3. ASSUME NEW u \in Timeouts, due'[u] > -MaxWork
        PROVE  overdue'[u] = 0 \/ overdue'[u] <= -due'[u]
    BY <1>2, <2>3 DEF OverdueIsCounted
  <2> QED BY <2>1, <2>2, <2>3 DEF OverdueIsCounted
<1>6. OverdueIsBounded'
  <2>1. ASSUME lpc = "work", NEW u \in Timeouts PROVE overdue'[u] <= lag'
    <3>1. overdue[u] <= lag /\ lag \in Nat
      BY <2>1 DEF OverdueIsBounded, TypeOK
    <3> QED BY <1>1, <1>2, <3>1
  <2>2. ASSUME lpc = "poll", NEW u \in Timeouts
        PROVE  (overdue[u] <= lag + polled /\ limit <= Patience(u))'
    <3>1. /\ overdue[u] <= lag + polled /\ limit <= Patience(u)
          /\ lag \in Nat /\ polled \in Nat /\ limit <= MaxWait
      BY <2>2 DEF OverdueIsBounded, TypeOK
    <3>2. CASE u = t
      <4>1. Patience(t)' = MaxWait
        BY <1>1 DEF Patience
      <4> QED BY <1>1, <1>2, <3>1, <3>2, <4>1
    <3>3. CASE u # t
      BY <1>1, <1>2, <3>1, <3>3
    <3> QED BY <3>2, <3>3
  <2> QED BY <1>1, <2>1, <2>2 DEF OverdueIsBounded, Holding
<1> QED BY <1>4, <1>5, <1>6

\* A timeout is switched on or off, by any thread and at any place of the loop.
LEMMA ToggleStep ==
  ASSUME TimelyInv, NEW t \in Timeouts, Toggle(t)
  PROVE  TimelyInv'
<1> USE DEF TimelyInv
<1>1. /\ t \in Listed
      /\ UNCHANGED <<list, interval, repeat, due, adding, lpc, cursor, limit,
                     polled, considered, lag>>
  BY DEF Toggle, fields, pollVars
<1>2. /\ enabled' \in [Timeouts -> BOOLEAN] /\ overdue' \in [Timeouts -> Nat]
      /\ overdue'[t] = 0
      /\ \A u \in Timeouts \ {t} : /\ overdue'[u] = overdue[u]
                                   /\ enabled'[u] = enabled[u]
      /\ \A u \in Timeouts : overdue'[u] <= overdue[u]
  BY DEF Toggle, TypeOK
<1>3. TypeOK'
  BY <1>1, <1>2 DEF TypeOK
<1>4. OverdueIsCounted'
  <2>1. (considered \subseteq Listed)'
    BY <1>1 DEF OverdueIsCounted, Listed
  <2>2. ASSUME NEW u \in Timeouts, overdue'[u] > 0 PROVE Active(u)'
    BY <1>1, <1>2, <2>2 DEF OverdueIsCounted, Active, Listed
  <2>3. ASSUME NEW u \in Timeouts, due'[u] > -MaxWork
        PROVE  overdue'[u] = 0 \/ overdue'[u] <= -due'[u]
    BY <1>1, <1>2, <2>3 DEF OverdueIsCounted
  <2> QED BY <2>1, <2>2, <2>3 DEF OverdueIsCounted
<1>5. OverdueIsBounded'
  <2>0. \A u \in Timeouts : Patience(u)' = Patience(u)
    BY <1>1 DEF Patience
  <2>1. /\ overdue \in [Timeouts -> Nat] /\ lag \in Nat /\ polled \in Nat
        /\ MaxWork \in Nat /\ lpc \in {"work", "poll"} \cup Holding
    BY DEF TypeOK
  <2>2. ASSUME lpc = "work", NEW u \in Timeouts PROVE overdue'[u] <= lag'
    BY <1>1, <1>2, <2>1, <2>2 DEF OverdueIsBounded
  <2>3. ASSUME lpc = "poll", NEW u \in Timeouts
        PROVE  (overdue[u] <= lag + polled /\ limit <= Patience(u))'
    BY <1>1, <1>2, <2>0, <2>1, <2>3 DEF OverdueIsBounded
  <2>4. ASSUME lpc \in Holding, NEW i \in (1..Len(list))'
        PROVE  (overdue[list[i]] <= IF i < cursor
                                    THEN lag
                                    ELSE Patience(list[i]) + MaxWork + lag)'
    <3>1. i \in 1..Len(list) /\ list[i] \in Timeouts
      BY <1>1, <2>4, PositionsAreListed
    <3>2. overdue[list[i]] <= IF i < cursor
                              THEN lag ELSE Patience(list[i]) + MaxWork + lag
      BY <2>4, <3>1 DEF OverdueIsBounded
    <3>3. PICK u \in Timeouts : u = list[i]
      BY <3>1
    <3>4. /\ overdue'[u] <= overdue[u] /\ Patience(u)' = Patience(u)
          /\ overdue'[u] \in Nat /\ overdue[u] \in Nat
      BY <1>2, <2>0, <2>1
    <3>5. Patience(u) \in 0..MaxWait
      BY PatienceIsBounded
    <3> QED BY <1>1, <2>1, <3>1, <3>2, <3>3, <3>4, <3>5
  <2>5. ASSUME lpc \in {"handler", "relock"} PROVE (overdue[list[cursor]] = 0)'
    <3>1. overdue[list[cursor]] = 0 /\ list[cursor] \in Timeouts
      BY <2>5, PositionsAreListed DEF OverdueIsBounded, TypeOK
    <3> QED BY <1>1, <1>2, <3>1
  <2> QED BY <1>1, <2>1, <2>2, <2>3, <2>4, <2>5 DEF OverdueIsBounded
<1> QED BY <1>3, <1>4, <1>5

-----------------------------------------------------------------------------
(* dispatch().                                                             *)

\* The iteration's work is over; the loop computes how long to wait.
LEMMA PollStep == ASSUME TimelyInv, Poll PROVE TimelyInv'
<1> USE DEF TimelyInv
<1>1. /\ lpc = "work" /\ lpc' = "poll" /\ polled' = 0
      /\ limit' \in Waits /\ \A w \in Waits : limit' <= w
      /\ considered' = {t \in Timeouts : Active(t)}
      /\ UNCHANGED <<list, enabled, interval, repeat, due, adding, cursor, lag,
                     overdue>>
  BY DEF Poll, fields
<1>2. MaxWait \in Waits /\ \A t \in Timeouts : Active(t) => interval[t] \in Waits
  BY DEF Waits
<1>3. limit' \in 0..MaxWait
  <2>1. Waits \subseteq Nat
    BY DEF Waits, TypeOK
  <2> QED BY <1>1, <1>2, <2>1
<1>4. TypeOK'
  BY <1>1, <1>3 DEF TypeOK, Holding
<1>5. OverdueIsCounted'
  BY <1>1 DEF OverdueIsCounted, Active, Listed
<1>6. OverdueIsBounded'
  <2>1. ASSUME NEW t \in Timeouts
        PROVE  (overdue[t] <= lag + polled /\ limit <= Patience(t))'
    <3>1. overdue[t] <= lag /\ lag \in Nat
      BY <1>1 DEF OverdueIsBounded, TypeOK
    <3>2. (limit <= Patience(t))'
      BY <1>1, <1>2, <1>3 DEF Patience
    <3> QED BY <1>1, <3>1, <3>2
  <2> QED BY <1>1, <2>1 DEF OverdueIsBounded, Holding
<1> QED BY <1>4, <1>5, <1>6

\* poll() has returned: what it let become overdue is within its limit.
LEMMA PollReturnsStep == ASSUME TimelyInv, PollReturns PROVE TimelyInv'
<1> USE DEF TimelyInv
<1>1. /\ lpc = "poll" /\ lpc' = "expire" /\ cursor' = 1 /\ lag' = 0
      /\ UNCHANGED <<list, enabled, interval, repeat, due, adding, limit, polled,
                     considered, overdue>>
  BY DEF PollReturns, fields, pollVars
<1>2. TypeOK'
  <2>1. Len(list) \in Nat
    BY PositionsAreListed
  <2> QED BY <1>1, <2>1 DEF TypeOK, Holding
<1>3. OverdueIsCounted'
  BY <1>1 DEF OverdueIsCounted, Active, Listed
<1>4. OverdueIsBounded'
  <2>1. ASSUME NEW i \in (1..Len(list))'
        PROVE  (overdue[list[i]] <= IF i < cursor
                                    THEN lag
                                    ELSE Patience(list[i]) + MaxWork + lag)'
    <3>1. list[i] \in Timeouts /\ i \in Nat /\ ~(i < 1)
      BY <1>1, PositionsAreListed
    <3>2. /\ overdue[list[i]] <= lag + polled /\ limit <= Patience(list[i])
          /\ overdue[list[i]] \in Nat
          /\ polled \in Nat /\ polled <= limit /\ lag \in Nat /\ lag <= MaxWork
          /\ limit \in Nat
      BY <1>1, <3>1 DEF OverdueIsBounded, TypeOK
    <3>3. Patience(list[i]) \in Nat /\ Patience(list[i])' = Patience(list[i])
      BY <1>1, <3>1, PatienceIsBounded DEF Patience
    <3> QED BY <1>1, <3>1, <3>2, <3>3
  <2> QED BY <1>1, <2>1 DEF OverdueIsBounded
<1> QED BY <1>2, <1>3, <1>4

\* A timeout that has not expired, or is off, is overdue by no more than what
\* has passed since poll() returned.
LEMMA SkipTimeoutStep == ASSUME TimelyInv, SkipTimeout PROVE TimelyInv'
<1> USE DEF TimelyInv
<1> DEFINE t == list[cursor]
<1>1. /\ lpc = "expire" /\ cursor <= Len(list) /\ ~Expired(t)
      /\ cursor' = cursor + 1
      /\ UNCHANGED <<list, enabled, interval, repeat, due, adding, lpc, limit,
                     polled, considered, lag, overdue>>
  BY DEF SkipTimeout, fields, pollVars
<1>2. /\ Len(list) \in Nat /\ cursor \in Nat \ {0} /\ t \in Timeouts
      /\ cursor \in 1..Len(list)
  BY <1>1, PositionsAreListed DEF TypeOK
<1>3. TypeOK'
  BY <1>1, <1>2 DEF TypeOK, Holding
<1>4. OverdueIsCounted'
  BY <1>1 DEF OverdueIsCounted, Active, Listed
<1>5. overdue[t] <= lag
  <2>0. overdue[t] \in Nat /\ due[t] \in Int /\ lag \in Nat /\ lag <= MaxWork
    BY <1>2 DEF TypeOK
  <2>1. CASE ~enabled[t]
    BY <1>2, <2>0, <2>1, UnlistedIsNotOverdue DEF Active
  <2>2. CASE enabled[t]
    <3>1. due[t] + lag > 0
      BY <1>1, <2>0, <2>2 DEF Expired
    <3>2. due[t] > -MaxWork
      BY <2>0, <3>1
    <3>3. overdue[t] = 0 \/ overdue[t] <= -due[t]
      BY <1>2, <3>2 DEF OverdueIsCounted
    <3> QED BY <2>0, <3>1, <3>3
  <2> QED BY <2>1, <2>2
<1> HIDE DEF t
<1>6. OverdueIsBounded'
  <2>1. ASSUME NEW i \in (1..Len(list))'
        PROVE  (overdue[list[i]] <= IF i < cursor
                                    THEN lag
                                    ELSE Patience(list[i]) + MaxWork + lag)'
    <3>1. i \in 1..Len(list) /\ i \in Nat
      BY <1>1
    <3>2. overdue[list[i]] <= IF i < cursor
                              THEN lag ELSE Patience(list[i]) + MaxWork + lag
      BY <1>1, <3>1 DEF OverdueIsBounded, Holding
    <3>3. i < cursor + 1 <=> i < cursor \/ i = cursor
      BY <1>2, <3>1
    <3>4. Patience(list[i])' = Patience(list[i])
      BY <1>1 DEF Patience
    <3> QED BY <1>1, <1>5, <3>2, <3>3, <3>4 DEF t
  <2> QED BY <1>1, <2>1 DEF OverdueIsBounded
<1> QED BY <1>3, <1>4, <1>6

\* An expired timeout is handled.
LEMMA CallHandlerStep == ASSUME TimelyInv, CallHandler PROVE TimelyInv'
<1> USE DEF TimelyInv
<1> DEFINE t == list[cursor]
<1>1. /\ lpc = "expire" /\ lpc' \in {"handler", "relock"} /\ cursor <= Len(list)
      /\ overdue' = [overdue EXCEPT ![t] = 0]
      /\ UNCHANGED <<list, enabled, interval, repeat, due, adding, cursor, limit,
                     polled, considered, lag>>
  BY DEF CallHandler, AfterCall, fields, pollVars
<1>2. Len(list) \in Nat /\ cursor \in 1..Len(list) /\ t \in Timeouts
  BY <1>1, PositionsAreListed DEF TypeOK
<1>3. /\ overdue' \in [Timeouts -> Nat] /\ overdue'[t] = 0
      /\ \A u \in Timeouts : overdue'[u] = overdue[u] \/ overdue'[u] = 0
  BY <1>1, <1>2 DEF TypeOK
<1> HIDE DEF t
<1>4. TypeOK'
  BY <1>1, <1>2, <1>3 DEF TypeOK, Holding
<1>5. OverdueIsCounted'
  <2>1. (considered \subseteq Listed)'
    BY <1>1 DEF OverdueIsCounted, Listed
  <2>2. ASSUME NEW u \in Timeouts, overdue'[u] > 0 PROVE Active(u)'
    BY <1>1, <1>3, <2>2 DEF OverdueIsCounted, Active, Listed
  <2>3. ASSUME NEW u \in Timeouts, due'[u] > -MaxWork
        PROVE  overdue'[u] = 0 \/ overdue'[u] <= -due'[u]
    BY <1>1, <1>3, <2>3 DEF OverdueIsCounted
  <2> QED BY <2>1, <2>2, <2>3 DEF OverdueIsCounted
<1>6. OverdueIsBounded'
  <2>1. ASSUME NEW i \in (1..Len(list))'
        PROVE  (overdue[list[i]] <= IF i < cursor
                                    THEN lag
                                    ELSE Patience(list[i]) + MaxWork + lag)'
    <3>1. i \in 1..Len(list) /\ list[i] \in Timeouts
      BY <1>1, PositionsAreListed
    <3>2. overdue[list[i]] <= IF i < cursor
                              THEN lag ELSE Patience(list[i]) + MaxWork + lag
      BY <1>1, <3>1 DEF OverdueIsBounded, Holding
    <3>3. /\ Patience(list[i])' = Patience(list[i])
          /\ Patience(list[i]) \in Nat /\ lag \in Nat /\ MaxWork \in Nat
      BY <1>1, <3>1, PatienceIsBounded DEF Patience, TypeOK
    <3>4. overdue'[list[i]] = overdue[list[i]] \/ overdue'[list[i]] = 0
      BY <1>3, <3>1
    <3> QED BY <1>1, <3>2, <3>3, <3>4
  <2>2. (overdue[list[cursor]] = 0)'
    BY <1>1, <1>3 DEF t
  <2> QED BY <1>1, <2>1, <2>2 DEF OverdueIsBounded
<1> QED BY <1>4, <1>5, <1>6

\* The handler has returned; only its own timeout is due again.
LEMMA HandlerReturnsStep == ASSUME TimelyInv, HandlerReturns PROVE TimelyInv'
<1> USE DEF TimelyInv
<1> DEFINE t == list[cursor]
<1>1. /\ lpc = "handler" /\ lpc' = "expire" /\ cursor' = cursor + 1
      /\ due' = [due EXCEPT ![t] = IF repeat[t] THEN interval[t] - lag ELSE @]
      /\ UNCHANGED <<list, enabled, interval, repeat, adding, limit, polled,
                     considered, lag, overdue>>
  BY DEF HandlerReturns, Advance, fields, pollVars
<1>2. /\ Len(list) \in Nat /\ cursor \in 1..Len(list) /\ t \in Timeouts
      /\ overdue[t] = 0
  BY <1>1, PositionsAreListed DEF TypeOK, OverdueIsBounded
<1>3. /\ due' \in [Timeouts -> Int]
      /\ \A u \in Timeouts : u # t => due'[u] = due[u]
  BY <1>1, <1>2, SMTT(30) DEF TypeOK
<1> HIDE DEF t
<1>4. TypeOK'
  BY <1>1, <1>2, <1>3, SMTT(30) DEF TypeOK, Holding
<1>5. OverdueIsCounted'
  <2>1. (considered \subseteq Listed)'
    BY <1>1 DEF OverdueIsCounted, Listed
  <2>2. ASSUME NEW u \in Timeouts, overdue'[u] > 0 PROVE Active(u)'
    BY <1>1, <2>2 DEF OverdueIsCounted, Active, Listed
  <2>3. ASSUME NEW u \in Timeouts, due'[u] > -MaxWork
        PROVE  overdue'[u] = 0 \/ overdue'[u] <= -due'[u]
    BY <1>1, <1>2, <1>3, <2>3 DEF OverdueIsCounted
  <2> QED BY <2>1, <2>2, <2>3 DEF OverdueIsCounted
<1>6. OverdueIsBounded'
  <2>1. ASSUME NEW i \in (1..Len(list))'
        PROVE  (overdue[list[i]] <= IF i < cursor
                                    THEN lag
                                    ELSE Patience(list[i]) + MaxWork + lag)'
    <3>1. i \in 1..Len(list) /\ i \in Nat /\ lag \in Nat
      BY <1>1 DEF TypeOK
    <3>2. overdue[list[i]] <= IF i < cursor
                              THEN lag ELSE Patience(list[i]) + MaxWork + lag
      BY <1>1, <3>1 DEF OverdueIsBounded, Holding
    <3>3. i < cursor + 1 <=> i < cursor \/ i = cursor
      BY <1>2, <3>1
    <3>4. Patience(list[i])' = Patience(list[i])
      BY <1>1 DEF Patience
    <3>5. overdue[list[cursor]] <= lag
      BY <1>2, <3>1 DEF t
    <3> QED BY <1>1, <3>2, <3>3, <3>4, <3>5
  <2> QED BY <1>1, <2>1 DEF OverdueIsBounded
<1> QED BY <1>4, <1>5, <1>6

\* The loop has served the whole list.
LEMMA UnlockStep == ASSUME TimelyInv, Unlock PROVE TimelyInv'
<1> USE DEF TimelyInv
<1>1. /\ lpc = "expire" /\ lpc' = "work" /\ cursor > Len(list)
      /\ UNCHANGED <<list, enabled, interval, repeat, due, adding, cursor, limit,
                     polled, considered, lag, overdue>>
  BY DEF Unlock, fields, pollVars
<1>2. TypeOK' /\ OverdueIsCounted'
  BY <1>1 DEF TypeOK, OverdueIsCounted, Active, Listed, Holding
<1>3. ASSUME NEW t \in Timeouts PROVE overdue[t] <= lag
  <2>1. CASE ~Active(t)
    BY <2>1, UnlistedIsNotOverdue DEF TypeOK
  <2>2. CASE Active(t)
    <3>1. PICK i \in 1..Len(list) : list[i] = t
      BY <2>2, InList DEF Active, Listed, TypeOK
    <3>2. i < cursor
      BY <1>1, <3>1, PositionsAreListed DEF TypeOK
    <3> QED BY <1>1, <3>1, <3>2 DEF OverdueIsBounded, Holding
  <2> QED BY <2>1, <2>2
<1> QED BY <1>1, <1>2, <1>3 DEF OverdueIsBounded, Holding

-----------------------------------------------------------------------------
(* The invariant and its consequences.                                     *)

LEMMA InitTimely == Init => TimelyInv
<1> SUFFICES ASSUME Init PROVE TimelyInv
  OBVIOUS
<1>1. TypeOK
  BY DEF Init, TypeOK, Holding
<1>2. OverdueIsCounted
  BY DEF Init, OverdueIsCounted
<1>3. OverdueIsBounded
  BY DEF Init, OverdueIsBounded, Holding
<1> QED BY <1>1, <1>2, <1>3 DEF TimelyInv

LEMMA NextTimely == TimelyInv /\ [Next]_vars => TimelyInv'
<1> SUFFICES ASSUME TimelyInv, [Next]_vars PROVE TimelyInv'
  OBVIOUS
<1>1. CASE LoopStep
  BY <1>1, PollStep, PollWaitsStep, SkipTimeoutStep, CallHandlerStep,
     HandlerReturnsStep, UnlockStep, PollReturnsStep DEF LoopStep
<1>2. CASE Elapse \/ PollReturns
  BY <1>2, ElapseStep, PollReturnsStep
<1>3. ASSUME NEW t \in Timeouts, DeleteInThread(t) \/ DeleteInLoop(t) \/ Toggle(t)
      PROVE  TimelyInv'
  BY <1>3, DeleteStep, ToggleStep DEF DeleteInThread, DeleteInLoop
<1>4. ASSUME NEW t \in Timeouts, NEW d \in Intervals, NEW r \in BOOLEAN,
             AddInLoop(t, d, r) \/ \E th \in Threads : AddInThread(th, t, d, r)
      PROVE  TimelyInv'
  BY <1>4, AddInLoopStep, AddInThreadStep
<1>5. ASSUME NEW th \in Threads, PushBack(th) PROVE TimelyInv'
  BY <1>5, PushBackStep
<1>6. CASE UNCHANGED vars
  BY <1>6 DEF vars, fields, pollVars, TimelyInv, TypeOK, OverdueIsCounted,
              OverdueIsBounded, Active, Listed, Patience
<1> QED BY <1>1, <1>2, <1>3, <1>4, <1>5, <1>6 DEF Next, Environment

\* The loop keeps the times of every timeout within bounds, however timeouts are
\* made, deleted and toggled by other threads while it waits and serves.
THEOREM OverdueIsKept == Spec => []TimelyInv
BY InitTimely, NextTimely, PTL DEF Spec

\* Every reachable state has its types, and the iterator stays in the list.
THEOREM TypeCorrect == Spec => []TypeOK
<1>1. TimelyInv => TypeOK
  BY DEF TimelyInv
<1> QED BY <1>1, OverdueIsKept, PTL

\* No enabled timeout is overdue by more than its own interval, or the longest
\* poll(), and the work of two iterations.
THEOREM TimeoutsAreServed == Spec => []HandledInTime
<1>1. TimelyInv => HandledInTime
  <2> SUFFICES ASSUME TimelyInv, NEW t \in Listed
               PROVE  overdue[t] <= Patience(t) + 2 * MaxWork
    BY DEF HandledInTime
  <2> USE DEF TimelyInv
  <2>1. PICK i \in 1..Len(list) : list[i] = t
    BY InList DEF Listed, TypeOK
  <2>2. t \in Timeouts
    BY <2>1, PositionsAreListed
  <2>3. /\ Patience(t) \in Nat /\ MaxWork \in Nat /\ overdue[t] \in Nat
        /\ lag \in Nat /\ lag <= MaxWork
        /\ limit \in Nat /\ polled \in Nat /\ polled <= limit
    BY <2>2, PatienceIsBounded, SMTT(30) DEF TypeOK
  <2>4. CASE lpc = "work"
    BY <2>2, <2>3, <2>4 DEF OverdueIsBounded
  <2>5. CASE lpc = "poll"
    BY <2>2, <2>3, <2>5 DEF OverdueIsBounded
  <2>6. CASE lpc \in Holding
    <3>1. overdue[t] <= IF i < cursor THEN lag ELSE Patience(t) + MaxWork + lag
      BY <2>1, <2>6 DEF OverdueIsBounded
    <3> QED BY <2>3, <3>1
  <2> QED BY <2>4, <2>5, <2>6 DEF TypeOK
<1> QED BY <1>1, OverdueIsKept, PTL
=============================================================================
