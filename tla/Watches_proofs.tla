--------------------------- MODULE Watches_proofs ---------------------------
(***************************************************************************)
(* Theorems about Watches, for any connections, any capacity of the        *)
(* sockets and any number of messages.                                     *)
(***************************************************************************)
EXTENDS Watches, ListLemmas

USE ConnectionsAssumption, BoundsAssumption

Elements(s) == {s[i] : i \in 1..Len(s)}

\* No watch is in the list twice, and that of a connection for writing is
\* before that for reading.
Distinct(s) == \A i, k \in 1..Len(s) : s[i] = s[k] => i = k
WriteFirst(s) ==
  \A i, k \in 1..Len(s) :
    Fd(s[i]) = Fd(s[k]) /\ Kind(s[i]) = "write" /\ Kind(s[k]) = "read" => i < k

\* What libdbus could not write yet is what the program has sent.
QueuedInv == \A c \in Connections : queued[c] + toSend[c] <= MaxSend

Types ==
  /\ phase \in [Connections -> Phases]
  /\ peer \in [Connections -> BOOLEAN]
  /\ sending \in [Connections -> 0..MaxReceive]
  /\ inbound \in [Connections -> 0..Capacity]
  /\ toSend \in [Connections -> 0..MaxSend]
  /\ queued \in [Connections -> 0..MaxSend]
  /\ outbound \in [Connections -> 0..Capacity]
  /\ enabled \in [Watches -> BOOLEAN]
  /\ QueuedInv

LoopTypes ==
  /\ fds \in Seq([watch : Watches, events : SUBSET Kinds,
                  revents : SUBSET (Kinds \cup {"hangup"})])
  /\ j \in Nat \ {0}
  /\ lpc \in {"work", "poll", "serve"}

\* The list has the watches of each connection and no others.
Lists(s, at) ==
  /\ s \in Seq(Watches) /\ Distinct(s) /\ WriteFirst(s)
  /\ \A c \in Connections :
       /\ <<c, "write">> \in Elements(s) <=> at[c] \notin {"none", "closed"}
       /\ <<c, "read">> \in Elements(s) <=> at[c] \in {"readPushed", "open"}

WatchesInv == Types /\ LoopTypes /\ Lists(list, phase) /\ crashed \in BOOLEAN

\* The watch for writing is enabled only while messages wait, once its flags
\* are set.
WaitingInv ==
  \A c \in Connections :
    phase[c] \notin {"none", "writePushed"} /\ enabled[<<c, "write">>] => queued[c] > 0

-----------------------------------------------------------------------------
(* The list.                                                               *)

\* A watch is the pair of a connection and a kind.
LEMMA WatchFacts ==
  /\ \A w \in Watches : Fd(w) \in Connections /\ Kind(w) \in Kinds /\ w = <<Fd(w), Kind(w)>>
  /\ \A c \in Connections, kind \in Kinds :
       <<c, kind>> \in Watches /\ Fd(<<c, kind>>) = c /\ Kind(<<c, kind>>) = kind
BY DEF Watches, Fd, Kind

\* push_back() of a watch that is not in the list, by which the watch for
\* writing does not come after that for reading.
LEMMA PushFacts ==
  ASSUME NEW s \in Seq(Watches), Distinct(s), WriteFirst(s),
         NEW w \in Watches, w \notin Elements(s),
         Kind(w) = "write" => <<Fd(w), "read">> \notin Elements(s)
  PROVE  /\ Append(s, w) \in Seq(Watches)
         /\ Distinct(Append(s, w)) /\ WriteFirst(Append(s, w))
         /\ Elements(Append(s, w)) = Elements(s) \cup {w}
<1> DEFINE r == Append(s, w)
<1>1. /\ r \in Seq(Watches) /\ Len(s) \in Nat /\ Len(r) = Len(s) + 1
      /\ \A i \in 1..Len(s) : r[i] = s[i]
      /\ r[Len(s) + 1] = w
  BY AppendFacts
<1> HIDE DEF r
<1>2. \A i \in 1..Len(r) : i \in 1..Len(s) \/ i = Len(s) + 1
  BY <1>1
<1>3. \A i \in 1..Len(s) : i \in 1..Len(r) /\ s[i] \in Elements(s) /\ i < Len(s) + 1
  BY <1>1 DEF Elements
<1>4. Len(s) + 1 \in 1..Len(r)
  BY <1>1
<1>5. Distinct(r)
  <2> SUFFICES ASSUME NEW i \in 1..Len(r), NEW k \in 1..Len(r), r[i] = r[k] PROVE i = k
    BY DEF Distinct
  <2>1. CASE i \in 1..Len(s) /\ k \in 1..Len(s)
    BY <1>1, <2>1 DEF Distinct
  <2>2. CASE i \in 1..Len(s) /\ k = Len(s) + 1
    BY <1>1, <1>3, <2>2
  <2>3. CASE i = Len(s) + 1 /\ k \in 1..Len(s)
    BY <1>1, <1>3, <2>3
  <2> QED BY <1>2, <2>1, <2>2, <2>3
<1>6. WriteFirst(r)
  <2> SUFFICES ASSUME NEW i \in 1..Len(r), NEW k \in 1..Len(r), Fd(r[i]) = Fd(r[k]),
                      Kind(r[i]) = "write", Kind(r[k]) = "read"
               PROVE i < k
    BY DEF WriteFirst
  <2>1. CASE i \in 1..Len(s) /\ k \in 1..Len(s)
    BY <1>1, <2>1 DEF WriteFirst
  <2>2. CASE i \in 1..Len(s) /\ k = Len(s) + 1
    BY <1>3, <2>2
  <2>3. CASE i = Len(s) + 1 /\ k \in 1..Len(s)
    <3>1. r[i] = w /\ s[k] \in Elements(s) /\ s[k] \in Watches /\ r[k] = s[k]
      BY <1>1, <1>3, <2>3
    <3>2. s[k] = <<Fd(w), "read">>
      BY <3>1, WatchFacts
    <3> QED BY <3>1, <3>2
  <2>4. CASE i = Len(s) + 1 /\ k = Len(s) + 1
    BY <2>4
  <2> QED BY <1>2, <2>1, <2>2, <2>3, <2>4
<1>7. ASSUME NEW x PROVE x \in Elements(r) <=> x \in Elements(s) \cup {w}
  BY <1>1, <1>2, <1>3, <1>4 DEF Elements
<1>8. Elements(r) = Elements(s) \cup {w}
  BY <1>7
<1> QED BY <1>1, <1>5, <1>6, <1>8 DEF r

\* remove() of a watch that is in the list.
LEMMA RemoveFacts ==
  ASSUME NEW s \in Seq(Watches), Distinct(s), WriteFirst(s), NEW w \in Elements(s)
  PROVE  /\ Without(s, w) \in Seq(Watches)
         /\ Distinct(Without(s, w)) /\ WriteFirst(Without(s, w))
         /\ Elements(Without(s, w)) = Elements(s) \ {w}
<1>1. PICK p \in 1..Len(s) : p = Position(s, w) /\ s[p] = w
  BY DEF Position, Elements
<1> DEFINE r == RemoveAt(s, p)
           At(i) == IF i < p THEN i ELSE i + 1
<1>2. /\ r \in Seq(Watches) /\ Len(s) \in Nat /\ Len(r) = Len(s) - 1
      /\ \A i \in 1..(p - 1) : r[i] = s[i]
      /\ \A i \in p..(Len(s) - 1) : r[i] = s[i + 1]
  BY RemoveAtFacts
<1> HIDE DEF r
<1>3. \A i \in 1..Len(r) : At(i) \in 1..Len(s) /\ At(i) # p /\ r[i] = s[At(i)]
  BY <1>2
<1>4. \A i, k \in 1..Len(r) : /\ At(i) = At(k) => i = k
                              /\ At(i) < At(k) => i < k
  BY <1>2
<1>5. \A k \in 1..Len(s) : k # p => \E i \in 1..Len(r) : At(i) = k
  <2> SUFFICES ASSUME NEW k \in 1..Len(s), k # p PROVE \E i \in 1..Len(r) : At(i) = k
    OBVIOUS
  <2>1. CASE k < p
    <3>1. k \in 1..Len(r) /\ At(k) = k
      BY <1>2, <2>1
    <3> QED BY <3>1
  <2>2. CASE k > p
    <3>1. k - 1 \in 1..Len(r) /\ At(k - 1) = k
      BY <1>2, <2>2
    <3> QED BY <3>1
  <2> QED BY <2>1, <2>2
<1> HIDE DEF At
<1>6. Distinct(r)
  BY <1>3, <1>4 DEF Distinct
<1>7. WriteFirst(r)
  BY <1>3, <1>4 DEF WriteFirst
<1>8. ASSUME NEW x PROVE x \in Elements(r) <=> x \in Elements(s) \ {w}
  <2>1. ASSUME x \in Elements(r) PROVE x \in Elements(s) \ {w}
    <3>1. PICK i \in 1..Len(r) : x = r[i]
      BY <2>1 DEF Elements
    <3> QED BY <1>1, <1>3, <3>1 DEF Elements, Distinct
  <2>2. ASSUME x \in Elements(s) \ {w} PROVE x \in Elements(r)
    <3>1. PICK k \in 1..Len(s) : x = s[k]
      BY <2>2 DEF Elements
    <3>2. k # p
      BY <1>1, <2>2, <3>1
    <3> QED BY <1>3, <1>5, <3>1, <3>2 DEF Elements
  <2> QED BY <2>1, <2>2
<1>9. Elements(r) = Elements(s) \ {w}
  BY <1>8
<1> QED BY <1>1, <1>2, <1>6, <1>7, <1>9 DEF r, Without

\* The loop that collects the enabled watches comes to an end with some of the
\* watches, whatever the list.
LEMMA PolledFacts ==
  ASSUME NEW s \in Seq(Watches), NEW on
  PROVE  Polled(s, on) \in Seq(Watches)
<1> DEFINE After(f, i) == IF i = 0 THEN <<>>
                          ELSE IF on[s[i]] THEN Append(f[i - 1], s[i]) ELSE f[i - 1]
           Loop(n, f) == f = [i \in 0..n |-> After(f, i)]
           defined == {n \in Nat : \E f : Loop(n, f)}
<1>1. Len(s) \in Nat
  OBVIOUS
<1>2. 0 \in defined
  <2>1. Loop(0, [i \in 0..0 |-> <<>>])
    OBVIOUS
  <2> QED BY <2>1
<1>3. ASSUME NEW n \in 0..(Len(s) - 1), n \in defined PROVE n + 1 \in defined
  <2>1. PICK f : Loop(n, f)
    BY <1>3
  <2>2. PICK g : g = [i \in 0..(n + 1) |-> After(f, i)]
    OBVIOUS
  <2>3. \A i \in 0..n : f[i] = After(f, i) /\ g[i] = After(f, i)
    <3>1. \A i \in 0..n : f[i] = After(f, i)
      BY <2>1
    <3>2. \A i \in 0..n : g[i] = After(f, i)
      BY <2>2
    <3> QED BY <3>1, <3>2
  <2>4. \A i \in 0..(n + 1) : After(f, i) = After(g, i)
    <3>1. \A i \in 0..(n + 1) : i # 0 => i - 1 \in 0..n
      OBVIOUS
    <3>2. \A i \in 0..(n + 1) : i # 0 => f[i - 1] = g[i - 1]
      BY <2>3, <3>1
    <3> QED BY <3>2
  <2>5. g = [i \in 0..(n + 1) |-> After(g, i)]
    BY <2>2, <2>4
  <2>6. n + 1 \in Nat
    OBVIOUS
  <2> QED BY <2>5, <2>6
<1>4. PICK f : Loop(Len(s), f) /\ Polled(s, on) = f[Len(s)]
  <2>1. Len(s) \in defined
    <3> HIDE DEF defined
    <3>1. \A i \in 0..Len(s) : i \in defined
      BY <1>1, <1>2, <1>3, AlongTheList
    <3> QED BY <1>1, <3>1
  <2>2. PICK f : Loop(Len(s), f)
    BY <2>1
  <2> QED BY <2>2 DEF Polled
<1>5. \A i \in 0..Len(s) : f[i] = After(f, i)
  BY <1>4
<1> DEFINE typed == {i \in Nat : f[i] \in Seq(Watches)}
<1>6. 0 \in typed
  <2>1. 0 \in 0..Len(s)
    BY <1>1
  <2>2. f[0] = <<>>
    BY <1>5, <2>1
  <2>3. <<>> \in Seq(Watches)
    OBVIOUS
  <2> QED BY <2>2, <2>3
<1>7. ASSUME NEW i \in 0..(Len(s) - 1), i \in typed PROVE i + 1 \in typed
  <2>1. /\ i + 1 \in 0..Len(s) /\ i + 1 \in 1..Len(s) /\ i + 1 # 0 /\ (i + 1) - 1 = i
        /\ i + 1 \in Nat
    BY <1>1
  <2>2. f[i + 1] = IF on[s[i + 1]] THEN Append(f[i], s[i + 1]) ELSE f[i]
    BY <1>5, <2>1
  <2>3. f[i] \in Seq(Watches) /\ s[i + 1] \in Watches
    BY <1>7, <2>1
  <2>4. f[i + 1] \in Seq(Watches)
    BY <2>2, <2>3
  <2> QED BY <2>1, <2>4
<1>8. Len(s) \in typed
  <2> HIDE DEF typed
  <2>1. \A i \in 0..Len(s) : i \in typed
    BY <1>1, <1>6, <1>7, AlongTheList
  <2> QED BY <1>1, <2>1
<1> QED BY <1>4, <1>8

-----------------------------------------------------------------------------
(* The steps.                                                              *)

\* What the list has is what TypeOK says it has.
LEMMA InvTyped == WatchesInv => TypeOK
<1>1. ASSUME phase \in [Connections -> Phases], list \in Seq(Watches)
      PROVE  Elements(list) = UNION {Has(c) : c \in Connections}
               <=> \A c \in Connections :
                     /\ <<c, "write">> \in Elements(list) <=> phase[c] \notin {"none", "closed"}
                     /\ <<c, "read">> \in Elements(list) <=> phase[c] \in {"readPushed", "open"}
  <2>1. ASSUME NEW w \in Watches
        PROVE  w \in UNION {Has(c) : c \in Connections}
                 <=> IF Kind(w) = "write" THEN phase[Fd(w)] \notin {"none", "closed"}
                                          ELSE phase[Fd(w)] \in {"readPushed", "open"}
    <3>1. \A c \in Connections : w \in Has(c) => c = Fd(w)
      BY DEF Has, Fd
    <3>2. /\ Fd(w) \in Connections /\ Kind(w) \in {"write", "read"} /\ w = <<Fd(w), Kind(w)>>
          /\ phase[Fd(w)] \in Phases
      BY <1>1, WatchFacts DEF Kinds
    <3>3. w \in UNION {Has(c) : c \in Connections} <=> w \in Has(Fd(w))
      BY <3>1, <3>2
    <3>4. CASE Kind(w) = "write"
      BY <3>2, <3>3, <3>4 DEF Has, Phases
    <3>5. CASE Kind(w) = "read"
      BY <3>2, <3>3, <3>5 DEF Has, Phases
    <3> QED BY <3>2, <3>4, <3>5
  <2>2. UNION {Has(c) : c \in Connections} \subseteq Watches
    <3>1. ASSUME NEW c \in Connections PROVE Has(c) \subseteq Watches
      <4>1. <<c, "write">> \in Watches /\ <<c, "read">> \in Watches
        BY WatchFacts DEF Kinds
      <4> QED BY <4>1 DEF Has
    <3> QED BY <3>1
  <2>3. Elements(list) \subseteq Watches
    BY <1>1 DEF Elements
  <2>4. \A c \in Connections : /\ <<c, "write">> \in Watches /\ Fd(<<c, "write">>) = c
                               /\ <<c, "read">> \in Watches /\ Fd(<<c, "read">>) = c
                               /\ Kind(<<c, "write">>) = "write"
                               /\ Kind(<<c, "read">>) = "read"
    BY WatchFacts DEF Kinds
  <2>5. \A w \in Watches : \E c \in Connections : w = <<c, "write">> \/ w = <<c, "read">>
    BY WatchFacts DEF Kinds
  <2> DEFINE U == UNION {Has(c) : c \in Connections}
             E == Elements(list)
  <2>6. \A c \in Connections : /\ <<c, "write">> \in U <=> phase[c] \notin {"none", "closed"}
                               /\ <<c, "read">> \in U <=> phase[c] \in {"readPushed", "open"}
    BY <2>1, <2>4
  <2>7. E = U <=> \A w \in Watches : w \in E <=> w \in U
    BY <2>2, <2>3
  <2> HIDE DEF U, E
  <2>8. E = U <=> \A c \in Connections : /\ <<c, "write">> \in E <=> <<c, "write">> \in U
                                         /\ <<c, "read">> \in E <=> <<c, "read">> \in U
    BY <2>4, <2>5, <2>7
  <2>9. E = U <=> \A c \in Connections :
                     /\ <<c, "write">> \in E <=> phase[c] \notin {"none", "closed"}
                     /\ <<c, "read">> \in E <=> phase[c] \in {"readPushed", "open"}
    BY <2>6, <2>8
  <2> QED BY <2>9 DEF U, E
<1>2. TypeOK <=> /\ phase \in [Connections -> Phases]
                 /\ peer \in [Connections -> BOOLEAN]
                 /\ sending \in [Connections -> 0..MaxReceive]
                 /\ inbound \in [Connections -> 0..Capacity]
                 /\ toSend \in [Connections -> 0..MaxSend]
                 /\ queued \in [Connections -> 0..MaxSend]
                 /\ outbound \in [Connections -> 0..Capacity]
                 /\ list \in Seq(Watches)
                 /\ Distinct(list)
                 /\ Elements(list) = UNION {Has(c) : c \in Connections}
                 /\ enabled \in [Watches -> BOOLEAN]
                 /\ LoopTypes
                 /\ crashed \in BOOLEAN
  BY DEF TypeOK, Elements, Distinct, LoopTypes
<1> QED BY <1>1, <1>2 DEF WatchesInv, Types, Lists

\* What is kept when neither the list nor a phase changes.
Kept == UNCHANGED <<phase, list>>

LEMMA ListKept == ASSUME Lists(list, phase), Kept PROVE Lists(list', phase')
BY DEF Kept

\* A phase at which a connection has the same watches.
LEMMA SamePlaces ==
  ASSUME Lists(list, phase), NEW c \in Connections, NEW next \in Phases,
         phase \in [Connections -> Phases],
         phase[c] \notin {"none", "closed"}, next \notin {"none", "closed"},
         phase[c] \in {"readPushed", "open"} <=> next \in {"readPushed", "open"}
  PROVE  Lists(list, [phase EXCEPT ![c] = next])
BY DEF Lists

\* A watch that is pushed or removed changes what its connection has.
LEMMA PushPlaces ==
  ASSUME Lists(list, phase), phase \in [Connections -> Phases],
         NEW c \in Connections, NEW kind \in Kinds, NEW next \in Phases,
         \/ kind = "write" /\ phase[c] = "none" /\ next = "writePushed"
         \/ kind = "read" /\ phase[c] = "writeSet" /\ next = "readPushed"
  PROVE  Lists(Append(list, <<c, kind>>), [phase EXCEPT ![c] = next])
<1> DEFINE w == <<c, kind>>
<1>1. w \in Watches /\ Fd(w) = c /\ Kind(w) = kind
  BY WatchFacts
<1>2. /\ <<c, "write">> \in Elements(list) <=> phase[c] \notin {"none", "closed"}
      /\ <<c, "read">> \in Elements(list) <=> phase[c] \in {"readPushed", "open"}
      /\ list \in Seq(Watches) /\ Distinct(list) /\ WriteFirst(list)
  BY DEF Lists
<1>3. w \notin Elements(list) /\ (Kind(w) = "write" => <<Fd(w), "read">> \notin Elements(list))
  BY <1>1, <1>2
<1> HIDE DEF w
<1>4. /\ Append(list, w) \in Seq(Watches)
      /\ Distinct(Append(list, w)) /\ WriteFirst(Append(list, w))
      /\ Elements(Append(list, w)) = Elements(list) \cup {w}
  BY <1>1, <1>2, <1>3, PushFacts
<1>5. ASSUME NEW d \in Connections
      PROVE  /\ <<d, "write">> \in Elements(Append(list, w))
                  <=> [phase EXCEPT ![c] = next][d] \notin {"none", "closed"}
             /\ <<d, "read">> \in Elements(Append(list, w))
                  <=> [phase EXCEPT ![c] = next][d] \in {"readPushed", "open"}
  <2>1. /\ <<d, "write">> \in Elements(Append(list, w))
             <=> <<d, "write">> \in Elements(list) \/ (d = c /\ kind = "write")
        /\ <<d, "read">> \in Elements(Append(list, w))
             <=> <<d, "read">> \in Elements(list) \/ (d = c /\ kind = "read")
    BY <1>4 DEF w
  <2>2. /\ <<d, "write">> \in Elements(list) <=> phase[d] \notin {"none", "closed"}
        /\ <<d, "read">> \in Elements(list) <=> phase[d] \in {"readPushed", "open"}
    BY DEF Lists
  <2>3. [phase EXCEPT ![c] = next][d] = IF d = c THEN next ELSE phase[d]
    OBVIOUS
  <2> QED BY <2>1, <2>2, <2>3
<1> QED BY <1>4, <1>5 DEF Lists, w

\* What the list has without a watch of a connection.
RemovedOne(s, t, c, kind) ==
  /\ t \in Seq(Watches) /\ Distinct(t) /\ WriteFirst(t)
  /\ \A d \in Connections :
       /\ <<d, "write">> \in Elements(t)
            <=> <<d, "write">> \in Elements(s) /\ (d # c \/ kind # "write")
       /\ <<d, "read">> \in Elements(t)
            <=> <<d, "read">> \in Elements(s) /\ (d # c \/ kind # "read")

LEMMA RemovePlaces ==
  ASSUME NEW s \in Seq(Watches), Distinct(s), WriteFirst(s),
         NEW c \in Connections, NEW kind \in Kinds, <<c, kind>> \in Elements(s)
  PROVE  RemovedOne(s, Without(s, <<c, kind>>), c, kind)
<1> DEFINE w == <<c, kind>>
           t == Without(s, w)
<1>1. /\ t \in Seq(Watches) /\ Distinct(t) /\ WriteFirst(t)
      /\ Elements(t) = Elements(s) \ {w}
  BY RemoveFacts
<1> HIDE DEF t
<1>2. ASSUME NEW d \in Connections
      PROVE  /\ <<d, "write">> \in Elements(t)
                  <=> <<d, "write">> \in Elements(s) /\ (d # c \/ kind # "write")
             /\ <<d, "read">> \in Elements(t)
                  <=> <<d, "read">> \in Elements(s) /\ (d # c \/ kind # "read")
  BY <1>1
<1>3. RemovedOne(s, t, c, kind)
  BY <1>1, <1>2 DEF RemovedOne
<1> QED BY <1>3 DEF t

\* The first watch of a descriptor is one of those that are enabled.
LEMMA FirstFacts ==
  ASSUME list \in Seq(Watches), Matching # {}
  PROVE  /\ First \in Matching /\ First \in 1..Len(list)
         /\ list[First] \in Watches /\ list[First] \in Elements(list)
<1>1. Matching \in SUBSET Nat /\ Matching \subseteq 1..Len(list)
  BY DEF Matching
<1>2. \E i \in Matching : \A k \in Matching : i <= k
  BY <1>1, LeastElement
<1>3. First \in Matching
  BY <1>2 DEF First
<1> QED BY <1>1, <1>3 DEF Elements

\* What libdbus writes is no more than waits and no more than fits.
LEMMA WriteTypes ==
  ASSUME Types, NEW c \in Connections, NEW n \in 0..MaxSend, Write(c, n)
  PROVE  /\ queued' \in [Connections -> 0..MaxSend]
         /\ \A d \in Connections : queued'[d] <= IF d = c THEN n ELSE queued[d]
         /\ outbound' \in [Connections -> 0..Capacity]
         /\ enabled' \in [Watches -> BOOLEAN]
<1>1. PICK room : room = IF peer[c] THEN Capacity - outbound[c] ELSE 0
  OBVIOUS
<1>2. PICK written : written = IF n < room THEN n ELSE room
  OBVIOUS
<1>3. outbound[c] \in 0..Capacity /\ room \in 0..Capacity /\ written \in 0..n
      /\ outbound[c] + written \in 0..Capacity /\ n - written \in 0..n
  <2>1. outbound[c] \in 0..Capacity
    BY DEF Types
  <2> QED BY <1>1, <1>2, <2>1
<1>4. /\ queued' = [queued EXCEPT ![c] = n - written]
      /\ outbound' = [outbound EXCEPT ![c] = @ + written]
      /\ enabled' = [enabled EXCEPT ![<<c, "write">>] = (n > written)]
  BY <1>1, <1>2 DEF Write, Toggle
<1>5. \A d \in Connections : queued'[d] = IF d = c THEN n - written ELSE queued[d]
  BY <1>4 DEF Types
<1>6. queued' \in [Connections -> 0..MaxSend]
  BY <1>3, <1>4 DEF Types
<1>7. \A d \in Connections : queued'[d] <= IF d = c THEN n ELSE queued[d]
  BY <1>3, <1>5 DEF Types
<1>8. outbound' \in [Connections -> 0..Capacity]
  BY <1>3, <1>4 DEF Types
<1>9. enabled' \in [Watches -> BOOLEAN]
  <2>1. CASE n > written
    <3>1. enabled' = [enabled EXCEPT ![<<c, "write">>] = TRUE]
      BY <1>4, <2>1
    <3> QED BY <3>1 DEF Types
  <2>2. CASE ~(n > written)
    <3>0. (n > written) = FALSE
      BY <1>3, <2>2
    <3>1. enabled' = [enabled EXCEPT ![<<c, "write">>] = FALSE]
      BY <1>4, <3>0, Zenon
    <3> QED BY <3>1 DEF Types
  <2> QED BY <2>1, <2>2
<1> QED BY <1>6, <1>7, <1>8, <1>9

\* A closed connection has no messages.
LEMMA CloseTypes ==
  ASSUME Types, NEW c \in Connections, Close(c) PROVE Types'
<1>1. phase' \in [Connections -> Phases]
  BY DEF Types, Close, Phases
<1>2. /\ sending' \in [Connections -> 0..MaxReceive] /\ inbound' \in [Connections -> 0..Capacity]
      /\ toSend' \in [Connections -> 0..MaxSend] /\ queued' \in [Connections -> 0..MaxSend]
      /\ outbound' \in [Connections -> 0..Capacity] /\ peer' \in [Connections -> BOOLEAN]
  BY DEF Types, Close
<1>3. enabled' \in [Watches -> BOOLEAN]
  BY DEF Types, Close
<1>4. QueuedInv'
  BY DEF Types, Close, QueuedInv
<1> QED BY <1>1, <1>2, <1>3, <1>4 DEF Types

\* The steps of the sockets, of the peers and of the program.
LEMMA SocketSteps ==
  ASSUME WatchesInv, NEW c \in Connections,
         PeerSends(c) \/ PeerReads(c) \/ PeerCloses(c) \/ Send(c)
  PROVE  WatchesInv'
<1>1. Types /\ LoopTypes /\ Lists(list, phase) /\ crashed \in BOOLEAN
  BY DEF WatchesInv
<1>2. /\ Kept /\ LoopTypes' /\ crashed' \in BOOLEAN
  BY <1>1 DEF PeerSends, PeerReads, PeerCloses, Send, Kept, LoopTypes, loopVars
<1>3. Lists(list', phase')
  BY <1>1, <1>2, ListKept
<1>4. CASE PeerSends(c)
  <2>1. Types'
    BY <1>1, <1>4 DEF PeerSends, Types, QueuedInv
  <2> QED BY <1>2, <1>3, <2>1 DEF WatchesInv
<1>5. CASE PeerReads(c)
  <2>1. Types'
    BY <1>1, <1>5 DEF PeerReads, Types, QueuedInv
  <2> QED BY <1>2, <1>3, <2>1 DEF WatchesInv
<1>6. CASE PeerCloses(c)
  <2>1. Types'
    BY <1>1, <1>6 DEF PeerCloses, Types, QueuedInv
  <2> QED BY <1>2, <1>3, <2>1 DEF WatchesInv
<1>7. CASE Send(c)
  <2>1. /\ toSend[c] > 0 /\ toSend' = [toSend EXCEPT ![c] = @ - 1]
        /\ Write(c, queued[c] + 1)
        /\ UNCHANGED <<phase, peer, sending, inbound>>
    BY <1>7 DEF Send
  <2>2. queued[c] + 1 \in 0..MaxSend
    BY <1>1, <2>1 DEF Types, QueuedInv
  <2>3. /\ queued' \in [Connections -> 0..MaxSend]
        /\ \A d \in Connections : queued'[d] <= IF d = c THEN queued[c] + 1 ELSE queued[d]
        /\ outbound' \in [Connections -> 0..Capacity]
        /\ enabled' \in [Watches -> BOOLEAN]
    BY <1>1, <2>1, <2>2, WriteTypes
  <2>4. QueuedInv'
    <3> SUFFICES ASSUME NEW d \in Connections PROVE queued'[d] + toSend'[d] <= MaxSend
      BY DEF QueuedInv
    <3>1. /\ queued[d] + toSend[d] <= MaxSend /\ queued[d] \in Nat /\ toSend[d] \in Nat
          /\ queued'[d] \in Nat /\ queued[c] \in Nat /\ toSend[c] \in Nat
      BY <1>1, <2>3 DEF Types, QueuedInv
    <3>2. toSend'[d] = IF d = c THEN toSend[c] - 1 ELSE toSend[d]
      BY <1>1, <2>1 DEF Types
    <3>3. queued'[d] <= IF d = c THEN queued[c] + 1 ELSE queued[d]
      BY <2>3
    <3> QED BY <2>1, <3>1, <3>2, <3>3
  <2>5. toSend' \in [Connections -> 0..MaxSend]
    BY <1>1, <2>1 DEF Types
  <2>6. Types'
    BY <1>1, <2>1, <2>3, <2>4, <2>5 DEF Types
  <2> QED BY <1>2, <1>3, <2>6 DEF WatchesInv
<1> QED BY <1>4, <1>5, <1>6, <1>7

\* The steps of a thread that opens a connection or closes it.
LEMMA OpenStep ==
  ASSUME WatchesInv, NEW c \in Connections, Open(c) PROVE WatchesInv'
<1>1. Types /\ LoopTypes /\ Lists(list, phase) /\ crashed \in BOOLEAN
      /\ phase \in [Connections -> Phases]
  BY DEF WatchesInv, Types
<1>2. ASSUME NEW kind \in Kinds, NEW before \in Phases, NEW after \in Phases,
             PushWatch(c, kind, before, after),
             \/ kind = "write" /\ before = "none" /\ after = "writePushed"
             \/ kind = "read" /\ before = "writeSet" /\ after = "readPushed"
      PROVE  WatchesInv'
  <2>1. /\ phase[c] = before /\ phase' = [phase EXCEPT ![c] = after]
        /\ list' = Append(list, <<c, kind>>)
        /\ enabled' = [enabled EXCEPT ![<<c, kind>>] = TRUE]
        /\ UNCHANGED <<socketVars, loopVars>>
    BY <1>2 DEF PushWatch, Push
  <2>2. Lists(list', phase')
    BY <1>1, <1>2, <2>1, PushPlaces
  <2>3. Types'
    <3>1. enabled' \in [Watches -> BOOLEAN] /\ phase' \in [Connections -> Phases]
      BY <1>1, <2>1 DEF Types
    <3> QED BY <1>1, <2>1, <3>1 DEF Types, QueuedInv, socketVars
  <2>4. LoopTypes' /\ crashed' \in BOOLEAN
    BY <1>1, <2>1 DEF LoopTypes, loopVars
  <2> QED BY <2>2, <2>3, <2>4 DEF WatchesInv
<1>3. ASSUME NEW kind \in Kinds, NEW before \in Phases, NEW after \in Phases,
             SetWatch(c, kind, before, after),
             \/ kind = "write" /\ before = "writePushed" /\ after = "writeSet"
             \/ kind = "read" /\ before = "readPushed" /\ after = "open"
      PROVE  WatchesInv'
  <2>1. /\ phase[c] = before /\ phase' = [phase EXCEPT ![c] = after]
        /\ list' = list
        /\ enabled' = [enabled EXCEPT ![<<c, kind>>] = (kind = "read")]
        /\ UNCHANGED <<socketVars, loopVars>>
    BY <1>3 DEF SetWatch
  <2>2. Lists(list, [phase EXCEPT ![c] = after])
    BY <1>1, <1>3, <2>1, SamePlaces
  <2>3. Types'
    <3>1. enabled' \in [Watches -> BOOLEAN] /\ phase' \in [Connections -> Phases]
      BY <1>1, <2>1 DEF Types
    <3> QED BY <1>1, <2>1, <3>1 DEF Types, QueuedInv, socketVars
  <2>4. LoopTypes' /\ crashed' \in BOOLEAN
    BY <1>1, <2>1 DEF LoopTypes, loopVars
  <2> QED BY <2>1, <2>2, <2>3, <2>4 DEF WatchesInv
<1>4. {"none", "writePushed", "writeSet", "readPushed", "open"} \subseteq Phases
      /\ "read" \in Kinds /\ "write" \in Kinds
  BY DEF Phases, Kinds
<1> QED BY <1>2, <1>3, <1>4 DEF Open

\* What is left when the watches of a connection have been removed one by one.
LEMMA DisconnectStep ==
  ASSUME WatchesInv, NEW c \in Connections, Disconnect(c) PROVE WatchesInv'
<1>1. /\ Types /\ LoopTypes /\ Lists(list, phase) /\ crashed \in BOOLEAN
      /\ phase \in [Connections -> Phases]
      /\ list \in Seq(Watches) /\ Distinct(list) /\ WriteFirst(list)
      /\ "write" \in Kinds /\ "read" \in Kinds
  BY DEF WatchesInv, Types, Lists, Kinds
<1>2. LoopTypes' /\ crashed' \in BOOLEAN
  BY <1>1 DEF Disconnect, loopVars, LoopTypes
<1>3. ASSUME phase[c] = "open", phase' = [phase EXCEPT ![c] = "readRemoved"],
             list' = Without(list, <<c, "read">>), UNCHANGED <<socketVars, enabled>>
      PROVE  Types' /\ Lists(list', phase')
  <2>1. <<c, "read">> \in Elements(list)
    BY <1>1, <1>3 DEF Lists
  <2>2. RemovedOne(list, list', c, "read")
    BY <1>1, <1>3, <2>1, RemovePlaces
  <2>3. Lists(list', phase')
    BY <1>1, <1>3, <2>2 DEF RemovedOne, Lists
  <2>4. Types'
    BY <1>1, <1>3 DEF Types, QueuedInv, socketVars, Phases
  <2> QED BY <2>3, <2>4
<1>4. ASSUME phase[c] = "readRemoved", list' = Without(list, <<c, "write">>), Close(c)
      PROVE  Types' /\ Lists(list', phase')
  <2>1. <<c, "write">> \in Elements(list)
    BY <1>1, <1>4 DEF Lists
  <2>2. RemovedOne(list, list', c, "write")
    BY <1>1, <1>4, <2>1, RemovePlaces
  <2>3. phase' = [phase EXCEPT ![c] = "closed"]
    BY <1>4 DEF Close
  <2>4. Lists(list', phase')
    BY <1>1, <1>4, <2>2, <2>3 DEF RemovedOne, Lists
  <2> QED BY <1>1, <1>4, <2>4, CloseTypes
<1> QED BY <1>2, <1>3, <1>4 DEF Disconnect, WatchesInv

\* Filling the array, polling and unlocking change nothing else.
LEMMA ArraySteps ==
  ASSUME WatchesInv, FillArray \/ PollReturns \/ Unlock PROVE WatchesInv'
<1>1. /\ Types /\ LoopTypes /\ Lists(list, phase) /\ crashed \in BOOLEAN
      /\ list \in Seq(Watches)
  BY DEF WatchesInv, Lists
<1>2. Types' /\ Lists(list', phase') /\ crashed' \in BOOLEAN
  <2>1. UNCHANGED <<phase, socketVars, list, enabled, crashed>>
    BY DEF FillArray, PollReturns, Unlock
  <2> QED BY <1>1, <2>1 DEF Types, QueuedInv, socketVars, Lists
<1> DEFINE Entries == [watch : Watches, events : SUBSET Kinds,
                       revents : SUBSET (Kinds \cup {"hangup"})]
<1>3. CASE FillArray
  <2>1. PICK polled \in Seq(Watches) :
          fds' = [i \in 1..Len(polled) |->
                    [watch |-> polled[i], events |-> Events(polled[i]), revents |-> {}]]
    BY <1>1, <1>3, PolledFacts DEF FillArray
  <2>2. Len(polled) \in Nat
    OBVIOUS
  <2>3. ASSUME NEW i \in 1..Len(polled)
        PROVE  [watch |-> polled[i], events |-> Events(polled[i]), revents |-> {}] \in Entries
    <3>1. polled[i] \in Watches
      OBVIOUS
    <3>2. Events(polled[i]) \in SUBSET Kinds
      BY <3>1, WatchFacts DEF Events
    <3> QED BY <3>1, <3>2
  <2> HIDE DEF Entries
  <2>4. fds' \in Seq(Entries)
    BY <2>1, <2>2, <2>3
  <2>5. LoopTypes'
    BY <1>1, <1>3, <2>4 DEF FillArray, LoopTypes, Entries
  <2> QED BY <1>2, <2>5 DEF WatchesInv
<1>4. CASE PollReturns
  <2>1. /\ fds \in Seq(Entries) /\ Len(fds) \in Nat
        /\ fds' = [i \in 1..Len(fds) |-> [fds[i] EXCEPT !.revents = Revents(fds[i])]]
    BY <1>1, <1>4 DEF PollReturns, LoopTypes
  <2>2. ASSUME NEW i \in 1..Len(fds)
        PROVE  [fds[i] EXCEPT !.revents = Revents(fds[i])] \in Entries
    <3>1. fds[i] \in Entries
      <4> HIDE DEF Entries
      <4> QED BY <2>1
    <3>2. Revents(fds[i]) \in SUBSET (Kinds \cup {"hangup"})
      BY <3>1 DEF Revents, Conditions
    <3> QED BY <3>1, <3>2
  <2> HIDE DEF Entries
  <2>3. fds' \in Seq(Entries)
    BY <2>1, <2>2
  <2>4. LoopTypes'
    BY <1>1, <1>4, <2>3 DEF PollReturns, LoopTypes, Entries
  <2> QED BY <1>2, <2>4 DEF WatchesInv
<1>5. CASE Unlock
  <2>1. LoopTypes'
    BY <1>5 DEF Unlock, LoopTypes
  <2> QED BY <1>2, <2>1 DEF WatchesInv
<1> QED BY <1>3, <1>4, <1>5

\* libdbus removes both watches of a connection in a handler.  If it is that of
\* the watch for reading, the saved iterator stands on neither: what follows
\* belongs to another connection.
LEMMA HangUpStep ==
  ASSUME WatchesInv, NEW i \in 1..Len(list), NEW c \in Connections,
         <<c, "read">> \in Elements(list), HangUp(c, i)
  PROVE  /\ Types' /\ Lists(list', phase') /\ crashed' \in BOOLEAN
         /\ list[i] = <<c, "read">> => crashed' = FALSE
<1>1. /\ Types /\ Lists(list, phase)
      /\ phase \in [Connections -> Phases]
      /\ list \in Seq(Watches) /\ Distinct(list) /\ WriteFirst(list)
      /\ "write" \in Kinds /\ "read" \in Kinds
  BY DEF WatchesInv, Types, Lists, Kinds
<1>2. PICK half : half = Without(list, <<c, "read">>)
  OBVIOUS
<1>3. /\ list' = Without(half, <<c, "write">>) /\ Close(c)
      /\ crashed' = (i < Len(list) /\ Fd(list[i + 1]) = c)
  BY <1>2 DEF HangUp
<1>4. <<c, "write">> \in Elements(list)
  BY <1>1 DEF Lists
<1>5. RemovedOne(list, half, c, "read")
  BY <1>1, <1>2, RemovePlaces
<1>6. RemovedOne(half, list', c, "write")
  <2>1. <<c, "write">> \in Elements(half)
    BY <1>4, <1>5 DEF RemovedOne
  <2>2. half \in Seq(Watches) /\ Distinct(half) /\ WriteFirst(half)
    BY <1>5 DEF RemovedOne
  <2> QED BY <1>1, <1>3, <2>1, <2>2, RemovePlaces
<1>7. phase' = [phase EXCEPT ![c] = "closed"]
  BY <1>3 DEF Close
<1>8. Lists(list', phase')
  BY <1>1, <1>5, <1>6, <1>7 DEF RemovedOne, Lists
<1>9. list[i] = <<c, "read">> => ~(i < Len(list) /\ Fd(list[i + 1]) = c)
  <2> SUFFICES ASSUME list[i] = <<c, "read">>, i < Len(list), Fd(list[i + 1]) = c
               PROVE  FALSE
    OBVIOUS
  <2>1. i + 1 \in 1..Len(list) /\ i + 1 # i /\ ~(i + 1 < i)
    BY <1>1
  <2>2. list[i + 1] # <<c, "read">>
    BY <1>1, <2>1 DEF Distinct
  <2>3. list[i + 1] = <<c, "write">> /\ Kind(list[i + 1]) = "write"
    BY <1>1, <2>1, <2>2, WatchFacts DEF Kinds
  <2>4. Fd(list[i]) = c /\ Kind(list[i]) = "read"
    BY <1>1, WatchFacts
  <2> QED BY <1>1, <2>1, <2>3, <2>4 DEF WriteFirst
<1> QED BY <1>1, <1>3, <1>8, <1>9, CloseTypes

\* The handler of a watch for reading never makes the saved iterator invalid.
LEMMA ReadStep ==
  ASSUME WatchesInv, NEW i \in 1..Len(list), Kind(list[i]) = "read",
         Complete(list[i]), HandleRead(Fd(list[i]), i)
  PROVE  /\ Types' /\ Lists(list', phase') /\ crashed' \in BOOLEAN
         /\ crashed' => crashed
<1>1. /\ Types /\ Lists(list, phase) /\ crashed \in BOOLEAN
      /\ phase \in [Connections -> Phases]
      /\ list \in Seq(Watches) /\ Distinct(list) /\ WriteFirst(list)
      /\ "write" \in Kinds /\ "read" \in Kinds
  BY DEF WatchesInv, Types, Lists, Kinds
<1>2. PICK c \in Connections : c = Fd(list[i]) /\ list[i] = <<c, "read">>
  BY <1>1, WatchFacts
<1>3. HandleRead(c, i)
  BY <1>2
<1>4. CASE inbound[c] > 0
  <2>1. /\ \E n \in 1..inbound[c] : inbound' = [inbound EXCEPT ![c] = @ - n]
        /\ UNCHANGED <<phase, peer, sending, toSend, queued, outbound, list, enabled, crashed>>
    BY <1>3, <1>4 DEF HandleRead
  <2>2. Types'
    <3>1. inbound' \in [Connections -> 0..Capacity]
      BY <1>1, <2>1 DEF Types
    <3> QED BY <1>1, <2>1, <3>1 DEF Types, QueuedInv
  <2> QED BY <1>1, <2>1, <2>2
<1>5. CASE ~(inbound[c] > 0) /\ peer[c]
  <2>1. UNCHANGED <<phase, socketVars, list, enabled, crashed>>
    BY <1>3, <1>5 DEF HandleRead
  <2> QED BY <1>1, <2>1 DEF Types, QueuedInv, socketVars
<1>6. CASE ~(inbound[c] > 0) /\ ~peer[c]
  <2>1. HangUp(c, i)
    BY <1>3, <1>6 DEF HandleRead
  <2>2. <<c, "read">> \in Elements(list)
    BY <1>2 DEF Elements
  <2> QED BY <1>2, <2>1, <2>2, HangUpStep
<1> QED BY <1>4, <1>5, <1>6

LEMMA ServeStep == ASSUME WatchesInv, ServeEntry PROVE WatchesInv'
<1>1. /\ Types /\ LoopTypes /\ Lists(list, phase) /\ crashed \in BOOLEAN
      /\ list \in Seq(Watches)
  BY DEF WatchesInv, Lists
<1>2. LoopTypes'
  BY <1>1 DEF ServeEntry, LoopTypes
<1>3. ASSUME UNCHANGED <<phase, socketVars, list, enabled, crashed>>
      PROVE  Types' /\ Lists(list', phase') /\ crashed' \in BOOLEAN
  BY <1>1, <1>3 DEF Types, QueuedInv, socketVars
<1>4. ASSUME Matching # {}, Complete(list[First]), Kind(list[First]) = "read",
             HandleRead(Fd(list[First]), First)
      PROVE  Types' /\ Lists(list', phase') /\ crashed' \in BOOLEAN
  BY <1>1, <1>4, FirstFacts, ReadStep
<1>5. ASSUME Matching # {}, HandleWrite(Fd(list[First]), First)
      PROVE  Types' /\ Lists(list', phase') /\ crashed' \in BOOLEAN
  <2>1. PICK c \in Connections : c = Fd(list[First])
    BY <1>1, <1>5, FirstFacts, WatchFacts
  <2> DEFINE Stays == UNCHANGED <<phase, peer, sending, inbound, toSend, list, crashed>>
  <2>a. CASE phase[c] = "open" /\ HangUp(c, First)
    <3>1. <<c, "read">> \in Elements(list)
      BY <1>1, <2>a DEF Lists
    <3> QED BY <1>1, <1>5, <2>a, <3>1, FirstFacts, HangUpStep
  <2>b. SUFFICES ASSUME Write(c, queued[c]), Stays
                 PROVE  Types' /\ Lists(list', phase') /\ crashed' \in BOOLEAN
    BY <1>5, <2>1, <2>a DEF HandleWrite
  <2>2. /\ Write(c, queued[c])
        /\ UNCHANGED <<phase, peer, sending, inbound, toSend, list, crashed>>
    BY <2>b
  <2>3. queued[c] \in 0..MaxSend
    BY <1>1 DEF Types
  <2>4. /\ queued' \in [Connections -> 0..MaxSend]
        /\ \A d \in Connections : queued'[d] <= IF d = c THEN queued[c] ELSE queued[d]
        /\ outbound' \in [Connections -> 0..Capacity]
        /\ enabled' \in [Watches -> BOOLEAN]
    BY <1>1, <2>2, <2>3, WriteTypes
  <2>5. QueuedInv'
    <3> SUFFICES ASSUME NEW d \in Connections PROVE queued'[d] + toSend'[d] <= MaxSend
      BY DEF QueuedInv
    <3>1. /\ queued[d] + toSend[d] <= MaxSend /\ queued[d] \in Nat /\ toSend[d] \in Nat
          /\ queued'[d] \in Nat /\ toSend'[d] = toSend[d]
      BY <1>1, <2>2, <2>4 DEF Types, QueuedInv
    <3>2. queued'[d] <= queued[d]
      BY <2>4
    <3> QED BY <3>1, <3>2
  <2>6. Types'
    BY <1>1, <2>2, <2>4, <2>5 DEF Types
  <2> QED BY <1>1, <2>2, <2>6
<1>6. Types' /\ Lists(list', phase') /\ crashed' \in BOOLEAN
  BY <1>3, <1>4, <1>5 DEF ServeEntry, NothingToServe
<1> QED BY <1>2, <1>6 DEF WatchesInv

\* libdbus toggles the watch for writing with what is left to be written; no
\* other step enables a watch whose flags are set.
LEMMA WaitingStep ==
  ASSUME WatchesInv, WaitingInv, [Next]_vars PROVE WaitingInv'
<1>1. /\ Types /\ Lists(list, phase) /\ list \in Seq(Watches)
      /\ phase \in [Connections -> Phases] /\ enabled \in [Watches -> BOOLEAN]
      /\ queued \in [Connections -> 0..MaxSend] /\ outbound \in [Connections -> 0..Capacity]
  BY DEF WatchesInv, Types, Lists
<1>2. ASSUME UNCHANGED <<phase, queued, enabled>> PROVE WaitingInv'
  BY <1>2 DEF WaitingInv
<1>3. ASSUME NEW c \in Connections, NEW n \in 0..MaxSend, Write(c, n), UNCHANGED phase
      PROVE  WaitingInv'
  <2>1. PICK written : /\ written = LET room == IF peer[c] THEN Capacity - outbound[c] ELSE 0
                                    IN  IF n < room THEN n ELSE room
                       /\ queued' = [queued EXCEPT ![c] = n - written]
                       /\ enabled' = [enabled EXCEPT ![<<c, "write">>] = (n > written)]
    BY <1>3 DEF Write, Toggle
  <2>2. written \in Nat
    BY <1>1, <2>1
  <2> SUFFICES ASSUME NEW d \in Connections, phase[d] \notin {"none", "writePushed"},
                      enabled'[<<d, "write">>]
               PROVE  queued'[d] > 0
    BY <1>3 DEF WaitingInv
  <2>3. <<d, "write">> \in Watches /\ (d # c => <<d, "write">> # <<c, "write">>)
    BY WatchFacts DEF Kinds
  <2>4. CASE d = c
    <3>1. enabled'[<<c, "write">>] = (n > written)
      BY <1>1, <2>1, <2>3, <2>4, Zenon
    <3>2. n > written
      BY <2>4, <3>1
    <3> QED BY <1>1, <2>1, <2>2, <2>4, <3>2
  <2>5. CASE d # c
    BY <1>1, <2>1, <2>3, <2>5 DEF WaitingInv
  <2> QED BY <2>4, <2>5
<1>4. ASSUME NEW c \in Connections, Close(c) PROVE WaitingInv'
  <2> SUFFICES ASSUME NEW d \in Connections, phase'[d] \notin {"none", "writePushed"},
                      enabled'[<<d, "write">>]
               PROVE  queued'[d] > 0
    BY DEF WaitingInv
  <2>1. <<d, "write">> \in Watches /\ <<c, "write">> \in Watches
    BY WatchFacts DEF Kinds
  <2>2. d # c
    BY <1>1, <1>4, <2>1 DEF Close
  <2> QED BY <1>1, <1>4, <2>1, <2>2 DEF Close, WaitingInv
<1>5. ASSUME NEW c \in Connections, Open(c) PROVE WaitingInv'
  <2> SUFFICES ASSUME NEW d \in Connections, phase'[d] \notin {"none", "writePushed"},
                      enabled'[<<d, "write">>]
               PROVE  queued'[d] > 0
    BY DEF WaitingInv
  <2>1. <<d, "write">> \in Watches /\ <<c, "write">> \in Watches /\ <<c, "read">> \in Watches
    BY WatchFacts DEF Kinds
  <2>2. CASE PushWatch(c, "write", "none", "writePushed")
    BY <1>1, <2>1, <2>2 DEF PushWatch, WaitingInv, socketVars
  <2>3. CASE SetWatch(c, "write", "writePushed", "writeSet")
    BY <1>1, <2>1, <2>3 DEF SetWatch, WaitingInv, socketVars
  <2>4. CASE PushWatch(c, "read", "writeSet", "readPushed")
    BY <1>1, <2>1, <2>4 DEF PushWatch, WaitingInv, socketVars
  <2>5. CASE SetWatch(c, "read", "readPushed", "open")
    BY <1>1, <2>1, <2>5 DEF SetWatch, WaitingInv, socketVars
  <2> QED BY <1>5, <2>2, <2>3, <2>4, <2>5 DEF Open
<1>6. ASSUME NEW c \in Connections, Disconnect(c) PROVE WaitingInv'
  <2>1. CASE Close(c)
    BY <1>4, <2>1
  <2>2. CASE /\ phase[c] = "open" /\ phase' = [phase EXCEPT ![c] = "readRemoved"]
             /\ UNCHANGED <<socketVars, enabled>>
    BY <1>1, <2>2 DEF WaitingInv, socketVars
  <2> QED BY <1>6, <2>1, <2>2 DEF Disconnect
<1>7. ASSUME NEW c \in Connections, Send(c) PROVE WaitingInv'
  <2>1. Write(c, queued[c] + 1) /\ UNCHANGED phase /\ toSend[c] > 0
    BY <1>7 DEF Send
  <2>2. queued[c] + 1 \in 0..MaxSend
    BY <1>1, <2>1 DEF Types, QueuedInv
  <2> QED BY <1>3, <2>1, <2>2
<1>8. ASSUME ServeEntry PROVE WaitingInv'
  <2>1. CASE UNCHANGED <<phase, socketVars, list, enabled, crashed>>
    BY <1>2, <2>1 DEF socketVars
  <2>2. ASSUME NEW c \in Connections, HandleRead(c, First) PROVE WaitingInv'
    <3>1. Close(c) \/ UNCHANGED <<phase, queued, enabled>>
      BY <2>2 DEF HandleRead, HangUp, socketVars
    <3> QED BY <1>2, <1>4, <3>1
  <2>3. ASSUME NEW c \in Connections, HandleWrite(c, First) PROVE WaitingInv'
    <3>1. Close(c) \/ (Write(c, queued[c]) /\ UNCHANGED phase)
      BY <2>3 DEF HandleWrite, HangUp
    <3>2. queued[c] \in 0..MaxSend
      BY <1>1
    <3> QED BY <1>3, <1>4, <3>1, <3>2
  <2>4. Matching # {} => Fd(list[First]) \in Connections
    BY <1>1, FirstFacts, WatchFacts
  <2> QED BY <1>8, <2>1, <2>2, <2>3, <2>4 DEF ServeEntry, NothingToServe
<1>9. CASE UNCHANGED vars \/ FillArray \/ PollReturns \/ Unlock \/ Crashed
  BY <1>2, <1>9 DEF vars, socketVars, FillArray, PollReturns, Unlock, Crashed
<1>10. ASSUME NEW c \in Connections, PeerSends(c) \/ PeerReads(c) \/ PeerCloses(c)
       PROVE  WaitingInv'
  BY <1>2, <1>10 DEF PeerSends, PeerReads, PeerCloses
<1> QED BY <1>5, <1>6, <1>7, <1>8, <1>9, <1>10 DEF Next, LoopStep

-----------------------------------------------------------------------------
(* Theorems.                                                               *)

\* What every step of the watches keeps: the list has the watches of each
\* connection, once, that for writing before that for reading.
THEOREM WatchesCorrect == Spec => []WatchesInv
<1>1. Init => WatchesInv
  <2> SUFFICES ASSUME Init PROVE WatchesInv
    OBVIOUS
  <2>1. Types
    BY DEF Init, Types, QueuedInv, Phases
  <2>2. LoopTypes
    BY DEF Init, LoopTypes
  <2>3. Lists(list, phase)
    BY DEF Init, Lists, Distinct, WriteFirst, Elements
  <2> QED BY <2>1, <2>2, <2>3 DEF Init, WatchesInv
<1>2. WatchesInv /\ [Next]_vars => WatchesInv'
  <2> SUFFICES ASSUME WatchesInv, [Next]_vars PROVE WatchesInv'
    OBVIOUS
  <2>1. CASE UNCHANGED vars
    BY <2>1 DEF vars, socketVars, loopVars, WatchesInv, Types, QueuedInv, LoopTypes, Lists
  <2>2. CASE LoopStep
    BY <2>2, ArraySteps, ServeStep DEF LoopStep
  <2>3. CASE PollReturns
    BY <2>3, ArraySteps
  <2>5. CASE Crashed
    BY <2>5 DEF Crashed, vars, socketVars, loopVars, WatchesInv, Types, QueuedInv, LoopTypes, Lists
  <2>4. ASSUME NEW c \in Connections,
               \/ Open(c) \/ Disconnect(c) \/ Send(c)
               \/ PeerSends(c) \/ PeerReads(c) \/ PeerCloses(c)
        PROVE  WatchesInv'
    BY <2>4, OpenStep, DisconnectStep, SocketSteps
  <2> QED BY <2>1, <2>2, <2>3, <2>4, <2>5 DEF Next
<1> QED BY <1>1, <1>2, PTL DEF Spec

\* The types, and that the list has exactly the watches that exist.
THEOREM TypeCorrect == Spec => []TypeOK
BY WatchesCorrect, InvTyped, PTL

\* What the saved iterator needs beside the order of the list: messages wait
\* for a connection whose watch for writing is served.
LEMMA WaitingCorrect == Spec => []WaitingInv
<1>1. Init => WaitingInv
  BY DEF Init, WaitingInv
<1>2. WatchesInv /\ WaitingInv /\ [Next]_vars => WaitingInv'
  BY WaitingStep
<1> QED BY <1>1, <1>2, WatchesCorrect, PTL DEF Spec

\* dispatch() never follows an iterator to a watch that a handler has removed,
\* whatever connections are opened, used and closed by either side meanwhile,
\* with one exception: the handler of the watch for writing of a connection for
\* whose vanished peer messages wait.
THEOREM SavedIteratorStays == Spec => SavedIteratorValid
<1>1. ASSUME WatchesInv, WaitingInv, [Next]_vars
      PROVE  [~crashed /\ crashed' =>
                LET w == list[First] IN Kind(w) = "write" /\ Stuck(Fd(w))]_vars
  <2> SUFFICES ASSUME ~crashed, crashed'
               PROVE  Kind(list[First]) = "write" /\ Stuck(Fd(list[First]))
    OBVIOUS
  <2>1. crashed' # crashed
    OBVIOUS
  <2>2. ServeEntry
    <3>1. ~UNCHANGED vars /\ ~FillArray /\ ~PollReturns /\ ~Unlock /\ ~Crashed
      BY <2>1 DEF vars, loopVars, FillArray, PollReturns, Unlock, Crashed
    <3>2. ASSUME NEW c \in Connections
          PROVE  /\ ~Open(c) /\ ~Disconnect(c) /\ ~Send(c)
                 /\ ~PeerSends(c) /\ ~PeerReads(c) /\ ~PeerCloses(c)
      BY <2>1 DEF loopVars, Open, PushWatch, SetWatch, Disconnect, Send, PeerSends,
                  PeerReads, PeerCloses
    <3> QED BY <1>1, <3>1, <3>2 DEF Next, LoopStep
  <2>3. /\ Types /\ Lists(list, phase) /\ list \in Seq(Watches)
    BY <1>1 DEF WatchesInv, Lists
  <2>4. Matching # {} /\ Complete(list[First])
    BY <2>1, <2>2 DEF ServeEntry, NothingToServe
  <2>5. First \in Matching /\ First \in 1..Len(list) /\ list[First] \in Watches
    BY <2>3, <2>4, FirstFacts
  <2>6. ~(Kind(list[First]) = "read" /\ HandleRead(Fd(list[First]), First))
    BY <1>1, <2>4, <2>5, ReadStep
  <2>7. Kind(list[First]) = "write" /\ HandleWrite(Fd(list[First]), First)
    BY <2>1, <2>2, <2>4, <2>6 DEF ServeEntry
  <2>8. ~peer[Fd(list[First])] /\ phase[Fd(list[First])] = "open"
    BY <2>1, <2>7 DEF HandleWrite
  <2>9. Fd(list[First]) \in Connections /\ enabled[<<Fd(list[First]), "write">>]
    BY <2>5, <2>7, WatchFacts DEF Matching
  <2> QED BY <1>1, <2>7, <2>8, <2>9 DEF WaitingInv, Stuck
<1>2. WatchesInv /\ WaitingInv /\ [Next]_vars
        => [~crashed /\ crashed' =>
              LET w == list[First] IN Kind(w) = "write" /\ Stuck(Fd(w))]_vars
  BY <1>1
<1> QED BY <1>2, WatchesCorrect, WaitingCorrect, PTL DEF Spec, SavedIteratorValid
=============================================================================
