------------------------ MODULE LifetimesCounts_proofs ------------------------
(***************************************************************************)
(* Reference counts add up: HandlesValid, NothingLeft and                  *)
(* ClosedBeforeItEnds for any number of calls, workers, pending calls,     *)
(* connections and variables.  A count of libdbus is the number of handles *)
(* of the object and the references that are no handle's, which each part  *)
(* can tell from what it is at.                                            *)
(***************************************************************************)
EXTENDS Lifetimes_proofs, Integers, FiniteSetTheorems

\* The handles with a counter, those of an object, and the references libdbus
\* counts besides those.
On(s, k) == {p \in DOMAIN s.handles : s.handles[p].cnt = k}
Of(s, o) == {p \in DOMAIN s.handles : s.handles[p].obj = o}
Over(s, o) == s.refs[o] - Cardinality(Of(s, o))

\* Each counter counts its handles, and there is none for nothing.
Counted(s) ==
  /\ IsStore(s)
  /\ s.handles = [p \in DOMAIN s.handles |-> s.handles[p]] /\ IsFiniteSet(DOMAIN s.handles)
  /\ \A p \in DOMAIN s.handles : s.handles[p].obj \in Objects
  /\ s.refs \in [Objects -> Int]
  /\ s.count = [k \in DOMAIN s.count |-> s.count[k]]
  /\ DOMAIN s.count = {s.handles[p].cnt : p \in DOMAIN s.handles}
  /\ \A k \in DOMAIN s.count : s.count[k] = Cardinality(On(s, k))

\* Each Private has one counter, and lives as long as that: all but those of
\* pending calls, to which notify_stub() makes a second pointer.
Owned(s) ==
  /\ \A p \in DOMAIN s.handles : s.handles[p].ptr = s.handles[p].cnt
  /\ s.live = DOMAIN s.count

\* A handle comes or goes, and counts go with it.
Added(s, t, place, h) ==
  /\ DOMAIN t.handles = DOMAIN s.handles \cup {place}
  /\ t.handles[place] = h
  /\ \A p \in DOMAIN s.handles : t.handles[p] = s.handles[p]
Removed(s, t, place) ==
  /\ DOMAIN t.handles = DOMAIN s.handles \ {place}
  /\ \A p \in DOMAIN t.handles : t.handles[p] = s.handles[p]
Balanced(s, t) == \A o \in Objects : Over(t, o) = Over(s, o)

\* What the operators of RefCounting do to a store that is Counted.
Referenced(s, t, obj) ==
  /\ Counted(t) /\ t.handles = s.handles /\ t.count = s.count /\ t.live = s.live
  /\ \A o \in Objects : Over(t, o) = Over(s, o) + (IF o = obj THEN 1 ELSE 0)
Unreferenced(s, t, obj) ==
  /\ Counted(t) /\ t.handles = s.handles /\ t.count = s.count /\ t.live = s.live
  /\ \A o \in Objects : Over(t, o) = Over(s, o) - (IF o = obj THEN 1 ELSE 0)
Pointed(s, t, place, h) ==
  /\ Counted(t) /\ Added(s, t, place, h)
  /\ DOMAIN t.count = DOMAIN s.count \cup {h.cnt}
  /\ \A o \in Objects : Over(t, o) = Over(s, o) - (IF o = h.obj THEN 1 ELSE 0)
Fresh(s, t, place, name, obj) ==
  /\ Counted(t) /\ Balanced(s, t) /\ (Owned(s) => Owned(t))
  /\ Added(s, t, place, [ptr |-> name, cnt |-> name, obj |-> obj])
  /\ t.live = s.live \cup {name} /\ DOMAIN t.count = DOMAIN s.count \cup {name}
Copied(s, t, from, to) ==
  /\ Counted(t) /\ Balanced(s, t) /\ (Owned(s) => Owned(t))
  /\ Added(s, t, to, s.handles[from])
  /\ t.live = s.live /\ DOMAIN t.count = DOMAIN s.count
Alone(s, place) == On(s, s.handles[place].cnt) = {place}
Gone(s, t, place) ==
  LET h == s.handles[place] IN
  /\ Counted(t) /\ Removed(s, t, place)
  /\ t.live = IF Alone(s, place) THEN s.live \ {h.ptr} ELSE s.live
  /\ DOMAIN t.count = IF Alone(s, place) THEN DOMAIN s.count \ {h.cnt} ELSE DOMAIN s.count
Destroyed(s, t, place) ==
  /\ Gone(s, t, place)
  /\ \A o \in Objects : Over(t, o) = Over(s, o) + (IF o = s.handles[place].obj THEN 1 ELSE 0)
Dropped(s, t, place) ==
  Gone(s, t, place) /\ Balanced(s, t) /\ (Owned(s) => Owned(t))

\* A handle more: one more with its counter, and one more of its object.
LEMMA MoreHandles ==
  ASSUME NEW s, NEW t, NEW place, NEW h, IsFiniteSet(DOMAIN s.handles),
         place \notin DOMAIN s.handles, Added(s, t, place, h)
  PROVE  /\ IsFiniteSet(DOMAIN t.handles)
         /\ \A k : /\ IsFiniteSet(On(s, k)) /\ Cardinality(On(s, k)) \in Nat
                   /\ On(t, k) = IF k = h.cnt THEN On(s, k) \cup {place} ELSE On(s, k)
                   /\ Cardinality(On(t, k)) = Cardinality(On(s, k)) + (IF k = h.cnt THEN 1 ELSE 0)
         /\ \A o : /\ Cardinality(Of(s, o)) \in Nat
                   /\ Cardinality(Of(t, o)) = Cardinality(Of(s, o)) + (IF o = h.obj THEN 1 ELSE 0)
<1>1. IsFiniteSet(DOMAIN t.handles)
  BY FS_AddElement DEF Added
<1>2. ASSUME NEW k
      PROVE  /\ IsFiniteSet(On(s, k)) /\ Cardinality(On(s, k)) \in Nat
             /\ On(t, k) = IF k = h.cnt THEN On(s, k) \cup {place} ELSE On(s, k)
             /\ Cardinality(On(t, k)) = Cardinality(On(s, k)) + (IF k = h.cnt THEN 1 ELSE 0)
  <2>1. On(t, k) = IF k = h.cnt THEN On(s, k) \cup {place} ELSE On(s, k)
    BY DEF On, Added
  <2>2. IsFiniteSet(On(s, k)) /\ place \notin On(s, k)
    BY FS_Subset DEF On
  <2>3. Cardinality(On(s, k)) \in Nat
    BY <2>2, FS_CardinalityType
  <2>4. Cardinality(On(s, k) \cup {place}) = Cardinality(On(s, k)) + 1
    BY <2>2, FS_AddElement
  <2> QED BY <2>1, <2>2, <2>3, <2>4
<1>3. ASSUME NEW o
      PROVE  /\ Cardinality(Of(s, o)) \in Nat
             /\ Cardinality(Of(t, o)) = Cardinality(Of(s, o)) + (IF o = h.obj THEN 1 ELSE 0)
  <2>1. Of(t, o) = IF o = h.obj THEN Of(s, o) \cup {place} ELSE Of(s, o)
    BY DEF Of, Added
  <2>2. IsFiniteSet(Of(s, o)) /\ place \notin Of(s, o)
    BY FS_Subset DEF Of
  <2>3. Cardinality(Of(s, o)) \in Nat
    BY <2>2, FS_CardinalityType
  <2>4. Cardinality(Of(s, o) \cup {place}) = Cardinality(Of(s, o)) + 1
    BY <2>2, FS_AddElement
  <2> QED BY <2>1, <2>3, <2>4
<1> QED BY <1>1, <1>2, <1>3

\* A handle less.
LEMMA FewerHandles ==
  ASSUME NEW s, NEW t, NEW place, IsFiniteSet(DOMAIN s.handles),
         place \in DOMAIN s.handles, Removed(s, t, place), NEW h, h = s.handles[place]
  PROVE  /\ IsFiniteSet(DOMAIN t.handles)
         /\ \A k : /\ IsFiniteSet(On(s, k)) /\ Cardinality(On(s, k)) \in Nat
                   /\ On(t, k) = On(s, k) \ {place}
                   /\ Cardinality(On(t, k)) = Cardinality(On(s, k)) - (IF k = h.cnt THEN 1 ELSE 0)
         /\ \A o : /\ Cardinality(Of(s, o)) \in Nat
                   /\ Cardinality(Of(t, o)) = Cardinality(Of(s, o)) - (IF o = h.obj THEN 1 ELSE 0)
<1>1. IsFiniteSet(DOMAIN t.handles)
  BY FS_RemoveElement DEF Removed
<1>2. ASSUME NEW k
      PROVE  /\ IsFiniteSet(On(s, k)) /\ Cardinality(On(s, k)) \in Nat
             /\ On(t, k) = On(s, k) \ {place}
             /\ Cardinality(On(t, k)) = Cardinality(On(s, k)) - (IF k = h.cnt THEN 1 ELSE 0)
  <2>1. On(t, k) = On(s, k) \ {place} /\ (place \in On(s, k) <=> k = h.cnt)
    BY DEF On, Removed
  <2>2. IsFiniteSet(On(s, k))
    BY FS_Subset DEF On
  <2>3. Cardinality(On(s, k)) \in Nat
    BY <2>2, FS_CardinalityType
  <2>4. Cardinality(On(s, k) \ {place})
          = IF place \in On(s, k) THEN Cardinality(On(s, k)) - 1 ELSE Cardinality(On(s, k))
    BY <2>2, FS_RemoveElement
  <2> QED BY <2>1, <2>2, <2>3, <2>4
<1>3. ASSUME NEW o
      PROVE  /\ Cardinality(Of(s, o)) \in Nat
             /\ Cardinality(Of(t, o)) = Cardinality(Of(s, o)) - (IF o = h.obj THEN 1 ELSE 0)
  <2>1. Of(t, o) = Of(s, o) \ {place} /\ (place \in Of(s, o) <=> o = h.obj)
    BY DEF Of, Removed
  <2>2. IsFiniteSet(Of(s, o))
    BY FS_Subset DEF Of
  <2>3. Cardinality(Of(s, o)) \in Nat
    BY <2>2, FS_CardinalityType
  <2>4. Cardinality(Of(s, o) \ {place})
          = IF place \in Of(s, o) THEN Cardinality(Of(s, o)) - 1 ELSE Cardinality(Of(s, o))
    BY <2>2, FS_RemoveElement
  <2> QED BY <2>1, <2>3, <2>4
<1> QED BY <1>1, <1>2, <1>3

\* A handle is put where there is none, with a new counter of 1 or an old one
\* that is counted up (RefPtr, CopyPtr).
LEMMA AddedCounted ==
  ASSUME NEW s, Counted(s), NEW t, IsStore(t), NEW place, place \notin DOMAIN s.handles,
         NEW h, h.obj \in Objects, t.handles = Put(s.handles, place, h), t.refs = s.refs,
         \/ h.cnt \notin DOMAIN s.count /\ t.count = Put(s.count, h.cnt, 1)
         \/ h.cnt \in DOMAIN s.count /\ t.count = [s.count EXCEPT ![h.cnt] = @ + 1]
  PROVE  Pointed(s, t, place, h)
<1>1. Added(s, t, place, h) /\ t.handles = [p \in DOMAIN t.handles |-> t.handles[p]]
  BY DEF Put, Added
<1>2. /\ DOMAIN t.count = DOMAIN s.count \cup {h.cnt}
      /\ t.count = [k \in DOMAIN t.count |-> t.count[k]]
      /\ h.cnt \notin DOMAIN s.count => t.count[h.cnt] = 1
      /\ h.cnt \in DOMAIN s.count => t.count[h.cnt] = s.count[h.cnt] + 1
      /\ \A k \in DOMAIN s.count \ {h.cnt} : t.count[k] = s.count[k]
  BY DEF Put
<1>3. /\ DOMAIN s.count = {s.handles[p].cnt : p \in DOMAIN s.handles}
      /\ \A k \in DOMAIN s.count : s.count[k] = Cardinality(On(s, k))
      /\ IsFiniteSet(DOMAIN s.handles) /\ s.refs \in [Objects -> Int]
      /\ \A p \in DOMAIN s.handles : s.handles[p].obj \in Objects
  BY DEF Counted
<1>4. /\ IsFiniteSet(DOMAIN t.handles)
      /\ \A k : /\ IsFiniteSet(On(s, k)) /\ Cardinality(On(s, k)) \in Nat
                /\ Cardinality(On(t, k)) = Cardinality(On(s, k)) + (IF k = h.cnt THEN 1 ELSE 0)
      /\ \A o : /\ Cardinality(Of(s, o)) \in Nat
                /\ Cardinality(Of(t, o)) = Cardinality(Of(s, o)) + (IF o = h.obj THEN 1 ELSE 0)
  BY <1>1, <1>3, MoreHandles
<1>5. DOMAIN t.count = {t.handles[p].cnt : p \in DOMAIN t.handles}
  BY <1>1, <1>2, <1>3 DEF Added
<1>6. h.cnt \notin DOMAIN s.count => Cardinality(On(s, h.cnt)) = 0
  <2>1. h.cnt \notin DOMAIN s.count => On(s, h.cnt) = {}
    BY <1>3 DEF On
  <2> QED BY <2>1, FS_EmptySet
<1>7. \A k \in DOMAIN t.count : t.count[k] = Cardinality(On(t, k))
  BY <1>2, <1>3, <1>4, <1>6
<1>8. \A p \in DOMAIN t.handles : t.handles[p].obj \in Objects
  BY <1>1, <1>3 DEF Added
<1>9. Counted(t)
  BY <1>1, <1>2, <1>3, <1>4, <1>5, <1>7, <1>8 DEF Counted
<1>10. \A o \in Objects : Over(t, o) = Over(s, o) - (IF o = h.obj THEN 1 ELSE 0)
  BY <1>3, <1>4 DEF Over
<1> QED BY <1>1, <1>2, <1>9, <1>10 DEF Pointed

\* The counter is 1 if there is no other handle.
LEMMA OneIsAlone ==
  ASSUME NEW s, Counted(s), NEW place \in DOMAIN s.handles
  PROVE  one(s, place) <=> Alone(s, place)
<1> PICK h : h = s.handles[place]
  OBVIOUS
<1>1. h.cnt \in DOMAIN s.count /\ place \in On(s, h.cnt) /\ s.count[h.cnt] = Cardinality(On(s, h.cnt))
  <2>1. h.cnt \in DOMAIN s.count
    BY DEF Counted
  <2>2. place \in On(s, h.cnt)
    BY DEF On
  <2> QED BY <2>1, <2>2 DEF Counted
<1>2. IsFiniteSet(On(s, h.cnt))
  BY FS_Subset DEF Counted, On
<1>3. one(s, place) <=> Cardinality(On(s, h.cnt)) = 1
  BY <1>1 DEF one
<1>4. Cardinality(On(s, h.cnt)) = 1 <=> \E x : On(s, h.cnt) = {x}
  BY <1>2, FS_Singleton
<1>5. (\E x : On(s, h.cnt) = {x}) <=> On(s, h.cnt) = {place}
  BY <1>1
<1> QED BY <1>3, <1>4, <1>5 DEF Alone

\* ~RefPtr().
LEMMA DestroyCounted ==
  ASSUME NEW s, Counted(s), NEW place \in DOMAIN s.handles
  PROVE  Destroyed(s, DestroyPtr(s, place), place)
<1> PICK h : h = s.handles[place]
  OBVIOUS
<1> PICK t : t = DestroyPtr(s, place)
  OBVIOUS
<1>1. /\ IsStore(t)
      /\ t.handles = Restrict(s.handles, DOMAIN s.handles \ {place})
      /\ t.count = IF one(s, place) THEN Restrict(s.count, DOMAIN s.count \ {h.cnt})
                                    ELSE [s.count EXCEPT ![h.cnt] = @ - 1]
      /\ t.live = IF one(s, place) THEN s.live \ {h.ptr} ELSE s.live
      /\ t.refs = s.refs
  <2>1. IsStore(s)
    BY DEF Counted
  <2> QED BY <2>1, DestroyPtrFields, Zenon
<1>2. Removed(s, t, place) /\ t.handles = [p \in DOMAIN t.handles |-> t.handles[p]]
  BY <1>1 DEF Restrict, Removed
<1>3. /\ DOMAIN s.count = {s.handles[p].cnt : p \in DOMAIN s.handles}
      /\ \A k \in DOMAIN s.count : s.count[k] = Cardinality(On(s, k))
      /\ IsFiniteSet(DOMAIN s.handles) /\ s.refs \in [Objects -> Int]
      /\ \A p \in DOMAIN s.handles : s.handles[p].obj \in Objects
  BY DEF Counted
<1>4. /\ IsFiniteSet(DOMAIN t.handles)
      /\ \A k : /\ IsFiniteSet(On(s, k)) /\ Cardinality(On(s, k)) \in Nat
                /\ On(t, k) = On(s, k) \ {place}
                /\ Cardinality(On(t, k)) = Cardinality(On(s, k)) - (IF k = h.cnt THEN 1 ELSE 0)
      /\ \A o : /\ Cardinality(Of(s, o)) \in Nat
                /\ Cardinality(Of(t, o)) = Cardinality(Of(s, o)) - (IF o = h.obj THEN 1 ELSE 0)
  BY <1>2, <1>3, FewerHandles
<1>5. one(s, place) <=> On(s, h.cnt) = {place}
  BY OneIsAlone DEF Alone
<1>6. /\ h.cnt \in DOMAIN s.count
      /\ DOMAIN t.count = IF one(s, place) THEN DOMAIN s.count \ {h.cnt} ELSE DOMAIN s.count
      /\ t.count = [k \in DOMAIN t.count |-> t.count[k]]
      /\ \A k \in DOMAIN t.count : t.count[k] = IF k = h.cnt THEN s.count[k] - 1 ELSE s.count[k]
  <2>1. h.cnt \in DOMAIN s.count
    BY <1>3
  <2>2. CASE one(s, place)
    <3>1. t.count = Restrict(s.count, DOMAIN s.count \ {h.cnt})
      BY <1>1, <2>2
    <3> QED BY <2>1, <2>2, <3>1 DEF Restrict
  <2>3. CASE ~one(s, place)
    <3>1. t.count = [s.count EXCEPT ![h.cnt] = @ - 1]
      BY <1>1, <2>3
    <3> QED BY <2>1, <2>3, <3>1
  <2> QED BY <2>2, <2>3
<1>7. DOMAIN t.count = {t.handles[p].cnt : p \in DOMAIN t.handles}
  <2>1. ASSUME NEW k \in DOMAIN t.count
        PROVE  \E p \in DOMAIN t.handles : k = t.handles[p].cnt
    <3>1. k \in DOMAIN s.count /\ (k = h.cnt => On(s, k) # {place})
      BY <1>5, <1>6
    <3>2. PICK p \in On(s, k) : p # place
      BY <1>3, <3>1 DEF On
    <3> QED BY <1>2, <3>2 DEF On, Removed
  <2>2. ASSUME NEW p \in DOMAIN t.handles
        PROVE  t.handles[p].cnt \in DOMAIN t.count
    <3>1. p \in DOMAIN s.handles /\ p # place /\ t.handles[p] = s.handles[p]
      BY <1>2 DEF Removed
    <3>2. s.handles[p].cnt = h.cnt => On(s, h.cnt) # {place}
      BY <3>1 DEF On
    <3> QED BY <1>3, <1>5, <1>6, <3>1, <3>2
  <2> QED BY <2>1, <2>2
<1>8. \A k \in DOMAIN t.count : t.count[k] = Cardinality(On(t, k))
  BY <1>3, <1>4, <1>6
<1>9. \A p \in DOMAIN t.handles : t.handles[p].obj \in Objects
  BY <1>2, <1>3 DEF Removed
<1>10. Counted(t)
  BY <1>1, <1>2, <1>3, <1>4, <1>6, <1>7, <1>8, <1>9 DEF Counted
<1>11. \A o \in Objects : Over(t, o) = Over(s, o) + (IF o = h.obj THEN 1 ELSE 0)
  BY <1>1, <1>3, <1>4 DEF Over
<1>12. /\ t.live = IF Alone(s, place) THEN s.live \ {h.ptr} ELSE s.live
       /\ DOMAIN t.count = IF Alone(s, place) THEN DOMAIN s.count \ {h.cnt} ELSE DOMAIN s.count
  BY <1>1, <1>6, OneIsAlone, Zenon
<1>13. Gone(s, t, place)
  BY <1>2, <1>10, <1>12 DEF Gone
<1> QED BY <1>11, <1>13 DEF Destroyed

\* dbus_..._ref() (Ref).
LEMMA RefCounted ==
  ASSUME NEW s, Counted(s), NEW obj \in Objects
  PROVE  Referenced(s, Ref(s, obj), obj)
<1> PICK t : t = Ref(s, obj)
  OBVIOUS
<1>1. /\ IsStore(t) /\ t.handles = s.handles /\ t.count = s.count /\ t.live = s.live
      /\ t.refs = [s.refs EXCEPT ![obj] = @ + 1]
  <2>1. IsStore(s)
    BY DEF Counted
  <2> QED BY <2>1, RefFields, ZenonT(60)
<1>2. /\ s.refs \in [Objects -> Int] /\ t.refs \in [Objects -> Int]
      /\ \A o \in Objects : t.refs[o] = s.refs[o] + (IF o = obj THEN 1 ELSE 0)
  BY <1>1 DEF Counted
<1>3. \A k : On(t, k) = On(s, k)
  BY <1>1 DEF On
<1>4. \A o : Of(t, o) = Of(s, o)
  BY <1>1 DEF Of
<1>5. \A o : Cardinality(Of(s, o)) \in Nat
  <2>1. \A o : IsFiniteSet(Of(s, o))
    BY FS_Subset DEF Of, Counted
  <2> QED BY <2>1, FS_CardinalityType
<1>6. Counted(t)
  BY <1>1, <1>2, <1>3 DEF Counted
<1>7. \A o \in Objects : Over(t, o) = Over(s, o) + (IF o = obj THEN 1 ELSE 0)
  BY <1>2, <1>4, <1>5 DEF Over
<1> QED BY <1>1, <1>6, <1>7 DEF Referenced

\* dbus_..._unref() (Unref).
LEMMA UnrefCounted ==
  ASSUME NEW s, Counted(s), NEW obj \in Objects
  PROVE  Unreferenced(s, Unref(s, obj), obj)
<1> PICK t : t = Unref(s, obj)
  OBVIOUS
<1>1. /\ IsStore(t) /\ t.handles = s.handles /\ t.count = s.count /\ t.live = s.live
      /\ t.refs = [s.refs EXCEPT ![obj] = @ - 1]
  <2>1. IsStore(s)
    BY DEF Counted
  <2> QED BY <2>1, RefFields, ZenonT(60)
<1>2. /\ s.refs \in [Objects -> Int] /\ t.refs \in [Objects -> Int]
      /\ \A o \in Objects : t.refs[o] = s.refs[o] - (IF o = obj THEN 1 ELSE 0)
  BY <1>1 DEF Counted
<1>3. \A k : On(t, k) = On(s, k)
  BY <1>1 DEF On
<1>4. \A o : Of(t, o) = Of(s, o)
  BY <1>1 DEF Of
<1>5. \A o : Cardinality(Of(s, o)) \in Nat
  <2>1. \A o : IsFiniteSet(Of(s, o))
    BY FS_Subset DEF Of, Counted
  <2> QED BY <2>1, FS_CardinalityType
<1>6. Counted(t)
  BY <1>1, <1>2, <1>3 DEF Counted
<1>7. \A o \in Objects : Over(t, o) = Over(s, o) - (IF o = obj THEN 1 ELSE 0)
  BY <1>2, <1>4, <1>5 DEF Over
<1> QED BY <1>1, <1>6, <1>7 DEF Unreferenced

\* The references of an object that are no handle's.
LEMMA OverTyped ==
  ASSUME NEW s, Counted(s), NEW o \in Objects
  PROVE  /\ Over(s, o) \in Int /\ Cardinality(Of(s, o)) \in Nat
         /\ s.refs[o] = Over(s, o) + Cardinality(Of(s, o))
         /\ Cardinality(Of(s, o)) = 0 <=> \A p \in DOMAIN s.handles : s.handles[p].obj # o
<1>1. IsFiniteSet(Of(s, o))
  BY FS_Subset DEF Counted, Of
<1>2. Cardinality(Of(s, o)) \in Nat
  BY <1>1, FS_CardinalityType
<1>3. s.refs[o] \in Int
  BY DEF Counted
<1>4. Cardinality(Of(s, o)) = 0 <=> Of(s, o) = {}
  BY <1>1, FS_EmptySet
<1>5. Of(s, o) = {} <=> \A p \in DOMAIN s.handles : s.handles[p].obj # o
  BY DEF Of
<1> QED BY <1>2, <1>3, <1>4, <1>5 DEF Over

\* A pointer to a Private in a handle, with a counter of its own (RefPtr).
LEMMA RefPtrCounted ==
  ASSUME NEW s, Counted(s), NEW place, place \notin DOMAIN s.handles,
         NEW ptr, NEW cnt, cnt \notin DOMAIN s.count, NEW obj \in Objects
  PROVE  LET t == RefPtr(s, place, ptr, cnt, obj) IN
         Pointed(s, t, place, [ptr |-> ptr, cnt |-> cnt, obj |-> obj]) /\ t.live = s.live
<1> PICK h : h = [ptr |-> ptr, cnt |-> cnt, obj |-> obj]
  OBVIOUS
<1> PICK t : t = RefPtr(s, place, ptr, cnt, obj)
  OBVIOUS
<1>1. /\ IsStore(t) /\ t.handles = Put(s.handles, place, h)
      /\ t.count = Put(s.count, cnt, 1) /\ t.live = s.live /\ t.refs = s.refs
  <2>1. IsStore(s)
    BY DEF Counted
  <2> QED BY <2>1, RefPtrFields
<1>2. h.cnt = cnt /\ h.obj = obj
  OBVIOUS
<1>3. Pointed(s, t, place, h)
  BY <1>1, <1>2, AddedCounted
<1> QED BY <1>1, <1>3

\* A new Private in a handle, with a reference of the object (NewPrivate, Ref).
LEMMA FreshCounted ==
  ASSUME NEW s, Counted(s), NEW place, place \notin DOMAIN s.handles,
         NEW name, name \notin DOMAIN s.count, NEW obj \in Objects
  PROVE  Fresh(s, Ref(NewPrivate(s, place, name, obj), obj), place, name, obj)
<1> PICK h : h = [ptr |-> name, cnt |-> name, obj |-> obj]
  OBVIOUS
<1> PICK u : u = NewPrivate(s, place, name, obj)
  OBVIOUS
<1> PICK t : t = Ref(u, obj)
  OBVIOUS
<1>1. /\ IsStore(u) /\ u.handles = Put(s.handles, place, h)
      /\ u.count = Put(s.count, name, 1) /\ u.live = s.live \cup {name} /\ u.refs = s.refs
  <2>1. IsStore(s)
    BY DEF Counted
  <2> QED BY <2>1, NewPrivateFields
<1>2. h.cnt = name /\ h.obj = obj /\ h.ptr = name
  OBVIOUS
<1>3. Pointed(s, u, place, h)
  BY <1>1, <1>2, AddedCounted
<1>4. Referenced(u, t, obj)
  BY <1>3, RefCounted DEF Pointed
<1>5. Added(s, t, place, h)
  BY <1>3, <1>4 DEF Added, Pointed, Referenced
<1>6. \A o \in Objects : Over(s, o) \in Int
  BY OverTyped
<1>7. Balanced(s, t)
  BY <1>2, <1>3, <1>4, <1>6 DEF Balanced, Pointed, Referenced
<1>8. t.live = s.live \cup {name} /\ DOMAIN t.count = DOMAIN s.count \cup {name}
  BY <1>1, <1>2, <1>3, <1>4 DEF Pointed, Referenced
<1>9. Owned(s) => Owned(t)
  BY <1>2, <1>5, <1>8 DEF Owned, Added
<1>10. Fresh(s, t, place, name, obj)
  BY <1>4, <1>5, <1>7, <1>8, <1>9 DEF Fresh, Referenced
<1> QED BY <1>10

\* Message(m, false) (CopyApart).
LEMMA CopyApartCounted ==
  ASSUME NEW s, Counted(s), NEW from \in DOMAIN s.handles,
         NEW to, to \notin DOMAIN s.handles, NEW name, name \notin DOMAIN s.count
  PROVE  Fresh(s, CopyApart(s, from, to, name), to, name, s.handles[from].obj)
<1> PICK obj : obj = s.handles[from].obj
  OBVIOUS
<1>1. obj \in Objects
  BY DEF Counted
<1>2. CopyApart(s, from, to, name) = Ref(NewPrivate(s, to, name, obj), obj)
  BY Zenon DEF CopyApart
<1>3. Fresh(s, Ref(NewPrivate(s, to, name, obj), obj), to, name, obj)
  BY <1>1, FreshCounted
<1> QED BY <1>2, <1>3

\* A copy of a handle (CopyHandle).
LEMMA CopyHandleCounted ==
  ASSUME NEW s, Counted(s), NEW from \in DOMAIN s.handles, NEW to, to \notin DOMAIN s.handles
  PROVE  Copied(s, CopyHandle(s, from, to), from, to)
<1> PICK u : u = CopyPtr(s, from, to)
  OBVIOUS
<1> PICK h : h = s.handles[from]
  OBVIOUS
<1> PICK t : t = Ref(u, h.obj)
  OBVIOUS
<1>1. /\ IsStore(u) /\ u.handles = Put(s.handles, to, h)
      /\ u.count = [s.count EXCEPT ![h.cnt] = @ + 1]
      /\ u.live = s.live /\ u.refs = s.refs
  <2>1. IsStore(s)
    BY DEF Counted
  <2> QED BY <2>1, CopyPtrFields
<1>2. h.obj \in Objects /\ h.cnt \in DOMAIN s.count
  BY DEF Counted
<1>3. Pointed(s, u, to, h)
  BY <1>1, <1>2, AddedCounted
<1>4. Referenced(u, t, h.obj)
  BY <1>2, <1>3, RefCounted DEF Pointed
<1>5. Added(s, t, to, h)
  BY <1>3, <1>4 DEF Added, Pointed, Referenced
<1>6. \A o \in Objects : Over(s, o) \in Int
  BY OverTyped
<1>7. Balanced(s, t)
  BY <1>3, <1>4, <1>6 DEF Balanced, Pointed, Referenced
<1>8. t.live = s.live /\ DOMAIN t.count = DOMAIN s.count
  BY <1>1, <1>2, <1>3, <1>4 DEF Pointed, Referenced
<1>9. Owned(s) => Owned(t)
  BY <1>5, <1>8 DEF Owned, Added
<1>10. Copied(s, t, from, to)
  BY <1>4, <1>5, <1>7, <1>8, <1>9 DEF Copied, Referenced
<1>11. t = CopyHandle(s, from, to)
  BY Zenon DEF CopyHandle
<1> QED BY <1>10, <1>11

\* The end of a handle (DropHandle).
LEMMA DropHandleCounted ==
  ASSUME NEW s, Counted(s), NEW place \in DOMAIN s.handles
  PROVE  Dropped(s, DropHandle(s, place), place)
<1> PICK h : h = s.handles[place]
  OBVIOUS
<1> PICK u : u = Unref(s, h.obj)
  OBVIOUS
<1> PICK t : t = DestroyPtr(u, place)
  OBVIOUS
<1>1. h.obj \in Objects
  BY DEF Counted
<1>2. Unreferenced(s, u, h.obj)
  BY <1>1, UnrefCounted
<1>3. Counted(u) /\ place \in DOMAIN u.handles
  BY <1>2 DEF Unreferenced
<1>4. Destroyed(u, t, place)
  BY <1>3, DestroyCounted
<1>5. /\ u.handles = s.handles /\ u.handles[place] = h /\ u.count = s.count /\ u.live = s.live
      /\ \A k : On(u, k) = On(s, k)
  BY <1>2 DEF Unreferenced, On
<1>6. Alone(u, place) <=> Alone(s, place)
  BY <1>5 DEF Alone
<1>7. Removed(s, t, place)
  BY <1>4, <1>5 DEF Removed, Destroyed, Gone
<1>8. /\ t.live = IF Alone(s, place) THEN s.live \ {h.ptr} ELSE s.live
      /\ DOMAIN t.count = IF Alone(s, place) THEN DOMAIN s.count \ {h.cnt} ELSE DOMAIN s.count
  BY <1>4, <1>5, <1>6 DEF Destroyed, Gone
<1>9. Gone(s, t, place)
  BY <1>4, <1>7, <1>8 DEF Gone, Destroyed
<1>10. \A o \in Objects : Over(s, o) \in Int
  BY OverTyped
<1>11. Balanced(s, t)
  BY <1>2, <1>4, <1>5, <1>10 DEF Balanced, Destroyed, Unreferenced
<1>12. Owned(s) => Owned(t)
  <2> SUFFICES ASSUME Owned(s) PROVE Owned(t)
    OBVIOUS
  <2>1. h.ptr = h.cnt /\ s.live = DOMAIN s.count
    BY DEF Owned
  <2>2. t.live = DOMAIN t.count
    BY <1>8, <2>1
  <2>3. \A p \in DOMAIN t.handles : t.handles[p].ptr = t.handles[p].cnt
    BY <1>7 DEF Owned, Removed
  <2> QED BY <2>2, <2>3 DEF Owned
<1>13. t = DropHandle(s, place)
  BY Zenon DEF DropHandle
<1>14. Dropped(s, t, place)
  BY <1>9, <1>11, <1>12 DEF Dropped
<1> QED BY <1>13, <1>14

-----------------------------------------------------------------------------
(* Connections. *)

\* The handles are the application's and those in the list of the server.
Known == Clients \cup Accepted
AppPlaces == {Var(v) : v \in Variables}
ListPlaces == {<<"connections", c>> : c \in Accepted}

ConnectionHandles(s) ==
  \A p \in DOMAIN s.handles :
    /\ p \in AppPlaces \cup ListPlaces
    /\ s.handles[p].obj \in Known /\ s.handles[p].cnt = s.handles[p].obj
    /\ p \in ListPlaces => p = <<"connections", s.handles[p].obj>> /\ s.handles[p].obj \in Accepted
\* init() keeps a reference as long as the Private lives; that of the bus stays.
ConnectionOver(s) ==
  \A o \in Objects :
    /\ o \in Accepted => Over(s, o) = IF o \in s.live THEN 1 ELSE 0
    /\ o \in Clients => IF o \in s.live THEN Over(s, o) = 2 ELSE Over(s, o) \in {0, 1}
    /\ o \notin Known => Over(s, o) = 0
ConnectionStore(s) ==
  /\ Counted(s) /\ Owned(s) /\ ConnectionHandles(s) /\ ConnectionOver(s)
ConnectionsInv == ConnectionStore(store) /\ connected \subseteq store.live

LEMMA ConnectionsAreObjects == Known \subseteq Objects
  BY DEF Known, Objects

LEMMA LiveConnections ==
  ASSUME NEW s, ConnectionStore(s)
  PROVE  /\ s.live = {s.handles[p].obj : p \in DOMAIN s.handles} /\ s.live = DOMAIN s.count
         /\ \A p \in DOMAIN s.handles : s.handles[p].obj \in s.live
         /\ s.live \subseteq Known
<1>1. /\ DOMAIN s.count = {s.handles[p].cnt : p \in DOMAIN s.handles}
      /\ s.live = DOMAIN s.count
      /\ \A p \in DOMAIN s.handles : s.handles[p].cnt = s.handles[p].obj /\ s.handles[p].obj \in Known
  BY DEF ConnectionStore, Counted, Owned, ConnectionHandles
<1> QED BY <1>1

\* A connection libdbus has no reference of has no handle either.
LEMMA UnreferencedConnection ==
  ASSUME NEW s, ConnectionStore(s), NEW c \in Known, s.refs[c] = 0
  PROVE  /\ c \notin s.live /\ c \notin DOMAIN s.count /\ Over(s, c) = 0
         /\ \A p \in DOMAIN s.handles : s.handles[p].obj # c
<1>1. c \in Objects
  BY ConnectionsAreObjects
<1>2. Over(s, c) \in {0, 1, 2}
  BY <1>1 DEF ConnectionStore, ConnectionOver, Known
<1>3. /\ Cardinality(Of(s, c)) \in Nat /\ 0 = Over(s, c) + Cardinality(Of(s, c))
      /\ Cardinality(Of(s, c)) = 0 <=> \A p \in DOMAIN s.handles : s.handles[p].obj # c
  BY <1>1, OverTyped DEF ConnectionStore
<1>4. Over(s, c) = 0 /\ Cardinality(Of(s, c)) = 0
  BY <1>2, <1>3
<1>5. \A p \in DOMAIN s.handles : s.handles[p].obj # c
  BY <1>3, <1>4
<1> QED BY <1>4, <1>5, LiveConnections

\* A Private for a connection that libdbus gives a reference of (NewConnection),
\* and the end of a Connection (DropConnection).
Joined(s, t, place, c) ==
  /\ Counted(t) /\ Owned(t) /\ t.live = s.live \cup {c}
  /\ Added(s, t, place, [ptr |-> c, cnt |-> c, obj |-> c])
  /\ \A o \in Objects : Over(t, o) = Over(s, o) + (IF o = c THEN 2 ELSE 0)
Parted(s, t, place) ==
  LET h == s.handles[place] IN
  /\ Counted(t) /\ Owned(t) /\ Removed(s, t, place)
  /\ t.live = IF Alone(s, place) THEN s.live \ {h.cnt} ELSE s.live
  /\ \A o \in Objects :
       Over(t, o) = Over(s, o) - (IF Alone(s, place) /\ o = h.obj THEN 1 ELSE 0)

LEMMA NewConnectionCounted ==
  ASSUME NEW s, Counted(s), Owned(s), NEW place, place \notin DOMAIN s.handles,
         NEW c \in Objects, c \notin DOMAIN s.count
  PROVE  Joined(s, NewConnection(Ref(s, c), place, c), place, c)
<1> PICK r : r = Ref(s, c)
  OBVIOUS
<1> PICK u : u = Ref(NewPrivate(r, place, c, c), c)
  OBVIOUS
<1> PICK t : t = Ref(u, c)
  OBVIOUS
<1>1. NewConnection(Ref(s, c), place, c) = t
  BY Zenon DEF NewConnection
<1>2. Referenced(s, r, c)
  BY RefCounted
<1>3. Owned(r) /\ Counted(r) /\ place \notin DOMAIN r.handles /\ c \notin DOMAIN r.count
  BY <1>2 DEF Owned, Referenced
<1>4. Fresh(r, u, place, c, c)
  BY <1>3, FreshCounted
<1>5. Counted(u)
  BY <1>4 DEF Fresh
<1>6. Referenced(u, t, c)
  BY <1>5, RefCounted
<1>7. Counted(t) /\ Owned(t) /\ t.live = s.live \cup {c}
  BY <1>2, <1>3, <1>4, <1>6 DEF Owned, Fresh, Referenced
<1>8. Added(s, t, place, [ptr |-> c, cnt |-> c, obj |-> c])
  BY <1>2, <1>4, <1>6 DEF Added, Fresh, Referenced
<1>9. \A o \in Objects : Over(s, o) \in Int
  BY OverTyped
<1>10. \A o \in Objects : Over(t, o) = Over(s, o) + (IF o = c THEN 2 ELSE 0)
  BY <1>2, <1>4, <1>6, <1>9 DEF Balanced, Fresh, Referenced
<1>11. Joined(s, t, place, c)
  BY <1>7, <1>8, <1>10 DEF Joined
<1> QED BY <1>1, <1>11

LEMMA DropConnectionCounted ==
  ASSUME NEW s, Counted(s), Owned(s), NEW place \in DOMAIN s.handles
  PROVE  Parted(s, DropConnection(s, place), place)
<1> PICK h : h = s.handles[place]
  OBVIOUS
<1> PICK u : u = DropHandle(s, place)
  OBVIOUS
<1> PICK v : v = Unref(u, h.obj)
  OBVIOUS
<1>1. DropConnection(s, place) = IF one(s, place) THEN v ELSE u
  BY Zenon DEF DropConnection
<1>2. Dropped(s, u, place)
  BY DropHandleCounted
<1>3. one(s, place) <=> Alone(s, place)
  BY OneIsAlone
<1>4. h.obj \in Objects /\ h.ptr = h.cnt /\ Counted(u) /\ Owned(u)
  BY <1>2 DEF Counted, Owned, Dropped, Gone
<1>5. \A o \in Objects : Over(s, o) \in Int
  BY OverTyped
<1>6. CASE Alone(s, place)
  <2>1. DropConnection(s, place) = v
    BY <1>1, <1>3, <1>6, Zenon
  <2>2. Unreferenced(u, v, h.obj)
    BY <1>4, UnrefCounted
  <2>3. Counted(v) /\ Owned(v) /\ Removed(s, v, place)
    BY <1>2, <1>4, <2>2 DEF Owned, Removed, Dropped, Gone, Unreferenced
  <2>4. \A o \in Objects : Over(v, o) = Over(s, o) - (IF o = h.obj THEN 1 ELSE 0)
    BY <1>2, <2>2 DEF Balanced, Dropped, Unreferenced
  <2>5. v.live = s.live \ {h.cnt}
    BY <1>2, <1>4, <1>6, <2>2 DEF Dropped, Gone, Unreferenced
  <2>6. Parted(s, v, place)
    BY <1>6, <2>3, <2>4, <2>5 DEF Parted
  <2> QED BY <2>1, <2>6
<1>7. CASE ~Alone(s, place)
  <2>1. DropConnection(s, place) = u
    BY <1>1, <1>3, <1>7, Zenon
  <2>2. u.live = s.live /\ Removed(s, u, place)
    BY <1>2, <1>7 DEF Dropped, Gone
  <2>3. \A o \in Objects : Over(u, o) = Over(s, o)
    BY <1>2 DEF Balanced, Dropped
  <2>4. Parted(s, u, place)
    BY <1>4, <1>5, <1>7, <2>2, <2>3 DEF Parted
  <2> QED BY <2>1, <2>4
<1> QED BY <1>6, <1>7

LEMMA ConnectionParted ==
  ASSUME NEW s, ConnectionStore(s), NEW place \in DOMAIN s.handles, NEW t, Parted(s, t, place)
  PROVE  ConnectionStore(t) /\ t.live \subseteq s.live
<1> PICK h : h = s.handles[place]
  OBVIOUS
<1>1. /\ h.obj \in Known /\ h.cnt = h.obj /\ h.obj \in Objects
      /\ Counted(s) /\ Owned(s) /\ h.obj \in s.live
  BY LiveConnections DEF ConnectionStore, ConnectionHandles, Counted
<1>2. /\ Counted(t) /\ Owned(t) /\ Removed(s, t, place)
      /\ t.live = IF Alone(s, place) THEN s.live \ {h.cnt} ELSE s.live
      /\ \A o \in Objects :
           Over(t, o) = Over(s, o) - (IF Alone(s, place) /\ o = h.obj THEN 1 ELSE 0)
  BY DEF Parted
<1>3. ConnectionHandles(t)
  BY <1>2 DEF ConnectionStore, ConnectionHandles, Removed
<1>4. ConnectionOver(t)
  <2> SUFFICES ASSUME NEW o \in Objects
               PROVE  /\ o \in Accepted => Over(t, o) = IF o \in t.live THEN 1 ELSE 0
                      /\ o \in Clients => IF o \in t.live THEN Over(t, o) = 2 ELSE Over(t, o) \in {0, 1}
                      /\ o \notin Known => Over(t, o) = 0
    BY DEF ConnectionOver
  <2>1. /\ o \in Accepted => Over(s, o) = IF o \in s.live THEN 1 ELSE 0
        /\ o \in Clients => IF o \in s.live THEN Over(s, o) = 2 ELSE Over(s, o) \in {0, 1}
        /\ o \notin Known => Over(s, o) = 0
        /\ Over(s, o) \in Int
    BY <1>1, OverTyped DEF ConnectionStore, ConnectionOver
  <2>2. CASE Alone(s, place) /\ o = h.obj
    <3>1. Over(t, o) = Over(s, o) - 1 /\ o \in s.live /\ o \notin t.live /\ o \in Known
      BY <1>1, <1>2, <2>2
    <3> QED BY <2>1, <3>1
  <2>3. CASE ~(Alone(s, place) /\ o = h.obj)
    <3>1. Over(t, o) = Over(s, o) /\ (o \in t.live <=> o \in s.live)
      BY <1>1, <1>2, <2>1, <2>3
    <3> QED BY <2>1, <3>1
  <2> QED BY <2>2, <2>3
<1> QED BY <1>2, <1>3, <1>4 DEF ConnectionStore

LEMMA ConnectionDropped ==
  ASSUME NEW s, ConnectionStore(s), NEW place \in DOMAIN s.handles
  PROVE  /\ ConnectionStore(DropConnection(s, place))
         /\ DropConnection(s, place).live \subseteq s.live
<1>1. Parted(s, DropConnection(s, place), place)
  BY DropConnectionCounted DEF ConnectionStore
<1> QED BY <1>1, ConnectionParted

LEMMA ConnectionCopied ==
  ASSUME NEW s, ConnectionStore(s), NEW from \in DOMAIN s.handles,
         NEW to \in AppPlaces \ ListPlaces, to \notin DOMAIN s.handles, NEW t, Copied(s, t, from, to)
  PROVE  ConnectionStore(t) /\ t.live = s.live
<1>1. /\ Counted(t) /\ Balanced(s, t) /\ Owned(t)
      /\ Added(s, t, to, s.handles[from]) /\ t.live = s.live
  BY DEF ConnectionStore, Copied
<1>2. ConnectionHandles(t)
  BY <1>1 DEF ConnectionStore, ConnectionHandles, Added
<1>3. ConnectionOver(t)
  BY <1>1 DEF ConnectionStore, ConnectionOver, Balanced
<1> QED BY <1>1, <1>2, <1>3 DEF ConnectionStore

LEMMA VariablePlaces ==
  ASSUME NEW v \in Variables
  PROVE  Var(v) \in AppPlaces \ ListPlaces /\ \A c : Var(v) # <<"nc", c>> /\ Var(v) # <<"pc", c>>
  BY DEF Var, AppPlaces, ListPlaces

LEMMA OpenStep ==
  ASSUME ConnectionsInv, NEW v \in Variables, NEW c \in Clients, Open(v, c)
  PROVE  ConnectionsInv'
<1> PICK s : s = store
  OBVIOUS
<1> PICK t : t = store'
  OBVIOUS
<1>1. /\ Var(v) \notin DOMAIN s.handles /\ s.refs[c] = 0
      /\ t = NewConnection(Ref(s, c), Var(v), c) /\ connected' = connected \cup {c}
  BY Zenon DEF Open, Free
<1>2. ConnectionStore(s) /\ connected \subseteq s.live /\ c \in Known /\ c \in Objects /\ c \notin Accepted
  BY ConnectionsAreObjects, DistinctAssumption DEF ConnectionsInv, Known
<1>3. c \notin s.live /\ c \notin DOMAIN s.count /\ Over(s, c) = 0
  BY <1>1, <1>2, UnreferencedConnection
<1>4. Counted(s) /\ Owned(s) /\ ConnectionHandles(s) /\ ConnectionOver(s)
  BY <1>2 DEF ConnectionStore
<1>5. /\ Counted(t) /\ Owned(t) /\ t.live = s.live \cup {c}
      /\ Added(s, t, Var(v), [ptr |-> c, cnt |-> c, obj |-> c])
      /\ \A o \in Objects : Over(t, o) = Over(s, o) + (IF o = c THEN 2 ELSE 0)
  <2>1. Joined(s, NewConnection(Ref(s, c), Var(v), c), Var(v), c)
    BY <1>1, <1>2, <1>3, <1>4, NewConnectionCounted
  <2> QED BY <1>1, <2>1 DEF Joined
<1>6. Var(v) \in AppPlaces \ ListPlaces
  BY VariablePlaces
<1>7. ConnectionHandles(t)
  BY <1>2, <1>4, <1>5, <1>6 DEF ConnectionHandles, Added
<1>8. ConnectionOver(t)
  <2>1. \A o \in Objects : Over(s, o) \in Int
    BY <1>4, OverTyped
  <2>2. \A o \in Objects \ {c} : Over(t, o) = Over(s, o) /\ (o \in t.live <=> o \in s.live)
    BY <1>5, <2>1
  <2>3. Over(t, c) = 2 /\ c \in t.live
    BY <1>2, <1>3, <1>5
  <2> QED BY <1>2, <1>4, <2>2, <2>3 DEF ConnectionOver
<1> QED BY <1>1, <1>2, <1>5, <1>7, <1>8 DEF ConnectionsInv, ConnectionStore

LEMMA AcceptStep ==
  ASSUME ConnectionsInv, NEW c \in Accepted, Accept(c)
  PROVE  ConnectionsInv'
<1> PICK s : s = store
  OBVIOUS
<1> PICK t : t = store'
  OBVIOUS
<1> PICK nc : nc = <<"nc", c>>
  OBVIOUS
<1> PICK lp : lp = <<"connections", c>>
  OBVIOUS
<1> PICK h : h = [ptr |-> c, cnt |-> c, obj |-> c]
  OBVIOUS
<1> PICK j : j = NewConnection(Ref(s, c), nc, c)
  OBVIOUS
<1> PICK l : l = CopyHandle(j, nc, lp)
  OBVIOUS
<1>1. PICK k : /\ k = l \/ \E v \in Variables : Free(v) /\ k = CopyHandle(l, nc, Var(v))
               /\ t = Unref(DropConnection(k, nc), c)
  BY Zenon DEF Accept
<1>2. s.refs[c] = 0 /\ connected' = connected \cup {c}
  BY Zenon DEF Accept
<1>3. /\ ConnectionStore(s) /\ connected \subseteq s.live /\ c \in Known /\ c \in Objects /\ c \notin Clients
      /\ Counted(s) /\ Owned(s) /\ ConnectionHandles(s) /\ ConnectionOver(s)
  BY ConnectionsAreObjects, DistinctAssumption DEF ConnectionsInv, Known, ConnectionStore
<1>4. /\ c \notin s.live /\ c \notin DOMAIN s.count /\ Over(s, c) = 0
      /\ \A p \in DOMAIN s.handles : s.handles[p].obj # c
  BY <1>2, <1>3, UnreferencedConnection
<1>5. /\ nc \notin AppPlaces /\ nc \notin ListPlaces /\ nc # lp /\ lp \in ListPlaces
      /\ \A v \in Variables : Var(v) \in AppPlaces \ ListPlaces /\ Var(v) # nc /\ Var(v) # lp
  BY DEF AppPlaces, ListPlaces, Var
<1>6. nc \notin DOMAIN s.handles /\ lp \notin DOMAIN s.handles
  BY <1>3, <1>4, <1>5 DEF ConnectionHandles
<1>7. Joined(s, j, nc, c)
  BY <1>3, <1>4, <1>6, NewConnectionCounted
<1>8. Counted(j) /\ nc \in DOMAIN j.handles /\ lp \notin DOMAIN j.handles
  BY <1>5, <1>6, <1>7 DEF Joined, Added
<1>9. Copied(j, l, nc, lp)
  BY <1>8, CopyHandleCounted
\* With the list's handle, and perhaps one of the application.
<1>10. /\ Counted(l) /\ Owned(l) /\ l.live = s.live \cup {c}
       /\ DOMAIN l.handles = DOMAIN s.handles \cup {nc, lp}
       /\ l.handles[nc] = h /\ l.handles[lp] = h
       /\ \A p \in DOMAIN s.handles : l.handles[p] = s.handles[p]
       /\ \A o \in Objects : Over(l, o) = Over(s, o) + (IF o = c THEN 2 ELSE 0)
  BY <1>5, <1>6, <1>7, <1>9 DEF Joined, Copied, Added, Balanced
<1> DEFINE Listing(places) ==
      /\ places \subseteq AppPlaces \ ListPlaces
      /\ Counted(k) /\ Owned(k) /\ k.live = s.live \cup {c}
      /\ DOMAIN k.handles = DOMAIN s.handles \cup {nc, lp} \cup places
      /\ \A p \in {nc, lp} \cup places : k.handles[p] = h
      /\ \A p \in DOMAIN s.handles : k.handles[p] = s.handles[p]
      /\ \A o \in Objects : Over(k, o) = Over(s, o) + (IF o = c THEN 2 ELSE 0)
<1>11. \E places : Listing(places)
  <2>1. CASE k = l
    <3>1. Listing({})
      BY <1>10, <2>1
    <3> HIDE DEF Listing
    <3> QED BY <3>1
  <2>2. ASSUME NEW v \in Variables, Free(v), k = CopyHandle(l, nc, Var(v))
        PROVE  Listing({Var(v)})
    <3>1. Var(v) \notin DOMAIN l.handles /\ nc \in DOMAIN l.handles
      BY <1>5, <1>10, <2>2 DEF Free
    <3>2. Copied(l, k, nc, Var(v))
      BY <1>10, <2>2, <3>1, CopyHandleCounted
    <3>3. /\ Counted(k) /\ Owned(k) /\ k.live = s.live \cup {c}
          /\ \A o \in Objects : Over(k, o) = Over(s, o) + (IF o = c THEN 2 ELSE 0)
      BY <1>10, <3>2 DEF Copied, Balanced
    <3>4. /\ DOMAIN k.handles = DOMAIN s.handles \cup {nc, lp} \cup {Var(v)}
          /\ \A p \in {nc, lp} \cup {Var(v)} : k.handles[p] = h
          /\ \A p \in DOMAIN s.handles : k.handles[p] = s.handles[p]
      BY <1>10, <3>1, <3>2 DEF Copied, Added
    <3> QED BY <1>5, <3>3, <3>4
  <2> HIDE DEF Listing
  <2> QED BY <1>1, <2>1, <2>2
<1>12. PICK places : Listing(places)
  BY <1>11
<1> PICK d : d = DropConnection(k, nc)
  OBVIOUS
<1>13. Parted(k, d, nc)
  BY <1>12, DropConnectionCounted
<1>14. ~Alone(k, nc)
  BY <1>5, <1>12 DEF Alone, On
<1>15. Counted(d) /\ Owned(d) /\ Removed(k, d, nc) /\ d.live = s.live \cup {c}
  BY <1>12, <1>13, <1>14 DEF Parted
<1>16. \A o \in Objects : Over(d, o) = Over(k, o)
  <2>1. \A o \in Objects : Over(k, o) \in Int
    BY <1>12, OverTyped
  <2> QED BY <1>13, <1>14, <2>1 DEF Parted
<1>17. Unreferenced(d, t, c)
  BY <1>1, <1>3, <1>15, UnrefCounted
<1>18. /\ Counted(t) /\ Owned(t) /\ t.live = s.live \cup {c}
       /\ DOMAIN t.handles = DOMAIN s.handles \cup {lp} \cup places
  BY <1>5, <1>6, <1>12, <1>15, <1>17 DEF Removed, Unreferenced, Owned, AppPlaces
<1>19. /\ \A p \in {lp} \cup places : t.handles[p] = h
       /\ \A p \in DOMAIN s.handles : t.handles[p] = s.handles[p]
  BY <1>5, <1>12, <1>15, <1>17, <1>18 DEF Removed, Unreferenced
<1>20. ConnectionHandles(t)
  BY <1>3, <1>5, <1>12, <1>18, <1>19 DEF ConnectionHandles
<1>21. ConnectionOver(t)
  <2>1. \A o \in Objects : Over(s, o) \in Int
    BY <1>3, OverTyped
  <2>2. \A o \in Objects \ {c} : Over(t, o) = Over(s, o) /\ (o \in t.live <=> o \in s.live)
    BY <1>12, <1>16, <1>17, <1>18, <2>1 DEF Unreferenced
  <2>3. Over(t, c) = 1 /\ c \in t.live
    BY <1>3, <1>4, <1>12, <1>16, <1>17, <1>18 DEF Unreferenced
  <2> QED BY <1>3, <2>2, <2>3 DEF ConnectionOver
<1> QED BY <1>2, <1>3, <1>18, <1>20, <1>21 DEF ConnectionsInv, ConnectionStore

LEMMA CopyConnectionStep ==
  ASSUME ConnectionsInv, NEW v \in Variables, NEW w \in Variables, CopyConnection(v, w)
  PROVE  ConnectionsInv'
<1>1. /\ Var(v) \in DOMAIN store.handles /\ Var(w) \notin DOMAIN store.handles
      /\ store' = CopyHandle(store, Var(v), Var(w)) /\ connected' = connected
  BY DEF CopyConnection, Free, connVars
<1>2. ConnectionStore(store) /\ Counted(store) /\ connected \subseteq store.live
  BY DEF ConnectionsInv, ConnectionStore
<1>3. Copied(store, store', Var(v), Var(w))
  BY <1>1, <1>2, CopyHandleCounted
<1>4. ConnectionStore(store') /\ store'.live = store.live
  BY <1>1, <1>2, <1>3, ConnectionCopied, VariablePlaces
<1> QED BY <1>1, <1>2, <1>4 DEF ConnectionsInv

\* A connection goes from a variable, or from the list of its server.
LEMMA DropStep ==
  ASSUME ConnectionsInv, NEW place \in DOMAIN store.handles,
         store' = DropConnection(store, place), connected' = Closes(store')
  PROVE  ConnectionsInv'
<1>1. ConnectionStore(store')
  BY ConnectionDropped DEF ConnectionsInv
<1>2. connected' \subseteq store'.live
  BY DEF Closes
<1> QED BY <1>1, <1>2 DEF ConnectionsInv

LEMMA ConnectionStepKeeps ==
  ASSUME ConnectionsInv, ConnectionStep
  PROVE  ConnectionsInv'
<1>1. CASE \E v \in Variables, c \in Clients : Open(v, c)
  BY <1>1, OpenStep
<1>2. CASE \E c \in Accepted : Accept(c)
  BY <1>2, AcceptStep
<1>3. CASE \E v, w \in Variables : CopyConnection(v, w)
  BY <1>3, CopyConnectionStep
<1>4. CASE \E v \in Variables : CloseVariable(v)
  BY <1>4, DropStep DEF CloseVariable, Free
<1>5. CASE \E c \in Clients \cup Accepted : Disconnect(c)
  BY <1>5 DEF Disconnect, ConnectionsInv
<1>6. CASE DestroyServer
  BY <1>6 DEF DestroyServer, ConnectionsInv
<1>7. CASE \E c \in Accepted : DropListed(c)
  BY <1>7, DropStep DEF DropListed, Listed
<1> QED BY <1>1, <1>2, <1>3, <1>4, <1>5, <1>6, <1>7 DEF ConnectionStep

\* What ConnectionsInv says of the properties.
LEMMA ConnectionsKept ==
  ASSUME ConnectionsInv
  PROVE  /\ ClosedBeforeItEnds
         /\ \A p \in held : store.handles[p].ptr \in store.live /\ store.refs[store.handles[p].obj] > 0
         /\ \A o \in Objects : (\A p \in held : store.handles[p].obj # o) =>
              IF o \in Clients THEN store.refs[o] <= 1 ELSE store.refs[o] = 0
         /\ \A k \in store.live : \E p \in held : store.handles[p].ptr = k
<1> PICK s : s = store
  OBVIOUS
<1>1. ConnectionStore(s) /\ Counted(s) /\ connected \subseteq s.live
  BY DEF ConnectionsInv, ConnectionStore
<1>2. /\ s.live = {s.handles[p].obj : p \in DOMAIN s.handles} /\ s.live \subseteq Known
      /\ \A p \in DOMAIN s.handles : s.handles[p].obj \in s.live
  BY <1>1, LiveConnections
<1>3. \A p \in DOMAIN s.handles : s.handles[p].ptr = s.handles[p].obj
  BY <1>1 DEF ConnectionStore, Owned, ConnectionHandles
<1>4. ASSUME NEW c \in s.live
      PROVE  s.refs[c] > 0
  <2>1. c \in Objects /\ c \in Known
    BY <1>2, ConnectionsAreObjects
  <2>2. Over(s, c) \in {1, 2}
    BY <1>1, <2>1 DEF ConnectionStore, ConnectionOver, Known
  <2>3. s.refs[c] = Over(s, c) + Cardinality(Of(s, c)) /\ Cardinality(Of(s, c)) \in Nat
    BY <1>1, <2>1, OverTyped
  <2> QED BY <2>2, <2>3
<1>5. ASSUME NEW o \in Objects, \A p \in DOMAIN s.handles : s.handles[p].obj # o
      PROVE  IF o \in Clients THEN s.refs[o] <= 1 ELSE s.refs[o] = 0
  <2>1. o \notin s.live
    BY <1>2, <1>5
  <2>2. /\ o \in Clients => Over(s, o) \in {0, 1}
        /\ o \notin Clients => Over(s, o) = 0
    BY <1>1, <2>1 DEF ConnectionStore, ConnectionOver, Known
  <2>3. s.refs[o] = Over(s, o)
    <3>1. /\ s.refs[o] = Over(s, o) + Cardinality(Of(s, o)) /\ Over(s, o) \in Int
          /\ Cardinality(Of(s, o)) = 0
      BY <1>1, <1>5, OverTyped
    <3> QED BY <3>1
  <2> QED BY <2>2, <2>3
<1>6. \A k \in s.live : \E p \in DOMAIN s.handles : s.handles[p].ptr = k
  BY <1>2, <1>3
<1>7. ClosedBeforeItEnds
  BY <1>1, <1>4 DEF ClosedBeforeItEnds
<1>8. \A p \in DOMAIN s.handles : s.handles[p].ptr \in s.live /\ s.refs[s.handles[p].obj] > 0
  BY <1>2, <1>3, <1>4
<1> QED BY <1>5, <1>6, <1>7, <1>8 DEF held

-----------------------------------------------------------------------------
(* Pending calls. *)

\* A handle of a call, in a store where the calls of n have been notified.
PendingHandle(s, n, p) ==
  LET h == s.handles[p] IN
  /\ p \in AppPlaces /\ h.obj \in Pending /\ h.ptr = h.obj
  /\ h.cnt \in {h.obj, <<"notify", h.obj>>}
  /\ h.obj \notin n => h.cnt = h.obj /\ h.obj \in s.live
\* libdbus waits for the replies of the calls of a.
PendingStore(s, a, n) ==
  /\ Counted(s) /\ \A p \in DOMAIN s.handles : PendingHandle(s, n, p)
  /\ \A k \in s.live : \E p \in DOMAIN s.handles : s.handles[p].obj = k
  /\ \A o \in Objects \ n : Over(s, o) = IF o \in a THEN 1 ELSE 0
  /\ a \subseteq s.live /\ a \cap n = {}
PendingInv == PendingStore(store, attached, notified)

LEMMA PendingFacts ==
  ASSUME NEW s, NEW a, NEW n, PendingStore(s, a, n)
  PROVE  /\ Pending \subseteq Objects /\ s.live \subseteq Pending
         /\ \A p \in DOMAIN s.handles : s.handles[p].obj \in Pending
         /\ \A p \in DOMAIN s.handles : s.handles[p].ptr = s.handles[p].obj
         /\ \A p \in DOMAIN s.handles : s.handles[p].cnt \in {s.handles[p].obj, <<"notify", s.handles[p].obj>>}
         /\ \A p \in DOMAIN s.handles : s.handles[p].obj \notin n =>
              s.handles[p].cnt = s.handles[p].obj /\ s.handles[p].obj \in s.live
         /\ DOMAIN s.count = {s.handles[p].cnt : p \in DOMAIN s.handles}
  BY DEF PendingStore, PendingHandle, Objects, Counted

\* A call whose handles share the counter of the first (none of them is
\* notify_stub()'s): the handles with that counter are its handles.
LEMMA HandlesOfPending ==
  ASSUME NEW s, NEW a, NEW n, PendingStore(s, a, n), NEW o \in Pending \ n
  PROVE  On(s, o) = Of(s, o)
<1>1. \A p \in DOMAIN s.handles : s.handles[p].obj = o => s.handles[p].cnt = o
  BY PendingFacts
<1>2. \A p \in DOMAIN s.handles : s.handles[p].cnt = o => s.handles[p].obj = o
  BY PendingFacts, PendingAssumption
<1> QED BY <1>1, <1>2 DEF On, Of

LEMMA PendingCopied ==
  ASSUME NEW s, NEW a, NEW n, PendingStore(s, a, n), NEW from \in DOMAIN s.handles,
         NEW to \in AppPlaces, to \notin DOMAIN s.handles, NEW t, Copied(s, t, from, to)
  PROVE  PendingStore(t, a, n)
<1>1. /\ Counted(t) /\ Balanced(s, t) /\ t.live = s.live
      /\ DOMAIN t.handles = DOMAIN s.handles \cup {to} /\ t.handles[to] = s.handles[from]
      /\ \A p \in DOMAIN s.handles : t.handles[p] = s.handles[p]
  BY DEF Copied, Added
<1>2. ASSUME NEW p \in DOMAIN t.handles
      PROVE  PendingHandle(t, n, p)
  <2>1. PICK q \in DOMAIN s.handles : t.handles[p] = s.handles[q] /\ p \in AppPlaces
    BY <1>1 DEF PendingStore, PendingHandle
  <2>2. PendingHandle(s, n, q)
    BY DEF PendingStore
  <2> QED BY <1>1, <2>1, <2>2 DEF PendingHandle
<1>3. \A k \in t.live : \E p \in DOMAIN t.handles : t.handles[p].obj = k
  <2>1. \A k \in s.live : \E p \in DOMAIN s.handles : s.handles[p].obj = k
    BY DEF PendingStore
  <2> QED BY <1>1, <2>1
<1>4. \A o \in Objects \ n : Over(t, o) = IF o \in a THEN 1 ELSE 0
  BY <1>1 DEF PendingStore, Balanced
<1> QED BY <1>1, <1>2, <1>3, <1>4 DEF PendingStore

\* The application drops a handle that is not the last one of a call libdbus
\* waits for.
LEMMA PendingDropped ==
  ASSUME NEW s, NEW a, NEW n, PendingStore(s, a, n), NEW place \in DOMAIN s.handles,
         s.handles[place].obj \notin n, s.handles[place].obj \in a => ~Alone(s, place),
         NEW t, Dropped(s, t, place)
  PROVE  PendingStore(t, a, n)
<1> PICK o : o = s.handles[place].obj
  OBVIOUS
<1>1. /\ Counted(t) /\ Balanced(s, t) /\ DOMAIN t.handles = DOMAIN s.handles \ {place}
      /\ \A p \in DOMAIN t.handles : t.handles[p] = s.handles[p]
  BY DEF Dropped, Gone, Removed
<1>2. /\ o \in Pending \ n /\ s.handles[place].cnt = o /\ s.handles[place].ptr = o
  BY PendingFacts
<1>3. On(s, o) = Of(s, o) /\ (Alone(s, place) <=> Of(s, o) = {place})
  BY <1>2, HandlesOfPending DEF Alone
<1>4. t.live = IF Of(s, o) = {place} THEN s.live \ {o} ELSE s.live
  BY <1>2, <1>3 DEF Dropped, Gone
<1>5. ASSUME NEW p \in DOMAIN t.handles
      PROVE  PendingHandle(t, n, p)
  <2>1. PendingHandle(s, n, p) /\ t.handles[p] = s.handles[p] /\ p # place /\ p \in DOMAIN s.handles
    BY <1>1 DEF PendingStore
  <2>2. Of(s, o) = {place} => s.handles[p].obj # o
    BY <2>1 DEF Of
  <2> QED BY <1>4, <2>1, <2>2 DEF PendingHandle
<1>6. ASSUME NEW k \in t.live
      PROVE  \E p \in DOMAIN t.handles : t.handles[p].obj = k
  <2>1. PICK p \in DOMAIN s.handles : s.handles[p].obj = k
    BY <1>4 DEF PendingStore
  <2>2. CASE p # place
    BY <1>1, <2>1, <2>2
  <2>3. CASE p = place
    <3>1. k = o /\ Of(s, o) # {place} /\ place \in Of(s, o)
      BY <1>4, <2>1, <2>3 DEF Of
    <3>2. PICK q \in Of(s, o) : q # place
      BY <3>1
    <3> QED BY <1>1, <3>1, <3>2 DEF Of
  <2> QED BY <2>2, <2>3
<1>7. \A x \in Objects \ n : Over(t, x) = IF x \in a THEN 1 ELSE 0
  BY <1>1 DEF PendingStore, Balanced
<1>8. a \subseteq t.live /\ a \cap n = {}
  BY <1>3, <1>4 DEF PendingStore
<1> QED BY <1>1, <1>5, <1>6, <1>7, <1>8 DEF PendingStore

LEMMA SendAsyncStep ==
  ASSUME PendingInv, NEW v \in Variables, NEW p \in Pending, SendAsync(v, p)
  PROVE  PendingInv'
<1> PICK s : s = store
  OBVIOUS
<1> PICK a : a = attached
  OBVIOUS
<1> PICK n : n = notified
  OBVIOUS
<1> PICK place : place = Var(v)
  OBVIOUS
<1> PICK u : u = Ref(NewPrivate(s, place, p, p), p)
  OBVIOUS
<1> PICK t : t = Ref(u, p)
  OBVIOUS
<1>1. /\ place \notin DOMAIN s.handles /\ s.refs[p] = 0 /\ p \notin n
      /\ store' = t /\ attached' = a \cup {p} /\ notified' = n
  BY Zenon DEF SendAsync, Free
<1>2. PendingStore(s, a, n) /\ Counted(s) /\ place \in AppPlaces /\ p \in Objects
  BY PendingFacts, VariablePlaces DEF PendingInv, PendingStore
<1>3. Over(s, p) = 0 /\ p \notin a /\ \A q \in DOMAIN s.handles : s.handles[q].obj # p
  <2>1. Over(s, p) = IF p \in a THEN 1 ELSE 0
    BY <1>1, <1>2 DEF PendingStore
  <2>2. /\ Cardinality(Of(s, p)) \in Nat /\ 0 = Over(s, p) + Cardinality(Of(s, p))
        /\ Cardinality(Of(s, p)) = 0 <=> \A q \in DOMAIN s.handles : s.handles[q].obj # p
    <3>1. /\ Cardinality(Of(s, p)) \in Nat /\ s.refs[p] = Over(s, p) + Cardinality(Of(s, p))
          /\ Cardinality(Of(s, p)) = 0 <=> \A q \in DOMAIN s.handles : s.handles[q].obj # p
      BY <1>2, OverTyped
    <3> QED BY <1>1, <3>1
  <2>3. Over(s, p) = 0 /\ Cardinality(Of(s, p)) = 0 /\ p \notin a
    BY <2>1, <2>2
  <2> QED BY <2>2, <2>3
<1>4. p \notin DOMAIN s.count
  <2>1. \A q \in DOMAIN s.handles : s.handles[q].cnt # p
    BY <1>2, <1>3, PendingFacts, PendingAssumption
  <2> QED BY <1>2, <2>1, PendingFacts
<1>5. Fresh(s, u, place, p, p)
  BY <1>1, <1>2, <1>4, FreshCounted
<1>6. Referenced(u, t, p)
  BY <1>2, <1>5, RefCounted DEF Fresh
<1>7. /\ Counted(t) /\ t.live = s.live \cup {p}
      /\ DOMAIN t.handles = DOMAIN s.handles \cup {place}
      /\ t.handles[place] = [ptr |-> p, cnt |-> p, obj |-> p]
      /\ \A q \in DOMAIN s.handles : t.handles[q] = s.handles[q]
  BY <1>5, <1>6 DEF Fresh, Added, Referenced
<1>8. ASSUME NEW q \in DOMAIN t.handles
      PROVE  PendingHandle(t, n, q)
  <2>1. CASE q = place
    BY <1>2, <1>7, <2>1 DEF PendingHandle
  <2>2. CASE q \in DOMAIN s.handles
    <3>1. PendingHandle(s, n, q) /\ t.handles[q] = s.handles[q] /\ s.live \subseteq t.live
      BY <1>2, <1>7, <2>2 DEF PendingStore
    <3> QED BY <3>1 DEF PendingHandle
  <2> QED BY <1>7, <2>1, <2>2
<1>9. \A k \in t.live : \E q \in DOMAIN t.handles : t.handles[q].obj = k
  <2>1. \A k \in s.live : \E q \in DOMAIN s.handles : s.handles[q].obj = k
    BY <1>2 DEF PendingStore
  <2> QED BY <1>7, <2>1
<1>10. \A o \in Objects \ n : Over(t, o) = IF o \in a \cup {p} THEN 1 ELSE 0
  <2>1. \A o \in Objects : Over(t, o) = Over(s, o) + (IF o = p THEN 1 ELSE 0)
    BY <1>5, <1>6 DEF Fresh, Balanced, Referenced
  <2>2. \A o \in Objects \ n : Over(s, o) = IF o \in a THEN 1 ELSE 0
    BY <1>2 DEF PendingStore
  <2> QED BY <1>3, <2>1, <2>2
<1>11. a \cup {p} \subseteq t.live /\ (a \cup {p}) \cap n = {}
  BY <1>1, <1>2, <1>7 DEF PendingStore
<1>12. PendingStore(t, a \cup {p}, n)
  BY <1>7, <1>8, <1>9, <1>10, <1>11 DEF PendingStore
<1> QED BY <1>1, <1>12 DEF PendingInv

LEMMA CopyPendingStep ==
  ASSUME PendingInv, NEW v \in Variables, NEW w \in Variables, CopyPending(v, w)
  PROVE  PendingInv'
<1>1. /\ Var(v) \in DOMAIN store.handles /\ Var(w) \notin DOMAIN store.handles
      /\ store' = CopyHandle(store, Var(v), Var(w)) /\ attached' = attached /\ notified' = notified
  BY DEF CopyPending, Usable, Free, pendingVars
<1>2. PendingStore(store, attached, notified) /\ Counted(store)
  BY DEF PendingInv, PendingStore
<1>3. Copied(store, store', Var(v), Var(w))
  BY <1>1, <1>2, CopyHandleCounted
<1>4. PendingStore(store', attached, notified)
  BY <1>1, <1>2, <1>3, PendingCopied, VariablePlaces
<1> QED BY <1>1, <1>4 DEF PendingInv

\* What MayDrop() says.
LEMMA VariableDropped ==
  ASSUME PendingInv, NEW w \in Variables, MayDrop(w)
  PROVE  /\ Var(w) \in held /\ Dropped(store, DropHandle(store, Var(w)), Var(w))
         /\ PendingStore(DropHandle(store, Var(w)), attached, notified)
<1>1. /\ Var(w) \in DOMAIN store.handles
      /\ store.handles[Var(w)].obj \notin notified
      /\ ~(IsLast(w) /\ store.handles[Var(w)].obj \in attached)
  BY DEF MayDrop, Usable, ObjectOf, Free
<1>2. PendingStore(store, attached, notified) /\ Counted(store)
  BY DEF PendingInv, PendingStore
<1>3. IsLast(w) <=> Alone(store, Var(w))
  <2>1. one(store, Var(w)) <=> Alone(store, Var(w))
    BY <1>1, <1>2, OneIsAlone
  <2> QED BY <2>1, Zenon DEF IsLast
<1>4. Dropped(store, DropHandle(store, Var(w)), Var(w))
  BY <1>1, <1>2, DropHandleCounted
<1>5. store.handles[Var(w)].obj \in attached => ~Alone(store, Var(w))
  BY <1>1, <1>3
<1>6. PendingStore(DropHandle(store, Var(w)), attached, notified)
  BY <1>1, <1>2, <1>4, <1>5, PendingDropped
<1> QED BY <1>1, <1>4, <1>6 DEF held

LEMMA DropPendingStep ==
  ASSUME PendingInv, NEW v \in Variables, DropPending(v)
  PROVE  PendingInv'
<1>1. MayDrop(v) /\ store' = DropHandle(store, Var(v)) /\ attached' = attached /\ notified' = notified
  BY DEF DropPending, pendingVars
<1> QED BY <1>1, VariableDropped DEF PendingInv

\* operator= drops one handle and copies the other.
LEMMA AssignIsDropCopy ==
  ASSUME NEW s, Counted(s), NEW to \in DOMAIN s.handles, NEW from \in DOMAIN s.handles, from # to
  PROVE  AssignHandle(s, to, from) = CopyHandle(DropHandle(s, to), from, to)
<1> PICK u : u = DropHandle(s, to)
  OBVIOUS
<1>1. Dropped(s, u, to)
  BY DropHandleCounted
<1>2. u.handles[from] = s.handles[from]
  BY <1>1 DEF Dropped, Gone, Removed
<1>3. AssignHandle(s, to, from) = Ref(CopyPtr(u, from, to), s.handles[from].obj)
  BY Zenon DEF AssignHandle, AssignPtr, DropHandle
<1>4. CopyHandle(u, from, to) = Ref(CopyPtr(u, from, to), u.handles[from].obj)
  BY Zenon DEF CopyHandle
<1> QED BY <1>2, <1>3, <1>4

LEMMA AssignPendingStep ==
  ASSUME PendingInv, NEW v \in Variables, NEW w \in Variables, AssignPending(v, w)
  PROVE  PendingInv'
<1> PICK from : from = Var(v)
  OBVIOUS
<1> PICK to : to = Var(w)
  OBVIOUS
<1> PICK u : u = DropHandle(store, to)
  OBVIOUS
<1>1. /\ MayDrop(w) /\ from \in DOMAIN store.handles /\ from # to
      /\ store' = AssignHandle(store, to, from) /\ attached' = attached /\ notified' = notified
  BY DEF AssignPending, Usable, Free, pendingVars, Var
<1>2. to \in DOMAIN store.handles /\ Dropped(store, u, to) /\ PendingStore(u, attached, notified)
  BY <1>1, VariableDropped DEF held
<1>3. Counted(store) /\ Counted(u)
  BY <1>2 DEF PendingInv, PendingStore
<1>4. store' = CopyHandle(u, from, to)
  BY <1>1, <1>2, <1>3, AssignIsDropCopy
<1>5. from \in DOMAIN u.handles /\ to \notin DOMAIN u.handles
  BY <1>1, <1>2 DEF Dropped, Gone, Removed
<1>6. Copied(u, store', from, to)
  BY <1>3, <1>4, <1>5, CopyHandleCounted
<1>7. PendingStore(store', attached, notified)
  BY <1>2, <1>5, <1>6, PendingCopied, VariablePlaces
<1> QED BY <1>1, <1>7 DEF PendingInv

LEMMA CancelStep ==
  ASSUME PendingInv, NEW v \in Variables, Cancel(v)
  PROVE  PendingInv'
<1> PICK o : o = store.handles[Var(v)].obj
  OBVIOUS
<1>1. /\ o \in attached /\ o \in Pending \ notified
      /\ store' = Unref(store, o) /\ attached' = attached \ {o} /\ notified' = notified
  BY Zenon DEF Cancel, Usable, ObjectOf
<1>2. PendingStore(store, attached, notified) /\ Counted(store) /\ o \in Objects
  BY <1>1, PendingFacts DEF PendingInv, PendingStore
<1>3. Unreferenced(store, store', o)
  BY <1>1, <1>2, UnrefCounted
<1>4. /\ Counted(store') /\ store'.handles = store.handles /\ store'.live = store.live
      /\ \A x \in Objects : Over(store', x) = Over(store, x) - (IF x = o THEN 1 ELSE 0)
  BY <1>3 DEF Unreferenced
<1>5. \A p \in DOMAIN store'.handles : PendingHandle(store', notified, p)
  BY <1>2, <1>4 DEF PendingStore, PendingHandle
<1>6. \A x \in Objects \ notified : Over(store', x) = IF x \in attached \ {o} THEN 1 ELSE 0
  BY <1>1, <1>2, <1>4 DEF PendingStore
<1>7. PendingStore(store', attached \ {o}, notified)
  BY <1>2, <1>4, <1>5, <1>6 DEF PendingStore
<1> QED BY <1>1, <1>7 DEF PendingInv

LEMMA NotifyStep ==
  ASSUME PendingInv, NEW p \in Pending, Notify(p)
  PROVE  PendingInv'
<1> PICK s : s = store
  OBVIOUS
<1> PICK a : a = attached
  OBVIOUS
<1> PICK n : n = notified
  OBVIOUS
<1> PICK place : place = <<"pc", p>>
  OBVIOUS
<1> PICK h : h = [ptr |-> p, cnt |-> <<"notify", p>>, obj |-> p]
  OBVIOUS
<1> PICK l : l = RefPtr(s, place, p, <<"notify", p>>, p)
  OBVIOUS
<1>1. PICK k : /\ k = l \/ \E v \in Variables : Free(v) /\ k = CopyHandle(l, place, Var(v))
               /\ store' = Unref(DropHandle(k, place), p)
  BY Zenon DEF Notify
<1>2. p \in a /\ attached' = a \ {p} /\ notified' = n \cup {p}
  BY Zenon DEF Notify
<1>3. PendingStore(s, a, n) /\ Counted(s) /\ p \in Objects /\ p \in s.live /\ p \in Pending \ n
  BY <1>2, PendingFacts DEF PendingInv, PendingStore
<1>4. place \notin AppPlaces /\ \A v \in Variables : Var(v) \in AppPlaces /\ Var(v) # place
  BY DEF AppPlaces, Var
<1>5. place \notin DOMAIN s.handles
  BY <1>3, <1>4 DEF PendingStore, PendingHandle
<1>6. <<"notify", p>> \notin DOMAIN s.count
  <2>1. \A q \in DOMAIN s.handles : s.handles[q].cnt # <<"notify", p>>
    <3> SUFFICES ASSUME NEW q \in DOMAIN s.handles, s.handles[q].cnt = <<"notify", p>>
                 PROVE  FALSE
      OBVIOUS
    <3> PICK o : o = s.handles[q].obj
      OBVIOUS
    <3>1. o \in Pending /\ <<"notify", p>> \in {o, <<"notify", o>>} /\ (o \notin n => <<"notify", p>> = o)
      BY <1>3, PendingFacts
    <3>2. <<"notify", p>> # o
      BY <1>3, <3>1, PendingAssumption
    <3>3. o = p
      BY <3>1, <3>2
    <3> QED BY <1>3, <3>1, <3>2, <3>3
  <2> QED BY <1>3, <2>1, PendingFacts
<1>7. Pointed(s, l, place, h) /\ l.live = s.live
  BY <1>3, <1>5, <1>6, RefPtrCounted
\* With the stub's handle, and perhaps a copy of it.
<1> DEFINE Notifying(places) ==
      /\ places \subseteq AppPlaces /\ Counted(k) /\ k.live = s.live
      /\ DOMAIN k.handles = DOMAIN s.handles \cup {place} \cup places
      /\ \A q \in {place} \cup places : k.handles[q] = h
      /\ \A q \in DOMAIN s.handles : k.handles[q] = s.handles[q]
      /\ \A o \in Objects : Over(k, o) = Over(s, o) - (IF o = p THEN 1 ELSE 0)
<1>8. \E places : Notifying(places)
  <2>1. CASE k = l
    <3>1. Notifying({})
      BY <1>7, <2>1 DEF Pointed, Added
    <3> HIDE DEF Notifying
    <3> QED BY <3>1
  <2>2. ASSUME NEW v \in Variables, Free(v), k = CopyHandle(l, place, Var(v))
        PROVE  Notifying({Var(v)})
    <3>1. Var(v) \notin DOMAIN l.handles /\ place \in DOMAIN l.handles /\ Counted(l)
      BY <1>4, <1>7, <2>2 DEF Free, Pointed, Added
    <3>2. Copied(l, k, place, Var(v))
      BY <2>2, <3>1, CopyHandleCounted
    <3>3. Counted(k) /\ k.live = s.live
          /\ \A o \in Objects : Over(k, o) = Over(s, o) - (IF o = p THEN 1 ELSE 0)
      BY <1>7, <3>2 DEF Copied, Balanced, Pointed
    <3>4. /\ DOMAIN k.handles = DOMAIN s.handles \cup {place} \cup {Var(v)}
          /\ \A q \in {place} \cup {Var(v)} : k.handles[q] = h
          /\ \A q \in DOMAIN s.handles : k.handles[q] = s.handles[q]
      BY <1>5, <1>7, <3>1, <3>2 DEF Copied, Added, Pointed
    <3> QED BY <1>4, <3>3, <3>4
  <2> HIDE DEF Notifying
  <2> QED BY <1>1, <2>1, <2>2
<1>9. PICK places : Notifying(places)
  BY <1>8
<1> PICK d : d = DropHandle(k, place)
  OBVIOUS
<1> PICK t : t = Unref(d, p)
  OBVIOUS
<1>10. Dropped(k, d, place)
  BY <1>9, DropHandleCounted
<1>11. Unreferenced(d, t, p)
  BY <1>3, <1>10, UnrefCounted DEF Dropped, Gone
<1>12. /\ Counted(t) /\ t.handles = d.handles /\ d.live = t.live
       /\ DOMAIN t.handles = DOMAIN s.handles \cup places
  BY <1>4, <1>5, <1>9, <1>10, <1>11 DEF Dropped, Gone, Removed, Unreferenced
<1>13. /\ \A q \in places : t.handles[q] = h
       /\ \A q \in DOMAIN s.handles : t.handles[q] = s.handles[q]
  BY <1>4, <1>5, <1>9, <1>10, <1>12 DEF Dropped, Gone, Removed
<1>14. t.live \subseteq s.live /\ s.live \ {p} \subseteq t.live
  <2>1. k.handles[place].ptr = p
    BY <1>9
  <2> QED BY <1>9, <1>10, <1>12, <2>1 DEF Dropped, Gone
<1>15. ASSUME NEW q \in DOMAIN t.handles
       PROVE  PendingHandle(t, n \cup {p}, q)
  <2>1. CASE q \in DOMAIN s.handles
    <3>1. PendingHandle(s, n, q) /\ t.handles[q] = s.handles[q]
      BY <1>3, <1>13, <2>1 DEF PendingStore
    <3> QED BY <1>14, <3>1 DEF PendingHandle
  <2>2. CASE q \in places
    <3>1. t.handles[q] = h /\ q \in AppPlaces
      BY <1>9, <1>13, <2>2
    <3> QED BY <3>1 DEF PendingHandle
  <2> QED BY <1>12, <2>1, <2>2
<1>16. \A x \in t.live : \E q \in DOMAIN t.handles : t.handles[q].obj = x
  <2>1. \A x \in s.live : \E q \in DOMAIN s.handles : s.handles[q].obj = x
    BY <1>3 DEF PendingStore
  <2> QED BY <1>12, <1>13, <1>14, <2>1
<1>17. \A o \in Objects \ (n \cup {p}) : Over(t, o) = IF o \in a \ {p} THEN 1 ELSE 0
  <2>1. \A o \in Objects \ {p} : Over(t, o) = Over(s, o)
    <3>1. \A o \in Objects : Over(s, o) \in Int
      BY <1>3, OverTyped
    <3> QED BY <1>9, <1>10, <1>11, <3>1 DEF Dropped, Balanced, Unreferenced
  <2> QED BY <1>3, <2>1 DEF PendingStore
<1>18. a \ {p} \subseteq t.live /\ (a \ {p}) \cap (n \cup {p}) = {}
  BY <1>3, <1>14 DEF PendingStore
<1>19. PendingStore(t, a \ {p}, n \cup {p})
  BY <1>12, <1>15, <1>16, <1>17, <1>18 DEF PendingStore
<1> QED BY <1>1, <1>2, <1>19 DEF PendingInv

LEMMA PendingStepKeeps ==
  ASSUME PendingInv, PendingStep
  PROVE  PendingInv'
<1>1. CASE \E v \in Variables, p \in Pending : SendAsync(v, p)
  BY <1>1, SendAsyncStep
<1>2. CASE \E v, w \in Variables : CopyPending(v, w)
  BY <1>2, CopyPendingStep
<1>3. CASE \E v, w \in Variables : AssignPending(v, w)
  BY <1>3, AssignPendingStep
<1>4. CASE \E v \in Variables : DropPending(v)
  BY <1>4, DropPendingStep
<1>5. CASE \E v \in Variables : Cancel(v)
  BY <1>5, CancelStep
<1>6. CASE \E p \in Pending : Notify(p)
  BY <1>6, NotifyStep
<1> QED BY <1>1, <1>2, <1>3, <1>4, <1>5, <1>6 DEF PendingStep

\* What PendingInv says of the properties.
LEMMA PendingKept ==
  ASSUME PendingInv
  PROVE  /\ HandlesValid
         /\ \A o \in Unheld : store.refs[o] = 0
         /\ \A k \in store.live : \E p \in held : store.handles[p].ptr = k
<1> PICK s : s = store
  OBVIOUS
<1>1. PendingStore(s, attached, notified) /\ Counted(s)
  BY DEF PendingInv, PendingStore
<1>2. \A o \in Objects \ notified : Over(s, o) = IF o \in attached THEN 1 ELSE 0
  BY <1>1 DEF PendingStore
<1>3. ASSUME NEW p \in DOMAIN s.handles, s.handles[p].obj \notin notified
      PROVE  s.handles[p].ptr \in s.live /\ s.refs[s.handles[p].obj] > 0
  <2> PICK o : o = s.handles[p].obj
    OBVIOUS
  <2>1. o \in Objects /\ s.handles[p].ptr \in s.live
    BY <1>1, <1>3, PendingFacts
  <2>2. Over(s, o) \in {0, 1}
    BY <1>2, <1>3, <2>1
  <2>3. /\ Cardinality(Of(s, o)) \in Nat /\ s.refs[o] = Over(s, o) + Cardinality(Of(s, o))
        /\ Cardinality(Of(s, o)) # 0
    BY <1>1, <2>1, OverTyped
  <2> QED BY <2>1, <2>2, <2>3
<1>4. HandlesValid
  BY <1>1, <1>3 DEF HandlesValid, InUse, PendingStore
<1>5. ASSUME NEW o \in Unheld
      PROVE  s.refs[o] = 0
  <2>1. /\ o \in Objects /\ o \notin attached /\ o \notin notified
        /\ \A p \in DOMAIN s.handles : s.handles[p].obj # o
    BY DEF Unheld
  <2>2. Over(s, o) = 0
    BY <1>2, <2>1
  <2>3. s.refs[o] = Over(s, o) + Cardinality(Of(s, o)) /\ Cardinality(Of(s, o)) = 0
    BY <1>1, <2>1, OverTyped
  <2> QED BY <2>2, <2>3
<1>6. \A k \in s.live : \E p \in DOMAIN s.handles : s.handles[p].ptr = k
  <2>1. \A k \in s.live : \E p \in DOMAIN s.handles : s.handles[p].obj = k
    BY <1>1 DEF PendingStore
  <2>2. \A p \in DOMAIN s.handles : s.handles[p].ptr = s.handles[p].obj
    BY <1>1, PendingFacts
  <2> QED BY <2>1, <2>2
<1> QED BY <1>4, <1>5, <1>6 DEF held

-----------------------------------------------------------------------------
(* Messages. *)

\* A store whose handles come to the places of `in' and leave those of `out'.
Moved(s, t, in, out) ==
  /\ Counted(t) /\ Owned(t) /\ Balanced(s, t)
  /\ DOMAIN t.handles = (DOMAIN s.handles \cup in) \ out
  /\ \A p \in DOMAIN s.handles \ (in \cup out) : t.handles[p] = s.handles[p]

LEMMA FreshMoves ==
  ASSUME NEW s, Counted(s), Owned(s), NEW t, NEW place, NEW name, NEW obj,
         place \notin DOMAIN s.handles, Fresh(s, t, place, name, obj)
  PROVE  Moved(s, t, {place}, {})
  BY DEF Fresh, Moved, Added

LEMMA CopyMoves ==
  ASSUME NEW s, Counted(s), Owned(s), NEW from \in DOMAIN s.handles,
         NEW to, to \notin DOMAIN s.handles
  PROVE  Moved(s, CopyHandle(s, from, to), {to}, {})
<1>1. Copied(s, CopyHandle(s, from, to), from, to)
  BY CopyHandleCounted
<1> QED BY <1>1 DEF Copied, Moved, Added

LEMMA CopyApartMoves ==
  ASSUME NEW s, Counted(s), Owned(s), NEW from \in DOMAIN s.handles,
         NEW to, to \notin DOMAIN s.handles, NEW name, name \notin DOMAIN s.count
  PROVE  Moved(s, CopyApart(s, from, to, name), {to}, {})
<1> PICK t : t = CopyApart(s, from, to, name)
  OBVIOUS
<1> PICK obj : obj = s.handles[from].obj
  OBVIOUS
<1>1. Fresh(s, CopyApart(s, from, to, name), to, name, s.handles[from].obj)
  BY CopyApartCounted
<1>2. Fresh(s, t, to, name, obj)
  BY <1>1
<1>3. Moved(s, t, {to}, {})
  BY <1>2, FreshMoves
<1> QED BY <1>3

LEMMA DropMoves ==
  ASSUME NEW s, Counted(s), Owned(s), NEW place \in DOMAIN s.handles
  PROVE  LET t == DropHandle(s, place) IN
         Moved(s, t, {}, {place}) /\ DOMAIN t.count \subseteq DOMAIN s.count
<1>1. Dropped(s, DropHandle(s, place), place)
  BY DropHandleCounted
<1> QED BY <1>1 DEF Dropped, Gone, Moved, Removed

\* Two of them in turn.
LEMMA MovedTwice ==
  ASSUME NEW s, NEW t, NEW u, NEW in1, NEW out1, NEW in2, NEW out2,
         Moved(s, t, in1, out1), Moved(t, u, in2, out2), in2 \cap out1 = {}
  PROVE  Moved(s, u, in1 \cup in2, out1 \cup out2)
<1>1. Balanced(s, u)
  BY DEF Moved, Balanced
<1>2. DOMAIN u.handles = (DOMAIN s.handles \cup (in1 \cup in2)) \ (out1 \cup out2)
  BY DEF Moved
<1>3. \A p \in DOMAIN s.handles \ (in1 \cup in2 \cup (out1 \cup out2)) : u.handles[p] = s.handles[p]
  BY DEF Moved
<1> QED BY <1>1, <1>2, <1>3 DEF Moved

LEMMA DropHeldMoves ==
  ASSUME NEW s, Counted(s), Owned(s), NEW place
  PROVE  Moved(s, DropHeld(s, place), {}, {place})
<1>1. CASE place \in DOMAIN s.handles
  BY <1>1, DropMoves, Zenon DEF DropHeld
<1>2. CASE place \notin DOMAIN s.handles
  <2>1. DropHeld(s, place) = s
    BY <1>2, Zenon DEF DropHeld
  <2> QED BY <1>2, <2>1 DEF Moved, Balanced
<1> QED BY <1>1, <1>2

LEMMA DropLocalsMoves ==
  ASSUME NEW s, Counted(s), Owned(s), NEW th
  PROVE  Moved(s, DropLocals(s, th), {}, {<<"res", th>>, <<"msg", th>>})
<1> PICK u : u = DropHeld(s, <<"res", th>>)
  OBVIOUS
<1>1. Moved(s, u, {}, {<<"res", th>>})
  BY DropHeldMoves
<1>2. Moved(u, DropHeld(u, <<"msg", th>>), {}, {<<"msg", th>>})
  BY <1>1, DropHeldMoves DEF Moved
<1>3. Moved(s, DropHeld(u, <<"msg", th>>), {} \cup {}, {<<"res", th>>} \cup {<<"msg", th>>})
  BY <1>1, <1>2, MovedTwice
<1>4. {<<"res", th>>} \cup {<<"msg", th>>} = {<<"res", th>>, <<"msg", th>>}
  OBVIOUS
<1>5. DropLocals(s, th) = DropHeld(u, <<"msg", th>>)
  BY Zenon DEF DropLocals
<1> QED BY <1>3, <1>4, <1>5

\* Where the messages of a call are, until the reply to it has been sent.
MessagePlaces ==
  {<<"stub", "dispatcher">>} \cup ({"msg", "res"} \X Threads)
    \cup ({"request", "continuation", "parked", "response", "answer"} \X Calls)
InFlight(c) ==
  \/ c \in ToSet(requestQueue) \/ c \in ToSet(responseQueue) \/ Sending(c)
  \/ pc[c] \in {"resume", "post"}
  \/ \E w \in Workers : job[w] = c /\ pc[w] \in {"method", "defer", "post"}
Recording(c) == pc["dispatcher"] = "record" /\ job["dispatcher"] = c
WorkerPlaces ==
  \A w \in Workers : /\ Active(w) => <<"msg", w>> \in held
                     /\ pc[w] = "post" => <<"res", w>> \in held
HelperPlaces ==
  \A c \in Calls : /\ <<"msg", c>> \in held <=> pc[c] \in {"post", "finish"}
                   /\ <<"res", c>> \in held <=> pc[c] \in {"post", "finish"}
                   /\ <<"parked", c>> \in held <=> pc[c] = "resume"
QueuePlaces ==
  \A c \in Calls : /\ <<"request", c>> \in held <=> c \in ToSet(requestQueue)
                   /\ <<"response", c>> \in held <=> c \in ToSet(responseQueue)
                   /\ <<"answer", c>> \in held <=> c \in ToSet(responseQueue)
ContinuationPlaces ==
  \A c \in Calls : /\ <<"continuation", c>> \in held <=> InFlight(c) /\ ~Recording(c)
                   /\ Recording(c) => InFlight(c)
PlacesInv ==
  held \subseteq MessagePlaces /\ WorkerPlaces /\ HelperPlaces /\ QueuePlaces /\ ContinuationPlaces

\* libdbus has a reference of the call it has just taken from the bus.
Borrowing(o) ==
  pc["dispatcher"] \in {"forward", "record", "leave"} /\ o = <<"call", job["dispatcher"]>>
StubInv == \A o : Borrowing(o) => store.handles[<<"stub", "dispatcher">>].obj = o
MessagesOver == \A o \in Objects : Over(store, o) = IF Borrowing(o) THEN 1 ELSE 0
CountsInv ==
  /\ Counted(store) /\ Owned(store) /\ PlacesInv /\ StubInv /\ MessagesOver

\* Whose a counter is.
LEMMA CounterOwner ==
  ASSUME MessagesInv, CountsInv, NEW p \in held, NEW role, NEW x,
         store.handles[p].cnt = <<role, x>>
  PROVE  \/ role = "stub" /\ p = <<"stub", "dispatcher">> /\ x = job["dispatcher"]
         \/ role = "stub" /\ p = <<"continuation", x>> /\ x \in Calls
         \/ role = "sent" /\ p = <<"msg", "dispatcher">> /\ x = job["dispatcher"]
         \/ role = "answer" /\ p = <<"res", "dispatcher">> /\ x = job["dispatcher"]
         \/ role = "msg" /\ \E w \in Workers : p = <<"msg", w>> /\ x = job[w]
         \/ role = "res" /\ \E w \in Workers : p = <<"res", w>> /\ x = job[w]
         \/ role = "call_msg" /\ p = <<"msg", x>> /\ x \in Calls
         \/ role = "res" /\ p = <<"res", x>> /\ x \in Calls
         \/ role \in {"request", "parked", "response", "answer"} /\ p = <<role, x>> /\ x \in Calls
<1>1. p \in MessagePlaces
  BY DEF CountsInv, PlacesInv
<1>2. \A r, y : CounterOf(p, <<r, y>>) => role = r /\ x = y
  <2>1. \A r, y : <<role, x>> = <<r, y>> => role = r /\ x = y
    OBVIOUS
  <2> QED BY <2>1 DEF CounterOf
<1>3. CASE p = <<"stub", "dispatcher">>
  BY <1>2, <1>3 DEF MessagesInv, NamesInv
<1>4. ASSUME NEW th \in Threads, p = <<"msg", th>> \/ p = <<"res", th>>
      PROVE  \/ role = "sent" /\ p = <<"msg", "dispatcher">> /\ x = job["dispatcher"]
             \/ role = "answer" /\ p = <<"res", "dispatcher">> /\ x = job["dispatcher"]
             \/ role = "msg" /\ \E w \in Workers : p = <<"msg", w>> /\ x = job[w]
             \/ role = "res" /\ \E w \in Workers : p = <<"res", w>> /\ x = job[w]
             \/ role = "call_msg" /\ p = <<"msg", x>> /\ x \in Calls
             \/ role = "res" /\ p = <<"res", x>> /\ x \in Calls
  <2>1. CASE th = "dispatcher"
    BY <1>2, <1>4, <2>1 DEF MessagesInv, NamesInv
  <2>2. CASE th \in Workers
    BY <1>2, <1>4, <2>2 DEF MessagesInv, NamesInv
  <2>3. CASE th \in Calls
    BY <1>2, <1>4, <2>3 DEF MessagesInv, NamesInv
  <2> QED BY <2>1, <2>2, <2>3 DEF Threads
<1>5. ASSUME NEW c \in Calls, p = <<"continuation", c>>
      PROVE  role = "stub" /\ p = <<"continuation", x>> /\ x \in Calls
  BY <1>2, <1>5 DEF MessagesInv, NamesInv
<1>6. ASSUME NEW c \in Calls, NEW r \in {"request", "parked", "response", "answer"}, p = <<r, c>>
      PROVE  role = r /\ p = <<role, x>> /\ x \in Calls
  <2>1. CounterOf(p, <<r, c>>)
    BY <1>6 DEF MessagesInv, NamesInv
  <2>2. role = r /\ x = c
    BY <1>2, <2>1
  <2> QED BY <1>6, <2>2
<1>7. \/ p = <<"stub", "dispatcher">>
      \/ \E th \in Threads : p = <<"msg", th>> \/ p = <<"res", th>>
      \/ \E c \in Calls : p = <<"continuation", c>>
      \/ \E c \in Calls, r \in {"request", "parked", "response", "answer"} : p = <<r, c>>
  BY <1>1 DEF MessagePlaces
<1> QED BY <1>3, <1>4, <1>5, <1>6, <1>7

\* No counter has a name that is no handle's.
LEMMA UnusedName ==
  ASSUME NEW s, Counted(s), NEW name, \A p \in DOMAIN s.handles : s.handles[p].cnt # name
  PROVE  name \notin DOMAIN s.count
  BY DEF Counted

-----------------------------------------------------------------------------
(* Each step of the threads, given what it does to the places. *)

LEMMA ThreadsApart ==
  /\ "dispatcher" \in Threads /\ Workers \subseteq Threads /\ Calls \subseteq Threads
  /\ "dispatcher" \notin Workers /\ "dispatcher" \notin Calls /\ Workers \cap Calls = {}
  BY DistinctAssumption DEF Threads

LEMMA Ended ==
  ASSUME MessagesInv, NEW th \in Threads, NEW step, NEW next, End(th, step, next)
  PROVE  pc[th] = step /\ pc'[th] = next /\ \A u \in Threads \ {th} : pc'[u] = pc[u]
  BY DEF End, MessagesInv, ThreadsTyped

LEMMA CountsKept ==
  ASSUME CountsInv, HeldInv, NEW in, NEW out, Moved(store, store', in, out),
         <<"stub", "dispatcher">> \notin in \cup out, \A o : Borrowing(o)' <=> Borrowing(o),
         in \subseteq MessagePlaces,
         WorkerPlaces', HelperPlaces', QueuePlaces', ContinuationPlaces'
  PROVE  CountsInv'
<1>1. Counted(store') /\ Owned(store') /\ Balanced(store, store')
  BY DEF Moved
<1>2. held' \subseteq MessagePlaces
  BY DEF Moved, held, CountsInv, PlacesInv
<1>3. ASSUME NEW o, Borrowing(o)'
      PROVE  store'.handles[<<"stub", "dispatcher">>].obj = o
  <2>1. Borrowing(o)
    BY <1>3
  <2>2. <<"stub", "dispatcher">> \in DOMAIN store.handles
    BY <2>1 DEF Borrowing, HeldInv, held
  <2>3. store'.handles[<<"stub", "dispatcher">>] = store.handles[<<"stub", "dispatcher">>]
    BY <2>2 DEF Moved
  <2> QED BY <2>1, <2>3 DEF CountsInv, StubInv
<1>4. StubInv'
  BY <1>3 DEF StubInv
<1>5. MessagesOver'
  <2>1. \A o \in Objects : Over(store', o) = IF Borrowing(o) THEN 1 ELSE 0
    BY <1>1 DEF Balanced, CountsInv, MessagesOver
  <2> QED BY <2>1 DEF MessagesOver
<1> QED BY <1>1, <1>2, <1>4, <1>5 DEF CountsInv, PlacesInv

\* A step that has nothing to do with a Continuation.
LEMMA ContinuationsKept ==
  ASSUME ContinuationPlaces,
         \A c \in Calls : /\ <<"continuation", c>> \in held' <=> <<"continuation", c>> \in held
                          /\ InFlight(c)' <=> InFlight(c)
                          /\ Recording(c)' <=> Recording(c)
  PROVE  ContinuationPlaces'
  BY DEF ContinuationPlaces

LEMMA CountedMessages ==
  ASSUME CountsInv
  PROVE  /\ Counted(store) /\ Owned(store)
         /\ WorkerPlaces /\ HelperPlaces /\ QueuePlaces /\ ContinuationPlaces
  BY DEF CountsInv, PlacesInv

LEMMA ForwardCounts ==
  ASSUME MessagesInv, CountsInv, Forward
  PROVE  CountsInv'
<1> DEFINE d == "dispatcher"
<1> PICK c : c = job[d]
  OBVIOUS
<1>1. /\ End(d, "forward", "record") /\ job' = job /\ responseQueue' = responseQueue
      /\ store' = CopyApart(store, <<"stub", d>>, <<"request", c>>, <<"request", c>>)
      /\ requestQueue' = Append(requestQueue, c)
  BY DEF Forward
<1>2. pc[d] = "forward" /\ pc'[d] = "record" /\ \A u \in Workers \cup Calls : pc'[u] = pc[u]
  BY <1>1, Ended, ThreadsApart
<1>3. c \in Calls /\ <<"stub", d>> \in DOMAIN store.handles
  BY <1>2 DEF MessagesInv, JobsInv, HeldInv, held
<1>4. c \notin ToSet(requestQueue) /\ Untouched(c)
  BY <1>2, <1>3 DEF MessagesInv, RequestsInv, Forwarding
<1>5. ~InFlight(c)
  BY <1>4 DEF Untouched, InFlight, Active
<1>6. <<"request", c>> \notin held /\ <<"continuation", c>> \notin held
  BY <1>3, <1>4, <1>5, CountedMessages DEF QueuePlaces, ContinuationPlaces
<1>7. Moved(store, store', {<<"request", c>>}, {})
  <2>1. \A p \in DOMAIN store.handles : store.handles[p].cnt # <<"request", c>>
    BY <1>6, CounterOwner DEF held
  <2>2. <<"request", c>> \notin DOMAIN store.count
    BY <2>1, CountedMessages, UnusedName
  <2> QED BY <1>1, <1>3, <1>6, <2>2, CountedMessages, CopyApartMoves DEF held
<1>8. held' = held \cup {<<"request", c>>}
  BY <1>7 DEF Moved, held
<1>9. ToSet(requestQueue') = ToSet(requestQueue) \cup {c}
  BY <1>1, <1>3, <1>4, AppendedQueue DEF MessagesInv, ThreadsTyped, RequestsInv
<1>10. \A x \in Calls : InFlight(x)' <=> InFlight(x) \/ x = c
  BY <1>1, <1>2, <1>9 DEF InFlight, Sending
<1>11. WorkerPlaces' /\ HelperPlaces'
  BY <1>1, <1>2, <1>8, CountedMessages DEF WorkerPlaces, HelperPlaces, Active
<1>12. QueuePlaces'
  BY <1>1, <1>8, <1>9, CountedMessages DEF QueuePlaces
<1>13. ContinuationPlaces'
  BY <1>1, <1>2, <1>6, <1>8, <1>10, CountedMessages DEF ContinuationPlaces, Recording
<1>14. \A o : Borrowing(o)' <=> Borrowing(o)
  BY <1>1, <1>2 DEF Borrowing
<1>15. {<<"request", c>>} \subseteq MessagePlaces /\ <<"stub", d>> \notin {<<"request", c>>} \cup {}
  BY <1>3 DEF MessagePlaces
<1> HIDE DEF d
<1> QED BY <1>7, <1>11, <1>12, <1>13, <1>14, <1>15, CountsKept DEF MessagesInv, d

LEMMA RecordCounts ==
  ASSUME MessagesInv, CountsInv, Record
  PROVE  CountsInv'
<1> DEFINE d == "dispatcher"
<1> PICK c : c = job[d]
  OBVIOUS
<1>1. /\ End(d, "record", "leave") /\ job' = job
      /\ responseQueue' = responseQueue /\ requestQueue' = requestQueue
      /\ store' = CopyHandle(store, <<"stub", d>>, <<"continuation", c>>)
  BY DEF Record
<1>2. pc[d] = "record" /\ pc'[d] = "leave" /\ \A u \in Workers \cup Calls : pc'[u] = pc[u]
  BY <1>1, Ended, ThreadsApart
<1>3. c \in Calls /\ <<"stub", d>> \in DOMAIN store.handles
  BY <1>2 DEF MessagesInv, JobsInv, HeldInv, held
<1>4. Recording(c) /\ InFlight(c) /\ <<"continuation", c>> \notin held
  BY <1>2, <1>3, CountedMessages DEF Recording, ContinuationPlaces
<1>5. Moved(store, store', {<<"continuation", c>>}, {})
  BY <1>1, <1>3, <1>4, CountedMessages, CopyMoves DEF held
<1>6. held' = held \cup {<<"continuation", c>>}
  BY <1>5 DEF Moved, held
<1>7. \A x \in Calls : InFlight(x)' <=> InFlight(x)
  BY <1>1, <1>2 DEF InFlight, Sending
<1>8. WorkerPlaces' /\ HelperPlaces' /\ QueuePlaces'
  BY <1>1, <1>2, <1>6, CountedMessages DEF WorkerPlaces, HelperPlaces, QueuePlaces, Active
<1>9. ContinuationPlaces'
  BY <1>1, <1>2, <1>4, <1>6, <1>7, CountedMessages DEF ContinuationPlaces, Recording
<1>10. \A o : Borrowing(o)' <=> Borrowing(o)
  BY <1>1, <1>2 DEF Borrowing
<1>11. {<<"continuation", c>>} \subseteq MessagePlaces /\ <<"stub", d>> \notin {<<"continuation", c>>} \cup {}
  BY <1>3 DEF MessagePlaces
<1> QED BY <1>5, <1>8, <1>9, <1>10, <1>11, CountsKept DEF MessagesInv

\* Start() lets a thread take from a queue that has something.
LEMMA QueueNotEmpty ==
  ASSUME MessagesInv, NEW th \in Threads, touching[th] # {}
  PROVE  /\ pc[th] = "pop" => requestQueue # << >>
         /\ pc[th] = "take" => responseQueue # << >>
<1>1. touching[th] \subseteq Counters(th)
  BY DEF MessagesInv, TouchInv
<1>2. CASE pc[th] = "pop"
  <2>1. ToSet(requestQueue) # {}
    BY <1>1, <1>2 DEF Counters, Queued
  <2> QED BY <1>2, <2>1 DEF ToSet
<1>3. CASE pc[th] = "take"
  <2>1. ToSet(responseQueue) # {}
    BY <1>1, <1>3 DEF Counters, Queued
  <2> QED BY <1>3, <2>1 DEF ToSet
<1> QED BY <1>2, <1>3

LEMMA PopCounts ==
  ASSUME MessagesInv, CountsInv, NEW w \in Workers, Pop(w)
  PROVE  CountsInv'
<1> PICK c : c = Head(requestQueue)
  OBVIOUS
<1> PICK u : u = CopyApart(store, <<"request", c>>, <<"msg", w>>, <<"msg", c>>)
  OBVIOUS
<1>1. /\ End(w, "pop", "method") /\ job' = [job EXCEPT ![w] = c]
      /\ responseQueue' = responseQueue /\ requestQueue' = Tail(requestQueue)
      /\ store' = DropHandle(u, <<"request", c>>) /\ touching[w] # {}
  BY DEF Pop, End
<1>2. /\ pc[w] = "pop" /\ pc'[w] = "method" /\ \A v \in Threads \ {w} : pc'[v] = pc[v]
      /\ job'[w] = c /\ \A v \in Threads \ {w} : job'[v] = job[v]
  BY <1>1, Ended, ThreadsApart DEF MessagesInv, ThreadsTyped
<1>3. requestQueue # << >>
  BY <1>1, <1>2, QueueNotEmpty, ThreadsApart
<1>4. /\ c \in Calls /\ c \in ToSet(requestQueue)
      /\ ToSet(requestQueue') = ToSet(requestQueue) \ {c}
  BY <1>1, <1>3, TailOfQueue DEF MessagesInv, ThreadsTyped, RequestsInv
<1>5. Untouched(c)
  BY <1>4 DEF MessagesInv, RequestsInv
<1>6. <<"request", c>> \in held /\ <<"msg", w>> \notin held
  BY <1>2, <1>4, CountedMessages DEF QueuePlaces, MessagesInv, HeldInv
<1>7. \A v \in Workers : job[v] = c => <<"msg", v>> \notin held
  BY <1>5 DEF Untouched, Active, MessagesInv, HeldInv
<1>8. Moved(store, u, {<<"msg", w>>}, {})
  <2>1. \A p \in DOMAIN store.handles : store.handles[p].cnt # <<"msg", c>>
    BY <1>7, CounterOwner DEF held
  <2>2. <<"msg", c>> \notin DOMAIN store.count
    BY <2>1, CountedMessages, UnusedName
  <2> QED BY <1>6, <2>2, CountedMessages, CopyApartMoves DEF held
<1>9. Moved(u, store', {}, {<<"request", c>>})
  <2>1. Counted(u) /\ Owned(u) /\ <<"request", c>> \in DOMAIN u.handles
    BY <1>6, <1>8 DEF Moved, held
  <2> QED BY <1>1, <2>1, DropMoves
<1>10. Moved(store, store', {<<"msg", w>>}, {<<"request", c>>})
  <2>1. Moved(store, store', {<<"msg", w>>} \cup {}, {} \cup {<<"request", c>>})
    BY <1>8, <1>9, MovedTwice
  <2> QED BY <2>1
<1>11. held' = (held \cup {<<"msg", w>>}) \ {<<"request", c>>}
  BY <1>10 DEF Moved, held
<1>12. \A x \in Calls : InFlight(x)' <=> InFlight(x)
  <2>1. \A x \in Calls : Sending(x)' <=> Sending(x)
    BY <1>2, ThreadsApart DEF Sending
  <2>2. \A x \in Calls : pc'[x] = pc[x]
    BY <1>2, ThreadsApart
  <2>3. ASSUME NEW x \in Calls \ {c}
        PROVE  InFlight(x)' <=> InFlight(x)
    <3>1. \A v \in Workers : (job'[v] = x /\ pc'[v] \in {"method", "defer", "post"})
                               <=> (job[v] = x /\ pc[v] \in {"method", "defer", "post"})
      BY <1>2, ThreadsApart
    <3> QED BY <1>1, <1>4, <2>1, <2>2, <3>1 DEF InFlight
  <2>4. InFlight(c) /\ InFlight(c)'
    BY <1>2, <1>4 DEF InFlight
  <2> QED BY <2>3, <2>4
<1>13. WorkerPlaces'
  BY <1>2, <1>11, ThreadsApart, CountedMessages DEF WorkerPlaces, Active
<1>14. HelperPlaces'
  BY <1>2, <1>11, ThreadsApart, CountedMessages DEF HelperPlaces
<1>15. QueuePlaces'
  BY <1>1, <1>4, <1>11, CountedMessages DEF QueuePlaces
<1>16. ContinuationPlaces'
  BY <1>2, <1>11, <1>12, ThreadsApart, CountedMessages, ContinuationsKept DEF Recording
<1>17. \A o : Borrowing(o)' <=> Borrowing(o)
  BY <1>2, ThreadsApart DEF Borrowing
<1>18. /\ {<<"msg", w>>} \subseteq MessagePlaces
       /\ <<"stub", "dispatcher">> \notin {<<"msg", w>>} \cup {<<"request", c>>}
  BY ThreadsApart DEF MessagePlaces
<1> QED BY <1>10, <1>13, <1>14, <1>15, <1>16, <1>17, <1>18, CountsKept DEF MessagesInv

\* The answer of th, which is at its call, gets a Private.
LEMMA NewAnswerMoves ==
  ASSUME NEW s, Counted(s), Owned(s), NEW th, NEW c \in Calls,
         <<"res", th>> \notin DOMAIN s.handles,
         \A p \in DOMAIN s.handles : s.handles[p].cnt # <<"res", c>>
  PROVE  Moved(s, NewAnswer(s, th, c), {<<"res", th>>}, {})
<1> PICK place : place = <<"res", th>>
  OBVIOUS
<1> PICK name : name = <<"res", c>>
  OBVIOUS
<1> PICK obj : obj = <<"answer", c>>
  OBVIOUS
<1> PICK t : t = Ref(NewPrivate(s, place, name, obj), obj)
  OBVIOUS
<1>1. obj \in Objects
  BY DEF Objects, MessagesOf
<1>2. name \notin DOMAIN s.count
  BY UnusedName
<1>3. Fresh(s, t, place, name, obj)
  BY <1>1, <1>2, FreshCounted
<1>4. Moved(s, t, {place}, {})
  BY <1>3, FreshMoves
<1>5. NewAnswer(s, th, c) = t
  BY Zenon DEF NewAnswer
<1> QED BY <1>4, <1>5

\* Before the answer of th to c, no message has that counter.
LEMMA NoAnswerYet ==
  ASSUME MessagesInv, CountsInv, NEW c \in Calls, pc[c] \in {"none", "resume"},
         \A w \in Workers : job[w] = c /\ Active(w) => <<"res", w>> \notin held
  PROVE  \A p \in held : store.handles[p].cnt # <<"res", c>>
<1>1. <<"res", c>> \notin held
  BY CountedMessages DEF HelperPlaces
<1>2. \A w \in Workers : job[w] = c => <<"res", w>> \notin held
  BY DEF Active, MessagesInv, HeldInv
<1> QED BY <1>1, <1>2, CounterOwner

LEMMA MethodCounts ==
  ASSUME MessagesInv, CountsInv, NEW w \in Workers, Method(w)
  PROVE  CountsInv'
<1> PICK c : c = job[w]
  OBVIOUS
<1>1. PICK next \in {"post", "defer"} :
        /\ pc' = [pc EXCEPT ![w] = next]
        /\ store' = IF next = "post" THEN NewAnswer(store, w, c) ELSE store
  BY DEF Method
<1>2. /\ pc[w] = "method" /\ job' = job
      /\ requestQueue' = requestQueue /\ responseQueue' = responseQueue
  BY DEF Method
<1>3. pc'[w] = next /\ \A v \in Threads \ {w} : pc'[v] = pc[v]
  BY <1>1, ThreadsApart DEF MessagesInv, ThreadsTyped
<1>4. c \in Calls /\ Active(w)
  BY <1>2 DEF MessagesInv, JobsInv, Active
<1>5. pc[c] = "none" /\ <<"res", w>> \notin held /\ <<"msg", w>> \in held
  BY <1>2, <1>4, CountedMessages DEF MessagesInv, ResponsesInv, HeldInv, WorkerPlaces
<1>6. \A v \in Workers : job[v] = c /\ Active(v) => <<"res", v>> \notin held
  BY <1>4, <1>5 DEF MessagesInv, JobsInv
<1> PICK in : in = IF next = "post" THEN {<<"res", w>>} ELSE {}
  OBVIOUS
<1>7. Moved(store, store', in, {})
  <2>1. CASE next = "post"
    <3>1. \A p \in DOMAIN store.handles : store.handles[p].cnt # <<"res", c>>
      BY <1>4, <1>5, <1>6, NoAnswerYet DEF held
    <3>2. Moved(store, NewAnswer(store, w, c), {<<"res", w>>}, {})
      BY <1>4, <1>5, <3>1, CountedMessages, NewAnswerMoves DEF held
    <3> QED BY <1>1, <2>1, <3>2
  <2>2. CASE next # "post"
    BY <1>1, <2>2, CountedMessages DEF Moved, Balanced
  <2> QED BY <2>1, <2>2
<1>8. held' = held \cup in
  BY <1>7 DEF Moved, held
<1>9. \A x \in Calls : InFlight(x)' <=> InFlight(x)
  <2>1. \A x \in Calls : (Sending(x)' <=> Sending(x)) /\ pc'[x] = pc[x]
    BY <1>2, <1>3, ThreadsApart DEF Sending
  <2>2. \A v \in Workers : pc'[v] \in {"method", "defer", "post"} <=> pc[v] \in {"method", "defer", "post"}
    BY <1>2, <1>3, ThreadsApart
  <2> QED BY <1>2, <2>1, <2>2 DEF InFlight
<1>10. WorkerPlaces'
  BY <1>2, <1>3, <1>5, <1>8, ThreadsApart, CountedMessages DEF WorkerPlaces, Active
<1>11. HelperPlaces' /\ QueuePlaces'
  BY <1>2, <1>3, <1>8, ThreadsApart, CountedMessages DEF HelperPlaces, QueuePlaces
<1>12. ContinuationPlaces'
  BY <1>2, <1>3, <1>8, <1>9, ThreadsApart, CountedMessages, ContinuationsKept DEF Recording
<1>13. \A o : Borrowing(o)' <=> Borrowing(o)
  BY <1>2, <1>3, ThreadsApart DEF Borrowing
<1>14. in \subseteq MessagePlaces /\ <<"stub", "dispatcher">> \notin in \cup {}
  BY ThreadsApart DEF MessagePlaces
<1> QED BY <1>7, <1>10, <1>11, <1>12, <1>13, <1>14, CountsKept DEF MessagesInv

LEMMA DeferCounts ==
  ASSUME MessagesInv, CountsInv, NEW w \in Workers, Defer(w)
  PROVE  CountsInv'
<1> PICK c : c = job[w]
  OBVIOUS
<1>1. /\ pc[w] = "defer" /\ pc' = [pc EXCEPT ![w] = "finish", ![c] = "resume"]
      /\ job' = [job EXCEPT ![c] = c]
      /\ store' = CopyApart(store, <<"msg", w>>, <<"parked", c>>, <<"parked", c>>)
      /\ requestQueue' = requestQueue /\ responseQueue' = responseQueue
  BY DEF Defer
<1>2. c \in Calls /\ Active(w)
  BY <1>1 DEF MessagesInv, JobsInv, Active
<1>3. /\ pc'[w] = "finish" /\ pc'[c] = "resume" /\ \A v \in Threads \ {w, c} : pc'[v] = pc[v]
      /\ \A v \in Threads \ {c} : job'[v] = job[v]
  BY <1>1, <1>2, ThreadsApart DEF MessagesInv, ThreadsTyped
<1>4. pc[c] = "none" /\ <<"msg", w>> \in held /\ <<"parked", c>> \notin held
  BY <1>1, <1>2, CountedMessages DEF MessagesInv, ResponsesInv, WorkerPlaces, HelperPlaces
<1>5. Moved(store, store', {<<"parked", c>>}, {})
  <2>1. \A p \in DOMAIN store.handles : store.handles[p].cnt # <<"parked", c>>
    BY <1>4, CounterOwner DEF held
  <2>2. <<"parked", c>> \notin DOMAIN store.count
    BY <2>1, CountedMessages, UnusedName
  <2> QED BY <1>1, <1>4, <2>2, CountedMessages, CopyApartMoves DEF held
<1>6. held' = held \cup {<<"parked", c>>}
  BY <1>5 DEF Moved, held
<1>7. \A x \in Calls : InFlight(x)' <=> InFlight(x)
  <2>1. \A x \in Calls : Sending(x)' <=> Sending(x)
    BY <1>2, <1>3, ThreadsApart DEF Sending
  <2>2. InFlight(c) /\ InFlight(c)'
    BY <1>1, <1>2, <1>3 DEF InFlight
  <2>3. ASSUME NEW x \in Calls \ {c}
        PROVE  InFlight(x)' <=> InFlight(x)
    <3>1. \A v \in Workers : (job'[v] = x /\ pc'[v] \in {"method", "defer", "post"})
                               <=> (job[v] = x /\ pc[v] \in {"method", "defer", "post"})
      BY <1>2, <1>3, ThreadsApart
    <3>2. pc'[x] = pc[x]
      BY <1>2, <1>3, ThreadsApart
    <3> QED BY <1>1, <2>1, <3>1, <3>2 DEF InFlight
  <2> QED BY <2>2, <2>3
<1>8. WorkerPlaces'
  BY <1>2, <1>3, <1>4, <1>6, ThreadsApart, CountedMessages DEF WorkerPlaces, Active
<1>9. HelperPlaces'
  BY <1>2, <1>3, <1>4, <1>6, ThreadsApart, CountedMessages DEF HelperPlaces
<1>10. QueuePlaces'
  BY <1>1, <1>6, CountedMessages DEF QueuePlaces
<1>11. ContinuationPlaces'
  BY <1>2, <1>3, <1>6, <1>7, ThreadsApart, CountedMessages, ContinuationsKept DEF Recording
<1>12. \A o : Borrowing(o)' <=> Borrowing(o)
  BY <1>2, <1>3, ThreadsApart DEF Borrowing
<1>13. {<<"parked", c>>} \subseteq MessagePlaces /\ <<"stub", "dispatcher">> \notin {<<"parked", c>>} \cup {}
  BY <1>2 DEF MessagePlaces
<1> QED BY <1>5, <1>8, <1>9, <1>10, <1>11, <1>12, <1>13, CountsKept DEF MessagesInv

LEMMA ResumeCounts ==
  ASSUME MessagesInv, CountsInv, NEW c \in Calls, Resume(c)
  PROVE  CountsInv'
<1> PICK u : u = CopyApart(store, <<"parked", c>>, <<"msg", c>>, <<"call_msg", c>>)
  OBVIOUS
<1> PICK v : v = DropHandle(u, <<"parked", c>>)
  OBVIOUS
<1>1. /\ End(c, "resume", "post") /\ job' = job /\ store' = NewAnswer(v, c, c)
      /\ requestQueue' = requestQueue /\ responseQueue' = responseQueue
  BY DEF Resume
<1>2. pc[c] = "resume" /\ pc'[c] = "post" /\ \A x \in Threads \ {c} : pc'[x] = pc[x]
  BY <1>1, Ended, ThreadsApart
<1>3. <<"parked", c>> \in held /\ <<"msg", c>> \notin held /\ <<"res", c>> \notin held
  BY <1>2, CountedMessages DEF HelperPlaces
<1>4. \A w \in Workers : job[w] = c /\ Active(w) => <<"res", w>> \notin held
  BY <1>2 DEF MessagesInv, ResponsesInv
<1>5. \A p \in held : store.handles[p].cnt # <<"res", c>> /\ store.handles[p].cnt # <<"call_msg", c>>
  BY <1>2, <1>3, <1>4, NoAnswerYet, CounterOwner
<1>6. Moved(store, u, {<<"msg", c>>}, {}) /\ DOMAIN u.count = DOMAIN store.count \cup {<<"call_msg", c>>}
  <2>1. <<"call_msg", c>> \notin DOMAIN store.count
    BY <1>5, CountedMessages, UnusedName DEF held
  <2>2. /\ Counted(store) /\ Owned(store)
        /\ <<"parked", c>> \in DOMAIN store.handles /\ <<"msg", c>> \notin DOMAIN store.handles
    BY <1>3, CountedMessages DEF held
  <2>3. Moved(store, u, {<<"msg", c>>}, {})
    BY <2>1, <2>2, CopyApartMoves
  <2>4. DOMAIN u.count = DOMAIN store.count \cup {<<"call_msg", c>>}
    <3>1. Fresh(store, u, <<"msg", c>>, <<"call_msg", c>>, store.handles[<<"parked", c>>].obj)
      BY <2>1, <2>2, CopyApartCounted
    <3> QED BY <3>1 DEF Fresh
  <2> QED BY <2>3, <2>4
<1>7. Moved(u, v, {}, {<<"parked", c>>}) /\ DOMAIN v.count \subseteq DOMAIN u.count
  <2>1. Counted(u) /\ Owned(u) /\ <<"parked", c>> \in DOMAIN u.handles
    BY <1>3, <1>6 DEF Moved, held
  <2> QED BY <2>1, DropMoves
<1>8. Moved(store, v, {<<"msg", c>>}, {<<"parked", c>>})
  <2>1. Moved(store, v, {<<"msg", c>>} \cup {}, {} \cup {<<"parked", c>>})
    BY <1>6, <1>7, MovedTwice
  <2> QED BY <2>1
<1>9. Moved(v, store', {<<"res", c>>}, {})
  <2>1. Counted(v) /\ Owned(v) /\ <<"res", c>> \notin DOMAIN v.handles
    BY <1>3, <1>8 DEF Moved, held
  <2>2. \A p \in DOMAIN v.handles : v.handles[p].cnt # <<"res", c>>
    <3>1. <<"res", c>> \notin DOMAIN store.count
      BY <1>5, CountedMessages, UnusedName DEF held
    <3>2. <<"res", c>> \notin DOMAIN v.count
      BY <1>6, <1>7, <3>1
    <3> QED BY <2>1, <3>2 DEF Counted
  <2> QED BY <1>1, <2>1, <2>2, NewAnswerMoves
<1>10. Moved(store, store', {<<"msg", c>>, <<"res", c>>}, {<<"parked", c>>})
  <2>1. Moved(store, store', {<<"msg", c>>} \cup {<<"res", c>>}, {<<"parked", c>>} \cup {})
    BY <1>8, <1>9, MovedTwice
  <2>2. {<<"msg", c>>} \cup {<<"res", c>>} = {<<"msg", c>>, <<"res", c>>}
    OBVIOUS
  <2> QED BY <2>1, <2>2
<1>11. held' = (held \cup {<<"msg", c>>, <<"res", c>>}) \ {<<"parked", c>>}
  BY <1>10 DEF Moved, held
<1>12. \A x \in Calls : InFlight(x)' <=> InFlight(x)
  <2>1. \A x \in Calls : Sending(x)' <=> Sending(x)
    BY <1>1, <1>2, ThreadsApart DEF Sending
  <2>2. \A x \in Calls : pc'[x] \in {"resume", "post"} <=> pc[x] \in {"resume", "post"}
    BY <1>2, ThreadsApart
  <2>3. \A w \in Workers : pc'[w] = pc[w]
    BY <1>2, ThreadsApart
  <2> QED BY <1>1, <2>1, <2>2, <2>3 DEF InFlight
<1>13. WorkerPlaces'
  BY <1>2, <1>11, ThreadsApart, CountedMessages DEF WorkerPlaces, Active
<1>14. HelperPlaces'
  BY <1>2, <1>11, ThreadsApart, CountedMessages DEF HelperPlaces
<1>15. QueuePlaces'
  BY <1>1, <1>11, CountedMessages DEF QueuePlaces
<1>16. ContinuationPlaces'
  BY <1>1, <1>2, <1>11, <1>12, ThreadsApart, CountedMessages, ContinuationsKept DEF Recording
<1>17. \A o : Borrowing(o)' <=> Borrowing(o)
  BY <1>1, <1>2, ThreadsApart DEF Borrowing
<1>18. /\ {<<"msg", c>>, <<"res", c>>} \subseteq MessagePlaces
       /\ <<"stub", "dispatcher">> \notin {<<"msg", c>>, <<"res", c>>} \cup {<<"parked", c>>}
  BY ThreadsApart DEF MessagePlaces
<1> QED BY <1>10, <1>13, <1>14, <1>15, <1>16, <1>17, <1>18, CountsKept DEF MessagesInv

LEMMA PostCounts ==
  ASSUME MessagesInv, CountsInv, NEW th \in Threads, Post(th)
  PROVE  CountsInv'
<1> PICK c : c = job[th]
  OBVIOUS
<1> PICK u : u = CopyApart(store, <<"msg", th>>, <<"response", c>>, <<"response", c>>)
  OBVIOUS
<1>1. /\ End(th, "post", "finish") /\ job' = job /\ requestQueue' = requestQueue
      /\ responseQueue' = Append(responseQueue, c)
      /\ store' = CopyApart(u, <<"res", th>>, <<"answer", c>>, <<"answer", c>>)
  BY DEF Post, Posted
<1>2. pc[th] = "post" /\ pc'[th] = "finish" /\ \A x \in Threads \ {th} : pc'[x] = pc[x]
  BY <1>1, Ended
<1>3. /\ th \in Workers \cup Calls /\ th # "dispatcher" /\ c \in Calls
      /\ th \in Calls => th = c
      /\ th \in Workers => Active(th)
  BY <1>2, WorkerOrHelper
<1>4. c \notin ToSet(responseQueue) /\ ~Sending(c)
  <2>1. CASE th \in Workers
    BY <1>2, <1>3, <2>1 DEF MessagesInv, ResponsesInv
  <2>2. CASE th \in Calls
    BY <1>2, <1>3, <2>2 DEF MessagesInv, ResponsesInv
  <2> QED BY <1>3, <2>1, <2>2
<1>5. <<"msg", th>> \in held /\ <<"res", th>> \in held
  BY <1>2, <1>3, CountedMessages DEF WorkerPlaces, HelperPlaces
<1>6. <<"response", c>> \notin held /\ <<"answer", c>> \notin held
  BY <1>3, <1>4, CountedMessages DEF QueuePlaces
<1>7. \A p \in held : store.handles[p].cnt # <<"response", c>> /\ store.handles[p].cnt # <<"answer", c>>
  <2>1. <<"res", "dispatcher">> \in held => job["dispatcher"] # c
    BY <1>4 DEF MessagesInv, HeldInv, Sending
  <2> QED BY <1>6, <2>1, CounterOwner
<1>8. <<"response", c>> \notin DOMAIN store.count /\ <<"answer", c>> \notin DOMAIN store.count
  BY <1>7, CountedMessages, UnusedName DEF held
<1>9. Moved(store, u, {<<"response", c>>}, {}) /\ <<"answer", c>> \notin DOMAIN u.count
  <2>1. /\ Counted(store) /\ Owned(store)
        /\ <<"msg", th>> \in DOMAIN store.handles /\ <<"response", c>> \notin DOMAIN store.handles
    BY <1>5, <1>6, CountedMessages DEF held
  <2>2. Fresh(store, u, <<"response", c>>, <<"response", c>>, store.handles[<<"msg", th>>].obj)
    BY <1>8, <2>1, CopyApartCounted
  <2>3. Moved(store, u, {<<"response", c>>}, {})
    BY <1>8, <2>1, CopyApartMoves
  <2>4. DOMAIN u.count = DOMAIN store.count \cup {<<"response", c>>}
    BY <2>2 DEF Fresh
  <2> QED BY <1>8, <2>3, <2>4
<1>10. Moved(u, store', {<<"answer", c>>}, {})
  <2>1. /\ Counted(u) /\ Owned(u)
        /\ <<"res", th>> \in DOMAIN u.handles /\ <<"answer", c>> \notin DOMAIN u.handles
    BY <1>5, <1>6, <1>9 DEF Moved, held
  <2> QED BY <1>1, <1>9, <2>1, CopyApartMoves
<1>11. Moved(store, store', {<<"response", c>>, <<"answer", c>>}, {})
  <2>1. Moved(store, store', {<<"response", c>>} \cup {<<"answer", c>>}, {} \cup {})
    BY <1>9, <1>10, MovedTwice
  <2>2. {<<"response", c>>} \cup {<<"answer", c>>} = {<<"response", c>>, <<"answer", c>>}
    OBVIOUS
  <2> QED BY <2>1, <2>2
<1>12. held' = held \cup {<<"response", c>>, <<"answer", c>>}
  BY <1>11 DEF Moved, held
<1>13. ToSet(responseQueue') = ToSet(responseQueue) \cup {c}
  BY <1>1, <1>3, <1>4, AppendedQueue DEF MessagesInv, ThreadsTyped, ResponsesInv
<1>14. \A x \in Calls : InFlight(x)' <=> InFlight(x)
  <2>1. \A x \in Calls : Sending(x)' <=> Sending(x)
    BY <1>1, <1>2, <1>3, ThreadsApart DEF Sending
  <2>2. InFlight(c) /\ InFlight(c)'
    BY <1>2, <1>3, <1>13 DEF InFlight
  <2>3. ASSUME NEW x \in Calls \ {c}
        PROVE  InFlight(x)' <=> InFlight(x)
    <3>1. \A v \in Workers : (job'[v] = x /\ pc'[v] \in {"method", "defer", "post"})
                               <=> (job[v] = x /\ pc[v] \in {"method", "defer", "post"})
      BY <1>1, <1>2, ThreadsApart
    <3>2. pc'[x] = pc[x]
      BY <1>2, <1>3, ThreadsApart
    <3> QED BY <1>1, <1>13, <2>1, <3>1, <3>2 DEF InFlight
  <2> QED BY <2>2, <2>3
<1>15. WorkerPlaces'
  BY <1>2, <1>3, <1>5, <1>12, ThreadsApart, CountedMessages DEF WorkerPlaces, Active
<1>16. HelperPlaces'
  BY <1>2, <1>3, <1>12, ThreadsApart, CountedMessages DEF HelperPlaces
<1>17. QueuePlaces'
  BY <1>1, <1>12, <1>13, CountedMessages DEF QueuePlaces
<1>18. ContinuationPlaces'
  BY <1>1, <1>2, <1>3, <1>12, <1>14, ThreadsApart, CountedMessages, ContinuationsKept DEF Recording
<1>19. \A o : Borrowing(o)' <=> Borrowing(o)
  BY <1>1, <1>2, <1>3, ThreadsApart DEF Borrowing
<1>20. /\ {<<"response", c>>, <<"answer", c>>} \subseteq MessagePlaces
       /\ <<"stub", "dispatcher">> \notin {<<"response", c>>, <<"answer", c>>} \cup {}
  BY <1>3 DEF MessagePlaces
<1> QED BY <1>11, <1>15, <1>16, <1>17, <1>18, <1>19, <1>20, CountsKept DEF MessagesInv

LEMMA FinishCounts ==
  ASSUME MessagesInv, CountsInv, NEW th \in Threads, Finish(th)
  PROVE  CountsInv'
<1> PICK next : next = IF th \in Workers THEN "pop" ELSE "none"
  OBVIOUS
<1> PICK out : out = {<<"res", th>>, <<"msg", th>>}
  OBVIOUS
<1>1. /\ End(th, "finish", next) /\ job' = job /\ store' = DropLocals(store, th)
      /\ requestQueue' = requestQueue /\ responseQueue' = responseQueue
  BY DEF Finish
<1>2. pc[th] = "finish" /\ pc'[th] = next /\ \A x \in Threads \ {th} : pc'[x] = pc[x]
  BY <1>1, Ended
<1>3. th \in Workers \cup Calls /\ th # "dispatcher" /\ (th \in Calls => th \notin Workers)
  BY <1>2, WorkerOrHelper
<1>4. Moved(store, store', {}, out)
  BY <1>1, CountedMessages, DropLocalsMoves
<1>5. held' = held \ out
  BY <1>4 DEF Moved, held
<1>6. \A x \in Calls : InFlight(x)' <=> InFlight(x)
  <2>1. \A x \in Calls : Sending(x)' <=> Sending(x)
    BY <1>1, <1>2, <1>3, ThreadsApart DEF Sending
  <2>2. \A x \in Calls : pc'[x] \in {"resume", "post"} <=> pc[x] \in {"resume", "post"}
    BY <1>2, <1>3, ThreadsApart
  <2>3. \A v \in Workers : pc'[v] \in {"method", "defer", "post"} <=> pc[v] \in {"method", "defer", "post"}
    BY <1>2, <1>3, ThreadsApart
  <2> QED BY <1>1, <2>1, <2>2, <2>3 DEF InFlight
<1>7. WorkerPlaces'
  BY <1>2, <1>3, <1>5, ThreadsApart, CountedMessages DEF WorkerPlaces, Active
<1>8. HelperPlaces'
  BY <1>2, <1>3, <1>5, ThreadsApart, CountedMessages DEF HelperPlaces
<1>9. QueuePlaces'
  BY <1>1, <1>5, CountedMessages DEF QueuePlaces
<1>10. ContinuationPlaces'
  BY <1>1, <1>2, <1>3, <1>5, <1>6, ThreadsApart, CountedMessages, ContinuationsKept DEF Recording
<1>11. \A o : Borrowing(o)' <=> Borrowing(o)
  BY <1>1, <1>2, <1>3, ThreadsApart DEF Borrowing
<1>12. {} \subseteq MessagePlaces /\ <<"stub", "dispatcher">> \notin {} \cup out
  OBVIOUS
<1> QED BY <1>4, <1>7, <1>8, <1>9, <1>10, <1>11, <1>12, CountsKept DEF MessagesInv

LEMMA TakeCounts ==
  ASSUME MessagesInv, CountsInv, Take
  PROVE  CountsInv'
<1> DEFINE d == "dispatcher"
<1> PICK c : c = Head(responseQueue)
  OBVIOUS
<1> PICK u : u = CopyApart(store, <<"response", c>>, <<"msg", d>>, <<"sent", c>>)
  OBVIOUS
<1> PICK v : v = CopyHandle(u, <<"answer", c>>, <<"res", d>>)
  OBVIOUS
<1> PICK y : y = DropHandle(v, <<"response", c>>)
  OBVIOUS
<1>1. /\ End(d, "take", "send") /\ job' = [job EXCEPT ![d] = c]
      /\ requestQueue' = requestQueue /\ responseQueue' = Tail(responseQueue)
      /\ store' = DropHandle(y, <<"answer", c>>) /\ touching[d] # {}
  BY DEF Take, End
<1>2. /\ pc[d] = "take" /\ pc'[d] = "send" /\ \A x \in Workers \cup Calls : pc'[x] = pc[x]
      /\ job'[d] = c /\ \A x \in Workers \cup Calls : job'[x] = job[x]
  <2>1. pc[d] = "take" /\ pc'[d] = "send" /\ \A x \in Threads \ {d} : pc'[x] = pc[x]
    BY <1>1, Ended, ThreadsApart
  <2> QED BY <1>1, <2>1, ThreadsApart DEF MessagesInv, ThreadsTyped
<1>3. responseQueue # << >>
  BY <1>1, <1>2, QueueNotEmpty, ThreadsApart
<1>4. /\ c \in Calls /\ c \in ToSet(responseQueue)
      /\ ToSet(responseQueue') = ToSet(responseQueue) \ {c}
  BY <1>1, <1>3, TailOfQueue DEF MessagesInv, ThreadsTyped, ResponsesInv
<1>5. /\ <<"response", c>> \in held /\ <<"answer", c>> \in held
      /\ <<"msg", d>> \notin held /\ <<"res", d>> \notin held
  BY <1>2, <1>4, CountedMessages DEF QueuePlaces, MessagesInv, HeldInv
<1>6. Moved(store, u, {<<"msg", d>>}, {})
  <2>1. \A p \in held : store.handles[p].cnt # <<"sent", c>>
    BY <1>5, CounterOwner
  <2>2. <<"sent", c>> \notin DOMAIN store.count
    BY <2>1, CountedMessages, UnusedName DEF held
  <2>3. /\ Counted(store) /\ Owned(store)
        /\ <<"response", c>> \in DOMAIN store.handles /\ <<"msg", d>> \notin DOMAIN store.handles
    BY <1>5, CountedMessages DEF held
  <2> QED BY <2>2, <2>3, CopyApartMoves
<1>7. Moved(u, v, {<<"res", d>>}, {})
  <2>1. /\ Counted(u) /\ Owned(u)
        /\ <<"answer", c>> \in DOMAIN u.handles /\ <<"res", d>> \notin DOMAIN u.handles
    BY <1>5, <1>6 DEF Moved, held
  <2> QED BY <2>1, CopyMoves
<1>8. Moved(store, v, {<<"msg", d>>, <<"res", d>>}, {})
  <2>1. Moved(store, v, {<<"msg", d>>} \cup {<<"res", d>>}, {} \cup {})
    BY <1>6, <1>7, MovedTwice
  <2>2. {<<"msg", d>>} \cup {<<"res", d>>} = {<<"msg", d>>, <<"res", d>>}
    OBVIOUS
  <2> QED BY <2>1, <2>2
<1>9. Moved(v, y, {}, {<<"response", c>>})
  <2>1. Counted(v) /\ Owned(v) /\ <<"response", c>> \in DOMAIN v.handles
    BY <1>5, <1>8 DEF Moved, held
  <2> QED BY <2>1, DropMoves
<1>10. Moved(y, store', {}, {<<"answer", c>>})
  <2>1. Counted(y) /\ Owned(y) /\ <<"answer", c>> \in DOMAIN y.handles
    BY <1>5, <1>8, <1>9 DEF Moved, held
  <2> QED BY <1>1, <2>1, DropMoves
<1>11. Moved(store, store', {<<"msg", d>>, <<"res", d>>}, {<<"response", c>>, <<"answer", c>>})
  <2>1. Moved(v, store', {} \cup {}, {<<"response", c>>} \cup {<<"answer", c>>})
    BY <1>9, <1>10, MovedTwice
  <2>2. {<<"response", c>>} \cup {<<"answer", c>>} = {<<"response", c>>, <<"answer", c>>}
    OBVIOUS
  <2>3. Moved(v, store', {}, {<<"response", c>>, <<"answer", c>>})
    BY <2>1, <2>2
  <2>4. Moved(store, store', {<<"msg", d>>, <<"res", d>>} \cup {},
                             {} \cup {<<"response", c>>, <<"answer", c>>})
    BY <1>8, <2>3, MovedTwice
  <2> QED BY <2>4
<1>12. held' = (held \cup {<<"msg", d>>, <<"res", d>>}) \ {<<"response", c>>, <<"answer", c>>}
  BY <1>11 DEF Moved, held
<1>13. \A x \in Calls : InFlight(x)' <=> InFlight(x)
  <2>1. \A x \in Calls : (Sending(x)' <=> x = c) /\ ~Sending(x)
    BY <1>2 DEF Sending
  <2>2. \A w \in Workers : pc'[w] = pc[w] /\ job'[w] = job[w]
    BY <1>2
  <2> QED BY <1>1, <1>2, <1>4, <2>1, <2>2 DEF InFlight
<1>14. WorkerPlaces' /\ HelperPlaces'
  BY <1>2, <1>12, ThreadsApart, CountedMessages DEF WorkerPlaces, HelperPlaces, Active
<1>15. QueuePlaces'
  BY <1>1, <1>4, <1>12, CountedMessages DEF QueuePlaces
<1>16. ContinuationPlaces'
  BY <1>2, <1>12, <1>13, CountedMessages, ContinuationsKept DEF Recording
<1>17. \A o : Borrowing(o)' <=> Borrowing(o)
  BY <1>2 DEF Borrowing
<1>18. /\ {<<"msg", d>>, <<"res", d>>} \subseteq MessagePlaces
       /\ <<"stub", d>> \notin {<<"msg", d>>, <<"res", d>>} \cup {<<"response", c>>, <<"answer", c>>}
  BY ThreadsApart DEF MessagePlaces
<1> HIDE DEF d
<1> QED BY <1>11, <1>14, <1>15, <1>16, <1>17, <1>18, CountsKept DEF MessagesInv, d

LEMMA SendReplyCounts ==
  ASSUME MessagesInv, CountsInv, SendReply
  PROVE  CountsInv'
<1> DEFINE d == "dispatcher"
<1> PICK c : c = job[d]
  OBVIOUS
<1> PICK u : u = DropHandle(store, <<"continuation", c>>)
  OBVIOUS
<1> PICK out : out = {<<"continuation", c>>, <<"res", d>>, <<"msg", d>>}
  OBVIOUS
<1>1. /\ End(d, "send", "loop") /\ job' = job /\ store' = DropLocals(u, d)
      /\ requestQueue' = requestQueue /\ responseQueue' = responseQueue
  BY DEF SendReply
<1>2. pc[d] = "send" /\ pc'[d] = "loop" /\ \A x \in Workers \cup Calls : pc'[x] = pc[x]
  BY <1>1, Ended, ThreadsApart
<1>3. c \in Calls /\ Sending(c)
  BY <1>2 DEF MessagesInv, JobsInv, Sending
<1>4. <<"continuation", c>> \in held
  BY <1>2, <1>3, CountedMessages DEF ContinuationPlaces, InFlight, Recording
<1>5. Moved(store, u, {}, {<<"continuation", c>>})
  BY <1>4, CountedMessages, DropMoves DEF held
<1>6. Moved(u, store', {}, {<<"res", d>>, <<"msg", d>>})
  BY <1>1, <1>5, DropLocalsMoves DEF Moved
<1>7. Moved(store, store', {}, out)
  <2>1. Moved(store, store', {} \cup {}, {<<"continuation", c>>} \cup {<<"res", d>>, <<"msg", d>>})
    BY <1>5, <1>6, MovedTwice
  <2>2. {<<"continuation", c>>} \cup {<<"res", d>>, <<"msg", d>>} = out
    OBVIOUS
  <2> QED BY <2>1, <2>2
<1>8. held' = held \ out
  BY <1>7 DEF Moved, held
<1>9. ~InFlight(c)'
  <2>1. c \notin ToSet(responseQueue) /\ pc[c] \notin {"resume", "post"}
        /\ \A w \in Workers : job[w] = c => pc[w] \in {"pop", "finish"}
    BY <1>3 DEF MessagesInv, ResponsesInv
  <2>2. c \notin ToSet(requestQueue)
    BY <1>3 DEF MessagesInv, RequestsInv, Untouched
  <2>3. ~Sending(c)'
    BY <1>2 DEF Sending
  <2> QED BY <1>1, <1>2, <1>3, <2>1, <2>2, <2>3 DEF InFlight
<1>10. \A x \in Calls \ {c} : InFlight(x)' <=> InFlight(x)
  <2>1. \A x \in Calls \ {c} : ~Sending(x)' /\ ~Sending(x)
    BY <1>2 DEF Sending
  <2> QED BY <1>1, <1>2, <2>1 DEF InFlight
<1>11. WorkerPlaces' /\ HelperPlaces'
  BY <1>1, <1>2, <1>8, ThreadsApart, CountedMessages DEF WorkerPlaces, HelperPlaces, Active
<1>12. QueuePlaces'
  BY <1>1, <1>8, CountedMessages DEF QueuePlaces
<1>13. ContinuationPlaces'
  BY <1>2, <1>8, <1>9, <1>10, CountedMessages DEF ContinuationPlaces, Recording
<1>14. \A o : Borrowing(o)' <=> Borrowing(o)
  BY <1>2 DEF Borrowing
<1>15. {} \subseteq MessagePlaces /\ <<"stub", d>> \notin {} \cup out
  OBVIOUS
<1> HIDE DEF d
<1> QED BY <1>7, <1>11, <1>12, <1>13, <1>14, <1>15, CountsKept DEF MessagesInv, d

\* The steps that leave the messages where they are.
LEMMA ReadFrameCounts ==
  ASSUME MessagesInv, CountsInv, ReadFrame
  PROVE  CountsInv'
<1>1. /\ pc["dispatcher"] = "loop" /\ pc' = [pc EXCEPT !["dispatcher"] = "take"]
      /\ store' = store /\ job' = job
      /\ requestQueue' = requestQueue /\ responseQueue' = responseQueue
  BY DEF ReadFrame
<1>2. pc'["dispatcher"] = "take" /\ \A x \in Workers \cup Calls : pc'[x] = pc[x]
  BY <1>1, ThreadsApart DEF MessagesInv, ThreadsTyped
<1>3. Moved(store, store', {}, {}) /\ held' = held
  BY <1>1, CountedMessages DEF Moved, Balanced, held
<1>4. \A x \in Calls : InFlight(x)' <=> InFlight(x)
  BY <1>1, <1>2 DEF InFlight, Sending
<1>5. WorkerPlaces' /\ HelperPlaces' /\ QueuePlaces'
  BY <1>1, <1>2, <1>3, CountedMessages DEF WorkerPlaces, HelperPlaces, QueuePlaces, Active
<1>6. ContinuationPlaces'
  BY <1>1, <1>2, <1>3, <1>4, CountedMessages, ContinuationsKept DEF Recording
<1>7. \A o : Borrowing(o)' <=> Borrowing(o)
  BY <1>1, <1>2 DEF Borrowing
<1> QED BY <1>3, <1>5, <1>6, <1>7, CountsKept DEF MessagesInv

\* What CountsInv reads.
LEMMA UnchangedCounts ==
  ASSUME CountsInv, UNCHANGED <<store, pc, job, requestQueue, responseQueue>>
  PROVE  CountsInv'
<1>1. \A o : Borrowing(o)' <=> Borrowing(o)
  BY DEF Borrowing
<1>2. StubInv' /\ MessagesOver'
  BY <1>1 DEF CountsInv, StubInv, MessagesOver
<1>3. WorkerPlaces' /\ HelperPlaces' /\ QueuePlaces'
  BY CountedMessages DEF WorkerPlaces, HelperPlaces, QueuePlaces, Active, held
<1>4. ContinuationPlaces'
  BY CountedMessages DEF ContinuationPlaces, InFlight, Sending, Recording, held
<1>5. Counted(store)' /\ Owned(store)' /\ held' \subseteq MessagePlaces
  BY DEF CountsInv, PlacesInv, held
<1> QED BY <1>2, <1>3, <1>4, <1>5 DEF CountsInv, PlacesInv

LEMMA DeliverCounts ==
  ASSUME MessagesInv, CountsInv, NEW c \in Calls, Deliver(c)
  PROVE  CountsInv'
<1> DEFINE d == "dispatcher"
<1> PICK place : place = <<"stub", d>>
  OBVIOUS
<1> PICK obj : obj = <<"call", c>>
  OBVIOUS
<1> PICK u : u = Ref(NewPrivate(store, place, <<"stub", c>>, obj), obj)
  OBVIOUS
<1>1. /\ pc[d] = "loop" /\ c \notin arrived /\ store' = Ref(u, obj)
      /\ pc' = [pc EXCEPT ![d] = "forward"] /\ job' = [job EXCEPT ![d] = c]
      /\ requestQueue' = requestQueue /\ responseQueue' = responseQueue
  BY DEF Deliver
<1>2. /\ pc'[d] = "forward" /\ \A x \in Workers \cup Calls : pc'[x] = pc[x]
      /\ job'[d] = c /\ \A x \in Workers \cup Calls : job'[x] = job[x]
  BY <1>1, ThreadsApart DEF MessagesInv, ThreadsTyped
<1>3. ~InFlight(c)
  <2>1. Untouched(c) /\ c \notin ToSet(requestQueue)
    BY <1>1 DEF MessagesInv, RequestsInv
  <2> QED BY <2>1 DEF Untouched, InFlight, Active
<1>4. place \notin DOMAIN store.handles /\ <<"stub", c>> \notin DOMAIN store.count
  <2>1. place \notin held /\ <<"continuation", c>> \notin held
    BY <1>1, <1>3, CountedMessages DEF MessagesInv, HeldInv, ContinuationPlaces
  <2>2. \A p \in held : store.handles[p].cnt # <<"stub", c>>
    BY <2>1, CounterOwner
  <2> QED BY <2>1, <2>2, CountedMessages, UnusedName DEF held
<1>5. obj \in Objects
  BY DEF Objects, MessagesOf
<1>6. Fresh(store, u, place, <<"stub", c>>, obj)
  BY <1>4, <1>5, CountedMessages, FreshCounted
<1>7. Referenced(u, store', obj)
  BY <1>1, <1>5, <1>6, RefCounted DEF Fresh
<1>8. /\ Counted(store') /\ DOMAIN store'.handles = DOMAIN store.handles \cup {place}
      /\ store'.handles[place].obj = obj
  BY <1>6, <1>7 DEF Fresh, Referenced, Added
<1>9. Owned(store')
  BY <1>6, <1>7, CountedMessages DEF Fresh, Referenced, Owned
<1>10. held' = held \cup {place} /\ held' \subseteq MessagePlaces
  BY <1>8 DEF held, CountsInv, PlacesInv, MessagePlaces
<1>11. \A x \in Calls : InFlight(x)' <=> InFlight(x)
  BY <1>1, <1>2 DEF InFlight, Sending
<1>12. WorkerPlaces' /\ HelperPlaces' /\ QueuePlaces'
  BY <1>1, <1>2, <1>10, CountedMessages DEF WorkerPlaces, HelperPlaces, QueuePlaces, Active
<1>13. ContinuationPlaces'
  BY <1>1, <1>2, <1>10, <1>11, CountedMessages, ContinuationsKept DEF Recording
<1>14. \A o : (Borrowing(o)' <=> o = obj) /\ ~Borrowing(o)
  BY <1>1, <1>2 DEF Borrowing
<1>15. StubInv'
  BY <1>8, <1>14 DEF StubInv
<1>16. MessagesOver'
  <2>1. \A o \in Objects : Over(store, o) = 0
    BY <1>14 DEF CountsInv, MessagesOver
  <2>2. \A o \in Objects : Over(store', o) = IF o = obj THEN 1 ELSE 0
    BY <1>6, <1>7, <2>1 DEF Fresh, Balanced, Referenced
  <2> QED BY <1>14, <2>2 DEF MessagesOver
<1> QED BY <1>8, <1>9, <1>10, <1>12, <1>13, <1>15, <1>16 DEF CountsInv, PlacesInv

LEMMA LeaveStubCounts ==
  ASSUME MessagesInv, CountsInv, LeaveStub
  PROVE  CountsInv'
<1> DEFINE d == "dispatcher"
<1> PICK place : place = <<"stub", d>>
  OBVIOUS
<1> PICK obj : obj = <<"call", job[d]>>
  OBVIOUS
<1> PICK u : u = DropHandle(store, place)
  OBVIOUS
<1>1. /\ End(d, "leave", "loop") /\ job' = job /\ store' = Unref(u, obj)
      /\ requestQueue' = requestQueue /\ responseQueue' = responseQueue
  BY DEF LeaveStub
<1>2. pc[d] = "leave" /\ pc'[d] = "loop" /\ \A x \in Workers \cup Calls : pc'[x] = pc[x]
  BY <1>1, Ended, ThreadsApart
<1>3. place \in DOMAIN store.handles /\ obj \in Objects
  BY <1>2 DEF MessagesInv, HeldInv, JobsInv, held, Objects, MessagesOf
<1>4. Dropped(store, u, place)
  BY <1>3, CountedMessages, DropHandleCounted
<1>5. Unreferenced(u, store', obj)
  BY <1>1, <1>3, <1>4, UnrefCounted DEF Dropped, Gone
<1>6. /\ Counted(store') /\ DOMAIN store'.handles = DOMAIN store.handles \ {place}
  BY <1>4, <1>5 DEF Dropped, Gone, Unreferenced, Removed
<1>7. Owned(store')
  BY <1>4, <1>5, CountedMessages DEF Dropped, Unreferenced, Owned
<1>8. held' = held \ {place} /\ held' \subseteq MessagePlaces
  BY <1>6 DEF held, CountsInv, PlacesInv
<1>9. \A x \in Calls : InFlight(x)' <=> InFlight(x)
  BY <1>1, <1>2 DEF InFlight, Sending
<1>10. WorkerPlaces' /\ HelperPlaces' /\ QueuePlaces'
  BY <1>1, <1>2, <1>8, CountedMessages DEF WorkerPlaces, HelperPlaces, QueuePlaces, Active
<1>11. ContinuationPlaces'
  BY <1>1, <1>2, <1>8, <1>9, CountedMessages, ContinuationsKept DEF Recording
<1>12. \A o : ~Borrowing(o)' /\ (Borrowing(o) <=> o = obj)
  BY <1>1, <1>2 DEF Borrowing
<1>13. StubInv'
  BY <1>12 DEF StubInv
<1>14. MessagesOver'
  <2>1. \A o \in Objects : Over(store, o) = IF o = obj THEN 1 ELSE 0
    BY <1>12 DEF CountsInv, MessagesOver
  <2>2. \A o \in Objects : Over(store', o) = 0
    BY <1>4, <1>5, <2>1 DEF Dropped, Balanced, Unreferenced
  <2> QED BY <1>12, <2>2 DEF MessagesOver
<1> QED BY <1>6, <1>7, <1>8, <1>10, <1>11, <1>13, <1>14 DEF CountsInv, PlacesInv

LEMMA MessageStepCounts ==
  ASSUME MessagesInv, CountsInv, MessageStep
  PROVE  CountsInv'
<1>1. ASSUME NEW c \in Calls, Deliver(c) \/ Resume(c) PROVE CountsInv'
  BY <1>1, DeliverCounts, ResumeCounts
<1>2. ASSUME NEW th \in Threads, Start(th) PROVE CountsInv'
  BY <1>2, UnchangedCounts DEF Start
<1>3. ASSUME NEW th \in Threads, Post(th) \/ Finish(th) PROVE CountsInv'
  BY <1>3, PostCounts, FinishCounts
<1>4. ASSUME NEW w \in Workers, Pop(w) \/ Method(w) \/ Defer(w) PROVE CountsInv'
  BY <1>4, PopCounts, MethodCounts, DeferCounts
<1>5. ASSUME Forward \/ Record \/ LeaveStub \/ ReadFrame \/ Take \/ SendReply PROVE CountsInv'
  BY <1>5, ForwardCounts, RecordCounts, LeaveStubCounts, ReadFrameCounts, TakeCounts, SendReplyCounts
<1> QED BY <1>1, <1>2, <1>3, <1>4, <1>5 DEF MessageStep

\* What CountsInv says of the properties.
LEMMA NothingHeld ==
  ASSUME MessagesInv, CountsInv, AllAnswered
  PROVE  held = {} /\ \A o : ~Borrowing(o)
<1>1. /\ requestQueue = << >> /\ responseQueue = << >>
      /\ \A th \in Threads : pc[th] \in {"loop", "pop", "none"}
  BY DEF AllAnswered
<1>2. /\ pc["dispatcher"] = "loop" /\ \A w \in Workers : pc[w] = "pop"
      /\ \A c \in Calls : pc[c] = "none"
  BY <1>1, ThreadsApart DEF MessagesInv, ThreadsTyped
<1>3. ToSet(requestQueue) = {} /\ ToSet(responseQueue) = {}
  BY <1>1 DEF ToSet
<1>4. \A c \in Calls : ~InFlight(c)
  BY <1>2, <1>3 DEF InFlight, Sending
<1>5. /\ <<"stub", "dispatcher">> \notin held
      /\ <<"msg", "dispatcher">> \notin held /\ <<"res", "dispatcher">> \notin held
      /\ \A w \in Workers : <<"msg", w>> \notin held /\ <<"res", w>> \notin held
  BY <1>2 DEF MessagesInv, HeldInv
<1>6. \A c \in Calls : <<"msg", c>> \notin held /\ <<"res", c>> \notin held /\ <<"parked", c>> \notin held
  BY <1>2, CountedMessages DEF HelperPlaces
<1>7. \A c \in Calls : /\ <<"request", c>> \notin held /\ <<"response", c>> \notin held
                       /\ <<"answer", c>> \notin held /\ <<"continuation", c>> \notin held
  BY <1>3, <1>4, CountedMessages DEF QueuePlaces, ContinuationPlaces
<1>8. ASSUME NEW p \in MessagePlaces
      PROVE  p \notin held
  <2>1. \A th \in Threads : <<"msg", th>> \notin held /\ <<"res", th>> \notin held
    BY <1>5, <1>6 DEF Threads
  <2>2. \/ p = <<"stub", "dispatcher">>
        \/ \E th \in Threads : p = <<"msg", th>> \/ p = <<"res", th>>
        \/ \E c \in Calls : p = <<"continuation", c>>
        \/ \E c \in Calls : p = <<"parked", c>> \/ p = <<"request", c>>
        \/ \E c \in Calls : p = <<"response", c>> \/ p = <<"answer", c>>
    BY DEF MessagePlaces
  <2> QED BY <1>5, <1>6, <1>7, <2>1, <2>2
<1> QED BY <1>2, <1>8 DEF CountsInv, PlacesInv, Borrowing

LEMMA EmptyFunction ==
  ASSUME NEW f, f = [x \in DOMAIN f |-> f[x]], DOMAIN f = {}
  PROVE  f = << >>
  OBVIOUS

LEMMA CountsKeep ==
  ASSUME MessagesInv, CountsInv
  PROVE  /\ \A p \in held : store.handles[p].ptr \in store.live /\ store.refs[store.handles[p].obj] > 0
         /\ \A o \in Objects : (\A p \in held : store.handles[p].obj # o) => store.refs[o] = 0
         /\ \A k \in store.live : \E p \in held : store.handles[p].ptr = k
         /\ AllAnswered => store = EmptyStore(Objects)
<1> PICK s : s = store
  OBVIOUS
<1>1. /\ Counted(s) /\ Owned(s) /\ held = DOMAIN s.handles
      /\ \A o \in Objects : Over(s, o) = IF Borrowing(o) THEN 1 ELSE 0
  BY DEF CountsInv, MessagesOver, held
<1>2. /\ s.live = {s.handles[p].cnt : p \in DOMAIN s.handles}
      /\ \A p \in DOMAIN s.handles : s.handles[p].ptr = s.handles[p].cnt /\ s.handles[p].obj \in Objects
  BY <1>1 DEF Counted, Owned
<1>3. \A k \in s.live : \E p \in DOMAIN s.handles : s.handles[p].ptr = k
  BY <1>2
<1>4. ASSUME NEW p \in DOMAIN s.handles
      PROVE  s.handles[p].ptr \in s.live /\ s.refs[s.handles[p].obj] > 0
  <2> PICK o : o = s.handles[p].obj
    OBVIOUS
  <2>1. o \in Objects /\ s.handles[p].ptr \in s.live
    BY <1>2
  <2>2. Over(s, o) \in {0, 1}
    BY <1>1, <2>1
  <2>3. /\ Cardinality(Of(s, o)) \in Nat /\ s.refs[o] = Over(s, o) + Cardinality(Of(s, o))
        /\ Cardinality(Of(s, o)) # 0
    BY <1>1, <2>1, OverTyped
  <2> QED BY <2>1, <2>2, <2>3
<1>5. ASSUME NEW o \in Objects, \A p \in DOMAIN s.handles : s.handles[p].obj # o
      PROVE  s.refs[o] = 0
  <2>1. ~Borrowing(o)
    <3>1. Borrowing(o) => <<"stub", "dispatcher">> \in DOMAIN s.handles
      BY <1>1 DEF Borrowing, MessagesInv, HeldInv
    <3>2. Borrowing(o) => s.handles[<<"stub", "dispatcher">>].obj = o
      BY DEF CountsInv, StubInv
    <3> QED BY <1>5, <3>1, <3>2
  <2>2. Over(s, o) = 0
    BY <1>1, <2>1
  <2>3. s.refs[o] = Over(s, o) + Cardinality(Of(s, o)) /\ Cardinality(Of(s, o)) = 0
    BY <1>1, <1>5, OverTyped
  <2> QED BY <2>2, <2>3
<1>6. ASSUME AllAnswered
      PROVE  s = EmptyStore(Objects)
  <2>1. DOMAIN s.handles = {}
    BY <1>1, <1>6, NothingHeld
  <2>2. s.live = {} /\ DOMAIN s.count = {}
    BY <1>1, <1>2, <2>1 DEF Owned
  <2>3. s.handles = << >> /\ s.count = << >>
    BY <1>1, <2>1, <2>2, EmptyFunction DEF Counted
  <2>4. s.refs = [o \in Objects |-> 0]
    <3>1. s.refs \in [Objects -> Int]
      BY <1>1 DEF Counted
    <3>2. \A o \in Objects : s.refs[o] = 0
      BY <1>5, <2>1
    <3> QED BY <3>1, <3>2
  <2>5. s = [handles |-> s.handles, count |-> s.count, live |-> s.live, refs |-> s.refs]
    BY <1>1 DEF Counted, IsStore
  <2> QED BY <2>2, <2>3, <2>4, <2>5 DEF EmptyStore
<1> QED BY <1>1, <1>3, <1>4, <1>5, <1>6

-----------------------------------------------------------------------------
(* The three parts together. *)

LifetimeInv ==
  /\ RaceInv
  /\ part \in {"messages", "pending", "connections"}
  /\ part = "messages" => CountsInv
  /\ part = "pending" => PendingInv
  /\ part = "connections" => ConnectionsInv
  /\ part # "connections" => connected = {}

LEMMA EmptyCounted ==
  ASSUME NEW s, s = EmptyStore(Objects)
  PROVE  /\ Counted(s) /\ Owned(s) /\ DOMAIN s.handles = {} /\ s.live = {}
         /\ \A o \in Objects : Over(s, o) = 0
<1>1. s.handles = << >> /\ s.count = << >> /\ s.live = {} /\ s.refs = [o \in Objects |-> 0]
  BY DEF EmptyStore
<1>2. IsStore(s)
  BY DEF IsStore, EmptyStore
<1>3. DOMAIN s.handles = {} /\ DOMAIN s.count = {}
  BY <1>1
<1>4. IsFiniteSet(DOMAIN s.handles)
  BY <1>3, FS_EmptySet
<1>5. /\ s.handles = [p \in DOMAIN s.handles |-> s.handles[p]]
      /\ s.count = [k \in DOMAIN s.count |-> s.count[k]]
  BY <1>1
<1>6. Counted(s)
  BY <1>1, <1>2, <1>3, <1>4, <1>5 DEF Counted
<1>7. Owned(s)
  BY <1>1, <1>3 DEF Owned
<1>8. \A o : Cardinality(Of(s, o)) = 0
  <2>1. \A o : Of(s, o) = {}
    BY <1>3 DEF Of
  <2> QED BY <2>1, FS_EmptySet
<1>9. \A o \in Objects : Over(s, o) = 0
  BY <1>1, <1>8 DEF Over
<1> QED BY <1>1, <1>3, <1>6, <1>7, <1>9

LEMMA InitLifetime == Init => LifetimeInv
<1> SUFFICES ASSUME Init PROVE LifetimeInv
  OBVIOUS
<1> PICK s : s = store
  OBVIOUS
<1>1. /\ s = EmptyStore(Objects) /\ attached = {} /\ notified = {} /\ connected = {}
      /\ requestQueue = << >> /\ responseQueue = << >>
      /\ part \in {"messages", "pending", "connections"}
  BY DEF Init
<1>2. /\ Counted(s) /\ Owned(s) /\ DOMAIN s.handles = {} /\ s.live = {}
      /\ \A o \in Objects : Over(s, o) = 0
  BY <1>1, EmptyCounted
<1>3. RaceInv
  BY InitRace
<1>4. ConnectionsInv
  <2>1. ConnectionHandles(s) /\ ConnectionOver(s)
    BY <1>2 DEF ConnectionHandles, ConnectionOver
  <2> QED BY <1>1, <1>2, <2>1 DEF ConnectionsInv, ConnectionStore
<1>5. PendingInv
  BY <1>1, <1>2 DEF PendingInv, PendingStore
<1>6. CountsInv
  <2>1. pc = [th \in Threads |-> CASE th = "dispatcher" -> "loop"
                                   [] th \in Workers    -> "pop"
                                   [] OTHER             -> "none"]
    BY DEF Init
  <2>2. /\ pc["dispatcher"] = "loop" /\ \A w \in Workers : pc[w] = "pop"
        /\ \A c \in Calls : pc[c] = "none"
    BY <2>1, ThreadsApart
  <2>3. ToSet(requestQueue) = {} /\ ToSet(responseQueue) = {} /\ held = {}
    BY <1>1, <1>2 DEF ToSet, held
  <2>4. WorkerPlaces /\ HelperPlaces /\ QueuePlaces
    BY <2>2, <2>3 DEF WorkerPlaces, HelperPlaces, QueuePlaces, Active
  <2>5. ContinuationPlaces
    BY <2>2, <2>3 DEF ContinuationPlaces, InFlight, Sending, Recording
  <2>6. \A o : ~Borrowing(o)
    BY <2>2 DEF Borrowing
  <2> QED BY <1>2, <2>3, <2>4, <2>5, <2>6 DEF CountsInv, PlacesInv, StubInv, MessagesOver
<1> QED BY <1>1, <1>3, <1>4, <1>5, <1>6 DEF LifetimeInv

\* A step of one part, and what it leaves alone.
LEMMA StepOfItsPart ==
  ASSUME LifetimeInv
  PROVE  /\ MessageStep => part = "messages" /\ UNCHANGED <<part, connected>>
         /\ PendingStep => part = "pending" /\ UNCHANGED <<part, connected>>
         /\ ConnectionStep => part = "connections" /\ part' = part
<1>1. ASSUME MessageStep
      PROVE  part = "messages" /\ UNCHANGED <<part, connected>>
  <2>1. part = "messages"
    BY <1>1, ThreadsRest DEF LifetimeInv, RaceInv
  <2>2. UNCHANGED <<part, connVars>>
    BY <1>1 DEF MessageStep, Deliver, Resume, Start, Post, Finish, Pop, Method, Defer, Forward, Record,
       LeaveStub, ReadFrame, Take, SendReply
  <2> QED BY <2>1, <2>2 DEF connVars
<1>2. ASSUME PendingStep
      PROVE  part = "pending" /\ UNCHANGED <<part, connected>>
  <2>1. part = "pending"
    BY <1>2 DEF PendingStep, SendAsync, CopyPending, AssignPending, DropPending, Cancel, Notify,
       Usable, MayDrop, LifetimeInv, RaceInv
  <2>2. UNCHANGED <<part, connVars>>
    BY <1>2 DEF PendingStep, SendAsync, CopyPending, AssignPending, DropPending, Cancel, Notify
  <2> QED BY <2>1, <2>2 DEF connVars
<1>3. ASSUME ConnectionStep
      PROVE  part = "connections" /\ part' = part
  BY <1>3 DEF ConnectionStep, Open, Accept, CopyConnection, CloseVariable, Disconnect, DestroyServer,
     DropListed, LifetimeInv
<1> QED BY <1>1, <1>2, <1>3

LEMMA UnchangedStores ==
  ASSUME UNCHANGED <<store, attached, notified, connected>>
  PROVE  (PendingInv => PendingInv') /\ (ConnectionsInv => ConnectionsInv')
  BY DEF PendingInv, ConnectionsInv

LEMMA NextLifetime == LifetimeInv /\ [Next]_vars => LifetimeInv'
<1> SUFFICES ASSUME LifetimeInv, [Next]_vars PROVE LifetimeInv'
  OBVIOUS
<1>1. RaceInv'
  BY NextRace DEF LifetimeInv
<1>2. CASE MessageStep
  <2>1. part = "messages" /\ part' = part /\ connected' = connected
    BY <1>2, StepOfItsPart
  <2>2. CountsInv'
    BY <1>2, <2>1, MessageStepCounts DEF LifetimeInv, RaceInv
  <2> QED BY <1>1, <2>1, <2>2 DEF LifetimeInv
<1>3. CASE PendingStep
  <2>1. part = "pending" /\ part' = part /\ connected' = connected
    BY <1>3, StepOfItsPart
  <2>2. PendingInv'
    BY <1>3, <2>1, PendingStepKeeps DEF LifetimeInv
  <2> QED BY <1>1, <2>1, <2>2 DEF LifetimeInv
<1>4. CASE ConnectionStep
  <2>1. part = "connections" /\ part' = part
    BY <1>4, StepOfItsPart
  <2>2. ConnectionsInv'
    BY <1>4, <2>1, ConnectionStepKeeps DEF LifetimeInv
  <2> QED BY <1>1, <2>1, <2>2 DEF LifetimeInv
<1>5. CASE UNCHANGED vars
  <2>1. /\ UNCHANGED <<part, store, pc, job, requestQueue, responseQueue>>
        /\ UNCHANGED <<attached, notified, connected>>
    BY <1>5 DEF vars, threadVars, pendingVars, connVars
  <2>2. CountsInv => CountsInv'
    BY <2>1, UnchangedCounts
  <2>3. (PendingInv => PendingInv') /\ (ConnectionsInv => ConnectionsInv')
    BY <2>1, UnchangedStores
  <2> QED BY <1>1, <2>1, <2>2, <2>3 DEF LifetimeInv
<1> QED BY <1>2, <1>3, <1>4, <1>5 DEF Next

LEMMA LifetimeInvHolds == Spec => []LifetimeInv
  BY InitLifetime, NextLifetime, PTL DEF Spec

\* No connection loses its last reference, or its last handle, while it is open:
\* what connection.cpp does with the two references of init() and the one of the
\* bus, and a server with its list, for any number of variables and connections.
THEOREM ClosedFirst == Spec => []ClosedBeforeItEnds
<1>1. LifetimeInv => ClosedBeforeItEnds
  BY ConnectionsKept DEF LifetimeInv, ClosedBeforeItEnds
<1> QED BY <1>1, LifetimeInvHolds, PTL

\* Every handle in use has its Private and a reference of its object: messages
\* between the threads, pending calls until they are notified, connections.
THEOREM HandlesStayValid == Spec => []HandlesValid
<1>1. LifetimeInv => HandlesValid
  <2> SUFFICES ASSUME LifetimeInv PROVE HandlesValid
    OBVIOUS
  <2>1. CASE part = "pending"
    BY <2>1, PendingKept DEF LifetimeInv
  <2>2. CASE part # "pending"
    <3>1. attached = {}
      BY <2>2 DEF LifetimeInv, RaceInv
    <3>2. \A p \in held : store.handles[p].ptr \in store.live /\ store.refs[store.handles[p].obj] > 0
      BY <2>2, CountsKeep, ConnectionsKept DEF LifetimeInv, RaceInv
    <3> QED BY <3>1, <3>2 DEF HandlesValid, InUse, held
  <2> QED BY <2>1, <2>2
<1> QED BY <1>1, LifetimeInvHolds, PTL

\* And what no one has a handle of is gone: no message, pending call or accepted
\* connection is leaked, and one opened on a bus keeps at most the reference that
\* dbus_bus_get_private() took.
THEOREM NothingIsLeft == Spec => []NothingLeft
<1>1. LifetimeInv => NothingLeft
  <2> SUFFICES ASSUME LifetimeInv PROVE NothingLeft
    OBVIOUS
  <2>1. \A o \in Unheld : o \in Objects /\ \A p \in held : store.handles[p].obj # o
    BY DEF Unheld, held
  <2>2. CASE part = "pending"
    <3>1. /\ \A o \in Unheld : store.refs[o] = 0
          /\ \A k \in store.live : \E p \in held : store.handles[p].ptr = k
      BY <2>2, PendingKept DEF LifetimeInv
    <3> QED BY <2>2, <3>1 DEF NothingLeft, AllAnswered, held
  <2>3. CASE part = "messages"
    <3>1. /\ \A o \in Unheld : store.refs[o] = 0
          /\ \A k \in store.live : \E p \in held : store.handles[p].ptr = k
          /\ AllAnswered => store = EmptyStore(Objects)
      BY <2>1, <2>3, CountsKeep DEF LifetimeInv, RaceInv
    <3> QED BY <3>1 DEF NothingLeft, held
  <2>4. CASE part = "connections"
    <3>1. /\ \A o \in Unheld : IF o \in Clients THEN store.refs[o] <= 1 ELSE store.refs[o] = 0
          /\ \A k \in store.live : \E p \in held : store.handles[p].ptr = k
      BY <2>1, <2>4, ConnectionsKept DEF LifetimeInv
    <3> QED BY <2>4, <3>1 DEF NothingLeft, AllAnswered, held
  <2> QED BY <2>2, <2>3, <2>4 DEF LifetimeInv
<1> QED BY <1>1, LifetimeInvHolds, PTL
=============================================================================
