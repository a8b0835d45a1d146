---------------------------- MODULE RefCounting ----------------------------
(***************************************************************************)
(* RefCnt, RefPtr and RefPtrI (src/include/dbus-c++/util.h, refptr_impl.h), *)
(* and the classes that are handles of an object of libdbus: Message,      *)
(* PendingCall and Connection.  A handle has a pointer to its Private and   *)
(* the counter it shares with its copies; the Private points to the object *)
(* of libdbus, which has a reference count of its own.                     *)
(*                                                                         *)
(* A store is what there is of them: the handles and their places, the     *)
(* counters, the Privates that live, and the counts of libdbus.            *)
(***************************************************************************)
EXTENDS Naturals, SequencesExt

EmptyStore(objects) ==
  [handles |-> << >>, count |-> << >>, live |-> {}, refs |-> [o \in objects |-> 0]]

\* A handle, or a counter, where there may have been one.
Put(f, k, v) == [x \in DOMAIN f \cup {k} |-> IF x = k THEN v ELSE f[x]]

\* dbus_..._ref() and dbus_..._unref().
Ref(s, obj)   == [s EXCEPT !.refs[obj] = @ + 1]
Unref(s, obj) == [s EXCEPT !.refs[obj] = @ - 1]

-----------------------------------------------------------------------------
(* The pointers.  RefPtr and RefPtrI are the same but for inlining. *)

\* RefPtr(ptr): a counter of its own, whoever else points there.
RefPtr(s, place, ptr, cnt, obj) ==
  [s EXCEPT !.handles = Put(@, place, [ptr |-> ptr, cnt |-> cnt, obj |-> obj]),
            !.count = Put(@, cnt, 1)]

\* `new Private' put in a handle.
NewPrivate(s, place, name, obj) ==
  RefPtr([s EXCEPT !.live = @ \cup {name}], place, name, name, obj)

\* RefCnt(rc): one more.
CopyPtr(s, from, to) ==
  [s EXCEPT !.handles = Put(@, to, s.handles[from]),
            !.count[s.handles[from].cnt] = @ + 1]

\* RefCnt::unref(): the counter that is 0 goes.
Uncount(s, k) ==
  [s EXCEPT !.count = IF s.count[k] = 1 THEN Restrict(s.count, DOMAIN s.count \ {k})
                                        ELSE [s.count EXCEPT ![k] = @ - 1]]

\* ~RefPtr(): the last handle of its counter deletes the Private.
one(s, place) == s.count[s.handles[place].cnt] = 1
DestroyPtr(s, place) ==
  LET h == s.handles[place]
      kept == IF one(s, place) THEN s.live \ {h.ptr} ELSE s.live
  IN  [Uncount(s, h.cnt) EXCEPT !.live = kept,
                                !.handles = Restrict(@, DOMAIN @ \ {place})]

\* operator=
AssignPtr(s, to, from) == CopyPtr(DestroyPtr(s, to), from, to)

-----------------------------------------------------------------------------
(* Handles of libdbus objects: the object is referenced too, before the    *)
(* pointer and the counter go.                                             *)

CopyHandle_NoRef(s, from, to) == CopyPtr(s, from, to)
CopyHandle(s, from, to) == Ref(CopyPtr(s, from, to), s.handles[from].obj)

DropHandle(s, place) == DestroyPtr(Unref(s, s.handles[place].obj), place)

\* Message(m, false): a Private and a counter of its own.
CopyApart(s, from, to, name) ==
  LET obj == s.handles[from].obj
  IN  Ref(NewPrivate(s, to, name, obj), obj)

AssignHandle(s, to, from) ==
  Ref(AssignPtr(Unref(s, s.handles[to].obj), to, from), s.handles[from].obj)

\* The end of a variable, if it was set.
DropHeld(s, place) == IF place \in DOMAIN s.handles THEN DropHandle(s, place) ELSE s
=============================================================================
