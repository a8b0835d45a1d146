--------------------------- MODULE Objects_proofs ---------------------------
(***************************************************************************)
(* Theorems about Objects, for any connections, paths, objects, proxies,   *)
(* requests and number of messages.                                        *)
(***************************************************************************)
EXTENDS Objects, ListLemmas, FiniteSetTheorems

USE NoneAssumption

tableVars == <<place, registered, table, shared>>

Places == (Connections \X Paths) \cup {None}

TableTypes ==
  /\ place \in [Objects -> Places]
  /\ registered \in [Connections -> [Paths -> Objects \cup {None}]]
  /\ table \in [Paths -> Objects \cup {None}]

\* A path objects of two connections have never had at once has one object.
OneConnection ==
  \A p \in Paths : p \notin shared =>
    \A c, d \in Connections :
      registered[c][p] # None /\ registered[d][p] # None => c = d

TableInv == TableTypes /\ TablesAgree /\ OneConnection

-----------------------------------------------------------------------------
(* Objects come and go in two actions; no other touches the tables.        *)

\* The client has no part in what the server keeps of its objects.
LEMMA ClientKeepsServer == ClientStep => UNCHANGED serverVars
<1>1. \A q \in Proxies : NewProxy(q) \/ DeleteProxy(q) => UNCHANGED serverVars
  BY DEF NewProxy, DeleteProxy
<1>2. \A q \in Proxies : \A i \in InterfacesOf[q], request \in Requests :
        invoke_method(q, i, request) \/ invoke_method_noreply(q, i, request)
          => UNCHANGED serverVars
  BY DEF invoke_method, invoke_method_noreply, Send
<1>3. GetAnswer \/ TimeOut => UNCHANGED serverVars
  BY DEF GetAnswer, TimeOut
<1>4. ClientDispatch \/ CallFilter \/ FiltersDone => UNCHANGED serverVars
  BY DEF ClientDispatch, CallFilter, FiltersDone
<1>. QED  BY <1>1, <1>2, <1>3, <1>4 DEF ClientStep

LEMMA TableSteps ==
  ASSUME [Next]_vars
  PROVE  \/ \E o \in Objects, c \in Connections, p \in Paths : Create(o, c, p)
         \/ \E o \in Objects : Destroy(o)
         \/ UNCHANGED tableVars
<1>1. CASE UNCHANGED vars
  BY <1>1 DEF vars, serverVars, tableVars
<1>2. CASE ServerStep
  <2>1. CASE \E o \in Objects : \E new \in NewValues : Assign(o, new)
    BY <2>1 DEF Assign, tableVars
  <2>2. CASE \E o \in Objects : \E s \in SignalsOf : EmitSignal(o, s)
    BY <2>2 DEF EmitSignal, tableVars, serverVars
  <2>3. CASE \E o \in Objects : \E tag \in Tags : ReturnNow(o, tag)
    BY <2>3 DEF ReturnNow, tableVars
  <2>4. CASE \E c \in Connections : Dispatch(c)
    BY <2>4 DEF Dispatch, tableVars
  <2>. QED  BY <1>2, <2>1, <2>2, <2>3, <2>4 DEF ServerStep
<1>3. CASE ClientStep
  BY <1>3, ClientKeepsServer DEF serverVars, tableVars
<1>. QED  BY <1>1, <1>2, <1>3 DEF Next

LEMMA UnchangedTables ==
  ASSUME TableInv, UNCHANGED tableVars
  PROVE  TableInv'
<1>1. place' = place /\ registered' = registered /\ table' = table /\ shared' = shared
  BY DEF tableVars
<1>. QED  BY <1>1 DEF TableInv, TableTypes, TablesAgree, OneConnection

-----------------------------------------------------------------------------
LEMMA CreateKeepsTables ==
  ASSUME TableInv,
         NEW o \in Objects, NEW c \in Connections, NEW p \in Paths,
         Create(o, c, p)
  PROVE  TableInv'
<1>. USE DEF TableInv
<1>1. /\ place[o] = None /\ registered[c][p] = None
      /\ registered' = [registered EXCEPT ![c][p] = o]
      /\ table' = [table EXCEPT ![p] = o]
      /\ place' = [place EXCEPT ![o] = <<c, p>>]
      /\ shared' = shared \cup {r \in {p} : \E d \in Connections : registered[d][r] # None}
  BY DEF Create, register_obj
<1>2. <<c, p>> \in Connections \X Paths /\ <<c, p>> # None /\ o # None
  OBVIOUS
<1>3. TableTypes'
  BY <1>1, <1>2 DEF TableTypes, Places
<1>4. /\ \A u \in Objects : place'[u] = IF u = o THEN <<c, p>> ELSE place[u]
      /\ \A r \in Paths : table'[r] = IF r = p THEN o ELSE table[r]
      /\ \A d \in Connections, r \in Paths :
           registered'[d][r] = IF d = c /\ r = p THEN o ELSE registered[d][r]
  BY <1>1 DEF TableTypes
<1>5. \A d \in Connections, r \in Paths, u \in Objects :
        registered'[d][r] = u <=> place'[u] = <<d, r>>
  <2>. TAKE d \in Connections, r \in Paths, u \in Objects
  <2>1. registered[d][r] = u <=> place[u] = <<d, r>>
    BY DEF TablesAgree
  <2>2. CASE d = c /\ r = p
    BY <1>1, <1>2, <1>4, <2>1, <2>2 DEF TablesAgree
  <2>3. CASE ~(d = c /\ r = p)
    BY <1>1, <1>2, <1>4, <2>1, <2>3
  <2>. QED  BY <2>2, <2>3
<1>6. \A r \in Paths : table'[r] # None => place'[table'[r]] # None
                                           /\ place'[table'[r]][2] = r
  <2>. SUFFICES ASSUME NEW r \in Paths, table'[r] # None
                PROVE  place'[table'[r]] # None /\ place'[table'[r]][2] = r
    OBVIOUS
  <2>1. CASE r = p
    BY <1>2, <1>4, <2>1
  <2>2. CASE r # p
    <3>1. table'[r] = table[r] /\ table[r] \in Objects
      BY <1>4, <2>2 DEF TableTypes
    <3>2. place[table[r]] # None /\ place[table[r]][2] = r
      BY <3>1 DEF TablesAgree
    <3>. QED  BY <1>1, <1>4, <3>1, <3>2
  <2>. QED  BY <2>1, <2>2
<1>7. \A r \in Paths : r \notin shared' /\ table'[r] = None =>
        \A d \in Connections : registered'[d][r] = None
  <2>. SUFFICES ASSUME NEW r \in Paths, r \notin shared', table'[r] = None,
                       NEW d \in Connections
                PROVE  registered'[d][r] = None
    OBVIOUS
  <2>1. r # p /\ table[r] = None /\ r \notin shared
    BY <1>1, <1>2, <1>4
  <2>2. registered[d][r] = None
    BY <2>1 DEF TablesAgree
  <2>. QED  BY <1>4, <2>1, <2>2
<1>8. OneConnection'
  <2>. SUFFICES ASSUME NEW r \in Paths, r \notin shared',
                       NEW d \in Connections, NEW e \in Connections,
                       registered'[d][r] # None, registered'[e][r] # None
                PROVE  d = e
    BY DEF OneConnection
  <2>1. r \notin shared
    BY <1>1
  <2>2. CASE r # p
    BY <1>4, <2>1, <2>2 DEF OneConnection
  <2>3. CASE r = p
    <3>1. \A f \in Connections : registered[f][p] = None
      BY <1>1, <2>3
    <3>. QED  BY <1>4, <2>3, <3>1
  <2>. QED  BY <2>2, <2>3
<1>9. TablesAgree'
  BY <1>5, <1>6, <1>7 DEF TablesAgree
<1>. QED  BY <1>3, <1>8, <1>9

LEMMA DestroyKeepsTables ==
  ASSUME TableInv, NEW o \in Objects, Destroy(o)
  PROVE  TableInv'
<1>. USE DEF TableInv
<1>1. place[o] \in Connections \X Paths
  BY DEF Destroy, Alive, TableTypes, Places
<1>2. PICK c \in Connections, p \in Paths : place[o] = <<c, p>>
  BY <1>1
<1>3. /\ registered' = [registered EXCEPT ![c][p] = None]
      /\ table' = [table EXCEPT ![p] = None]
      /\ place' = [place EXCEPT ![o] = None]
      /\ shared' = {r \in shared : \E d \in Connections : registered'[d][r] # None}
  BY <1>2 DEF Destroy, unregister_obj
<1>4. TableTypes'
  BY <1>3 DEF TableTypes, Places
<1>5. /\ \A u \in Objects : place'[u] = IF u = o THEN None ELSE place[u]
      /\ \A r \in Paths : table'[r] = IF r = p THEN None ELSE table[r]
      /\ \A d \in Connections, r \in Paths :
           registered'[d][r] = IF d = c /\ r = p THEN None ELSE registered[d][r]
  BY <1>3 DEF TableTypes
<1>6. registered[c][p] = o
  BY <1>2 DEF TablesAgree
<1>7. \A d \in Connections, r \in Paths, u \in Objects :
        registered'[d][r] = u <=> place'[u] = <<d, r>>
  <2>. TAKE d \in Connections, r \in Paths, u \in Objects
  <2>1. registered[d][r] = u <=> place[u] = <<d, r>>
    BY DEF TablesAgree
  <2>2. u # None /\ <<d, r>> # None
    BY DEF TableTypes
  <2>3. CASE d = c /\ r = p
    BY <1>2, <1>5, <1>6, <2>1, <2>2, <2>3
  <2>4. CASE ~(d = c /\ r = p)
    <3>1. registered'[d][r] = registered[d][r] /\ <<c, p>> # <<d, r>>
      BY <1>5, <2>4
    <3>2. CASE u = o
      BY <1>2, <1>5, <2>1, <2>2, <3>1, <3>2
    <3>3. CASE u # o
      BY <1>5, <2>1, <3>1, <3>3
    <3>. QED  BY <3>2, <3>3
  <2>. QED  BY <2>3, <2>4
<1>8. \A r \in Paths : table'[r] # None => place'[table'[r]] # None
                                           /\ place'[table'[r]][2] = r
  <2>. SUFFICES ASSUME NEW r \in Paths, table'[r] # None
                PROVE  place'[table'[r]] # None /\ place'[table'[r]][2] = r
    OBVIOUS
  <2>1. r # p /\ table'[r] = table[r] /\ table[r] \in Objects
    BY <1>5 DEF TableTypes
  <2>2. place[table[r]] # None /\ place[table[r]][2] = r
    BY <2>1 DEF TablesAgree
  <2>3. table[r] # o
    BY <1>2, <2>1, <2>2
  <2>. QED  BY <1>5, <2>1, <2>2, <2>3
<1>9. \A r \in Paths : r \notin shared' /\ table'[r] = None =>
        \A d \in Connections : registered'[d][r] = None
  <2>. SUFFICES ASSUME NEW r \in Paths, r \notin shared', table'[r] = None,
                       NEW d \in Connections
                PROVE  registered'[d][r] = None
    OBVIOUS
  <2>. SUFFICES ASSUME r \notin shared PROVE registered'[d][r] = None
    BY <1>3
  <2>1. CASE r # p
    <3>1. registered[d][r] = None
      BY <1>5, <2>1 DEF TablesAgree
    <3>. QED  BY <1>5, <2>1, <3>1
  <2>2. CASE r = p
    <3>1. d # c => registered[d][p] = None
      BY <1>6, <2>2 DEF OneConnection, TableTypes
    <3>. QED  BY <1>5, <2>2, <3>1
  <2>. QED  BY <2>1, <2>2
<1>10. OneConnection'
  <2>. SUFFICES ASSUME NEW r \in Paths, r \notin shared',
                       NEW d \in Connections, NEW e \in Connections,
                       registered'[d][r] # None, registered'[e][r] # None
                PROVE  d = e
    BY DEF OneConnection
  <2>1. registered[d][r] # None /\ registered[e][r] # None
    BY <1>5
  <2>2. r \notin shared
    BY <1>3
  <2>. QED  BY <2>1, <2>2 DEF OneConnection
<1>11. TablesAgree'
  BY <1>7, <1>8, <1>9 DEF TablesAgree
<1>. QED  BY <1>4, <1>10, <1>11

-----------------------------------------------------------------------------
\* The inductive invariant of the tables of objects.
LEMMA TableInvHolds == Spec => []TableInv
<1>1. Init => TableInv
  <2>. SUFFICES ASSUME Init PROVE TableInv
    OBVIOUS
  <2>1. /\ place = [o \in Objects |-> None]
        /\ registered = [c \in Connections |-> [p \in Paths |-> None]]
        /\ table = [p \in Paths |-> None]
    BY DEF Init
  <2>. QED  BY <2>1 DEF TableInv, TableTypes, Places, TablesAgree, OneConnection
<1>2. TableInv /\ [Next]_vars => TableInv'
  BY TableSteps, UnchangedTables, CreateKeepsTables, DestroyKeepsTables
<1>. QED  BY <1>1, <1>2, PTL DEF Spec

\* However many connections share a path, calls find the object that has it,
\* and introspection lists no object that has gone (object.cpp:170-189).
THEOREM ObjectsAreFound == Spec => []TablesAgree
<1>1. TableInv => TablesAgree
  BY DEF TableInv
<1>. QED  BY <1>1, TableInvHolds, PTL

-----------------------------------------------------------------------------
(* Properties keep their types.                                            *)

\* What the object itself has given property p of interface i.
Given(i, p) ==
  {InitialValues[i][p]}
    \cup {v.value : v \in {w \in NewValues : w.interface = i /\ w.property = p}}

WellTyped(vs) ==
  /\ DOMAIN vs = DOMAIN PropertyTable
  /\ \A i \in DOMAIN PropertyTable :
       /\ DOMAIN vs[i] = DOMAIN PropertyTable[i]
       /\ \A p \in DOMAIN PropertyTable[i] :
            /\ vs[i][p].sig = PropertyTable[i][p].sig
            /\ ~PropertyTable[i][p].write => vs[i][p] \in Given(i, p)

ValuesInv ==
  /\ DOMAIN values = Objects
  /\ \A o \in Objects : WellTyped(values[o])

\* Another value of the right type, which the object gives the property or
\* which is written to one that is writeable.
LEMMA OneValue ==
  ASSUME NEW vs, WellTyped(vs),
         NEW i \in DOMAIN PropertyTable, NEW p \in DOMAIN PropertyTable[i], NEW x,
         x.sig = PropertyTable[i][p].sig,
         PropertyTable[i][p].write \/ x \in Given(i, p)
  PROVE  WellTyped([vs EXCEPT ![i][p] = x])
<1>. DEFINE ws == [vs EXCEPT ![i][p] = x]
<1>1. DOMAIN ws = DOMAIN PropertyTable
  BY DEF WellTyped
<1>2. \A j \in DOMAIN PropertyTable : DOMAIN ws[j] = DOMAIN PropertyTable[j]
  BY DEF WellTyped
<1>3. \A j \in DOMAIN PropertyTable : \A q \in DOMAIN PropertyTable[j] :
        ws[j][q] = IF j = i /\ q = p THEN x ELSE vs[j][q]
  BY DEF WellTyped
<1>. HIDE DEF ws
<1>4. \A j \in DOMAIN PropertyTable : \A q \in DOMAIN PropertyTable[j] :
        /\ ws[j][q].sig = PropertyTable[j][q].sig
        /\ ~PropertyTable[j][q].write => ws[j][q] \in Given(j, q)
  BY <1>3 DEF WellTyped
<1>5. WellTyped(ws)
  BY <1>1, <1>2, <1>4 DEF WellTyped
<1>. QED  BY <1>5 DEF ws

LEMMA InitialWellTyped == WellTyped(InitialValues)
BY ValuesAssumption DEF WellTyped, Given

\* A value given by a client has passed the checks of set_property().
LEMMA SetKeepsTypes ==
  ASSUME NEW call, NEW vs, WellTyped(vs)
  PROVE  WellTyped(Set(call, vs).values)
<1>. DEFINE i == call.body.interface
            p == call.body.property
            x == call.body.value
            on == on_set_property(p, x)
            error == IF ~find_interface(i) THEN "Failed"
                     ELSE IF on.error # "" THEN on.error
                     ELSE set_property(i, p, x)
<1>1. Set(call, vs).values = IF error # "" THEN vs ELSE [vs EXCEPT ![i][p] = x]
  BY DEF Set
<1>2. CASE error # ""
  BY <1>1, <1>2
<1>3. CASE error = ""
  <2>1. set_property(i, p, x) = ""
    BY <1>3
  <2>2. /\ i \in DOMAIN PropertyTable /\ p \in DOMAIN PropertyTable[i]
        /\ PropertyTable[i][p].write /\ x.sig = PropertyTable[i][p].sig
    BY <2>1 DEF set_property
  <2>3. WellTyped([vs EXCEPT ![i][p] = x])
    BY <2>2, OneValue
  <2>. QED  BY <1>1, <1>3, <2>3
<1>. QED  BY <1>2, <1>3

LEMMA CallKeepsTypes ==
  ASSUME NEW call, NEW vs, WellTyped(vs), NEW paths,
         NEW result \in dispatch_method(call, vs, paths)
  PROVE  WellTyped(result.values)
<1>1. result.values = vs \/ result = Set(call, vs)
  BY DEF dispatch_method, Answers, Later
<1>. QED  BY <1>1, SetKeepsTypes

-----------------------------------------------------------------------------
LEMMA ValueSteps ==
  ASSUME ValuesInv, [Next]_vars
  PROVE  ValuesInv'
<1>. SUFFICES ASSUME values' # values PROVE ValuesInv'
  BY DEF ValuesInv
<1>1. CASE UNCHANGED vars
  BY <1>1 DEF vars, serverVars
<1>2. CASE ClientStep
  BY <1>2, ClientKeepsServer DEF serverVars
<1>3. ASSUME NEW o \in Objects,
             (\E c \in Connections, p \in Paths : Create(o, c, p)) \/ Destroy(o)
      PROVE  ValuesInv'
  <2>1. values' = [values EXCEPT ![o] = InitialValues]
    BY <1>3 DEF Create, Destroy
  <2>. QED  BY <2>1, InitialWellTyped DEF ValuesInv
<1>4. ASSUME NEW o \in Objects, NEW new \in NewValues, Assign(o, new)
      PROVE  ValuesInv'
  <2>. DEFINE i == new.interface
              p == new.property
              ws == [values[o] EXCEPT ![i][p] = new.value]
  <2>1. values' = [values EXCEPT ![o] = ws]
    BY <1>4 DEF Assign
  <2>2. i \in DOMAIN PropertyTable /\ p \in DOMAIN PropertyTable[i]
        /\ new.value.sig = PropertyTable[i][p].sig /\ new.value \in Given(i, p)
    BY ValuesAssumption DEF Given
  <2>3. WellTyped(ws)
    BY <2>2, OneValue DEF ValuesInv
  <2>. HIDE DEF ws
  <2>. QED  BY <2>1, <2>3 DEF ValuesInv
<1>5. ASSUME NEW c \in Connections, Dispatch(c)
      PROVE  ValuesInv'
  <2>. DEFINE call == Head(inbox[c])
              o == registered[c][call.path]
  <2>1. PICK result \in dispatch_method(call, values[o], Listed) :
          values' = [values EXCEPT ![o] = result.values]
    BY <1>5 DEF Dispatch, NotHandled, AnswerNow, AnswerLater
  <2>2. CASE o \in Objects
    <3>1. WellTyped(result.values)
      BY <2>2, CallKeepsTypes DEF ValuesInv
    <3>. QED  BY <2>1, <2>2, <3>1 DEF ValuesInv
  <2>3. CASE o \notin Objects
    BY <2>1, <2>3 DEF ValuesInv
  <2>. QED  BY <2>2, <2>3
<1>6. ASSUME NEW o \in Objects,
             \/ \E s \in SignalsOf : EmitSignal(o, s)
             \/ \E tag \in Tags : ReturnNow(o, tag)
      PROVE  ValuesInv'
  BY <1>6 DEF EmitSignal, ReturnNow, serverVars
<1>7. CASE ServerStep
  <2>1. CASE \E c \in Connections : Dispatch(c)
    BY <2>1, <1>5
  <2>2. ASSUME NEW o \in Objects,
               \/ \E c \in Connections, p \in Paths : Create(o, c, p)
               \/ Destroy(o)
               \/ \E new \in NewValues : Assign(o, new)
               \/ \E s \in SignalsOf : EmitSignal(o, s)
               \/ \E tag \in Tags : ReturnNow(o, tag)
        PROVE  ValuesInv'
    <3>1. CASE (\E c \in Connections, p \in Paths : Create(o, c, p)) \/ Destroy(o)
      BY <3>1, <1>3
    <3>2. CASE \E new \in NewValues : Assign(o, new)
      BY <3>2, <1>4
    <3>. QED  BY <2>2, <3>1, <3>2, <1>6
  <2>. QED  BY <1>7, <2>1, <2>2 DEF ServerStep
<1>. QED  BY <1>1, <1>2, <1>7 DEF Next

\* Whatever clients send to Set, for any properties: a value keeps its type,
\* and one that is not writeable stays what the object has made it
\* (interface.cpp:96-114).
THEOREM PropertiesKeepTypes == Spec => []PropertiesKept
<1>1. Init => ValuesInv
  BY InitialWellTyped DEF Init, ValuesInv
<1>2. ValuesInv /\ [Next]_vars => ValuesInv'
  BY ValueSteps
<1>3. ValuesInv => PropertiesKept
  BY DEF ValuesInv, WellTyped, Given, PropertiesKept, Alive
<1>. QED  BY <1>1, <1>2, <1>3, PTL DEF Spec

-----------------------------------------------------------------------------
(* What is announced is the value.                                         *)

\* An announcement is of a property the application announces, and agrees with
\* the value unless it is one of the exceptions.
Agrees(said, vs) ==
  /\ DOMAIN said \subseteq DOMAIN Announced
  /\ \A p \in DOMAIN said :
       said[p].interface = Announced[p].interface /\ Fit(p) =>
         vs[said[p].interface][p] = said[p].value

AnnouncedInv ==
  /\ announced = [o \in Objects |-> announced[o]]
  /\ \A o \in Objects : Agrees(announced[o], values[o])

\* What AnswerNow makes of the announcements of an object.
Said(call, result, said) ==
  IF result.changed THEN Put(said, call.body.property, Change(call)) ELSE said

\* The hook announces before the checks of the property.  When it has announced
\* a fitting property under its own interface, the checks find nothing; and
\* when a property that was announced is stored, it is announced again.
LEMMA SetAgrees ==
  ASSUME NEW call, NEW vs, WellTyped(vs), NEW said, Agrees(said, vs)
  PROVE  Agrees(Said(call, Set(call, vs), said), Set(call, vs).values)
<1>. DEFINE i == call.body.interface
            p == call.body.property
            x == call.body.value
            result == Set(call, vs)
            heard == Said(call, result, said)
            announces == find_interface(i) /\ p \in DOMAIN Announced /\ x.sig = Announced[p].sig
            accepted == /\ find_interface(i) /\ (p \in DOMAIN Announced => announces)
                        /\ set_property(i, p, x) = ""
<1>1. result.values = IF accepted THEN [vs EXCEPT ![i][p] = x] ELSE vs
  BY DEF Set, on_set_property
<1>2. result.changed = announces
  BY DEF Set, on_set_property
<1>3. heard = IF announces THEN Put(said, p, Change(call)) ELSE said
  BY <1>2 DEF Said
<1>4. Change(call).interface = i /\ Change(call).value = x
  BY DEF Change
<1>5. announces /\ i = Announced[p].interface /\ Fit(p) => accepted
  BY DEF Fit, set_property
<1>6. accepted => i \in DOMAIN vs /\ p \in DOMAIN vs[i]
  BY DEF set_property, WellTyped
<1>7. accepted /\ p \in DOMAIN Announced => announces
  OBVIOUS
<1>8. announces => p \in DOMAIN Announced
  OBVIOUS
<1>. HIDE DEF result, heard, announces, accepted, i, p, x
<1>9. DOMAIN heard \subseteq DOMAIN Announced
  BY <1>3, <1>8 DEF Agrees, Put
<1>10. ASSUME NEW r \in DOMAIN heard, heard[r].interface = Announced[r].interface, Fit(r)
       PROVE  result.values[heard[r].interface][r] = heard[r].value
  <2>1. CASE announces /\ r = p
    <3>1. heard[r].interface = i /\ heard[r].value = x
      BY <1>3, <1>4, <2>1 DEF Put
    <3>2. accepted
      BY <1>5, <1>10, <2>1, <3>1
    <3>. QED  BY <1>1, <1>6, <2>1, <3>1, <3>2
  <2>2. CASE ~(announces /\ r = p)
    <3>1. r \in DOMAIN said /\ heard[r] = said[r]
      BY <1>3, <2>2 DEF Put
    <3>2. vs[said[r].interface][r] = said[r].value
      BY <1>10, <3>1 DEF Agrees
    <3>3. accepted => r # p
      BY <1>7, <1>9, <2>2
    <3>4. said[r].interface \in DOMAIN vs /\ r \in DOMAIN vs[said[r].interface]
      BY <1>10, <3>1 DEF Fit, WellTyped
    <3>5. result.values[said[r].interface][r] = vs[said[r].interface][r]
      BY <1>1, <1>6, <3>3, <3>4
    <3>. QED  BY <3>1, <3>2, <3>5
  <2>. QED  BY <2>1, <2>2
<1>11. Agrees(heard, result.values)
  BY <1>9, <1>10 DEF Agrees
<1>. QED  BY <1>11 DEF heard, result

LEMMA CallAgrees ==
  ASSUME NEW call, NEW vs, WellTyped(vs), NEW said, Agrees(said, vs), NEW paths,
         NEW result \in dispatch_method(call, vs, paths)
  PROVE  Agrees(Said(call, result, said), result.values)
<1>1. (result.values = vs /\ result.changed = FALSE) \/ result = Set(call, vs)
  BY DEF dispatch_method, Answers, Later
<1>2. CASE result.values = vs /\ result.changed = FALSE
  BY <1>2 DEF Said
<1>. QED  BY <1>1, <1>2, SetAgrees

LEMMA AnnouncedSteps ==
  ASSUME ValuesInv, AnnouncedInv, [Next]_vars
  PROVE  AnnouncedInv'
<1>. SUFFICES ASSUME ~UNCHANGED <<values, announced>> PROVE AnnouncedInv'
  BY DEF AnnouncedInv
<1>1. ASSUME NEW o \in Objects,
             (\E c \in Connections, p \in Paths : Create(o, c, p)) \/ Destroy(o)
      PROVE  AnnouncedInv'
  <2>1. values' = [values EXCEPT ![o] = InitialValues] /\ announced' = [announced EXCEPT ![o] = << >>]
    BY <1>1 DEF Create, Destroy
  <2>2. Agrees(<< >>, InitialValues)
    BY DEF Agrees
  <2>. QED  BY <2>1, <2>2 DEF AnnouncedInv, ValuesInv
<1>2. ASSUME NEW o \in Objects, NEW new \in NewValues, Assign(o, new)
      PROVE  AnnouncedInv'
  <2>. DEFINE ws == [values[o] EXCEPT ![new.interface][new.property] = new.value]
  <2>1. values' = [values EXCEPT ![o] = ws] /\ announced' = [announced EXCEPT ![o] = << >>]
    BY <1>2 DEF Assign
  <2>. HIDE DEF ws
  <2>2. Agrees(<< >>, ws)
    BY DEF Agrees
  <2>. QED  BY <2>1, <2>2 DEF AnnouncedInv, ValuesInv
<1>3. ASSUME NEW c \in Connections, Dispatch(c)
      PROVE  AnnouncedInv'
  <2>. DEFINE call == Head(inbox[c])
              o == registered[c][call.path]
  <2>1. PICK result \in dispatch_method(call, values[o], Listed) : AnswerNow(o, call, result)
    BY <1>3 DEF Dispatch, NotHandled, AnswerLater
  <2>2. values' = [values EXCEPT ![o] = result.values]
    BY <2>1 DEF AnswerNow
  <2>3. announced' = [announced EXCEPT ![o] = Said(call, result, announced[o])]
    <3>1. CASE result.changed
      BY <2>1, <3>1 DEF AnswerNow, Said
    <3>2. CASE ~result.changed
      <4>1. announced' = announced
        BY <2>1, <3>2 DEF AnswerNow
      <4>2. Said(call, result, announced[o]) = announced[o]
        BY <3>2 DEF Said
      <4>3. announced = [u \in Objects |-> announced[u]]
        BY DEF AnnouncedInv
      <4>. QED  BY <4>1, <4>2, <4>3
    <3>. QED  BY <3>1, <3>2
  <2>. HIDE DEF call, o
  <2>4. CASE o \in Objects
    <3>1. Agrees(Said(call, result, announced[o]), result.values)
      BY <2>4, CallAgrees DEF ValuesInv, AnnouncedInv
    <3>. QED  BY <2>2, <2>3, <2>4, <3>1 DEF AnnouncedInv, ValuesInv
  <2>5. CASE o \notin Objects
    BY <2>2, <2>3, <2>5 DEF AnnouncedInv, ValuesInv
  <2>. QED  BY <2>4, <2>5
<1>4. ASSUME NEW o \in Objects,
             \/ \E s \in SignalsOf : EmitSignal(o, s)
             \/ \E tag \in Tags : ReturnNow(o, tag)
      PROVE  FALSE
  BY <1>4 DEF EmitSignal, ReturnNow, serverVars
<1>5. ClientStep => UNCHANGED <<values, announced>>
  BY ClientKeepsServer DEF serverVars
<1>6. CASE ServerStep
  <2>1. CASE \E c \in Connections : Dispatch(c)
    BY <2>1, <1>3
  <2>2. ASSUME NEW o \in Objects,
               \/ \E c \in Connections, p \in Paths : Create(o, c, p)
               \/ Destroy(o)
               \/ \E new \in NewValues : Assign(o, new)
               \/ \E s \in SignalsOf : EmitSignal(o, s)
               \/ \E tag \in Tags : ReturnNow(o, tag)
        PROVE  AnnouncedInv'
    <3>1. CASE (\E c \in Connections, p \in Paths : Create(o, c, p)) \/ Destroy(o)
      BY <3>1, <1>1
    <3>2. CASE \E new \in NewValues : Assign(o, new)
      BY <3>2, <1>2
    <3>. QED  BY <2>2, <3>1, <3>2, <1>4
  <2>. QED  BY <1>6, <2>1, <2>2 DEF ServerStep
<1>7. ~UNCHANGED vars
  BY DEF vars, serverVars
<1>. QED  BY <1>5, <1>6, <1>7 DEF Next

\* Whatever properties the application announces and whatever clients set, what
\* it has announced of a property is its value until it sets it itself, with two
\* exceptions, in which the checks that come after the hook refuse the value or
\* it goes elsewhere: the client has named another interface, or clients may not
\* set the property or not with that type (property.cpp:85-98,
\* interface.cpp:96-114).
THEOREM AnnouncementsAreTrue == Spec => []AnnouncedIsStored
<1>1. Init => ValuesInv /\ AnnouncedInv
  <2>. SUFFICES ASSUME Init PROVE ValuesInv /\ AnnouncedInv
    OBVIOUS
  <2>1. /\ values = [o \in Objects |-> InitialValues]
        /\ announced = [o \in Objects |-> << >>]
    BY DEF Init
  <2>. QED  BY <2>1, InitialWellTyped DEF ValuesInv, AnnouncedInv, Agrees
<1>2. ValuesInv /\ AnnouncedInv /\ [Next]_vars => (ValuesInv /\ AnnouncedInv)'
  BY ValueSteps, AnnouncedSteps
<1>3. AnnouncedInv => AnnouncedIsStored
  BY DEF AnnouncedInv, Agrees, AnnouncedIsStored, Alive
<1>. QED  BY <1>1, <1>2, <1>3, PTL DEF Spec

-----------------------------------------------------------------------------
(* Every call is in one place.                                             *)

\* Calls as they reach the server.
Calls ==
  [type : {"call"}, destination : Connections, path : Paths,
   interface : {r.interface : r \in Requests} \cup UNION {InterfacesOf[q] : q \in Proxies},
   member : {r.member : r \in Requests}, body : {r.body : r \in Requests}, serial : Nat]

Queued(s) ==
  \E c \in Connections : \E n \in 1..Len(inbox[c]) : inbox[c][n].serial = s
Deferred(s) ==
  \E o \in Objects : \E t \in DOMAIN continuations[o] : continuations[o][t].serial = s

CallTypes ==
  /\ count \in Nat /\ count <= MaxMessages
  /\ inbox \in [Connections -> Seq(Calls)]
  /\ \A c \in Connections : Len(inbox[c]) <= count
  /\ continuations = [o \in Objects |-> continuations[o]]
  /\ \A o \in Objects : DOMAIN continuations[o] \subseteq Tags
  /\ answers = [s \in DOMAIN answers |-> answers[s]]
  /\ DOMAIN answers \subseteq 1..count

\* A serial is in one queue, once, and under one Tag of one object.
QueuedOnce ==
  \A c, d \in Connections : \A n \in 1..Len(inbox[c]), m \in 1..Len(inbox[d]) :
    inbox[c][n].serial = inbox[d][m].serial => c = d /\ n = m
DeferredOnce ==
  \A o, u \in Objects : \A t \in DOMAIN continuations[o], v \in DOMAIN continuations[u] :
    continuations[o][t].serial = continuations[u][v].serial => o = u /\ t = v

\* Only calls that were made wait, and each is in one place.
OnePlace ==
  /\ abandoned \subseteq DOMAIN answers
  /\ \A s : Queued(s) \/ Deferred(s) => s \in DOMAIN answers
  /\ \A s \in DOMAIN answers :
       /\ Queued(s) => ~Deferred(s) /\ answers[s] = 0 /\ s \notin abandoned
       /\ Deferred(s) => answers[s] = 0 /\ s \notin abandoned
       /\ ~Queued(s) /\ ~Deferred(s) =>
            \/ answers[s] = 1 /\ s \notin abandoned
            \/ answers[s] = 0 /\ s \in abandoned

\* An object that has gone has no calls to answer.
GoneHasNone == \A o \in Objects : place[o] = None => continuations[o] = << >>

CallInv == CallTypes /\ QueuedOnce /\ DeferredOnce /\ OnePlace /\ GoneHasNone

LEMMA AccountedForByPlace == CallInv => CallsAccountedFor
<1>. DEFINE queued(s) == {x \in Connections \X (1..MaxMessages) :
                            LET q == inbox[x[1]]
                            IN  x[2] \in DOMAIN q /\ q[x[2]].serial = s}
            parked(s) == {x \in Objects \X Tags :
                            LET m == continuations[x[1]]
                            IN  x[2] \in DOMAIN m /\ m[x[2]].serial = s}
            gone(s) == IF s \in abandoned THEN 1 ELSE 0
<1>. SUFFICES ASSUME CallInv, NEW s \in DOMAIN answers
              PROVE  Cardinality(queued(s)) + Cardinality(parked(s)) + answers[s] + gone(s) = 1
  BY Zenon DEF CallsAccountedFor
<1>1. \A c \in Connections : /\ DOMAIN inbox[c] = 1..Len(inbox[c])
                             /\ Len(inbox[c]) \in Nat /\ Len(inbox[c]) <= MaxMessages
  BY MaxMessagesAssumption DEF CallInv, CallTypes
<1>2. Cardinality({}) = 0
  BY FS_EmptySet
<1>3. ASSUME NEW x PROVE Cardinality({x}) = 1
  BY FS_Singleton
<1>4. CASE Queued(s)
  <2>1. PICK c \in Connections : \E n \in 1..Len(inbox[c]) : inbox[c][n].serial = s
    BY <1>4 DEF Queued
  <2>2. PICK n \in 1..Len(inbox[c]) : inbox[c][n].serial = s
    BY <2>1
  <2>3. n \in 1..MaxMessages
    BY <1>1, <2>2, MaxMessagesAssumption
  <2>4. queued(s) = {<<c, n>>}
    BY <1>1, <2>2, <2>3 DEF CallInv, QueuedOnce
  <2>5. ~Deferred(s) /\ answers[s] = 0 /\ s \notin abandoned
    BY <1>4 DEF CallInv, OnePlace
  <2>6. parked(s) = {}
    BY <2>5 DEF Deferred
  <2>. HIDE DEF queued, parked
  <2>7. Cardinality(queued(s)) = 1
    BY <1>3, <2>4
  <2>. QED  BY <1>2, <2>5, <2>6, <2>7 DEF gone
<1>5. CASE ~Queued(s)
  <2>1. queued(s) = {}
    BY <1>1, <1>5 DEF Queued
  <2>2. CASE Deferred(s)
    <3>1. PICK o \in Objects : \E t \in DOMAIN continuations[o] : continuations[o][t].serial = s
      BY <2>2 DEF Deferred
    <3>2. PICK t \in DOMAIN continuations[o] : continuations[o][t].serial = s
      BY <3>1
    <3>3. parked(s) = {<<o, t>>}
      BY <3>2 DEF CallInv, CallTypes, DeferredOnce
    <3>4. answers[s] = 0 /\ s \notin abandoned
      BY <2>2 DEF CallInv, OnePlace
    <3>. HIDE DEF queued, parked
    <3>5. Cardinality(parked(s)) = 1
      BY <1>3, <3>3
    <3>. QED  BY <1>2, <2>1, <3>4, <3>5 DEF gone
  <2>3. CASE ~Deferred(s)
    <3>1. parked(s) = {}
      BY <2>3 DEF Deferred
    <3>2. \/ answers[s] = 1 /\ s \notin abandoned
          \/ answers[s] = 0 /\ s \in abandoned
      BY <1>5, <2>3 DEF CallInv, OnePlace
    <3>. HIDE DEF queued, parked
    <3>. QED  BY <1>2, <2>1, <3>1, <3>2 DEF gone
  <2>. QED  BY <2>2, <2>3
<1>. QED  BY <1>4, <1>5

-----------------------------------------------------------------------------
(* What the steps do to the places where calls wait.                       *)

DeferredTypes ==
  /\ continuations = [o \in Objects |-> continuations[o]]
  /\ \A o \in Objects : DOMAIN continuations[o] \subseteq Tags

\* The first call of a queue is taken.
LEMMA TakeFirst ==
  ASSUME CallTypes, QueuedOnce, NEW c \in Connections, inbox[c] # << >>,
         inbox' = [inbox EXCEPT ![c] = Tail(@)]
  PROVE  /\ inbox' \in [Connections -> Seq(Calls)]
         /\ \A d \in Connections : Len(inbox'[d]) <= Len(inbox[d])
         /\ QueuedOnce'
         /\ Head(inbox[c]) \in Calls /\ Queued(Head(inbox[c]).serial)
         /\ \A x : Queued(x)' <=> Queued(x) /\ x # Head(inbox[c]).serial
<1>. DEFINE q == inbox[c]
<1>1. q \in Seq(Calls) /\ Len(q) \in Nat \ {0} /\ Head(q) = q[1] /\ q[1] \in Calls
  BY DEF CallTypes
<1>2. /\ Tail(q) \in Seq(Calls) /\ Len(Tail(q)) = Len(q) - 1
      /\ \A n \in 1..(Len(q) - 1) : Tail(q)[n] = q[n + 1]
  BY <1>1
<1>3. /\ inbox'[c] = Tail(q)
      /\ \A d \in Connections \ {c} : inbox'[d] = inbox[d]
      /\ inbox' \in [Connections -> Seq(Calls)]
  BY <1>2 DEF CallTypes
<1>4. \A d \in Connections : Len(inbox[d]) \in Nat
  BY DEF CallTypes
<1>5. \A d \in Connections : Len(inbox'[d]) <= Len(inbox[d])
  BY <1>1, <1>2, <1>3, <1>4
\* Where a call of a queue was before.
<1>. DEFINE was(d, n) == IF d = c THEN n + 1 ELSE n
<1>6. \A d \in Connections : \A n \in 1..Len(inbox'[d]) :
        was(d, n) \in 1..Len(inbox[d]) /\ inbox'[d][n] = inbox[d][was(d, n)]
  BY <1>1, <1>2, <1>3, <1>4
<1>7. \A n \in 1..Len(q) : n # 1 => /\ n - 1 \in 1..Len(inbox'[c]) /\ was(c, n - 1) = n
                                   /\ inbox'[c][n - 1] = q[n]
  BY <1>1, <1>2, <1>3
<1>. HIDE DEF q
<1>8. QueuedOnce'
  <2>. SUFFICES ASSUME NEW d \in Connections, NEW e \in Connections,
                       NEW n \in 1..Len(inbox'[d]), NEW m \in 1..Len(inbox'[e]),
                       inbox'[d][n].serial = inbox'[e][m].serial
                PROVE  d = e /\ n = m
    BY DEF QueuedOnce
  <2>1. PICK a \in 1..Len(inbox[d]) : a = was(d, n) /\ inbox'[d][n] = inbox[d][a]
    BY <1>6
  <2>2. PICK b \in 1..Len(inbox[e]) : b = was(e, m) /\ inbox'[e][m] = inbox[e][b]
    BY <1>6
  <2>3. inbox[d][a].serial = inbox[e][b].serial
    BY <2>1, <2>2
  <2>4. d = e /\ a = b
    BY <2>3 DEF QueuedOnce
  <2>. QED  BY <2>1, <2>2, <2>4
<1>9. ASSUME NEW x, Queued(x)'
      PROVE  Queued(x) /\ x # Head(q).serial
  <2>1. PICK d \in Connections : \E n \in 1..Len(inbox'[d]) : inbox'[d][n].serial = x
    BY <1>9 DEF Queued
  <2>2. PICK n \in 1..Len(inbox'[d]) : inbox'[d][n].serial = x
    BY <2>1
  <2>3. PICK a \in 1..Len(inbox[d]) : a = was(d, n) /\ inbox[d][a].serial = x
    BY <1>6, <2>2
  <2>4. ~(d = c /\ a = 1)
    BY <2>3
  <2>5. 1 \in 1..Len(inbox[c])
    BY <1>1 DEF q
  <2>6. inbox[c][1].serial # x
    <3>. SUFFICES ASSUME inbox[c][1].serial = x PROVE FALSE
      OBVIOUS
    <3>1. inbox[d][a].serial = inbox[c][1].serial
      BY <2>3
    <3>2. d = c /\ a = 1
      BY <2>5, <3>1 DEF QueuedOnce
    <3>. QED  BY <2>4, <3>2
  <2>. QED  BY <1>1, <2>3, <2>6 DEF Queued, q
<1>10. ASSUME NEW x, Queued(x), x # Head(q).serial
       PROVE  Queued(x)'
  <2>1. PICK d \in Connections : \E n \in 1..Len(inbox[d]) : inbox[d][n].serial = x
    BY <1>10 DEF Queued
  <2>2. PICK n \in 1..Len(inbox[d]) : inbox[d][n].serial = x
    BY <2>1
  <2>3. CASE d = c
    <3>1. n # 1
      BY <1>1, <1>10, <2>2, <2>3 DEF q
    <3>2. n - 1 \in 1..Len(inbox'[c]) /\ inbox'[c][n - 1].serial = x
      BY <1>7, <2>2, <2>3, <3>1 DEF q
    <3>. QED  BY <3>2 DEF Queued
  <2>4. CASE d # c
    BY <1>3, <2>2, <2>4 DEF Queued
  <2>. QED  BY <2>3, <2>4
<1>11. Queued(Head(q).serial)
  BY <1>1 DEF Queued, q
<1>. QED  BY <1>1, <1>3, <1>5, <1>8, <1>9, <1>10, <1>11 DEF q

\* A call with a serial of its own is queued.
LEMMA PutLast ==
  ASSUME CallTypes, QueuedOnce, NEW c \in Connections, NEW call \in Calls,
         ~Queued(call.serial), inbox' = [inbox EXCEPT ![c] = Append(@, call)]
  PROVE  /\ inbox' \in [Connections -> Seq(Calls)]
         /\ \A d \in Connections : Len(inbox'[d]) <= Len(inbox[d]) + 1
         /\ QueuedOnce'
         /\ \A x : Queued(x)' <=> Queued(x) \/ x = call.serial
<1>. DEFINE q == inbox[c]
<1>1. q \in Seq(Calls) /\ Len(q) \in Nat
  BY DEF CallTypes
<1>2. /\ Append(q, call) \in Seq(Calls) /\ Len(Append(q, call)) = Len(q) + 1
      /\ Append(q, call)[Len(q) + 1] = call
      /\ \A n \in 1..Len(q) : Append(q, call)[n] = q[n]
  BY <1>1
<1>3. /\ inbox'[c] = Append(q, call)
      /\ \A d \in Connections \ {c} : inbox'[d] = inbox[d]
      /\ inbox' \in [Connections -> Seq(Calls)]
  BY <1>2 DEF CallTypes
<1>4. \A d \in Connections : Len(inbox[d]) \in Nat
  BY DEF CallTypes
<1>5. \A d \in Connections : Len(inbox'[d]) <= Len(inbox[d]) + 1
  BY <1>2, <1>3, <1>4
<1>6. \A d \in Connections : \A n \in 1..Len(inbox'[d]) :
        \/ n \in 1..Len(inbox[d]) /\ inbox'[d][n] = inbox[d][n]
        \/ d = c /\ n = Len(q) + 1 /\ inbox'[d][n] = call
  BY <1>1, <1>2, <1>3, <1>4
<1>7. \A d \in Connections : \A n \in 1..Len(inbox[d]) :
        n \in 1..Len(inbox'[d]) /\ inbox'[d][n] = inbox[d][n]
  BY <1>1, <1>2, <1>3, <1>4
<1>8. Len(q) + 1 \in 1..Len(inbox'[c]) /\ inbox'[c][Len(q) + 1] = call
  BY <1>1, <1>2, <1>3
<1>. HIDE DEF q
<1>9. \A d \in Connections : \A n \in 1..Len(inbox[d]) : inbox[d][n].serial # call.serial
  BY DEF Queued
<1>10. QueuedOnce'
  <2>. SUFFICES ASSUME NEW d \in Connections, NEW e \in Connections,
                       NEW n \in 1..Len(inbox'[d]), NEW m \in 1..Len(inbox'[e]),
                       inbox'[d][n].serial = inbox'[e][m].serial
                PROVE  d = e /\ n = m
    BY DEF QueuedOnce
  <2>. QED  BY <1>6, <1>9 DEF QueuedOnce
<1>11. ASSUME NEW x PROVE Queued(x)' <=> Queued(x) \/ x = call.serial
  <2>1. Queued(x)' => Queued(x) \/ x = call.serial
    BY <1>6 DEF Queued
  <2>2. Queued(x) => Queued(x)'
    BY <1>7 DEF Queued
  <2>3. x = call.serial => Queued(x)'
    BY <1>8 DEF Queued
  <2>. QED  BY <2>1, <2>2, <2>3
<1>. QED  BY <1>3, <1>5, <1>10, <1>11

\* A call is kept under a new Tag.
LEMMA KeepCall ==
  ASSUME DeferredTypes, DeferredOnce,
         NEW o \in Objects, NEW tag \in Tags, tag \notin DOMAIN continuations[o],
         NEW call, ~Deferred(call.serial),
         continuations' = [continuations EXCEPT ![o] = Put(@, tag, call)]
  PROVE  /\ DeferredTypes' /\ DeferredOnce'
         /\ \A x : Deferred(x)' <=> Deferred(x) \/ x = call.serial
<1>. DEFINE k == Put(continuations[o], tag, call)
<1>1. /\ DOMAIN k = DOMAIN continuations[o] \cup {tag} /\ k[tag] = call
      /\ \A t \in DOMAIN continuations[o] : k[t] = continuations[o][t]
  BY DEF Put
<1>. HIDE DEF k
<1>2. /\ continuations' = [u \in Objects |-> IF u = o THEN k ELSE continuations[u]]
  BY DEF DeferredTypes, k
<1>3. \A u \in Objects : \A t \in DOMAIN continuations'[u] :
        \/ t \in DOMAIN continuations[u] /\ continuations'[u][t] = continuations[u][t]
        \/ u = o /\ t = tag /\ continuations'[u][t] = call
  BY <1>1, <1>2
<1>4. \A u \in Objects : \A t \in DOMAIN continuations[u] :
        t \in DOMAIN continuations'[u] /\ continuations'[u][t] = continuations[u][t]
  BY <1>1, <1>2
<1>5. tag \in DOMAIN continuations'[o] /\ continuations'[o][tag] = call
  BY <1>1, <1>2
<1>6. \A u \in Objects : \A t \in DOMAIN continuations[u] :
        continuations[u][t].serial # call.serial
  BY DEF Deferred
<1>7. DeferredTypes'
  BY <1>2, <1>3 DEF DeferredTypes
<1>8. DeferredOnce'
  <2>. SUFFICES ASSUME NEW u \in Objects, NEW v \in Objects,
                       NEW t \in DOMAIN continuations'[u], NEW w \in DOMAIN continuations'[v],
                       continuations'[u][t].serial = continuations'[v][w].serial
                PROVE  u = v /\ t = w
    BY DEF DeferredOnce
  <2>. QED  BY <1>3, <1>6 DEF DeferredOnce
<1>9. ASSUME NEW x PROVE Deferred(x)' <=> Deferred(x) \/ x = call.serial
  <2>1. Deferred(x)' => Deferred(x) \/ x = call.serial
    BY <1>3 DEF Deferred
  <2>2. Deferred(x) => Deferred(x)'
    BY <1>4 DEF Deferred
  <2>3. x = call.serial => Deferred(x)'
    BY <1>5 DEF Deferred
  <2>. QED  BY <2>1, <2>2, <2>3
<1>. QED  BY <1>7, <1>8, <1>9

\* An object forgets some of its Tags.
LEMMA ForgetCalls ==
  ASSUME DeferredTypes, DeferredOnce, NEW o \in Objects, NEW T,
         continuations' = [continuations EXCEPT ![o] = Restrict(@, DOMAIN @ \ T)]
  PROVE  /\ DeferredTypes' /\ DeferredOnce'
         /\ \A x : Deferred(x)' <=>
              Deferred(x) /\ x \notin {continuations[o][t].serial : t \in T \cap DOMAIN continuations[o]}
<1>. DEFINE k == Restrict(continuations[o], DOMAIN continuations[o] \ T)
<1>1. /\ DOMAIN k = DOMAIN continuations[o] \ T
      /\ \A t \in DOMAIN k : k[t] = continuations[o][t]
  BY DEF Restrict
<1>. HIDE DEF k
<1>2. /\ continuations' = [u \in Objects |-> IF u = o THEN k ELSE continuations[u]]
  BY DEF DeferredTypes, k
<1>3. \A u \in Objects : \A t \in DOMAIN continuations'[u] :
        /\ t \in DOMAIN continuations[u] /\ continuations'[u][t] = continuations[u][t]
        /\ ~(u = o /\ t \in T)
  BY <1>1, <1>2
<1>4. \A u \in Objects : \A t \in DOMAIN continuations[u] :
        ~(u = o /\ t \in T) =>
          t \in DOMAIN continuations'[u] /\ continuations'[u][t] = continuations[u][t]
  BY <1>1, <1>2
<1>5. DeferredTypes'
  BY <1>2, <1>3 DEF DeferredTypes
<1>6. DeferredOnce'
  <2>. SUFFICES ASSUME NEW u \in Objects, NEW v \in Objects,
                       NEW t \in DOMAIN continuations'[u], NEW w \in DOMAIN continuations'[v],
                       continuations'[u][t].serial = continuations'[v][w].serial
                PROVE  u = v /\ t = w
    BY DEF DeferredOnce
  <2>1. t \in DOMAIN continuations[u] /\ continuations'[u][t] = continuations[u][t]
    BY <1>3
  <2>2. w \in DOMAIN continuations[v] /\ continuations'[v][w] = continuations[v][w]
    BY <1>3
  <2>3. continuations[u][t].serial = continuations[v][w].serial
    BY <2>1, <2>2
  <2>. QED  BY <2>1, <2>2, <2>3 DEF DeferredOnce
<1>7. ASSUME NEW x, Deferred(x)'
      PROVE  /\ Deferred(x)
             /\ x \notin {continuations[o][t].serial : t \in T \cap DOMAIN continuations[o]}
  <2>1. PICK u \in Objects : \E t \in DOMAIN continuations'[u] : continuations'[u][t].serial = x
    BY <1>7 DEF Deferred
  <2>2. PICK t \in DOMAIN continuations'[u] : continuations'[u][t].serial = x
    BY <2>1
  <2>3. t \in DOMAIN continuations[u] /\ continuations[u][t].serial = x /\ ~(u = o /\ t \in T)
    BY <1>3, <2>2
  <2>. QED  BY <2>3 DEF Deferred, DeferredOnce
<1>8. ASSUME NEW x, Deferred(x),
             x \notin {continuations[o][t].serial : t \in T \cap DOMAIN continuations[o]}
      PROVE  Deferred(x)'
  <2>1. PICK u \in Objects : \E t \in DOMAIN continuations[u] : continuations[u][t].serial = x
    BY <1>8 DEF Deferred
  <2>2. PICK t \in DOMAIN continuations[u] : continuations[u][t].serial = x
    BY <2>1
  <2>3. ~(u = o /\ t \in T)
    BY <1>8, <2>2
  <2>. QED  BY <1>4, <2>2, <2>3 DEF Deferred
<1>. QED  BY <1>5, <1>6, <1>7, <1>8

-----------------------------------------------------------------------------
\* Whatever does not touch the calls leaves them where they are.
LEMMA CallsUntouched ==
  ASSUME CallInv, UNCHANGED <<inbox, continuations, answers, abandoned>>,
         count' \in Nat, count <= count', count' <= MaxMessages,
         \A o \in Objects : place'[o] = None =>
           place[o] = None \/ continuations[o] = << >>
  PROVE  CallInv'
<1>1. CallTypes'
  <2>1. \A c \in Connections : Len(inbox[c]) \in Nat
    BY DEF CallInv, CallTypes
  <2>2. DOMAIN answers \subseteq 1..count'
    BY DEF CallInv, CallTypes
  <2>3. \A c \in Connections : Len(inbox[c]) <= count'
    BY <2>1 DEF CallInv, CallTypes
  <2>. QED  BY <2>2, <2>3 DEF CallInv, CallTypes
<1>2. QueuedOnce' /\ DeferredOnce'
  BY DEF CallInv, QueuedOnce, DeferredOnce
<1>3. \A x : (Queued(x)' <=> Queued(x)) /\ (Deferred(x)' <=> Deferred(x))
  BY DEF Queued, Deferred
<1>4. OnePlace'
  BY <1>3 DEF CallInv, OnePlace
<1>5. GoneHasNone'
  BY DEF CallInv, GoneHasNone
<1>. QED  BY <1>1, <1>2, <1>4, <1>5 DEF CallInv

\* An answer to a call that was waiting, in a queue or under a Tag.
LEMMA AnswerOne ==
  ASSUME CallInv, NEW s, Queued(s) \/ Deferred(s), NEW signals, NEW msg, msg.reply_serial = s,
         SendAnswer(signals, msg), UNCHANGED <<abandoned, count>>,
         \A x : Queued(x)' \/ Deferred(x)' <=> (Queued(x) \/ Deferred(x)) /\ x # s,
         \A x : (Queued(x)' => Queued(x)) /\ (Deferred(x)' => Deferred(x))
  PROVE  /\ OnePlace'
         /\ answers' = [x \in DOMAIN answers' |-> answers'[x]]
         /\ DOMAIN answers' = DOMAIN answers
<1>1. s \in DOMAIN answers /\ answers[s] = 0 /\ s \notin abandoned
  BY DEF CallInv, OnePlace
<1>2. answers' = [x \in DOMAIN answers |-> IF x = s THEN answers[s] + 1 ELSE answers[x]]
  <2>1. answers' = [answers EXCEPT ![s] = answers[s] + 1]
    BY DEF SendAnswer
  <2>. QED  BY <2>1 DEF CallInv, CallTypes
<1>3. answers'[s] = 1 /\ \A x \in DOMAIN answers : x # s => answers'[x] = answers[x]
  BY <1>1, <1>2
<1>4. DOMAIN answers' = DOMAIN answers /\ answers' = [x \in DOMAIN answers' |-> answers'[x]]
  BY <1>2
<1>5. abandoned' \subseteq DOMAIN answers'
  BY <1>4 DEF CallInv, OnePlace
<1>6. \A x : Queued(x)' \/ Deferred(x)' => x \in DOMAIN answers'
  BY <1>4 DEF CallInv, OnePlace
<1>7. ASSUME NEW x \in DOMAIN answers'
      PROVE  /\ Queued(x)' => ~Deferred(x)' /\ answers'[x] = 0 /\ x \notin abandoned'
             /\ Deferred(x)' => answers'[x] = 0 /\ x \notin abandoned'
             /\ ~Queued(x)' /\ ~Deferred(x)' =>
                  \/ answers'[x] = 1 /\ x \notin abandoned'
                  \/ answers'[x] = 0 /\ x \in abandoned'
  <2>1. CASE x = s
    BY <1>1, <1>3, <2>1
  <2>2. CASE x # s
    BY <1>3, <1>4, <2>2 DEF CallInv, OnePlace
  <2>. QED  BY <2>1, <2>2
<1>. QED  BY <1>4, <1>5, <1>6, <1>7 DEF OnePlace

\* Whatever becomes of a call, an answer to it is an answer to it.
LEMMA AnswersTheCall ==
  ASSUME NEW call, NEW vs, NEW paths, NEW result \in dispatch_method(call, vs, paths),
         result.answer # None
  PROVE  result.answer.reply_serial = call.serial
<1>1. \A name : ErrorMessage(call, name).reply_serial = call.serial
  BY DEF ErrorMessage
<1>2. \A body : ReturnMessage(call, body).reply_serial = call.serial
  BY DEF ReturnMessage
<1>3. Get(call, vs).reply_serial = call.serial
  BY <1>1, <1>2 DEF Get
<1>4. Introspect(call, paths).reply_serial = call.serial
  BY <1>2 DEF Introspect
<1>5. Set(call, vs).answer.reply_serial = call.serial
  BY <1>1, <1>2 DEF Set
<1>. QED  BY <1>1, <1>2, <1>3, <1>4, <1>5 DEF dispatch_method, Answers, Later

\* What a proxy sends has the path and the destination of the proxy.
LEMMA SentCalls ==
  ASSUME NEW q \in Proxies, NEW i \in InterfacesOf[q], NEW request \in Requests,
         NEW n \in Nat
  PROVE  /\ [Addressed(q, i, request) EXCEPT !.serial = n] \in Calls
         /\ [Addressed(q, i, request) EXCEPT !.serial = n].serial = n
         /\ Addressed(q, i, request).destination \in Connections
<1>1. PathOf[q] \in Paths /\ ServiceOf[q] \in Connections
  BY AddressesAssumption
<1>2. PICK iface : iface = IF request.interface = None THEN i ELSE request.interface
  OBVIOUS
<1>3. PICK c1 : c1 = [type |-> "call", destination |-> None, path |-> None,
                      interface |-> request.interface, member |-> request.member,
                      body |-> request.body, serial |-> 0]
  OBVIOUS
<1>4. PICK c2 : c2 = [type |-> "call", destination |-> None, path |-> None,
                      interface |-> iface, member |-> request.member,
                      body |-> request.body, serial |-> 0]
  OBVIOUS
<1>5. PICK c3 : c3 = [type |-> "call", destination |-> None, path |-> PathOf[q],
                      interface |-> iface, member |-> request.member,
                      body |-> request.body, serial |-> 0]
  OBVIOUS
<1>6. PICK c4 : c4 = [type |-> "call", destination |-> ServiceOf[q], path |-> PathOf[q],
                      interface |-> iface, member |-> request.member,
                      body |-> request.body, serial |-> 0]
  OBVIOUS
<1>7. Fill(c1, "interface", i) = c2
  BY <1>2, <1>3, <1>4 DEF Fill
<1>8. Fill(c2, "path", PathOf[q]) = c3
  BY <1>4, <1>5 DEF Fill
<1>9. Fill(c3, "destination", ServiceOf[q]) = c4
  BY <1>5, <1>6 DEF Fill
<1>10. Addressed(q, i, request) = c4
  BY <1>3, <1>7, <1>8, <1>9 DEF Addressed, CallMessage
<1>11. [c4 EXCEPT !.serial = n] =
         [type |-> "call", destination |-> ServiceOf[q], path |-> PathOf[q],
          interface |-> iface, member |-> request.member, body |-> request.body, serial |-> n]
  BY <1>6
<1>12. iface \in {r.interface : r \in Requests} \cup UNION {InterfacesOf[p] : p \in Proxies}
  BY <1>2
<1>13. request.member \in {r.member : r \in Requests} /\ request.body \in {r.body : r \in Requests}
  OBVIOUS
<1>14. c4.destination = ServiceOf[q]
  BY <1>6
<1>. QED  BY <1>1, <1>10, <1>11, <1>12, <1>13, <1>14 DEF Calls

LEMMA SendStep ==
  ASSUME CallInv, NEW q \in Proxies, NEW i \in InterfacesOf[q], NEW request \in Requests,
         Send(Addressed(q, i, request))
  PROVE  CallInv'
<1>1. PICK n : n = count + 1
  OBVIOUS
<1>2. /\ n \in Nat /\ n \notin 1..count /\ n <= MaxMessages /\ count' = n
      /\ 1..n = (1..count) \cup {n}
  BY <1>1, MaxMessagesAssumption DEF Send, CallInv, CallTypes
<1>3. PICK call : call = [Addressed(q, i, request) EXCEPT !.serial = n]
  OBVIOUS
<1>4. PICK c : c = Addressed(q, i, request).destination
  OBVIOUS
<1>5. call \in Calls
  BY <1>2, <1>3, SentCalls
<1>6. call.serial = n /\ c \in Connections
  BY <1>2, <1>3, <1>4, SentCalls
<1>7. /\ inbox' = [inbox EXCEPT ![c] = Append(@, call)]
      /\ answers' = Put(answers, n, 0)
      /\ UNCHANGED <<continuations, abandoned, place>>
  BY <1>2, <1>3, <1>4 DEF Send, serverVars
<1>8. n \notin DOMAIN answers /\ ~Queued(n) /\ ~Deferred(n)
  BY <1>2 DEF CallInv, CallTypes, OnePlace
<1>9. /\ inbox' \in [Connections -> Seq(Calls)]
      /\ \A d \in Connections : Len(inbox'[d]) <= Len(inbox[d]) + 1
      /\ QueuedOnce'
      /\ \A x : Queued(x)' <=> Queued(x) \/ x = n
  BY <1>5, <1>6, <1>7, <1>8, PutLast DEF CallInv
<1>10. \A x : Deferred(x)' <=> Deferred(x)
  BY <1>7 DEF Deferred
<1>11. /\ DOMAIN answers' = DOMAIN answers \cup {n} /\ answers'[n] = 0
       /\ answers' = [x \in DOMAIN answers' |-> answers'[x]]
       /\ \A x \in DOMAIN answers : answers'[x] = answers[x]
  BY <1>7, <1>8 DEF Put
<1>12. CallTypes'
  <2>1. \A d \in Connections : Len(inbox'[d]) <= count'
    <3>. TAKE d \in Connections
    <3>1. Len(inbox'[d]) \in Nat /\ Len(inbox[d]) \in Nat /\ Len(inbox[d]) <= count
      BY <1>9 DEF CallInv, CallTypes
    <3>. QED  BY <1>1, <1>2, <1>9, <3>1 DEF CallInv, CallTypes
  <2>2. DOMAIN answers' \subseteq 1..count'
    BY <1>2, <1>11 DEF CallInv, CallTypes
  <2>. QED  BY <1>2, <1>7, <1>9, <1>11, <2>1, <2>2 DEF CallInv, CallTypes
<1>13. DeferredOnce' /\ GoneHasNone'
  BY <1>7 DEF CallInv, DeferredOnce, GoneHasNone
<1>14. OnePlace'
  <2>1. n \notin abandoned
    BY <1>8 DEF CallInv, OnePlace
  <2>. QED  BY <1>7, <1>8, <1>9, <1>10, <1>11, <2>1 DEF CallInv, OnePlace
<1>. QED  BY <1>9, <1>12, <1>13, <1>14 DEF CallInv

LEMMA DestroyStep ==
  ASSUME CallInv, NEW o \in Objects, Destroy(o)
  PROVE  CallInv'
<1>. DEFINE D == {continuations[o][t].serial : t \in DOMAIN continuations[o]}
<1>1. /\ place' = [place EXCEPT ![o] = None]
      /\ abandoned' = abandoned \cup D
      /\ continuations' = [continuations EXCEPT ![o] = << >>]
      /\ UNCHANGED <<inbox, answers, count>>
  BY DEF Destroy
<1>2. /\ continuations' = [u \in Objects |-> IF u = o THEN << >> ELSE continuations[u]]
      /\ DeferredTypes
  BY <1>1 DEF CallInv, CallTypes, DeferredTypes
<1>3. Restrict(continuations[o], DOMAIN continuations[o] \ DOMAIN continuations[o]) = << >>
  BY DEF Restrict
<1>4. /\ DeferredTypes' /\ DeferredOnce'
      /\ \A x : Deferred(x)' <=> Deferred(x) /\ x \notin D
  <2>1. continuations' =
          [continuations EXCEPT ![o] = Restrict(@, DOMAIN @ \ DOMAIN continuations[o])]
    BY <1>1, <1>3
  <2>. DEFINE E == {continuations[o][t].serial :
                       t \in DOMAIN continuations[o] \cap DOMAIN continuations[o]}
  <2>2. E = D
    OBVIOUS
  <2>. HIDE DEF D
  <2>3. DeferredOnce
    BY DEF CallInv
  <2>4. /\ DeferredTypes' /\ DeferredOnce'
        /\ \A x : Deferred(x)' <=> Deferred(x) /\ x \notin E
    BY <1>2, <2>1, <2>3, ForgetCalls
  <2>. HIDE DEF E
  <2>. QED  BY <2>2, <2>4
<1>5. \A x : Queued(x)' <=> Queued(x)
  BY <1>1 DEF Queued
<1>6. \A x \in D : Deferred(x)
  BY DEF Deferred
<1>. HIDE DEF D
<1>7. CallTypes' /\ QueuedOnce'
  BY <1>1, <1>4 DEF CallInv, CallTypes, DeferredTypes, QueuedOnce
<1>8. OnePlace'
  <2>1. abandoned' \subseteq DOMAIN answers'
    BY <1>1, <1>6 DEF CallInv, OnePlace
  <2>2. \A x : Queued(x)' \/ Deferred(x)' => x \in DOMAIN answers'
    BY <1>1, <1>4, <1>5 DEF CallInv, OnePlace
  <2>3. ASSUME NEW x \in DOMAIN answers
        PROVE  /\ Queued(x) => ~Deferred(x)' /\ answers[x] = 0 /\ x \notin abandoned'
               /\ Deferred(x)' => answers[x] = 0 /\ x \notin abandoned'
               /\ ~Queued(x) /\ ~Deferred(x)' =>
                    \/ answers[x] = 1 /\ x \notin abandoned'
                    \/ answers[x] = 0 /\ x \in abandoned'
    <3>1. CASE x \in D
      BY <1>1, <1>4, <1>6, <3>1 DEF CallInv, OnePlace
    <3>2. CASE x \notin D
      BY <1>1, <1>4, <3>2 DEF CallInv, OnePlace
    <3>. QED  BY <3>1, <3>2
  <2>. QED  BY <1>1, <1>5, <2>1, <2>2, <2>3 DEF OnePlace
<1>9. GoneHasNone'
  BY <1>1, <1>2 DEF CallInv, GoneHasNone
<1>. QED  BY <1>4, <1>7, <1>8, <1>9 DEF CallInv

LEMMA ReturnStep ==
  ASSUME CallInv, NEW o \in Objects, NEW tag \in Tags, ReturnNow(o, tag)
  PROVE  CallInv'
<1>. DEFINE s == continuations[o][tag].serial
<1>1. /\ tag \in DOMAIN continuations[o] /\ o \in Alive
      /\ continuations' = [continuations EXCEPT ![o] = Restrict(@, DOMAIN @ \ {tag})]
      /\ UNCHANGED <<place, inbox, abandoned, count>>
  BY DEF ReturnNow, Forget
<1>2. PICK msg : msg.reply_serial = s /\ SendAnswer(<< >>, msg)
  BY DEF ReturnNow, ReturnMessage, ErrorMessage
<1>3. DeferredTypes
  BY DEF CallInv, CallTypes, DeferredTypes
<1>4. /\ DeferredTypes' /\ DeferredOnce'
      /\ \A x : Deferred(x)' <=> Deferred(x) /\ x # s
  <2>. DEFINE E == {continuations[o][t].serial : t \in {tag} \cap DOMAIN continuations[o]}
  <2>1. E = {s}
    BY <1>1
  <2>. HIDE DEF s
  <2>2. DeferredOnce
    BY DEF CallInv
  <2>3. /\ DeferredTypes' /\ DeferredOnce'
        /\ \A x : Deferred(x)' <=> Deferred(x) /\ x \notin E
    BY <1>1, <1>3, <2>2, ForgetCalls
  <2>. HIDE DEF E
  <2>. QED  BY <2>1, <2>3
<1>5. \A x : Queued(x)' <=> Queued(x)
  BY <1>1 DEF Queued
<1>6. Deferred(s) /\ ~Queued(s)
  <2>1. Deferred(s)
    BY <1>1 DEF Deferred
  <2>. QED  BY <2>1 DEF CallInv, OnePlace
<1>. HIDE DEF s
<1>7. /\ OnePlace' /\ answers' = [x \in DOMAIN answers' |-> answers'[x]]
      /\ DOMAIN answers' = DOMAIN answers
  BY <1>1, <1>2, <1>4, <1>5, <1>6, AnswerOne
<1>8. CallTypes'
  BY <1>1, <1>4, <1>7 DEF CallInv, CallTypes, DeferredTypes
<1>9. QueuedOnce'
  BY <1>1 DEF CallInv, QueuedOnce
<1>10. GoneHasNone'
  <2>1. \A u \in Objects \ {o} : continuations'[u] = continuations[u]
    BY <1>1, <1>3 DEF DeferredTypes
  <2>. QED  BY <1>1, <2>1 DEF CallInv, GoneHasNone, Alive
<1>. QED  BY <1>4, <1>7, <1>8, <1>9, <1>10 DEF CallInv

\* A call is taken from its queue and answered, or kept by an object that lives.
LEMMA DispatchStep ==
  ASSUME TableInv, CallInv, NEW c \in Connections, Dispatch(c)
  PROVE  CallInv'
<1>. DEFINE call == Head(inbox[c])
            o == registered[c][call.path]
            s == call.serial
<1>1. /\ inbox[c] # << >> /\ inbox' = [inbox EXCEPT ![c] = Tail(@)]
      /\ UNCHANGED <<place, abandoned, count>>
  BY DEF Dispatch
<1>2. \/ NotHandled(call)
      \/ \E result \in dispatch_method(call, values[o], Listed) :
           result.answer # None /\ AnswerNow(o, call, result)
      \/ o # None /\ \E tag \in Tags : AnswerLater(o, call, tag)
  BY DEF Dispatch
<1>3. /\ inbox' \in [Connections -> Seq(Calls)]
      /\ \A d \in Connections : Len(inbox'[d]) <= Len(inbox[d])
      /\ QueuedOnce' /\ call \in Calls /\ Queued(s)
      /\ \A x : Queued(x)' <=> Queued(x) /\ x # s
  BY <1>1, TakeFirst DEF CallInv
<1>4. \A d \in Connections : Len(inbox'[d]) <= count'
  <2>. TAKE d \in Connections
  <2>1. Len(inbox'[d]) \in Nat /\ Len(inbox[d]) \in Nat /\ Len(inbox[d]) <= count
    BY <1>3 DEF CallInv, CallTypes
  <2>. QED  BY <1>1, <1>3, <2>1 DEF CallInv, CallTypes
<1>5. call.path \in Paths
  BY <1>3 DEF Calls
<1>6. ~Deferred(s) /\ s \in DOMAIN answers
  BY <1>3 DEF CallInv, OnePlace
<1>7. DeferredTypes
  BY DEF CallInv, CallTypes, DeferredTypes
<1>. HIDE DEF call, s
<1>8. ASSUME NEW signals, NEW msg, msg.reply_serial = s, SendAnswer(signals, msg),
             UNCHANGED continuations
      PROVE  CallInv'
  <2>1. \A x : Deferred(x)' <=> Deferred(x)
    BY <1>8 DEF Deferred
  <2>2. /\ OnePlace' /\ answers' = [x \in DOMAIN answers' |-> answers'[x]]
        /\ DOMAIN answers' = DOMAIN answers
    BY <1>1, <1>3, <1>6, <1>8, <2>1, AnswerOne
  <2>3. CallTypes'
    BY <1>1, <1>3, <1>4, <1>8, <2>2 DEF CallInv, CallTypes
  <2>4. DeferredOnce' /\ GoneHasNone'
    BY <1>1, <1>8 DEF CallInv, DeferredOnce, GoneHasNone
  <2>. QED  BY <1>3, <2>2, <2>3, <2>4 DEF CallInv
<1>9. CASE NotHandled(call)
  BY <1>8, <1>9 DEF NotHandled, ErrorMessage, s
<1>10. CASE \E result \in dispatch_method(call, values[o], Listed) :
              result.answer # None /\ AnswerNow(o, call, result)
  <2>1. PICK result \in dispatch_method(call, values[o], Listed) :
          result.answer # None /\ AnswerNow(o, call, result)
    BY <1>10
  <2>2. result.answer.reply_serial = s
    BY <2>1, AnswersTheCall DEF s
  <2>3. UNCHANGED continuations /\ \E signals : SendAnswer(signals, result.answer)
    BY <2>1 DEF AnswerNow
  <2>. QED  BY <1>8, <2>2, <2>3
<1>11. ASSUME o # None, NEW tag \in Tags, AnswerLater(o, call, tag)
       PROVE  CallInv'
  <2>1. o \in Objects /\ place[o] # None
    <3>1. o \in Objects
      BY <1>5, <1>11 DEF TableInv, TableTypes
    <3>2. place[o] = <<c, call.path>>
      BY <1>5, <3>1 DEF TableInv, TablesAgree
    <3>. QED  BY <1>5, <3>1, <3>2
  <2>2. /\ tag \notin DOMAIN continuations[o] /\ UNCHANGED answers
        /\ continuations' = [continuations EXCEPT ![o] = Put(@, tag, call)]
    BY <1>11 DEF AnswerLater
  <2>. HIDE DEF o
  <2>3. /\ DeferredTypes' /\ DeferredOnce'
        /\ \A x : Deferred(x)' <=> Deferred(x) \/ x = s
    BY <1>6, <1>7, <2>1, <2>2, KeepCall DEF CallInv, s
  <2>4. CallTypes'
    BY <1>1, <1>3, <1>4, <2>2, <2>3 DEF CallInv, CallTypes, DeferredTypes
  <2>5. OnePlace'
    BY <1>1, <1>3, <1>6, <2>2, <2>3 DEF CallInv, OnePlace
  <2>6. GoneHasNone'
    <3>1. \A u \in Objects \ {o} : continuations'[u] = continuations[u]
      BY <1>7, <2>2 DEF DeferredTypes
    <3>. QED  BY <1>1, <2>1, <3>1 DEF CallInv, GoneHasNone
  <2>. QED  BY <1>3, <2>3, <2>4, <2>5, <2>6 DEF CallInv
<1>. QED  BY <1>2, <1>9, <1>10, <1>11

LEMMA CallSteps ==
  ASSUME TableInv, CallInv, [Next]_vars
  PROVE  CallInv'
<1>1. count \in Nat /\ count <= MaxMessages
  BY DEF CallInv, CallTypes
<1>2. ASSUME NEW o \in Objects, NEW c \in Connections, NEW p \in Paths, Create(o, c, p)
      PROVE  CallInv'
  <2>1. /\ place[o] = None /\ continuations' = [continuations EXCEPT ![o] = << >>]
        /\ place' = [place EXCEPT ![o] = <<c, p>>]
        /\ UNCHANGED <<inbox, answers, abandoned, count>>
    BY <1>2 DEF Create, callVars
  <2>2. continuations' = continuations
    <3>1. continuations[o] = << >>
      BY <2>1 DEF CallInv, GoneHasNone
    <3>. QED  BY <2>1, <3>1 DEF CallInv, CallTypes
  <2>3. \A u \in Objects : place'[u] = None => place[u] = None
    BY <2>1 DEF TableInv, TableTypes
  <2>. QED  BY <1>1, <2>1, <2>2, <2>3, CallsUntouched
<1>3. ASSUME UNCHANGED <<inbox, continuations, answers, abandoned, count, place>>
      PROVE  CallInv'
  BY <1>1, <1>3, CallsUntouched
<1>4. ASSUME NEW o \in Objects,
             \/ \E c \in Connections, p \in Paths : Create(o, c, p)
             \/ Destroy(o)
             \/ \E new \in NewValues : Assign(o, new)
             \/ \E s \in SignalsOf : EmitSignal(o, s)
             \/ \E tag \in Tags : ReturnNow(o, tag)
      PROVE  CallInv'
  <2>1. CASE \E new \in NewValues : Assign(o, new)
    BY <1>3, <2>1 DEF Assign, callVars
  <2>2. CASE \E s \in SignalsOf : EmitSignal(o, s)
    <3>1. /\ UNCHANGED <<inbox, continuations, answers, abandoned, place>>
          /\ count < MaxMessages /\ count' = count + 1
      BY <2>2 DEF EmitSignal, serverVars, callVars
    <3>2. count' \in Nat /\ count <= count' /\ count' <= MaxMessages
      BY <1>1, <3>1, MaxMessagesAssumption
    <3>. QED  BY <3>1, <3>2, CallsUntouched
  <2>. QED  BY <1>2, <1>4, <2>1, <2>2, DestroyStep, ReturnStep
<1>5. CASE ServerStep
  BY <1>4, <1>5, DispatchStep DEF ServerStep
<1>6. CASE ClientStep
  <2>1. ASSUME NEW q \in Proxies, NEW i \in InterfacesOf[q], NEW request \in Requests,
               invoke_method(q, i, request) \/ invoke_method_noreply(q, i, request)
        PROVE  CallInv'
    BY <2>1, SendStep DEF invoke_method, invoke_method_noreply
  <2>2. CASE \E q \in Proxies : NewProxy(q) \/ DeleteProxy(q)
    BY <1>3, <2>2 DEF NewProxy, DeleteProxy, serverVars, callVars
  <2>3. CASE GetAnswer \/ TimeOut
    BY <1>3, <2>3 DEF GetAnswer, TimeOut, serverVars, callVars
  <2>4. CASE ClientDispatch \/ CallFilter \/ FiltersDone
    BY <1>3, <2>4 DEF ClientDispatch, CallFilter, FiltersDone, serverVars, callVars
  <2>. QED  BY <1>6, <2>1, <2>2, <2>3, <2>4 DEF ClientStep
<1>7. CASE UNCHANGED vars
  BY <1>3, <1>7 DEF vars, serverVars, callVars
<1>. QED  BY <1>5, <1>6, <1>7 DEF Next

\* The inductive invariant of the calls.
LEMMA CallInvHolds == Spec => []CallInv
<1>1. Init => CallInv
  <2>. SUFFICES ASSUME Init PROVE CallInv
    OBVIOUS
  <2>1. /\ inbox = [c \in Connections |-> << >>] /\ answers = << >> /\ abandoned = {}
        /\ continuations = [o \in Objects |-> << >>] /\ count = 0
    BY DEF Init
  <2>2. /\ \A c \in Connections : inbox[c] = << >> /\ 1..Len(inbox[c]) = {}
        /\ \A o \in Objects : DOMAIN continuations[o] = {}
        /\ DOMAIN answers = {}
    BY <2>1
  <2>3. CallTypes
    BY <2>1, <2>2, MaxMessagesAssumption DEF CallTypes
  <2>4. \A x : ~Queued(x) /\ ~Deferred(x)
    BY <2>2 DEF Queued, Deferred
  <2>5. QueuedOnce /\ DeferredOnce
    BY <2>2 DEF QueuedOnce, DeferredOnce
  <2>6. OnePlace /\ GoneHasNone
    BY <2>1, <2>2, <2>4 DEF OnePlace, GoneHasNone
  <2>. QED  BY <2>3, <2>5, <2>6 DEF CallInv
<1>2. TableInv /\ CallInv /\ [Next]_vars => CallInv'
  BY CallSteps
<1>. QED  BY <1>1, <1>2, TableInvHolds, PTL DEF Spec

\* However many objects, Tags and calls: a call is waiting in one queue, or under
\* one Tag of an object that lives, or answered, once, or its object has gone
\* before it answered (object.cpp:216-305).
THEOREM EveryCallInOnePlace == Spec => []CallsAccountedFor
BY CallInvHolds, AccountedForByPlace, PTL

-----------------------------------------------------------------------------
(* Signals reach proxies.  What a proxy has seen, what the filters are     *)
(* called with and what has been received for it, one after the other, is  *)
(* a list from which Only keeps what the proxy is to see; each step moves  *)
(* a signal from one to the next or appends one that is new to both.       *)

HIDE NoneAssumption

\* The loop of At, up to a position.
Filtering(f, s, positions, k) ==
  f = [n \in 0..k |->
         IF n = 0 THEN << >>
         ELSE IF n \in positions THEN Append(f[n - 1], s[n]) ELSE f[n - 1]]

\* At is what its loop has collected at the end of the list.
LEMMA AtIsLoop ==
  ASSUME NEW s, Len(s) \in Nat, NEW positions
  PROVE  \E f : Filtering(f, s, positions, Len(s)) /\ At(s, positions) = f[Len(s)]
<1>. DEFINE good == {k \in 0..Len(s) : \E f : Filtering(f, s, positions, k)}
<1>1. 0 \in good
  <2>1. Filtering([n \in 0..0 |-> << >>], s, positions, 0)
    BY DEF Filtering
  <2>. QED  BY <2>1
<1>2. ASSUME NEW k \in 0..(Len(s) - 1), k \in good PROVE k + 1 \in good
  <2>1. PICK f : Filtering(f, s, positions, k)
    BY <1>2
  <2>. DEFINE g == [n \in 0..(k + 1) |->
                      IF n \in 0..k THEN f[n]
                      ELSE IF n \in positions THEN Append(f[n - 1], s[n]) ELSE f[n - 1]]
  <2>2. ASSUME NEW n \in 0..(k + 1)
        PROVE  g[n] = IF n = 0 THEN << >>
                      ELSE IF n \in positions THEN Append(g[n - 1], s[n]) ELSE g[n - 1]
    <3>1. CASE n = 0
      <4>1. f[0] = << >>
        BY <2>1 DEF Filtering
      <4>. QED  BY <3>1, <4>1
    <3>2. CASE n # 0
      <4>1. n - 1 \in 0..k /\ g[n - 1] = f[n - 1]
        BY <3>2
      <4>2. n \in 0..k => f[n] = IF n \in positions THEN Append(f[n - 1], s[n]) ELSE f[n - 1]
        BY <2>1, <3>2 DEF Filtering
      <4>3. g[n] = IF n \in 0..k THEN f[n]
                   ELSE IF n \in positions THEN Append(f[n - 1], s[n]) ELSE f[n - 1]
        OBVIOUS
      <4>. HIDE DEF g
      <4>. QED  BY <3>2, <4>1, <4>2, <4>3
    <3>. QED  BY <3>1, <3>2
  <2>3. g = [n \in 0..(k + 1) |->
               IF n = 0 THEN << >>
               ELSE IF n \in positions THEN Append(g[n - 1], s[n]) ELSE g[n - 1]]
    <3>1. g = [n \in 0..(k + 1) |-> g[n]]
      OBVIOUS
    <3>. HIDE DEF g
    <3>. QED  BY <2>2, <3>1
  <2>4. Filtering(g, s, positions, k + 1)
    <3>. HIDE DEF g
    <3>. QED  BY <2>3 DEF Filtering
  <2>. QED  BY <2>4
<1>3. Len(s) \in good
  <2>. HIDE DEF good
  <2>1. \A k \in 0..Len(s) : k \in good
    BY <1>1, <1>2, AlongTheList
  <2>. QED  BY <2>1
<1>4. Filtering(CHOOSE f : Filtering(f, s, positions, Len(s)), s, positions, Len(s))
  BY <1>3
<1>5. At(s, positions) = (CHOOSE f : Filtering(f, s, positions, Len(s)))[Len(s)]
  BY DEF At, Filtering
<1>. QED  BY <1>4, <1>5

\* The elements of a list that are in a set, in order.
Only(s, S) == At(s, {n \in DOMAIN s : s[n] \in S})

\* Nothing is left of an empty list.
LEMMA OnlyEmpty == \A S : Only(<< >>, S) = << >>
<1>. SUFFICES ASSUME NEW S PROVE Only(<< >>, S) = << >>
  OBVIOUS
<1>1. PICK f : Filtering(f, << >>, {n \in DOMAIN << >> : << >>[n] \in S}, 0) /\ Only(<< >>, S) = f[0]
  BY AtIsLoop, Len(<< >>) = 0 DEF Only
<1>. QED  BY <1>1 DEF Filtering

\* A list with one more element has one more left, if it is kept.
LEMMA OnlyAppend ==
  ASSUME NEW U
  PROVE  \A s \in Seq(U), x \in U : \A S :
           Only(Append(s, x), S) = IF x \in S THEN Append(Only(s, S), x) ELSE Only(s, S)
<1>. SUFFICES ASSUME NEW s \in Seq(U), NEW x \in U, NEW S
              PROVE  Only(Append(s, x), S) = IF x \in S THEN Append(Only(s, S), x) ELSE Only(s, S)
  OBVIOUS
<1>2. Only(Append(s, x), S) = IF x \in S THEN Append(Only(s, S), x) ELSE Only(s, S)
  <2>. DEFINE t == Append(s, x)
              P == {n \in DOMAIN s : s[n] \in S}
              Q == {n \in DOMAIN t : t[n] \in S}
              len == Len(s)
  <2>1. len \in Nat /\ Len(t) = len + 1 /\ t[len + 1] = x /\ len + 1 \in DOMAIN t
    OBVIOUS
  <2>2. \A n \in 1..len : t[n] = s[n] /\ (n \in P <=> n \in Q)
    OBVIOUS
  <2>3. len + 1 \in Q <=> x \in S
    BY <2>1
  <2>4. Only(s, S) = At(s, P) /\ Only(t, S) = At(t, Q)
    BY DEF Only
  <2>. HIDE DEF t, P, Q, len
  <2>5. PICK f : Filtering(f, s, P, len) /\ At(s, P) = f[len]
    BY <2>1, AtIsLoop DEF len
  <2>6. PICK g : Filtering(g, t, Q, len + 1) /\ At(t, Q) = g[len + 1]
    BY <2>1, AtIsLoop
  <2>. DEFINE good == {k \in 0..len : f[k] = g[k]}
  <2>7. 0 \in good
    BY <2>1, <2>5, <2>6 DEF Filtering
  <2>8. ASSUME NEW k \in 0..(len - 1), k \in good PROVE k + 1 \in good
    <3>1. k + 1 \in 1..len /\ k + 1 \in 0..len /\ k + 1 \in 0..(len + 1) /\ (k + 1) - 1 = k /\ k + 1 # 0
      BY <2>1
    <3>2. f[k + 1] = IF k + 1 \in P THEN Append(f[k], s[k + 1]) ELSE f[k]
      BY <2>5, <3>1 DEF Filtering
    <3>3. g[k + 1] = IF k + 1 \in Q THEN Append(g[k], t[k + 1]) ELSE g[k]
      BY <2>6, <3>1 DEF Filtering
    <3>. QED  BY <2>2, <2>8, <3>1, <3>2, <3>3
  <2>9. f[len] = g[len]
    <3>. HIDE DEF good
    <3>1. \A k \in 0..len : k \in good
      BY <2>1, <2>7, <2>8, AlongTheList
    <3>. QED  BY <2>1, <3>1 DEF good
  <2>10. g[len + 1] = IF len + 1 \in Q THEN Append(g[len], x) ELSE g[len]
    <3>1. len + 1 \in 0..(len + 1) /\ (len + 1) - 1 = len /\ len + 1 # 0
      BY <2>1
    <3>. QED  BY <2>1, <2>6, <3>1 DEF Filtering
  <2>11. Only(t, S) = IF x \in S THEN Append(Only(s, S), x) ELSE Only(s, S)
    BY <2>3, <2>4, <2>5, <2>6, <2>9, <2>10
  <2>. QED  BY <2>11 DEF t
<1>. QED  BY <1>2

\* What Only keeps of a list, and of two.
LEMMA OnlyFacts ==
  ASSUME NEW U, NEW S
  PROVE  \A s \in Seq(U) :
           /\ Only(s, S) \in Seq(U) /\ ToSet(Only(s, S)) \subseteq S \cap ToSet(s)
           /\ Only(s, {}) = << >>
<1>. DEFINE good == {s \in Seq(U) : /\ Only(s, S) \in Seq(U)
                                    /\ ToSet(Only(s, S)) \subseteq S \cap ToSet(s)
                                    /\ Only(s, {}) = << >>}
<1>1. << >> \in good
  <2>1. Only(<< >>, S) = << >> /\ Only(<< >>, {}) = << >> /\ ToSet(<< >>) = {}
    BY OnlyEmpty DEF ToSet
  <2>2. << >> \in Seq(U)
    OBVIOUS
  <2>. QED  BY <2>1, <2>2, Zenon
<1>2. ASSUME NEW p \in Seq(U), NEW x \in U, p \in good PROVE Append(p, x) \in good
  <2>1. /\ Only(Append(p, x), S) = IF x \in S THEN Append(Only(p, S), x) ELSE Only(p, S)
        /\ Only(Append(p, x), {}) = Only(p, {})
    <3>1. x \notin {}
      OBVIOUS
    <3>. QED  BY <3>1, OnlyAppend, Zenon
  <2>2. Only(p, S) \in Seq(U) /\ ToSet(Only(p, S)) \subseteq S \cap ToSet(p) /\ Only(p, {}) = << >>
    BY <1>2
  <2>3. Append(p, x) \in Seq(U) /\ ToSet(Append(p, x)) = ToSet(p) \cup {x}
    BY AppendFacts
  <2>4. Append(Only(p, S), x) \in Seq(U) /\ ToSet(Append(Only(p, S), x)) = ToSet(Only(p, S)) \cup {x}
    BY <2>2, AppendFacts
  <2>. QED  BY <2>1, <2>2, <2>3, <2>4
<1>3. \A s \in Seq(U) : s \in good
  <2>. HIDE DEF good
  <2>. QED  BY <1>1, <1>2, ByAppending
<1>. QED  BY <1>3

\* What remains of two lists is what remains of each.
LEMMA OnlyConcat ==
  ASSUME NEW U, NEW S, NEW a \in Seq(U)
  PROVE  \A b \in Seq(U) : Only(a \o b, S) = Only(a, S) \o Only(b, S)
<1>. DEFINE good == {b \in Seq(U) : Only(a \o b, S) = Only(a, S) \o Only(b, S)}
<1>1. << >> \in good
  <2>1. a \o << >> = a /\ Only(a, S) \o << >> = Only(a, S)
    BY OnlyFacts
  <2>2. << >> \in Seq(U)
    OBVIOUS
  <2>. QED  BY <2>1, <2>2, OnlyEmpty, Zenon
<1>2. ASSUME NEW p \in Seq(U), NEW x \in U, p \in good PROVE Append(p, x) \in good
  <2>1. a \o p \in Seq(U) /\ a \o Append(p, x) = Append(a \o p, x) /\ Append(p, x) \in Seq(U)
    OBVIOUS
  <2>2. /\ Only(Append(a \o p, x), S) = IF x \in S THEN Append(Only(a \o p, S), x) ELSE Only(a \o p, S)
        /\ Only(Append(p, x), S) = IF x \in S THEN Append(Only(p, S), x) ELSE Only(p, S)
    BY <2>1, OnlyAppend, Zenon
  <2>3. Append(Only(a, S) \o Only(p, S), x) = Only(a, S) \o Append(Only(p, S), x)
    <3>1. Only(a, S) \in Seq(U) /\ Only(p, S) \in Seq(U)
      BY OnlyFacts
    <3>2. ASSUME NEW v \in Seq(U), NEW w \in Seq(U)
          PROVE  Append(v \o w, x) = v \o Append(w, x)
      <4>. HIDE DEF good
      <4>1. Append(v \o w, x) = (v \o w) \o <<x>> /\ Append(w, x) = w \o <<x>>
        OBVIOUS
      <4>. QED  BY <4>1, SMT
    <3>. QED  BY <3>1, <3>2, Zenon
  <2>. QED  BY <1>2, <2>1, <2>2, <2>3
<1>3. \A b \in Seq(U) : b \in good
  <2>. HIDE DEF good
  <2>. QED  BY <1>1, <1>2, ByAppending
<1>. QED  BY <1>3

\* Sets that agree on the elements of a list leave the same of it.
LEMMA OnlySame ==
  ASSUME NEW U, NEW S, NEW T
  PROVE  \A s \in Seq(U) : (\A x \in ToSet(s) : x \in S <=> x \in T) => Only(s, S) = Only(s, T)
<1>1. ASSUME NEW s \in Seq(U), \A x \in ToSet(s) : x \in S <=> x \in T
      PROVE  Only(s, S) = Only(s, T)
  <2>1. {n \in DOMAIN s : s[n] \in S} = {n \in DOMAIN s : s[n] \in T}
    BY <1>1 DEF ToSet
  <2>. QED  BY <2>1 DEF Only
<1>. QED  BY <1>1

\* One message is kept or not.
LEMMA OnlyOne ==
  ASSUME NEW x, NEW S
  PROVE  Only(<<x>>, S) = IF x \in S THEN <<x>> ELSE << >>
<1>1. Append(<< >>, x) = <<x>> /\ << >> \in Seq({x}) /\ x \in {x}
  OBVIOUS
<1>2. Only(Append(<< >>, x), S) = IF x \in S THEN Append(Only(<< >>, S), x) ELSE Only(<< >>, S)
  <2>1. << >> \in Seq({x}) /\ x \in {x}
    OBVIOUS
  <2>. QED  BY <2>1, OnlyAppend, Zenon
<1>3. Only(<< >>, S) = << >>
  BY OnlyEmpty
<1>. QED  BY <1>1, <1>2, <1>3, Zenon

-----------------------------------------------------------------------------
\* The signal the filters are called with, if the proxy has yet to see it.
Now(q) ==
  IF walk # Nothing /\ q \in ToSet(walk.rest) /\ Matches(q, walk.msg)
  THEN <<walk.msg>> ELSE << >>
\* The messages a proxy is for.
Mine(q, U) == {m \in U : m.type = "signal" /\ Matches(q, m)}

\* Every list of messages is a list, of something.
ListsOf(U) ==
  /\ received \in Seq(U)
  /\ seen \in [Proxies -> Seq(U)] /\ expected \in [Proxies -> Seq(U)]
  /\ walk # Nothing => walk.msg \in U
Lists == \E U : ListsOf(U)

\* The filters libdbus has, and those it has still to call, are proxies.
FiltersInv ==
  /\ filters \in Seq(Proxies) /\ NoneTwice(filters)
  /\ walk = [msg |-> walk.msg, rest |-> walk.rest]
  /\ walk.rest \in Seq(Proxies) /\ NoneTwice(walk.rest)
  /\ ToSet(walk.rest) \subseteq ToSet(filters)

\* The bus has each rule as often as there are proxies that need it.
RulesOf(q) == {Rule(q, i) : i \in InterfacesOf[q]}
\* The proxies that need a rule.
Holders(r) == {q \in ToSet(filters) : r \in RulesOf(q)}
RulesInv ==
  /\ rules = [r \in DOMAIN rules |-> rules[r]]
  /\ \A r : r \in DOMAIN rules <=> Holders(r) # {}
  /\ \A r \in DOMAIN rules : rules[r] = Cardinality(Holders(r))

\* A signal has a serial no other signal has, nor a call that waits.
Sent ==
  {m \in ToSet(received) : m.type = "signal"}
    \cup (IF walk # Nothing THEN {walk.msg} ELSE {})
    \cup UNION {ToSet(seen[q]) : q \in Proxies}
FreshInv == \A m \in Sent : m.serial \in 1..count /\ ~Queued(m.serial)

\* A proxy has heard what it is to hear, and no more of it.
Reached(q) == Only(Heard(q), ToSet(expected[q])) = expected[q]
ReachInv ==
  /\ \A q \in ToSet(filters) : Reached(q)
  /\ \A q \in Proxies : q \notin ToSet(filters) => expected[q] = << >>

\* The inductive invariant of signals.
SignalsInv == Lists /\ FiltersInv /\ RulesInv /\ FreshInv /\ ReachInv

\* What is for a proxy is what is left of a list by a set of messages.
LEMMA ForIsOnly ==
  ASSUME NEW U, NEW q
  PROVE  \A s \in Seq(U) : For(q, s) = Only(s, Mine(q, U))
<1>1. ASSUME NEW s \in Seq(U) PROVE For(q, s) = Only(s, Mine(q, U))
  <2>1. \A n \in DOMAIN s : s[n] \in U
    OBVIOUS
  <2>2. {n \in DOMAIN s : s[n].type = "signal" /\ Matches(q, s[n])}
          = {n \in DOMAIN s : s[n] \in Mine(q, U)}
    BY <2>1 DEF Mine
  <2>. QED  BY <2>2 DEF For, Only
<1>. QED  BY <1>1

\* What is for a proxy are signals of the list.
LEMMA ForFacts ==
  ASSUME NEW U, NEW q
  PROVE  \A s \in Seq(U) :
           For(q, s) \in Seq(U) /\ ToSet(For(q, s)) \subseteq {m \in ToSet(s) : m.type = "signal"}
<1>1. ASSUME NEW s \in Seq(U)
      PROVE  For(q, s) \in Seq(U) /\ ToSet(For(q, s)) \subseteq {m \in ToSet(s) : m.type = "signal"}
  <2>1. /\ Only(s, Mine(q, U)) \in Seq(U)
        /\ ToSet(Only(s, Mine(q, U))) \subseteq Mine(q, U) \cap ToSet(s)
    BY OnlyFacts
  <2>2. For(q, s) = Only(s, Mine(q, U))
    BY ForIsOnly
  <2>. QED  BY <2>1, <2>2 DEF Mine
<1>. QED  BY <1>1

\* The bus passes one signal on or not.
LEMMA PassedOne ==
  ASSUME NEW sig
  PROVE  Passed(<<sig>>) = (IF Routed(sig) THEN <<sig>> ELSE << >>) /\ Passed(<< >>) = << >>
<1>1. ASSUME NEW s, s = <<sig>> \/ s = << >> PROVE Passed(s) = Only(s, {x \in {sig} : Routed(x)})
  <2>1. \A n \in DOMAIN s : s[n] \in {sig}
    BY <1>1
  <2>2. {n \in DOMAIN s : Routed(s[n])} = {n \in DOMAIN s : s[n] \in {x \in {sig} : Routed(x)}}
    BY <2>1
  <2>. QED  BY <2>2 DEF Passed, Only
<1>2. sig \in {x \in {sig} : Routed(x)} <=> Routed(sig)
  OBVIOUS
<1>3. Passed(<<sig>>) = Only(<<sig>>, {x \in {sig} : Routed(x)}) /\ Passed(<< >>) = Only(<< >>, {x \in {sig} : Routed(x)})
  BY <1>1
<1>. QED  BY <1>2, <1>3, OnlyOne, OnlyEmpty, Zenon

\* Lists of something are lists of more.
LEMMA MoreOf ==
  ASSUME NEW U, NEW V, U \subseteq V, ListsOf(U)
  PROVE  ListsOf(V)
<1>1. ASSUME NEW s \in Seq(U) PROVE s \in Seq(V)
  OBVIOUS
<1>. QED  BY <1>1 DEF ListsOf

\* What a proxy has seen and is to see are signals that were sent.
LEMMA HeardFacts ==
  ASSUME NEW U, ListsOf(U), NEW q \in Proxies
  PROVE  /\ Now(q) \in Seq(U) /\ For(q, received) \in Seq(U) /\ Heard(q) \in Seq(U)
         /\ seen[q] \o Now(q) \in Seq(U)
         /\ Heard(q) = (seen[q] \o Now(q)) \o For(q, received)
         /\ ToSet(Heard(q)) \subseteq Sent
<1>. DEFINE r == For(q, received)
            s == seen[q] \o Now(q)
<1>1. r \in Seq(U) /\ ToSet(r) \subseteq {m \in ToSet(received) : m.type = "signal"}
  BY ForFacts DEF ListsOf
<1>2. Now(q) \in Seq(U) /\ ToSet(Now(q)) \subseteq (IF walk # Nothing THEN {walk.msg} ELSE {})
  BY DEF ListsOf, ToSet, Now
<1>3. Heard(q) = s \o r /\ seen[q] \in Seq(U)
  BY DEF Heard, ListsOf, Now
<1>4. ToSet(seen[q]) \subseteq UNION {ToSet(seen[p]) : p \in Proxies}
  OBVIOUS
<1>. HIDE DEF r
<1>5. s \in Seq(U) /\ ToSet(s) = ToSet(seen[q]) \cup ToSet(Now(q))
  BY <1>2, <1>3, JoinedFacts
<1>. HIDE DEF s
<1>6. Heard(q) \in Seq(U) /\ ToSet(Heard(q)) = ToSet(s) \cup ToSet(r)
  BY <1>1, <1>3, <1>5, JoinedFacts
<1>7. ToSet(Heard(q)) \subseteq Sent
  BY <1>1, <1>2, <1>4, <1>5, <1>6 DEF Sent
<1>. QED  BY <1>1, <1>2, <1>3, <1>5, <1>6, <1>7 DEF r, s

\* The proxies in the filters of the client get what is new, the others not.
Reaches(sig) == sig.type = "signal" /\ \A m \in Sent : m.serial # sig.serial
\* Expect, with the signals it adds.
Expected(sigs) ==
  expected' = [q \in Proxies |->
                 IF q \in ToSet(filters) THEN expected[q] \o For(q, sigs) ELSE expected[q]]

\* A signal a proxy is for is passed on: its rule is one of the client's.
LEMMA MatchedIsRouted ==
  ASSUME RulesInv, NEW q \in ToSet(filters), NEW sig, Matches(q, sig)
  PROVE  Routed(sig)
<1>. DEFINE r == Rule(q, sig.interface)
<1>1. r \in RulesOf(q) /\ r = [interface |-> sig.interface, path |-> sig.path]
  BY DEF Matches, RulesOf, Rule
<1>. HIDE DEF r
<1>2. r \in DOMAIN rules
  BY <1>1 DEF RulesInv, Holders
<1>. QED  BY <1>1, <1>2 DEF Routed, BagIn, BagToSet

\* An answer, with the signal before it if there is one, comes to the client.
LEMMA NewMessages ==
  ASSUME SignalsInv, NEW sigs, NEW rest,
         sigs = << >> \/ \E sig : sigs = <<sig>> /\ Reaches(sig),
         rest = << >> \/ \E a : rest = <<a>> /\ a.type # "signal",
         received' = (received \o Passed(sigs)) \o rest,
         Expected(sigs), UNCHANGED <<filters, rules, walk, seen>>
  PROVE  /\ Lists' /\ FiltersInv' /\ RulesInv' /\ ReachInv'
         /\ \A m \in Sent' : m \in Sent \/ \E sig : sigs = <<sig>> /\ m = sig
<1>1. PICK U : ListsOf(U)
  BY DEF SignalsInv, Lists
<1>. DEFINE V == U \cup ToSet(sigs) \cup ToSet(rest)
            p == Passed(sigs)
<1>2. U \subseteq V /\ ListsOf(V)
  BY <1>1, MoreOf
<1>3. /\ sigs \in Seq(V) /\ rest \in Seq(V) /\ p \in Seq(V)
      /\ p = << >> \/ p = sigs
      /\ \A q : For(q, sigs) \in Seq(V)
  <2>1. sigs \in Seq(V) /\ rest \in Seq(V)
    <3>1. sigs \in Seq(ToSet(sigs)) /\ rest \in Seq(ToSet(rest))
      <4>1. << >> \in Seq(ToSet(<< >>)) /\ \A x : <<x>> \in Seq(ToSet(<<x>>))
        BY ShortLists
      <4>. QED  BY <4>1, Zenon
    <3>2. ToSet(sigs) \subseteq V /\ ToSet(rest) \subseteq V
      OBVIOUS
    <3>. HIDE DEF V
    <3>. QED  BY <3>1, <3>2, SeqOfMore, Zenon
  <2>2. p = << >> \/ p = sigs
    BY PassedOne
  <2>. HIDE DEF V
  <2>3. \A q : For(q, sigs) \in Seq(V)
    BY <2>1, ForFacts, Zenon
  <2>4. p \in Seq(V)
    <3>1. << >> \in Seq(V)
      OBVIOUS
    <3>. QED  BY <2>1, <2>2, <3>1, Zenon
  <2>. HIDE DEF p
  <2>. QED  BY <2>1, <2>2, <2>3, <2>4, Zenon
<1>. HIDE DEF V
<1>4. ListsOf(V)'
  <2>1. received' \in Seq(V)
    BY <1>2, <1>3, JoinedFacts DEF ListsOf
  <2>2. expected' \in [Proxies -> Seq(V)]
    BY <1>2, <1>3, JoinedFacts DEF ListsOf, Expected
  <2>. QED  BY <1>2, <2>1, <2>2 DEF ListsOf
<1>5. FiltersInv' /\ RulesInv'
  BY DEF SignalsInv, FiltersInv, RulesInv, Holders
<1>6. ASSUME NEW q \in Proxies PROVE For(q, rest) = << >>
  <2>1. For(q, rest) = Only(rest, Mine(q, V))
    BY <1>3, ForIsOnly
  <2>2. CASE rest = << >>
    BY <2>1, <2>2, OnlyEmpty
  <2>3. ASSUME NEW a, rest = <<a>>, a.type # "signal" PROVE For(q, rest) = << >>
    <3>1. a \notin Mine(q, V)
      BY <2>3 DEF Mine
    <3>. QED  BY <2>1, <2>3, <3>1, OnlyOne
  <2>. QED  BY <2>2, <2>3
<1>7. ASSUME NEW q \in Proxies PROVE Heard(q)' = Heard(q) \o For(q, p)
  <2>. DEFINE old == For(q, received)
              new == For(q, received')
              first == seen[q] \o Now(q)
              add == For(q, p)
  <2>1. new = old \o add
    <3>1. \A s \in Seq(V) : For(q, s) = Only(s, Mine(q, V))
      BY ForIsOnly
    <3>2. received \in Seq(V) /\ received \o p \in Seq(V) /\ received' \in Seq(V)
      BY <1>2, <1>3, JoinedFacts DEF ListsOf
    <3>3. Only(received \o p, Mine(q, V)) = Only(received, Mine(q, V)) \o Only(p, Mine(q, V))
      BY <1>3, <3>2, OnlyConcat
    <3>4. Only((received \o p) \o rest, Mine(q, V)) = Only(received \o p, Mine(q, V)) \o Only(rest, Mine(q, V))
      BY <1>3, <3>2, OnlyConcat
    <3>5. Only(rest, Mine(q, V)) = << >>
      BY <1>3, <1>6, <3>1
    <3>6. Only(received \o p, Mine(q, V)) \in Seq(V)
      BY <3>2, OnlyFacts
    <3>7. Only((received \o p) \o rest, Mine(q, V)) = Only(received \o p, Mine(q, V))
      BY <3>4, <3>5, <3>6
    <3>. QED  BY <1>3, <3>1, <3>2, <3>3, <3>7
  <2>2. Heard(q) = first \o old /\ first \in Seq(V) /\ old \in Seq(V)
    BY <1>2, HeardFacts
  <2>3. Now(q)' = Now(q) /\ Heard(q)' = first \o new
    BY DEF Heard, Now, Matches, For, At
  <2>4. add \in Seq(V)
    BY <1>3, ForFacts
  <2>. HIDE DEF old, new, first, add
  <2>5. first \o new = Heard(q) \o add
    BY ONLY <2>1, <2>2, <2>4, Regrouped
  <2>. QED  BY <2>3, <2>5 DEF add
<1>8. ASSUME NEW q \in ToSet(filters)
      PROVE  /\ For(q, p) = For(q, sigs)
             /\ For(q, sigs) = << >> \/ \E sig : For(q, sigs) = <<sig>> /\ Reaches(sig)
  <2>1. For(q, << >>) = << >>
    BY OnlyEmpty DEF For, Only
  <2>2. CASE sigs = << >>
    BY <1>3, <2>1, <2>2
  <2>3. ASSUME NEW sig, sigs = <<sig>>, Reaches(sig)
        PROVE  /\ For(q, p) = For(q, sigs)
               /\ For(q, sigs) = << >> \/ For(q, sigs) = <<sig>>
    <3>1. For(q, sigs) = IF sig \in Mine(q, V) THEN <<sig>> ELSE << >>
      <4>1. For(q, sigs) = Only(<<sig>>, Mine(q, V))
        BY <1>3, <2>3, ForIsOnly
      <4>. QED  BY <4>1, OnlyOne
    <3>2. CASE Matches(q, sig)
      BY <2>3, <3>1, <3>2, MatchedIsRouted, PassedOne DEF SignalsInv
    <3>3. CASE ~Matches(q, sig)
      <4>1. For(q, sigs) = << >>
        BY <3>1, <3>3 DEF Mine
      <4>. QED  BY <1>3, <2>1, <4>1
    <3>. QED  BY <3>2, <3>3
  <2>. QED  BY <2>2, <2>3
<1>. HIDE DEF p
<1>9. ASSUME NEW q \in Proxies, q \in ToSet(filters) PROVE Reached(q)'
  <2>. DEFINE e == expected[q]
              add == For(q, sigs)
  <2>1. /\ Heard(q) \in Seq(V) /\ e \in Seq(V) /\ add \in Seq(V)
        /\ ToSet(Heard(q)) \subseteq Sent /\ Only(Heard(q), ToSet(e)) = e
    BY <1>2, <1>3, <1>9, HeardFacts DEF ListsOf, SignalsInv, ReachInv, Reached
  <2>2. Heard(q)' = Heard(q) \o add
    BY <1>7, <1>8, <1>9
  <2>3. expected'[q] = e \o add
    BY <1>9 DEF Expected
  <2>. HIDE DEF e, add
  <2>4. CASE add = << >>
    <3>1. Heard(q)' = Heard(q) /\ expected'[q] = e
      BY <2>1, <2>2, <2>3, <2>4
    <3>. QED  BY <2>1, <3>1 DEF Reached
  <2>5. ASSUME NEW sig, add = <<sig>>, Reaches(sig) PROVE Reached(q)'
    <3>1. sig \notin ToSet(Heard(q))
      BY <2>1, <2>5 DEF Reaches
    <3>. DEFINE S == ToSet(e \o add)
    <3>2. S = ToSet(e) \cup {sig}
      <4>1. ToSet(add) = {sig}
        BY <2>5 DEF ToSet
      <4>. QED  BY <2>1, <4>1, JoinedFacts
    <3>. HIDE DEF S
    <3>3. Only(Heard(q), S) = e
      BY <2>1, <3>1, <3>2, OnlySame
    <3>4. Only(add, S) = add
      BY <2>5, <3>2, OnlyOne
    <3>5. Only(Heard(q) \o add, S) = Only(Heard(q), S) \o Only(add, S)
      BY <2>1, OnlyConcat, Zenon
    <3>6. Only(Heard(q)', ToSet(expected'[q])) = expected'[q]
      BY <2>2, <2>3, <3>3, <3>4, <3>5 DEF S
    <3>. QED  BY <3>6 DEF Reached
  <2>. QED  BY <1>8, <1>9, <2>4, <2>5 DEF add
<1>10. ReachInv'
  <2>1. ToSet(filters) \subseteq Proxies
    BY DEF SignalsInv, FiltersInv, ToSet
  <2>2. \A q \in Proxies : q \notin ToSet(filters) => expected'[q] = expected[q]
    BY DEF Expected
  <2>. QED  BY <1>9, <2>1, <2>2 DEF SignalsInv, ReachInv
<1>11. ASSUME NEW m \in Sent' PROVE m \in Sent \/ \E sig : sigs = <<sig>> /\ m = sig
  <2>1. CASE m \in ToSet(received') /\ m.type = "signal"
    <3>1. received \in Seq(V) /\ received \o p \in Seq(V)
      BY <1>2, <1>3, JoinedFacts DEF ListsOf
    <3>2. ToSet(received') = (ToSet(received) \cup ToSet(p)) \cup ToSet(rest)
      <4>. DEFINE rp == received \o p
      <4>2. ToSet(rp) = ToSet(received) \cup ToSet(p)
        BY <1>3, <3>1, JoinedFacts
      <4>3. rp \in Seq(V)
        BY <3>1
      <4>1. ToSet(rp \o rest) = ToSet(rp) \cup ToSet(rest)
        <5>. HIDE DEF rp
        <5>. QED  BY <1>3, <4>3, JoinedFacts
      <4>. QED  BY <4>1, <4>2, Zenon DEF p
    <3>3. m \notin ToSet(rest)
      BY <2>1 DEF ToSet
    <3>4. m \in ToSet(p) => \E sig : sigs = <<sig>> /\ m = sig
      BY <1>3 DEF ToSet
    <3>. QED  BY <2>1, <3>2, <3>3, <3>4 DEF Sent
  <2>2. CASE ~(m \in ToSet(received') /\ m.type = "signal")
    BY <2>2 DEF Sent
  <2>. QED  BY <2>1, <2>2
<1>. QED  BY <1>4, <1>5, <1>10, <1>11 DEF Lists

\* Serials stay apart when calls that wait are answered, and when what is
\* sent has a new one.
LEMMA FreshKept ==
  ASSUME FreshInv, count \in Nat, count' \in Nat, count <= count',
         \A n \in 1..count : Queued(n)' => Queued(n),
         \A m \in Sent' : m \in Sent \/ (m.serial \in 1..count' /\ ~Queued(m.serial)')
  PROVE  FreshInv'
<1>. SUFFICES ASSUME NEW m \in Sent' PROVE m.serial \in 1..count' /\ ~Queued(m.serial)'
  BY DEF FreshInv
<1>1. CASE m \in Sent
  <2>1. m.serial \in 1..count /\ ~Queued(m.serial)
    BY <1>1 DEF FreshInv
  <2>2. m.serial \in 1..count'
    BY <2>1
  <2>3. Queued(m.serial)' => Queued(m.serial)
    BY <2>1
  <2>. QED  BY <2>1, <2>2, <2>3
<1>. QED  BY <1>1

\* The server and the client do other things.
LEMMA SignalsUntouched ==
  ASSUME SignalsInv, UNCHANGED <<received, expected, filters, rules, walk, seen>>,
         count \in Nat, count' \in Nat, count <= count',
         \A n \in 1..count : Queued(n)' => Queued(n)
  PROVE  SignalsInv'
<1>1. Lists' /\ FiltersInv' /\ RulesInv'
  BY DEF SignalsInv, Lists, ListsOf, FiltersInv, RulesInv, Holders
<1>2. Sent' = Sent
  BY DEF Sent
<1>3. FreshInv'
  BY <1>2, FreshKept DEF SignalsInv
<1>4. ReachInv'
  <2>1. \A q \in Proxies : Heard(q)' = Heard(q)
    BY DEF Heard, For, At, Matches
  <2>2. ToSet(filters) \subseteq Proxies
    BY DEF SignalsInv, FiltersInv, ToSet
  <2>3. ASSUME NEW q \in ToSet(filters) PROVE Reached(q)'
    <3>1. Only(Heard(q), ToSet(expected[q])) = expected[q] /\ Heard(q)' = Heard(q)
      BY <2>1, <2>2 DEF SignalsInv, ReachInv, Reached
    <3>2. Only(Heard(q)', ToSet(expected'[q])) = expected'[q]
      BY <3>1
    <3>. QED  BY <3>2 DEF Reached
  <2>. QED  BY <2>3 DEF SignalsInv, ReachInv
<1>. QED  BY <1>1, <1>3, <1>4 DEF SignalsInv

\* An answer comes to the client, and no signal.
LEMMA OneAnswer ==
  ASSUME SignalsInv, NEW a, a.type # "signal", received' = (received \o << >>) \o <<a>>,
         UNCHANGED <<expected, filters, rules, walk, seen>>
  PROVE  /\ Lists' /\ FiltersInv' /\ RulesInv' /\ ReachInv'
         /\ \A m \in Sent' : m \in Sent
<1>1. Passed(<< >>) = << >>
  BY PassedOne
<1>2. PICK U : ListsOf(U)
  BY DEF SignalsInv, Lists
<1>3. ASSUME NEW q \in Proxies PROVE expected[q] = expected[q] \o For(q, << >>)
  <2>1. For(q, << >>) = << >>
    BY OnlyEmpty DEF For, Only
  <2>2. expected[q] \in Seq(U)
    BY <1>2 DEF ListsOf
  <2>. QED  BY <2>1, <2>2
<1>4. Expected(<< >>)
  <2>1. expected = [q \in Proxies |-> expected[q]]
    BY <1>2 DEF ListsOf
  <2>. QED  BY <1>3, <2>1 DEF Expected
<1>5. /\ Lists' /\ FiltersInv' /\ RulesInv' /\ ReachInv'
      /\ \A m \in Sent' : m \in Sent \/ \E sig : << >> = <<sig>> /\ m = sig
  <2>. DEFINE sigs == << >>
              rest == <<a>>
  <2>1. sigs = << >> \/ \E sig : sigs = <<sig>> /\ Reaches(sig)
    OBVIOUS
  <2>2. rest = << >> \/ \E b : rest = <<b>> /\ b.type # "signal"
    OBVIOUS
  <2>3. received' = (received \o Passed(sigs)) \o rest /\ Expected(sigs)
    BY <1>1, <1>4
  <2>. HIDE DEF rest
  <2>. QED  BY <2>1, <2>2, <2>3, NewMessages
<1>6. \A sig : << >> # <<sig>>
  OBVIOUS
<1>. QED  BY <1>5, <1>6, Zenon

\* What is emitted is a signal, with the serial it is given.
LEMMA EmittedFacts ==
  ASSUME NEW o, NEW s, NEW n
  PROVE  EmittedBy(o, s, n).type = "signal" /\ EmittedBy(o, s, n).serial = n
BY DEF EmittedBy, Fill, SignalMessage

\* An object emits a signal: proxies that are for it hear it.
LEMMA EmitReaches ==
  ASSUME SignalsInv, CallInv, NEW o \in Objects, NEW s \in SignalsOf, EmitSignal(o, s)
  PROVE  SignalsInv'
<1>0. PICK sig : sig = EmittedBy(o, s, count')
  OBVIOUS
<1>. DEFINE sigs == <<sig>>
            rest == << >>
<1>1. /\ received' = received \o Passed(<<sig>>) /\ Expect(<<sig>>)
      /\ UNCHANGED <<filters, rules, walk, seen, inbox>>
      /\ count \in Nat /\ count' = count + 1
  BY <1>0 DEF EmitSignal, serverVars, callVars, proxyVars, clientVars, CallInv, CallTypes
<1>2. sig.type = "signal" /\ sig.serial = count'
  BY <1>0, EmittedFacts
<1>3. \A m \in Sent : m.serial # sig.serial
  BY <1>1, <1>2 DEF SignalsInv, FreshInv
<1>4. \A n : Queued(n)' <=> Queued(n)
  BY <1>1 DEF Queued
<1>5. ~Queued(count')
  BY <1>1 DEF CallInv, OnePlace, CallTypes
<1>6. received' = (received \o Passed(sigs)) \o rest
  <2>1. PICK U : ListsOf(U)
    BY DEF SignalsInv, Lists
  <2>. DEFINE V == U \cup {sig}
  <2>2. received \in Seq(V) /\ Passed(<<sig>>) \in Seq(V)
    <3>1. received \in Seq(V)
      BY <2>1 DEF ListsOf
    <3>2. <<sig>> \in Seq(V) /\ << >> \in Seq(V)
      OBVIOUS
    <3>. QED  BY <3>1, <3>2, PassedOne
  <2>. HIDE DEF V
  <2>3. received \o Passed(<<sig>>) \in Seq(V)
    BY <2>2
  <2>. QED  BY <1>1, <2>3
<1>7. Expected(sigs)
  BY <1>1 DEF Expect, Expected
<1>8. sigs = << >> \/ \E x : sigs = <<x>> /\ Reaches(x)
  BY <1>2, <1>3 DEF Reaches
<1>9. rest = << >> \/ \E b : rest = <<b>> /\ b.type # "signal"
  OBVIOUS
<1>10. \A x : sigs = <<x>> => x = sig
  OBVIOUS
<1>. HIDE DEF sigs, rest
<1>11. /\ Lists' /\ FiltersInv' /\ RulesInv' /\ ReachInv'
       /\ \A m \in Sent' : m \in Sent \/ \E x : sigs = <<x>> /\ m = x
  BY <1>1, <1>6, <1>7, <1>8, <1>9, NewMessages
<1>12. FreshInv'
  <2>1. \A m \in Sent' : m \in Sent \/ m = sig
    BY <1>10, <1>11
  <2>2. sig.serial \in 1..count' /\ ~Queued(sig.serial)'
    BY <1>1, <1>2, <1>4, <1>5
  <2>. QED  BY <1>1, <1>4, <2>1, <2>2, FreshKept DEF SignalsInv
<1>. QED  BY <1>11, <1>12 DEF SignalsInv

\* What a call is answered with is a reply or an error.
LEMMA AnswersAreNoSignals ==
  ASSUME NEW call, NEW vs, NEW paths, NEW result \in dispatch_method(call, vs, paths),
         result.answer # None
  PROVE  result.answer.type # "signal"
<1>1. \A name : ErrorMessage(call, name).type # "signal"
  BY DEF ErrorMessage
<1>2. \A body : ReturnMessage(call, body).type # "signal"
  BY DEF ReturnMessage
<1>3. Get(call, vs).type # "signal"
  BY <1>1, <1>2 DEF Get
<1>4. Introspect(call, paths).type # "signal"
  BY <1>2 DEF Introspect
<1>5. Set(call, vs).answer.type # "signal"
  BY <1>1, <1>2 DEF Set
<1>. QED  BY <1>1, <1>2, <1>3, <1>4, <1>5 DEF dispatch_method, Answers, Later

\* A call goes, and its answer with the signal of a change comes.
LEMMA DispatchReaches ==
  ASSUME SignalsInv, CallInv, NEW c \in Connections, Dispatch(c)
  PROVE  SignalsInv'
<1>. DEFINE call == Head(inbox[c])
            o == registered[c][call.path]
            n == call.serial
<1>1. /\ inbox[c] # << >> /\ inbox' = [inbox EXCEPT ![c] = Tail(@)]
      /\ UNCHANGED <<filters, rules, walk, seen, count>> /\ count \in Nat
  BY DEF Dispatch, proxyVars, clientVars, CallInv, CallTypes
<1>2. \/ NotHandled(call)
      \/ \E result \in dispatch_method(call, values[o], Listed) :
           result.answer # None /\ AnswerNow(o, call, result)
      \/ \E tag \in Tags : AnswerLater(o, call, tag)
  BY DEF Dispatch
<1>3. Queued(n) /\ \A x : Queued(x)' <=> Queued(x) /\ x # n
  BY <1>1, TakeFirst DEF CallInv
<1>4. n \in 1..count
  BY <1>3 DEF CallInv, OnePlace, CallTypes
<1>5. \A m \in Sent : m.serial # n
  BY <1>3 DEF SignalsInv, FreshInv
<1>. HIDE DEF call, o, n
<1>6. ASSUME NEW a, a.type # "signal", received' = (received \o << >>) \o <<a>>, UNCHANGED expected
      PROVE  SignalsInv'
  <2>1. /\ Lists' /\ FiltersInv' /\ RulesInv' /\ ReachInv'
        /\ \A m \in Sent' : m \in Sent
    BY <1>1, <1>6, OneAnswer
  <2>2. FreshInv'
    BY <1>1, <1>3, <2>1, FreshKept DEF SignalsInv
  <2>. QED  BY <2>1, <2>2 DEF SignalsInv
<1>7. ASSUME NotHandled(call) PROVE SignalsInv'
  <2>1. PICK a : a = ErrorMessage(call, "UnknownMethod")
    OBVIOUS
  <2>2. received' = (received \o << >>) \o <<a>> /\ UNCHANGED expected
    BY <1>7, <2>1 DEF NotHandled, SendAnswer
  <2>3. a.type # "signal"
    BY <2>1 DEF ErrorMessage
  <2>. QED  BY <1>6, <2>2, <2>3
<1>8. ASSUME NEW result \in dispatch_method(call, values[o], Listed),
             result.answer # None, AnswerNow(o, call, result)
      PROVE  SignalsInv'
  <2>1. PICK a : a = result.answer
    OBVIOUS
  <2>2. a.type # "signal"
    BY <1>8, <2>1, AnswersAreNoSignals
  <2>3. PICK sigs : /\ received' = (received \o Passed(sigs)) \o <<a>> /\ Expect(sigs)
                    /\ \/ sigs = << >>
                       \/ sigs = <<EmittedBy(o, Announced[call.body.property], call.serial)>>
    BY <1>8, <2>1 DEF AnswerNow, SendAnswer
  <2>4. PICK sig : sig = EmittedBy(o, Announced[call.body.property], n)
    OBVIOUS
  <2>5. sigs = << >> \/ sigs = <<sig>>
    BY <2>3, <2>4 DEF n
  <2>6. sig.type = "signal" /\ sig.serial = n
    BY <2>4, EmittedFacts
  <2>7. sigs = << >> \/ \E x : sigs = <<x>> /\ Reaches(x)
    BY <1>5, <2>5, <2>6 DEF Reaches
  <2>8. \A x : sigs = <<x>> => x = sig
    BY <2>5
  <2>9. PICK rest : rest = <<a>>
    OBVIOUS
  <2>10. rest = << >> \/ \E b : rest = <<b>> /\ b.type # "signal"
    BY <2>2, <2>9
  <2>11. received' = (received \o Passed(sigs)) \o rest /\ Expected(sigs)
    BY <2>3, <2>9 DEF Expect, Expected
  <2>12. /\ Lists' /\ FiltersInv' /\ RulesInv' /\ ReachInv'
         /\ \A m \in Sent' : m \in Sent \/ \E x : sigs = <<x>> /\ m = x
    BY <1>1, <2>7, <2>10, <2>11, NewMessages
  <2>13. FreshInv'
    <3>1. \A m \in Sent' : m \in Sent \/ m = sig
      BY <2>8, <2>12
    <3>2. sig.serial \in 1..count' /\ ~Queued(sig.serial)'
      BY <1>1, <1>3, <1>4, <2>6
    <3>. QED  BY <1>1, <1>3, <3>1, <3>2, FreshKept DEF SignalsInv
  <2>. QED  BY <2>12, <2>13 DEF SignalsInv
<1>9. ASSUME NEW tag \in Tags, AnswerLater(o, call, tag) PROVE SignalsInv'
  <2>1. UNCHANGED <<received, expected>>
    BY <1>9 DEF AnswerLater
  <2>. QED  BY <1>1, <1>3, <2>1, SignalsUntouched
<1>. QED  BY <1>2, <1>7, <1>8, <1>9

\* A call that was deferred is answered.
LEMMA ReturnReaches ==
  ASSUME SignalsInv, CallInv, NEW o \in Objects, NEW tag \in Tags, ReturnNow(o, tag)
  PROVE  SignalsInv'
<1>1. /\ UNCHANGED <<filters, rules, walk, seen, expected, inbox, count>> /\ count \in Nat
      /\ \E msg \in {ReturnMessage(continuations[o][tag], None),
                     ErrorMessage(continuations[o][tag], "Thrown")} : SendAnswer(<< >>, msg)
  BY DEF ReturnNow, proxyVars, clientVars, CallInv, CallTypes
<1>2. PICK a : received' = (received \o << >>) \o <<a>> /\ a.type # "signal"
  <2>1. PICK msg \in {ReturnMessage(continuations[o][tag], None),
                      ErrorMessage(continuations[o][tag], "Thrown")} : SendAnswer(<< >>, msg)
    BY <1>1
  <2>2. msg.type # "signal"
    BY DEF ReturnMessage, ErrorMessage
  <2>3. received' = (received \o << >>) \o <<msg>>
    BY <2>1 DEF SendAnswer
  <2>. QED  BY <2>2, <2>3
<1>3. /\ Lists' /\ FiltersInv' /\ RulesInv' /\ ReachInv'
      /\ \A m \in Sent' : m \in Sent
  BY <1>1, <1>2, OneAnswer
<1>4. \A n : Queued(n)' => Queued(n)
  BY <1>1 DEF Queued
<1>5. FreshInv'
  BY <1>1, <1>3, <1>4, FreshKept DEF SignalsInv
<1>. QED  BY <1>3, <1>5 DEF SignalsInv

-----------------------------------------------------------------------------
(* The client takes what has come.                                         *)

\* Without something that does not count, as much of a list counts.
LEMMA OnlyWithout ==
  ASSUME NEW U, NEW S, NEW s \in Seq(U), NEW n \in 1..Len(s), s[n] \notin S
  PROVE  /\ RemoveAt(s, n) \in Seq(U) /\ ToSet(RemoveAt(s, n)) \subseteq ToSet(s)
         /\ Only(RemoveAt(s, n), S) = Only(s, S)
<1>. DEFINE a == SubSeq(s, 1, n - 1)
            b == SubSeq(s, n + 1, Len(s))
            x == s[n]
<1>1. a \in Seq(U) /\ b \in Seq(U) /\ x \in U /\ <<x>> \in Seq(U)
  OBVIOUS
<1>2. s = Append(a, x) \o b
  <2>. DEFINE ax == Append(a, x)
  <2>1. /\ Len(s) \in Nat /\ Len(a) = n - 1 /\ Len(b) = Len(s) - n
        /\ \A i \in 1..(n - 1) : a[i] = s[i]
        /\ \A i \in 1..(Len(s) - n) : b[i] = s[n + i]
    OBVIOUS
  <2>. HIDE DEF a, b, x
  <2>2. /\ ax \in Seq(U) /\ Len(ax) = n /\ \A i \in 1..(n - 1) : ax[i] = s[i]
        /\ ax[n] = s[n]
    BY <1>1, <2>1, AppendFacts DEF x
  <2>. HIDE DEF ax
  <2>3. /\ ax \o b \in Seq(U) /\ Len(ax \o b) = Len(s)
        /\ \A j \in 1..n : (ax \o b)[j] = ax[j]
        /\ \A j \in (n + 1)..Len(s) : (ax \o b)[j] = b[j - n]
    <3>1. Len(ax) + Len(b) = Len(s)
      BY <2>1, <2>2
    <3>. QED  BY <1>1, <2>2, <3>1, ConcatFacts
  <2>4. \A j \in 1..Len(s) : (ax \o b)[j] = s[j]
    <3>1. ASSUME NEW j \in 1..Len(s) PROVE (ax \o b)[j] = s[j]
      <4>1. CASE j \in 1..(n - 1)
        BY <2>1, <2>2, <2>3, <4>1
      <4>2. CASE j = n
        BY <2>1, <2>2, <2>3, <4>2
      <4>3. CASE j \in (n + 1)..Len(s)
        <5>1. PICK k : k = j - n
          OBVIOUS
        <5>2. k \in 1..(Len(s) - n) /\ n + k = j
          BY <2>1, <4>3, <5>1
        <5>3. b[k] = s[n + k] /\ (ax \o b)[j] = b[k]
          BY <2>1, <2>3, <4>3, <5>1, <5>2
        <5>. QED  BY <5>2, <5>3, Zenon
      <4>4. j \in 1..(n - 1) \/ j = n \/ j \in (n + 1)..Len(s)
        <5>1. n \in 1..Len(s) /\ j \in 1..Len(s) /\ Len(s) \in Nat
          BY <2>1
        <5>. QED  BY ONLY <5>1
      <4>. QED  BY <4>1, <4>2, <4>3, <4>4, Zenon
    <3>. QED  BY <3>1
  <2>5. PICK r : r = ax \o b
    OBVIOUS
  <2>6. r \in Seq(U) /\ Len(r) = Len(s) /\ \A j \in 1..Len(s) : r[j] = s[j]
    BY <2>3, <2>4, <2>5
  <2>7. r = s
    BY ONLY <2>6, s \in Seq(U)
  <2>. QED  BY <2>5, <2>7 DEF ax
<1>3. RemoveAt(s, n) = a \o b
  BY DEF RemoveAt
<1>4. ToSet(a) \subseteq ToSet(s) /\ ToSet(b) \subseteq ToSet(s)
  BY DEF ToSet
<1>. HIDE DEF a, b, x
<1>5. a \o b \in Seq(U) /\ ToSet(a \o b) = ToSet(a) \cup ToSet(b)
  BY <1>1, JoinedFacts
<1>6. Append(a, x) \in Seq(U)
  BY <1>1
<1>7. x \notin S
  BY DEF x
<1>8. Only(Append(a, x), S) = Only(a, S)
  BY <1>1, <1>7, OnlyAppend
<1>9. Only(Append(a, x) \o b, S) = Only(Append(a, x), S) \o Only(b, S)
  BY <1>1, <1>6, OnlyConcat, Zenon
<1>10. Only(a \o b, S) = Only(a, S) \o Only(b, S)
  BY <1>1, OnlyConcat, Zenon
<1>. QED  BY <1>2, <1>3, <1>4, <1>5, <1>8, <1>9, <1>10, Zenon

\* As much is heard by those in the filters, who are the same.
LEMMA SameHeard ==
  ASSUME SignalsInv, UNCHANGED <<filters, expected>>,
         \A q \in ToSet(filters) : Heard(q)' = Heard(q)
  PROVE  ReachInv'
<1>1. ASSUME NEW q \in ToSet(filters) PROVE Reached(q)'
  <2>1. Only(Heard(q), ToSet(expected[q])) = expected[q] /\ Heard(q)' = Heard(q)
    BY DEF SignalsInv, ReachInv, Reached
  <2>2. Only(Heard(q)', ToSet(expected'[q])) = expected'[q]
    BY <2>1
  <2>. QED  BY <2>2 DEF Reached
<1>. QED  BY <1>1 DEF SignalsInv, ReachInv

\* Nothing new is sent, and no call comes.
LEMMA NothingSent ==
  ASSUME SignalsInv, CallInv, UNCHANGED <<inbox, count>>, \A m \in Sent' : m \in Sent
  PROVE  FreshInv'
<1>1. count \in Nat
  BY DEF CallInv, CallTypes
<1>2. \A n : Queued(n)' => Queued(n)
  BY DEF Queued
<1>. QED  BY <1>1, <1>2, FreshKept DEF SignalsInv

\* The answer is taken from between the signals, which keep their order.
LEMMA GetAnswerReaches ==
  ASSUME SignalsInv, CallInv, GetAnswer
  PROVE  SignalsInv'
<1>1. /\ UNCHANGED <<filters, rules, walk, seen, expected, inbox, count>>
      /\ \E n \in AnswersTo(waiting) : received' = RemoveAt(received, n)
  BY DEF GetAnswer, proxyVars, callVars
<1>2. PICK U : ListsOf(U)
  BY DEF SignalsInv, Lists
<1>3. PICK n \in 1..Len(received) : received' = RemoveAt(received, n) /\ received[n].type # "signal"
  <2>1. DOMAIN received = 1..Len(received)
    BY <1>2 DEF ListsOf
  <2>. QED  BY <1>1, <2>1 DEF AnswersTo
<1>4. received \in Seq(U)
  BY <1>2 DEF ListsOf
<1>5. received' \in Seq(U) /\ ToSet(received') \subseteq ToSet(received)
  <2>1. received[n] \notin {}
    OBVIOUS
  <2>. QED  BY <1>3, <1>4, <2>1, OnlyWithout
<1>6. ASSUME NEW q PROVE For(q, received') = For(q, received)
  <2>1. received[n] \notin Mine(q, U)
    BY <1>3 DEF Mine
  <2>2. Only(received', Mine(q, U)) = Only(received, Mine(q, U))
    BY <1>3, <1>4, <2>1, OnlyWithout
  <2>. QED  BY <1>4, <1>5, <2>2, ForIsOnly
<1>7. Lists' /\ FiltersInv' /\ RulesInv'
  BY <1>1, <1>2, <1>5 DEF SignalsInv, Lists, ListsOf, FiltersInv, RulesInv, Holders
<1>8. \A q : Heard(q)' = Heard(q)
  <2>1. \A q : Heard(q)' = (seen[q] \o Now(q)) \o For(q, received')
    BY <1>1 DEF Heard, Now, Matches, For, At
  <2>. QED  BY <1>6, <2>1 DEF Heard, Now
<1>9. ReachInv'
  BY <1>1, <1>8, SameHeard
<1>10. FreshInv'
  <2>1. \A m \in Sent' : m \in Sent
    BY <1>1, <1>5 DEF Sent
  <2>. QED  BY <1>1, <2>1, NothingSent
<1>. QED  BY <1>7, <1>9, <1>10 DEF SignalsInv

\* The first message goes from the queue to the filters.
LEMMA ClientDispatchReaches ==
  ASSUME SignalsInv, CallInv, ClientDispatch
  PROVE  SignalsInv'
<1>. DEFINE h == Head(received)
            t == Tail(received)
<1>1. /\ UNCHANGED <<filters, rules, seen, expected, inbox, count>>
      /\ walk = Nothing /\ received # << >> /\ received' = t
      /\ walk' = IF h.type = "signal" THEN [msg |-> h, rest |-> filters] ELSE walk
  BY DEF ClientDispatch, proxyVars, callVars
<1>2. PICK U : ListsOf(U)
  BY DEF SignalsInv, Lists
<1>3. /\ received \in Seq(U) /\ h \in U /\ t \in Seq(U) /\ received = <<h>> \o t
      /\ ToSet(received) = {h} \cup ToSet(t) /\ <<h>> \in Seq(U)
  <2>1. received \in Seq(U)
    BY <1>2 DEF ListsOf
  <2>2. /\ h \in U /\ t \in Seq(U) /\ received = <<h>> \o t
        /\ ToSet(received) = {h} \cup ToSet(t)
    BY <1>1, <2>1, TailOfList
  <2>. HIDE DEF h, t
  <2>. QED  BY <2>1, <2>2
<1>. HIDE DEF h, t
<1>4. Lists'
  <2>1. ListsOf(U)'
    BY <1>1, <1>2, <1>3 DEF ListsOf
  <2>. QED  BY <2>1 DEF Lists
<1>5. FiltersInv' /\ RulesInv'
  BY <1>1 DEF SignalsInv, FiltersInv, RulesInv, Holders
<1>6. \A m \in Sent' : m \in Sent
  BY <1>1, <1>3 DEF Sent
<1>7. ASSUME NEW q \in ToSet(filters) PROVE Heard(q)' = Heard(q)
  <2>1. q \in Proxies
    BY DEF SignalsInv, FiltersInv, ToSet
  <2>2. For(q, received) = For(q, <<h>>) \o For(q, t)
    <3>1. Only(<<h>> \o t, Mine(q, U)) = Only(<<h>>, Mine(q, U)) \o Only(t, Mine(q, U))
      BY <1>3, OnlyConcat, Zenon
    <3>. QED  BY <1>3, <3>1, ForIsOnly
  <2>3. For(q, <<h>>) = IF h.type = "signal" /\ Matches(q, h) THEN <<h>> ELSE << >>
    <3>1. For(q, <<h>>) = Only(<<h>>, Mine(q, U))
      BY <1>3, ForIsOnly
    <3>2. h \in Mine(q, U) <=> h.type = "signal" /\ Matches(q, h)
      BY <1>3 DEF Mine
    <3>. QED  BY <3>1, <3>2, OnlyOne
  <2>4. Now(q) = << >> /\ Now(q)' = For(q, <<h>>)
    <3>1. Now(q) = << >>
      BY <1>1 DEF Now
    <3>2. CASE h.type = "signal"
      <4>1. filters # << >>
        BY DEF ToSet
      <4>2. walk' # Nothing /\ walk'.rest = filters /\ walk'.msg = h
        BY <1>1, <3>2, <4>1 DEF Nothing
      <4>. QED  BY <2>3, <3>1, <3>2, <4>2 DEF Now, Matches
    <3>3. CASE h.type # "signal"
      BY <1>1, <2>3, <3>1, <3>3 DEF Now
    <3>. QED  BY <3>1, <3>2, <3>3
  <2>5. Heard(q) = (seen[q] \o Now(q)) \o For(q, received)
    BY DEF Heard, Now
  <2>6. Heard(q)' = (seen[q] \o Now(q)') \o For(q, t)
    BY <1>1 DEF Heard, Now, Matches, For, At
  <2>7. seen[q] \in Seq(U) /\ For(q, <<h>>) \in Seq(U) /\ For(q, t) \in Seq(U)
    BY <1>2, <1>3, <2>1, ForFacts DEF ListsOf
  <2>8. PICK a, b, c : a = seen[q] /\ b = For(q, <<h>>) /\ c = For(q, t)
    OBVIOUS
  <2>9. a \in Seq(U) /\ b \in Seq(U) /\ c \in Seq(U) /\ a \o << >> = a
    BY <2>7, <2>8
  <2>10. a \o (b \o c) = (a \o b) \o c
    BY ONLY <2>9, Regrouped
  <2>. QED  BY <2>2, <2>4, <2>5, <2>6, <2>8, <2>9, <2>10, Zenon
<1>8. ReachInv'
  BY <1>1, <1>7, SameHeard
<1>9. FreshInv'
  BY <1>1, <1>6, NothingSent
<1>. QED  BY <1>4, <1>5, <1>8, <1>9 DEF SignalsInv

\* The next filter sees the signal it is called with, if it is for it.
LEMMA CallFilterReaches ==
  ASSUME SignalsInv, CallInv, CallFilter
  PROVE  SignalsInv'
<1>. DEFINE q0 == Head(walk.rest)
            t == Tail(walk.rest)
<1>1. /\ UNCHANGED <<filters, rules, received, expected, inbox, count>>
      /\ walk # Nothing /\ walk.rest # << >> /\ walk' = [walk EXCEPT !.rest = t]
      /\ IF Matches(q0, walk.msg)
         THEN seen' = [seen EXCEPT ![q0] = Append(@, walk.msg)] ELSE seen' = seen
  BY DEF CallFilter, After, proxyVars, callVars
<1>2. PICK U : ListsOf(U)
  BY DEF SignalsInv, Lists
<1>3. PICK m : m = walk.msg
  OBVIOUS
<1>4. m \in U /\ m \in Sent
  BY <1>1, <1>2, <1>3 DEF ListsOf, Sent
<1>5. /\ q0 \in Proxies /\ t \in Seq(Proxies) /\ NoneTwice(t)
      /\ ToSet(walk.rest) = {q0} \cup ToSet(t) /\ q0 \notin ToSet(t)
  BY <1>1, TailOfList DEF SignalsInv, FiltersInv
<1>. HIDE DEF q0, t
<1>6. walk' = [msg |-> m, rest |-> t]
  BY <1>1, <1>3 DEF SignalsInv, FiltersInv
<1>7. walk'.msg = m /\ walk'.rest = t
  BY <1>6
<1>8. /\ seen' \in [Proxies -> Seq(U)]
      /\ \A q \in Proxies : seen'[q] = IF q = q0 /\ Matches(q, m) THEN Append(seen[q], m) ELSE seen[q]
  <2>1. seen \in [Proxies -> Seq(U)]
    BY <1>2 DEF ListsOf
  <2>2. Append(seen[q0], m) \in Seq(U)
    BY <1>4, <1>5, <2>1
  <2>. QED  BY <1>1, <1>3, <1>5, <2>1, <2>2
<1>9. Lists'
  <2>1. ListsOf(U)'
    BY <1>1, <1>2, <1>4, <1>7, <1>8 DEF ListsOf
  <2>. QED  BY <2>1 DEF Lists
<1>10. FiltersInv' /\ RulesInv'
  BY <1>1, <1>5, <1>6, <1>7 DEF SignalsInv, FiltersInv, RulesInv, Holders
<1>11. \A x \in Sent' : x \in Sent
  <2>1. ASSUME NEW q \in Proxies PROVE \A x \in ToSet(seen'[q]) : x = m \/ x \in ToSet(seen[q])
    <3>1. seen[q] \in Seq(U)
      BY <1>2 DEF ListsOf
    <3>2. ToSet(Append(seen[q], m)) = ToSet(seen[q]) \cup {m}
      BY <1>4, <3>1, AppendFacts
    <3>. QED  BY <1>8, <3>2
  <2>2. received' = received /\ walk'.msg = m
    BY <1>1, <1>7
  <2>. QED  BY <1>4, <2>1, <2>2 DEF Sent
<1>12. ASSUME NEW q \in ToSet(filters) PROVE Heard(q)' = Heard(q)
  <2>1. q \in Proxies
    BY DEF SignalsInv, FiltersInv, ToSet
  <2>2. Now(q) = IF (q = q0 \/ q \in ToSet(t)) /\ Matches(q, m) THEN <<m>> ELSE << >>
    BY <1>1, <1>3, <1>5 DEF Now
  <2>3. Now(q)' = IF q \in ToSet(t) /\ Matches(q, m) THEN <<m>> ELSE << >>
    <3>1. q \in ToSet(t) => walk' # Nothing
      BY <1>7 DEF Nothing, ToSet
    <3>2. Matches(q, walk.msg)' <=> Matches(q, m)
      BY <1>7 DEF Matches
    <3>. QED  BY <1>7, <3>1, <3>2 DEF Now
  <2>4. seen'[q] \o Now(q)' = seen[q] \o Now(q)
    <3>1. seen[q] \in Seq(U)
      BY <1>2, <2>1 DEF ListsOf
    <3>2. CASE q = q0 /\ Matches(q, m)
      <4>1. seen'[q] = Append(seen[q], m) /\ Now(q) = <<m>> /\ Now(q)' = << >>
        BY <1>5, <1>8, <2>1, <2>2, <2>3, <3>2
      <4>2. Append(seen[q], m) \o << >> = seen[q] \o <<m>>
        BY <1>4, <3>1
      <4>. QED  BY <4>1, <4>2
    <3>3. CASE ~(q = q0 /\ Matches(q, m))
      <4>1. seen'[q] = seen[q] /\ Now(q)' = Now(q)
        BY <1>8, <2>1, <2>2, <2>3, <3>3
      <4>. QED  BY <4>1
    <3>. QED  BY <3>2, <3>3
  <2>5. Heard(q) = (seen[q] \o Now(q)) \o For(q, received)
    BY DEF Heard, Now
  <2>6. Heard(q)' = (seen'[q] \o Now(q)') \o For(q, received)
    BY <1>1 DEF Heard, Now, Matches, For, At
  <2>. QED  BY <2>4, <2>5, <2>6
<1>13. ReachInv'
  BY <1>1, <1>12, SameHeard
<1>14. FreshInv'
  BY <1>1, <1>11, NothingSent
<1>. QED  BY <1>9, <1>10, <1>13, <1>14 DEF SignalsInv

\* The last filter has been called: the signal is on its way to no one.
LEMMA FiltersDoneReaches ==
  ASSUME SignalsInv, CallInv, FiltersDone
  PROVE  SignalsInv'
<1>1. /\ UNCHANGED <<filters, rules, received, expected, seen, inbox, count>>
      /\ walk.rest = << >> /\ walk' = Nothing
  BY DEF FiltersDone, proxyVars, callVars
<1>2. Lists' /\ RulesInv'
  BY <1>1 DEF SignalsInv, Lists, ListsOf, RulesInv, Holders
<1>3. FiltersInv'
  <2>1. ToSet(<< >>) = {} /\ << >> \in Seq(Proxies) /\ NoneTwice(<< >>)
    BY DEF ToSet, NoneTwice
  <2>. QED  BY <1>1, <2>1 DEF SignalsInv, FiltersInv, Nothing
<1>4. \A m \in Sent' : m \in Sent
  BY <1>1 DEF Sent
<1>5. ASSUME NEW q \in ToSet(filters) PROVE Heard(q)' = Heard(q)
  <2>1. Now(q) = << >> /\ Now(q)' = << >>
    BY <1>1 DEF Now, ToSet
  <2>2. Heard(q) = (seen[q] \o Now(q)) \o For(q, received)
    BY DEF Heard, Now
  <2>3. Heard(q)' = (seen[q] \o Now(q)') \o For(q, received)
    BY <1>1 DEF Heard, Now, Matches, For, At
  <2>. QED  BY <2>1, <2>2, <2>3
<1>6. ReachInv'
  BY <1>1, <1>5, SameHeard
<1>7. FreshInv'
  BY <1>1, <1>4, NothingSent
<1>. QED  BY <1>2, <1>3, <1>6, <1>7 DEF SignalsInv

-----------------------------------------------------------------------------
(* Proxies come and go.                                                    *)

\* The client's connection has finitely many filters.
LEMMA FinitelyMany == \A P : \A s \in Seq(P) : IsFiniteSet(ToSet(s))
<1>1. ASSUME NEW P, NEW s \in Seq(P) PROVE IsFiniteSet(ToSet(s))
  <2>. DEFINE good == {r \in Seq(P) : IsFiniteSet(ToSet(r))}
  <2>1. << >> \in good
    <3>1. ToSet(<< >>) = {} /\ << >> \in Seq(P)
      BY DEF ToSet
    <3>. QED  BY <3>1, FS_EmptySet
  <2>2. ASSUME NEW r \in Seq(P), NEW x \in P, r \in good PROVE Append(r, x) \in good
    <3>1. Append(r, x) \in Seq(P) /\ ToSet(Append(r, x)) = ToSet(r) \cup {x}
      BY AppendFacts
    <3>. QED  BY <2>2, <3>1, FS_AddElement
  <2>. HIDE DEF good
  <2>3. s \in good
    BY <2>1, <2>2, ByAppending
  <2>. QED  BY <2>3 DEF good
<1>. QED  BY <1>1

\* What the bus counts for a rule is a number of proxies.
LEMMA HoldersFinite ==
  ASSUME FiltersInv
  PROVE  \A r : IsFiniteSet(Holders(r)) /\ Cardinality(Holders(r)) \in Nat
<1>1. ASSUME NEW r PROVE IsFiniteSet(Holders(r)) /\ Cardinality(Holders(r)) \in Nat
  <2>1. IsFiniteSet(ToSet(filters))
    BY FinitelyMany DEF FiltersInv
  <2>2. Holders(r) \in SUBSET ToSet(filters)
    BY DEF Holders
  <2>3. IsFiniteSet(Holders(r))
    BY <2>1, <2>2, FS_Subset
  <2>. QED  BY <2>3, FS_CardinalityType
<1>. QED  BY <1>1

\* The bus adds one to the count of each rule of the proxy.
LEMMA RulesAdded ==
  ASSUME FiltersInv, RulesInv, NEW q, q \notin ToSet(filters),
         ToSet(filters') = ToSet(filters) \cup {q},
         rules' = rules (+) SetToBag(RulesOf(q))
  PROVE  RulesInv'
<1>1. \A r : /\ Holders(r)' = IF r \in RulesOf(q) THEN Holders(r) \cup {q} ELSE Holders(r)
             /\ q \notin Holders(r)
  BY DEF Holders, RulesOf, Rule
<1>2. rules' = [r \in DOMAIN rules \cup RulesOf(q) |->
                  (IF r \in DOMAIN rules THEN rules[r] ELSE 0)
                    + (IF r \in RulesOf(q) THEN 1 ELSE 0)]
  <2>1. DOMAIN SetToBag(RulesOf(q)) = RulesOf(q)
    BY DEF SetToBag
  <2>2. \A r \in RulesOf(q) : SetToBag(RulesOf(q))[r] = 1
    BY DEF SetToBag
  <2>. QED  BY <2>1, <2>2 DEF (+)
<1>3. \A r : r \in DOMAIN rules' <=> Holders(r)' # {}
  BY <1>1, <1>2 DEF RulesInv
<1>4. ASSUME NEW r \in DOMAIN rules' PROVE rules'[r] = Cardinality(Holders(r)')
  <2>1. IsFiniteSet(Holders(r)) /\ Cardinality(Holders(r)) \in Nat
    BY HoldersFinite
  <2>2. (IF r \in DOMAIN rules THEN rules[r] ELSE 0) = Cardinality(Holders(r))
    <3>1. CASE r \in DOMAIN rules
      BY <3>1 DEF RulesInv
    <3>2. CASE r \notin DOMAIN rules
      <4>1. Holders(r) = {}
        BY <3>2 DEF RulesInv
      <4>. QED  BY <3>2, <4>1, FS_EmptySet
    <3>. QED  BY <3>1, <3>2
  <2>3. Cardinality(Holders(r) \cup {q}) = Cardinality(Holders(r)) + 1
    BY <1>1, <2>1, FS_AddElement
  <2>4. rules'[r] = (IF r \in DOMAIN rules THEN rules[r] ELSE 0) + (IF r \in RulesOf(q) THEN 1 ELSE 0)
    BY <1>2
  <2>5. PICK H : H = Holders(r)'
    OBVIOUS
  <2>6. H = IF r \in RulesOf(q) THEN Holders(r) \cup {q} ELSE Holders(r)
    BY <1>1, <2>5
  <2>7. rules'[r] = Cardinality(H)
    BY <2>1, <2>2, <2>3, <2>4, <2>6
  <2>. QED  BY <2>5, <2>7
<1>5. rules' = [r \in DOMAIN rules' |-> rules'[r]]
  BY <1>2
<1>. QED  BY <1>3, <1>4, <1>5 DEF RulesInv

\* The bus takes one from the count of each rule of the proxy, and keeps the
\* rules other proxies need.
LEMMA RulesRemoved ==
  ASSUME FiltersInv, RulesInv, NEW q, q \in ToSet(filters),
         ToSet(filters') = ToSet(filters) \ {q},
         rules' = rules (-) SetToBag(RulesOf(q))
  PROVE  RulesInv'
<1>1. \A r : /\ Holders(r)' = IF r \in RulesOf(q) THEN Holders(r) \ {q} ELSE Holders(r)
             /\ q \in Holders(r) <=> r \in RulesOf(q)
  BY DEF Holders, RulesOf, Rule
<1>. DEFINE left(r) == IF r \in RulesOf(q) THEN rules[r] - 1 ELSE rules[r]
<1>2. rules' = [r \in {d \in DOMAIN rules : left(d) > 0} |-> left(r)]
  <2>1. DOMAIN SetToBag(RulesOf(q)) = RulesOf(q)
    BY DEF SetToBag
  <2>2. \A r \in RulesOf(q) : SetToBag(RulesOf(q))[r] = 1
    BY DEF SetToBag
  <2>. QED  BY <2>1, <2>2 DEF (-)
<1>3. ASSUME NEW r \in DOMAIN rules
      PROVE  left(r) = Cardinality(Holders(r)') /\ (left(r) > 0 <=> Holders(r)' # {})
  <2>1. IsFiniteSet(Holders(r)) /\ Cardinality(Holders(r)) \in Nat /\ rules[r] = Cardinality(Holders(r))
    BY HoldersFinite DEF RulesInv
  <2>2. IsFiniteSet(Holders(r) \ {q})
        /\ (q \in Holders(r) => Cardinality(Holders(r) \ {q}) = Cardinality(Holders(r)) - 1)
    BY <2>1, FS_RemoveElement
  <2>3. PICK H : H = Holders(r)'
    OBVIOUS
  <2>4. IsFiniteSet(H) /\ Cardinality(H) = left(r)
    BY <1>1, <2>1, <2>2, <2>3
  <2>5. Cardinality(H) \in Nat /\ (Cardinality(H) = 0 <=> H = {})
    BY <2>4, FS_CardinalityType, FS_EmptySet
  <2>6. left(r) > 0 <=> H # {}
    <3>. HIDE DEF left
    <3>. QED  BY <2>4, <2>5
  <2>. QED  BY <2>3, <2>4, <2>6
<1>. HIDE DEF left
<1>4. \A r : r \in DOMAIN rules' <=> Holders(r)' # {}
  <2>1. \A r : Holders(r)' # {} => r \in DOMAIN rules
    BY <1>1 DEF RulesInv
  <2>2. DOMAIN rules' = {d \in DOMAIN rules : left(d) > 0}
    BY <1>2
  <2>. QED  BY <1>3, <2>1, <2>2
<1>5. \A r \in DOMAIN rules' : rules'[r] = Cardinality(Holders(r)')
  BY <1>2, <1>3
<1>6. rules' = [r \in DOMAIN rules' |-> rules'[r]]
  BY <1>2
<1>. QED  BY <1>4, <1>5, <1>6 DEF RulesInv

\* A new proxy is to see no signal that was emitted before.
LEMMA NewProxyReaches ==
  ASSUME SignalsInv, CallInv, NEW q \in Proxies, NewProxy(q)
  PROVE  SignalsInv'
<1>1. /\ UNCHANGED <<walk, received, expected, seen, inbox, count>>
      /\ q \notin ToSet(filters) /\ filters' = Append(filters, q)
      /\ rules' = rules (+) SetToBag(RulesOf(q))
  BY DEF NewProxy, RulesOf, clientVars, callVars
<1>2. PICK U : ListsOf(U)
  BY DEF SignalsInv, Lists
<1>3. /\ filters \in Seq(Proxies) /\ filters' \in Seq(Proxies)
      /\ Len(filters) \in Nat /\ Len(filters') = Len(filters) + 1
      /\ \A i \in 1..Len(filters) : filters'[i] = filters[i]
      /\ filters'[Len(filters) + 1] = q
      /\ ToSet(filters') = ToSet(filters) \cup {q}
  BY <1>1, AppendFacts DEF SignalsInv, FiltersInv
<1>4. NoneTwice(filters')
  <2>. SUFFICES ASSUME NEW i \in 1..Len(filters'), NEW j \in 1..Len(filters'),
                       filters'[i] = filters'[j]
                PROVE  i = j
    BY DEF NoneTwice
  <2>1. \A k \in 1..Len(filters) : filters[k] \in ToSet(filters)
    BY <1>3 DEF ToSet
  <2>. QED  BY <1>1, <1>3, <2>1 DEF SignalsInv, FiltersInv, NoneTwice
<1>5. FiltersInv'
  BY <1>1, <1>3, <1>4 DEF SignalsInv, FiltersInv
<1>6. RulesInv'
  BY <1>1, <1>3, RulesAdded DEF SignalsInv
<1>7. Lists'
  BY <1>1 DEF SignalsInv, Lists, ListsOf
<1>8. FreshInv'
  <2>1. \A m \in Sent' : m \in Sent
    BY <1>1 DEF Sent
  <2>. QED  BY <1>1, <2>1, NothingSent
<1>9. \A p : Heard(p)' = Heard(p)
  BY <1>1 DEF Heard, For, At, Matches
<1>10. ReachInv'
  <2>1. ASSUME NEW p \in ToSet(filters) PROVE Reached(p)'
    <3>1. Only(Heard(p), ToSet(expected[p])) = expected[p] /\ Heard(p)' = Heard(p)
      BY <1>9 DEF SignalsInv, ReachInv, Reached
    <3>2. Only(Heard(p)', ToSet(expected'[p])) = expected'[p]
      BY <1>1, <3>1
    <3>. QED  BY <3>2 DEF Reached
  <2>2. Reached(q)'
    <3>1. expected'[q] = << >> /\ ToSet(expected'[q]) = {}
      BY <1>1 DEF SignalsInv, ReachInv, ToSet
    <3>2. Heard(q)' \in Seq(U)
      BY <1>2, <1>9, HeardFacts
    <3>3. Only(Heard(q)', ToSet(expected'[q])) = expected'[q]
      BY <3>1, <3>2, OnlyFacts
    <3>. QED  BY <3>3 DEF Reached
  <2>. QED  BY <1>1, <1>3, <2>1, <2>2 DEF SignalsInv, ReachInv
<1>. QED  BY <1>5, <1>6, <1>7, <1>8, <1>10 DEF SignalsInv

\* The filters that are still to be called go on without the proxy.
LEMMA DeleteProxyReaches ==
  ASSUME SignalsInv, CallInv, NEW q \in Proxies, DeleteProxy(q)
  PROVE  SignalsInv'
<1>1. /\ UNCHANGED <<received, inbox, count>>
      /\ q \in ToSet(filters) /\ filters' = RemoveFirst(filters, q)
      /\ walk' = IF walk = Nothing THEN walk ELSE [walk EXCEPT !.rest = RemoveFirst(@, q)]
      /\ rules' = rules (-) SetToBag(RulesOf(q))
      /\ expected' = [expected EXCEPT ![q] = << >>]
      /\ seen' = [seen EXCEPT ![q] = << >>]
  BY DEF DeleteProxy, RemoveRules, RulesOf, callVars
<1>2. PICK U : ListsOf(U)
  BY DEF SignalsInv, Lists
<1>3. /\ filters' \in Seq(Proxies) /\ NoneTwice(filters')
      /\ ToSet(filters') = ToSet(filters) \ {q}
  BY <1>1, RemoveFirstFacts DEF SignalsInv, FiltersInv
<1>4. PICK m, r : /\ walk = [msg |-> m, rest |-> r] /\ walk.msg = m /\ walk.rest = r
                  /\ r \in Seq(Proxies) /\ NoneTwice(r) /\ ToSet(r) \subseteq ToSet(filters)
  BY DEF SignalsInv, FiltersInv
<1>5. PICK r2 : r2 = RemoveFirst(r, q)
  OBVIOUS
<1>6. r2 \in Seq(Proxies) /\ NoneTwice(r2) /\ ToSet(r2) = ToSet(r) \ {q}
  BY <1>4, <1>5, RemoveFirstFacts
<1>7. /\ walk = Nothing => r = << >> /\ r2 = << >>
      /\ walk' = [msg |-> m, rest |-> r2] /\ walk'.msg = m /\ walk'.rest = r2
  <2>1. walk = Nothing => r = << >> /\ r2 = << >>
    BY <1>4, <1>5 DEF Nothing, RemoveFirst
  <2>2. walk' = [msg |-> m, rest |-> r2]
    BY <1>1, <1>4, <1>5, <2>1
  <2>. QED  BY <2>1, <2>2
<1>8. FiltersInv'
  BY <1>3, <1>4, <1>6, <1>7 DEF FiltersInv
<1>9. RulesInv'
  BY <1>1, <1>3, RulesRemoved DEF SignalsInv
<1>10. Lists'
  <2>1. << >> \in Seq(U)
    OBVIOUS
  <2>2. walk' # Nothing => walk # Nothing
    BY <1>1
  <2>3. ListsOf(U)'
    BY <1>1, <1>2, <1>4, <1>7, <2>1, <2>2 DEF ListsOf
  <2>. QED  BY <2>3 DEF Lists
<1>11. \A p \in Proxies : seen'[p] = IF p = q THEN << >> ELSE seen[p]
  BY <1>1, <1>2 DEF ListsOf
<1>12. FreshInv'
  <2>1. walk' # Nothing => walk # Nothing /\ walk'.msg = walk.msg
    BY <1>1, <1>4, <1>7
  <2>2. \A p \in Proxies : \A x \in ToSet(seen'[p]) : x \in ToSet(seen[p])
    BY <1>11 DEF ToSet
  <2>3. \A x \in Sent' : x \in Sent
    BY <1>1, <2>1, <2>2 DEF Sent
  <2>. QED  BY <1>1, <2>3, NothingSent
<1>13. ASSUME NEW p \in ToSet(filters'), p \in Proxies, p # q PROVE Reached(p)'
  <2>1. Now(p) = IF p \in ToSet(r) /\ Matches(p, m) THEN <<m>> ELSE << >>
    BY <1>4, <1>7 DEF Now, ToSet
  <2>2. Now(p)' = IF p \in ToSet(r2) /\ Matches(p, m) THEN <<m>> ELSE << >>
    <3>1. p \in ToSet(r2) => walk' # Nothing
      BY <1>7 DEF Nothing, ToSet
    <3>2. Matches(p, walk.msg)' <=> Matches(p, m)
      BY <1>7 DEF Matches
    <3>. QED  BY <1>7, <3>1, <3>2 DEF Now
  <2>3. Now(p)' = Now(p) /\ seen'[p] = seen[p] /\ expected'[p] = expected[p]
    BY <1>1, <1>2, <1>6, <1>11, <1>13, <2>1, <2>2 DEF ListsOf
  <2>4. Heard(p) = (seen[p] \o Now(p)) \o For(p, received)
    BY DEF Heard, Now
  <2>5. Heard(p)' = (seen'[p] \o Now(p)') \o For(p, received)
    BY <1>1 DEF Heard, Now, Matches, For, At
  <2>6. Only(Heard(p), ToSet(expected[p])) = expected[p]
    BY <1>3, <1>13 DEF SignalsInv, ReachInv, Reached
  <2>7. Only(Heard(p)', ToSet(expected'[p])) = expected'[p]
    BY <2>3, <2>4, <2>5, <2>6
  <2>. QED  BY <2>7 DEF Reached
<1>14. ReachInv'
  <2>1. \A p \in ToSet(filters') : p \in Proxies
    BY <1>3 DEF SignalsInv, FiltersInv, ToSet
  <2>2. \A p \in Proxies : expected'[p] = IF p = q THEN << >> ELSE expected[p]
    BY <1>1, <1>2 DEF ListsOf
  <2>. QED  BY <1>3, <1>13, <2>1, <2>2 DEF SignalsInv, ReachInv
<1>. QED  BY <1>8, <1>9, <1>10, <1>12, <1>14 DEF SignalsInv

\* A call that is made has a serial no signal has.
LEMMA SendReaches ==
  ASSUME SignalsInv, CallInv, NEW q \in Proxies, NEW i \in InterfacesOf[q],
         NEW request \in Requests, Send(Addressed(q, i, request))
  PROVE  SignalsInv'
<1>1. PICK n : n = count + 1
  OBVIOUS
<1>2. /\ n \in Nat /\ n \notin 1..count /\ count' = n /\ count \in Nat /\ count <= n
      /\ UNCHANGED <<filters, rules, walk, seen, received, expected>>
  BY <1>1 DEF Send, CallInv, CallTypes, proxyVars
<1>3. PICK call : call = [Addressed(q, i, request) EXCEPT !.serial = n]
  OBVIOUS
<1>4. PICK c : c = Addressed(q, i, request).destination
  OBVIOUS
<1>5. call \in Calls /\ call.serial = n /\ c \in Connections
  BY <1>2, <1>3, <1>4, SentCalls
<1>6. inbox' = [inbox EXCEPT ![c] = Append(@, call)]
  BY <1>2, <1>3, <1>4 DEF Send
<1>7. ~Queued(n)
  BY <1>2 DEF CallInv, CallTypes, OnePlace
<1>8. \A x : Queued(x)' <=> Queued(x) \/ x = n
  BY <1>5, <1>6, <1>7, PutLast DEF CallInv
<1>9. \A x \in 1..count : Queued(x)' => Queued(x)
  BY <1>2, <1>8
<1>. QED  BY <1>2, <1>9, SignalsUntouched

-----------------------------------------------------------------------------
\* Every step keeps the invariant.
LEMMA SignalSteps ==
  ASSUME SignalsInv, CallInv, [Next]_vars
  PROVE  SignalsInv'
<1>1. count \in Nat
  BY DEF CallInv, CallTypes
<1>2. ASSUME UNCHANGED <<received, expected, filters, rules, walk, seen, inbox, count>>
      PROVE  SignalsInv'
  <2>1. \A n : Queued(n)' => Queued(n)
    BY <1>2 DEF Queued
  <2>. QED  BY <1>1, <1>2, <2>1, SignalsUntouched
<1>3. CASE ServerStep
  <2>1. ASSUME NEW o \in Objects, \E c \in Connections, p \in Paths : Create(o, c, p)
        PROVE  SignalsInv'
    BY <1>2, <2>1 DEF Create, callVars, proxyVars, clientVars
  <2>2. ASSUME NEW o \in Objects, Destroy(o) PROVE SignalsInv'
    BY <1>2, <2>2 DEF Destroy, proxyVars, clientVars
  <2>3. ASSUME NEW o \in Objects, \E new \in NewValues : Assign(o, new) PROVE SignalsInv'
    BY <1>2, <2>3 DEF Assign, callVars, proxyVars, clientVars
  <2>4. ASSUME NEW o \in Objects, \E s \in SignalsOf : EmitSignal(o, s) PROVE SignalsInv'
    BY <2>4, EmitReaches
  <2>5. ASSUME NEW o \in Objects, \E tag \in Tags : ReturnNow(o, tag) PROVE SignalsInv'
    BY <2>5, ReturnReaches
  <2>6. ASSUME NEW c \in Connections, Dispatch(c) PROVE SignalsInv'
    BY <2>6, DispatchReaches
  <2>. QED  BY <1>3, <2>1, <2>2, <2>3, <2>4, <2>5, <2>6 DEF ServerStep
<1>4. CASE ClientStep
  <2>1. ASSUME NEW q \in Proxies, NewProxy(q) \/ DeleteProxy(q) PROVE SignalsInv'
    BY <2>1, NewProxyReaches, DeleteProxyReaches
  <2>2. ASSUME NEW q \in Proxies, NEW i \in InterfacesOf[q], NEW request \in Requests,
               invoke_method(q, i, request) \/ invoke_method_noreply(q, i, request)
        PROVE  SignalsInv'
    BY <2>2, SendReaches DEF invoke_method, invoke_method_noreply
  <2>3. CASE TimeOut
    BY <1>2, <2>3 DEF TimeOut, callVars, proxyVars
  <2>. QED  BY <1>4, <2>1, <2>2, <2>3, GetAnswerReaches, ClientDispatchReaches,
               CallFilterReaches, FiltersDoneReaches DEF ClientStep
<1>5. CASE UNCHANGED vars
  BY <1>2, <1>5 DEF vars, callVars, proxyVars, clientVars
<1>. QED  BY <1>3, <1>4, <1>5 DEF Next

\* However many proxies come and go and however many calls are made: a proxy
\* sees each signal of its path and interfaces once and in the order they
\* were emitted, and none is lost while another filter is removed or another
\* proxy for the same signals goes (object.cpp:331-345, 380-401).
THEOREM SignalsReachTheirProxies == Spec => []SignalsReachProxies
<1>1. Init => SignalsInv
  <2>. SUFFICES ASSUME Init PROVE SignalsInv
    OBVIOUS
  <2>1. /\ filters = << >> /\ rules = EmptyBag /\ walk = Nothing /\ received = << >>
        /\ expected = [q \in Proxies |-> << >>] /\ seen = [q \in Proxies |-> << >>]
    BY DEF Init
  <2>2. ToSet(<< >>) = {} /\ << >> \in Seq(Proxies) /\ NoneTwice(<< >>)
    BY DEF ToSet, NoneTwice
  <2>3. Lists
    <3>1. ListsOf({})
      BY <2>1 DEF ListsOf
    <3>. QED  BY <3>1 DEF Lists
  <2>4. FiltersInv
    BY <2>1, <2>2 DEF FiltersInv, Nothing
  <2>5. RulesInv
    <3>1. DOMAIN rules = {} /\ rules = [r \in DOMAIN rules |-> rules[r]]
      BY <2>1 DEF EmptyBag, SetToBag
    <3>. QED  BY <2>1, <2>2, <3>1 DEF RulesInv, Holders
  <2>6. FreshInv
    BY <2>1, <2>2 DEF FreshInv, Sent
  <2>7. ReachInv
    BY <2>1, <2>2 DEF ReachInv
  <2>. QED  BY <2>3, <2>4, <2>5, <2>6, <2>7 DEF SignalsInv
<1>2. SignalsInv => SignalsReachProxies
  BY DEF SignalsInv, ReachInv, Reached, SignalsReachProxies, Only
<1>3. CallInv /\ SignalsInv /\ [Next]_vars => SignalsInv'
  BY SignalSteps
<1>. QED  BY <1>1, <1>2, <1>3, CallInvHolds, PTL DEF Spec
=============================================================================
