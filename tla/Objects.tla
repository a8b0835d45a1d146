------------------------------- MODULE Objects -------------------------------
(***************************************************************************)
(* A server with objects on its connections, and a client with proxies for *)
(* them (src/src/object.cpp, connection.cpp): objects come and go, answer  *)
(* calls at once or later, and emit signals; proxies come and go, their    *)
(* filters and match rules with them; the client makes calls that block it *)
(* until the answer or a timeout, also from within a handler of a signal.  *)
(*                                                                         *)
(* libdbus keeps the messages and the table of the objects of a            *)
(* connection, the bus the match rules of the client; both are external.   *)
(***************************************************************************)
EXTENDS Interfaces, Bags

CONSTANTS
  Connections,    \* connections of the server
  Paths,          \* object paths
  Objects,        \* ObjectAdaptors of the server
  Proxies,        \* ObjectProxys of the client
  PathOf,         \* the path a proxy is made for,
  ServiceOf,      \* the connection that has the name it calls,
  InterfacesOf,   \* and the interfaces it has
  Requests,       \* what the client calls: [interface, member, body]
  InitialValues,  \* the values an object gives its properties
  NewValues,      \* values it gives them later: [interface, property, value]
  Tags,           \* Tags of calls that are answered later
  SignalsOf,      \* signals objects emit: [interface, member]
  MaxMessages     \* bound: calls and signals together

ASSUME MaxMessagesAssumption == MaxMessages \in Nat
ASSUME NoneAssumption ==
  /\ None \notin Connections \cup Objects \cup Proxies \cup Tags
  /\ None \notin Connections \X Paths
\* The generated constructor binds every property of the table, and a
\* PropertyAdaptor<T> gives its property no value of another type.
ASSUME ValuesAssumption ==
  /\ DOMAIN InitialValues = DOMAIN PropertyTable
  /\ \A i \in DOMAIN PropertyTable :
       /\ DOMAIN InitialValues[i] = DOMAIN PropertyTable[i]
       /\ \A p \in DOMAIN PropertyTable[i] : InitialValues[i][p].sig = PropertyTable[i][p].sig
  /\ \A v \in NewValues :
       /\ v.interface \in DOMAIN PropertyTable
       /\ v.property \in DOMAIN PropertyTable[v.interface]
       /\ v.value.sig = PropertyTable[v.interface][v.property].sig
ASSUME AddressesAssumption ==
  PathOf \in [Proxies -> Paths] /\ ServiceOf \in [Proxies -> Connections]

VARIABLES
  place,          \* of each object: <<connection, path>>, or None
  registered,     \* the object paths of each connection, in libdbus
  table,          \* _adaptor_table
  shared,         \* paths objects of two connections have had at once, until
                  \* no object has them any more (history)
  continuations,  \* _continuations of each object: the call of each Tag
  values,         \* the values of the properties of each object
  announced,      \* the last change signalled of each property name (history)
  inbox,          \* messages each connection has received
  answers,        \* answers sent to each call
  abandoned,      \* calls whose object was destroyed first (history)
  filters,        \* the filters of the client's connection: live proxies
  rules,          \* the match rules of the client, at the bus
  waiting,        \* the serial of the call the client waits for, or 0
  walk,           \* the signal its filters are called with, and the rest of them
  handler,        \* the proxy whose handler runs, or None
  received,       \* messages the client has received
  expected, seen, \* signals each proxy is to see, and has seen (history)
  count           \* messages made so far

serverVars == <<place, registered, table, shared, continuations, values, announced>>
callVars   == <<inbox, answers, abandoned>>
proxyVars  == <<filters, rules>>
clientVars == <<waiting, walk, handler, seen>>
vars == <<serverVars, callVars, proxyVars, clientVars, received, expected, count>>

Alive == {o \in Objects : place[o] # None}
Listed == {p \in Paths : table[p] # None}
Nothing == [msg |-> None, rest |-> << >>]   \* no signal is dispatched

Init ==
  /\ place = [o \in Objects |-> None]
  /\ registered = [c \in Connections |-> [p \in Paths |-> None]]
  /\ table = [p \in Paths |-> None]
  /\ shared = {}
  /\ continuations = [o \in Objects |-> << >>]
  /\ values = [o \in Objects |-> InitialValues]
  /\ announced = [o \in Objects |-> << >>]
  /\ inbox = [c \in Connections |-> << >>]
  /\ answers = << >> /\ abandoned = {}
  /\ filters = << >> /\ rules = EmptyBag
  /\ waiting = 0 /\ walk = Nothing /\ handler = None
  /\ received = << >>
  /\ expected = [q \in Proxies |-> << >>] /\ seen = [q \in Proxies |-> << >>]
  /\ count = 0

-----------------------------------------------------------------------------
(* The bus and libdbus. *)

\* The rule a proxy registers for interface i.
Rule(q, i) == [interface |-> i, path |-> PathOf[q]]

\* The messages at some positions of a list.
At(msgs, positions) ==
  LET f[n \in 0..Len(msgs)] ==
        IF n = 0 THEN << >>
        ELSE IF n \in positions THEN Append(f[n - 1], msgs[n]) ELSE f[n - 1]
  IN  f[Len(msgs)]

\* The bus passes a signal on if the client has a rule for it, once.
Routed(sig) ==
  BagIn([interface |-> sig.interface, path |-> sig.path], rules)
Passed(sigs) == At(sigs, {n \in DOMAIN sigs : Routed(sigs[n])})

Matches(q, sig) == sig.path = PathOf[q] /\ sig.interface \in InterfacesOf[q]
For(q, msgs) ==
  At(msgs, {n \in DOMAIN msgs : msgs[n].type = "signal" /\ Matches(q, msgs[n])})

\* Connection::send() of an answer, after signals the client gets.
SendAnswer(signals, msg) ==
  /\ answers' = [answers EXCEPT ![msg.reply_serial] = @ + 1]
  /\ received' = received \o signals \o <<msg>>

Expect(sigs) ==
  expected' = [q \in Proxies |->
                 IF q \in ToSet(filters)
                 THEN expected[q] \o For(q, sigs)
                 ELSE expected[q]]

-----------------------------------------------------------------------------
(* Objects. *)

\* The constructor: register_obj() throws if the path is taken.
register_obj(o, c, p) ==
  /\ registered' = [registered EXCEPT ![c][p] = o]
  /\ table' = [table EXCEPT ![p] = o]

Create(o, c, p) ==
  /\ place[o] = None
  /\ registered[c][p] = None
  /\ register_obj(o, c, p)
  /\ place' = [place EXCEPT ![o] = <<c, p>>]
  /\ shared' = shared \cup {r \in {p} : \E d \in Connections : registered[d][r] # None}
  /\ continuations' = [continuations EXCEPT ![o] = << >>]
  /\ values' = [values EXCEPT ![o] = InitialValues]
  /\ announced' = [announced EXCEPT ![o] = << >>]
  /\ UNCHANGED <<callVars, proxyVars, clientVars, received, expected, count>>

\* The destructor.  The entry of the table goes, whoever's it is; so do the
\* calls that were to be answered later, and its properties.
unregister_obj_KeepsTable(o) ==
  /\ table' = table
  /\ registered' = [registered EXCEPT ![place[o][1]][place[o][2]] = None]
unregister_obj(o) ==
  /\ table' = [table EXCEPT ![place[o][2]] = None]
  /\ registered' = [registered EXCEPT ![place[o][1]][place[o][2]] = None]

Destroy(o) ==
  /\ o \in Alive
  /\ unregister_obj(o)
  /\ place' = [place EXCEPT ![o] = None]
  /\ abandoned' = abandoned \cup {continuations[o][t].serial : t \in DOMAIN continuations[o]}
  /\ shared' = {p \in shared : \E c \in Connections : registered'[c][p] # None}
  /\ continuations' = [continuations EXCEPT ![o] = << >>]
  /\ values' = [values EXCEPT ![o] = InitialValues]
  /\ announced' = [announced EXCEPT ![o] = << >>]
  /\ UNCHANGED <<inbox, answers, proxyVars, clientVars, received, expected, count>>

\* PropertyAdaptor::operator=
Assign(o, new) ==
  /\ o \in Alive
  /\ values' = [values EXCEPT ![o][new.interface][new.property] = new.value]
  /\ announced' = [announced EXCEPT ![o] = << >>]
  /\ UNCHANGED <<place, registered, table, shared, continuations, callVars,
                 proxyVars, clientVars, received, expected, count>>

\* _emit_signal() sets the path, emit_signal() the interface.
EmittedBy(o, s, n) ==
  Fill([SignalMessage(None, s.member) EXCEPT !.path = place[o][2], !.serial = n],
       "interface", s.interface)

EmitSignal(o, s) ==
  /\ o \in Alive /\ count < MaxMessages
  /\ count' = count + 1
  /\ LET sig == EmittedBy(o, s, count') IN
       /\ Expect(<<sig>>)
       /\ received' = received \o Passed(<<sig>>)
  /\ UNCHANGED <<serverVars, callVars, proxyVars, clientVars>>

-----------------------------------------------------------------------------
(* Calls, in the server. *)

\* libdbus answers a call no object handles.
NotHandled(call) ==
  /\ SendAnswer(<< >>, ErrorMessage(call, "UnknownMethod"))
  /\ UNCHANGED <<continuations, values, announced, expected>>

\* A change that is announced is on its way before the answer.
Change(call) == [interface |-> call.body.interface, value |-> call.body.value]

AnswerNow(o, call, result) ==
  LET a    == Announced[call.body.property]
      sigs == IF result.changed THEN <<EmittedBy(o, a, call.serial)>> ELSE << >>
  IN  /\ values' = [values EXCEPT ![o] = result.values]
      /\ announced' = IF result.changed
                      THEN [announced EXCEPT ![o] = Put(@, call.body.property, Change(call))]
                      ELSE announced
      /\ Expect(sigs)
      /\ SendAnswer(Passed(sigs), result.answer)
      /\ UNCHANGED continuations

\* handle_message() with ReturnLaterError: the application has a new Tag.
AnswerLater(o, call, tag) ==
  /\ tag \notin DOMAIN continuations[o]
  /\ continuations' = [continuations EXCEPT ![o] = Put(@, tag, call)]
  /\ UNCHANGED <<values, announced, answers, received, expected>>

\* message_function_stub() and handle_message(): a call with no interface, or
\* with one the object has not, is left to libdbus.
Dispatch(c) ==
  /\ inbox[c] # << >>
  /\ LET call == Head(inbox[c])
         o    == registered[c][call.path]
     IN  IF o = None \/ ~find_interface(call.interface)
         THEN NotHandled(call)
         ELSE \E result \in dispatch_method(call, values[o], Listed) :
                IF result.answer # None THEN AnswerNow(o, call, result)
                ELSE \E tag \in Tags : AnswerLater(o, call, tag)
  /\ inbox' = [inbox EXCEPT ![c] = Tail(@)]
  /\ UNCHANGED <<place, registered, table, shared, abandoned, proxyVars,
                 clientVars, count>>

\* return_now() and return_error() of a Tag that is registered; with one that
\* is not they do nothing.
Forget_Not(o, tag) == UNCHANGED continuations
Forget(o, tag) ==
  continuations' = [continuations EXCEPT ![o] = Restrict(@, DOMAIN @ \ {tag})]

ReturnNow(o, tag) ==
  /\ o \in Alive /\ tag \in DOMAIN continuations[o]
  /\ \E msg \in {ReturnMessage(continuations[o][tag], None),
                 ErrorMessage(continuations[o][tag], "Thrown")} : SendAnswer(<< >>, msg)
  /\ Forget(o, tag)
  /\ UNCHANGED <<place, registered, table, shared, values, announced, inbox,
                 abandoned, proxyVars, clientVars, expected, count>>

-----------------------------------------------------------------------------
(* The client. *)

\* Its thread runs: in its main loop, or in the handler of a signal.
Runs == waiting = 0 /\ (walk = Nothing \/ handler # None)

\* register_obj(): the filter, then a match rule for each interface.
NewProxy(q) ==
  /\ Runs /\ q \notin ToSet(filters)
  /\ filters' = Append(filters, q)
  /\ rules' = rules (+) SetToBag({Rule(q, i) : i \in InterfacesOf[q]})
  /\ UNCHANGED <<serverVars, callVars, clientVars, received, expected, count>>

\* unregister_obj().  libdbus does not call a filter that is removed while it
\* goes through the filters.  The bus removes one rule of those that are equal.
RemoveRules(q) == rules (-) SetToBag({Rule(q, i) : i \in InterfacesOf[q]})

DeleteProxy(q) ==
  /\ Runs /\ q \in ToSet(filters) /\ handler # q
  /\ rules' = RemoveRules(q)
  /\ filters' = RemoveFirst(filters, q)
  /\ walk' = IF walk = Nothing THEN walk ELSE [walk EXCEPT !.rest = RemoveFirst(@, q)]
  /\ expected' = [expected EXCEPT ![q] = << >>]
  /\ seen' = [seen EXCEPT ![q] = << >>]
  /\ UNCHANGED <<serverVars, callVars, waiting, handler, received, count>>

\* invoke_method() of the proxy of interface i, and _invoke_method().
Addressed(q, i, request) ==
  Fill(Fill(Fill(CallMessage(None, None, request.interface, request.member, request.body),
                 "interface", i),
            "path", PathOf[q]),
       "destination", ServiceOf[q])

Send(call) ==
  /\ count < MaxMessages /\ count' = count + 1
  /\ inbox' = [inbox EXCEPT ![call.destination] = Append(@, [call EXCEPT !.serial = count'])]
  /\ answers' = Put(answers, count', 0)
  /\ UNCHANGED <<serverVars, abandoned, proxyVars, walk, handler, seen, received, expected>>

invoke_method(q, i, request) ==
  /\ Runs /\ q \in ToSet(filters) /\ i \in InterfacesOf[q]
  /\ Send(Addressed(q, i, request))
  /\ waiting' = count'

invoke_method_noreply(q, i, request) ==
  /\ Runs /\ q \in ToSet(filters) /\ i \in InterfacesOf[q]
  /\ Send(Addressed(q, i, request))
  /\ UNCHANGED waiting

\* The places of the answers that have come to the call the client waits for.
AnswersTo(serial) ==
  {n \in DOMAIN received : received[n].type # "signal" /\ received[n].reply_serial = serial}

GetAnswer ==
  /\ waiting # 0
  /\ \E n \in AnswersTo(waiting) : received' = RemoveAt(received, n)
  /\ waiting' = 0
  /\ UNCHANGED <<serverVars, callVars, proxyVars, walk, handler, seen, expected, count>>

\* send_blocking() throws the error NoReply, after the timeout of the
\* connection or else of the proxy; an answer that comes later is for no one.
TimeOut ==
  /\ waiting # 0 /\ AnswersTo(waiting) = {}
  /\ waiting' = 0
  /\ UNCHANGED <<serverVars, callVars, proxyVars, walk, handler, seen, received,
                 expected, count>>

\* dbus_connection_dispatch(): the filters get the first message; an answer
\* no one waits for is dropped.
ClientDispatch ==
  /\ waiting = 0 /\ walk = Nothing /\ received # << >>
  /\ received' = Tail(received)
  /\ walk' = IF Head(received).type = "signal"
             THEN [msg |-> Head(received), rest |-> filters] ELSE walk
  /\ UNCHANGED <<serverVars, callVars, proxyVars, waiting, handler, seen, expected, count>>

\* handle_message() of the next filter, once the handler before has returned:
\* the filters after it are called whether or not it has handled the signal.
After_Handled(q) == IF Matches(q, walk.msg) THEN << >> ELSE Tail(walk.rest)
After(q) == Tail(walk.rest)

CallFilter ==
  /\ walk # Nothing /\ waiting = 0 /\ walk.rest # << >>
  /\ LET q == Head(walk.rest) IN
       /\ walk' = [walk EXCEPT !.rest = After(q)]
       /\ IF Matches(q, walk.msg)
          THEN handler' = q /\ seen' = [seen EXCEPT ![q] = Append(@, walk.msg)]
          ELSE handler' = None /\ UNCHANGED seen
  /\ UNCHANGED <<serverVars, callVars, proxyVars, waiting, received, expected, count>>

FiltersDone ==
  /\ walk # Nothing /\ waiting = 0 /\ walk.rest = << >>
  /\ walk' = Nothing /\ handler' = None
  /\ UNCHANGED <<serverVars, callVars, proxyVars, waiting, seen, received, expected, count>>

-----------------------------------------------------------------------------
ServerStep ==
  \/ \E o \in Objects :
       \/ \E c \in Connections, p \in Paths : Create(o, c, p)
       \/ Destroy(o)
       \/ \E new \in NewValues : Assign(o, new)
       \/ \E s \in SignalsOf : EmitSignal(o, s)
       \/ \E tag \in Tags : ReturnNow(o, tag)
  \/ \E c \in Connections : Dispatch(c)

ClientStep ==
  \/ \E q \in Proxies :
       \/ NewProxy(q) \/ DeleteProxy(q)
       \/ \E i \in InterfacesOf[q], request \in Requests :
            invoke_method(q, i, request) \/ invoke_method_noreply(q, i, request)
  \/ GetAnswer \/ TimeOut
  \/ ClientDispatch \/ CallFilter \/ FiltersDone

Next == ServerStep \/ ClientStep

Spec == Init /\ [][Next]_vars

-----------------------------------------------------------------------------
\* An object is found under its path as long as it lives and no longer, by
\* libdbus and in the table of introspection; unless its path is or has been
\* that of an object of another connection as well, for which the table has one
\* entry.  Once all objects of that path have gone, the exception ends.
TablesAgree ==
  /\ \A c \in Connections, p \in Paths : \A o \in Objects :
       registered[c][p] = o <=> place[o] = <<c, p>>
  /\ \A p \in Paths :
       /\ table[p] # None => place[table[p]] # None /\ place[table[p]][2] = p
       /\ p \notin shared /\ table[p] = None => \A c \in Connections : registered[c][p] = None

\* A call is waiting in the server, or deferred by one object under one Tag,
\* or answered, once; or its object has been destroyed before it answered.
CallsAccountedFor ==
  \A serial \in DOMAIN answers :
    LET queued == {x \in Connections \X (1..MaxMessages) :
                     LET q == inbox[x[1]]
                     IN  x[2] \in DOMAIN q /\ q[x[2]].serial = serial}
        parked == {x \in Objects \X Tags :
                     LET m == continuations[x[1]]
                     IN  x[2] \in DOMAIN m /\ m[x[2]].serial = serial}
    IN  Cardinality(queued) + Cardinality(parked) + answers[serial]
          + (IF serial \in abandoned THEN 1 ELSE 0) = 1

\* Whatever clients set, a property keeps its type, and one that is not
\* writeable the value the object has given it.
PropertiesKept ==
  \A o \in Alive : \A i \in DOMAIN PropertyTable : \A p \in DOMAIN PropertyTable[i] :
    /\ values[o][i][p].sig = PropertyTable[i][p].sig
    /\ ~PropertyTable[i][p].write =>
         values[o][i][p] \in {InitialValues[i][p]}
           \cup {v.value : v \in {w \in NewValues : w.interface = i /\ w.property = p}}

\* The value that was signalled last for a property is its value, until the
\* object sets it itself.  The hook that signals runs before the checks of the
\* property (property.cpp:90), so there are two exceptions: the client has named
\* another interface than that of the property, or the application signals a
\* property that clients may not set or that has another type than it expects.
\* Otherwise a change that is refused is not announced.
Fit(p) ==
  LET i == Announced[p].interface
  IN  /\ i \in DOMAIN PropertyTable /\ p \in DOMAIN PropertyTable[i]
      /\ PropertyTable[i][p].write /\ PropertyTable[i][p].sig = Announced[p].sig
AnnouncedIsStored ==
  \A o \in Alive : \A p \in DOMAIN announced[o] :
    LET said == announced[o][p]
    IN  said.interface = Announced[p].interface /\ Fit(p) =>
          values[o][said.interface][p] = said.value

\* Every proxy sees every signal of its path and interfaces that is emitted
\* while it lives, once and in order, whatever proxies are made and deleted
\* and whatever calls are made meanwhile.
Heard(q) ==  \* what it has seen, and what is on its way
  seen[q]
    \o (IF walk # Nothing /\ q \in ToSet(walk.rest) /\ Matches(q, walk.msg)
        THEN <<walk.msg>> ELSE << >>)
    \o For(q, received)
SignalsReachProxies ==
  \A q \in ToSet(filters) :
    At(Heard(q), {n \in DOMAIN Heard(q) : Heard(q)[n] \in ToSet(expected[q])}) = expected[q]

==============================================================================
