----------------------------- MODULE Interfaces -----------------------------
(***************************************************************************)
(* The messages of calls, answers and signals (src/src/message.cpp), and   *)
(* what the interfaces of an object do with a call                         *)
(* (src/src/interface.cpp, property.cpp, introspection.cpp): the methods   *)
(* of the application, Get and Set of its properties, and Introspect.      *)
(*                                                                         *)
(* A path is a sequence of names.  A Variant is its signature and a value. *)
(***************************************************************************)
EXTENDS Naturals, Sequences, SequencesExt, FiniteSets

CONSTANTS
  Methods,        \* for each interface of the application, its methods
  PropertyTable,  \* and its properties: [read, write, sig]
  Announced,      \* properties whose change is signalled: [interface, sig, member]
  None            \* a NULL pointer, or a header that is not set

\* The two interfaces of the library each object has here too.
Properties     == "org.freedesktop.DBus.Properties"
Introspectable == "org.freedesktop.DBus.Introspectable"

\* AdaptorBase::_interfaces, and for each its _methods.
MethodsOf ==
  [i \in DOMAIN Methods \cup {Properties, Introspectable} |->
     CASE i = Properties     -> {"Get", "Set"}
       [] i = Introspectable -> {"Introspect"}
       [] OTHER              -> Methods[i]]

find_interface(name) == name \in DOMAIN MethodsOf

\* A map after map[key] = value.
Put(map, key, value) ==
  [k \in DOMAIN map \cup {key} |-> IF k = key THEN value ELSE map[k]]

-----------------------------------------------------------------------------
(* Messages.  Headers that are not set are None. *)

CallMessage(dest, path, iface, member, body) ==
  [type |-> "call", destination |-> dest, path |-> path, interface |-> iface,
   member |-> member, body |-> body, serial |-> 0]

SignalMessage(iface, member) ==
  [type |-> "signal", path |-> None, interface |-> iface, member |-> member,
   serial |-> 0]

ReturnMessage(call, body) ==
  [type |-> "return", reply_serial |-> call.serial, body |-> body]

ErrorMessage(call, name) ==
  [type |-> "error", reply_serial |-> call.serial, body |-> name]

\* A header the caller has left out is filled in, one it has set is kept.
Fill(msg, header, value) ==
  IF msg[header] = None THEN [msg EXCEPT ![header] = value] ELSE msg

-----------------------------------------------------------------------------
(* What becomes of a call: an answer, with what it changes, or none yet.   *)

Answers(msg, values) == [answer |-> msg, values |-> values, changed |-> FALSE]
Later(values)        == [answer |-> None, values |-> values, changed |-> FALSE]

\* InterfaceAdaptor::get_property(): the error it throws, if any; Get() throws
\* Failed when it finds nothing.
get_property(i, p) ==
  IF i \notin DOMAIN PropertyTable \/ p \notin DOMAIN PropertyTable[i] THEN "Failed"
  ELSE IF ~PropertyTable[i][p].read THEN "AccessDenied"
  ELSE ""

Get(call, values) ==
  LET i == call.body.interface
      p == call.body.property
      error == IF ~find_interface(i) THEN "Failed" ELSE get_property(i, p)
  IN  IF error # "" THEN ErrorMessage(call, error)
      ELSE ReturnMessage(call, values[i][p])

\* InterfaceAdaptor::set_property(): the error it throws, if any.
set_property_AnyType(i, p, value) ==
  IF i \notin DOMAIN PropertyTable \/ p \notin DOMAIN PropertyTable[i] THEN "Failed"
  ELSE IF ~PropertyTable[i][p].write THEN "AccessDenied"
  ELSE ""
set_property(i, p, value) ==
  IF i \notin DOMAIN PropertyTable \/ p \notin DOMAIN PropertyTable[i] THEN "Failed"
  ELSE IF ~PropertyTable[i][p].write THEN "AccessDenied"
  ELSE IF value.sig # PropertyTable[i][p].sig THEN "InvalidSignature"
  ELSE ""

\* on_set_property() comes first.  That of the example looks at the name of the
\* property only, and announces the value it has converted to the type it
\* expects, which throws if it cannot.
on_set_property_NoConversion(p, value) ==
  [announces |-> p \in DOMAIN Announced, error |-> ""]
on_set_property(p, value) ==
  LET converts == p \in DOMAIN Announced /\ value.sig = Announced[p].sig
  IN  [announces |-> converts,
       error     |-> IF p \in DOMAIN Announced /\ ~converts THEN "InvalidArgs" ELSE ""]

Set(call, values) ==
  LET i == call.body.interface
      p == call.body.property
      value == call.body.value
      on    == on_set_property(p, value)
      error == IF ~find_interface(i) THEN "Failed"
               ELSE IF on.error # "" THEN on.error
               ELSE set_property(i, p, value)
  IN  [answer  |-> IF error # "" THEN ErrorMessage(call, error)
                   ELSE ReturnMessage(call, None),
       values  |-> IF error # "" THEN values ELSE [values EXCEPT ![i][p] = value],
       changed |-> find_interface(i) /\ on.announces]

\* ObjectAdaptor::child_nodes_from_prefix(path + '/'): the next name of every
\* path in the table below this one.  Below the root, whose prefix is "//",
\* there is none.
child_nodes_from_prefix(path, paths) ==
  IF path = << >> THEN {}
  ELSE {p[Len(path) + 1] : p \in {q \in paths : IsStrictPrefix(path, q)}}

Introspect(call, paths) ==
  ReturnMessage(call, [interfaces |-> DOMAIN MethodsOf,
                       nodes |-> child_nodes_from_prefix(call.path, paths)])

\* InterfaceAdaptor::dispatch_method() and the stub it calls.  A method of the
\* application returns, throws an Error, or calls return_later().
dispatch_method(call, values, paths) ==
  LET unknown == {Answers(ErrorMessage(call, "UnknownMethod"), values)}
  IN  IF call.member \notin MethodsOf[call.interface] THEN unknown
      ELSE CASE call.member = "Get" -> {Answers(Get(call, values), values)}
             [] call.member = "Set" -> {Set(call, values)}
             [] call.member = "Introspect" -> {Answers(Introspect(call, paths), values)}
             [] OTHER -> {Answers(ReturnMessage(call, None), values),
                          Answers(ErrorMessage(call, "Thrown"), values),
                          Later(values)}
=============================================================================
