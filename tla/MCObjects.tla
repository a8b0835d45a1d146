----------------------------- MODULE MCObjects ------------------------------
(***************************************************************************)
(* A server on two connections with a parent and a child path, and two     *)
(* proxies of one object.                                                  *)
(***************************************************************************)
EXTENDS Objects, TLC

CONSTANTS c1, c2, o1, o2, q1, q2, t1

Demo == "Demo"
Parent == <<"a">>
Child  == <<"a", "b">>
Text(n) == [sig |-> "s", value |-> n]
Number(n) == [sig |-> "i", value |-> n]

MCMethods == [i \in {Demo} |-> {"Sum"}]
MCPropertyTable ==
  [i \in {Demo} |->
     [Message |-> [read |-> TRUE,  write |-> TRUE,  sig |-> "s"],
      Version |-> [read |-> TRUE,  write |-> FALSE, sig |-> "i"],
      Rate    |-> [read |-> FALSE, write |-> TRUE,  sig |-> "i"]]]
\* Version is announced although clients may not set it.
MCAnnounced ==
  [Message |-> [interface |-> Demo, member |-> "Changed", sig |-> "s"],
   Version |-> [interface |-> Demo, member |-> "Changed", sig |-> "i"]]
MCInitialValues ==
  [i \in {Demo} |-> [Message |-> Text(0), Version |-> Number(1), Rate |-> Number(0)]]
MCNewValues == {[interface |-> Demo, property |-> "Message", value |-> Text(0)]}
MCSignalsOf == {[interface |-> Demo, member |-> "Changed"]}

SetRequest(i, p, v) ==
  [interface |-> Properties, member |-> "Set", body |-> [interface |-> i, property |-> p, value |-> v]]
GetRequest(i, p) ==
  [interface |-> Properties, member |-> "Get", body |-> [interface |-> i, property |-> p]]
MCRequests ==
  {[interface |-> None, member |-> "Sum", body |-> None],
   [interface |-> "Other", member |-> "Sum", body |-> None],
   [interface |-> Introspectable, member |-> "Introspect", body |-> None],
   GetRequest(Demo, "Rate"),
   SetRequest(Demo, "Message", Text(1)), SetRequest(Demo, "Message", Number(1)),
   SetRequest(Introspectable, "Message", Text(1)),
   SetRequest(Demo, "Version", Number(2)), SetRequest(Demo, "Rate", Text(1))}

MCPaths == {Parent, Child}
MCPathOf == [q \in Proxies |-> Parent]
MCServiceOf == [q \in Proxies |-> c1]
MCInterfacesOf == [q \in Proxies |-> {Demo}]

Interchangeable == Permutations(Proxies) \cup Permutations(Objects)
=============================================================================
