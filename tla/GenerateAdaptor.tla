-------------------------- MODULE GenerateAdaptor --------------------------
(***************************************************************************)
(* generate_adaptor() (src/tools/generate_adaptor.cpp): from the document  *)
(* to the classes an application derives its objects from.  A class is a   *)
(* record of what is written in it, a generated function a sequence of     *)
(* statements.  A name is a tuple of its parts: <<"argin", 1>> is argin1,  *)
(* and <<"_", "x">> is x with an underscore before it.                     *)
(***************************************************************************)
EXTENDS GeneratorUtils

\* These interfaces are written by hand in the library.
Skipped == {<<"org", "freedesktop", "DBus", n>> : n \in {"Introspectable", "Properties"}}

Indexed(prefix, i) == <<prefix, i>>
Under(var)         == <<"_">> \o var

\* The messages and iterators of a generated function.
DeclareMessage(var) == Declare(<<"Message">>, var)
DeclareIter(var)    == Declare(<<"MessageIter">>, var)
DeclareIterIf(args, var) == IF args = << >> THEN << >> ELSE <<DeclareIter(var)>>

\* The names that are given to some arguments.
GivenNames(args) ==
  SelectSeq([i \in DOMAIN args |-> Get(args[i], "name")], LAMBDA n : Len(n) # 0)

\* The constructor: bind_property() and register_method().
Bindings(iface) ==
  LET properties == Children(iface, "property") IN
  [i \in DOMAIN properties |->
     [name  |-> Get(properties[i], "name"),
      sig   |-> Get(properties[i], "type"),
      read  |-> Get(properties[i], "access") \in {"read", "readwrite"},
      write |-> Get(properties[i], "access") \in {"write", "readwrite"}]]

Registrations(iface) ==
  LET methods == Children(iface, "method") IN
  [i \in DOMAIN methods |-> Get(methods[i], "name")]

\* introspect(): one table of arguments for each method and signal.
IntrospectedArgs_NotOut(member) ==
  LET args == Children(member, "arg") IN
  [i \in DOMAIN args |->
     [sig |-> Get(args[i], "type"), in |-> Get(args[i], "direction") # "out"]]
IntrospectedArgs(member) ==
  LET args == Children(member, "arg") IN
  [i \in DOMAIN args |->
     [sig |-> Get(args[i], "type"), in |-> Get(args[i], "direction") = "in"]]

PropertyMembers(iface) ==
  LET properties == Children(iface, "property") IN
  [i \in DOMAIN properties |->
     [name |-> Get(properties[i], "name"),
      type |-> signature_to_type(Get(properties[i], "type"))]]

\* The pure virtual function of a method: several results are parameters.
Declaration(method) ==
  LET in  == In(method)
      out == IF Len(Out(method)) > 1 THEN Out(method) ELSE << >>
  IN  [name   |-> Get(method, "name"),
       result |-> ReturnType(method),
       names  |-> GivenNames(in \o out),
       params |-> [i \in DOMAIN in |-> ArgType(in[i])]
                    \o [i \in DOMAIN out |-> ArgType(out[i])]]

\* A signal emitter: its parameters, and a body that writes them.
EmitterParams(signal) ==
  LET args == Children(signal, "arg") IN
  [i \in DOMAIN args |-> [type |-> ArgType(args[i]), var |-> Indexed("arg", i)]]

EmitterBody(signal) ==
  LET args == Children(signal, "arg")
      WriteArg(i) ==
        LET arg == Indexed("arg", i) IN
        IF ObjectOfArg(args[i]) = "" THEN <<Write(arg)>>
        ELSE <<Declare(signature_to_type(Get(args[i], "type")), Under(arg)),
               Convert(Under(arg), arg), Write(Under(arg))>>
  IN  <<DeclareMessage(<<"sig">>)>> \o DeclareIterIf(args, <<"wi">>)
        \o FlattenSeq([i \in DOMAIN args |-> WriteArg(i)])
        \o <<Use(<<"emit_signal">>)>>

-----------------------------------------------------------------------------
\* The stub of a method, part by part.
StubParams == <<[type |-> <<"Message">>, var |-> <<"call">>]>>

ReadArguments(method) ==
  LET in == In(method)
      ReadArg(i) == <<Declare(signature_to_type(Get(in[i], "type")), Indexed("argin", i)),
                      Read(Indexed("argin", i))>>
      ToObject(i) ==
        IF ObjectOfArg(in[i]) = "" THEN << >>
        ELSE <<Declare(<<ObjectOfArg(in[i])>>, Under(Indexed("argin", i))),
               Convert(Under(Indexed("argin", i)), Indexed("argin", i))>>
  IN  DeclareIterIf(in, <<"ri">>)
        \o FlattenSeq([i \in DOMAIN in |-> ReadArg(i)])
        \o FlattenSeq([i \in DOMAIN in |-> ToObject(i)])

\* "T argout1 = " is the beginning of the call when there is one result; the
\* declaration of an object is then written into the middle of it.
DeclareResults(method) ==
  LET out == Out(method)
      objects == {i \in DOMAIN out : ObjectOfArg(out[i]) # ""}
      Object(i) == IF i \notin objects THEN << >>
                   ELSE <<Declare(<<ObjectOfArg(out[i])>>, Under(Indexed("argout", i)))>>
  IN  [i \in DOMAIN out |->
         Declare(signature_to_type(Get(out[i], "type")), Indexed("argout", i))]
        \o (IF Len(out) = 1 /\ objects # {} THEN <<Broken>>
            ELSE FlattenSeq([i \in DOMAIN out |-> Object(i)]))

ArgumentOf(arg, var) == IF ObjectOfArg(arg) # "" THEN Under(var) ELSE var

CallMethodStatement(method) ==
  LET in  == In(method)
      out == Out(method)
      results == IF Len(out) > 1 THEN out ELSE << >>
  IN  Call(Get(method, "name"),
           [i \in DOMAIN in |-> ArgumentOf(in[i], Indexed("argin", i))]
             \o [i \in DOMAIN results |-> ArgumentOf(results[i], Indexed("argout", i))],
           IF Len(out) = 1 THEN Indexed("argout", 1) ELSE Nothing)

WriteResults(method) ==
  LET out == Out(method)
      ToWire(i) == IF ObjectOfArg(out[i]) = "" THEN << >>
                   ELSE <<Convert(Indexed("argout", i), Under(Indexed("argout", i)))>>
  IN  <<DeclareMessage(<<"reply">>)>> \o DeclareIterIf(out, <<"wi">>)
        \o FlattenSeq([i \in DOMAIN out |-> ToWire(i)])
        \o [i \in DOMAIN out |-> Write(Indexed("argout", i))]

Stub(method) ==
  ReadArguments(method) \o DeclareResults(method)
    \o <<CallMethodStatement(method)>> \o WriteResults(method)

-----------------------------------------------------------------------------
\* The class of an interface, and the classes of all interfaces but those
\* that are skipped.
AdaptorClass(iface) ==
  LET methods == Children(iface, "method")
      signals == Children(iface, "signal")
  IN  [interface    |-> Get(iface, "name"),
       namespaces   |-> Front(Get(iface, "name")),
       class        |-> <<Last(Get(iface, "name")), "adaptor">>,
       bindings     |-> Bindings(iface),
       registered   |-> Registrations(iface),
       introspected |-> [i \in DOMAIN (methods \o signals) |->
                           IntrospectedArgs((methods \o signals)[i])],
       members      |-> PropertyMembers(iface),
       declared     |-> [i \in DOMAIN methods |-> Declaration(methods[i])],
       emitters     |-> [i \in DOMAIN signals |->
                           [params |-> EmitterParams(signals[i]),
                            body   |-> EmitterBody(signals[i])]],
       stubs        |-> [i \in DOMAIN methods |-> Stub(methods[i])]]

AdaptorIncludes(iface) ==
  FlattenSeq([i \in DOMAIN Children(iface, "method") |->
      LET method == Children(iface, "method")[i] IN
      Includes(In(method) \o (IF Len(Out(method)) > 1 THEN Out(method) ELSE << >>))])
    \o FlattenSeq([i \in DOMAIN Children(iface, "signal") |->
         Includes(Children(Children(iface, "signal")[i], "arg"))])

generate_adaptor(doc) ==
  LET ifaces == SelectSeq(Children(doc.root, "interface"),
                          LAMBDA i : Get(i, "name") \notin Skipped)
  IN  [classes  |-> [i \in DOMAIN ifaces |-> AdaptorClass(ifaces[i])],
       includes |-> Unique(FlattenSeq([i \in DOMAIN ifaces |-> AdaptorIncludes(ifaces[i])]))]
=============================================================================
