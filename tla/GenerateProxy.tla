--------------------------- MODULE GenerateProxy ---------------------------
(***************************************************************************)
(* generate_proxy() (src/tools/generate_proxy.cpp): from the document to   *)
(* the classes through which a client calls an object and receives its     *)
(* signals.  Classes and functions are written as in GenerateAdaptor.      *)
(***************************************************************************)
EXTENDS GenerateAdaptor

\* The name of an argument, or the one it is given if it has none: the number
\* i counts from 0.
NameOr(arg, prefix, i) ==
  IF Len(Get(arg, "name")) # 0 THEN Get(arg, "name") ELSE Indexed(prefix, i - 1)

Connections(iface) ==
  LET signals == Children(iface, "signal") IN
  [i \in DOMAIN signals |-> Get(signals[i], "name")]

\* Functions that call Get and Set of org.freedesktop.DBus.Properties.
PropertyAccessors(iface) ==
  LET properties == Children(iface, "property") IN
  [i \in DOMAIN properties |->
     [name   |-> Get(properties[i], "name"),
      type   |-> signature_to_type(Get(properties[i], "type")),
      getter |-> Get(properties[i], "access") \in {"read", "readwrite"},
      setter |-> Get(properties[i], "access") \in {"write", "readwrite"}]]

NoReply(method) ==
  LET noreply == Select(Children(method, "annotation"), "name", "NoReply")
  IN  noreply # << >> /\ Get(Head(noreply), "value") = "true"

\* The option is ignored for a method with results.
AwaitsReply(method) == ~NoReply(method) \/ Out(method) # << >>

MethodParams(method) ==
  LET in  == In(method)
      out == IF Len(Out(method)) > 1 THEN Out(method) ELSE << >>
  IN  [i \in DOMAIN in |-> [type |-> ArgType(in[i]), var |-> NameOr(in[i], "argin", i)]]
        \o [i \in DOMAIN out |-> [type |-> ArgType(out[i]), var |-> NameOr(out[i], "argout", i)]]

\* "T_name;" is written without a blank: it declares _name if the text of the
\* type ends with ">" and is one unknown name if it does not.
DeclareGlued(type, var) ==
  IF Last(type) = ">" THEN Declare(type, Under(var)) ELSE Broken


WriteArguments(method) ==
  LET in == In(method)
      WriteArg(i) ==
        LET var == NameOr(in[i], "argin", i) IN
        IF ObjectOfArg(in[i]) = "" THEN <<Write(var)>>
        ELSE <<DeclareGlued(signature_to_type(Get(in[i], "type")), var),
               Convert(Under(var), var), Write(Under(var))>>
  IN  <<DeclareMessage(<<"call">>)>> \o DeclareIterIf(in, <<"wi">>)
        \o FlattenSeq([i \in DOMAIN in |-> WriteArg(i)])

Invoke(method) ==
  IF AwaitsReply(method)
  THEN <<Use(<<"invoke_method">>), DeclareMessage(<<"ret">>)>>
  ELSE <<Use(<<"invoke_method_noreply">>)>>

\* One result is returned, several are stored into the parameters.
ReadResult(out) ==
  IF ObjectOf(Children(out, "annotation")) = ""
  THEN <<Declare(signature_to_type(Get(out, "type")), <<"argout">>),
         Read(<<"argout">>), Return(<<"argout">>)>>
  ELSE <<Declare(<<ObjectOfArg(out)>>, Under(<<"argout">>)),
         Declare(signature_to_type(Get(out, "type")), <<"argout">>),
         Read(<<"argout">>), Convert(Under(<<"argout">>), <<"argout">>),
         Return(Under(<<"argout">>))>>

ReadResults(method) ==
  LET out == Out(method)
      ReadArg(i) ==
        LET var == NameOr(out[i], "argout", i) IN
        IF ObjectOfArg(out[i]) = "" THEN <<Read(var)>>
        ELSE <<DeclareGlued(signature_to_type(Get(out[i], "type")), var),
               Read(Under(var)), Convert(var, Under(var))>>
  IN  DeclareIterIf(out, <<"ri">>)
        \o IF Len(out) = 1 THEN ReadResult(out[1])
           ELSE FlattenSeq([i \in DOMAIN out |-> ReadArg(i)])

\* The handler of a signal, and the stub that reads its arguments and calls it.
HandlerParams(signal) ==
  LET args == Children(signal, "arg") IN
  [i \in DOMAIN args |-> [type |-> ArgType(args[i]), var |-> NameOr(args[i], "argin", i)]]

SignalStubParams == <<[type |-> <<"Message">>, var |-> <<"sig">>]>>

SignalStub(signal) ==
  LET args == Children(signal, "arg")
      Var(i) == NameOr(args[i], "arg", i)
      ReadArg(i) ==
        <<Declare(signature_to_type(Get(args[i], "type")), Var(i)), Read(Var(i))>>
          \o IF ObjectOfArg(args[i]) = "" THEN << >>
             ELSE <<Declare(<<ObjectOfArg(args[i])>>, Under(Var(i))),
                    Convert(Under(Var(i)), Var(i))>>
  IN  DeclareIterIf(args, <<"ri">>)
        \o FlattenSeq([i \in DOMAIN args |-> ReadArg(i)])
        \o <<Call(Get(signal, "name"),
                  [i \in DOMAIN args |-> ArgumentOf(args[i], Var(i))], Nothing)>>

ProxyMethod(method) ==
  [name    |-> Get(method, "name"),
   result  |-> ReturnType(method),
   params  |-> MethodParams(method),
   sends   |-> WriteArguments(method) \o Invoke(method),
   awaits  |-> AwaitsReply(method),
   returns |-> ReadResults(method)]

ProxyClass(iface) ==
  LET methods == Children(iface, "method")
      signals == Children(iface, "signal")
  IN  [interface  |-> Get(iface, "name"),
       namespaces |-> Front(Get(iface, "name")),
       class      |-> <<Last(Get(iface, "name")), "proxy">>,
       connected  |-> Connections(iface),
       accessors  |-> PropertyAccessors(iface),
       methods    |-> [i \in DOMAIN methods |-> ProxyMethod(methods[i])],
       handlers   |-> [i \in DOMAIN signals |->
                         [params |-> HandlerParams(signals[i]),
                          body   |-> SignalStub(signals[i])]]]

ProxyIncludes(iface) ==
  FlattenSeq([i \in DOMAIN Children(iface, "method") |->
      LET method == Children(iface, "method")[i] IN
      Includes(In(method) \o (IF Len(Out(method)) > 1 THEN Out(method) ELSE << >>))])
    \o FlattenSeq([i \in 1..2 * Len(Children(iface, "signal")) |->
         LET n == Len(Children(iface, "signal")) IN
         Includes(Children(Children(iface, "signal")[IF i > n THEN i - n ELSE i], "arg"))])

generate_proxy(doc) ==
  LET ifaces == SelectSeq(Children(doc.root, "interface"),
                          LAMBDA i : Get(i, "name") \notin Skipped)
  IN  [classes  |-> [i \in DOMAIN ifaces |-> ProxyClass(ifaces[i])],
       includes |-> Unique(FlattenSeq([i \in DOMAIN ifaces |-> ProxyIncludes(ifaces[i])]))]
=============================================================================
