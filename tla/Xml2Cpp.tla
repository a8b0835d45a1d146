------------------------------ MODULE Xml2Cpp ------------------------------
(***************************************************************************)
(* From an introspection document to calls between the programs made with  *)
(* it: dbusxx-xml2cpp (src/tools/xml2cpp.cpp) reads the document and       *)
(* writes the proxy and the adaptor, a compiler accepts them or not, and a *)
(* client calls the methods of an object and receives its signals through  *)
(* them, with values that are marshalled into messages and back.           *)
(***************************************************************************)
EXTENDS GenerateProxy, Marshalling

CONSTANTS
  Documents,       \* introspection documents, as the trees they describe
  Texts,           \* texts between the elements of a document
  Classes,         \* classes annotations name, which convert to and from types
  Sizes,           \* lengths of the arrays and maps that are passed
  Bodies           \* bodies of calls made without the generated proxy

ASSUME SizesAssumption == Sizes \subseteq Nat

VARIABLES
  source,          \* the document in the file
  events,          \* what the parser has not reported yet
  doc,             \* Xml::Document
  stage,           \* "parse", "proxy", "adaptor", "built" or "failed"
  proxy, adaptor,  \* the two generated files
  wire             \* the call or signal under way

vars == <<source, events, doc, stage, proxy, adaptor, wire>>

-----------------------------------------------------------------------------
(* The compiler: the variables of a function and their types. *)

\* A statement is accepted if its variables are declared, once, if the function
\* that is called or that returns has the parameters and the result, and if no
\* variable hides a function that is called.
Accepts(env, s, function) ==
  LET declared == DOMAIN env.types IN
  CASE s.op = "declare" -> s.var \notin declared
    [] s.op = "read"  -> {<<"ri">>, s.var} \subseteq declared
    [] s.op = "write" -> {<<"wi">>, s.var} \subseteq declared
    [] s.op = "convert" -> {s.var, s.from} \subseteq declared
    [] s.op = "use" -> s.name \notin declared
    [] s.op = "call" ->
         /\ s.name \notin declared
         /\ \A i \in DOMAIN s.vars : s.vars[i] \in declared
         /\ [i \in DOMAIN s.vars |-> env.types[s.vars[i]]] = function.params
         /\ s.var # Nothing => env.types[s.var] = function.result
         /\ s.var = Nothing => function.result = <<"void">>
    [] s.op = "return" -> s.var \in declared /\ env.types[s.var] = function.result
    [] OTHER -> FALSE

Vars(params)       == [i \in DOMAIN params |-> params[i].var]
TypesOf(params)    == [i \in DOMAIN params |-> params[i].type]
ParamTypes(params) == FoldLeft(LAMBDA f, p : (p.var :> p.type) @@ f, << >>, params)

Compile(body, params, function) ==
  FoldLeft(LAMBDA env, s :
             IF ~env.ok \/ ~Accepts(env, s, function) THEN [env EXCEPT !.ok = FALSE]
             ELSE IF s.op = "declare" THEN [env EXCEPT !.types = (s.var :> s.type) @@ @]
             ELSE env,
           [ok |-> IsInjective(Vars(params)), types |-> ParamTypes(params)],
           body).ok

AdaptorCompiles(class) ==
  /\ \A i \in DOMAIN class.stubs :
       /\ IsInjective(class.declared[i].names)
       /\ Compile(class.stubs[i], StubParams, class.declared[i])
  /\ \A i \in DOMAIN class.emitters :
       Compile(class.emitters[i].body, class.emitters[i].params, [result |-> <<"void">>])

ProxyCompiles(class) ==
  /\ \A i \in DOMAIN class.methods :
       LET m == class.methods[i] IN Compile(m.sends \o m.returns, m.params, m)
  /\ \A i \in DOMAIN class.handlers :
       LET handler == class.handlers[i]
       IN  /\ IsInjective(Vars(handler.params))
           /\ Compile(handler.body, SignalStubParams,
                      [params |-> TypesOf(handler.params), result |-> <<"void">>])

AllCompiles ==
  /\ \A i \in DOMAIN adaptor.classes : AdaptorCompiles(adaptor.classes[i])
  /\ \A i \in DOMAIN proxy.classes : ProxyCompiles(proxy.classes[i])

-----------------------------------------------------------------------------
(* The running programs. *)

\* The classes an annotation names convert with operator<<, both ways.
ConvertTo(type, value) ==
  IF type[1] \in Classes THEN <<"object", value>> ELSE value[2]

Step(st, s, items) ==
  CASE s.op = "declare" -> [st EXCEPT !.types = (s.var :> s.type) @@ @]
    [] s.op = "read" ->
         LET r == ReadValue(Types(st.types[s.var])[1], items, st.pos)
         IN  [st EXCEPT !.error = r.error, !.pos = @ + 1,
                        !.values = (s.var :> r.value) @@ @]
    [] s.op = "write" ->
         [st EXCEPT !.out = Append(@, WriteValue(Types(st.types[s.var])[1],
                                                 st.values[s.var]))]
    [] s.op = "convert" ->
         [st EXCEPT !.values = (s.var :> ConvertTo(st.types[s.var], st.values[s.from])) @@ @]
    [] s.op = "call"   -> [st EXCEPT !.called = [i \in DOMAIN s.vars |-> s.vars[i]]]
    [] s.op = "use"    -> st
    [] s.op = "return" -> [st EXCEPT !.result = <<st.values[s.var]>>]

\* The statements of a function, given the variables bound by its caller and
\* the body it reads; the first error that is thrown ends it.
Run(body, types, values, items) ==
  FoldLeft(LAMBDA st, s : IF st.error # "" THEN st ELSE Step(st, s, items),
           [types |-> types, values |-> values, pos |-> 1, out |-> << >>,
            called |-> << >>, result |-> << >>, error |-> ""],
           body)

\* Bind the variables listed to values.
Bind(vars_, values) ==
  FoldLeft(LAMBDA f, i : (vars_[i] :> values[i]) @@ f, << >>, [i \in DOMAIN vars_ |-> i])

\* A value of type t: n tells it from the others that are passed.
RECURSIVE Sample(_, _, _)
Sample(t, n, size) ==
  CASE t[1] = "vector<" -> [i \in 1..size |-> Sample(t[2], n + i, size)]
    [] t[1] = "map<" ->
         FoldLeft(LAMBDA f, i : (Sample(t[2], n + i, size) :> Sample(t[3], n + 10 + i, size)) @@ f,
                  << >>, [i \in 1..size |-> i])
    [] t[1] = "Struct<" -> [i \in 1..(Len(t) - 1) |-> Sample(t[i + 1], n + 20 * i, size)]
    [] t[1] = "Variant" ->
         LET content == IF size = 0 THEN <<"string">> ELSE <<"vector<", <<"uint8_t">>>>
         IN  <<WriteValue(content, Sample(content, n, size))>>
    [] OTHER -> <<BasicSig[t[1]], n>>

\* An object of the client or of the server has the type it converts to.
ArgSample(arg, n, size) ==
  LET value == Sample(Types(signature_to_type(Get(arg, "type")))[1], n, size)
  IN  IF ObjectOfArg(arg) # "" THEN <<"object", value>> ELSE value

Samples(args, n, size) == [i \in DOMAIN args |-> ArgSample(args[i], n + 100 * i, size)]

-----------------------------------------------------------------------------
Idle == [state |-> "idle", member |-> 0, direct |-> FALSE, passed |-> << >>,
         body |-> << >>, received |-> << >>, given |-> << >>, reply |-> << >>,
         got |-> << >>, error |-> ""]

NoFile == [classes |-> << >>, includes |-> << >>]

Init ==
  /\ source \in Documents
  /\ \E text \in Texts : events = Events(source, text)
  /\ doc = EmptyDocument
  /\ stage = "parse"
  /\ proxy = NoFile /\ adaptor = NoFile
  /\ wire = Idle

StartElement ==
  /\ stage = "parse" /\ events # << >> /\ Head(events).kind = "start"
  /\ doc' = start_element_handler(doc, Head(events).name, Head(events).attrs)
  /\ events' = Tail(events)
  /\ UNCHANGED <<source, stage, proxy, adaptor, wire>>

EndElement ==
  /\ stage = "parse" /\ events # << >> /\ Head(events).kind = "end"
  /\ doc' = end_element_handler(doc)
  /\ events' = Tail(events)
  /\ UNCHANGED <<source, stage, proxy, adaptor, wire>>

\* The buffer goes on with the next tag after the text.
CharacterData ==
  /\ stage = "parse" /\ events # << >> /\ Head(events).kind = "text"
  /\ doc' = character_data_handler(doc, Append(Head(events).chars, "<"),
                                   Len(Head(events).chars))
  /\ events' = Tail(events)
  /\ UNCHANGED <<source, stage, proxy, adaptor, wire>>

\* The file ends too early: from_xml() throws, and main() returns.
Malformed ==
  /\ stage = "parse" /\ events # << >>
  /\ stage' = "failed"
  /\ UNCHANGED <<source, events, doc, proxy, adaptor, wire>>

WriteProxy ==
  /\ stage = "parse" /\ events = << >>
  /\ proxy' = generate_proxy(doc)
  /\ stage' = "proxy"
  /\ UNCHANGED <<source, events, doc, adaptor, wire>>

WriteAdaptor ==
  /\ stage = "proxy"
  /\ adaptor' = generate_adaptor(doc)
  /\ stage' = "built"
  /\ UNCHANGED <<source, events, doc, proxy, wire>>

\* The interface of the source the first class is made for.
Interface ==
  Head(SelectSeq(Children(source, "interface"), LAMBDA i : Get(i, "name") \notin Skipped))
Methods == Children(Interface, "method")
Signals == Children(Interface, "signal")

Ready == stage = "built" /\ wire.state = "idle" /\ AllCompiles

\* The client calls the generated function of method m.
CallMethod(m, size) ==
  LET method == proxy.classes[1].methods[m]
      in     == In(Methods[m])
      types  == ParamTypes(method.params)
      passed == Samples(in, 0, size)
      sent   == Run(method.sends, types,
                    Bind([i \in DOMAIN in |-> method.params[i].var], passed), << >>)
  IN  /\ Ready
      /\ wire' = [Idle EXCEPT !.state = "called", !.member = m,
                              !.passed = passed, !.body = sent.out]
      /\ UNCHANGED <<source, events, doc, stage, proxy, adaptor>>

\* A client that does not use the proxy may send any body.
CallDirectly(m, body) ==
  /\ Ready
  /\ wire' = [Idle EXCEPT !.state = "called", !.member = m, !.direct = TRUE,
                          !.body = body]
  /\ UNCHANGED <<source, events, doc, stage, proxy, adaptor>>

\* The stub reads the arguments, calls the method, which gives the results,
\* and writes those into the reply.  An Error of operator>> leaves the stub.
HandleCall(size) ==
  LET stub    == adaptor.classes[1].stubs[wire.member]
      c       == CHOOSE i \in DOMAIN stub : stub[i].op = "call"
      in      == Len(In(Methods[wire.member]))
      read    == Run(SubSeq(stub, 1, c), << >>, << >>, wire.body)
      given   == Samples(Out(Methods[wire.member]), 1000, size)
      results == IF stub[c].var # Nothing THEN <<stub[c].var>>
                 ELSE SubSeq(stub[c].vars, in + 1, Len(stub[c].vars))
      written == Run(SubSeq(stub, c + 1, Len(stub)), read.types,
                     Bind(results, given) @@ read.values, << >>)
  IN  /\ wire.state = "called"
      /\ IF read.error # ""
         THEN wire' = [wire EXCEPT !.state = "done", !.error = read.error]
         ELSE wire' = [wire EXCEPT
                         !.state = "returned",
                         !.received = [i \in 1..in |-> read.values[read.called[i]]],
                         !.given = given,
                         !.reply = written.out]
      /\ UNCHANGED <<source, events, doc, stage, proxy, adaptor>>

\* The generated function of the client reads the results.
ReturnResults ==
  LET method == proxy.classes[1].methods[wire.member]
      in     == Len(In(Methods[wire.member]))
      read   == Run(method.returns, ParamTypes(method.params), << >>, wire.reply)
  IN  /\ wire.state = "returned"
      /\ ~wire.direct
      /\ wire' = [wire EXCEPT
                    !.state = "done", !.error = read.error,
                    !.got = IF read.error # "" THEN << >>
                            ELSE IF method.result # <<"void">> THEN read.result
                            ELSE [i \in 1..(Len(method.params) - in) |->
                                    read.values[method.params[in + i].var]]]
      /\ UNCHANGED <<source, events, doc, stage, proxy, adaptor>>

\* An object emits signal s, and the stub of the client calls its handler.
EmitSignal(s, size) ==
  LET emitter == adaptor.classes[1].emitters[s]
      passed  == Samples(Children(Signals[s], "arg"), 0, size)
      sent    == Run(emitter.body, ParamTypes(emitter.params),
                     Bind(Vars(emitter.params), passed), << >>)
  IN  /\ Ready
      /\ wire' = [Idle EXCEPT !.state = "signal", !.member = s,
                              !.passed = passed, !.body = sent.out]
      /\ UNCHANGED <<source, events, doc, stage, proxy, adaptor>>

HandleSignal ==
  LET read == Run(proxy.classes[1].handlers[wire.member].body, << >>, << >>, wire.body)
  IN  /\ wire.state = "signal"
      /\ wire' = [wire EXCEPT !.state = "handled", !.error = read.error,
                              !.received = IF read.error # "" THEN << >>
                                           ELSE [i \in DOMAIN read.called |->
                                                   read.values[read.called[i]]]]
      /\ UNCHANGED <<source, events, doc, stage, proxy, adaptor>>

Next ==
  \/ StartElement \/ EndElement \/ CharacterData \/ Malformed
  \/ WriteProxy \/ WriteAdaptor
  \/ \E size \in Sizes :
       \/ \E m \in DOMAIN Methods : CallMethod(m, size)
       \/ \E s \in DOMAIN Signals : EmitSignal(s, size)
       \/ HandleCall(size)
  \/ \E m \in DOMAIN Methods, body \in Bodies : CallDirectly(m, body)
  \/ ReturnResults \/ HandleSignal

Spec == Init /\ [][Next]_vars

-----------------------------------------------------------------------------
\* The element the parser is in is the one the builder adds to: when the file
\* has been read, the tree is the one it describes, however deep it is.
DocumentBuilt ==
  (stage # "failed" /\ events = << >>) =>
    Shape(doc.root) = Shape(source) /\ doc.depth = 0

\* Every C++ type that is generated has, by the templates of the library, the
\* signature it was generated for.
SignaturesOf(members) ==
  UNION {{Get(Children(members[m], "arg")[a], "type") :
            a \in DOMAIN Children(members[m], "arg")} : m \in DOMAIN members}
TypesAgree ==
  \A sig \in SignaturesOf(Methods \o Signals) :
    LET types == Types(signature_to_type(sig))
    IN  Len(types) = 1 /\ SigOf(types[1]) = sig

\* The documents that are supported.  An annotation org.freedesktop.DBus.Object
\* is for methods that do not have exactly one result, and in them for
\* arguments whose C++ type ends with ">".  And no name may meet another one in
\* a generated function: those of its arguments, those it makes from them, its
\* own messages, iterators and results, and the function it calls.
Annotated(args) == {i \in DOMAIN args : ObjectOfArg(args[i]) # ""}
Passed(method)  == In(method) \o (IF Len(Out(method)) > 1 THEN Out(method) ELSE << >>)
NamesApart(names, args, own) ==
  /\ IsInjective(names)
  /\ Range(names) \cap (own \cup {Under(names[i]) : i \in Annotated(args)}) = {}

\* The names in the function of the proxy and in the stub of the adaptor.
ProxyNames(method) ==
  {<<"call">>}
    \cup {n \in {<<"wi">>} : In(method) # << >>}
    \cup (IF AwaitsReply(method) THEN {<<"invoke_method">>, <<"ret">>}
          ELSE {<<"invoke_method_noreply">>})
    \cup {n \in {<<"ri">>} : Out(method) # << >>}
    \cup {n \in {<<"argout">>} : Len(Out(method)) = 1}
StubNames(method) ==
  {<<"call">>}
    \cup {n \in {<<"ri">>} : In(method) # << >>}
    \cup UNION {{Indexed("argin", i), ArgumentOf(In(method)[i], Indexed("argin", i))} :
                  i \in DOMAIN In(method)}
    \cup UNION {{Indexed("argout", i), ArgumentOf(Out(method)[i], Indexed("argout", i))} :
                  i \in DOMAIN Out(method)}

SupportedMethod(method) ==
  /\ Len(Out(method)) = 1 => Annotated(Children(method, "arg")) = {}
  /\ \A i \in Annotated(Passed(method)) :
       Last(signature_to_type(Get(Passed(method)[i], "type"))) = ">"
  /\ NamesApart(Vars(MethodParams(method)), Passed(method), ProxyNames(method))
  /\ IsInjective(GivenNames(Passed(method)))
  /\ Get(method, "name") \notin StubNames(method)

SupportedSignal(signal) ==
  LET args    == Children(signal, "arg")
      Named(prefix) == [i \in DOMAIN args |-> NameOr(args[i], prefix, i)]
      names   == Named("arg")
      own     == {<<"sig">>} \cup {n \in {<<"ri">>} : args # << >>}
  IN  /\ NamesApart(names, args, own)
      /\ IsInjective(Named("argin"))
      /\ Get(signal, "name") \notin
           own \cup UNION {{names[i], ArgumentOf(args[i], names[i])} : i \in DOMAIN args}

Supported ==
  /\ \A m \in DOMAIN Methods : SupportedMethod(Methods[m])
  /\ \A s \in DOMAIN Signals : SupportedSignal(Signals[s])


\* A method gets the values its caller has passed and the caller those the
\* method has given; a handler gets the values of the signal.
ValuesArrive ==
  /\ (wire.state \in {"returned", "done", "handled"} /\ ~wire.direct) =>
       wire.received = wire.passed /\ wire.error = ""
  /\ (wire.state = "done" /\ ~wire.direct) => wire.got = wire.given

\* Whatever a client sends, a method is only called with values of its types.
OnlyItsTypes ==
  wire.state = "returned" =>
    \A i \in DOMAIN wire.received :
      LET arg == In(Methods[wire.member])[i]
          type == Types(signature_to_type(Get(arg, "type")))[1]
          value == wire.received[i]
      IN  HasType(type, IF ObjectOfArg(arg) # "" THEN value[2] ELSE value)

\* What introspection says of a member is what is sent and accepted: unless
\* an argument has no direction, which introspection shows as a result.
Introspected(i, in) ==
  FlattenSeq([j \in DOMAIN adaptor.classes[1].introspected[i] |->
                LET arg == adaptor.classes[1].introspected[i][j]
                IN  IF arg.in = in THEN arg.sig ELSE << >>])
Directed(member) ==
  \A i \in DOMAIN Children(member, "arg") :
    Get(Children(member, "arg")[i], "direction") # ""
IntrospectionIsTrue ==
  /\ (wire.state \in {"called", "returned", "done"} /\ ~wire.direct) =>
       BodySig(wire.body) = Introspected(wire.member, TRUE)
  /\ (wire.state \in {"returned", "done"} /\ wire.error = "" /\ Directed(Methods[wire.member])) =>
       BodySig(wire.reply) = Introspected(wire.member, FALSE)
  /\ wire.state \in {"signal", "handled"} =>
       BodySig(wire.body) = Introspected(Len(Methods) + wire.member, FALSE)
=============================================================================
