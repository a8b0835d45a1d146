-------------------------- MODULE GeneratorUtils ---------------------------
(***************************************************************************)
(* What the two generators share (src/tools/generator_utils.cpp): the      *)
(* translation of a D-Bus signature into the text of a C++ type.  A        *)
(* signature is a sequence of characters, the text of a type a sequence of *)
(* tokens.                                                                 *)
(***************************************************************************)
EXTENDS XmlDocument

\* The table atos of atomic_type_to_string().
Atoms == [y |-> "uint8_t", b |-> "bool", n |-> "int16_t", q |-> "uint16_t",
          i |-> "int32_t", u |-> "uint32_t", x |-> "int64_t", t |-> "uint64_t",
          d |-> "double", s |-> "string", o |-> "Path", g |-> "Signature",
          v |-> "Variant"]

\* A character that is not in the table ends at its last entry, whose name is
\* "" and never a NULL pointer: "invalid signature" is not reported.
atomic_type_to_string(c) == IF c \in DOMAIN Atoms THEN Atoms[c] ELSE ""

At(signature, i) == IF i \in DOMAIN signature THEN signature[i] ELSE "end"
Closing == {")", "}", "end"}

\* _parse_signature(): the text for what begins at i, and the place where the
\* loop has stopped.
RECURSIVE ParseSignature(_, _, _)

Wrapped_Past(open, inner, close) ==
  [type |-> open \o inner.type \o close, i |-> inner.i + 1]
Wrapped(open, inner, close) ==
  [type |-> open \o inner.type \o close, i |-> inner.i]

ParseOne(signature, i) ==
  CASE At(signature, i) = "a" /\ At(signature, i + 1) = "{" ->
         Wrapped(<<"map<">>, ParseSignature(signature, i + 2, FALSE), <<">">>)
    [] At(signature, i) = "a" /\ At(signature, i + 1) = "(" ->
         Wrapped(<<"vector<", "Struct<">>,
                 ParseSignature(signature, i + 2, FALSE), <<">", ">">>)
    [] At(signature, i) = "a" /\ At(signature, i + 1) \notin {"{", "("} ->
         Wrapped(<<"vector<">>, ParseSignature(signature, i + 1, TRUE), <<">">>)
    [] At(signature, i) = "(" ->
         Wrapped(<<"Struct<">>, ParseSignature(signature, i + 1, FALSE), <<">">>)
    [] OTHER ->
         [type |-> <<atomic_type_to_string(At(signature, i))>>, i |-> i]

ParseSignature(signature, i, only_once) ==
  IF At(signature, i) \in Closing THEN [type |-> << >>, i |-> i]
  ELSE LET one  == ParseOne(signature, i)
           rest == ParseSignature(signature, one.i + 1, FALSE)
           comma == IF At(signature, one.i + 1) \in Closing THEN << >> ELSE <<",">>
       IN  IF only_once THEN one
           ELSE [type |-> one.type \o comma \o rest.type, i |-> rest.i]

signature_to_type(signature) == ParseSignature(signature, 1, FALSE).type

-----------------------------------------------------------------------------
\* The class an argument is converted to: the value of the first annotation
\* org.freedesktop.DBus.Object of the nodes given, or "".
ObjectOf(annotations) ==
  LET object == Select(annotations, "name", "Object")
  IN  IF object = << >> THEN "" ELSE Get(Head(object), "value")

ObjectOfArg(arg) == ObjectOf(Children(arg, "annotation"))

In(method)  == Select(Children(method, "arg"), "direction", "in")
Out(method) == Select(Children(method, "arg"), "direction", "out")

\* The type a method or an argument is declared with.
ArgType(arg) ==
  IF ObjectOfArg(arg) # "" THEN <<ObjectOfArg(arg)>>
  ELSE signature_to_type(Get(arg, "type"))

\* The return type: void unless there is one result, and then the class named
\* by the first annotation of ANY argument, if there is one.
ReturnType(method) ==
  LET object == ObjectOf(ChildrenOfAll(Children(method, "arg"), "annotation"))
  IN  IF Len(Out(method)) # 1 THEN <<"void">>
      ELSE IF object # "" THEN <<object>>
      ELSE signature_to_type(Get(Head(Out(method)), "type"))

\* std::unique() over the classes to include: it removes a name only next to
\* itself, since the vector is not sorted.
Unique(names) ==
  LET kept == {i \in DOMAIN names : i = 1 \/ names[i] # names[i - 1]}
  IN  [j \in 1..Cardinality(kept) |->
         names[CHOOSE i \in kept : Cardinality({k \in kept : k <= i}) = j]]

\* The classes of the annotated arguments, in the order they are met.
Includes(args) ==
  SelectSeq([i \in DOMAIN args |-> ObjectOfArg(args[i])], LAMBDA o : o # "")

\* Statements of generated functions.  Read() uses the iterator ri, Write() wi;
\* Use() stands for a call of a function of the library.
Declare(type, var) == [op |-> "declare", type |-> type, var |-> var]
Read(var)          == [op |-> "read", var |-> var]
Write(var)         == [op |-> "write", var |-> var]
Convert(to, from)  == [op |-> "convert", var |-> to, from |-> from]
Call(name, vars, result) ==
  [op |-> "call", name |-> name, vars |-> vars, var |-> result]
Use(name)          == [op |-> "use", name |-> name]
Return(var)        == [op |-> "return", var |-> var]
Broken             == [op |-> "broken"]
Nothing            == << >>
=============================================================================
