----------------------------- MODULE MCXml2Cpp -----------------------------
(***************************************************************************)
(* Documents for Xml2Cpp: an interface with one method, one signal and one *)
(* property, beside one that the generators skip.  Names are tuples, as in *)
(* GenerateAdaptor; << >> is no name.                                      *)
(***************************************************************************)
EXTENDS Xml2Cpp

\* Signatures with every constructor, inside each other.
MCSignatures == {
  <<"i">>, <<"v">>, <<"a", "y">>, <<"a", "a", "s">>, <<"(", "i", "s", ")">>,
  <<"a", "{", "s", "v", "}">>, <<"a", "(", "o", "a", "y", ")">>,
  <<"a", "{", "i", "a", "{", "s", "(", "y", "v", ")", "}", "}">>,
  <<"(", "(", "b", "n", ")", "a", "(", "q", "u", ")", "x", ")">>,
  <<"(", "t", "d", "g", ")">>}

Element(name, attrs, children) == [Node(name, attrs) EXCEPT !.children = children]

ObjectAnnotation ==
  Element("annotation", [name |-> "Object", value |-> "Person"], << >>)

Arg(sig, name, direction, object) ==
  Element("arg",
    [name |-> name, type |-> sig, direction |-> direction],
    IF object THEN <<ObjectAnnotation>> ELSE << >>)

DocumentOf(methodName, methodArgs, noReply, signalName, signalArgs) ==
  LET annotation == Element("annotation", [name |-> "NoReply", value |-> noReply], << >>)
      method   == Element("method", [name |-> methodName], Append(methodArgs, annotation))
      signal   == Element("signal", [name |-> signalName], signalArgs)
      property == Element("property",
                    [name |-> <<"Property">>, type |-> <<"i">>, access |-> "read"], << >>)
  IN  Element("node", << >>,
        <<Element("interface", [name |-> <<"org", "freedesktop", "DBus", "Properties">>],
                  <<Element("method", [name |-> <<"Get">>], << >>)>>),
          Element("interface", [name |-> <<"org", "I">>], <<method, signal, property>>)>>)

Document(methodArgs, noReply, signalArgs) ==
  DocumentOf(<<"Method">>, methodArgs, noReply, <<"Signal">>, signalArgs)

\* One signature in each place.
Plain == {Document(<<Arg(s, <<"x">>, "in", FALSE), Arg(s, << >>, "out", FALSE)>>, "false",
                   <<Arg(s, << >>, "", FALSE)>>) : s \in MCSignatures}

\* All arrangements of up to three arguments.
Positions == <<<<"i">>, <<"a", "s">>, <<"(", "i", "s", ")">>>>
ArgNames  == <<<<"a">>, <<"b">>, <<"c">>>>
Kinds == [direction : {"in", "out"}, named : BOOLEAN, object : BOOLEAN]
Arrangement(kinds) ==
  [i \in DOMAIN kinds |->
     Arg(Positions[i], IF kinds[i].named THEN ArgNames[i] ELSE << >>,
         kinds[i].direction, kinds[i].object)]
\* The arguments of a signal have no direction.
Undirected(args) == [i \in DOMAIN args |-> [args[i] EXCEPT !.attrs.direction = ""]]
Arranged ==
  {LET args == Arrangement(kinds) IN
   Document(args, IF kinds[1].named THEN "true" ELSE "false", Undirected(args)) :
     kinds \in Kinds \X Kinds \X Kinds}
Fewer == {Document(Arrangement(<<k>>), "true", << >>) : k \in Kinds}
           \cup {Document(<<Arg(<<"s">>, <<"n">>, "", FALSE), Arg(<<"i">>, <<"x">>, "in", FALSE)>>,
                          "false", << >>)}

\* Names that meet those of a generated function: an argument beside an
\* unnamed one, an object called a and up to two results, and members.
Unlucky == {<<"call">>, <<"wi">>, <<"ret">>, <<"ri">>, <<"sig">>, <<"argout">>,
            <<"invoke_method">>, <<"invoke_method_noreply">>, <<"a">>, <<"_", "a">>,
            <<"arg", 0>>, <<"argin", 0>>, <<"argin", 1>>, <<"argin", 2>>, <<"argout", 0>>,
            <<"argout", 1>>, <<"_", "argin", 1>>}
Results(n) == SubSeq(<<Arg(<<"i">>, << >>, "out", FALSE), Arg(<<"s">>, <<"b">>, "out", FALSE)>>, 1, n)
UnluckyArgs(name, object, n) ==
  <<Arg(<<"a", "s">>, <<"a">>, "in", object), Arg(<<"s">>, name, "in", FALSE),
    Arg(<<"i">>, << >>, "in", FALSE)>> \o Results(n)
UnluckyNames ==
  {Document(UnluckyArgs(name, object, n), noReply, Undirected(UnluckyArgs(name, object, 0))) :
     name \in Unlucky, object \in BOOLEAN, n \in 0..2, noReply \in {"true", "false"}}
   \cup {Document(<<Arg(<<"i">>, name, "in", FALSE)>>, "true", << >>) : name \in Unlucky}
   \cup {Document(<<Arg(<<"i">>, name, "out", FALSE), Arg(<<"i">>, <<"b">>, "out", FALSE)>>,
                  "false", << >>) : name \in Unlucky}
   \cup {DocumentOf(name, UnluckyArgs(<<"x">>, object, n), "false",
                    name, Undirected(UnluckyArgs(<<"x">>, object, 0))) :
            name \in Unlucky, object \in BOOLEAN, n \in {0, 2}}
   \cup {DocumentOf(name, << >>, "false", name, << >>) : name \in Unlucky}

MCDocuments == Plain \cup Arranged \cup Fewer \cup UnluckyNames
MCTexts     == {<< >>, <<"blank", "x", "blank">>}

\* Bodies of the right and of other types.
MCBodies == {
  << >>,
  <<BasicItem("i", <<"i", 1>>)>>,
  <<BasicItem("s", <<"s", 1>>)>>,
  <<new_array(<<"i">>, <<BasicItem("i", <<"i", 1>>), BasicItem("i", <<"i", 2>>)>>)>>,
  <<new_array(<<"y">>, <<BasicItem("y", <<"y", 1>>)>>)>>,
  <<new_array(<<"s">>, << >>)>>,
  <<new_struct(<<BasicItem("i", <<"i", 1>>), BasicItem("s", <<"s", 2>>)>>)>>,
  <<new_variant(<<"i">>, <<BasicItem("i", <<"i", 1>>)>>)>>,
  <<new_array(<<"{", "s", "v", "}">>,
      <<new_dict_entry(<<BasicItem("s", <<"s", 1>>),
                         new_variant(<<"s">>, <<BasicItem("s", <<"s", 2>>)>>)>>)>>)>>}
=============================================================================
