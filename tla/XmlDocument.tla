---------------------------- MODULE XmlDocument ----------------------------
(***************************************************************************)
(* The document builder of the tools (src/tools/xml.cpp): the handlers     *)
(* expat calls, which keep the depth of the open element and find it again *)
(* by walking down the last children, and the queries of Node and Nodes.   *)
(* A name or an attribute is a value; a text is a sequence of characters,  *)
(* of which only the blanks matter.                                        *)
(***************************************************************************)
EXTENDS Naturals, Sequences, SequencesExt

NoNode == [name |-> "", attrs |-> << >>, cdata |-> << >>, children |-> << >>]

Node(name, attrs) == [NoNode EXCEPT !.name = name, !.attrs = attrs]

Get(node, attribute) ==
  IF attribute \in DOMAIN node.attrs THEN node.attrs[attribute] ELSE ""

Children(node, key) == SelectSeq(node.children, LAMBDA c : c.name = key)

ChildrenOfAll(nodes, key) ==
  FlattenSeq([i \in DOMAIN nodes |-> Children(nodes[i], key)])

Select(nodes, attribute, value) ==
  SelectSeq(nodes, LAMBDA n : Get(n, attribute) = value)

-----------------------------------------------------------------------------
\* Document: its root, and the number of elements that are open.
EmptyDocument == [root |-> NoNode, depth |-> 0]

\* The loops "for (i = 1; i < depth; ++i)": the node d - 1 levels below
\* node, each time among the last children, with child added to its children.
RECURSIVE AddChild(_, _, _)
AddChild(node, d, child) ==
  IF d <= 1 THEN [node EXCEPT !.children = Append(@, child)]
  ELSE [node EXCEPT !.children[Len(node.children)] = AddChild(@, d - 1, child)]

RECURSIVE SetData(_, _, _)
SetData(node, d, data) ==
  IF d <= 1 THEN [node EXCEPT !.cdata = data]
  ELSE [node EXCEPT !.children[Len(node.children)] = SetData(@, d - 1, data)]

start_element_handler_Shallow(doc, name, attrs) ==
  [root  |-> IF doc.root = NoNode THEN Node(name, attrs)
             ELSE AddChild(doc.root, IF doc.depth > 3 THEN 3 ELSE doc.depth,
                           Node(name, attrs)),
   depth |-> doc.depth + 1]

start_element_handler(doc, name, attrs) ==
  [root  |-> IF doc.root = NoNode THEN Node(name, attrs)
             ELSE AddChild(doc.root, doc.depth, Node(name, attrs)),
   depth |-> doc.depth + 1]

end_element_handler(doc) == [doc EXCEPT !.depth = @ - 1]

\* The last x with a blank at every place before it, and the first y with a
\* blank at every place after it, as the two loops find them.
TrimEnd(chars, len) ==
  CHOOSE y \in 0..(len - 1) :
    /\ y = 0 \/ chars[y + 1] # "blank"
    /\ \A z \in (y + 1)..(len - 1) : chars[z + 1] = "blank"
TrimStart(chars, y) ==
  CHOOSE x \in 0..y :
    /\ x = y \/ chars[x + 1] # "blank"
    /\ \A z \in 0..(x - 1) : chars[z + 1] = "blank"

\* chars is the text and what follows it in the buffer of the parser:
\* std::string(chars, x, y + 1) takes y + 1 characters of it from x on, and
\* replaces what an earlier piece of the same text has set.
character_data_handler(doc, chars, len) ==
  LET y == TrimEnd(chars, len)
      x == TrimStart(chars, y)
      last == IF x + y + 1 < Len(chars) THEN x + y + 1 ELSE Len(chars)
  IN  [doc EXCEPT !.root = SetData(@, doc.depth, SubSeq(chars, x + 1, last))]

-----------------------------------------------------------------------------
\* What expat reports of a well-formed document: the events, in order, of an
\* element, of a text that stands before its children if text is not empty,
\* and of its children.
RECURSIVE Events(_, _)
Events(node, text) ==
  <<[kind |-> "start", name |-> node.name, attrs |-> node.attrs]>>
    \o (IF text = << >> THEN << >> ELSE <<[kind |-> "text", chars |-> text]>>)
    \o FlattenSeq([i \in DOMAIN node.children |-> Events(node.children[i], text)])
    \o <<[kind |-> "end"]>>

\* A document without its texts.
RECURSIVE Shape(_)
Shape(node) ==
  [name     |-> node.name,
   attrs    |-> node.attrs,
   children |-> [i \in DOMAIN node.children |-> Shape(node.children[i])]]
=============================================================================
