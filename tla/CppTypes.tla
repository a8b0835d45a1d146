----------------------------- MODULE CppTypes ------------------------------
(***************************************************************************)
(* The C++ types of arguments (src/include/dbus-c++/types.h).  A type is a *)
(* tree: <<name>> for a basic type, <<"vector<", E>>, <<"map<", K, V>> or  *)
(* <<"Struct<", T1, ..., Tn>>, as the compiler instantiates the text the   *)
(* generators write.                                                       *)
(***************************************************************************)
EXTENDS Naturals, Sequences, SequencesExt

Templates == {"vector<", "map<", "Struct<"}

\* type<T>::sig() of the basic types, one specialisation each.
BasicSig == [uint8_t |-> "y", bool |-> "b", int16_t |-> "n", uint16_t |-> "q",
             int32_t |-> "i", uint32_t |-> "u", int64_t |-> "x",
             uint64_t |-> "t", double |-> "d", string |-> "s", Path |-> "o",
             Signature |-> "g", Variant |-> "v"]

\* type<T>::sig().  The members of a Struct that are left out are Invalid,
\* whose signature is "".
RECURSIVE SigOf(_)
SigOf(t) ==
  CASE t[1] = "vector<" -> <<"a">> \o SigOf(t[2])
    [] t[1] = "map<"    -> <<"a", "{">> \o SigOf(t[2]) \o SigOf(t[3]) \o <<"}">>
    [] t[1] = "Struct<" -> <<"(">> \o FlattenSeq([i \in 1..(Len(t) - 1) |-> SigOf(t[i + 1])])
                             \o <<")">>
    [] OTHER -> <<BasicSig[t[1]]>>

-----------------------------------------------------------------------------
\* The compiler: the types listed in text from i up to a ">" or the end.
RECURSIVE TypeList(_, _)
TypeList(text, i) ==
  IF i > Len(text) \/ text[i] = ">" THEN [types |-> << >>, i |-> i]
  ELSE IF text[i] = "," THEN TypeList(text, i + 1)
  ELSE LET inner == TypeList(text, i + 1)
           isTemplate == text[i] \in Templates
           one  == IF isTemplate THEN <<text[i]>> \o inner.types ELSE <<text[i]>>
           rest == TypeList(text, IF isTemplate THEN inner.i + 1 ELSE i + 1)
       IN  [types |-> <<one>> \o rest.types, i |-> rest.i]

Types(text) == TypeList(text, 1).types
=============================================================================
