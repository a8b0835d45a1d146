---------------------------- MODULE Marshalling ----------------------------
(***************************************************************************)
(* How values become the body of a message and are read back: operator<<   *)
(* and operator>> (src/include/dbus-c++/types.h), the iterators they use   *)
(* (src/src/message.cpp) and Variant (src/src/types.cpp).                  *)
(*                                                                         *)
(* A body is a sequence of items, each with its type code and, in a        *)
(* container, the signature given when it was opened and its items.  A     *)
(* basic value carries its own type code, so that one read as another type *)
(* is seen.  A vector is a sequence, a map a function, a Struct a tuple, a *)
(* Variant the body of the message that stores it.                         *)
(***************************************************************************)
EXTENDS CppTypes, FiniteSets, TLC

BasicItem(code, value) ==
  [code |-> code, value |-> value, sig |-> << >>, items |-> << >>]
Container(code, sig, items) ==
  [code |-> code, value |-> << >>, sig |-> sig, items |-> items]

\* MessageIter::type() of an iterator at pos.
TypeAt(items, pos) == IF pos \in DOMAIN items THEN items[pos].code ELSE "end"

is_array(items, pos) == TypeAt(items, pos) = "a"
is_dict(items, pos)  == is_array(items, pos) /\ Head(items[pos].sig) = "{"

append_basic(code, value) == BasicItem(code, value)

new_array(sig, items)   == Container("a", sig, items)
new_variant(sig, items) == Container("v", sig, items)
new_struct(items)       == Container("(", << >>, items)
new_dict_entry(items)   == Container("{", << >>, items)

-----------------------------------------------------------------------------
\* libdbus: the signature of what an item holds and of a body.
RECURSIVE ItemSig(_)
ItemSig(item) ==
  CASE item.code = "a" -> <<"a">> \o item.sig
    [] item.code = "(" -> <<"(">> \o FlattenSeq([i \in DOMAIN item.items |-> ItemSig(item.items[i])])
                           \o <<")">>
    [] item.code = "{" -> <<"{">> \o FlattenSeq([i \in DOMAIN item.items |-> ItemSig(item.items[i])])
                           \o <<"}">>
    [] OTHER -> <<item.code>>
BodySig(items) == FlattenSeq([i \in DOMAIN items |-> ItemSig(items[i])])

is_basic_type(code) ==
  code \in {"y", "b", "n", "q", "i", "u", "x", "t", "d", "s", "o", "g"}

\* An array opened with the signature of the array itself.
RECURSIVE copy_data_ArraySig(_)
copy_data_ArraySig(from) ==
  [i \in DOMAIN from |->
     IF is_basic_type(from[i].code) THEN from[i]
     ELSE Container(from[i].code,
                    IF from[i].code = "v" THEN from[i].sig
                    ELSE IF from[i].code = "a" THEN ItemSig(from[i]) ELSE << >>,
                    copy_data_ArraySig(from[i].items))]

\* MessageIter::copy_data().  The signature of the iterator recurse() returns
\* is that of the elements of an array, or of the content of a variant.
RECURSIVE copy_data(_)
copy_data(from) ==
  [i \in DOMAIN from |->
     IF is_basic_type(from[i].code)
     THEN append_basic(from[i].code, from[i].value)
     ELSE Container(from[i].code,
                    IF from[i].code \in {"v", "a"} THEN from[i].sig ELSE << >>,
                    copy_data(from[i].items))]

-----------------------------------------------------------------------------
\* operator<<
WriteBasic(t, value) == append_basic(BasicSig[t[1]], value)

\* A Variant is opened with the signature of the message that stores it.
WriteVariant(body) == new_variant(BodySig(body), copy_data(body))

\* The order of std::map: here that of the numbers in the keys.
Keys(map) == SetToSortSeq(DOMAIN map, LAMBDA j, k : j[2] < k[2])

RECURSIVE WriteValue(_, _)

WriteVector(t, vector) ==
  new_array(SigOf(t[2]), [i \in DOMAIN vector |-> WriteValue(t[2], vector[i])])

WriteMap(t, map) ==
  new_array(<<"{">> \o SigOf(t[2]) \o SigOf(t[3]) \o <<"}">>,
            [i \in DOMAIN Keys(map) |->
               new_dict_entry(<<WriteValue(t[2], Keys(map)[i]),
                                WriteValue(t[3], map[Keys(map)[i]])>>)])

WriteStruct(t, struct) ==
  new_struct([i \in DOMAIN struct |-> WriteValue(t[i + 1], struct[i])])

WriteValue(t, value) ==
  CASE t[1] = "vector<" -> WriteVector(t, value)
    [] t[1] = "map<"    -> WriteMap(t, value)
    [] t[1] = "Struct<" -> WriteStruct(t, value)
    [] t[1] = "Variant" -> WriteVariant(value)
    [] OTHER            -> WriteBasic(t, value)

-----------------------------------------------------------------------------
\* operator>>: the value read at pos, and the error that is thrown if any.
Value(value)   == [value |-> value, error |-> ""]
Throws(error)  == [value |-> << >>, error |-> error]
FirstError(results) ==
  LET failed == SelectSeq(results, LAMBDA r : r.error # "")
  IN  IF failed = << >> THEN "" ELSE Head(failed).error

\* get_basic()
get_basic_Unchecked(code, items, pos) ==
  IF pos \in DOMAIN items /\ is_basic_type(items[pos].code)
  THEN Value(items[pos].value) ELSE Throws("InvalidArgs")
get_basic(code, items, pos) ==
  IF TypeAt(items, pos) # code THEN Throws("InvalidArgs")
  ELSE Value(items[pos].value)

ReadBasic(t, items, pos) == get_basic(BasicSig[t[1]], items, pos)

\* val.clear(), then the content is copied into the message of the Variant.
ReadVariant(items, pos) ==
  IF TypeAt(items, pos) # "v" THEN Throws("InvalidArgs")
  ELSE Value(copy_data(items[pos].items))

RECURSIVE ReadValue(_, _, _)

\* The values of the types listed, read one after the other from items.
ReadAll(types, items) ==
  LET results == [i \in DOMAIN types |-> ReadValue(types[i], items, i)]
  IN  IF FirstError(results) # "" THEN Throws(FirstError(results))
      ELSE Value([i \in DOMAIN results |-> results[i].value])

\* A vector of bytes is taken whole, after the type of its elements is
\* compared; the elements of another vector are read one by one, so that the
\* type of the elements of an empty array is never looked at.
ReadVector(t, items, pos) ==
  IF ~is_array(items, pos) THEN Throws("InvalidArgs")
  ELSE IF t[2] = <<"uint8_t">> /\ items[pos].sig # <<"y">> THEN Throws("InvalidArgs")
  ELSE LET elements == items[pos].items
       IN  ReadAll([i \in DOMAIN elements |-> t[2]], elements)

ReadMap(t, items, pos) ==
  IF ~is_dict(items, pos) THEN Throws("InvalidArgs")
  ELSE LET entries == items[pos].items
           results == [i \in DOMAIN entries |->
                         ReadAll(<<t[2], t[3]>>, entries[i].items)]
       IN  IF FirstError(results) # "" THEN Throws(FirstError(results))
           ELSE Value(FoldLeft(LAMBDA map, r : (r.value[1] :> r.value[2]) @@ map,
                               << >>, results))

\* There is no is_struct(): any container is recursed into, and what is left
\* in it after the last member is not looked at.  To recurse into a basic type
\* fails an assertion of libdbus.
ReadStruct(t, items, pos) ==
  IF TypeAt(items, pos) \notin {"a", "(", "{", "v"} THEN Throws("assertion")
  ELSE ReadAll(Tail(t), items[pos].items)

ReadValue(t, items, pos) ==
  CASE t[1] = "vector<" -> ReadVector(t, items, pos)
    [] t[1] = "map<"    -> ReadMap(t, items, pos)
    [] t[1] = "Struct<" -> ReadStruct(t, items, pos)
    [] t[1] = "Variant" -> ReadVariant(items, pos)
    [] OTHER            -> ReadBasic(t, items, pos)

-----------------------------------------------------------------------------
\* Whether a value is one of the type: what a method may rely on.
RECURSIVE HasType(_, _)
HasType(t, value) ==
  CASE t[1] = "vector<" -> \A i \in DOMAIN value : HasType(t[2], value[i])
    [] t[1] = "map<"    -> \A k \in DOMAIN value : HasType(t[2], k) /\ HasType(t[3], value[k])
    [] t[1] = "Struct<" -> /\ Len(value) = Len(t) - 1
                           /\ \A i \in DOMAIN value : HasType(t[i + 1], value[i])
    [] t[1] = "Variant" -> Len(value) = 1
    [] OTHER            -> value[1] = BasicSig[t[1]]
=============================================================================
