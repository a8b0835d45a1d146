----------------------------- MODULE ListLemmas -----------------------------
(***************************************************************************)
(* What the sequence operators the models use for std::list and std::vector *)
(* keep and lose, and how to walk along one.                               *)
(***************************************************************************)
EXTENDS Integers, SequencesExt, WellFoundedInduction, TLAPS

\* A set of numbers has a least element.
LEMMA LeastElement ==
  ASSUME NEW S \in SUBSET Nat, S # {}
  PROVE  \E least \in S : \A x \in S : least <= x
<1> DEFINE Less == {p \in Nat \X Nat : p[1] < p[2]}
<1>1. OpToRel(<, Nat) = Less
  BY DEF OpToRel
<1> HIDE DEF Less
<1>2. IsWellFoundedOn(OpToRel(<, Nat), Nat)
  BY NatLessThanWellFounded
<1>3. IsWellFoundedOn(Less, Nat)
  BY <1>1, <1>2, Zenon
<1>4. PICK least \in S : \A x \in S : ~ (<<x, least>> \in Less)
  BY <1>3, WFMin
<1>5. ASSUME NEW x \in S PROVE least <= x
  <2>1. <<x, least>> \in Nat \X Nat /\ ~ (<<x, least>> \in Less)
    BY <1>4
  <2>2. ~ (x < least)
    BY <2>1 DEF Less
  <2> QED BY <2>2
<1> QED BY <1>5

\* What is so at 0, and at the next position wherever it is so, is so at every
\* position: the induction of a loop over a list.
LEMMA AlongTheList ==
  ASSUME NEW n \in Nat, NEW good, 0 \in good,
         \A i \in 0..(n - 1) : i \in good => i + 1 \in good
  PROVE  \A i \in 0..n : i \in good
<1> SUFFICES ASSUME NEW b \in 0..n, b \notin good PROVE FALSE
  OBVIOUS
<1> DEFINE bad == {i \in Nat : i \in 0..n /\ i \notin good}
<1>1. bad \in SUBSET Nat /\ bad # {}
  OBVIOUS
<1>2. PICK least \in bad : \A x \in bad : least <= x
  <2> HIDE DEF bad
  <2> QED BY <1>1, LeastElement
<1>3. least # 0 /\ least \in 0..n /\ least - 1 \in 0..(n - 1)
  OBVIOUS
<1>4. least - 1 \in good
  BY <1>2, <1>3
<1>5. (least - 1) + 1 = least
  OBVIOUS
<1> QED BY <1>3, <1>4, <1>5

\* The elements of a list are what is found at its positions.
LEMMA InList ==
  ASSUME NEW S, NEW s \in Seq(S), NEW x
  PROVE  x \in ToSet(s) <=> \E i \in 1..Len(s) : s[i] = x
BY DEF ToSet

LEMMA ElementsOfList ==
  ASSUME NEW S, NEW s \in Seq(S)
  PROVE  ToSet(s) = {s[i] : i \in 1..Len(s)}
BY DEF ToSet

\* push_back() leaves the earlier elements where they are.
LEMMA AppendFacts ==
  ASSUME NEW S, NEW q \in Seq(S), NEW x \in S
  PROVE  /\ Append(q, x) \in Seq(S)
         /\ Len(q) \in Nat /\ Len(Append(q, x)) = Len(q) + 1
         /\ \A i \in 1..Len(q) : Append(q, x)[i] = q[i]
         /\ Append(q, x)[Len(q) + 1] = x
         /\ ToSet(Append(q, x)) = ToSet(q) \cup {x}
<1>1. /\ Append(q, x) \in Seq(S)
      /\ Len(q) \in Nat /\ Len(Append(q, x)) = Len(q) + 1
      /\ \A i \in 1..Len(q) : Append(q, x)[i] = q[i]
      /\ Append(q, x)[Len(q) + 1] = x
  OBVIOUS
<1>2. ASSUME NEW y PROVE y \in ToSet(Append(q, x)) <=> y \in ToSet(q) \/ y = x
  <2>1. y \in ToSet(Append(q, x)) <=>
          \E i \in 1..(Len(q) + 1) : Append(q, x)[i] = y
    <3>1. y \in ToSet(Append(q, x)) <=>
            \E i \in 1..Len(Append(q, x)) : Append(q, x)[i] = y
      BY ONLY <1>1, InList, Zenon
    <3> QED BY <1>1, <3>1, Zenon
  <2>2. y \in ToSet(q) <=> \E i \in 1..Len(q) : q[i] = y
    BY InList
  <2>3. \A i \in 1..(Len(q) + 1) : i \in 1..Len(q) \/ i = Len(q) + 1
    BY <1>1
  <2>4. \A i \in 1..Len(q) : i \in 1..(Len(q) + 1)
    BY <1>1
  <2>5. Len(q) + 1 \in 1..(Len(q) + 1)
    BY <1>1
  <2> QED BY <1>1, <2>1, <2>2, <2>3, <2>4, <2>5, Zenon
<1> QED BY <1>1, <1>2

\* The elements of a concatenation.
LEMMA ConcatFacts ==
  ASSUME NEW S, NEW a \in Seq(S), NEW b \in Seq(S)
  PROVE  /\ a \o b \in Seq(S)
         /\ Len(a) \in Nat /\ Len(b) \in Nat /\ Len(a \o b) = Len(a) + Len(b)
         /\ \A j \in 1..Len(a) : (a \o b)[j] = a[j]
         /\ \A j \in (Len(a) + 1)..(Len(a) + Len(b)) :
              (a \o b)[j] = b[j - Len(a)]
OBVIOUS

\* erase() loses the element at the iterator and no other.
LEMMA RemoveAtFacts ==
  ASSUME NEW S, NEW s \in Seq(S), NEW i \in 1..Len(s)
  PROVE  /\ RemoveAt(s, i) \in Seq(S)
         /\ Len(s) \in Nat /\ Len(RemoveAt(s, i)) = Len(s) - 1
         /\ \A j \in 1..(i - 1) : RemoveAt(s, i)[j] = s[j]
         /\ \A j \in i..(Len(s) - 1) : RemoveAt(s, i)[j] = s[j + 1]
         /\ \A x \in ToSet(s) : x = s[i] \/ x \in ToSet(RemoveAt(s, i))
         /\ ToSet(RemoveAt(s, i)) \subseteq ToSet(s)
<1> DEFINE a == SubSeq(s, 1, i - 1)
           b == SubSeq(s, i + 1, Len(s))
<1>1. /\ a \in Seq(S) /\ Len(a) = i - 1
      /\ \A j \in 1..(i - 1) : a[j] = s[j]
  OBVIOUS
<1>2. /\ b \in Seq(S) /\ Len(b) = Len(s) - i
      /\ \A j \in 1..(Len(s) - i) : b[j] = s[i + j]
  OBVIOUS
<1>3. RemoveAt(s, i) = a \o b
  BY DEF RemoveAt
<1> HIDE DEF a, b
<1>4. Len(s) \in Nat /\ a \o b \in Seq(S) /\ Len(a \o b) = Len(s) - 1
  <2>1. a \o b \in Seq(S) /\ Len(a \o b) = Len(a) + Len(b)
    BY <1>1, <1>2, ConcatFacts, Zenon
  <2>2. Len(a) = i - 1 /\ Len(b) = Len(s) - i /\ Len(s) \in Nat
    BY <1>1, <1>2
  <2> QED BY <2>1, <2>2
<1>5. \A j \in 1..(i - 1) : (a \o b)[j] = s[j]
  BY <1>1, <1>2, ConcatFacts
<1>6. ASSUME NEW j \in i..(Len(s) - 1) PROVE (a \o b)[j] = s[j + 1]
  <2>1. (a \o b)[j] = b[j - (i - 1)]
    BY <1>1, <1>2, ConcatFacts
  <2>2. j - (i - 1) \in 1..(Len(s) - i) /\ i + (j - (i - 1)) = j + 1
    OBVIOUS
  <2> QED BY <1>2, <2>1, <2>2
<1>7. ASSUME NEW x \in ToSet(s)
      PROVE  x = s[i] \/ x \in ToSet(a \o b)
  <2>1. PICK j \in 1..Len(s) : s[j] = x
    BY InList
  <2>2. CASE j = i
    BY <2>1, <2>2
  <2>3. CASE j < i
    <3>1. j \in 1..(i - 1) /\ j \in 1..Len(a \o b)
      BY <2>3, <1>4
    <3> QED BY <2>1, <3>1, <1>4, <1>5, InList
  <2>4. CASE j > i
    <3>1. j - 1 \in i..(Len(s) - 1) /\ j - 1 \in 1..Len(a \o b)
          /\ (j - 1) + 1 = j
      BY <2>4, <1>4
    <3>2. (a \o b)[j - 1] = x
      BY <2>1, <3>1, <1>6
    <3> QED BY <3>1, <3>2, <1>4, InList
  <2> QED BY <2>2, <2>3, <2>4
<1>8. ASSUME NEW x \in ToSet(a \o b) PROVE x \in ToSet(s)
  <2>1. PICK j \in 1..(Len(s) - 1) : (a \o b)[j] = x
    BY <1>4, InList
  <2>2. CASE j < i
    <3>1. j \in 1..(i - 1) /\ j \in 1..Len(s)
      BY <2>2, <1>4
    <3> QED BY <2>1, <3>1, <1>5, InList
  <2>3. CASE j >= i
    <3>1. j \in i..(Len(s) - 1) /\ j + 1 \in 1..Len(s)
      BY <2>3, <1>4
    <3> QED BY <2>1, <3>1, <1>6, InList
  <2> QED BY <2>2, <2>3
<1>9. /\ \A x \in ToSet(s) : x = s[i] \/ x \in ToSet(a \o b)
      /\ ToSet(a \o b) \subseteq ToSet(s)
  BY <1>7, <1>8
<1> QED BY <1>3, <1>4, <1>5, <1>6, <1>9

\* Erasing the first k elements leaves those behind them.
LEMMA TailFacts ==
  ASSUME NEW S, NEW q \in Seq(S), NEW k \in 0..Len(q)
  PROVE  /\ SubSeq(q, k + 1, Len(q)) \in Seq(S)
         /\ Len(SubSeq(q, k + 1, Len(q))) = Len(q) - k
         /\ \A i \in (k + 1)..Len(q) :
              q[i] \in ToSet(SubSeq(q, k + 1, Len(q)))
<1> DEFINE r == SubSeq(q, k + 1, Len(q))
<1>1. /\ r \in Seq(S) /\ Len(r) = Len(q) - k
      /\ \A j \in 1..(Len(q) - k) : r[j] = q[k + j]
  OBVIOUS
<1>2. ASSUME NEW i \in (k + 1)..Len(q) PROVE q[i] \in ToSet(r)
  <2>1. i - k \in 1..Len(r) /\ k + (i - k) = i /\ i - k \in 1..(Len(q) - k)
    BY <1>1
  <2> HIDE DEF r
  <2>2. r[i - k] = q[i]
    BY <1>1, <2>1
  <2> QED BY <1>1, <2>1, <2>2, InList
<1> QED BY <1>1, <1>2

\* Induction over lists, as they are built by appending.
LEMMA ByAppending ==
  ASSUME NEW U, NEW good, << >> \in good,
         \A p \in Seq(U), x \in U : p \in good => Append(p, x) \in good
  PROVE  \A s \in Seq(U) : s \in good
<1>. SUFFICES ASSUME NEW s \in Seq(U) PROVE s \in good
  OBVIOUS
<1>. DEFINE grown == {k \in 0..Len(s) : SubSeq(s, 1, k) \in good}
<1>1. Len(s) \in Nat /\ SubSeq(s, 1, Len(s)) = s
  OBVIOUS
<1>2. 0 \in grown
  <2>1. SubSeq(s, 1, 0) = << >> /\ 0 \in 0..Len(s)
    OBVIOUS
  <2>. QED  BY <2>1, Zenon
<1>3. ASSUME NEW k \in 0..(Len(s) - 1), k \in grown PROVE k + 1 \in grown
  <2>1. SubSeq(s, 1, k) \in Seq(U) /\ s[k + 1] \in U
    OBVIOUS
  <2>2. SubSeq(s, 1, k + 1) = Append(SubSeq(s, 1, k), s[k + 1]) /\ k + 1 \in 0..Len(s)
    OBVIOUS
  <2>. QED  BY <1>3, <2>1, <2>2, Zenon
<1>4. \A k \in 0..Len(s) : k \in grown
  <2>. HIDE DEF grown
  <2>. QED  BY <1>1, <1>2, <1>3, AlongTheList
<1>5. Len(s) \in 0..Len(s)
  BY <1>1
<1>. QED  BY <1>1, <1>4, <1>5, Zenon

\* A list without duplicates.
NoneTwice(s) == \A i, j \in 1..Len(s) : s[i] = s[j] => i = j

\* A list without duplicates has an element no more once it is removed.
LEMMA RemoveFirstFacts ==
  ASSUME NEW P, NEW s \in Seq(P), NoneTwice(s), NEW x
  PROVE  /\ RemoveFirst(s, x) \in Seq(P) /\ NoneTwice(RemoveFirst(s, x))
         /\ ToSet(RemoveFirst(s, x)) = ToSet(s) \ {x}
<1>1. CASE ~ \E i \in 1..Len(s) : s[i] = x
  <2>1. RemoveFirst(s, x) = s /\ x \notin ToSet(s)
    BY <1>1 DEF RemoveFirst, ToSet
  <2>. QED  BY <2>1
<1>2. CASE \E i \in 1..Len(s) : s[i] = x
  <2>1. PICK i \in 1..Len(s) : s[i] = x
    BY <1>2
  <2>2. {j \in 1..Len(s) : s[j] = x} = {i}
    BY <2>1 DEF NoneTwice
  <2>3. SelectInSeq(s, LAMBDA v : v = x) = i
    BY <2>1, <2>2 DEF SelectInSeq, Min
  <2>4. RemoveFirst(s, x) = RemoveAt(s, i)
    BY <1>2, <2>3 DEF RemoveFirst
  <2>. DEFINE t == RemoveAt(s, i)
  <2>5. /\ t \in Seq(P) /\ Len(s) \in Nat /\ Len(t) = Len(s) - 1
        /\ \A j \in 1..(i - 1) : t[j] = s[j]
        /\ \A j \in i..(Len(s) - 1) : t[j] = s[j + 1]
        /\ \A y \in ToSet(s) : y = s[i] \/ y \in ToSet(t)
        /\ ToSet(t) \subseteq ToSet(s)
    BY RemoveAtFacts, Zenon
  <2>. HIDE DEF t
  <2>6. NoneTwice(t)
    <3>. SUFFICES ASSUME NEW j \in 1..Len(t), NEW k \in 1..Len(t), t[j] = t[k] PROVE j = k
      BY DEF NoneTwice
    <3>1. j < i => t[j] = s[j] /\ j \in 1..Len(s)
      BY <2>5
    <3>2. ~(j < i) => t[j] = s[j + 1] /\ j + 1 \in 1..Len(s)
      BY <2>5
    <3>3. k < i => t[k] = s[k] /\ k \in 1..Len(s)
      BY <2>5
    <3>4. ~(k < i) => t[k] = s[k + 1] /\ k + 1 \in 1..Len(s)
      BY <2>5
    <3>. QED  BY <3>1, <3>2, <3>3, <3>4 DEF NoneTwice
  <2>7. x \notin ToSet(t)
    <3>. SUFFICES ASSUME NEW j \in 1..Len(t), t[j] = x PROVE FALSE
      BY <2>5, InList
    <3>1. j < i => t[j] = s[j] /\ j \in 1..Len(s) /\ j # i
      BY <2>5
    <3>2. ~(j < i) => t[j] = s[j + 1] /\ j + 1 \in 1..Len(s) /\ j + 1 # i
      BY <2>5
    <3>. QED  BY <2>1, <3>1, <3>2 DEF NoneTwice
  <2>8. ToSet(t) = ToSet(s) \ {x}
    BY <2>1, <2>5, <2>7
  <2>. QED  BY <2>4, <2>5, <2>6, <2>8 DEF t
<1>. QED  BY <1>1, <1>2

\* A list joined to another has the elements of both.
LEMMA JoinedFacts ==
  ASSUME NEW U
  PROVE  \A a, b \in Seq(U) : a \o b \in Seq(U) /\ ToSet(a \o b) = ToSet(a) \cup ToSet(b)
<1>. SUFFICES ASSUME NEW a \in Seq(U), NEW b \in Seq(U)
              PROVE  a \o b \in Seq(U) /\ ToSet(a \o b) = ToSet(a) \cup ToSet(b)
  OBVIOUS
<1>1. /\ a \o b \in Seq(U)
      /\ Len(a) \in Nat /\ Len(b) \in Nat /\ Len(a \o b) = Len(a) + Len(b)
      /\ \A j \in 1..Len(a) : (a \o b)[j] = a[j]
      /\ \A j \in (Len(a) + 1)..(Len(a) + Len(b)) : (a \o b)[j] = b[j - Len(a)]
  BY ConcatFacts, Zenon
<1>2. ASSUME NEW y PROVE /\ y \in ToSet(a \o b) <=> \E i \in 1..Len(a \o b) : (a \o b)[i] = y
                         /\ y \in ToSet(a) <=> \E i \in 1..Len(a) : a[i] = y
                         /\ y \in ToSet(b) <=> \E i \in 1..Len(b) : b[i] = y
  BY <1>1, InList
<1>3. ASSUME NEW y \in ToSet(a \o b) PROVE y \in ToSet(a) \cup ToSet(b)
  <2>1. PICK i \in 1..Len(a \o b) : (a \o b)[i] = y
    BY <1>2
  <2>2. CASE i \in 1..Len(a)
    BY <1>1, <1>2, <2>1, <2>2
  <2>3. CASE i \notin 1..Len(a)
    <3>1. i \in (Len(a) + 1)..(Len(a) + Len(b)) /\ i - Len(a) \in 1..Len(b)
      BY <1>1, <2>3
    <3>. QED  BY <1>1, <1>2, <2>1, <3>1
  <2>. QED  BY <2>2, <2>3
<1>4. ASSUME NEW y \in ToSet(a) PROVE y \in ToSet(a \o b)
  <2>1. PICK i \in 1..Len(a) : a[i] = y
    BY <1>2
  <2>2. i \in 1..Len(a \o b)
    BY <1>1
  <2>. QED  BY <1>1, <1>2, <2>1, <2>2
<1>5. ASSUME NEW y \in ToSet(b) PROVE y \in ToSet(a \o b)
  <2>1. PICK i \in 1..Len(b) : b[i] = y
    BY <1>2
  <2>2. /\ Len(a) + i \in 1..Len(a \o b) /\ (Len(a) + i) - Len(a) = i
        /\ Len(a) + i \in (Len(a) + 1)..(Len(a) + Len(b))
    BY <1>1
  <2>. QED  BY <1>1, <1>2, <2>1, <2>2
<1>. QED  BY <1>1, <1>3, <1>4, <1>5

\* No element, and one, are lists.
LEMMA ShortLists == << >> \in Seq(ToSet(<< >>)) /\ \A x : <<x>> \in Seq(ToSet(<<x>>)) /\ ToSet(<<x>>) = {x}
<1>1. ASSUME NEW x PROVE ToSet(<<x>>) = {x}
  BY DEF ToSet
<1>. QED  BY <1>1

\* A list of elements of a set is one of a larger set.
LEMMA SeqOfMore ==
  ASSUME NEW U, NEW V, U \subseteq V, NEW s \in Seq(U)
  PROVE  s \in Seq(V)
OBVIOUS

\* Three lists are joined in any grouping.
LEMMA Regrouped ==
  ASSUME NEW U, NEW a \in Seq(U), NEW b \in Seq(U), NEW c \in Seq(U),
         NEW ab, ab = a \o b, NEW bc, bc = b \o c
  PROVE  a \o bc = ab \o c
OBVIOUS

\* A list is its first element and the others.
LEMMA TailOfList ==
  ASSUME NEW P, NEW s \in Seq(P), s # << >>
  PROVE  /\ Head(s) \in P /\ Tail(s) \in Seq(P) /\ s = <<Head(s)>> \o Tail(s)
         /\ ToSet(s) = {Head(s)} \cup ToSet(Tail(s))
         /\ NoneTwice(s) => NoneTwice(Tail(s)) /\ Head(s) \notin ToSet(Tail(s))
<1>. DEFINE t == Tail(s)
<1>1. /\ Head(s) \in P /\ t \in Seq(P) /\ s = <<Head(s)>> \o t
      /\ Len(s) \in Nat /\ Len(s) > 0 /\ Len(t) = Len(s) - 1 /\ Head(s) = s[1]
      /\ \A i \in 1..Len(t) : t[i] = s[i + 1]
  OBVIOUS
<1>. HIDE DEF t
<1>2. ASSUME NEW y PROVE y \in ToSet(s) <=> y \in {Head(s)} \cup ToSet(t)
  <2>1. y \in ToSet(s) <=> \E i \in 1..Len(s) : s[i] = y
    BY InList
  <2>2. y \in ToSet(t) <=> \E i \in 1..Len(t) : t[i] = y
    BY <1>1, InList
  <2>3. \A i \in 1..Len(s) : i # 1 => i - 1 \in 1..Len(t) /\ (i - 1) + 1 = i
    BY <1>1
  <2>4. \A i \in 1..Len(t) : i + 1 \in 1..Len(s) /\ 1 \in 1..Len(s)
    BY <1>1
  <2>5. 1 \in 1..Len(s)
    BY <1>1
  <2>6. ASSUME y \in ToSet(s), y # Head(s) PROVE y \in ToSet(t)
    <3>1. PICK i \in 1..Len(s) : s[i] = y
      BY <2>1, <2>6
    <3>2. i # 1
      BY <1>1, <2>6, <3>1
    <3>3. i - 1 \in 1..Len(t) /\ t[i - 1] = y
      BY <1>1, <2>3, <3>1, <3>2
    <3>. QED  BY <2>2, <3>3
  <2>7. ASSUME y \in ToSet(t) PROVE y \in ToSet(s)
    <3>1. PICK i \in 1..Len(t) : t[i] = y
      BY <2>2, <2>7
    <3>. QED  BY <1>1, <2>1, <2>4, <3>1
  <2>8. Head(s) \in ToSet(s)
    <3>1. \A z : z \in ToSet(s) <=> \E i \in 1..Len(s) : s[i] = z
      BY InList
    <3>. QED  BY <1>1, <2>5, <3>1
  <2>. QED  BY <2>6, <2>7, <2>8
<1>3. ASSUME NoneTwice(s) PROVE NoneTwice(t) /\ Head(s) \notin ToSet(t)
  <2>1. \A i \in 1..Len(t) : i + 1 \in 1..Len(s) /\ 1 \in 1..Len(s) /\ i + 1 # 1
    BY <1>1
  <2>2. NoneTwice(t)
    <3>. SUFFICES ASSUME NEW j \in 1..Len(t), NEW k \in 1..Len(t), t[j] = t[k] PROVE j = k
      BY DEF NoneTwice
    <3>1. j + 1 = k + 1
      BY <1>1, <1>3, <2>1 DEF NoneTwice
    <3>. QED  BY <1>1, <3>1
  <2>3. Head(s) \notin ToSet(t)
    <3>. SUFFICES ASSUME NEW j \in 1..Len(t), t[j] = Head(s) PROVE FALSE
      BY <1>1, InList
    <3>. QED  BY <1>1, <1>3, <2>1 DEF NoneTwice
  <2>. QED  BY <2>2, <2>3
<1>. QED  BY <1>1, <1>2, <1>3 DEF t
=============================================================================
