--------------------------- MODULE ArrayListOps ----------------------------
(***************************************************************************)
(* The functions of array_lists.h and array_lists.c that take an ArrayList *)
(* and change it.  A list is the record of the C struct; data is a         *)
(* function on the allocated indices, and a slot that realloc gave and     *)
(* nobody wrote holds Junk.                                                *)
(***************************************************************************)
EXTENDS Generics, Integers

CONSTANTS
  Junk,        \* content of memory nobody has written
  ARRAY_LIST_AUTORESIZE_FACTOR,
  FillSlack,   \* 30: extra capacity asked for by ArrayListResizeFill
  GrowStep     \* 17: how far an access out of range extends the list

ASSUME ArrayListAssumption ==
  /\ Junk \notin Element
  /\ ARRAY_LIST_AUTORESIZE_FACTOR \in Nat
  /\ FillSlack \in Nat
  /\ GrowStep \in Nat \ {0}

Slots(n) == 0 .. n - 1

ArrayListNew == [data |-> [i \in Slots(0) |-> Junk], alloc_size |-> 0, size |-> 0]

-----------------------------------------------------------------------------
(* Capacity *)

ArrayListResizeCapacity(l, min_size) ==
  IF l.alloc_size > min_size \/ min_size <= 0 THEN l
  ELSE [data       |-> [i \in Slots(min_size + 1) |->
                          IF i < l.alloc_size THEN l.data[i] ELSE Junk],
        alloc_size |-> min_size + 1,
        size       |-> l.size]

ArrayListResize(l, min_size) ==
  IF l.alloc_size > min_size THEN l
  ELSE IF min_size <= 0 THEN ArrayListResizeCapacity(l, 2)
  ELSE ArrayListResizeCapacity(
         ArrayListResizeCapacity(l, l.alloc_size * ARRAY_LIST_AUTORESIZE_FACTOR),
         min_size)

\* The operators named Mutant... are plausible slips in the definition that
\* follows each of them; nothing else uses them.
MutantNoFill(l, min_size, ctor) ==
  IF l.size >= min_size THEN l
  ELSE [ArrayListResize(l, min_size + FillSlack) EXCEPT !.size = min_size]

\* ctor is what the constructor returns; ArrayListResizeFill uses NULL.
ArrayListResizeFillWith(l, min_size, ctor) ==
  IF l.size >= min_size THEN l
  ELSE LET g == ArrayListResize(l, min_size + FillSlack)
       IN  [data       |-> [i \in Slots(g.alloc_size) |->
                              IF i \in l.size .. min_size - 1 THEN ctor ELSE g.data[i]],
            alloc_size |-> g.alloc_size,
            size       |-> min_size]

ArrayListResizeFill(l, min_size) == ArrayListResizeFillWith(l, min_size, NULL)

-----------------------------------------------------------------------------
(* Operations *)

\* l with value at index i, its size set to n
Put(l, i, value, n) ==
  [data |-> [l.data EXCEPT ![i] = value], alloc_size |-> l.alloc_size, size |-> n]

ArrayListPushBack(l, value) ==
  Put(ArrayListResize(l, l.size + 1), l.size, value, l.size + 1)

MutantOnlyNulled(l) ==
  IF l.size = 0 THEN l ELSE Put(l, l.size - 1, NULL, l.size)

ArrayListPopBack(l) ==
  IF l.size = 0 THEN l ELSE Put(l, l.size - 1, NULL, l.size - 1)

ArrayListLast(l) == IF l.size = 0 THEN NULL ELSE l.data[l.size - 1]

MutantCapacityLost(l) == [l EXCEPT !.alloc_size = 0, !.size = 0]

ArrayListClear(l) ==
  [data       |-> [i \in Slots(l.alloc_size) |-> IF i < l.size THEN NULL ELSE l.data[i]],
   alloc_size |-> l.alloc_size,
   size       |-> 0]

ArrayListDestroy(l) == IF l.alloc_size <= 0 THEN l ELSE ArrayListNew

\* An access out of range, a negative position included, extends the list.
InRange(l, position) == position >= 0 /\ position < l.size

Reach(l, position) ==
  IF InRange(l, position) THEN l ELSE ArrayListResizeFill(l, position + GrowStep)

ArrayListGetValueAt(l, position) ==
  IF InRange(Reach(l, position), position) THEN Reach(l, position).data[position] ELSE NULL

ArrayListSetValueAt(l, position, value) ==
  IF InRange(Reach(l, position), position)
  THEN Put(Reach(l, position), position, value, Reach(l, position).size)
  ELSE Reach(l, position)

ArrayListCopy(l) ==
  LET n == ArrayListResize(ArrayListNew, l.size)
  IN  [data       |-> [i \in Slots(n.alloc_size) |-> IF i < l.size THEN l.data[i] ELSE n.data[i]],
       alloc_size |-> n.alloc_size,
       size       |-> l.size]

ArrayListMap(l) ==
  [l EXCEPT !.data = [i \in Slots(l.alloc_size) |->
                        IF i < l.size THEN Modifier[l.data[i]] ELSE l.data[i]]]

ArrayListDeepCopy(l) == ArrayListMap(ArrayListCopy(l))
=============================================================================
