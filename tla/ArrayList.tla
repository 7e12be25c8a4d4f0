----------------------------- MODULE ArrayList ------------------------------
(***************************************************************************)
(* array_lists.h and array_lists.c: the lists of a program and the calls   *)
(* it makes, LOOP_ARRAY_LIST and its iterator included.                    *)
(***************************************************************************)
EXTENDS ArrayListOps

CONSTANTS
  Arrays,      \* the ArrayLists of a program
  MaxArray     \* bound: callers keep an ArrayList this short

ASSUME ArraysAssumption == NULL \notin Arrays /\ MaxArray \in Nat

VARIABLES
  arr,    \* the lists
  loop,   \* the iterator and the target of a running ArrayListCopyInto
  acall   \* history: the last call and what it returned

arrayVars == <<arr, loop, acall>>

-----------------------------------------------------------------------------
(* Iterators *)

NoIterator == [target |-> NULL, position |-> 0]

ArrayListBegin(a) ==
  IF arr[a].size = 0 THEN NoIterator ELSE [target |-> a, position |-> 0]

ArrayListIsEnd(it) == it.target = NULL \/ it.position >= arr[it.target].size

ArrayListGetValue(it) == arr[it.target].data[it.position]

ArrayListNext(it) ==
  IF ArrayListIsEnd(it) THEN NoIterator ELSE [it EXCEPT !.position = @ + 1]

NoLoop == [it |-> NoIterator, tgt |-> NULL]

-----------------------------------------------------------------------------
(* The callers.  A call keeps the list within MaxArray. *)

Store(a, l, c) ==
  /\ l.size <= MaxArray
  /\ arr' = [arr EXCEPT ![a] = l]
  /\ acall' = c
  /\ UNCHANGED loop

ArrayCalls(a) ==
  \/ \E v \in Element : Store(a, ArrayListPushBack(arr[a], v), <<"PushBack", a, v>>)
  \/ /\ arr[a].size > 0
     /\ Store(a, ArrayListPopBack(arr[a]), <<"PopBack", a, ArrayListLast(arr[a])>>)
  \/ Store(a, ArrayListClear(arr[a]), <<"Empty", a>>)
  \/ Store(a, ArrayListDestroy(arr[a]), <<"Empty", a>>)
  \/ Store(a, ArrayListMap(arr[a]), <<"Map", a>>)
  \/ \E p \in -1 .. arr[a].size + 1 :
       \/ Store(a, Reach(arr[a], p), <<"Get", a, p, ArrayListGetValueAt(arr[a], p)>>)
       \/ \E v \in Element : Store(a, ArrayListSetValueAt(arr[a], p, v), <<"Set", a, p, v>>)
  \/ \E n \in 0 .. MaxArray :
       \/ Store(a, ArrayListResize(arr[a], n), <<"Resize", a>>)
       \/ \E v \in Element : Store(a, ArrayListResizeFillWith(arr[a], n, v), <<"Fill", a, n, v>>)
  \/ \E b \in Arrays \ {a} :
       \/ Store(a, ArrayListCopy(arr[b]), <<"Copy", b, a>>)
       \/ Store(a, ArrayListDeepCopy(arr[b]), <<"DeepCopy", b, a>>)

\* ArrayListCopyInto: one step per turn of LOOP_ARRAY_LIST, nothing in between.
CopyIntoBegin(a, b) ==
  /\ arr[a].size + arr[b].size <= MaxArray
  /\ ~ ArrayListIsEnd(ArrayListBegin(a))
  /\ loop' = [it |-> ArrayListBegin(a), tgt |-> b]
  /\ UNCHANGED <<arr, acall>>

CopyIntoTurn ==
  /\ ~ ArrayListIsEnd(loop.it)
  /\ arr' = [arr EXCEPT ![loop.tgt] = ArrayListPushBack(@, ArrayListGetValue(loop.it))]
  /\ acall' = <<"PushBack", loop.tgt, ArrayListGetValue(loop.it)>>
  /\ loop' = [loop EXCEPT !.it = ArrayListNext(@)]

CopyIntoEnd ==
  /\ ArrayListIsEnd(loop.it)
  /\ loop' = NoLoop
  /\ UNCHANGED <<arr, acall>>

ArrayInit ==
  /\ arr = [a \in Arrays |-> ArrayListNew]
  /\ loop = NoLoop
  /\ acall = <<"new">>

ArrayNext ==
  \/ /\ loop = NoLoop
     /\ \E a \in Arrays : ArrayCalls(a) \/ \E b \in Arrays \ {a} : CopyIntoBegin(a, b)
  \/ loop # NoLoop /\ (CopyIntoTurn \/ CopyIntoEnd)

ArraySpec == ArrayInit /\ [][ArrayNext]_arrayVars

-----------------------------------------------------------------------------
(* Properties *)

ArrayListType(l) ==
  /\ l.alloc_size \in Nat /\ l.size \in Nat
  /\ l = [data |-> l.data, alloc_size |-> l.alloc_size, size |-> l.size]
  /\ l.data \in [Slots(l.alloc_size) -> Element \cup {Junk}]

LoopType(x) ==
  /\ x = [it |-> x.it, tgt |-> x.tgt]
  /\ x.it = [target |-> x.it.target, position |-> x.it.position]
  /\ x.tgt \in Arrays
  /\ x.it.target \in (Arrays \cup {NULL}) \ {x.tgt}
  /\ x.it.position \in Nat

\* Type correctness: data has one cell for each slot of the allocated block, and
\* LOOP_ARRAY_LIST never reads the list that ArrayListCopyInto appends to.
ArrayTypeOK ==
  /\ arr = [a \in Arrays |-> arr[a]]
  /\ \A a \in Arrays : ArrayListType(arr[a])
  /\ loop = NoLoop \/ LoopType(loop)

\* The size never passes the block that was allocated, and no element of a list
\* is memory nobody has written: array_lists.c grows a block before it fills it,
\* in four functions that compute the new capacity in different ways.
NeverJunk ==
  \A a \in Arrays :
    /\ arr[a].size <= arr[a].alloc_size
    /\ \A i \in Slots(arr[a].size) : arr[a].data[i] # Junk

Content(l) == [k \in 1 .. l.size |-> l.data[k-1]]

ArraySeq == INSTANCE SequenceSpec WITH
  Ids <- Arrays, Elem <- Element, Nil <- NULL, Fn <- Modifier,
  seqs <- [a \in Arrays |-> Content(arr[a])], call <- acall

\* Every call of array_lists.c has the effect and the result of the sequence
\* operation it is named after, through all reallocations.
ArraysAreSequences == ArraySeq!Spec
=============================================================================
