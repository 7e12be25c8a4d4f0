----------------------------- MODULE LinkedList -----------------------------
(***************************************************************************)
(* dynamic_lists.h and dynamic_lists.c: a doubly linked list on the heap.  *)
(* A state of the heap and of the roots of the lists is the record         *)
(* [node, root]: node maps every allocated block to its right, value and   *)
(* left fields, root maps a list to its begin and end.  Operators are the  *)
(* functions of the file: they take such a record and return the next one. *)
(***************************************************************************)
EXTENDS Generics, Integers, Sequences, SequencesExt

CONSTANTS
  Blocks,       \* bound: the heap has room for this many nodes
  Lists,        \* the lists of a program
  CopyChunk     \* 5: from this size on ListCopy builds the chain in one go

ASSUME LinkedListAssumption ==
  /\ NULL \notin Blocks \cup Lists
  /\ IsFiniteSet(Blocks)
  /\ CopyChunk \in Nat \ {0}

VARIABLES
  heap,    \* [node, root]
  lcall    \* history: the last call and what it returned

listVars == <<heap, lcall>>

-----------------------------------------------------------------------------
(* Nodes *)

SetRight(n, b, c) == IF b = NULL THEN n ELSE [n EXCEPT ![b].right = c]
SetLeft(n, b, c)  == IF b = NULL THEN n ELSE [n EXCEPT ![b].left = c]

ListMakeNode(n, b, left, value, right) ==
  [x \in DOMAIN n \cup {b} |->
     IF x = b THEN [right |-> right, value |-> value, left |-> left] ELSE n[x]]

FREE(n, bs) == [b \in DOMAIN n \ bs |-> n[b]]

\* malloc returns some block that is not in use; which one is of no consequence.
Fresh(n) == CHOOSE b \in Blocks : b \notin DOMAIN n

Room(h, k) == Cardinality(Blocks \ DOMAIN h.node) >= k

\* The blocks met from b on along the field dir, as many as there are at most.
Chain(n, b, dir) ==
  LET from[k \in 0 .. Cardinality(DOMAIN n)] ==
        [x \in Blocks \cup {NULL} |->
           IF k = 0 \/ x \notin DOMAIN n THEN <<>> ELSE <<x>> \o from[k-1][n[x][dir]]]
  IN  from[Cardinality(DOMAIN n)][b]

LOOP_LIST(h, l) == Chain(h.node, h.root[l].begin, "right")

Values(h, l) == [k \in 1 .. Len(LOOP_LIST(h, l)) |-> h.node[LOOP_LIST(h, l)[k]].value]

ListNew == [begin |-> NULL, end |-> NULL]

WithRoot(h, l, b, e) == [h.root EXCEPT ![l] = [begin |-> b, end |-> e]]

-----------------------------------------------------------------------------
(* Both ends.  The operators named Mutant... are plausible slips in the     *)
(* definition that follows each of them; nothing else uses them.           *)

ListPushBack(h, l, value) ==
  LET r == h.root[l]
      b == Fresh(h.node)
  IN  [node |-> SetRight(ListMakeNode(h.node, b, r.end, value, NULL), r.end, b),
       root |-> WithRoot(h, l, IF r.begin = NULL THEN b ELSE r.begin, b)]

ListPushFront(h, l, value) ==
  LET r == h.root[l]
      b == Fresh(h.node)
  IN  [node |-> SetLeft(ListMakeNode(h.node, b, NULL, value, r.begin), r.begin, b),
       root |-> WithRoot(h, l, b, IF r.end = NULL THEN b ELSE r.end)]

MutantDanglingLeft(h, l) ==
  [node |-> FREE(h.node, {h.root[l].begin}),
   root |-> WithRoot(h, l, h.node[h.root[l].begin].right,
              IF h.root[l].begin = h.root[l].end THEN NULL ELSE h.root[l].end)]

ListPopFront(h, l) ==
  LET r == h.root[l]
      new_begin == h.node[r.begin].right
  IN  [node |-> FREE(SetLeft(h.node, new_begin, NULL), {r.begin}),
       root |-> WithRoot(h, l, new_begin, IF new_begin = NULL THEN NULL ELSE r.end)]

ListPopBack(h, l) ==
  LET r == h.root[l]
      new_end == h.node[r.end].left
  IN  [node |-> FREE(SetRight(h.node, new_end, NULL), {r.end}),
       root |-> WithRoot(h, l, IF new_end = NULL THEN NULL ELSE r.begin, new_end)]

ListFirst(h, l) == h.node[h.root[l].begin].value
ListLast(h, l)  == h.node[h.root[l].end].value

\* ListClear frees along left from the end, ListDestroy along right from the begin.
ListClear(h, l) ==
  [node |-> FREE(h.node, Range(Chain(h.node, h.root[l].end, "left"))),
   root |-> WithRoot(h, l, NULL, NULL)]

ListDestroy(h, l) ==
  [node |-> FREE(h.node, Range(LOOP_LIST(h, l))), root |-> WithRoot(h, l, NULL, NULL)]

-----------------------------------------------------------------------------
(* In the middle: b is a node of the list *)

ListDetachElement(h, l, b) ==
  LET left_neighbour  == h.node[b].left
      right_neighbour == h.node[b].right
      r == h.root[l]
  IN  [node |-> FREE(SetLeft(SetRight(h.node, left_neighbour, right_neighbour),
                             right_neighbour, left_neighbour), {b}),
       root |-> WithRoot(h, l,
                  IF left_neighbour = NULL THEN right_neighbour ELSE r.begin,
                  IF right_neighbour = NULL THEN left_neighbour ELSE r.end)]

MutantSourceKept(h, tgt, b, src) == h

\* The nodes of src move in front of node b of tgt.
ListInsertListAt(h, tgt, b, src) ==
  LET s == h.root[src]
      left == h.node[b].left
      joined == SetLeft(SetRight(h.node, left, s.begin), s.begin, left)
  IN  IF s.begin = NULL \/ s.end = NULL THEN h
      ELSE [node |-> SetLeft(SetRight(joined, s.end, b), b, s.end),
            root |-> [h.root EXCEPT
                        ![tgt].begin = IF left = NULL THEN s.begin ELSE @,
                        ![src] = ListNew]]

\* The wrapper list of the code: pushed to, moved into the target, destroyed.
ListInsertElementAt(h, tgt, b, value) ==
  LET wrapper == [h EXCEPT !.root = [l \in DOMAIN @ \cup {NULL} |->
                                       IF l = NULL THEN ListNew ELSE @[l]]]
      done == ListDestroy(ListInsertListAt(ListPushBack(wrapper, NULL, value), tgt, b, NULL), NULL)
  IN  [done EXCEPT !.root = [l \in DOMAIN h.root |-> done.root[l]]]

MutantKeepEnd(h, src, b, ret) ==
  LET right == h.node[b].right
  IN  [node |-> SetLeft(SetRight(h.node, b, NULL), right, NULL),
       root |-> [h.root EXCEPT ![ret] = IF right = NULL THEN ListNew
                                        ELSE [begin |-> right, end |-> h.root[src].end]]]

\* What is right of b becomes the list ret.
ListSplit(h, src, b, ret) ==
  LET right == h.node[b].right
  IN  [node |-> SetLeft(SetRight(h.node, b, NULL), right, NULL),
       root |-> [h.root EXCEPT ![src].end = b,
                               ![ret] = IF right = NULL THEN ListNew
                                        ELSE [begin |-> right, end |-> h.root[src].end]]]

-----------------------------------------------------------------------------
(* Whole lists *)

ListCopyInto(h, src, tgt) ==
  LET pushed[k \in 0 .. Len(Values(h, src))] ==
        IF k = 0 THEN h ELSE ListPushBack(pushed[k-1], tgt, Values(h, src)[k])
  IN  pushed[Len(Values(h, src))]

\* A short list is copied element by element, a longer one as a chain of new
\* nodes that are linked afterwards; ret is a new list.
ListCopy(h, l, ret) ==
  LET n == Len(Values(h, l))
      chunk == SubSeq(SetToSeq(Blocks \ DOMAIN h.node), 1, n)
      At(k) == IF k \in 1 .. n THEN chunk[k] ELSE NULL
      linked == [b \in Range(chunk) |->
                   LET k == CHOOSE i \in 1 .. n : chunk[i] = b
                   IN  [right |-> At(k+1), value |-> Values(h, l)[k], left |-> At(k-1)]]
  IN  IF n < CopyChunk THEN ListCopyInto(h, l, ret)
      ELSE [node |-> [b \in DOMAIN h.node \cup Range(chunk) |->
                         IF b \in Range(chunk) THEN linked[b] ELSE h.node[b]],
               root |-> WithRoot(h, ret, At(1), At(n))]

ListMap(h, l) ==
  [h EXCEPT !.node = [b \in DOMAIN h.node |->
     IF b \in Range(LOOP_LIST(h, l)) THEN [h.node[b] EXCEPT !.value = Modifier[@]] ELSE h.node[b]]]

ListDeepCopy(h, l, ret) == ListMap(ListCopy(h, l, ret), ret)

ListSetValue(h, b, value) == [h EXCEPT !.node[b].value = value]

ListGetValueAt(h, l, position) ==
  IF position \in 0 .. Len(Values(h, l)) - 1 THEN Values(h, l)[position + 1] ELSE NULL

-----------------------------------------------------------------------------
(* The callers.  A call finds the memory it needs (malloc failing ends the  *)
(* process, memalloc.h), and a call that returns a list returns a new one. *)

Call(h, c) == heap' = h /\ lcall' = c

IsEmpty(l) == heap.root[l].begin = NULL /\ heap.root[l].end = NULL

Push(l, v) ==
  /\ Room(heap, 1)
  /\ \/ Call(ListPushBack(heap, l, v), <<"PushBack", l, v>>)
     \/ Call(ListPushFront(heap, l, v), <<"PushFront", l, v>>)

Pop(l) ==
  /\ ~ IsEmpty(l)
  /\ \/ Call(ListPopBack(heap, l), <<"PopBack", l, ListLast(heap, l)>>)
     \/ Call(ListPopFront(heap, l), <<"PopFront", l, ListFirst(heap, l)>>)

Discard(l) ==
  Call(ListClear(heap, l), <<"Empty", l>>) \/ Call(ListDestroy(heap, l), <<"Empty", l>>)

Read(l, p) == Call(heap, <<"Get", l, p, ListGetValueAt(heap, l, p)>>)

AtNode(l, k) ==
  LET b == LOOP_LIST(heap, l)[k]
  IN  \/ Call(ListDetachElement(heap, l, b), <<"Detach", l, k>>)
      \/ \E v \in Element : Call(ListSetValue(heap, b, v), <<"Set", l, k-1, v>>)
      \/ \E v \in Element :
           Room(heap, 1) /\ Call(ListInsertElementAt(heap, l, b, v), <<"InsertElement", l, k, v>>)
      \/ \E s \in Lists \ {l} :
           \/ Call(ListInsertListAt(heap, l, b, s), <<"InsertList", l, k, s>>)
           \/ IsEmpty(s) /\ Call(ListSplit(heap, l, b, s), <<"Split", l, k, s>>)

Duplicate(l, t) ==
  /\ Room(heap, Len(Values(heap, l)))
  /\ \/ Call(ListCopyInto(heap, l, t), <<"CopyInto", l, t>>)
     \/ IsEmpty(t) /\ Call(ListCopy(heap, l, t), <<"Copy", l, t>>)
     \/ IsEmpty(t) /\ Call(ListDeepCopy(heap, l, t), <<"DeepCopy", l, t>>)

ListInit ==
  /\ heap = [node |-> <<>>, root |-> [l \in Lists |-> ListNew]]
  /\ lcall = <<"new">>

ListNext ==
  \E l \in Lists :
    \/ \E v \in Element : Push(l, v)
    \/ Pop(l)
    \/ Discard(l)
    \/ Call(ListMap(heap, l), <<"Map", l>>)
    \/ \E p \in -1 .. Len(Values(heap, l)) : Read(l, p)
    \/ \E k \in 1 .. Len(LOOP_LIST(heap, l)) : AtNode(l, k)
    \/ \E t \in Lists \ {l} : Duplicate(l, t)

ListSpec == ListInit /\ [][ListNext]_listVars

-----------------------------------------------------------------------------
(* Properties *)

\* Type correctness: no field and no root points to a block that was freed.
ListTypeOK ==
  LET Pointer == DOMAIN heap.node \cup {NULL} IN
  /\ DOMAIN heap.node \subseteq Blocks
  /\ \A b \in DOMAIN heap.node :
       heap.node[b] \in [right : Pointer, value : Element, left : Pointer]
  /\ heap.root \in [Lists -> [begin : Pointer, end : Pointer]]

\* A list reads the same in both directions, its two ends agree on whether it
\* is empty, no node is in two lists, and every allocated node is in one: the
\* insertions and the splits of dynamic_lists.c relink up to four pointers and
\* two roots, and a slip shows only when the list is walked the other way.
ListsWellLinked ==
  LET Nodes(l) == LOOP_LIST(heap, l)
  IN  /\ \A l \in Lists :
           /\ Reverse(Nodes(l)) = Chain(heap.node, heap.root[l].end, "left")
           /\ Len(Nodes(l)) = Cardinality(Range(Nodes(l)))
           /\ Nodes(l) # <<>> => /\ heap.node[Head(Nodes(l))].left = NULL
                                 /\ heap.node[Last(Nodes(l))].right = NULL
      /\ \A l, m \in Lists : l # m => Range(Nodes(l)) \cap Range(Nodes(m)) = {}
      /\ UNION {Range(Nodes(l)) : l \in Lists} = DOMAIN heap.node

ListSeq == INSTANCE SequenceSpec WITH
  Ids <- Lists, Elem <- Element, Nil <- NULL, Fn <- Modifier,
  seqs <- [l \in Lists |-> Values(heap, l)], call <- lcall

\* Every call of dynamic_lists.c has the effect and the result of the sequence
\* operation it is named after, on both lists it touches.
ListsAreSequences == ListSeq!Spec
=============================================================================
