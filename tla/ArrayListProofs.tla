--------------------------- MODULE ArrayListProofs --------------------------
(***************************************************************************)
(* The lists of array_lists.c never hold memory that nobody has written:   *)
(* one lemma per function says that it keeps a list well formed, and the   *)
(* invariant of the callers follows.  A second one says what it does to    *)
(* the content, and the lists implement sequences.                         *)
(***************************************************************************)
EXTENDS ArrayList, SequenceTheorems, TLAPS

WellFormed(l) ==
  /\ ArrayListType(l)
  /\ l.size <= l.alloc_size
  /\ \A i \in Slots(l.size) : l.data[i] # Junk

(* ArrayListNew returns a list with no block.                              *)
LEMMA NewWellFormed == WellFormed(ArrayListNew) /\ ArrayListNew.size = 0
BY DEF WellFormed, ArrayListType, ArrayListNew, Slots

(* A well-formed list is a record whose data is typed.                     *)
LEMMA FieldTypes ==
  ASSUME NEW l, WellFormed(l)
  PROVE  /\ l = [data |-> l.data, alloc_size |-> l.alloc_size, size |-> l.size]
         /\ l.data \in [Slots(l.alloc_size) -> Element \cup {Junk}]
         /\ l.alloc_size \in Nat /\ l.size \in Nat /\ l.size <= l.alloc_size
         /\ \A i \in Slots(l.size) : i \in Slots(l.alloc_size) /\ l.data[i] \in Element
BY DEF WellFormed, ArrayListType, Slots

(* A record of typed fields, filled up to its size, is well formed.        *)
LEMMA RecordWellFormed ==
  ASSUME NEW d, NEW a \in Nat, NEW s \in Nat, s <= a,
         d \in [Slots(a) -> Element \cup {Junk}],
         \A i \in Slots(s) : d[i] \in Element
  PROVE  WellFormed([data |-> d, alloc_size |-> a, size |-> s])
BY ArrayListAssumption DEF WellFormed, ArrayListType, Slots

(* What a growing function keeps of a list.                                *)
Grown(l, g) ==
  /\ WellFormed(g)
  /\ g.size = l.size
  /\ g.alloc_size >= l.alloc_size
  /\ \A i \in Slots(l.size) : g.data[i] = l.data[i]

(* ArrayListResizeCapacity keeps the elements and reaches the size asked   *)
(* for, if it is positive.                                                 *)
LEMMA ResizeCapacityGrows ==
  ASSUME NEW l, WellFormed(l), NEW m \in Int
  PROVE  /\ Grown(l, ArrayListResizeCapacity(l, m))
         /\ m > 0 => ArrayListResizeCapacity(l, m).alloc_size > m
<1> DEFINE d == [i \in Slots(m + 1) |-> IF i < l.alloc_size THEN l.data[i] ELSE Junk]
<1>1. CASE l.alloc_size > m \/ m <= 0
  BY <1>1, FieldTypes DEF ArrayListResizeCapacity, Grown
<1>2. CASE ~ (l.alloc_size > m \/ m <= 0)
  <2>1. l.alloc_size \in Nat /\ l.size \in Nat /\ l.size <= l.alloc_size /\ m + 1 \in Nat
    BY <1>2, FieldTypes
  <2>2. m + 1 > l.alloc_size
    BY <2>1, <1>2, FieldTypes
  <2>3. d \in [Slots(m + 1) -> Element \cup {Junk}]
    BY <2>1, FieldTypes DEF Slots
  <2>4. \A i \in Slots(l.size) : d[i] = l.data[i] /\ d[i] \in Element
    BY <2>1, <2>2, FieldTypes DEF Slots
  <2> HIDE DEF d
  <2>5. WellFormed([data |-> d, alloc_size |-> m + 1, size |-> l.size])
    BY <2>1, <2>2, <2>3, <2>4, RecordWellFormed
  <2>6. ArrayListResizeCapacity(l, m) = [data |-> d, alloc_size |-> m + 1, size |-> l.size]
    BY <1>2 DEF ArrayListResizeCapacity, d
  <2> QED BY <2>1, <2>2, <2>4, <2>5, <2>6 DEF Grown
<1> QED BY <1>1, <1>2

(* Growing is transitive.                                                  *)
LEMMA GrownTransitive ==
  ASSUME NEW l, NEW g, NEW h, WellFormed(l), Grown(l, g), Grown(g, h)
  PROVE  Grown(l, h)
BY FieldTypes DEF Grown

(* ArrayListResize reaches the size asked for.                             *)
LEMMA ResizeGrows ==
  ASSUME NEW l, WellFormed(l), NEW m \in Int
  PROVE  Grown(l, ArrayListResize(l, m)) /\ ArrayListResize(l, m).alloc_size > m
<1>0. l.alloc_size \in Nat
  BY FieldTypes
<1>1. CASE l.alloc_size > m
  BY <1>1, FieldTypes DEF ArrayListResize, Grown
<1>2. CASE ~ (l.alloc_size > m) /\ m <= 0
  <2>1. Grown(l, ArrayListResizeCapacity(l, 2)) /\ ArrayListResizeCapacity(l, 2).alloc_size > 2
    BY ResizeCapacityGrows
  <2>2. ArrayListResize(l, m) = ArrayListResizeCapacity(l, 2)
    BY <1>2 DEF ArrayListResize
  <2>3. ArrayListResizeCapacity(l, 2).alloc_size \in Nat
    BY <2>1, FieldTypes DEF Grown
  <2> QED BY <1>2, <2>1, <2>2, <2>3
<1>3. CASE ~ (l.alloc_size > m) /\ ~ (m <= 0)
  <2> DEFINE n == l.alloc_size * ARRAY_LIST_AUTORESIZE_FACTOR
  <2> DEFINE g == ArrayListResizeCapacity(l, n)
  <2>1. n \in Int
    BY <1>0, ArrayListAssumption
  <2>2. Grown(l, g)
    BY <2>1, ResizeCapacityGrows
  <2>3. WellFormed(g)
    BY <2>2 DEF Grown
  <2>4. Grown(g, ArrayListResizeCapacity(g, m)) /\ ArrayListResizeCapacity(g, m).alloc_size > m
    BY <1>3, <2>3, ResizeCapacityGrows
  <2>5. ArrayListResize(l, m) = ArrayListResizeCapacity(g, m)
    BY <1>3 DEF ArrayListResize
  <2> HIDE DEF g
  <2> QED BY <2>2, <2>4, <2>5, GrownTransitive
<1> QED BY <1>0, <1>1, <1>2, <1>3

(* ArrayListResizeFillWith writes every slot that the new size uncovers.   *)
LEMMA FillWithWellFormed ==
  ASSUME NEW l, WellFormed(l), NEW m \in Int, NEW ctor \in Element
  PROVE  WellFormed(ArrayListResizeFillWith(l, m, ctor))
<1>1. CASE l.size >= m
  BY <1>1 DEF ArrayListResizeFillWith
<1>2. CASE ~ (l.size >= m)
  <2> DEFINE g == ArrayListResize(l, m + FillSlack)
             d == [i \in Slots(g.alloc_size) |->
                     IF i \in l.size .. m - 1 THEN ctor ELSE g.data[i]]
  <2>1. l.size \in Nat /\ m \in Nat /\ FillSlack \in Nat
    BY <1>2, FieldTypes, ArrayListAssumption
  <2>2. Grown(l, g) /\ g.alloc_size > m + FillSlack
    BY <2>1, ResizeGrows
  <2>3. WellFormed(g) /\ g.size = l.size
    BY <2>2 DEF Grown
  <2> HIDE DEF g
  <2>4. g.alloc_size \in Nat /\ m <= g.alloc_size
    BY <2>1, <2>2, <2>3, FieldTypes
  <2>5. d \in [Slots(g.alloc_size) -> Element \cup {Junk}]
    BY <2>3, FieldTypes
  <2>6. \A i \in Slots(m) : d[i] \in Element
    <3>1. TAKE i \in Slots(m)
    <3>2. i \in Slots(g.alloc_size)
      BY <2>1, <2>4 DEF Slots
    <3>3. CASE i \in l.size .. m - 1
      BY <3>2, <3>3
    <3>4. CASE ~ (i \in l.size .. m - 1)
      <4>1. i \in Slots(g.size)
        BY <2>1, <2>3, <3>4 DEF Slots
      <4>2. g.data[i] \in Element
        BY <2>3, <4>1, FieldTypes
      <4> QED BY <3>2, <3>4, <4>2
    <3> QED BY <3>3, <3>4
  <2> HIDE DEF d
  <2>7. WellFormed([data |-> d, alloc_size |-> g.alloc_size, size |-> m])
    BY <2>1, <2>4, <2>5, <2>6, RecordWellFormed
  <2>8. ArrayListResizeFillWith(l, m, ctor) = [data |-> d, alloc_size |-> g.alloc_size, size |-> m]
    BY <1>2 DEF ArrayListResizeFillWith, d, g
  <2> QED BY <2>7, <2>8
<1> QED BY <1>1, <1>2

(* An access, in or out of range, leaves a well-formed list.               *)
LEMMA ReachWellFormed ==
  ASSUME NEW l, WellFormed(l), NEW p \in Int
  PROVE  WellFormed(Reach(l, p))
<1>1. p + GrowStep \in Int /\ NULL \in Element
  BY ArrayListAssumption DEF Element
<1> QED BY <1>1, FillWithWellFormed DEF Reach, ArrayListResizeFill

(* Writing an element, and setting a size that only covers elements.       *)
LEMMA PutWellFormed ==
  ASSUME NEW l, WellFormed(l), NEW i \in Slots(l.alloc_size), NEW v \in Element,
         NEW s \in Nat, s <= l.alloc_size,
         \A j \in Slots(s) : j # i => j \in Slots(l.size)
  PROVE  WellFormed(Put(l, i, v, s))
<1> DEFINE d == [l.data EXCEPT ![i] = v]
<1>1. d \in [Slots(l.alloc_size) -> Element \cup {Junk}]
  BY FieldTypes
<1>2. \A j \in Slots(s) : d[j] \in Element
  <2>1. TAKE j \in Slots(s)
  <2>2. j \in Slots(l.alloc_size)
    BY FieldTypes DEF Slots
  <2>3. CASE j = i
    BY <2>2, <2>3, FieldTypes
  <2>4. CASE j # i
    BY <2>2, <2>4, FieldTypes
  <2> QED BY <2>3, <2>4
<1> HIDE DEF d
<1>3. WellFormed([data |-> d, alloc_size |-> l.alloc_size, size |-> s])
  BY <1>1, <1>2, FieldTypes, RecordWellFormed
<1>4. Put(l, i, v, s) = [data |-> d, alloc_size |-> l.alloc_size, size |-> s]
  BY DEF Put, d
<1> QED BY <1>3, <1>4

(* ArrayListPushBack.                                                      *)
LEMMA PushBackWellFormed ==
  ASSUME NEW l, WellFormed(l), NEW v \in Element
  PROVE  WellFormed(ArrayListPushBack(l, v))
<1> DEFINE g == ArrayListResize(l, l.size + 1)
<1>1. l.size \in Nat
  BY FieldTypes
<1>2. Grown(l, g) /\ g.alloc_size > l.size + 1
  BY <1>1, ResizeGrows
<1> HIDE DEF g
<1>3. WellFormed(g) /\ g.size = l.size
  BY <1>2 DEF Grown
<1>4. g.alloc_size \in Nat
  BY <1>3, FieldTypes
<1>5. l.size \in Slots(g.alloc_size)
  BY <1>1, <1>2, <1>4 DEF Slots
<1>6. \A j \in Slots(l.size + 1) : j # l.size => j \in Slots(g.size)
  BY <1>1, <1>3 DEF Slots
<1>7. WellFormed(Put(g, l.size, v, l.size + 1))
  BY <1>1, <1>2, <1>3, <1>4, <1>5, <1>6, PutWellFormed
<1> QED BY <1>7 DEF ArrayListPushBack, g

(* ArrayListPopBack.                                                       *)
LEMMA PopBackWellFormed ==
  ASSUME NEW l, WellFormed(l)
  PROVE  WellFormed(ArrayListPopBack(l))
<1>1. CASE l.size = 0
  BY <1>1 DEF ArrayListPopBack
<1>2. CASE l.size # 0
  <2>1. l.size \in Nat /\ l.alloc_size \in Nat /\ l.size <= l.alloc_size
    BY FieldTypes
  <2>2. l.size - 1 \in Nat /\ l.size - 1 \in Slots(l.alloc_size) /\ l.size - 1 <= l.alloc_size
    BY <1>2, <2>1 DEF Slots
  <2>3. \A j \in Slots(l.size - 1) : j # l.size - 1 => j \in Slots(l.size)
    BY <2>1 DEF Slots
  <2>4. NULL \in Element
    BY DEF Element
  <2>5. WellFormed(Put(l, l.size - 1, NULL, l.size - 1))
    BY <2>2, <2>3, <2>4, PutWellFormed
  <2> QED BY <1>2, <2>5 DEF ArrayListPopBack
<1> QED BY <1>1, <1>2

(* ArrayListClear.                                                         *)
LEMMA ClearWellFormed ==
  ASSUME NEW l, WellFormed(l)
  PROVE  WellFormed(ArrayListClear(l))
<1> DEFINE d == [i \in Slots(l.alloc_size) |-> IF i < l.size THEN NULL ELSE l.data[i]]
<1>1. d \in [Slots(l.alloc_size) -> Element \cup {Junk}]
  BY FieldTypes DEF Element
<1> HIDE DEF d
<1>2. \A i \in Slots(0) : d[i] \in Element
  BY DEF Slots
<1>3. WellFormed([data |-> d, alloc_size |-> l.alloc_size, size |-> 0])
  BY <1>1, <1>2, FieldTypes, RecordWellFormed
<1> QED BY <1>3 DEF ArrayListClear, d

(* ArrayListSetValueAt.                                                    *)
LEMMA SetValueWellFormed ==
  ASSUME NEW l, WellFormed(l), NEW p \in Int, NEW v \in Element
  PROVE  WellFormed(ArrayListSetValueAt(l, p, v))
<1> DEFINE r == Reach(l, p)
<1>1. WellFormed(r)
  BY ReachWellFormed
<1> HIDE DEF r
<1>2. CASE InRange(r, p)
  <2>1. r.size \in Nat /\ r.alloc_size \in Nat /\ r.size <= r.alloc_size
    BY <1>1, FieldTypes
  <2>2. p \in Slots(r.alloc_size) /\ p \in Slots(r.size)
    BY <1>2, <2>1 DEF InRange, Slots
  <2>3. WellFormed(Put(r, p, v, r.size))
    BY <1>1, <2>1, <2>2, PutWellFormed
  <2> QED BY <1>2, <2>3 DEF ArrayListSetValueAt, r
<1>3. CASE ~ InRange(r, p)
  BY <1>1, <1>3 DEF ArrayListSetValueAt, r
<1> QED BY <1>2, <1>3

(* ArrayListCopy.                                                          *)
LEMMA CopyWellFormed ==
  ASSUME NEW l, WellFormed(l)
  PROVE  WellFormed(ArrayListCopy(l))
<1> DEFINE n == ArrayListResize(ArrayListNew, l.size)
           d == [i \in Slots(n.alloc_size) |-> IF i < l.size THEN l.data[i] ELSE n.data[i]]
<1>1. l.size \in Nat
  BY FieldTypes
<1>2. Grown(ArrayListNew, n) /\ n.alloc_size > l.size
  BY <1>1, NewWellFormed, ResizeGrows
<1> HIDE DEF n
<1>3. WellFormed(n) /\ n.alloc_size \in Nat
  BY <1>2, FieldTypes DEF Grown
<1>4. \A i \in Slots(n.alloc_size) : i < l.size => i \in Slots(l.size)
  BY <1>1 DEF Slots
<1>5. d \in [Slots(n.alloc_size) -> Element \cup {Junk}]
  BY <1>3, <1>4, FieldTypes
<1>6. \A i \in Slots(l.size) : i \in Slots(n.alloc_size) /\ i < l.size /\ l.data[i] \in Element
  BY <1>1, <1>2, <1>3, FieldTypes DEF Slots
<1>7. \A i \in Slots(l.size) : d[i] \in Element
  BY <1>6
<1> HIDE DEF d
<1>8. WellFormed([data |-> d, alloc_size |-> n.alloc_size, size |-> l.size])
  BY <1>1, <1>2, <1>3, <1>5, <1>7, RecordWellFormed
<1> QED BY <1>8 DEF ArrayListCopy, d, n

(* ArrayListMap.                                                           *)
LEMMA MapWellFormed ==
  ASSUME NEW l, WellFormed(l)
  PROVE  WellFormed(ArrayListMap(l))
<1> DEFINE d == [i \in Slots(l.alloc_size) |->
                   IF i < l.size THEN Modifier[l.data[i]] ELSE l.data[i]]
<1>1. \A i \in Slots(l.alloc_size) : i < l.size => i \in Slots(l.size)
  BY FieldTypes DEF Slots
<1>2. \A e \in Element : Modifier[e] \in Element
  BY GenericsAssumption
<1>3. d \in [Slots(l.alloc_size) -> Element \cup {Junk}]
  BY <1>1, <1>2, FieldTypes
<1>4. \A i \in Slots(l.size) : i \in Slots(l.alloc_size) /\ i < l.size /\ l.data[i] \in Element
  BY FieldTypes DEF Slots
<1>5. \A i \in Slots(l.size) : d[i] \in Element
  BY <1>2, <1>4
<1> HIDE DEF d
<1>6. WellFormed([data |-> d, alloc_size |-> l.alloc_size, size |-> l.size])
  BY <1>3, <1>5, FieldTypes, RecordWellFormed
<1>7. ArrayListMap(l) = [data |-> d, alloc_size |-> l.alloc_size, size |-> l.size]
  BY FieldTypes DEF ArrayListMap, d
<1> QED BY <1>6, <1>7

-----------------------------------------------------------------------------
(* The callers *)

(* The invariant of the callers is that every list is well formed.         *)
ArrayInv == ArrayTypeOK /\ NeverJunk

LEMMA InvIsWellFormed ==
  ArrayInv <=> /\ arr = [a \in Arrays |-> arr[a]]
               /\ \A a \in Arrays : WellFormed(arr[a])
               /\ loop = NoLoop \/ LoopType(loop)
BY DEF ArrayInv, ArrayTypeOK, NeverJunk, WellFormed

(* A call that leaves a well-formed list keeps the invariant.              *)
LEMMA StoreKeeps ==
  ASSUME ArrayInv, NEW a \in Arrays, NEW l, WellFormed(l), NEW c, Store(a, l, c)
  PROVE  ArrayInv'
<1>1. arr' = [arr EXCEPT ![a] = l] /\ loop' = loop
  BY DEF Store
<1>2. arr = [b \in Arrays |-> arr[b]] /\ \A b \in Arrays : WellFormed(arr[b])
  BY InvIsWellFormed
<1>3. arr' = [b \in Arrays |-> arr'[b]] /\ \A b \in Arrays : arr'[b] = IF b = a THEN l ELSE arr[b]
  BY <1>1, <1>2
<1>4. \A b \in Arrays : WellFormed(arr'[b])
  BY <1>2, <1>3
<1>5. NeverJunk' /\ \A b \in Arrays : ArrayListType(arr'[b])
  BY <1>4 DEF NeverJunk, WellFormed
<1>6. (loop = NoLoop \/ LoopType(loop))'
  BY <1>1 DEF ArrayInv, ArrayTypeOK, LoopType, NoLoop, NoIterator
<1> QED BY <1>3, <1>5, <1>6 DEF ArrayInv, ArrayTypeOK

(* Every call stores what one of the functions above returns.              *)
LEMMA CallsKeep ==
  ASSUME ArrayInv, NEW a \in Arrays, ArrayCalls(a)
  PROVE  ArrayInv'
<1>1. \A b \in Arrays : WellFormed(arr[b])
  BY InvIsWellFormed
<1>2. arr[a].size \in Nat
  BY <1>1, FieldTypes
<1>3. CASE \E v \in Element : Store(a, ArrayListPushBack(arr[a], v), <<"PushBack", a, v>>)
  BY <1>1, <1>3, PushBackWellFormed, StoreKeeps
<1>4. CASE Store(a, ArrayListPopBack(arr[a]), <<"PopBack", a, ArrayListLast(arr[a])>>)
  BY <1>1, <1>4, PopBackWellFormed, StoreKeeps
<1>5. CASE Store(a, ArrayListClear(arr[a]), <<"Empty", a>>)
  BY <1>1, <1>5, ClearWellFormed, StoreKeeps
<1>6. CASE Store(a, ArrayListDestroy(arr[a]), <<"Empty", a>>)
  <2>1. WellFormed(ArrayListDestroy(arr[a]))
    BY <1>1, NewWellFormed DEF ArrayListDestroy
  <2> QED BY <1>6, <2>1, StoreKeeps
<1>7. CASE Store(a, ArrayListMap(arr[a]), <<"Map", a>>)
  BY <1>1, <1>7, MapWellFormed, StoreKeeps
<1>8. CASE \E p \in -1 .. arr[a].size + 1 :
             Store(a, Reach(arr[a], p), <<"Get", a, p, ArrayListGetValueAt(arr[a], p)>>)
  <2>1. PICK p \in -1 .. arr[a].size + 1 :
          Store(a, Reach(arr[a], p), <<"Get", a, p, ArrayListGetValueAt(arr[a], p)>>)
    BY <1>8
  <2>2. WellFormed(Reach(arr[a], p))
    BY <1>1, <1>2, ReachWellFormed
  <2> QED BY <2>1, <2>2, StoreKeeps
<1>9. CASE \E p \in -1 .. arr[a].size + 1 : \E v \in Element :
             Store(a, ArrayListSetValueAt(arr[a], p, v), <<"Set", a, p, v>>)
  <2>1. PICK p \in -1 .. arr[a].size + 1, v \in Element :
          Store(a, ArrayListSetValueAt(arr[a], p, v), <<"Set", a, p, v>>)
    BY <1>9
  <2>2. WellFormed(ArrayListSetValueAt(arr[a], p, v))
    BY <1>1, <1>2, SetValueWellFormed
  <2> QED BY <2>1, <2>2, StoreKeeps
<1>10. CASE \E b \in Arrays \ {a} : Store(a, ArrayListCopy(arr[b]), <<"Copy", b, a>>)
  BY <1>1, <1>10, CopyWellFormed, StoreKeeps
<1>11. CASE \E b \in Arrays \ {a} : Store(a, ArrayListDeepCopy(arr[b]), <<"DeepCopy", b, a>>)
  BY <1>1, <1>11, CopyWellFormed, MapWellFormed, StoreKeeps DEF ArrayListDeepCopy
<1>12. CASE \E n \in 0 .. MaxArray : Store(a, ArrayListResize(arr[a], n), <<"Resize", a>>)
  <2>1. PICK n \in 0 .. MaxArray : Store(a, ArrayListResize(arr[a], n), <<"Resize", a>>)
    BY <1>12
  <2>2. WellFormed(ArrayListResize(arr[a], n))
    BY <1>1, ResizeGrows DEF Grown
  <2> QED BY <2>1, <2>2, StoreKeeps
<1>13. CASE \E n \in 0 .. MaxArray : \E v \in Element :
              Store(a, ArrayListResizeFillWith(arr[a], n, v), <<"Fill", a, n, v>>)
  <2>1. PICK n \in 0 .. MaxArray, v \in Element :
          Store(a, ArrayListResizeFillWith(arr[a], n, v), <<"Fill", a, n, v>>)
    BY <1>13
  <2>2. WellFormed(ArrayListResizeFillWith(arr[a], n, v))
    BY <1>1, FillWithWellFormed
  <2> QED BY <2>1, <2>2, StoreKeeps
<1> QED
  BY <1>3, <1>4, <1>5, <1>6, <1>7, <1>8, <1>9, <1>10, <1>11, <1>12, <1>13 DEF ArrayCalls

(* ArrayListCopyInto starts on two different lists.                        *)
LEMMA CopyIntoBeginKeeps ==
  ASSUME ArrayInv, NEW a \in Arrays, NEW b \in Arrays \ {a}, CopyIntoBegin(a, b)
  PROVE  ArrayInv'
<1>1. loop' = [it |-> ArrayListBegin(a), tgt |-> b] /\ arr' = arr
  BY DEF CopyIntoBegin
<1>2. ArrayListBegin(a) \in {[target |-> NULL, position |-> 0], [target |-> a, position |-> 0]}
  BY DEF ArrayListBegin, NoIterator
<1>3. LoopType(loop')
  BY <1>1, <1>2, ArraysAssumption DEF LoopType
<1>4. arr' = [x \in Arrays |-> arr'[x]] /\ \A x \in Arrays : ArrayListType(arr'[x])
  BY <1>1 DEF ArrayInv, ArrayTypeOK
<1>5. NeverJunk'
  BY <1>1 DEF ArrayInv, NeverJunk
<1> QED BY <1>3, <1>4, <1>5 DEF ArrayInv, ArrayTypeOK

(* A turn of the loop reads a slot of the source that was written.         *)
LEMMA CopyIntoTurnKeeps ==
  ASSUME ArrayInv, loop # NoLoop, CopyIntoTurn
  PROVE  ArrayInv'
<1> DEFINE v == ArrayListGetValue(loop.it)
           l == ArrayListPushBack(arr[loop.tgt], v)
<1>1. LoopType(loop)
  BY DEF ArrayInv, ArrayTypeOK
<1>2. \A x \in Arrays : WellFormed(arr[x])
  BY InvIsWellFormed
<1>3. loop.it.target \in Arrays /\ loop.tgt \in Arrays /\ loop.it.target # loop.tgt
  BY <1>1 DEF CopyIntoTurn, ArrayListIsEnd, LoopType
<1>4. v \in Element
  <2>1. arr[loop.it.target].size \in Nat /\ loop.it.position \in Nat
    BY <1>1, <1>2, <1>3, FieldTypes DEF LoopType
  <2>2. loop.it.position \in Slots(arr[loop.it.target].size)
    BY <2>1 DEF CopyIntoTurn, ArrayListIsEnd, Slots
  <2> QED BY <1>2, <1>3, <2>2, FieldTypes DEF ArrayListGetValue
<1>5. WellFormed(l)
  BY <1>2, <1>3, <1>4, PushBackWellFormed
<1> HIDE DEF v
<1>6. arr' = [arr EXCEPT ![loop.tgt] = l]
  BY DEF CopyIntoTurn, v
<1> HIDE DEF l
<1>7. arr' = [x \in Arrays |-> arr'[x]] /\ \A x \in Arrays : WellFormed(arr'[x])
  <2>1. arr = [x \in Arrays |-> arr[x]]
    BY DEF ArrayInv, ArrayTypeOK
  <2> QED BY <1>2, <1>3, <1>5, <1>6, <2>1
<1>8. NeverJunk' /\ \A x \in Arrays : ArrayListType(arr'[x])
  BY <1>7 DEF NeverJunk, WellFormed
<1>9. LoopType(loop')
  <2>1. ArrayListNext(loop.it) = [target |-> loop.it.target, position |-> loop.it.position + 1]
    BY <1>1 DEF CopyIntoTurn, ArrayListNext, LoopType
  <2>2. loop' = [it |-> ArrayListNext(loop.it), tgt |-> loop.tgt]
    BY <1>1 DEF CopyIntoTurn, LoopType
  <2> QED BY <1>1, <1>3, <2>1, <2>2 DEF LoopType
<1> QED BY <1>7, <1>8, <1>9 DEF ArrayInv, ArrayTypeOK

(* Every step of a program keeps the invariant.                            *)
LEMMA ArrayInvStep == ArrayInv /\ [ArrayNext]_arrayVars => ArrayInv'
<1> SUFFICES ASSUME ArrayInv, [ArrayNext]_arrayVars PROVE ArrayInv'
  OBVIOUS
<1>1. CASE \E a \in Arrays : ArrayCalls(a)
  BY <1>1, CallsKeep
<1>2. CASE \E a \in Arrays : \E b \in Arrays \ {a} : CopyIntoBegin(a, b)
  BY <1>2, CopyIntoBeginKeeps
<1>3. CASE loop # NoLoop /\ CopyIntoTurn
  BY <1>3, CopyIntoTurnKeeps
<1>4. CASE CopyIntoEnd \/ UNCHANGED arrayVars
  <2>1. arr' = arr /\ loop' \in {loop, NoLoop}
    BY <1>4 DEF CopyIntoEnd, arrayVars
  <2>2. NeverJunk' /\ (\A x \in Arrays : ArrayListType(arr'[x])) /\ arr' = [x \in Arrays |-> arr'[x]]
    BY <2>1 DEF ArrayInv, ArrayTypeOK, NeverJunk
  <2>3. loop' = NoLoop \/ LoopType(loop')
    BY <2>1 DEF ArrayInv, ArrayTypeOK
  <2> QED BY <2>2, <2>3 DEF ArrayInv, ArrayTypeOK, NoLoop, NoIterator
<1> QED BY <1>1, <1>2, <1>3, <1>4 DEF ArrayNext

LEMMA ArrayInvAlways == ArraySpec => []ArrayInv
<1>1. ArrayInit => ArrayInv
  <2> SUFFICES ASSUME ArrayInit PROVE ArrayInv
    OBVIOUS
  <2> USE DEF ArrayInit
  <2>1. arr = [a \in Arrays |-> arr[a]] /\ \A a \in Arrays : arr[a] = ArrayListNew
    OBVIOUS
  <2> QED BY <2>1, NewWellFormed, InvIsWellFormed
<1> QED BY <1>1, ArrayInvStep, PTL DEF ArraySpec

(* For any program and any growth constants, the record of every ArrayList *)
(* is typed: its block has alloc_size slots and the iterator a target.     *)
THEOREM ArrayTypeCorrect == ArraySpec => []ArrayTypeOK
<1>1. ArrayInv => ArrayTypeOK
  BY DEF ArrayInv
<1> QED BY <1>1, ArrayInvAlways, PTL

(* For any program and any growth constants, no call of array_lists.c      *)
(* leaves an element that is unwritten memory or past the allocated block. *)
THEOREM NothingUnwritten == ArraySpec => []NeverJunk
<1>1. ArrayInv => NeverJunk
  BY DEF ArrayInv
<1> QED BY <1>1, ArrayInvAlways, PTL

-----------------------------------------------------------------------------
(* WHAT THE FUNCTIONS DO TO THE CONTENT                                    *)

(* A sequence with the elements of a list is its content.                   *)
LEMMA SameContent ==
  ASSUME NEW l, WellFormed(l), NEW s \in Seq(Element), Len(s) = l.size,
         \A k \in 1 .. Len(s) : s[k] = l.data[k - 1]
  PROVE  s = Content(l)
<1>1. DOMAIN s = 1 .. l.size
  OBVIOUS
<1>2. s = [k \in DOMAIN s |-> s[k]]
  OBVIOUS
<1> QED
  BY <1>1, <1>2 DEF Content

LEMMA ContentIs ==
  ASSUME NEW l, WellFormed(l)
  PROVE  /\ Content(l) \in Seq(Element) /\ Len(Content(l)) = l.size
         /\ DOMAIN Content(l) = 1 .. l.size
         /\ \A k \in 1 .. l.size : Content(l)[k] = l.data[k - 1]
<1>1. l.size \in Nat
  BY FieldTypes
<1>2. \A k \in 1 .. l.size : k - 1 \in Slots(l.size)
  BY <1>1 DEF Slots
<1>3. \A k \in 1 .. l.size : l.data[k - 1] \in Element
  BY <1>2, FieldTypes
<1>4. PICK s : s = [k \in 1 .. l.size |-> l.data[k - 1]]
  OBVIOUS
<1>5. s \in Seq(Element)
  BY <1>1, <1>3, <1>4, IsASeq
<1> QED
  BY <1>1, <1>4, <1>5 DEF Content

(* g holds what l holds and behind it up to its own size the element ctor.  *)
Lengthened(l, g, ctor) ==
  /\ WellFormed(g) /\ l.size <= g.size
  /\ \A i \in Slots(l.size) : g.data[i] = l.data[i]
  /\ \A i \in Slots(g.size) : i >= l.size => g.data[i] = ctor

LEMMA FillLengthens ==
  ASSUME NEW l, WellFormed(l), NEW m \in Int, NEW ctor \in Element
  PROVE  /\ Lengthened(l, ArrayListResizeFillWith(l, m, ctor), ctor)
         /\ ArrayListResizeFillWith(l, m, ctor).size = IF l.size >= m THEN l.size ELSE m
<1>1. l.size \in Nat
  BY FieldTypes
<1>2. CASE l.size >= m
  BY <1>1, <1>2 DEF ArrayListResizeFillWith, Lengthened, Slots
<1>3. CASE ~ (l.size >= m)
  <2>1. PICK g : g = ArrayListResize(l, m + FillSlack)
    OBVIOUS
  <2>2. m + FillSlack \in Nat /\ m + FillSlack >= m
    BY <1>1, <1>3, ArrayListAssumption DEF ArrayListAssumption
  <2>3. Grown(l, g) /\ g.alloc_size > m + FillSlack
    BY <2>1, <2>2, ResizeGrows
  <2>4. g.alloc_size \in Nat
    BY <2>3, FieldTypes DEF Grown
  <2>5. PICK f : f = ArrayListResizeFillWith(l, m, ctor)
    OBVIOUS
  <2>6. f.size = m /\ f.data = [i \in Slots(g.alloc_size) |->
                                  IF i \in l.size .. m - 1 THEN ctor ELSE g.data[i]]
    BY <1>3, <2>1, <2>5 DEF ArrayListResizeFillWith
  <2>7. \A i \in Slots(l.size) : f.data[i] = l.data[i]
    BY <1>1, <1>3, <2>2, <2>3, <2>4, <2>6 DEF Grown, Slots
  <2>8. \A i \in Slots(m) : i >= l.size => f.data[i] = ctor
    BY <1>1, <1>3, <2>2, <2>3, <2>4, <2>6 DEF Slots
  <2>9. WellFormed(f)
    BY <2>5, FillWithWellFormed
  <2> QED
    BY <1>1, <1>3, <2>5, <2>6, <2>7, <2>8, <2>9 DEF Lengthened
<1> QED
  BY <1>2, <1>3

(* Out of range, an access lengthens the list beyond itself with NULL.      *)
LEMMA ReachLengthens ==
  ASSUME NEW l, WellFormed(l), NEW p \in Int
  PROVE  /\ Lengthened(l, Reach(l, p), NULL)
         /\ p >= 0 => InRange(Reach(l, p), p)
         /\ ~ (p >= 0) => ~ InRange(Reach(l, p), p)
         /\ InRange(l, p) => Reach(l, p) = l
<1>1. l.size \in Nat /\ NULL \in Element
  BY FieldTypes DEF Element
<1>2. CASE InRange(l, p)
  BY <1>1, <1>2 DEF Reach, InRange, Lengthened, Slots
<1>3. CASE ~ InRange(l, p)
  <2>1. PICK n \in Int : n = p + GrowStep /\ n > p
    BY ArrayListAssumption DEF ArrayListAssumption
  <2>2. Reach(l, p) = ArrayListResizeFillWith(l, n, NULL)
    BY <1>3, <2>1 DEF Reach, ArrayListResizeFill
  <2>3. Lengthened(l, Reach(l, p), NULL) /\ Reach(l, p).size = IF l.size >= n THEN l.size ELSE n
    BY <1>1, <2>2, FillLengthens
  <2> QED
    BY <1>1, <1>3, <2>1, <2>3 DEF InRange
<1> QED
  BY <1>2, <1>3

(* A list that holds the same elements has the same content.                *)
LEMMA EqualContent ==
  ASSUME NEW l, WellFormed(l), NEW g, WellFormed(g), g.size = l.size,
         \A i \in Slots(l.size) : g.data[i] = l.data[i]
  PROVE  Content(g) = Content(l)
<1>1. /\ Content(g) \in Seq(Element) /\ Len(Content(g)) = l.size
      /\ \A k \in 1 .. l.size : Content(g)[k] = g.data[k - 1]
  BY ContentIs
<1>2. \A k \in 1 .. l.size : k - 1 \in Slots(l.size)
  BY FieldTypes DEF Slots
<1> QED
  BY <1>1, <1>2, SameContent

LEMMA EmptyContent ==
  ASSUME NEW l, l.size = 0
  PROVE  Content(l) = <<>>
BY DEF Content

LEMMA PushBackContent ==
  ASSUME NEW l, WellFormed(l), NEW v \in Element
  PROVE  Content(ArrayListPushBack(l, v)) = Append(Content(l), v)
<1>1. PICK g : g = ArrayListResize(l, l.size + 1)
  OBVIOUS
<1>2. PICK f : f = ArrayListPushBack(l, v)
  OBVIOUS
<1>3. PICK n \in Nat : n = l.size
  BY FieldTypes
<1>4. Grown(l, g) /\ g.alloc_size > n + 1
  BY <1>1, <1>3, ResizeGrows
<1>5. g.alloc_size \in Nat /\ g.data \in [Slots(g.alloc_size) -> Element \cup {Junk}]
  BY <1>4, FieldTypes DEF Grown
<1>6. f.size = n + 1 /\ f.data = [g.data EXCEPT ![n] = v]
  BY <1>1, <1>2, <1>3 DEF ArrayListPushBack, Put
<1>7. f.data[n] = v /\ \A i \in Slots(n) : f.data[i] = l.data[i]
  BY <1>3, <1>4, <1>5, <1>6 DEF Slots, Grown
<1>8. WellFormed(f)
  BY <1>2, PushBackWellFormed
<1>9. PICK s \in Seq(Element) : s = Append(Content(l), v)
  BY ContentIs, AppendProperties
<1>10. /\ Len(s) = n + 1 /\ s[n + 1] = v
       /\ \A k \in 1 .. n : s[k] = l.data[k - 1]
  BY <1>3, <1>9, ContentIs
<1>11. ASSUME NEW k \in 1 .. n + 1
       PROVE  s[k] = f.data[k - 1]
  <2>1. CASE k \in 1 .. n
    <3>1. k - 1 \in Slots(n)
      BY <1>3, <2>1 DEF Slots
    <3> QED
      BY <1>7, <1>10, <2>1, <3>1
  <2>2. CASE k = n + 1
    BY <1>7, <1>10, <2>2
  <2> QED
    BY <1>3, <2>1, <2>2
<1> QED
  BY <1>2, <1>6, <1>8, <1>9, <1>10, <1>11, SameContent

LEMMA PopBackContent ==
  ASSUME NEW l, WellFormed(l), l.size > 0
  PROVE  /\ Content(l) # <<>> /\ ArrayListLast(l) = ArraySeq!Last(Content(l))
         /\ Content(ArrayListPopBack(l)) = ArraySeq!Front(Content(l))
<1>1. PICK n \in Nat : l.size = n + 1
  <2>1. l.size \in Nat /\ l.size - 1 \in Nat
    BY FieldTypes
  <2> QED
    BY <2>1
<1>2. PICK f : f = ArrayListPopBack(l)
  OBVIOUS
<1>3. WellFormed(f)
  BY <1>2, PopBackWellFormed
<1>4. f.size = n /\ f.data = [l.data EXCEPT ![n] = NULL]
  BY <1>1, <1>2 DEF ArrayListPopBack, Put
<1>5. \A i \in Slots(n) : f.data[i] = l.data[i]
  BY <1>1, <1>4, FieldTypes DEF Slots
<1>6. PICK c \in Seq(Element) : c = Content(l)
  BY ContentIs
<1>7. Len(c) = n + 1 /\ \A k \in 1 .. n + 1 : c[k] = l.data[k - 1]
  BY <1>1, <1>6, ContentIs
<1>8. ArraySeq!Last(c) = l.data[n] /\ c # <<>>
  BY <1>7 DEF ArraySeq!Last
<1>9. ArrayListLast(l) = l.data[n]
  BY <1>1 DEF ArrayListLast
<1>10. PICK s : s = SubSeq(c, 1, n)
  OBVIOUS
<1>11. s \in Seq(Element) /\ Len(s) = n /\ \A k \in 1 .. n : s[k] = c[k]
  <2>1. \A i \in 1 .. n : c[i] \in Element
    BY <1>7
  <2>2. /\ s \in Seq(Element) /\ Len(s) = IF 1 <= n THEN n - 1 + 1 ELSE 0
        /\ \A i \in 1 .. n - 1 + 1 : s[i] = c[1 + i - 1]
    BY <1>10, <2>1, SubSeqProperties
  <2> QED
    BY <2>2
<1>12. \A k \in 1 .. n : s[k] = f.data[k - 1]
  <2>1. ASSUME NEW k \in 1 .. n PROVE s[k] = f.data[k - 1]
    <3>1. k - 1 \in Slots(n) /\ k \in 1 .. n + 1
      BY DEF Slots
    <3> QED
      BY <1>5, <1>7, <1>11, <3>1
  <2> QED
    BY <2>1
<1>13. s = Content(f)
  BY <1>3, <1>4, <1>11, <1>12, SameContent
<1>14. ArraySeq!Front(c) = s
  BY <1>7, <1>10 DEF ArraySeq!Front
<1> QED
  BY <1>2, <1>6, <1>8, <1>9, <1>13, <1>14

LEMMA CopyContent ==
  ASSUME NEW l, WellFormed(l)
  PROVE  Content(ArrayListCopy(l)) = Content(l)
<1>1. PICK g : g = ArrayListResize(ArrayListNew, l.size)
  OBVIOUS
<1>2. PICK f : f = ArrayListCopy(l)
  OBVIOUS
<1>3. l.size \in Nat
  BY FieldTypes
<1>4. Grown(ArrayListNew, g) /\ g.alloc_size > l.size
  BY <1>1, <1>3, NewWellFormed, ResizeGrows
<1>5. g.alloc_size \in Nat
  BY <1>4, FieldTypes DEF Grown
<1>6. f.size = l.size /\ \A i \in Slots(l.size) : f.data[i] = l.data[i]
  BY <1>1, <1>2, <1>3, <1>4, <1>5 DEF ArrayListCopy, Slots
<1> QED
  BY <1>2, <1>6, CopyWellFormed, EqualContent

LEMMA MapContent ==
  ASSUME NEW l, WellFormed(l)
  PROVE  Content(ArrayListMap(l)) = [k \in DOMAIN Content(l) |-> Modifier[Content(l)[k]]]
<1>1. PICK f : f = ArrayListMap(l)
  OBVIOUS
<1>2. f.size = l.size /\ \A i \in Slots(l.size) : f.data[i] = Modifier[l.data[i]]
  BY <1>1, FieldTypes DEF ArrayListMap, Slots
<1>3. \A k \in 1 .. l.size : k - 1 \in Slots(l.size)
  BY FieldTypes DEF Slots
<1>4. \A k \in 1 .. l.size : f.data[k - 1] = Modifier[Content(l)[k]]
  BY <1>2, <1>3, ContentIs
<1>5. DOMAIN Content(l) = 1 .. l.size
  BY ContentIs
<1> QED
  BY <1>1, <1>2, <1>4, <1>5 DEF Content

LEMMA ResizeContent ==
  ASSUME NEW l, WellFormed(l), NEW n \in Int
  PROVE  Content(ArrayListResize(l, n)) = Content(l)
<1>1. Grown(l, ArrayListResize(l, n))
  BY ResizeGrows
<1> QED
  BY <1>1, EqualContent DEF Grown

(* The content of a list that was lengthened.                               *)
LEMMA LengthenedContent ==
  ASSUME NEW l, WellFormed(l), NEW g, NEW ctor, Lengthened(l, g, ctor)
  PROVE  /\ Len(Content(g)) = g.size /\ l.size <= g.size
         /\ \A k \in 1 .. l.size : Content(g)[k] = Content(l)[k]
         /\ \A k \in l.size + 1 .. g.size : Content(g)[k] = ctor
<1>1. l.size \in Nat /\ g.size \in Nat /\ l.size <= g.size /\ WellFormed(g)
  BY FieldTypes DEF Lengthened
<1>2. Len(Content(g)) = g.size /\ \A k \in 1 .. g.size : Content(g)[k] = g.data[k - 1]
  BY <1>1, ContentIs
<1>3. \A k \in 1 .. l.size : Content(l)[k] = l.data[k - 1]
  BY ContentIs
<1>4. ASSUME NEW k \in 1 .. l.size
      PROVE  Content(g)[k] = Content(l)[k]
  <2>1. k - 1 \in Slots(l.size) /\ k \in 1 .. g.size
    BY <1>1 DEF Slots
  <2>2. g.data[k - 1] = l.data[k - 1]
    BY <2>1 DEF Lengthened
  <2> QED
    BY <1>2, <1>3, <2>1, <2>2
<1>5. ASSUME NEW k \in l.size + 1 .. g.size
      PROVE  Content(g)[k] = ctor
  <2>1. k - 1 \in Slots(g.size) /\ k \in 1 .. g.size /\ k - 1 >= l.size
    BY <1>1 DEF Slots
  <2>2. g.data[k - 1] = ctor
    BY <2>1 DEF Lengthened
  <2> QED
    BY <1>2, <2>1, <2>2
<1> QED
  BY <1>1, <1>2, <1>4, <1>5

(* A list that was lengthened with NULL extends its sequence.               *)
LEMMA LengthenedExtends ==
  ASSUME NEW l, WellFormed(l), NEW g, Lengthened(l, g, NULL)
  PROVE  /\ ArraySeq!IsPrefix(Content(l), Content(g))
         /\ \A k \in Len(Content(l)) + 1 .. Len(Content(g)) : Content(g)[k] = NULL
<1>1. PICK s \in Seq(Element) : s = Content(l) /\ Len(s) = l.size
  BY ContentIs
<1>2. PICK t \in Seq(Element) : t = Content(g) /\ Len(t) = g.size
  BY ContentIs DEF Lengthened
<1>3. PICK n \in Nat : n = Len(s)
  OBVIOUS
<1>4. /\ n <= Len(t)
      /\ \A k \in 1 .. n : t[k] = s[k]
      /\ \A k \in n + 1 .. Len(t) : t[k] = NULL
  BY <1>1, <1>2, <1>3, LengthenedContent
<1>5. SubSeq(s, 1, n) = SubSeq(t, 1, n)
  <2>1. \A i \in 1 .. n : s[i] \in Element /\ t[i] \in Element
    BY <1>3, <1>4
  <2>2. /\ SubSeq(s, 1, n) \in Seq(Element) /\ Len(SubSeq(s, 1, n)) = IF 1 <= n THEN n - 1 + 1 ELSE 0
        /\ \A i \in 1 .. n - 1 + 1 : SubSeq(s, 1, n)[i] = s[1 + i - 1]
    BY <2>1, SubSeqProperties
  <2>3. /\ SubSeq(t, 1, n) \in Seq(Element) /\ Len(SubSeq(t, 1, n)) = IF 1 <= n THEN n - 1 + 1 ELSE 0
        /\ \A i \in 1 .. n - 1 + 1 : SubSeq(t, 1, n)[i] = t[1 + i - 1]
    BY <2>1, SubSeqProperties
  <2>4. PICK a \in Seq(Element) : a = SubSeq(s, 1, n)
    BY <2>2
  <2>5. PICK b \in Seq(Element) : b = SubSeq(t, 1, n)
    BY <2>3
  <2>6. Len(a) = n /\ Len(b) = n
    BY <2>2, <2>3, <2>4, <2>5
  <2>7. \A i \in 1 .. n : a[i] = s[i] /\ b[i] = t[i]
    BY <2>2, <2>3, <2>4, <2>5
  <2>8. a = b
    BY <1>4, <2>6, <2>7, SeqEqual
  <2> QED
    BY <2>4, <2>5, <2>8
<1> QED
  BY <1>1, <1>2, <1>3, <1>4, <1>5 DEF ArraySeq!IsPrefix

LEMMA FillContent ==
  ASSUME NEW l, WellFormed(l), NEW n \in Nat, NEW v \in Element
  PROVE  /\ Content(ArrayListResizeFillWith(l, n, v)) =
              Content(l) \o [k \in 1 .. n - Len(Content(l)) |-> v]
         /\ n <= Len(Content(ArrayListResizeFillWith(l, n, v)))
<1>1. PICK f : f = ArrayListResizeFillWith(l, n, v)
  OBVIOUS
<1>2. PICK c \in Nat : c = l.size
  BY FieldTypes
<1>3. Lengthened(l, f, v) /\ f.size = IF c >= n THEN c ELSE n
  BY <1>1, <1>2, FillLengthens
<1>4. PICK s \in Seq(Element) : s = Content(l) /\ Len(s) = c
  BY <1>2, ContentIs
<1>5. PICK t \in Seq(Element) : t = Content(f)
  BY <1>3, ContentIs DEF Lengthened
<1>6. /\ Len(t) = IF c >= n THEN c ELSE n
      /\ \A k \in 1 .. c : t[k] = s[k]
      /\ \A k \in c + 1 .. Len(t) : t[k] = v
  BY <1>2, <1>3, <1>4, <1>5, LengthenedContent
<1>7. PICK e : e = [k \in 1 .. n - c |-> v]
  OBVIOUS
<1>8. e \in Seq(Element) /\ Len(e) = IF c >= n THEN 0 ELSE n - c
  <2>1. PICK m \in Nat : (m = IF c >= n THEN 0 ELSE n - c) /\ 1 .. n - c = 1 .. m
    <3>1. CASE c >= n
      BY <3>1
    <3>2. CASE ~ (c >= n)
      BY <3>2
    <3> QED
      BY <3>1, <3>2
  <2>2. e = [k \in 1 .. m |-> v]
    BY <1>7, <2>1
  <2>3. e \in Seq(Element)
    BY <2>2, IsASeq
  <2> QED
    BY <2>1, <2>2, <2>3
<1>9. PICK u \in Seq(Element) : u = s \o e
  BY <1>8, ConcatProperties
<1>10. /\ Len(u) = Len(t)
       /\ \A k \in 1 .. Len(t) : u[k] = IF k <= c THEN s[k] ELSE e[k - c]
  BY <1>4, <1>6, <1>8, <1>9, ConcatProperties
<1>11. ASSUME NEW k \in 1 .. Len(t)
       PROVE  u[k] = t[k]
  <2>1. CASE k <= c
    BY <1>6, <1>10, <2>1
  <2>2. CASE ~ (k <= c)
    <3>1. k - c \in 1 .. n - c /\ k \in c + 1 .. Len(t)
      BY <1>6, <2>2
    <3> QED
      BY <1>6, <1>7, <1>10, <2>2, <3>1
  <2> QED
    BY <2>1, <2>2
<1>12. u = t
  BY <1>10, <1>11, SeqEqual
<1>13. n <= Len(t)
  BY <1>6
<1> QED
  BY <1>1, <1>4, <1>5, <1>7, <1>9, <1>12, <1>13

(* ArrayListSetValueAt writes the element its access reaches.               *)
LEMMA SetContent ==
  ASSUME NEW l, WellFormed(l), NEW p \in Int, NEW v \in Element
  PROVE  Content(ArrayListSetValueAt(l, p, v)) =
           IF p >= 0 THEN [Content(Reach(l, p)) EXCEPT ![p + 1] = v] ELSE Content(Reach(l, p))
<1>1. PICK r : r = Reach(l, p)
  OBVIOUS
<1>2. WellFormed(r) /\ (p >= 0 => InRange(r, p)) /\ (~ (p >= 0) => ~ InRange(r, p))
  BY <1>1, ReachLengthens, ReachWellFormed
<1>3. CASE ~ (p >= 0)
  BY <1>1, <1>2, <1>3 DEF ArrayListSetValueAt
<1>4. CASE p >= 0
  <2>1. PICK f : f = ArrayListSetValueAt(l, p, v)
    OBVIOUS
  <2>2. f = Put(r, p, v, r.size) /\ InRange(r, p)
    BY <1>1, <1>2, <1>4, <2>1 DEF ArrayListSetValueAt
  <2>3. PICK n \in Nat : n = r.size /\ p < n
    BY <1>2, <2>2, FieldTypes DEF InRange
  <2>4. f.size = n /\ f.data = [r.data EXCEPT ![p] = v]
    BY <2>2, <2>3 DEF Put
  <2>5. r.data \in [Slots(r.alloc_size) -> Element \cup {Junk}] /\ \A i \in Slots(n) : i \in Slots(r.alloc_size)
    BY <1>2, <2>3, FieldTypes
  <2>6. ASSUME NEW k \in 1 .. n
        PROVE  f.data[k - 1] = IF k = p + 1 THEN v ELSE r.data[k - 1]
    <3>1. k - 1 \in Slots(n)
      BY DEF Slots
    <3> QED
      BY <2>4, <2>5, <3>1
  <2>7. Content(r) = [k \in 1 .. n |-> r.data[k - 1]] /\ Content(f) = [k \in 1 .. n |-> f.data[k - 1]]
    BY <2>3, <2>4 DEF Content
  <2>8. Content(f) = [Content(r) EXCEPT ![p + 1] = v]
    <3>1. [Content(r) EXCEPT ![p + 1] = v] =
            [k \in 1 .. n |-> IF k = p + 1 THEN v ELSE r.data[k - 1]]
      BY <2>7
    <3>2. Content(f) = [k \in 1 .. n |-> IF k = p + 1 THEN v ELSE r.data[k - 1]]
      BY <2>6, <2>7
    <3> QED
      BY <3>1, <3>2
  <2> QED
    BY <1>1, <1>4, <2>1, <2>8
<1> QED
  BY <1>3, <1>4

-----------------------------------------------------------------------------
(* THE REFINEMENT                                                          *)

Seqs == [a \in Arrays |-> Content(arr[a])]

(* A call changes the sequence of its list and no other.                    *)
LEMMA StoreRefines ==
  ASSUME ArrayInv, NEW a \in Arrays, NEW l, NEW c, Store(a, l, c)
  PROVE  acall' = c /\ Seqs' = [Seqs EXCEPT ![a] = Content(l)] /\ Seqs[a] = Content(arr[a])
<1>1. arr' = [arr EXCEPT ![a] = l] /\ acall' = c
  BY DEF Store
<1>2. arr = [b \in Arrays |-> arr[b]]
  BY InvIsWellFormed
<1>3. \A b \in Arrays : arr'[b] = IF b = a THEN l ELSE arr[b]
  BY <1>1, <1>2
<1>4. Seqs' = [b \in Arrays |-> Content(arr'[b])]
  BY DEF Seqs, Content
<1>5. [Seqs EXCEPT ![a] = Content(l)] = [b \in Arrays |-> IF b = a THEN Content(l) ELSE Content(arr[b])]
  BY DEF Seqs
<1>6. \A b \in Arrays : Content(arr'[b]) = IF b = a THEN Content(l) ELSE Content(arr[b])
  BY <1>3
<1> QED
  BY <1>1, <1>4, <1>5, <1>6 DEF Seqs

(* A turn of ArrayListCopyInto is one call of ArrayListPushBack.            *)
LEMMA TurnRefines ==
  ASSUME ArrayInv, loop # NoLoop, CopyIntoTurn
  PROVE  ArraySeq!Next
<1>1. LoopType(loop) /\ \A x \in Arrays : WellFormed(arr[x])
  BY InvIsWellFormed DEF ArrayInv, ArrayTypeOK
<1>2. PICK b \in Arrays : b = loop.tgt
  BY <1>1 DEF LoopType
<1>3. loop.it.target \in Arrays /\ loop.it.position \in Slots(arr[loop.it.target].size)
  <2>1. loop.it.target \in Arrays
    BY <1>1 DEF CopyIntoTurn, ArrayListIsEnd, LoopType
  <2>2. arr[loop.it.target].size \in Nat /\ loop.it.position \in Nat
    BY <1>1, <2>1, FieldTypes DEF LoopType
  <2> QED
    BY <2>1, <2>2 DEF CopyIntoTurn, ArrayListIsEnd, Slots
<1>4. PICK v \in Element : v = ArrayListGetValue(loop.it)
  BY <1>1, <1>3, FieldTypes DEF ArrayListGetValue
<1>5. PICK l : l = ArrayListPushBack(arr[b], v)
  OBVIOUS
<1>6. arr' = [arr EXCEPT ![b] = l] /\ acall' = <<"PushBack", b, v>>
  BY <1>2, <1>4, <1>5 DEF CopyIntoTurn
<1>7. Content(l) = Append(Content(arr[b]), v)
  BY <1>1, <1>5, PushBackContent
<1>8. arr = [x \in Arrays |-> arr[x]]
  BY InvIsWellFormed
<1>9. \A x \in Arrays : arr'[x] = IF x = b THEN l ELSE arr[x]
  BY <1>6, <1>8
<1>10. Seqs' = [x \in Arrays |-> Content(arr'[x])]
  BY DEF Seqs, Content
<1>11. Seqs' = [Seqs EXCEPT ![b] = Append(@, v)]
  BY <1>7, <1>9, <1>10 DEF Seqs
<1>12. ArraySeq!PushBack(b, v)
  BY <1>6, <1>11 DEF ArraySeq!PushBack, Seqs
<1> QED
  BY <1>12 DEF ArraySeq!Next

(* ArrayListGetValueAt returns the element at its position, if there is one. *)
LEMMA GetRefines ==
  ASSUME ArrayInv, NEW a \in Arrays, NEW p \in -1 .. arr[a].size + 1,
         Store(a, Reach(arr[a], p), <<"Get", a, p, ArrayListGetValueAt(arr[a], p)>>)
  PROVE  ArraySeq!Get(a, p)
<1>1. PICK l : l = arr[a]
  OBVIOUS
<1>2. WellFormed(l) /\ l.size \in Nat /\ p \in Int
  BY <1>1, InvIsWellFormed, FieldTypes
<1>3. PICK s : s = Content(l)
  OBVIOUS
<1>4. /\ acall' = <<"Get", a, p, ArrayListGetValueAt(l, p)>>
      /\ Seqs' = [Seqs EXCEPT ![a] = Content(Reach(l, p))] /\ Seqs[a] = s
  BY <1>1, <1>3, StoreRefines
<1>5. Len(s) = l.size /\ \A k \in 1 .. l.size : s[k] = l.data[k - 1]
  BY <1>2, <1>3, ContentIs
<1>6. CASE p \in 0 .. l.size - 1
  <2>1. InRange(l, p) /\ p + 1 \in 1 .. l.size
    BY <1>2, <1>6 DEF InRange
  <2>2. Reach(l, p) = l
    BY <1>2, <2>1, ReachLengthens
  <2>3. ArrayListGetValueAt(l, p) = s[p + 1]
    BY <1>2, <1>5, <2>1, <2>2 DEF ArrayListGetValueAt
  <2>4. Seqs' = Seqs
    BY <1>3, <1>4, <2>2 DEF Seqs
  <2> QED
    BY <1>4, <1>5, <1>6, <2>3, <2>4 DEF ArraySeq!Get, Seqs
<1>7. CASE p \notin 0 .. l.size - 1
  <2>1. Lengthened(l, Reach(l, p), NULL)
    BY <1>2, ReachLengthens
  <2>2. PICK t : t = Content(Reach(l, p))
    OBVIOUS
  <2>3. ArraySeq!IsPrefix(s, t) /\ \A k \in Len(s) + 1 .. Len(t) : t[k] = NULL
    BY <1>2, <1>3, <2>1, <2>2, LengthenedExtends
  <2>4. ArrayListGetValueAt(l, p) = NULL
    <3>1. CASE p >= 0
      <4>1. InRange(Reach(l, p), p)
        BY <1>2, <3>1, ReachLengthens
      <4>2. p \in Slots(Reach(l, p).size) /\ p >= l.size
        BY <1>2, <1>7, <2>1, <3>1, <4>1, FieldTypes DEF Lengthened, InRange, Slots
      <4> QED
        BY <2>1, <4>1, <4>2 DEF ArrayListGetValueAt, Lengthened
    <3>2. CASE ~ (p >= 0)
      BY <1>2, <3>2, ReachLengthens DEF ArrayListGetValueAt
    <3> QED
      BY <3>1, <3>2
  <2>5. Seqs' = [Seqs EXCEPT ![a] = t] /\ Seqs'[a] = t
    BY <1>4, <2>2 DEF Seqs
  <2>6. Seqs' = [Seqs EXCEPT ![a] = Seqs'[a]]
    BY <2>5
  <2>7. ArraySeq!Extended(a, Seqs'[a])
    BY <1>4, <2>3, <2>5 DEF ArraySeq!Extended, Seqs
  <2> QED
    BY <1>4, <1>5, <1>7, <2>4, <2>6, <2>7 DEF ArraySeq!Get, Seqs
<1> QED
  BY <1>6, <1>7

(* ArrayListSetValueAt changes its position, and extends the list to it.    *)
LEMMA SetRefines ==
  ASSUME ArrayInv, NEW a \in Arrays, NEW p \in -1 .. arr[a].size + 1, NEW v \in Element,
         Store(a, ArrayListSetValueAt(arr[a], p, v), <<"Set", a, p, v>>)
  PROVE  ArraySeq!Set(a, p, v)
<1>1. PICK l : l = arr[a]
  OBVIOUS
<1>2. WellFormed(l) /\ l.size \in Nat /\ p \in Int
  BY <1>1, InvIsWellFormed, FieldTypes
<1>3. PICK s : s = Content(l)
  OBVIOUS
<1>4. PICK r : r = Content(Reach(l, p))
  OBVIOUS
<1>5. PICK t : t = IF p >= 0 THEN [r EXCEPT ![p + 1] = v] ELSE r
  OBVIOUS
<1>6. /\ acall' = <<"Set", a, p, v>>
      /\ Seqs' = [Seqs EXCEPT ![a] = t] /\ Seqs[a] = s
  BY <1>1, <1>2, <1>3, <1>4, <1>5, StoreRefines, SetContent
<1>7. Len(s) = l.size
  BY <1>2, <1>3, ContentIs
<1>8. CASE p \in 0 .. l.size - 1
  <2>1. InRange(l, p) /\ p >= 0
    BY <1>2, <1>8 DEF InRange
  <2>2. r = s
    BY <1>2, <1>3, <1>4, <2>1, ReachLengthens
  <2>3. Seqs' = [Seqs EXCEPT ![a][p + 1] = v]
    BY <1>5, <1>6, <2>1, <2>2
  <2> QED
    BY <1>6, <1>7, <1>8, <2>3 DEF ArraySeq!Set, Seqs
<1>9. CASE p \notin 0 .. l.size - 1
  <2>1. Lengthened(l, Reach(l, p), NULL)
    BY <1>2, ReachLengthens
  <2>2. ArraySeq!IsPrefix(s, r) /\ \A k \in Len(s) + 1 .. Len(r) : r[k] = NULL
    BY <1>2, <1>3, <1>4, <2>1, LengthenedExtends
  <2>3. Seqs'[a] = t /\ Seqs' = [Seqs EXCEPT ![a] = Seqs'[a]]
    BY <1>6 DEF Seqs
  <2>4. ArraySeq!Extended(a, r)
    BY <1>6, <2>2 DEF ArraySeq!Extended, Seqs
  <2>5. CASE ~ (p >= 0)
    <3>1. t = r /\ p < 0
      BY <1>2, <1>5, <2>5
    <3> QED
      BY <1>6, <1>7, <1>9, <2>3, <2>4, <3>1 DEF ArraySeq!Set, Seqs
  <2>6. CASE p >= 0
    <3>1. t = [r EXCEPT ![p + 1] = v] /\ ~ (p < 0)
      BY <1>2, <1>5, <2>6
    <3>2. WellFormed(Reach(l, p)) /\ InRange(Reach(l, p), p)
      BY <1>2, <2>6, ReachLengthens, ReachWellFormed
    <3>3. p + 1 \in DOMAIN r /\ p + 1 \in Len(s) + 1 .. Len(r)
      <4>1. PICK n \in Nat : n = Reach(l, p).size /\ p < n
        BY <3>2, FieldTypes DEF InRange
      <4>2. DOMAIN r = 1 .. n /\ Len(r) = n
        BY <1>4, <3>2, <4>1, ContentIs
      <4> QED
        BY <1>2, <1>7, <1>9, <2>6, <4>1, <4>2
    <3>4. t[p + 1] = v /\ r[p + 1] = NULL
      BY <2>2, <3>1, <3>3
    <3>5. [t EXCEPT ![p + 1] = NULL] = r
      <4>1. PICK k : k = p + 1
        OBVIOUS
      <4>2. r = [i \in DOMAIN r |-> r[i]]
        BY <1>4 DEF Content
      <4>3. r = [r EXCEPT ![k] = NULL]
        BY <3>3, <3>4, <4>1, <4>2
      <4>4. [[r EXCEPT ![k] = v] EXCEPT ![k] = NULL] = [r EXCEPT ![k] = NULL]
        OBVIOUS
      <4> QED
        BY <3>1, <4>1, <4>3, <4>4
    <3> QED
      BY <1>6, <1>7, <1>9, <2>3, <2>4, <3>1, <3>4, <3>5 DEF ArraySeq!Set, Seqs
  <2> QED
    BY <2>5, <2>6
<1> QED
  BY <1>8, <1>9

(* Every call is the call of a sequence that its name says.                 *)
LEMMA CallRefines ==
  ASSUME ArrayInv, NEW a \in Arrays, ArrayCalls(a)
  PROVE  ArraySeq!Next
<1>1. (\A b \in Arrays : WellFormed(arr[b])) /\ arr[a].size \in Nat
  BY InvIsWellFormed, FieldTypes
<1>2. /\ \A b \in Arrays : Seqs[b] = Content(arr[b])
      /\ Len(Seqs[a]) = arr[a].size
  BY <1>1, ContentIs DEF Seqs
<1>3. ASSUME NEW v \in Element, Store(a, ArrayListPushBack(arr[a], v), <<"PushBack", a, v>>)
      PROVE  ArraySeq!Next
  <2>1. acall' = <<"PushBack", a, v>> /\ Seqs' = [Seqs EXCEPT ![a] = Append(@, v)]
    BY <1>1, <1>2, <1>3, StoreRefines, PushBackContent
  <2>2. ArraySeq!PushBack(a, v)
    BY <2>1 DEF ArraySeq!PushBack, Seqs
  <2> QED
    BY <2>2 DEF ArraySeq!Next
<1>4. ASSUME arr[a].size > 0,
             Store(a, ArrayListPopBack(arr[a]), <<"PopBack", a, ArrayListLast(arr[a])>>)
      PROVE  ArraySeq!Next
  <2>1. /\ Seqs[a] # <<>> /\ acall' = <<"PopBack", a, ArraySeq!Last(Seqs[a])>>
        /\ Seqs' = [Seqs EXCEPT ![a] = ArraySeq!Front(@)]
    BY <1>1, <1>2, <1>4, StoreRefines, PopBackContent
  <2>2. ArraySeq!PopBack(a)
    BY <2>1 DEF ArraySeq!PopBack, Seqs
  <2> QED
    BY <2>2 DEF ArraySeq!Next
<1>5. ASSUME NEW l, l.size = 0, Store(a, l, <<"Empty", a>>)
      PROVE  ArraySeq!Next
  <2>1. acall' = <<"Empty", a>> /\ Seqs' = [Seqs EXCEPT ![a] = <<>>]
    BY <1>5, StoreRefines, EmptyContent
  <2>2. ArraySeq!Empty(a)
    BY <2>1 DEF ArraySeq!Empty, Seqs
  <2> QED
    BY <2>2 DEF ArraySeq!Next
<1>6. ArrayListClear(arr[a]).size = 0
  BY DEF ArrayListClear
<1>7. ArrayListDestroy(arr[a]).size = 0
  BY <1>1, FieldTypes DEF ArrayListDestroy, ArrayListNew
<1>8. ASSUME Store(a, ArrayListMap(arr[a]), <<"Map", a>>)
      PROVE  ArraySeq!Next
  <2>1. acall' = <<"Map", a>> /\ Seqs' = [Seqs EXCEPT ![a] = [k \in DOMAIN @ |-> Modifier[@[k]]]]
    BY <1>1, <1>2, <1>8, StoreRefines, MapContent
  <2>2. ArraySeq!Map(a)
    BY <2>1 DEF ArraySeq!Map, Seqs
  <2> QED
    BY <2>2 DEF ArraySeq!Next
<1>9. ASSUME NEW p \in -1 .. arr[a].size + 1,
             Store(a, Reach(arr[a], p), <<"Get", a, p, ArrayListGetValueAt(arr[a], p)>>)
      PROVE  ArraySeq!Next
  <2>1. ArraySeq!Get(a, p)
    BY <1>9, GetRefines
  <2> QED
    BY <1>2, <1>9, <2>1 DEF ArraySeq!Next, Seqs
<1>10. ASSUME NEW p \in -1 .. arr[a].size + 1, NEW v \in Element,
              Store(a, ArrayListSetValueAt(arr[a], p, v), <<"Set", a, p, v>>)
       PROVE  ArraySeq!Next
  <2>1. ArraySeq!Set(a, p, v)
    BY <1>10, SetRefines
  <2> QED
    BY <1>2, <1>10, <2>1 DEF ArraySeq!Next, Seqs
<1>11. ASSUME NEW n \in 0 .. MaxArray, Store(a, ArrayListResize(arr[a], n), <<"Resize", a>>)
       PROVE  ArraySeq!Next
  <2>1. acall' = <<"Resize", a>> /\ Seqs' = [Seqs EXCEPT ![a] = Seqs[a]]
    BY <1>1, <1>2, <1>11, StoreRefines, ResizeContent
  <2>2. ArraySeq!Resize(a)
    BY <2>1 DEF ArraySeq!Resize, Seqs
  <2> QED
    BY <2>2 DEF ArraySeq!Next
<1>12. ASSUME NEW n \in 0 .. MaxArray, NEW v \in Element,
              Store(a, ArrayListResizeFillWith(arr[a], n, v), <<"Fill", a, n, v>>)
       PROVE  ArraySeq!Next
  <2>1. PICK t : t = Content(ArrayListResizeFillWith(arr[a], n, v))
    OBVIOUS
  <2>2. t = Seqs[a] \o [k \in 1 .. n - Len(Seqs[a]) |-> v] /\ n <= Len(t) /\ n \in Nat
    <3>1. n \in Nat /\ WellFormed(arr[a]) /\ Seqs[a] = Content(arr[a])
      BY <1>1, <1>2
    <3> QED
      BY <2>1, <3>1, FillContent
  <2>3. Len(t) \in Nat
    <3>1. WellFormed(ArrayListResizeFillWith(arr[a], n, v))
      BY <1>1, FillWithWellFormed
    <3>2. t \in Seq(Element)
      BY <2>1, <3>1, ContentIs
    <3> QED
      BY <3>2
  <2>4. acall' = <<"Fill", a, n, v>> /\ Seqs' = [Seqs EXCEPT ![a] = t] /\ Seqs'[a] = t
    BY <1>12, <2>1, StoreRefines DEF Seqs
  <2>5. Seqs' = [Seqs EXCEPT ![a] = @ \o [k \in 1 .. n - Len(@) |-> v]]
    BY <2>2, <2>4
  <2>6. ArraySeq!Fill(a, n, v)
    BY <2>4, <2>5 DEF ArraySeq!Fill, Seqs
  <2>7. n \in 0 .. Len([x \in Arrays |-> Content(arr[x])]'[a])
    <3>1. PICK m \in Nat : m = Len(t) /\ n <= m
      BY <2>2, <2>3
    <3>2. n \in 0 .. m
      BY <3>1
    <3>3. Seqs'[a] = [x \in Arrays |-> Content(arr[x])]'[a]
      BY DEF Seqs
    <3> QED
      BY <2>4, <3>1, <3>2, <3>3
  <2>8. \E i \in Arrays : \E k \in 0 .. Len([x \in Arrays |-> Content(arr[x])]'[i]) :
          \E w \in Element : ArraySeq!Fill(i, k, w)
    BY <2>6, <2>7
  <2> QED
    BY <2>8, Zenon DEF ArraySeq!Next
<1>13. ASSUME NEW b \in Arrays \ {a}, Store(a, ArrayListCopy(arr[b]), <<"Copy", b, a>>)
       PROVE  ArraySeq!Next
  <2>1. acall' = <<"Copy", b, a>> /\ Seqs' = [Seqs EXCEPT ![a] = Seqs[b]]
    BY <1>1, <1>2, <1>13, StoreRefines, CopyContent
  <2>2. ArraySeq!Copy(b, a)
    BY <2>1 DEF ArraySeq!Copy, Seqs
  <2> QED
    BY <2>2 DEF ArraySeq!Next
<1>14. ASSUME NEW b \in Arrays \ {a}, Store(a, ArrayListDeepCopy(arr[b]), <<"DeepCopy", b, a>>)
       PROVE  ArraySeq!Next
  <2>1. Content(ArrayListDeepCopy(arr[b])) = [k \in DOMAIN Seqs[b] |-> Modifier[Seqs[b][k]]]
    <3>1. PICK l : l = ArrayListCopy(arr[b])
      OBVIOUS
    <3>2. WellFormed(l) /\ Content(l) = Content(arr[b])
      BY <1>1, <1>2, <3>1, CopyWellFormed, CopyContent
    <3>3. Content(ArrayListMap(l)) = [k \in DOMAIN Content(l) |-> Modifier[Content(l)[k]]]
      BY <3>2, MapContent
    <3>4. Content(l) = Seqs[b]
      BY <3>2 DEF Seqs
    <3> QED
      BY <3>1, <3>3, <3>4 DEF ArrayListDeepCopy
  <2>2. /\ acall' = <<"DeepCopy", b, a>>
        /\ Seqs' = [Seqs EXCEPT ![a] = [k \in DOMAIN Seqs[b] |-> Modifier[Seqs[b][k]]]]
    BY <1>14, <2>1, StoreRefines
  <2>3. ArraySeq!DeepCopy(b, a)
    BY <2>2 DEF ArraySeq!DeepCopy, Seqs
  <2> QED
    BY <2>3 DEF ArraySeq!Next
<1> QED
  BY <1>3, <1>4, <1>5, <1>6, <1>7, <1>8, <1>9, <1>10, <1>11, <1>12, <1>13, <1>14 DEF ArrayCalls

LEMMA SequenceInit == ArrayInit => ArraySeq!Init
<1> SUFFICES ASSUME ArrayInit PROVE ArraySeq!Init
  OBVIOUS
<1>1. arr = [a \in Arrays |-> ArrayListNew] /\ acall = <<"new">>
  BY DEF ArrayInit
<1>2. Content(ArrayListNew) = <<>>
  BY EmptyContent, NewWellFormed
<1> QED
  BY <1>1, <1>2 DEF ArraySeq!Init

LEMMA SequenceStep == ArrayInv /\ [ArrayNext]_arrayVars => [ArraySeq!Next]_(ArraySeq!seqVars)
<1> SUFFICES ASSUME ArrayInv, [ArrayNext]_arrayVars PROVE [ArraySeq!Next]_(ArraySeq!seqVars)
  OBVIOUS
<1>1. CASE \E a \in Arrays : ArrayCalls(a)
  BY <1>1, CallRefines
<1>2. CASE loop # NoLoop /\ CopyIntoTurn
  BY <1>2, TurnRefines
<1>3. CASE UNCHANGED <<arr, acall>>
  BY <1>3 DEF ArraySeq!seqVars, Content
<1>4. CASE (\E a \in Arrays : \E b \in Arrays \ {a} : CopyIntoBegin(a, b)) \/ CopyIntoEnd
           \/ UNCHANGED arrayVars
  BY <1>3, <1>4 DEF CopyIntoBegin, CopyIntoEnd, arrayVars
<1> QED
  BY <1>1, <1>2, <1>4 DEF ArrayNext

(* For any lists, any modifier and any growth constants, every call of      *)
(* array_lists.c has the effect and the result on the sequence of elements  *)
(* that its name says, however often the block was reallocated.             *)
THEOREM ArraysImplementSequences == ArraySpec => ArraysAreSequences
<1> QED
  BY SequenceInit, SequenceStep, ArrayInvAlways, PTL DEF ArraySpec, ArraysAreSequences, ArraySeq!Spec
=============================================================================
