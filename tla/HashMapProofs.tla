---------------------------- MODULE HashMapProofs ---------------------------
(***************************************************************************)
(* The map of hashmap.h is a dictionary, and a loop over it visits what it  *)
(* should, for every value of the constants: any keys, any hash and any way *)
(* in which the bucket array grows.                                         *)
(***************************************************************************)
EXTENDS HashMap, ArrayListProofs, SequenceTheorems

-----------------------------------------------------------------------------
(* THE BUCKET ARRAY                                                        *)

(* An access within range reads the slot and changes nothing.               *)
LEMMA Within ==
  ASSUME NEW l, NEW p \in Nat, p < l.size
  PROVE  Reach(l, p) = l /\ ArrayListGetValueAt(l, p) = l.data[p]
BY DEF Reach, InRange, ArrayListGetValueAt

(* An access beyond the end finds NULL, and the list now reaches further.   *)
LEMMA Beyond ==
  ASSUME NEW l, WellFormed(l), NEW p \in Nat, ~ (p < l.size)
  PROVE  /\ ArrayListGetValueAt(l, p) = NULL
         /\ p < Reach(l, p).size /\ Reach(l, p).data[p] = NULL
<1>1. l.size \in Nat
  BY FieldTypes
<1>2. PICK n \in Nat : n = p + GrowStep /\ p < n /\ l.size < n
  BY <1>1, ArrayListAssumption DEF ArrayListAssumption
<1>3. Reach(l, p) = ArrayListResizeFillWith(l, n, NULL)
  BY <1>2 DEF Reach, InRange, ArrayListResizeFill
<1>4. PICK g : g = ArrayListResize(l, n + FillSlack)
  OBVIOUS
<1>5. p \in Slots(g.alloc_size)
  <2>1. WellFormed(g) /\ g.alloc_size > n + FillSlack
    BY <1>2, <1>4, ResizeGrows, ArrayListAssumption DEF ArrayListAssumption, Grown
  <2>2. g.alloc_size \in Nat /\ FillSlack \in Nat
    BY <2>1, FieldTypes, ArrayListAssumption DEF ArrayListAssumption
  <2> QED
    BY <1>2, <2>1, <2>2 DEF Slots
<1>6. p \in l.size .. n - 1
  BY <1>1, <1>2
<1>7. Reach(l, p).size = n /\ Reach(l, p).data[p] = NULL
  BY <1>1, <1>2, <1>3, <1>4, <1>5, <1>6 DEF ArrayListResizeFillWith
<1>8. InRange(Reach(l, p), p)
  BY <1>2, <1>7 DEF InRange
<1> QED
  BY <1>2, <1>7, <1>8 DEF ArrayListGetValueAt

(* An element that is stored is there.                                      *)
LEMMA StoredAt ==
  ASSUME NEW l, WellFormed(l), NEW p \in Nat, p < l.size, NEW v \in Element
  PROVE  /\ WellFormed(ArrayListSetValueAt(l, p, v))
         /\ p < ArrayListSetValueAt(l, p, v).size
         /\ ArrayListSetValueAt(l, p, v).data[p] = v
<1>1. ArrayListSetValueAt(l, p, v) = Put(l, p, v, l.size)
  BY Within DEF ArrayListSetValueAt, InRange
<1>2. p \in Slots(l.alloc_size) /\ l.data \in [Slots(l.alloc_size) -> Element \cup {Junk}]
  BY FieldTypes DEF Slots
<1> QED
  BY <1>1, <1>2, SetValueWellFormed DEF Put

-----------------------------------------------------------------------------
(* THE CALLS                                                               *)

Item == [key : Keys, value : Element]

(* The bucket of the hash has been created.                                 *)
Bucketed(m) == HASH < m.nodes.size /\ m.nodes.data[HASH] # NULL

(* No two elements of the bucket are there under the same key.              *)
Unique(items) == \A i, j \in DOMAIN items : Name(items[i].key) = Name(items[j].key) => i = j

MapType(m) ==
  /\ m = [nodes |-> m.nodes, items |-> m.items]
  /\ WellFormed(m.nodes)
  /\ m.items \in Seq(Item)
  /\ m.items # <<>> => Bucketed(m)

MapInv(m) == MapType(m) /\ Unique(m.items)

(* The lookup of every function finds the bucket exactly when it is there.  *)
LEMMA BucketRead ==
  ASSUME NEW m, MapType(m)
  PROVE  ArrayListGetValueAt(m.nodes, HASH) # NULL <=> Bucketed(m)
BY Within, Beyond, HashMapAssumption DEF HashMapAssumption, MapType, Bucketed

(* A lookup keeps the elements, and nothing changes when the bucket exists. *)
LEMMA LookupKeeps ==
  ASSUME NEW m, MapType(m)
  PROVE  /\ MapType(Lookup(m)) /\ Lookup(m).items = m.items
         /\ HASH < Lookup(m).nodes.size
         /\ Bucketed(m) => Lookup(m) = m
<1>1. HASH \in Nat
  BY HashMapAssumption DEF HashMapAssumption
<1>2. Lookup(m) = [nodes |-> Reach(m.nodes, HASH), items |-> m.items]
  BY DEF Lookup, MapType
<1>3. WellFormed(Reach(m.nodes, HASH))
  BY <1>1, ReachWellFormed DEF MapType
<1>4. HASH < Lookup(m).nodes.size
  BY <1>1, <1>2, Within, Beyond DEF MapType
<1>5. Bucketed(m) => Reach(m.nodes, HASH) = m.nodes
  BY <1>1, Within DEF Bucketed
<1>6. Bucketed(m) => Lookup(m) = m
  BY <1>2, <1>5 DEF MapType
<1>7. MapType(Lookup(m))
  BY <1>2, <1>3, <1>6 DEF MapType
<1> QED
  BY <1>2, <1>4, <1>6, <1>7

(* A part of a sequence, by the elements in it.                             *)
LEMMA PartOf ==
  ASSUME NEW S, NEW s \in Seq(S), NEW m \in 1 .. Len(s) + 1, NEW n \in 0 .. Len(s), n >= m - 1
  PROVE  /\ SubSeq(s, m, n) \in Seq(S) /\ Len(SubSeq(s, m, n)) = n - m + 1
         /\ \A i \in 1 .. n - m + 1 : SubSeq(s, m, n)[i] = s[m + i - 1]
<1>1. \A i \in m .. n : s[i] \in S
  OBVIOUS
<1>2. m \in Int /\ n \in Int
  OBVIOUS
<1>3. /\ SubSeq(s, m, n) \in Seq(S)
      /\ Len(SubSeq(s, m, n)) = IF m <= n THEN n - m + 1 ELSE 0
      /\ \A i \in 1 .. n - m + 1 : SubSeq(s, m, n)[i] = s[m + i - 1]
  BY <1>1, <1>2, SubSeqProperties
<1> QED
  BY <1>2, <1>3

(* Removing an element moves those behind it up by one.                     *)
LEMMA RemovedAt ==
  ASSUME NEW S, NEW s \in Seq(S), NEW p \in 1 .. Len(s)
  PROVE  /\ RemoveAt(s, p) \in Seq(S)
         /\ Len(RemoveAt(s, p)) = Len(s) - 1
         /\ \A i \in 1 .. Len(s) - 1 : RemoveAt(s, p)[i] = IF i < p THEN s[i] ELSE s[i + 1]
<1>1. PICK n \in Nat : n = Len(s)
  OBVIOUS
<1>2. PICK f \in Seq(S) : f = SubSeq(s, 1, p - 1)
  <2>1. PICK q \in 0 .. Len(s) : q = p - 1
    OBVIOUS
  <2>2. SubSeq(s, 1, q) \in Seq(S)
    BY <2>1, PartOf
  <2> QED
    BY <2>1, <2>2
<1>3. PICK b \in Seq(S) : b = SubSeq(s, p + 1, n)
  <2>1. PICK q \in 1 .. Len(s) + 1 : q = p + 1 /\ n >= q - 1
    BY <1>1
  <2>2. SubSeq(s, q, n) \in Seq(S)
    BY <1>1, <2>1, PartOf
  <2> QED
    BY <2>1, <2>2
<1>4. Len(f) = p - 1 /\ \A i \in 1 .. p - 1 : f[i] = s[i]
  <2>1. PICK q \in 0 .. Len(s) : q = p - 1
    OBVIOUS
  <2>2. Len(f) = q - 1 + 1 /\ \A i \in 1 .. q - 1 + 1 : f[i] = s[1 + i - 1]
    BY <1>1, <1>2, <2>1, PartOf
  <2> QED
    BY <2>1, <2>2
<1>5. Len(b) = n - p /\ \A i \in 1 .. n - p : b[i] = s[i + p]
  <2>1. PICK q \in 1 .. Len(s) + 1 : q = p + 1 /\ n >= q - 1
    BY <1>1
  <2>2. Len(b) = n - q + 1 /\ \A i \in 1 .. n - q + 1 : b[i] = s[q + i - 1]
    BY <1>1, <1>3, <2>1, PartOf
  <2>3. Len(b) = n - p
    BY <1>1, <2>1, <2>2
  <2>4. ASSUME NEW i \in 1 .. n - p PROVE b[i] = s[i + p]
    <3>1. i \in 1 .. n - q + 1 /\ q + i - 1 = i + p
      BY <1>1, <2>1
    <3> QED
      BY <2>2, <3>1
  <2> QED
    BY <2>3, <2>4
<1>6. RemoveAt(s, p) = f \o b
  BY <1>1, <1>2, <1>3 DEF RemoveAt
<1>7. /\ f \o b \in Seq(S) /\ Len(f \o b) = Len(f) + Len(b)
      /\ \A i \in 1 .. Len(f) + Len(b) : (f \o b)[i] = IF i <= Len(f) THEN f[i] ELSE b[i - Len(f)]
  BY ConcatProperties
<1>8. Len(f \o b) = n - 1
  BY <1>1, <1>4, <1>5, <1>7
<1>9. ASSUME NEW i \in 1 .. n - 1
      PROVE  (f \o b)[i] = IF i < p THEN s[i] ELSE s[i + 1]
  <2>1. (f \o b)[i] = IF i <= p - 1 THEN f[i] ELSE b[i - (p - 1)]
    BY <1>1, <1>4, <1>5, <1>7
  <2>2. CASE i < p
    BY <1>1, <1>4, <2>1, <2>2
  <2>3. CASE ~ (i < p)
    <3>1. PICK k : k = i - (p - 1)
      OBVIOUS
    <3>2. k \in 1 .. n - p /\ k + p = i + 1
      BY <1>1, <2>3, <3>1
    <3> QED
      BY <1>1, <1>5, <2>1, <2>3, <3>1, <3>2
  <2> QED
    BY <2>2, <2>3
<1> QED
  BY <1>1, <1>6, <1>7, <1>8, <1>9

(* An element of the bucket at position p is under the name k.              *)
Holds(items, k, v) == \E i \in DOMAIN items : Name(items[i].key) = k /\ items[i].value = v

(* There is at most one element under the name of a key.                    *)
LEMMA PositionIs ==
  ASSUME NEW m, MapInv(m), NEW key, Hits(m, key) # {}
  PROVE  /\ Position(m, key) \in 1 .. Len(m.items)
         /\ \A i \in 1 .. Len(m.items) :
              Name(m.items[i].key) = Name(key) <=> i = Position(m, key)
<1>1. DOMAIN m.items = 1 .. Len(m.items)
  BY DEF MapInv, MapType
<1>2. PICK p \in Hits(m, key) : TRUE
  OBVIOUS
<1>3. p \in 1 .. Len(m.items) /\ Name(m.items[p].key) = Name(key)
  BY <1>1 DEF Hits
<1>4. \A j \in Hits(m, key) : j = p
  BY <1>3, <1>1 DEF MapInv, Unique, Hits
<1>5. \A j \in Hits(m, key) : p <= j
  BY <1>3, <1>4
<1>6. Position(m, key) \in Hits(m, key)
  BY <1>5 DEF Position
<1>7. Position(m, key) = p
  BY <1>4, <1>6
<1>8. ASSUME NEW i \in 1 .. Len(m.items), Name(m.items[i].key) = Name(key)
      PROVE  i = p
  BY <1>1, <1>3, <1>8 DEF MapInv, Unique
<1> QED
  BY <1>3, <1>7, <1>8

(* HashMapRemove, when there is no element to remove.                       *)
LEMMA NothingRemoved ==
  ASSUME NEW m, MapInv(m), NEW key, Hits(m, key) = {}
  PROVE  HashMapRemove(m, key) = Lookup(m) /\ HashMapGet(m, key) = NULL
BY DEF HashMapRemove, HashMapGet

(* HashMapRemove, when there is one: those behind it move up by one.        *)
LEMMA OneRemoved ==
  ASSUME NEW m, MapInv(m), NEW key, Hits(m, key) # {}
  PROVE  /\ HashMapRemove(m, key) =
              [nodes |-> m.nodes, items |-> RemoveAt(m.items, Position(m, key))]
         /\ HashMapGet(m, key) = m.items[Position(m, key)].value
<1>1. m.items # <<>>
  BY DEF Hits
<1>2. Bucketed(m)
  BY <1>1 DEF MapInv, MapType
<1>3. ArrayListGetValueAt(m.nodes, HASH) # NULL /\ Lookup(m) = m
  BY <1>2, BucketRead, LookupKeeps DEF MapInv
<1> QED
  BY <1>3 DEF HashMapRemove, HashMapGet, MapInv, MapType

(* r has the elements of s in their order, but for the one at p.            *)
OneLess(s, p, r) ==
  /\ Unique(r)
  /\ \A i \in 1 .. Len(r) : \E j \in 1 .. Len(s) : j >= i /\ j # p /\ r[i] = s[j]
  /\ \A j \in 1 .. Len(s) : j # p => \E i \in 1 .. Len(r) : r[i] = s[j]

(* A sequence without its element at p.                                     *)
LEMMA WithoutOne ==
  ASSUME NEW s \in Seq(Item), Unique(s), NEW p \in 1 .. Len(s),
         NEW r \in Seq(Item), r = RemoveAt(s, p)
  PROVE  OneLess(s, p, r)
<1>1. PICK n \in Nat : n = Len(s)
  OBVIOUS
<1>2. /\ r \in Seq(Item) /\ Len(r) = n - 1
      /\ \A i \in 1 .. n - 1 : r[i] = IF i < p THEN s[i] ELSE s[i + 1]
  BY <1>1, RemovedAt
<1>3. DOMAIN s = 1 .. n /\ DOMAIN r = 1 .. n - 1
  BY <1>1, <1>2
<1>4. ASSUME NEW i \in 1 .. n - 1
      PROVE  \E j \in 1 .. n : j >= i /\ j # p /\ r[i] = s[j] /\ j = IF i < p THEN i ELSE i + 1
  BY <1>1, <1>2, <1>4
<1>5. ASSUME NEW i \in 1 .. n - 1, NEW k \in 1 .. n - 1, Name(r[i].key) = Name(r[k].key)
      PROVE  i = k
  <2>1. PICK a \in 1 .. n : r[i] = s[a] /\ a = IF i < p THEN i ELSE i + 1
    BY <1>4
  <2>2. PICK b \in 1 .. n : r[k] = s[b] /\ b = IF k < p THEN k ELSE k + 1
    BY <1>4
  <2>3. a = b
    BY <1>3, <1>5, <2>1, <2>2 DEF Unique
  <2> QED
    BY <2>1, <2>2, <2>3, <1>1
<1>6. ASSUME NEW j \in 1 .. n, j # p
      PROVE  \E i \in 1 .. n - 1 : r[i] = s[j]
  <2>1. CASE j < p
    BY <1>1, <1>2, <2>1
  <2>2. CASE ~ (j < p)
    <3>1. PICK i \in 1 .. n - 1 : i + 1 = j /\ ~ (i < p)
      BY <1>1, <1>6, <2>2
    <3> QED
      BY <1>2, <3>1
  <2> QED
    BY <2>1, <2>2
<1>7. Unique(r)
  BY <1>3, <1>5 DEF Unique
<1>8. \A i \in 1 .. n - 1 : \E j \in 1 .. n : j >= i /\ j # p /\ r[i] = s[j]
  BY <1>4
<1> QED
  BY <1>1, <1>2, <1>6, <1>7, <1>8 DEF OneLess

(* r is the map m without the element under a key, if there was one.        *)
Without(m, key, r) ==
  /\ MapInv(r) /\ HASH < r.nodes.size
  /\ Bucketed(m) => Bucketed(r)
  /\ \A i \in 1 .. Len(r.items) : \E j \in 1 .. Len(m.items) :
       j >= i /\ r.items[i] = m.items[j] /\ Name(m.items[j].key) # Name(key)
  /\ \A j \in 1 .. Len(m.items) :
       Name(m.items[j].key) # Name(key) => \E i \in 1 .. Len(r.items) : r.items[i] = m.items[j]

(* That is what HashMapRemove leaves.                                       *)
LEMMA RemoveKeeps ==
  ASSUME NEW m, MapInv(m), NEW key
  PROVE  Without(m, key, HashMapRemove(m, key))
<1> SUFFICES ASSUME NEW r, r = HashMapRemove(m, key)
             PROVE  Without(m, key, r)
  OBVIOUS
<1>1. CASE Hits(m, key) = {}
  <2>1. r = Lookup(m)
    BY <1>1, NothingRemoved
  <2>2. MapType(r) /\ r.items = m.items /\ HASH < r.nodes.size /\ (Bucketed(m) => Bucketed(r))
    BY <2>1, LookupKeeps DEF MapInv
  <2>3. DOMAIN m.items = 1 .. Len(m.items)
    BY DEF MapInv, MapType
  <2>4. \A j \in 1 .. Len(m.items) : Name(m.items[j].key) # Name(key)
    BY <1>1, <2>3 DEF Hits
  <2>5. Len(m.items) \in Nat
    BY DEF MapInv, MapType
  <2> QED
    BY <2>2, <2>4, <2>5 DEF MapInv, Without
<1>2. CASE Hits(m, key) # {}
  <2>1. PICK p \in 1 .. Len(m.items) :
          /\ p = Position(m, key)
          /\ \A i \in 1 .. Len(m.items) : Name(m.items[i].key) = Name(key) <=> i = p
    BY <1>2, PositionIs
  <2>2. r = [nodes |-> m.nodes, items |-> RemoveAt(m.items, p)]
    BY <1>2, <2>1, OneRemoved
  <2>3. r.nodes = m.nodes /\ r.items = RemoveAt(m.items, p)
    BY <2>2
  <2>4. PICK s \in Seq(Item) : s = m.items /\ Unique(s)
    BY DEF MapInv, MapType
  <2>5. PICK t \in Seq(Item) : t = r.items /\ t = RemoveAt(s, p) /\ p \in 1 .. Len(s)
    BY <2>1, <2>3, <2>4, RemovedAt
  <2>9. /\ Unique(t)
        /\ \A i \in 1 .. Len(t) : \E j \in 1 .. Len(s) : j >= i /\ j # p /\ t[i] = s[j]
        /\ \A j \in 1 .. Len(s) : j # p => \E i \in 1 .. Len(t) : t[i] = s[j]
    <3>1. OneLess(s, p, t)
      BY <2>4, <2>5, WithoutOne
    <3> QED
      BY <3>1 DEF OneLess
  <2>6. m.items # <<>>
    BY <1>2 DEF Hits
  <2>7. Bucketed(m) /\ Bucketed(r) /\ HASH < r.nodes.size
    BY <2>3, <2>6 DEF MapInv, MapType, Bucketed
  <2>8. r = [nodes |-> r.nodes, items |-> r.items] /\ WellFormed(r.nodes)
    BY <2>2, <2>3 DEF MapInv, MapType
  <2> QED
    BY <2>1, <2>4, <2>5, <2>9, <2>7, <2>8 DEF MapInv, MapType, Without
<1> QED
  BY <1>1, <1>2

(* s is what a removal leaves, r, and a new element behind it.              *)
Extended(r, key, value, s) ==
  /\ MapInv(s) /\ Bucketed(s)
  /\ r.items \in Seq(Item) /\ Len(s.items) = Len(r.items) + 1
  /\ \A i \in 1 .. Len(r.items) : s.items[i] = r.items[i]
  /\ s.items[Len(r.items) + 1] = [key |-> key, value |-> value]

(* That is what HashMapSet leaves.                                          *)
LEMMA SetKeeps ==
  ASSUME NEW m, MapInv(m), NEW key \in Keys, NEW value \in Element
  PROVE  Extended(HashMapRemove(m, key), key, value, HashMapSet(m, key, value))
<1> SUFFICES ASSUME NEW r, r = HashMapRemove(m, key), NEW s, s = HashMapSet(m, key, value)
             PROVE  Extended(r, key, value, s)
  OBVIOUS
<1>0. Without(m, key, r)
  BY RemoveKeeps
<1>1. /\ MapInv(r) /\ HASH < r.nodes.size
      /\ \A i \in 1 .. Len(r.items) : Name(r.items[i].key) # Name(key)
  BY <1>0 DEF Without
<1>2. PICK e \in Item : e = [key |-> key, value |-> value]
  BY DEF Item
<1>3. PICK q \in Seq(Item) : q = r.items
  BY <1>1 DEF MapInv, MapType
<1>4. s = [nodes |-> ArrayListSetValueAt(r.nodes, HASH, Bucket), items |-> Append(q, e)]
  BY <1>2, <1>3 DEF HashMapSet
<1>5. PICK t \in Seq(Item) : t = Append(q, e)
  BY <1>2, <1>3, AppendProperties
<1>6. /\ Len(t) = Len(q) + 1 /\ t[Len(q) + 1] = e
      /\ \A i \in 1 .. Len(q) : t[i] = q[i]
  BY <1>5
<1>7. WellFormed(s.nodes) /\ HASH < s.nodes.size /\ s.nodes.data[HASH] # NULL
  <2>1. HASH \in Nat /\ Bucket \in Element /\ Bucket # NULL
    BY HashMapAssumption, GenericsAssumption DEF Element
  <2>2. WellFormed(r.nodes)
    BY <1>1 DEF MapInv, MapType
  <2> QED
    BY <1>1, <1>4, <2>1, <2>2, StoredAt
<1>8. Unique(t)
  <2>1. \A i \in 1 .. Len(q) : Name(q[i].key) # Name(key)
    BY <1>1, <1>3
  <2>2. Unique(q) /\ DOMAIN q = 1 .. Len(q) /\ DOMAIN t = 1 .. Len(q) + 1 /\ Len(q) \in Nat
    BY <1>1, <1>3, <1>6 DEF MapInv
  <2>3. e.key = key
    BY <1>2
  <2>4. ASSUME NEW i \in 1 .. Len(q) + 1, NEW j \in 1 .. Len(q) + 1, Name(t[i].key) = Name(t[j].key)
        PROVE  i = j
    <3>1. CASE i \in 1 .. Len(q) /\ j \in 1 .. Len(q)
      BY <1>6, <2>2, <2>4, <3>1 DEF Unique
    <3>2. CASE i = Len(q) + 1 /\ j \in 1 .. Len(q)
      BY <1>6, <2>1, <2>3, <2>4, <3>2
    <3>3. CASE i \in 1 .. Len(q) /\ j = Len(q) + 1
      BY <1>6, <2>1, <2>3, <2>4, <3>3
    <3> QED
      BY <2>2, <3>1, <3>2, <3>3
  <2> QED
    BY <2>2, <2>4 DEF Unique
<1>9. s = [nodes |-> s.nodes, items |-> s.items] /\ s.items = t
  BY <1>4, <1>5
<1>10. MapInv(s)
  BY <1>7, <1>8, <1>9 DEF MapInv, MapType, Bucketed
<1> QED
  BY <1>2, <1>3, <1>6, <1>7, <1>9, <1>10 DEF Bucketed, Extended

-----------------------------------------------------------------------------
(* THE DICTIONARY                                                          *)

(* The element of a map under a name, or NULL.                              *)
At(items, k) ==
  LET S == {i \in DOMAIN items : Name(items[i].key) = k}
  IN  IF S = {} THEN NULL ELSE items[CHOOSE i \in S : TRUE].value

(* An element that is there is the one that is found.                       *)
LEMMA AtFinds ==
  ASSUME NEW items, Unique(items), NEW k, NEW i \in DOMAIN items, Name(items[i].key) = k
  PROVE  At(items, k) = items[i].value
<1>1. i \in {j \in DOMAIN items : Name(items[j].key) = k}
  OBVIOUS
<1>2. \A j \in {n \in DOMAIN items : Name(items[n].key) = k} : j = i
  BY DEF Unique
<1> QED
  BY <1>1, <1>2 DEF At

(* And where there is none, nothing is found.                               *)
LEMMA AtMisses ==
  ASSUME NEW items, NEW k, \A i \in DOMAIN items : Name(items[i].key) # k
  PROVE  At(items, k) = NULL
BY DEF At

(* HashMapGet returns the element under the name of its key.                *)
LEMMA GetIsAt ==
  ASSUME NEW m, MapInv(m), NEW key
  PROVE  HashMapGet(m, key) = At(m.items, Name(key))
<1>1. DOMAIN m.items = 1 .. Len(m.items)
  BY DEF MapInv, MapType
<1>2. CASE Hits(m, key) = {}
  BY <1>2, NothingRemoved, AtMisses DEF Hits
<1>3. CASE Hits(m, key) # {}
  <2>1. PICK p \in 1 .. Len(m.items) : p = Position(m, key) /\ Name(m.items[p].key) = Name(key)
    BY <1>3, PositionIs
  <2>2. At(m.items, Name(key)) = m.items[p].value
    BY <1>1, <2>1, AtFinds DEF MapInv
  <2> QED
    BY <1>3, <2>1, <2>2, OneRemoved
<1> QED
  BY <1>2, <1>3

(* HashMapRemove makes its key missing, and no other.                       *)
LEMMA AtRemoved ==
  ASSUME NEW m, MapInv(m), NEW key, NEW k, NEW r, r = HashMapRemove(m, key)
  PROVE  At(r.items, k) = IF k = Name(key) THEN NULL ELSE At(m.items, k)
<1>0. Without(m, key, r)
  BY RemoveKeeps
<1>1. MapInv(r)
  BY <1>0 DEF Without
<1>2. DOMAIN m.items = 1 .. Len(m.items) /\ DOMAIN r.items = 1 .. Len(r.items)
  BY <1>1 DEF MapInv, MapType
<1>3. Unique(m.items) /\ Unique(r.items)
  BY <1>1 DEF MapInv
<1>4. CASE k = Name(key)
  <2>1. ASSUME NEW i \in DOMAIN r.items PROVE Name(r.items[i].key) # k
    <3>1. i \in 1 .. Len(r.items)
      BY <1>2
    <3>2. PICK j \in 1 .. Len(m.items) : r.items[i] = m.items[j] /\ Name(m.items[j].key) # Name(key)
      BY <1>0, <3>1 DEF Without
    <3> QED
      BY <1>4, <3>2
  <2> QED
    BY <1>4, <2>1, AtMisses
<1>5. CASE k # Name(key) /\ \E j \in DOMAIN m.items : Name(m.items[j].key) = k
  <2>1. PICK j \in DOMAIN m.items : Name(m.items[j].key) = k
    BY <1>5
  <2>2. PICK i \in DOMAIN r.items : r.items[i] = m.items[j]
    BY <1>0, <1>2, <1>5, <2>1 DEF Without
  <2>3. At(m.items, k) = m.items[j].value
    BY <1>3, <2>1, AtFinds
  <2>4. At(r.items, k) = r.items[i].value
    BY <1>3, <2>1, <2>2, AtFinds
  <2> QED
    BY <1>5, <2>2, <2>3, <2>4
<1>6. CASE k # Name(key) /\ \A j \in DOMAIN m.items : Name(m.items[j].key) # k
  <2>1. ASSUME NEW i \in DOMAIN r.items
        PROVE  Name(r.items[i].key) # k
    <3>1. PICK j \in 1 .. Len(m.items) : r.items[i] = m.items[j]
      BY <1>0, <1>2 DEF Without
    <3> QED
      BY <1>2, <1>6, <3>1
  <2> QED
    BY <1>6, <2>1, AtMisses
<1> QED
  BY <1>4, <1>5, <1>6

(* HashMapSet puts its value under its key, and keeps every other.          *)
LEMMA AtSet ==
  ASSUME NEW m, MapInv(m), NEW key \in Keys, NEW value \in Element, NEW k,
         NEW s, s = HashMapSet(m, key, value)
  PROVE  At(s.items, k) = IF k = Name(key) THEN value ELSE At(m.items, k)
<1>1. PICK r : r = HashMapRemove(m, key)
  OBVIOUS
<1>2. PICK n : n = Len(r.items)
  OBVIOUS
<1>3. /\ MapInv(s) /\ r.items \in Seq(Item) /\ Len(s.items) = n + 1
      /\ \A i \in 1 .. n : s.items[i] = r.items[i]
      /\ s.items[n + 1] = [key |-> key, value |-> value]
  BY <1>1, <1>2, SetKeeps DEF Extended
<1>4. n \in Nat /\ DOMAIN s.items = 1 .. n + 1 /\ DOMAIN r.items = 1 .. n
  BY <1>2, <1>3 DEF MapInv, MapType
<1>5. Unique(s.items)
  BY <1>3 DEF MapInv
<1>6. CASE k = Name(key)
  <2>1. n + 1 \in DOMAIN s.items /\ s.items[n + 1].key = key /\ s.items[n + 1].value = value
    BY <1>3, <1>4
  <2>2. At(s.items, k) = s.items[n + 1].value
    BY <1>5, <1>6, <2>1, AtFinds
  <2> QED
    BY <1>6, <2>1, <2>2
<1>7. CASE k # Name(key)
  <2>1. At(r.items, k) = At(m.items, k)
    BY <1>1, <1>7, AtRemoved
  <2>2. CASE \E i \in DOMAIN r.items : Name(r.items[i].key) = k
    <3>1. PICK i \in DOMAIN r.items : Name(r.items[i].key) = k
      BY <2>2
    <3>2. i \in DOMAIN s.items /\ s.items[i] = r.items[i]
      BY <1>3, <1>4, <3>1
    <3>3. Unique(r.items)
      BY <1>1, RemoveKeeps DEF MapInv, Without
    <3>4. At(r.items, k) = r.items[i].value
      BY <3>1, <3>3, AtFinds
    <3>5. At(s.items, k) = s.items[i].value
      BY <1>5, <3>1, <3>2, AtFinds
    <3> QED
      BY <1>7, <2>1, <3>2, <3>4, <3>5
  <2>3. CASE \A i \in DOMAIN r.items : Name(r.items[i].key) # k
    <3>1. s.items[n + 1].key = key
      BY <1>3
    <3>2. \A i \in DOMAIN s.items : Name(s.items[i].key) # k
      BY <1>3, <1>4, <1>7, <2>3, <3>1
    <3> QED
      BY <1>7, <2>1, <2>3, <3>2, AtMisses
  <2> QED
    BY <2>2, <2>3
<1> QED
  BY <1>6, <1>7

-----------------------------------------------------------------------------
(* THE LOOP                                                                *)

Iterator == [bucket : Nat, index : Nat]

Distinct(sn) == \A i, j \in DOMAIN sn : i # j => Name(sn[i]) # Name(sn[j])

(* The loop has visited the first n elements, and nothing else.             *)
First(m, sn, n) ==
  /\ n <= Len(m.items) /\ Len(sn) = n
  /\ \A i \in 1 .. n : sn[i] = m.items[i].key

(* Of the elements behind the first n, the loop has visited none.           *)
Ahead(m, sn, n) ==
  \A i \in 1 .. Len(m.items) :
    i > n => \A j \in DOMAIN sn : Name(sn[j]) # Name(m.items[i].key)

(* The iterator is at an offset into the bucket.                            *)
Inside(m, it, sn, bd) ==
  /\ it.bucket = HASH /\ Bucketed(m)
  /\ bd # "replaced" => Ahead(m, sn, it.index + 1)
  /\ bd = "steady" => First(m, sn, it.index + 1)

(* The iterator is behind the last bucket.                                  *)
Past(m, it, sn, bd) ==
  HashMapIsEnd(m, it) /\ (bd = "steady" => First(m, sn, Len(m.items)))

State(m, it, sn, bd) ==
  /\ MapInv(m) /\ sn \in Seq(Keys)
  /\ bd # "replaced" => Distinct(sn)
  /\ \/ it = NULL /\ sn = <<>>
     \/ it \in Iterator /\ (Inside(m, it, sn, bd) \/ Past(m, it, sn, bd))

(* The inductive invariant of the callers.                                  *)
HashMapInv == State(map, iter, seen, body)

(* Names do not change: the comparator of a map is set once.                *)
LEMMA InvAfter ==
  ASSUME cmp' = cmp, State(map', iter', seen', body')
  PROVE  HashMapInv'
BY DEF HashMapInv, State, MapInv, MapType, Bucketed, Unique, Distinct, Inside, Past, First, Ahead, Name,
   HashMapIsEnd

(* A map with a bucket ends behind it: an iterator in the bucket is inside. *)
LEMMA InsideIsNotEnd ==
  ASSUME NEW m, MapInv(m), Bucketed(m), NEW it, it.bucket = HASH
  PROVE  ~ HashMapIsEnd(m, it)
BY BucketRead DEF HashMapIsEnd, MapInv

(* Where a call may run: no loop, or a loop that is at an offset.           *)
Running(m, it, sn, bd) ==
  /\ MapInv(m) /\ sn \in Seq(Keys)
  /\ bd # "replaced" => Distinct(sn)
  /\ \/ it = NULL /\ sn = <<>>
     \/ it \in Iterator /\ Inside(m, it, sn, bd)

LEMMA CallsRun ==
  ASSUME NEW m, NEW it, NEW sn, NEW bd, State(m, it, sn, bd), it # NULL => ~ HashMapIsEnd(m, it)
  PROVE  Running(m, it, sn, bd)
<1>1. NULL \notin Iterator
  BY HashMapAssumption DEF HashMapAssumption, Iterator
<1> QED
  BY <1>1 DEF State, Running, Past

LEMMA RunningIsState ==
  ASSUME NEW m, NEW it, NEW sn, NEW bd, Running(m, it, sn, bd)
  PROVE  State(m, it, sn, bd)
BY DEF State, Running

(* HashMapGet in the body of a loop.                                        *)
LEMMA GetKeeps ==
  ASSUME NEW m, NEW it, NEW sn, NEW bd, Running(m, it, sn, bd)
  PROVE  Running(Lookup(m), it, sn, bd)
<1>1. MapInv(Lookup(m)) /\ (Bucketed(m) => Lookup(m) = m)
  <2>1. MapType(m) /\ Unique(m.items)
    BY DEF Running, MapInv
  <2> QED
    BY <2>1, LookupKeeps DEF MapInv
<1>2. CASE Bucketed(m)
  BY <1>1, <1>2
<1>3. CASE ~ Bucketed(m)
  <2>1. it = NULL /\ sn = <<>> /\ sn \in Seq(Keys) /\ (bd # "replaced" => Distinct(sn))
    BY <1>3 DEF Running, Inside
  <2> QED
    BY <1>1, <2>1 DEF Running
<1> QED
  BY <1>2, <1>3

(* What a call leaves of the history of the body.                           *)
Untouched(m, sn, key) == Hits(m, key) = {} /\ \A i \in DOMAIN sn : Name(sn[i]) # Name(key)

After(m, sn, key, bd, how) == IF Untouched(m, sn, key) \/ bd = "replaced" THEN bd ELSE how

(* HashMapRemove in the body of a loop.                                     *)
LEMMA RemoveRuns ==
  ASSUME NEW m, NEW it, NEW sn, NEW bd, Running(m, it, sn, bd), NEW key,
         NEW r, r = HashMapRemove(m, key), NEW b, b = After(m, sn, key, bd, "removed")
  PROVE  Running(r, it, sn, b)
<1>0. MapInv(m) /\ sn \in Seq(Keys) /\ DOMAIN m.items = 1 .. Len(m.items) /\ Len(m.items) \in Nat
  BY DEF Running, MapInv, MapType
<1>1. Without(m, key, r)
  BY <1>0, RemoveKeeps
<1>2. MapInv(r) /\ (Bucketed(m) => Bucketed(r))
  BY <1>1 DEF Without
<1>3. b # "replaced" => bd # "replaced"
  BY DEF After
<1>4. CASE it = NULL /\ sn = <<>>
  BY <1>0, <1>2, <1>3, <1>4 DEF Running
<1>5. CASE it \in Iterator /\ Inside(m, it, sn, bd)
  <2>1. PICK n \in Nat : n = it.index + 1
    BY <1>5 DEF Iterator
  <2>2. ASSUME b # "replaced"
        PROVE  Ahead(r, sn, n)
    <3>1. Ahead(m, sn, n)
      BY <1>3, <1>5, <2>1, <2>2 DEF Inside
    <3>2. ASSUME NEW i \in 1 .. Len(r.items), i > n, NEW j \in DOMAIN sn
          PROVE  Name(sn[j]) # Name(r.items[i].key)
      <4>1. PICK k \in 1 .. Len(m.items) : k >= i /\ r.items[i] = m.items[k]
        BY <1>1 DEF Without
      <4>2. k > n
        BY <1>0, <3>2, <4>1
      <4> QED
        BY <3>1, <3>2, <4>1, <4>2 DEF Ahead
    <3> QED
      BY <3>2 DEF Ahead
  <2>3. ASSUME b = "steady"
        PROVE  First(r, sn, n)
    <3>1. Untouched(m, sn, key) /\ bd = "steady"
      BY <2>3 DEF After
    <3>2. r.items = m.items
      <4>1. r = Lookup(m)
        BY <1>0, <3>1, NothingRemoved DEF Untouched
      <4> QED
        BY <1>0, <4>1, LookupKeeps DEF MapInv
    <3> QED
      BY <1>5, <2>1, <3>1, <3>2 DEF Inside, First
  <2> QED
    BY <1>0, <1>2, <1>3, <1>5, <2>1, <2>2, <2>3 DEF Running, Inside
<1> QED
  BY <1>4, <1>5 DEF Running

(* HashMapSet in the body of a loop.                                        *)
LEMMA SetRuns ==
  ASSUME NEW m, NEW it, NEW sn, NEW bd, Running(m, it, sn, bd),
         NEW key \in Keys, NEW value \in Element,
         NEW s, s = HashMapSet(m, key, value), NEW b, b = After(m, sn, key, bd, "replaced")
  PROVE  Running(s, it, sn, b)
<1>1. PICK r : r = HashMapRemove(m, key)
  OBVIOUS
<1>2. PICK n : n = Len(r.items)
  OBVIOUS
<1>3. MapInv(m) /\ sn \in Seq(Keys)
  BY DEF Running
<1>4. MapInv(s) /\ Bucketed(s) /\ Len(s.items) = n + 1 /\ n \in Nat
  <2>1. MapInv(s) /\ Bucketed(s) /\ r.items \in Seq(Item) /\ Len(s.items) = Len(r.items) + 1
    BY <1>1, <1>3, SetKeeps DEF Extended
  <2> QED
    BY <1>2, <2>1
<1>5. (\A i \in 1 .. n : s.items[i] = r.items[i]) /\ s.items[n + 1] = [key |-> key, value |-> value]
  BY <1>1, <1>2, <1>3, SetKeeps DEF Extended
<1>6. b # "replaced" => bd # "replaced" /\ Untouched(m, sn, key) /\ b = bd
  BY DEF After
<1>7. Untouched(m, sn, key) => r.items = m.items
  <2>1. ASSUME Untouched(m, sn, key)
        PROVE  r.items = m.items
    <3>1. r = Lookup(m)
      BY <1>1, <1>3, <2>1, NothingRemoved DEF Untouched
    <3> QED
      BY <1>3, <3>1, LookupKeeps DEF MapInv
  <2> QED
    BY <2>1
<1>10. b # "replaced" => Distinct(sn)
  BY <1>6 DEF Running
<1>8. CASE it = NULL /\ sn = <<>>
  BY <1>3, <1>4, <1>8, <1>10 DEF Running
<1>9. CASE it \in Iterator /\ Inside(m, it, sn, bd)
  <2>1. PICK p \in Nat : p = it.index + 1
    BY <1>9 DEF Iterator
  <2>2. ASSUME b # "replaced"
        PROVE  Ahead(s, sn, p)
    <3>1. Ahead(m, sn, p) /\ Untouched(m, sn, key) /\ Len(m.items) = n
      BY <1>2, <1>6, <1>7, <1>9, <2>1, <2>2 DEF Inside
    <3>2. ASSUME NEW i \in 1 .. n + 1, i > p, NEW j \in DOMAIN sn
          PROVE  Name(sn[j]) # Name(s.items[i].key)
      <4>1. CASE i \in 1 .. n
        BY <1>5, <1>7, <3>1, <3>2, <4>1 DEF Ahead
      <4>2. CASE i = n + 1
        <5>1. s.items[i].key = key
          BY <1>5, <4>2
        <5> QED
          BY <3>1, <5>1 DEF Untouched
      <4> QED
        BY <1>4, <4>1, <4>2
    <3> QED
      BY <1>4, <3>2 DEF Ahead
  <2>3. ASSUME b = "steady"
        PROVE  First(s, sn, p)
    <3>1. First(m, sn, p) /\ r.items = m.items
      BY <1>6, <1>7, <1>9, <2>1, <2>3 DEF Inside
    <3>2. p <= n /\ \A i \in 1 .. p : i \in 1 .. n
      BY <1>2, <1>4, <3>1 DEF First
    <3>3. p <= Len(s.items)
      BY <1>4, <3>2
    <3> QED
      BY <1>5, <3>1, <3>2, <3>3 DEF First
  <2>5. Inside(s, it, sn, b)
    BY <1>4, <1>9, <2>1, <2>2, <2>3 DEF Inside
  <2> QED
    BY <1>3, <1>4, <1>9, <1>10, <2>5 DEF Running
<1> QED
  BY <1>8, <1>9 DEF Running

(* An access keeps the slots that are there.                                *)
LEMMA ReachGrows ==
  ASSUME NEW l, WellFormed(l), NEW p \in Nat, NEW i \in Nat, i < l.size
  PROVE  i < Reach(l, p).size /\ Reach(l, p).data[i] = l.data[i]
<1>1. CASE p < l.size
  BY <1>1, Within
<1>2. CASE ~ (p < l.size)
  <2>1. l.size \in Nat
    BY FieldTypes
  <2>2. PICK n \in Nat : n = p + GrowStep /\ p < n /\ l.size < n
    BY <1>2, <2>1, ArrayListAssumption DEF ArrayListAssumption
  <2>3. Reach(l, p) = ArrayListResizeFillWith(l, n, NULL)
    BY <1>2, <2>2 DEF Reach, InRange, ArrayListResizeFill
  <2>4. PICK g : g = ArrayListResize(l, n + FillSlack)
    OBVIOUS
  <2>5. n + FillSlack \in Nat
    BY ArrayListAssumption DEF ArrayListAssumption
  <2>6. Grown(l, g) /\ g.alloc_size > n + FillSlack
    BY <2>4, <2>5, ResizeGrows
  <2>7. g.data[i] = l.data[i] /\ g.alloc_size \in Nat
    BY <2>6, <2>1, FieldTypes DEF Grown, Slots
  <2>8. i \in Slots(g.alloc_size) /\ i \notin l.size .. n - 1 /\ i < n
    BY <2>1, <2>2, <2>5, <2>6, <2>7, ArrayListAssumption DEF Slots, ArrayListAssumption
  <2> QED
    BY <2>1, <2>2, <2>3, <2>4, <2>7, <2>8 DEF ArrayListResizeFillWith
<1> QED
  BY <1>1, <1>2

(* The test of a loop keeps the map, and an iterator behind the last bucket *)
(* stays behind it although the array may have been extended.               *)
LEMMA TestKeeps ==
  ASSUME NEW m, MapInv(m), NEW it \in Iterator
  PROVE  /\ MapInv(AfterTest(m, it)) /\ AfterTest(m, it).items = m.items
         /\ Bucketed(m) => Bucketed(AfterTest(m, it))
         /\ ~ (it.bucket < m.nodes.size) => HashMapIsEnd(AfterTest(m, it), it)
<1>1. PICK b \in Nat : b = it.bucket
  BY DEF Iterator
<1>2. WellFormed(m.nodes) /\ m = [nodes |-> m.nodes, items |-> m.items] /\ HASH \in Nat
  BY HashMapAssumption DEF MapInv, MapType, HashMapAssumption
<1>3. AfterTest(m, it) = [nodes |-> Reach(m.nodes, b), items |-> m.items]
  BY <1>1, <1>2 DEF AfterTest
<1>4. WellFormed(Reach(m.nodes, b))
  BY <1>2, ReachWellFormed
<1>5. Bucketed(m) => Bucketed(AfterTest(m, it))
  BY <1>2, <1>3, ReachGrows DEF Bucketed
<1>6. MapInv(AfterTest(m, it))
  BY <1>3, <1>4, <1>5 DEF MapInv, MapType
<1>7. ~ (b < m.nodes.size) => HashMapIsEnd(AfterTest(m, it), it)
  <2>1. ASSUME ~ (b < m.nodes.size)
        PROVE  HashMapIsEnd(AfterTest(m, it), it)
    <3>1. b < Reach(m.nodes, b).size /\ Reach(m.nodes, b).data[b] = NULL
      BY <1>2, <2>1, Beyond
    <3>2. ArrayListGetValueAt(Reach(m.nodes, b), b) = NULL
      BY <3>1, Within
    <3> QED
      BY <1>1, <1>3, <3>2 DEF HashMapIsEnd
  <2> QED
    BY <2>1
<1> QED
  BY <1>1, <1>3, <1>5, <1>6, <1>7

(* An iterator is at an element when the bucket is there and reaches it.    *)
LEMMA ElementIs ==
  ASSUME NEW m, MapInv(m), NEW it
  PROVE  ElementAt(m, it) <=>
           it.bucket = HASH /\ Bucketed(m) /\ it.index \in 0 .. Len(m.items) - 1
BY BucketRead DEF ElementAt, MapInv

(* The test finds an element: the body visits it.                           *)
LEMMA ArriveAtElement ==
  ASSUME NEW m, MapInv(m), NEW it \in Iterator, ElementAt(m, it), NEW n \in Nat, n = it.index,
         NEW vs \in Seq(Keys), NEW bd, bd # "replaced" => Distinct(vs) /\ Ahead(m, vs, n),
         bd = "steady" => First(m, vs, n)
  PROVE  State(AfterTest(m, it), it, Append(vs, m.items[n + 1].key), bd)
<1>1. it.bucket = HASH /\ Bucketed(m) /\ n \in 0 .. Len(m.items) - 1
  BY ElementIs
<1>2. m.items \in Seq(Item) /\ Len(m.items) \in Nat
  BY DEF MapInv, MapType
<1>3. n + 1 \in 1 .. Len(m.items)
  BY <1>1, <1>2
<1>4. PICK k \in Keys : k = m.items[n + 1].key
  <2>1. m.items[n + 1] \in Item
    BY <1>2, <1>3
  <2> QED
    BY <2>1 DEF Item
<1>5. AfterTest(m, it) = m
  <2>1. Reach(m.nodes, it.bucket) = m.nodes
    BY <1>1, Within, HashMapAssumption DEF Bucketed, HashMapAssumption
  <2> QED
    BY <2>1 DEF AfterTest, MapInv, MapType
<1>6. PICK sn \in Seq(Keys) : sn = Append(vs, k)
  BY <1>4, AppendProperties
<1>7. PICK c \in Nat : c = Len(vs)
  OBVIOUS
<1>8. /\ DOMAIN vs = 1 .. c /\ DOMAIN sn = 1 .. c + 1 /\ Len(sn) = c + 1
      /\ sn[c + 1] = k
      /\ \A i \in 1 .. c : sn[i] = vs[i]
  BY <1>6, <1>7
<1>9. ASSUME bd # "replaced"
      PROVE  Distinct(sn) /\ Ahead(m, sn, n + 1)
  <2>1. Distinct(vs) /\ Ahead(m, vs, n)
    BY <1>9
  <2>2. \A j \in 1 .. c : Name(vs[j]) # Name(k)
    <3>1. PICK i \in 1 .. Len(m.items) : i = n + 1 /\ i > n
      BY <1>3
    <3> QED
      BY <1>4, <1>8, <2>1, <3>1 DEF Ahead
  <2>3. Distinct(sn)
    <3>1. ASSUME NEW i \in 1 .. c + 1, NEW j \in 1 .. c + 1, i # j
          PROVE  Name(sn[i]) # Name(sn[j])
      <4>1. CASE i \in 1 .. c /\ j \in 1 .. c
        BY <1>8, <2>1, <3>1, <4>1 DEF Distinct
      <4>2. CASE i = c + 1 /\ j \in 1 .. c
        BY <1>8, <2>2, <4>2
      <4>3. CASE i \in 1 .. c /\ j = c + 1
        BY <1>8, <2>2, <4>3
      <4> QED
        BY <1>7, <3>1, <4>1, <4>2, <4>3
    <3> QED
      BY <1>8, <3>1 DEF Distinct
  <2>4. Ahead(m, sn, n + 1)
    <3>1. ASSUME NEW i \in 1 .. Len(m.items), i > n + 1, NEW j \in 1 .. c + 1
          PROVE  Name(sn[j]) # Name(m.items[i].key)
      <4>1. i > n
        BY <1>2, <3>1
      <4>2. CASE j \in 1 .. c
        BY <1>8, <2>1, <4>1, <4>2 DEF Ahead
      <4>3. CASE j = c + 1
        <5>1. DOMAIN m.items = 1 .. Len(m.items) /\ i # n + 1
          BY <1>2, <3>1
        <5> QED
          BY <1>3, <1>4, <1>8, <4>3, <5>1 DEF MapInv, Unique
      <4> QED
        BY <1>7, <4>2, <4>3
    <3> QED
      BY <1>8, <3>1 DEF Ahead
  <2> QED
    BY <2>3, <2>4
<1>10. ASSUME bd = "steady"
       PROVE  First(m, sn, n + 1)
  <2>1. First(m, vs, n) /\ c = n
    BY <1>7, <1>10 DEF First
  <2>2. ASSUME NEW i \in 1 .. n + 1
        PROVE  sn[i] = m.items[i].key
    <3>1. CASE i \in 1 .. n
      BY <1>8, <2>1, <3>1 DEF First
    <3>2. CASE i = n + 1
      BY <1>4, <1>8, <2>1, <3>2
    <3> QED
      BY <3>1, <3>2
  <2> QED
    BY <1>2, <1>3, <1>8, <2>1, <2>2 DEF First
<1>11. Inside(m, it, sn, bd)
  BY <1>1, <1>9, <1>10 DEF Inside
<1>12. State(m, it, sn, bd)
  BY <1>9, <1>11 DEF State
<1> QED
  BY <1>4, <1>5, <1>6, <1>12

(* The test finds the end of the bucket array.                              *)
LEMMA ArriveAtEnd ==
  ASSUME NEW m, MapInv(m), NEW it \in Iterator, ~ (it.bucket < m.nodes.size),
         NEW vs \in Seq(Keys), NEW bd, bd # "replaced" => Distinct(vs),
         bd = "steady" => First(m, vs, Len(m.items))
  PROVE  State(AfterTest(m, it), it, vs, bd) /\ ~ ElementAt(m, it)
<1>1. /\ MapInv(AfterTest(m, it)) /\ AfterTest(m, it).items = m.items
      /\ HashMapIsEnd(AfterTest(m, it), it)
  BY TestKeeps
<1>2. Past(AfterTest(m, it), it, vs, bd)
  BY <1>1 DEF Past, First
<1>3. ~ ElementAt(m, it)
  BY ElementIs DEF Bucketed
<1> QED
  BY <1>1, <1>2, <1>3 DEF State

(* Where HashMapBegin puts the iterator.                                    *)
LEMMA BeginIs ==
  ASSUME NEW m, MapInv(m)
  PROVE  /\ HashMapBegin(m) \in Iterator
         /\ m.items # <<>> => ElementAt(m, HashMapBegin(m)) /\ HashMapBegin(m).index = 0
         /\ m.items = <<>> => ~ (HashMapBegin(m).bucket < m.nodes.size)
<1>1. m.nodes.size \in Nat /\ HASH \in Nat /\ Len(m.items) \in Nat
  BY FieldTypes, HashMapAssumption DEF MapInv, MapType, HashMapAssumption
<1>2. PICK here : here = [bucket |-> 0, index |-> 0]
  OBVIOUS
<1>3. PICK at : at = [bucket |-> HASH, index |-> 0]
  OBVIOUS
<1>4. HashMapBegin(m) =
        IF 0 >= m.nodes.size \/ ElementAt(m, here) THEN here
        ELSE IF 0 < HASH /\ HASH < m.nodes.size /\ ElementAt(m, at) THEN at
        ELSE [bucket |-> m.nodes.size, index |-> 0]
  BY <1>2, <1>3 DEF HashMapBegin, HashMapNext
<1>5. CASE m.items # <<>>
  <2>1. Bucketed(m) /\ 0 \in 0 .. Len(m.items) - 1
    BY <1>1, <1>5 DEF MapInv, MapType
  <2>2. ElementAt(m, at) /\ (ElementAt(m, here) <=> HASH = 0)
    BY <1>2, <1>3, <2>1, ElementIs
  <2>3. HASH < m.nodes.size
    BY <2>1 DEF Bucketed
  <2> QED
    BY <1>1, <1>2, <1>3, <1>4, <1>5, <2>2, <2>3 DEF Iterator
<1>6. CASE m.items = <<>>
  <2>1. ~ ElementAt(m, here) /\ ~ ElementAt(m, at)
    BY <1>6, ElementIs
  <2> QED
    BY <1>1, <1>2, <1>4, <1>6, <2>1 DEF Iterator
<1> QED
  BY <1>5, <1>6

(* Where HashMapNext puts an iterator that is inside.                       *)
LEMMA NextIs ==
  ASSUME NEW m, MapInv(m), Bucketed(m), NEW it \in Iterator, it.bucket = HASH,
         NEW n \in Nat, n = it.index + 1
  PROVE  /\ HashMapNext(m, it) \in Iterator
         /\ n < Len(m.items) => ElementAt(m, HashMapNext(m, it)) /\ HashMapNext(m, it).index = n
         /\ ~ (n < Len(m.items)) => ~ (HashMapNext(m, it).bucket < m.nodes.size)
<1>1. m.nodes.size \in Nat /\ HASH \in Nat /\ Len(m.items) \in Nat
  BY FieldTypes, HashMapAssumption DEF MapInv, MapType, HashMapAssumption
<1>2. PICK here : here = [bucket |-> HASH, index |-> n]
  OBVIOUS
<1>3. here = [it EXCEPT !.index = @ + 1]
  BY <1>2 DEF Iterator
<1>4. HashMapNext(m, it) =
        IF ElementAt(m, here) THEN here ELSE [bucket |-> m.nodes.size, index |-> 0]
  BY <1>1, <1>3 DEF HashMapNext, Bucketed
<1>5. ElementAt(m, here) <=> n < Len(m.items)
  BY <1>1, <1>2, ElementIs
<1> QED
  BY <1>1, <1>2, <1>4, <1>5 DEF Iterator

-----------------------------------------------------------------------------
(* THE CALLERS                                                             *)

(* A call of the body that keeps what the loop knows.                       *)
LEMMA CallKeeps ==
  ASSUME HashMapInv, NEW m, NEW r, MapCall(m, r), Running(m, iter, seen, body')
  PROVE  HashMapInv'
<1>1. map' = m /\ cmp' = cmp /\ iter' = iter /\ seen' = seen
  BY DEF MapCall
<1>2. State(map', iter', seen', body')
  BY <1>1, RunningIsState
<1> QED
  BY <1>1, <1>2, InvAfter

LEMMA LoopBeginKeeps ==
  ASSUME HashMapInv, LoopBegin
  PROVE  HashMapInv'
<1>1. MapInv(map)
  BY DEF HashMapInv, State
<1>2. PICK it \in Iterator : it = HashMapBegin(map)
  BY <1>1, BeginIs
<1>3. PICK vs \in Seq(Keys) : vs = <<>>
  BY EmptySeq
<1>4. /\ cmp' = cmp /\ iter' = it /\ body' = "steady" /\ map' = AfterTest(map, it)
      /\ seen' = IF ElementAt(map, it) THEN Append(vs, map.items[it.index + 1].key) ELSE vs
  BY <1>2, <1>3 DEF LoopBegin, Arrive
<1>5. Distinct(vs) /\ Ahead(map, vs, 0) /\ First(map, vs, 0)
  <2>1. DOMAIN vs = {} /\ Len(vs) = 0 /\ Len(map.items) \in Nat
    BY <1>1, <1>3 DEF MapInv, MapType
  <2> QED
    BY <2>1 DEF Distinct, Ahead, First
<1>6. CASE map.items # <<>>
  <2>1. ElementAt(map, it) /\ it.index = 0
    BY <1>1, <1>2, <1>6, BeginIs
  <2>2. PICK n \in Nat : n = 0
    OBVIOUS
  <2>3. State(AfterTest(map, it), it, Append(vs, map.items[n + 1].key), "steady")
    BY <1>1, <1>5, <2>1, <2>2, ArriveAtElement
  <2>4. State(map', iter', seen', body')
    BY <1>4, <2>1, <2>2, <2>3
  <2> QED
    BY <1>4, <2>4, InvAfter
<1>7. CASE map.items = <<>>
  <2>1. ~ (it.bucket < map.nodes.size) /\ Len(map.items) = 0
    BY <1>1, <1>2, <1>7, BeginIs
  <2>2. State(AfterTest(map, it), it, vs, "steady") /\ ~ ElementAt(map, it)
    BY <1>1, <1>5, <2>1, ArriveAtEnd
  <2>3. State(map', iter', seen', body')
    BY <1>4, <2>2
  <2> QED
    BY <1>4, <2>3, InvAfter
<1> QED
  BY <1>6, <1>7

LEMMA LoopTurnKeeps ==
  ASSUME HashMapInv, LoopTurn
  PROVE  HashMapInv'
<1>1. MapInv(map) /\ iter # NULL /\ State(map, iter, seen, body) /\ ~ HashMapIsEnd(map, iter)
  BY DEF HashMapInv, State, LoopTurn
<1>2. /\ iter \in Iterator /\ Inside(map, iter, seen, body) /\ seen \in Seq(Keys)
      /\ body # "replaced" => Distinct(seen)
  BY <1>1, CallsRun DEF Running
<1>3. PICK n \in Nat : n = iter.index + 1
  BY <1>2 DEF Iterator
<1>4. /\ Bucketed(map) /\ iter.bucket = HASH
      /\ body # "replaced" => Distinct(seen) /\ Ahead(map, seen, n)
      /\ body = "steady" => First(map, seen, n)
  BY <1>2, <1>3 DEF Inside
<1>5. PICK it \in Iterator : it = HashMapNext(map, iter)
  BY <1>1, <1>2, <1>3, <1>4, NextIs
<1>6. /\ cmp' = cmp /\ iter' = it /\ body' = body /\ map' = AfterTest(map, it)
      /\ seen' = IF ElementAt(map, it) THEN Append(seen, map.items[it.index + 1].key) ELSE seen
  BY <1>5 DEF LoopTurn, Arrive
<1>7. CASE n < Len(map.items)
  <2>1. ElementAt(map, it) /\ it.index = n
    BY <1>1, <1>2, <1>3, <1>4, <1>5, <1>7, NextIs
  <2>2. State(AfterTest(map, it), it, Append(seen, map.items[n + 1].key), body)
    BY <1>1, <1>2, <1>4, <2>1, ArriveAtElement
  <2>3. State(map', iter', seen', body')
    BY <1>6, <2>1, <2>2
  <2> QED
    BY <1>6, <2>3, InvAfter
<1>8. CASE ~ (n < Len(map.items))
  <2>1. ~ (it.bucket < map.nodes.size)
    BY <1>1, <1>2, <1>3, <1>4, <1>5, <1>8, NextIs
  <2>2. body = "steady" => First(map, seen, Len(map.items))
    <3>1. ASSUME body = "steady"
          PROVE  First(map, seen, Len(map.items))
      <4>1. First(map, seen, n) /\ Len(map.items) \in Nat
        BY <1>1, <1>4, <3>1 DEF MapInv, MapType
      <4>2. n = Len(map.items)
        BY <1>8, <4>1 DEF First
      <4> QED
        BY <4>1, <4>2
    <3> QED
      BY <3>1
  <2>3. State(AfterTest(map, it), it, seen, body) /\ ~ ElementAt(map, it)
    BY <1>1, <1>2, <2>1, <2>2, ArriveAtEnd
  <2>4. State(map', iter', seen', body')
    BY <1>6, <2>3
  <2> QED
    BY <1>6, <2>4, InvAfter
<1> QED
  BY <1>7, <1>8

LEMMA LoopEndKeeps ==
  ASSUME HashMapInv, LoopEnd
  PROVE  HashMapInv'
<1>1. MapInv(map) /\ cmp' = cmp /\ map' = map /\ iter' = NULL /\ seen' = <<>>
  BY DEF HashMapInv, State, LoopEnd
<1>2. Distinct(seen') /\ seen' \in Seq(Keys)
  BY <1>1 DEF Distinct
<1>3. State(map', iter', seen', body')
  BY <1>1, <1>2 DEF State
<1> QED
  BY <1>1, <1>3, InvAfter

(* A map that is destroyed is empty.                                        *)
LEMMA Destroyed ==
  ASSUME NEW m, MapInv(m)
  PROVE  MapInv(HashMapDestroy(m))
<1>1. WellFormed(ArrayListDestroy(m.nodes))
  BY NewWellFormed DEF ArrayListDestroy, MapInv, MapType
<1>2. HashMapDestroy(m) = [nodes |-> ArrayListDestroy(m.nodes), items |-> <<>>]
  BY DEF HashMapDestroy
<1> QED
  BY <1>1, <1>2 DEF MapInv, MapType, Unique

LEMMA Created == MapInv(HashMapNew)
<1>1. WellFormed(ArrayListResizeFill(ArrayListNew, InitNodes))
  BY NewWellFormed, FillWithWellFormed, HashMapAssumption DEF HashMapAssumption, ArrayListResizeFill, Element
<1>2. HashMapNew = [nodes |-> ArrayListResizeFill(ArrayListNew, InitNodes), items |-> <<>>]
  BY DEF HashMapNew
<1> QED
  BY <1>1, <1>2 DEF MapInv, MapType, Unique

(* Every call of a program keeps the invariant.                             *)
LEMMA HashMapInvStep == HashMapInv /\ [HashMapCalls]_mapVars => HashMapInv'
<1> SUFFICES ASSUME HashMapInv, [HashMapCalls]_mapVars PROVE HashMapInv'
  OBVIOUS
<1>1. (iter # NULL => ~ HashMapIsEnd(map, iter)) => Running(map, iter, seen, body)
  BY CallsRun DEF HashMapInv
<1>2. CASE NullKey
  BY <1>1, <1>2, CallKeeps DEF NullKey, MapCall
<1>3. CASE MapDestroy
  <2>1. Running(map, iter, seen, body) /\ iter = NULL /\ body' = body
    BY <1>1, <1>3 DEF MapDestroy
  <2>2. NULL \notin Iterator
    BY HashMapAssumption DEF HashMapAssumption, Iterator
  <2>3. Running(HashMapDestroy(map), iter, seen, body')
    BY <2>1, <2>2, Destroyed DEF Running
  <2> QED
    BY <1>3, <2>3, CallKeeps DEF MapDestroy
<1>4. CASE LoopBegin
  BY <1>4, LoopBeginKeeps
<1>5. CASE LoopTurn
  BY <1>5, LoopTurnKeeps
<1>6. CASE LoopEnd
  BY <1>6, LoopEndKeeps
<1>7. ASSUME NEW key \in Keys, MapGet(key)
      PROVE  HashMapInv'
  <2>1. Running(map, iter, seen, body) /\ body' = body
    BY <1>1, <1>7 DEF MapGet, MapCall
  <2>2. Running(Lookup(map), iter, seen, body')
    BY <2>1, GetKeeps
  <2> QED
    BY <1>7, <2>2, CallKeeps DEF MapGet
<1>8. ASSUME NEW key \in Keys, MapRemove(key)
      PROVE  HashMapInv'
  <2>1. Running(map, iter, seen, body) /\ body' = After(map, seen, key, body, "removed")
    BY <1>1, <1>8 DEF MapRemove, MapCall, Disturbs, After, Untouched
  <2>2. Running(HashMapRemove(map, key), iter, seen, body')
    BY <2>1, RemoveRuns
  <2> QED
    BY <1>8, <2>2, CallKeeps DEF MapRemove
<1>9. ASSUME NEW key \in Keys, NEW v \in Element, MapSet(key, v)
      PROVE  HashMapInv'
  <2>1. Running(map, iter, seen, body) /\ body' = After(map, seen, key, body, "replaced")
    BY <1>1, <1>9 DEF MapSet, MapCall, Disturbs, After, Untouched
  <2>2. Running(HashMapSet(map, key, v), iter, seen, body')
    BY <2>1, SetRuns
  <2> QED
    BY <1>9, <2>2, CallKeeps DEF MapSet
<1>10. CASE UNCHANGED mapVars
  <2>1. cmp' = cmp /\ map' = map /\ iter' = iter /\ seen' = seen /\ body' = body
    BY <1>10 DEF mapVars
  <2>2. State(map', iter', seen', body')
    BY <2>1 DEF HashMapInv
  <2> QED
    BY <2>1, <2>2, InvAfter
<1> QED
  BY <1>2, <1>3, <1>4, <1>5, <1>6, <1>7, <1>8, <1>9, <1>10 DEF HashMapCalls

LEMMA HashMapInvAlways == HashMapSpec => []HashMapInv
<1>1. HashMapInit => HashMapInv
  <2> SUFFICES ASSUME HashMapInit PROVE HashMapInv
    OBVIOUS
  <2>1. MapInv(map) /\ iter = NULL /\ seen = <<>>
    BY Created DEF HashMapInit
  <2>2. Distinct(seen) /\ seen \in Seq(Keys)
    BY <2>1 DEF Distinct
  <2> QED
    BY <2>1, <2>2 DEF HashMapInv, State
<1> QED
  BY <1>1, HashMapInvStep, PTL DEF HashMapSpec

(* For any keys, any hash and any growth of the bucket array, the map and   *)
(* the iterator of LOOP_HASHMAP are typed.                                  *)
THEOREM HashMapTypeCorrect == HashMapSpec => []HashMapTypeOK
<1>1. HashMapInv => HashMapTypeOK
  <2> SUFFICES ASSUME HashMapInv PROVE HashMapTypeOK
    OBVIOUS
  <2>1. WellFormed(map.nodes) /\ map.items \in Seq(Item) /\ (iter = NULL \/ iter \in Iterator)
    BY DEF HashMapInv, State, MapInv, MapType
  <2>2. map.nodes.size \in Nat /\ map.nodes.alloc_size \in Nat /\ map.nodes.size <= map.nodes.alloc_size
    BY <2>1, FieldTypes
  <2> QED
    BY <2>1, <2>2 DEF HashMapTypeOK, Item, Iterator
<1> QED
  BY <1>1, HashMapInvAlways, PTL

(* For any map, a LOOP_HASHMAP whose body removes and replaces nothing has  *)
(* visited every element once when it ends, in the order of their setting,  *)
(* the elements that its own body has added included.                       *)
THEOREM LoopSeesAll == HashMapSpec => []LoopVisitsAll
<1>1. HashMapInv => LoopVisitsAll
  <2> SUFFICES ASSUME HashMapInv, iter # NULL, HashMapIsEnd(map, iter), body = "steady"
               PROVE  seen = [i \in DOMAIN map.items |-> map.items[i].key]
    BY DEF LoopVisitsAll
  <2>1. MapInv(map) /\ seen \in Seq(Keys) /\ (Inside(map, iter, seen, body) \/ Past(map, iter, seen, body))
    BY DEF HashMapInv, State
  <2>2. ~ Inside(map, iter, seen, body)
    BY <2>1, InsideIsNotEnd DEF Inside
  <2>3. First(map, seen, Len(map.items))
    BY <2>1, <2>2 DEF Past
  <2>4. DOMAIN map.items = 1 .. Len(map.items)
    BY <2>1 DEF MapInv, MapType
  <2>5. DOMAIN seen = DOMAIN map.items /\ \A i \in DOMAIN seen : seen[i] = map.items[i].key
    BY <2>1, <2>3, <2>4 DEF First
  <2>6. seen = [i \in DOMAIN seen |-> seen[i]]
    BY <2>1
  <2> QED
    BY <2>5, <2>6
<1> QED
  BY <1>1, HashMapInvAlways, PTL

(* For any map, a LOOP_HASHMAP visits no key twice, whatever elements its   *)
(* body removes or adds, as long as it sets no key again that was there.    *)
THEOREM LoopSeesOnce == HashMapSpec => []LoopVisitsOnce
<1>1. HashMapInv => LoopVisitsOnce
  BY DEF HashMapInv, State, Distinct, LoopVisitsOnce
<1> QED
  BY <1>1, HashMapInvAlways, PTL

-----------------------------------------------------------------------------
(* THE REFINEMENT                                                          *)

LEMMA EntriesAre == Entries = [k \in AllNames |-> At(map.items, k)]
BY DEF Entries, Named, At

(* The names of keys are among the names of the dictionary.                 *)
LEMMA NameOf ==
  ASSUME NEW key \in Keys
  PROVE  Name(key) \in AllNames
BY DEF Name, AllNames

(* What the names find after a step, by what they found before.             *)
LEMMA EntriesAfter ==
  ASSUME cmp' = cmp, NEW m, map' = m
  PROVE  Entries' = [k \in AllNames |-> At(m.items, k)]
BY DEF Entries, Named, At, AllNames, Name

(* A new map is an empty dictionary.                                        *)
LEMMA DictInit == HashMapInit => Dict!Init
<1> SUFFICES ASSUME HashMapInit PROVE Dict!Init
  OBVIOUS
<1>1. map.items = <<>> /\ reply = <<"new">>
  BY DEF HashMapInit, HashMapNew
<1>2. \A k : At(map.items, k) = NULL
  BY <1>1, AtMisses
<1> QED
  BY <1>1, <1>2, EntriesAre DEF Dict!Init

(* Every call is a call of the dictionary, or leaves it as it is.           *)
LEMMA DictStep == HashMapInv /\ [HashMapCalls]_mapVars => [Dict!Next]_(Dict!dictVars)
<1> SUFFICES ASSUME HashMapInv, [HashMapCalls]_mapVars PROVE [Dict!Next]_(Dict!dictVars)
  OBVIOUS
<1>1. MapInv(map)
  BY DEF HashMapInv, State
<1>2. PICK d : d = Entries /\ d = [k \in AllNames |-> At(map.items, k)]
  BY EntriesAre
<1>3. CASE map'.items = map.items /\ cmp' = cmp /\ reply' = reply
  <2>1. Entries' = d
    BY <1>2, <1>3, EntriesAfter
  <2> QED
    BY <1>2, <1>3, <2>1 DEF Dict!dictVars
<1>4. CASE NullKey \/ UNCHANGED mapVars
  BY <1>3, <1>4 DEF NullKey, MapCall, mapVars
<1>5. CASE LoopBegin \/ LoopTurn \/ LoopEnd
  BY <1>1, <1>3, <1>5 DEF LoopBegin, LoopTurn, LoopEnd, Arrive, AfterTest, MapInv, MapType
<1>6. CASE MapDestroy
  <2>1. reply' = <<"Destroy">> /\ cmp' = cmp /\ map' = HashMapDestroy(map)
    BY <1>6 DEF MapDestroy, MapCall
  <2>2. HashMapDestroy(map).items = <<>>
    BY DEF HashMapDestroy
  <2>3. \A k : At(HashMapDestroy(map).items, k) = NULL
    BY <2>2, AtMisses
  <2>4. Entries' = [k \in AllNames |-> NULL]
    BY <2>1, <2>3, EntriesAfter
  <2> QED
    BY <2>1, <2>4 DEF Dict!Next, Dict!Destroy
<1>7. ASSUME NEW key \in Keys, MapGet(key)
      PROVE  [Dict!Next]_(Dict!dictVars)
  <2>1. /\ cmp' = cmp /\ map' = Lookup(map)
        /\ reply' = <<"Get", Name(key), HashMapGet(map, key)>>
    BY <1>7 DEF MapGet, MapCall
  <2>2. Lookup(map).items = map.items
    BY <1>1, LookupKeeps DEF MapInv
  <2>3. Entries' = d
    BY <1>2, <2>1, <2>2, EntriesAfter
  <2>4. Name(key) \in AllNames /\ HashMapGet(map, key) = d[Name(key)]
    BY <1>1, <1>2, GetIsAt, NameOf
  <2>5. Dict!Get(Name(key))
    BY <1>2, <2>1, <2>3, <2>4 DEF Dict!Get
  <2> QED
    BY <2>4, <2>5 DEF Dict!Next
<1>8. ASSUME NEW key \in Keys, MapRemove(key)
      PROVE  [Dict!Next]_(Dict!dictVars)
  <2>1. /\ cmp' = cmp /\ map' = HashMapRemove(map, key)
        /\ reply' = <<"Remove", Name(key), HashMapGet(map, key)>>
    BY <1>8 DEF MapRemove, MapCall
  <2>2. Name(key) \in AllNames /\ HashMapGet(map, key) = d[Name(key)]
    BY <1>1, <1>2, GetIsAt, NameOf
  <2>3. \A k : At(HashMapRemove(map, key).items, k) =
                 IF k = Name(key) THEN NULL ELSE At(map.items, k)
    BY <1>1, AtRemoved
  <2>4. Entries' = [d EXCEPT ![Name(key)] = NULL]
    BY <1>2, <2>1, <2>2, <2>3, EntriesAfter
  <2>5. Dict!Remove(Name(key))
    BY <1>2, <2>1, <2>2, <2>4 DEF Dict!Remove
  <2> QED
    BY <2>2, <2>5 DEF Dict!Next
<1>9. ASSUME NEW key \in Keys, NEW v \in Element, MapSet(key, v)
      PROVE  [Dict!Next]_(Dict!dictVars)
  <2>1. /\ cmp' = cmp /\ map' = HashMapSet(map, key, v)
        /\ reply' = <<"Set", Name(key), HashMapGet(map, key)>>
    BY <1>9 DEF MapSet, MapCall
  <2>2. Name(key) \in AllNames /\ HashMapGet(map, key) = d[Name(key)]
    BY <1>1, <1>2, GetIsAt, NameOf
  <2>3. \A k : At(HashMapSet(map, key, v).items, k) =
                 IF k = Name(key) THEN v ELSE At(map.items, k)
    BY <1>1, AtSet
  <2>4. Entries' = [d EXCEPT ![Name(key)] = v]
    BY <1>2, <2>1, <2>2, <2>3, EntriesAfter
  <2>5. Dict!Set(Name(key), v)
    BY <1>2, <2>1, <2>2, <2>4 DEF Dict!Set
  <2> QED
    BY <2>2, <2>5 DEF Dict!Next
<1> QED
  BY <1>4, <1>5, <1>6, <1>7, <1>8, <1>9 DEF HashMapCalls

(* For any keys, any hash and any growth of the bucket array, the map of    *)
(* hashmap.h implements a dictionary, with its loops and by both ways of    *)
(* comparing keys: a lookup returns the value that was set last.            *)
THEOREM MapImplementsDictionary == HashMapSpec => MapIsDictionary
<1> QED
  BY DictInit, DictStep, HashMapInvAlways, PTL DEF HashMapSpec, MapIsDictionary, Dict!Spec
=============================================================================
