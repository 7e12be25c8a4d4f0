------------------------------ MODULE HashMap -------------------------------
(***************************************************************************)
(* hashmap.h: an ArrayList of buckets, each a linked list of elements.  A   *)
(* key is a pointer to its content; a map compares keys by content          *)
(* (HashMapIntCmp, the maps of the server) or by pointer                    *)
(* (HashMapVoidPtrCmp, the maps of the collector).  HashMapCalcHash returns *)
(* 1000 for every key, so one bucket holds every element.  A bucket is a    *)
(* sequence: LinkedList shows that dynamic_lists.c implements one.          *)
(***************************************************************************)
EXTENDS ArrayListOps, Sequences, SequencesExt

CONSTANTS
  Keys,        \* the keys of callers: pairs of an address and a content
  HASH,        \* 1000: what HashMapCalcHash returns
  InitNodes,   \* 100: the buckets of a new map
  Bucket,      \* a bucket that has been created
  MaxItems,    \* bound: elements of a map
  MaxNodes     \* bound: callers stop when the bucket array is this long

ASSUME HashMapAssumption ==
  /\ HASH \in Nat /\ InitNodes \in Nat /\ Bucket \in Data
  /\ MaxItems \in Nat /\ MaxNodes \in Nat
  /\ NULL \notin [bucket : Nat, index : Nat]

VARIABLES
  cmp,      \* the comparator of the map
  map,      \* [nodes, items]
  iter,     \* the iterator of a running LOOP_HASHMAP, or NULL
  reply,    \* history: the last call and what it returned
  seen,     \* history: the keys the loop has visited
  body      \* history: whether the body of the loop removed or replaced elements

mapVars == <<cmp, map, iter, reply, seen, body>>

Name(key) == IF cmp = "HashMapIntCmp" THEN key[2] ELSE key[1]

HashMapNew ==
  [nodes |-> ArrayListResizeFill(ArrayListNew, InitNodes), items |-> <<>>]

\* Every lookup reads the bucket of the hash, which makes the array reach it.
Lookup(m) == [m EXCEPT !.nodes = Reach(@, HASH)]

Hits(m, key) == {i \in DOMAIN m.items : Name(m.items[i].key) = Name(key)}

Position(m, key) == CHOOSE i \in Hits(m, key) : \A j \in Hits(m, key) : i <= j

HashMapGet(m, key) ==
  IF ArrayListGetValueAt(m.nodes, HASH) = NULL \/ Hits(m, key) = {} THEN NULL
  ELSE m.items[Position(m, key)].value

HashMapRemove(m, key) ==
  IF ArrayListGetValueAt(m.nodes, HASH) = NULL \/ Hits(m, key) = {} THEN Lookup(m)
  ELSE [Lookup(m) EXCEPT !.items = RemoveAt(@, Position(m, key))]

\* The operators named Mutant... are plausible slips in the definition that
\* follows each of them; nothing else uses them.
MutantNoReplacement(m, key, value) ==
  [nodes |-> ArrayListSetValueAt(Lookup(m).nodes, HASH, Bucket),
   items |-> Append(m.items, [key |-> key, value |-> value])]

MutantPushFront(m, key, value) ==
  [nodes |-> ArrayListSetValueAt(Lookup(m).nodes, HASH, Bucket),
   items |-> <<[key |-> key, value |-> value]>> \o HashMapRemove(m, key).items]

\* A new element goes to the end of the bucket, whatever was there under its key.
HashMapSet(m, key, value) ==
  LET removed == HashMapRemove(m, key)
  IN  [nodes |-> ArrayListSetValueAt(removed.nodes, HASH, Bucket),
       items |-> Append(removed.items, [key |-> key, value |-> value])]

HashMapDestroy(m) == [nodes |-> ArrayListDestroy(m.nodes), items |-> <<>>]

-----------------------------------------------------------------------------
(* Iterators *)

ElementAt(m, it) ==
  /\ it.bucket = HASH /\ ArrayListGetValueAt(m.nodes, HASH) # NULL
  /\ it.index \in 0 .. Len(m.items) - 1

MutantIndexKept(m, it) == [bucket |-> IF it.bucket < HASH THEN HASH ELSE m.nodes.size,
                           index |-> it.index]

\* The next element of the bucket, else the first element of a later bucket,
\* else the bucket behind the last one.
HashMapNext(m, it) ==
  LET here == [it EXCEPT !.index = @ + 1]
      bucket == [bucket |-> HASH, index |-> 0]
  IN  IF it.bucket >= m.nodes.size \/ ElementAt(m, here) THEN here
      ELSE IF it.bucket < HASH /\ HASH < m.nodes.size /\ ElementAt(m, bucket) THEN bucket
      ELSE [bucket |-> m.nodes.size, index |-> 0]

HashMapBegin(m) == HashMapNext(m, [bucket |-> 0, index |-> -1])

\* The test reads the bucket of the iterator, and extends the array at its end.
HashMapIsEnd(m, it) == ArrayListGetValueAt(m.nodes, it.bucket) = NULL

AfterTest(m, it) == [m EXCEPT !.nodes = Reach(@, it.bucket)]

-----------------------------------------------------------------------------
(* The callers *)

\* The body of a loop runs only when the test has found the iterator inside.
MapCall(m, r) ==
  /\ iter # NULL => ~ HashMapIsEnd(map, iter)
  /\ Len(m.items) <= MaxItems
  /\ map' = m
  /\ reply' = r
  /\ UNCHANGED <<cmp, iter, seen>>

\* A null key is refused before anything is looked up.
NullKey == MapCall(map, reply) /\ UNCHANGED body

\* A call on a key that the map holds, or that the loop has already visited.
Disturbs(key, how) ==
  LET untouched == Hits(map, key) = {} /\ \A i \in DOMAIN seen : Name(seen[i]) # Name(key)
  IN  body' = IF untouched \/ body = "replaced" THEN body ELSE how

MapGet(key) ==
  /\ MapCall(Lookup(map), <<"Get", Name(key), HashMapGet(map, key)>>)
  /\ UNCHANGED body

MapSet(key, v) ==
  /\ MapCall(HashMapSet(map, key, v), <<"Set", Name(key), HashMapGet(map, key)>>)
  /\ Disturbs(key, "replaced")

MapRemove(key) ==
  /\ MapCall(HashMapRemove(map, key), <<"Remove", Name(key), HashMapGet(map, key)>>)
  /\ Disturbs(key, "removed")

MapDestroy ==
  /\ iter = NULL
  /\ MapCall(HashMapDestroy(map), <<"Destroy">>)
  /\ UNCHANGED body

\* LOOP_HASHMAP: the test at it, and the key the body finds there.
Arrive(it, visited) ==
  /\ map.nodes.size <= MaxNodes
  /\ iter' = it
  /\ map' = AfterTest(map, it)
  /\ seen' = IF ElementAt(map, it) THEN Append(visited, map.items[it.index + 1].key) ELSE visited
  /\ Len(seen') <= MaxItems + 1
  /\ UNCHANGED <<cmp, reply>>

LoopBegin ==
  /\ iter = NULL
  /\ Arrive(HashMapBegin(map), <<>>)
  /\ body' = "steady"

LoopTurn ==
  /\ iter # NULL
  /\ ~ HashMapIsEnd(map, iter)
  /\ Arrive(HashMapNext(map, iter), seen)
  /\ UNCHANGED body

LoopEnd ==
  /\ iter # NULL
  /\ HashMapIsEnd(map, iter)
  /\ iter' = NULL /\ seen' = <<>> /\ body' = "steady"
  /\ UNCHANGED <<cmp, map, reply>>

HashMapInit ==
  /\ cmp \in {"HashMapIntCmp", "HashMapVoidPtrCmp"}
  /\ map = HashMapNew
  /\ iter = NULL
  /\ reply = <<"new">>
  /\ seen = <<>>
  /\ body = "steady"

HashMapCalls ==
  \/ NullKey
  \/ MapDestroy \/ LoopBegin \/ LoopTurn \/ LoopEnd
  \/ \E key \in Keys : MapGet(key) \/ MapRemove(key) \/ \E v \in Element : MapSet(key, v)

HashMapSpec == HashMapInit /\ [][HashMapCalls]_mapVars

-----------------------------------------------------------------------------
(* Properties *)

\* Type correctness: an iterator is an offset into a bucket, also after the
\* bucket array has grown under it.
HashMapTypeOK ==
  /\ map.nodes.size \in Nat /\ map.nodes.alloc_size >= map.nodes.size
  /\ map.items \in Seq([key : Keys, value : Element])
  /\ iter = NULL \/ iter \in [bucket : Nat, index : Nat]

\* Addresses and contents; the names of the other kind are missing from the map.
AllNames == {key[1] : key \in Keys} \cup {key[2] : key \in Keys}

Named(k) == {i \in DOMAIN map.items : Name(map.items[i].key) = k}

Entries ==
  [k \in AllNames |->
     IF Named(k) = {} THEN NULL ELSE map.items[CHOOSE i \in Named(k) : TRUE].value]

Dict == INSTANCE Dictionary WITH
  Names <- AllNames, Vals <- Element, Missing <- NULL, dict <- Entries, reply <- reply

\* The map is a dictionary: a key that is set again replaces its element, and
\* every lookup returns the last value set under that key, however the bucket
\* array was reallocated in between and whatever a loop was doing.
MapIsDictionary == Dict!Spec

\* A loop at its end has visited every element that is in the map exactly once,
\* in the order in which the keys were set, also the elements its own body
\* added: the loops of validator.c sum counters and send messages per element.
\* It holds as long as the body removes nothing and replaces nothing.
LoopVisitsAll ==
  (iter # NULL /\ HashMapIsEnd(map, iter) /\ body = "steady")
     => seen = [i \in DOMAIN map.items |-> map.items[i].key]

\* A body that removes elements makes the loop skip some, but no key is visited
\* twice, unless the body has set again a key that was there.
LoopVisitsOnce ==
  body # "replaced" => \A i, j \in DOMAIN seen : i # j => Name(seen[i]) # Name(seen[j])
=============================================================================
