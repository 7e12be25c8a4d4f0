--------------------------- MODULE LinkedListProofs ---------------------------
(***************************************************************************)
(* The doubly linked lists of dynamic_lists.c are sequences, for every     *)
(* heap, every set of lists and every order of calls.  The inductive       *)
(* invariant says that the heap is laid out as some family of sequences of *)
(* blocks: see Shape.                                                      *)
(***************************************************************************)
EXTENDS LinkedList, WellFoundedInduction, FiniteSetTheorems, SequenceTheorems, TLAPS

-----------------------------------------------------------------------------
(* Induction over the natural numbers, as a fact about sets.               *)

LEMMA LeastNat ==
  ASSUME NEW S \in SUBSET Nat, S # {}
  PROVE  \E n \in S : \A m \in S : n <= m
<1>1. IsWellFoundedOn(OpToRel(<, Nat), Nat) BY NatLessThanWellFounded
<1>2. PICK n \in S : \A m \in S : ~ (<<m, n>> \in OpToRel(<, Nat)) BY <1>1, WFMin
<1>3. ASSUME NEW m \in S PROVE n <= m
  <2>1. m \in Nat /\ n \in Nat OBVIOUS
  <2>2. ~ (m < n) BY <1>2, <2>1 DEF OpToRel
  <2> QED BY <2>1, <2>2
<1> QED BY <1>3

LEMMA NatInductive ==
  ASSUME NEW S, 0 \in S, \A n \in Nat : n \in S => n + 1 \in S
  PROVE  Nat \subseteq S
<1> SUFFICES ASSUME Nat \ S # {} PROVE FALSE OBVIOUS
<1>1. PICK n \in Nat \ S : \A m \in Nat \ S : n <= m BY LeastNat
<1>2. n # 0 /\ n - 1 \in Nat BY <1>1
<1>3. n - 1 \in S BY <1>1, <1>2
<1> QED BY <1>2, <1>3, n - 1 + 1 = n

-----------------------------------------------------------------------------
(* Walking along a chain.                                                  *)

Pointers == Blocks \cup {NULL}

(* The block at position p of a sequence, NULL outside it.                 *)
Nth(t, p) == IF p \in 1 .. Len(t) THEN t[p] ELSE NULL

Distinct(t) == \A p, q \in 1 .. Len(t) : t[p] = t[q] => p = q

(* f is what the LET of Chain defines, for at most m steps.                *)
Walks(f, n, dir, m) ==
  f = [k \in 0 .. m |-> [x \in Pointers |->
         IF k = 0 \/ x \notin DOMAIN n THEN <<>> ELSE <<x>> \o f[k-1][n[x][dir]]]]

LEMMA WalksExist ==
  ASSUME NEW n, NEW dir, NEW m \in Nat
  PROVE  \E f : Walks(f, n, dir, m)
<1> DEFINE S == {j \in Nat : \E f : Walks(f, n, dir, j)}
           next(h, k) == [x \in Pointers |->
             IF k = 0 \/ x \notin DOMAIN n THEN <<>> ELSE <<x>> \o h[k-1][n[x][dir]]]
<1>1. 0 \in S
  <2> DEFINE f == [k \in 0 .. 0 |-> [x \in Pointers |-> <<>>]]
  <2>1. f = [k \in 0 .. 0 |-> next(f, k)] OBVIOUS
  <2> HIDE DEF f
  <2>2. Walks(f, n, dir, 0) BY <2>1 DEF Walks
  <2> QED BY <2>2
<1>2. ASSUME NEW j \in Nat, j \in S PROVE j + 1 \in S
  <2>1. PICK f : Walks(f, n, dir, j) BY <1>2
  <2> DEFINE g == [k \in 0 .. (j + 1) |-> next(f, k)]
  <2>2. f = [k \in 0 .. j |-> next(f, k)] BY <2>1 DEF Walks
  <2> HIDE DEF next
  <2>3. \A k \in 0 .. j : f[k] = next(f, k) BY <2>2
  <2>4. \A k \in 0 .. j : g[k] = f[k] BY <2>3
  <2>5. ASSUME NEW k \in 0 .. (j + 1) PROVE g[k] = next(g, k)
    <3>1. g[k] = next(f, k) OBVIOUS
    <3>2. CASE k = 0 BY <3>1, <3>2 DEF next
    <3>3. CASE k # 0
      <4>1. k - 1 \in 0 .. j BY <3>3
      <4>2. g[k - 1] = f[k - 1] BY <2>4, <4>1
      <4> HIDE DEF g
      <4> QED BY <3>1, <4>2 DEF next
    <3> QED BY <3>2, <3>3
  <2>6. g = [k \in 0 .. (j + 1) |-> g[k]] OBVIOUS
  <2> HIDE DEF g
  <2>7. g = [k \in 0 .. (j + 1) |-> next(g, k)] BY <2>5, <2>6
  <2>8. Walks(g, n, dir, j + 1) BY <2>7 DEF Walks, next
  <2> QED BY <2>8
<1>3. Nat \subseteq S
  <2> HIDE DEF S
  <2> QED BY <1>1, <1>2, NatInductive
<1> QED BY <1>3

(* t is the chain that starts at the pointer b of the nodes n.             *)
Linked(t, n, b, dir) ==
  /\ t \in Seq(Blocks)
  /\ Nth(t, 1) = b
  /\ \A p \in 1 .. Len(t) : t[p] \in DOMAIN n /\ n[t[p]][dir] = Nth(t, p + 1)

(* From position p on, the walk is what is left of the chain.              *)
LEMMA WalkFrom ==
  ASSUME NEW t, NEW n, NEW b, NEW dir, Linked(t, n, b, dir), NULL \notin DOMAIN n,
         NEW f, NEW m \in Nat, Walks(f, n, dir, m)
  PROVE  \A d \in Nat : d <= Len(t) =>
           \A k \in d .. m : f[k][Nth(t, Len(t) + 1 - d)] = SubSeq(t, Len(t) + 1 - d, Len(t))
<1> DEFINE S == {d \in Nat : d <= Len(t) =>
             \A k \in d .. m : f[k][Nth(t, Len(t) + 1 - d)] = SubSeq(t, Len(t) + 1 - d, Len(t))}
<1>1. t \in Seq(Blocks) /\ Len(t) \in Nat
  BY LenProperties DEF Linked
<1>2. \A k \in 0 .. m, x \in Pointers : f[k][x] =
        IF k = 0 \/ x \notin DOMAIN n THEN <<>> ELSE <<x>> \o f[k-1][n[x][dir]]
  <2> DEFINE next(k) == [x \in Pointers |->
        IF k = 0 \/ x \notin DOMAIN n THEN <<>> ELSE <<x>> \o f[k-1][n[x][dir]]]
  <2>1. f = [k \in 0 .. m |-> next(k)]
    BY DEF Walks
  <2> HIDE DEF next
  <2>2. \A k \in 0 .. m : f[k] = next(k)
    BY <2>1
  <2>3. \A k \in 0 .. m, x \in Pointers : next(k)[x] =
          IF k = 0 \/ x \notin DOMAIN n THEN <<>> ELSE <<x>> \o f[k-1][n[x][dir]]
    BY DEF next
  <2> QED
    BY <2>2, <2>3
<1>3. 0 \in S
  <2>1. Nth(t, Len(t) + 1) = NULL /\ NULL \in Pointers
    BY <1>1 DEF Nth, Pointers
  <2>2. SubSeq(t, Len(t) + 1, Len(t)) = <<>>
    BY <1>1, SubSeqEmpty
  <2>3. Len(t) + 1 - 0 = Len(t) + 1
    BY <1>1
  <2> QED
    BY <1>2, <2>1, <2>2, <2>3
<1>4. ASSUME NEW d \in Nat, d \in S PROVE d + 1 \in S
  <2> SUFFICES ASSUME d + 1 <= Len(t), NEW k \in (d + 1) .. m
               PROVE  f[k][Nth(t, Len(t) + 1 - (d + 1))] = SubSeq(t, Len(t) + 1 - (d + 1), Len(t))
    OBVIOUS
  <2>1. PICK p : p = Len(t) - d
    OBVIOUS
  <2>2. /\ p \in 1 .. Len(t) /\ p + 1 = Len(t) + 1 - d /\ p = Len(t) + 1 - (d + 1)
        /\ k - 1 \in d .. m /\ k \in 0 .. m /\ k # 0 /\ d <= Len(t)
    BY <1>1, <2>1
  <2>3. Nth(t, p) = t[p] /\ t[p] \in Pointers
    BY <1>1, <2>2, ElementOfSeq DEF Nth, Pointers
  <2>4. t[p] \in DOMAIN n /\ n[t[p]][dir] = Nth(t, p + 1)
    BY <2>2 DEF Linked
  <2>5. f[k][t[p]] = <<t[p]>> \o f[k - 1][Nth(t, p + 1)]
    BY <1>2, <2>2, <2>3, <2>4
  <2>6. f[k - 1][Nth(t, p + 1)] = SubSeq(t, p + 1, Len(t))
    BY <1>4, <2>2
  <2>7. SubSeq(t, p, Len(t)) = <<t[p]>> \o SubSeq(t, p + 1, Len(t))
    BY <1>1, <2>2, SubSeqRecursiveFirst
  <2> QED
    BY <2>2, <2>3, <2>5, <2>6, <2>7
<1>5. Nat \subseteq S
  <2> HIDE DEF S
  <2> QED BY <1>3, <1>4, NatInductive
<1> QED
  BY <1>5

LEMMA ChainIs ==
  ASSUME NEW t, NEW n, NEW b, NEW dir, Linked(t, n, b, dir), Distinct(t),
         NULL \notin DOMAIN n, IsFiniteSet(DOMAIN n)
  PROVE  Chain(n, b, dir) = t
<1>1. PICK N : N = Cardinality(DOMAIN n)
  OBVIOUS
<1>2. N \in Nat
  BY <1>1, FS_CardinalityType
<1>3. t \in Seq(Blocks) /\ Len(t) \in Nat /\ DOMAIN t = 1 .. Len(t)
  BY LenProperties DEF Linked
<1>4. Len(t) <= N
  <2>1. t \in [1 .. Len(t) -> DOMAIN n]
    BY <1>3 DEF Linked
  <2>2. t \in Injection(1 .. Len(t), DOMAIN n)
    BY <1>3, <2>1 DEF Injection, IsInjective, Distinct
  <2>3. Cardinality(1 .. Len(t)) <= N
    BY <1>1, <2>2, FS_Injection
  <2>4. Cardinality(1 .. Len(t)) = IF 1 > Len(t) THEN 0 ELSE Len(t) - 1 + 1
    BY <1>3, FS_Interval
  <2> QED
    BY <1>2, <1>3, <2>3, <2>4
<1>5. PICK f : /\ Walks(f, n, dir, N)
               /\ Chain(n, b, dir) = f[N][b]
  <2> DEFINE f == CHOOSE f : Walks(f, n, dir, N)
  <2>1. Walks(f, n, dir, N)
    BY <1>2, WalksExist
  <2>2. Chain(n, b, dir) = f[N][b]
    BY <1>1 DEF Chain, Walks, Pointers
  <2> QED
    BY <2>1, <2>2
<1>6. f[N][Nth(t, Len(t) + 1 - Len(t))] = SubSeq(t, Len(t) + 1 - Len(t), Len(t))
  <2>1. N \in Len(t) .. N /\ Len(t) <= Len(t)
    BY <1>2, <1>3, <1>4
  <2>2. \A d \in Nat : d <= Len(t) =>
           \A k \in d .. N : f[k][Nth(t, Len(t) + 1 - d)] = SubSeq(t, Len(t) + 1 - d, Len(t))
    BY <1>2, <1>5, WalkFrom
  <2> QED
    BY <1>3, <2>1, <2>2
<1>7. Len(t) + 1 - Len(t) = 1 /\ Nth(t, 1) = b
  BY <1>3 DEF Linked
<1>8. SubSeq(t, 1, Len(t)) = t
  BY <1>3, SubSeqFull
<1> QED
  BY <1>5, <1>6, <1>7, <1>8

-----------------------------------------------------------------------------
(* The layout of the heap: list i occupies the blocks c[i], in this order, *)
(* and holds the elements s[i].                                            *)

Held(t) == {t[p] : p \in 1 .. Len(t)}

Rec(right, value, left) == [right |-> right, value |-> value, left |-> left]

LEMMA RecIs ==
  \A right, value, left : /\ Rec(right, value, left).right = right
                          /\ Rec(right, value, left).value = value
                          /\ Rec(right, value, left).left = left
BY DEF Rec

Laid(n, t, v) ==
  \A p \in 1 .. Len(t) : n[t[p]] = Rec(Nth(t, p + 1), v[p], Nth(t, p - 1))

Ends(t) == [begin |-> Nth(t, 1), end |-> Nth(t, Len(t))]

Apart(ids, c) == \A i, j \in ids : i # j => \A b \in Held(c[i]) : b \notin Held(c[j])

(* The nodes are the blocks of the lists, and nothing else.                 *)
Covers(n, ids, c) == n = [b \in UNION {Held(c[i]) : i \in ids} |-> n[b]]

Roots(ids, c) == [i \in ids |-> Ends(c[i])]

Shape(h, ids, c, s) ==
  /\ c \in [ids -> Seq(Blocks)]
  /\ s \in [ids -> Seq(Element)]
  /\ \A i \in ids : Len(s[i]) = Len(c[i]) /\ Distinct(c[i]) /\ Laid(h.node, c[i], s[i])
  /\ Apart(ids, c)
  /\ Covers(h.node, ids, c)
  /\ h = [node |-> h.node, root |-> Roots(ids, c)]

LEMMA ShapeOf ==
  ASSUME NEW h, NEW ids, NEW c, NEW s, Shape(h, ids, c, s)
  PROVE  /\ \A b : b \in DOMAIN h.node <=> \E i \in ids : b \in Held(c[i])
         /\ h.node = [b \in DOMAIN h.node |-> h.node[b]]
<1>1. PICK n : n = h.node
  OBVIOUS
<1>2. PICK D : D = UNION {Held(c[i]) : i \in ids}
  OBVIOUS
<1>3. n = [b \in D |-> n[b]]
  BY <1>1, <1>2 DEF Shape, Covers
<1>4. DOMAIN n = D
  BY <1>3
<1>5. \A b : b \in D <=> \E i \in ids : b \in Held(c[i])
  BY <1>2
<1> QED
  BY <1>1, <1>3, <1>4, <1>5

LEMMA RootOf ==
  ASSUME NEW h, NEW ids, NEW c, NEW s, Shape(h, ids, c, s), NEW i \in ids
  PROVE  h.root[i] = Ends(c[i])
BY DEF Shape, Roots

(* A list of the layout.                                                    *)
LEMMA ListOf ==
  ASSUME NEW h, NEW ids, NEW c, NEW s, Shape(h, ids, c, s), NEW i \in ids
  PROVE  /\ c[i] \in Seq(Blocks) /\ Len(c[i]) \in Nat /\ DOMAIN c[i] = 1 .. Len(c[i])
         /\ s[i] \in Seq(Element) /\ Len(s[i]) = Len(c[i]) /\ DOMAIN s[i] = 1 .. Len(c[i])
         /\ Distinct(c[i]) /\ Laid(h.node, c[i], s[i])
         /\ \A p \in 1 .. Len(c[i]) : /\ c[i][p] \in Blocks /\ c[i][p] # NULL
                                      /\ c[i][p] \in DOMAIN h.node
                                      /\ s[i][p] \in Element
<1>1. /\ c[i] \in Seq(Blocks) /\ s[i] \in Seq(Element) /\ Len(s[i]) = Len(c[i])
      /\ Distinct(c[i]) /\ Laid(h.node, c[i], s[i])
  BY DEF Shape
<1>2. Len(c[i]) \in Nat /\ DOMAIN c[i] = 1 .. Len(c[i]) /\ DOMAIN s[i] = 1 .. Len(c[i])
  BY <1>1, LenProperties
<1>3. ASSUME NEW p \in 1 .. Len(c[i])
      PROVE  c[i][p] \in Blocks /\ c[i][p] # NULL /\ c[i][p] \in DOMAIN h.node /\ s[i][p] \in Element
  <2>1. c[i][p] \in Held(c[i])
    BY DEF Held
  <2>2. c[i][p] \in Blocks /\ s[i][p] \in Element
    BY <1>1, ElementOfSeq
  <2> QED
    BY <2>1, <2>2, ShapeOf, LinkedListAssumption
<1> QED
  BY <1>1, <1>2, <1>3

(* The lists in A are laid out anew, the others stay where they are.        *)
Moves(h, ids, c, s, A, c2, s2, n2) ==
  /\ A \subseteq ids
  /\ c2 \in [ids -> Seq(Blocks)] /\ s2 \in [ids -> Seq(Element)]
  /\ \A i \in ids \ A : c2[i] = c[i] /\ s2[i] = s[i]
  /\ \A i \in A : Len(s2[i]) = Len(c2[i]) /\ Distinct(c2[i]) /\ Laid(n2, c2[i], s2[i])
  /\ Apart(A, c2)
  /\ \A i \in A : \A b \in Held(c2[i]) : b \in DOMAIN h.node => \E j \in A : b \in Held(c[j])
  /\ Covers(n2, ids, c2)
  /\ \A i \in ids \ A : \A b \in Held(c[i]) : n2[b] = h.node[b]

LEMMA Reshape ==
  ASSUME NEW h, NEW ids, NEW c, NEW s, Shape(h, ids, c, s), NEW A, NEW c2, NEW s2, NEW n2,
         Moves(h, ids, c, s, A, c2, s2, n2)
  PROVE  Shape([node |-> n2, root |-> Roots(ids, c2)], ids, c2, s2)
<1> USE DEF Moves
<1> DEFINE h2 == [node |-> n2, root |-> Roots(ids, c2)]
<1>1. h2.node = n2 /\ h2 = [node |-> h2.node, root |-> Roots(ids, c2)]
  OBVIOUS
<1>2. ASSUME NEW i \in ids
      PROVE  Len(s2[i]) = Len(c2[i]) /\ Distinct(c2[i]) /\ Laid(n2, c2[i], s2[i])
  <2>1. CASE i \in A
    BY <2>1
  <2>2. CASE i \notin A
    <3>1. c2[i] = c[i] /\ s2[i] = s[i] /\ Len(s[i]) = Len(c[i]) /\ Distinct(c[i])
          /\ Laid(h.node, c[i], s[i])
      BY <2>2, ListOf
    <3>2. \A p \in 1 .. Len(c[i]) : n2[c[i][p]] = h.node[c[i][p]]
      <4>1. \A p \in 1 .. Len(c[i]) : c[i][p] \in Held(c[i])
        BY DEF Held
      <4> QED
        BY <2>2, <4>1
    <3>3. Laid(n2, c[i], s[i])
      BY <3>1, <3>2 DEF Laid
    <3> QED
      BY <3>1, <3>3
  <2> QED
    BY <2>1, <2>2
<1>3. ASSUME NEW i \in ids, NEW j \in ids, i # j, NEW b \in Held(c2[i]), b \in Held(c2[j])
      PROVE  FALSE
  <2>1. Apart(ids, c)
    BY DEF Shape
  <2>2. CASE i \in A /\ j \in A
    BY <1>3, <2>2 DEF Apart
  <2>3. CASE i \notin A /\ j \notin A
    BY <1>3, <2>1, <2>3 DEF Apart
  <2>4. CASE i \in A /\ j \notin A
    <3>1. b \in Held(c[j])
      BY <1>3, <2>4
    <3>2. PICK k \in A : b \in Held(c[k])
      BY <2>4, <3>1, ShapeOf
    <3> QED
      BY <2>1, <2>4, <3>1, <3>2 DEF Apart
  <2>5. CASE i \notin A /\ j \in A
    <3>1. b \in Held(c[i])
      BY <1>3, <2>5
    <3>2. PICK k \in A : b \in Held(c[k])
      BY <1>3, <2>5, <3>1, ShapeOf
    <3> QED
      BY <2>1, <2>5, <3>1, <3>2 DEF Apart
  <2> QED
    BY <2>2, <2>3, <2>4, <2>5
<1>4. Apart(ids, c2)
  BY <1>3 DEF Apart
<1> HIDE DEF h2
<1>5. Shape(h2, ids, c2, s2)
  BY <1>1, <1>2, <1>4 DEF Shape
<1> QED
  BY <1>5 DEF h2

(* One list changes: t are its blocks and v its elements afterwards.        *)
Rewrites(h, old, t, v, n2) ==
  /\ t \in Seq(Blocks) /\ v \in Seq(Element) /\ Len(v) = Len(t)
  /\ Distinct(t) /\ Laid(n2, t, v)
  /\ \A b \in Held(t) : b \in DOMAIN h.node => b \in Held(old)
  /\ n2 = [b \in DOMAIN n2 |-> n2[b]]
  /\ \A b : b \in DOMAIN n2 <=> b \in Held(t) \/ (b \in DOMAIN h.node /\ b \notin Held(old))
  /\ \A b \in DOMAIN h.node : b \notin Held(old) => n2[b] = h.node[b]

LEMMA OneList ==
  ASSUME NEW h, NEW ids, NEW c, NEW s, Shape(h, ids, c, s), NEW l \in ids,
         NEW t, NEW v, NEW n2, Rewrites(h, c[l], t, v, n2)
  PROVE  Shape([node |-> n2, root |-> [h.root EXCEPT ![l] = Ends(t)]],
               ids, [c EXCEPT ![l] = t], [s EXCEPT ![l] = v])
<1> USE DEF Rewrites
<1> DEFINE c2 == [c EXCEPT ![l] = t]
           s2 == [s EXCEPT ![l] = v]
<1>1. /\ c2 \in [ids -> Seq(Blocks)] /\ s2 \in [ids -> Seq(Element)]
      /\ c2[l] = t /\ s2[l] = v
      /\ \A i \in ids \ {l} : c2[i] = c[i] /\ s2[i] = s[i]
  BY DEF Shape
<1>2. [h.root EXCEPT ![l] = Ends(t)] = Roots(ids, c2)
  <2>1. h.root = [i \in ids |-> Ends(c[i])]
    BY DEF Shape, Roots
  <2>2. \A i \in ids : Ends(c2[i]) = IF i = l THEN Ends(t) ELSE Ends(c[i])
    BY <1>1
  <2> HIDE DEF c2
  <2> QED
    BY <2>1, <2>2 DEF Roots
<1> HIDE DEF c2, s2
<1>3. \A b : b \in DOMAIN n2 <=> b \in UNION {Held(c2[i]) : i \in ids}
  <2>1. \A b : b \in UNION {Held(c2[i]) : i \in ids} <=> \E i \in ids : b \in Held(c2[i])
    OBVIOUS
  <2>2. \A b : b \in DOMAIN h.node <=> \E i \in ids : b \in Held(c[i])
    BY ShapeOf
  <2>3. \A b : \A i \in ids : i # l => (b \in Held(c[i]) => b \notin Held(c[l]))
    BY DEF Shape, Apart
  <2>4. \A b : (\E i \in ids : b \in Held(c2[i])) <=>
               b \in Held(t) \/ (\E i \in ids : i # l /\ b \in Held(c[i]))
    BY <1>1
  <2>5. \A b : (\E i \in ids : i # l /\ b \in Held(c[i])) <=> b \in DOMAIN h.node /\ b \notin Held(c[l])
    BY <2>2, <2>3
  <2> QED
    BY <2>1, <2>4, <2>5
<1>4. DOMAIN n2 = UNION {Held(c2[i]) : i \in ids}
  BY <1>3
<1>5. \A i \in ids \ {l} : \A b \in Held(c[i]) : n2[b] = h.node[b]
  <2>1. \A i \in ids \ {l} : \A b \in Held(c[i]) : b \in DOMAIN h.node /\ b \notin Held(c[l])
    <3>1. Apart(ids, c)
      BY DEF Shape
    <3> QED
      BY <3>1, ShapeOf DEF Apart
  <2> QED
    BY <2>1
<1>6. PICK A : A = {l}
  OBVIOUS
<1>7. Apart(A, c2)
  BY <1>6 DEF Apart
<1>8. Shape([node |-> n2, root |-> Roots(ids, c2)], ids, c2, s2)
  <2>1. Covers(n2, ids, c2)
    BY <1>4 DEF Covers
  <2>2. /\ A \in SUBSET ids
        /\ \A i \in ids \ A : c2[i] = c[i] /\ s2[i] = s[i]
        /\ \A i \in ids \ A : \A b \in Held(c[i]) : n2[b] = h.node[b]
        /\ \A i \in A : Len(s2[i]) = Len(c2[i]) /\ Distinct(c2[i]) /\ Laid(n2, c2[i], s2[i])
        /\ \A i \in A : \A b \in Held(c2[i]) : b \in DOMAIN h.node => \E j \in A : b \in Held(c[j])
    BY <1>6, <1>1, <1>5
  <2>3. Moves(h, ids, c, s, A, c2, s2, n2)
    BY <1>1, <1>7, <2>1, <2>2 DEF Moves
  <2> QED
    BY <2>3, Reshape
<1> QED
  BY <1>2, <1>8 DEF c2, s2

(* Two lists change.                                                        *)
Exchange(h, old, other, t, v, u, w, n2) ==
  /\ t \in Seq(Blocks) /\ v \in Seq(Element) /\ Len(v) = Len(t) /\ Distinct(t) /\ Laid(n2, t, v)
  /\ u \in Seq(Blocks) /\ w \in Seq(Element) /\ Len(w) = Len(u) /\ Distinct(u) /\ Laid(n2, u, w)
  /\ \A b \in Held(t) : b \notin Held(u)
  /\ \A b : b \in Held(t) \/ b \in Held(u) <=> b \in Held(old) \/ b \in Held(other)
  /\ n2 = [b \in DOMAIN h.node |-> n2[b]]
  /\ \A b \in DOMAIN h.node : b \notin Held(old) /\ b \notin Held(other) => n2[b] = h.node[b]

LEMMA TwoLists ==
  ASSUME NEW h, NEW ids, NEW c, NEW s, Shape(h, ids, c, s), NEW l \in ids, NEW m \in ids, l # m,
         NEW t, NEW v, NEW u, NEW w, NEW n2, Exchange(h, c[l], c[m], t, v, u, w, n2)
  PROVE  Shape([node |-> n2, root |-> [h.root EXCEPT ![l] = Ends(t), ![m] = Ends(u)]],
               ids, [c EXCEPT ![l] = t, ![m] = u], [s EXCEPT ![l] = v, ![m] = w])
<1> USE DEF Exchange
<1> DEFINE c2 == [c EXCEPT ![l] = t, ![m] = u]
           s2 == [s EXCEPT ![l] = v, ![m] = w]
<1>1. /\ c2 \in [ids -> Seq(Blocks)] /\ s2 \in [ids -> Seq(Element)]
      /\ c2[l] = t /\ s2[l] = v /\ c2[m] = u /\ s2[m] = w
      /\ \A i \in ids \ {l, m} : c2[i] = c[i] /\ s2[i] = s[i]
  BY DEF Shape
<1>2. [h.root EXCEPT ![l] = Ends(t), ![m] = Ends(u)] = Roots(ids, c2)
  <2>1. h.root = [i \in ids |-> Ends(c[i])]
    BY DEF Shape, Roots
  <2>2. \A i \in ids : Ends(c2[i]) = IF i = m THEN Ends(u) ELSE IF i = l THEN Ends(t) ELSE Ends(c[i])
    BY <1>1
  <2> HIDE DEF c2
  <2> QED
    BY <2>1, <2>2 DEF Roots
<1> HIDE DEF c2, s2
<1>3. \A b : b \in DOMAIN h.node <=> b \in UNION {Held(c2[i]) : i \in ids}
  <2>1. \A b : b \in UNION {Held(c2[i]) : i \in ids} <=> \E i \in ids : b \in Held(c2[i])
    OBVIOUS
  <2>2. \A b : b \in DOMAIN h.node <=> \E i \in ids : b \in Held(c[i])
    BY ShapeOf
  <2>3. \A b : (\E i \in ids : b \in Held(c2[i])) <=>
               \/ b \in Held(t) \/ b \in Held(u)
               \/ \E i \in ids : i # l /\ i # m /\ b \in Held(c[i])
    BY <1>1
  <2>4. \A b : (\E i \in ids : b \in Held(c[i])) <=>
               \/ b \in Held(c[l]) \/ b \in Held(c[m])
               \/ \E i \in ids : i # l /\ i # m /\ b \in Held(c[i])
    OBVIOUS
  <2> QED
    BY <2>1, <2>2, <2>3, <2>4
<1>4. DOMAIN h.node = UNION {Held(c2[i]) : i \in ids}
  BY <1>3
<1>5. \A i \in ids \ {l, m} : \A b \in Held(c[i]) : n2[b] = h.node[b]
  <2>1. \A i \in ids \ {l, m} : \A b \in Held(c[i]) :
          b \in DOMAIN h.node /\ b \notin Held(c[l]) /\ b \notin Held(c[m])
    <3>1. Apart(ids, c)
      BY DEF Shape
    <3> QED
      BY <3>1, ShapeOf DEF Apart
  <2> QED
    BY <2>1
<1>6. PICK A : A = {l, m}
  OBVIOUS
<1>7. Apart(A, c2)
  BY <1>6, <1>1 DEF Apart
<1>8. Shape([node |-> n2, root |-> Roots(ids, c2)], ids, c2, s2)
  <2>1. Covers(n2, ids, c2)
    BY <1>4 DEF Covers
  <2>2. /\ A \in SUBSET ids
        /\ \A i \in ids \ A : c2[i] = c[i] /\ s2[i] = s[i]
        /\ \A i \in ids \ A : \A b \in Held(c[i]) : n2[b] = h.node[b]
        /\ \A i \in A : Len(s2[i]) = Len(c2[i]) /\ Distinct(c2[i]) /\ Laid(n2, c2[i], s2[i])
        /\ \A i \in A : \A b \in Held(c2[i]) : b \in DOMAIN h.node => \E j \in A : b \in Held(c[j])
    BY <1>6, <1>1, <1>5
  <2>3. Moves(h, ids, c, s, A, c2, s2, n2)
    BY <1>1, <1>7, <2>1, <2>2 DEF Moves
  <2> QED
    BY <2>3, Reshape
<1> QED
  BY <1>2, <1>8 DEF c2, s2

-----------------------------------------------------------------------------
(* Writing a node.                                                          *)

IsNodes(n) ==
  /\ n = [b \in DOMAIN n |-> n[b]]
  /\ \A b \in DOMAIN n : n[b] = Rec(n[b].right, n[b].value, n[b].left)
  /\ NULL \notin DOMAIN n

LEMMA SetRightIs ==
  ASSUME NEW n, IsNodes(n), NEW b, NEW x
  PROVE  /\ IsNodes(SetRight(n, b, x)) /\ DOMAIN SetRight(n, b, x) = DOMAIN n
         /\ \A y \in DOMAIN n : SetRight(n, b, x)[y] =
                                Rec(IF y = b THEN x ELSE n[y].right, n[y].value, n[y].left)
<1>1. PICK n2 : n2 = SetRight(n, b, x)
  OBVIOUS
<1>2. n2 = [y \in DOMAIN n |-> IF y = b THEN [n[y] EXCEPT !.right = x] ELSE n[y]]
  <2>1. CASE b = NULL
    BY <1>1, <2>1 DEF SetRight, IsNodes
  <2>2. CASE b # NULL
    BY <1>1, <2>2 DEF SetRight, IsNodes
  <2> QED
    BY <2>1, <2>2
<1>3. \A y \in DOMAIN n : [n[y] EXCEPT !.right = x] = Rec(x, n[y].value, n[y].left)
  <2> SUFFICES ASSUME NEW y \in DOMAIN n
               PROVE  [n[y] EXCEPT !.right = x] = Rec(x, n[y].value, n[y].left)
    OBVIOUS
  <2>1. PICK p, q, w : p = n[y].right /\ q = n[y].value /\ w = n[y].left
    OBVIOUS
  <2>2. n[y] = Rec(p, q, w)
    BY <2>1 DEF IsNodes
  <2>3. [Rec(p, q, w) EXCEPT !.right = x] = Rec(x, q, w)
    BY DEF Rec
  <2> QED
    BY <2>1, <2>2, <2>3
<1>4. DOMAIN n2 = DOMAIN n
  BY <1>2
<1>5. \A y \in DOMAIN n : n2[y] = Rec(IF y = b THEN x ELSE n[y].right, n[y].value, n[y].left)
  BY <1>2, <1>3 DEF IsNodes
<1>6. \A y \in DOMAIN n : n2[y] = Rec(n2[y].right, n2[y].value, n2[y].left)
  BY <1>5, RecIs
<1>7. n2 = [y \in DOMAIN n2 |-> n2[y]]
  BY <1>2, <1>4
<1>8. IsNodes(n2)
  BY <1>4, <1>6, <1>7 DEF IsNodes
<1> QED
  BY <1>1, <1>4, <1>5, <1>8

LEMMA SetLeftIs ==
  ASSUME NEW n, IsNodes(n), NEW b, NEW x
  PROVE  /\ IsNodes(SetLeft(n, b, x)) /\ DOMAIN SetLeft(n, b, x) = DOMAIN n
         /\ \A y \in DOMAIN n : SetLeft(n, b, x)[y] =
                                Rec(n[y].right, n[y].value, IF y = b THEN x ELSE n[y].left)
<1>1. PICK n2 : n2 = SetLeft(n, b, x)
  OBVIOUS
<1>2. n2 = [y \in DOMAIN n |-> IF y = b THEN [n[y] EXCEPT !.left = x] ELSE n[y]]
  <2>1. CASE b = NULL
    BY <1>1, <2>1 DEF SetLeft, IsNodes
  <2>2. CASE b # NULL
    BY <1>1, <2>2 DEF SetLeft, IsNodes
  <2> QED
    BY <2>1, <2>2
<1>3. \A y \in DOMAIN n : [n[y] EXCEPT !.left = x] = Rec(n[y].right, n[y].value, x)
  <2> SUFFICES ASSUME NEW y \in DOMAIN n
               PROVE  [n[y] EXCEPT !.left = x] = Rec(n[y].right, n[y].value, x)
    OBVIOUS
  <2>1. PICK p, q, w : p = n[y].right /\ q = n[y].value /\ w = n[y].left
    OBVIOUS
  <2>2. n[y] = Rec(p, q, w)
    BY <2>1 DEF IsNodes
  <2>3. [Rec(p, q, w) EXCEPT !.left = x] = Rec(p, q, x)
    BY DEF Rec
  <2> QED
    BY <2>1, <2>2, <2>3
<1>4. DOMAIN n2 = DOMAIN n
  BY <1>2
<1>5. \A y \in DOMAIN n : n2[y] = Rec(n[y].right, n[y].value, IF y = b THEN x ELSE n[y].left)
  BY <1>2, <1>3 DEF IsNodes
<1>6. \A y \in DOMAIN n : n2[y] = Rec(n2[y].right, n2[y].value, n2[y].left)
  BY <1>5, RecIs
<1>7. n2 = [y \in DOMAIN n2 |-> n2[y]]
  BY <1>2, <1>4
<1>8. IsNodes(n2)
  BY <1>4, <1>6, <1>7 DEF IsNodes
<1> QED
  BY <1>1, <1>4, <1>5, <1>8

Made(n2, n, b, record) ==
  /\ IsNodes(n2)
  /\ DOMAIN n2 = DOMAIN n \cup {b}
  /\ n2[b] = record
  /\ \A y \in DOMAIN n : y # b => n2[y] = n[y]

LEMMA MakeNodeIs ==
  ASSUME NEW n, IsNodes(n), NEW b, b # NULL, NEW left, NEW value, NEW right,
         NEW n2, n2 = ListMakeNode(n, b, left, value, right)
  PROVE  Made(n2, n, b, Rec(right, value, left))
<1>2. n2 = [y \in DOMAIN n \cup {b} |-> IF y = b THEN Rec(right, value, left) ELSE n[y]]
  BY DEF ListMakeNode, Rec
<1>3. DOMAIN n2 = DOMAIN n \cup {b} /\ n2 = [y \in DOMAIN n2 |-> n2[y]]
  BY <1>2
<1>4. \A y \in DOMAIN n \cup {b} : n2[y] = IF y = b THEN Rec(right, value, left) ELSE n[y]
  BY <1>2
<1>5. \A y \in DOMAIN n2 : n2[y] = Rec(n2[y].right, n2[y].value, n2[y].left)
  <2>1. \A y \in DOMAIN n : n[y] = Rec(n[y].right, n[y].value, n[y].left)
    BY DEF IsNodes
  <2>2. n2[b] = Rec(n2[b].right, n2[b].value, n2[b].left)
    BY <1>4, RecIs
  <2> QED
    BY <1>3, <1>4, <2>1, <2>2
<1>6. IsNodes(n2)
  BY <1>3, <1>5 DEF IsNodes
<1> QED
  BY <1>3, <1>4, <1>6 DEF Made

Freed(n2, n, bs) ==
  /\ IsNodes(n2) /\ DOMAIN n2 = DOMAIN n \ bs
  /\ \A y \in DOMAIN n : y \notin bs => n2[y] = n[y]

LEMMA FreeIs ==
  ASSUME NEW n, IsNodes(n), NEW bs, NEW n2, n2 = FREE(n, bs)
  PROVE  Freed(n2, n, bs)
<1>1. n2 = [y \in DOMAIN n \ bs |-> n[y]]
  BY DEF FREE
<1>2. /\ DOMAIN n2 = DOMAIN n \ bs /\ n2 = [y \in DOMAIN n2 |-> n2[y]]
      /\ \A y \in DOMAIN n \ bs : n2[y] = n[y]
  BY <1>1
<1>3. IsNodes(n2)
  BY <1>2 DEF IsNodes
<1> QED
  BY <1>2, <1>3 DEF Freed

LEMMA ShapeNodes ==
  ASSUME NEW h, NEW ids, NEW c, NEW s, Shape(h, ids, c, s)
  PROVE  /\ IsNodes(h.node) /\ DOMAIN h.node \subseteq Blocks
         /\ h = [node |-> h.node, root |-> h.root]
<1>1. ASSUME NEW b \in DOMAIN h.node
      PROVE  b \in Blocks /\ h.node[b] = Rec(h.node[b].right, h.node[b].value, h.node[b].left)
  <2>1. PICK i \in ids : b \in Held(c[i])
    BY ShapeOf
  <2>2. PICK p \in 1 .. Len(c[i]) : b = c[i][p]
    BY <2>1 DEF Held
  <2>3. b \in Blocks /\ h.node[b] = Rec(Nth(c[i], p + 1), s[i][p], Nth(c[i], p - 1))
    BY <2>2, ListOf DEF Laid
  <2> QED
    BY <2>3, RecIs
<1>2. NULL \notin DOMAIN h.node
  BY <1>1, LinkedListAssumption
<1>3. h = [node |-> h.node, root |-> h.root]
  BY DEF Shape
<1> QED
  BY <1>1, <1>2, <1>3, ShapeOf DEF IsNodes

-----------------------------------------------------------------------------
(* Both ends.                                                               *)

LEMMA FreshIs ==
  ASSUME NEW h, Room(h, 1)
  PROVE  Fresh(h.node) \in Blocks /\ Fresh(h.node) \notin DOMAIN h.node /\ Fresh(h.node) # NULL
<1>1. Blocks \ DOMAIN h.node # {}
  BY FS_EmptySet DEF Room
<1>2. \E b \in Blocks : b \notin DOMAIN h.node
  BY <1>1
<1> QED
  BY <1>2, LinkedListAssumption DEF Fresh

(* The ends of a sequence of blocks, and what is beyond.                    *)
LEMMA NthIs ==
  ASSUME NEW t \in Seq(Blocks)
  PROVE  /\ \A p \in 1 .. Len(t) : Nth(t, p) = t[p] /\ t[p] # NULL /\ t[p] \in Blocks
         /\ \A p : p \notin 1 .. Len(t) => Nth(t, p) = NULL
         /\ Len(t) \in Nat
BY ElementOfSeq, LenProperties, LinkedListAssumption DEF Nth

LEMMA PushBackShape ==
  ASSUME NEW h, NEW ids, NEW c, NEW s, Shape(h, ids, c, s), NEW l \in ids, NEW v \in Element,
         Room(h, 1)
  PROVE  \E b \in Blocks :
           /\ b \notin DOMAIN h.node
           /\ DOMAIN ListPushBack(h, l, v).node = DOMAIN h.node \cup {b}
           /\ Shape(ListPushBack(h, l, v), ids, [c EXCEPT ![l] = Append(@, b)],
                    [s EXCEPT ![l] = Append(@, v)])
<1>1. PICK n, t, w, b, e : n = h.node /\ t = c[l] /\ w = s[l] /\ b = Fresh(n) /\ e = Nth(t, Len(t))
  OBVIOUS
<1>2. /\ t \in Seq(Blocks) /\ Len(t) \in Nat /\ w \in Seq(Element) /\ Len(w) = Len(t)
      /\ Distinct(t) /\ Laid(n, t, w)
      /\ \A p \in 1 .. Len(t) : t[p] \in Blocks /\ t[p] # NULL /\ t[p] \in DOMAIN n
  BY <1>1, ListOf
<1>3. b \in Blocks /\ b \notin DOMAIN n /\ b # NULL
  BY <1>1, FreshIs
<1>4. IsNodes(n) /\ h.root[l] = Ends(t) /\ NULL \notin DOMAIN n
  <2>1. IsNodes(n)
    BY <1>1, ShapeNodes
  <2>2. h.root[l] = Ends(t)
    BY <1>1, RootOf
  <2> QED
    BY <2>1, <2>2 DEF IsNodes
<1>5. PICK m, n2 : m = ListMakeNode(n, b, e, v, NULL) /\ n2 = SetRight(m, e, b)
  OBVIOUS
<1>6. /\ IsNodes(m) /\ DOMAIN m = DOMAIN n \cup {b}
      /\ m[b] = Rec(NULL, v, e)
      /\ \A y \in DOMAIN n : y # b => m[y] = n[y]
  <2>1. m = ListMakeNode(n, b, e, v, NULL)
    BY <1>5
  <2>2. Made(m, n, b, Rec(NULL, v, e))
    BY <1>3, <1>4, <2>1, MakeNodeIs
  <2> QED
    BY <2>2 DEF Made
<1>7. /\ DOMAIN n2 = DOMAIN n \cup {b} /\ IsNodes(n2)
      /\ \A y \in DOMAIN n \cup {b} : n2[y] = Rec(IF y = e THEN b ELSE m[y].right, m[y].value, m[y].left)
  BY <1>5, <1>6, SetRightIs
<1>8. PICK t2, w2 : t2 = Append(t, b) /\ w2 = Append(w, v)
  OBVIOUS
<1>9. /\ t2 \in Seq(Blocks) /\ Len(t2) = Len(t) + 1 /\ t2[Len(t) + 1] = b
      /\ \A p \in 1 .. Len(t) : t2[p] = t[p]
  BY <1>2, <1>3, <1>8, AppendProperties
<1>10. /\ w2 \in Seq(Element) /\ Len(w2) = Len(w) + 1 /\ w2[Len(w) + 1] = v
       /\ \A p \in 1 .. Len(w) : w2[p] = w[p]
  BY <1>2, <1>8, AppendProperties
<1>11. Distinct(t2)
  BY <1>2, <1>3, <1>9 DEF Distinct
<1>12. ASSUME NEW p \in 1 .. Len(t2)
       PROVE  n2[t2[p]] = Rec(Nth(t2, p + 1), w2[p], Nth(t2, p - 1))
  <2>1. CASE p = Len(t) + 1
    <3>1. t2[p] = b /\ w2[p] = v /\ Nth(t2, p + 1) = NULL /\ Nth(t2, p - 1) = e
      BY <1>1, <1>2, <1>9, <1>10, <2>1 DEF Nth
    <3>2. b # e
      BY <1>1, <1>2, <1>3 DEF Nth
    <3>3. m[b] = Rec(NULL, v, e)
      BY <1>6
    <3> QED
      BY <1>7, <3>1, <3>2, <3>3, RecIs
  <2>2. CASE p # Len(t) + 1
    <3>1. p \in 1 .. Len(t) /\ t2[p] = t[p] /\ w2[p] = w[p] /\ t[p] \in DOMAIN n /\ t[p] # b
      BY <1>2, <1>3, <1>9, <1>10, <2>2
    <3>2. m[t[p]] = Rec(Nth(t, p + 1), w[p], Nth(t, p - 1))
      BY <1>2, <1>6, <3>1 DEF Laid
    <3>3. Nth(t2, p - 1) = Nth(t, p - 1)
      BY <1>2, <1>9, <3>1 DEF Nth
    <3>4. Nth(t2, p + 1) = IF t[p] = e THEN b ELSE Nth(t, p + 1)
      BY <1>1, <1>2, <1>9, <3>1 DEF Nth, Distinct
    <3> QED
      BY <1>7, <3>1, <3>2, <3>3, <3>4, RecIs
  <2> QED
    BY <2>1, <2>2
<1>13. Laid(n2, t2, w2)
  BY <1>12 DEF Laid
<1>14. \A x : x \in Held(t2) <=> x \in Held(t) \/ x = b
  BY <1>2, <1>9 DEF Held
<1>15. \A x \in Held(t) : x \in DOMAIN n
  BY <1>2 DEF Held
<1>16. \A y \in DOMAIN n : y \notin Held(t) => n2[y] = n[y]
  <2>1. ASSUME NEW y \in DOMAIN n, y \notin Held(t) PROVE n2[y] = n[y]
    <3>1. y # e
      BY <1>1, <1>2, <1>4, <2>1 DEF Held, Nth
    <3>2. m[y] = n[y] /\ n[y] = Rec(n[y].right, n[y].value, n[y].left)
      BY <1>3, <1>4, <1>6 DEF IsNodes
    <3> QED
      BY <1>7, <3>1, <3>2
  <2> QED
    BY <2>1
<1>17. Rewrites(h, t, t2, w2, n2)
  <2>1. n2 = [y \in DOMAIN n2 |-> n2[y]]
    BY <1>7 DEF IsNodes
  <2>2. \A x \in Held(t2) : x \in DOMAIN n => x \in Held(t)
    BY <1>3, <1>14
  <2>3. \A x : x \in DOMAIN n2 <=> x \in Held(t2) \/ (x \in DOMAIN n /\ x \notin Held(t))
    BY <1>7, <1>14, <1>15
  <2>4. Len(w2) = Len(t2)
    BY <1>2, <1>9, <1>10
  <2> QED
    BY <1>1, <1>9, <1>10, <1>11, <1>13, <1>16, <2>1, <2>2, <2>3, <2>4 DEF Rewrites
<1>18. Shape([node |-> n2, root |-> [h.root EXCEPT ![l] = Ends(t2)]],
             ids, [c EXCEPT ![l] = t2], [s EXCEPT ![l] = w2])
  BY <1>1, <1>17, OneList
<1>19. ListPushBack(h, l, v) = [node |-> n2, root |-> [h.root EXCEPT ![l] = Ends(t2)]]
  <2>1. h.root[l].end = e /\ h.root[l].begin = Nth(t, 1)
    BY <1>1, <1>4 DEF Ends
  <2>2. Nth(t2, 1) = (IF Nth(t, 1) = NULL THEN b ELSE Nth(t, 1)) /\ Nth(t2, Len(t2)) = b
    BY <1>2, <1>9 DEF Nth
  <2>3. WithRoot(h, l, IF Nth(t, 1) = NULL THEN b ELSE Nth(t, 1), b) = [h.root EXCEPT ![l] = Ends(t2)]
    BY <2>2 DEF WithRoot, Ends
  <2> QED
    BY <1>1, <1>5, <2>1, <2>3 DEF ListPushBack
<1>20. [c EXCEPT ![l] = Append(@, b)] = [c EXCEPT ![l] = t2]
       /\ [s EXCEPT ![l] = Append(@, v)] = [s EXCEPT ![l] = w2]
  BY <1>1, <1>8
<1>21. ListPushBack(h, l, v).node = n2
  BY <1>19
<1> QED
  BY <1>1, <1>3, <1>7, <1>18, <1>19, <1>20, <1>21

LEMMA InFront ==
  ASSUME NEW S, NEW t \in Seq(S), NEW b \in S
  PROVE  /\ <<b>> \o t \in Seq(S) /\ Len(<<b>> \o t) = Len(t) + 1 /\ (<<b>> \o t)[1] = b
         /\ \A p \in 2 .. Len(t) + 1 : (<<b>> \o t)[p] = t[p - 1]
<1>1. <<b>> \in Seq(S) /\ Len(<<b>>) = 1 /\ <<b>>[1] = b /\ Len(t) \in Nat
  BY LenProperties
<1>2. PICK u : u = <<b>>
  OBVIOUS
<1>3. /\ u \o t \in Seq(S) /\ Len(u \o t) = Len(u) + Len(t)
      /\ \A i \in 1 .. Len(u) + Len(t) : (u \o t)[i] = IF i <= Len(u) THEN u[i] ELSE t[i - Len(u)]
  BY <1>1, <1>2, ConcatProperties
<1> QED
  BY <1>1, <1>2, <1>3

LEMMA PushFrontShape ==
  ASSUME NEW h, NEW ids, NEW c, NEW s, Shape(h, ids, c, s), NEW l \in ids, NEW v \in Element,
         Room(h, 1)
  PROVE  \E b \in Blocks :
           /\ b \notin DOMAIN h.node
           /\ DOMAIN ListPushFront(h, l, v).node = DOMAIN h.node \cup {b}
           /\ Shape(ListPushFront(h, l, v), ids, [c EXCEPT ![l] = <<b>> \o @],
                    [s EXCEPT ![l] = <<v>> \o @])
<1>1. PICK n, t, w, b, e : n = h.node /\ t = c[l] /\ w = s[l] /\ b = Fresh(n) /\ e = Nth(t, 1)
  OBVIOUS
<1>2. /\ t \in Seq(Blocks) /\ Len(t) \in Nat /\ w \in Seq(Element) /\ Len(w) = Len(t)
      /\ Distinct(t) /\ Laid(n, t, w)
      /\ \A p \in 1 .. Len(t) : t[p] \in Blocks /\ t[p] # NULL /\ t[p] \in DOMAIN n
  BY <1>1, ListOf
<1>3. b \in Blocks /\ b \notin DOMAIN n /\ b # NULL
  BY <1>1, FreshIs
<1>4. IsNodes(n) /\ h.root[l] = Ends(t) /\ NULL \notin DOMAIN n
  <2>1. IsNodes(n)
    BY <1>1, ShapeNodes
  <2>2. h.root[l] = Ends(t)
    BY <1>1, RootOf
  <2> QED
    BY <2>1, <2>2 DEF IsNodes
<1>5. PICK m, n2 : m = ListMakeNode(n, b, NULL, v, e) /\ n2 = SetLeft(m, e, b)
  OBVIOUS
<1>6. /\ IsNodes(m) /\ DOMAIN m = DOMAIN n \cup {b}
      /\ m[b] = Rec(e, v, NULL)
      /\ \A y \in DOMAIN n : y # b => m[y] = n[y]
  <2>1. m = ListMakeNode(n, b, NULL, v, e)
    BY <1>5
  <2>2. Made(m, n, b, Rec(e, v, NULL))
    BY <1>3, <1>4, <2>1, MakeNodeIs
  <2> QED
    BY <2>2 DEF Made
<1>7. /\ DOMAIN n2 = DOMAIN n \cup {b} /\ IsNodes(n2)
      /\ \A y \in DOMAIN n \cup {b} : n2[y] = Rec(m[y].right, m[y].value, IF y = e THEN b ELSE m[y].left)
  BY <1>5, <1>6, SetLeftIs
<1>8. PICK t2, w2 : t2 = <<b>> \o t /\ w2 = <<v>> \o w
  OBVIOUS
<1>9. /\ t2 \in Seq(Blocks) /\ Len(t2) = Len(t) + 1 /\ t2[1] = b
      /\ \A p \in 2 .. Len(t) + 1 : t2[p] = t[p - 1]
  BY <1>2, <1>3, <1>8, InFront
<1>10. /\ w2 \in Seq(Element) /\ Len(w2) = Len(w) + 1 /\ w2[1] = v
       /\ \A p \in 2 .. Len(w) + 1 : w2[p] = w[p - 1]
  BY <1>2, <1>8, InFront
<1>11. Distinct(t2)
  BY <1>2, <1>3, <1>9 DEF Distinct
<1>12. ASSUME NEW p \in 1 .. Len(t2)
       PROVE  n2[t2[p]] = Rec(Nth(t2, p + 1), w2[p], Nth(t2, p - 1))
  <2>1. CASE p = 1
    <3>1. t2[p] = b /\ w2[p] = v /\ Nth(t2, p - 1) = NULL /\ Nth(t2, p + 1) = e
      BY <1>1, <1>2, <1>9, <1>10, <2>1 DEF Nth
    <3>2. b # e
      BY <1>1, <1>2, <1>3 DEF Nth
    <3>3. m[b] = Rec(e, v, NULL)
      BY <1>6
    <3> QED
      BY <1>7, <3>1, <3>2, <3>3, RecIs
  <2>2. CASE p # 1
    <3>1. PICK q : q = p - 1
      OBVIOUS
    <3>2. q \in 1 .. Len(t) /\ p = q + 1 /\ t2[p] = t[q] /\ w2[p] = w[q] /\ t[q] \in DOMAIN n /\ t[q] # b
      BY <1>2, <1>3, <1>9, <1>10, <2>2, <3>1
    <3>3. m[t[q]] = Rec(Nth(t, q + 1), w[q], Nth(t, q - 1))
      BY <1>2, <1>6, <3>2 DEF Laid
    <3>4. Nth(t2, p + 1) = Nth(t, q + 1)
      <4>1. CASE q + 1 \in 1 .. Len(t)
        <5>1. p + 1 \in 2 .. Len(t) + 1 /\ p + 1 - 1 = q + 1 /\ p + 1 \in 1 .. Len(t2)
          BY <1>2, <1>9, <3>2, <4>1
        <5>2. t2[p + 1] = t[q + 1]
          BY <1>9, <5>1
        <5> QED
          BY <4>1, <5>1, <5>2 DEF Nth
      <4>2. CASE q + 1 \notin 1 .. Len(t)
        BY <1>2, <1>9, <3>2, <4>2 DEF Nth
      <4> QED
        BY <4>1, <4>2
    <3>5. Nth(t2, p - 1) = IF t[q] = e THEN b ELSE Nth(t, q - 1)
      <4>1. CASE q = 1
        BY <1>1, <1>2, <1>9, <3>2, <4>1 DEF Nth
      <4>2. CASE q # 1
        <5>1. t[q] # e
          BY <1>1, <1>2, <3>2, <4>2 DEF Nth, Distinct
        <5>2. Nth(t2, q) = t[q - 1] /\ Nth(t, q - 1) = t[q - 1]
          BY <1>2, <1>9, <3>2, <4>2 DEF Nth
        <5> QED
          BY <3>2, <5>1, <5>2
      <4> QED
        BY <4>1, <4>2
    <3> QED
      BY <1>7, <3>2, <3>3, <3>4, <3>5, RecIs
  <2> QED
    BY <2>1, <2>2
<1>13. Laid(n2, t2, w2)
  BY <1>12 DEF Laid
<1>14. \A x : x \in Held(t2) <=> x \in Held(t) \/ x = b
  <2>1. \A p \in 1 .. Len(t) : t[p] = t2[p + 1] /\ p + 1 \in 1 .. Len(t2)
    BY <1>2, <1>9
  <2>2. \A p \in 1 .. Len(t2) : p = 1 \/ (p - 1 \in 1 .. Len(t) /\ t2[p] = t[p - 1])
    BY <1>2, <1>9
  <2>3. 1 \in 1 .. Len(t2)
    BY <1>2, <1>9
  <2>4. ASSUME NEW x, x \in Held(t2) PROVE x \in Held(t) \/ x = b
    <3>1. PICK p \in 1 .. Len(t2) : x = t2[p]
      BY <2>4 DEF Held
    <3> QED
      BY <1>9, <2>2, <3>1 DEF Held
  <2>5. ASSUME NEW x, x \in Held(t) \/ x = b PROVE x \in Held(t2)
    <3>1. CASE x = b
      BY <1>9, <2>3, <3>1 DEF Held
    <3>2. CASE x \in Held(t)
      <4>1. PICK p \in 1 .. Len(t) : x = t[p]
        BY <3>2 DEF Held
      <4> QED
        BY <2>1, <4>1 DEF Held
    <3> QED
      BY <2>5, <3>1, <3>2
  <2> QED
    BY <2>4, <2>5
<1>15. \A x \in Held(t) : x \in DOMAIN n
  BY <1>2 DEF Held
<1>16. \A y \in DOMAIN n : y \notin Held(t) => n2[y] = n[y]
  <2>1. ASSUME NEW y \in DOMAIN n, y \notin Held(t) PROVE n2[y] = n[y]
    <3>1. y # e
      BY <1>1, <1>2, <1>4, <2>1 DEF Held, Nth
    <3>2. m[y] = n[y] /\ n[y] = Rec(n[y].right, n[y].value, n[y].left)
      BY <1>3, <1>4, <1>6 DEF IsNodes
    <3> QED
      BY <1>7, <3>1, <3>2
  <2> QED
    BY <2>1
<1>17. Rewrites(h, t, t2, w2, n2)
  <2>1. n2 = [y \in DOMAIN n2 |-> n2[y]]
    BY <1>7 DEF IsNodes
  <2>2. \A x \in Held(t2) : x \in DOMAIN n => x \in Held(t)
    BY <1>3, <1>14
  <2>3. \A x : x \in DOMAIN n2 <=> x \in Held(t2) \/ (x \in DOMAIN n /\ x \notin Held(t))
    BY <1>7, <1>14, <1>15
  <2>4. Len(w2) = Len(t2)
    BY <1>2, <1>9, <1>10
  <2> QED
    BY <1>1, <1>9, <1>10, <1>11, <1>13, <1>16, <2>1, <2>2, <2>3, <2>4 DEF Rewrites
<1>18. Shape([node |-> n2, root |-> [h.root EXCEPT ![l] = Ends(t2)]],
             ids, [c EXCEPT ![l] = t2], [s EXCEPT ![l] = w2])
  BY <1>1, <1>17, OneList
<1>19. ListPushFront(h, l, v) = [node |-> n2, root |-> [h.root EXCEPT ![l] = Ends(t2)]]
  <2>1. h.root[l].begin = e /\ h.root[l].end = Nth(t, Len(t))
    BY <1>1, <1>4 DEF Ends
  <2>2. Nth(t2, Len(t2)) = (IF Nth(t, Len(t)) = NULL THEN b ELSE Nth(t, Len(t))) /\ Nth(t2, 1) = b
    BY <1>2, <1>9 DEF Nth
  <2>3. WithRoot(h, l, b, IF Nth(t, Len(t)) = NULL THEN b ELSE Nth(t, Len(t))) = [h.root EXCEPT ![l] = Ends(t2)]
    BY <2>2 DEF WithRoot, Ends
  <2> QED
    BY <1>1, <1>5, <2>1, <2>3 DEF ListPushFront
<1>20. [c EXCEPT ![l] = <<b>> \o @] = [c EXCEPT ![l] = t2]
       /\ [s EXCEPT ![l] = <<v>> \o @] = [s EXCEPT ![l] = w2]
  BY <1>1, <1>8
<1>21. ListPushFront(h, l, v).node = n2
  BY <1>19
<1> QED
  BY <1>1, <1>3, <1>7, <1>18, <1>19, <1>20, <1>21

-----------------------------------------------------------------------------
(* In the middle.                                                           *)

LEMMA WithoutIs ==
  ASSUME NEW S, NEW t \in Seq(S), NEW k \in 1 .. Len(t)
  PROVE  /\ RemoveAt(t, k) \in Seq(S) /\ Len(RemoveAt(t, k)) = Len(t) - 1
         /\ \A p \in 1 .. k - 1 : RemoveAt(t, k)[p] = t[p]
         /\ \A p \in k .. Len(t) - 1 : RemoveAt(t, k)[p] = t[p + 1]
<1>1. Len(t) \in Nat /\ \A p \in 1 .. Len(t) : t[p] \in S
  BY LenProperties, ElementOfSeq
<1>2. PICK u, w : u = SubSeq(t, 1, k - 1) /\ w = SubSeq(t, k + 1, Len(t))
  OBVIOUS
<1>3. u \in Seq(S) /\ Len(u) = k - 1 /\ \A p \in 1 .. k - 1 : u[p] = t[p]
  <2>1. /\ u \in Seq(S) /\ Len(u) = (IF 1 <= k - 1 THEN k - 1 - 1 + 1 ELSE 0)
        /\ \A p \in 1 .. k - 1 - 1 + 1 : u[p] = t[1 + p - 1]
    BY <1>1, <1>2, SubSeqProperties
  <2> QED
    BY <1>1, <2>1
<1>4. w \in Seq(S) /\ Len(w) = Len(t) - k /\ \A p \in 1 .. Len(t) - k : w[p] = t[k + p]
  <2>1. /\ w \in Seq(S) /\ Len(w) = (IF k + 1 <= Len(t) THEN Len(t) - (k + 1) + 1 ELSE 0)
        /\ \A p \in 1 .. Len(t) - (k + 1) + 1 : w[p] = t[k + 1 + p - 1]
    BY <1>1, <1>2, SubSeqProperties
  <2> QED
    BY <1>1, <2>1
<1>5. /\ u \o w \in Seq(S) /\ Len(u \o w) = Len(u) + Len(w)
      /\ \A p \in 1 .. Len(u) + Len(w) : (u \o w)[p] = IF p <= Len(u) THEN u[p] ELSE w[p - Len(u)]
  BY <1>3, <1>4, ConcatProperties
<1>6. PICK x : x = RemoveAt(t, k)
  OBVIOUS
<1>7. x = u \o w
  BY <1>2, <1>6 DEF RemoveAt
<1>8. x \in Seq(S) /\ Len(x) = Len(t) - 1
  <2>1. x \in Seq(S) /\ Len(x) = Len(u) + Len(w)
    BY <1>5, <1>7
  <2>2. Len(u) = k - 1 /\ Len(w) = Len(t) - k
    BY <1>3, <1>4
  <2> QED
    BY <1>1, <2>1, <2>2
<1>9. ASSUME NEW p \in 1 .. k - 1 PROVE x[p] = t[p]
  <2>1. p \in 1 .. Len(u) + Len(w) /\ p <= Len(u)
    BY <1>1, <1>3, <1>4
  <2> QED
    BY <1>3, <1>5, <1>7, <2>1
<1>10. ASSUME NEW p \in k .. Len(t) - 1 PROVE x[p] = t[p + 1]
  <2>1. p \in 1 .. Len(u) + Len(w) /\ ~ (p <= Len(u)) /\ p - Len(u) \in 1 .. Len(t) - k
        /\ k + (p - Len(u)) = p + 1
    BY <1>1, <1>3, <1>4
  <2> QED
    BY <1>4, <1>5, <1>7, <2>1
<1> QED
  BY <1>6, <1>8, <1>9, <1>10

LEMMA DetachShape ==
  ASSUME NEW h, NEW ids, NEW c, NEW s, Shape(h, ids, c, s), NEW l \in ids,
         NEW k \in 1 .. Len(c[l])
  PROVE  Shape(ListDetachElement(h, l, c[l][k]), ids, [c EXCEPT ![l] = RemoveAt(@, k)],
               [s EXCEPT ![l] = RemoveAt(@, k)])
<1>1. PICK n, t, w, b, lft, rgt :
        n = h.node /\ t = c[l] /\ w = s[l] /\ b = t[k] /\ lft = Nth(t, k - 1) /\ rgt = Nth(t, k + 1)
  OBVIOUS
<1>2. /\ t \in Seq(Blocks) /\ Len(t) \in Nat /\ w \in Seq(Element) /\ Len(w) = Len(t)
      /\ Distinct(t) /\ Laid(n, t, w) /\ k \in 1 .. Len(t)
      /\ \A p \in 1 .. Len(t) : t[p] \in Blocks /\ t[p] # NULL /\ t[p] \in DOMAIN n
  BY <1>1, ListOf
<1>3. IsNodes(n) /\ h.root[l] = Ends(t) /\ NULL \notin DOMAIN n
  <2>1. IsNodes(n)
    BY <1>1, ShapeNodes
  <2>2. h.root[l] = Ends(t)
    BY <1>1, RootOf
  <2> QED
    BY <2>1, <2>2 DEF IsNodes
<1>4. n[b].left = lft /\ n[b].right = rgt
  BY <1>1, <1>2, RecIs DEF Laid
<1>5. PICK m, o, n2 : m = SetRight(n, lft, rgt) /\ o = SetLeft(m, rgt, lft) /\ n2 = FREE(o, {b})
  OBVIOUS
<1>6. /\ IsNodes(m) /\ DOMAIN m = DOMAIN n
      /\ \A y \in DOMAIN n : m[y] = Rec(IF y = lft THEN rgt ELSE n[y].right, n[y].value, n[y].left)
  BY <1>3, <1>5, SetRightIs
<1>7. /\ IsNodes(o) /\ DOMAIN o = DOMAIN n
      /\ \A y \in DOMAIN n : o[y] = Rec(m[y].right, m[y].value, IF y = rgt THEN lft ELSE m[y].left)
  BY <1>5, <1>6, SetLeftIs
<1>8. IsNodes(n2) /\ DOMAIN n2 = DOMAIN n \ {b} /\ \A y \in DOMAIN n \ {b} : n2[y] = o[y]
  <2>1. Freed(n2, o, {b})
    BY <1>5, <1>7, FreeIs
  <2> QED
    BY <1>7, <2>1 DEF Freed
<1>9. \A y \in DOMAIN n \ {b} :
        n2[y] = Rec(IF y = lft THEN rgt ELSE n[y].right, n[y].value, IF y = rgt THEN lft ELSE n[y].left)
  BY <1>6, <1>7, <1>8, RecIs
<1>10. PICK t2, w2 : t2 = RemoveAt(t, k) /\ w2 = RemoveAt(w, k)
  OBVIOUS
<1>11. /\ t2 \in Seq(Blocks) /\ Len(t2) = Len(t) - 1
       /\ \A p \in 1 .. k - 1 : t2[p] = t[p]
       /\ \A p \in k .. Len(t) - 1 : t2[p] = t[p + 1]
  BY <1>2, <1>10, WithoutIs
<1>12. /\ w2 \in Seq(Element) /\ Len(w2) = Len(t) - 1
       /\ \A p \in 1 .. k - 1 : w2[p] = w[p]
       /\ \A p \in k .. Len(t) - 1 : w2[p] = w[p + 1]
  <2>1. k \in 1 .. Len(w)
    BY <1>2
  <2> QED
    BY <1>2, <1>10, <2>1, WithoutIs
<1>13. Distinct(t2)
  <2>1. ASSUME NEW p \in 1 .. Len(t2)
        PROVE  \E q \in 1 .. Len(t) : q = (IF p < k THEN p ELSE p + 1) /\ t2[p] = t[q]
    BY <1>2, <1>11
  <2>2. SUFFICES ASSUME NEW p1 \in 1 .. Len(t2), NEW p2 \in 1 .. Len(t2), t2[p1] = t2[p2]
                 PROVE  p1 = p2
    BY DEF Distinct
  <2>3. PICK q1 \in 1 .. Len(t) : q1 = (IF p1 < k THEN p1 ELSE p1 + 1) /\ t2[p1] = t[q1]
    BY <2>1
  <2>4. PICK q2 \in 1 .. Len(t) : q2 = (IF p2 < k THEN p2 ELSE p2 + 1) /\ t2[p2] = t[q2]
    BY <2>1
  <2>5. q1 = q2
    BY <1>2, <2>2, <2>3, <2>4 DEF Distinct
  <2>6. p1 \in Nat /\ p2 \in Nat /\ k \in Nat
    BY <1>2, <1>11
  <2> QED
    BY <2>3, <2>4, <2>5, <2>6
<1>14. ASSUME NEW p \in 1 .. Len(t2)
       PROVE  n2[t2[p]] = Rec(Nth(t2, p + 1), w2[p], Nth(t2, p - 1))
  <2>1. PICK q : q = IF p < k THEN p ELSE p + 1
    OBVIOUS
  <2>2. q \in 1 .. Len(t) /\ q # k /\ t2[p] = t[q] /\ w2[p] = w[q]
    BY <1>2, <1>11, <1>12, <2>1
  <2>3. t[q] \in DOMAIN n \ {b} /\ n[t[q]] = Rec(Nth(t, q + 1), w[q], Nth(t, q - 1))
    BY <1>1, <1>2, <2>2 DEF Laid, Distinct
  <2>4. Nth(t2, p + 1) = IF t[q] = lft THEN rgt ELSE Nth(t, q + 1)
    <3>1. t[q] = lft <=> q = k - 1
      BY <1>1, <1>2, <2>2 DEF Nth, Distinct
    <3>2. CASE q = k - 1
      BY <1>1, <1>2, <1>11, <2>1, <3>1, <3>2 DEF Nth
    <3>3. CASE q # k - 1
      BY <1>1, <1>2, <1>11, <2>1, <2>2, <3>1, <3>3 DEF Nth
    <3> QED
      BY <3>2, <3>3
  <2>5. Nth(t2, p - 1) = IF t[q] = rgt THEN lft ELSE Nth(t, q - 1)
    <3>1. t[q] = rgt <=> q = k + 1
      BY <1>1, <1>2, <2>2 DEF Nth, Distinct
    <3>2. CASE q = k + 1
      BY <1>1, <1>2, <1>11, <2>1, <3>1, <3>2 DEF Nth
    <3>3. CASE q # k + 1
      BY <1>1, <1>2, <1>11, <2>1, <2>2, <3>1, <3>3 DEF Nth
    <3> QED
      BY <3>2, <3>3
  <2> QED
    BY <1>9, <2>2, <2>3, <2>4, <2>5, RecIs
<1>15. Laid(n2, t2, w2)
  BY <1>14 DEF Laid
<1>16. \A x : x \in Held(t2) <=> x \in Held(t) /\ x # b
  <2>1. ASSUME NEW x, x \in Held(t2) PROVE x \in Held(t) /\ x # b
    <3>1. PICK p \in 1 .. Len(t2) : x = t2[p]
      BY <2>1 DEF Held
    <3>2. PICK q : q = IF p < k THEN p ELSE p + 1
      OBVIOUS
    <3>3. q \in 1 .. Len(t) /\ q # k /\ x = t[q]
      <4>1. k \in 1 .. Len(t) /\ Len(t) \in Nat /\ p \in 1 .. Len(t) - 1
        BY <1>2, <1>11
      <4>2. CASE p < k
        <5>1. p \in 1 .. k - 1 /\ q = p
          BY <3>2, <4>1, <4>2
        <5> QED
          BY <1>11, <3>1, <4>1, <5>1
      <4>3. CASE ~ (p < k)
        <5>1. p \in k .. Len(t) - 1 /\ q = p + 1
          BY <3>2, <4>1, <4>3
        <5> QED
          BY <1>11, <3>1, <4>1, <5>1
      <4> QED
        BY <4>2, <4>3
    <3>4. x # b
      <4>1. b = t[k] /\ k \in 1 .. Len(t)
        BY <1>1, <1>2
      <4>2. t[q] = t[k] => q = k
        BY <1>2, <3>3 DEF Distinct
      <4> QED
        BY <3>3, <4>1, <4>2
    <3> QED
      BY <3>3, <3>4 DEF Held
  <2>2. ASSUME NEW x, x \in Held(t), x # b PROVE x \in Held(t2)
    <3>1. PICK q \in 1 .. Len(t) : x = t[q]
      BY <2>2 DEF Held
    <3>2. PICK p : p = IF q < k THEN q ELSE q - 1
      OBVIOUS
    <3>3. q # k
      BY <1>1, <2>2, <3>1
    <3>4. p \in 1 .. Len(t2) /\ t2[p] = t[q]
      BY <1>2, <1>11, <3>2, <3>3
    <3> QED
      BY <3>1, <3>4 DEF Held
  <2> QED
    BY <2>1, <2>2
<1>17. \A x \in Held(t) : x \in DOMAIN n
  BY <1>2 DEF Held
<1>18. \A y \in DOMAIN n : y \notin Held(t) => n2[y] = n[y]
  <2>1. ASSUME NEW y \in DOMAIN n, y \notin Held(t) PROVE n2[y] = n[y]
    <3>1. y # lft /\ y # rgt /\ y # b
      BY <1>1, <1>2, <1>3, <2>1 DEF Held, Nth
    <3>2. n[y] = Rec(n[y].right, n[y].value, n[y].left)
      BY <1>3 DEF IsNodes
    <3> QED
      BY <1>9, <3>1, <3>2
  <2> QED
    BY <2>1
<1>19. Rewrites(h, t, t2, w2, n2)
  <2>1. n2 = [y \in DOMAIN n2 |-> n2[y]]
    BY <1>8 DEF IsNodes
  <2>2. \A x \in Held(t2) : x \in DOMAIN n => x \in Held(t)
    BY <1>16
  <2>3. \A x : x \in DOMAIN n2 <=> x \in Held(t2) \/ (x \in DOMAIN n /\ x \notin Held(t))
    <3>1. b \in Held(t)
      BY <1>1, <1>2 DEF Held
    <3> QED
      BY <1>8, <1>16, <1>17, <3>1
  <2>4. Len(w2) = Len(t2)
    BY <1>11, <1>12
  <2> QED
    BY <1>1, <1>11, <1>12, <1>13, <1>15, <1>18, <2>1, <2>2, <2>3, <2>4 DEF Rewrites
<1>20. Shape([node |-> n2, root |-> [h.root EXCEPT ![l] = Ends(t2)]],
             ids, [c EXCEPT ![l] = t2], [s EXCEPT ![l] = w2])
  BY <1>1, <1>19, OneList
<1>21. ListDetachElement(h, l, b) = [node |-> n2, root |-> [h.root EXCEPT ![l] = Ends(t2)]]
  <2>1. h.root[l].begin = Nth(t, 1) /\ h.root[l].end = Nth(t, Len(t))
    BY <1>3 DEF Ends
  <2>2. Nth(t2, 1) = IF lft = NULL THEN rgt ELSE Nth(t, 1)
    <3>1. lft = NULL <=> k = 1
      BY <1>1, <1>2 DEF Nth
    <3> QED
      BY <1>1, <1>2, <1>11, <3>1 DEF Nth
  <2>3. Nth(t2, Len(t2)) = IF rgt = NULL THEN lft ELSE Nth(t, Len(t))
    <3>1. rgt = NULL <=> k = Len(t)
      BY <1>1, <1>2 DEF Nth
    <3> QED
      BY <1>1, <1>2, <1>11, <3>1 DEF Nth
  <2>4. WithRoot(h, l, IF lft = NULL THEN rgt ELSE Nth(t, 1), IF rgt = NULL THEN lft ELSE Nth(t, Len(t)))
          = [h.root EXCEPT ![l] = Ends(t2)]
    BY <2>2, <2>3 DEF WithRoot, Ends
  <2> QED
    BY <1>1, <1>4, <1>5, <2>1, <2>4 DEF ListDetachElement
<1>22. [c EXCEPT ![l] = RemoveAt(@, k)] = [c EXCEPT ![l] = t2]
       /\ [s EXCEPT ![l] = RemoveAt(@, k)] = [s EXCEPT ![l] = w2]
  BY <1>1, <1>10
<1> QED
  BY <1>1, <1>20, <1>21, <1>22

(* The pops detach the first and the last node.                             *)
LEMMA PopFrontShape ==
  ASSUME NEW h, NEW ids, NEW c, NEW s, Shape(h, ids, c, s), NEW l \in ids, 1 \in 1 .. Len(c[l])
  PROVE  /\ Shape(ListPopFront(h, l), ids, [c EXCEPT ![l] = RemoveAt(@, 1)],
                  [s EXCEPT ![l] = RemoveAt(@, 1)])
         /\ ListFirst(h, l) = s[l][1]
<1>1. PICK n, t, b, rgt : n = h.node /\ t = c[l] /\ b = t[1] /\ rgt = Nth(t, 2)
  OBVIOUS
<1>2. Laid(n, t, s[l]) /\ Len(t) \in Nat
  BY <1>1, ListOf
<1>3. n[b] = Rec(rgt, s[l][1], NULL)
  BY <1>1, <1>2 DEF Laid, Nth
<1>4. h.root[l] = Ends(t)
  BY <1>1, RootOf
<1>5. h.root[l].begin = b
  BY <1>1, <1>4 DEF Ends, Nth
<1>6. n[b].right = rgt /\ n[b].left = NULL /\ n[b].value = s[l][1]
  BY <1>3, RecIs
<1>7. ListPopFront(h, l) = ListDetachElement(h, l, b)
  BY <1>1, <1>5, <1>6 DEF ListPopFront, ListDetachElement, SetRight
<1>8. ListFirst(h, l) = s[l][1]
  BY <1>1, <1>5, <1>6 DEF ListFirst
<1>9. PICK k : k = 1
  OBVIOUS
<1>10. Shape(ListDetachElement(h, l, c[l][k]), ids, [c EXCEPT ![l] = RemoveAt(@, k)],
             [s EXCEPT ![l] = RemoveAt(@, k)])
  BY <1>9, DetachShape
<1> QED
  BY <1>1, <1>7, <1>8, <1>9, <1>10

LEMMA PopBackShape ==
  ASSUME NEW h, NEW ids, NEW c, NEW s, Shape(h, ids, c, s), NEW l \in ids, 1 \in 1 .. Len(c[l])
  PROVE  /\ Shape(ListPopBack(h, l), ids, [c EXCEPT ![l] = RemoveAt(@, Len(@))],
                  [s EXCEPT ![l] = RemoveAt(@, Len(@))])
         /\ ListLast(h, l) = s[l][Len(s[l])]
<1>1. PICK n, t, k, b, lft : n = h.node /\ t = c[l] /\ k = Len(t) /\ b = t[k] /\ lft = Nth(t, k - 1)
  OBVIOUS
<1>2. Laid(n, t, s[l]) /\ Len(t) \in Nat /\ k \in 1 .. Len(t) /\ Len(s[l]) = k
  BY <1>1, ListOf
<1>3. n[b] = Rec(NULL, s[l][k], lft)
  <2>1. Nth(t, k + 1) = NULL
    BY <1>1, <1>2 DEF Nth
  <2> QED
    BY <1>1, <1>2, <2>1 DEF Laid
<1>4. h.root[l] = Ends(t)
  BY <1>1, RootOf
<1>5. h.root[l].end = b
  <2>1. Nth(t, Len(t)) = b
    BY <1>1, <1>2 DEF Nth
  <2> QED
    BY <1>4, <2>1 DEF Ends
<1>6. n[b].right = NULL /\ n[b].left = lft /\ n[b].value = s[l][k]
  BY <1>3, RecIs
<1>7. ListPopBack(h, l) = ListDetachElement(h, l, b)
  <2>1. h.node[b].right = NULL /\ h.node[b].left = lft
    BY <1>1, <1>6
  <2> QED
    BY <1>5, <2>1 DEF ListPopBack, ListDetachElement, SetLeft
<1>8. ListLast(h, l) = s[l][Len(s[l])]
  BY <1>1, <1>2, <1>5, <1>6 DEF ListLast
<1>9. [c EXCEPT ![l] = RemoveAt(@, Len(@))] = [c EXCEPT ![l] = RemoveAt(@, k)]
      /\ [s EXCEPT ![l] = RemoveAt(@, Len(@))] = [s EXCEPT ![l] = RemoveAt(@, k)]
  BY <1>1, <1>2
<1>10. Shape(ListDetachElement(h, l, c[l][k]), ids, [c EXCEPT ![l] = RemoveAt(@, k)],
             [s EXCEPT ![l] = RemoveAt(@, k)])
  BY <1>1, <1>2, DetachShape
<1> QED
  BY <1>1, <1>7, <1>8, <1>9, <1>10

-----------------------------------------------------------------------------
(* What a walk along a list finds.                                          *)

LEMMA ReverseIs ==
  ASSUME NEW S, NEW t \in Seq(S)
  PROVE  /\ Reverse(t) \in Seq(S) /\ Len(Reverse(t)) = Len(t)
         /\ \A p \in 1 .. Len(t) : Reverse(t)[p] = t[Len(t) + 1 - p]
<1>1. PICK n : n = Len(t)
  OBVIOUS
<1>2. n \in Nat /\ \A p \in 1 .. n : t[p] \in S
  BY <1>1, LenProperties, ElementOfSeq
<1>3. PICK u : u = Reverse(t)
  OBVIOUS
<1>4. u = [i \in 1 .. n |-> t[(n - i) + 1]]
  BY <1>1, <1>3 DEF Reverse
<1>5. \A p \in 1 .. n : (n - p) + 1 \in 1 .. n /\ (n - p) + 1 = n + 1 - p
  BY <1>2
<1>6. u \in [1 .. n -> S] /\ \A p \in 1 .. n : u[p] = t[n + 1 - p]
  BY <1>2, <1>4, <1>5
<1>7. u \in Seq(S) /\ Len(u) = n
  BY <1>2, <1>6
<1> QED
  BY <1>1, <1>3, <1>6, <1>7

LEMMA WalkRight ==
  ASSUME NEW h, NEW ids, NEW c, NEW s, Shape(h, ids, c, s), NEW l \in ids
  PROVE  LOOP_LIST(h, l) = c[l]
<1>1. PICK n, t : n = h.node /\ t = c[l]
  OBVIOUS
<1>2. /\ t \in Seq(Blocks) /\ Distinct(t) /\ Laid(n, t, s[l]) /\ Len(t) \in Nat
      /\ \A p \in 1 .. Len(t) : t[p] \in DOMAIN n
  BY <1>1, ListOf
<1>3. DOMAIN n \subseteq Blocks
  BY <1>1, ShapeNodes
<1>4. NULL \notin DOMAIN n /\ IsFiniteSet(DOMAIN n)
  BY <1>3, FS_Subset, LinkedListAssumption
<1>5. \A p \in 1 .. Len(t) : n[t[p]]["right"] = Nth(t, p + 1)
  BY <1>2, RecIs DEF Laid
<1>6. h.root[l].begin = Nth(t, 1)
  <2>1. h.root[l] = Ends(t)
    BY <1>1, RootOf
  <2> QED
    BY <2>1 DEF Ends
<1>7. Linked(t, n, Nth(t, 1), "right")
  BY <1>2, <1>5 DEF Linked
<1>8. Chain(n, Nth(t, 1), "right") = t
  BY <1>2, <1>4, <1>7, ChainIs
<1> QED
  BY <1>1, <1>6, <1>8 DEF LOOP_LIST

LEMMA WalkLeft ==
  ASSUME NEW h, NEW ids, NEW c, NEW s, Shape(h, ids, c, s), NEW l \in ids
  PROVE  Chain(h.node, h.root[l].end, "left") = Reverse(c[l])
<1>1. PICK n, t, u : n = h.node /\ t = c[l] /\ u = Reverse(t)
  OBVIOUS
<1>2. /\ t \in Seq(Blocks) /\ Distinct(t) /\ Laid(n, t, s[l]) /\ Len(t) \in Nat
      /\ \A p \in 1 .. Len(t) : t[p] \in DOMAIN n
  BY <1>1, ListOf
<1>3. DOMAIN n \subseteq Blocks
  BY <1>1, ShapeNodes
<1>4. NULL \notin DOMAIN n /\ IsFiniteSet(DOMAIN n)
  BY <1>3, FS_Subset, LinkedListAssumption
<1>5. /\ u \in Seq(Blocks) /\ Len(u) = Len(t)
      /\ \A p \in 1 .. Len(t) : u[p] = t[Len(t) + 1 - p]
  BY <1>1, <1>2, ReverseIs
<1>6. Distinct(u)
  <2>1. \A p, q \in 1 .. Len(t) : t[Len(t) + 1 - p] = t[Len(t) + 1 - q] => p = q
    BY <1>2 DEF Distinct
  <2> QED
    BY <1>5, <2>1 DEF Distinct
<1>7. ASSUME NEW p \in 1 .. Len(u) PROVE u[p] \in DOMAIN n /\ n[u[p]]["left"] = Nth(u, p + 1)
  <2>1. PICK q : q = Len(t) + 1 - p
    OBVIOUS
  <2>2. q \in 1 .. Len(t) /\ u[p] = t[q]
    BY <1>2, <1>5, <2>1
  <2>3. n[t[q]] = Rec(Nth(t, q + 1), s[l][q], Nth(t, q - 1))
    BY <1>2, <2>2 DEF Laid
  <2>4. Nth(u, p + 1) = Nth(t, q - 1)
    <3>1. CASE p = Len(t)
      BY <1>2, <1>5, <2>1, <3>1 DEF Nth
    <3>2. CASE p # Len(t)
      <4>1. p + 1 \in 1 .. Len(t) /\ q - 1 \in 1 .. Len(t) /\ Len(t) + 1 - (p + 1) = q - 1
        BY <1>2, <1>5, <2>1, <3>2
      <4>2. u[p + 1] = t[q - 1]
        BY <1>5, <4>1
      <4> QED
        BY <1>5, <4>1, <4>2 DEF Nth
    <3> QED
      BY <3>1, <3>2
  <2> QED
    BY <1>2, <2>2, <2>3, <2>4, RecIs
<1>8. h.root[l].end = Nth(u, 1)
  <2>1. h.root[l] = Ends(t)
    BY <1>1, RootOf
  <2>2. Nth(u, 1) = Nth(t, Len(t))
    BY <1>2, <1>5 DEF Nth
  <2> QED
    BY <2>1, <2>2 DEF Ends
<1>9. Linked(u, n, Nth(u, 1), "left")
  BY <1>5, <1>7 DEF Linked
<1>10. Chain(n, Nth(u, 1), "left") = u
  BY <1>4, <1>6, <1>9, ChainIs
<1> QED
  BY <1>1, <1>8, <1>10

LEMMA ValuesAre ==
  ASSUME NEW h, NEW ids, NEW c, NEW s, Shape(h, ids, c, s), NEW l \in ids
  PROVE  Values(h, l) = s[l]
<1>1. PICK n, t, w : n = h.node /\ t = c[l] /\ w = s[l]
  OBVIOUS
<1>2. w \in Seq(Element) /\ Len(w) = Len(t) /\ Laid(n, t, w) /\ Len(t) \in Nat
  BY <1>1, ListOf
<1>3. Values(h, l) = [k \in 1 .. Len(t) |-> n[t[k]].value]
  BY <1>1, WalkRight DEF Values
<1>4. \A k \in 1 .. Len(t) : n[t[k]].value = w[k]
  BY <1>2, RecIs DEF Laid
<1>5. w = [k \in 1 .. Len(t) |-> w[k]]
  BY <1>2, LenProperties
<1> QED
  BY <1>1, <1>3, <1>4, <1>5

-----------------------------------------------------------------------------
(* Clearing and destroying.                                                 *)

LEMMA EmptiedShape ==
  ASSUME NEW h, NEW ids, NEW c, NEW s, Shape(h, ids, c, s), NEW l \in ids
  PROVE  Shape([node |-> FREE(h.node, Held(c[l])), root |-> WithRoot(h, l, NULL, NULL)],
               ids, [c EXCEPT ![l] = <<>>], [s EXCEPT ![l] = <<>>])
<1>1. PICK n, n2, e : n = h.node /\ n2 = FREE(n, Held(c[l])) /\ e = <<>>
  OBVIOUS
<1>2. IsNodes(n)
  BY <1>1, ShapeNodes
<1>3. Freed(n2, n, Held(c[l]))
  BY <1>1, <1>2, FreeIs
<1>4. e \in Seq(Blocks) /\ e \in Seq(Element) /\ Len(e) = 0
  BY <1>1
<1>5. 1 .. Len(e) = {}
  BY <1>4
<1>6. Distinct(e) /\ Laid(n2, e, e) /\ Held(e) = {}
  BY <1>5 DEF Distinct, Laid, Held
<1>7. Rewrites(h, c[l], e, e, n2)
  <2>1. n2 = [y \in DOMAIN n2 |-> n2[y]]
    BY <1>3 DEF Freed, IsNodes
  <2>2. \A b : b \in DOMAIN n2 <=> b \in DOMAIN n /\ b \notin Held(c[l])
    BY <1>3 DEF Freed
  <2>3. \A b \in DOMAIN n : b \notin Held(c[l]) => n2[b] = n[b]
    BY <1>3 DEF Freed
  <2> QED
    BY <1>1, <1>4, <1>6, <2>1, <2>2, <2>3 DEF Rewrites
<1>8. Shape([node |-> n2, root |-> [h.root EXCEPT ![l] = Ends(e)]],
            ids, [c EXCEPT ![l] = e], [s EXCEPT ![l] = e])
  BY <1>7, OneList
<1>9. WithRoot(h, l, NULL, NULL) = [h.root EXCEPT ![l] = Ends(e)]
  BY <1>4 DEF WithRoot, Ends, Nth
<1> QED
  BY <1>1, <1>8, <1>9

LEMMA ClearShape ==
  ASSUME NEW h, NEW ids, NEW c, NEW s, Shape(h, ids, c, s), NEW l \in ids
  PROVE  Shape(ListClear(h, l), ids, [c EXCEPT ![l] = <<>>], [s EXCEPT ![l] = <<>>])
<1>1. PICK t : t = c[l] /\ t \in Seq(Blocks) /\ Len(t) \in Nat
  BY ListOf
<1>2. Range(Reverse(t)) = Held(t)
  <2>1. PICK u : u = Reverse(t)
    OBVIOUS
  <2>2. /\ u \in Seq(Blocks) /\ Len(u) = Len(t)
        /\ \A p \in 1 .. Len(t) : u[p] = t[Len(t) + 1 - p]
    BY <1>1, <2>1, ReverseIs
  <2>3. Range(u) = {u[p] : p \in 1 .. Len(t)}
    BY <2>2, RangeEquality
  <2>4. ASSUME NEW x, x \in Held(t) PROVE x \in Range(u)
    <3>1. PICK p \in 1 .. Len(t) : x = t[p]
      BY <2>4 DEF Held
    <3>2. PICK q : q = Len(t) + 1 - p
      OBVIOUS
    <3>3. q \in 1 .. Len(t) /\ Len(t) + 1 - q = p
      BY <1>1, <3>2
    <3>4. u[q] = t[p]
      BY <2>2, <3>3
    <3> QED
      BY <2>3, <3>1, <3>3, <3>4
  <2>5. ASSUME NEW x, x \in Range(u) PROVE x \in Held(t)
    <3>1. PICK p \in 1 .. Len(t) : x = u[p]
      BY <2>3, <2>5
    <3>2. Len(t) + 1 - p \in 1 .. Len(t)
      BY <1>1
    <3> QED
      BY <2>2, <3>1, <3>2 DEF Held
  <2> QED
    BY <2>1, <2>4, <2>5
<1>3. Chain(h.node, h.root[l].end, "left") = Reverse(t)
  BY <1>1, WalkLeft
<1> QED
  BY <1>1, <1>2, <1>3, EmptiedShape DEF ListClear

LEMMA DestroyShape ==
  ASSUME NEW h, NEW ids, NEW c, NEW s, Shape(h, ids, c, s), NEW l \in ids
  PROVE  Shape(ListDestroy(h, l), ids, [c EXCEPT ![l] = <<>>], [s EXCEPT ![l] = <<>>])
<1>1. PICK t : t = c[l] /\ t \in Seq(Blocks)
  BY ListOf
<1>2. Range(t) = Held(t)
  BY <1>1, RangeEquality DEF Held
<1>3. LOOP_LIST(h, l) = t
  BY <1>1, WalkRight
<1> QED
  BY <1>1, <1>2, <1>3, EmptiedShape DEF ListDestroy

-----------------------------------------------------------------------------
(* One list into another.                                                   *)

Joined(t, k, u) == SubSeq(t, 1, k - 1) \o u \o SubSeq(t, k, Len(t))

Spliced(y, t, k, u) ==
  /\ Len(y) = Len(t) + Len(u)
  /\ \A p \in 1 .. k - 1 : y[p] = t[p]
  /\ \A p \in k .. k + Len(u) - 1 : y[p] = u[p - k + 1]
  /\ \A p \in k + Len(u) .. Len(t) + Len(u) : y[p] = t[p - Len(u)]

LEMMA PartIs ==
  ASSUME NEW S, NEW t \in Seq(S), NEW i \in 1 .. Len(t) + 1, NEW j \in i - 1 .. Len(t)
  PROVE  /\ SubSeq(t, i, j) \in Seq(S) /\ Len(SubSeq(t, i, j)) = j - i + 1
         /\ \A p \in 1 .. j - i + 1 : SubSeq(t, i, j)[p] = t[p + i - 1]
<1>1. Len(t) \in Nat /\ \A p \in 1 .. Len(t) : t[p] \in S
  BY LenProperties, ElementOfSeq
<1>2. PICK u : u = SubSeq(t, i, j)
  OBVIOUS
<1>3. /\ u \in Seq(S) /\ Len(u) = (IF i <= j THEN j - i + 1 ELSE 0)
      /\ \A p \in 1 .. j - i + 1 : u[p] = t[i + p - 1]
  BY <1>1, <1>2, SubSeqProperties
<1>4. Len(u) = j - i + 1
  BY <1>1, <1>3
<1>5. \A p \in 1 .. j - i + 1 : i + p - 1 = p + i - 1
  BY <1>1
<1> QED
  BY <1>2, <1>3, <1>4, <1>5

LEMMA JoinedIs ==
  ASSUME NEW S, NEW t \in Seq(S), NEW k \in 1 .. Len(t), NEW u \in Seq(S)
  PROVE  Joined(t, k, u) \in Seq(S) /\ Spliced(Joined(t, k, u), t, k, u)
<1>1. PICK n, m, a, b, x, y : /\ n = Len(t) /\ m = Len(u) /\ a = SubSeq(t, 1, k - 1)
                              /\ b = SubSeq(t, k, n) /\ x = a \o u /\ y = Joined(t, k, u)
  OBVIOUS
<1>2. n \in Nat /\ m \in Nat /\ k \in 1 .. n
  BY <1>1, LenProperties
<1>3. a \in Seq(S) /\ Len(a) = k - 1 /\ \A p \in 1 .. k - 1 : a[p] = t[p]
  <2>1. PICK i, j : i = 1 /\ j = k - 1
    OBVIOUS
  <2>2. i \in 1 .. Len(t) + 1 /\ j \in i - 1 .. Len(t) /\ j - i + 1 = k - 1
    BY <1>1, <1>2, <2>1
  <2>3. /\ a \in Seq(S) /\ Len(a) = j - i + 1
        /\ \A p \in 1 .. j - i + 1 : a[p] = t[p + i - 1]
    BY <1>1, <2>1, <2>2, PartIs
  <2>4. \A p \in 1 .. k - 1 : p + i - 1 = p
    BY <1>2, <2>1
  <2> QED
    BY <2>2, <2>3, <2>4
<1>4. b \in Seq(S) /\ Len(b) = n - k + 1 /\ \A p \in 1 .. n - k + 1 : b[p] = t[p + k - 1]
  <2>1. k \in 1 .. Len(t) + 1 /\ n \in k - 1 .. Len(t)
    BY <1>1, <1>2
  <2> QED
    BY <1>1, <2>1, PartIs
<1>5. /\ x \in Seq(S) /\ Len(x) = k - 1 + m
      /\ \A p \in 1 .. k - 1 + m : x[p] = IF p <= k - 1 THEN a[p] ELSE u[p - (k - 1)]
  BY <1>1, <1>3, ConcatProperties
<1>6. y = x \o b
  BY <1>1 DEF Joined
<1>7. /\ y \in Seq(S) /\ Len(y) = (k - 1 + m) + (n - k + 1)
      /\ \A p \in 1 .. (k - 1 + m) + (n - k + 1) :
           y[p] = IF p <= k - 1 + m THEN x[p] ELSE b[p - (k - 1 + m)]
  <2>1. /\ y \in Seq(S) /\ Len(y) = Len(x) + Len(b)
        /\ \A p \in 1 .. Len(x) + Len(b) : y[p] = IF p <= Len(x) THEN x[p] ELSE b[p - Len(x)]
    BY <1>4, <1>5, <1>6, ConcatProperties
  <2>2. Len(x) = k - 1 + m /\ Len(b) = n - k + 1
    BY <1>4, <1>5
  <2> QED
    BY <2>1, <2>2
<1>8. Len(y) = n + m
  BY <1>2, <1>7
<1>9. ASSUME NEW p \in 1 .. k - 1 PROVE y[p] = t[p]
  <2>1. p \in 1 .. (k - 1 + m) + (n - k + 1) /\ p \in 1 .. k - 1 + m /\ p <= k - 1 + m /\ p <= k - 1
    BY <1>2
  <2> QED
    BY <1>3, <1>5, <1>7, <2>1
<1>10. ASSUME NEW p \in k .. k + m - 1 PROVE y[p] = u[p - k + 1]
  <2>1. /\ p \in 1 .. (k - 1 + m) + (n - k + 1) /\ p \in 1 .. k - 1 + m /\ p <= k - 1 + m
        /\ ~ (p <= k - 1) /\ p - (k - 1) = p - k + 1
    BY <1>2
  <2> QED
    BY <1>5, <1>7, <2>1
<1>11. ASSUME NEW p \in k + m .. n + m PROVE y[p] = t[p - m]
  <2>1. /\ p \in 1 .. (k - 1 + m) + (n - k + 1) /\ ~ (p <= k - 1 + m)
        /\ p - (k - 1 + m) \in 1 .. n - k + 1 /\ p - (k - 1 + m) + k - 1 = p - m
    BY <1>2
  <2> QED
    BY <1>4, <1>7, <2>1
<1>12. Spliced(y, t, k, u)
  BY <1>1, <1>8, <1>9, <1>10, <1>11 DEF Spliced
<1> QED
  BY <1>1, <1>7, <1>12

(* The blocks of a joined sequence, and its neighbours.                     *)
LEMMA JoinedBlocks ==
  ASSUME NEW t \in Seq(Blocks), NEW k \in 1 .. Len(t), NEW u \in Seq(Blocks)
  PROVE  /\ \A p \in Int : /\ p < k => Nth(Joined(t, k, u), p) = Nth(t, p)
                           /\ p \in k .. k + Len(u) - 1 => Nth(Joined(t, k, u), p) = Nth(u, p - k + 1)
                           /\ p >= k + Len(u) => Nth(Joined(t, k, u), p) = Nth(t, p - Len(u))
         /\ \A x : x \in Held(Joined(t, k, u)) <=> x \in Held(t) \/ x \in Held(u)
<1>1. PICK n, m, y : n = Len(t) /\ m = Len(u) /\ y = Joined(t, k, u)
  OBVIOUS
<1>2. n \in Nat /\ m \in Nat /\ k \in 1 .. n
  BY <1>1, LenProperties
<1>3. /\ Len(y) = n + m
      /\ \A p \in 1 .. k - 1 : y[p] = t[p]
      /\ \A p \in k .. k + m - 1 : y[p] = u[p - k + 1]
      /\ \A p \in k + m .. n + m : y[p] = t[p - m]
  <2>1. Spliced(y, t, k, u)
    BY <1>1, JoinedIs
  <2> QED
    BY <1>1, <2>1 DEF Spliced
<1>4. ASSUME NEW p \in Int, p < k PROVE Nth(y, p) = Nth(t, p)
  BY <1>1, <1>2, <1>3, <1>4 DEF Nth
<1>5. ASSUME NEW p \in k .. k + m - 1 PROVE Nth(y, p) = Nth(u, p - k + 1)
  <2>1. p \in 1 .. n + m /\ p - k + 1 \in 1 .. m
    BY <1>2
  <2> QED
    BY <1>1, <1>3, <2>1 DEF Nth
<1>6. ASSUME NEW p \in Int, p >= k + m PROVE Nth(y, p) = Nth(t, p - m)
  <2>1. p \in 1 .. n + m <=> p - m \in 1 .. n
    BY <1>2, <1>6
  <2>2. p \in 1 .. n + m => p \in k + m .. n + m
    BY <1>2, <1>6
  <2> QED
    BY <1>1, <1>3, <2>1, <2>2 DEF Nth
<1>7. ASSUME NEW x, x \in Held(y) PROVE x \in Held(t) \/ x \in Held(u)
  <2>1. PICK p \in 1 .. n + m : x = y[p]
    BY <1>3, <1>7 DEF Held
  <2>2. CASE p < k
    <3>1. p \in 1 .. k - 1 /\ p \in 1 .. n
      BY <1>2, <2>2
    <3>2. x = t[p]
      BY <1>3, <2>1, <3>1
    <3> QED
      BY <1>1, <3>1, <3>2 DEF Held
  <2>3. CASE p \in k .. k + m - 1
    <3>1. p - k + 1 \in 1 .. m
      BY <1>2, <2>3
    <3> QED
      BY <1>1, <1>3, <2>1, <2>3, <3>1 DEF Held
  <2>4. CASE p >= k + m
    <3>1. p - m \in 1 .. n /\ p \in k + m .. n + m
      BY <1>2, <2>4
    <3> QED
      BY <1>1, <1>3, <2>1, <3>1 DEF Held
  <2> QED
    BY <1>2, <2>2, <2>3, <2>4
<1>8. ASSUME NEW x, x \in Held(t) PROVE x \in Held(y)
  <2>1. PICK q \in 1 .. n : x = t[q]
    BY <1>1, <1>8 DEF Held
  <2>2. CASE q < k
    <3>1. q \in 1 .. k - 1 /\ q \in 1 .. n + m
      BY <1>2, <2>2
    <3> QED
      BY <1>3, <2>1, <3>1 DEF Held
  <2>3. CASE q >= k
    <3>1. PICK p : p = q + m
      OBVIOUS
    <3>2. p \in k + m .. n + m /\ p \in 1 .. n + m /\ p - m = q
      BY <1>2, <2>3, <3>1
    <3>3. y[p] = t[q]
      BY <1>3, <3>2
    <3> QED
      BY <1>3, <2>1, <3>2, <3>3 DEF Held
  <2> QED
    BY <1>2, <2>2, <2>3
<1>9. ASSUME NEW x, x \in Held(u) PROVE x \in Held(y)
  <2>1. PICK q \in 1 .. m : x = u[q]
    BY <1>1, <1>9 DEF Held
  <2>2. q + k - 1 \in k .. k + m - 1 /\ q + k - 1 \in 1 .. n + m /\ q + k - 1 - k + 1 = q
    BY <1>2
  <2> QED
    BY <1>3, <2>1, <2>2 DEF Held
<1> QED
  BY <1>1, <1>4, <1>5, <1>6, <1>7, <1>8, <1>9

LEMMA JoinedEmpty ==
  ASSUME NEW S, NEW t \in Seq(S), NEW k \in 1 .. Len(t), NEW u \in Seq(S), Len(u) = 0
  PROVE  Joined(t, k, u) = t /\ u = <<>>
<1>1. PICK n, y : n = Len(t) /\ y = Joined(t, k, u)
  OBVIOUS
<1>2. n \in Nat /\ k \in 1 .. n
  BY <1>1, LenProperties
<1>3. y \in Seq(S) /\ Spliced(y, t, k, u)
  BY <1>1, JoinedIs
<1>4. Len(y) = n /\ \A p \in 1 .. n : y[p] = t[p]
  <2>1. Len(y) = n
    BY <1>1, <1>2, <1>3 DEF Spliced
  <2>2. ASSUME NEW p \in 1 .. n PROVE y[p] = t[p]
    <3>1. CASE p < k
      <4>1. p \in 1 .. k - 1
        BY <1>2, <3>1
      <4> QED
        BY <1>3, <4>1 DEF Spliced
    <3>2. CASE p >= k
      <4>1. p \in k + Len(u) .. Len(t) + Len(u) /\ p - Len(u) = p
        BY <1>1, <1>2, <3>2
      <4> QED
        BY <1>3, <4>1 DEF Spliced
    <3> QED
      BY <1>2, <3>1, <3>2
  <2> QED
    BY <2>1, <2>2
<1>5. y = t
  BY <1>1, <1>3, <1>4, SeqEqual
<1>6. u = <<>>
  BY EmptySeq
<1> QED
  BY <1>1, <1>5, <1>6

LEMMA InsertListShape ==
  ASSUME NEW h, NEW ids, NEW c, NEW s, Shape(h, ids, c, s), NEW l \in ids, NEW m \in ids, l # m,
         NEW k \in 1 .. Len(c[l])
  PROVE  Shape(ListInsertListAt(h, l, c[l][k], m), ids,
               [c EXCEPT ![l] = Joined(@, k, c[m]), ![m] = <<>>],
               [s EXCEPT ![l] = Joined(@, k, s[m]), ![m] = <<>>])
<1>1. PICK n, t, v, u, w, b, lft, sb, se :
        /\ n = h.node /\ t = c[l] /\ v = s[l] /\ u = c[m] /\ w = s[m] /\ b = t[k]
        /\ lft = Nth(t, k - 1) /\ sb = Nth(u, 1) /\ se = Nth(u, Len(u))
  OBVIOUS
<1>2. /\ t \in Seq(Blocks) /\ Len(t) \in Nat /\ v \in Seq(Element) /\ Len(v) = Len(t)
      /\ Distinct(t) /\ Laid(n, t, v) /\ k \in 1 .. Len(t)
      /\ \A p \in 1 .. Len(t) : t[p] \in Blocks /\ t[p] # NULL /\ t[p] \in DOMAIN n
  BY <1>1, ListOf
<1>3. /\ u \in Seq(Blocks) /\ Len(u) \in Nat /\ w \in Seq(Element) /\ Len(w) = Len(u)
      /\ Distinct(u) /\ Laid(n, u, w)
      /\ \A p \in 1 .. Len(u) : u[p] \in Blocks /\ u[p] # NULL /\ u[p] \in DOMAIN n
  BY <1>1, ListOf
<1>4. IsNodes(n)
  BY <1>1, ShapeNodes
<1>5. h.root[l] = Ends(t) /\ h.root[m] = Ends(u)
  BY <1>1, RootOf
<1>6. h.root[l].begin = Nth(t, 1) /\ h.root[l].end = Nth(t, Len(t)) /\ h.root[m].begin = sb /\ h.root[m].end = se
  BY <1>1, <1>5 DEF Ends
<1>7. n[b].left = lft
  BY <1>1, <1>2, RecIs DEF Laid
<1>8. CASE Len(u) = 0
  <2>1. Joined(t, k, u) = t /\ u = <<>>
    BY <1>2, <1>3, <1>8, JoinedEmpty
  <2>2. Joined(v, k, w) = v /\ w = <<>>
    <3>1. k \in 1 .. Len(v) /\ Len(w) = 0
      BY <1>2, <1>3, <1>8
    <3>2. Joined(v, k, w) = v
      BY <1>2, <1>3, <3>1, JoinedEmpty
    <3>3. w = <<>>
      BY <1>3, <3>1, EmptySeq
    <3> QED
      BY <3>2, <3>3
  <2>3. ListInsertListAt(h, l, b, m) = h
    <3>1. h.root[m].begin = NULL
      BY <1>1, <1>6, <1>8 DEF Nth
    <3> QED
      BY <3>1 DEF ListInsertListAt
  <2>4. [c EXCEPT ![l] = t, ![m] = u] = c /\ [s EXCEPT ![l] = v, ![m] = w] = s
    BY <1>1 DEF Shape
  <2>5. /\ [c EXCEPT ![l] = Joined(@, k, c[m]), ![m] = <<>>] = [c EXCEPT ![l] = t, ![m] = u]
        /\ [s EXCEPT ![l] = Joined(@, k, s[m]), ![m] = <<>>] = [s EXCEPT ![l] = v, ![m] = w]
    BY <1>1, <2>1, <2>2
  <2> QED
    BY <1>1, <2>3, <2>4, <2>5
<1>9. CASE Len(u) # 0
  <2>1. sb = u[1] /\ se = u[Len(u)] /\ sb # NULL /\ se # NULL /\ 1 \in 1 .. Len(u) /\ Len(u) \in 1 .. Len(u)
    BY <1>1, <1>3, <1>9 DEF Nth
  <2>2. \A p \in 1 .. Len(t), q \in 1 .. Len(u) : t[p] # u[q]
    <3>1. Apart(ids, c)
      BY DEF Shape
    <3>2. \A x \in Held(t) : x \notin Held(u)
      BY <1>1, <3>1 DEF Apart
    <3> QED
      BY <3>2 DEF Held
  <2>3. PICK n1, n3, n4, n2 : /\ n1 = SetRight(n, lft, sb) /\ n3 = SetLeft(n1, sb, lft)
                              /\ n4 = SetRight(n3, se, b) /\ n2 = SetLeft(n4, b, se)
    OBVIOUS
  <2>4. /\ IsNodes(n1) /\ DOMAIN n1 = DOMAIN n
        /\ \A y \in DOMAIN n : n1[y] = Rec(IF y = lft THEN sb ELSE n[y].right, n[y].value, n[y].left)
    BY <1>4, <2>3, SetRightIs
  <2>5. /\ IsNodes(n3) /\ DOMAIN n3 = DOMAIN n
        /\ \A y \in DOMAIN n : n3[y] = Rec(n1[y].right, n1[y].value, IF y = sb THEN lft ELSE n1[y].left)
    BY <2>3, <2>4, SetLeftIs
  <2>6. /\ IsNodes(n4) /\ DOMAIN n4 = DOMAIN n
        /\ \A y \in DOMAIN n : n4[y] = Rec(IF y = se THEN b ELSE n3[y].right, n3[y].value, n3[y].left)
    BY <2>3, <2>5, SetRightIs
  <2>7. /\ IsNodes(n2) /\ DOMAIN n2 = DOMAIN n
        /\ \A y \in DOMAIN n : n2[y] = Rec(n4[y].right, n4[y].value, IF y = b THEN se ELSE n4[y].left)
    BY <2>3, <2>6, SetLeftIs
  <2>8. \A y \in DOMAIN n :
          n2[y] = Rec(IF y = se THEN b ELSE IF y = lft THEN sb ELSE n[y].right, n[y].value,
                      IF y = b THEN se ELSE IF y = sb THEN lft ELSE n[y].left)
    <3>1. \A y \in DOMAIN n :
          n3[y] = Rec(IF y = lft THEN sb ELSE n[y].right, n[y].value, IF y = sb THEN lft ELSE n[y].left)
      BY <2>4, <2>5, RecIs
    <3>2. \A y \in DOMAIN n :
          n4[y] = Rec(IF y = se THEN b ELSE IF y = lft THEN sb ELSE n[y].right, n[y].value,
                      IF y = sb THEN lft ELSE n[y].left)
      BY <3>1, <2>6, RecIs
    <3> QED
      BY <3>2, <2>7, RecIs
  <2>9. PICK t2, v2, i : t2 = Joined(t, k, u) /\ v2 = Joined(v, k, w) /\ i = Len(u)
    OBVIOUS
  <2>10. /\ t2 \in Seq(Blocks) /\ Len(t2) = Len(t) + i
         /\ \A p \in 1 .. k - 1 : t2[p] = t[p]
         /\ \A p \in k .. k + i - 1 : t2[p] = u[p - k + 1]
         /\ \A p \in k + i .. Len(t) + i : t2[p] = t[p - i]
    <3>1. t2 \in Seq(Blocks) /\ Spliced(t2, t, k, u)
      BY <1>2, <1>3, <2>9, JoinedIs
    <3> QED
      BY <2>9, <3>1 DEF Spliced
  <2>11. /\ v2 \in Seq(Element) /\ Len(v2) = Len(t) + i
         /\ \A p \in 1 .. k - 1 : v2[p] = v[p]
         /\ \A p \in k .. k + i - 1 : v2[p] = w[p - k + 1]
         /\ \A p \in k + i .. Len(t) + i : v2[p] = v[p - i]
    <3>1. k \in 1 .. Len(v)
      BY <1>2
    <3>2. v2 \in Seq(Element) /\ Spliced(v2, v, k, w)
      BY <1>2, <1>3, <2>9, <3>1, JoinedIs
    <3> QED
      BY <1>2, <1>3, <2>9, <3>2 DEF Spliced
  <2>12. /\ \A p \in Int : /\ p < k => Nth(t2, p) = Nth(t, p)
                           /\ p \in k .. k + i - 1 => Nth(t2, p) = Nth(u, p - k + 1)
                           /\ p >= k + i => Nth(t2, p) = Nth(t, p - i)
         /\ \A x : x \in Held(t2) <=> x \in Held(t) \/ x \in Held(u)
    BY <1>2, <1>3, <2>9, JoinedBlocks
  <2>13. i \in Nat /\ i # 0
    BY <1>3, <1>9, <2>9
  <2>14. Distinct(t2)
    <3>1. ASSUME NEW p \in 1 .. Len(t) + i
          PROVE  \/ p < k /\ p \in 1 .. Len(t) /\ t2[p] = t[p]
                 \/ p \in k .. k + i - 1 /\ p - k + 1 \in 1 .. i /\ t2[p] = u[p - k + 1]
                 \/ p >= k + i /\ p - i \in 1 .. Len(t) /\ p - i >= k /\ t2[p] = t[p - i]
      BY <1>2, <2>10, <2>13
    <3>2. ASSUME NEW p \in 1 .. Len(t) + i, NEW q \in 1 .. Len(t) + i, t2[p] = t2[q]
          PROVE  p = q
      <4>1. \A x, y \in 1 .. Len(t) : t[x] = t[y] => x = y
        BY <1>2 DEF Distinct
      <4>2. \A x, y \in 1 .. i : u[x] = u[y] => x = y
        BY <1>3, <2>9 DEF Distinct
      <4>3. \A x \in 1 .. Len(t), y \in 1 .. i : t[x] # u[y]
        BY <2>2, <2>9
      <4>4. CASE p < k
        <5>1. PICK a : a = p /\ a \in 1 .. Len(t) /\ t2[p] = t[a]
          BY <1>2, <2>13, <3>1, <4>4
        <5>2. CASE q < k
          <6>1. PICK z : z = q /\ z \in 1 .. Len(t) /\ t2[q] = t[z]
            BY <1>2, <2>13, <3>1, <5>2
          <6>2. a = z
            BY <3>2, <4>1, <5>1, <6>1
          <6> QED
            BY <1>2, <2>13, <4>4, <5>1, <5>2, <6>1, <6>2
        <5>3. CASE q \in k .. k + i - 1
          <6>1. PICK z : z = q - k + 1 /\ z \in 1 .. i /\ t2[q] = u[z]
            BY <1>2, <2>13, <3>1, <5>3
          <6> QED
            BY <3>2, <4>3, <5>1, <6>1
        <5>4. CASE q >= k + i
          <6>1. PICK z : z = q - i /\ z \in 1 .. Len(t) /\ z >= k /\ t2[q] = t[z]
            BY <1>2, <2>13, <3>1, <5>4
          <6>2. a = z
            BY <3>2, <4>1, <5>1, <6>1
          <6> QED
            BY <1>2, <2>13, <4>4, <5>1, <5>4, <6>1, <6>2
        <5> QED
          BY <1>2, <2>13, <5>2, <5>3, <5>4
      <4>5. CASE p \in k .. k + i - 1
        <5>1. PICK a : a = p - k + 1 /\ a \in 1 .. i /\ t2[p] = u[a]
          BY <1>2, <2>13, <3>1, <4>5
        <5>2. CASE q < k
          <6>1. PICK z : z = q /\ z \in 1 .. Len(t) /\ t2[q] = t[z]
            BY <1>2, <2>13, <3>1, <5>2
          <6> QED
            BY <3>2, <4>3, <5>1, <6>1
        <5>3. CASE q \in k .. k + i - 1
          <6>1. PICK z : z = q - k + 1 /\ z \in 1 .. i /\ t2[q] = u[z]
            BY <1>2, <2>13, <3>1, <5>3
          <6>2. a = z
            BY <3>2, <4>2, <5>1, <6>1
          <6> QED
            BY <1>2, <2>13, <4>5, <5>1, <5>3, <6>1, <6>2
        <5>4. CASE q >= k + i
          <6>1. PICK z : z = q - i /\ z \in 1 .. Len(t) /\ z >= k /\ t2[q] = t[z]
            BY <1>2, <2>13, <3>1, <5>4
          <6> QED
            BY <3>2, <4>3, <5>1, <6>1
        <5> QED
          BY <1>2, <2>13, <5>2, <5>3, <5>4
      <4>6. CASE p >= k + i
        <5>1. PICK a : a = p - i /\ a \in 1 .. Len(t) /\ a >= k /\ t2[p] = t[a]
          BY <1>2, <2>13, <3>1, <4>6
        <5>2. CASE q < k
          <6>1. PICK z : z = q /\ z \in 1 .. Len(t) /\ t2[q] = t[z]
            BY <1>2, <2>13, <3>1, <5>2
          <6>2. a = z
            BY <3>2, <4>1, <5>1, <6>1
          <6> QED
            BY <1>2, <2>13, <4>6, <5>1, <5>2, <6>1, <6>2
        <5>3. CASE q \in k .. k + i - 1
          <6>1. PICK z : z = q - k + 1 /\ z \in 1 .. i /\ t2[q] = u[z]
            BY <1>2, <2>13, <3>1, <5>3
          <6> QED
            BY <3>2, <4>3, <5>1, <6>1
        <5>4. CASE q >= k + i
          <6>1. PICK z : z = q - i /\ z \in 1 .. Len(t) /\ z >= k /\ t2[q] = t[z]
            BY <1>2, <2>13, <3>1, <5>4
          <6>2. a = z
            BY <3>2, <4>1, <5>1, <6>1
          <6> QED
            BY <1>2, <2>13, <4>6, <5>1, <5>4, <6>1, <6>2
        <5> QED
          BY <1>2, <2>13, <5>2, <5>3, <5>4
      <4> QED
        BY <1>2, <2>13, <4>4, <4>5, <4>6
    <3> QED
      BY <2>10, <3>2 DEF Distinct
  <2>15. \A p \in 1 .. Len(t) : t[p] # se /\ t[p] # sb /\ (t[p] = lft <=> p = k - 1) /\ (t[p] = b <=> p = k)
    BY <1>1, <1>2, <2>1, <2>2 DEF Nth, Distinct
  <2>16. \A q \in 1 .. i : u[q] # b /\ u[q] # lft /\ (u[q] = sb <=> q = 1) /\ (u[q] = se <=> q = i)
    <3>1. \A q \in 1 .. i : u[q] # b
      BY <1>1, <1>2, <2>2, <2>9
    <3>2. \A q \in 1 .. i : u[q] # lft
      BY <1>1, <1>2, <1>3, <2>2, <2>9 DEF Nth
    <3>3. \A q \in 1 .. i : (u[q] = sb <=> q = 1) /\ (u[q] = se <=> q = i)
      BY <1>3, <2>1, <2>9 DEF Distinct
    <3> QED
      BY <3>1, <3>2, <3>3
  <2>17. ASSUME NEW p \in 1 .. Len(t2)
         PROVE  n2[t2[p]] = Rec(Nth(t2, p + 1), v2[p], Nth(t2, p - 1))
    <3>0. p \in Int /\ p + 1 \in Int /\ p - 1 \in Int /\ k \in Int
      BY <1>2, <2>10, <2>13
    <3>1. CASE p < k
      <4>1. p \in 1 .. Len(t) /\ p \in 1 .. k - 1 /\ t2[p] = t[p] /\ v2[p] = v[p]
        BY <1>2, <2>10, <2>11, <2>13, <3>1
      <4>2. n[t[p]] = Rec(Nth(t, p + 1), v[p], Nth(t, p - 1)) /\ t[p] \in DOMAIN n
        BY <1>2, <4>1 DEF Laid
      <4>3. Nth(t2, p - 1) = Nth(t, p - 1)
        BY <2>12, <3>0, <3>1
      <4>4. Nth(t2, p + 1) = IF p = k - 1 THEN sb ELSE Nth(t, p + 1)
        <5>1. CASE p = k - 1
          <6>1. p + 1 \in k .. k + i - 1 /\ p + 1 - k + 1 = 1
            BY <1>2, <2>13, <3>0, <5>1
          <6> QED
            BY <1>1, <2>12, <3>0, <5>1, <6>1
        <5>2. CASE p # k - 1
          <6>1. p + 1 < k
            BY <3>0, <3>1, <5>2
          <6> QED
            BY <2>12, <3>0, <5>2, <6>1
        <5> QED
          BY <5>1, <5>2
      <4>5. t[p] # se /\ t[p] # sb /\ (t[p] = lft <=> p = k - 1) /\ t[p] # b
        BY <2>15, <3>1, <4>1
      <4> QED
        BY <2>8, <4>1, <4>2, <4>3, <4>4, <4>5, RecIs
    <3>2. CASE p \in k .. k + i - 1
      <4>1. PICK q : q = p - k + 1
        OBVIOUS
      <4>2. q \in 1 .. i /\ q \in 1 .. Len(u) /\ t2[p] = u[q] /\ v2[p] = w[q]
        BY <1>2, <2>9, <2>10, <2>11, <2>13, <3>2, <4>1
      <4>3. n[u[q]] = Rec(Nth(u, q + 1), w[q], Nth(u, q - 1)) /\ u[q] \in DOMAIN n
        BY <1>3, <4>2 DEF Laid
      <4>4. Nth(t2, p + 1) = IF q = i THEN b ELSE Nth(u, q + 1)
        <5>1. CASE q = i
          <6>1. PICK r : r = p + 1
            OBVIOUS
          <6>2. r \in Int /\ r >= k + i /\ r - i = k
            BY <2>13, <3>0, <4>1, <5>1, <6>1
          <6>3. Nth(t, k) = b
            BY <1>1, <1>2 DEF Nth
          <6>4. Nth(t2, r) = Nth(t, r - i)
            BY <2>12, <6>2
          <6> QED
            BY <5>1, <6>1, <6>2, <6>3, <6>4
        <5>2. CASE q # i
          <6>1. p + 1 \in k .. k + i - 1 /\ p + 1 - k + 1 = q + 1
            BY <2>13, <3>0, <3>2, <4>1, <5>2
          <6> QED
            BY <2>12, <3>0, <5>2, <6>1
        <5> QED
          BY <5>1, <5>2
      <4>5. Nth(t2, p - 1) = IF q = 1 THEN lft ELSE Nth(u, q - 1)
        <5>1. CASE q = 1
          <6>1. p - 1 < k /\ p - 1 = k - 1
            BY <3>0, <4>1, <5>1
          <6> QED
            BY <1>1, <2>12, <3>0, <5>1, <6>1
        <5>2. CASE q # 1
          <6>1. p - 1 \in k .. k + i - 1 /\ p - 1 - k + 1 = q - 1
            BY <2>13, <3>0, <3>2, <4>1, <5>2
          <6> QED
            BY <2>12, <3>0, <5>2, <6>1
        <5> QED
          BY <5>1, <5>2
      <4> QED
        BY <2>8, <2>16, <4>2, <4>3, <4>4, <4>5, RecIs
    <3>3. CASE p >= k + i
      <4>1. PICK q : q = p - i
        OBVIOUS
      <4>2. q \in 1 .. Len(t) /\ q >= k /\ t2[p] = t[q] /\ v2[p] = v[q]
        BY <1>2, <2>10, <2>11, <2>13, <3>3, <4>1
      <4>3. n[t[q]] = Rec(Nth(t, q + 1), v[q], Nth(t, q - 1)) /\ t[q] \in DOMAIN n
        BY <1>2, <4>2 DEF Laid
      <4>4. Nth(t2, p + 1) = Nth(t, q + 1)
        <5>1. PICK r : r = p + 1
          OBVIOUS
        <5>2. r \in Int /\ r >= k + i /\ r - i = q + 1
          BY <2>13, <3>0, <3>3, <4>1, <5>1
        <5>3. Nth(t2, r) = Nth(t, r - i)
          BY <2>12, <5>2
        <5> QED
          BY <5>1, <5>2, <5>3
      <4>5. Nth(t2, p - 1) = IF q = k THEN se ELSE Nth(t, q - 1)
        <5>1. CASE q = k
          <6>1. p - 1 \in k .. k + i - 1 /\ p - 1 - k + 1 = i
            BY <2>13, <3>0, <4>1, <5>1
          <6> QED
            BY <1>1, <2>9, <2>12, <3>0, <5>1, <6>1
        <5>2. CASE q # k
          <6>1. p - 1 >= k + i /\ p - 1 - i = q - 1
            BY <2>13, <3>0, <3>3, <4>1, <5>2
          <6> QED
            BY <2>12, <3>0, <5>2, <6>1
        <5> QED
          BY <5>1, <5>2
      <4>6. t[q] # se /\ t[q] # sb /\ t[q] # lft /\ (t[q] = b <=> q = k)
        BY <1>2, <2>15, <4>2
      <4> QED
        BY <2>8, <4>2, <4>3, <4>4, <4>5, <4>6, RecIs
    <3> QED
      BY <2>13, <3>0, <3>1, <3>2, <3>3
  <2>18. Laid(n2, t2, v2)
    BY <2>17 DEF Laid
  <2>19. PICK e : e = <<>> /\ e \in Seq(Blocks) /\ e \in Seq(Element) /\ Len(e) = 0
    BY EmptySeq
  <2>20. Distinct(e) /\ Laid(n2, e, e) /\ \A x : x \notin Held(e)
    BY <2>19 DEF Distinct, Laid, Held
  <2>21. \A y \in DOMAIN n : y \notin Held(t) /\ y \notin Held(u) => n2[y] = n[y]
    <3>1. ASSUME NEW y \in DOMAIN n, y \notin Held(t), y \notin Held(u) PROVE n2[y] = n[y]
      <4>1. y # b /\ y # sb /\ y # se
        BY <1>1, <1>2, <2>1, <3>1 DEF Held
      <4>2. y # lft
        BY <1>1, <1>2, <1>4, <3>1 DEF Held, Nth, IsNodes
      <4>3. n[y] = Rec(n[y].right, n[y].value, n[y].left)
        BY <1>4 DEF IsNodes
      <4> QED
        BY <2>8, <4>1, <4>2, <4>3
    <3> QED
      BY <3>1
  <2>22. n2 = [y \in DOMAIN n |-> n2[y]]
    BY <2>7 DEF IsNodes
  <2>23. Exchange(h, t, u, t2, v2, e, e, n2)
    <3>1. Len(v2) = Len(t2)
      BY <2>10, <2>11
    <3> QED
      BY <1>1, <2>10, <2>11, <2>12, <2>14, <2>18, <2>19, <2>20, <2>21, <2>22, <3>1 DEF Exchange
  <2>24. Shape([node |-> n2, root |-> [h.root EXCEPT ![l] = Ends(t2), ![m] = Ends(e)]],
               ids, [c EXCEPT ![l] = t2, ![m] = e], [s EXCEPT ![l] = v2, ![m] = e])
    BY <1>1, <2>23, TwoLists
  <2>25. ListInsertListAt(h, l, b, m) = [node |-> n2, root |-> [h.root EXCEPT ![l] = Ends(t2), ![m] = Ends(e)]]
    <3>1. Nth(t2, 1) = IF lft = NULL THEN sb ELSE Nth(t, 1)
      <4>1. lft = NULL <=> k = 1
        BY <1>1, <1>2 DEF Nth
      <4>2. CASE k = 1
        <5>1. 1 \in k .. k + i - 1 /\ 1 - k + 1 = 1
          BY <2>13, <4>2
        <5> QED
          BY <1>1, <2>12, <4>1, <4>2, <5>1
      <4>3. CASE k # 1
        <5>1. 1 < k
          BY <1>2, <4>3
        <5> QED
          BY <2>12, <4>1, <4>3, <5>1
      <4> QED
        BY <4>2, <4>3
    <3>2. Nth(t2, Len(t2)) = Nth(t, Len(t))
      <4>1. Len(t2) \in Int /\ Len(t2) >= k + i /\ Len(t2) - i = Len(t)
        BY <1>2, <2>10, <2>13
      <4> QED
        BY <2>12, <4>1
    <3>3. Ends(t2) = [h.root[l] EXCEPT !.begin = IF lft = NULL THEN sb ELSE @]
      BY <1>5, <3>1, <3>2 DEF Ends
    <3>4. Ends(e) = ListNew
      BY <2>19 DEF Ends, Nth, ListNew
    <3>5. [h.root EXCEPT ![l] = Ends(t2), ![m] = Ends(e)] =
          [h.root EXCEPT ![l].begin = IF lft = NULL THEN sb ELSE @, ![m] = ListNew]
      BY <3>3, <3>4
    <3> QED
      BY <1>1, <1>6, <1>7, <2>1, <2>3, <3>5 DEF ListInsertListAt
  <2>26. /\ [c EXCEPT ![l] = Joined(@, k, c[m]), ![m] = <<>>] = [c EXCEPT ![l] = t2, ![m] = e]
         /\ [s EXCEPT ![l] = Joined(@, k, s[m]), ![m] = <<>>] = [s EXCEPT ![l] = v2, ![m] = e]
    BY <1>1, <2>9, <2>19
  <2> QED
    BY <1>1, <2>24, <2>25, <2>26
<1> QED
  BY <1>8, <1>9

LEMMA EmptyRoot ==
  ASSUME NEW h, NEW ids, NEW c, NEW s, Shape(h, ids, c, s), NEW l \in ids
  PROVE  /\ h.root[l].begin = NULL <=> Len(c[l]) = 0
         /\ Len(c[l]) = 0 => c[l] = <<>> /\ s[l] = <<>>
<1>1. PICK t : t = c[l]
  OBVIOUS
<1>2. /\ t \in Seq(Blocks) /\ Len(t) \in Nat /\ s[l] \in Seq(Element) /\ Len(s[l]) = Len(t)
      /\ \A p \in 1 .. Len(t) : t[p] # NULL
  BY <1>1, ListOf
<1>3. h.root[l] = Ends(t)
  BY <1>1, RootOf
<1>4. h.root[l].begin = Nth(t, 1)
  BY <1>3 DEF Ends
<1>5. h.root[l].begin = NULL <=> Len(t) = 0
  BY <1>2, <1>4 DEF Nth
<1>6. Len(t) = 0 => t = <<>>
  BY <1>2, EmptySeq
<1>7. Len(t) = 0 => s[l] = <<>>
  BY <1>2, EmptySeq
<1> QED
  BY <1>1, <1>5, <1>6, <1>7

LEMMA SplitShape ==
  ASSUME NEW h, NEW ids, NEW c, NEW s, Shape(h, ids, c, s), NEW l \in ids, NEW m \in ids, l # m,
         NEW k \in 1 .. Len(c[l]), c[m] = <<>>
  PROVE  Shape(ListSplit(h, l, c[l][k], m), ids,
               [c EXCEPT ![l] = SubSeq(@, 1, k), ![m] = SubSeq(c[l], k + 1, Len(c[l]))],
               [s EXCEPT ![l] = SubSeq(@, 1, k), ![m] = SubSeq(s[l], k + 1, Len(s[l]))])
<1>1. PICK n, t, v, b, rgt, i :
        n = h.node /\ t = c[l] /\ v = s[l] /\ b = t[k] /\ rgt = Nth(t, k + 1) /\ i = Len(t)
  OBVIOUS
<1>2. /\ t \in Seq(Blocks) /\ i \in Nat /\ v \in Seq(Element) /\ Len(v) = i
      /\ Distinct(t) /\ Laid(n, t, v) /\ k \in 1 .. i
      /\ \A p \in 1 .. i : t[p] \in Blocks /\ t[p] # NULL /\ t[p] \in DOMAIN n
  BY <1>1, ListOf
<1>3. IsNodes(n) /\ h.root[l] = Ends(t)
  <2>1. IsNodes(n)
    BY <1>1, ShapeNodes
  <2>2. h.root[l] = Ends(t)
    BY <1>1, RootOf
  <2> QED
    BY <2>1, <2>2
<1>4. n[b].right = rgt
  BY <1>1, <1>2, RecIs DEF Laid
<1>5. PICK n1, n2 : n1 = SetRight(n, b, NULL) /\ n2 = SetLeft(n1, rgt, NULL)
  OBVIOUS
<1>6. /\ IsNodes(n1) /\ DOMAIN n1 = DOMAIN n
      /\ \A y \in DOMAIN n : n1[y] = Rec(IF y = b THEN NULL ELSE n[y].right, n[y].value, n[y].left)
  BY <1>3, <1>5, SetRightIs
<1>7. /\ IsNodes(n2) /\ DOMAIN n2 = DOMAIN n
      /\ \A y \in DOMAIN n : n2[y] = Rec(n1[y].right, n1[y].value, IF y = rgt THEN NULL ELSE n1[y].left)
  BY <1>5, <1>6, SetLeftIs
<1>8. \A y \in DOMAIN n :
        n2[y] = Rec(IF y = b THEN NULL ELSE n[y].right, n[y].value, IF y = rgt THEN NULL ELSE n[y].left)
  BY <1>6, <1>7, RecIs
<1>9. PICK t2, v2, u2, w2 : /\ t2 = SubSeq(t, 1, k) /\ v2 = SubSeq(v, 1, k)
                            /\ u2 = SubSeq(t, k + 1, i) /\ w2 = SubSeq(v, k + 1, i)
  OBVIOUS
<1>10. /\ 1 \in 1 .. i + 1 /\ k \in 1 - 1 .. i /\ k - 1 + 1 = k
       /\ k + 1 \in 1 .. i + 1 /\ i \in k + 1 - 1 .. i /\ i - (k + 1) + 1 = i - k
  BY <1>2
<1>11. t2 \in Seq(Blocks) /\ Len(t2) = k /\ \A p \in 1 .. k : t2[p] = t[p]
  <2>1. /\ t2 \in Seq(Blocks) /\ Len(t2) = k - 1 + 1
        /\ \A p \in 1 .. k - 1 + 1 : t2[p] = t[p + 1 - 1]
    BY <1>1, <1>2, <1>9, <1>10, PartIs
  <2>2. \A p \in 1 .. k : p + 1 - 1 = p
    BY <1>2
  <2> QED
    BY <1>10, <2>1, <2>2
<1>12. v2 \in Seq(Element) /\ Len(v2) = k /\ \A p \in 1 .. k : v2[p] = v[p]
  <2>1. /\ v2 \in Seq(Element) /\ Len(v2) = k - 1 + 1
        /\ \A p \in 1 .. k - 1 + 1 : v2[p] = v[p + 1 - 1]
    BY <1>2, <1>9, <1>10, PartIs
  <2>2. \A p \in 1 .. k : p + 1 - 1 = p
    BY <1>2
  <2> QED
    BY <1>10, <2>1, <2>2
<1>13. u2 \in Seq(Blocks) /\ Len(u2) = i - k /\ \A p \in 1 .. i - k : u2[p] = t[p + k]
  <2>1. /\ u2 \in Seq(Blocks) /\ Len(u2) = i - (k + 1) + 1
        /\ \A p \in 1 .. i - (k + 1) + 1 : u2[p] = t[p + (k + 1) - 1]
    BY <1>1, <1>2, <1>9, <1>10, PartIs
  <2>2. \A p \in 1 .. i - k : p + (k + 1) - 1 = p + k
    BY <1>2
  <2> QED
    BY <1>10, <2>1, <2>2
<1>14. w2 \in Seq(Element) /\ Len(w2) = i - k /\ \A p \in 1 .. i - k : w2[p] = v[p + k]
  <2>1. /\ w2 \in Seq(Element) /\ Len(w2) = i - (k + 1) + 1
        /\ \A p \in 1 .. i - (k + 1) + 1 : w2[p] = v[p + (k + 1) - 1]
    BY <1>2, <1>9, <1>10, PartIs
  <2>2. \A p \in 1 .. i - k : p + (k + 1) - 1 = p + k
    BY <1>2
  <2> QED
    BY <1>10, <2>1, <2>2
<1>15. \A p, q \in 1 .. i : t[p] = t[q] => p = q
  BY <1>1, <1>2 DEF Distinct
<1>16. Distinct(t2)
  <2>1. \A p \in 1 .. k : p \in 1 .. i
    BY <1>2
  <2> QED
    BY <1>11, <1>15, <2>1 DEF Distinct
<1>17. Distinct(u2)
  <2>1. \A p \in 1 .. i - k : p + k \in 1 .. i
    BY <1>2
  <2>2. ASSUME NEW p \in 1 .. i - k, NEW q \in 1 .. i - k, u2[p] = u2[q] PROVE p = q
    <3>1. t[p + k] = t[q + k]
      BY <1>13, <2>2
    <3>2. p + k = q + k
      BY <1>15, <2>1, <3>1
    <3> QED
      BY <1>2, <3>2
  <2> QED
    BY <1>13, <2>2 DEF Distinct
<1>18. \A p \in 1 .. i : (t[p] = b <=> p = k) /\ (t[p] = rgt <=> p = k + 1)
  BY <1>1, <1>2, <1>15 DEF Nth
<1>19. ASSUME NEW p \in 1 .. Len(t2)
       PROVE  n2[t2[p]] = Rec(Nth(t2, p + 1), v2[p], Nth(t2, p - 1))
  <2>1. p \in 1 .. k /\ p \in 1 .. i /\ t2[p] = t[p] /\ v2[p] = v[p] /\ t[p] \in DOMAIN n /\ p # k + 1
    BY <1>2, <1>11, <1>12
  <2>2. n[t[p]] = Rec(Nth(t, p + 1), v[p], Nth(t, p - 1))
    BY <1>1, <1>2, <2>1 DEF Laid
  <2>3. Nth(t2, p - 1) = Nth(t, p - 1)
    BY <1>1, <1>2, <1>11, <2>1 DEF Nth
  <2>4. Nth(t2, p + 1) = IF p = k THEN NULL ELSE Nth(t, p + 1)
    <3>1. CASE p = k
      BY <1>2, <1>11, <3>1 DEF Nth
    <3>2. CASE p # k
      <4>1. p + 1 \in 1 .. k /\ p + 1 \in 1 .. i
        BY <1>2, <2>1, <3>2
      <4> QED
        BY <1>1, <1>11, <3>2, <4>1 DEF Nth
    <3> QED
      BY <3>1, <3>2
  <2> QED
    BY <1>8, <1>18, <2>1, <2>2, <2>3, <2>4, RecIs
<1>20. ASSUME NEW p \in 1 .. Len(u2)
       PROVE  n2[u2[p]] = Rec(Nth(u2, p + 1), w2[p], Nth(u2, p - 1))
  <2>1. PICK q : q = p + k
    OBVIOUS
  <2>2. q \in 1 .. i /\ u2[p] = t[q] /\ w2[p] = v[q] /\ t[q] \in DOMAIN n /\ q # k /\ (q = k + 1 <=> p = 1)
    BY <1>2, <1>13, <1>14, <2>1
  <2>3. n[t[q]] = Rec(Nth(t, q + 1), v[q], Nth(t, q - 1))
    BY <1>1, <1>2, <2>2 DEF Laid
  <2>4. Nth(u2, p + 1) = Nth(t, q + 1)
    <3>1. CASE q = i
      <4>1. p + 1 \notin 1 .. Len(u2) /\ q + 1 \notin 1 .. Len(t)
        BY <1>1, <1>2, <1>13, <2>1, <3>1
      <4> QED
        BY <4>1 DEF Nth
    <3>2. CASE q # i
      <4>1. PICK r : r = p + 1
        OBVIOUS
      <4>2. r \in 1 .. i - k /\ q + 1 \in 1 .. i /\ r + k = q + 1
        BY <1>2, <1>13, <2>1, <2>2, <3>2, <4>1
      <4>3. u2[r] = t[q + 1]
        BY <1>13, <4>2
      <4> QED
        BY <1>1, <1>13, <4>1, <4>2, <4>3 DEF Nth
    <3> QED
      BY <3>1, <3>2
  <2>5. Nth(u2, p - 1) = IF p = 1 THEN NULL ELSE Nth(t, q - 1)
    <3>1. CASE p = 1
      BY <3>1 DEF Nth
    <3>2. CASE p # 1
      <4>1. PICK r : r = p - 1
        OBVIOUS
      <4>2. r \in 1 .. i - k /\ q - 1 \in 1 .. i /\ r + k = q - 1
        BY <1>2, <1>13, <2>1, <2>2, <3>2, <4>1
      <4>3. u2[r] = t[q - 1]
        BY <1>13, <4>2
      <4> QED
        BY <1>1, <1>13, <3>2, <4>1, <4>2, <4>3 DEF Nth
    <3> QED
      BY <3>1, <3>2
  <2> QED
    <3>1. PICK y : y = t[q]
      OBVIOUS
    <3>2. y \in DOMAIN n /\ y # b /\ (y = rgt <=> p = 1)
      BY <1>18, <2>2, <3>1
    <3>3. n2[y] = Rec(n[y].right, n[y].value, IF p = 1 THEN NULL ELSE n[y].left)
      BY <1>8, <3>2
    <3>4. n[y].right = Nth(t, q + 1) /\ n[y].value = v[q] /\ n[y].left = Nth(t, q - 1)
      BY <2>3, <3>1, RecIs
    <3> QED
      BY <2>2, <2>4, <2>5, <3>1, <3>3, <3>4
<1>21. Laid(n2, t2, v2) /\ Laid(n2, u2, w2)
  BY <1>19, <1>20 DEF Laid
<1>22. \A x \in Held(t2) : x \notin Held(u2)
  <2>1. ASSUME NEW p \in 1 .. k, NEW q \in 1 .. i - k PROVE t2[p] # u2[q]
    <3>1. p \in 1 .. i /\ q + k \in 1 .. i /\ p # q + k
      BY <1>2
    <3> QED
      BY <1>11, <1>13, <1>15, <3>1
  <2>2. SUFFICES ASSUME NEW x, x \in Held(t2), x \in Held(u2) PROVE FALSE
    OBVIOUS
  <2>3. PICK p \in 1 .. k : x = t2[p]
    BY <1>11, <2>2 DEF Held
  <2>4. PICK q \in 1 .. i - k : x = u2[q]
    BY <1>13, <2>2 DEF Held
  <2> QED
    BY <2>1, <2>3, <2>4
<1>23. \A x : x \in Held(t2) \/ x \in Held(u2) <=> x \in Held(t)
  <2>1. ASSUME NEW x, x \in Held(t) PROVE x \in Held(t2) \/ x \in Held(u2)
    <3>1. PICK p \in 1 .. i : x = t[p]
      BY <1>1, <2>1 DEF Held
    <3>2. CASE p <= k
      <4>1. p \in 1 .. k
        BY <3>2
      <4> QED
        BY <1>11, <3>1, <4>1 DEF Held
    <3>3. CASE p > k
      <4>1. PICK r : r = p - k
        OBVIOUS
      <4>2. r \in 1 .. i - k /\ r + k = p
        BY <1>2, <3>3, <4>1
      <4>3. x = u2[r] /\ r \in 1 .. Len(u2)
        BY <1>13, <3>1, <4>2
      <4> QED
        BY <4>3 DEF Held
    <3> QED
      BY <1>2, <3>2, <3>3
  <2>2. ASSUME NEW x, x \in Held(t2) PROVE x \in Held(t)
    <3>1. PICK p \in 1 .. k : x = t2[p]
      BY <1>11, <2>2 DEF Held
    <3>2. p \in 1 .. i
      BY <1>2
    <3> QED
      BY <1>1, <1>11, <3>1, <3>2 DEF Held
  <2>3. ASSUME NEW x, x \in Held(u2) PROVE x \in Held(t)
    <3>1. PICK p \in 1 .. i - k : x = u2[p]
      BY <1>13, <2>3 DEF Held
    <3>2. p + k \in 1 .. i
      BY <1>2
    <3> QED
      BY <1>1, <1>13, <3>1, <3>2 DEF Held
  <2> QED
    BY <2>1, <2>2, <2>3
<1>24. \A x : x \notin Held(c[m])
  BY DEF Held
<1>25. \A y \in DOMAIN n : y \notin Held(t) => n2[y] = n[y]
  <2>1. ASSUME NEW y \in DOMAIN n, y \notin Held(t) PROVE n2[y] = n[y]
    <3>1. y # b
      BY <1>1, <1>2, <2>1 DEF Held
    <3>2. y # rgt
      BY <1>1, <1>2, <1>3, <2>1 DEF Held, Nth, IsNodes
    <3>3. n[y] = Rec(n[y].right, n[y].value, n[y].left)
      BY <1>3 DEF IsNodes
    <3> QED
      BY <1>8, <3>1, <3>2, <3>3
  <2> QED
    BY <2>1
<1>26. n2 = [y \in DOMAIN n |-> n2[y]]
  BY <1>7 DEF IsNodes
<1>27. Exchange(h, t, c[m], t2, v2, u2, w2, n2)
  <2>1. Len(v2) = Len(t2) /\ Len(w2) = Len(u2)
    BY <1>11, <1>12, <1>13, <1>14
  <2> QED
    BY <1>1, <1>11, <1>12, <1>13, <1>14, <1>16, <1>17, <1>21, <1>22, <1>23, <1>24, <1>25, <1>26, <2>1
    DEF Exchange
<1>28. Shape([node |-> n2, root |-> [h.root EXCEPT ![l] = Ends(t2), ![m] = Ends(u2)]],
             ids, [c EXCEPT ![l] = t2, ![m] = u2], [s EXCEPT ![l] = v2, ![m] = w2])
  BY <1>1, <1>27, TwoLists
<1>29. ListSplit(h, l, b, m) = [node |-> n2, root |-> [h.root EXCEPT ![l] = Ends(t2), ![m] = Ends(u2)]]
  <2>1. h.root[l].begin = Nth(t, 1) /\ h.root[l].end = Nth(t, i)
    BY <1>1, <1>3 DEF Ends
  <2>2. Nth(t2, 1) = Nth(t, 1) /\ Nth(t2, Len(t2)) = b
    BY <1>1, <1>2, <1>11 DEF Nth
  <2>3. Ends(t2) = [h.root[l] EXCEPT !.end = b]
    BY <1>3, <2>2 DEF Ends
  <2>4. Ends(u2) = IF rgt = NULL THEN ListNew ELSE [begin |-> rgt, end |-> h.root[l].end]
    <3>1. CASE k = i
      <4>1. rgt = NULL /\ Len(u2) = 0
        BY <1>1, <1>2, <1>13, <3>1 DEF Nth
      <4> QED
        BY <4>1 DEF Ends, Nth, ListNew
    <3>2. CASE k # i
      <4>1. k + 1 \in 1 .. i /\ 1 \in 1 .. i - k /\ i - k \in 1 .. i - k /\ 1 + k = k + 1 /\ i - k + k = i
            /\ i \in 1 .. i
        BY <1>2, <3>2
      <4>2. rgt = t[k + 1] /\ rgt # NULL /\ Nth(t, i) = t[i]
        BY <1>1, <1>2, <4>1 DEF Nth
      <4>3. Nth(u2, 1) = t[k + 1]
        BY <1>13, <4>1 DEF Nth
      <4>4. PICK r : r = i - k
        OBVIOUS
      <4>5. r \in 1 .. i - k /\ r + k = i /\ Len(u2) = r
        BY <1>2, <1>13, <4>1, <4>4
      <4>6. u2[r] = t[i]
        BY <1>13, <4>5
      <4>7. Nth(u2, Len(u2)) = t[i]
        BY <1>13, <4>5, <4>6 DEF Nth
      <4> QED
        BY <2>1, <4>2, <4>3, <4>7 DEF Ends
    <3> QED
      BY <3>1, <3>2
  <2>5. [h.root EXCEPT ![l].end = b,
                       ![m] = IF rgt = NULL THEN ListNew ELSE [begin |-> rgt, end |-> h.root[l].end]]
        = [h.root EXCEPT ![l] = Ends(t2), ![m] = Ends(u2)]
    BY <2>3, <2>4
  <2> QED
    BY <1>1, <1>4, <1>5, <2>5 DEF ListSplit
<1>30. /\ [c EXCEPT ![l] = SubSeq(@, 1, k), ![m] = SubSeq(c[l], k + 1, Len(c[l]))] = [c EXCEPT ![l] = t2, ![m] = u2]
       /\ [s EXCEPT ![l] = SubSeq(@, 1, k), ![m] = SubSeq(s[l], k + 1, Len(s[l]))] = [s EXCEPT ![l] = v2, ![m] = w2]
  BY <1>1, <1>2, <1>9
<1> QED
  BY <1>1, <1>28, <1>29, <1>30

-----------------------------------------------------------------------------
(* New values in the nodes of a list.                                       *)

Revalued(n2, n, t, v) ==
  /\ n2 = [y \in DOMAIN n |-> n2[y]]
  /\ \A p \in 1 .. Len(t) : n2[t[p]] = Rec(n[t[p]].right, v[p], n[t[p]].left)
  /\ \A y \in DOMAIN n : y \notin Held(t) => n2[y] = n[y]

LEMMA RevalueShape ==
  ASSUME NEW h, NEW ids, NEW c, NEW s, Shape(h, ids, c, s), NEW l \in ids,
         NEW v \in Seq(Element), Len(v) = Len(c[l]), NEW n2, Revalued(n2, h.node, c[l], v)
  PROVE  Shape([node |-> n2, root |-> h.root], ids, c, [s EXCEPT ![l] = v])
<1>1. PICK n, t : n = h.node /\ t = c[l]
  OBVIOUS
<1>2. /\ t \in Seq(Blocks) /\ Len(t) \in Nat /\ Distinct(t) /\ Laid(n, t, s[l])
      /\ \A p \in 1 .. Len(t) : t[p] \in DOMAIN n
  BY <1>1, ListOf
<1>3. Laid(n2, t, v)
  <2> SUFFICES ASSUME NEW p \in 1 .. Len(t)
               PROVE  n2[t[p]] = Rec(Nth(t, p + 1), v[p], Nth(t, p - 1))
    BY DEF Laid
  <2>1. n2[t[p]] = Rec(n[t[p]].right, v[p], n[t[p]].left)
    BY <1>1 DEF Revalued
  <2>2. n[t[p]] = Rec(Nth(t, p + 1), s[l][p], Nth(t, p - 1))
    BY <1>2 DEF Laid
  <2>3. n[t[p]].right = Nth(t, p + 1) /\ n[t[p]].left = Nth(t, p - 1)
    BY <2>2, RecIs
  <2> QED
    BY <2>1, <2>3
<1>4. \A b \in Held(t) : b \in DOMAIN n
  BY <1>2 DEF Held
<1>5. DOMAIN n2 = DOMAIN n
  BY <1>1 DEF Revalued
<1>6. Rewrites(h, t, t, v, n2)
  <2>1. n2 = [y \in DOMAIN n2 |-> n2[y]]
    BY <1>1, <1>5 DEF Revalued
  <2>2. \A y \in DOMAIN n : y \notin Held(t) => n2[y] = n[y]
    BY <1>1 DEF Revalued
  <2> QED
    BY <1>1, <1>2, <1>3, <1>4, <1>5, <2>1, <2>2 DEF Rewrites
<1>7. Shape([node |-> n2, root |-> [h.root EXCEPT ![l] = Ends(t)]],
            ids, [c EXCEPT ![l] = t], [s EXCEPT ![l] = v])
  BY <1>1, <1>6, OneList
<1>8. [c EXCEPT ![l] = t] = c
  BY <1>1 DEF Shape
<1>9. [h.root EXCEPT ![l] = Ends(t)] = h.root
  BY <1>1 DEF Shape, Roots
<1> QED
  BY <1>7, <1>8, <1>9

LEMMA SetValueShape ==
  ASSUME NEW h, NEW ids, NEW c, NEW s, Shape(h, ids, c, s), NEW l \in ids,
         NEW k \in 1 .. Len(c[l]), NEW e \in Element
  PROVE  Shape(ListSetValue(h, c[l][k], e), ids, c, [s EXCEPT ![l] = [@ EXCEPT ![k] = e]])
<1>1. PICK n, t, b, v : n = h.node /\ t = c[l] /\ b = t[k] /\ v = [s[l] EXCEPT ![k] = e]
  OBVIOUS
<1>2. /\ t \in Seq(Blocks) /\ Len(t) \in Nat /\ Distinct(t) /\ Laid(n, t, s[l])
      /\ s[l] \in Seq(Element) /\ Len(s[l]) = Len(t)
      /\ \A p \in 1 .. Len(t) : t[p] \in DOMAIN n
  BY <1>1, ListOf
<1>3. /\ v \in Seq(Element) /\ Len(v) = Len(t)
      /\ \A p \in 1 .. Len(t) : v[p] = IF p = k THEN e ELSE s[l][p]
  <2>1. k \in 1 .. Len(s[l])
    BY <1>1, <1>2
  <2> QED
    BY <1>1, <1>2, <2>1, ExceptSeq
<1>4. IsNodes(n)
  BY <1>1, ShapeNodes
<1>5. PICK n2 : n2 = [n EXCEPT ![b].value = e]
  OBVIOUS
<1>6. n2 = [y \in DOMAIN n |-> IF y = b THEN Rec(n[y].right, e, n[y].left) ELSE n[y]]
  <2>1. b \in DOMAIN n
    BY <1>1, <1>2
  <2>2. [n[b] EXCEPT !.value = e] = Rec(n[b].right, e, n[b].left)
    <3>1. PICK p, q, w : p = n[b].right /\ q = n[b].value /\ w = n[b].left
      OBVIOUS
    <3>2. n[b] = Rec(p, q, w)
      BY <1>4, <2>1, <3>1 DEF IsNodes
    <3>3. [Rec(p, q, w) EXCEPT !.value = e] = Rec(p, e, w)
      BY DEF Rec
    <3> QED
      BY <3>1, <3>2, <3>3
  <2>3. n2 = [y \in DOMAIN n |-> IF y = b THEN [n[b] EXCEPT !.value = e] ELSE n[y]]
    BY <1>4, <1>5 DEF IsNodes
  <2> QED
    BY <2>2, <2>3
<1>7. Revalued(n2, n, t, v)
  <2>1. DOMAIN n2 = DOMAIN n /\ n2 = [y \in DOMAIN n |-> n2[y]]
    BY <1>6
  <2>2. ASSUME NEW p \in 1 .. Len(t) PROVE n2[t[p]] = Rec(n[t[p]].right, v[p], n[t[p]].left)
    <3>1. CASE p = k
      BY <1>1, <1>2, <1>3, <1>6, <3>1
    <3>2. CASE p # k
      <4>1. t[p] # b
        BY <1>1, <1>2, <3>2 DEF Distinct
      <4>2. n[t[p]] = Rec(Nth(t, p + 1), s[l][p], Nth(t, p - 1))
        BY <1>2 DEF Laid
      <4> QED
        BY <1>2, <1>3, <1>6, <3>2, <4>1, <4>2, RecIs
    <3> QED
      BY <3>1, <3>2
  <2>3. b \in Held(t)
    BY <1>1 DEF Held
  <2>4. \A y \in DOMAIN n : y \notin Held(t) => n2[y] = n[y]
    BY <1>6, <2>3
  <2> QED
    BY <2>1, <2>2, <2>4 DEF Revalued
<1>8. Shape([node |-> n2, root |-> h.root], ids, c, [s EXCEPT ![l] = v])
  BY <1>1, <1>3, <1>7, RevalueShape
<1>9. ListSetValue(h, b, e) = [node |-> n2, root |-> h.root]
  <2>1. h = [node |-> n, root |-> h.root]
    BY <1>1, ShapeNodes
  <2>2. ListSetValue(h, b, e) = [h EXCEPT !.node = n2]
    BY <1>1, <1>5 DEF ListSetValue
  <2>3. PICK r : r = h.root
    OBVIOUS
  <2>4. h = [node |-> n, root |-> r]
    BY <2>1, <2>3
  <2> QED
    BY <2>2, <2>3, <2>4
<1>10. [s EXCEPT ![l] = [@ EXCEPT ![k] = e]] = [s EXCEPT ![l] = v]
  BY <1>1
<1> QED
  BY <1>1, <1>8, <1>9, <1>10

LEMMA MapShape ==
  ASSUME NEW h, NEW ids, NEW c, NEW s, Shape(h, ids, c, s), NEW l \in ids,
         NEW v, v = [k \in DOMAIN s[l] |-> Modifier[s[l][k]]]
  PROVE  Shape(ListMap(h, l), ids, c, [s EXCEPT ![l] = v])
<1>1. PICK n, t : n = h.node /\ t = c[l]
  OBVIOUS
<1>2. /\ t \in Seq(Blocks) /\ Len(t) \in Nat /\ Laid(n, t, s[l]) /\ DOMAIN s[l] = 1 .. Len(t)
      /\ \A p \in 1 .. Len(t) : t[p] \in DOMAIN n /\ s[l][p] \in Element
  BY <1>1, ListOf
<1>3. v \in Seq(Element) /\ Len(v) = Len(t) /\ \A p \in 1 .. Len(t) : v[p] = Modifier[s[l][p]]
  <2>1. v = [k \in 1 .. Len(t) |-> Modifier[s[l][k]]]
    BY <1>1, <1>2
  <2>2. v \in [1 .. Len(t) -> Element] /\ \A p \in 1 .. Len(t) : v[p] = Modifier[s[l][p]]
    BY <1>2, <2>1, GenericsAssumption
  <2>3. v \in Seq(Element) /\ Len(v) = Len(t)
    BY <1>2, <2>2
  <2> QED
    BY <2>2, <2>3
<1>4. IsNodes(n)
  BY <1>1, ShapeNodes
<1>5. Range(LOOP_LIST(h, l)) = Held(t)
  <2>1. LOOP_LIST(h, l) = t
    BY <1>1, WalkRight
  <2>2. Range(t) = Held(t)
    BY <1>2, RangeEquality DEF Held
  <2> QED
    BY <2>1, <2>2
<1>6. PICK n2 : n2 = [b \in DOMAIN n |->
                       IF b \in Held(t) THEN [n[b] EXCEPT !.value = Modifier[@]] ELSE n[b]]
  OBVIOUS
<1>7. \A b \in DOMAIN n : [n[b] EXCEPT !.value = Modifier[@]] = Rec(n[b].right, Modifier[n[b].value], n[b].left)
  <2> SUFFICES ASSUME NEW b \in DOMAIN n
               PROVE  [n[b] EXCEPT !.value = Modifier[@]] = Rec(n[b].right, Modifier[n[b].value], n[b].left)
    OBVIOUS
  <2>1. PICK p, q, w : p = n[b].right /\ q = n[b].value /\ w = n[b].left
    OBVIOUS
  <2>2. n[b] = Rec(p, q, w)
    BY <1>4, <2>1 DEF IsNodes
  <2>3. [Rec(p, q, w) EXCEPT !.value = Modifier[@]] = Rec(p, Modifier[q], w)
    BY DEF Rec
  <2> QED
    BY <2>1, <2>2, <2>3
<1>8. Revalued(n2, n, t, v)
  <2>1. DOMAIN n2 = DOMAIN n /\ n2 = [y \in DOMAIN n |-> n2[y]]
    BY <1>6
  <2>2. ASSUME NEW p \in 1 .. Len(t) PROVE n2[t[p]] = Rec(n[t[p]].right, v[p], n[t[p]].left)
    <3>1. t[p] \in Held(t) /\ t[p] \in DOMAIN n
      BY <1>2 DEF Held
    <3>2. n2[t[p]] = Rec(n[t[p]].right, Modifier[n[t[p]].value], n[t[p]].left)
      BY <1>6, <1>7, <3>1
    <3>3. n[t[p]].value = s[l][p]
      BY <1>2, RecIs DEF Laid
    <3> QED
      BY <1>3, <3>2, <3>3
  <2>3. \A y \in DOMAIN n : y \notin Held(t) => n2[y] = n[y]
    BY <1>6
  <2> QED
    BY <2>1, <2>2, <2>3 DEF Revalued
<1>9. Shape([node |-> n2, root |-> h.root], ids, c, [s EXCEPT ![l] = v])
  BY <1>1, <1>3, <1>8, RevalueShape
<1>10. ListMap(h, l) = [node |-> n2, root |-> h.root]
  <2>1. PICK r : r = h.root
    OBVIOUS
  <2>2. h = [node |-> n, root |-> r]
    BY <1>1, <2>1, ShapeNodes
  <2>3. n2 = [b \in DOMAIN h.node |-> IF b \in Range(LOOP_LIST(h, l))
                                     THEN [h.node[b] EXCEPT !.value = Modifier[@]] ELSE h.node[b]]
    BY <1>1, <1>5, <1>6
  <2>4. ListMap(h, l) = [h EXCEPT !.node = n2]
    BY <2>3 DEF ListMap
  <2> QED
    BY <2>1, <2>2, <2>4
<1> QED
  BY <1>9, <1>10

-----------------------------------------------------------------------------
(* Copying element by element.                                              *)

LEMMA RoomLeft ==
  ASSUME NEW h, NEW h2, NEW b \in Blocks, b \notin DOMAIN h.node,
         DOMAIN h2.node = DOMAIN h.node \cup {b}, NEW k \in Nat, Room(h, k + 1)
  PROVE  Room(h2, k)
<1>1. PICK F : F = Blocks \ DOMAIN h.node
  OBVIOUS
<1>2. IsFiniteSet(F)
  BY <1>1, FS_Subset, LinkedListAssumption
<1>3. Cardinality(F) \in Nat /\ Cardinality(F) >= k + 1
  BY <1>1, <1>2, FS_CardinalityType DEF Room
<1>4. b \in F
  BY <1>1
<1>5. Cardinality(F \ {b}) = Cardinality(F) - 1
  BY <1>2, <1>4, FS_RemoveElement
<1>6. Blocks \ DOMAIN h2.node = F \ {b}
  BY <1>1
<1>7. Cardinality(F) - 1 >= k
  BY <1>3
<1> QED
  BY <1>5, <1>6, <1>7 DEF Room

(* Room for more is room for less.                                          *)
LEMMA RoomFor ==
  ASSUME NEW h, NEW k \in Nat, NEW j \in Nat, j <= k, Room(h, k)
  PROVE  Room(h, j)
<1>1. PICK F : F = Blocks \ DOMAIN h.node
  OBVIOUS
<1>2. IsFiniteSet(F)
  BY <1>1, FS_Subset, LinkedListAssumption
<1>3. Cardinality(F) \in Nat /\ Cardinality(F) >= k
  BY <1>1, <1>2, FS_CardinalityType DEF Room
<1>4. Cardinality(F) >= j
  BY <1>3
<1> QED
  BY <1>1, <1>4 DEF Room

(* f[k] is the heap after the first k elements of v were pushed.            *)
Pushes(f, h, l, v, m) ==
  f = [k \in 0 .. m |-> IF k = 0 THEN h ELSE ListPushBack(f[k-1], l, v[k])]

LEMMA PushesExist ==
  ASSUME NEW h, NEW l, NEW v, NEW m \in Nat
  PROVE  \E f : Pushes(f, h, l, v, m)
<1> DEFINE S == {j \in Nat : \E f : Pushes(f, h, l, v, j)}
           next(g, k) == IF k = 0 THEN h ELSE ListPushBack(g[k-1], l, v[k])
<1>1. 0 \in S
  <2> DEFINE f == [k \in 0 .. 0 |-> h]
  <2>1. f = [k \in 0 .. 0 |-> next(f, k)]
    OBVIOUS
  <2> HIDE DEF f
  <2>2. Pushes(f, h, l, v, 0)
    BY <2>1 DEF Pushes
  <2> QED
    BY <2>2
<1>2. ASSUME NEW j \in Nat, j \in S PROVE j + 1 \in S
  <2>1. PICK f : Pushes(f, h, l, v, j)
    BY <1>2
  <2> DEFINE g == [k \in 0 .. (j + 1) |-> next(f, k)]
  <2>2. f = [k \in 0 .. j |-> next(f, k)]
    BY <2>1 DEF Pushes
  <2> HIDE DEF next
  <2>3. \A k \in 0 .. j : f[k] = next(f, k)
    BY <2>2
  <2>4. \A k \in 0 .. j : g[k] = f[k]
    BY <2>3
  <2>5. ASSUME NEW k \in 0 .. (j + 1) PROVE g[k] = next(g, k)
    <3>1. g[k] = next(f, k)
      OBVIOUS
    <3>2. CASE k = 0
      BY <3>1, <3>2 DEF next
    <3>3. CASE k # 0
      <4>1. k - 1 \in 0 .. j
        BY <3>3
      <4>2. g[k - 1] = f[k - 1]
        BY <2>4, <4>1
      <4> HIDE DEF g
      <4> QED
        BY <3>1, <4>2 DEF next
    <3> QED
      BY <3>2, <3>3
  <2>6. g = [k \in 0 .. (j + 1) |-> g[k]]
    OBVIOUS
  <2> HIDE DEF g
  <2>7. g = [k \in 0 .. (j + 1) |-> next(g, k)]
    BY <2>5, <2>6
  <2>8. Pushes(g, h, l, v, j + 1)
    BY <2>7 DEF Pushes, next
  <2> QED
    BY <2>8
<1>3. Nat \subseteq S
  <2> HIDE DEF S
  <2> QED
    BY <1>1, <1>2, NatInductive
<1> QED
  BY <1>3

LEMMA PushesStep ==
  ASSUME NEW f, NEW h, NEW l, NEW v, NEW m \in Nat, Pushes(f, h, l, v, m)
  PROVE  f[0] = h /\ \A k \in 1 .. m : f[k] = ListPushBack(f[k-1], l, v[k])
<1> DEFINE next(k) == IF k = 0 THEN h ELSE ListPushBack(f[k-1], l, v[k])
<1>1. f = [k \in 0 .. m |-> next(k)]
  BY DEF Pushes
<1> HIDE DEF next
<1>2. \A k \in 0 .. m : f[k] = next(k)
  BY <1>1
<1> QED
  BY <1>2 DEF next

(* The first k elements of v are pushed, and there is room for the others.  *)
Filled(g, ids, s, l, w, v, k) ==
  /\ Room(g, Len(v) - k)
  /\ \E c2 : Shape(g, ids, c2, [s EXCEPT ![l] = w \o SubSeq(v, 1, k)])

(* Pushed one after the other, the elements of v follow those of the list.  *)
LEMMA PushedShape ==
  ASSUME NEW h, NEW ids, NEW c, NEW s, Shape(h, ids, c, s), NEW l \in ids,
         NEW v \in Seq(Element), Room(h, Len(v)), NEW f, Pushes(f, h, l, v, Len(v))
  PROVE  \E c2 : Shape(f[Len(v)], ids, c2, [s EXCEPT ![l] = @ \o v])
<1>1. PICK n, w : n = Len(v) /\ w = s[l]
  OBVIOUS
<1>2. n \in Nat /\ w \in Seq(Element) /\ s \in [ids -> Seq(Element)]
  <2>1. n \in Nat
    BY <1>1, LenProperties
  <2>2. w \in Seq(Element)
    BY <1>1, ListOf
  <2> QED
    BY <2>1, <2>2 DEF Shape
<1> DEFINE T(k) == [s EXCEPT ![l] = w \o SubSeq(v, 1, k)]
           S == {k \in Nat : k <= n => Filled(f[k], ids, s, l, w, v, k)}
<1>3. f[0] = h /\ \A k \in 1 .. n : f[k] = ListPushBack(f[k-1], l, v[k])
  BY <1>1, <1>2, PushesStep
<1>4. 0 \in S
  <2>1. SubSeq(v, 1, 0) = <<>>
    BY SubSeqEmpty
  <2>2. w \o SubSeq(v, 1, 0) = w
    BY <1>2, <2>1, ConcatEmptySeq
  <2>3. T(0) = s
    BY <1>1, <1>2, <2>2
  <2>4. n - 0 = n
    BY <1>2
  <2>5. Room(f[0], n - 0) /\ Shape(f[0], ids, c, T(0))
    BY <1>1, <1>3, <2>3, <2>4
  <2>6. Filled(f[0], ids, s, l, w, v, 0)
    BY <1>1, <2>5 DEF Filled
  <2> QED
    BY <2>6
<1>5. ASSUME NEW k \in Nat, k \in S PROVE k + 1 \in S
  <2> SUFFICES ASSUME k + 1 <= n
               PROVE  Filled(f[k + 1], ids, s, l, w, v, k + 1)
    OBVIOUS
  <2>1. k <= n /\ k + 1 \in 1 .. n /\ (k + 1) - 1 = k /\ n - (k + 1) \in Nat
        /\ n - k = (n - (k + 1)) + 1 /\ n - k \in Nat /\ 1 <= n - k
    BY <1>2
  <2>a. Filled(f[k], ids, s, l, w, v, k)
    BY <1>5, <2>1
  <2>2. PICK c2 : Shape(f[k], ids, c2, T(k))
    BY <2>a DEF Filled
  <2>3. Room(f[k], n - k)
    BY <1>1, <2>a DEF Filled
  <2>4. Room(f[k], 1)
    BY <2>1, <2>3, RoomFor
  <2>5. PICK e : e = v[k + 1]
    OBVIOUS
  <2>6. e \in Element
    BY <1>1, <2>1, <2>5, ElementOfSeq
  <2>7. PICK s2 : s2 = T(k)
    OBVIOUS
  <2>8. Shape(f[k], ids, c2, s2)
    BY <2>2, <2>7
  <2>9. PICK b \in Blocks :
          /\ b \notin DOMAIN f[k].node
          /\ DOMAIN ListPushBack(f[k], l, e).node = DOMAIN f[k].node \cup {b}
          /\ Shape(ListPushBack(f[k], l, e), ids, [c2 EXCEPT ![l] = Append(@, b)],
                   [s2 EXCEPT ![l] = Append(@, e)])
    BY <2>4, <2>6, <2>8, PushBackShape
  <2>10. f[k + 1] = ListPushBack(f[k], l, e)
    BY <1>3, <2>1, <2>5
  <2>11. Room(f[k + 1], n - (k + 1))
    <3>1. PICK r : r = n - (k + 1)
      OBVIOUS
    <3>2. r \in Nat /\ Room(f[k], r + 1)
      BY <2>1, <2>3, <3>1
    <3>3. DOMAIN f[k + 1].node = DOMAIN f[k].node \cup {b}
      BY <2>9, <2>10
    <3>4. Room(f[k + 1], r)
      BY <2>9, <3>2, <3>3, RoomLeft
    <3> QED
      BY <3>1, <3>4
  <2>12. Append(w \o SubSeq(v, 1, k), e) = w \o SubSeq(v, 1, k + 1)
    <3>1. PICK p, q : p = SubSeq(v, 1, k) /\ q = SubSeq(v, 1, k + 1)
      OBVIOUS
    <3>2. p \in Seq(Element)
      <4>1. \A i \in 1 .. k : v[i] \in Element
        BY <1>1, <1>2, <2>1, ElementOfSeq
      <4> QED
        BY <3>1, <4>1, SubSeqProperties
    <3>3. q = p \o <<e>>
      <4>1. 1 \in 1 .. Len(v) /\ k + 1 \in 1 .. Len(v)
        BY <1>1, <1>2, <2>1
      <4>2. SubSeq(v, 1, k + 1) = SubSeq(v, 1, (k + 1) - 1) \o <<v[k + 1]>>
        BY <4>1, SubSeqRecursiveSecond
      <4> QED
        BY <2>1, <2>5, <3>1, <4>2
    <3>4. <<e>> \in Seq(Element)
      BY <2>6
    <3>5. w \o p \in Seq(Element)
      BY <1>2, <3>2, ConcatProperties
    <3>6. Append(w \o p, e) = (w \o p) \o <<e>>
      BY <2>6, <3>5, AppendIsConcat
    <3>7. (w \o p) \o <<e>> = w \o (p \o <<e>>)
      <4>1. w \in Seq(Element)
        BY <1>2
      <4> QED
        BY <3>2, <3>4, <4>1, ConcatAssociative
    <3>8. Append(w \o p, e) = w \o q
      BY <3>3, <3>6, <3>7, Zenon
    <3> QED
      BY <3>1, <3>8, Zenon
  <2>13. [s2 EXCEPT ![l] = Append(@, e)] = T(k + 1)
    <3>1. s2[l] = w \o SubSeq(v, 1, k)
      BY <1>2, <2>7
    <3>2. [s2 EXCEPT ![l] = Append(@, e)] = [s2 EXCEPT ![l] = w \o SubSeq(v, 1, k + 1)]
      BY <2>12, <3>1
    <3>3. PICK x, y : x = w \o SubSeq(v, 1, k) /\ y = w \o SubSeq(v, 1, k + 1)
      OBVIOUS
    <3>4. [[s EXCEPT ![l] = x] EXCEPT ![l] = y] = [s EXCEPT ![l] = y]
      BY <1>2
    <3> QED
      BY <2>7, <3>2, <3>3, <3>4
  <2>14. Shape(f[k + 1], ids, [c2 EXCEPT ![l] = Append(@, b)], T(k + 1))
    BY <2>9, <2>10, <2>13
  <2> QED
    BY <1>1, <2>11, <2>14 DEF Filled
<1>6. Nat \subseteq S
  <2> HIDE DEF S
  <2> QED
    BY <1>4, <1>5, NatInductive
<1>7. PICK c2 : Shape(f[n], ids, c2, T(n))
  <2>1. Filled(f[n], ids, s, l, w, v, n)
    BY <1>2, <1>6
  <2> QED
    BY <2>1 DEF Filled
<1>8. T(n) = [s EXCEPT ![l] = @ \o v]
  <2>1. SubSeq(v, 1, n) = v
    BY <1>1, SubSeqFull
  <2> QED
    BY <1>1, <2>1
<1> QED
  BY <1>1, <1>7, <1>8

LEMMA CopyIntoShape ==
  ASSUME NEW h, NEW ids, NEW c, NEW s, Shape(h, ids, c, s), NEW l \in ids, NEW m \in ids,
         Room(h, Len(s[l]))
  PROVE  \E c2 : Shape(ListCopyInto(h, l, m), ids, c2, [s EXCEPT ![m] = @ \o s[l]])
<1>1. PICK v : v = Values(h, l)
  OBVIOUS
<1>2. v = s[l] /\ v \in Seq(Element) /\ Len(v) \in Nat
  <2>1. v = s[l]
    BY <1>1, ValuesAre
  <2>2. v \in Seq(Element)
    BY <2>1, ListOf
  <2> QED
    BY <2>1, <2>2, LenProperties
<1>3. PICK f : Pushes(f, h, m, v, Len(v)) /\ ListCopyInto(h, l, m) = f[Len(v)]
  <2> DEFINE f == CHOOSE f : Pushes(f, h, m, Values(h, l), Len(Values(h, l)))
  <2>1. ListCopyInto(h, l, m) = f[Len(Values(h, l))]
    BY DEF ListCopyInto, Pushes
  <2> HIDE DEF f
  <2>2. Pushes(f, h, m, Values(h, l), Len(Values(h, l)))
    BY <1>1, <1>2, PushesExist DEF f
  <2> QED
    BY <1>1, <2>1, <2>2
<1>4. \E c2 : Shape(f[Len(v)], ids, c2, [s EXCEPT ![m] = @ \o v])
  BY <1>2, <1>3, PushedShape
<1> QED
  BY <1>2, <1>3, <1>4

-----------------------------------------------------------------------------
(* Copying into new nodes, a long list as one chunk of them.                *)

LEMMA ChunkIs ==
  ASSUME NEW h, NEW n \in Nat, Room(h, n), NEW u, u = SubSeq(SetToSeq(Blocks \ DOMAIN h.node), 1, n)
  PROVE  /\ u \in Seq(Blocks) /\ Len(u) = n /\ Distinct(u)
         /\ \A b \in Held(u) : b \notin DOMAIN h.node
<1>1. PICK F, N, f : F = Blocks \ DOMAIN h.node /\ N = Cardinality(F) /\ f = SetToSeq(F)
  OBVIOUS
<1>2. IsFiniteSet(F)
  BY <1>1, FS_Subset, LinkedListAssumption
<1>3. N \in Nat /\ N >= n
  BY <1>1, <1>2, FS_CardinalityType DEF Room
<1>4. f \in [1 .. N -> F] /\ IsInjective(f)
  <2>1. ExistsBijection(1 .. N, F)
    BY <1>1, <1>2, FS_CardinalityType
  <2>2. PICK g : g \in Bijection(1 .. N, F)
    BY <2>1 DEF ExistsBijection
  <2>3. g \in [1 .. N -> F] /\ IsInjective(g)
    BY <2>2 DEF Bijection, Injection, IsInjective
  <2>4. \E g2 \in [1 .. N -> F] : IsInjective(g2)
    BY <2>3
  <2>5. f = CHOOSE g2 \in [1 .. N -> F] : IsInjective(g2)
    BY <1>1 DEF SetToSeq
  <2> QED
    BY <2>4, <2>5
<1>5. \A p \in 1 .. n : p \in 1 .. N /\ f[p] \in F /\ f[p] \in Blocks
  <2> SUFFICES ASSUME NEW p \in 1 .. n PROVE p \in 1 .. N /\ f[p] \in F /\ f[p] \in Blocks
    OBVIOUS
  <2>1. p \in 1 .. N
    BY <1>3
  <2>2. f[p] \in F
    BY <1>4, <2>1
  <2> QED
    BY <1>1, <2>1, <2>2
<1>6. u \in Seq(Blocks) /\ Len(u) = n /\ \A p \in 1 .. n : u[p] = f[p]
  <2>1. f \in Seq(Blocks) /\ Len(f) = N
    <3>1. f \in [1 .. N -> Blocks]
      BY <1>1, <1>4
    <3> QED
      BY <1>3, <3>1
  <2>2. PICK i : i = 1
    OBVIOUS
  <2>3. i \in 1 .. Len(f) + 1 /\ n \in i - 1 .. Len(f) /\ n - i + 1 = n
    BY <1>3, <2>1, <2>2
  <2>4. /\ SubSeq(f, i, n) \in Seq(Blocks) /\ Len(SubSeq(f, i, n)) = n - i + 1
        /\ \A p \in 1 .. n - i + 1 : SubSeq(f, i, n)[p] = f[p + i - 1]
    BY <2>1, <2>3, PartIs
  <2>5. \A p \in 1 .. n : p + i - 1 = p
    BY <2>2
  <2>6. u = SubSeq(f, i, n)
    BY <1>1, <2>2
  <2> QED
    BY <2>3, <2>4, <2>5, <2>6
<1>7. Distinct(u)
  <2> SUFFICES ASSUME NEW p \in 1 .. n, NEW q \in 1 .. n, u[p] = u[q] PROVE p = q
    BY <1>6 DEF Distinct
  <2>1. f[p] = f[q] /\ p \in 1 .. N /\ q \in 1 .. N /\ DOMAIN f = 1 .. N
    BY <1>4, <1>5, <1>6
  <2> QED
    BY <1>4, <2>1 DEF IsInjective
<1>8. \A b \in Held(u) : b \notin DOMAIN h.node
  BY <1>1, <1>5, <1>6 DEF Held
<1> QED
  BY <1>6, <1>7, <1>8

(* The chunk linked to a list that was empty.                               *)
LEMMA LinkedChunk ==
  ASSUME NEW h, NEW ids, NEW c, NEW s, Shape(h, ids, c, s), NEW l \in ids, c[l] = <<>>,
         NEW u \in Seq(Blocks), Distinct(u), \A b \in Held(u) : b \notin DOMAIN h.node,
         NEW v \in Seq(Element), Len(v) = Len(u), NEW n2,
         n2 = [b \in DOMAIN n2 |-> n2[b]], DOMAIN n2 = DOMAIN h.node \cup Held(u), Laid(n2, u, v),
         \A b \in DOMAIN h.node : n2[b] = h.node[b]
  PROVE  Shape([node |-> n2, root |-> [h.root EXCEPT ![l] = Ends(u)]],
               ids, [c EXCEPT ![l] = u], [s EXCEPT ![l] = v])
<1>1. Held(c[l]) = {}
  BY DEF Held
<1>2. Rewrites(h, c[l], u, v, n2)
  BY <1>1 DEF Rewrites
<1> QED
  BY <1>2, OneList

LEMMA CopyShape ==
  ASSUME NEW h, NEW ids, NEW c, NEW s, Shape(h, ids, c, s), NEW l \in ids, NEW m \in ids,
         Room(h, Len(s[l])), c[m] = <<>>
  PROVE  \E c2 : Shape(ListCopy(h, l, m), ids, c2, [s EXCEPT ![m] = s[l]])
<1>1. PICK v : v = s[l]
  OBVIOUS
<1>2. Values(h, l) = v
  BY <1>1, ValuesAre
<1>3. v \in Seq(Element) /\ Len(v) \in Nat
  <2>1. v \in Seq(Element)
    BY <1>1, ListOf
  <2> QED
    BY <2>1, LenProperties
<1>4. CASE Len(v) < CopyChunk
  <2>1. ListCopy(h, l, m) = ListCopyInto(h, l, m)
    BY <1>2, <1>4 DEF ListCopy
  <2>2. PICK c2 : Shape(ListCopyInto(h, l, m), ids, c2, [s EXCEPT ![m] = @ \o s[l]])
    BY CopyIntoShape
  <2>3. s[m] = <<>>
    <3>1. Len(c[m]) = 0
      OBVIOUS
    <3> QED
      BY <3>1, EmptyRoot
  <2>4. s[m] \o s[l] = s[l]
    BY <1>1, <1>3, <2>3, ConcatEmptySeq
  <2>5. [s EXCEPT ![m] = @ \o s[l]] = [s EXCEPT ![m] = s[l]]
    BY <2>4
  <2> QED
    BY <2>1, <2>2, <2>5
<1>5. CASE ~ (Len(v) < CopyChunk)
  <2> DEFINE n == Len(Values(h, l))
             chunk == SubSeq(SetToSeq(Blocks \ DOMAIN h.node), 1, n)
             At(k) == IF k \in 1 .. n THEN chunk[k] ELSE NULL
             linked == [b \in Range(chunk) |->
                          LET k == CHOOSE i \in 1 .. n : chunk[i] = b
                          IN  [right |-> At(k+1), value |-> Values(h, l)[k], left |-> At(k-1)]]
             node == [b \in DOMAIN h.node \cup Range(chunk) |->
                         IF b \in Range(chunk) THEN linked[b] ELSE h.node[b]]
  <2>1. ListCopy(h, l, m) = [node |-> node, root |-> WithRoot(h, m, At(1), At(n))]
    <3>1. ListCopy(h, l, m) = IF n < CopyChunk THEN ListCopyInto(h, l, m)
                              ELSE [node |-> node, root |-> WithRoot(h, m, At(1), At(n))]
      BY DEF ListCopy
    <3>2. ~ (n < CopyChunk)
      BY <1>2, <1>5
    <3> HIDE DEF n, node, At
    <3> QED
      BY <3>1, <3>2
  <2>2. n = Len(v) /\ n \in Nat
    BY <1>2, <1>3
  <2> HIDE DEF n
  <2>3. /\ chunk \in Seq(Blocks) /\ Len(chunk) = n /\ Distinct(chunk)
        /\ \A b \in Held(chunk) : b \notin DOMAIN h.node
    <3>1. Room(h, n)
      BY <1>1, <2>2
    <3>2. PICK u : u = chunk
      OBVIOUS
    <3>3. u = SubSeq(SetToSeq(Blocks \ DOMAIN h.node), 1, n)
      BY <3>2
    <3> HIDE DEF chunk
    <3>4. /\ u \in Seq(Blocks) /\ Len(u) = n /\ Distinct(u)
          /\ \A b \in Held(u) : b \notin DOMAIN h.node
      BY <2>2, <3>1, <3>3, ChunkIs
    <3> QED
      BY <3>2, <3>4
  <2> HIDE DEF chunk
  <2>4. Range(chunk) = Held(chunk)
    BY <2>3, RangeEquality DEF Held
  <2>5. \A k : At(k) = Nth(chunk, k)
    BY <2>3 DEF Nth
  <2> HIDE DEF At
  <2>6. ASSUME NEW p \in 1 .. n
        PROVE  linked[chunk[p]] = Rec(Nth(chunk, p + 1), v[p], Nth(chunk, p - 1))
    <3>1. PICK k : k = CHOOSE i \in 1 .. n : chunk[i] = chunk[p]
      OBVIOUS
    <3>2. \E i \in 1 .. n : chunk[i] = chunk[p]
      OBVIOUS
    <3>3. k \in 1 .. n /\ chunk[k] = chunk[p]
      BY <3>1, <3>2
    <3>4. k = p
      BY <2>3, <3>3 DEF Distinct
    <3>5. chunk[p] \in Range(chunk)
      BY <2>3, <2>4 DEF Held
    <3>6. linked[chunk[p]] = [right |-> At(k+1), value |-> Values(h, l)[k], left |-> At(k-1)]
      BY <3>1, <3>5
    <3> HIDE DEF linked
    <3>7. linked[chunk[p]] = Rec(At(p+1), v[p], At(p-1))
      BY <1>2, <3>4, <3>6 DEF Rec
    <3> QED
      BY <2>5, <3>7
  <2> HIDE DEF linked
  <2>7. DOMAIN node = DOMAIN h.node \cup Held(chunk) /\ node = [b \in DOMAIN node |-> node[b]]
    BY <2>4
  <2>8. \A b \in DOMAIN h.node : node[b] = h.node[b]
    BY <2>3, <2>4
  <2>9. Laid(node, chunk, v)
    <3> SUFFICES ASSUME NEW p \in 1 .. n
                 PROVE  node[chunk[p]] = Rec(Nth(chunk, p + 1), v[p], Nth(chunk, p - 1))
      BY <2>3 DEF Laid
    <3>1. chunk[p] \in Held(chunk)
      BY <2>3 DEF Held
    <3>2. node[chunk[p]] = linked[chunk[p]]
      BY <2>4, <3>1
    <3> QED
      BY <2>6, <3>2
  <2> HIDE DEF node
  <2>10. Len(v) = Len(chunk)
    BY <2>2, <2>3
  <2>11. Shape([node |-> node, root |-> [h.root EXCEPT ![m] = Ends(chunk)]],
               ids, [c EXCEPT ![m] = chunk], [s EXCEPT ![m] = v])
    BY <1>3, <2>3, <2>7, <2>8, <2>9, <2>10, LinkedChunk
  <2>12. WithRoot(h, m, At(1), At(n)) = [h.root EXCEPT ![m] = Ends(chunk)]
    BY <2>3, <2>5 DEF WithRoot, Ends
  <2> QED
    BY <1>1, <2>1, <2>11, <2>12
<1> QED
  BY <1>4, <1>5

LEMMA DeepCopyShape ==
  ASSUME NEW h, NEW ids, NEW c, NEW s, Shape(h, ids, c, s), NEW l \in ids, NEW m \in ids,
         Room(h, Len(s[l])), c[m] = <<>>, NEW w, w = [k \in DOMAIN s[l] |-> Modifier[s[l][k]]]
  PROVE  \E c2 : Shape(ListDeepCopy(h, l, m), ids, c2, [s EXCEPT ![m] = w])
<1>1. PICK h2 : h2 = ListCopy(h, l, m)
  OBVIOUS
<1>2. PICK c2 : Shape(h2, ids, c2, [s EXCEPT ![m] = s[l]])
  BY <1>1, CopyShape
<1>3. PICK s2, v : s2 = [s EXCEPT ![m] = s[l]] /\ v = s[l]
  OBVIOUS
<1>4. s2[m] = v /\ s \in [ids -> Seq(Element)]
  BY <1>3 DEF Shape
<1>5. w = [k \in DOMAIN s2[m] |-> Modifier[s2[m][k]]]
  BY <1>3, <1>4
<1>6. Shape(ListMap(h2, m), ids, c2, [s2 EXCEPT ![m] = w])
  <2>1. Shape(h2, ids, c2, s2)
    BY <1>2, <1>3
  <2> QED
    BY <1>5, <2>1, MapShape
<1>7. [s2 EXCEPT ![m] = w] = [s EXCEPT ![m] = w]
  BY <1>3, <1>4
<1> QED
  BY <1>1, <1>3, <1>6, <1>7 DEF ListDeepCopy

-----------------------------------------------------------------------------
(* The wrapper of an insertion: a list comes and goes that the program does *)
(* not name.                                                                *)

(* The lists ids2 are the lists ids, up to empty ones.                      *)
Regroups(ids, c, s, ids2, c2, s2) ==
  /\ c2 \in [ids2 -> Seq(Blocks)] /\ s2 \in [ids2 -> Seq(Element)]
  /\ \A i \in ids : i \in ids2 => c2[i] = c[i] /\ s2[i] = s[i]
  /\ \A i \in ids2 : i \notin ids => c2[i] = <<>> /\ s2[i] = <<>>
  /\ \A i \in ids : i \notin ids2 => c[i] = <<>>

LEMMA RegroupShape ==
  ASSUME NEW h, NEW ids, NEW c, NEW s, Shape(h, ids, c, s), NEW ids2, NEW c2, NEW s2,
         Regroups(ids, c, s, ids2, c2, s2), NEW h2, h2 = [node |-> h.node, root |-> Roots(ids2, c2)]
  PROVE  Shape(h2, ids2, c2, s2)
<1>1. PICK n, e : n = h.node /\ e = <<>>
  OBVIOUS
<1>2. h2.node = n /\ h2 = [node |-> h2.node, root |-> Roots(ids2, c2)]
  BY <1>1
<1>3. Len(e) = 0 /\ Distinct(e) /\ Laid(n, e, e) /\ Held(e) = {}
  BY <1>1 DEF Distinct, Laid, Held
<1>4. ASSUME NEW i \in ids2
      PROVE  Len(s2[i]) = Len(c2[i]) /\ Distinct(c2[i]) /\ Laid(n, c2[i], s2[i])
  <2>1. CASE i \in ids
    <3>1. c2[i] = c[i] /\ s2[i] = s[i]
      BY <2>1 DEF Regroups
    <3> QED
      BY <1>1, <2>1, <3>1, ListOf
  <2>2. CASE i \notin ids
    <3>1. c2[i] = e /\ s2[i] = e
      BY <1>1, <2>2 DEF Regroups
    <3> QED
      BY <1>3, <3>1
  <2> QED
    BY <2>1, <2>2
<1>5. \A i : \A b : i \in ids2 /\ b \in Held(c2[i]) <=> i \in ids2 /\ i \in ids /\ b \in Held(c[i])
  <2> SUFFICES ASSUME NEW i \in ids2, NEW b
               PROVE  b \in Held(c2[i]) <=> i \in ids /\ b \in Held(c[i])
    OBVIOUS
  <2>1. CASE i \in ids
    <3>1. c2[i] = c[i]
      BY <2>1 DEF Regroups
    <3> QED
      BY <2>1, <3>1
  <2>2. CASE i \notin ids
    <3>1. c2[i] = e
      BY <1>1, <2>2 DEF Regroups
    <3> QED
      BY <1>3, <2>2, <3>1
  <2> QED
    BY <2>1, <2>2
<1>6. \A i \in ids : \A b \in Held(c[i]) : i \in ids2
  <2> SUFFICES ASSUME NEW i \in ids, i \notin ids2 PROVE Held(c[i]) = {}
    OBVIOUS
  <2>1. c[i] = e
    BY <1>1 DEF Regroups
  <2> QED
    BY <1>3, <2>1
<1>7. Apart(ids2, c2)
  <2>1. Apart(ids, c)
    BY DEF Shape
  <2> QED
    BY <1>5, <2>1 DEF Apart
<1>8. Covers(n, ids2, c2)
  <2>1. \A b : b \in DOMAIN n <=> \E i \in ids : b \in Held(c[i])
    BY <1>1, ShapeOf
  <2>2. \A b : b \in DOMAIN n <=> \E i \in ids2 : b \in Held(c2[i])
    BY <1>5, <1>6, <2>1
  <2>3. \A b : b \in UNION {Held(c2[i]) : i \in ids2} <=> \E i \in ids2 : b \in Held(c2[i])
    OBVIOUS
  <2>4. DOMAIN n = UNION {Held(c2[i]) : i \in ids2}
    BY <2>2, <2>3
  <2>5. n = [b \in DOMAIN n |-> n[b]]
    BY <1>1, ShapeOf
  <2> QED
    BY <2>4, <2>5 DEF Covers
<1>9. c2 \in [ids2 -> Seq(Blocks)] /\ s2 \in [ids2 -> Seq(Element)]
  BY DEF Regroups
<1> QED
  BY <1>2, <1>4, <1>7, <1>8, <1>9 DEF Shape

LEMMA InsertElementShape ==
  ASSUME NEW h, NEW ids, NEW c, NEW s, Shape(h, ids, c, s), NULL \notin ids, NEW l \in ids,
         NEW k \in 1 .. Len(c[l]), NEW e \in Element, Room(h, 1)
  PROVE  \E c2 : Shape(ListInsertElementAt(h, l, c[l][k], e), ids, c2,
                       [s EXCEPT ![l] = Joined(@, k, <<e>>)])
<1>1. PICK J, none : J = ids \cup {NULL} /\ none = <<>>
  OBVIOUS
<1>2. c \in [ids -> Seq(Blocks)] /\ s \in [ids -> Seq(Element)] /\ l # NULL /\ l \in J /\ NULL \in J
  BY <1>1 DEF Shape
<1>3. PICK c1, s1 : /\ c1 = [i \in J |-> IF i = NULL THEN none ELSE c[i]]
                    /\ s1 = [i \in J |-> IF i = NULL THEN none ELSE s[i]]
  OBVIOUS
<1>4. Regroups(ids, c, s, J, c1, s1)
  <2>1. none \in Seq(Blocks) /\ none \in Seq(Element)
    BY <1>1
  <2>2. c1 \in [J -> Seq(Blocks)] /\ s1 \in [J -> Seq(Element)]
    BY <1>1, <1>2, <1>3, <2>1
  <2> QED
    BY <1>1, <1>3, <2>2 DEF Regroups
<1>5. PICK h1 : h1 = [h EXCEPT !.root = [i \in DOMAIN @ \cup {NULL} |-> IF i = NULL THEN ListNew ELSE @[i]]]
  OBVIOUS
<1>6. h1 = [node |-> h.node, root |-> Roots(J, c1)]
  <2>1. h = [node |-> h.node, root |-> h.root] /\ h.root = [i \in ids |-> Ends(c[i])]
    BY DEF Shape, Roots
  <2>2. PICK n, r : n = h.node /\ r = h.root
    OBVIOUS
  <2>3. h = [node |-> n, root |-> r] /\ r = [i \in ids |-> Ends(c[i])]
    BY <2>1, <2>2
  <2>4. h1 = [node |-> n, root |-> [i \in DOMAIN r \cup {NULL} |-> IF i = NULL THEN ListNew ELSE r[i]]]
    BY <1>5, <2>3
  <2>5. Ends(none) = ListNew
    BY <1>1 DEF Ends, Nth, ListNew
  <2>6. \A i \in J : (IF i = NULL THEN ListNew ELSE r[i]) = Ends(c1[i])
    BY <1>1, <1>3, <2>3, <2>5
  <2>7. DOMAIN r \cup {NULL} = J
    BY <1>1, <2>3
  <2>8. [i \in DOMAIN r \cup {NULL} |-> IF i = NULL THEN ListNew ELSE r[i]] = [i \in J |-> Ends(c1[i])]
    BY <2>6, <2>7
  <2> QED
    BY <2>2, <2>4, <2>8 DEF Roots
<1>7. Shape(h1, J, c1, s1)
  BY <1>4, <1>6, RegroupShape
<1>8. Room(h1, 1)
  BY <1>6 DEF Room
<1>9. PICK h2, c2, s2 : /\ h2 = ListPushBack(h1, NULL, e) /\ Shape(h2, J, c2, s2)
                        /\ s2 = [s1 EXCEPT ![NULL] = Append(@, e)]
                        /\ \E b : c2 = [c1 EXCEPT ![NULL] = Append(@, b)]
  <2>1. PICK z : z = NULL
    OBVIOUS
  <2>2. PICK b \in Blocks : Shape(ListPushBack(h1, z, e), J, [c1 EXCEPT ![z] = Append(@, b)],
                                 [s1 EXCEPT ![z] = Append(@, e)])
    BY <1>2, <1>7, <1>8, <2>1, PushBackShape
  <2> QED
    BY <2>1, <2>2
<1>10. c2[l] = c[l] /\ s2[l] = s[l] /\ s2[NULL] = <<e>>
       /\ \A i \in ids : s2[i] = s[i]
  <2>1. c1 \in [J -> Seq(Blocks)] /\ s1 \in [J -> Seq(Element)]
    BY <1>4 DEF Regroups
  <2>2. s1[NULL] = none /\ \A i \in ids : c1[i] = c[i] /\ s1[i] = s[i]
    BY <1>1, <1>3
  <2>3. Append(none, e) = <<e>>
    BY <1>1
  <2>4. s2[NULL] = <<e>> /\ \A i \in ids : s2[i] = s1[i]
    BY <1>2, <1>9, <2>1, <2>2, <2>3
  <2>5. c2[l] = c1[l]
    BY <1>2, <1>9, <2>1
  <2> QED
    BY <2>2, <2>4, <2>5
<1>11. PICK h3, c3, s3 : /\ h3 = ListInsertListAt(h2, l, c[l][k], NULL) /\ Shape(h3, J, c3, s3)
                         /\ s3 = [s2 EXCEPT ![l] = Joined(@, k, s2[NULL]), ![NULL] = <<>>]
  <2>1. k \in 1 .. Len(c2[l]) /\ c2[l][k] = c[l][k]
    BY <1>10
  <2>2. Shape(ListInsertListAt(h2, l, c2[l][k], NULL), J,
              [c2 EXCEPT ![l] = Joined(@, k, c2[NULL]), ![NULL] = <<>>],
              [s2 EXCEPT ![l] = Joined(@, k, s2[NULL]), ![NULL] = <<>>])
    BY <1>2, <1>9, <2>1, InsertListShape
  <2> QED
    BY <2>1, <2>2
<1>12. PICK h4, c4, s4 : /\ h4 = ListDestroy(h3, NULL) /\ Shape(h4, J, c4, s4)
                         /\ c4[NULL] = <<>>
                         /\ s4 = [s3 EXCEPT ![NULL] = <<>>]
  <2>1. Shape(ListDestroy(h3, NULL), J, [c3 EXCEPT ![NULL] = <<>>], [s3 EXCEPT ![NULL] = <<>>])
    BY <1>2, <1>11, DestroyShape
  <2>2. [c3 EXCEPT ![NULL] = <<>>][NULL] = <<>>
    BY <1>2, <1>11 DEF Shape
  <2> QED
    BY <2>1, <2>2
<1>13. PICK c5, s5 : c5 = [i \in ids |-> c4[i]] /\ s5 = [s EXCEPT ![l] = Joined(@, k, <<e>>)]
  OBVIOUS
<1>14. \A i \in ids : s4[i] = s5[i]
  <2>1. s2 \in [J -> Seq(Element)] /\ s3 \in [J -> Seq(Element)]
    BY <1>9, <1>11 DEF Shape
  <2>2. \A i \in ids : i # NULL /\ i \in J
    BY <1>1
  <2>3. \A i \in ids : s4[i] = s3[i]
    BY <1>12, <2>1, <2>2
  <2>4. PICK y : y = Joined(s[l], k, <<e>>)
    OBVIOUS
  <2>5. s3 = [s2 EXCEPT ![l] = y, ![NULL] = <<>>]
    BY <1>10, <1>11, <2>4
  <2>6. \A i \in ids : s3[i] = IF i = l THEN y ELSE s[i]
    BY <1>2, <1>10, <2>1, <2>2, <2>5
  <2>7. s5 = [s EXCEPT ![l] = y]
    BY <1>13, <2>4
  <2>8. \A i \in ids : s5[i] = IF i = l THEN y ELSE s[i]
    BY <1>2, <2>7
  <2> QED
    BY <2>3, <2>6, <2>8
<1>15. Regroups(J, c4, s4, ids, c5, s5)
  <2>1. c4 \in [J -> Seq(Blocks)] /\ s4 \in [J -> Seq(Element)]
    BY <1>12 DEF Shape
  <2>2. c5 \in [ids -> Seq(Blocks)]
    BY <1>1, <1>13, <2>1
  <2>3. s5 \in [ids -> Seq(Element)]
    <3>1. \A i \in ids : s5[i] \in Seq(Element)
      BY <1>1, <1>14, <2>1
    <3>2. DOMAIN s5 = ids /\ s5 = [i \in DOMAIN s5 |-> s5[i]]
      BY <1>2, <1>13
    <3> QED
      BY <3>1, <3>2
  <2>4. \A i \in J : i \in ids => c5[i] = c4[i] /\ s5[i] = s4[i]
    BY <1>13, <1>14
  <2>5. \A i \in J : i \notin ids => c4[i] = <<>>
    BY <1>1, <1>12
  <2>6. \A i \in ids : i \in J
    BY <1>1
  <2> QED
    BY <2>2, <2>3, <2>4, <2>5, <2>6 DEF Regroups
<1>16. PICK h5 : h5 = ListInsertElementAt(h, l, c[l][k], e)
  OBVIOUS
<1>17. h5 = [h4 EXCEPT !.root = [i \in DOMAIN h.root |-> h4.root[i]]]
  BY <1>5, <1>9, <1>11, <1>12, <1>16 DEF ListInsertElementAt
<1>18. h5 = [node |-> h4.node, root |-> Roots(ids, c5)]
  <2>1. PICK n, r : n = h4.node /\ r = h4.root
    OBVIOUS
  <2>2. h4 = [node |-> n, root |-> r] /\ r = [i \in J |-> Ends(c4[i])]
    BY <1>12, <2>1 DEF Shape, Roots
  <2>3. DOMAIN h.root = ids
    BY DEF Shape, Roots
  <2>4. h5 = [node |-> n, root |-> [i \in ids |-> r[i]]]
    BY <1>17, <2>1, <2>2, <2>3
  <2>5. \A i \in ids : r[i] = Ends(c5[i])
    BY <1>1, <1>13, <2>2
  <2>6. [i \in ids |-> r[i]] = [i \in ids |-> Ends(c5[i])]
    BY <2>5
  <2> QED
    BY <2>1, <2>4, <2>6 DEF Roots
<1>19. Shape(h5, ids, c5, s5)
  BY <1>12, <1>15, <1>18, RegroupShape
<1> QED
  BY <1>13, <1>16, <1>19

-----------------------------------------------------------------------------
(* THE INVARIANT: the heap is laid out as some family of sequences.         *)

ListInv == \E c, s : Shape(heap, Lists, c, s)

(* What the lists of a heap hold.                                           *)
Contents(h) == [l \in Lists |-> Values(h, l)]

LEMMA ContentsAre ==
  ASSUME NEW h, NEW c, NEW s, Shape(h, Lists, c, s)
  PROVE  Contents(h) = s
<1>1. s \in [Lists -> Seq(Element)]
  BY DEF Shape
<1>2. \A l \in Lists : Values(h, l) = s[l]
  BY ValuesAre
<1>3. s = [l \in Lists |-> s[l]]
  BY <1>1
<1> QED
  BY <1>2, <1>3 DEF Contents

(* The call k leaves the lists with the contents s2.                        *)
Becomes(s2, k) == ListInv' /\ Contents(heap)' = s2 /\ lcall' = k

LEMMA CallBecomes ==
  ASSUME NEW h2, NEW k, Call(h2, k), NEW c2, NEW s2, Shape(h2, Lists, c2, s2)
  PROVE  Becomes(s2, k)
<1>1. heap' = h2 /\ lcall' = k
  BY DEF Call
<1>2. Contents(h2) = s2
  BY ContentsAre
<1>3. Contents(heap)' = s2
  BY <1>1, <1>2 DEF Contents
<1>4. ListInv'
  BY <1>1 DEF ListInv
<1> QED
  BY <1>1, <1>3, <1>4 DEF Becomes

LEMMA EmptyIs ==
  ASSUME NEW c, NEW s, Shape(heap, Lists, c, s), NEW l \in Lists
  PROVE  /\ IsEmpty(l) <=> Len(c[l]) = 0
         /\ IsEmpty(l) => c[l] = <<>> /\ s[l] = <<>>
<1>1. heap.root[l].begin = NULL <=> Len(c[l]) = 0
  BY EmptyRoot
<1>2. Len(c[l]) = 0 => c[l] = <<>> /\ s[l] = <<>>
  BY EmptyRoot
<1>3. ASSUME Len(c[l]) = 0 PROVE heap.root[l].end = NULL
  <2>1. heap.root[l] = Ends(c[l])
    BY RootOf
  <2>2. heap.root[l].end = Nth(c[l], Len(c[l]))
    BY <2>1 DEF Ends
  <2> QED
    BY <1>3, <2>2 DEF Nth
<1> QED
  BY <1>1, <1>2, <1>3 DEF IsEmpty

LEMMA LayoutInit == ListInit => ListInv /\ ListSeq!Init
<1> SUFFICES ASSUME ListInit PROVE ListInv /\ ListSeq!Init
  OBVIOUS
<1>1. PICK e : e = <<>>
  OBVIOUS
<1>2. PICK s : s = [l \in Lists |-> e]
  OBVIOUS
<1>3. e \in Seq(Blocks) /\ e \in Seq(Element)
  BY <1>1
<1>4. s \in [Lists -> Seq(Blocks)] /\ s \in [Lists -> Seq(Element)]
  BY <1>2, <1>3
<1>5. heap = [node |-> e, root |-> [l \in Lists |-> ListNew]] /\ lcall = <<"new">>
  BY <1>1 DEF ListInit
<1>6. heap.node = e /\ DOMAIN e = {}
  BY <1>1, <1>5
<1>7. Held(e) = {} /\ Distinct(e) /\ Laid(e, e, e) /\ Len(e) = 0 /\ Ends(e) = ListNew
  BY <1>1 DEF Held, Distinct, Laid, Ends, Nth, ListNew
<1>8. \A l \in Lists : s[l] = e
  BY <1>2
<1>9. \A l \in Lists : Len(s[l]) = Len(s[l]) /\ Distinct(s[l]) /\ Laid(heap.node, s[l], s[l])
  BY <1>6, <1>7, <1>8
<1>10. Apart(Lists, s)
  BY <1>7, <1>8 DEF Apart
<1>11. Covers(heap.node, Lists, s)
  <2>1. UNION {Held(s[l]) : l \in Lists} = {}
    BY <1>7, <1>8
  <2>2. e = [b \in {} |-> e[b]]
    BY <1>1
  <2> QED
    BY <1>6, <2>1, <2>2 DEF Covers
<1>12. heap = [node |-> heap.node, root |-> Roots(Lists, s)]
  <2>1. [l \in Lists |-> ListNew] = [l \in Lists |-> Ends(s[l])]
    BY <1>7, <1>8
  <2> QED
    BY <1>5, <1>6, <2>1 DEF Roots
<1>13. Shape(heap, Lists, s, s)
  BY <1>4, <1>9, <1>10, <1>11, <1>12 DEF Shape
<1>14. Contents(heap) = [l \in Lists |-> <<>>]
  BY <1>1, <1>2, <1>13, ContentsAre
<1> QED
  BY <1>5, <1>13, <1>14 DEF ListInv, ListSeq!Init, Contents

-----------------------------------------------------------------------------
(* THE CALLS: each keeps the invariant and is the operation of the sequence *)
(* that it is named after.                                                  *)

LEMMA PushRefines ==
  ASSUME NEW c, NEW s, Shape(heap, Lists, c, s), NEW l \in Lists, NEW v \in Element, Push(l, v)
  PROVE  ListInv' /\ ListSeq!Next
<1>1. Contents(heap) = s
  BY ContentsAre
<1>2. Room(heap, 1)
  BY DEF Push
<1>3. CASE Call(ListPushBack(heap, l, v), <<"PushBack", l, v>>)
  <2>1. PICK b \in Blocks :
          Shape(ListPushBack(heap, l, v), Lists, [c EXCEPT ![l] = Append(@, b)],
                [s EXCEPT ![l] = Append(@, v)])
    BY <1>2, PushBackShape
  <2>2. Becomes([s EXCEPT ![l] = Append(@, v)], <<"PushBack", l, v>>)
    BY <1>3, <2>1, CallBecomes
  <2>3. ListSeq!PushBack(l, v)
    BY <1>1, <2>2 DEF ListSeq!PushBack, Becomes, Contents
  <2> QED
    BY <2>2, <2>3 DEF ListSeq!Next, Becomes
<1>4. CASE Call(ListPushFront(heap, l, v), <<"PushFront", l, v>>)
  <2>1. PICK b \in Blocks :
          Shape(ListPushFront(heap, l, v), Lists, [c EXCEPT ![l] = <<b>> \o @],
                [s EXCEPT ![l] = <<v>> \o @])
    BY <1>2, PushFrontShape
  <2>2. Becomes([s EXCEPT ![l] = <<v>> \o @], <<"PushFront", l, v>>)
    BY <1>4, <2>1, CallBecomes
  <2>3. ListSeq!PushFront(l, v)
    BY <1>1, <2>2 DEF ListSeq!PushFront, Becomes, Contents
  <2> QED
    BY <2>2, <2>3 DEF ListSeq!Next, Becomes
<1> QED
  BY <1>3, <1>4 DEF Push

(* Without its first or its last element.                                   *)
LEMMA RemoveEnds ==
  ASSUME NEW S, NEW t \in Seq(S), Len(t) # 0
  PROVE  RemoveAt(t, 1) = Tail(t) /\ RemoveAt(t, Len(t)) = SubSeq(t, 1, Len(t) - 1)
<1>1. PICK n : n = Len(t)
  OBVIOUS
<1>2. n \in Nat \ {0} /\ t # <<>>
  BY <1>1, LenProperties, EmptySeq
<1>3. RemoveAt(t, 1) = Tail(t)
  <2>1. SubSeq(t, 1, 1 - 1) = <<>>
    BY SubSeqEmpty
  <2>2. Tail(t) = SubSeq(t, 1 + 1, Len(t))
    BY <1>2, TailIsSubSeq
  <2>3. Tail(t) \in Seq(S)
    BY <1>2, HeadTailProperties
  <2>4. <<>> \o Tail(t) = Tail(t)
    BY <2>3, ConcatEmptySeq
  <2> QED
    BY <2>1, <2>2, <2>4 DEF RemoveAt
<1>4. RemoveAt(t, n) = SubSeq(t, 1, n - 1)
  <2>1. SubSeq(t, n + 1, Len(t)) = <<>>
    BY <1>1, <1>2, SubSeqEmpty
  <2>2. PICK i, j : i = 1 /\ j = n - 1
    OBVIOUS
  <2>3. SubSeq(t, i, j) \in Seq(S)
    <3>1. i \in 1 .. Len(t) + 1 /\ j \in i - 1 .. Len(t)
      BY <1>1, <1>2, <2>2
    <3> QED
      BY <3>1, PartIs
  <2>4. SubSeq(t, i, j) \o <<>> = SubSeq(t, i, j)
    BY <2>3, ConcatEmptySeq
  <2> QED
    BY <2>1, <2>2, <2>4 DEF RemoveAt
<1> QED
  BY <1>1, <1>3, <1>4

LEMMA PopRefines ==
  ASSUME NEW c, NEW s, Shape(heap, Lists, c, s), NEW l \in Lists, Pop(l)
  PROVE  ListInv' /\ ListSeq!Next
<1>1. Contents(heap) = s
  BY ContentsAre
<1>2. PICK w : w = s[l]
  OBVIOUS
<1>3. w \in Seq(Element) /\ Len(w) # 0 /\ w # <<>> /\ 1 \in 1 .. Len(c[l])
  <2>1. Len(c[l]) # 0 /\ Len(c[l]) \in Nat
    BY EmptyIs, ListOf DEF Pop
  <2>2. w \in Seq(Element) /\ Len(w) = Len(c[l])
    BY <1>2, ListOf
  <2> QED
    BY <2>1, <2>2, EmptySeq
<1>4. CASE Call(ListPopBack(heap, l), <<"PopBack", l, ListLast(heap, l)>>)
  <2>1. Shape(ListPopBack(heap, l), Lists, [c EXCEPT ![l] = RemoveAt(@, Len(@))],
              [s EXCEPT ![l] = RemoveAt(@, Len(@))])
    BY <1>3, PopBackShape
  <2>2. ListLast(heap, l) = w[Len(w)]
    <3>1. ListLast(heap, l) = s[l][Len(s[l])]
      BY <1>3, <2>1, PopBackShape
    <3> QED
      BY <1>2, <3>1
  <2>3. Becomes([s EXCEPT ![l] = RemoveAt(@, Len(@))], <<"PopBack", l, ListLast(heap, l)>>)
    BY <1>4, <2>1, CallBecomes
  <2>4. [s EXCEPT ![l] = RemoveAt(@, Len(@))] = [s EXCEPT ![l] = SubSeq(@, 1, Len(@) - 1)]
    BY <1>2, <1>3, RemoveEnds
  <2>5. ListSeq!PopBack(l)
    BY <1>1, <1>2, <1>3, <2>2, <2>3, <2>4
    DEF ListSeq!PopBack, ListSeq!Last, ListSeq!Front, Becomes, Contents
  <2> QED
    BY <2>3, <2>5 DEF ListSeq!Next, Becomes
<1>5. CASE Call(ListPopFront(heap, l), <<"PopFront", l, ListFirst(heap, l)>>)
  <2>1. Shape(ListPopFront(heap, l), Lists, [c EXCEPT ![l] = RemoveAt(@, 1)],
              [s EXCEPT ![l] = RemoveAt(@, 1)])
    BY <1>3, PopFrontShape
  <2>2. ListFirst(heap, l) = Head(w)
    <3>1. ListFirst(heap, l) = s[l][1]
      BY <1>3, <2>1, PopFrontShape
    <3>2. Head(w) = w[1]
      BY <1>3
    <3> QED
      BY <1>2, <3>1, <3>2
  <2>3. Becomes([s EXCEPT ![l] = RemoveAt(@, 1)], <<"PopFront", l, ListFirst(heap, l)>>)
    BY <1>5, <2>1, CallBecomes
  <2>4. [s EXCEPT ![l] = RemoveAt(@, 1)] = [s EXCEPT ![l] = Tail(@)]
    BY <1>2, <1>3, RemoveEnds
  <2>5. ListSeq!PopFront(l)
    BY <1>1, <1>2, <1>3, <2>2, <2>3, <2>4 DEF ListSeq!PopFront, Becomes, Contents
  <2> QED
    BY <2>3, <2>5 DEF ListSeq!Next, Becomes
<1> QED
  BY <1>4, <1>5 DEF Pop

LEMMA DiscardRefines ==
  ASSUME NEW c, NEW s, Shape(heap, Lists, c, s), NEW l \in Lists, Discard(l)
  PROVE  ListInv' /\ ListSeq!Next
<1>1. Contents(heap) = s
  BY ContentsAre
<1>2. Becomes([s EXCEPT ![l] = <<>>], <<"Empty", l>>)
  <2>1. CASE Call(ListClear(heap, l), <<"Empty", l>>)
    BY <2>1, ClearShape, CallBecomes
  <2>2. CASE Call(ListDestroy(heap, l), <<"Empty", l>>)
    BY <2>2, DestroyShape, CallBecomes
  <2> QED
    BY <2>1, <2>2 DEF Discard
<1>3. ListSeq!Empty(l)
  BY <1>1, <1>2 DEF ListSeq!Empty, Becomes, Contents
<1> QED
  BY <1>2, <1>3 DEF ListSeq!Next, Becomes

(* ListGetValueAt reads an element, or NULL beyond the list.                *)
LEMMA ReadRefines ==
  ASSUME NEW c, NEW s, Shape(heap, Lists, c, s), NEW l \in Lists,
         NEW p \in -1 .. Len(Values(heap, l)), Read(l, p)
  PROVE  ListInv' /\ ListSeq!Next
<1>1. Contents(heap) = s
  BY ContentsAre
<1>2. PICK w : w = s[l]
  OBVIOUS
<1>3. Values(heap, l) = w /\ Len(w) \in Nat /\ s \in [Lists -> Seq(Element)]
  <2>1. Values(heap, l) = w
    BY <1>2, ValuesAre
  <2>2. Len(w) \in Nat
    BY <1>2, ListOf
  <2> QED
    BY <2>1, <2>2 DEF Shape
<1>4. PICK x : x = ListGetValueAt(heap, l, p)
  OBVIOUS
<1>5. Becomes(s, <<"Get", l, p, x>>)
  <2>1. Call(heap, <<"Get", l, p, x>>)
    BY <1>4 DEF Read
  <2> QED
    BY <2>1, CallBecomes
<1>6. x = IF p \in 0 .. Len(w) - 1 THEN w[p + 1] ELSE NULL
  BY <1>3, <1>4 DEF ListGetValueAt
<1>7. ListSeq!Get(l, p)
  <2>1. CASE p \in 0 .. Len(w) - 1
    BY <1>1, <1>2, <1>5, <1>6, <2>1 DEF ListSeq!Get, Becomes, Contents
  <2>2. CASE p \notin 0 .. Len(w) - 1
    <3>1. \A k : k \notin Len(w) + 1 .. Len(w)
      BY <1>3
    <3>2. ListSeq!IsPrefix(w, w)
      BY <1>3 DEF ListSeq!IsPrefix
    <3>3. [s EXCEPT ![l] = s[l]] = s
      BY <1>3
    <3>4. Contents(heap)' = s /\ lcall' = <<"Get", l, p, NULL>>
      BY <1>5, <1>6, <2>2 DEF Becomes
    <3> QED
      BY <1>1, <1>2, <2>2, <3>1, <3>2, <3>3, <3>4 DEF ListSeq!Get, ListSeq!Extended, Contents
  <2> QED
    BY <2>1, <2>2
<1>8. p \in -1 .. Len(s[l]) + 1
  BY <1>2, <1>3
<1>9. \E q \in -1 .. Len([i \in Lists |-> Values(heap, i)][l]) + 1 : ListSeq!Get(l, q)
  BY <1>1, <1>7, <1>8 DEF Contents
<1> QED
  BY <1>5, <1>9 DEF ListSeq!Next, Becomes

LEMMA MapRefines ==
  ASSUME NEW c, NEW s, Shape(heap, Lists, c, s), NEW l \in Lists,
         Call(ListMap(heap, l), <<"Map", l>>)
  PROVE  ListInv' /\ ListSeq!Next
<1>1. Contents(heap) = s
  BY ContentsAre
<1>2. PICK v : v = [k \in DOMAIN s[l] |-> Modifier[s[l][k]]]
  OBVIOUS
<1>3. Shape(ListMap(heap, l), Lists, c, [s EXCEPT ![l] = v])
  BY <1>2, MapShape
<1>4. Becomes([s EXCEPT ![l] = v], <<"Map", l>>)
  BY <1>3, CallBecomes
<1>5. ListSeq!Map(l)
  BY <1>1, <1>2, <1>4 DEF ListSeq!Map, Becomes, Contents
<1> QED
  BY <1>4, <1>5 DEF ListSeq!Next, Becomes

(* The calls at node k of a list: the k-th element leaves, changes, or      *)
(* others are put in front of it or split from it.                          *)
LEMMA NodeRefines ==
  ASSUME NEW c, NEW s, Shape(heap, Lists, c, s), NEW l \in Lists,
         NEW k \in 1 .. Len(LOOP_LIST(heap, l)), AtNode(l, k)
  PROVE  ListInv' /\ ListSeq!Next
<1>1. Contents(heap) = s
  BY ContentsAre
<1>2. PICK t, w, b : t = c[l] /\ w = s[l] /\ b = t[k]
  OBVIOUS
<1>3. LOOP_LIST(heap, l) = t
  BY <1>2, WalkRight
<1>4. /\ k \in 1 .. Len(t) /\ Len(t) \in Nat /\ w \in Seq(Element) /\ Len(w) = Len(t)
      /\ DOMAIN w = 1 .. Len(t)
  BY <1>2, <1>3, ListOf
<1>5. k \in 1 .. Len(c[l])
  BY <1>2, <1>4
<1>6. k \in DOMAIN [i \in Lists |-> Values(heap, i)][l]
  BY <1>1, <1>2, <1>4 DEF Contents
<1>7. CASE Call(ListDetachElement(heap, l, b), <<"Detach", l, k>>)
  <2>1. Shape(ListDetachElement(heap, l, c[l][k]), Lists, [c EXCEPT ![l] = RemoveAt(@, k)],
              [s EXCEPT ![l] = RemoveAt(@, k)])
    BY <1>5, DetachShape
  <2>2. Becomes([s EXCEPT ![l] = RemoveAt(@, k)], <<"Detach", l, k>>)
    BY <1>2, <1>7, <2>1, CallBecomes
  <2>3. ListSeq!Detach(l, k)
    BY <1>1, <2>2 DEF ListSeq!Detach, ListSeq!RemoveAt, RemoveAt, Becomes, Contents
  <2> QED
    BY <1>6, <2>2, <2>3 DEF ListSeq!Next, Becomes
<1>8. ASSUME NEW v \in Element, Call(ListSetValue(heap, b, v), <<"Set", l, k-1, v>>)
      PROVE  ListInv' /\ ListSeq!Next
  <2>1. Shape(ListSetValue(heap, c[l][k], v), Lists, c, [s EXCEPT ![l] = [@ EXCEPT ![k] = v]])
    BY <1>5, SetValueShape
  <2>2. PICK p : p = k - 1
    OBVIOUS
  <2>3. p \in 0 .. Len(w) - 1 /\ p + 1 = k /\ p \in -1 .. Len(w) + 1
    BY <1>4, <2>2
  <2>4. Becomes([s EXCEPT ![l] = [@ EXCEPT ![k] = v]], <<"Set", l, p, v>>)
    BY <1>2, <1>8, <2>1, <2>2, CallBecomes
  <2>5. ListSeq!Set(l, p, v)
    BY <1>1, <1>2, <2>3, <2>4 DEF ListSeq!Set, Becomes, Contents
  <2>6. \E q \in -1 .. Len([i \in Lists |-> Values(heap, i)][l]) + 1 : \E x \in Element : ListSeq!Set(l, q, x)
    BY <1>1, <1>2, <2>3, <2>5 DEF Contents
  <2> QED
    BY <2>4, <2>6 DEF ListSeq!Next, Becomes
<1>9. ASSUME NEW v \in Element, Room(heap, 1),
             Call(ListInsertElementAt(heap, l, b, v), <<"InsertElement", l, k, v>>)
      PROVE  ListInv' /\ ListSeq!Next
  <2>1. NULL \notin Lists
    BY LinkedListAssumption
  <2>2. PICK c2 : Shape(ListInsertElementAt(heap, l, c[l][k], v), Lists, c2,
                        [s EXCEPT ![l] = Joined(@, k, <<v>>)])
    BY <1>5, <1>9, <2>1, InsertElementShape
  <2>3. Becomes([s EXCEPT ![l] = Joined(@, k, <<v>>)], <<"InsertElement", l, k, v>>)
    BY <1>2, <1>9, <2>2, CallBecomes
  <2>4. ListSeq!InsertElement(l, k, v)
    BY <1>1, <2>3 DEF ListSeq!InsertElement, ListSeq!InsertAt, Joined, Becomes, Contents
  <2> QED
    BY <1>6, <2>3, <2>4 DEF ListSeq!Next, Becomes
<1>10. ASSUME NEW m \in Lists \ {l}, Call(ListInsertListAt(heap, l, b, m), <<"InsertList", l, k, m>>)
       PROVE  ListInv' /\ ListSeq!Next
  <2>1. Shape(ListInsertListAt(heap, l, c[l][k], m), Lists,
              [c EXCEPT ![l] = Joined(@, k, c[m]), ![m] = <<>>],
              [s EXCEPT ![l] = Joined(@, k, s[m]), ![m] = <<>>])
    BY <1>5, <1>10, InsertListShape
  <2>2. Becomes([s EXCEPT ![l] = Joined(@, k, s[m]), ![m] = <<>>], <<"InsertList", l, k, m>>)
    BY <1>2, <1>10, <2>1, CallBecomes
  <2>3. ListSeq!InsertList(l, k, m)
    BY <1>1, <1>10, <2>2 DEF ListSeq!InsertList, Joined, Becomes, Contents
  <2> QED
    BY <1>6, <2>2, <2>3 DEF ListSeq!Next, Becomes
<1>11. ASSUME NEW m \in Lists \ {l}, IsEmpty(m), Call(ListSplit(heap, l, b, m), <<"Split", l, k, m>>)
       PROVE  ListInv' /\ ListSeq!Next
  <2>1. c[m] = <<>>
    BY <1>11, EmptyIs
  <2>2. Shape(ListSplit(heap, l, c[l][k], m), Lists,
              [c EXCEPT ![l] = SubSeq(@, 1, k), ![m] = SubSeq(c[l], k + 1, Len(c[l]))],
              [s EXCEPT ![l] = SubSeq(@, 1, k), ![m] = SubSeq(s[l], k + 1, Len(s[l]))])
    BY <1>5, <1>11, <2>1, SplitShape
  <2>3. Becomes([s EXCEPT ![l] = SubSeq(@, 1, k), ![m] = SubSeq(s[l], k + 1, Len(s[l]))],
                <<"Split", l, k, m>>)
    BY <1>2, <1>11, <2>2, CallBecomes
  <2>4. ListSeq!Split(l, k, m)
    BY <1>1, <1>11, <2>3 DEF ListSeq!Split, Becomes, Contents
  <2> QED
    BY <1>6, <2>3, <2>4 DEF ListSeq!Next, Becomes
<1>12. LOOP_LIST(heap, l)[k] = b
  BY <1>2, <1>3
<1> QED
  BY <1>7, <1>8, <1>9, <1>10, <1>11, <1>12 DEF AtNode

LEMMA DuplicateRefines ==
  ASSUME NEW c, NEW s, Shape(heap, Lists, c, s), NEW l \in Lists, NEW t \in Lists \ {l}, Duplicate(l, t)
  PROVE  ListInv' /\ ListSeq!Next
<1>1. Contents(heap) = s
  BY ContentsAre
<1>2. Room(heap, Len(s[l]))
  <2>1. Values(heap, l) = s[l]
    BY ValuesAre
  <2> QED
    BY <2>1 DEF Duplicate
<1>3. CASE Call(ListCopyInto(heap, l, t), <<"CopyInto", l, t>>)
  <2>1. PICK c2 : Shape(ListCopyInto(heap, l, t), Lists, c2, [s EXCEPT ![t] = @ \o s[l]])
    BY <1>2, CopyIntoShape
  <2>2. Becomes([s EXCEPT ![t] = @ \o s[l]], <<"CopyInto", l, t>>)
    BY <1>3, <2>1, CallBecomes
  <2>3. ListSeq!CopyInto(l, t)
    BY <1>1, <2>2 DEF ListSeq!CopyInto, Becomes, Contents
  <2> QED
    BY <2>2, <2>3 DEF ListSeq!Next, Becomes
<1>4. CASE IsEmpty(t) /\ Call(ListCopy(heap, l, t), <<"Copy", l, t>>)
  <2>1. c[t] = <<>>
    BY <1>4, EmptyIs
  <2>2. PICK c2 : Shape(ListCopy(heap, l, t), Lists, c2, [s EXCEPT ![t] = s[l]])
    BY <1>2, <2>1, CopyShape
  <2>3. Becomes([s EXCEPT ![t] = s[l]], <<"Copy", l, t>>)
    BY <1>4, <2>2, CallBecomes
  <2>4. ListSeq!Copy(l, t)
    BY <1>1, <2>3 DEF ListSeq!Copy, Becomes, Contents
  <2> QED
    BY <2>3, <2>4 DEF ListSeq!Next, Becomes
<1>5. CASE IsEmpty(t) /\ Call(ListDeepCopy(heap, l, t), <<"DeepCopy", l, t>>)
  <2>1. c[t] = <<>>
    BY <1>5, EmptyIs
  <2>2. PICK v : v = [k \in DOMAIN s[l] |-> Modifier[s[l][k]]]
    OBVIOUS
  <2>3. Becomes([s EXCEPT ![t] = v], <<"DeepCopy", l, t>>)
    <3>1. PICK c2 : Shape(ListDeepCopy(heap, l, t), Lists, c2, [s EXCEPT ![t] = v])
      BY <1>2, <2>1, <2>2, DeepCopyShape
    <3> QED
      BY <1>5, <3>1, CallBecomes
  <2>4. ListSeq!DeepCopy(l, t)
    BY <1>1, <2>2, <2>3 DEF ListSeq!DeepCopy, Becomes, Contents
  <2> QED
    BY <2>3, <2>4 DEF ListSeq!Next, Becomes
<1> QED
  BY <1>3, <1>4, <1>5 DEF Duplicate

LEMMA ListNextRefines == ListInv /\ ListNext => ListInv' /\ ListSeq!Next
<1> SUFFICES ASSUME ListInv, ListNext PROVE ListInv' /\ ListSeq!Next
  OBVIOUS
<1>1. PICK c, s : Shape(heap, Lists, c, s)
  BY DEF ListInv
<1>2. PICK l \in Lists :
        \/ \E v \in Element : Push(l, v)
        \/ Pop(l)
        \/ Discard(l)
        \/ Call(ListMap(heap, l), <<"Map", l>>)
        \/ \E p \in -1 .. Len(Values(heap, l)) : Read(l, p)
        \/ \E k \in 1 .. Len(LOOP_LIST(heap, l)) : AtNode(l, k)
        \/ \E t \in Lists \ {l} : Duplicate(l, t)
  BY DEF ListNext
<1>3. CASE \E v \in Element : Push(l, v)
  BY <1>1, <1>3, PushRefines
<1>4. CASE Pop(l)
  BY <1>1, <1>4, PopRefines
<1>5. CASE Discard(l)
  BY <1>1, <1>5, DiscardRefines
<1>6. CASE Call(ListMap(heap, l), <<"Map", l>>)
  BY <1>1, <1>6, MapRefines
<1>7. CASE \E p \in -1 .. Len(Values(heap, l)) : Read(l, p)
  BY <1>1, <1>7, ReadRefines
<1>8. CASE \E k \in 1 .. Len(LOOP_LIST(heap, l)) : AtNode(l, k)
  BY <1>1, <1>8, NodeRefines
<1>9. CASE \E t \in Lists \ {l} : Duplicate(l, t)
  BY <1>1, <1>9, DuplicateRefines
<1> QED
  BY <1>2, <1>3, <1>4, <1>5, <1>6, <1>7, <1>8, <1>9

LEMMA ListStutter == UNCHANGED listVars => UNCHANGED ListSeq!seqVars /\ (ListInv => ListInv')
BY DEF listVars, ListSeq!seqVars, ListInv, Values, LOOP_LIST

-----------------------------------------------------------------------------
(* What the invariant says of the pointers.                                 *)

LEMMA ListInvAlways == ListSpec => []ListInv
<1>1. ListInit => ListInv
  BY LayoutInit
<1>2. ListInv /\ [ListNext]_listVars => ListInv'
  BY ListNextRefines, ListStutter
<1> QED
  BY <1>1, <1>2, PTL DEF ListSpec

LEMMA InvTyped == ListInv => ListTypeOK
<1> SUFFICES ASSUME ListInv PROVE ListTypeOK
  OBVIOUS
<1>1. PICK c, s : Shape(heap, Lists, c, s)
  BY DEF ListInv
<1>2. PICK Pointer : Pointer = DOMAIN heap.node \cup {NULL}
  OBVIOUS
<1>3. ASSUME NEW l \in Lists, NEW p \in Int PROVE Nth(c[l], p) \in Pointer
  BY <1>1, <1>2, ListOf DEF Nth
<1>4. DOMAIN heap.node \subseteq Blocks
  BY <1>1, ShapeNodes
<1>5. ASSUME NEW b \in DOMAIN heap.node
      PROVE  heap.node[b] \in [right : Pointer, value : Element, left : Pointer]
  <2>1. PICK l \in Lists : b \in Held(c[l])
    BY <1>1, ShapeOf
  <2>2. PICK p \in 1 .. Len(c[l]) : b = c[l][p]
    BY <2>1 DEF Held
  <2>3. heap.node[b] = Rec(Nth(c[l], p + 1), s[l][p], Nth(c[l], p - 1)) /\ s[l][p] \in Element
    BY <1>1, <2>2, ListOf DEF Laid
  <2>4. Nth(c[l], p + 1) \in Pointer /\ Nth(c[l], p - 1) \in Pointer
    BY <1>3
  <2> QED
    BY <2>3, <2>4 DEF Rec
<1>6. heap.root \in [Lists -> [begin : Pointer, end : Pointer]]
  <2>1. heap.root = [l \in Lists |-> Ends(c[l])]
    BY <1>1 DEF Shape, Roots
  <2>2. ASSUME NEW l \in Lists PROVE Ends(c[l]) \in [begin : Pointer, end : Pointer]
    <3>1. Len(c[l]) \in Nat
      BY <1>1, ListOf
    <3>2. Nth(c[l], 1) \in Pointer /\ Nth(c[l], Len(c[l])) \in Pointer
      BY <1>3, <3>1
    <3> QED
      BY <3>2 DEF Ends
  <2> QED
    BY <2>1, <2>2
<1> QED
  BY <1>2, <1>4, <1>5, <1>6 DEF ListTypeOK

(* Distinct nodes are as many as the list is long.                          *)
LEMMA DistinctCounts ==
  ASSUME NEW S, NEW t \in Seq(S), Distinct(t)
  PROVE  Len(t) = Cardinality(Range(t))
<1>1. PICK n, R : n = Len(t) /\ R = Range(t)
  OBVIOUS
<1>2. n \in Nat /\ t \in [1 .. n -> S] /\ R = {t[p] : p \in 1 .. n}
  BY <1>1, LenProperties, RangeEquality
<1>3. t \in [1 .. n -> R]
  BY <1>2
<1>4. t \in Bijection(1 .. n, R)
  <2>1. t \in Injection(1 .. n, R)
    BY <1>1, <1>2, <1>3 DEF Injection, IsInjective, Distinct
  <2>2. t \in Surjection(1 .. n, R)
    BY <1>2, <1>3 DEF Surjection
  <2> QED
    BY <2>1, <2>2 DEF Bijection
<1>5. IsFiniteSet(1 .. n) /\ Cardinality(1 .. n) = n
  <2>1. PICK i : i = 1
    OBVIOUS
  <2>2. IsFiniteSet(i .. n) /\ Cardinality(i .. n) = IF i > n THEN 0 ELSE n - i + 1
    BY <1>2, <2>1, FS_Interval
  <2> QED
    BY <1>2, <2>1, <2>2
<1>6. Cardinality(R) = Cardinality(1 .. n)
  BY <1>4, <1>5, FS_Bijection DEF ExistsBijection
<1> QED
  BY <1>1, <1>5, <1>6

LEMMA InvLinked == ListInv => ListsWellLinked
<1> SUFFICES ASSUME ListInv PROVE ListsWellLinked
  OBVIOUS
<1>1. PICK c, s : Shape(heap, Lists, c, s)
  BY DEF ListInv
<1>2. \A l \in Lists : /\ LOOP_LIST(heap, l) = c[l]
                       /\ Chain(heap.node, heap.root[l].end, "left") = Reverse(c[l])
  <2>1. \A l \in Lists : LOOP_LIST(heap, l) = c[l]
    BY <1>1, WalkRight
  <2>2. \A l \in Lists : Chain(heap.node, heap.root[l].end, "left") = Reverse(c[l])
    BY <1>1, WalkLeft
  <2> QED
    BY <2>1, <2>2
<1>3. ASSUME NEW l \in Lists
      PROVE  /\ Len(c[l]) = Cardinality(Range(c[l]))
             /\ c[l] # <<>> => heap.node[Head(c[l])].left = NULL /\ heap.node[Last(c[l])].right = NULL
             /\ Range(c[l]) = Held(c[l])
  <2>1. PICK t : t = c[l]
    OBVIOUS
  <2>2. t \in Seq(Blocks) /\ Len(t) \in Nat /\ Distinct(t) /\ Laid(heap.node, t, s[l])
    BY <1>1, <2>1, ListOf
  <2>3. Len(t) = Cardinality(Range(t))
    BY <2>2, DistinctCounts
  <2>4. Range(t) = Held(t)
    BY <2>2, RangeEquality DEF Held
  <2>5. ASSUME t # <<>> PROVE heap.node[Head(t)].left = NULL /\ heap.node[Last(t)].right = NULL
    <3>1. Len(t) # 0
      BY <2>2, <2>5, EmptySeq
    <3>2. 1 \in 1 .. Len(t) /\ Len(t) \in 1 .. Len(t)
      BY <2>2, <3>1
    <3>3. Nth(t, 1 - 1) = NULL /\ Nth(t, Len(t) + 1) = NULL
      BY <2>2 DEF Nth
    <3>4. heap.node[t[1]].left = NULL
      BY <2>2, <3>2, <3>3, RecIs DEF Laid
    <3>5. heap.node[t[Len(t)]].right = NULL
      BY <2>2, <3>2, <3>3, RecIs DEF Laid
    <3>6. Head(t) = t[1] /\ Last(t) = t[Len(t)]
      BY <2>2, <2>5 DEF Last
    <3> QED
      BY <3>4, <3>5, <3>6
  <2> QED
    BY <2>1, <2>3, <2>4, <2>5
<1>4. \A l, m \in Lists : l # m => Range(c[l]) \cap Range(c[m]) = {}
  <2>1. Apart(Lists, c)
    BY <1>1 DEF Shape
  <2>2. \A l \in Lists : Range(c[l]) = Held(c[l])
    BY <1>3
  <2> QED
    BY <2>1, <2>2 DEF Apart
<1>5. UNION {Range(c[l]) : l \in Lists} = DOMAIN heap.node
  <2>1. \A b : b \in DOMAIN heap.node <=> \E l \in Lists : b \in Range(c[l])
    <3>1. \A b : b \in DOMAIN heap.node <=> \E l \in Lists : b \in Held(c[l])
      BY <1>1, ShapeOf
    <3> QED
      BY <1>3, <3>1
  <2>2. \A b : b \in UNION {Range(c[l]) : l \in Lists} <=> \E l \in Lists : b \in Range(c[l])
    OBVIOUS
  <2> QED
    BY <2>1, <2>2
<1>6. {Range(LOOP_LIST(heap, l)) : l \in Lists} = {Range(c[l]) : l \in Lists}
  BY <1>2
<1> QED
  BY <1>2, <1>3, <1>4, <1>5, <1>6 DEF ListsWellLinked

(* However many lists a program holds and in whatever order it calls        *)
(* dynamic_lists.c, no pointer of a list or of a node leads to a block that *)
(* was freed.                                                               *)
THEOREM ListTypeCorrect == ListSpec => []ListTypeOK
<1> QED
  BY ListInvAlways, InvTyped, PTL

(* For any heap and any lists: a list reads the same in both directions, no *)
(* node is in two lists, and every allocated node is in one, so that no call *)
(* of dynamic_lists.c leaks, shares or unlinks a node.                      *)
THEOREM ListsStayLinked == ListSpec => []ListsWellLinked
<1> QED
  BY ListInvAlways, InvLinked, PTL

(* For any lists, elements, modifier and heap, every call of                *)
(* dynamic_lists.c has the effect and the result on the sequences that its  *)
(* name says, on both lists it touches, and on no other.                    *)
THEOREM ListsImplementSequences == ListSpec => ListsAreSequences
<1>1. ListInit => ListSeq!Init
  BY LayoutInit
<1>2. ListInv /\ [ListNext]_listVars => [ListSeq!Next]_(ListSeq!seqVars)
  BY ListNextRefines, ListStutter
<1> QED
  BY <1>1, <1>2, ListInvAlways, PTL DEF ListSpec, ListsAreSequences, ListSeq!Spec
=============================================================================
