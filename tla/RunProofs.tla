----------------------------- MODULE RunProofs ------------------------------
(***************************************************************************)
(* The answer of a run is the answer of the definition of acceptance, for  *)
(* every automaton, every word and every way the computation is spread     *)
(* over processes, and no failure of a process is lost.                    *)
(***************************************************************************)
EXTENDS RunProcess, WellFoundedInduction, FiniteSetTheorems, SequenceTheorems, TLAPS

-----------------------------------------------------------------------------
(* Induction over the natural numbers, as a fact about sets.               *)

LEMMA LeastNat ==
  ASSUME NEW S \in SUBSET Nat, S # {}
  PROVE  \E n \in S : \A m \in S : n <= m
<1>1. IsWellFoundedOn(OpToRel(<, Nat), Nat) BY NatLessThanWellFounded
<1>2. PICK n \in S : \A m \in S : ~ (<<m, n>> \in OpToRel(<, Nat)) BY <1>1, WFMin
<1>3. ASSUME NEW m \in S PROVE n <= m
  <2>1. m \in Nat /\ n \in Nat OBVIOUS
  <2>2. ~ (m < n) BY <1>2, <2>1 DEF OpToRel
  <2> QED BY <2>1, <2>2
<1> QED BY <1>3

LEMMA NatInductive ==
  ASSUME NEW S, 0 \in S, \A n \in Nat : n \in S => n + 1 \in S
  PROVE  Nat \subseteq S
<1> SUFFICES ASSUME Nat \ S # {} PROVE FALSE OBVIOUS
<1>1. PICK n \in Nat \ S : \A m \in Nat \ S : n <= m BY LeastNat
<1>2. n # 0 /\ n - 1 \in Nat BY <1>1
<1>3. n - 1 \in S BY <1>1, <1>2
<1> QED BY <1>2, <1>3, n - 1 + 1 = n

-----------------------------------------------------------------------------
(* Nodes: sequences of branches, ordered by IsPrefix.                      *)

Node == Seq(Nat)

LEMMA Prefix ==
  ASSUME NEW s \in Node, NEW t \in Node
  PROVE  IsPrefix(s, t) <=> Len(s) <= Len(t) /\ \A i \in 1 .. Len(s) : s[i] = t[i]
<1> DEFINE u == SubSeq(s, 1, Len(s))
           v == SubSeq(t, 1, Len(s))
<1>1. ASSUME Len(s) <= Len(t) PROVE u = v <=> \A i \in 1 .. Len(s) : s[i] = t[i]
  <2>1. u \in Node /\ Len(u) = Len(s) /\ \A i \in 1 .. Len(s) : u[i] = s[i] BY DEF Node
  <2>2. v \in Node /\ Len(v) = Len(s) /\ \A i \in 1 .. Len(s) : v[i] = t[i] BY <1>1 DEF Node
  <2>3. Len(s) \in Nat BY DEF Node
  <2> HIDE DEF u, v
  <2>4. ASSUME u = v PROVE \A i \in 1 .. Len(s) : s[i] = t[i] BY <2>1, <2>2, <2>4
  <2>5. ASSUME \A i \in 1 .. Len(s) : s[i] = t[i] PROVE u = v
    <3>1. \A i \in 1 .. Len(u) : u[i] = v[i] BY <2>1, <2>2, <2>5
    <3> QED BY <2>1, <2>2, <3>1, SeqEqual DEF Node
  <2> QED BY <2>4, <2>5
<1> QED BY <1>1 DEF IsPrefix

LEMMA PrefixSelf ==
  ASSUME NEW s \in Node
  PROVE  IsPrefix(s, s) /\ IsPrefix(<<>>, s)
<1>1. <<>> \in Node /\ Len(<<>>) = 0 /\ Len(s) \in Nat BY DEF Node
<1>2. IsPrefix(s, s) BY <1>1, Prefix
<1>3. IsPrefix(<<>>, s) <=> 0 <= Len(s) /\ \A i \in 1 .. 0 : <<>>[i] = s[i] BY <1>1, Prefix
<1> QED BY <1>1, <1>2, <1>3

LEMMA PrefixTransitive ==
  ASSUME NEW s \in Node, NEW t \in Node, NEW u \in Node, IsPrefix(s, t), IsPrefix(t, u)
  PROVE  IsPrefix(s, u)
BY Prefix DEF Node

LEMMA PrefixEqual ==
  ASSUME NEW s \in Node, NEW t \in Node, IsPrefix(s, t), Len(t) <= Len(s)
  PROVE  s = t
<1>1. Len(s) = Len(t) /\ \A i \in 1 .. Len(s) : s[i] = t[i] BY Prefix DEF Node
<1> QED BY <1>1, SeqEqual DEF Node

LEMMA PrefixComparable ==
  ASSUME NEW s \in Node, NEW t \in Node, NEW u \in Node,
         IsPrefix(s, u), IsPrefix(t, u), Len(s) <= Len(t)
  PROVE  IsPrefix(s, t)
<1>1. Len(s) \in Nat /\ Len(t) \in Nat BY DEF Node
<1>2. \A i \in 1 .. Len(s) : s[i] = u[i] BY Prefix
<1>3. \A i \in 1 .. Len(t) : t[i] = u[i] BY Prefix
<1>4. \A i \in 1 .. Len(s) : s[i] = t[i] BY <1>1, <1>2, <1>3
<1> QED BY <1>4, Prefix

LEMMA AppendNode ==
  ASSUME NEW s \in Node, NEW i \in Nat
  PROVE  /\ Append(s, i) \in Node /\ Len(Append(s, i)) = Len(s) + 1
         /\ Append(s, i)[Len(s) + 1] = i
         /\ \A k \in 1 .. Len(s) : Append(s, i)[k] = s[k]
         /\ IsPrefix(s, Append(s, i)) /\ Append(s, i) # s
<1> DEFINE t == Append(s, i)
<1>1. /\ t \in Node /\ Len(t) = Len(s) + 1
      /\ t[Len(s) + 1] = i
      /\ \A k \in 1 .. Len(s) : t[k] = s[k]
  BY AppendProperties DEF Node
<1>2. Len(s) \in Nat BY DEF Node
<1> HIDE DEF t
<1>3. Len(s) <= Len(t) /\ \A k \in 1 .. Len(s) : s[k] = t[k] BY <1>1, <1>2
<1>4. IsPrefix(s, t) BY <1>1, <1>3, Prefix
<1>5. t # s BY <1>1, <1>2
<1> QED BY <1>1, <1>4, <1>5 DEF t

LEMMA PrefixOfAppend ==
  ASSUME NEW s \in Node, NEW t \in Node, NEW i \in Nat, IsPrefix(s, Append(t, i))
  PROVE  IsPrefix(s, t) \/ s = Append(t, i)
<1> DEFINE u == Append(t, i)
<1>1. Len(s) \in Nat /\ Len(t) \in Nat BY DEF Node
<1>2. u \in Node /\ Len(u) = Len(t) + 1 /\ IsPrefix(t, u) BY AppendNode
<1>3. IsPrefix(s, u) OBVIOUS
<1> HIDE DEF u
<1>4. CASE Len(s) <= Len(t) BY <1>2, <1>3, <1>4, PrefixComparable
<1>5. CASE Len(s) > Len(t)
  <2>1. s = u BY <1>1, <1>2, <1>3, <1>5, PrefixEqual
  <2> QED BY <2>1 DEF u
<1> QED BY <1>1, <1>4, <1>5

LEMMA AppendIsPrefix ==
  ASSUME NEW s \in Node, NEW t \in Node, NEW i \in Nat
  PROVE  IsPrefix(Append(s, i), t) <=> IsPrefix(s, t) /\ Len(s) < Len(t) /\ t[Len(s) + 1] = i
<1> DEFINE u == Append(s, i)
<1>1. Len(s) \in Nat /\ Len(t) \in Nat BY DEF Node
<1>2. /\ u \in Node /\ Len(u) = Len(s) + 1 /\ u[Len(s) + 1] = i
      /\ \A k \in 1 .. Len(s) : u[k] = s[k]
  BY AppendNode
<1> HIDE DEF u
<1>3. IsPrefix(u, t) <=> Len(s) + 1 <= Len(t) /\ \A k \in 1 .. (Len(s) + 1) : u[k] = t[k]
  BY <1>2, Prefix
<1>4. IsPrefix(s, t) <=> Len(s) <= Len(t) /\ \A k \in 1 .. Len(s) : s[k] = t[k] BY Prefix
<1>5. ASSUME IsPrefix(u, t) PROVE IsPrefix(s, t) /\ Len(s) < Len(t) /\ t[Len(s) + 1] = i
  BY <1>1, <1>2, <1>3, <1>4, <1>5
<1>6. ASSUME IsPrefix(s, t), Len(s) < Len(t), t[Len(s) + 1] = i PROVE IsPrefix(u, t)
  <2>1. ASSUME NEW k \in 1 .. (Len(s) + 1) PROVE u[k] = t[k]
    <3>1. CASE k = Len(s) + 1 BY <1>2, <1>6, <3>1
    <3>2. CASE k # Len(s) + 1
      <4>1. k \in 1 .. Len(s) BY <1>1, <3>2
      <4> QED BY <1>2, <1>4, <1>6, <4>1
    <3> QED BY <3>1, <3>2
  <2> QED BY <1>1, <1>3, <1>6, <2>1
<1> QED BY <1>5, <1>6 DEF u

-----------------------------------------------------------------------------
(* The state of a node, step by step.                                      *)

Path(f, node, n) ==
  f = [k \in 0 .. n |-> IF k = 0 THEN tg.q0 ELSE tg.graph[f[k - 1]][word[k]][node[k] + 1]]

LEMMA PathExists ==
  ASSUME NEW node, NEW n \in Nat
  PROVE  \E f : Path(f, node, n)
<1> DEFINE S == {m \in Nat : \E f : Path(f, node, m)}
<1>1. 0 \in S
  <2> DEFINE f == [k \in 0 .. 0 |-> tg.q0]
  <2>1. f = [k \in 0 .. 0 |-> IF k = 0 THEN tg.q0 ELSE tg.graph[f[k - 1]][word[k]][node[k] + 1]]
    OBVIOUS
  <2> HIDE DEF f
  <2>2. Path(f, node, 0) BY <2>1 DEF Path
  <2> QED BY <2>2
<1>2. ASSUME NEW m \in Nat, m \in S PROVE m + 1 \in S
  <2>1. PICK f : Path(f, node, m) BY <1>2
  <2> DEFINE next(h, k) == tg.graph[h[k - 1]][word[k]][node[k] + 1]
             g == [k \in 0 .. (m + 1) |-> IF k <= m THEN f[k] ELSE next(f, k)]
  <2>2. \A k \in 0 .. m : g[k] = f[k] OBVIOUS
  <2>3. \A k \in 0 .. m : f[k] = IF k = 0 THEN tg.q0 ELSE next(f, k) BY <2>1 DEF Path
  <2>4. ASSUME NEW k \in 0 .. (m + 1) PROVE g[k] = IF k = 0 THEN tg.q0 ELSE next(g, k)
    <3>1. CASE k = 0 BY <2>2, <2>3, <3>1
    <3>2. CASE k # 0
      <4>1. k - 1 \in 0 .. m BY <3>2
      <4>2. g[k - 1] = f[k - 1] BY <2>2, <4>1
      <4>3. next(g, k) = next(f, k) BY <4>2
      <4>4. g[k] = next(f, k) BY <2>3, <3>2
      <4> QED BY <3>2, <4>3, <4>4
    <3> QED BY <3>1, <3>2
  <2>5. g = [k \in 0 .. (m + 1) |-> g[k]] OBVIOUS
  <2> HIDE DEF g
  <2>6. g = [k \in 0 .. (m + 1) |-> IF k = 0 THEN tg.q0 ELSE next(g, k)] BY <2>4, <2>5
  <2>7. Path(g, node, m + 1) BY <2>6 DEF Path
  <2> QED BY <2>7
<1>3. Nat \subseteq S
  <2> HIDE DEF S
  <2> QED BY <1>1, <1>2, NatInductive
<1> QED BY <1>3

LEMMA PathStep ==
  ASSUME NEW f, NEW node, NEW n \in Nat, Path(f, node, n)
  PROVE  /\ f[0] = tg.q0
         /\ \A k \in 1 .. n : f[k] = tg.graph[f[k - 1]][word[k]][node[k] + 1]
BY DEF Path

LEMMA StateAtPath ==
  ASSUME NEW node \in Node
  PROVE  \E f : Path(f, node, Len(node)) /\ StateAt(node) = f[Len(node)]
<1> DEFINE f == CHOOSE f : Path(f, node, Len(node))
<1>1. StateAt(node) = f[Len(node)] BY Zenon DEF StateAt, Path
<1>2. Len(node) \in Nat BY DEF Node
<1>3. Path(f, node, Len(node)) BY <1>2, PathExists
<1> QED BY <1>1, <1>3

LEMMA PathsAgree ==
  ASSUME NEW f, NEW g, NEW node, NEW other, NEW n \in Nat, NEW m \in Nat, n <= m,
         Path(f, node, n), Path(g, other, m), \A k \in 1 .. n : node[k] = other[k]
  PROVE  f[n] = g[n]
<1> DEFINE S == {k \in Nat : k <= n => f[k] = g[k]}
<1>1. 0 \in S BY PathStep
<1>2. ASSUME NEW k \in Nat, k \in S PROVE k + 1 \in S
  <2> SUFFICES ASSUME k + 1 <= n PROVE f[k + 1] = g[k + 1] OBVIOUS
  <2>1. f[k] = g[k] BY <1>2
  <2>2. k + 1 \in 1 .. n /\ k + 1 \in 1 .. m /\ k + 1 - 1 = k OBVIOUS
  <2>3. f[k + 1] = tg.graph[f[k]][word[k + 1]][node[k + 1] + 1] BY <2>2, PathStep
  <2>4. g[k + 1] = tg.graph[g[k]][word[k + 1]][other[k + 1] + 1] BY <2>2, PathStep
  <2>5. node[k + 1] = other[k + 1] BY <2>2
  <2> QED BY <2>1, <2>3, <2>4, <2>5
<1>3. Nat \subseteq S
  <2> HIDE DEF S
  <2> QED BY <1>1, <1>2, NatInductive
<1> QED BY <1>3

(* The state of the root, and of a child of a node.                        *)
LEMMA StateAtRoot == StateAt(<<>>) = tg.q0
<1>1. <<>> \in Node /\ Len(<<>>) = 0 BY DEF Node
<1>2. PICK f : Path(f, <<>>, 0) /\ StateAt(<<>>) = f[0] BY <1>1, StateAtPath
<1> QED BY <1>2, PathStep

LEMMA StateAtChild ==
  ASSUME NEW node \in Node, NEW i \in Nat
  PROVE  StateAt(Append(node, i)) = tg.graph[StateAt(node)][word[Len(node) + 1]][i + 1]
<1> DEFINE child == Append(node, i)
           n == Len(node)
<1>1. /\ child \in Node /\ Len(child) = n + 1 /\ child[n + 1] = i
      /\ \A k \in 1 .. n : child[k] = node[k]
  BY AppendNode
<1>2. n \in Nat BY DEF Node
<1> HIDE DEF child, n
<1>3. PICK f : Path(f, node, n) /\ StateAt(node) = f[n] BY StateAtPath DEF n
<1>4. PICK g : Path(g, child, n + 1) /\ StateAt(child) = g[n + 1] BY <1>1, StateAtPath
<1>5. f[n] = g[n]
  <2>1. n + 1 \in Nat /\ n <= n + 1 BY <1>2
  <2>2. \A k \in 1 .. n : node[k] = child[k] BY <1>1
  <2> QED BY <1>2, <1>3, <1>4, <2>1, <2>2, PathsAgree
<1>6. g[n + 1] = tg.graph[g[n + 1 - 1]][word[n + 1]][child[n + 1] + 1] BY <1>2, <1>4, PathStep
<1>7. n + 1 - 1 = n BY <1>2
<1> QED BY <1>1, <1>3, <1>4, <1>5, <1>6, <1>7 DEF child, n

-----------------------------------------------------------------------------
(* Recursions over the letters of a word, from the last to the first.      *)

FromLast(f, V, n, b, step) ==
  /\ f \in [0 .. n -> V]
  /\ \A k \in 0 .. n : f[k] = IF k = n THEN b ELSE step[k][f[k + 1]]

LEMMA Backwards ==
  ASSUME NEW V, NEW b \in V, NEW n \in Nat, NEW step \in [0 .. n -> [V -> V]]
  PROVE  \E f : FromLast(f, V, n, b, step)
<1> DEFINE Down(f, m) == /\ f \in [(n - m) .. n -> V]
                         /\ f[n] = b
                         /\ \A k \in (n - m) .. (n - 1) : f[k] = step[k][f[k + 1]]
           S == {m \in Nat : m <= n => \E f : Down(f, m)}
<1>1. 0 \in S
  <2> DEFINE f == [k \in (n - 0) .. n |-> b]
  <2>1. Down(f, 0) OBVIOUS
  <2> QED BY <2>1
<1>2. ASSUME NEW m \in Nat, m \in S PROVE m + 1 \in S
  <2> SUFFICES ASSUME m + 1 <= n PROVE \E f : Down(f, m + 1) OBVIOUS
  <2>1. PICK f : Down(f, m) BY <1>2
  <2> DEFINE j == n - (m + 1)
             g == [k \in j .. n |-> IF k = j THEN step[j][f[j + 1]] ELSE f[k]]
  <2>2. j \in 0 .. n /\ j < n /\ j + 1 = n - m /\ j + 1 \in (n - m) .. n OBVIOUS
  <2>3. f[j + 1] \in V /\ step[j] \in [V -> V] BY <2>1, <2>2
  <2>4. g \in [j .. n -> V]
    <3>1. ASSUME NEW k \in j .. n PROVE (IF k = j THEN step[j][f[j + 1]] ELSE f[k]) \in V
      <4>1. k = j \/ k \in (n - m) .. n BY <2>2
      <4> QED BY <2>1, <2>3, <4>1
    <3> QED BY <3>1
  <2>5. g[j] = step[j][f[j + 1]] /\ \A k \in (n - m) .. n : g[k] = f[k] BY <2>2
  <2> HIDE DEF g
  <2>6. g[n] = b BY <2>1, <2>5
  <2>7. ASSUME NEW k \in j .. (n - 1) PROVE g[k] = step[k][g[k + 1]]
    <3>1. CASE k = j BY <2>2, <2>5, <3>1
    <3>2. CASE k # j
      <4>1. k \in (n - m) .. (n - 1) /\ k \in (n - m) .. n /\ k + 1 \in (n - m) .. n BY <2>2, <3>2
      <4> QED BY <2>1, <2>5, <4>1
    <3> QED BY <3>1, <3>2
  <2>8. Down(g, m + 1) BY <2>4, <2>6, <2>7
  <2> QED BY <2>8
<1>3. n \in S
  <2> HIDE DEF S
  <2> QED BY <1>1, <1>2, NatInductive
<1>4. PICK f : Down(f, n) BY <1>3
<1>5. n - n = 0 OBVIOUS
<1>6. f \in [0 .. n -> V] BY <1>4, <1>5
<1>7. ASSUME NEW k \in 0 .. n PROVE f[k] = IF k = n THEN b ELSE step[k][f[k + 1]]
  <2>1. CASE k = n BY <1>4, <2>1
  <2>2. CASE k # n
    <3>1. k \in (n - n) .. (n - 1) BY <2>2
    <3> QED BY <1>4, <2>2, <3>1
  <2> QED BY <2>1, <2>2
<1> QED BY <1>6, <1>7 DEF FromLast

(* The states for which acceptSync_rec returns 1 at depth k, when rest are  *)
(* those at the next depth.                                                *)
Before(g, w, k, rest) ==
  {r \in States :
     IF Existential(g, r)
     THEN \E i \in DOMAIN g.graph[r][w[k + 1]] : g.graph[r][w[k + 1]][i] \in rest
     ELSE \A i \in DOMAIN g.graph[r][w[k + 1]] : g.graph[r][w[k + 1]][i] \in rest}

Levels(f, g, w) ==
  f = [k \in 0 .. Len(w) |-> IF k >= Len(w) THEN g.accepting ELSE Before(g, w, k, f[k + 1])]

LEMMA LevelsExist ==
  ASSUME NEW g, g.accepting \subseteq States, NEW w, Len(w) \in Nat
  PROVE  \E f : Levels(f, g, w)
<1> DEFINE n == Len(w)
           V == SUBSET States
           step == [k \in 0 .. n |-> [v \in V |-> Before(g, w, k, v)]]
<1>1. ASSUME NEW k, NEW v PROVE Before(g, w, k, v) \in V BY DEF Before
<1>2. step \in [0 .. n -> [V -> V]] BY <1>1
<1>3. g.accepting \in V OBVIOUS
<1>4. \A k \in 0 .. n, v \in V : step[k][v] = Before(g, w, k, v) OBVIOUS
<1>n. n \in Nat OBVIOUS
<1> HIDE DEF step, V, n
<1>4a. \E f : FromLast(f, V, n, g.accepting, step) BY <1>n, <1>2, <1>3, Backwards
<1>5. PICK f : /\ f \in [0 .. n -> V]
               /\ \A k \in 0 .. n : f[k] = IF k = n THEN g.accepting ELSE step[k][f[k + 1]]
  BY <1>4a DEF FromLast
<1>6. ASSUME NEW k \in 0 .. n
      PROVE  f[k] = IF k >= n THEN g.accepting ELSE Before(g, w, k, f[k + 1])
  <2>1. CASE k = n BY <1>n, <1>5, <2>1
  <2>2. CASE k # n
    <3>1. k + 1 \in 0 .. n /\ ~ (k >= n) BY <1>n, <2>2
    <3>2. f[k + 1] \in V BY <1>5, <3>1
    <3>3. f[k] = step[k][f[k + 1]] BY <1>5, <2>2
    <3> QED BY <1>4, <3>1, <3>2, <3>3
  <2> QED BY <2>1, <2>2
<1>7. f = [k \in 0 .. n |-> f[k]] BY <1>5
<1>8. f = [k \in 0 .. n |-> IF k >= n THEN g.accepting ELSE Before(g, w, k, f[k + 1])]
  BY <1>6, <1>7
<1> QED BY <1>8 DEF Levels, n

LEMMA SyncLevels ==
  ASSUME NEW g, g.accepting \subseteq States, NEW w, Len(w) \in Nat
  PROVE  \E f : /\ Levels(f, g, w)
                /\ \A q, k : acceptSync_rec(g, w, q, k) <=> q \in f[k]
<1> DEFINE f == CHOOSE f : Levels(f, g, w)
<1>1. Levels(f, g, w) BY LevelsExist
<1>2. ASSUME NEW q, NEW k PROVE acceptSync_rec(g, w, q, k) <=> q \in f[k]
  BY Zenon DEF acceptSync_rec, Levels, Before
<1> QED BY <1>1, <1>2

(* acceptSync_rec, one call.                                               *)
LEMMA SyncLeaf ==
  ASSUME NEW g, g.accepting \subseteq States, NEW w, Len(w) \in Nat, NEW q
  PROVE  acceptSync_rec(g, w, q, Len(w)) <=> q \in g.accepting
<1>1. PICK f : /\ Levels(f, g, w)
               /\ \A r, k : acceptSync_rec(g, w, r, k) <=> r \in f[k]
  BY SyncLevels
<1>2. f[Len(w)] = g.accepting BY <1>1 DEF Levels
<1> QED BY <1>1, <1>2

LEMMA SyncNode ==
  ASSUME NEW g, g.accepting \subseteq States, NEW w, Len(w) \in Nat,
         NEW q \in States, NEW k \in 0 .. (Len(w) - 1), NEW next, next = g.graph[q][w[k + 1]]
  PROVE  acceptSync_rec(g, w, q, k) <=>
           IF Existential(g, q) THEN \E i \in DOMAIN next : acceptSync_rec(g, w, next[i], k + 1)
                                ELSE \A i \in DOMAIN next : acceptSync_rec(g, w, next[i], k + 1)
<1>1. PICK f : /\ Levels(f, g, w)
               /\ \A r, j : acceptSync_rec(g, w, r, j) <=> r \in f[j]
  BY SyncLevels
<1>2. k \in 0 .. Len(w) /\ ~ (k >= Len(w)) OBVIOUS
<1>3. f[k] = Before(g, w, k, f[k + 1]) BY <1>1, <1>2 DEF Levels
<1>4. q \in f[k] <=> IF Existential(g, q) THEN \E i \in DOMAIN next : next[i] \in f[k + 1]
                                          ELSE \A i \in DOMAIN next : next[i] \in f[k + 1]
  BY <1>3, Zenon DEF Before
<1> QED BY <1>1, <1>4

(* When the graph lists for every state and letter of the word what the     *)
(* description lists, acceptSync_rec is the definition of acceptance.       *)
LEMMA SameAnswer ==
  ASSUME NEW d, NEW g, NEW w, Len(w) \in Nat, NEW q,
         g.accepting = d.accepting, g.U = d.U, d.U \in Nat,
         \A r \in States, k \in 1 .. Len(w) : Range(g.graph[r][w[k]]) = T(d, r, w[k])
  PROVE  acceptSync_rec(g, w, q, 0) <=> Accept(d, q, w)
<1> DEFINE Defined(k, rest) ==
             {r \in States : IF r < d.U THEN T(d, r, w[k + 1]) \subseteq rest
                                        ELSE T(d, r, w[k + 1]) \cap rest # {}}
           Accepts(f) ==
             f = [k \in 0 .. Len(w) |-> IF k = Len(w) THEN d.accepting ELSE Defined(k, f[k + 1])]
           f1 == CHOOSE f : Levels(f, g, w)
           f2 == CHOOSE f : Accepts(f)
<1>1. acceptSync_rec(g, w, q, 0) <=> q \in f1[0] BY Zenon DEF acceptSync_rec, Levels, Before
<1>2. Accept(d, q, w) <=> q \in f2[0] BY Zenon DEF Accept
<1>3. ASSUME NEW k \in 0 .. Len(w), k # Len(w), NEW rest PROVE Before(g, w, k, rest) = Defined(k, rest)
  <2>1. ASSUME NEW r \in States
        PROVE  (IF Existential(g, r)
                THEN \E i \in DOMAIN g.graph[r][w[k + 1]] : g.graph[r][w[k + 1]][i] \in rest
                ELSE \A i \in DOMAIN g.graph[r][w[k + 1]] : g.graph[r][w[k + 1]][i] \in rest)
               <=> (IF r < d.U THEN T(d, r, w[k + 1]) \subseteq rest
                               ELSE T(d, r, w[k + 1]) \cap rest # {})
    <3> DEFINE next == g.graph[r][w[k + 1]]
    <3>1. k + 1 \in 1 .. Len(w) BY <1>3
    <3>2. T(d, r, w[k + 1]) = {next[i] : i \in DOMAIN next} BY <3>1 DEF Range
    <3>3. Existential(g, r) <=> ~ (r < d.U) BY AutomatonAssumption DEF Existential
    <3> HIDE DEF next
    <3>4. (\E i \in DOMAIN next : next[i] \in rest) <=> T(d, r, w[k + 1]) \cap rest # {} BY <3>2
    <3>5. (\A i \in DOMAIN next : next[i] \in rest) <=> T(d, r, w[k + 1]) \subseteq rest BY <3>2
    <3> QED BY <3>3, <3>4, <3>5 DEF next
  <2> QED BY <2>1 DEF Before
<1>4. ASSUME NEW f PROVE Levels(f, g, w) <=> Accepts(f)
  <2>1. ASSUME NEW k \in 0 .. Len(w)
        PROVE  (IF k >= Len(w) THEN g.accepting ELSE Before(g, w, k, f[k + 1]))
               = (IF k = Len(w) THEN d.accepting ELSE Defined(k, f[k + 1]))
    <3> HIDE DEF Defined
    <3>1. k >= Len(w) <=> k = Len(w) OBVIOUS
    <3> QED BY <1>3, <3>1
  <2> HIDE DEF Defined
  <2>2. [k \in 0 .. Len(w) |-> IF k >= Len(w) THEN g.accepting ELSE Before(g, w, k, f[k + 1])]
        = [k \in 0 .. Len(w) |-> IF k = Len(w) THEN d.accepting ELSE Defined(k, f[k + 1])]
    BY <2>1
  <2> QED BY <2>2 DEF Levels
<1>5. f1 = f2
  <2> HIDE DEF Accepts
  <2> QED BY <1>4
<1> QED BY <1>1, <1>2, <1>5

-----------------------------------------------------------------------------
(* The graph, line by line.                                                *)

Line == [q : States, a : Letters, rs : Seq(States)]
Graph == [States -> [Letters -> Seq(States)]]

Load(f, lines, n) ==
  f = [k \in 0 .. n |-> IF k = 0 THEN initTransitionGraph ELSE Add(f[k - 1], lines[k])]

LEMMA LoadExists ==
  ASSUME NEW lines, NEW n \in Nat
  PROVE  \E f : Load(f, lines, n)
<1> DEFINE S == {m \in Nat : \E f : Load(f, lines, m)}
<1>1. 0 \in S
  <2> DEFINE f == [k \in 0 .. 0 |-> initTransitionGraph]
  <2>1. f = [k \in 0 .. 0 |-> IF k = 0 THEN initTransitionGraph ELSE Add(f[k - 1], lines[k])]
    OBVIOUS
  <2> HIDE DEF f
  <2>2. Load(f, lines, 0) BY <2>1 DEF Load
  <2> QED BY <2>2
<1>2. ASSUME NEW m \in Nat, m \in S PROVE m + 1 \in S
  <2>1. PICK f : Load(f, lines, m) BY <1>2
  <2> DEFINE g == [k \in 0 .. (m + 1) |-> IF k <= m THEN f[k] ELSE Add(f[m], lines[m + 1])]
  <2>2. \A k \in 0 .. m : g[k] = f[k] OBVIOUS
  <2>3. \A k \in 0 .. m : f[k] = IF k = 0 THEN initTransitionGraph ELSE Add(f[k - 1], lines[k])
    BY <2>1 DEF Load
  <2>4. ASSUME NEW k \in 0 .. (m + 1)
        PROVE  g[k] = IF k = 0 THEN initTransitionGraph ELSE Add(g[k - 1], lines[k])
    <3>1. CASE k = 0 BY <2>2, <2>3, <3>1
    <3>2. CASE k \in 1 .. m
      <4>1. k - 1 \in 0 .. m /\ k \in 0 .. m /\ k # 0 BY <3>2
      <4> QED BY <2>2, <2>3, <4>1
    <3>3. CASE k = m + 1
      <4>1. k - 1 = m /\ k # 0 /\ ~ (k <= m) /\ m \in 0 .. m BY <3>3
      <4>2. g[k] = Add(f[m], lines[k]) BY <3>3, <4>1
      <4> QED BY <2>2, <4>1, <4>2
    <3> QED BY <3>1, <3>2, <3>3
  <2>5. g = [k \in 0 .. (m + 1) |-> g[k]] OBVIOUS
  <2> HIDE DEF g
  <2>6. g = [k \in 0 .. (m + 1) |->
               IF k = 0 THEN initTransitionGraph ELSE Add(g[k - 1], lines[k])] BY <2>4, <2>5
  <2>7. Load(g, lines, m + 1) BY <2>6 DEF Load
  <2> QED BY <2>7
<1>3. Nat \subseteq S
  <2> HIDE DEF S
  <2> QED BY <1>1, <1>2, NatInductive
<1> QED BY <1>3

LEMMA MinOfTwo ==
  ASSUME NEW i \in Nat, NEW j \in Nat
  PROVE  Min({i, j}) = IF i <= j THEN i ELSE j
BY DEF Min

(* One line adds what fits a piece to the entries of its state and letter. *)
LEMMA AddLine ==
  ASSUME NEW g \in Graph, NEW line \in Line
  PROVE  /\ Add(g, line) \in Graph
         /\ Len(line.rs) <= PIECE =>
              \A q \in States, c \in Letters :
                Range(Add(g, line)[q][c]) =
                  IF q = line.q /\ c = line.a THEN Range(g[q][c]) \cup Range(line.rs)
                                              ELSE Range(g[q][c])
<1> DEFINE m == Min({PIECE, Len(line.rs)})
           piece == SubSeq(line.rs, 1, m)
           old == g[line.q][line.a]
<1>1. line.q \in States /\ line.a \in Letters /\ line.rs \in Seq(States) BY DEF Line
<1>2. PIECE \in Nat /\ Len(line.rs) \in Nat BY <1>1, AutomatonAssumption
<1>3. m = IF PIECE <= Len(line.rs) THEN PIECE ELSE Len(line.rs) BY <1>2, MinOfTwo
<1>4. m \in Nat /\ m <= Len(line.rs) BY <1>2, <1>3
<1> HIDE DEF m
<1>5. piece \in Seq(States) /\ Len(piece) = m /\ \A i \in 1 .. m : piece[i] = line.rs[i]
  <2>1. \A i \in 1 .. m : line.rs[i] \in States BY <1>1, <1>4
  <2>2. /\ piece \in Seq(States) /\ Len(piece) = (IF 1 <= m THEN m - 1 + 1 ELSE 0)
        /\ \A i \in 1 .. (m - 1 + 1) : piece[i] = line.rs[1 + i - 1]
    BY <1>4, <2>1, SubSeqProperties
  <2> QED BY <1>4, <2>2
<1>6. old \in Seq(States) BY <1>1 DEF Graph
<1> HIDE DEF piece, old
<1>7. old \o piece \in Seq(States) BY <1>5, <1>6, ConcatProperties
<1>8. Add(g, line) = [g EXCEPT ![line.q][line.a] = old \o piece] BY DEF Add, piece, old, m
<1>9. Add(g, line) \in Graph BY <1>1, <1>7, <1>8 DEF Graph
<1>10. ASSUME Len(line.rs) <= PIECE, NEW q \in States, NEW c \in Letters
       PROVE  Range(Add(g, line)[q][c]) =
                IF q = line.q /\ c = line.a THEN Range(g[q][c]) \cup Range(line.rs)
                                            ELSE Range(g[q][c])
  <2>1. CASE q = line.q /\ c = line.a
    <3>1. Add(g, line)[q][c] = old \o piece BY <1>1, <1>8, <2>1 DEF Graph
    <3>2. m = Len(line.rs) BY <1>2, <1>3, <1>10
    <3>3. piece = line.rs BY <1>1, <1>5, <3>2, SeqEqual
    <3>4. Range(old \o piece) = Range(old) \cup Range(piece) BY <1>5, <1>6, RangeConcatenation
    <3> QED BY <2>1, <3>1, <3>3, <3>4 DEF old
  <2>2. CASE ~ (q = line.q /\ c = line.a)
    <3>1. Add(g, line)[q][c] = g[q][c] BY <1>1, <1>8, <2>2 DEF Graph
    <3> QED BY <2>2, <3>1
  <2> QED BY <2>1, <2>2
<1> QED BY <1>9, <1>10

(* The successors that the first k lines list for a state and a letter.    *)
Listed(lines, k, q, c) ==
  UNION {Range(lines[j].rs) : j \in {i \in 1 .. k : lines[i].q = q /\ lines[i].a = c}}

LEMMA ListedNext ==
  ASSUME NEW lines, NEW k \in Nat, NEW q, NEW c
  PROVE  Listed(lines, k + 1, q, c) =
           IF lines[k + 1].q = q /\ lines[k + 1].a = c
           THEN Listed(lines, k, q, c) \cup Range(lines[k + 1].rs)
           ELSE Listed(lines, k, q, c)
<1> DEFINE of(n) == {i \in 1 .. n : lines[i].q = q /\ lines[i].a = c}
<1>1. of(k + 1) = IF lines[k + 1].q = q /\ lines[k + 1].a = c THEN of(k) \cup {k + 1} ELSE of(k)
  <2>1. 1 .. (k + 1) = (1 .. k) \cup {k + 1} OBVIOUS
  <2> QED BY <2>1
<1>2. \A n : Listed(lines, n, q, c) = UNION {Range(lines[j].rs) : j \in of(n)} BY DEF Listed
<1> HIDE DEF of
<1>3. CASE lines[k + 1].q = q /\ lines[k + 1].a = c
  <2>1. of(k + 1) = of(k) \cup {k + 1} BY <1>1, <1>3
  <2>2. \A n, x : x \in Listed(lines, n, q, c) <=> \E j \in of(n) : x \in Range(lines[j].rs) BY <1>2
  <2>3. \A x : x \in Listed(lines, k + 1, q, c) <=>
               x \in Listed(lines, k, q, c) \/ x \in Range(lines[k + 1].rs)
    BY <2>1, <2>2
  <2> QED BY <1>3, <2>3
<1>4. CASE ~ (lines[k + 1].q = q /\ lines[k + 1].a = c)
  <2>1. of(k + 1) = of(k) BY <1>1, <1>4
  <2> QED BY <1>2, <1>4, <2>1
<1> QED BY <1>3, <1>4

LEMMA LoadedLines ==
  ASSUME NEW lines \in Seq(Line), NEW f, Load(f, lines, Len(lines))
  PROVE  \A k \in 0 .. Len(lines) :
           /\ f[k] \in Graph
           /\ SplitLines(lines) = {} =>
                \A q \in States, c \in Letters : Range(f[k][q][c]) = Listed(lines, k, q, c)
<1> DEFINE Right(k) ==
             /\ f[k] \in Graph
             /\ SplitLines(lines) = {} =>
                  \A q \in States, c \in Letters : Range(f[k][q][c]) = Listed(lines, k, q, c)
           S == {k \in Nat : k <= Len(lines) => Right(k)}
<1>0. \A k \in Nat : \A q, c :
        Listed(lines, k + 1, q, c) = IF lines[k + 1].q = q /\ lines[k + 1].a = c
                                     THEN Listed(lines, k, q, c) \cup Range(lines[k + 1].rs)
                                     ELSE Listed(lines, k, q, c)
  BY ListedNext
<1>1. Len(lines) \in Nat /\ DOMAIN lines = 1 .. Len(lines) OBVIOUS
<1>2. 0 \in S
  <2>1. f[0] = initTransitionGraph BY <1>1 DEF Load
  <2>2. initTransitionGraph \in Graph BY DEF initTransitionGraph, Graph
  <2>3. ASSUME NEW q \in States, NEW c \in Letters
        PROVE  Range(f[0][q][c]) = Listed(lines, 0, q, c)
    <3>1. f[0][q][c] = <<>> BY <2>1 DEF initTransitionGraph
    <3>2. Range(<<>>) = {} BY DEF Range
    <3>3. {i \in 1 .. 0 : lines[i].q = q /\ lines[i].a = c} = {} OBVIOUS
    <3>4. Listed(lines, 0, q, c) = {} BY <3>3 DEF Listed
    <3> QED BY <3>1, <3>2, <3>4
  <2> QED BY <2>1, <2>2, <2>3
<1>3. ASSUME NEW k \in Nat, k \in S PROVE k + 1 \in S
  <2> SUFFICES ASSUME k + 1 <= Len(lines) PROVE Right(k + 1) OBVIOUS
  <2>1. Right(k) BY <1>1, <1>3
  <2>2. lines[k + 1] \in Line BY <1>1
  <2>3. f[k + 1] = Add(f[k], lines[k + 1])
    <3>1. k + 1 \in 0 .. Len(lines) /\ k + 1 # 0 /\ k + 1 - 1 = k BY <1>1
    <3> QED BY <3>1 DEF Load
  <2>4. f[k + 1] \in Graph BY <2>1, <2>2, <2>3, AddLine
  <2>5. ASSUME SplitLines(lines) = {}, NEW q \in States, NEW c \in Letters
        PROVE  Range(f[k + 1][q][c]) = Listed(lines, k + 1, q, c)
    <3>1. Len(lines[k + 1].rs) <= PIECE
      <4>1. k + 1 \in DOMAIN lines BY <1>1
      <4>2. ~ (Len(lines[k + 1].rs) > PIECE) BY <2>5, <4>1 DEF SplitLines
      <4>3. Len(lines[k + 1].rs) \in Nat /\ PIECE \in Nat BY <2>2, AutomatonAssumption DEF Line
      <4> QED BY <4>2, <4>3
    <3>2. Range(f[k + 1][q][c]) =
            IF q = lines[k + 1].q /\ c = lines[k + 1].a
            THEN Range(f[k][q][c]) \cup Range(lines[k + 1].rs)
            ELSE Range(f[k][q][c])
      <4>1. f[k] \in Graph BY <2>1
      <4>2. Range(Add(f[k], lines[k + 1])[q][c]) =
              IF q = lines[k + 1].q /\ c = lines[k + 1].a
              THEN Range(f[k][q][c]) \cup Range(lines[k + 1].rs)
              ELSE Range(f[k][q][c])
        BY <2>2, <2>5, <3>1, <4>1, AddLine
      <4> QED BY <2>3, <4>2
    <3>3. Range(f[k][q][c]) = Listed(lines, k, q, c) BY <2>1, <2>5
    <3>4. Listed(lines, k + 1, q, c) =
            IF lines[k + 1].q = q /\ lines[k + 1].a = c
            THEN Listed(lines, k, q, c) \cup Range(lines[k + 1].rs)
            ELSE Listed(lines, k, q, c)
      BY <1>0
    <3> QED BY <3>2, <3>3, <3>4
  <2> QED BY <2>4, <2>5
<1>4. Nat \subseteq S
  <2> HIDE DEF S
  <2> QED BY <1>2, <1>3, NatInductive
<1> QED BY <1>1, <1>4

ParsesAll(lines) == SplitLines(lines) = {} /\ \A k \in DOMAIN lines : lines[k].rs # <<>>

(* The parse ends at a line, and after the last one when nothing stops it. *)
LEMMA ParseEnds ==
  ASSUME NEW lines \in Seq(Line)
  PROVE  /\ ParsedUpTo(lines) \subseteq 0 .. Len(lines)
         /\ ParsesAll(lines) => ParsedUpTo(lines) = {Len(lines)}
<1> DEFINE bare == {k \in DOMAIN lines : lines[k].rs = <<>>}
           end == IF bare = {} THEN Len(lines) ELSE Min(bare)
<1>1. Len(lines) \in Nat /\ DOMAIN lines = 1 .. Len(lines) OBVIOUS
<1>2. end \in 0 .. Len(lines)
  <2>1. CASE bare = {} BY <1>1, <2>1
  <2>2. CASE bare # {}
    <3>1. bare \in SUBSET Nat BY <1>1
    <3>2. \E n \in bare : \A m \in bare : n <= m
      <4> HIDE DEF bare
      <4> QED BY <2>2, <3>1, LeastNat
    <3>3. Min(bare) \in bare
      <4> HIDE DEF bare
      <4>1. \E n \in bare : \A m \in bare : m >= n BY <3>1, <3>2
      <4>2. Min(bare) = CHOOSE n \in bare : \A m \in bare : n <= m BY DEF Min
      <4> QED BY <3>2, <4>2
    <3> QED BY <1>1, <2>2, <3>3
  <2> QED BY <2>1, <2>2
<1>3. ParsedUpTo(lines) = {end} \cup {k \in SplitLines(lines) : k < end} BY DEF ParsedUpTo
<1>4. SplitLines(lines) \subseteq 0 .. Len(lines) BY <1>1 DEF SplitLines
<1>5. ASSUME ParsesAll(lines) PROVE SplitLines(lines) = {} /\ end = Len(lines)
  BY <1>5 DEF ParsesAll
<1> HIDE DEF end
<1> QED BY <1>2, <1>3, <1>4, <1>5

LEMMA Loads ==
  ASSUME NEW d, NEW lines \in Seq(Line), NEW g \in loadTransitionGraph(d, lines)
  PROVE  /\ g.q0 = d.q0 /\ g.U = d.U /\ g.accepting = d.accepting /\ g.graph \in Graph
         /\ ParsesAll(lines) /\ d.lines = lines =>
              \A q \in States, c \in Letters : Range(g.graph[q][c]) = T(d, q, c)
<1> DEFINE f == CHOOSE f : Load(f, lines, Len(lines))
<1>1. loadTransitionGraph(d, lines) =
        {[q0 |-> d.q0, U |-> d.U, accepting |-> d.accepting, graph |-> f[k]] : k \in ParsedUpTo(lines)}
  BY Zenon DEF loadTransitionGraph, Load
<1>2. Len(lines) \in Nat /\ DOMAIN lines = 1 .. Len(lines) OBVIOUS
<1>3. Load(f, lines, Len(lines)) BY <1>2, LoadExists
<1> HIDE DEF f
<1>4. PICK k \in ParsedUpTo(lines) :
        g = [q0 |-> d.q0, U |-> d.U, accepting |-> d.accepting, graph |-> f[k]]
  BY <1>1
<1>5. k \in 0 .. Len(lines) BY ParseEnds
<1>6. f[k] \in Graph BY <1>3, <1>5, LoadedLines
<1>7. ASSUME ParsesAll(lines), d.lines = lines, NEW q \in States, NEW c \in Letters
      PROVE  Range(g.graph[q][c]) = T(d, q, c)
  <2>1. k = Len(lines) BY <1>7, ParseEnds
  <2>2. SplitLines(lines) = {} BY <1>7 DEF ParsesAll
  <2>3. Range(f[k][q][c]) = Listed(lines, k, q, c) BY <1>3, <1>5, <2>2, LoadedLines
  <2>4. T(d, q, c) = UNION {Range(lines[j].rs) : j \in {i \in 1 .. k : lines[i].q = q /\ lines[i].a = c}}
    BY <1>2, <1>7, <2>1 DEF T
  <2>5. Listed(lines, k, q, c) = T(d, q, c) BY <2>4 DEF Listed
  <2> QED BY <1>4, <2>3, <2>5
<1> QED BY <1>4, <1>6, <1>7

-----------------------------------------------------------------------------
(* The computation tree of a loaded graph.                                 *)

Loaded ==
  /\ tg.q0 \in States /\ tg.U \in Nat /\ tg.accepting \subseteq States
  /\ tg.graph \in Graph /\ word \in Seq(Letters)

IsNode(node) == node \in Node /\ Len(node) <= Len(word) /\ StateAt(node) \in States

Inner(node) == IsNode(node) /\ Len(node) < Len(word)

(* What acceptSync_rec returns at a node.                                  *)
Answer(node) == acceptSync_rec(tg, word, StateAt(node), Len(node))

LEMMA TreeUnchanged ==
  ASSUME tg' = tg, word' = word, NEW node
  PROVE  /\ StateAt(node)' = StateAt(node)
         /\ BranchCount(node)' = BranchCount(node)
         /\ Existentially(node)' = Existentially(node)
         /\ IsNode(node)' = IsNode(node)
         /\ Inner(node)' = Inner(node)
         /\ Answer(node)' = Answer(node)
<1>1. StateAt(node)' = StateAt(node) BY DEF StateAt
<1>2. BranchCount(node)' = BranchCount(node) BY <1>1 DEF BranchCount
<1>3. Existentially(node)' = Existentially(node) BY <1>1 DEF Existentially, Existential
<1>4. IsNode(node)' = IsNode(node) BY <1>1 DEF IsNode
<1>5. Inner(node)' = Inner(node) BY <1>4 DEF Inner
<1>6. Answer(node)' = Answer(node) BY <1>1 DEF Answer, acceptSync_rec, Existential
<1> QED BY <1>1, <1>2, <1>3, <1>4, <1>5, <1>6

LEMMA AnswerIsBoolean == ASSUME NEW node PROVE Answer(node) \in BOOLEAN
BY DEF Answer, acceptSync_rec

LEMMA BranchesAreNodes ==
  ASSUME Loaded, NEW node, Inner(node)
  PROVE  /\ BranchCount(node) \in Nat
         /\ \A i \in 0 .. (BranchCount(node) - 1) :
              /\ IsNode(Append(node, i))
              /\ StateAt(Append(node, i)) = tg.graph[StateAt(node)][word[Len(node) + 1]][i + 1]
<1> DEFINE next == tg.graph[StateAt(node)][word[Len(node) + 1]]
<1>1. Len(node) \in Nat /\ Len(word) \in Nat /\ node \in Node /\ Len(node) < Len(word)
  BY DEF Inner, IsNode, Node, Loaded
<1>2. word[Len(node) + 1] \in Letters BY <1>1, ElementOfSeq DEF Loaded
<1>3. next \in Seq(States) BY <1>2 DEF Loaded, Graph, Inner, IsNode
<1>4. BranchCount(node) = Len(next) BY DEF BranchCount
<1> HIDE DEF next
<1>5. ASSUME NEW i \in 0 .. (Len(next) - 1)
      PROVE  IsNode(Append(node, i)) /\ StateAt(Append(node, i)) = next[i + 1]
  <2>1. Len(next) \in Nat BY <1>3
  <2>2. i \in Nat /\ i + 1 \in 1 .. Len(next) BY <2>1
  <2>3. StateAt(Append(node, i)) = next[i + 1] BY <1>1, <2>2, StateAtChild DEF next
  <2>4. next[i + 1] \in States BY <1>3, <2>2, ElementOfSeq
  <2>5. Append(node, i) \in Node /\ Len(Append(node, i)) = Len(node) + 1 BY <1>1, <2>2, AppendNode
  <2> QED BY <1>1, <2>3, <2>4, <2>5 DEF IsNode
<1>6. \A i \in 0 .. (BranchCount(node) - 1) :
        IsNode(Append(node, i)) /\ StateAt(Append(node, i)) = next[i + 1]
  BY <1>4, <1>5
<1>7. BranchCount(node) \in Nat BY <1>3, <1>4
<1> QED BY <1>6, <1>7, Zenon DEF next

LEMMA AnswerLeaf ==
  ASSUME Loaded, NEW node, IsNode(node), Len(node) >= Len(word)
  PROVE  Answer(node) = (StateAt(node) \in tg.accepting)
<1>1. Len(node) = Len(word) /\ Len(word) \in Nat BY DEF IsNode, Node, Loaded
<1>2. acceptSync_rec(tg, word, StateAt(node), Len(word)) <=> StateAt(node) \in tg.accepting
  BY <1>1, SyncLeaf DEF Loaded
<1>3. Answer(node) <=> StateAt(node) \in tg.accepting BY <1>1, <1>2 DEF Answer
<1> QED BY <1>3, AnswerIsBoolean

(* A node is decided by one branch, or undecided by all of them.           *)
LEMMA AnswerInner ==
  ASSUME Loaded, NEW node, Inner(node)
  PROVE  Answer(node) = IF \E i \in 0 .. (BranchCount(node) - 1) :
                              Answer(Append(node, i)) = Existentially(node)
                        THEN Existentially(node) ELSE ~ Existentially(node)
<1> DEFINE next == tg.graph[StateAt(node)][word[Len(node) + 1]]
           n == BranchCount(node)
<1>1. Len(node) \in Nat /\ Len(word) \in Nat /\ node \in Node /\ Len(node) < Len(word)
      /\ StateAt(node) \in States
  BY DEF Inner, IsNode, Node, Loaded
<1>2. n = Len(next) /\ n \in Nat BY BranchesAreNodes DEF BranchCount
<1>3. word[Len(node) + 1] \in Letters BY <1>1, ElementOfSeq DEF Loaded
<1>4. next \in Seq(States) BY <1>1, <1>3 DEF Loaded, Graph
<1>5. DOMAIN next = 1 .. n BY <1>2, <1>4
<1>6. \A i \in 0 .. (n - 1) :
        Answer(Append(node, i)) = acceptSync_rec(tg, word, next[i + 1], Len(node) + 1)
  <2> TAKE i \in 0 .. (n - 1)
  <2>1. StateAt(Append(node, i)) = next[i + 1] BY BranchesAreNodes
  <2>2. i \in Nat BY <1>2
  <2>3. Len(Append(node, i)) = Len(node) + 1 BY <1>1, <2>2, AppendNode
  <2> QED BY <2>1, <2>3 DEF Answer
<1>7. Len(node) \in 0 .. (Len(word) - 1) BY <1>1
<1>8. Answer(node) <=>
        IF Existentially(node)
        THEN \E i \in DOMAIN next : acceptSync_rec(tg, word, next[i], Len(node) + 1)
        ELSE \A i \in DOMAIN next : acceptSync_rec(tg, word, next[i], Len(node) + 1)
  BY <1>1, <1>7, SyncNode, Zenon DEF Answer, Loaded, Existentially
<1> DEFINE yes(i) == acceptSync_rec(tg, word, next[i], Len(node) + 1)
<1> HIDE DEF next, n
<1>9. \A i \in 1 .. n : yes(i) <=> Answer(Append(node, i - 1))
  <2> TAKE i \in 1 .. n
  <2>1. i - 1 \in 0 .. (n - 1) /\ i - 1 + 1 = i BY <1>2
  <2>2. Answer(Append(node, i - 1)) = yes(i) BY <1>6, <2>1
  <2> QED BY <2>2
<1>10. Existentially(node) \in BOOLEAN BY DEF Existentially, Existential
<1>11. \A i \in 0 .. (n - 1) : i + 1 \in 1 .. n /\ i + 1 - 1 = i BY <1>2
<1>12. \A i \in 0 .. (n - 1) : yes(i + 1) <=> Answer(Append(node, i)) BY <1>9, <1>11
<1>13. \A i : Answer(Append(node, i)) \in BOOLEAN BY AnswerIsBoolean
<1>14. Answer(node) <=> IF Existentially(node) THEN \E i \in 1 .. n : yes(i)
                                               ELSE \A i \in 1 .. n : yes(i)
  BY <1>5, <1>8
<1> HIDE DEF yes
<1>15. (\E i \in 1 .. n : yes(i)) <=> \E i \in 0 .. (n - 1) : Answer(Append(node, i))
  <2>1. ASSUME NEW i \in 1 .. n, yes(i) PROVE \E j \in 0 .. (n - 1) : Answer(Append(node, j))
    <3>1. i - 1 \in 0 .. (n - 1) BY <1>2
    <3> QED BY <1>9, <2>1, <3>1
  <2>2. ASSUME NEW i \in 0 .. (n - 1), Answer(Append(node, i)) PROVE \E j \in 1 .. n : yes(j)
    BY <1>11, <1>12, <2>2
  <2> QED BY <2>1, <2>2
<1>16. (\A i \in 1 .. n : yes(i)) <=> \A i \in 0 .. (n - 1) : Answer(Append(node, i))
  <2>1. ASSUME \A i \in 1 .. n : yes(i), NEW i \in 0 .. (n - 1) PROVE Answer(Append(node, i))
    BY <1>11, <1>12, <2>1
  <2>2. ASSUME \A i \in 0 .. (n - 1) : Answer(Append(node, i)), NEW i \in 1 .. n PROVE yes(i)
    <3>1. i - 1 \in 0 .. (n - 1) BY <1>2
    <3> QED BY <1>9, <2>2, <3>1
  <2> QED BY <2>1, <2>2
<1>17. CASE Existentially(node)
  <2>1. Existentially(node) = TRUE BY <1>10, <1>17
  <2>2. Answer(node) <=> \E i \in 0 .. (n - 1) : Answer(Append(node, i)) BY <1>14, <1>15, <1>17
  <2>3. (\E i \in 0 .. (n - 1) : Answer(Append(node, i))) <=>
          \E i \in 0 .. (n - 1) : Answer(Append(node, i)) = Existentially(node)
    BY <1>13, <2>1
  <2> QED BY <2>1, <2>2, <2>3, AnswerIsBoolean DEF n
<1>18. CASE ~ Existentially(node)
  <2>1. Existentially(node) = FALSE BY <1>10, <1>18
  <2>2. Answer(node) <=> \A i \in 0 .. (n - 1) : Answer(Append(node, i)) BY <1>14, <1>16, <1>18
  <2>3. (\E i \in 0 .. (n - 1) : Answer(Append(node, i)) = Existentially(node)) <=>
          \E i \in 0 .. (n - 1) : ~ Answer(Append(node, i))
    BY <1>13, <2>1
  <2> QED BY <2>1, <2>2, <2>3, AnswerIsBoolean DEF n
<1> QED BY <1>17, <1>18

-----------------------------------------------------------------------------
(* The processes.  A frame is safe in a tree whose processes are D and     *)
(* whose reports are those of B, with or without a value from a pipe that  *)
(* was never opened (junk).                                                *)

Phases == {"fork", "local", "origin", "wait", "read"}

Frames == [node : Node, workload : Nat, fork_count : Nat, ph : Phases, i : Nat,
           value : BOOLEAN \cup {NONE}, opened_state : SUBSET Nat]

Processes == [stack : Seq(Frames), ret : BOOLEAN \cup {NONE},
              status : {"running", "ended", "failed", "hung"}]

(* The branch that a frame calculates itself now, and those it may yet fork. *)
Going(f) == IF f.ph = "local" THEN f.i ELSE 0

Awaited(f) == Append(f.node, Going(f))

Unforked(f) == {j \in Nat : j = 0 \/ j > f.i \/ (f.ph = "fork" /\ j = f.i)}

(* No other process calculates what the frame is on the way to, and the     *)
(* branches not yet forked are nobody's.                                   *)
FrameAlone(p, f, D) ==
  /\ \A o \in D : IsPrefix(o, f.node) => IsPrefix(o, p)
  /\ f.ph \in {"fork", "local"} =>
       \A j \in Unforked(f), o \in D : ~ IsPrefix(Append(f.node, j), o)

(* The branches that are forked have processes, and are read after their    *)
(* reports.                                                                *)
FrameSafe(p, f, D, B) ==
  /\ Inner(f.node) /\ IsPrefix(p, f.node)
  /\ f.i \in 1 .. BranchCount(f.node)
  /\ f.ph = "local" => f.i < BranchCount(f.node)
  /\ f.ph = "origin" => f.i = BranchCount(f.node)
  /\ FrameAlone(p, f, D)
  /\ \A j \in f.opened_state : Append(f.node, j) \in D
  /\ f.ph = "read" => \A j \in f.opened_state : Append(f.node, j) \in B

Undecided(f, j) == Answer(Append(f.node, j)) # Existentially(f.node)

(* What the frame has learned of its branches.                             *)
FrameRight(f) ==
  /\ f.ph \in {"fork", "local", "origin"} =>
       \A j \in 1 .. (f.i - 1) : j \notin f.opened_state => Undecided(f, j)
  /\ f.ph = "wait" =>
       \/ f.value = Existentially(f.node) /\ Answer(f.node) = Existentially(f.node)
       \/ /\ f.value # Existentially(f.node)
          /\ Undecided(f, 0)
          /\ \A j \in 1 .. (BranchCount(f.node) - 1) : j \notin f.opened_state => Undecided(f, j)
  /\ f.ph = "read" =>
       /\ Undecided(f, 0)
       /\ \A j \in 1 .. (BranchCount(f.node) - 1) :
            j \notin f.opened_state \/ j < f.i => Undecided(f, j)

StackSafe(p, s, D, B, junk) ==
  /\ s \in Seq(Frames)
  /\ \A k \in 1 .. Len(s) :
       /\ FrameSafe(p, s[k], D, B)
       /\ junk \/ FrameRight(s[k])
       /\ k = 1 => s[k].node = p
       /\ k < Len(s) => s[k].ph \in {"local", "origin"} /\ s[k + 1].node = Awaited(s[k])
       /\ \A j \in 1 .. (k - 1) : IsPrefix(Awaited(s[j]), s[k].node)

(* The node that the process calculates when its stack is s.               *)
Pending(p, s) == IF s = <<>> THEN p ELSE Awaited(Last(s))

Safe(p, r, D, B, junk) ==
  /\ r \in Processes
  /\ IsNode(p) /\ (p # <<>> => p[Len(p)] # 0)
  /\ StackSafe(p, r.stack, D, B, junk)
  /\ r.ret # NONE => /\ r.stack # <<>> => Last(r.stack).ph \in {"local", "origin"}
                     /\ junk \/ r.ret = Answer(Pending(p, r.stack))
  /\ r.ret = NONE => r.stack # <<>>
  /\ r.status = "ended" => r.stack = <<>> /\ r.ret # NONE /\ p \in B

(* A process that has waited for all its children.                         *)
HasWaited(r) == r.stack = <<>> \/ Last(r.stack).ph = "read"

TreeInv ==
  /\ garbled \in BOOLEAN
  /\ DOMAIN branch \subseteq DOMAIN procs
  /\ \A p \in DOMAIN procs : Safe(p, procs[p], DOMAIN procs, DOMAIN branch, garbled)
  /\ \A c \in DOMAIN branch : procs[c].status = "ended" /\ branch[c] = procs[c].ret
  /\ \A p \in DOMAIN procs : HasWaited(procs[p]) => \A c \in Children(p) : procs[c].status = "ended"

(* The whole of it moves with the graph and the word.                      *)
LEMMA SafeUnchanged ==
  ASSUME tg' = tg, word' = word, NEW p, NEW r, NEW D, NEW B, NEW junk
  PROVE  Safe(p, r, D, B, junk)' <=> Safe(p, r, D, B, junk)
<1>1. ASSUME NEW f PROVE FrameSafe(p, f, D, B)' <=> FrameSafe(p, f, D, B)
  BY TreeUnchanged DEF FrameSafe, FrameAlone, Unforked
<1>2. ASSUME NEW f PROVE FrameRight(f)' <=> FrameRight(f)
  BY TreeUnchanged DEF FrameRight, Undecided
<1>3. ASSUME NEW s PROVE StackSafe(p, s, D, B, junk)' <=> StackSafe(p, s, D, B, junk)
  BY <1>1, <1>2 DEF StackSafe, Awaited, Going, Frames, Node, Phases
<1>4. IsNode(p)' <=> IsNode(p) BY TreeUnchanged
<1>5. \A s : Answer(Pending(p, s))' = Answer(Pending(p, s))
  BY TreeUnchanged DEF Pending, Awaited, Going
<1> QED BY <1>3, <1>4, <1>5 DEF Safe, Processes, Frames, Node, Phases, Pending, Awaited, Going

LEMMA FrontLast ==
  ASSUME NEW S, NEW s \in Seq(S), s # <<>>
  PROVE  /\ Len(s) \in Nat /\ Len(s) >= 1
         /\ Last(s) = s[Len(s)] /\ Last(s) \in S
         /\ Front(s) \in Seq(S) /\ Len(Front(s)) = Len(s) - 1
         /\ \A k \in 1 .. (Len(s) - 1) : Front(s)[k] = s[k]
<1>1. Len(s) \in Nat /\ Len(s) >= 1 BY EmptySeq
<1>2. Last(s) = s[Len(s)] BY DEF Last
<1>3. s[Len(s)] \in S BY <1>1
<1>4. \A i \in 1 .. (Len(s) - 1) : s[i] \in S BY <1>1
<1>5. /\ Front(s) \in Seq(S)
      /\ Len(Front(s)) = IF 1 <= Len(s) - 1 THEN Len(s) - 1 - 1 + 1 ELSE 0
      /\ \A i \in 1 .. (Len(s) - 1 - 1 + 1) : Front(s)[i] = s[1 + i - 1]
  BY <1>1, <1>4, SubSeqProperties DEF Front
<1>6. Len(Front(s)) = Len(s) - 1
  <2>1. CASE 1 <= Len(s) - 1
    <3>1. Len(Front(s)) = Len(s) - 1 - 1 + 1 BY <1>5, <2>1
    <3> QED BY <1>1, <3>1
  <2>2. CASE ~ (1 <= Len(s) - 1)
    <3>1. Len(Front(s)) = 0 BY <1>5, <2>2
    <3>2. ASSUME NEW n \in Nat, n >= 1, ~ (1 <= n - 1) PROVE n - 1 = 0 BY <3>2
    <3>3. Len(s) - 1 = 0 BY <1>1, <2>2, <3>2
    <3> QED BY <3>1, <3>3
  <2> QED BY <2>1, <2>2
<1>7. ASSUME NEW k \in 1 .. (Len(s) - 1) PROVE Front(s)[k] = s[k]
  <2>1. k \in 1 .. (Len(s) - 1 - 1 + 1) /\ 1 + k - 1 = k BY <1>1
  <2> QED BY <1>5, <2>1
<1> QED BY <1>1, <1>2, <1>3, <1>5, <1>6, <1>7

(* The process goes on with another version of its last frame, or leaves it, *)
(* or calls acceptAsync_node for the node it awaits.                       *)
LEMMA StackReplaced ==
  ASSUME NEW p, NEW D, NEW B, NEW junk, NEW s, StackSafe(p, s, D, B, junk), s # <<>>,
         NEW g \in Frames, g.node = Last(s).node, FrameSafe(p, g, D, B), junk \/ FrameRight(g)
  PROVE  /\ StackSafe(p, Append(Front(s), g), D, B, junk)
         /\ Last(Append(Front(s), g)) = g /\ Append(Front(s), g) # <<>>
<1> DEFINE n == Len(s)
           t == Append(Front(s), g)
<1>1. s \in Seq(Frames) BY DEF StackSafe
<1>2. /\ n \in Nat /\ n >= 1 /\ Last(s) = s[n]
      /\ Front(s) \in Seq(Frames) /\ Len(Front(s)) = n - 1
      /\ \A k \in 1 .. (n - 1) : Front(s)[k] = s[k]
  BY <1>1, FrontLast
<1>3. /\ t \in Seq(Frames) /\ t # <<>> /\ Len(t) = n - 1 + 1
      /\ \A k \in 1 .. (n - 1) : t[k] = Front(s)[k]
      /\ t[n - 1 + 1] = g
  BY <1>2, AppendProperties
<1>4. Len(t) = n /\ t[n] = g /\ \A k \in 1 .. (n - 1) : t[k] = s[k] BY <1>2, <1>3
<1> HIDE DEF t, n
<1>5. ASSUME NEW k \in 1 .. n
      PROVE  /\ FrameSafe(p, t[k], D, B)
             /\ junk \/ FrameRight(t[k])
             /\ k = 1 => t[k].node = p
             /\ k < n => t[k].ph \in {"local", "origin"} /\ t[k + 1].node = Awaited(t[k])
             /\ \A j \in 1 .. (k - 1) : IsPrefix(Awaited(t[j]), t[k].node)
  <2>1. /\ FrameSafe(p, s[k], D, B)
        /\ junk \/ FrameRight(s[k])
        /\ k = 1 => s[k].node = p
        /\ k < n => s[k].ph \in {"local", "origin"} /\ s[k + 1].node = Awaited(s[k])
        /\ \A j \in 1 .. (k - 1) : IsPrefix(Awaited(s[j]), s[k].node)
    BY DEF StackSafe, n
  <2>2. \A j \in 1 .. (k - 1) : t[j] = s[j] BY <1>2, <1>4
  <2>3. \A j \in 1 .. n : t[j].node = s[j].node
    <3> TAKE j \in 1 .. n
    <3>1. CASE j = n BY <1>2, <1>4, <3>1
    <3>2. CASE j # n
      <4>1. j \in 1 .. (n - 1) BY <1>2, <3>2
      <4> QED BY <1>4, <4>1
    <3> QED BY <3>1, <3>2
  <2>4. CASE k = n BY <1>2, <1>4, <2>1, <2>2, <2>3, <2>4
  <2>5. CASE k # n
    <3>1. k \in 1 .. (n - 1) /\ k + 1 \in 1 .. n BY <1>2, <2>5
    <3>2. t[k] = s[k] BY <1>4, <3>1
    <3> QED BY <2>1, <2>2, <2>3, <3>1, <3>2
  <2> QED BY <2>4, <2>5
<1>6. StackSafe(p, t, D, B, junk) BY <1>3, <1>4, <1>5 DEF StackSafe
<1> QED BY <1>3, <1>4, <1>6 DEF Last, t

LEMMA StackLeft ==
  ASSUME NEW p, NEW D, NEW B, NEW junk, NEW s, StackSafe(p, s, D, B, junk), s # <<>>
  PROVE  /\ StackSafe(p, Front(s), D, B, junk)
         /\ Pending(p, Front(s)) = Last(s).node
         /\ Front(s) # <<>> => Last(Front(s)).ph \in {"local", "origin"}
<1> DEFINE n == Len(s)
           t == Front(s)
<1>1. s \in Seq(Frames) BY DEF StackSafe
<1>2. /\ n \in Nat /\ n >= 1 /\ Last(s) = s[n]
      /\ t \in Seq(Frames) /\ Len(t) = n - 1
      /\ \A k \in 1 .. (n - 1) : t[k] = s[k]
  BY <1>1, FrontLast
<1>3. \A k \in 1 .. n :
        /\ FrameSafe(p, s[k], D, B)
        /\ junk \/ FrameRight(s[k])
        /\ k = 1 => s[k].node = p
        /\ k < n => s[k].ph \in {"local", "origin"} /\ s[k + 1].node = Awaited(s[k])
        /\ \A j \in 1 .. (k - 1) : IsPrefix(Awaited(s[j]), s[k].node)
  BY DEF StackSafe
<1> HIDE DEF t, n
<1>4. ASSUME NEW k \in 1 .. (n - 1)
      PROVE  /\ FrameSafe(p, t[k], D, B)
             /\ junk \/ FrameRight(t[k])
             /\ k = 1 => t[k].node = p
             /\ k < n - 1 => t[k].ph \in {"local", "origin"} /\ t[k + 1].node = Awaited(t[k])
             /\ \A j \in 1 .. (k - 1) : IsPrefix(Awaited(t[j]), t[k].node)
  <2>1. k \in 1 .. n /\ t[k] = s[k] BY <1>2
  <2>2. \A j \in 1 .. (k - 1) : t[j] = s[j] BY <1>2
  <2>3. k < n - 1 => t[k + 1] = s[k + 1] BY <1>2
  <2> QED BY <1>2, <1>3, <2>1, <2>2, <2>3
<1>5. StackSafe(p, t, D, B, junk) BY <1>2, <1>4 DEF StackSafe
<1>6. CASE n = 1
  <2>1. t = <<>> BY <1>2, <1>6, EmptySeq
  <2>2. s[1].node = p BY <1>2, <1>3, <1>6
  <2> QED BY <1>2, <1>5, <1>6, <2>1, <2>2 DEF Pending, t
<1>7. CASE n > 1
  <2>1. t # <<>> /\ Len(t) = n - 1 /\ n - 1 \in 1 .. n /\ n - 1 \in 1 .. (n - 1) BY <1>2, <1>7
  <2>2. Last(t) = s[n - 1] BY <1>2, <2>1 DEF Last
  <2>3. s[n - 1].ph \in {"local", "origin"} /\ s[n - 1 + 1].node = Awaited(s[n - 1])
    BY <1>2, <1>3, <2>1
  <2>4. n - 1 + 1 = n BY <1>2
  <2> QED BY <1>2, <1>5, <2>1, <2>2, <2>3, <2>4 DEF Pending, t
<1> QED BY <1>2, <1>6, <1>7

LEMMA StackEntered ==
  ASSUME NEW p, NEW D, NEW B, NEW junk, NEW s, StackSafe(p, s, D, B, junk),
         s # <<>> => Last(s).ph \in {"local", "origin"},
         NEW h \in Frames, h.node = Pending(p, s), FrameSafe(p, h, D, B), junk \/ FrameRight(h)
  PROVE  StackSafe(p, Append(s, h), D, B, junk)
<1> DEFINE n == Len(s)
           t == Append(s, h)
<1>1. s \in Seq(Frames) BY DEF StackSafe
<1>2. /\ n \in Nat /\ t \in Seq(Frames) /\ Len(t) = n + 1
      /\ \A k \in 1 .. n : t[k] = s[k]
      /\ t[n + 1] = h
  BY <1>1, AppendProperties
<1>3. \A k \in 1 .. n :
        /\ FrameSafe(p, s[k], D, B)
        /\ junk \/ FrameRight(s[k])
        /\ k = 1 => s[k].node = p
        /\ k < n => s[k].ph \in {"local", "origin"} /\ s[k + 1].node = Awaited(s[k])
        /\ \A j \in 1 .. (k - 1) : IsPrefix(Awaited(s[j]), s[k].node)
  BY DEF StackSafe
<1>4. s = <<>> <=> n = 0 BY <1>1, EmptySeq
<1>5. n > 0 => Pending(p, s) = Awaited(s[n]) /\ s[n].ph \in {"local", "origin"}
  BY <1>4 DEF Pending, Last
<1>6. n = 0 => Pending(p, s) = p BY <1>4 DEF Pending
<1> HIDE DEF t, n
<1>7. \A k \in 1 .. n : s[k] \in Frames BY <1>1, ElementOfSeq DEF n
<1>8. ASSUME NEW k \in 1 .. n PROVE Awaited(s[k]) \in Node /\ IsPrefix(s[k].node, Awaited(s[k]))
  <2>1. s[k].node \in Node /\ s[k].i \in Nat BY <1>7 DEF Frames
  <2>2. Going(s[k]) \in Nat BY <2>1 DEF Going
  <2> QED BY <2>1, <2>2, AppendNode DEF Awaited
<1>9. ASSUME NEW k \in 1 .. (n + 1)
      PROVE  /\ FrameSafe(p, t[k], D, B)
             /\ junk \/ FrameRight(t[k])
             /\ k = 1 => t[k].node = p
             /\ k < n + 1 => t[k].ph \in {"local", "origin"} /\ t[k + 1].node = Awaited(t[k])
             /\ \A j \in 1 .. (k - 1) : IsPrefix(Awaited(t[j]), t[k].node)
  <2>1. CASE k \in 1 .. n
    <3>1. t[k] = s[k] /\ \A j \in 1 .. (k - 1) : t[j] = s[j] BY <1>2, <2>1
    <3>2. k < n + 1 => t[k].ph \in {"local", "origin"} /\ t[k + 1].node = Awaited(t[k])
      <4>1. CASE k = n BY <1>2, <1>5, <2>1, <3>1, <4>1
      <4>2. CASE k # n
        <5>1. k + 1 \in 1 .. n /\ k < n BY <1>2, <2>1, <4>2
        <5> QED BY <1>2, <1>3, <2>1, <3>1, <5>1
      <4> QED BY <4>1, <4>2
    <3> QED BY <1>3, <2>1, <3>1, <3>2
  <2>2. CASE k = n + 1
    <3>1. t[k] = h /\ \A j \in 1 .. (k - 1) : t[j] = s[j] BY <1>2, <2>2
    <3>2. k = 1 => h.node = p BY <1>2, <1>6, <2>2
    <3>3. ASSUME NEW j \in 1 .. (k - 1) PROVE IsPrefix(Awaited(s[j]), h.node)
      <4>1. j \in 1 .. n /\ n \in 1 .. n /\ n > 0 BY <1>2, <2>2
      <4>2. h.node = Awaited(s[n]) BY <1>5, <4>1
      <4>3. CASE j = n BY <1>8, <4>1, <4>2, <4>3, PrefixSelf
      <4>4. CASE j # n
        <5>1. IsPrefix(Awaited(s[j]), s[n].node)
          <6>1. j \in 1 .. (n - 1) BY <1>2, <4>1, <4>4
          <6> QED BY <1>3, <4>1, <6>1
        <5>2. s[n].node \in Node BY <1>7, <4>1 DEF Frames
        <5> QED BY <1>8, <4>1, <4>2, <5>1, <5>2, PrefixTransitive
      <4> QED BY <4>3, <4>4
    <3> QED BY <2>2, <3>1, <3>2, <3>3
  <2> QED BY <1>2, <2>1, <2>2
<1> QED BY <1>2, <1>9 DEF StackSafe, t

(* acceptAsync_rec called for a node that nobody has touched: it returns    *)
(* the answer of the node, or begins to fork for it.                       *)
Entered(r, p, D, B, junk, s, node) ==
  /\ StackSafe(p, r.stack, D, B, junk)
  /\ r.ret \in BOOLEAN \cup {NONE}
  /\ r.ret # NONE => r.stack = s /\ r.ret = Answer(node)
  /\ r.ret = NONE => r.stack # <<>> /\ Last(r.stack).ph = "fork"

LEMMA Called ==
  ASSUME Loaded, NEW p \in Node, NEW D, D \subseteq Node, NEW B, NEW junk,
         NEW s, StackSafe(p, s, D, B, junk),
         s # <<>> => Last(s).ph \in {"local", "origin"},
         NEW node, node = Pending(p, s), IsNode(node), IsPrefix(p, node),
         \A o \in D : IsPrefix(o, node) => IsPrefix(o, p),
         \A o \in D, j \in Nat : ~ IsPrefix(Append(node, j), o),
         NEW load \in Nat, NEW forks \in Nat
  PROVE  Entered(acceptAsync_rec(s, node, load, forks), p, D, B, junk, s, node)
<1> DEFINE r == acceptAsync_rec(s, node, load, forks)
<1> DEFINE h == [node |-> node, workload |-> load + 1,
                 fork_count |-> forks + BranchCount(node) - 1,
                 ph |-> "fork", i |-> 1, value |-> NONE, opened_state |-> {}]
<1>1. NONE \notin BOOLEAN BY AcceptanceAssumption
<1>2. Len(node) \in Nat /\ Len(word) \in Nat /\ node \in Node BY DEF IsNode, Node, Loaded
<1>3. CASE Len(node) >= Len(word)
  <2>1. r = [stack |-> s, ret |-> StateAt(node) \in tg.accepting] BY <1>3 DEF acceptAsync_rec
  <2>2. r.stack = s /\ r.ret = Answer(node) BY <1>3, <2>1, AnswerLeaf
  <2> QED BY <1>1, <2>2, AnswerIsBoolean DEF Entered
<1>4. CASE Len(node) < Len(word) /\ ~ Overloaded(load + 1, forks)
  <2>1. r = [stack |-> s, ret |-> acceptSync_rec(tg, word, StateAt(node), Len(node))]
    BY <1>2, <1>4 DEF acceptAsync_rec
  <2>2. r.stack = s /\ r.ret = Answer(node) BY <2>1 DEF Answer
  <2> QED BY <1>1, <2>2, AnswerIsBoolean DEF Entered
<1>5. CASE Len(node) < Len(word) /\ Overloaded(load + 1, forks)
  <2>1. Inner(node) BY <1>5 DEF Inner
  <2>2. BranchCount(node) \in Nat BY <2>1, BranchesAreNodes
  <2>3. CASE BranchCount(node) <= 0
    <3>1. r = [stack |-> s, ret |-> ~ Existentially(node)]
      BY <1>2, <1>5, <2>3 DEF acceptAsync_rec
    <3>2. 0 .. (BranchCount(node) - 1) = {} BY <2>2, <2>3
    <3>3. Answer(node) = ~ Existentially(node) BY <2>1, <3>2, AnswerInner
    <3>4. r.stack = s /\ r.ret = Answer(node) BY <3>1, <3>3
    <3> QED BY <1>1, <3>4, AnswerIsBoolean DEF Entered
  <2>4. CASE BranchCount(node) > 0
    <3>1. r = [stack |-> Append(s, h), ret |-> NONE]
      BY <1>2, <1>5, <2>2, <2>4 DEF acceptAsync_rec
    <3>2. h \in Frames BY <1>2, <2>2, <2>4 DEF Frames, Phases
    <3>3. /\ h.node = node /\ h.ph = "fork" /\ h.i = 1 /\ h.opened_state = {}
      OBVIOUS
    <3> HIDE DEF h
    <3>4. FrameSafe(p, h, D, B)
      <4>1. \A j \in Unforked(h) : j \in Nat BY DEF Unforked
      <4>2. h.i \in 1 .. BranchCount(h.node) BY <2>2, <2>4, <3>3
      <4> QED BY <2>1, <3>3, <4>1, <4>2 DEF FrameSafe, FrameAlone
    <3>5. FrameRight(h)
      <4>1. 1 .. (h.i - 1) = {} BY <3>3
      <4> QED BY <3>3, <4>1 DEF FrameRight
    <3>6. StackSafe(p, Append(s, h), D, B, junk) BY <3>2, <3>3, <3>4, <3>5, StackEntered
    <3>7. s \in Seq(Frames) BY DEF StackSafe
    <3>8. Append(s, h) # <<>> /\ Last(Append(s, h)) = h
      BY <3>2, <3>7, AppendProperties DEF Last
    <3> QED BY <3>1, <3>3, <3>6, <3>8 DEF Entered
  <2> QED BY <2>2, <2>3, <2>4
<1> QED BY <1>2, <1>3, <1>4, <1>5

(* A process is forked, by q from its frame f: the frame g, of another      *)
(* process or further up, or the frame f itself afterwards, stays alone.   *)
LEMMA AloneAfterFork ==
  ASSUME NEW D, D \subseteq Node, NEW p \in D, NEW q \in D,
         NEW f \in Frames, f.ph = "fork", IsPrefix(q, f.node), FrameAlone(q, f, D),
         NEW g \in Frames, g.i # 0, IsPrefix(p, g.node), FrameAlone(p, g, D),
         p = q => \/ g.node = f.node /\ f.i \notin Unforked(g)
                  \/ g.ph \in {"local", "origin"} /\ IsPrefix(Awaited(g), f.node)
  PROVE  FrameAlone(p, g, D \cup {Append(f.node, f.i)})
<1> DEFINE c == Append(f.node, f.i)
<1>1. /\ p \in Node /\ q \in Node /\ f.node \in Node /\ g.node \in Node
      /\ f.i \in Nat /\ g.i \in Nat /\ Going(g) \in Nat
      /\ \A j \in Unforked(g) : j \in Nat
  BY DEF Frames, Going, Unforked
<1>2. /\ c \in Node /\ Len(c) = Len(f.node) + 1 /\ IsPrefix(f.node, c)
      /\ c[Len(f.node) + 1] = f.i
      /\ Awaited(g) \in Node /\ Len(Awaited(g)) = Len(g.node) + 1 /\ IsPrefix(g.node, Awaited(g))
      /\ Awaited(g)[Len(g.node) + 1] = Going(g)
  BY <1>1, AppendNode DEF Awaited
<1>3. \A t \in Node : Len(t) \in Nat BY DEF Node
<1>4. ASSUME IsPrefix(p, f.node) PROVE IsPrefix(p, q) BY <1>4 DEF FrameAlone
<1>5. ASSUME IsPrefix(q, g.node) PROVE IsPrefix(q, p) BY <1>5 DEF FrameAlone
<1>6. ASSUME IsPrefix(p, q), IsPrefix(q, p) PROVE p = q
  <2>1. Len(p) <= Len(q) /\ Len(q) <= Len(p) BY <1>1, <1>6, Prefix
  <2> QED BY <1>1, <1>6, <2>1, PrefixEqual
<1> DEFINE Lower == g.ph \in {"local", "origin"} /\ IsPrefix(Awaited(g), f.node)
<1>7. ASSUME Lower PROVE Len(g.node) < Len(f.node)
  <2>1. Len(Awaited(g)) <= Len(f.node) BY <1>1, <1>2, <1>7, Prefix
  <2> QED BY <1>1, <1>2, <1>3, <2>1
<1>8. ASSUME p = q PROVE Len(g.node) <= Len(f.node) /\ (g.node = f.node => f.i \notin Unforked(g))
  BY <1>1, <1>3, <1>7, <1>8
<1> HIDE DEF c
<1>9. ASSUME IsPrefix(c, g.node) PROVE IsPrefix(c, p)
  <2> SUFFICES ASSUME ~ IsPrefix(c, p) PROVE FALSE OBVIOUS
  <2>1. IsPrefix(p, c)
    <3>1. ~ (Len(c) <= Len(p)) BY <1>1, <1>2, <1>9, PrefixComparable
    <3>2. Len(p) <= Len(c) BY <1>1, <1>2, <1>3, <3>1
    <3> QED BY <1>1, <1>2, <1>9, <3>2, PrefixComparable
  <2>2. IsPrefix(p, f.node)
    <3>1. p # c BY <1>2, PrefixSelf
    <3> QED BY <1>1, <2>1, <3>1, PrefixOfAppend DEF c
  <2>3. IsPrefix(q, g.node)
    <3>1. IsPrefix(q, c) BY <1>1, <1>2, PrefixTransitive
    <3> QED BY <1>1, <1>2, <1>9, <3>1, PrefixTransitive
  <2>4. p = q BY <1>4, <1>5, <1>6, <2>2, <2>3
  <2>5. Len(c) <= Len(g.node) BY <1>1, <1>2, <1>9, Prefix
  <2> QED BY <1>1, <1>2, <1>3, <1>8, <2>4, <2>5
<1>10. ASSUME g.ph \in {"fork", "local"}, NEW j \in Unforked(g), IsPrefix(Append(g.node, j), c)
       PROVE  FALSE
  <2> DEFINE e == Append(g.node, j)
  <2>1. /\ j \in Nat /\ e \in Node /\ Len(e) = Len(g.node) + 1 /\ IsPrefix(g.node, e)
        /\ e[Len(g.node) + 1] = j
        /\ \A k \in 1 .. Len(g.node) : e[k] = g.node[k]
    BY <1>1, AppendNode
  <2>2. IsPrefix(e, Append(f.node, f.i)) BY <1>10 DEF c
  <2>3. \A o \in D : ~ IsPrefix(e, o) BY <1>10 DEF FrameAlone
  <2> HIDE DEF e
  <2>s. IsPrefix(e, f.node) \/ e = c BY <1>1, <2>1, <2>2, PrefixOfAppend DEF c
  <2>4. CASE e = c
    <3>1. Len(g.node) = Len(f.node)
      <4>1. Len(e) = Len(g.node) + 1 /\ Len(c) = Len(f.node) + 1 BY <1>2, <2>1
      <4>2. Len(g.node) \in Nat /\ Len(f.node) \in Nat BY <1>1, <1>3
      <4> QED BY <2>4, <4>1, <4>2
    <3>2. j = f.i
      <4>1. c[Len(f.node) + 1] = f.i BY <1>2
      <4>2. e[Len(g.node) + 1] = j BY <2>1
      <4> QED BY <2>4, <3>1, <4>1, <4>2, Zenon
    <3>3. g.node = f.node
      <4>1. IsPrefix(g.node, c) /\ IsPrefix(f.node, c) BY <1>2, <2>1, <2>4
      <4>2. IsPrefix(g.node, f.node) BY <1>1, <1>2, <1>3, <3>1, <4>1, PrefixComparable
      <4> QED BY <1>1, <1>3, <3>1, <4>2, PrefixEqual
    <3>4. p = q BY <1>4, <1>5, <1>6, <3>3
    <3> QED BY <1>8, <1>10, <3>2, <3>3, <3>4
  <2>5. CASE IsPrefix(e, f.node)
    <3>1. IsPrefix(g.node, f.node) BY <1>1, <2>1, <2>5, PrefixTransitive
    <3>2. IsPrefix(p, q)
      <4>1. IsPrefix(p, f.node) BY <1>1, <3>1, PrefixTransitive
      <4> QED BY <1>4, <4>1
    <3>3. ~ (Len(e) <= Len(q)) BY <1>1, <2>1, <2>3, <2>5, PrefixComparable
    <3>4. IsPrefix(q, g.node)
      <4>1. Len(q) <= Len(g.node) BY <1>1, <1>3, <2>1, <3>3
      <4> QED BY <1>1, <3>1, <4>1, PrefixComparable
    <3>5. p = q BY <1>5, <1>6, <3>2, <3>4
    <3>6. Len(e) <= Len(f.node) BY <1>1, <2>1, <2>5, Prefix
    <3>7. Len(g.node) < Len(f.node) BY <1>1, <1>3, <2>1, <3>6
    <3>8. Lower BY <1>3, <1>1, <3>5, <3>7
    <3>9. Going(g) = j
      <4>1. IsPrefix(Awaited(g), f.node) BY <3>8
      <4>2. Len(g.node) + 1 \in 1 .. Len(Awaited(g)) /\ Len(g.node) + 1 \in 1 .. Len(e)
        BY <1>1, <1>2, <1>3, <2>1
      <4>3. Awaited(g)[Len(g.node) + 1] = f.node[Len(g.node) + 1] BY <1>1, <1>2, <4>1, <4>2, Prefix
      <4>4. e[Len(g.node) + 1] = f.node[Len(g.node) + 1] BY <1>1, <2>1, <2>5, <4>2, Prefix
      <4> QED BY <1>2, <2>1, <4>3, <4>4
    <3>10. g.ph = "local" BY <1>10, <3>8
    <3>11. g.i = j BY <3>9, <3>10 DEF Going
    <3> QED BY <1>1, <3>10, <3>11 DEF Unforked
  <2> QED BY <2>s, <2>4, <2>5
<1>11. ASSUME NEW o \in D \cup {c}, IsPrefix(o, g.node) PROVE IsPrefix(o, p)
  BY <1>9, <1>11 DEF FrameAlone
<1>12. ASSUME g.ph \in {"fork", "local"}, NEW j \in Unforked(g), NEW o \in D \cup {c}
       PROVE  ~ IsPrefix(Append(g.node, j), o)
  BY <1>10, <1>12 DEF FrameAlone
<1>13. FrameAlone(p, g, D \cup {c}) BY <1>11, <1>12 DEF FrameAlone
<1> QED BY <1>13 DEF c

LEMMA StackAfterFork ==
  ASSUME NEW D, D \subseteq Node, NEW p \in D, NEW q \in D, NEW B, NEW junk,
         NEW f \in Frames, f.ph = "fork", FrameSafe(q, f, D, B),
         NEW s, StackSafe(p, s, D, B, junk),
         p = q => \A k \in 1 .. Len(s) : /\ s[k].ph \in {"local", "origin"}
                                         /\ IsPrefix(Awaited(s[k]), f.node)
  PROVE  StackSafe(p, s, D \cup {Append(f.node, f.i)}, B, junk)
<1> DEFINE E == D \cup {Append(f.node, f.i)}
<1>1. \A k \in 1 .. Len(s) : s[k] \in Frames BY ElementOfSeq DEF StackSafe
<1>2. ASSUME NEW k \in 1 .. Len(s) PROVE FrameSafe(p, s[k], E, B)
  <2>1. FrameSafe(p, s[k], D, B) BY DEF StackSafe
  <2>2. s[k].i # 0 BY <1>1, <2>1 DEF FrameSafe, Frames
  <2>3. IsPrefix(p, s[k].node) /\ FrameAlone(p, s[k], D) BY <2>1 DEF FrameSafe
  <2>4. IsPrefix(q, f.node) /\ FrameAlone(q, f, D) BY DEF FrameSafe
  <2>5. FrameAlone(p, s[k], E) BY <1>1, <2>2, <2>3, <2>4, AloneAfterFork
  <2> QED BY <2>1, <2>5 DEF FrameSafe
<1> HIDE DEF E
<1>3. StackSafe(p, s, E, B, junk) BY <1>2 DEF StackSafe
<1> QED BY <1>3 DEF E

(* What the process goes on with after the fork.                           *)
Forking(f) == [f EXCEPT !.i = @ + 1, !.opened_state = @ \cup {f.i}]

LEMMA ForkingFields ==
  ASSUME NEW f \in Frames
  PROVE  /\ Forking(f) \in Frames
         /\ Forking(f).node = f.node /\ Forking(f).ph = f.ph /\ Forking(f).i = f.i + 1
         /\ Forking(f).fork_count = f.fork_count
         /\ Forking(f).opened_state = f.opened_state \cup {f.i}
<1> DEFINE x == f.i + 1
           y == f.opened_state \cup {f.i}
           g == [f EXCEPT !.i = x, !.opened_state = y]
<1>1. x \in Nat /\ y \in SUBSET Nat BY DEF Frames
<1>2. Forking(f) = g BY DEF Forking, Frames
<1> HIDE DEF x, y
<1>3. /\ g \in Frames /\ g.node = f.node /\ g.ph = f.ph /\ g.i = x
      /\ g.fork_count = f.fork_count /\ g.opened_state = y
  BY <1>1 DEF Frames
<1> HIDE DEF g
<1> QED BY <1>2, <1>3 DEF x, y

LEMMA ForkerSafe ==
  ASSUME Loaded, NEW D, D \subseteq Node, NEW q \in D, NEW B, NEW junk,
         NEW s, StackSafe(q, s, D, B, junk), s # <<>>,
         Last(s).ph = "fork", Last(s).i < BranchCount(Last(s).node)
  PROVE  /\ Forking(Last(s)) \in Frames /\ Forking(Last(s)).ph = "fork"
         /\ StackSafe(q, Append(Front(s), Forking(Last(s))),
                      D \cup {Append(Last(s).node, Last(s).i)}, B, junk)
<1> DEFINE f == Last(s)
           g == Forking(f)
           E == D \cup {Append(f.node, f.i)}
           n == Len(s)
           t == Front(s)
<1>f. f = Last(s) /\ f.ph = "fork" /\ f.i < BranchCount(f.node) OBVIOUS
<1> HIDE DEF f, g
<1>1. s \in Seq(Frames) BY DEF StackSafe
<1>2. /\ n \in Nat /\ n >= 1 /\ f = s[n] /\ f \in Frames
      /\ t \in Seq(Frames) /\ Len(t) = n - 1
      /\ \A k \in 1 .. (n - 1) : t[k] = s[k]
  BY <1>1, <1>f, FrontLast
<1>3. /\ FrameSafe(q, f, D, B) /\ (junk \/ FrameRight(f))
      /\ \A j \in 1 .. (n - 1) : IsPrefix(Awaited(s[j]), f.node)
  BY <1>2 DEF StackSafe
<1>4. \A k \in 1 .. (n - 1) : s[k].ph \in {"local", "origin"}
  <2> TAKE k \in 1 .. (n - 1)
  <2>1. k \in 1 .. Len(s) /\ k < Len(s) BY <1>2
  <2> QED BY <2>1 DEF StackSafe
<1>5. /\ StackSafe(q, t, D, B, junk) /\ Pending(q, t) = f.node
      /\ t # <<>> => Last(t).ph \in {"local", "origin"}
  BY <1>f, StackLeft
<1>6. BranchCount(f.node) \in Nat /\ f.i \in 1 .. BranchCount(f.node)
  BY <1>3, BranchesAreNodes DEF FrameSafe
<1>7. g \in Frames BY <1>2, ForkingFields DEF g
<1>8. /\ g.node = f.node /\ g.ph = "fork" /\ g.i = f.i + 1 /\ g.i \in 1 .. BranchCount(f.node)
      /\ g.opened_state = f.opened_state \cup {f.i}
  <2>1. /\ g.node = f.node /\ g.ph = f.ph /\ g.i = f.i + 1
        /\ g.opened_state = f.opened_state \cup {f.i}
    BY <1>2, ForkingFields DEF g
  <2> QED BY <1>2, <1>6, <1>f, <2>1
<1> HIDE DEF t, n
<1>9. StackSafe(q, t, E, B, junk) BY <1>2, <1>3, <1>4, <1>5, <1>f, StackAfterFork
<1>10. FrameAlone(q, g, E)
  <2>1. FrameAlone(q, f, D) /\ IsPrefix(q, f.node) BY <1>3 DEF FrameSafe
  <2>2. f.i \notin Unforked(g) BY <1>6, <1>8 DEF Unforked
  <2>3. FrameAlone(q, g, D)
    <3>1. Unforked(g) \subseteq Unforked(f) BY <1>6, <1>8, <1>f DEF Unforked
    <3> QED BY <1>8, <1>f, <2>1, <3>1 DEF FrameAlone
  <2>4. g.i # 0 BY <1>6, <1>8
  <2> QED BY <1>2, <1>7, <1>8, <1>f, <2>1, <2>2, <2>3, <2>4, AloneAfterFork
<1>11. FrameSafe(q, g, E, B)
  <2>1. Inner(g.node) /\ IsPrefix(q, g.node) BY <1>3, <1>8 DEF FrameSafe
  <2>2. \A j \in g.opened_state : Append(g.node, j) \in E BY <1>3, <1>8 DEF FrameSafe
  <2> QED BY <1>8, <1>10, <2>1, <2>2 DEF FrameSafe
<1>12. junk \/ FrameRight(g)
  <2> SUFFICES ASSUME FrameRight(f) PROVE FrameRight(g) BY <1>3
  <2>1. ASSUME NEW j \in 1 .. (g.i - 1), j \notin g.opened_state PROVE Undecided(g, j)
    <3>1. j \in 1 .. (f.i - 1) /\ j \notin f.opened_state BY <1>6, <1>8, <2>1
    <3>2. Undecided(f, j) BY <1>f, <3>1 DEF FrameRight
    <3> QED BY <1>8, <3>2 DEF Undecided
  <2> QED BY <1>8, <2>1 DEF FrameRight
<1>13. StackSafe(q, Append(t, g), E, B, junk)
  BY <1>5, <1>7, <1>8, <1>9, <1>11, <1>12, StackEntered
<1> QED BY <1>7, <1>8, <1>13 DEF t, f, g

LEMMA ForkedSafe ==
  ASSUME Loaded, NEW D, D \subseteq Node, NEW q \in D, NEW B, NEW junk,
         NEW f \in Frames, FrameSafe(q, f, D, B), f.ph = "fork", f.i < BranchCount(f.node)
  PROVE  LET c == Append(f.node, f.i)
         IN  /\ c \in Node /\ \A o \in D : ~ IsPrefix(c, o)
             /\ Safe(c, Started(c, 0, f.fork_count), D \cup {c}, B, junk)
             /\ Started(c, 0, f.fork_count).status = "running"
             /\ ~ (Started(c, 0, f.fork_count).stack # <<>>
                   /\ Last(Started(c, 0, f.fork_count).stack).ph = "read")
<1> DEFINE c == Append(f.node, f.i)
           r == acceptAsync_rec(<<>>, c, 0, f.fork_count)
           E == D \cup {c}
<1>1. f.node \in Node /\ f.i \in Nat /\ f.fork_count \in Nat /\ 0 \in Nat BY DEF Frames
<1>2. Inner(f.node) /\ f.i \in 1 .. BranchCount(f.node) /\ f.i # 0 BY <1>1 DEF FrameSafe
<1>3. BranchCount(f.node) \in Nat BY <1>2, BranchesAreNodes
<1>4. f.i \in 0 .. (BranchCount(f.node) - 1) BY <1>1, <1>3
<1>5. IsNode(c) BY <1>2, <1>4, BranchesAreNodes
<1>6. c \in Node /\ Len(c) = Len(f.node) + 1 /\ c[Len(f.node) + 1] = f.i BY <1>1, AppendNode
<1>7. \A o \in D : ~ IsPrefix(c, o)
  <2>1. f.i \in Unforked(f) BY <1>1 DEF Unforked
  <2> QED BY <2>1 DEF FrameSafe, FrameAlone
<1> HIDE DEF c
<1>8. ASSUME NEW o \in E, NEW j \in Nat PROVE ~ IsPrefix(Append(c, j), o)
  <2>1. o \in Node BY <1>6
  <2>2. CASE o = c
    <3>1. ~ (Len(c) < Len(o)) BY <1>6, <2>2 DEF Node
    <3> QED BY <1>6, <2>1, <3>1, AppendIsPrefix
  <2>3. CASE o \in D
    <3>1. ~ IsPrefix(c, o) BY <1>7, <2>3
    <3> QED BY <1>6, <2>1, <3>1, AppendIsPrefix
  <2> QED BY <2>2, <2>3
<1>9. StackSafe(c, <<>>, E, B, junk)
  <2>1. <<>> \in Seq(Frames) /\ Len(<<>>) = 0 OBVIOUS
  <2> QED BY <2>1 DEF StackSafe
<1>10. E \subseteq Node /\ IsPrefix(c, c) /\ c = Pending(c, <<>>) BY <1>6, PrefixSelf DEF Pending
<1>11. Entered(r, c, E, B, junk, <<>>, c)
  <2> HIDE DEF E
  <2> QED BY <1>1, <1>5, <1>6, <1>8, <1>9, <1>10, Called
<1> HIDE DEF r
<1>12. Started(c, 0, f.fork_count) = [stack |-> r.stack, ret |-> r.ret, status |-> "running"]
  BY DEF Started, r
<1>13. c # <<>> => c[Len(c)] # 0 BY <1>2, <1>6
<1>14. r.stack \in Seq(Frames) BY <1>11 DEF Entered, StackSafe
<1>15. r.ret # NONE => r.stack = <<>> /\ r.ret = Answer(Pending(c, r.stack))
  BY <1>10, <1>11 DEF Entered
<1>16. r.ret = NONE => r.stack # <<>> /\ Last(r.stack).ph = "fork" BY <1>11 DEF Entered
<1>17. Safe(c, Started(c, 0, f.fork_count), E, B, junk)
  <2>1. Started(c, 0, f.fork_count) \in Processes BY <1>11, <1>12, <1>14 DEF Processes, Entered
  <2>2. StackSafe(c, r.stack, E, B, junk) BY <1>11 DEF Entered
  <2> HIDE DEF E
  <2> QED BY <1>5, <1>12, <1>13, <1>15, <1>16, <2>1, <2>2 DEF Safe
<1>18. ~ (r.stack # <<>> /\ Last(r.stack).ph = "read") BY <1>15, <1>16
<1> QED BY <1>6, <1>7, <1>12, <1>17, <1>18 DEF c

-----------------------------------------------------------------------------
(* A step of one process.                                                  *)

LEMMA SafeGrows ==
  ASSUME NEW p, NEW r, NEW D, NEW B, NEW junk, Safe(p, r, D, B, junk),
         NEW C, B \subseteq C, NEW other, junk => other, other \in BOOLEAN
  PROVE  Safe(p, r, D, C, other)
<1>1. ASSUME NEW f, FrameSafe(p, f, D, B) PROVE FrameSafe(p, f, D, C) BY <1>1 DEF FrameSafe
<1>2. StackSafe(p, r.stack, D, C, other) BY <1>1 DEF StackSafe, Safe
<1> QED BY <1>2 DEF Safe

LEMMA TopFrame ==
  ASSUME NEW p, NEW r, NEW D, NEW B, NEW junk, Safe(p, r, D, B, junk), r.stack # <<>>
  PROVE  /\ Last(r.stack) \in Frames /\ FrameSafe(p, Last(r.stack), D, B)
         /\ junk \/ FrameRight(Last(r.stack))
<1>1. StackSafe(p, r.stack, D, B, junk) /\ r.stack \in Seq(Frames) BY DEF Safe, StackSafe
<1>2. Len(r.stack) \in 1 .. Len(r.stack) /\ Last(r.stack) = r.stack[Len(r.stack)]
      /\ Last(r.stack) \in Frames
  BY <1>1, FrontLast
<1> QED BY <1>1, <1>2 DEF StackSafe

LEMMA WithSafe ==
  ASSUME NEW p, NEW r, NEW D, NEW B, NEW junk, Safe(p, r, D, B, junk), r.stack # <<>>,
         NEW g \in Frames, g.node = Last(r.stack).node, FrameSafe(p, g, D, B), junk \/ FrameRight(g)
  PROVE  Safe(p, [stack |-> Append(Front(r.stack), g), ret |-> NONE, status |-> r.status], D, B, junk)
<1> DEFINE t == Append(Front(r.stack), g)
           x == [stack |-> t, ret |-> NONE, status |-> r.status]
<1>1. StackSafe(p, r.stack, D, B, junk) BY DEF Safe
<1>2. StackSafe(p, t, D, B, junk) /\ t # <<>> BY <1>1, StackReplaced
<1> HIDE DEF t
<1>3. t \in Seq(Frames) BY <1>2 DEF StackSafe
<1>4. x \in Processes BY <1>3 DEF Safe, Processes
<1>5. r.status # "ended" BY DEF Safe
<1>6. IsNode(p) /\ (p # <<>> => p[Len(p)] # 0) BY DEF Safe
<1>7. x.stack = t /\ x.ret = NONE /\ x.status = r.status OBVIOUS
<1> HIDE DEF x
<1>8. Safe(p, x, D, B, junk) BY <1>2, <1>4, <1>5, <1>6, <1>7 DEF Safe
<1> QED BY <1>8 DEF x, t

LEMMA ReturnSafe ==
  ASSUME NEW p, NEW r, NEW D, NEW B, NEW junk, Safe(p, r, D, B, junk), r.stack # <<>>,
         NEW v \in BOOLEAN, junk \/ v = Answer(Last(r.stack).node)
  PROVE  Safe(p, [stack |-> Front(r.stack), ret |-> v, status |-> r.status], D, B, junk)
<1> DEFINE t == Front(r.stack)
           x == [stack |-> t, ret |-> v, status |-> r.status]
<1>1. StackSafe(p, r.stack, D, B, junk) BY DEF Safe
<1>2. /\ StackSafe(p, t, D, B, junk) /\ Pending(p, t) = Last(r.stack).node
      /\ t # <<>> => Last(t).ph \in {"local", "origin"}
  BY <1>1, StackLeft
<1> HIDE DEF t
<1>3. t \in Seq(Frames) BY <1>2 DEF StackSafe
<1>4. x \in Processes BY <1>3 DEF Safe, Processes
<1>5. r.status # "ended" BY DEF Safe
<1>6. v # NONE BY AcceptanceAssumption
<1>7. IsNode(p) /\ (p # <<>> => p[Len(p)] # 0) BY DEF Safe
<1>8. x.stack = t /\ x.ret = v /\ x.status = r.status OBVIOUS
<1>9. junk \/ x.ret = Answer(Pending(p, x.stack)) BY <1>2, <1>8
<1> HIDE DEF x
<1>10. Safe(p, x, D, B, junk) BY <1>2, <1>4, <1>5, <1>6, <1>7, <1>8, <1>9 DEF Safe
<1> QED BY <1>10 DEF x, t

(* The process calculates a branch itself.                                 *)
Goes(x, status, p, D, B, junk) ==
  /\ Safe(p, [stack |-> x.stack, ret |-> x.ret, status |-> status], D, B, junk)
  /\ x.stack # <<>> /\ Last(x.stack).ph # "read"

LEMMA CallSafe ==
  ASSUME Loaded, NEW D, D \subseteq Node, NEW p \in D, NEW r, NEW B, NEW junk,
         Safe(p, r, D, B, junk), r.stack # <<>>, Last(r.stack).ph = "fork",
         NEW g \in Frames, g.node = Last(r.stack).node, FrameSafe(p, g, D, B),
         junk \/ FrameRight(g), g.ph \in {"local", "origin"}, Going(g) \in Unforked(Last(r.stack)),
         Going(g) < BranchCount(g.node),
         NEW load \in Nat, NEW forks \in Nat
  PROVE  Goes(acceptAsync_rec(Append(Front(r.stack), g), Awaited(g), load, forks),
              r.status, p, D, B, junk)
<1> DEFINE t == Append(Front(r.stack), g)
           f == Last(r.stack)
           node == Awaited(g)
           x == acceptAsync_rec(t, node, load, forks)
           y == [stack |-> x.stack, ret |-> x.ret, status |-> r.status]
<1>1. StackSafe(p, r.stack, D, B, junk) BY DEF Safe
<1>2. StackSafe(p, t, D, B, junk) /\ t # <<>> /\ Last(t) = g BY <1>1, StackReplaced
<1>3. FrameSafe(p, f, D, B) BY TopFrame
<1>4. Inner(g.node) /\ IsPrefix(p, g.node) BY DEF FrameSafe
<1>5. g.node \in Node /\ Going(g) \in Nat /\ BranchCount(g.node) \in Nat /\ p \in Node
  BY <1>4, BranchesAreNodes DEF Frames, Going
<1>6. Going(g) \in 0 .. (BranchCount(g.node) - 1) BY <1>5
<1>7. node \in Node /\ IsPrefix(g.node, node) BY <1>5, AppendNode DEF Awaited
<1>8. IsNode(node) BY <1>4, <1>6, BranchesAreNodes DEF Awaited
<1>9. IsPrefix(p, node) BY <1>4, <1>5, <1>7, PrefixTransitive
<1>10. node = Pending(p, t) BY <1>2 DEF Pending
<1>11. \A o \in D : ~ IsPrefix(node, o)
  <2>1. f.node = g.node /\ f.ph = "fork" OBVIOUS
  <2> QED BY <1>3, <2>1 DEF FrameSafe, FrameAlone, Awaited
<1> HIDE DEF t, node, x
<1>12. ASSUME NEW o \in D, IsPrefix(o, node) PROVE IsPrefix(o, p)
  <2>1. o \in Node OBVIOUS
  <2>2. o # node BY <1>7, <1>11, PrefixSelf
  <2>3. IsPrefix(o, g.node) BY <1>5, <1>12, <2>1, <2>2, PrefixOfAppend DEF node, Awaited
  <2> QED BY <2>3 DEF FrameSafe, FrameAlone
<1>13. ASSUME NEW o \in D, NEW j \in Nat PROVE ~ IsPrefix(Append(node, j), o)
  <2>1. o \in Node OBVIOUS
  <2> QED BY <1>7, <1>11, <2>1, AppendIsPrefix
<1>14. Entered(x, p, D, B, junk, t, node)
  BY <1>2, <1>5, <1>8, <1>9, <1>10, <1>12, <1>13, Called DEF x
<1>15. x.stack \in Seq(Frames) BY <1>14 DEF Entered, StackSafe
<1>16. y \in Processes BY <1>14, <1>15 DEF Entered, Processes, Safe
<1>17. r.status # "ended" BY DEF Safe
<1>18. x.ret # NONE => x.stack = t /\ x.ret = Answer(Pending(p, x.stack))
  BY <1>10, <1>14 DEF Entered
<1>19. x.ret = NONE => x.stack # <<>> /\ Last(x.stack).ph = "fork" BY <1>14 DEF Entered
<1>20. IsNode(p) /\ (p # <<>> => p[Len(p)] # 0) BY DEF Safe
<1>21. StackSafe(p, x.stack, D, B, junk) BY <1>14 DEF Entered
<1>22. Safe(p, y, D, B, junk) BY <1>2, <1>16, <1>17, <1>18, <1>19, <1>20, <1>21 DEF Safe
<1>23. x.stack # <<>> /\ Last(x.stack).ph # "read" BY <1>2, <1>18, <1>19
<1>24. Goes(x, r.status, p, D, B, junk) BY <1>22, <1>23 DEF Goes
<1> QED BY <1>24 DEF x, t, node

(* The invariant after a step of one process that reports nothing.         *)
LEMMA OneProcess ==
  ASSUME TreeInv, tg' = tg, word' = word, branch' = branch,
         garbled' \in BOOLEAN, garbled => garbled',
         NEW p \in DOMAIN procs, procs[p].status # "ended",
         DOMAIN procs' = DOMAIN procs, \A q \in DOMAIN procs \ {p} : procs'[q] = procs[q],
         Safe(p, procs'[p], DOMAIN procs, DOMAIN branch, garbled'),
         HasWaited(procs'[p]) => \A c \in Children(p) : procs[c].status = "ended"
  PROVE  TreeInv'
<1>1. ASSUME NEW q \in DOMAIN procs
      PROVE  Safe(q, procs'[q], DOMAIN procs, DOMAIN branch, garbled')
  <2>1. CASE q = p BY <2>1
  <2>2. CASE q # p
    <3>1. Safe(q, procs[q], DOMAIN procs, DOMAIN branch, garbled) BY DEF TreeInv
    <3>2. Safe(q, procs[q], DOMAIN procs, DOMAIN branch, garbled') BY <3>1, SafeGrows
    <3> QED BY <2>2, <3>2
  <2> QED BY <2>1, <2>2
<1>2. ASSUME NEW q \in DOMAIN procs' PROVE Safe(q, procs[q], DOMAIN procs, DOMAIN branch, garbled)'
  <2>1. Safe(q, procs'[q], DOMAIN procs', DOMAIN branch', garbled') BY <1>1
  <2> QED BY <2>1, SafeUnchanged
<1>3. ASSUME NEW c \in DOMAIN branch PROVE procs'[c].status = "ended" /\ branch[c] = procs'[c].ret
  <2>1. procs[c].status = "ended" /\ branch[c] = procs[c].ret /\ c \in DOMAIN procs BY DEF TreeInv
  <2> QED BY <2>1
<1>4. \A q : Children(q)' = Children(q) BY DEF Children
<1>5. ASSUME NEW q \in DOMAIN procs, HasWaited(procs'[q]), NEW c \in Children(q)
      PROVE  procs'[c].status = "ended"
  <2>1. procs[c].status = "ended"
    <3>1. CASE q = p BY <1>5, <3>1
    <3>2. CASE q # p
      <4>1. HasWaited(procs[q]) BY <1>5, <3>2
      <4> QED BY <1>5, <4>1 DEF TreeInv
    <3> QED BY <3>1, <3>2
  <2>2. c \in DOMAIN procs /\ c # p BY <1>5, <2>1 DEF Children
  <2> QED BY <2>1, <2>2
<1>6. \A q \in DOMAIN procs' : HasWaited(procs[q])' => \A c \in Children(q)' : procs'[c].status = "ended"
  BY <1>4, <1>5 DEF HasWaited
<1>7. (DOMAIN branch \subseteq DOMAIN procs)' BY DEF TreeInv
<1> QED BY <1>2, <1>3, <1>6, <1>7 DEF TreeInv

(* The new value P of procs differs in the process p, which is now r.      *)
Moves(P, p, r) ==
  /\ DOMAIN P = DOMAIN procs
  /\ P[p] = r
  /\ \A q \in DOMAIN procs \ {p} : P[q] = procs[q]

Turned(p, s, v) == [procs EXCEPT ![p].stack = s, ![p].ret = v]

LEMMA TurnedMoves ==
  ASSUME NEW p \in DOMAIN procs, procs[p] \in Processes, NEW s, NEW v
  PROVE  Moves(Turned(p, s, v), p, [stack |-> s, ret |-> v, status |-> procs[p].status])
<1> DEFINE r == procs[p]
           y == [r EXCEPT !.stack = s]
           x == [y EXCEPT !.ret = v]
<1>1. Turned(p, s, v) = [procs EXCEPT ![p] = x] BY DEF Turned
<1>2. x = [stack |-> s, ret |-> v, status |-> r.status]
  <2>1. r = [stack |-> r.stack, ret |-> r.ret, status |-> r.status] BY DEF Processes
  <2>2. y = [stack |-> s, ret |-> r.ret, status |-> r.status] BY <2>1
  <2> HIDE DEF y
  <2> QED BY <2>2
<1> HIDE DEF x, y
<1>3. Moves([procs EXCEPT ![p] = x], p, x) BY DEF Moves
<1> QED BY <1>1, <1>2, <1>3

LEMMA EndMoves ==
  ASSUME NEW p \in DOMAIN procs, procs[p] \in Processes, NEW st
  PROVE  Moves([procs EXCEPT ![p].status = st], p,
               [stack |-> procs[p].stack, ret |-> procs[p].ret, status |-> st])
<1> DEFINE r == procs[p]
           x == [r EXCEPT !.status = st]
<1>1. [procs EXCEPT ![p].status = st] = [procs EXCEPT ![p] = x] OBVIOUS
<1>2. r = [stack |-> r.stack, ret |-> r.ret, status |-> r.status] BY DEF Processes
<1>3. x = [stack |-> r.stack, ret |-> r.ret, status |-> st] BY <1>2
<1> HIDE DEF x
<1>4. Moves([procs EXCEPT ![p] = x], p, x) BY DEF Moves
<1> QED BY <1>1, <1>3, <1>4

LEMMA StepsTurn ==
  ASSUME NEW p, NEW g, NEW v, NEW node, NEW load
  PROVE  /\ With(p, g) = Turned(p, Append(Front(procs[p].stack), g), NONE)
         /\ ReturnsFrom(p, v) = Turned(p, Front(procs[p].stack), v)
         /\ LET x == acceptAsync_rec(Append(Front(procs[p].stack), g), node, load, g.fork_count)
            IN  Calls(p, g, node, load) = Turned(p, x.stack, x.ret)
BY DEF With, ReturnsFrom, Calls, Turned

-----------------------------------------------------------------------------
(* The steps of a process preserve the invariant.                          *)

(* A step that changes only the process p, to r.                           *)
Step(p, r) ==
  /\ Moves(procs', p, r)
  /\ tg' = tg /\ word' = word /\ branch' = branch
  /\ garbled' \in BOOLEAN /\ (garbled => garbled')

LEMMA StepKeeps ==
  ASSUME TreeInv, NEW p \in DOMAIN procs, Runs(p), NEW r, Step(p, r),
         Safe(p, r, DOMAIN procs, DOMAIN branch, garbled'),
         HasWaited(r) => \A c \in Children(p) : procs[c].status = "ended"
  PROVE  TreeInv'
<1>1. procs[p].status # "ended" BY DEF Runs
<1>2. procs'[p] = r /\ DOMAIN procs' = DOMAIN procs
      /\ \A q \in DOMAIN procs \ {p} : procs'[q] = procs[q]
  BY DEF Step, Moves
<1> QED BY <1>1, <1>2, OneProcess DEF Step

(* The process that takes a step, and its last frame.                      *)
LEMMA Working ==
  ASSUME TreeInv, NEW p \in DOMAIN procs, NEW ph, NEW returned \in BOOLEAN, InNode(p, ph, returned)
  PROVE  /\ Safe(p, procs[p], DOMAIN procs, DOMAIN branch, garbled)
         /\ procs[p] \in Processes /\ procs[p].stack # <<>>
         /\ Frame(p) \in Frames /\ Frame(p).ph = ph /\ Frame(p) = Last(procs[p].stack)
         /\ FrameSafe(p, Frame(p), DOMAIN procs, DOMAIN branch)
         /\ garbled \/ FrameRight(Frame(p))
         /\ returned => procs[p].ret \in BOOLEAN
                        /\ (garbled \/ procs[p].ret = Answer(Awaited(Frame(p))))
<1>1. Safe(p, procs[p], DOMAIN procs, DOMAIN branch, garbled) BY DEF TreeInv
<1>2. procs[p].stack # <<>> /\ Last(procs[p].stack).ph = ph /\ (returned <=> procs[p].ret # NONE)
  BY DEF InNode
<1>3. procs[p] \in Processes BY <1>1 DEF Safe
<1>4. Frame(p) = Last(procs[p].stack) BY DEF Frame
<1>5. returned => procs[p].ret \in BOOLEAN
                  /\ (garbled \/ procs[p].ret = Answer(Awaited(Frame(p))))
  BY <1>1, <1>2, <1>3, <1>4 DEF Safe, Pending, Processes
<1> QED BY <1>1, <1>2, <1>3, <1>4, <1>5, TopFrame

(* The frame goes on as g.                                                 *)
LEMMA WithKeeps ==
  ASSUME TreeInv, NEW p \in DOMAIN procs, Runs(p), procs[p].stack # <<>>,
         NEW g \in Frames, g.node = Frame(p).node,
         FrameSafe(p, g, DOMAIN procs, DOMAIN branch), garbled' \/ FrameRight(g),
         g.ph = "read" => \A c \in Children(p) : procs[c].status = "ended",
         procs' = With(p, g),
         tg' = tg, word' = word, branch' = branch, garbled' \in BOOLEAN, garbled => garbled'
  PROVE  TreeInv'
<1> DEFINE t == Append(Front(procs[p].stack), g)
           r == [stack |-> t, ret |-> NONE, status |-> procs[p].status]
<1>1. Safe(p, procs[p], DOMAIN procs, DOMAIN branch, garbled) BY DEF TreeInv
<1>2. procs[p] \in Processes BY <1>1 DEF Safe
<1>3. Safe(p, procs[p], DOMAIN procs, DOMAIN branch, garbled') BY <1>1, SafeGrows
<1>4. Safe(p, r, DOMAIN procs, DOMAIN branch, garbled') BY <1>3, WithSafe DEF Frame
<1>5. procs' = Turned(p, t, NONE) BY StepsTurn
<1>6. Step(p, r) BY <1>2, <1>5, TurnedMoves DEF Step
<1>7. Last(t) = g /\ t # <<>>
  <2>1. StackSafe(p, procs[p].stack, DOMAIN procs, DOMAIN branch, garbled') BY <1>3 DEF Safe
  <2> QED BY <2>1, StackReplaced DEF Frame
<1>8. r.stack = t OBVIOUS
<1> HIDE DEF t, r
<1>9. HasWaited(r) => \A c \in Children(p) : procs[c].status = "ended"
  BY <1>7, <1>8 DEF HasWaited
<1> QED BY <1>4, <1>6, <1>9, StepKeeps

(* The node returns v, after every child of the process has ended.         *)
LEMMA ReturnKeeps ==
  ASSUME TreeInv, NEW p \in DOMAIN procs, Runs(p), procs[p].stack # <<>>,
         NEW v \in BOOLEAN, garbled' \/ v = Answer(Frame(p).node),
         \A c \in Children(p) : procs[c].status = "ended",
         procs' = ReturnsFrom(p, v),
         tg' = tg, word' = word, branch' = branch, garbled' \in BOOLEAN, garbled => garbled'
  PROVE  TreeInv'
<1> DEFINE r == [stack |-> Front(procs[p].stack), ret |-> v, status |-> procs[p].status]
<1>1. Safe(p, procs[p], DOMAIN procs, DOMAIN branch, garbled) BY DEF TreeInv
<1>2. procs[p] \in Processes BY <1>1 DEF Safe
<1>3. Safe(p, procs[p], DOMAIN procs, DOMAIN branch, garbled') BY <1>1, SafeGrows
<1>4. Safe(p, r, DOMAIN procs, DOMAIN branch, garbled') BY <1>3, ReturnSafe DEF Frame
<1>5. procs' = Turned(p, Front(procs[p].stack), v) BY StepsTurn
<1>6. Step(p, r) BY <1>2, <1>5, TurnedMoves DEF Step
<1> HIDE DEF r
<1> QED BY <1>4, <1>6, StepKeeps

(* The process fails or hangs.                                             *)
LEMMA EndKeeps ==
  ASSUME TreeInv, NEW p \in DOMAIN procs, Runs(p), NEW st \in {"failed", "hung"},
         procs' = [procs EXCEPT ![p].status = st],
         tg' = tg, word' = word, branch' = branch, garbled' \in BOOLEAN, garbled => garbled'
  PROVE  TreeInv'
<1> DEFINE r == [stack |-> procs[p].stack, ret |-> procs[p].ret, status |-> st]
<1>1. Safe(p, procs[p], DOMAIN procs, DOMAIN branch, garbled) BY DEF TreeInv
<1>2. procs[p] \in Processes BY <1>1 DEF Safe
<1>3. Safe(p, procs[p], DOMAIN procs, DOMAIN branch, garbled') BY <1>1, SafeGrows
<1>4. r \in Processes /\ r.stack = procs[p].stack /\ r.ret = procs[p].ret /\ r.status # "ended"
  BY <1>2 DEF Processes
<1>5. Step(p, r) BY <1>2, EndMoves DEF Step
<1> HIDE DEF r
<1>6. Safe(p, r, DOMAIN procs, DOMAIN branch, garbled') BY <1>3, <1>4 DEF Safe
<1>7. HasWaited(r) => \A c \in Children(p) : procs[c].status = "ended"
  BY <1>4 DEF HasWaited, TreeInv
<1> QED BY <1>5, <1>6, <1>7, StepKeeps

(* The frame g is f with another phase, branch and value.                  *)
Becomes(g, f, ph, i, value) ==
  /\ g \in Frames
  /\ g.node = f.node /\ g.workload = f.workload /\ g.fork_count = f.fork_count
  /\ g.ph = ph /\ g.i = i /\ g.value = value /\ g.opened_state = f.opened_state

LEMMA FrameFields ==
  ASSUME NEW f \in Frames, NEW ph \in Phases, NEW v \in BOOLEAN, NEW n \in Nat
  PROVE  /\ Becomes([f EXCEPT !.ph = ph], f, ph, f.i, f.value)
         /\ Becomes([f EXCEPT !.i = n], f, f.ph, n, f.value)
         /\ Becomes([f EXCEPT !.ph = ph, !.i = n], f, ph, n, f.value)
         /\ Becomes([f EXCEPT !.ph = ph, !.value = v], f, ph, f.i, v)
<1> DEFINE y == [f EXCEPT !.ph = ph]
           a == [y EXCEPT !.i = n]
           b == [y EXCEPT !.value = v]
<1>1. f = [node |-> f.node, workload |-> f.workload, fork_count |-> f.fork_count, ph |-> f.ph,
           i |-> f.i, value |-> f.value, opened_state |-> f.opened_state]
      /\ f.node \in Node /\ f.workload \in Nat /\ f.fork_count \in Nat /\ f.ph \in Phases
      /\ f.i \in Nat /\ f.value \in BOOLEAN \cup {NONE} /\ f.opened_state \in SUBSET Nat
  BY DEF Frames
<1>2. y = [node |-> f.node, workload |-> f.workload, fork_count |-> f.fork_count, ph |-> ph,
           i |-> f.i, value |-> f.value, opened_state |-> f.opened_state]
  BY <1>1
<1>3. [f EXCEPT !.i = n] =
        [node |-> f.node, workload |-> f.workload, fork_count |-> f.fork_count, ph |-> f.ph,
         i |-> n, value |-> f.value, opened_state |-> f.opened_state]
  BY <1>1
<1>4. a = [node |-> f.node, workload |-> f.workload, fork_count |-> f.fork_count, ph |-> ph,
           i |-> n, value |-> f.value, opened_state |-> f.opened_state]
  <2> HIDE DEF y
  <2> QED BY <1>2
<1>5. b = [node |-> f.node, workload |-> f.workload, fork_count |-> f.fork_count, ph |-> ph,
           i |-> f.i, value |-> v, opened_state |-> f.opened_state]
  <2> HIDE DEF y
  <2> QED BY <1>2
<1>6. Becomes(y, f, ph, f.i, f.value)
  <2> HIDE DEF y
  <2> QED BY <1>1, <1>2 DEF Becomes, Frames
<1>7. Becomes([f EXCEPT !.i = n], f, f.ph, n, f.value) BY <1>1, <1>3 DEF Becomes, Frames
<1>8. Becomes(a, f, ph, n, f.value)
  <2> HIDE DEF a
  <2> QED BY <1>1, <1>4 DEF Becomes, Frames
<1>9. Becomes(b, f, ph, f.i, v)
  <2> HIDE DEF b
  <2> QED BY <1>1, <1>5 DEF Becomes, Frames
<1> QED BY <1>6, <1>7, <1>8, <1>9

(* One branch decides a node.                                              *)
LEMMA Decides ==
  ASSUME Loaded, NEW node, Inner(node), NEW j \in Nat, j < BranchCount(node),
         Answer(Append(node, j)) = Existentially(node)
  PROVE  Answer(node) = Existentially(node)
<1>1. BranchCount(node) \in Nat BY BranchesAreNodes
<1>2. j \in 0 .. (BranchCount(node) - 1) BY <1>1
<1> QED BY <1>2, AnswerInner

LEMMA NoneDecides ==
  ASSUME Loaded, NEW node, Inner(node),
         \A j \in 0 .. (BranchCount(node) - 1) : Answer(Append(node, j)) # Existentially(node)
  PROVE  Answer(node) = ~ Existentially(node)
BY AnswerInner

LEMMA LocalValueKeeps ==
  ASSUME Loaded, TreeInv, NEW p \in DOMAIN procs, LocalValue(p)
  PROVE  TreeInv'
<1> DEFINE f == Frame(p)
           v == procs[p].ret
           D == DOMAIN procs
           B == DOMAIN branch
<1>1. /\ InNode(p, "local", TRUE) /\ Runs(p)
      /\ tg' = tg /\ word' = word /\ branch' = branch /\ garbled' = garbled
  BY DEF LocalValue, InNode
<1>2. /\ procs[p].stack # <<>> /\ f \in Frames /\ f.ph = "local"
      /\ FrameSafe(p, f, D, B) /\ (garbled \/ FrameRight(f))
      /\ v \in BOOLEAN /\ (garbled \/ v = Answer(Awaited(f)))
  BY <1>1, Working
<1>3. procs' = IF Decisive(f, v) THEN With(p, [f EXCEPT !.ph = "wait", !.value = v])
               ELSE With(p, [f EXCEPT !.ph = "fork", !.i = @ + 1])
  BY DEF LocalValue
<1>4. Awaited(f) = Append(f.node, f.i) BY <1>2 DEF Awaited, Going
<1>5. garbled \in BOOLEAN BY DEF TreeInv
<1>6. /\ f.i \in Nat /\ BranchCount(f.node) \in Nat /\ f.i \in 1 .. BranchCount(f.node)
      /\ f.i < BranchCount(f.node) /\ Inner(f.node)
  BY <1>2, BranchesAreNodes DEF FrameSafe, Frames
<1> HIDE DEF f, v
<1>7. CASE Decisive(f, v)
  <2> DEFINE g == [f EXCEPT !.ph = "wait", !.value = v]
  <2>1. Becomes(g, f, "wait", f.i, v) BY <1>2, <1>6, FrameFields DEF Phases
  <2>2. procs' = With(p, g) BY <1>3, <1>7
  <2> HIDE DEF g
  <2>3. FrameSafe(p, g, D, B) BY <1>2, <2>1 DEF FrameSafe, FrameAlone, Becomes
  <2>4. garbled \/ FrameRight(g)
    <3> SUFFICES ASSUME ~ garbled PROVE FrameRight(g) OBVIOUS
    <3>1. Answer(Append(f.node, f.i)) = Existentially(f.node)
      BY <1>2, <1>4, <1>7 DEF Decisive
    <3>2. Answer(f.node) = Existentially(f.node) BY <1>6, <3>1, Decides
    <3> QED BY <1>7, <2>1, <3>2 DEF FrameRight, Becomes, Decisive
  <2>5. g \in Frames /\ g.node = f.node /\ g.ph # "read" BY <2>1 DEF Becomes
  <2> QED BY <1>1, <1>2, <1>5, <2>2, <2>3, <2>4, <2>5, WithKeeps DEF f
<1>8. CASE ~ Decisive(f, v)
  <2> DEFINE g == [f EXCEPT !.ph = "fork", !.i = f.i + 1]
  <2>1. Becomes(g, f, "fork", f.i + 1, f.value)
    <3> DEFINE n == f.i + 1
    <3>1. n \in Nat /\ "fork" \in Phases BY <1>6 DEF Phases
    <3> HIDE DEF n
    <3>2. Becomes([f EXCEPT !.ph = "fork", !.i = n], f, "fork", n, f.value) BY <1>2, <3>1, FrameFields
    <3> QED BY <3>2 DEF n
  <2>2. procs' = With(p, g) BY <1>3, <1>8
  <2> HIDE DEF g
  <2>3. FrameSafe(p, g, D, B)
    <3>1. Unforked(g) \subseteq Unforked(f) BY <1>2, <1>6, <2>1 DEF Unforked, Becomes
    <3>2. FrameAlone(p, g, D) BY <1>2, <2>1, <3>1 DEF FrameSafe, FrameAlone, Becomes
    <3>3. g.i \in 1 .. BranchCount(f.node) BY <1>6, <2>1 DEF Becomes
    <3> QED BY <1>2, <2>1, <3>2, <3>3 DEF FrameSafe, Becomes
  <2>4. garbled \/ FrameRight(g)
    <3> SUFFICES ASSUME ~ garbled PROVE FrameRight(g) OBVIOUS
    <3>1. Undecided(f, f.i) BY <1>2, <1>4, <1>8 DEF Decisive, Undecided
    <3>2. ASSUME NEW j \in 1 .. (g.i - 1), j \notin g.opened_state PROVE Undecided(g, j)
      <4>1. j = f.i \/ j \in 1 .. (f.i - 1) BY <1>6, <2>1, <3>2 DEF Becomes
      <4>2. Undecided(f, j) BY <1>2, <2>1, <3>1, <3>2, <4>1 DEF FrameRight, Becomes
      <4> QED BY <2>1, <4>2 DEF Undecided, Becomes
    <3> QED BY <2>1, <3>2 DEF FrameRight, Becomes
  <2>5. g \in Frames /\ g.node = f.node /\ g.ph # "read" BY <2>1 DEF Becomes
  <2> QED BY <1>1, <1>2, <1>5, <2>2, <2>3, <2>4, <2>5, WithKeeps DEF f
<1> QED BY <1>7, <1>8

LEMMA OriginValueKeeps ==
  ASSUME Loaded, TreeInv, NEW p \in DOMAIN procs, OriginValue(p)
  PROVE  TreeInv'
<1> DEFINE f == Frame(p)
           v == procs[p].ret
           D == DOMAIN procs
           B == DOMAIN branch
           g == [f EXCEPT !.ph = "wait", !.value = v]
<1>1. /\ InNode(p, "origin", TRUE) /\ Runs(p)
      /\ tg' = tg /\ word' = word /\ branch' = branch /\ garbled' = garbled
      /\ procs' = With(p, g)
  BY DEF OriginValue, InNode
<1>2. /\ procs[p].stack # <<>> /\ f \in Frames /\ f.ph = "origin"
      /\ FrameSafe(p, f, D, B) /\ (garbled \/ FrameRight(f))
      /\ v \in BOOLEAN /\ (garbled \/ v = Answer(Awaited(f)))
  BY <1>1, Working
<1>3. Awaited(f) = Append(f.node, 0) BY <1>2 DEF Awaited, Going
<1>4. garbled \in BOOLEAN BY DEF TreeInv
<1>5. /\ f.i \in Nat /\ BranchCount(f.node) \in Nat /\ f.i = BranchCount(f.node)
      /\ BranchCount(f.node) >= 1 /\ Inner(f.node)
  BY <1>2, BranchesAreNodes DEF FrameSafe, Frames
<1>6. Becomes(g, f, "wait", f.i, v) BY <1>2, <1>5, FrameFields DEF Phases
<1> HIDE DEF f, v, g
<1>7. FrameSafe(p, g, D, B) BY <1>2, <1>6 DEF FrameSafe, FrameAlone, Becomes
<1>8. garbled \/ FrameRight(g)
  <2> SUFFICES ASSUME ~ garbled PROVE FrameRight(g) OBVIOUS
  <2>1. v = Answer(Append(f.node, 0)) BY <1>2, <1>3
  <2>2. CASE v = Existentially(f.node)
    <3>1. Answer(f.node) = Existentially(f.node) BY <1>5, <2>1, <2>2, Decides
    <3> QED BY <1>6, <2>2, <3>1 DEF FrameRight, Becomes
  <2>3. CASE v # Existentially(f.node)
    <3>1. Undecided(f, 0) BY <2>1, <2>3 DEF Undecided
    <3>2. \A j \in 1 .. (BranchCount(f.node) - 1) : j \notin f.opened_state => Undecided(f, j)
      BY <1>2, <1>5 DEF FrameRight
    <3>3. \A j : Undecided(g, j) = Undecided(f, j) BY <1>6 DEF Undecided, Becomes
    <3> QED BY <1>6, <2>3, <3>1, <3>2, <3>3 DEF FrameRight, Becomes
  <2> QED BY <2>2, <2>3
<1>9. g \in Frames /\ g.node = f.node /\ g.ph # "read" BY <1>6 DEF Becomes
<1> QED BY <1>1, <1>2, <1>4, <1>7, <1>8, <1>9, WithKeeps DEF f

(* The process calculates the next branch, or the first, itself.           *)
LEMMA CallKeeps ==
  ASSUME Loaded, TreeInv, NEW p \in DOMAIN procs, InNode(p, "fork", FALSE),
         NEW g, NEW ph, Becomes(g, Frame(p), ph, Frame(p).i, Frame(p).value),
         \/ ph = "local" /\ Frame(p).i < BranchCount(Frame(p).node)
         \/ ph = "origin" /\ Frame(p).i = BranchCount(Frame(p).node),
         NEW load \in Nat, procs' = Calls(p, g, Awaited(g), load),
         tg' = tg, word' = word, branch' = branch, garbled' = garbled
  PROVE  TreeInv'
<1> DEFINE f == Frame(p)
           D == DOMAIN procs
           B == DOMAIN branch
           x == acceptAsync_rec(Append(Front(procs[p].stack), g), Awaited(g), load, g.fork_count)
           r == [stack |-> x.stack, ret |-> x.ret, status |-> procs[p].status]
<1>1. /\ Safe(p, procs[p], D, B, garbled) /\ procs[p] \in Processes
      /\ procs[p].stack # <<>> /\ f \in Frames /\ f.ph = "fork" /\ f = Last(procs[p].stack)
      /\ FrameSafe(p, f, D, B) /\ (garbled \/ FrameRight(f))
  BY Working
<1>2. Runs(p) BY DEF InNode
<1>3. garbled \in BOOLEAN BY DEF TreeInv
<1>4. /\ f.i \in Nat /\ BranchCount(f.node) \in Nat /\ f.i \in 1 .. BranchCount(f.node)
      /\ Inner(f.node)
  BY <1>1, BranchesAreNodes DEF FrameSafe, Frames
<1>5. /\ g \in Frames /\ g.node = f.node /\ g.ph = ph /\ g.i = f.i
      /\ g.opened_state = f.opened_state /\ g.fork_count \in Nat
  BY DEF Becomes, Frames
<1>6. D \subseteq Node BY DEF TreeInv, Safe, IsNode
<1>7. \/ ph = "local" /\ f.i < BranchCount(f.node)
      \/ ph = "origin" /\ f.i = BranchCount(f.node)
  OBVIOUS
<1>8. procs' = Turned(p, x.stack, x.ret) BY DEF Calls, Turned
<1> HIDE DEF f
<1>9. Unforked(g) \subseteq Unforked(f) BY <1>1, <1>4, <1>5, <1>7 DEF Unforked
<1>10. FrameSafe(p, g, D, B)
  <2>1. FrameAlone(p, g, D) BY <1>1, <1>5, <1>9 DEF FrameSafe, FrameAlone
  <2> QED BY <1>1, <1>4, <1>5, <1>7, <2>1 DEF FrameSafe
<1>11. garbled \/ FrameRight(g)
  <2> SUFFICES ASSUME FrameRight(f) PROVE FrameRight(g) BY <1>1
  <2>1. \A j : Undecided(g, j) = Undecided(f, j) BY <1>5 DEF Undecided
  <2> QED BY <1>1, <1>5, <1>7, <2>1 DEF FrameRight
<1>12. Going(g) \in Unforked(f) /\ Going(g) < BranchCount(g.node)
  <2>1. CASE ph = "local" BY <1>1, <1>4, <1>5, <1>7, <2>1 DEF Going, Unforked
  <2>2. CASE ph = "origin" BY <1>1, <1>4, <1>5, <1>7, <2>2 DEF Going, Unforked
  <2> QED BY <1>7, <2>1, <2>2
<1>13. g.ph \in {"local", "origin"} BY <1>5, <1>7
<1>14. Safe(p, r, D, B, garbled) /\ x.stack # <<>> /\ Last(x.stack).ph # "read"
  <2>1. /\ Last(procs[p].stack).ph = "fork" /\ g.node = Last(procs[p].stack).node
        /\ Going(g) \in Unforked(Last(procs[p].stack))
    BY <1>1, <1>5, <1>12
  <2>2. g.fork_count \in Nat /\ g \in Frames /\ p \in D BY <1>5
  <2> HIDE DEF D, B, x, r
  <2>3. Goes(acceptAsync_rec(Append(Front(procs[p].stack), g), Awaited(g), load, g.fork_count),
             procs[p].status, p, D, B, garbled)
    BY <1>1, <1>6, <1>10, <1>11, <1>12, <1>13, <2>1, <2>2, CallSafe
  <2>4. Goes(x, procs[p].status, p, D, B, garbled) BY <2>3 DEF x
  <2> QED BY <2>4 DEF Goes, r
<1> HIDE DEF x
<1>15. Step(p, r) BY <1>1, <1>3, <1>8, TurnedMoves DEF Step
<1>16. r.stack = x.stack OBVIOUS
<1> HIDE DEF r
<1>17. HasWaited(r) => \A c \in Children(p) : procs[c].status = "ended"
  BY <1>14, <1>16 DEF HasWaited
<1> QED BY <1>2, <1>14, <1>15, <1>17, StepKeeps

LEMMA ForkFailsKeeps ==
  ASSUME Loaded, TreeInv, NEW p \in DOMAIN procs, ForkFails(p)
  PROVE  TreeInv'
<1> DEFINE f == Frame(p)
           g == [f EXCEPT !.ph = "local"]
<1>1. /\ InNode(p, "fork", FALSE)
      /\ tg' = tg /\ word' = word /\ branch' = branch /\ garbled' = garbled
      /\ f.i < BranchCount(f.node) /\ procs' = Calls(p, g, Append(f.node, f.i), 0)
  BY DEF ForkFails
<1>2. f \in Frames BY <1>1, Working
<1>3. Becomes(g, f, "local", f.i, f.value) BY <1>2, FrameFields DEF Phases
<1> HIDE DEF g
<1>4. Awaited(g) = Append(f.node, f.i) BY <1>3 DEF Awaited, Going, Becomes
<1>5. procs' = Calls(p, g, Awaited(g), 0) /\ 0 \in Nat BY <1>1, <1>4
<1> QED BY <1>1, <1>3, <1>5, CallKeeps

LEMMA OriginKeeps ==
  ASSUME Loaded, TreeInv, NEW p \in DOMAIN procs, Origin(p)
  PROVE  TreeInv'
<1> DEFINE f == Frame(p)
           g == [f EXCEPT !.ph = "origin"]
<1>1. /\ InNode(p, "fork", FALSE)
      /\ tg' = tg /\ word' = word /\ branch' = branch /\ garbled' = garbled
      /\ f.i = BranchCount(f.node) /\ procs' = Calls(p, g, Append(f.node, 0), f.workload)
  BY DEF Origin
<1>2. f \in Frames /\ f.workload \in Nat
  <2>1. f \in Frames BY <1>1, Working
  <2> QED BY <2>1 DEF Frames
<1>3. Becomes(g, f, "origin", f.i, f.value) BY <1>2, FrameFields DEF Phases
<1> HIDE DEF g
<1>4. Awaited(g) = Append(f.node, 0) BY <1>3 DEF Awaited, Going, Becomes
<1>5. procs' = Calls(p, g, Awaited(g), f.workload) BY <1>1, <1>4
<1> QED BY <1>1, <1>2, <1>3, <1>5, CallKeeps

(* The branches that a process has forked for its last frame are children. *)
LEMMA OpenedAreChildren ==
  ASSUME TreeInv, NEW p \in DOMAIN procs, NEW f \in Frames,
         FrameSafe(p, f, DOMAIN procs, DOMAIN branch), NEW j \in f.opened_state
  PROVE  Append(f.node, j) \in Children(p)
<1> DEFINE c == Append(f.node, j)
<1>1. \A o \in DOMAIN procs : o \in Node BY DEF TreeInv, Safe, IsNode
<1>2. c \in DOMAIN procs /\ IsPrefix(p, f.node) /\ FrameAlone(p, f, DOMAIN procs) BY DEF FrameSafe
<1>3. p \in Node /\ c \in Node /\ f.node \in Node /\ j \in Nat BY <1>1, <1>2 DEF Frames
<1>4. IsPrefix(f.node, c) /\ Len(c) = Len(f.node) + 1 BY <1>3, AppendNode
<1>5. IsPrefix(p, c) BY <1>2, <1>3, <1>4, PrefixTransitive
<1>6. c # p
  <2>1. Len(p) <= Len(f.node) BY <1>2, <1>3, Prefix
  <2>2. Len(f.node) \in Nat BY <1>3 DEF Node
  <2>3. Len(c) # Len(p) BY <1>3, <1>4, <2>1, <2>2 DEF Node
  <2> QED BY <2>3
<1>7. ASSUME NEW o \in DOMAIN procs, IsPrefix(o, c), o # c PROVE IsPrefix(o, p)
  <2>1. IsPrefix(o, f.node) BY <1>1, <1>3, <1>7, PrefixOfAppend
  <2> QED BY <1>2, <2>1 DEF FrameAlone
<1> QED BY <1>2, <1>5, <1>6, <1>7 DEF Children

LEMMA ExistentiallyIsBoolean == \A node : Existentially(node) \in BOOLEAN
BY DEF Existentially, Existential

LEMMA WaitForAllKeeps ==
  ASSUME Loaded, TreeInv, NEW p \in DOMAIN procs, NEW interrupted, WaitForAll(p, interrupted)
  PROVE  TreeInv'
<1> DEFINE f == Frame(p)
           D == DOMAIN procs
           B == DOMAIN branch
           fails == interrupted \/ \E c \in Children(p) : procs[c].status = "failed"
           g == [f EXCEPT !.ph = "read", !.i = 1]
<1>1. /\ InNode(p, "wait", FALSE) /\ Runs(p)
      /\ tg' = tg /\ word' = word /\ branch' = branch /\ garbled' = garbled
      /\ \A c \in Children(p) : ~ Runs(c) /\ procs[c].status # "hung"
      /\ procs' = IF fails THEN [procs EXCEPT ![p].status = "failed"]
                  ELSE IF Decisive(f, f.value) THEN ReturnsFrom(p, f.value) ELSE With(p, g)
  BY DEF WaitForAll, InNode
<1>2. /\ procs[p].stack # <<>> /\ f \in Frames /\ f.ph = "wait"
      /\ FrameSafe(p, f, D, B) /\ (garbled \/ FrameRight(f))
  BY <1>1, Working
<1>3. garbled \in BOOLEAN BY DEF TreeInv
<1>4. /\ f.i \in Nat /\ BranchCount(f.node) \in Nat /\ f.i \in 1 .. BranchCount(f.node)
      /\ Inner(f.node)
  BY <1>2, BranchesAreNodes DEF FrameSafe, Frames
<1>5. ASSUME ~ fails, NEW c \in Children(p) PROVE procs[c].status = "ended" /\ c \in B
  <2>1. c \in D BY DEF Children
  <2>2. Safe(c, procs[c], D, B, garbled) BY <2>1 DEF TreeInv
  <2>3. procs[c].status \in {"running", "ended", "failed", "hung"} BY <2>2 DEF Safe, Processes
  <2>4. procs[c].status = "ended" BY <1>1, <1>5, <2>3 DEF Runs
  <2> QED BY <2>2, <2>4 DEF Safe
<1>6. CASE fails BY <1>1, <1>3, <1>6, EndKeeps
<1>7. CASE ~ fails /\ Decisive(f, f.value)
  <2>1. f.value \in BOOLEAN BY <1>7, ExistentiallyIsBoolean DEF Decisive
  <2>2. garbled \/ f.value = Answer(f.node) BY <1>2, <1>7 DEF FrameRight, Decisive
  <2> HIDE DEF fails
  <2>3. procs' = ReturnsFrom(p, f.value) BY <1>1, <1>7
  <2> QED BY <1>1, <1>2, <1>3, <1>5, <1>7, <2>1, <2>2, <2>3, ReturnKeeps
<1>8. CASE ~ fails /\ ~ Decisive(f, f.value)
  <2> HIDE DEF fails
  <2>1. Becomes(g, f, "read", 1, f.value) BY <1>2, FrameFields DEF Phases
  <2>2. procs' = With(p, g) BY <1>1, <1>8
  <2> HIDE DEF g
  <2>3. FrameSafe(p, g, D, B)
    <3>1. \A j \in f.opened_state : Append(f.node, j) \in B BY <1>2, <1>5, <1>8, OpenedAreChildren
    <3>2. 1 \in 1 .. BranchCount(f.node) BY <1>4
    <3> QED BY <1>2, <2>1, <3>1, <3>2 DEF FrameSafe, FrameAlone, Becomes
  <2>4. garbled \/ FrameRight(g)
    <3> SUFFICES ASSUME FrameRight(f) PROVE FrameRight(g) BY <1>2
    <3>1. /\ Undecided(f, 0)
          /\ \A j \in 1 .. (BranchCount(f.node) - 1) : j \notin f.opened_state => Undecided(f, j)
      BY <1>2, <1>8 DEF FrameRight, Decisive
    <3>2. \A j : Undecided(g, j) = Undecided(f, j) BY <2>1 DEF Undecided, Becomes
    <3> QED BY <1>4, <2>1, <3>1, <3>2 DEF FrameRight, Becomes
  <2>5. g \in Frames /\ g.node = f.node BY <2>1 DEF Becomes
  <2> QED BY <1>1, <1>2, <1>3, <1>5, <1>8, <2>2, <2>3, <2>4, <2>5, WithKeeps
<1> QED BY <1>6, <1>7, <1>8

(* The process takes v for the value of the branch it reads.               *)
LEMMA TakesKeeps ==
  ASSUME Loaded, TreeInv, NEW p \in DOMAIN procs, InNode(p, "read", FALSE),
         Frame(p).i < BranchCount(Frame(p).node),
         NEW v \in BOOLEAN, garbled' \/ v = Answer(Append(Frame(p).node, Frame(p).i)),
         Takes(p, Frame(p), v),
         tg' = tg, word' = word, branch' = branch, garbled' \in BOOLEAN, garbled => garbled'
  PROVE  TreeInv'
<1> DEFINE f == Frame(p)
           D == DOMAIN procs
           B == DOMAIN branch
<1>1. /\ Runs(p) /\ procs[p].stack # <<>> /\ f \in Frames /\ f.ph = "read"
      /\ f = Last(procs[p].stack)
      /\ FrameSafe(p, f, D, B) /\ (garbled \/ FrameRight(f))
  BY Working DEF InNode
<1>2. /\ f.i \in Nat /\ BranchCount(f.node) \in Nat /\ f.i \in 1 .. BranchCount(f.node)
      /\ f.i < BranchCount(f.node) /\ Inner(f.node)
  BY <1>1, BranchesAreNodes DEF FrameSafe, Frames
<1>3. \A c \in Children(p) : procs[c].status = "ended" BY <1>1 DEF TreeInv, HasWaited
<1>4. procs' = IF Decisive(f, v) THEN ReturnsFrom(p, v) ELSE With(p, [f EXCEPT !.i = f.i + 1])
  BY DEF Takes
<1>5. garbled' \/ v = Answer(Append(f.node, f.i)) OBVIOUS
<1>6. CASE Decisive(f, v)
  <2>1. garbled' \/ v = Answer(f.node) BY <1>2, <1>5, <1>6, Decides DEF Decisive
  <2>2. procs' = ReturnsFrom(p, v) BY <1>4, <1>6
  <2> QED BY <1>1, <1>3, <2>1, <2>2, ReturnKeeps
<1>7. CASE ~ Decisive(f, v)
  <2> DEFINE n == f.i + 1
             g == [f EXCEPT !.i = n]
  <2>1. n \in Nat /\ n \in 1 .. BranchCount(f.node) BY <1>2
  <2>2. procs' = With(p, g) BY <1>4, <1>7
  <2>3. Becomes(g, f, "read", n, f.value)
    <3>1. "read" \in Phases BY DEF Phases
    <3> HIDE DEF n, f
    <3>2. Becomes([f EXCEPT !.i = n], f, f.ph, n, f.value) BY <1>1, <2>1, <3>1, FrameFields
    <3> QED BY <1>1, <3>2
  <2> HIDE DEF g, f
  <2>4. FrameSafe(p, g, D, B)
    <3> HIDE DEF n
    <3> QED BY <1>1, <2>1, <2>3 DEF FrameSafe, FrameAlone, Becomes
  <2>5. garbled' \/ FrameRight(g)
    <3> SUFFICES ASSUME ~ garbled' PROVE FrameRight(g) OBVIOUS
    <3>1. FrameRight(f) /\ v = Answer(Append(f.node, f.i)) BY <1>1, <1>5
    <3>2. Undecided(f, f.i) BY <1>7, <3>1 DEF Decisive, Undecided
    <3>3. \A j : Undecided(g, j) = Undecided(f, j) BY <2>3 DEF Undecided, Becomes
    <3>4. ASSUME NEW j \in 1 .. (BranchCount(f.node) - 1), j \notin f.opened_state \/ j < n
          PROVE  Undecided(f, j)
      <4>1. j \notin f.opened_state \/ j < f.i \/ j = f.i BY <1>2, <3>4
      <4> QED BY <1>1, <3>1, <3>2, <4>1 DEF FrameRight
    <3>5. Undecided(f, 0) BY <1>1, <3>1 DEF FrameRight
    <3> HIDE DEF n
    <3> QED BY <2>3, <3>3, <3>4, <3>5 DEF FrameRight, Becomes
  <2>6. g \in Frames /\ g.node = Frame(p).node BY <2>3 DEF Becomes, f
  <2> QED BY <1>1, <1>3, <2>2, <2>4, <2>5, <2>6, WithKeeps
<1> QED BY <1>6, <1>7

LEMMA ReportedIs ==
  ASSUME TreeInv, NEW c \in DOMAIN branch
  PROVE  /\ c \in DOMAIN procs /\ procs[c].status = "ended"
         /\ branch[c] \in BOOLEAN /\ (garbled \/ branch[c] = Answer(c))
<1>1. c \in DOMAIN procs /\ procs[c].status = "ended" /\ branch[c] = procs[c].ret BY DEF TreeInv
<1>2. Safe(c, procs[c], DOMAIN procs, DOMAIN branch, garbled) BY <1>1 DEF TreeInv
<1>3. procs[c].stack = <<>> /\ procs[c].ret # NONE /\ procs[c].ret \in BOOLEAN \cup {NONE}
  BY <1>1, <1>2 DEF Safe, Processes
<1>4. garbled \/ procs[c].ret = Answer(c) BY <1>2, <1>3 DEF Safe, Pending
<1> QED BY <1>1, <1>3, <1>4

LEMMA ReadBranchKeeps ==
  ASSUME Loaded, TreeInv, NEW p \in DOMAIN procs, ReadBranch(p)
  PROVE  TreeInv'
<1> DEFINE f == Frame(p)
           c == Append(f.node, f.i)
<1>1. /\ InNode(p, "read", FALSE) /\ f.i < BranchCount(f.node) /\ f.i \in f.opened_state
      /\ Takes(p, f, branch[c])
      /\ tg' = tg /\ word' = word /\ branch' = branch /\ garbled' = garbled
  BY DEF ReadBranch
<1>2. c \in DOMAIN branch
  <2>1. FrameSafe(p, f, DOMAIN procs, DOMAIN branch) /\ f.ph = "read" BY <1>1, Working
  <2> QED BY <1>1, <2>1 DEF FrameSafe
<1>3. branch[c] \in BOOLEAN /\ (garbled \/ branch[c] = Answer(c)) BY <1>2, ReportedIs
<1>4. garbled \in BOOLEAN BY DEF TreeInv
<1> QED BY <1>1, <1>3, <1>4, TakesKeeps

LEMMA ReadUnopenedKeeps ==
  ASSUME Loaded, TreeInv, NEW p \in DOMAIN procs, ReadUnopened(p)
  PROVE  TreeInv'
<1>1. /\ InNode(p, "read", FALSE) /\ Frame(p).i < BranchCount(Frame(p).node)
      /\ \/ \E s \in {"failed", "hung"} : procs' = [procs EXCEPT ![p].status = s]
         \/ \E v \in BOOLEAN : Takes(p, Frame(p), v)
      /\ garbled' = TRUE /\ tg' = tg /\ word' = word /\ branch' = branch
  BY DEF ReadUnopened
<1>2. Runs(p) BY <1>1 DEF InNode
<1>3. ASSUME NEW s \in {"failed", "hung"}, procs' = [procs EXCEPT ![p].status = s] PROVE TreeInv'
  BY <1>1, <1>2, <1>3, EndKeeps
<1>4. ASSUME NEW v \in BOOLEAN, Takes(p, Frame(p), v) PROVE TreeInv'
  BY <1>1, <1>4, TakesKeeps
<1> QED BY <1>1, <1>3, <1>4

LEMMA AllReadKeeps ==
  ASSUME Loaded, TreeInv, NEW p \in DOMAIN procs, AllRead(p)
  PROVE  TreeInv'
<1> DEFINE f == Frame(p)
           v == ~ Existentially(f.node)
<1>1. /\ InNode(p, "read", FALSE) /\ Runs(p)
      /\ tg' = tg /\ word' = word /\ branch' = branch /\ garbled' = garbled
      /\ f.i = BranchCount(f.node) /\ procs' = ReturnsFrom(p, v)
  BY DEF AllRead, InNode
<1>2. /\ procs[p].stack # <<>> /\ f \in Frames /\ f.ph = "read" /\ f = Last(procs[p].stack)
      /\ FrameSafe(p, f, DOMAIN procs, DOMAIN branch) /\ (garbled \/ FrameRight(f))
  BY <1>1, Working
<1>3. BranchCount(f.node) \in Nat /\ Inner(f.node) BY <1>2, BranchesAreNodes DEF FrameSafe
<1>4. \A c \in Children(p) : procs[c].status = "ended" BY <1>1, <1>2 DEF TreeInv, HasWaited
<1>5. garbled \/ v = Answer(f.node)
  <2> SUFFICES ASSUME FrameRight(f) PROVE v = Answer(f.node) BY <1>2
  <2>1. Undecided(f, 0) /\ \A j \in 1 .. (BranchCount(f.node) - 1) : Undecided(f, j)
    <3>1. ASSUME NEW j \in 1 .. (BranchCount(f.node) - 1) PROVE j < f.i BY <1>1, <1>3, <3>1
    <3> QED BY <1>2, <3>1 DEF FrameRight
  <2>2. \A j \in 0 .. (BranchCount(f.node) - 1) : Undecided(f, j)
    <3> TAKE j \in 0 .. (BranchCount(f.node) - 1)
    <3>1. j = 0 \/ j \in 1 .. (BranchCount(f.node) - 1) BY <1>3
    <3> QED BY <2>1, <3>1
  <2>3. Answer(f.node) = ~ Existentially(f.node) BY <1>3, <2>2, NoneDecides DEF Undecided
  <2> QED BY <2>3
<1>6. v \in BOOLEAN /\ garbled \in BOOLEAN BY DEF TreeInv
<1> HIDE DEF v
<1> QED BY <1>1, <1>2, <1>4, <1>5, <1>6, ReturnKeeps

LEMMA AbortKeeps ==
  ASSUME TreeInv, NEW p \in DOMAIN procs, Abort(p)
  PROVE  TreeInv'
<1>1. garbled \in BOOLEAN BY DEF TreeInv
<1> QED BY <1>1, EndKeeps DEF Abort

LEMMA ReportKeeps ==
  ASSUME TreeInv, NEW p \in DOMAIN procs, Report(p)
  PROVE  TreeInv'
<1> DEFINE D == DOMAIN procs
           B == DOMAIN branch
           r == [stack |-> procs[p].stack, ret |-> procs[p].ret, status |-> "ended"]
           C == B \cup {p}
<1>1. /\ procs[p].status = "running" /\ procs[p].stack = <<>> /\ procs[p].ret # NONE
      /\ branch' = Put(branch, p, procs[p].ret) /\ procs' = [procs EXCEPT ![p].status = "ended"]
      /\ tg' = tg /\ word' = word /\ garbled' = garbled
  BY DEF Report, Runs
<1>2. Safe(p, procs[p], D, B, garbled) /\ garbled \in BOOLEAN BY DEF TreeInv
<1>3. procs[p] \in Processes BY <1>2 DEF Safe
<1>4. Moves(procs', p, r) BY <1>1, <1>3, EndMoves
<1>5. DOMAIN procs' = D /\ procs'[p] = r /\ \A q \in D \ {p} : procs'[q] = procs[q]
  BY <1>4 DEF Moves
<1>6. DOMAIN branch' = C /\ branch'[p] = procs[p].ret /\ \A c \in B \ {p} : branch'[c] = branch[c]
  BY <1>1 DEF Put
<1>7. /\ r \in Processes /\ r.stack = <<>> /\ r.ret = procs[p].ret /\ r.status = "ended"
  BY <1>1, <1>3 DEF Processes
<1> HIDE DEF r
<1>8. ASSUME NEW q \in D PROVE Safe(q, procs'[q], D, C, garbled)
  <2>1. Safe(q, procs[q], D, B, garbled) BY DEF TreeInv
  <2>2. Safe(q, procs[q], D, C, garbled) BY <1>2, <2>1, SafeGrows
  <2>3. CASE q # p BY <1>5, <2>2, <2>3
  <2>4. CASE q = p
    <3>1. Safe(p, r, D, C, garbled) BY <1>1, <1>7, <2>2, <2>4 DEF Safe
    <3> QED BY <1>5, <2>4, <3>1
  <2> QED BY <2>3, <2>4
<1>9. ASSUME NEW q \in DOMAIN procs' PROVE Safe(q, procs[q], DOMAIN procs, DOMAIN branch, garbled)'
  <2>1. Safe(q, procs'[q], DOMAIN procs', DOMAIN branch', garbled') BY <1>1, <1>5, <1>6, <1>8
  <2> QED BY <1>1, <2>1, SafeUnchanged
<1>10. ASSUME NEW c \in C PROVE procs'[c].status = "ended" /\ branch'[c] = procs'[c].ret
  <2>1. CASE c = p BY <1>5, <1>6, <1>7, <2>1
  <2>2. CASE c # p
    <3>1. c \in B /\ c \in D /\ procs[c].status = "ended" /\ branch[c] = procs[c].ret
      BY <2>2 DEF TreeInv
    <3> QED BY <1>5, <1>6, <2>2, <3>1
  <2> QED BY <2>1, <2>2
<1>11. \A q : Children(q)' = Children(q) BY <1>5 DEF Children
<1>12. ASSUME NEW q \in D, HasWaited(procs'[q]), NEW c \in Children(q) PROVE procs'[c].status = "ended"
  <2>1. HasWaited(procs[q])
    <3>1. CASE q = p BY <1>1, <3>1 DEF HasWaited
    <3>2. CASE q # p BY <1>5, <1>12, <3>2
    <3> QED BY <3>1, <3>2
  <2>2. procs[c].status = "ended" /\ c \in D BY <2>1 DEF TreeInv, Children
  <2> QED BY <1>5, <1>7, <2>2
<1>13. \A q \in DOMAIN procs' : HasWaited(procs[q])' => \A c \in Children(q)' : procs'[c].status = "ended"
  BY <1>5, <1>11, <1>12 DEF HasWaited
<1>14. DOMAIN branch' \subseteq DOMAIN procs' BY <1>5, <1>6 DEF TreeInv
<1> QED BY <1>1, <1>2, <1>6, <1>9, <1>10, <1>13, <1>14 DEF TreeInv

LEMMA ForkSucceedsKeeps ==
  ASSUME Loaded, TreeInv, NEW p \in DOMAIN procs, ForkSucceeds(p)
  PROVE  TreeInv'
<1> DEFINE f == Frame(p)
           s == procs[p].stack
           g == Forking(f)
           c == Append(f.node, f.i)
           new == Started(c, 0, f.fork_count)
           t == Append(Front(s), g)
           r == [stack |-> t, ret |-> NONE, status |-> procs[p].status]
           D == DOMAIN procs
           B == DOMAIN branch
           E == D \cup {c}
<1>1. /\ InNode(p, "fork", FALSE) /\ Runs(p)
      /\ tg' = tg /\ word' = word /\ branch' = branch /\ garbled' = garbled
      /\ f.i < BranchCount(f.node) /\ procs' = Put(With(p, g), c, new)
  BY DEF ForkSucceeds, InNode, Forking
<1>2. /\ Safe(p, procs[p], D, B, garbled) /\ procs[p] \in Processes
      /\ s # <<>> /\ f \in Frames /\ f.ph = "fork" /\ f = Last(s)
      /\ FrameSafe(p, f, D, B) /\ (garbled \/ FrameRight(f))
  BY <1>1, Working
<1>3. D \subseteq Node /\ garbled \in BOOLEAN BY DEF TreeInv, Safe, IsNode
<1>4. StackSafe(p, s, D, B, garbled) BY <1>2 DEF Safe
<1>5. /\ g \in Frames /\ g.ph = "fork" /\ StackSafe(p, t, E, B, garbled)
  <2> HIDE DEF f, s
  <2> QED BY <1>1, <1>2, <1>3, <1>4, ForkerSafe
<1>6. /\ c \in Node /\ \A o \in D : ~ IsPrefix(c, o)
      /\ Safe(c, new, E, B, garbled)
  <2> HIDE DEF f
  <2> QED BY <1>1, <1>2, <1>3, ForkedSafe
<1>7. c \notin D BY <1>6, PrefixSelf
<1>8. With(p, g) = Turned(p, t, NONE) BY StepsTurn
<1>9. Moves(With(p, g), p, r) BY <1>2, <1>8, TurnedMoves
<1> HIDE DEF g, c, new
<1>10. /\ DOMAIN procs' = E /\ procs'[p] = r /\ procs'[c] = new
       /\ \A q \in D \ {p} : procs'[q] = procs[q]
  BY <1>1, <1>7, <1>9 DEF Moves, Put
<1>11. r \in Processes /\ r.stack = t /\ r.ret = NONE /\ r.status = procs[p].status
  BY <1>2, <1>5 DEF Processes, StackSafe
<1>12. t # <<>> /\ Last(t) = g
  <2>1. Front(s) \in Seq(Frames) BY <1>2, <1>4, FrontLast DEF StackSafe
  <2> HIDE DEF s
  <2>2. /\ t \in Seq(Frames) /\ t # <<>> /\ Len(t) = Len(Front(s)) + 1 /\ t[Len(Front(s)) + 1] = g
    BY <1>5, <2>1, AppendProperties
  <2> QED BY <2>2 DEF Last
<1>13. Runs(p) => procs[p].status # "ended" BY DEF Runs
<1> HIDE DEF r, t
<1>14. Safe(p, r, E, B, garbled) BY <1>1, <1>2, <1>5, <1>11, <1>12, <1>13 DEF Safe
<1>15. ASSUME NEW q \in D, q # p PROVE Safe(q, procs[q], E, B, garbled)
  <2>1. Safe(q, procs[q], D, B, garbled) BY DEF TreeInv
  <2>2. StackSafe(q, procs[q].stack, D, B, garbled) BY <2>1 DEF Safe
  <2>3. StackSafe(q, procs[q].stack, E, B, garbled)
    BY <1>2, <1>3, <1>15, <2>2, StackAfterFork DEF c
  <2> QED BY <2>1, <2>3 DEF Safe
<1>16. ASSUME NEW q \in DOMAIN procs' PROVE Safe(q, procs[q], DOMAIN procs, DOMAIN branch, garbled)'
  <2>1. Safe(q, procs'[q], E, B, garbled)
    <3>1. CASE q = p BY <1>10, <1>14, <3>1
    <3>2. CASE q = c BY <1>6, <1>10, <3>2
    <3>3. CASE q \in D /\ q # p BY <1>10, <1>15, <3>3
    <3> QED BY <1>10, <3>1, <3>2, <3>3
  <2>2. Safe(q, procs'[q], DOMAIN procs', DOMAIN branch', garbled') BY <1>1, <1>10, <2>1
  <2> QED BY <1>1, <2>2, SafeUnchanged
<1>17. ASSUME NEW b \in B PROVE procs'[b].status = "ended" /\ branch[b] = procs'[b].ret
  <2>1. b \in D /\ procs[b].status = "ended" /\ branch[b] = procs[b].ret BY DEF TreeInv
  <2>2. b # p BY <1>1, <1>13, <2>1
  <2> QED BY <1>10, <2>1, <2>2
<1>18. IsPrefix(p, c) /\ f.node \in Node /\ f.i \in Nat /\ p \in Node
  <2>1. IsPrefix(p, f.node) /\ f.node \in Node /\ f.i \in Nat BY <1>2 DEF FrameSafe, Frames
  <2>2. IsPrefix(f.node, c) BY <2>1, AppendNode DEF c
  <2> QED BY <1>3, <1>6, <2>1, <2>2, PrefixTransitive
<1>19. ASSUME NEW q \in E, HasWaited(procs'[q]), NEW x \in Children(q)' PROVE procs'[x].status = "ended"
  <2>1. /\ x \in E /\ x # q /\ IsPrefix(q, x)
        /\ \A o \in E : IsPrefix(o, x) /\ o # x => IsPrefix(o, q)
    BY <1>10 DEF Children
  <2>2. q # c
    <3>1. ASSUME q = c PROVE FALSE
      <4>1. x \in D BY <2>1, <3>1
      <4> QED BY <1>6, <2>1, <3>1, <4>1
    <3> QED BY <3>1
  <2>3. q # p
    <3>1. ~ HasWaited(r) BY <1>5, <1>11, <1>12 DEF HasWaited
    <3> QED BY <1>10, <1>19, <3>1
  <2>4. q \in D BY <2>2
  <2>5. x # c
    <3> SUFFICES ASSUME x = c PROVE FALSE OBVIOUS
    <3>1. IsPrefix(p, q) BY <1>7, <1>18, <2>1
    <3>2. IsPrefix(q, f.node) BY <1>3, <1>18, <2>1, <2>4, PrefixOfAppend DEF c
    <3>3. IsPrefix(q, p) BY <1>2, <2>4, <3>2 DEF FrameSafe, FrameAlone
    <3> QED BY <1>3, <2>3, <2>4, <3>1, <3>3, PrefixEqual
  <2>6. x \in Children(q) BY <2>1, <2>4, <2>5 DEF Children
  <2>7. procs[x].status = "ended"
    <3>1. HasWaited(procs[q]) BY <1>10, <1>19, <2>3, <2>4
    <3> QED BY <2>4, <2>6, <3>1 DEF TreeInv
  <2>8. x \in D /\ x # p BY <1>1, <1>13, <2>1, <2>5, <2>7
  <2> QED BY <1>10, <2>7, <2>8
<1>20. \A q \in DOMAIN procs' : HasWaited(procs[q])' => \A x \in Children(q)' : procs'[x].status = "ended"
  BY <1>10, <1>19 DEF HasWaited
<1>21. DOMAIN branch' \subseteq DOMAIN procs' BY <1>1, <1>10 DEF TreeInv
<1> QED BY <1>1, <1>3, <1>16, <1>17, <1>20, <1>21 DEF TreeInv

(* The whole of a step of the computation.                                 *)
LEMMA TreeKeeps ==
  ASSUME Loaded, TreeInv, NEW p \in DOMAIN procs,
         \/ Works(p) \/ ForkFails(p) \/ Abort(p)
         \/ \E interrupted \in BOOLEAN : WaitForAll(p, interrupted)
  PROVE  TreeInv'
BY ForkSucceedsKeeps, LocalValueKeeps, OriginKeeps, OriginValueKeeps, ReadBranchKeeps,
   ReadUnopenedKeeps, AllReadKeeps, ReportKeeps, ForkFailsKeeps, AbortKeeps, WaitForAllKeeps
DEF Works

-----------------------------------------------------------------------------
(* Where the computation begins and ends.                                  *)

LEMMA NoTree ==
  ASSUME DOMAIN procs = {}, DOMAIN branch = {}, garbled \in BOOLEAN
  PROVE  TreeInv
BY DEF TreeInv

LEMMA TreeStays ==
  ASSUME TreeInv, UNCHANGED acceptVars
  PROVE  TreeInv'
<1>1. tg' = tg /\ word' = word /\ procs' = procs /\ branch' = branch /\ garbled' = garbled
  BY DEF acceptVars
<1>2. ASSUME NEW p \in DOMAIN procs' PROVE Safe(p, procs[p], DOMAIN procs, DOMAIN branch, garbled)'
  <2>1. Safe(p, procs[p], DOMAIN procs, DOMAIN branch, garbled) BY <1>1, <1>2 DEF TreeInv
  <2>2. Safe(p, procs'[p], DOMAIN procs', DOMAIN branch', garbled') BY <1>1, <2>1
  <2> QED BY <1>1, <2>2, SafeUnchanged
<1>3. \A p : Children(p)' = Children(p) BY <1>1 DEF Children
<1>4. \A p \in DOMAIN procs' : HasWaited(procs[p])' => \A c \in Children(p)' : procs'[c].status = "ended"
  BY <1>1, <1>3 DEF HasWaited, TreeInv
<1>5. /\ garbled' \in BOOLEAN /\ DOMAIN branch' \subseteq DOMAIN procs'
      /\ \A c \in DOMAIN branch' : procs'[c].status = "ended" /\ branch'[c] = procs'[c].ret
  BY <1>1 DEF TreeInv
<1> QED BY <1>2, <1>4, <1>5 DEF TreeInv

(* The run is the process of the root.                                     *)
LEMMA TreeStarts ==
  ASSUME Loaded, tg' = tg, word' = word, garbled' = garbled, garbled \in BOOLEAN,
         branch' = branch, DOMAIN branch = {},
         procs' = [p \in {Root} |-> Started(Root, 1, 0)]
  PROVE  TreeInv'
<1> DEFINE D == {Root}
           r == acceptAsync_rec(<<>>, Root, 1, 0)
           x == Started(Root, 1, 0)
<1>1. Root \in Node /\ Len(Root) = 0 BY DEF Root, Node
<1>2. IsNode(Root) BY <1>1, StateAtRoot DEF IsNode, Loaded, Root
<1>3. StackSafe(Root, <<>>, D, {}, garbled)
  <2>1. <<>> \in Seq(Frames) /\ Len(<<>>) = 0 OBVIOUS
  <2> QED BY <2>1 DEF StackSafe
<1>4. Root = Pending(Root, <<>>) BY DEF Pending
<1>5. ASSUME NEW o \in D, NEW j \in Nat PROVE ~ IsPrefix(Append(Root, j), o)
  <2>1. o = Root /\ o \in Node BY <1>1
  <2>2. Len(o) = 0 BY <1>1, <2>1
  <2>3. ~ (Len(Root) < Len(o)) BY <1>1, <2>2
  <2> QED BY <1>1, <2>1, <2>3, AppendIsPrefix
<1>6. D \subseteq Node /\ IsPrefix(Root, Root) /\ (\A o \in D : IsPrefix(o, Root) => IsPrefix(o, Root))
  BY <1>1, PrefixSelf
<1>7. 1 \in Nat /\ 0 \in Nat OBVIOUS
<1>8. Entered(acceptAsync_rec(<<>>, Root, 1, 0), Root, D, {}, garbled, <<>>, Root)
  <2> HIDE DEF D, r, x
  <2> QED BY <1>1, <1>2, <1>3, <1>4, <1>5, <1>6, <1>7, Called
<1>9. Entered(r, Root, D, {}, garbled, <<>>, Root) BY <1>8
<1>10. x = [stack |-> r.stack, ret |-> r.ret, status |-> "running"] BY DEF Started
<1> HIDE DEF r, x
<1>11. x \in Processes /\ x.stack = r.stack /\ x.ret = r.ret /\ x.status = "running"
  BY <1>9, <1>10 DEF Processes, Entered, StackSafe
<1>12. Safe(Root, x, D, {}, garbled)
  <2>1. r.ret # NONE => r.stack = <<>> /\ r.ret = Answer(Pending(Root, r.stack))
    BY <1>4, <1>9 DEF Entered
  <2>2. r.ret = NONE => r.stack # <<>> BY <1>9 DEF Entered
  <2>3. StackSafe(Root, r.stack, D, {}, garbled) BY <1>9 DEF Entered
  <2>4. Root = <<>> BY DEF Root
  <2> HIDE DEF D
  <2> QED BY <1>2, <1>11, <2>1, <2>2, <2>3, <2>4 DEF Safe
<1>13. DOMAIN procs' = D /\ procs'[Root] = x BY DEF x
<1>14. ASSUME NEW p \in DOMAIN procs' PROVE Safe(p, procs[p], DOMAIN procs, DOMAIN branch, garbled)'
  <2>1. Safe(p, procs'[p], DOMAIN procs', DOMAIN branch', garbled') BY <1>12, <1>13
  <2> QED BY <2>1, SafeUnchanged
<1>15. \A p \in DOMAIN procs' : Children(p)' = {} BY <1>13 DEF Children
<1> QED BY <1>13, <1>14, <1>15 DEF TreeInv

(* Below a process that has returned from its node, everything has ended.   *)
LEMMA Descendants ==
  ASSUME TreeInv, NEW p \in DOMAIN procs, procs[p].stack = <<>>
  PROVE  \A c \in DOMAIN procs : IsPrefix(p, c) /\ c # p => procs[c].status = "ended"
<1> DEFINE D == DOMAIN procs
           Bad == {c \in D : IsPrefix(p, c) /\ c # p /\ procs[c].status # "ended"}
<1> SUFFICES ASSUME Bad # {} PROVE FALSE OBVIOUS
<1>1. \A o \in D : o \in Node /\ Len(o) \in Nat BY DEF TreeInv, Safe, IsNode, Node
<1> HIDE DEF D
<1>2. PICK c \in Bad : \A d \in Bad : Len(c) <= Len(d)
  <2> DEFINE L == {Len(d) : d \in Bad}
  <2>1. L \in SUBSET Nat /\ L # {} BY <1>1
  <2>2. PICK n \in L : \A m \in L : n <= m
    <3> HIDE DEF L
    <3> QED BY <2>1, LeastNat
  <2> QED BY <2>2
<1>3. c \in D /\ IsPrefix(p, c) /\ c # p /\ procs[c].status # "ended" /\ p \in D BY <1>2 DEF D
<1> DEFINE Over == {o \in D : IsPrefix(p, o) /\ IsPrefix(o, c) /\ o # c}
<1>4. \A o \in Over : Len(o) < Len(c)
  <2> TAKE o \in Over
  <2>1. Len(o) <= Len(c) BY <1>1, <1>3, Prefix
  <2>2. ~ (Len(c) <= Len(o)) BY <1>1, <1>3, PrefixEqual
  <2> QED BY <1>1, <1>3, <2>1, <2>2
<1>5. PICK o \in Over : \A u \in Over : Len(u) <= Len(o)
  <2> DEFINE L == {Len(c) - Len(u) : u \in Over}
  <2>1. p \in Over BY <1>1, <1>3, PrefixSelf
  <2>2. ASSUME NEW u \in Over PROVE Len(c) - Len(u) \in Nat
    <3>1. Len(u) \in Nat /\ Len(c) \in Nat /\ Len(u) < Len(c) BY <1>1, <1>3, <1>4
    <3> QED BY <3>1
  <2>3. L \in SUBSET Nat /\ L # {} BY <2>1, <2>2
  <2>4. PICK n \in L : \A m \in L : n <= m
    <3> HIDE DEF L
    <3> QED BY <2>3, LeastNat
  <2>5. PICK o \in Over : n = Len(c) - Len(o) BY <2>4
  <2>6. ASSUME NEW u \in Over PROVE Len(u) <= Len(o)
    <3>1. Len(c) - Len(o) <= Len(c) - Len(u) BY <2>4, <2>5
    <3>2. Len(u) \in Nat /\ Len(c) \in Nat /\ Len(o) \in Nat BY <1>1, <1>3
    <3> QED BY <3>1, <3>2
  <2> QED BY <2>6
<1>6. o \in D /\ IsPrefix(p, o) /\ IsPrefix(o, c) /\ o # c /\ Len(o) < Len(c) BY <1>4, <1>5
<1>7. ASSUME NEW u \in D, IsPrefix(u, c), u # c PROVE IsPrefix(u, o)
  <2>1. CASE Len(u) <= Len(o) BY <1>1, <1>3, <1>6, <1>7, <2>1, PrefixComparable
  <2>2. CASE ~ (Len(u) <= Len(o))
    <3>1. Len(p) <= Len(o) BY <1>1, <1>3, <1>6, Prefix
    <3>2. Len(p) <= Len(u) BY <1>1, <1>3, <1>6, <2>2, <3>1
    <3>3. IsPrefix(p, u) BY <1>1, <1>3, <1>7, <3>2, PrefixComparable
    <3>4. u \in Over BY <1>7, <3>3
    <3> QED BY <1>5, <2>2, <3>4
  <2> QED BY <2>1, <2>2
<1>8. c \in Children(o) BY <1>3, <1>6, <1>7 DEF Children, D
<1>9. procs[o].stack = <<>>
  <2>1. CASE o = p BY <2>1
  <2>2. CASE o # p
    <3>1. o \notin Bad
      <4>1. ~ (Len(c) <= Len(o)) BY <1>1, <1>3, <1>6
      <4> QED BY <1>2, <4>1
    <3>2. procs[o].status = "ended" BY <1>6, <2>2, <3>1
    <3> QED BY <1>6, <3>2 DEF TreeInv, Safe, D
  <2> QED BY <2>1, <2>2
<1> QED BY <1>3, <1>6, <1>8, <1>9 DEF TreeInv, HasWaited, D

-----------------------------------------------------------------------------
(* The run and its server.                                                 *)

NotYetAccepting == {"exec", "armed", "checked", "reading", "loaded"}

(* What the server has been given is in one piece, in its hands or in the   *)
(* pipe, until the run has read it.                                        *)
Undivided ==
  \/ unwritten = Len(desc.lines) /\ pipe = 0
  \/ unwritten = 0 /\ pipe = Len(desc.lines)

(* The graph of the run is the one of the description, when it fits.        *)
Delivered ==
  /\ tg.q0 = desc.q0 /\ tg.U = desc.U /\ tg.accepting = desc.accepting
  /\ Fits => \A q \in States, a \in Letters : Range(tg.graph[q][a]) = T(desc, q, a)

AllEnded == \A p \in DOMAIN procs \ {Root} : procs[p].status = "ended" /\ p \in DOMAIN branch

PipeOK ==
  /\ desc \in Descriptions /\ word \in TestWords
  /\ unwritten \in Nat /\ pipe \in 0 .. CAP /\ pipe + unwritten <= Len(desc.lines)

FlagsOK ==
  /\ alive \in BOOLEAN /\ parent_terminated_sig \in BOOLEAN /\ deaf \in BOOLEAN
  /\ full \in BOOLEAN /\ budget \in 0 .. MaxBudget
  /\ pc \in NotYetAccepting \cup {"accepting", "commit", "sending", "gone"}
  /\ result \in BOOLEAN \cup {NONE}

RunInv ==
  /\ PipeOK /\ FlagsOK /\ TreeInv
  /\ pc \in NotYetAccepting => DOMAIN procs = {} /\ DOMAIN branch = {}
  /\ pc \in {"exec", "armed", "checked", "reading"} => (Fits => Undivided)
  /\ pc \in {"loaded", "accepting", "commit", "sending"} => Loaded /\ Delivered
  /\ pc \in {"accepting", "commit", "sending"} => Root \in DOMAIN procs
  /\ pc \in {"commit", "sending"} =>
       /\ AllEnded /\ procs[Root].ret \in BOOLEAN
       /\ garbled \/ procs[Root].ret = Answer(Root)
  /\ pc # "gone" => result = NONE
  /\ result # NONE => AllEnded
  /\ AnswerRight

LEMMA DescriptionLines ==
  ASSUME NEW d \in Descriptions
  PROVE  d.lines \in Seq(Line) /\ Len(d.lines) \in Nat
<1>1. d.lines \in Seq(Line) BY DescriptionAssumption DEF Line
<1> QED BY <1>1

LEMMA RunInit_Inv == RunInit => RunInv
<1> SUFFICES ASSUME RunInit PROVE RunInv OBVIOUS
<1>1. Len(desc.lines) \in Nat BY DescriptionLines DEF RunInit
<1>2. PipeOK BY <1>1, RunAssumption DEF RunInit, PipeOK
<1>3. FlagsOK
  <2>1. MaxBudget \in 0 .. MaxBudget BY RunAssumption
  <2>2. budget \in 0 .. MaxBudget BY <2>1 DEF RunInit
  <2> QED BY <2>2 DEF RunInit, FlagsOK, NotYetAccepting
<1>4. DOMAIN procs = {} /\ DOMAIN branch = {} BY DEF RunInit
<1>5. TreeInv BY <1>4, NoTree DEF RunInit
<1>6. Undivided BY DEF RunInit, Undivided
<1>7. pc = "exec" /\ result = NONE BY DEF RunInit
<1> QED BY <1>2, <1>3, <1>4, <1>5, <1>6, <1>7 DEF RunInv, AnswerRight

(* A step of the run or of its server that leaves the processes alone.     *)
LEMMA Facts ==
  ASSUME UNCHANGED acceptVars, desc' = desc
  PROVE  /\ (Loaded <=> Loaded') /\ (Delivered <=> Delivered') /\ (AllEnded <=> AllEnded')
         /\ (Fits <=> Fits') /\ Answer(Root)' = Answer(Root)
         /\ Accept(desc, desc.q0, word)' = Accept(desc, desc.q0, word)
<1>1. tg' = tg /\ word' = word /\ procs' = procs /\ branch' = branch BY DEF acceptVars
<1>2. Fits <=> Fits' BY DEF Fits, SplitLines
<1>3. Accept(desc, desc.q0, word)' = Accept(desc, desc.q0, word) BY <1>1 DEF Accept, T
<1>4. Answer(Root)' = Answer(Root) BY <1>1, TreeUnchanged DEF Root
<1>5. Loaded <=> Loaded' BY <1>1 DEF Loaded, Graph
<1>6. Delivered <=> Delivered' BY <1>1, <1>2 DEF Delivered
<1>7. AllEnded <=> AllEnded' BY <1>1 DEF AllEnded, Root
<1> QED BY <1>2, <1>3, <1>4, <1>5, <1>6, <1>7

LEMMA PushGraphKeeps == RunInv /\ PushGraph => RunInv'
<1> SUFFICES ASSUME RunInv, PushGraph PROVE RunInv' OBVIOUS
<1> DEFINE n == Min({unwritten, CAP - pipe})
<1>1. /\ unwritten' = unwritten - n /\ pipe' = pipe + n /\ unwritten > 0 /\ pipe < CAP
      /\ desc' = desc /\ alive' = alive /\ pc' = pc /\ result' = result /\ deaf' = deaf /\ full' = full
      /\ parent_terminated_sig' = parent_terminated_sig
      /\ UNCHANGED acceptVars
  BY DEF PushGraph
<1>2. PipeOK BY DEF RunInv
<1>3. unwritten \in Nat /\ CAP - pipe \in Nat /\ pipe \in Nat /\ CAP \in Nat
      /\ Len(desc.lines) \in Nat
  BY <1>2, RunAssumption, DescriptionLines DEF PipeOK
<1>4. n = IF unwritten <= CAP - pipe THEN unwritten ELSE CAP - pipe BY <1>3, MinOfTwo
<1>5. word' = word /\ procs' = procs /\ branch' = branch /\ garbled' = garbled /\ budget' = budget
  BY <1>1 DEF acceptVars
<1> HIDE DEF n
<1> DEFINE size == Len(desc.lines)
<1>s. size \in Nat /\ size' = size /\ pipe + unwritten <= size BY <1>1, <1>2, <1>3 DEF PipeOK
<1>a. ASSUME NEW u \in Nat, NEW q \in Nat, NEW c \in Nat, q < c, u > 0,
             NEW m, m = IF u <= c - q THEN u ELSE c - q
      PROVE  /\ u - m \in Nat /\ q + m \in 0 .. c /\ (q + m) + (u - m) = q + u
             /\ q = 0 /\ u <= c => u - m = 0 /\ q + m = u
  BY <1>a
<1>b. /\ unwritten' \in Nat /\ pipe' \in 0 .. CAP /\ pipe' + unwritten' = pipe + unwritten
      /\ pipe = 0 /\ unwritten <= CAP => unwritten' = 0 /\ pipe' = unwritten
  BY <1>1, <1>3, <1>4, <1>a
<1>6. PipeOK'
  <2>1. pipe' + unwritten' <= size' BY <1>b, <1>s
  <2> QED BY <1>1, <1>2, <1>5, <1>b, <2>1 DEF PipeOK
<1>7. FlagsOK' BY <1>1, <1>5 DEF FlagsOK, RunInv
<1>8. ASSUME Fits, Undivided PROVE Undivided'
  <2>1. size <= CAP BY <1>8 DEF Fits
  <2>2. unwritten = size /\ pipe = 0 BY <1>1, <1>8 DEF Undivided
  <2>3. unwritten' = 0 /\ pipe' = size' BY <1>b, <1>s, <2>1, <2>2
  <2> QED BY <2>3 DEF Undivided
<1>9. TreeInv' BY <1>1, TreeStays DEF RunInv
<1>10. AnswerRight' BY <1>1, <1>5, Facts DEF RunInv, AnswerRight
<1> QED BY <1>1, <1>5, <1>6, <1>7, <1>8, <1>9, <1>10, Facts DEF RunInv, Root

(* What a step may change that the invariant says nothing of.              *)
LEMMA QuietStep ==
  ASSUME RunInv, UNCHANGED <<desc, unwritten, pipe, result>>, UNCHANGED <<word, tg, procs, branch, garbled>>,
         FlagsOK', \/ pc' = pc \/ pc' = "gone" \/ (pc = "commit" /\ pc' = "sending")
                   \/ pc \in {"exec", "armed", "checked"} /\ pc' \in {"armed", "checked", "reading"}
  PROVE  RunInv'
<1>1. PipeOK' BY DEF PipeOK, RunInv
<1>2. TreeInv'
  <2>1. ASSUME NEW p \in DOMAIN procs' PROVE Safe(p, procs[p], DOMAIN procs, DOMAIN branch, garbled)'
    <3>1. Safe(p, procs[p], DOMAIN procs, DOMAIN branch, garbled) BY <2>1 DEF TreeInv, RunInv
    <3>2. Safe(p, procs'[p], DOMAIN procs', DOMAIN branch', garbled') BY <3>1
    <3> QED BY <3>2, SafeUnchanged
  <2>2. \A p : Children(p)' = Children(p) BY DEF Children
  <2>3. \A p \in DOMAIN procs' : HasWaited(procs[p])' => \A c \in Children(p)' : procs'[c].status = "ended"
    BY <2>2 DEF HasWaited, TreeInv, RunInv
  <2>4. /\ garbled' \in BOOLEAN /\ DOMAIN branch' \subseteq DOMAIN procs'
        /\ \A c \in DOMAIN branch' : procs'[c].status = "ended" /\ branch'[c] = procs'[c].ret
    BY DEF TreeInv, RunInv
  <2> QED BY <2>1, <2>3, <2>4 DEF TreeInv
<1>3. Fits' <=> Fits BY DEF Fits, SplitLines
<1>4. Undivided' <=> Undivided BY DEF Undivided
<1>5. Loaded' <=> Loaded BY DEF Loaded, Graph
<1>6. Delivered' <=> Delivered BY <1>3 DEF Delivered
<1>7. AllEnded' <=> AllEnded BY DEF AllEnded, Root
<1>8. Answer(Root)' = Answer(Root) BY TreeUnchanged DEF Root
<1>9. AnswerRight' <=> AnswerRight
  <2>1. Accept(desc, desc.q0, word)' = Accept(desc, desc.q0, word) BY DEF Accept, T
  <2> QED BY <1>3, <2>1 DEF AnswerRight
<1>10. result # NONE => pc = "gone" BY DEF RunInv
<1>11. pc' # "gone" => pc # "gone" \/ pc' = pc BY DEF FlagsOK
<1>12. /\ pc' \in {"loaded", "accepting"} => pc' = pc
       /\ pc' = "commit" => pc = "commit"
       /\ pc' = "sending" => pc \in {"commit", "sending"}
  OBVIOUS
<1>13. pc' \in {"exec", "armed", "checked", "reading"} => pc \in {"exec", "armed", "checked", "reading"} OBVIOUS
<1>14. pc' \in NotYetAccepting => pc \in NotYetAccepting BY DEF NotYetAccepting
<1> QED BY <1>1, <1>2, <1>3, <1>4, <1>5, <1>6, <1>7, <1>8, <1>9, <1>10, <1>11, <1>12, <1>13, <1>14
        DEF RunInv, Root

LEMMA QuietActions ==
  RunInv /\ (\/ ServerDies \/ OthersCommit \/ ServerReads \/ Prctl \/ CheckParent \/ EnterRead
             \/ RunFails \/ BlockOnSend \/ RunDies) => RunInv'
<1>1. ASSUME RunInv, ServerDies PROVE RunInv'
  <2>1. /\ UNCHANGED <<desc, unwritten, pipe, result>> /\ UNCHANGED <<word, tg, procs, branch, garbled>>
        /\ alive' = FALSE /\ parent_terminated_sig' \in BOOLEAN /\ deaf' \in BOOLEAN
        /\ budget' = budget /\ full' = full /\ (pc' = pc \/ pc' = "gone")
    BY <1>1 DEF ServerDies, acceptVars
  <2>2. FlagsOK' BY <1>1, <2>1 DEF FlagsOK, RunInv
  <2> QED BY <1>1, <2>1, <2>2, QuietStep
<1>2. ASSUME RunInv, Prctl PROVE RunInv'
  <2>1. FlagsOK' BY <1>2 DEF Prctl, FlagsOK, RunInv, acceptVars, NotYetAccepting
  <2> QED BY <1>2, <2>1, QuietStep DEF Prctl, acceptVars
<1>3. ASSUME RunInv, CheckParent PROVE RunInv'
  <2>1. FlagsOK' BY <1>3 DEF CheckParent, FlagsOK, RunInv, acceptVars, NotYetAccepting
  <2> QED BY <1>3, <2>1, QuietStep DEF CheckParent, acceptVars
<1>4. ASSUME RunInv, EnterRead PROVE RunInv'
  <2>1. FlagsOK' BY <1>4 DEF EnterRead, FlagsOK, RunInv, acceptVars, NotYetAccepting
  <2> QED BY <1>4, <2>1, QuietStep DEF EnterRead, acceptVars
<1>5. ASSUME RunInv, RunFails PROVE RunInv'
  <2>1. FlagsOK' BY <1>5 DEF RunFails, FlagsOK, RunInv, acceptVars
  <2> QED BY <1>5, <2>1, QuietStep DEF RunFails, acceptVars
<1>6. ASSUME RunInv, RunDies PROVE RunInv'
  <2>1. budget \in 0 .. MaxBudget /\ MaxBudget \in Nat BY <1>6, RunAssumption DEF RunInv, FlagsOK
  <2>2. budget' \in 0 .. MaxBudget BY <1>6, <2>1 DEF RunDies
  <2>3. FlagsOK' BY <1>6, <2>2 DEF RunDies, FlagsOK, RunInv
  <2> QED BY <1>6, <2>3, QuietStep DEF RunDies
<1>7. ASSUME RunInv, OthersCommit \/ ServerReads PROVE RunInv'
  <2>1. /\ UNCHANGED <<desc, unwritten, pipe, alive, pc, parent_terminated_sig, result, deaf>>
        /\ UNCHANGED acceptVars /\ full' \in BOOLEAN
    BY <1>7 DEF OthersCommit, ServerReads
  <2>2. FlagsOK' BY <1>7, <2>1 DEF FlagsOK, RunInv, acceptVars
  <2> QED BY <1>7, <2>1, <2>2, QuietStep DEF acceptVars
<1>8. ASSUME RunInv, BlockOnSend PROVE RunInv'
  <2>1. FlagsOK' BY <1>8 DEF BlockOnSend, FlagsOK, RunInv, acceptVars
  <2> QED BY <1>8, <2>1, QuietStep DEF BlockOnSend, acceptVars
<1> QED BY <1>1, <1>2, <1>3, <1>4, <1>5, <1>6, <1>7, <1>8

LEMMA WholeSubSeq ==
  ASSUME NEW S, NEW s \in Seq(S), NEW n \in Nat, n <= Len(s)
  PROVE  SubSeq(s, 1, n) \in Seq(S) /\ (n = Len(s) => SubSeq(s, 1, n) = s)
<1> DEFINE t == SubSeq(s, 1, n)
<1>1. \A i \in 1 .. n : s[i] \in S OBVIOUS
<1>2. t \in Seq(S) /\ Len(t) = n /\ \A i \in 1 .. n : t[i] = s[i] OBVIOUS
<1> HIDE DEF t
<1>3. ASSUME n = Len(s) PROVE t = s
  <2>1. \A i \in 1 .. Len(t) : t[i] = s[i] BY <1>2, <1>3
  <2> QED BY <1>2, <1>3, <2>1, SeqEqual
<1> QED BY <1>2, <1>3 DEF t

LEMMA ReadGraphKeeps == RunInv /\ ReadGraph => RunInv'
<1> SUFFICES ASSUME RunInv, ReadGraph PROVE RunInv' OBVIOUS
<1> DEFINE lines == SubSeq(desc.lines, 1, pipe)
<1>1. /\ pc = "reading" /\ pipe > 0 /\ pipe' = 0
      /\ tg' \in loadTransitionGraph(desc, lines)
      /\ pc' = "loaded" \/ pc' = "gone"
      /\ desc' = desc /\ unwritten' = unwritten /\ alive' = alive /\ result' = result
      /\ deaf' = deaf /\ full' = full
      /\ parent_terminated_sig' = parent_terminated_sig
      /\ word' = word /\ procs' = procs /\ branch' = branch /\ budget' = budget /\ garbled' = garbled
  BY DEF ReadGraph
<1>2. PipeOK /\ FlagsOK BY DEF RunInv
<1>3. desc.lines \in Seq(Line) /\ Len(desc.lines) \in Nat BY <1>2, DescriptionLines DEF PipeOK
<1>4. pipe \in Nat /\ unwritten \in Nat /\ pipe + unwritten <= Len(desc.lines) /\ CAP \in Nat
  BY <1>2, RunAssumption DEF PipeOK
<1>5. pipe <= Len(desc.lines) BY <1>3, <1>4
<1>6. lines \in Seq(Line) /\ (pipe = Len(desc.lines) => lines = desc.lines)
  BY <1>3, <1>4, <1>5, WholeSubSeq
<1>7. Fits => pipe = Len(desc.lines) BY <1>1, <1>4 DEF RunInv, Undivided
<1>8. Fits => ParsesAll(desc.lines) BY DEF Fits, ParsesAll
<1> HIDE DEF lines
<1>9. /\ tg'.q0 = desc.q0 /\ tg'.U = desc.U /\ tg'.accepting = desc.accepting /\ tg'.graph \in Graph
      /\ Fits => \A q \in States, c \in Letters : Range(tg'.graph[q][c]) = T(desc, q, c)
  <2> DEFINE g == tg'
  <2>1. g \in loadTransitionGraph(desc, lines) BY <1>1
  <2> HIDE DEF g
  <2>2. /\ g.q0 = desc.q0 /\ g.U = desc.U /\ g.accepting = desc.accepting /\ g.graph \in Graph
        /\ ParsesAll(lines) /\ desc.lines = lines =>
             \A q \in States, c \in Letters : Range(g.graph[q][c]) = T(desc, q, c)
    BY <1>6, <2>1, Loads
  <2> QED BY <1>6, <1>7, <1>8, <2>2 DEF g
<1>10. Loaded'
  <2>1. desc.q0 \in States /\ desc.U \in Nat /\ desc.accepting \subseteq States /\ word \in Seq(Letters)
    BY <1>2, DescriptionAssumption DEF PipeOK
  <2>2. tg'.graph \in Graph' BY <1>9 DEF Graph
  <2> QED BY <1>1, <1>9, <2>1, <2>2 DEF Loaded
<1>11. Fits' <=> Fits BY <1>1 DEF Fits, SplitLines
<1>12. Delivered' BY <1>1, <1>9, <1>11 DEF Delivered
<1>13. DOMAIN procs' = {} /\ DOMAIN branch' = {} /\ result' = NONE /\ garbled' \in BOOLEAN
  BY <1>1 DEF RunInv, NotYetAccepting, TreeInv
<1>14. TreeInv' BY <1>13 DEF TreeInv
<1>15. PipeOK' BY <1>1, <1>2, <1>4, <1>5 DEF PipeOK
<1>16. FlagsOK' BY <1>1, <1>2 DEF FlagsOK, NotYetAccepting
<1>17. AnswerRight' BY <1>13 DEF AnswerRight
<1> QED BY <1>1, <1>10, <1>12, <1>13, <1>14, <1>15, <1>16, <1>17 DEF RunInv, NotYetAccepting

LEMMA AcceptAsyncKeeps == RunInv /\ AcceptAsync => RunInv'
<1> SUFFICES ASSUME RunInv, AcceptAsync PROVE RunInv' OBVIOUS
<1>1. /\ pc = "loaded" /\ pc' = "accepting"
      /\ procs' = [p \in {Root} |-> Started(Root, 1, 0)]
      /\ desc' = desc /\ unwritten' = unwritten /\ pipe' = pipe /\ alive' = alive /\ result' = result
      /\ deaf' = deaf /\ full' = full /\ parent_terminated_sig' = parent_terminated_sig
      /\ word' = word /\ tg' = tg /\ branch' = branch /\ budget' = budget /\ garbled' = garbled
  BY DEF AcceptAsync
<1>2. PipeOK /\ FlagsOK /\ Loaded /\ Delivered /\ DOMAIN branch = {} /\ garbled \in BOOLEAN
      /\ result = NONE
  BY <1>1 DEF RunInv, NotYetAccepting, TreeInv
<1>3. TreeInv' BY <1>1, <1>2, TreeStarts
<1>4. PipeOK' BY <1>1, <1>2 DEF PipeOK
<1>5. FlagsOK' BY <1>1, <1>2 DEF FlagsOK
<1>6. Loaded' BY <1>1, <1>2 DEF Loaded, Graph
<1>7. Fits' <=> Fits BY <1>1 DEF Fits, SplitLines
<1>8. Delivered' BY <1>1, <1>2, <1>7 DEF Delivered
<1>9. AnswerRight' BY <1>1, <1>2 DEF AnswerRight
<1>10. Root' \in DOMAIN procs' BY <1>1 DEF Root
<1> QED BY <1>1, <1>2, <1>3, <1>4, <1>5, <1>6, <1>8, <1>9, <1>10 DEF RunInv, NotYetAccepting

LEMMA AcceptingKeeps == RunInv /\ (Accepting \/ AcceptanceFaults) => RunInv'
<1> SUFFICES ASSUME RunInv, Accepting \/ AcceptanceFaults PROVE RunInv' OBVIOUS
<1>1. PICK p \in DOMAIN procs :
        \/ Works(p) \/ ForkFails(p) \/ Abort(p)
        \/ \E interrupted \in BOOLEAN : WaitForAll(p, interrupted)
  BY DEF Accepting, AcceptanceFaults
<1>2. /\ pc = "accepting" /\ desc' = desc /\ unwritten' = unwritten /\ pipe' = pipe
      /\ alive' = alive /\ pc' = pc /\ result' = result /\ deaf' = deaf /\ full' = full
      /\ parent_terminated_sig' = parent_terminated_sig
  BY DEF Accepting, AcceptanceFaults, runVars
<1>3. PipeOK /\ FlagsOK /\ TreeInv /\ Loaded /\ Delivered /\ result = NONE /\ Root \in DOMAIN procs
  BY <1>2 DEF RunInv
<1>4. TreeInv' BY <1>1, <1>3, TreeKeeps
<1>5. word' = word /\ tg' = tg
  BY <1>1 DEF Works, ForkSucceeds, LocalValue, Origin, OriginValue, ReadBranch, ReadUnopened,
              AllRead, Report, ForkFails, Abort, WaitForAll
<1>6. budget' \in 0 .. MaxBudget
  <2>1. budget \in 0 .. MaxBudget /\ MaxBudget \in Nat BY <1>3, RunAssumption DEF FlagsOK
  <2>2. budget' = budget \/ (budget > 0 /\ budget' = budget - 1)
    BY <1>1 DEF Works, ForkSucceeds, LocalValue, Origin, OriginValue, ReadBranch, ReadUnopened,
                AllRead, Report, ForkFails, Abort, WaitForAll
  <2> QED BY <2>1, <2>2
<1>7. Root' \in DOMAIN procs'
  <2>1. DOMAIN procs \subseteq DOMAIN procs'
    BY <1>1 DEF Works, ForkSucceeds, LocalValue, Origin, OriginValue, ReadBranch, ReadUnopened,
                AllRead, Report, ForkFails, Abort, WaitForAll, With, Calls, ReturnsFrom, Takes, Put
  <2> QED BY <1>3, <2>1 DEF Root
<1>8. PipeOK' BY <1>2, <1>3, <1>5 DEF PipeOK
<1>9. FlagsOK' BY <1>2, <1>3, <1>6 DEF FlagsOK
<1>10. Loaded' BY <1>3, <1>5 DEF Loaded, Graph
<1>11. Fits' <=> Fits BY <1>2 DEF Fits, SplitLines
<1>12. Delivered' BY <1>2, <1>3, <1>5, <1>11 DEF Delivered
<1>13. AnswerRight' BY <1>2, <1>3 DEF AnswerRight
<1> QED BY <1>2, <1>3, <1>4, <1>7, <1>8, <1>9, <1>10, <1>12, <1>13 DEF RunInv, NotYetAccepting

LEMMA CheckKeeps == RunInv /\ CheckBeforeResult => RunInv'
<1> SUFFICES ASSUME RunInv, CheckBeforeResult PROVE RunInv' OBVIOUS
<1>1. /\ pc = "accepting" /\ procs[Root].stack = <<>> /\ procs[Root].ret # NONE
      /\ pc' = "gone" \/ pc' = "commit"
      /\ desc' = desc /\ unwritten' = unwritten /\ pipe' = pipe /\ alive' = alive /\ result' = result
      /\ deaf' = deaf /\ full' = full /\ parent_terminated_sig' = parent_terminated_sig /\ UNCHANGED acceptVars
  BY DEF CheckBeforeResult, Accepted
<1>2. PipeOK /\ FlagsOK /\ TreeInv /\ Loaded /\ Delivered /\ result = NONE /\ Root \in DOMAIN procs
  BY <1>1 DEF RunInv
<1>3. Safe(Root, procs[Root], DOMAIN procs, DOMAIN branch, garbled) BY <1>2 DEF TreeInv
<1>4. procs[Root].ret \in BOOLEAN /\ (garbled \/ procs[Root].ret = Answer(Root))
  BY <1>1, <1>3 DEF Safe, Processes, Pending
<1>5. AllEnded
  <2> SUFFICES ASSUME NEW p \in DOMAIN procs \ {Root}
               PROVE  procs[p].status = "ended" /\ p \in DOMAIN branch
    BY DEF AllEnded
  <2>1. Safe(p, procs[p], DOMAIN procs, DOMAIN branch, garbled) BY <1>2 DEF TreeInv
  <2>2. IsPrefix(Root, p) BY <2>1, PrefixSelf DEF Safe, IsNode, Root
  <2>3. procs[p].status = "ended" BY <1>1, <1>2, <2>2, Descendants
  <2> QED BY <2>1, <2>3 DEF Safe
<1>6. word' = word /\ tg' = tg /\ procs' = procs /\ branch' = branch /\ garbled' = garbled
      /\ budget' = budget
  BY <1>1 DEF acceptVars
<1>7. TreeInv' BY <1>1, <1>2, TreeStays
<1>8. PipeOK' BY <1>1, <1>2, <1>6 DEF PipeOK
<1>9. FlagsOK' BY <1>1, <1>2, <1>6 DEF FlagsOK
<1>10. Loaded' /\ Delivered' /\ AllEnded' /\ Answer(Root)' = Answer(Root)
  BY <1>1, <1>2, <1>5, Facts
<1>11. AnswerRight' BY <1>1, <1>2 DEF AnswerRight
<1>12. Root' = Root BY DEF Root
<1> QED BY <1>1, <1>2, <1>4, <1>6, <1>7, <1>8, <1>9, <1>10, <1>11, <1>12 DEF RunInv, NotYetAccepting

LEMMA RightAnswer ==
  ASSUME Loaded, Delivered, Fits
  PROVE  Answer(Root) = Accept(desc, desc.q0, word)
<1>1. Len(word) \in Nat /\ tg.U \in Nat BY DEF Loaded
<1>2. \A r \in States, k \in 1 .. Len(word) : Range(tg.graph[r][word[k]]) = T(desc, r, word[k])
  <2> TAKE r \in States, k \in 1 .. Len(word)
  <2>1. word[k] \in Letters BY ElementOfSeq DEF Loaded
  <2> QED BY <2>1 DEF Delivered
<1>3. tg.accepting = desc.accepting /\ tg.U = desc.U /\ desc.U \in Nat /\ tg.q0 = desc.q0
  BY <1>1 DEF Delivered
<1>4. acceptSync_rec(tg, word, desc.q0, 0) <=> Accept(desc, desc.q0, word)
  BY <1>1, <1>2, <1>3, SameAnswer
<1>5. StateAt(Root) = desc.q0 /\ Len(Root) = 0 BY <1>3, StateAtRoot DEF Root
<1>6. Answer(Root) = acceptSync_rec(tg, word, desc.q0, 0) BY <1>5 DEF Answer
<1>7. Accept(desc, desc.q0, word) \in BOOLEAN BY DEF Accept
<1> QED BY <1>4, <1>6, <1>7, AnswerIsBoolean

LEMMA CommitKeeps == RunInv /\ CommitResult => RunInv'
<1> SUFFICES ASSUME RunInv, CommitResult PROVE RunInv' OBVIOUS
<1>1. /\ pc \in {"commit", "sending"} /\ pc' = "gone" /\ result' = procs[Root].ret
      /\ desc' = desc /\ unwritten' = unwritten /\ pipe' = pipe /\ alive' = alive
      /\ deaf' = deaf /\ full' = full /\ parent_terminated_sig' = parent_terminated_sig /\ UNCHANGED acceptVars
  BY DEF CommitResult
<1>2. /\ PipeOK /\ FlagsOK /\ TreeInv /\ Loaded /\ Delivered /\ Root \in DOMAIN procs /\ AllEnded
      /\ procs[Root].ret \in BOOLEAN /\ (garbled \/ procs[Root].ret = Answer(Root))
  BY <1>1 DEF RunInv
<1>3. word' = word /\ budget' = budget /\ garbled' = garbled BY <1>1 DEF acceptVars
<1>4. TreeInv' BY <1>1, <1>2, TreeStays
<1>5. PipeOK' BY <1>1, <1>2, <1>3 DEF PipeOK
<1>6. FlagsOK' BY <1>1, <1>2, <1>3 DEF FlagsOK
<1>7. AllEnded' BY <1>1, <1>2, Facts
<1>8. AnswerRight'
  <2>1. Fits /\ ~ garbled => procs[Root].ret = Accept(desc, desc.q0, word) BY <1>2, RightAnswer
  <2>2. (Fits <=> Fits') /\ Accept(desc, desc.q0, word)' = Accept(desc, desc.q0, word)
    BY <1>1, Facts
  <2> QED BY <1>1, <1>3, <2>1, <2>2 DEF AnswerRight
<1> QED BY <1>1, <1>4, <1>5, <1>6, <1>7, <1>8 DEF RunInv, NotYetAccepting

LEMMA RunNext_Inv == RunInv /\ [RunNext]_<<runVars, acceptVars>> => RunInv'
<1>1. ASSUME RunInv, UNCHANGED <<runVars, acceptVars>> PROVE RunInv'
  <2>1. FlagsOK' BY <1>1 DEF runVars, acceptVars, FlagsOK, RunInv
  <2> QED BY <1>1, <2>1, QuietStep DEF runVars, acceptVars
<1> QED BY <1>1, PushGraphKeeps, QuietActions, ReadGraphKeeps, AcceptAsyncKeeps, AcceptingKeeps,
           CheckKeeps, CommitKeeps
        DEF RunNext, RunSteps

LEMMA RunAlways == RunSpec => []RunInv
BY RunInit_Inv, RunNext_Inv, PTL DEF RunSpec

-----------------------------------------------------------------------------
(* The theorems.                                                           *)

THEOREM RunTypeCorrect == RunSpec => []RunTypeOK
<1>1. RunInv => RunTypeOK
  <2> SUFFICES ASSUME RunInv PROVE RunTypeOK OBVIOUS
  <2>1. PipeOK /\ FlagsOK /\ TreeInv BY DEF RunInv
  <2>2. unwritten \in 0 .. Len(desc.lines)
    <3>1. Len(desc.lines) \in Nat BY <2>1, DescriptionLines DEF PipeOK
    <3>2. CAP \in Nat BY RunAssumption
    <3> QED BY <2>1, <3>1, <3>2 DEF PipeOK
  <2>3. ASSUME NEW p \in DOMAIN procs
        PROVE  /\ procs[p].status \in {"running", "ended", "failed", "hung"}
               /\ procs[p].ret \in BOOLEAN \cup {NONE}
               /\ \A k \in DOMAIN procs[p].stack :
                    procs[p].stack[k].ph \in {"fork", "local", "origin", "wait", "read"}
    <3>1. procs[p] \in Processes BY <2>1, <2>3 DEF TreeInv, Safe
    <3>2. procs[p].stack \in Seq(Frames) BY <3>1 DEF Processes
    <3>3. ASSUME NEW k \in DOMAIN procs[p].stack PROVE procs[p].stack[k].ph \in Phases
      <4>1. procs[p].stack[k] \in Frames BY <3>2, <3>3
      <4> QED BY <4>1 DEF Frames
    <3> QED BY <3>1, <3>3 DEF Processes, Phases
  <2> QED BY <2>1, <2>2, <2>3 DEF RunTypeOK, PipeOK, FlagsOK, TreeInv, NotYetAccepting
<1> QED BY <1>1, RunAlways, PTL

THEOREM AnswerIsRight == RunSpec => []AnswerRight
<1>1. RunInv => AnswerRight BY DEF RunInv
<1> QED BY <1>1, RunAlways, PTL

THEOREM NoFailureLost == RunSpec => []NoBranchLost
<1>1. RunInv => NoBranchLost BY DEF RunInv, AllEnded, NoBranchLost
<1> QED BY <1>1, RunAlways, PTL

-----------------------------------------------------------------------------
(* How often a process forks itself.                                       *)

(* Values that are bounded have a greatest one, and so have finitely many.  *)
LEMMA Greatest ==
  ASSUME NEW S \in SUBSET Nat, S # {}, NEW b \in Nat, \A x \in S : x <= b
  PROVE  Max(S) \in S /\ \A x \in S : x <= Max(S)
<1> DEFINE U == {u \in Nat : \A x \in S : x <= u}
<1>1. U \in SUBSET Nat /\ b \in U OBVIOUS
<1>2. PICK m \in U : \A u \in U : m <= u
  <2> HIDE DEF U
  <2> QED BY <1>1, LeastNat
<1>3. m \in S
  <2> SUFFICES ASSUME m \notin S PROVE FALSE OBVIOUS
  <2>1. PICK x \in S : TRUE OBVIOUS
  <2>2. m \in Nat /\ \A y \in S : y \in Nat /\ y <= m /\ y # m BY <1>2
  <2>3. m - 1 \in Nat /\ \A y \in S : y <= m - 1 BY <2>1, <2>2
  <2>4. m <= m - 1 BY <1>2, <2>3
  <2> QED BY <2>2, <2>4
<1>4. \A x \in S : m >= x BY <1>2
<1>5. Max(S) \in S /\ \A x \in S : Max(S) >= x BY <1>3, <1>4 DEF Max
<1> QED BY <1>5

LEMMA FiniteIsBounded ==
  ASSUME NEW S, IsFiniteSet(S), NEW f, \A x \in S : f[x] \in Nat
  PROVE  \E b \in Nat : \A x \in S : f[x] <= b
<1> DEFINE n == Cardinality(S)
<1>1. n \in Nat /\ ExistsBijection(1 .. n, S) BY FS_CardinalityType
<1>2. PICK g \in Bijection(1 .. n, S) : TRUE BY <1>1 DEF ExistsBijection
<1>3. g \in [1 .. n -> S] /\ \A x \in S : \E k \in 1 .. n : g[k] = x
  BY <1>2 DEF Bijection, Surjection
<1> HIDE DEF n
<1> DEFINE B == {m \in Nat : m <= n => \E b \in Nat : \A k \in 1 .. m : f[g[k]] <= b}
<1>4. 0 \in B
  <2>1. \A k \in 1 .. 0 : f[g[k]] <= 0 OBVIOUS
  <2> QED BY <2>1
<1>5. ASSUME NEW m \in Nat, m \in B PROVE m + 1 \in B
  <2> SUFFICES ASSUME m + 1 <= n PROVE \E b \in Nat : \A k \in 1 .. (m + 1) : f[g[k]] <= b
    OBVIOUS
  <2>1. m <= n BY <1>1
  <2>2. PICK b \in Nat : \A k \in 1 .. m : f[g[k]] <= b BY <1>5, <2>1
  <2>3. f[g[m + 1]] \in Nat
    <3>1. m + 1 \in 1 .. n BY <1>1
    <3> QED BY <1>3, <3>1
  <2>4. ASSUME NEW k \in 1 .. (m + 1) PROVE f[g[k]] <= b + f[g[m + 1]]
    <3>1. CASE k = m + 1 BY <2>3, <3>1
    <3>2. CASE k # m + 1
      <4>1. k \in 1 .. m /\ k \in 1 .. n BY <1>1, <3>2
      <4>2. f[g[k]] \in Nat BY <1>3, <4>1
      <4> QED BY <2>2, <2>3, <4>1, <4>2
    <3> QED BY <3>1, <3>2
  <2>5. b + f[g[m + 1]] \in Nat BY <2>3
  <2> QED BY <2>4, <2>5
<1>6. Nat \subseteq B
  <2> HIDE DEF B
  <2> QED BY <1>4, <1>5, NatInductive
<1>7. n \in B BY <1>1, <1>6
<1>8. PICK b \in Nat : \A k \in 1 .. n : f[g[k]] <= b BY <1>1, <1>7
<1>9. \A x \in S : f[x] <= b BY <1>3, <1>8
<1> QED BY <1>9

Widest == Max({Len(tg.graph[q][a]) : q \in States, a \in Letters} \cup {1})

LEMMA WidestBounds ==
  ASSUME Loaded
  PROVE  /\ Widest \in Nat /\ Widest >= 1
         /\ \A node : Inner(node) => BranchCount(node) <= Widest
<1> DEFINE width == [q \in States |-> [a \in Letters |-> Len(tg.graph[q][a])]]
           bound == [q \in States |-> CHOOSE b \in Nat : \A a \in Letters : width[q][a] <= b]
           W == {Len(tg.graph[q][a]) : q \in States, a \in Letters} \cup {1}
<1>1. IsFiniteSet(States) /\ IsFiniteSet(Letters) BY DescriptionAssumption
<1>2. \A q \in States, a \in Letters : Len(tg.graph[q][a]) \in Nat
  <2> TAKE q \in States, a \in Letters
  <2>1. tg.graph[q][a] \in Seq(States) BY DEF Loaded, Graph
  <2> QED BY <2>1
<1>3. \A q \in States, a \in Letters : width[q][a] = Len(tg.graph[q][a]) /\ width[q][a] \in Nat
  BY <1>2
<1>4. ASSUME NEW q \in States
      PROVE  bound[q] \in Nat /\ \A a \in Letters : width[q][a] <= bound[q]
  <2> DEFINE h == width[q]
  <2>1. \A a \in Letters : h[a] \in Nat BY <1>3
  <2> HIDE DEF h
  <2>2. \E b \in Nat : \A a \in Letters : h[a] <= b BY <1>1, <2>1, FiniteIsBounded
  <2>3. bound[q] = CHOOSE b \in Nat : \A a \in Letters : h[a] <= b BY DEF h
  <2> HIDE DEF bound
  <2>4. bound[q] \in Nat /\ \A a \in Letters : h[a] <= bound[q] BY <2>2, <2>3
  <2> QED BY <2>4 DEF h
<1> HIDE DEF width, bound
<1>5. PICK b \in Nat : \A q \in States : bound[q] <= b BY <1>1, <1>4, FiniteIsBounded
<1>6. ASSUME NEW q \in States, NEW a \in Letters PROVE Len(tg.graph[q][a]) <= b
  BY <1>3, <1>4, <1>5
<1>7. W \in SUBSET Nat /\ 1 \in W BY <1>2
<1>8. \A x \in W : x <= b + 1
  <2> TAKE x \in W
  <2>1. CASE x = 1 BY <2>1
  <2>2. CASE x # 1
    <3>1. PICK q \in States, a \in Letters : x = Len(tg.graph[q][a]) BY <2>2
    <3> QED BY <1>2, <1>6, <3>1
  <2> QED BY <2>1, <2>2
<1>9. \A q \in States, a \in Letters : Len(tg.graph[q][a]) \in W OBVIOUS
<1>10. Widest = Max(W) BY DEF Widest
<1> HIDE DEF W
<1>11. Widest \in W /\ \A x \in W : x <= Widest
  <2>1. b + 1 \in Nat OBVIOUS
  <2> QED BY <1>7, <1>8, <1>10, <2>1, Greatest
<1>12. ASSUME NEW node, Inner(node) PROVE BranchCount(node) <= Widest
  <2>1. Len(node) \in Nat /\ Len(word) \in Nat /\ StateAt(node) \in States /\ Len(node) < Len(word)
    BY <1>12 DEF Inner, IsNode, Node, Loaded
  <2>2. word[Len(node) + 1] \in Letters BY <2>1, ElementOfSeq DEF Loaded
  <2> QED BY <1>9, <1>11, <2>1, <2>2 DEF BranchCount
<1> QED BY <1>7, <1>11, <1>12

(* A process whose children are C and whose stack is s: as long as it forks  *)
(* for a node, fork_count accounts for all its forks, those to come included. *)
Counts(C, s) ==
  /\ IsFiniteSet(C) /\ Cardinality(C) <= RUN_FORK_LIMIT + Widest - 1
  /\ \A k \in 1 .. Len(s) : s[k].ph # "local"
  /\ s # <<>> /\ Last(s).ph = "fork" =>
       /\ Cardinality(C) + BranchCount(Last(s).node) - Last(s).i <= Last(s).fork_count
       /\ Last(s).fork_count <= RUN_FORK_LIMIT + BranchCount(Last(s).node) - 1

Counted == \A p \in DOMAIN procs : Counts(Children(p), procs[p].stack)

CountInv == budget = MaxBudget => Counted

LEMMA CountsUnchanged ==
  ASSUME tg' = tg, word' = word, NEW C, NEW s
  PROVE  Counts(C, s)' <=> Counts(C, s)
<1>1. Widest' = Widest BY DEF Widest
<1>2. s # <<>> => BranchCount(Last(s).node)' = BranchCount(Last(s).node) BY TreeUnchanged
<1> QED BY <1>1, <1>2 DEF Counts

(* A step that gives no process a child.                                   *)
LEMMA CountsKeep ==
  ASSUME Counted, tg' = tg, word' = word, NEW p \in DOMAIN procs,
         DOMAIN procs' = DOMAIN procs, \A q \in DOMAIN procs \ {p} : procs'[q] = procs[q],
         Counts(Children(p), procs'[p].stack)
  PROVE  Counted'
<1>1. \A q : Children(q)' = Children(q) BY DEF Children
<1>2. ASSUME NEW q \in DOMAIN procs' PROVE Counts(Children(q), procs[q].stack)'
  <2>1. Counts(Children(q), procs'[q].stack)
    <3>1. CASE q = p BY <3>1
    <3>2. CASE q # p BY <3>2 DEF Counted
    <3> QED BY <3>1, <3>2
  <2>2. Counts(Children(q)', procs'[q].stack) BY <1>1, <2>1
  <2> QED BY <2>2, CountsUnchanged
<1> QED BY <1>2 DEF Counted

(* The last frame of a stack is replaced by g.                             *)
LEMMA NoLocal ==
  ASSUME NEW s \in Seq(Frames), \A k \in 1 .. Len(s) : s[k].ph # "local", s # <<>>,
         NEW g \in Frames, g.ph # "local"
  PROVE  /\ Append(Front(s), g) \in Seq(Frames)
         /\ Append(Front(s), g) # <<>> /\ Last(Append(Front(s), g)) = g
         /\ \A k \in 1 .. Len(Append(Front(s), g)) : Append(Front(s), g)[k].ph # "local"
<1> DEFINE t == Append(Front(s), g)
           n == Len(s)
<1>1. /\ n \in Nat /\ n >= 1
      /\ Front(s) \in Seq(Frames) /\ Len(Front(s)) = n - 1
      /\ \A k \in 1 .. (n - 1) : Front(s)[k] = s[k]
  BY FrontLast
<1>2. /\ t \in Seq(Frames) /\ t # <<>> /\ Len(t) = n - 1 + 1
      /\ \A k \in 1 .. (n - 1) : t[k] = Front(s)[k]
      /\ t[n - 1 + 1] = g
  BY <1>1, AppendProperties
<1>3. Len(t) = n /\ t[n] = g /\ \A k \in 1 .. (n - 1) : t[k] = s[k] BY <1>1, <1>2
<1>4. \A k \in 1 .. n : s[k].ph # "local" OBVIOUS
<1> HIDE DEF t, n
<1>5. ASSUME NEW k \in 1 .. n PROVE t[k].ph # "local"
  <2>1. CASE k = n BY <1>3, <2>1
  <2>2. CASE k # n
    <3>1. k \in 1 .. (n - 1) BY <1>1, <2>2
    <3> QED BY <1>3, <1>4, <3>1
  <2> QED BY <2>1, <2>2
<1>6. Last(t) = g BY <1>3 DEF Last
<1> QED BY <1>2, <1>3, <1>5, <1>6 DEF t

LEMMA CountsLater ==
  ASSUME NEW C, NEW s \in Seq(Frames), Counts(C, s), s # <<>>,
         NEW g \in Frames, g.ph \notin {"fork", "local"}
  PROVE  Counts(C, Append(Front(s), g))
BY NoLocal DEF Counts

LEMMA CountsReturn ==
  ASSUME NEW C, NEW p, NEW s, NEW D, NEW B, NEW junk, StackSafe(p, s, D, B, junk),
         Counts(C, s), s # <<>>
  PROVE  Counts(C, Front(s))
<1> DEFINE t == Front(s)
           n == Len(s)
<1>1. s \in Seq(Frames) BY DEF StackSafe
<1>2. /\ n \in Nat /\ n >= 1 /\ Len(t) = n - 1 /\ \A k \in 1 .. (n - 1) : t[k] = s[k]
  BY <1>1, FrontLast
<1>3. t # <<>> => Last(t).ph \in {"local", "origin"} BY StackLeft
<1>4. \A k \in 1 .. n : s[k].ph # "local" BY DEF Counts
<1> HIDE DEF t, n
<1>5. ASSUME NEW k \in 1 .. Len(t) PROVE t[k].ph # "local"
  <2>1. k \in 1 .. n /\ k \in 1 .. (n - 1) BY <1>2
  <2> QED BY <1>2, <1>4, <2>1
<1>6. t # <<>> => Last(t).ph # "fork" BY <1>3
<1>7. Counts(C, t) BY <1>5, <1>6 DEF Counts
<1> QED BY <1>7 DEF t

(* acceptAsync_rec starts to fork only when the forks counted so far allow it. *)
LEMMA CalledCounts ==
  ASSUME NEW C, NEW s \in Seq(Frames), Counts(C, s), s # <<>> => Last(s).ph # "fork",
         NEW node \in Node, NEW load \in Nat, NEW forks \in Nat,
         Cardinality(C) <= forks, Len(node) < Len(word) => BranchCount(node) \in Nat
  PROVE  Counts(C, acceptAsync_rec(s, node, load, forks).stack)
<1> DEFINE r == acceptAsync_rec(s, node, load, forks)
           h == [node |-> node, workload |-> load + 1,
                 fork_count |-> forks + BranchCount(node) - 1,
                 ph |-> "fork", i |-> 1, value |-> NONE, opened_state |-> {}]
           t == Append(s, h)
<1>1. \/ r.stack = s
      \/ /\ ~ (Len(node) >= Len(word)) /\ ~ (forks > RUN_FORK_LIMIT) /\ ~ (BranchCount(node) <= 0)
         /\ r.stack = t
  BY DEF acceptAsync_rec, Overloaded
<1> HIDE DEF r
<1>2. CASE r.stack = s BY <1>2 DEF r
<1>3. CASE /\ ~ (Len(node) >= Len(word)) /\ ~ (forks > RUN_FORK_LIMIT) /\ ~ (BranchCount(node) <= 0)
           /\ r.stack = t
  <2>1. h.ph = "fork" /\ h.i = 1 /\ h.node = node /\ h.fork_count = forks + BranchCount(node) - 1
    OBVIOUS
  <2>2. Len(s) \in Nat /\ \A k \in 1 .. Len(s) : s[k].ph # "local" BY DEF Counts
  <2>3. /\ t # <<>> /\ Len(t) = Len(s) + 1
        /\ \A k \in 1 .. Len(s) : t[k] = s[k]
        /\ t[Len(s) + 1] = h
    <3> DEFINE S == Frames \cup {h}
    <3>1. s \in Seq(S) /\ h \in S OBVIOUS
    <3> HIDE DEF S, h
    <3>2. /\ t \in Seq(S) /\ t # <<>> /\ Len(t) = Len(s) + 1
          /\ \A k \in 1 .. Len(s) : t[k] = s[k]
          /\ t[Len(s) + 1] = h
      BY <3>1, AppendProperties
    <3> QED BY <3>2
  <2> HIDE DEF t, h
  <2>4. Last(t) = h BY <2>3 DEF Last
  <2>5. ASSUME NEW k \in 1 .. Len(t) PROVE t[k].ph # "local"
    <3>1. CASE k = Len(s) + 1 BY <2>1, <2>3, <3>1
    <3>2. CASE k # Len(s) + 1
      <4>1. k \in 1 .. Len(s) BY <2>2, <2>3, <3>2
      <4> QED BY <2>2, <2>3, <4>1
    <3> QED BY <3>1, <3>2
  <2>6. BranchCount(node) \in Nat /\ RUN_FORK_LIMIT \in Nat
    <3>1. Len(node) < Len(word) \/ Len(node) >= Len(word) BY DEF Node
    <3> QED BY <1>3, AcceptanceAssumption
  <2>7. IsFiniteSet(C) /\ Cardinality(C) \in Nat BY FS_CardinalityType DEF Counts
  <2>8. /\ Cardinality(C) + BranchCount(node) - 1 <= forks + BranchCount(node) - 1
        /\ forks + BranchCount(node) - 1 <= RUN_FORK_LIMIT + BranchCount(node) - 1
    BY <1>3, <2>6, <2>7
  <2>9. Counts(C, t) BY <2>1, <2>4, <2>5, <2>8 DEF Counts
  <2> QED BY <1>3, <2>9 DEF r
<1> QED BY <1>1, <1>2, <1>3

(* The steps of a process, for as long as no fork has failed.              *)
LEMMA TurnCounts ==
  ASSUME Counted, TreeInv, NEW p \in DOMAIN procs, NEW s, NEW v, procs' = Turned(p, s, v),
         tg' = tg, word' = word, Counts(Children(p), s)
  PROVE  Counted'
<1> DEFINE r == [stack |-> s, ret |-> v, status |-> procs[p].status]
<1>1. procs[p] \in Processes BY DEF TreeInv, Safe
<1>2. Moves(procs', p, r) BY <1>1, TurnedMoves
<1>3. r.stack = s OBVIOUS
<1> HIDE DEF r
<1>4. DOMAIN procs' = DOMAIN procs /\ \A q \in DOMAIN procs \ {p} : procs'[q] = procs[q]
  BY <1>2 DEF Moves
<1>5. Counts(Children(p), procs'[p].stack) BY <1>2, <1>3 DEF Moves
<1> QED BY <1>4, <1>5, CountsKeep

LEMMA EndCounts ==
  ASSUME Counted, TreeInv, NEW p \in DOMAIN procs, NEW st,
         procs' = [procs EXCEPT ![p].status = st], tg' = tg, word' = word
  PROVE  Counted'
<1> DEFINE r == [stack |-> procs[p].stack, ret |-> procs[p].ret, status |-> st]
<1>1. procs[p] \in Processes BY DEF TreeInv, Safe
<1>2. Moves(procs', p, r) BY <1>1, EndMoves
<1>3. r.stack = procs[p].stack OBVIOUS
<1> HIDE DEF r
<1>4. DOMAIN procs' = DOMAIN procs /\ \A q \in DOMAIN procs \ {p} : procs'[q] = procs[q]
  BY <1>2 DEF Moves
<1>5. Counts(Children(p), procs'[p].stack) BY <1>2, <1>3 DEF Moves, Counted
<1> QED BY <1>4, <1>5, CountsKeep

LEMMA LaterCounts ==
  ASSUME Counted, TreeInv, NEW p \in DOMAIN procs, procs[p].stack # <<>>,
         NEW g \in Frames, g.ph \notin {"fork", "local"},
         procs' = With(p, g), tg' = tg, word' = word
  PROVE  Counted'
<1>1. procs[p].stack \in Seq(Frames) BY DEF TreeInv, Safe, Processes
<1>2. Counts(Children(p), procs[p].stack) BY DEF Counted
<1>3. Counts(Children(p), Append(Front(procs[p].stack), g)) BY <1>1, <1>2, CountsLater
<1>4. procs' = Turned(p, Append(Front(procs[p].stack), g), NONE) BY StepsTurn
<1> QED BY <1>3, <1>4, TurnCounts

LEMMA ReturnCounts ==
  ASSUME Counted, TreeInv, NEW p \in DOMAIN procs, procs[p].stack # <<>>, NEW v,
         procs' = ReturnsFrom(p, v), tg' = tg, word' = word
  PROVE  Counted'
<1>1. StackSafe(p, procs[p].stack, DOMAIN procs, DOMAIN branch, garbled) BY DEF TreeInv, Safe
<1>2. Counts(Children(p), procs[p].stack) BY DEF Counted
<1>3. Counts(Children(p), Front(procs[p].stack)) BY <1>1, <1>2, CountsReturn
<1>4. procs' = Turned(p, Front(procs[p].stack), v) BY StepsTurn
<1> QED BY <1>3, <1>4, TurnCounts

LEMMA NoLocalFrame ==
  ASSUME Counted, TreeInv, NEW p \in DOMAIN procs, procs[p].stack # <<>>
  PROVE  Last(procs[p].stack).ph # "local"
<1>1. procs[p].stack \in Seq(Frames) BY DEF TreeInv, Safe, Processes
<1>2. Counts(Children(p), procs[p].stack) BY DEF Counted
<1> DEFINE n == Len(procs[p].stack)
<1>3. n \in Nat /\ n >= 1 /\ Last(procs[p].stack) = procs[p].stack[n] BY <1>1, FrontLast
<1>4. \A k \in 1 .. n : procs[p].stack[k].ph # "local" BY <1>2 DEF Counts
<1> HIDE DEF n
<1>5. n \in 1 .. n BY <1>3
<1> QED BY <1>3, <1>4, <1>5

LEMMA OriginCounts ==
  ASSUME Loaded, Counted, TreeInv, NEW p \in DOMAIN procs, Origin(p)
  PROVE  Counted'
<1> DEFINE f == Frame(p)
           g == [f EXCEPT !.ph = "origin"]
           s == procs[p].stack
           t == Append(Front(s), g)
           C == Children(p)
           node == Append(f.node, 0)
           x == acceptAsync_rec(t, node, f.workload, g.fork_count)
<1>1. /\ InNode(p, "fork", FALSE) /\ tg' = tg /\ word' = word
      /\ f.i = BranchCount(f.node) /\ procs' = Calls(p, g, node, f.workload)
  BY DEF Origin
<1>2. /\ s # <<>> /\ f \in Frames /\ f.ph = "fork" /\ f = Last(s)
      /\ FrameSafe(p, f, DOMAIN procs, DOMAIN branch)
  BY <1>1, Working
<1>3. s \in Seq(Frames) BY DEF TreeInv, Safe, Processes
<1>4. Becomes(g, f, "origin", f.i, f.value) BY <1>2, FrameFields DEF Phases
<1>5. g \in Frames /\ g.ph = "origin" /\ g.fork_count = f.fork_count BY <1>4 DEF Becomes
<1>6. Counts(C, s) BY DEF Counted
<1>7. procs' = Turned(p, x.stack, x.ret) BY <1>1 DEF Calls, Turned
<1>8. f.node \in Node /\ f.workload \in Nat /\ f.fork_count \in Nat /\ f.i \in Nat
  BY <1>2 DEF Frames
<1>9. node \in Node /\ (Len(node) < Len(word) => BranchCount(node) \in Nat)
  <2>1. node \in Node BY <1>8, AppendNode
  <2>2. Inner(f.node) /\ BranchCount(f.node) \in Nat /\ f.i \in 1 .. BranchCount(f.node)
    BY <1>2, BranchesAreNodes DEF FrameSafe
  <2>3. IsNode(node)
    <3>1. 0 \in 0 .. (BranchCount(f.node) - 1) BY <1>8, <2>2
    <3> QED BY <2>2, <3>1, BranchesAreNodes
  <2>4. Len(node) < Len(word) => Inner(node) BY <2>3 DEF Inner
  <2> QED BY <2>1, <2>4, BranchesAreNodes
<1>10. Cardinality(C) <= f.fork_count
  <2>1. Cardinality(C) + BranchCount(f.node) - f.i <= f.fork_count BY <1>2, <1>6 DEF Counts
  <2>2. Cardinality(C) \in Nat BY <1>6, FS_CardinalityType DEF Counts
  <2> QED BY <1>1, <1>8, <2>1, <2>2
<1> HIDE DEF g, f, s, C, node
<1>11. t \in Seq(Frames) /\ t # <<>> /\ Last(t) = g
  BY <1>2, <1>3, <1>5, <1>6, NoLocal DEF Counts
<1>12. Counts(C, t) BY <1>2, <1>3, <1>5, <1>6, CountsLater
<1> HIDE DEF t
<1>13. Counts(C, x.stack) BY <1>5, <1>8, <1>9, <1>10, <1>11, <1>12, CalledCounts
<1> HIDE DEF x
<1> QED BY <1>1, <1>7, <1>13, TurnCounts DEF C

(* A fork gives the process one child, and no other process any.           *)
LEMMA OneChild ==
  ASSUME Loaded, TreeInv, NEW p \in DOMAIN procs, ForkSucceeds(p),
         NEW c, c = Append(Frame(p).node, Frame(p).i)
  PROVE  /\ DOMAIN procs' = DOMAIN procs \cup {c}
         /\ procs'[p].stack = Append(Front(procs[p].stack), Forking(Frame(p)))
         /\ procs'[c] = Started(c, 0, Frame(p).fork_count)
         /\ \A q \in DOMAIN procs \ {p} : procs'[q] = procs[q]
         /\ Children(p)' \subseteq Children(p) \cup {c}
         /\ Children(c)' \subseteq {}
         /\ \A q \in DOMAIN procs \ {p} : Children(q)' \subseteq Children(q)
<1> DEFINE f == Frame(p)
           s == procs[p].stack
           g == Forking(f)
           new == Started(c, 0, f.fork_count)
           t == Append(Front(s), g)
           r == [stack |-> t, ret |-> NONE, status |-> procs[p].status]
           D == DOMAIN procs
           B == DOMAIN branch
           E == D \cup {c}
<1>1. /\ InNode(p, "fork", FALSE) /\ c = Append(f.node, f.i)
      /\ f.i < BranchCount(f.node) /\ procs' = Put(With(p, g), c, new)
  BY DEF ForkSucceeds, Forking
<1>2. /\ procs[p] \in Processes /\ f \in Frames /\ f.ph = "fork" /\ FrameSafe(p, f, D, B)
  BY <1>1, Working
<1>3. D \subseteq Node BY DEF TreeInv, Safe, IsNode
<1>4. c \in Node /\ \A o \in D : ~ IsPrefix(c, o)
  <2>1. c = Append(f.node, f.i) OBVIOUS
  <2> HIDE DEF f
  <2> QED BY <1>1, <1>2, <1>3, <2>1, ForkedSafe
<1>5. c \notin D BY <1>4, PrefixSelf
<1>6. With(p, g) = Turned(p, t, NONE) BY StepsTurn
<1>7. Moves(With(p, g), p, r) BY <1>2, <1>6, TurnedMoves
<1>8. r.stack = t OBVIOUS
<1> HIDE DEF g, new, r, t
<1>9. /\ DOMAIN procs' = E /\ procs'[p] = r /\ procs'[c] = new
      /\ \A q \in D \ {p} : procs'[q] = procs[q]
  BY <1>1, <1>5, <1>7 DEF Moves, Put
<1>10. ASSUME NEW q \in E, NEW x \in Children(q)'
       PROVE  /\ x \in E /\ x # q /\ IsPrefix(q, x)
              /\ \A o \in E : IsPrefix(o, x) /\ o # x => IsPrefix(o, q)
  BY <1>9 DEF Children
<1>11. Children(c)' \subseteq {}
  <2> SUFFICES ASSUME NEW x \in Children(c)' PROVE FALSE OBVIOUS
  <2>1. x \in E /\ x # c /\ IsPrefix(c, x) BY <1>10
  <2> QED BY <1>4, <2>1
<1>12. ASSUME NEW q \in D, NEW x \in Children(q)', x # c PROVE x \in Children(q)
  <2>1. x \in D BY <1>10, <1>12
  <2> QED BY <1>10, <1>12, <2>1 DEF Children
<1>13. ASSUME NEW q \in D \ {p} PROVE c \notin Children(q)'
  <2> SUFFICES ASSUME c \in Children(q)' PROVE FALSE OBVIOUS
  <2>1. IsPrefix(p, f.node) /\ f.node \in Node /\ f.i \in Nat BY <1>2 DEF FrameSafe, Frames
  <2>2. IsPrefix(p, c)
    <3>1. IsPrefix(f.node, c) BY <1>1, <2>1, AppendNode
    <3> QED BY <1>3, <1>4, <2>1, <3>1, PrefixTransitive
  <2>3. c # q /\ IsPrefix(q, c) /\ (p # c => IsPrefix(p, q))
    <3>1. q \in E /\ p \in E OBVIOUS
    <3> HIDE DEF E
    <3>2. c # q /\ IsPrefix(q, c) /\ \A o \in E : IsPrefix(o, c) /\ o # c => IsPrefix(o, q)
      BY <1>10, <3>1
    <3> QED BY <2>2, <3>1, <3>2
  <2>4. IsPrefix(p, q) BY <1>5, <2>3
  <2>5. IsPrefix(q, f.node) BY <1>1, <1>3, <2>1, <2>3, PrefixOfAppend
  <2>6. IsPrefix(q, p) BY <1>2, <2>5 DEF FrameSafe, FrameAlone
  <2> QED BY <1>3, <2>4, <2>6, PrefixEqual, Prefix
<1>14. Children(p)' \subseteq Children(p) \cup {c} BY <1>12
<1>15. \A q \in D \ {p} : Children(q)' \subseteq Children(q) BY <1>12, <1>13
<1> QED BY <1>8, <1>9, <1>11, <1>14, <1>15, Zenon DEF f, g, new, t, s, D, E

LEMMA CountsFewer ==
  ASSUME NEW C, NEW s, Counts(C, s), NEW D, D \subseteq C,
         RUN_FORK_LIMIT + Widest - 1 \in Int,
         s # <<>> /\ Last(s).ph = "fork" =>
           /\ BranchCount(Last(s).node) \in Nat
           /\ Last(s).i \in Nat /\ Last(s).fork_count \in Nat
  PROVE  Counts(D, s)
<1>1. IsFiniteSet(C) BY DEF Counts
<1>2. IsFiniteSet(D) /\ Cardinality(D) <= Cardinality(C) BY <1>1, FS_Subset
<1>3. Cardinality(C) \in Nat /\ Cardinality(D) \in Nat BY <1>1, <1>2, FS_CardinalityType
<1>4. Cardinality(D) <= RUN_FORK_LIMIT + Widest - 1 BY <1>2, <1>3 DEF Counts
<1>5. ASSUME s # <<>>, Last(s).ph = "fork"
      PROVE  Cardinality(D) + BranchCount(Last(s).node) - Last(s).i <= Last(s).fork_count
  <2>1. Cardinality(C) + BranchCount(Last(s).node) - Last(s).i <= Last(s).fork_count
    BY <1>5 DEF Counts
  <2> QED BY <1>2, <1>3, <1>5, <2>1
<1> QED BY <1>2, <1>4, <1>5 DEF Counts

LEMMA StartedCounts ==
  ASSUME Loaded, NEW node, IsNode(node), NEW load \in Nat, NEW forks \in Nat
  PROVE  Counts({}, Started(node, load, forks).stack)
<1> DEFINE x == acceptAsync_rec(<<>>, node, load, forks)
<1>1. Started(node, load, forks).stack = x.stack BY DEF Started
<1>2. IsFiniteSet({}) /\ Cardinality({}) = 0 BY FS_EmptySet
<1>3. Widest \in Nat /\ Widest >= 1 /\ RUN_FORK_LIMIT \in Nat
  BY WidestBounds, AcceptanceAssumption
<1>4. Counts({}, <<>>)
  <2>1. Len(<<>>) = 0 OBVIOUS
  <2>2. 0 <= RUN_FORK_LIMIT + Widest - 1 BY <1>3
  <2> QED BY <1>2, <2>1, <2>2 DEF Counts
<1>5. Len(node) < Len(word) => BranchCount(node) \in Nat
  <2>1. Len(node) < Len(word) => Inner(node) BY DEF Inner
  <2> QED BY <2>1, BranchesAreNodes
<1>6. <<>> \in Seq(Frames) /\ Cardinality({}) <= forks /\ node \in Node BY <1>2 DEF IsNode
<1>7. Counts({}, x.stack) BY <1>4, <1>5, <1>6, CalledCounts
<1> QED BY <1>1, <1>7

LEMMA ForkCounts ==
  ASSUME Loaded, Counted, TreeInv, NEW p \in DOMAIN procs, ForkSucceeds(p)
  PROVE  Counted'
<1> DEFINE f == Frame(p)
           s == procs[p].stack
           g == Forking(f)
           t == Append(Front(s), g)
           C == Children(p)
           D == DOMAIN procs
           B == DOMAIN branch
<1>1. PICK c : c = Append(f.node, f.i) OBVIOUS
<1>2. /\ DOMAIN procs' = D \cup {c} /\ procs'[p].stack = t
      /\ procs'[c] = Started(c, 0, f.fork_count)
      /\ \A q \in D \ {p} : procs'[q] = procs[q]
      /\ Children(p)' \subseteq C \cup {c} /\ Children(c)' = {}
      /\ \A q \in D \ {p} : Children(q)' \subseteq Children(q)
  <2>1. c = Append(Frame(p).node, Frame(p).i) BY <1>1
  <2>2. DOMAIN procs' = DOMAIN procs \cup {c} BY <2>1, OneChild
  <2>3. procs'[p].stack = t BY <2>1, OneChild
  <2>4. procs'[c] = Started(c, 0, f.fork_count) BY <2>1, OneChild
  <2>5. \A q \in DOMAIN procs \ {p} : procs'[q] = procs[q] BY <2>1, OneChild
  <2>6. Children(p)' \subseteq Children(p) \cup {c} BY <2>1, OneChild
  <2>7. Children(c)' \subseteq {} BY <2>1, OneChild
  <2>8. \A q \in DOMAIN procs \ {p} : Children(q)' \subseteq Children(q) BY <2>1, OneChild
  <2> QED BY <2>2, <2>3, <2>4, <2>5, <2>6, <2>7, <2>8
<1>3. InNode(p, "fork", FALSE) /\ f.i < BranchCount(f.node) /\ tg' = tg /\ word' = word
  BY DEF ForkSucceeds
<1>4. s # <<>> /\ f \in Frames /\ f.ph = "fork" /\ f = Last(s) /\ FrameSafe(p, f, D, B)
  BY <1>3, Working
<1>5. s \in Seq(Frames) BY DEF TreeInv, Safe, Processes
<1>6. Counts(C, s) BY DEF Counted
<1>7. f.node \in Node /\ f.fork_count \in Nat /\ f.i \in Nat BY <1>4 DEF Frames
<1>8. Inner(f.node) /\ BranchCount(f.node) \in Nat BY <1>4, BranchesAreNodes DEF FrameSafe
<1>9. Widest \in Nat /\ BranchCount(f.node) <= Widest /\ RUN_FORK_LIMIT \in Nat
  BY <1>8, WidestBounds, AcceptanceAssumption
<1>10. /\ g \in Frames /\ g.node = f.node /\ g.i = f.i + 1 /\ g.fork_count = f.fork_count
       /\ g.ph = "fork"
  BY <1>4, ForkingFields
<1>11. /\ Cardinality(C) + BranchCount(f.node) - f.i <= f.fork_count
       /\ f.fork_count <= RUN_FORK_LIMIT + BranchCount(f.node) - 1
       /\ IsFiniteSet(C) /\ Cardinality(C) \in Nat
  BY <1>4, <1>6, FS_CardinalityType DEF Counts
<1>12. IsNode(c) /\ c \in Node
  <2>1. f.i \in 0 .. (BranchCount(f.node) - 1) BY <1>3, <1>7, <1>8
  <2>2. IsNode(Append(f.node, f.i)) BY <1>8, <2>1, BranchesAreNodes
  <2> QED BY <1>1, <2>2 DEF IsNode
<1>13. t # <<>> /\ Last(t) = g /\ \A k \in 1 .. Len(t) : t[k].ph # "local"
  <2> HIDE DEF f, s, g
  <2> QED BY <1>4, <1>5, <1>6, <1>10, NoLocal DEF Counts
<1> HIDE DEF f, s, g, t, C, D, B
<1>14. IsFiniteSet(C \cup {c}) /\ Cardinality(C \cup {c}) <= Cardinality(C) + 1
  <2>1. IsFiniteSet(C \cup {c})
        /\ Cardinality(C \cup {c}) = IF c \in C THEN Cardinality(C) ELSE Cardinality(C) + 1
    BY <1>11, FS_AddElement
  <2> QED BY <1>11, <2>1
<1>15. Counts(C \cup {c}, t)
  <2>1. Cardinality(C \cup {c}) \in Nat BY <1>14, FS_CardinalityType
  <2>2. Cardinality(C \cup {c}) + BranchCount(f.node) - (f.i + 1) <= f.fork_count
    BY <1>7, <1>8, <1>11, <1>14, <2>1
  <2>3. Cardinality(C \cup {c}) <= RUN_FORK_LIMIT + Widest - 1
    BY <1>3, <1>7, <1>8, <1>9, <1>11, <2>1, <2>2
  <2> QED BY <1>10, <1>11, <1>13, <1>14, <2>2, <2>3 DEF Counts
<1>16. Counts(Children(p)', t)
  <2>1. RUN_FORK_LIMIT + Widest - 1 \in Int BY <1>9
  <2>2. f.i + 1 \in Nat BY <1>7
  <2> QED BY <1>2, <1>7, <1>8, <1>10, <1>13, <1>15, <2>1, <2>2, CountsFewer
<1>17. Counts({}, Started(c, 0, f.fork_count).stack)
  <2>1. 0 \in Nat OBVIOUS
  <2> QED BY <1>7, <1>12, <2>1, StartedCounts
<1>18. ASSUME NEW q \in D \ {p} PROVE Counts(Children(q)', procs[q].stack)
  <2>1. Counts(Children(q), procs[q].stack) BY DEF Counted, D
  <2>2. Children(q)' \subseteq Children(q) BY <1>2
  <2>3. ASSUME procs[q].stack # <<>>
        PROVE  /\ BranchCount(Last(procs[q].stack).node) \in Nat
               /\ Last(procs[q].stack).i \in Nat /\ Last(procs[q].stack).fork_count \in Nat
    <3>1. Safe(q, procs[q], D, B, garbled) BY DEF TreeInv, D, B
    <3>2. Last(procs[q].stack) \in Frames /\ FrameSafe(q, Last(procs[q].stack), D, B)
      BY <2>3, <3>1, TopFrame
    <3>3. Inner(Last(procs[q].stack).node) BY <3>2 DEF FrameSafe
    <3> QED BY <3>2, <3>3, BranchesAreNodes DEF Frames
  <2>4. RUN_FORK_LIMIT + Widest - 1 \in Int BY <1>9
  <2> QED BY <2>1, <2>2, <2>3, <2>4, CountsFewer
<1>19. ASSUME NEW q \in DOMAIN procs' PROVE Counts(Children(q), procs[q].stack)'
  <2>1. Counts(Children(q)', procs'[q].stack)
    <3>1. CASE q = p BY <1>2, <1>16, <3>1
    <3>2. CASE q = c BY <1>2, <1>17, <3>2
    <3>3. CASE q \in D \ {p} BY <1>2, <1>18, <3>3
    <3> QED BY <1>2, <3>1, <3>2, <3>3
  <2> QED BY <1>3, <2>1, CountsUnchanged
<1> QED BY <1>19 DEF Counted

LEMMA TakesCounts ==
  ASSUME Counted, TreeInv, NEW p \in DOMAIN procs, InNode(p, "read", FALSE), NEW v,
         Takes(p, Frame(p), v), tg' = tg, word' = word
  PROVE  Counted'
<1> DEFINE f == Frame(p)
           g == [f EXCEPT !.i = f.i + 1]
<1>1. procs[p].stack # <<>> /\ f \in Frames /\ f.ph = "read" BY Working
<1>2. procs' = ReturnsFrom(p, v) \/ procs' = With(p, g) BY DEF Takes
<1>3. g \in Frames /\ g.ph = "read"
  <2> DEFINE n == f.i + 1
  <2>1. n \in Nat BY <1>1 DEF Frames
  <2> HIDE DEF f, n
  <2>2. Becomes([f EXCEPT !.i = n], f, f.ph, n, f.value)
    <3>1. "read" \in Phases /\ TRUE \in BOOLEAN BY DEF Phases
    <3> QED BY <1>1, <2>1, <3>1, FrameFields
  <2> QED BY <1>1, <2>2 DEF Becomes, n
<1> HIDE DEF f, g
<1> QED BY <1>1, <1>2, <1>3, LaterCounts, ReturnCounts

LEMMA WorkCounts ==
  ASSUME Loaded, Counted, TreeInv, NEW p \in DOMAIN procs,
         Works(p) \/ \E interrupted \in BOOLEAN : WaitForAll(p, interrupted)
  PROVE  Counted'
<1> DEFINE f == Frame(p)
<1>1. ASSUME LocalValue(p) PROVE FALSE
  BY <1>1, NoLocalFrame DEF LocalValue, InNode
<1>2. ASSUME OriginValue(p) PROVE Counted'
  <2> DEFINE g == [f EXCEPT !.ph = "wait", !.value = procs[p].ret]
  <2>1. InNode(p, "origin", TRUE) /\ procs' = With(p, g) /\ tg' = tg /\ word' = word
    BY <1>2 DEF OriginValue
  <2>2. procs[p].stack # <<>> /\ f \in Frames /\ procs[p].ret \in BOOLEAN BY <2>1, Working
  <2>3. g \in Frames /\ g.ph = "wait"
    <3> HIDE DEF f
    <3>1. "wait" \in Phases /\ 0 \in Nat BY DEF Phases
    <3>2. Becomes(g, f, "wait", f.i, procs[p].ret) BY <2>2, <3>1, FrameFields
    <3> QED BY <3>2 DEF Becomes
  <2> HIDE DEF g
  <2> QED BY <2>1, <2>2, <2>3, LaterCounts
<1>3. ASSUME ReadBranch(p) PROVE Counted'
  BY <1>3, TakesCounts DEF ReadBranch
<1>4. ASSUME ReadUnopened(p) PROVE Counted'
  <2>1. InNode(p, "read", FALSE) /\ tg' = tg /\ word' = word BY <1>4 DEF ReadUnopened
  <2>2. \/ \E s \in {"failed", "hung"} : procs' = [procs EXCEPT ![p].status = s]
        \/ \E v \in BOOLEAN : Takes(p, f, v)
    BY <1>4 DEF ReadUnopened
  <2> QED BY <2>1, <2>2, EndCounts, TakesCounts
<1>5. ASSUME AllRead(p) PROVE Counted'
  <2>1. /\ procs[p].stack # <<>> /\ tg' = tg /\ word' = word
        /\ procs' = ReturnsFrom(p, ~ Existentially(f.node))
    BY <1>5 DEF AllRead, InNode
  <2> QED BY <2>1, ReturnCounts
<1>6. ASSUME Report(p) PROVE Counted'
  BY <1>6, EndCounts DEF Report
<1>7. ASSUME NEW interrupted \in BOOLEAN, WaitForAll(p, interrupted) PROVE Counted'
  <2> DEFINE g == [f EXCEPT !.ph = "read", !.i = 1]
  <2>1. /\ InNode(p, "wait", FALSE) /\ tg' = tg /\ word' = word
        /\ \/ procs' = [procs EXCEPT ![p].status = "failed"]
           \/ procs' = ReturnsFrom(p, f.value)
           \/ procs' = With(p, g)
    BY <1>7 DEF WaitForAll
  <2>2. procs[p].stack # <<>> /\ f \in Frames BY <2>1, Working
  <2>3. g \in Frames /\ g.ph = "read"
    <3> HIDE DEF f
    <3>1. "read" \in Phases /\ 1 \in Nat BY DEF Phases
    <3>2. Becomes(g, f, "read", 1, f.value) BY <2>2, <3>1, FrameFields
    <3> QED BY <3>2 DEF Becomes
  <2> HIDE DEF g
  <2> QED BY <2>1, <2>2, <2>3, EndCounts, ReturnCounts, LaterCounts
<1> QED BY <1>1, <1>2, <1>3, <1>4, <1>5, <1>6, <1>7, ForkCounts, OriginCounts DEF Works

LEMMA StartCounts ==
  ASSUME Loaded, tg' = tg, word' = word, procs' = [p \in {Root} |-> Started(Root, 1, 0)]
  PROVE  Counted'
<1>1. IsNode(Root)
  <2>1. Root \in Node /\ Len(Root) = 0 BY DEF Root, Node
  <2> QED BY <2>1, StateAtRoot DEF IsNode, Loaded, Root
<1>2. 1 \in Nat /\ 0 \in Nat OBVIOUS
<1>3. Counts({}, Started(Root, 1, 0).stack) BY <1>1, <1>2, StartedCounts
<1>4. DOMAIN procs' = {Root} /\ procs'[Root] = Started(Root, 1, 0) OBVIOUS
<1>5. ASSUME NEW q \in DOMAIN procs' PROVE Counts(Children(q), procs[q].stack)'
  <2>1. q = Root BY <1>4, <1>5
  <2>2. Children(q)' = {} BY <1>4, <2>1 DEF Children
  <2>3. Counts(Children(q)', procs'[q].stack) BY <1>3, <1>4, <2>1, <2>2
  <2> QED BY <2>3, CountsUnchanged
<1> QED BY <1>5 DEF Counted

LEMMA SameCounts ==
  ASSUME Counted, tg' = tg, word' = word, procs' = procs
  PROVE  Counted'
<1>1. ASSUME NEW q \in DOMAIN procs' PROVE Counts(Children(q), procs[q].stack)'
  <2>1. Children(q)' = Children(q) BY DEF Children
  <2>2. Counts(Children(q)', procs'[q].stack) BY <2>1 DEF Counted
  <2> QED BY <2>2, CountsUnchanged
<1> QED BY <1>1 DEF Counted

LEMMA RunNext_Counts ==
  RunInv /\ CountInv /\ [RunNext]_<<runVars, acceptVars>> => CountInv'
<1> SUFFICES ASSUME RunInv, CountInv, [RunNext]_<<runVars, acceptVars>>, budget' = MaxBudget
             PROVE  Counted'
  BY DEF CountInv
<1>1. budget \in 0 .. MaxBudget /\ MaxBudget \in Nat /\ TreeInv
  BY RunAssumption DEF RunInv, FlagsOK
<1>2. CASE Accepting
  <2>1. PICK p \in DOMAIN procs :
          Works(p) \/ \E interrupted \in BOOLEAN : WaitForAll(p, interrupted)
    BY <1>2 DEF Accepting
  <2>2. Loaded BY <1>2 DEF Accepting, RunInv
  <2>3. budget' = budget
    BY <2>1 DEF Works, ForkSucceeds, LocalValue, Origin, OriginValue, ReadBranch, ReadUnopened,
                AllRead, Report, WaitForAll
  <2>4. Counted BY <2>3 DEF CountInv
  <2> QED BY <1>1, <2>1, <2>2, <2>4, WorkCounts
<1>3. CASE AcceptAsync
  <2>1. Loaded BY <1>3 DEF AcceptAsync, RunInv
  <2> QED BY <1>3, <2>1, StartCounts DEF AcceptAsync
<1>4. CASE ReadGraph
  <2>1. DOMAIN procs' = {} BY <1>4 DEF ReadGraph, RunInv, NotYetAccepting
  <2> QED BY <2>1 DEF Counted
<1>5. CASE RunDies \/ AcceptanceFaults
  <2>1. budget' = budget - 1 BY <1>5 DEF RunDies, AcceptanceFaults, ForkFails, Abort
  <2> QED BY <1>1, <2>1
<1>6. CASE UNCHANGED acceptVars
  <2>1. tg' = tg /\ word' = word /\ procs' = procs /\ budget' = budget BY <1>6 DEF acceptVars
  <2> QED BY <2>1, SameCounts DEF CountInv
<1>7. ASSUME \/ PushGraph \/ ServerDies \/ Prctl \/ CheckParent \/ EnterRead
             \/ OthersCommit \/ ServerReads \/ RunFails \/ CheckBeforeResult
             \/ BlockOnSend \/ CommitResult
             \/ UNCHANGED <<runVars, acceptVars>>
      PROVE  UNCHANGED acceptVars
  BY <1>7 DEF PushGraph, ServerDies, OthersCommit, ServerReads, Prctl, CheckParent, EnterRead,
              RunFails, CheckBeforeResult, BlockOnSend, CommitResult
<1> QED BY <1>2, <1>3, <1>4, <1>5, <1>6, <1>7 DEF RunNext, RunSteps

(* As long as no fork fails, a process forks itself at most RUN_FORK_LIMIT  *)
(* times beyond the branches of one node, although acceptAsync_rec tests    *)
(* the limit only when it enters a node.                                   *)
THEOREM ForksAreBounded == RunSpec => []ForksBounded
<1>1. RunInit => CountInv
  <2>1. RunInit => Counted BY DEF RunInit, Counted
  <2> QED BY <2>1 DEF CountInv
<1>2. CountInv => ForksBounded BY DEF CountInv, Counted, Counts, ForksBounded, Widest
<1> QED BY <1>1, <1>2, RunNext_Counts, RunAlways, PTL DEF RunSpec
=============================================================================
