----------------------------- MODULE Automaton ------------------------------
(***************************************************************************)
(* The alternating automaton of automaton.h: the description that the      *)
(* server sends, the graph that loadTransitionGraph and strGetline         *)
(* (getline.h) make of it, and the synchronous acceptance.                 *)
(***************************************************************************)
EXTENDS Integers, Sequences, SequencesExt

CONSTANTS
  States,     \* 0 .. Q-1
  Letters,
  PIECE       \* the successors of a line that strGetline returns in one piece

ASSUME AutomatonAssumption == States \subseteq Nat /\ PIECE \in Nat \ {0}

(***************************************************************************)
(* A description is [q0, U, accepting, lines]: the three header lines, and *)
(* a sequence of lines [q, a, rs], rs the successors in their order.       *)
(***************************************************************************)
T(d, q, a) ==
  UNION {Range(d.lines[k].rs) : k \in {i \in DOMAIN d.lines : d.lines[i].q = q /\ d.lines[i].a = a}}

\* accept(w) of the README: universal states below U, existential ones above.
\* accepts[k] are the states that accept what follows the first k letters.
Accept(d, q, word) ==
  LET accepts[k \in 0 .. Len(word)] ==
        IF k = Len(word) THEN d.accepting
        ELSE LET rest == accepts[k + 1]
             IN  {r \in States : IF r < d.U THEN T(d, r, word[k + 1]) \subseteq rest
                                           ELSE T(d, r, word[k + 1]) \cap rest # {}}
  IN  q \in accepts[0]

-----------------------------------------------------------------------------
(* The graph: graph[q][a] is a sequence, size[q][a] its length *)

initTransitionGraph == [q \in States |-> [a \in Letters |-> <<>>]]

Add(graph, line) ==
  [graph EXCEPT ![line.q][line.a] = @ \o SubSeq(line.rs, 1, Min({PIECE, Len(line.rs)}))]

SplitLines(lines) == {k \in DOMAIN lines : Len(lines[k].rs) > PIECE}

(***************************************************************************)
(* The rest of a line longer than a piece is parsed as a line of its own,  *)
(* whose letter is a digit: its entries go outside the rows of all letters, *)
(* or, when nothing follows the second token, the parse ends there.  So    *)
(* does a line without successors.                                         *)
(***************************************************************************)
ParsedUpTo(lines) ==
  LET bare == {k \in DOMAIN lines : lines[k].rs = <<>>}
      end == IF bare = {} THEN Len(lines) ELSE Min(bare)
  IN  {end} \cup {k \in SplitLines(lines) : k < end}

loadTransitionGraph(d, lines) ==
  LET after[k \in 0 .. Len(lines)] ==
        IF k = 0 THEN initTransitionGraph ELSE Add(after[k - 1], lines[k])
  IN  {[q0 |-> d.q0, U |-> d.U, accepting |-> d.accepting, graph |-> after[k]] :
         k \in ParsedUpTo(lines)}

Existential(tg, q) == q >= tg.U

\* The recursion of the source descends from a state at a depth; accepts[k] are
\* the states for which it returns 1 at depth k.
acceptSync_rec(tg, word, q, depth) ==
  LET accepts[k \in 0 .. Len(word)] ==
        IF k >= Len(word) THEN tg.accepting
        ELSE LET rest == accepts[k + 1]
                 next(r) == tg.graph[r][word[k + 1]]
             IN  {r \in States :
                    IF Existential(tg, r) THEN \E i \in DOMAIN next(r) : next(r)[i] \in rest
                                          ELSE \A i \in DOMAIN next(r) : next(r)[i] \in rest}
  IN  q \in accepts[depth]
=============================================================================
