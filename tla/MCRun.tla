------------------------------- MODULE MCRun --------------------------------
(***************************************************************************)
(* Small instances of RunProcess: automata of three states over one letter. *)
(***************************************************************************)
EXTENDS RunProcess

CONSTANT a

Line(q, rs) == [q |-> q, a |-> a, rs |-> rs]

Descr(u, acc, lines) == [q0 |-> 0, U |-> u, accepting |-> acc, lines |-> lines]

(* Every automaton of two states whose nodes have at most two branches.     *)
Branching ==
  {Descr(u, acc, <<Line(0, r), Line(1, s)>>) :
     u \in 0 .. 2, acc \in {{0}, {1}}, r \in {<<1>>, <<0, 1>>}, s \in {<<0>>, <<1, 0>>}}

(* A state without successors, a line that is continued by another one, a   *)
(* text larger than the pipe, and a line longer than a piece.               *)
Unusual ==
  {Descr(u, {0}, lines) :
     u \in {0, 2},
     lines \in { <<Line(0, <<1, 0>>)>>,
                 <<Line(0, <<1, 2>>), Line(0, <<0>>)>>,
                 <<Line(0, <<1>>), Line(0, <<0>>)>>,
                 <<Line(0, <<1>>), Line(1, <<0, 1>>), Line(0, <<0>>)>>,
                 <<Line(0, <<1>>), Line(1, <<1>>), Line(1, <<0>>), Line(0, <<0>>)>>,
                 <<Line(0, <<1>>), Line(1, <<1>>), Line(1, <<0>>), Line(0, <<0>>), Line(0, <<0>>)>>,
                 <<Line(0, <<>>), Line(1, <<0>>)>>,
                 <<Line(0, <<1, 0, 2>>), Line(1, <<2>>)>> }}

MCDescriptions == Branching \cup Unusual

MCWords == {<<>>, <<a, a, a>>}

(* What the README allows: a line that lists three of the states.           *)
LongLine == {Descr(2, {0}, <<Line(0, <<1, 0, 2>>), Line(1, <<2>>)>>)}
=============================================================================
