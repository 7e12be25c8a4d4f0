------------------------------ MODULE MCSystem ------------------------------
(***************************************************************************)
(* Small instances of AutomatonSystem for TLC: two testers at most, words  *)
(* one of which the automaton accepts, and a few standard inputs.          *)
(***************************************************************************)
EXTENDS AutomatonSystem

CONSTANTS t1, t2, yes, no

Stop == "!"

(* One tester asks and stops the server, the other asks and reads EOF.      *)
TwoTesters == {[t \in Testers |-> IF t = t1 THEN <<yes, Stop>> ELSE <<no>>]}

(* One tester with more words than the throttle lets runs through.          *)
ThreeWords == {[t \in Testers |-> <<yes, no, yes, Stop>>]}

(* One tester that never stops the server.                                  *)
OneWord == {[t \in Testers |-> <<yes>>]}

(* One tester only stops the server, while the other asks about four words. *)
StopWhileAsking ==
    {[t \in Testers |-> IF t = t1 THEN <<Stop>> ELSE <<no, no, no, no>>]}

(* Two ends of input and no stop, and a stop while the other tester sends   *)
(* one word or several.                                                     *)
Endings ==
    {[t \in Testers |-> IF t = t1 THEN <<yes>> ELSE <<no>>],
     [t \in Testers |-> IF t = t1 THEN <<Stop>> ELSE <<no>>],
     [t \in Testers |-> IF t = t1 THEN <<Stop>> ELSE <<no, no, no>>]}

MCWords    == {yes, no}
MCAccepted == {yes}
=============================================================================
