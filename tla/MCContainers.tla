---------------------------- MODULE MCContainers ----------------------------
(***************************************************************************)
(* The containers and the collector share no state, so one run checks each *)
(* of them on its own: unit is the one that moves.                         *)
(***************************************************************************)
EXTENDS LinkedList, ArrayList, HashMap, Collector

VARIABLE unit

CONSTANTS d1, b1, b2, b3, b4, L1, L2

\* The data and NULL change places.
MCModifier == [e \in Element |-> IF e = d1 THEN NULL ELSE d1]

\* Two addresses of the same content and one of another.
MCKeys == {<<"p1", "m">>, <<"p2", "m">>, <<"p3", "n">>}

MCInit ==
  /\ unit \in {"list", "array", "map", "collector"}
  /\ ListInit /\ ArrayInit /\ HashMapInit /\ GCInit
  /\ unit # "map" => cmp = "HashMapIntCmp"

MCNext ==
  \/ unit = "list" /\ ListNext /\ UNCHANGED <<unit, arrayVars, mapVars, gcVars>>
  \/ unit = "array" /\ ArrayNext /\ UNCHANGED <<unit, listVars, mapVars, gcVars>>
  \/ unit = "map" /\ HashMapCalls /\ UNCHANGED <<unit, listVars, arrayVars, gcVars>>
  \/ unit = "collector" /\ GCNext /\ UNCHANGED <<unit, listVars, arrayVars, mapVars>>

MCSpec == MCInit /\ [][MCNext]_<<unit, listVars, arrayVars, mapVars, gcVars>>

\* The last call is no part of the state: it is only looked at when it is made.
MCView == <<unit, heap, arr, loop, cmp, map, iter, seen, body, gcVars>>
=============================================================================
