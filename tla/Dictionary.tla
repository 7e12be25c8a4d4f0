----------------------------- MODULE Dictionary -----------------------------
(***************************************************************************)
(* What a map promises: a function from names to values, missing where     *)
(* there is none, and for every call its reply.                            *)
(***************************************************************************)
CONSTANTS Names, Vals, Missing

VARIABLES dict, reply

dictVars == <<dict, reply>>

Init == dict = [k \in Names |-> Missing] /\ reply = <<"new">>

Get(k) ==
  reply' = <<"Get", k, dict[k]>> /\ UNCHANGED dict

Set(k, v) ==
  reply' = <<"Set", k, dict[k]>> /\ dict' = [dict EXCEPT ![k] = v]

Remove(k) ==
  reply' = <<"Remove", k, dict[k]>> /\ dict' = [dict EXCEPT ![k] = Missing]

Destroy ==
  reply' = <<"Destroy">> /\ dict' = [k \in Names |-> Missing]

Next ==
  \/ Destroy
  \/ \E k \in Names : Get(k) \/ Remove(k) \/ \E v \in Vals : Set(k, v)

Spec == Init /\ [][Next]_dictVars
=============================================================================
