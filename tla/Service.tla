------------------------------ MODULE Service ------------------------------
(***************************************************************************)
(* What the system promises to its testers, with no process, queue or pipe *)
(* in sight: a tester asks about words; while the service is open it       *)
(* accepts requests; every accepted request is answered once, with the      *)
(* verdict of the automaton, or omitted; when it is told to stop it accepts *)
(* nothing more and closes only when nothing it accepted is left.           *)
(***************************************************************************)
EXTENDS Naturals

CONSTANTS Testers, LocIds, Words, Accepted

Request == [tester : Testers, loc_id : LocIds, word : Words]
Reply   == [tester : Testers, loc_id : LocIds, result : BOOLEAN]
Tally   == [asked : Nat, told : Nat, accepted : Nat]

VARIABLES
    phase,      \* "open", "draining" or "closed"
    waiting,    \* requests sent and not accepted yet
    working,    \* requests accepted and not answered yet
    replies,    \* answers sent and not printed yet
    tally       \* what each tester has asked and been told

vars == <<phase, waiting, working, replies, tally>>

Init ==
    /\ phase = "open"
    /\ waiting = {}
    /\ working = {}
    /\ replies = {}
    /\ tally = [t \in Testers |-> [asked |-> 0, told |-> 0, accepted |-> 0]]

InService(t, l) ==
    \E r \in waiting \cup working \cup replies : r.tester = t /\ r.loc_id = l

(* A tester asks about a word, under a loc_id nothing of its is known by. *)
Ask(r) ==
    /\ ~ InService(r.tester, r.loc_id)
    /\ waiting' = waiting \cup {r}
    /\ tally' = [tally EXCEPT ![r.tester].asked = @ + 1]
    /\ UNCHANGED <<phase, working, replies>>

Accept(r) ==
    /\ phase = "open"
    /\ r \in waiting
    /\ waiting' = waiting \ {r}
    /\ working' = working \cup {r}
    /\ UNCHANGED <<phase, replies, tally>>

(* No process could be started for the word. *)
Omit(r) ==
    /\ r \in working
    /\ working' = working \ {r}
    /\ UNCHANGED <<phase, waiting, replies, tally>>

Answer(r) ==
    /\ phase # "closed"
    /\ r \in working
    /\ working' = working \ {r}
    /\ replies' = replies \cup {[tester |-> r.tester, loc_id |-> r.loc_id,
                                 result |-> r.word \in Accepted]}
    /\ UNCHANGED <<phase, waiting, tally>>

(* The tester prints an answer. *)
Tell(p) ==
    /\ p \in replies
    /\ replies' = replies \ {p}
    /\ tally' = [tally EXCEPT ![p.tester].told = @ + 1,
                              ![p.tester].accepted = @ + (IF p.result THEN 1 ELSE 0)]
    /\ UNCHANGED <<phase, waiting, working>>

Drain ==
    /\ phase = "open"
    /\ phase' = "draining"
    /\ UNCHANGED <<waiting, working, replies, tally>>

Close ==
    /\ phase = "draining"
    /\ working = {}
    /\ phase' = "closed"
    /\ UNCHANGED <<waiting, working, replies, tally>>

Serve == \E r \in working : Omit(r) \/ Answer(r)

Next ==
    \/ \E r \in Request : Ask(r)
    \/ \E r \in waiting : Accept(r)
    \/ Serve
    \/ \E p \in replies : Tell(p)
    \/ Drain
    \/ Close

(* Once told to stop, the service finishes what it has accepted and closes. *)
Fairness == WF_vars(phase = "draining" /\ (Serve \/ Close))

Spec == Init /\ [][Next]_vars /\ Fairness
=============================================================================
