----------------------------- MODULE ExitProofs -----------------------------
(***************************************************************************)
(* "exit" is the last a tester hears, a tester that has left its loop has   *)
(* read every answer, a session is never replaced at its tester's cost, and *)
(* a server that fails says so, for every value of the constants.           *)
(***************************************************************************)
EXTENDS AnswerProofs

(* A message that is no answer is "exit".                                   *)
LEMMA ExitOrAnswer ==
    ASSUME TypeInv, NEW t \in Testers, NEW g \in Generation
    PROVE  /\ testerQ[t] \in [Generation -> Seq(Answer \cup {Exit})]
           /\ \A i \in 1 .. Len(testerQ[t][g]) :
                \/ testerQ[t][g][i] \in Answer /\ testerQ[t][g][i].type = "answer"
                \/ testerQ[t][g][i] = Exit /\ testerQ[t][g][i].type = "exit"
           /\ Exit \notin Answer
<1>1. testerQ[t] \in [Generation -> Seq(Answer \cup {Exit})]
  BY DEF TypeInv, TypeOK, PosixTypeOK
<1>2. \A i \in 1 .. Len(testerQ[t][g]) : testerQ[t][g][i] \in Answer \cup {Exit}
  BY <1>1
<1>3. (\A m \in Answer : m.type = "answer") /\ Exit.type = "exit"
  BY DEF Answer, Exit
<1> QED
  BY <1>1, <1>2, <1>3

-----------------------------------------------------------------------------
(* WHAT A STEP DOES TO THE QUEUES OF THE TESTERS                           *)

(* Four steps touch them.                                                   *)
LEMMA QueueSteps ==
    ASSUME TypeInv, [Next]_vars
    PROVE  \/ testerQ' = testerQ
           \/ ServerNext /\ SendAnswer
           \/ ServerNext /\ BroadcastExit
           \/ \E t \in Testers : TesterNext(t) /\ (TakeAnswer(t) \/ TakeExit(t))
<1>1. CASE ServerNext
  <2>1. CASE RegisterTester \/ Throttle \/ NoRunResult \/ ReadRunResult \/ ReapNothing
             \/ ReapExited \/ ReapFailed \/ ReapFatal \/ NoRequest
    BY <2>1 DEF RegisterTester, Throttle, NoRunResult, ReadRunResult, ReapNothing, ReapExited,
       ReapFailed, ReapFatal, NoRequest, reapUnchanged, posixVars, queueVars
  <2>2. CASE TakeExitRequest \/ TakeRequest \/ Spawn \/ SpawnFails \/ PushGraph
             \/ WaitAfterFailure \/ PrintReport \/ RemoveQueues \/ FinalWait \/ ExitWait
    BY <2>2 DEF TakeExitRequest, TakeRequest, Spawn, SpawnFails, PushGraph, WaitAfterFailure,
       PrintReport, RemoveQueues, Unlink, FinalWait, ExitWait, posixVars, queueVars
  <2>3. CASE OnExit
    BY <2>3 DEF OnExit, GlobalTesterSlots, TypeInv, TypeOK, PosixTypeOK
  <2> QED
    BY <1>1, <2>1, <2>2, <2>3 DEF ServerNext, ServerStep
<1>2. ASSUME NEW w \in Pids, RunNext(w) \/ CrashNext(w) PROVE testerQ' = testerQ
  BY <1>2 DEF RunNext, CrashNext, RunStep, OpenQueues, ReadGraph, CommitResult, ExitRun, Crash,
              queueVars
<1>3. ASSUME NEW t \in Testers, TesterNext(t), ~ TakeAnswer(t), ~ TakeExit(t)
      PROVE  testerQ' = testerQ
  BY <1>3 DEF TesterNext, TesterStep, OpenRegister, Register, OpenReport, ReadLine, SendExit,
              SendWord, PollNothing, CloseTester, posixVars, queueVars
<1>4. CASE UNCHANGED vars
  BY <1>4 DEF vars, posixVars, queueVars
<1> QED
  BY <1>1, <1>2, <1>3, <1>4 DEF Next, Terminating

(* A tester takes the head of its first queue.                              *)
LEMMA HeadTaken ==
    ASSUME TypeInv, NEW t \in Testers, TakeAnswer(t) \/ TakeExit(t)
    PROVE  /\ testerPc[t] = "poll"
           /\ HasMessage(testerQ[t][0]) /\ 0 \in Generation
           /\ testerQ[t] \in [Generation -> Seq(Answer \cup {Exit})]
           /\ testerQ'[t] = Received(testerQ[t], 0)
           /\ testerQ'[t][0] = Tail(testerQ[t][0])
           /\ \A g \in Generation \ {0} : testerQ'[t][g] = testerQ[t][g]
           /\ \A u \in Testers \ {t} : testerQ'[u] = testerQ[u]
<1>1. /\ testerPc[t] = "poll" /\ HasMessage(testerQ[t][0])
      /\ testerQ' = [testerQ EXCEPT ![t] = Received(testerQ[t], 0)]
  BY DEF TakeAnswer, TakeExit
<1>2. testerQ[t] \in [Generation -> Seq(Answer \cup {Exit})] /\ 0 \in Generation
  BY DEF TypeInv, TypeOK, PosixTypeOK, Generation
<1>3. /\ testerQ'[t] = Received(testerQ[t], 0)
      /\ \A u \in Testers \ {t} : testerQ'[u] = testerQ[u]
  BY <1>1 DEF TypeInv, TypeOK, PosixTypeOK
<1>4. /\ Received(testerQ[t], 0)[0] = Tail(testerQ[t][0])
      /\ \A g \in Generation \ {0} : Received(testerQ[t], 0)[g] = testerQ[t][g]
  BY <1>2 DEF Received
<1> QED
  BY <1>1, <1>2, <1>3, <1>4

(* Once the server ends its sessions stay, and it says "exit" to no more    *)
(* testers than it meant to.                                                *)
LEMMA EndingKept ==
    ASSUME TypeInv, [Next]_vars, serverPc \in Ending
    PROVE  /\ serverPc' \in Ending
           /\ serverPc' = "broadcast" => serverPc = "broadcast" /\ exitPending' \subseteq exitPending
           /\ UNCHANGED <<testerSlots, runSlots, registerQ>>
              \/ UNCHANGED serverVars
<1>1. CASE ServerNext
  <2>1. CASE BroadcastExit \/ PrintReport \/ RemoveQueues
    BY <2>1 DEF BroadcastExit, PrintReport, RemoveQueues, Unlink, Ending, slotVars, endVars,
                posixVars, queueVars
  <2>2. CASE FinalWait \/ OnExit \/ ExitWait
    BY <2>2 DEF FinalWait, OnExit, ExitWait, Ending, slotVars, endVars, queueVars
  <2> QED
    BY <1>1, <2>1, <2>2 DEF ServerNext, ServerStep, Ending, RegisterTester, Throttle, NoRunResult,
       ReadRunResult, SendAnswer, ReapNothing, ReapExited, ReapFailed, ReapFatal, NoRequest,
       TakeExitRequest, TakeRequest, Spawn, SpawnFails, PushGraph, WaitAfterFailure
<1>2. CASE UNCHANGED serverVars
  BY <1>2 DEF serverVars, slotVars, endVars
<1> QED
  BY <1>1, <1>2 DEF Next, Terminating, RunNext, CrashNext, TesterNext, vars

-----------------------------------------------------------------------------
(* "EXIT" IS THE LAST                                                      *)

(* "exit" is in a queue only once the server ends, and not before its       *)
(* tester's turn in the broadcast.                                          *)
ExitTold ==
    \A t \in Testers, g \in Generation : \A i \in 1 .. Len(testerQ[t][g]) :
        testerQ[t][g][i] = Exit =>
            serverPc \in Ending /\ ~ (serverPc = "broadcast" /\ t \in exitPending)

ExitInv == ExitLast /\ ExitTold

LEMMA ExitStep ==
    ASSUME ServedInv, ExitInv, [Next]_vars
    PROVE  ExitInv'
<1> USE DEF ServedInv
<1>1. ASSUME NEW t \in Testers, NEW g \in Generation, NEW i \in 1 .. Len(testerQ[t][g]),
             testerQ[t][g][i] = Exit
      PROVE  /\ i = Len(testerQ[t][g])
             /\ serverPc \in Ending /\ ~ (serverPc = "broadcast" /\ t \in exitPending)
             /\ serverPc' \in Ending /\ ~ (serverPc' = "broadcast" /\ t \in exitPending')
  BY <1>1, EndingKept DEF ExitInv, ExitLast, ExitTold
<1>2. CASE testerQ' = testerQ
  BY <1>1, <1>2 DEF ExitInv, ExitLast, ExitTold
<1>3. CASE SendAnswer
  <2>0. PICK t \in Testers, gen \in Generation, msg \in Answer :
          /\ testerQ'[t] = Sent(testerQ[t], gen, msg)
          /\ \A u \in Testers \ {t} : testerQ'[u] = testerQ[u]
    BY <1>3, AnswerGoes
  <2>1. \A u \in Testers, g \in Generation : \A i \in 1 .. Len(testerQ[u][g]) :
          testerQ[u][g][i] # Exit
    BY <1>1, <1>3 DEF SendAnswer, Ending
  <2>2. testerQ[t] \in [Generation -> Seq(Answer \cup {Exit})] /\ msg # Exit
    BY ExitOrAnswer
  <2>3. /\ testerQ'[t][gen] = Append(testerQ[t][gen], msg)
        /\ \A g \in Generation \ {gen} : testerQ'[t][g] = testerQ[t][g]
    BY <2>0, <2>2 DEF Sent
  <2>4. \A i \in 1 .. Len(testerQ'[t][gen]) : testerQ'[t][gen][i] # Exit
    BY <2>1, <2>2, <2>3
  <2>5. ASSUME NEW u \in Testers, NEW g \in Generation, NEW i \in 1 .. Len(testerQ'[u][g])
        PROVE  testerQ'[u][g][i] # Exit
    <3>1. CASE u = t /\ g = gen
      BY <2>4, <3>1
    <3>2. CASE u = t /\ g # gen
      BY <2>1, <2>3, <3>2
    <3>3. CASE u # t
      BY <2>0, <2>1, <3>3
    <3> QED
      BY <3>1, <3>2, <3>3
  <2> QED
    BY <2>5 DEF ExitInv, ExitLast, ExitTold
<1>4. CASE BroadcastExit
  <2>0. PICK t \in exitPending :
          testerQ' = [testerQ EXCEPT ![t] = Sent(testerQ[t], testerSlots[t].queue, Exit)]
          /\ exitPending' = exitPending \ {t}
    BY <1>4 DEF BroadcastExit
  <2>1. PICK gen : gen = testerSlots[t].queue
    OBVIOUS
  <2>2. /\ t \in Testers /\ testerQ[t] \in [Generation -> Seq(Answer \cup {Exit})]
        /\ testerQ'[t] = Sent(testerQ[t], gen, Exit)
        /\ \A u \in Testers \ {t} : testerQ'[u] = testerQ[u]
    BY <2>0, <2>1 DEF TypeInv, TypeOK, PosixTypeOK, ServerTypeOK
  <2>3. serverPc = "broadcast" /\ serverPc' = "broadcast" /\ t \in exitPending
    BY <1>4 DEF BroadcastExit
  <2>4. \A g \in Generation : \A i \in 1 .. Len(testerQ[t][g]) : testerQ[t][g][i] # Exit
    BY <1>1, <2>2, <2>3
  <2>5. ASSUME NEW g \in Generation, NEW i \in 1 .. Len(testerQ'[t][g]), testerQ'[t][g][i] = Exit
        PROVE  i = Len(testerQ'[t][g])
    <3>1. CASE g = gen
      <4>1. testerQ'[t][g] = Append(testerQ[t][g], Exit)
        BY <2>2, <3>1 DEF Sent
      <4> QED
        BY <2>2, <2>4, <2>5, <4>1
    <3>2. CASE g # gen
      <4>1. testerQ'[t][g] = testerQ[t][g]
        BY <2>2, <3>2 DEF Sent
      <4> QED
        BY <2>4, <2>5, <4>1
    <3> QED
      BY <3>1, <3>2
  <2>6. ASSUME NEW u \in Testers, NEW g \in Generation, NEW i \in 1 .. Len(testerQ'[u][g]),
               testerQ'[u][g][i] = Exit
        PROVE  /\ i = Len(testerQ'[u][g])
               /\ serverPc' \in Ending /\ ~ (serverPc' = "broadcast" /\ u \in exitPending')
    <3>1. CASE u = t
      BY <2>0, <2>3, <2>5, <2>6, <3>1 DEF Ending
    <3>2. CASE u # t
      <4>1. testerQ'[u] = testerQ[u]
        BY <2>2, <3>2
      <4> QED
        BY <1>1, <2>6, <4>1
    <3> QED
      BY <3>1, <3>2
  <2> QED
    BY <2>6 DEF ExitInv, ExitLast, ExitTold
<1>5. ASSUME NEW t \in Testers, TakeAnswer(t) \/ TakeExit(t)
      PROVE  ExitInv'
  <2>1. /\ HasMessage(testerQ[t][0]) /\ 0 \in Generation
        /\ testerQ[t][0] \in Seq(Answer \cup {Exit})
        /\ testerQ'[t][0] = Tail(testerQ[t][0])
        /\ \A g \in Generation \ {0} : testerQ'[t][g] = testerQ[t][g]
        /\ \A u \in Testers \ {t} : testerQ'[u] = testerQ[u]
    BY <1>5, HeadTaken
  <2>2. /\ Len(testerQ[t][0]) \in Nat /\ Len(testerQ'[t][0]) = Len(testerQ[t][0]) - 1
        /\ \A i \in 1 .. Len(testerQ'[t][0]) :
             i + 1 \in 1 .. Len(testerQ[t][0]) /\ testerQ'[t][0][i] = testerQ[t][0][i + 1]
    BY <2>1, TailShift DEF HasMessage
  <2>3. ASSUME NEW i \in 1 .. Len(testerQ'[t][0]), testerQ'[t][0][i] = Exit
        PROVE  /\ i = Len(testerQ'[t][0])
               /\ serverPc' \in Ending /\ ~ (serverPc' = "broadcast" /\ t \in exitPending')
    <3>1. i + 1 \in 1 .. Len(testerQ[t][0]) /\ testerQ[t][0][i + 1] = Exit
      BY <2>2, <2>3
    <3>2. i + 1 = Len(testerQ[t][0])
      BY <1>1, <2>1, <3>1
    <3>3. serverPc' \in Ending /\ ~ (serverPc' = "broadcast" /\ t \in exitPending')
      BY <1>1, <2>1, <3>1
    <3> QED
      BY <2>2, <3>2, <3>3
  <2>4. ASSUME NEW u \in Testers, NEW g \in Generation, NEW i \in 1 .. Len(testerQ'[u][g]),
               testerQ'[u][g][i] = Exit
        PROVE  /\ i = Len(testerQ'[u][g])
               /\ serverPc' \in Ending /\ ~ (serverPc' = "broadcast" /\ u \in exitPending')
    <3>1. CASE u = t /\ g = 0
      BY <2>3, <2>4, <3>1
    <3>2. CASE u # t \/ g # 0
      <4>1. testerQ'[u][g] = testerQ[u][g]
        BY <2>1, <3>2
      <4> QED
        BY <1>1, <2>4, <4>1
    <3> QED
      BY <3>1, <3>2
  <2> QED
    BY <2>4 DEF ExitInv, ExitLast, ExitTold
<1> QED
  BY <1>2, <1>3, <1>4, <1>5, QueueSteps

LEMMA ExitInit == Init => ExitInv
  BY DEF Init, PosixInit, ExitInv, ExitLast, ExitTold

(* No answer comes behind "exit" (validator.c:512, README.md:149-154):      *)
(* whatever fails, the server says it last and once it is done answering.   *)
THEOREM ExitIsLast == Spec => []ExitLast
<1>1. ServedInv /\ ExitInv /\ [Next]_vars => ServedInv' /\ ExitInv'
  BY ServedStep, ExitStep
<1>2. ExitInv => ExitLast
  BY DEF ExitInv
<1> QED
  BY ServedInit, ExitInit, <1>1, <1>2, PTL DEF Spec

-----------------------------------------------------------------------------
(* WHAT A STEP DOES TO THE TESTERS                                         *)

(* A tester keeps out of the others.                                        *)
LEMMA OtherTester ==
    ASSUME TypeInv, NEW t \in Testers, TesterNext(t), NEW u \in Testers \ {t}
    PROVE  /\ testerPc'[u] = testerPc[u] /\ results'[u] = results[u]
           /\ loc_id'[u] = loc_id[u]
           /\ req_count'[u] = req_count[u] /\ ans_count'[u] = ans_count[u]
<1> USE DEF TypeInv, TypeOK, TesterTypeOK, Goto
<1>1. CASE OpenRegister(t) \/ Register(t) \/ OpenReport(t)
  BY <1>1 DEF OpenRegister, Register, OpenReport
<1>2. CASE ReadLine(t)
  BY <1>2 DEF ReadLine
<1>3. CASE SendExit(t) \/ SendWord(t)
  BY <1>3 DEF SendExit, SendWord
<1>4. CASE TakeAnswer(t)
  BY <1>4 DEF TakeAnswer, LoopBack, Forget
<1>5. CASE TakeExit(t) \/ PollNothing(t) \/ CloseTester(t)
  BY <1>5 DEF TakeExit, PollNothing, CloseTester, LoopBack
<1> QED
  BY <1>1, <1>2, <1>3, <1>4, <1>5 DEF TesterNext, TesterStep

(* The words a tester is owed an answer for.                                *)
OwedBy(t) == {l \in LocIds : Owed(t, l)}

LEMMA OwedFinite ==
    ASSUME NEW t
    PROVE  /\ IsFiniteSet(OwedBy(t))
           /\ Cardinality(OwedBy(t)) \in Nat
<1>1. IsFiniteSet(LocIds)
  BY FS_Interval, PosixAssumption DEF PosixAssumption, LocIds
<1>2. OwedBy(t) \in SUBSET LocIds
  BY DEF OwedBy
<1> QED
  BY <1>1, <1>2, FS_Subset, FS_CardinalityType

(* The counters a tester stops by are exact: it has asked for as many words *)
(* as it was answered and is owed.                                          *)
CountInv == \A t \in Testers : req_count[t] = ans_count[t] + Cardinality(OwedBy(t))

LEMMA CountStep ==
    ASSUME ServedInv, CountInv, [Next]_vars
    PROVE  CountInv'
<1> USE DEF ServedInv, AnswerInv
<1>1. CASE UNCHANGED testerVars
  <2>1. UNCHANGED <<testerPc, results, loc_id, req_count, ans_count>>
    BY <1>1 DEF testerVars
  <2>2. \A t \in Testers : OwedBy(t)' = OwedBy(t)
    BY <2>1 DEF OwedBy, Owed
  <2> QED
    BY <2>1, <2>2 DEF CountInv
<1>2. ASSUME NEW t \in Testers, TesterNext(t)
      PROVE  CountInv'
  <2>1. ASSUME NEW u \in Testers \ {t}
        PROVE  req_count'[u] = ans_count'[u] + Cardinality(OwedBy(u)')
    <3>1. OwedBy(u)' = OwedBy(u)
      BY <1>2, OtherTester DEF OwedBy, Owed
    <3> QED
      BY <1>2, <3>1, OtherTester DEF CountInv
  <2>2. /\ req_count \in [Testers -> Nat] /\ ans_count \in [Testers -> Nat]
        /\ req_count[t] = ans_count[t] + Cardinality(OwedBy(t))
        /\ Cardinality(OwedBy(t)) \in Nat /\ IsFiniteSet(OwedBy(t))
    BY OwedFinite DEF CountInv, TypeInv, TypeOK, TesterTypeOK
  <2>3. ASSUME req_count'[t] = req_count[t], ans_count'[t] = ans_count[t],
               \A l \in LocIds : Owed(t, l)' <=> Owed(t, l)
        PROVE  req_count'[t] = ans_count'[t] + Cardinality(OwedBy(t)')
    <3>1. OwedBy(t)' = OwedBy(t)
      BY <2>3 DEF OwedBy
    <3> QED
      BY <2>2, <2>3, <3>1
  <2>4. req_count'[t] = ans_count'[t] + Cardinality(OwedBy(t)')
    <3>1. CASE OpenRegister(t) \/ Register(t) \/ OpenReport(t) \/ PollNothing(t) \/ CloseTester(t)
      <4>1. /\ UNCHANGED <<results, loc_id, req_count, ans_count>>
            /\ testerPc[t] # "send" /\ testerPc'[t] # "send"
        BY <3>1 DEF OpenRegister, Register, OpenReport, PollNothing, CloseTester, Goto, LoopBack,
                    TypeInv, TypeOK, TesterTypeOK
      <4> QED
        BY <2>3, <4>1 DEF Owed
    <3>2. CASE TakeExit(t)
      <4>1. /\ UNCHANGED <<results, loc_id, req_count, ans_count>>
            /\ testerPc[t] # "send" /\ testerPc'[t] # "send"
        BY <3>2 DEF TakeExit, Goto, TypeInv, TypeOK, TesterTypeOK
      <4> QED
        BY <2>3, <4>1 DEF Owed
    <3>3. CASE ReadLine(t)
      BY <2>3, <3>3, LineRead DEF ReadLine
    <3>4. CASE SendExit(t)
      <4>1. /\ UNCHANGED <<results, loc_id, req_count, ans_count>>
            /\ testerPc[t] = "send" /\ testerPc'[t] = "poll" /\ line[t] = "!"
        BY <3>4 DEF SendExit, Goto, TypeInv, TypeOK, TesterTypeOK
      <4>2. results[t][loc_id[t]] = NULL
        BY <4>1 DEF LineInv
      <4> QED
        BY <2>3, <4>1, <4>2 DEF Owed
    <3>5. CASE SendWord(t)
      <4>1. loc_id[t] \in LocIds /\ loc_id[t] \notin OwedBy(t)
        BY <3>5, WordSent DEF OwedBy
      <4>2. OwedBy(t)' = OwedBy(t) \cup {loc_id[t]}
        BY <3>5, WordSent DEF OwedBy
      <4>3. Cardinality(OwedBy(t)') = Cardinality(OwedBy(t)) + 1
        BY <2>2, <4>1, <4>2, FS_AddElement
      <4>4. req_count'[t] = req_count[t] + 1 /\ ans_count'[t] = ans_count[t]
        BY <2>2, <3>5 DEF SendWord
      <4> QED
        BY <2>2, <4>3, <4>4
    <3>6. CASE TakeAnswer(t)
      <4>0. PICK n \in LocIds :
              /\ n = Head(testerQ[t][0]).loc_id /\ Owed(t, n) /\ ~ Owed(t, n)'
              /\ \A l \in LocIds : l # n => (Owed(t, l)' <=> Owed(t, l))
        BY <3>6, AnswerTaken
      <4>1. OwedBy(t)' = OwedBy(t) \ {n} /\ n \in OwedBy(t)
        BY <4>0 DEF OwedBy
      <4>2. Cardinality(OwedBy(t)') = Cardinality(OwedBy(t)) - 1
        BY <2>2, <4>1, FS_RemoveElement
      <4>3. results[t][n] # NULL
        BY <4>0 DEF Owed
      <4>4. req_count'[t] = req_count[t] /\ ans_count'[t] = ans_count[t] + 1
        BY <2>2, <3>6, <4>0, <4>3 DEF TakeAnswer
      <4> QED
        BY <2>2, <4>2, <4>4
    <3> QED
      BY <1>2, <3>1, <3>2, <3>3, <3>4, <3>5, <3>6 DEF TesterNext, TesterStep
  <2> QED
    BY <2>1, <2>4 DEF CountInv
<1> QED
  BY <1>1, <1>2 DEF Next, ServerNext, RunNext, CrashNext, Terminating, vars

-----------------------------------------------------------------------------
(* WHAT A STEP DOES TO THE SESSIONS                                        *)

(* A session changes when its tester registers, when a request of its       *)
(* tester is read, and when a result for it is.                             *)
SessionRegistered(t) ==
    /\ serverPc = "register" /\ serverPc' = "register"
    /\ registerQ[0] # <<>> /\ Head(registerQ[0]) = t
    /\ registerQ'[0] = Tail(registerQ[0])
    /\ testerSlots'[t] = NewSession(t)

SessionAsked(t) ==
    /\ serverPc = "input" /\ serverPc' \in {"spawn", "onExit"}
    /\ UNCHANGED registerQ
    /\ \E l \in LocIds : Owed(t, l)
    /\ testerSlots'[t].queue = IF testerSlots[t] = NULL THEN OpenQueue(t)
                               ELSE testerSlots[t].queue
    /\ testerSlots'[t].acc_count = IF testerSlots[t] = NULL THEN 0
                                   ELSE testerSlots[t].acc_count

SessionCounted(t) ==
    /\ serverPc = "runs" /\ testerSlots[t] # NULL
    /\ UNCHANGED registerQ
    /\ testerSlots'[t].queue = testerSlots[t].queue
    /\ testerSlots'[t].acc_count >= testerSlots[t].acc_count

(* The head of a queue of requests is a request that is owed.               *)
LEMMA RequestOwed ==
    ASSUME ServedInv, TakeRequest
    PROVE  /\ Head(reportQ[0]) \in Parse
           /\ Head(reportQ[0]).tester \in Testers
           /\ Head(reportQ[0]).loc_id \in LocIds
           /\ Owed(Head(reportQ[0]).tester, Head(reportQ[0]).loc_id)
<1> USE DEF ServedInv, AnswerInv
<1>1. /\ reportQ \in [Generation -> Seq(Parse \cup {Exit})] /\ 0 \in Generation
      /\ HasMessage(reportQ[0]) /\ Head(reportQ[0]).type = "parse"
  BY DEF TakeRequest, TypeInv, TypeOK, PosixTypeOK, Generation
<1>2. Head(reportQ[0]) \in ToSet(reportQ[0])
  BY <1>1, ReceivedHolds DEF CapInv
<1>3. Head(reportQ[0]) \in Parse
  BY <1>1, <1>2, HeldTyped DEF Exit
<1>4. Owed(Head(reportQ[0]).tester, Head(reportQ[0]).loc_id)
  BY <1>1, <1>2, InPlace DEF OnlyOwed
<1> QED
  BY <1>3, <1>4 DEF Parse

LEMMA SessionSteps ==
    ASSUME ServedInv, [Next]_vars, NEW t \in Testers, testerSlots'[t] # testerSlots[t]
    PROVE  /\ UNCHANGED <<unlinked, testerQ, testerVars, exitPending>>
           /\ testerSlots'[t] \in TesterSlot
           /\ SessionRegistered(t) \/ SessionAsked(t) \/ SessionCounted(t)
<1> USE DEF ServedInv
<1>0. testerSlots \in [Testers -> TesterSlot \cup {NULL}]
  BY DEF TypeInv, TypeOK, ServerTypeOK
<1>1. ServerNext /\ UNCHANGED testerVars /\ (RegisterTester \/ TakeRequest \/ ReadRunResult)
  <2>1. ServerNext
    BY DEF Next, RunNext, CrashNext, TesterNext, Terminating, vars, serverVars, slotVars
  <2> QED
    BY <2>1 DEF ServerNext, ServerStep, Throttle, NoRunResult, SendAnswer, ReapNothing, ReapExited,
       ReapFailed, ReapFatal, reapUnchanged, NoRequest, TakeExitRequest, Spawn, SpawnFails,
       PushGraph, WaitAfterFailure, BroadcastExit, PrintReport, RemoveQueues, Unlink, FinalWait,
       OnExit, ExitWait, slotVars
<1>2. UNCHANGED <<unlinked, testerQ, testerVars, exitPending>>
  BY <1>1 DEF RegisterTester, TakeRequest, ReadRunResult, endVars
<1>3. CASE RegisterTester
  <2>1. Head(registerQ[0]) \in Testers /\ registerQ'[0] = Tail(registerQ[0])
    BY <1>3, ReceivedType
       DEF RegisterTester, Received, Generation, TypeInv, TypeOK, PosixTypeOK
  <2>2. testerSlots' = [testerSlots EXCEPT ![Head(registerQ[0])] = NewSession(Head(registerQ[0]))]
    BY <1>3 DEF RegisterTester
  <2>3. Head(registerQ[0]) = t /\ testerSlots'[t] = NewSession(t)
    BY <1>0, <2>1, <2>2
  <2>4. NewSession(t) \in TesterSlot
    BY NewSessionType
  <2> QED
    BY <1>2, <1>3, <2>1, <2>3, <2>4 DEF RegisterTester, HasMessage, SessionRegistered
<1>4. CASE TakeRequest
  <2>0. PICK session : session = IF testerSlots[t] = NULL THEN NewSession(t) ELSE testerSlots[t]
    OBVIOUS
  <2>1. Head(reportQ[0]).tester \in Testers
    BY <1>4, RequestOwed
  <2>2. Head(reportQ[0]).tester = t
    BY <1>0, <1>4, <2>1 DEF TakeRequest
  <2>3. testerSlots'[t] = [session EXCEPT !.rcd_count = session.rcd_count + 1]
    BY <1>0, <1>4, <2>0, <2>2 DEF TakeRequest
  <2>4. session \in TesterSlot
    BY <1>0, <2>0, NewSessionType
  <2>5. testerSlots'[t] \in TesterSlot
    BY <2>3, <2>4, CountedSlot
  <2>6. testerSlots'[t].queue = session.queue /\ testerSlots'[t].acc_count = session.acc_count
    BY <2>3, <2>4 DEF TesterSlot
  <2>7. /\ session.queue = IF testerSlots[t] = NULL THEN OpenQueue(t) ELSE testerSlots[t].queue
        /\ session.acc_count = IF testerSlots[t] = NULL THEN 0 ELSE testerSlots[t].acc_count
    BY <2>0 DEF NewSession
  <2>8. \E l \in LocIds : Owed(t, l)
    BY <1>4, <2>2, RequestOwed
  <2>9. serverPc = "input" /\ serverPc' \in {"spawn", "onExit"} /\ UNCHANGED registerQ
    BY <1>4 DEF TakeRequest
  <2> QED
    BY <1>2, <2>5, <2>6, <2>7, <2>8, <2>9 DEF SessionAsked
<1>5. CASE ReadRunResult
  <2>1. serverPc = "runs" /\ UNCHANGED registerQ
    BY <1>5 DEF ReadRunResult
  <2>2. PICK u \in Sessions, n \in Nat :
          testerSlots' = [testerSlots EXCEPT ![u].acc_count = testerSlots[u].acc_count + n]
    <3>1. PICK n : n = IF Head(runQ[0]).result THEN 1 ELSE 0
      OBVIOUS
    <3>2. runSlots[Head(runQ[0]).pid] # NULL
      BY <1>5 DEF ReadRunResult
    <3>3. \E u \in MatchSession(runSlots[Head(runQ[0]).pid]) :
            testerSlots' = [testerSlots EXCEPT ![u].acc_count = testerSlots[u].acc_count + n]
      BY <1>5, <3>1, <3>2 DEF ReadRunResult
    <3>4. n \in Nat
      BY <3>1
    <3> QED
      BY <3>3, <3>4 DEF MatchSession
  <2>3. u = t /\ testerSlots[t] \in TesterSlot
    BY <1>0, <2>2 DEF Sessions
  <2>4. testerSlots'[t] = [testerSlots[t] EXCEPT !.acc_count = testerSlots[t].acc_count + n]
    BY <1>0, <2>2, <2>3
  <2>5. testerSlots'[t] \in TesterSlot
    BY <2>3, <2>4, CountedSlot
  <2>6. /\ testerSlots'[t].queue = testerSlots[t].queue
        /\ testerSlots'[t].acc_count >= testerSlots[t].acc_count
    BY <2>3, <2>4 DEF TesterSlot
  <2> QED
    BY <1>2, <2>1, <2>3, <2>5, <2>6, NullAssumption DEF SessionCounted
<1> QED
  BY <1>1, <1>3, <1>4, <1>5

-----------------------------------------------------------------------------
(* THE QUEUE OF A TESTER THAT IS GONE                                      *)

(* Who gets "exit" in the broadcast.                                        *)
LEMMA ExitGoes ==
    ASSUME TypeInv, exitPending \subseteq Sessions, BroadcastExit
    PROVE  \E t \in exitPending, gen \in Generation :
             /\ t \in Testers /\ testerSlots[t] # NULL /\ gen = testerSlots[t].queue
             /\ serverPc = "broadcast" /\ serverPc' = "broadcast"
             /\ exitPending' = exitPending \ {t}
             /\ testerQ[t] \in [Generation -> Seq(Answer \cup {Exit})]
             /\ testerQ'[t][gen] = Append(testerQ[t][gen], Exit)
             /\ \A g \in Generation \ {gen} : testerQ'[t][g] = testerQ[t][g]
             /\ \A u \in Testers \ {t} : testerQ'[u] = testerQ[u]
<1>0. PICK t \in exitPending :
        /\ testerQ' = [testerQ EXCEPT ![t] = Sent(testerQ[t], testerSlots[t].queue, Exit)]
        /\ exitPending' = exitPending \ {t}
  BY DEF BroadcastExit
<1>1. t \in Testers /\ testerSlots[t] # NULL /\ testerSlots[t] \in TesterSlot
  BY DEF Sessions, TypeInv, TypeOK, ServerTypeOK
<1>2. PICK gen \in Generation : gen = testerSlots[t].queue
  BY <1>1 DEF TesterSlot
<1>3. /\ testerQ[t] \in [Generation -> Seq(Answer \cup {Exit})]
      /\ testerQ'[t] = Sent(testerQ[t], gen, Exit)
      /\ \A u \in Testers \ {t} : testerQ'[u] = testerQ[u]
  BY <1>0, <1>1, <1>2 DEF TypeInv, TypeOK, PosixTypeOK
<1>4. /\ testerQ'[t][gen] = Append(testerQ[t][gen], Exit)
      /\ \A g \in Generation \ {gen} : testerQ'[t][g] = testerQ[t][g]
  BY <1>3 DEF Sent
<1>5. serverPc = "broadcast" /\ serverPc' = "broadcast"
  BY DEF BroadcastExit
<1> QED
  BY <1>0, <1>1, <1>2, <1>3, <1>4, <1>5

(* A tester that is done stays so, and its name goes when it is done.       *)
LEMMA UnlinkSteps ==
    ASSUME TypeInv, [Next]_vars, NEW t \in Testers
    PROVE  /\ testerPc[t] = "done" => testerPc'[t] = "done"
           /\ t \in unlinked => t \in unlinked'
           /\ t \in unlinked' => t \in unlinked \/ testerPc'[t] = "done"
<1>1. CASE ServerNext
  <2>1. testerPc' = testerPc
    BY <1>1 DEF ServerNext, testerVars
  <2>2. CASE RemoveQueues
    <3>1. t \notin {"report", "run", "register"}
      BY PosixAssumption DEF PosixAssumption, ServerQueues
    <3> QED
      BY <2>1, <2>2, <3>1 DEF RemoveQueues, Unlink
  <2>3. CASE ~ RemoveQueues
    <3>1. unlinked' = unlinked
      BY <1>1, <2>3 DEF ServerNext, ServerStep, RegisterTester, Throttle, NoRunResult, ReadRunResult,
         SendAnswer, ReapNothing, ReapExited, ReapFailed, ReapFatal, reapUnchanged, NoRequest,
         TakeExitRequest, TakeRequest, Spawn, SpawnFails, PushGraph, WaitAfterFailure,
         BroadcastExit, PrintReport, FinalWait, OnExit, ExitWait, posixVars, queueVars
    <3> QED
      BY <2>1, <3>1
  <2> QED
    BY <2>2, <2>3
<1>2. ASSUME NEW w \in Pids, RunNext(w) \/ CrashNext(w) PROVE UNCHANGED <<testerPc, unlinked>>
  BY <1>2 DEF RunNext, CrashNext, RunStep, OpenQueues, ReadGraph, CommitResult, ExitRun, Crash,
              queueVars, testerVars
<1>3. ASSUME NEW u \in Testers, TesterNext(u)
      PROVE  /\ testerPc[t] = "done" => testerPc'[t] = "done"
             /\ t \in unlinked => t \in unlinked'
             /\ t \in unlinked' => t \in unlinked \/ testerPc'[t] = "done"
  <2>1. CASE CloseTester(u)
    BY <1>3, <2>1 DEF CloseTester, Goto, TypeInv, TypeOK, TesterTypeOK
  <2>2. CASE ~ CloseTester(u)
    <3>1. unlinked' = unlinked /\ testerPc[u] # "done"
      BY <1>3, <2>2 DEF TesterNext, TesterStep, OpenRegister, Register, OpenReport, ReadLine,
         SendExit, SendWord, TakeAnswer, TakeExit, PollNothing, posixVars, queueVars
    <3>2. testerPc[t] = "done" => testerPc'[t] = "done"
      BY <1>3, <3>1, OtherTester
    <3> QED
      BY <3>1, <3>2
  <2> QED
    BY <2>1, <2>2
<1>4. CASE UNCHANGED vars
  BY <1>4 DEF vars, posixVars, queueVars, testerVars
<1> QED
  BY <1>1, <1>2, <1>3, <1>4 DEF Next, Terminating

(* Only a tester that is done has unlinked its queue; only then is its      *)
(* second queue in use; and "exit" is for those that have a session.        *)
GenInv ==
    /\ \A t \in Testers :
         /\ t \in unlinked => testerPc[t] = "done"
         /\ testerSlots[t] # NULL /\ testerSlots[t].queue = 1 => t \in unlinked
         /\ t \notin unlinked => testerQ[t][1] = <<>>
    /\ exitPending \subseteq Sessions

LEMMA GenStep ==
    ASSUME ServedInv, GenInv, [Next]_vars
    PROVE  GenInv'
<1> USE DEF ServedInv
<1>1. \A t \in Testers : t \in unlinked' => testerPc'[t] = "done"
  BY UnlinkSteps DEF GenInv
<1>2. ASSUME NEW t \in Testers, testerSlots'[t] # NULL, testerSlots'[t].queue = 1
      PROVE  t \in unlinked'
  <2>1. CASE testerSlots'[t] = testerSlots[t]
    BY <1>2, <2>1, UnlinkSteps DEF GenInv
  <2>2. CASE testerSlots'[t] # testerSlots[t]
    <3>1. CASE SessionRegistered(t)
      BY <1>2, <2>2, <3>1, SessionSteps DEF SessionRegistered, NewSession, OpenQueue
    <3>2. CASE SessionAsked(t)
      <4>1. CASE testerSlots[t] = NULL
        BY <1>2, <2>2, <3>2, <4>1, SessionSteps DEF SessionAsked, OpenQueue
      <4>2. CASE testerSlots[t] # NULL
        BY <1>2, <2>2, <3>2, <4>2, SessionSteps DEF SessionAsked, GenInv
      <4> QED
        BY <4>1, <4>2
    <3>3. CASE SessionCounted(t)
      BY <1>2, <2>2, <3>3, SessionSteps DEF SessionCounted, GenInv
    <3> QED
      BY <2>2, <3>1, <3>2, <3>3, SessionSteps
  <2> QED
    BY <2>1, <2>2
<1>3. ASSUME NEW t \in Testers, t \notin unlinked'
      PROVE  testerQ'[t][1] = <<>>
  <2>1. t \notin unlinked /\ testerQ[t][1] = <<>> /\ 1 \in Generation /\ 1 # 0
    BY <1>3, UnlinkSteps DEF GenInv, Generation
  <2>2. CASE testerQ' = testerQ
    BY <2>1, <2>2
  <2>3. CASE SendAnswer
    <3>0. PICK u \in Testers, gen \in Generation, msg \in Answer :
            /\ testerSlots[u] # NULL /\ gen = testerSlots[u].queue
            /\ testerQ'[u] = Sent(testerQ[u], gen, msg)
            /\ \A v \in Testers \ {u} : testerQ'[v] = testerQ[v]
      BY <2>3, AnswerGoes
    <3>1. CASE u = t
      <4>1. gen # 1
        BY <2>1, <3>0, <3>1 DEF GenInv
      <4>2. testerQ[t] \in [Generation -> Seq(Answer \cup {Exit})]
        BY ExitOrAnswer, <2>1
      <4> QED
        BY <2>1, <3>0, <3>1, <4>1, <4>2 DEF Sent
    <3>2. CASE u # t
      BY <2>1, <3>0, <3>2
    <3> QED
      BY <3>1, <3>2
  <2>4. CASE BroadcastExit
    <3>0. PICK u \in exitPending, gen \in Generation :
            /\ u \in Testers /\ testerSlots[u] # NULL /\ gen = testerSlots[u].queue
            /\ \A g \in Generation \ {gen} : testerQ'[u][g] = testerQ[u][g]
            /\ \A v \in Testers \ {u} : testerQ'[v] = testerQ[v]
      BY <2>4, ExitGoes DEF GenInv
    <3>1. CASE u = t
      <4>1. gen # 1
        BY <2>1, <3>0, <3>1 DEF GenInv
      <4> QED
        BY <2>1, <3>0, <3>1, <4>1
    <3>2. CASE u # t
      BY <2>1, <3>0, <3>2
    <3> QED
      BY <3>1, <3>2
  <2>5. ASSUME NEW u \in Testers, TakeAnswer(u) \/ TakeExit(u)
        PROVE  testerQ'[t][1] = <<>>
    <3>1. /\ \A g \in Generation \ {0} : testerQ'[u][g] = testerQ[u][g]
          /\ \A v \in Testers \ {u} : testerQ'[v] = testerQ[v]
      BY <2>5, HeadTaken
    <3> QED
      BY <2>1, <3>1
  <2> QED
    BY <2>2, <2>3, <2>4, <2>5, QueueSteps
<1>4. exitPending' \subseteq Sessions'
  <2>1. Sessions \subseteq Sessions'
    <3>1. ASSUME NEW t \in Testers, testerSlots[t] # NULL PROVE testerSlots'[t] # NULL
      BY <3>1, SessionSteps, NullAssumption
    <3> QED
      BY <3>1 DEF Sessions
  <2>2. exitPending' \subseteq exitPending \/ exitPending' \subseteq Sessions
    <3>1. CASE ServerNext
      <4>1. CASE ReapNothing \/ ReapExited \/ ReapFailed
        BY <4>1 DEF ReapNothing, ReapExited, ReapFailed, AfterReap
      <4>2. CASE WaitAfterFailure \/ BroadcastExit
        BY <4>2 DEF WaitAfterFailure, BroadcastExit
      <4>3. CASE ~ (ReapNothing \/ ReapExited \/ ReapFailed \/ WaitAfterFailure \/ BroadcastExit)
        BY <3>1, <4>3 DEF ServerNext, ServerStep, RegisterTester, Throttle, NoRunResult,
           ReadRunResult, SendAnswer, ReapFatal, NoRequest, TakeExitRequest, TakeRequest, Spawn,
           SpawnFails, PushGraph, PrintReport, RemoveQueues, Unlink, FinalWait, OnExit, ExitWait,
           endVars
      <4> QED
        BY <4>1, <4>2, <4>3
    <3>2. CASE UNCHANGED serverVars
      BY <3>2 DEF serverVars, endVars
    <3> QED
      BY <3>1, <3>2 DEF Next, RunNext, CrashNext, TesterNext, Terminating, vars
  <2> QED
    BY <2>1, <2>2 DEF GenInv
<1> QED
  BY <1>1, <1>2, <1>3, <1>4 DEF GenInv

LEMMA CountInit == Init => CountInv
<1> SUFFICES ASSUME Init, NEW t \in Testers
             PROVE  req_count[t] = ans_count[t] + Cardinality(OwedBy(t))
  BY DEF CountInv
<1>1. \A l \in LocIds : results[t][l] = NULL
  BY DEF Init, TesterInit
<1>2. OwedBy(t) = {}
  BY <1>1 DEF OwedBy, Owed
<1>3. Cardinality(OwedBy(t)) = 0
  BY <1>2, FS_EmptySet
<1> QED
  BY <1>3 DEF Init, TesterInit

LEMMA GenInit == Init => GenInv
  BY DEF Init, PosixInit, ServerInit, GenInv, Sessions, Generation

-----------------------------------------------------------------------------
(* NO ANSWER IS LEFT UNREAD                                                *)

Closed == {"close", "done"}

(* A tester that left its loop has nothing but "exit" in its queues, and it *)
(* is owed nothing, unless the server has ended its own loop.               *)
ClosedInv ==
    \A t \in Testers :
        testerPc[t] \in Closed =>
            /\ \A g \in Generation : \A i \in 1 .. Len(testerQ[t][g]) : testerQ[t][g][i] = Exit
            /\ serverPc \in Ending \/ \A l \in LocIds : ~ Owed(t, l)

(* A tester leaves its loop in three ways, and stays out of it.             *)
LEMMA ClosedSteps ==
    ASSUME TypeInv, [Next]_vars, NEW t \in Testers
    PROVE  /\ testerPc[t] \in Closed =>
                /\ testerPc'[t] \in Closed
                /\ \A l \in LocIds : Owed(t, l)' <=> Owed(t, l)
           /\ testerPc[t] \notin Closed /\ testerPc'[t] \in Closed =>
                /\ TesterNext(t)
                /\ \/ PollNothing(t) /\ req_count'[t] <= ans_count'[t]
                   \/ TakeAnswer(t) /\ req_count'[t] <= ans_count'[t]
                   \/ TakeExit(t)
<1> USE DEF Closed
<1>1. CASE UNCHANGED testerVars
  BY <1>1 DEF testerVars, Owed
<1>2. ASSUME NEW u \in Testers \ {t}, TesterNext(u)
      PROVE  testerPc'[t] = testerPc[t] /\ results'[t] = results[t] /\ loc_id'[t] = loc_id[t]
  BY <1>2, OtherTester
<1>3. CASE TesterNext(t)
  <2> USE DEF TypeInv, TypeOK, TesterTypeOK, Goto
  <2>1. CASE OpenRegister(t) \/ Register(t) \/ OpenReport(t) \/ SendExit(t) \/ SendWord(t)
    BY <2>1 DEF OpenRegister, Register, OpenReport, SendExit, SendWord
  <2>2. CASE ReadLine(t)
    BY <2>2 DEF ReadLine
  <2>3. CASE TakeAnswer(t)
    <3>0. PICK n : n = ans_count[t]
                       + (IF results[t][Head(testerQ[t][0]).loc_id] # NULL THEN 1 ELSE 0)
      OBVIOUS
    <3>1. /\ n \in Nat
          /\ ans_count' = [ans_count EXCEPT ![t] = n] /\ UNCHANGED req_count
          /\ LoopBack(t, read_input[t], req_count[t], n)
      <4>1. n \in Nat
        BY <3>0
      <4> HIDE DEF TypeInv, TypeOK, TesterTypeOK, Goto
      <4>2. /\ ans_count' = [ans_count EXCEPT ![t] = n] /\ UNCHANGED req_count
            /\ LoopBack(t, read_input[t], req_count[t], n)
        BY <2>3, <3>0 DEF TakeAnswer
      <4> QED
        BY <4>1, <4>2
    <3>2. testerPc[t] = "poll" /\ (testerPc'[t] \in Closed => ~ (n < req_count[t]))
      BY <2>3, <3>1 DEF TakeAnswer, LoopBack
    <3>3. ans_count'[t] = n /\ req_count'[t] = req_count[t] /\ req_count[t] \in Nat
      BY <3>1
    <3>4. testerPc'[t] \in Closed => req_count'[t] <= ans_count'[t]
      BY <3>1, <3>2, <3>3
    <3> QED
      BY <1>3, <2>3, <3>2, <3>4
  <2>4. CASE PollNothing(t)
    <3>1. testerPc[t] = "poll" /\ (testerPc'[t] \in Closed => ~ (ans_count[t] < req_count[t]))
      BY <2>4 DEF PollNothing, LoopBack
    <3>2. UNCHANGED <<ans_count, req_count>> /\ ans_count[t] \in Nat /\ req_count[t] \in Nat
      BY <2>4 DEF PollNothing
    <3>3. testerPc'[t] \in Closed => req_count'[t] <= ans_count'[t]
      BY <3>1, <3>2
    <3> QED
      BY <1>3, <2>4, <3>1, <3>3
  <2>5. CASE TakeExit(t)
    BY <1>3, <2>5 DEF TakeExit
  <2>6. CASE CloseTester(t)
    BY <2>6 DEF CloseTester, Owed
  <2> QED
    BY <1>3, <2>1, <2>2, <2>3, <2>4, <2>5, <2>6 DEF TesterNext, TesterStep
<1> QED
  BY <1>1, <1>2, <1>3 DEF Next, ServerNext, RunNext, CrashNext, Terminating, vars, Owed

LEMMA ClosedStep ==
    ASSUME ServedInv, ServedInv', ExitInv, GenInv, CountInv', ClosedInv, [Next]_vars
    PROVE  ClosedInv'
<1> USE DEF ServedInv, AnswerInv
<1> SUFFICES ASSUME NEW t \in Testers, testerPc'[t] \in Closed
             PROVE  /\ \A g \in Generation : \A i \in 1 .. Len(testerQ'[t][g]) :
                         testerQ'[t][g][i] = Exit
                    /\ serverPc' \in Ending \/ \A l \in LocIds : ~ Owed(t, l)'
  BY DEF ClosedInv
<1>1. CASE testerPc[t] \in Closed
  <2>1. serverPc' \in Ending \/ \A l \in LocIds : ~ Owed(t, l)'
    BY <1>1, ClosedSteps, EndingKept DEF ClosedInv
  <2>2. \A g \in Generation : \A i \in 1 .. Len(testerQ[t][g]) : testerQ[t][g][i] = Exit
    BY <1>1 DEF ClosedInv
  <2>3. CASE testerQ' = testerQ
    BY <2>1, <2>2, <2>3
  <2>4. CASE SendAnswer
    <3>0. PICK u \in Testers, w \in Pids, l \in LocIds :
            /\ runSlots[w] = [loc_id |-> l, tester |-> u] /\ runSlots[w] \in RunSlot
            /\ \A v \in Testers \ {u} : testerQ'[v] = testerQ[v]
      BY <2>4, AnswerGoes
    <3>1. Owed(u, l)
      BY <3>0, InPlace, NullAssumption DEF OnlyOwed
    <3>2. u # t
      BY <1>1, <2>4, <3>1 DEF ClosedInv, SendAnswer, Ending
    <3> QED
      BY <2>1, <2>2, <3>0, <3>2
  <2>5. CASE BroadcastExit
    <3>0. PICK u \in Testers, gen \in Generation :
            /\ testerQ[u] \in [Generation -> Seq(Answer \cup {Exit})]
            /\ testerQ'[u][gen] = Append(testerQ[u][gen], Exit)
            /\ \A g \in Generation \ {gen} : testerQ'[u][g] = testerQ[u][g]
            /\ \A v \in Testers \ {u} : testerQ'[v] = testerQ[v]
      BY <2>5, ExitGoes DEF GenInv
    <3>1. CASE u = t
      <4>1. \A i \in 1 .. Len(testerQ'[t][gen]) : testerQ'[t][gen][i] = Exit
        BY <2>2, <3>0, <3>1
      <4> QED
        BY <2>1, <2>2, <3>0, <3>1, <4>1
    <3>2. CASE u # t
      BY <2>1, <2>2, <3>0, <3>2
    <3> QED
      BY <3>1, <3>2
  <2>6. ASSUME NEW u \in Testers, TakeAnswer(u) \/ TakeExit(u)
        PROVE  testerQ'[t] = testerQ[t]
    <3>1. testerPc[u] = "poll" /\ \A v \in Testers \ {u} : testerQ'[v] = testerQ[v]
      BY <2>6, HeadTaken
    <3> QED
      BY <1>1, <3>1 DEF Closed
  <2> QED
    BY <2>1, <2>2, <2>3, <2>4, <2>5, <2>6, QueueSteps
<1>2. CASE testerPc[t] \notin Closed
  <2>1. /\ TesterNext(t)
        /\ req_count'[t] <= ans_count'[t] \/ TakeExit(t)
    BY <1>2, ClosedSteps
  <2>2. CASE req_count'[t] <= ans_count'[t]
    <3>1. /\ req_count'[t] = ans_count'[t] + Cardinality(OwedBy(t)')
          /\ req_count'[t] \in Nat /\ ans_count'[t] \in Nat
      BY DEF CountInv, TypeInv, TypeOK, TesterTypeOK
    <3>2. IsFiniteSet(OwedBy(t)') /\ Cardinality(OwedBy(t)') \in Nat
      <4>1. OwedBy(t)' \in SUBSET LocIds /\ IsFiniteSet(LocIds)
        BY FS_Interval, PosixAssumption DEF OwedBy, PosixAssumption, LocIds
      <4> QED
        BY <4>1, FS_Subset, FS_CardinalityType
    <3>3. Cardinality(OwedBy(t)') = 0
      BY <2>2, <3>1, <3>2
    <3>4. OwedBy(t)' = {}
      BY <3>2, <3>3, FS_EmptySet
    <3>5. \A l \in LocIds : ~ Owed(t, l)'
      BY <3>4 DEF OwedBy
    <3>6. ASSUME NEW g \in Generation, NEW i \in 1 .. Len(testerQ'[t][g])
          PROVE  testerQ'[t][g][i] = Exit
      <4>1. /\ testerQ'[t][g] \in Seq(Answer \cup {Exit})
            /\ testerQ'[t][g][i] \in Answer \cup {Exit}
        BY <3>6 DEF TypeInv, TypeOK, PosixTypeOK
      <4>2. PICK msg \in Answer \cup {Exit} : msg = testerQ'[t][g][i]
        BY <4>1
      <4>3. msg \in ToSet(testerQ'[t][g])
        BY <3>6, <4>1, <4>2 DEF ToSet
      <4>4. msg \notin Answer
        <5>1. msg.type = "answer" => Owed(t, msg.loc_id)'
          BY <4>3, InPlaceNext DEF OnlyOwed
        <5> QED
          BY <3>5, <5>1 DEF Answer
      <4> QED
        BY <4>2, <4>4
    <3> QED
      BY <3>5, <3>6
  <2>3. CASE TakeExit(t)
    <3>1. /\ HasMessage(testerQ[t][0]) /\ 0 \in Generation
          /\ testerQ[t] \in [Generation -> Seq(Answer \cup {Exit})]
          /\ testerQ'[t][0] = Tail(testerQ[t][0])
          /\ \A g \in Generation \ {0} : testerQ'[t][g] = testerQ[t][g]
          /\ testerPc[t] = "poll"
      BY <2>3, HeadTaken
    <3>2. 1 \in 1 .. Len(testerQ[t][0]) /\ testerQ[t][0][1] = Exit
      <4>1. testerQ[t][0] \in Seq(Answer \cup {Exit}) /\ 1 \in 1 .. Len(testerQ[t][0])
        BY <3>1 DEF HasMessage
      <4>2. Head(testerQ[t][0]) = testerQ[t][0][1] /\ testerQ[t][0][1].type = "exit"
        BY <2>3, <4>1 DEF TakeExit
      <4> QED
        BY <3>1, <4>1, <4>2, ExitOrAnswer
    <3>3. Len(testerQ[t][0]) = 1 /\ serverPc \in Ending
      BY <3>1, <3>2 DEF ExitInv, ExitLast, ExitTold
    <3>4. Len(testerQ'[t][0]) = 0
      <4>1. testerQ[t][0] \in Seq(Answer \cup {Exit}) /\ testerQ[t][0] # <<>>
        BY <3>1 DEF HasMessage
      <4> QED
        BY <3>1, <3>3, <4>1, TailShift
    <3>5. testerQ'[t][1] = <<>>
      BY <3>1 DEF GenInv, Generation
    <3>6. serverPc' \in Ending
      BY <3>3, EndingKept
    <3> QED
      BY <3>4, <3>5, <3>6 DEF Generation
  <2> QED
    BY <2>1, <2>2, <2>3
<1> QED
  BY <1>1, <1>2

LEMMA ClosedInit == Init => ClosedInv
  BY DEF Init, TesterInit, ClosedInv, Closed

(* Everything that was shown of a step so far.                              *)
ReadInv == ServedInv /\ ExitInv /\ CountInv /\ GenInv /\ ClosedInv

LEMMA ReadInit == Init => ReadInv
  BY ServedInit, ExitInit, CountInit, GenInit, ClosedInit DEF ReadInv

LEMMA ReadStep == ReadInv /\ [Next]_vars => ReadInv'
<1> SUFFICES ASSUME ReadInv, [Next]_vars PROVE ReadInv'
  OBVIOUS
<1> USE DEF ReadInv
<1>1. ServedInv'
  BY ServedStep
<1>2. ExitInv' /\ CountInv' /\ GenInv'
  BY ExitStep, CountStep, GenStep
<1>3. ClosedInv'
  BY <1>1, <1>2, ClosedStep
<1> QED
  BY <1>1, <1>2, <1>3

(* A tester that has left its loop has read every answer that was sent to   *)
(* it, and none comes later (tester.c:119-186): it leaves when the counters *)
(* say that nothing is owed, or on "exit", which is the last message.       *)
THEOREM EveryAnswerRead == Spec => []NoUnreadAnswer
<1>1. ASSUME ReadInv, NEW t \in Testers, NEW g \in Generation, testerPc[t] \in Closed,
             NEW msg \in ToSet(testerQ[t][g])
      PROVE  msg.type = "exit"
  <2>1. PICK i \in 1 .. Len(testerQ[t][g]) : msg = testerQ[t][g][i]
    BY DEF ToSet
  <2>2. msg = Exit
    BY <1>1, <2>1 DEF ReadInv, ClosedInv
  <2> QED
    BY <2>2 DEF Exit
<1>2. ReadInv => NoUnreadAnswer
  BY <1>1 DEF NoUnreadAnswer, Closed
<1> QED
  BY ReadInit, ReadStep, <1>2, PTL DEF Spec

-----------------------------------------------------------------------------
(* A REGISTRATION THAT COMES LATE                                          *)

(* What is owed stays owed until the answer is taken.                       *)
LEMMA OwedKept ==
    ASSUME ServedInv, [Next]_vars, NEW t \in Testers, ~ TakeAnswer(t), NEW l \in LocIds,
           Owed(t, l)
    PROVE  Owed(t, l)'
<1> USE DEF ServedInv, AnswerInv
<1>1. CASE UNCHANGED testerVars
  BY <1>1 DEF testerVars, Owed
<1>2. ASSUME NEW u \in Testers \ {t}, TesterNext(u)
      PROVE  testerPc'[t] = testerPc[t] /\ results'[t] = results[t] /\ loc_id'[t] = loc_id[t]
  BY <1>2, OtherTester
<1>3. CASE TesterNext(t)
  <2>1. CASE ReadLine(t)
    BY <2>1, LineRead
  <2>2. CASE SendWord(t)
    BY <2>2, WordSent
  <2>3. CASE ~ ReadLine(t) /\ ~ SendWord(t)
    <3>1. results' = results /\ testerPc'[t] # "send"
      BY <1>3, <2>3 DEF TesterNext, TesterStep, OpenRegister, Register, OpenReport, SendExit,
         TakeExit, PollNothing, CloseTester, LoopBack, Goto, TypeInv, TypeOK, TesterTypeOK
    <3> QED
      BY <3>1 DEF Owed
  <2> QED
    BY <2>1, <2>2, <2>3
<1> QED
  BY <1>1, <1>2, <1>3 DEF Next, ServerNext, RunNext, CrashNext, Terminating, vars, Owed

(* The tester waits in the queue of registrations.                          *)
Queued(t) == \E i \in 1 .. Len(registerQ[0]) : registerQ[0][i] = t

(* A tester is there once at most, and nothing is known of it before.       *)
RegisterInv ==
    /\ \A i, j \in 1 .. Len(registerQ[0]) : registerQ[0][i] = registerQ[0][j] => i = j
    /\ \A t \in Testers :
         testerPc[t] \in {"openRegister", "register"} =>
             /\ ~ Queued(t)
             /\ testerSlots[t] = NULL
             /\ \A l \in LocIds : results[t][l] = NULL

(* A tester that waits there may have asked already: then its session was   *)
(* made for the request, the server is about to read the registration, and  *)
(* nothing was answered yet.                                                *)
LateInv ==
    \A t \in Testers :
        (Queued(t) /\ serverPc \notin Ending \cup {"failureWait"}) =>
            /\ \A g \in Generation : Len(testerQ[t][g]) = 0
            /\ testerSlots[t] # NULL =>
                 /\ serverPc \in {"spawn", "push", "register"}
                 /\ testerSlots[t].acc_count = 0
                 /\ testerSlots[t].queue = 0
                 /\ \E l \in LocIds : Owed(t, l)

(* Two steps touch the queue of registrations.                              *)
LEMMA RegisterSteps ==
    ASSUME TypeInv, [Next]_vars
    PROVE  /\ registerQ[0] \in Seq(Testers)
           /\ \/ registerQ'[0] = registerQ[0]
              \/ /\ ServerNext /\ RegisterTester
                 /\ registerQ[0] # <<>> /\ registerQ'[0] = Tail(registerQ[0])
              \/ \E t \in Testers :
                   /\ TesterNext(t) /\ Register(t)
                   /\ testerPc[t] = "register" /\ testerPc'[t] = "openReport"
                   /\ registerQ'[0] = Append(registerQ[0], t)
<1>0. registerQ \in [Generation -> Seq(Testers)] /\ 0 \in Generation
  BY DEF TypeInv, TypeOK, PosixTypeOK, Generation
<1>1. CASE ServerNext
  <2>1. CASE RegisterTester
    BY <1>0, <1>1, <2>1 DEF RegisterTester, HasMessage, Received
  <2>2. CASE ~ RegisterTester
    <3>1. registerQ' = registerQ
      BY <1>1, <2>2 DEF ServerNext, ServerStep, Throttle, NoRunResult, ReadRunResult,
         SendAnswer, ReapNothing, ReapExited, ReapFailed, ReapFatal, reapUnchanged, NoRequest,
         TakeExitRequest, TakeRequest, Spawn, SpawnFails, PushGraph, WaitAfterFailure,
         BroadcastExit, PrintReport, RemoveQueues, Unlink, FinalWait, OnExit, ExitWait,
         posixVars, queueVars
    <3> QED
      BY <1>0, <3>1
  <2> QED
    BY <2>1, <2>2
<1>2. ASSUME NEW w \in Pids, RunNext(w) \/ CrashNext(w) PROVE registerQ' = registerQ
  BY <1>2 DEF RunNext, CrashNext, RunStep, OpenQueues, ReadGraph, CommitResult, ExitRun, Crash,
              queueVars
<1>3. ASSUME NEW t \in Testers, TesterNext(t)
      PROVE  \/ registerQ'[0] = registerQ[0]
             \/ /\ TesterNext(t) /\ Register(t)
                /\ testerPc[t] = "register" /\ testerPc'[t] = "openReport"
                /\ registerQ'[0] = Append(registerQ[0], t)
  <2>1. CASE Register(t)
    <3>1. testerPc[t] = "register" /\ testerPc'[t] = "openReport"
      BY <2>1 DEF Register, Goto, TypeInv, TypeOK, TesterTypeOK
    <3>2. registerQ' = Sent(registerQ, registerHandle[t], t)
      BY <2>1 DEF Register
    <3> QED
      BY <1>0, <1>3, <2>1, <3>1, <3>2 DEF Sent
  <2>2. CASE ~ Register(t)
    BY <1>3, <2>2 DEF TesterNext, TesterStep, OpenRegister, OpenReport, ReadLine,
       SendExit, SendWord, TakeAnswer, TakeExit, PollNothing, CloseTester, posixVars, queueVars
  <2> QED
    BY <2>1, <2>2
<1>4. CASE UNCHANGED vars
  BY <1>0, <1>4 DEF vars, posixVars, queueVars
<1>5. \/ ServerNext
      \/ \E w \in Pids : RunNext(w) \/ CrashNext(w)
      \/ \E t \in Testers : TesterNext(t)
      \/ UNCHANGED vars
  BY DEF Next, Terminating
<1>6. CASE \E t \in Testers : TesterNext(t)
  BY <1>0, <1>3, <1>6
<1> QED
  BY <1>0, <1>1, <1>2, <1>4, <1>5, <1>6

(* A tester that has not registered has not done so before, nor asked.      *)
LEMMA EarlySteps ==
    ASSUME TypeInv, [Next]_vars, NEW t \in Testers,
           testerPc'[t] \in {"openRegister", "register"}
    PROVE  testerPc[t] \in {"openRegister", "register"} /\ results'[t] = results[t]
<1>1. CASE UNCHANGED testerVars
  BY <1>1 DEF testerVars
<1>2. ASSUME NEW u \in Testers \ {t}, TesterNext(u)
      PROVE  testerPc'[t] = testerPc[t] /\ results'[t] = results[t]
  BY <1>2, OtherTester
<1>3. CASE TesterNext(t)
  <2> USE DEF TypeInv, TypeOK, TesterTypeOK, Goto
  <2>1. CASE OpenRegister(t)
    BY <2>1 DEF OpenRegister
  <2>2. CASE Register(t) \/ OpenReport(t) \/ SendExit(t) \/ SendWord(t) \/ CloseTester(t)
    BY <2>2 DEF Register, OpenReport, SendExit, SendWord, CloseTester
  <2>3. CASE ReadLine(t)
    BY <2>3 DEF ReadLine
  <2>4. CASE TakeAnswer(t)
    BY <2>4 DEF TakeAnswer, LoopBack
  <2>5. CASE TakeExit(t) \/ PollNothing(t)
    BY <2>5 DEF TakeExit, PollNothing, LoopBack
  <2> QED
    BY <1>3, <2>1, <2>2, <2>3, <2>4, <2>5 DEF TesterNext, TesterStep
<1> QED
  BY <1>1, <1>2, <1>3 DEF Next, ServerNext, RunNext, CrashNext, Terminating, vars

(* A tester waits there once it has registered, until its turn.             *)
LEMMA QueuedSteps ==
    ASSUME TypeInv, RegisterInv, [Next]_vars, NEW t \in Testers, Queued(t)'
    PROVE  \/ /\ Queued(t)
              /\ testerPc'[t] \in {"openRegister", "register"} =>
                   testerPc[t] \in {"openRegister", "register"}
              /\ registerQ[0] # <<>> /\ registerQ'[0] = Tail(registerQ[0]) =>
                   Head(registerQ[0]) # t
           \/ TesterNext(t) /\ testerPc[t] = "register" /\ testerPc'[t] = "openReport"
<1>0. registerQ[0] \in Seq(Testers)
  BY RegisterSteps
<1>1. PICK i \in 1 .. Len(registerQ'[0]) : registerQ'[0][i] = t
  BY DEF Queued
<1>2. testerPc'[t] \in {"openRegister", "register"} => testerPc[t] \in {"openRegister", "register"}
  BY EarlySteps
<1>3. CASE registerQ[0] # <<>> /\ registerQ'[0] = Tail(registerQ[0])
  <2>2. /\ Len(registerQ[0]) \in Nat /\ Len(registerQ[0]) >= 1 /\ Head(registerQ[0]) = registerQ[0][1]
        /\ i + 1 \in 1 .. Len(registerQ[0]) /\ registerQ[0][i + 1] = t
    BY <1>0, <1>1, <1>3, TailShift
  <2>3. registerQ[0][1] # t
    BY <1>1, <2>2 DEF RegisterInv
  <2> QED
    BY <1>2, <2>2, <2>3 DEF Queued
<1>4. CASE registerQ'[0] = registerQ[0] /\ ~ (registerQ[0] # <<>> /\ registerQ'[0] = Tail(registerQ[0]))
  BY <1>1, <1>2, <1>4 DEF Queued
<1>5. ASSUME NEW u \in Testers, TesterNext(u), testerPc[u] = "register",
             testerPc'[u] = "openReport", registerQ'[0] = Append(registerQ[0], u),
             ~ (registerQ[0] # <<>> /\ registerQ'[0] = Tail(registerQ[0]))
      PROVE  Queued(t) \/ t = u
  <2>1. CASE i \in 1 .. Len(registerQ[0])
    BY <1>0, <1>1, <1>5, <2>1 DEF Queued
  <2>2. CASE i \notin 1 .. Len(registerQ[0])
    BY <1>0, <1>1, <1>5, <2>2
  <2> QED
    BY <2>1, <2>2
<1> QED
  BY <1>2, <1>3, <1>4, <1>5, RegisterSteps

LEMMA RegisterStep ==
    ASSUME ReadInv, RegisterInv, [Next]_vars
    PROVE  RegisterInv'
<1> USE DEF ReadInv, ServedInv
<1>0. registerQ[0] \in Seq(Testers)
  BY RegisterSteps
<1>1. ASSUME NEW i \in 1 .. Len(registerQ'[0]), NEW j \in 1 .. Len(registerQ'[0]),
             registerQ'[0][i] = registerQ'[0][j]
      PROVE  i = j
  <2>1. CASE registerQ'[0] = registerQ[0]
    BY <1>1, <2>1 DEF RegisterInv
  <2>2. CASE registerQ[0] # <<>> /\ registerQ'[0] = Tail(registerQ[0])
    <3>1. /\ i + 1 \in 1 .. Len(registerQ[0]) /\ j + 1 \in 1 .. Len(registerQ[0])
          /\ registerQ[0][i + 1] = registerQ[0][j + 1]
      BY <1>0, <1>1, <2>2, TailShift
    <3>2. i + 1 = j + 1
      BY <3>1 DEF RegisterInv
    <3> QED
      BY <3>2
  <2>3. ASSUME NEW t \in Testers, testerPc[t] = "register",
               registerQ'[0] = Append(registerQ[0], t)
        PROVE  i = j
    <3>1. /\ Len(registerQ[0]) \in Nat /\ Len(registerQ'[0]) = Len(registerQ[0]) + 1
          /\ registerQ'[0][Len(registerQ[0]) + 1] = t
          /\ \A k \in 1 .. Len(registerQ[0]) : registerQ'[0][k] = registerQ[0][k]
      BY <1>0, <2>3
    <3>2. \A k \in 1 .. Len(registerQ[0]) : registerQ[0][k] # t
      BY <2>3 DEF RegisterInv, Queued
    <3>3. CASE i \in 1 .. Len(registerQ[0]) /\ j \in 1 .. Len(registerQ[0])
      BY <1>1, <3>1, <3>3 DEF RegisterInv
    <3>4. CASE i \in 1 .. Len(registerQ[0]) /\ j = Len(registerQ[0]) + 1
      BY <1>1, <3>1, <3>2, <3>4
    <3>5. CASE j \in 1 .. Len(registerQ[0]) /\ i = Len(registerQ[0]) + 1
      BY <1>1, <3>1, <3>2, <3>5
    <3> QED
      BY <3>1, <3>3, <3>4, <3>5
  <2> QED
    BY <2>1, <2>2, <2>3, RegisterSteps
<1>2. ASSUME NEW t \in Testers, testerPc'[t] \in {"openRegister", "register"}
      PROVE  /\ ~ Queued(t)'
             /\ testerSlots'[t] = NULL
             /\ \A l \in LocIds : results'[t][l] = NULL
  <2>1. /\ testerPc[t] \in {"openRegister", "register"} /\ results'[t] = results[t]
        /\ ~ Queued(t) /\ testerSlots[t] = NULL
        /\ \A l \in LocIds : results[t][l] = NULL
    BY <1>2, EarlySteps DEF RegisterInv
  <2>2. ~ Queued(t)'
    BY <1>2, <2>1, QueuedSteps
  <2>3. testerSlots'[t] = NULL
    <3>1. ~ SessionRegistered(t)
      <4>1. SessionRegistered(t) => registerQ[0] # <<>> /\ registerQ[0][1] = t
        BY <1>0, TailShift DEF SessionRegistered
      <4>2. registerQ[0] # <<>> => 1 \in 1 .. Len(registerQ[0])
        BY <1>0, TailShift
      <4> QED
        BY <2>1, <4>1, <4>2 DEF Queued
    <3>2. ~ SessionAsked(t) /\ ~ SessionCounted(t)
      BY <2>1 DEF SessionAsked, SessionCounted, Owed
    <3> QED
      BY <2>1, <3>1, <3>2, SessionSteps
  <2> QED
    BY <2>1, <2>2, <2>3
<1> QED
  BY <1>1, <1>2 DEF RegisterInv

(* The server gets to the results only once nobody waits to register.       *)
LEMMA TurnSteps ==
    ASSUME TypeInv, [Next]_vars, serverPc' \notin Ending \cup {"failureWait"}
    PROVE  /\ serverPc \notin Ending \cup {"failureWait"}
           /\ serverPc \in {"spawn", "push", "register"} /\ registerQ[0] # <<>> =>
                serverPc' \in {"spawn", "push", "register"}
<1>1. CASE UNCHANGED serverPc
  BY <1>1
<1>2. CASE ServerNext
  <2>1. CASE RegisterTester \/ Throttle
    BY <2>1 DEF RegisterTester, Throttle, Drained, Ending
  <2>2. CASE NoRunResult \/ ReadRunResult \/ SendAnswer
    BY <2>2 DEF NoRunResult, ReadRunResult, SendAnswer, Ending
  <2>3. CASE ReapNothing \/ ReapExited \/ ReapFailed \/ ReapFatal
    BY <2>3 DEF ReapNothing, ReapExited, ReapFailed, ReapFatal, AfterReap, Ending
  <2>4. CASE NoRequest \/ TakeExitRequest \/ TakeRequest
    BY <2>4 DEF NoRequest, TakeExitRequest, TakeRequest, Ending
  <2>5. CASE Spawn \/ SpawnFails \/ PushGraph
    BY <2>5 DEF Spawn, SpawnFails, PushGraph, Ending
  <2>6. CASE WaitAfterFailure \/ BroadcastExit \/ PrintReport \/ RemoveQueues
    BY <2>6 DEF WaitAfterFailure, BroadcastExit, PrintReport, RemoveQueues, Unlink, Ending
  <2>7. CASE FinalWait \/ OnExit \/ ExitWait
    BY <2>7 DEF FinalWait, OnExit, ExitWait, Ending
  <2> QED
    BY <1>2, <2>1, <2>2, <2>3, <2>4, <2>5, <2>6, <2>7 DEF ServerNext, ServerStep
<1> QED
  BY <1>1, <1>2 DEF Next, RunNext, CrashNext, TesterNext, Terminating, vars, serverVars

(* A tester that is owed something has its queue still.                     *)
LEMMA OwedNotUnlinked ==
    ASSUME ReadInv, serverPc \notin Ending, NEW t \in Testers, NEW l \in LocIds, Owed(t, l)
    PROVE  t \notin unlinked /\ OpenQueue(t) = 0
  BY DEF ReadInv, GenInv, ClosedInv, Closed, OpenQueue

LEMMA LateStep ==
    ASSUME ReadInv, RegisterInv, LateInv, [Next]_vars
    PROVE  LateInv'
<1> USE DEF ReadInv, ServedInv
<1> SUFFICES ASSUME NEW t \in Testers, Queued(t)', serverPc' \notin Ending \cup {"failureWait"}
             PROVE  /\ \A g \in Generation : Len(testerQ'[t][g]) = 0
                    /\ testerSlots'[t] # NULL =>
                         /\ serverPc' \in {"spawn", "push", "register"}
                         /\ testerSlots'[t].acc_count = 0
                         /\ testerSlots'[t].queue = 0
                         /\ \E l \in LocIds : Owed(t, l)'
  BY DEF LateInv
<1>1. CASE /\ Queued(t)
           /\ registerQ[0] # <<>> /\ registerQ'[0] = Tail(registerQ[0]) => Head(registerQ[0]) # t
  <2>1. /\ serverPc \notin Ending \cup {"failureWait"}
        /\ \A g \in Generation : Len(testerQ[t][g]) = 0
        /\ testerSlots[t] # NULL =>
             /\ serverPc \in {"spawn", "push", "register"}
             /\ testerSlots[t].acc_count = 0
             /\ testerSlots[t].queue = 0
             /\ \E l \in LocIds : Owed(t, l)
    BY <1>1, TurnSteps DEF LateInv
  <2>2. ~ TakeAnswer(t) /\ ~ TakeExit(t)
    <3>1. TakeAnswer(t) \/ TakeExit(t) => Len(testerQ[t][0]) >= 1
      <4>1. TakeAnswer(t) \/ TakeExit(t) =>
              testerQ[t][0] # <<>> /\ testerQ[t][0] \in Seq(Answer \cup {Exit})
        BY HeadTaken DEF HasMessage
      <4> QED
        BY <4>1, TailShift
    <3> QED
      BY <2>1, <3>1 DEF Generation
  <2>3. \A g \in Generation : Len(testerQ'[t][g]) = 0
    <3>1. CASE SendAnswer
      <4>0. PICK u \in Testers :
              /\ testerSlots[u] # NULL /\ \A v \in Testers \ {u} : testerQ'[v] = testerQ[v]
        BY <3>1, AnswerGoes
      <4>1. u # t
        BY <2>1, <3>1, <4>0 DEF SendAnswer
      <4> QED
        BY <2>1, <4>0, <4>1
    <3>2. CASE BroadcastExit
      BY <2>1, <3>2 DEF BroadcastExit, Ending
    <3>3. ASSUME NEW u \in Testers, TakeAnswer(u) \/ TakeExit(u)
          PROVE  testerQ'[t] = testerQ[t]
      BY <2>2, <3>3, HeadTaken
    <3> QED
      BY <2>1, <3>1, <3>2, <3>3, QueueSteps
  <2>4. CASE testerSlots'[t] = testerSlots[t]
    <3>1. registerQ[0] # <<>>
      BY <1>1, RegisterSteps DEF Queued
    <3>2. testerSlots[t] # NULL => serverPc' \in {"spawn", "push", "register"}
      BY <2>1, <3>1, TurnSteps
    <3>3. testerSlots[t] # NULL => \E l \in LocIds : Owed(t, l)'
      BY <2>1, <2>2, OwedKept
    <3> QED
      BY <2>1, <2>3, <2>4, <3>2, <3>3
  <2>5. CASE testerSlots'[t] # testerSlots[t]
    <3>1. ~ SessionRegistered(t)
      BY <1>1 DEF SessionRegistered
    <3>2. ~ SessionCounted(t)
      BY <2>1 DEF SessionCounted
    <3>3. SessionAsked(t)
      BY <2>5, <3>1, <3>2, SessionSteps
    <3>4. testerSlots[t] = NULL /\ serverPc' = "spawn"
      BY <2>1, <3>3 DEF SessionAsked, Ending
    <3>5. PICK l \in LocIds : Owed(t, l)
      BY <3>3 DEF SessionAsked
    <3>6. Owed(t, l)'
      BY <2>2, <3>5, OwedKept
    <3>7. OpenQueue(t) = 0
      BY <2>1, <3>5, OwedNotUnlinked
    <3>8. testerSlots'[t].queue = 0 /\ testerSlots'[t].acc_count = 0
      BY <3>3, <3>4, <3>7 DEF SessionAsked
    <3> QED
      BY <2>3, <3>4, <3>6, <3>8
  <2> QED
    BY <2>4, <2>5
<1>2. CASE TesterNext(t) /\ testerPc[t] = "register" /\ testerPc'[t] = "openReport"
  <2>1. testerSlots[t] = NULL /\ \A l \in LocIds : results[t][l] = NULL
    BY <1>2 DEF RegisterInv
  <2>2. serverPc' = serverPc /\ testerSlots' = testerSlots
    BY <1>2 DEF TesterNext, serverVars, slotVars
  <2>3. testerQ'[t] = testerQ[t]
    <3>1. ASSUME NEW u \in Testers, TakeAnswer(u) \/ TakeExit(u)
          PROVE  testerQ'[t] = testerQ[t]
      <4>1. testerPc[u] = "poll" /\ \A v \in Testers \ {u} : testerQ'[v] = testerQ[v]
        BY <3>1, HeadTaken
      <4> QED
        BY <1>2, <4>1
    <3>2. ~ ServerNext
      BY <1>2 DEF ServerNext, testerVars
    <3> QED
      BY <3>1, <3>2, QueueSteps
  <2>4. ASSUME NEW g \in Generation, NEW i \in 1 .. Len(testerQ[t][g])
        PROVE  FALSE
    <3>1. testerQ[t][g][i] # Exit
      BY <2>2 DEF ExitInv, ExitTold
    <3>2. testerQ[t][g][i] \in Answer /\ testerQ[t][g][i].type = "answer"
      BY <3>1, ExitOrAnswer
    <3>3. testerQ[t][g][i] \in ToSet(testerQ[t][g])
      BY HeldTyped DEF ToSet
    <3>4. Owed(t, testerQ[t][g][i].loc_id)
      BY <3>2, <3>3, InPlace DEF OnlyOwed, AnswerInv
    <3> QED
      BY <2>1, <3>2, <3>4 DEF Owed, Answer
  <2>5. ASSUME NEW g \in Generation PROVE Len(testerQ[t][g]) = 0
    <3>1. Len(testerQ[t][g]) \in Nat
      BY ExitOrAnswer
    <3> QED
      BY <2>4, <3>1
  <2> QED
    BY <2>1, <2>2, <2>3, <2>5
<1> QED
  BY <1>1, <1>2, QueuedSteps

LEMMA LateInit == Init => RegisterInv /\ LateInv
<1> SUFFICES ASSUME Init PROVE RegisterInv /\ LateInv
  OBVIOUS
<1>1. Len(registerQ[0]) = 0
  BY DEF Init, PosixInit, Generation
<1>2. \A t : ~ Queued(t)
  BY <1>1 DEF Queued
<1>3. \A t \in Testers : testerSlots[t] = NULL /\ \A l \in LocIds : results[t][l] = NULL
  BY DEF Init, ServerInit, TesterInit
<1> QED
  BY <1>1, <1>2, <1>3 DEF RegisterInv, LateInv

LEMMA KeptStep ==
    ASSUME ReadInv, RegisterInv, LateInv, [Next]_vars, NEW t \in Sessions
    PROVE  /\ testerSlots'[t] # NULL
           /\ testerSlots'[t].acc_count >= testerSlots[t].acc_count
           /\ testerSlots'[t].queue = testerSlots[t].queue
<1> USE DEF ReadInv, ServedInv
<1>0. t \in Testers /\ testerSlots[t] # NULL /\ testerSlots[t] \in TesterSlot
  BY DEF Sessions, TypeInv, TypeOK, ServerTypeOK
<1>1. testerSlots[t].acc_count \in Nat
  BY <1>0 DEF TesterSlot
<1>2. CASE testerSlots'[t] = testerSlots[t]
  BY <1>0, <1>1, <1>2
<1>3. CASE testerSlots'[t] # testerSlots[t]
  <2>0. testerSlots'[t] # NULL
    BY <1>0, <1>3, SessionSteps, NullAssumption
  <2>1. CASE SessionRegistered(t)
    <3>1. Queued(t)
      <4>1. registerQ[0] \in Seq(Testers) /\ registerQ[0] # <<>> /\ Head(registerQ[0]) = t
        BY <2>1, RegisterSteps DEF SessionRegistered
      <4>2. 1 \in 1 .. Len(registerQ[0]) /\ registerQ[0][1] = t
        BY <4>1, TailShift
      <4> QED
        BY <4>2 DEF Queued
    <3>2. serverPc \notin Ending \cup {"failureWait"}
      BY <2>1 DEF SessionRegistered, Ending
    <3>3. /\ testerSlots[t].acc_count = 0 /\ testerSlots[t].queue = 0
          /\ \E l \in LocIds : Owed(t, l)
      BY <1>0, <3>1, <3>2 DEF LateInv
    <3>4. OpenQueue(t) = 0
      BY <1>0, <3>2, <3>3, OwedNotUnlinked
    <3> QED
      BY <2>0, <2>1, <3>3, <3>4 DEF SessionRegistered, NewSession
  <2>2. CASE SessionAsked(t)
    BY <1>0, <1>1, <2>0, <2>2 DEF SessionAsked
  <2>3. CASE SessionCounted(t)
    BY <2>0, <2>3 DEF SessionCounted
  <2> QED
    BY <1>0, <1>3, <2>1, <2>2, <2>3, SessionSteps
<1> QED
  BY <1>2, <1>3

(* A session is never lost, and a registration that comes late does not     *)
(* cost its tester a word accepted or its queue (validator.c:171-197, 404): *)
(* the server drains the registrations before it reads a result.            *)
THEOREM SessionsStay == Spec => SessionsKept
<1>1. ReadInv /\ RegisterInv /\ LateInv /\ [Next]_vars => RegisterInv' /\ LateInv'
  BY RegisterStep, LateStep
<1>2. ReadInv /\ RegisterInv /\ LateInv /\ [Next]_vars =>
        [\A t \in Sessions :
           /\ testerSlots'[t] # NULL
           /\ testerSlots'[t].acc_count >= testerSlots[t].acc_count
           /\ testerSlots'[t].queue = testerSlots[t].queue]_vars
  BY KeptStep
<1> QED
  BY ReadInit, ReadStep, LateInit, <1>1, <1>2, PTL DEF Spec, SessionsKept

-----------------------------------------------------------------------------
(* A SERVER THAT FAILS SAYS SO                                             *)

(* "exit" is in the queue.                                                  *)
HoldsExit(queue) == \E i \in 1 .. Len(queue) : queue[i] = Exit

(* Once the server ends, a tester with a session is about to be told, was   *)
(* told and has not read it, or has left its loop.                          *)
ToldInv ==
    serverPc \in Ending =>
        \A t \in Sessions :
            \/ serverPc = "broadcast" /\ t \in exitPending
            \/ testerPc[t] \in Closed
            \/ HoldsExit(testerQ[t][testerSlots[t].queue])

(* The server ends its loop by the broadcast, unless pipe() fails.          *)
LEMMA EndingBegins ==
    ASSUME TypeInv, [Next]_vars, "pipe" \notin Faults,
           serverPc \notin Ending, serverPc' \in Ending
    PROVE  serverPc' = "broadcast" /\ exitPending' = Sessions /\ testerSlots' = testerSlots
<1>1. ServerNext
  BY DEF Next, RunNext, CrashNext, TesterNext, Terminating, vars, serverVars
<1>2. CASE RegisterTester \/ Throttle \/ NoRunResult \/ ReadRunResult \/ SendAnswer
  BY <1>2 DEF RegisterTester, Throttle, NoRunResult, ReadRunResult, SendAnswer, Ending
<1>3. CASE ReapNothing \/ ReapExited \/ ReapFailed
  BY <1>3 DEF ReapNothing, ReapExited, ReapFailed, AfterReap, reapUnchanged, slotVars, Ending
<1>4. CASE ReapFatal \/ NoRequest \/ TakeExitRequest
  BY <1>4 DEF ReapFatal, NoRequest, TakeExitRequest, Ending
<1>5. CASE TakeRequest
  BY <1>5 DEF TakeRequest, Fault, Ending
<1>6. CASE Spawn \/ SpawnFails \/ PushGraph
  BY <1>6 DEF Spawn, SpawnFails, PushGraph, Ending
<1>7. CASE WaitAfterFailure
  BY <1>7 DEF WaitAfterFailure, slotVars
<1>8. CASE BroadcastExit \/ PrintReport \/ RemoveQueues \/ FinalWait \/ OnExit \/ ExitWait
  BY <1>8 DEF BroadcastExit, PrintReport, RemoveQueues, Unlink, FinalWait, OnExit, ExitWait, Ending
<1> QED
  BY <1>1, <1>2, <1>3, <1>4, <1>5, <1>6, <1>7, <1>8 DEF ServerNext, ServerStep

(* A tester loses the "exit" of a queue only by reading it.                 *)
LEMMA ExitKept ==
    ASSUME ReadInv, [Next]_vars, NEW t \in Testers, NEW gen \in Generation,
           serverPc \in Ending, HoldsExit(testerQ[t][gen])
    PROVE  testerPc'[t] \in Closed \/ HoldsExit(testerQ'[t][gen])
<1> USE DEF ReadInv, ServedInv
<1>0. PICK i \in 1 .. Len(testerQ[t][gen]) : testerQ[t][gen][i] = Exit
  BY DEF HoldsExit
<1>1. CASE testerQ' = testerQ
  BY <1>1
<1>2. CASE BroadcastExit
  <2>0. PICK u \in Testers, g \in Generation :
          /\ testerQ[u] \in [Generation -> Seq(Answer \cup {Exit})]
          /\ testerQ'[u][g] = Append(testerQ[u][g], Exit)
          /\ \A h \in Generation \ {g} : testerQ'[u][h] = testerQ[u][h]
          /\ \A v \in Testers \ {u} : testerQ'[v] = testerQ[v]
    BY <1>2, ExitGoes DEF GenInv
  <2>1. CASE u = t /\ g = gen
    <3>1. i \in 1 .. Len(testerQ'[t][gen]) /\ testerQ'[t][gen][i] = Exit
      BY <1>0, <2>0, <2>1
    <3> QED
      BY <3>1 DEF HoldsExit
  <2>2. CASE u # t \/ g # gen
    BY <2>0, <2>2
  <2> QED
    BY <2>1, <2>2
<1>3. ASSUME NEW u \in Testers, TakeExit(u)
      PROVE  testerPc'[t] \in Closed \/ HoldsExit(testerQ'[t][gen])
  <2>1. CASE u = t
    BY <1>3, <2>1 DEF TakeExit, Goto, Closed, TypeInv, TypeOK, TesterTypeOK
  <2>2. CASE u # t
    BY <1>3, <2>2, HeadTaken
  <2> QED
    BY <2>1, <2>2
<1>4. ASSUME NEW u \in Testers, TakeAnswer(u)
      PROVE  HoldsExit(testerQ'[t][gen])
  <2>1. /\ testerQ[u] \in [Generation -> Seq(Answer \cup {Exit})] /\ testerQ[u][0] # <<>>
        /\ testerQ'[u][0] = Tail(testerQ[u][0])
        /\ \A g \in Generation \ {0} : testerQ'[u][g] = testerQ[u][g]
        /\ \A v \in Testers \ {u} : testerQ'[v] = testerQ[v]
    BY <1>4, HeadTaken DEF HasMessage
  <2>2. CASE u = t /\ gen = 0
    <3>1. /\ testerQ[t][0] \in Seq(Answer \cup {Exit}) /\ testerQ[t][0] # <<>>
          /\ testerQ'[t][0] = Tail(testerQ[t][0])
      BY <2>1, <2>2
    <3>2. testerQ[t][0][1] # Exit
      BY <1>4, <2>2, <3>1, TailShift DEF TakeAnswer, Exit
    <3>3. i # 1 /\ Len(testerQ[t][0]) \in Nat /\ Len(testerQ'[t][0]) = Len(testerQ[t][0]) - 1
      BY <1>0, <2>2, <3>1, <3>2, TailShift
    <3>4. i - 1 \in 1 .. Len(testerQ'[t][0])
      BY <1>0, <2>2, <3>3
    <3>5. testerQ'[t][0][i - 1] = testerQ[t][0][(i - 1) + 1]
      BY <3>1, <3>4, TailShift
    <3>6. testerQ'[t][0][i - 1] = Exit
      BY <1>0, <2>2, <3>5
    <3> QED
      BY <2>2, <3>4, <3>6 DEF HoldsExit
  <2>3. CASE u # t \/ gen # 0
    BY <2>1, <2>3
  <2> QED
    BY <2>2, <2>3
<1>5. ~ SendAnswer
  BY DEF SendAnswer, Ending
<1> QED
  BY <1>1, <1>2, <1>3, <1>4, <1>5, QueueSteps

LEMMA ToldStep ==
    ASSUME ReadInv, ToldInv, [Next]_vars, "pipe" \notin Faults
    PROVE  ToldInv'
<1> USE DEF ReadInv, ServedInv
<1>1. CASE serverPc' \notin Ending
  BY <1>1 DEF ToldInv
<1>2. CASE serverPc \notin Ending /\ serverPc' \in Ending
  BY <1>2, EndingBegins DEF ToldInv, Sessions
<1>3. CASE serverPc \in Ending /\ serverPc' \in Ending
  <2>1. testerSlots' = testerSlots
    BY <1>3, EndingKept DEF serverVars, slotVars
  <2> SUFFICES ASSUME NEW t \in Sessions
               PROVE  \/ serverPc' = "broadcast" /\ t \in exitPending'
                      \/ testerPc'[t] \in Closed
                      \/ HoldsExit(testerQ'[t][testerSlots[t].queue])
    BY <2>1 DEF ToldInv, Sessions, HoldsExit
  <2>2. t \in Testers /\ testerSlots[t] \in TesterSlot
    BY DEF Sessions, TypeInv, TypeOK, ServerTypeOK
  <2>3. PICK gen \in Generation : gen = testerSlots[t].queue
    BY <2>2 DEF TesterSlot
  <2>4. CASE testerPc[t] \in Closed
    BY <2>2, <2>4, ClosedSteps
  <2>5. CASE HoldsExit(testerQ[t][gen])
    BY <1>3, <2>2, <2>3, <2>5, ExitKept
  <2>6. CASE serverPc = "broadcast" /\ t \in exitPending
    <3>1. CASE BroadcastExit
      <4>0. PICK u \in exitPending, g \in Generation :
              /\ g = testerSlots[u].queue
              /\ serverPc' = "broadcast" /\ exitPending' = exitPending \ {u}
              /\ testerQ[u] \in [Generation -> Seq(Answer \cup {Exit})]
              /\ testerQ'[u][g] = Append(testerQ[u][g], Exit)
        BY <3>1, ExitGoes DEF GenInv
      <4>1. CASE u = t
        <5>1. /\ testerQ[t][gen] \in Seq(Answer \cup {Exit})
              /\ testerQ'[t][gen] = Append(testerQ[t][gen], Exit)
          BY <2>3, <4>0, <4>1
        <5>2. /\ Len(testerQ'[t][gen]) \in 1 .. Len(testerQ'[t][gen])
              /\ testerQ'[t][gen][Len(testerQ'[t][gen])] = Exit
          BY <5>1
        <5> QED
          BY <2>3, <5>2 DEF HoldsExit
      <4>2. CASE u # t
        BY <2>6, <4>0, <4>2
      <4> QED
        BY <4>1, <4>2
    <3>2. CASE ~ BroadcastExit
      <4>1. serverPc' = serverPc /\ exitPending' = exitPending
        <5>1. CASE ServerNext
          BY <2>6, <3>2, <5>1 DEF ServerNext, ServerStep, RegisterTester, Throttle, NoRunResult,
             ReadRunResult, SendAnswer, ReapNothing, ReapExited, ReapFailed, ReapFatal, NoRequest,
             TakeExitRequest, TakeRequest, Spawn, SpawnFails, PushGraph, WaitAfterFailure,
             PrintReport, RemoveQueues, Unlink, FinalWait, OnExit, ExitWait
        <5>2. CASE UNCHANGED serverVars
          BY <5>2 DEF serverVars, endVars
        <5> QED
          BY <5>1, <5>2 DEF Next, RunNext, CrashNext, TesterNext, Terminating, vars
      <4> QED
        BY <2>6, <4>1
    <3> QED
      BY <3>1, <3>2
  <2> QED
    BY <1>3, <2>3, <2>4, <2>5, <2>6 DEF ToldInv
<1> QED
  BY <1>1, <1>2, <1>3

(* A server that fails, for a run that failed, has told the testers it has  *)
(* a session for (validator.c:334-342), if pipe() does not fail: that error *)
(* ends it with the onExit of an empty map (lines 79 and 433).              *)
THEOREM FailureTold ==
    ASSUME "pipe" \notin Faults
    PROVE  Spec => []AbnormalExitTold
<1>1. ReadInv /\ ToldInv /\ [Next]_vars => ToldInv'
  BY ToldStep
<1>2. Init => ToldInv
  BY DEF Init, ServerInit, ToldInv, Ending
<1>3. ASSUME ToldInv, ReadInv PROVE AbnormalExitTold
  <2>1. ASSUME serverPc = "stopped", NEW t \in Sessions, testerPc[t] \notin {"close", "done"}
        PROVE  Exit \in ToSet(testerQ[t][testerSlots[t].queue])
    <3>1. HoldsExit(testerQ[t][testerSlots[t].queue])
      BY <1>3, <2>1 DEF ToldInv, Ending, Closed
    <3> QED
      BY <3>1 DEF HoldsExit, ToSet
  <2> QED
    BY <2>1 DEF AbnormalExitTold
<1>4. ToldInv /\ ReadInv => AbnormalExitTold
  BY <1>3
<1> QED
  BY ReadInit, ReadStep, <1>1, <1>2, <1>4, PTL DEF Spec
=============================================================================
