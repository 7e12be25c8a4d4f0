---------------------------- MODULE AnswerProofs ----------------------------
(***************************************************************************)
(* What AutomatonSystem does with a request, for every value of its        *)
(* constants and whatever fails: its state keeps its type (TypeOK), the    *)
(* results of the runs find their testers (SlotRouting), and every request *)
(* is answered at most once and with its verdict; none is lost while       *)
(* nothing fails.                                                          *)
(***************************************************************************)
EXTENDS AutomatonSystem, FiniteSetTheorems, TLAPS

-----------------------------------------------------------------------------
(* THE TYPES                                                               *)

(* What makes TypeOK inductive: the local variables of the server are set   *)
(* where the loop uses them, and a tester that sends has read a line.       *)
LocalsSet ==
    /\ serverPc = "answer" => answering \in Verdict
                                /\ runSlots[answering.pid] \in RunSlot
    /\ serverPc = "spawn" => request \in Parse
                               /\ retry_count < SERVER_FORK_RETRY_COUNT
    /\ serverPc = "push" => spawned \in Pids
    /\ \A t \in Testers : testerPc[t] = "send" => loc_id[t] >= 1

TypeInv == TypeOK /\ LocalsSet

-----------------------------------------------------------------------------
(* The queues. *)

(* Sending keeps the type of a queue name.                                  *)
LEMMA SentType ==
    ASSUME NEW S, NEW queues \in [Generation -> Seq(S)], NEW gen, NEW msg \in S
    PROVE  Sent(queues, gen, msg) \in [Generation -> Seq(S)]
  BY DEF Sent, Generation

(* Receiving keeps it too, and yields a message of that type.               *)
LEMMA ReceivedType ==
    ASSUME NEW S, NEW queues \in [Generation -> Seq(S)],
           NEW gen \in Generation, HasMessage(queues[gen])
    PROVE  /\ Head(queues[gen]) \in S
           /\ Received(queues, gen) \in [Generation -> Seq(S)]
  BY DEF Received, HasMessage, Generation

(* The number of the next line is a loc_id.                                 *)
LEMMA NextLocId ==
    ASSUME NEW n \in 0 .. MaxLines, n < MaxLines
    PROVE  n + 1 \in LocIds /\ n + 1 \in 0 .. MaxLines
  BY PosixAssumption DEF PosixAssumption, LocIds

(* What a non-empty sequence is made of.                                    *)
LEMMA HeadTailType ==
    ASSUME NEW S, NEW s \in Seq(S), s # <<>>
    PROVE  Head(s) \in S /\ Tail(s) \in Seq(S)
  OBVIOUS

(* A handle is one of the two generations.                                  *)
LEMMA OpenQueueType == ASSUME NEW name PROVE OpenQueue(name) \in Generation
  BY DEF OpenQueue, Generation

(* Moving one run, or reaping all of them, keeps the table typed.           *)
LEMMA WaitForAllType ==
    ASSUME runState \in [Pids -> RunStates], WaitForAll
    PROVE  runState' \in [Pids -> RunStates]
  BY DEF WaitForAll, RunStates

-----------------------------------------------------------------------------
LEMMA TypeInit == Init => TypeInv
<1> SUFFICES ASSUME Init PROVE TypeInv
  OBVIOUS
<1>1. PosixTypeOK
  BY PosixAssumption DEF PosixAssumption, Init, PosixInit, PosixTypeOK, RunStates
<1>2. ServerTypeOK
  <2>1. ServerInit /\ SERVER_FORK_RETRY_COUNT \in Nat
    BY ServerAssumption DEF ServerAssumption, Init
  <2>2. /\ shouldTerminate \in BOOLEAN /\ throttled_mode \in BOOLEAN
        /\ runBlocking \in BOOLEAN /\ reportBlocking \in BOOLEAN
        /\ gotRunMsg \in BOOLEAN
    BY <2>1 DEF ServerInit
  <2>3. /\ testerSlots \in [Testers -> TesterSlot \cup {NULL}]
        /\ runSlots \in [Pids -> RunSlot \cup {NULL}]
    BY <2>1 DEF ServerInit
  <2>4. /\ serverPc \in ServerPcs /\ activeTasksCount \in Int
        /\ retry_count \in 0 .. SERVER_FORK_RETRY_COUNT
        /\ rcd_count \in Nat /\ snt_count \in Nat /\ acc_count \in Nat
        /\ serverStatus \in {0, -1}
    BY <2>1 DEF ServerInit, ServerPcs
  <2> QED
    BY <2>1, <2>2, <2>3, <2>4 DEF ServerInit, ServerTypeOK
<1>3. WorkerTypeOK
  BY DEF Init, WorkerInit, WorkerTypeOK, Generation
<1>4. TesterTypeOK
  BY TesterAssumption, PosixAssumption
     DEF PosixAssumption, TesterAssumption, Init, TesterInit, TesterTypeOK, TesterPcs, Generation
<1>5. LocalsSet
  BY DEF Init, ServerInit, TesterInit, LocalsSet
<1> QED
  BY <1>1, <1>2, <1>3, <1>4, <1>5 DEF TypeInv, TypeOK

-----------------------------------------------------------------------------
(* A run takes a step. *)
LEMMA TypeRun ==
    ASSUME TypeInv, NEW w \in Pids, RunNext(w) \/ CrashNext(w)
    PROVE  TypeInv'
<1> USE DEF TypeInv, TypeOK, MoveRun
<1>1. UNCHANGED <<serverVars, testerVars>>
  BY DEF RunNext, CrashNext
<1>2. ServerTypeOK'
  BY <1>1 DEF ServerTypeOK, serverVars, loopVars, slotVars, countVars, localVars, endVars
<1>3. TesterTypeOK'
  BY <1>1 DEF TesterTypeOK, testerVars
<1>4. LocalsSet'
  BY <1>1 DEF LocalsSet, serverVars, slotVars, localVars, testerVars
<1>5. PosixTypeOK' /\ WorkerTypeOK'
  <2> USE DEF PosixTypeOK, WorkerTypeOK, RunStates, queueVars
  <2>1. CASE OpenQueues(w)
    BY <2>1, OpenQueueType DEF OpenQueues
  <2>2. CASE ReadGraph(w)
    BY <2>2 DEF ReadGraph
  <2>3. CASE CommitResult(w)
    <3>1. [pid |-> w, result |-> runWord[w] \in Accepted] \in RunResult
      BY DEF RunResult
    <3>2. runQ' \in [Generation -> Seq(RunResult)]
      BY <2>3, <3>1, SentType DEF CommitResult
    <3> QED
      BY <2>3, <3>2 DEF CommitResult
  <2>4. CASE ExitRun(w)
    BY <2>4 DEF ExitRun
  <2>5. CASE Crash(w)
    BY <2>5, PosixAssumption DEF PosixAssumption, Crash, Fault
  <2> QED
    BY <2>1, <2>2, <2>3, <2>4, <2>5 DEF RunNext, RunStep, CrashNext
<1> QED
  BY <1>2, <1>3, <1>4, <1>5

-----------------------------------------------------------------------------
(* A tester takes a step. *)
LEMMA TypeTester ==
    ASSUME TypeInv, NEW t \in Testers, TesterNext(t)
    PROVE  TypeInv'
<1> USE DEF TypeInv, TypeOK
<1>1. UNCHANGED <<serverVars, workerVars, processVars, faults, runQ>>
  BY DEF TesterNext, TesterStep, posixVars, queueVars, OpenRegister, Register,
         OpenReport, ReadLine, SendExit, SendWord, TakeAnswer, TakeExit,
         PollNothing, CloseTester
<1>2. ServerTypeOK' /\ WorkerTypeOK'
  BY <1>1 DEF ServerTypeOK, serverVars, loopVars, slotVars, countVars, localVars,
              endVars, WorkerTypeOK, workerVars
<1>3. PosixTypeOK' /\ TesterTypeOK'
        /\ \A u \in Testers : testerPc'[u] = "send" => loc_id'[u] >= 1
  <2> USE <1>1 DEF PosixTypeOK, TesterTypeOK, LocalsSet, processVars, Goto, TesterPcs
  <2>1. CASE OpenRegister(t)
    BY <2>1, OpenQueueType DEF OpenRegister, posixVars, queueVars
  <2>2. CASE Register(t)
    <3>1. registerQ' \in [Generation -> Seq(Testers)]
      BY <2>2, SentType DEF Register
    <3> QED
      BY <2>2, <3>1 DEF Register
  <2>3. CASE OpenReport(t)
    BY <2>3, OpenQueueType DEF OpenReport, posixVars, queueVars
  <2>4. CASE ReadLine(t)
    <3>1. loc_id[t] + 1 \in LocIds /\ loc_id' \in [Testers -> 0 .. MaxLines]
      <4>1. /\ loc_id[t] \in 0 .. MaxLines /\ loc_id[t] < MaxLines
            /\ loc_id' = [loc_id EXCEPT ![t] = loc_id[t] + 1]
        BY <2>4 DEF ReadLine
      <4>2. loc_id[t] + 1 \in LocIds /\ loc_id[t] + 1 \in 0 .. MaxLines
        BY <4>1, NextLocId
      <4> QED
        BY <4>1, <4>2
    <3>2. loc_id'[t] >= 1 /\ \A u \in Testers \ {t} : loc_id'[u] = loc_id[u]
      BY <2>4, <3>1 DEF ReadLine, LocIds
    <3>3. \A u \in Testers \ {t} : testerPc'[u] = testerPc[u]
      BY <2>4 DEF ReadLine
    <3>4. testerPc' \in [Testers -> TesterPcs] /\ read_input' \in [Testers -> BOOLEAN]
      BY <2>4 DEF ReadLine
    <3>5. /\ stdin' \in [Testers -> Seq(Line)]
          /\ line' \in [Testers -> Line \cup {NULL}]
          /\ results' \in [Testers -> [LocIds -> Words \cup {NULL}]]
      <4>1. CASE stdin[t] = <<>>
        BY <2>4, <4>1 DEF ReadLine
      <4>2. CASE stdin[t] # <<>>
        <5>1. Head(stdin[t]) \in Line /\ Tail(stdin[t]) \in Seq(Line)
          BY <4>2, HeadTailType
        <5>2. stdin' = [stdin EXCEPT ![t] = Tail(@)]
                /\ line' = [line EXCEPT ![t] = Head(stdin[t])]
          BY <2>4, <4>2 DEF ReadLine
        <5>3. CASE Head(stdin[t]) = "!"
          BY <2>4, <4>2, <5>1, <5>2, <5>3 DEF ReadLine
        <5>4. CASE Head(stdin[t]) # "!"
          <6>1. results' = [results EXCEPT ![t][loc_id[t] + 1] = Head(stdin[t])]
            BY <2>4, <4>2, <5>4 DEF ReadLine
          <6>2. Head(stdin[t]) \in Words
            BY <5>1, <5>4 DEF Line
          <6> QED
            BY <3>1, <5>1, <5>2, <6>1, <6>2
        <5> QED
          BY <5>3, <5>4
      <4> QED
        BY <4>1, <4>2
    <3>6. \A u \in Testers : testerPc'[u] = "send" => loc_id'[u] >= 1
      BY <3>2, <3>3
    <3> QED
      BY <2>4, <3>1, <3>4, <3>5, <3>6 DEF ReadLine, posixVars, queueVars
  <2>5. CASE SendExit(t)
    <3>1. reportQ' \in [Generation -> Seq(Parse \cup {Exit})]
      BY <2>5, SentType DEF SendExit
    <3>2. read_input' \in [Testers -> BOOLEAN]
      BY <2>5 DEF SendExit
    <3> QED
      BY <2>5, <3>1, <3>2 DEF SendExit
  <2>6. CASE SendWord(t)
    <3>1. [type |-> "parse", tester |-> t, loc_id |-> loc_id[t], word |-> line[t]]
             \in Parse \cup {Exit}
      BY <2>6 DEF SendWord, Parse, LocIds
    <3>2. reportQ' \in [Generation -> Seq(Parse \cup {Exit})]
      BY <2>6, <3>1, SentType DEF SendWord
    <3>3. req_count' \in [Testers -> Nat] /\ line' \in [Testers -> Line \cup {NULL}]
      BY <2>6 DEF SendWord
    <3>4. /\ testerPc' \in [Testers -> TesterPcs] /\ testerPc'[t] = "poll"
          /\ \A u \in Testers \ {t} : testerPc'[u] = testerPc[u]
      BY <2>6 DEF SendWord
    <3> QED
      BY <2>6, <3>2, <3>3, <3>4 DEF SendWord
  <2>7. CASE TakeAnswer(t)
    <3> DEFINE msg == Head(testerQ[t][0])
    <3>1. /\ msg \in Answer \cup {Exit}
          /\ Received(testerQ[t], 0) \in [Generation -> Seq(Answer \cup {Exit})]
      BY <2>7, ReceivedType DEF TakeAnswer, Generation
    <3>2. msg \in Answer
      <4>1. msg.type = "answer"
        BY <2>7 DEF TakeAnswer
      <4>2. msg \in Answer \cup {Exit}
        BY <3>1
      <4> HIDE DEF msg
      <4> QED
        BY <4>1, <4>2 DEF Exit
    <3>3. testerQ' \in [Testers -> [Generation -> Seq(Answer \cup {Exit})]]
      BY <2>7, <3>1 DEF TakeAnswer
    <3>4. results' \in [Testers -> [LocIds -> Words \cup {NULL}]]
      BY <2>7, <3>2 DEF TakeAnswer, Forget, Answer
    <3>5. ans_count' \in [Testers -> Nat] /\ accepted_count' \in [Testers -> Nat]
      <4>1. PICK n \in {0, 1}, m \in {0, 1} :
               /\ ans_count' = [ans_count EXCEPT ![t] = ans_count[t] + n]
               /\ accepted_count' = [accepted_count EXCEPT ![t] = accepted_count[t] + m]
        BY <2>7 DEF TakeAnswer
      <4>2. ans_count[t] + n \in Nat /\ accepted_count[t] + m \in Nat
        <5>1. ans_count[t] \in Nat /\ accepted_count[t] \in Nat
          OBVIOUS
        <5> HIDE DEF TypeInv, TypeOK, TesterTypeOK, PosixTypeOK
        <5> QED
          BY <5>1
      <4> QED
        BY <4>1, <4>2
    <3>6. testerPc' \in [Testers -> TesterPcs] /\ testerPc'[t] # "send"
            /\ \A u \in Testers \ {t} : testerPc'[u] = testerPc[u]
      BY <2>7 DEF TakeAnswer, LoopBack
    <3> QED
      BY <2>7, <3>3, <3>4, <3>5, <3>6 DEF TakeAnswer
  <2>8. CASE TakeExit(t)
    <3>1. Received(testerQ[t], 0) \in [Generation -> Seq(Answer \cup {Exit})]
      BY <2>8, ReceivedType DEF TakeExit, Generation
    <3> QED
      BY <2>8, <3>1 DEF TakeExit
  <2>9. CASE PollNothing(t)
    BY <2>9 DEF PollNothing, LoopBack, posixVars, queueVars
  <2>10. CASE CloseTester(t)
    BY <2>10 DEF CloseTester
  <2> QED
    BY <2>1, <2>2, <2>3, <2>4, <2>5, <2>6, <2>7, <2>8, <2>9, <2>10
       DEF TesterNext, TesterStep
<1>4. LocalsSet'
  BY <1>1, <1>3 DEF LocalsSet, serverVars, slotVars, localVars
<1> QED
  BY <1>2, <1>3, <1>4

-----------------------------------------------------------------------------
(* The server takes a step. *)

(* The counters of a session may grow.                                      *)
LEMMA CountedSlot ==
    ASSUME NEW slot \in TesterSlot, NEW n \in Nat
    PROVE  /\ [slot EXCEPT !.acc_count = slot.acc_count + n] \in TesterSlot
           /\ [slot EXCEPT !.rcd_count = slot.rcd_count + n] \in TesterSlot
  BY DEF TesterSlot

(* A fresh session is a session.                                            *)
LEMMA NewSessionType == ASSUME NEW t \in Testers PROVE NewSession(t) \in TesterSlot
  BY OpenQueueType DEF NewSession, TesterSlot

(* The part of LocalsSet that is about the server.                          *)
ServerLocals ==
    /\ serverPc = "answer" => answering \in Verdict
                                /\ runSlots[answering.pid] \in RunSlot
    /\ serverPc = "spawn" => request \in Parse
                               /\ retry_count < SERVER_FORK_RETRY_COUNT
    /\ serverPc = "push" => spawned \in Pids

(* Every step of the server keeps the queues, the processes and its own     *)
(* variables typed, and sets the locals the next step reads.                *)
LEMMA TypeServer ==
    ASSUME TypeInv, ServerNext
    PROVE  TypeInv'
<1> USE DEF TypeInv, TypeOK
<1>1. ServerStep /\ UNCHANGED <<workerVars, testerVars>>
  BY DEF ServerNext
<1>2. WorkerTypeOK' /\ TesterTypeOK'
  BY <1>1 DEF WorkerTypeOK, workerVars, TesterTypeOK, testerVars
<1>3. PosixTypeOK' /\ ServerTypeOK' /\ ServerLocals'
  <2>0. ServerLocals
    BY DEF LocalsSet, ServerLocals
  <2> USE <2>0 DEF PosixTypeOK, ServerTypeOK, ServerLocals, ServerPcs, posixVars,
      queueVars, processVars, loopVars, slotVars, countVars, localVars, endVars
  <2>1. CASE RegisterTester
    <3>1. /\ Head(registerQ[0]) \in Testers
          /\ registerQ' \in [Generation -> Seq(Testers)]
      BY <2>1, ReceivedType DEF RegisterTester, Generation
    <3>2. testerSlots' \in [Testers -> TesterSlot \cup {NULL}]
      BY <2>1, <3>1, NewSessionType DEF RegisterTester
    <3> QED
      BY <2>1, <3>1, <3>2 DEF RegisterTester
  <2>2. CASE Throttle
    BY <2>2 DEF Throttle
  <2>3. CASE NoRunResult
    BY <2>3 DEF NoRunResult
  <2>4. CASE ReadRunResult
    <3> DEFINE msg == Head(runQ[0])
               accept == IF msg.result THEN 1 ELSE 0
    <3>1. msg \in RunResult /\ runQ' \in [Generation -> Seq(RunResult)]
      BY <2>4, ReceivedType DEF ReadRunResult, Generation
    <3>2. msg.pid \in Pids /\ msg.result \in BOOLEAN /\ accept \in Nat
      BY <3>1 DEF RunResult
    <3>3. PosixTypeOK'
      BY <2>4, <3>1 DEF ReadRunResult
    <3>4. /\ activeTasksCount' \in Int
          /\ throttled_mode' \in BOOLEAN /\ runBlocking' \in BOOLEAN
          /\ reportBlocking' \in BOOLEAN /\ gotRunMsg' \in BOOLEAN
      BY <2>4 DEF ReadRunResult
    <3>5. /\ shouldTerminate' \in BOOLEAN
          /\ runSlots' = runSlots
          /\ request' \in Parse \cup {NULL}
          /\ retry_count' \in 0 .. SERVER_FORK_RETRY_COUNT
          /\ spawned' \in Pids \cup {NULL}
          /\ rcd_count' \in Nat
          /\ exitPending' \subseteq Testers
          /\ serverStatus' \in {0, -1}
      BY <2>4 DEF ReadRunResult
    <3>6. /\ serverPc' \in {"reap", "answer"}
          /\ serverPc' = "answer" => answering' \in Verdict
                                      /\ runSlots[answering'.pid] \in RunSlot
          /\ answering' \in Verdict \cup {NULL}
          /\ snt_count' \in Nat /\ acc_count' \in Nat
          /\ testerSlots' \in [Testers -> TesterSlot \cup {NULL}]
      <4>1. CASE runSlots[msg.pid] = NULL
        BY <2>4, <4>1 DEF ReadRunResult
      <4>2. CASE runSlots[msg.pid] # NULL
        <5>1. runSlots[msg.pid] \in RunSlot
          BY <3>2, <4>2
        <5>2. PICK t \in MatchSession(runSlots[msg.pid]) :
                /\ answering' = [pid |-> msg.pid, tester |-> t, result |-> msg.result]
                /\ testerSlots' = [testerSlots EXCEPT ![t].acc_count = @ + accept]
          BY <2>4, <4>2 DEF ReadRunResult
        <5>3. /\ serverPc' = "answer"
              /\ snt_count' = snt_count + 1
              /\ acc_count' = acc_count + accept
          BY <2>4, <4>2 DEF ReadRunResult
        <5>4. t \in Testers /\ testerSlots[t] \in TesterSlot
          BY DEF MatchSession, Sessions
        <5>5. answering' \in Verdict /\ answering'.pid = msg.pid
          BY <3>2, <5>2, <5>4 DEF Verdict
        <5>6. [testerSlots[t] EXCEPT !.acc_count = testerSlots[t].acc_count + accept]
                 \in TesterSlot
          BY <3>2, <5>4, CountedSlot
        <5>7. testerSlots' \in [Testers -> TesterSlot \cup {NULL}]
          BY <5>2, <5>6
        <5>8. snt_count' \in Nat /\ acc_count' \in Nat
          <6>1. snt_count \in Nat /\ acc_count \in Nat
            OBVIOUS
          <6> HIDE DEF accept, TypeInv, TypeOK, ServerTypeOK, PosixTypeOK
          <6> QED
            BY <3>2, <5>3, <6>1
        <5> QED
          BY <5>1, <5>3, <5>5, <5>7, <5>8
      <4> QED
        BY <4>1, <4>2
    <3> QED
      BY <3>3, <3>4, <3>5, <3>6
  <2>5. CASE SendAnswer
    <3> DEFINE t == answering.tester
               msg == [type |-> "answer", loc_id |-> runSlots[answering.pid].loc_id,
                       result |-> answering.result]
    <3>1. /\ answering.pid \in Pids /\ t \in Testers /\ answering.result \in BOOLEAN
          /\ runSlots[answering.pid].loc_id \in LocIds
      BY <2>5 DEF SendAnswer, Verdict, RunSlot
    <3>2. msg \in Answer \cup {Exit}
      BY <3>1 DEF Answer
    <3>3. testerQ' = [testerQ EXCEPT ![t] = Sent(testerQ[t], testerSlots[t].queue, msg)]
      BY <2>5 DEF SendAnswer
    <3>4. Sent(testerQ[t], testerSlots[t].queue, msg) \in [Generation -> Seq(Answer \cup {Exit})]
      BY <3>1, <3>2, SentType
    <3>5. testerQ' \in [Testers -> [Generation -> Seq(Answer \cup {Exit})]]
      BY <3>3, <3>4
    <3>6. runSlots' \in [Pids -> RunSlot \cup {NULL}]
      BY <2>5 DEF SendAnswer
    <3> QED
      BY <2>5, <3>5, <3>6 DEF SendAnswer
  <2>6. CASE ReapNothing
    BY <2>6 DEF ReapNothing, AfterReap, ActiveAfterReap, reapUnchanged, Sessions
  <2>7. CASE ReapExited
    BY <2>7 DEF ReapExited, AfterReap, ActiveAfterReap, reapUnchanged, Sessions, Reap, RunStates
  <2>8. CASE ReapFailed
    BY <2>8 DEF ReapFailed, AfterReap, ActiveAfterReap, reapUnchanged, Sessions, Reap, RunStates
  <2>9. CASE ReapFatal
    BY <2>9 DEF ReapFatal, reapUnchanged, Reap, RunStates
  <2>10. CASE NoRequest
    BY <2>10 DEF NoRequest
  <2>11. CASE TakeExitRequest
    <3>1. reportQ' \in [Generation -> Seq(Parse \cup {Exit})]
      BY <2>11, ReceivedType DEF TakeExitRequest, Generation
    <3> QED
      BY <2>11, <3>1 DEF TakeExitRequest
  <2>12. CASE TakeRequest
    <3> DEFINE msg == Head(reportQ[0])
               session == IF testerSlots[msg.tester] = NULL THEN NewSession(msg.tester)
                          ELSE testerSlots[msg.tester]
    <3>1. /\ msg \in Parse \cup {Exit} /\ msg.type = "parse"
          /\ reportQ' \in [Generation -> Seq(Parse \cup {Exit})]
      BY <2>12, ReceivedType DEF TakeRequest, Generation
    <3>2. msg \in Parse
      BY <3>1 DEF Exit
    <3>3. msg.tester \in Testers
      BY <3>2 DEF Parse
    <3>4. session \in TesterSlot
      BY <3>3, NewSessionType
    <3>5. [session EXCEPT !.rcd_count = session.rcd_count + 1] \in TesterSlot
      BY <3>4, CountedSlot
    <3>6. testerSlots' = [testerSlots EXCEPT ![msg.tester] =
                            [session EXCEPT !.rcd_count = session.rcd_count + 1]]
      BY <2>12 DEF TakeRequest
    <3>7. testerSlots' \in [Testers -> TesterSlot \cup {NULL}]
      BY <3>5, <3>6
    <3>8. /\ request' \in Parse \cup {NULL}
          /\ retry_count' \in 0 .. SERVER_FORK_RETRY_COUNT
          /\ serverStatus' \in {0, -1}
          /\ serverPc' \in {"spawn", "onExit"}
          /\ serverPc' = "spawn" => request' \in Parse
                                     /\ retry_count' < SERVER_FORK_RETRY_COUNT
          /\ faults' \in 0 .. MaxFaults
      <4>1. CASE /\ request' = msg
                 /\ retry_count' = 0
                 /\ serverPc' = "spawn"
                 /\ UNCHANGED <<serverStatus, faults>>
        BY <3>2, <4>1, ServerAssumption DEF ServerAssumption
      <4>2. CASE /\ Fault("pipe")
                 /\ serverPc' = "onExit"
                 /\ serverStatus' = -1
                 /\ UNCHANGED <<request, retry_count>>
        BY <4>2, PosixAssumption DEF PosixAssumption, Fault
      <4> QED
        BY <2>12, <4>1, <4>2 DEF TakeRequest
    <3>9. /\ rcd_count' = rcd_count + 1
          /\ UNCHANGED <<loopVars, runSlots, snt_count, acc_count, gotRunMsg,
                         answering, spawned, exitPending, registerQ, runQ,
                         testerQ, unlinked, processVars>>
      BY <2>12 DEF TakeRequest
    <3>10. PosixTypeOK'
      BY <3>1, <3>8, <3>9
    <3>11. ServerTypeOK'
      BY <3>7, <3>8, <3>9
    <3>12. ServerLocals'
      BY <3>8
    <3> QED
      BY <3>10, <3>11, <3>12
  <2>13. CASE Spawn
    <3>1. request \in Parse /\ request.word \in Words
            /\ [loc_id |-> request.loc_id, tester |-> request.tester] \in RunSlot
      BY <2>13 DEF Spawn, Parse, RunSlot
    <3>2. PICK w \in Pids :
             /\ Fork(w, request.word)
             /\ runSlots' = [runSlots EXCEPT ![w] =
                               [loc_id |-> request.loc_id, tester |-> request.tester]]
             /\ spawned' = w
      BY <2>13 DEF Spawn
    <3>3. runState' \in [Pids -> RunStates] /\ runWord' \in [Pids -> Words \cup {NULL}]
      BY <3>1, <3>2 DEF Fork, RunStates
    <3>4. runSlots' \in [Pids -> RunSlot \cup {NULL}]
      BY <3>1, <3>2
    <3> QED
      BY <2>13, <3>2, <3>3, <3>4 DEF Spawn
  <2>14. CASE SpawnFails
    <3>1. /\ retry_count < SERVER_FORK_RETRY_COUNT
          /\ retry_count' = retry_count + 1
          /\ request \in Parse
          /\ \/ GiveUp /\ request' = NULL /\ serverPc' = "register"
             \/ ~ GiveUp /\ UNCHANGED <<serverPc, request>>
      BY <2>14 DEF SpawnFails
    <3>2. /\ retry_count' \in 0 .. SERVER_FORK_RETRY_COUNT
          /\ ~ GiveUp => retry_count' < SERVER_FORK_RETRY_COUNT
      BY <3>1, ServerAssumption DEF ServerAssumption, GiveUp
    <3>3. faults' \in 0 .. MaxFaults
      BY <2>14, PosixAssumption DEF PosixAssumption, SpawnFails, Fault
    <3>4. serverPc = "spawn"
      BY <2>14 DEF SpawnFails
    <3> QED
      BY <2>14, <3>1, <3>2, <3>3, <3>4 DEF SpawnFails
  <2>15. CASE PushGraph
    BY <2>15 DEF PushGraph
  <2>16. CASE WaitAfterFailure
    BY <2>16, WaitForAllType DEF WaitAfterFailure, Sessions
  <2>17. CASE BroadcastExit
    <3>1. PICK t \in exitPending :
             /\ testerQ' = [testerQ EXCEPT ![t] = Sent(testerQ[t], testerSlots[t].queue, Exit)]
             /\ exitPending' = exitPending \ {t}
      BY <2>17 DEF BroadcastExit
    <3>2. t \in Testers
            /\ Sent(testerQ[t], testerSlots[t].queue, Exit) \in [Generation -> Seq(Answer \cup {Exit})]
      BY SentType
    <3>3. testerQ' \in [Testers -> [Generation -> Seq(Answer \cup {Exit})]]
      BY <3>1, <3>2
    <3> QED
      BY <2>17, <3>1, <3>3 DEF BroadcastExit
  <2>18. CASE PrintReport
    BY <2>18 DEF PrintReport
  <2>19. CASE RemoveQueues
    BY <2>19 DEF RemoveQueues, Unlink, ServerQueues
  <2>20. CASE FinalWait
    BY <2>20, WaitForAllType DEF FinalWait
  <2>21. CASE OnExit
    BY <2>21 DEF OnExit, GlobalTesterSlots
  <2>22. CASE ExitWait
    BY <2>22, WaitForAllType DEF ExitWait
  <2> QED
    BY <1>1, <2>1, <2>2, <2>3, <2>4, <2>5, <2>6, <2>7, <2>8, <2>9, <2>10,
       <2>11, <2>12, <2>13, <2>14, <2>15, <2>16, <2>17, <2>18, <2>19, <2>20,
       <2>21, <2>22 DEF ServerStep
<1>4. LocalsSet'
  <2>1. \A t \in Testers : testerPc[t] = "send" => loc_id[t] >= 1
    BY DEF LocalsSet
  <2>2. \A t \in Testers : testerPc'[t] = "send" => loc_id'[t] >= 1
    BY <1>1, <2>1 DEF testerVars
  <2> QED
    BY <1>3, <2>2 DEF ServerLocals, LocalsSet
<1> QED
  BY <1>2, <1>3, <1>4

(* Every step keeps the invariant.                                          *)
LEMMA TypeStep == TypeInv /\ [Next]_vars => TypeInv'
<1> SUFFICES ASSUME TypeInv, [Next]_vars PROVE TypeInv'
  OBVIOUS
<1>1. CASE ServerNext
  BY <1>1, TypeServer
<1>2. ASSUME NEW w \in Pids, RunNext(w) \/ CrashNext(w) PROVE TypeInv'
  BY <1>2, TypeRun
<1>3. ASSUME NEW t \in Testers, TesterNext(t) PROVE TypeInv'
  BY <1>3, TypeTester
<1>4. CASE UNCHANGED vars
  <2>1. UNCHANGED <<posixVars, serverVars, workerVars, testerVars>>
    BY <1>4 DEF vars
  <2>2. PosixTypeOK'
    BY <2>1 DEF posixVars, queueVars, processVars, TypeInv, TypeOK, PosixTypeOK
  <2>3. ServerTypeOK'
    BY <2>1 DEF serverVars, loopVars, slotVars, countVars, localVars, endVars,
       TypeInv, TypeOK, ServerTypeOK
  <2>4. WorkerTypeOK' /\ TesterTypeOK'
    BY <2>1 DEF workerVars, testerVars, TypeInv, TypeOK, WorkerTypeOK, TesterTypeOK
  <2>5. LocalsSet'
    BY <2>1 DEF serverVars, slotVars, localVars, testerVars, TypeInv, LocalsSet
  <2> QED
    BY <2>2, <2>3, <2>4, <2>5 DEF TypeInv, TypeOK
<1> QED
  BY <1>1, <1>2, <1>3, <1>4 DEF Next, Terminating

(* The state of the whole system has its type at every step: retry_count,   *)
(* for one, never exceeds SERVER_FORK_RETRY_COUNT (validator.c:457-470), and *)
(* every answer on its way carries a loc_id of a line its tester can save.   *)
THEOREM TypeCorrect == Spec => []TypeOK
<1>1. TypeInv => TypeOK
  BY DEF TypeInv
<1> QED
  BY TypeInit, TypeStep, <1>1, PTL DEF Spec

-----------------------------------------------------------------------------
(* THE ROUTES                                                              *)

(* The run has sent its result, or never will.                              *)
PastStates == {"exiting", "zombie", "failed", "reaped"}
Past(w)    == runState[w] \in PastStates

(* Each result in the queue is the only one of its run, which has a session *)
(* that nobody is answering.                                                *)
QueueInv ==
    /\ \A i \in 1 .. Len(runQ[0]) :
         /\ runSlots[runQ[0][i].pid] # NULL
         /\ Past(runQ[0][i].pid)
         /\ answering # NULL => runQ[0][i].pid # answering.pid
    /\ \A i, j \in 1 .. Len(runQ[0]) : runQ[0][i].pid = runQ[0][j].pid => i = j

(* A run that may still send its result has a session.                      *)
RunInv ==
    \A w \in Pids :
        Computing(w) => /\ runSlots[w] # NULL
                        /\ answering # NULL => w # answering.pid

(* The session of a run names a tester that has one, and so does a request. *)
SessionInv ==
    /\ \A w \in Pids : runSlots[w] # NULL => testerSlots[runSlots[w].tester] # NULL
    /\ request # NULL => testerSlots[request.tester] # NULL

(* The result being answered has its session and goes to its tester.        *)
AnsweringInv ==
    answering # NULL =>
        /\ serverPc = "answer"
        /\ runSlots[answering.pid] # NULL
        /\ runSlots[answering.pid].tester = answering.tester
        /\ Past(answering.pid)

RouteInv == QueueInv /\ RunInv /\ SessionInv /\ AnsweringInv

-----------------------------------------------------------------------------
LEMMA RouteInit == Init => RouteInv
<1> SUFFICES ASSUME Init PROVE RouteInv
  OBVIOUS
<1>1. /\ runQ[0] = <<>> /\ answering = NULL /\ request = NULL
      /\ \A w \in Pids : runSlots[w] = NULL /\ runState[w] = "none"
  BY DEF Init, PosixInit, ServerInit, Generation
<1>2. \A w \in Pids : ~ Computing(w)
  BY <1>1 DEF Computing
<1> QED
  BY <1>1, <1>2 DEF RouteInv, QueueInv, RunInv, SessionInv, AnsweringInv

-----------------------------------------------------------------------------
(* What is left of a queue when its head is taken.                          *)
LEMMA TailShift ==
    ASSUME NEW S, NEW s \in Seq(S), s # <<>>
    PROVE  /\ Len(s) \in Nat /\ Len(s) >= 1 /\ Head(s) = s[1]
           /\ Len(Tail(s)) = Len(s) - 1
           /\ \A i \in 1 .. Len(Tail(s)) : i + 1 \in 1 .. Len(s) /\ Tail(s)[i] = s[i + 1]
<1>1. Len(s) \in Nat /\ Len(s) >= 1 /\ Head(s) = s[1] /\ Len(Tail(s)) = Len(s) - 1
  OBVIOUS
<1>2. ASSUME NEW i \in 1 .. Len(Tail(s))
      PROVE  i + 1 \in 1 .. Len(s) /\ Tail(s)[i] = s[i + 1]
  BY <1>1
<1> QED
  BY <1>1, <1>2

(* The results in the queue name runs.                                      *)
LEMMA ResultTyped ==
    ASSUME TypeInv
    PROVE  /\ runQ[0] \in Seq(RunResult)
           /\ \A i \in 1 .. Len(runQ[0]) : runQ[0][i].pid \in Pids
<1>1. runQ[0] \in Seq(RunResult)
  BY DEF TypeInv, TypeOK, PosixTypeOK, Generation
<1>2. \A i \in 1 .. Len(runQ[0]) : runQ[0][i] \in RunResult
  BY <1>1
<1> QED
  BY <1>1, <1>2 DEF RunResult

(* A step that neither answers nor spawns, that keeps the sessions of the   *)
(* testers and only moves runs forward, keeps the routing.                  *)
LEMMA RouteFrame ==
    ASSUME TypeInv, RouteInv,
           UNCHANGED <<runQ, runSlots, answering>>,
           answering # NULL => serverPc' = serverPc,
           \A t \in Testers : testerSlots[t] # NULL => testerSlots'[t] # NULL,
           \/ request' \in {request, NULL}
           \/ testerSlots'[request'.tester] # NULL,
           \A w \in Pids : (Past(w) => Past(w)') /\ (Computing(w)' => Computing(w))
    PROVE  RouteInv'
<1>1. QueueInv'
  BY ResultTyped DEF RouteInv, QueueInv
<1>2. RunInv'
  BY DEF RouteInv, RunInv
<1>3. SessionInv'
  <2>1. \A w \in Pids : runSlots[w] # NULL => runSlots[w].tester \in Testers
    BY DEF TypeInv, TypeOK, ServerTypeOK, RunSlot
  <2>2. request # NULL => request.tester \in Testers
    BY DEF TypeInv, TypeOK, ServerTypeOK, Parse
  <2>3. \A w \in Pids : runSlots'[w] # NULL => testerSlots'[runSlots'[w].tester] # NULL
    BY <2>1 DEF RouteInv, SessionInv
  <2>4. request' # NULL => testerSlots'[request'.tester] # NULL
    BY <2>2 DEF RouteInv, SessionInv
  <2> QED
    BY <2>3, <2>4 DEF SessionInv
<1>4. AnsweringInv'
  <2>1. answering # NULL => answering.pid \in Pids
    BY DEF TypeInv, TypeOK, ServerTypeOK, Verdict
  <2> QED
    BY <2>1 DEF RouteInv, AnsweringInv
<1> QED
  BY <1>1, <1>2, <1>3, <1>4 DEF RouteInv

(* Waiting for all children moves runs forward.                             *)
LEMMA WaitForward ==
    ASSUME TypeInv, WaitForAll
    PROVE  \A w \in Pids : (Past(w) => Past(w)') /\ (Computing(w)' => Computing(w))
  BY DEF WaitForAll, Past, PastStates, Computing, Running, Zombie

(* Reaping one terminated run does too.                                     *)
LEMMA ReapForward ==
    ASSUME TypeInv, NEW v \in Pids, runState[v] \in {"zombie", "failed"}, Reap(v)
    PROVE  \A w \in Pids : (Past(w) => Past(w)') /\ (Computing(w)' => Computing(w))
  BY DEF Reap, Past, PastStates, Computing, TypeInv, TypeOK, PosixTypeOK

-----------------------------------------------------------------------------
(* A run takes a step. *)
LEMMA RouteRun ==
    ASSUME TypeInv, RouteInv, NEW w \in Pids, RunNext(w) \/ CrashNext(w)
    PROVE  RouteInv'
<1>1. UNCHANGED <<runSlots, testerSlots, answering, request, serverPc>>
  BY DEF RunNext, CrashNext, serverVars, slotVars, localVars
<1>2. runState \in [Pids -> RunStates]
  BY DEF TypeInv, TypeOK, PosixTypeOK
<1>3. ASSUME UNCHANGED runQ,
             \/ runState[w] = "boot" /\ MoveRun(w, "graph")
             \/ runState[w] = "graph" /\ MoveRun(w, "commit")
             \/ runState[w] = "exiting" /\ MoveRun(w, "zombie")
             \/ Running(w) /\ MoveRun(w, "failed")
      PROVE  RouteInv'
  <2>1. \A v \in Pids : (Past(v) => Past(v)') /\ (Computing(v)' => Computing(v))
    BY <1>2, <1>3 DEF MoveRun, Past, PastStates, Computing, Running
  <2> QED
    BY <1>1, <1>3, <2>1, RouteFrame
<1>4. CASE OpenQueues(w)
  BY <1>3, <1>4 DEF OpenQueues, queueVars
<1>5. CASE ReadGraph(w)
  BY <1>3, <1>5 DEF ReadGraph, queueVars
<1>6. CASE ExitRun(w)
  BY <1>3, <1>6 DEF ExitRun, queueVars
<1>7. CASE Crash(w)
  BY <1>3, <1>7 DEF Crash, queueVars
<1>8. CASE CommitResult(w)
  <2> DEFINE msg == [pid |-> w, result |-> runWord[w] \in Accepted]
  <2>1. \A v \in Pids : (Past(v) => Past(v)') /\ (Computing(v)' => Computing(v))
    BY <1>2, <1>8 DEF CommitResult, MoveRun, Past, PastStates, Computing
  <2>2. Computing(w) /\ ~ Past(w) /\ Past(w)'
    BY <1>2, <1>8 DEF CommitResult, MoveRun, Past, PastStates, Computing
  <2>3. runQ'[0] = runQ[0] \/ runQ'[0] = Append(runQ[0], msg)
    BY <1>8 DEF CommitResult, Sent, TypeInv, TypeOK, PosixTypeOK, Generation
  <2>4. QueueInv'
    <3>1. CASE runQ'[0] = runQ[0]
      BY <1>1, <2>1, <3>1, ResultTyped DEF RouteInv, QueueInv
    <3>2. CASE runQ'[0] = Append(runQ[0], msg)
      <4> DEFINE n == Len(runQ[0])
      <4>1. n \in Nat /\ Len(runQ'[0]) = n + 1 /\ runQ'[0][n + 1].pid = w
              /\ \A i \in 1 .. n : runQ'[0][i] = runQ[0][i]
        BY <3>2, ResultTyped
      <4>2. \A i \in 1 .. n : runQ[0][i].pid # w
        BY <2>2 DEF RouteInv, QueueInv
      <4>3. runSlots[w] # NULL /\ (answering # NULL => w # answering.pid)
        BY <2>2 DEF RouteInv, RunInv
      <4>4. ASSUME NEW i \in 1 .. Len(runQ'[0])
            PROVE  (i \in 1 .. n /\ runQ'[0][i] = runQ[0][i]) \/ i = n + 1
        BY <4>1
      <4>5. ASSUME NEW i \in 1 .. Len(runQ'[0])
            PROVE  /\ runSlots'[runQ'[0][i].pid] # NULL
                   /\ runState'[runQ'[0][i].pid] \in PastStates
                   /\ answering' # NULL => runQ'[0][i].pid # answering'.pid
        <5>1. CASE i \in 1 .. n /\ runQ'[0][i] = runQ[0][i]
          <6>1. /\ runSlots[runQ[0][i].pid] # NULL
                /\ Past(runQ[0][i].pid)
                /\ answering # NULL => runQ[0][i].pid # answering.pid
            BY <5>1 DEF RouteInv, QueueInv
          <6>2. runQ[0][i].pid \in Pids
            BY <5>1, ResultTyped
          <6>3. runState'[runQ[0][i].pid] \in PastStates
            BY <2>1, <6>1, <6>2 DEF Past
          <6> QED
            BY <1>1, <5>1, <6>1, <6>3 DEF Past
        <5>2. CASE i = n + 1
          BY <1>1, <2>2, <4>1, <4>3, <5>2 DEF Past
        <5> QED
          BY <4>4, <5>1, <5>2
      <4>6. ASSUME NEW i \in 1 .. Len(runQ'[0]), NEW j \in 1 .. Len(runQ'[0]),
                   runQ'[0][i].pid = runQ'[0][j].pid
            PROVE  i = j
        <5>1. (i \in 1 .. n /\ runQ'[0][i] = runQ[0][i]) \/ i = n + 1
          BY <4>4
        <5>2. (j \in 1 .. n /\ runQ'[0][j] = runQ[0][j]) \/ j = n + 1
          BY <4>4
        <5>3. CASE i = n + 1 \/ j = n + 1
          BY <4>1, <4>2, <4>6, <5>1, <5>2, <5>3
        <5>4. CASE i \in 1 .. n /\ j \in 1 .. n
          BY <4>1, <4>6, <5>4 DEF RouteInv, QueueInv
        <5> QED
          BY <5>1, <5>2, <5>3, <5>4
      <4> QED
        BY <4>5, <4>6 DEF QueueInv, Past
    <3> QED
      BY <2>3, <3>1, <3>2
  <2>5. RunInv' /\ SessionInv'
    BY <1>1, <2>1 DEF RouteInv, RunInv, SessionInv
  <2>6. AnsweringInv'
    <3>1. answering # NULL => answering.pid \in Pids
      BY DEF TypeInv, TypeOK, ServerTypeOK, Verdict
    <3> QED
      BY <1>1, <2>1, <3>1 DEF RouteInv, AnsweringInv
  <2> QED
    BY <2>4, <2>5, <2>6 DEF RouteInv
<1> QED
  BY <1>4, <1>5, <1>6, <1>7, <1>8 DEF RunNext, RunStep, CrashNext

-----------------------------------------------------------------------------
(* The server reads a result: its session is found, and so is the tester.   *)
LEMMA RouteRead ==
    ASSUME TypeInv, RouteInv, ReadRunResult
    PROVE  RouteInv'
<1> DEFINE msg == Head(runQ[0])
           slot == runSlots[msg.pid]
           n == Len(runQ[0])
<1>1. /\ n \in Nat /\ n >= 1 /\ msg = runQ[0][1]
      /\ runQ'[0] = Tail(runQ[0]) /\ Len(runQ'[0]) = n - 1
      /\ \A i \in 1 .. Len(runQ'[0]) : i + 1 \in 1 .. n /\ runQ'[0][i] = runQ[0][i + 1]
  <2>1. /\ runQ[0] # <<>> /\ runQ' = [runQ EXCEPT ![0] = Tail(runQ[0])]
        /\ runQ \in [Generation -> Seq(RunResult)]
    BY DEF ReadRunResult, HasMessage, Received, TypeInv, TypeOK, PosixTypeOK
  <2>2. runQ'[0] = Tail(runQ[0])
    BY <2>1 DEF Generation
  <2>3. runQ[0] \in Seq(RunResult)
    BY ResultTyped
  <2>4. /\ n \in Nat /\ n >= 1 /\ msg = runQ[0][1] /\ Len(Tail(runQ[0])) = n - 1
        /\ \A i \in 1 .. Len(Tail(runQ[0])) : i + 1 \in 1 .. n /\ Tail(runQ[0])[i] = runQ[0][i + 1]
    BY <2>1, <2>3, TailShift
  <2> QED
    BY <2>2, <2>4
<1>2. /\ msg.pid \in Pids /\ slot # NULL /\ Past(msg.pid)
  BY <1>1, ResultTyped DEF RouteInv, QueueInv
<1>3. /\ slot \in RunSlot /\ slot.tester \in Testers
      /\ testerSlots[slot.tester] # NULL
  BY <1>2 DEF RouteInv, SessionInv, TypeInv, TypeOK, ServerTypeOK, RunSlot
<1>4. PICK t \in MatchSession(slot) :
        /\ answering' = [pid |-> msg.pid, tester |-> t, result |-> msg.result]
        /\ testerSlots' = [testerSlots EXCEPT ![t].acc_count =
                             @ + (IF msg.result THEN 1 ELSE 0)]
  BY <1>2 DEF ReadRunResult
<1>5. t = slot.tester /\ t \in Testers
  BY <1>3 DEF MatchSession, Sessions
<1>6. /\ serverPc' = "answer"
      /\ UNCHANGED <<runSlots, request, runState>>
  BY <1>2 DEF ReadRunResult, processVars
<1>7. answering'.pid = msg.pid /\ answering'.tester = slot.tester
  BY <1>4, <1>5
<1>8. \A u \in Testers : testerSlots[u] # NULL => testerSlots'[u] # NULL
  <2>1. testerSlots \in [Testers -> TesterSlot \cup {NULL}]
    BY DEF TypeInv, TypeOK, ServerTypeOK
  <2>2. testerSlots[t] \in TesterSlot
    BY <1>3, <1>5, <2>1
  <2>3. (IF msg.result THEN 1 ELSE 0) \in Nat
    OBVIOUS
  <2>4. [testerSlots[t] EXCEPT !.acc_count = testerSlots[t].acc_count
                                  + (IF msg.result THEN 1 ELSE 0)] \in TesterSlot
    BY <2>2, <2>3, CountedSlot
  <2>5. /\ testerSlots'[t] \in TesterSlot
        /\ \A u \in Testers \ {t} : testerSlots'[u] = testerSlots[u]
    BY <1>4, <1>5, <2>1, <2>4
  <2> QED
    BY <2>5, NullAssumption
<1>9. QueueInv'
  <2>1. ASSUME NEW i \in 1 .. Len(runQ'[0])
        PROVE  /\ runSlots'[runQ'[0][i].pid] # NULL
               /\ runState'[runQ'[0][i].pid] \in PastStates
               /\ runQ'[0][i].pid # answering'.pid
    <3>1. i + 1 \in 1 .. n /\ runQ'[0][i] = runQ[0][i + 1] /\ 1 \in 1 .. n /\ i + 1 # 1
      BY <1>1
    <3>2. runQ[0][i + 1].pid # runQ[0][1].pid
      BY <3>1 DEF RouteInv, QueueInv
    <3>3. runSlots[runQ[0][i + 1].pid] # NULL /\ runState[runQ[0][i + 1].pid] \in PastStates
      BY <3>1 DEF RouteInv, QueueInv, Past
    <3> QED
      BY <1>1, <1>6, <1>7, <3>1, <3>2, <3>3
  <2>2. ASSUME NEW i \in 1 .. Len(runQ'[0]), NEW j \in 1 .. Len(runQ'[0]),
               runQ'[0][i].pid = runQ'[0][j].pid
        PROVE  i = j
    <3>1. /\ i + 1 \in 1 .. n /\ j + 1 \in 1 .. n
          /\ runQ'[0][i] = runQ[0][i + 1] /\ runQ'[0][j] = runQ[0][j + 1]
      BY <1>1
    <3>2. i + 1 = j + 1
      BY <2>2, <3>1 DEF RouteInv, QueueInv
    <3> QED
      BY <3>2
  <2> QED
    BY <2>1, <2>2 DEF QueueInv, Past
<1>10. RunInv'
  <2>1. ~ Computing(msg.pid)
    BY <1>2 DEF Past, PastStates, Computing
  <2> QED
    BY <1>6, <1>7, <2>1 DEF RouteInv, RunInv, Computing
<1>11. SessionInv'
  <2>1. \A w \in Pids : runSlots[w] # NULL => runSlots[w].tester \in Testers
    BY DEF TypeInv, TypeOK, ServerTypeOK, RunSlot
  <2>2. request # NULL => request.tester \in Testers
    BY DEF TypeInv, TypeOK, ServerTypeOK, Parse
  <2> QED
    BY <1>6, <1>8, <2>1, <2>2 DEF RouteInv, SessionInv
<1>12. AnsweringInv'
  BY <1>2, <1>6, <1>7 DEF AnsweringInv, Past
<1> QED
  BY <1>9, <1>10, <1>11, <1>12 DEF RouteInv

(* The answer is sent: the session of the run goes, and nobody needs it.    *)
LEMMA RouteAnswer ==
    ASSUME TypeInv, RouteInv, SendAnswer
    PROVE  RouteInv'
<1>1. /\ answering \in Verdict /\ answering # NULL /\ answering.pid \in Pids
  BY NullAssumption DEF SendAnswer, TypeInv, LocalsSet, Verdict
<1>2. /\ runSlots' = [runSlots EXCEPT ![answering.pid] = NULL]
      /\ answering' = NULL
      /\ UNCHANGED <<runQ, runState, testerSlots, request>>
  BY DEF SendAnswer, processVars
<1>3. /\ runSlots \in [Pids -> RunSlot \cup {NULL}]
      /\ \A w \in Pids : w # answering.pid => runSlots'[w] = runSlots[w]
      /\ runSlots'[answering.pid] = NULL
  BY <1>1, <1>2 DEF TypeInv, TypeOK, ServerTypeOK
<1>4. QueueInv'
  BY <1>1, <1>2, <1>3, ResultTyped DEF RouteInv, QueueInv, Past
<1>5. RunInv'
  BY <1>1, <1>2, <1>3 DEF RouteInv, RunInv, Computing
<1>6. SessionInv'
  BY <1>2, <1>3 DEF RouteInv, SessionInv
<1>7. AnsweringInv'
  BY <1>2 DEF AnsweringInv
<1> QED
  BY <1>4, <1>5, <1>6, <1>7 DEF RouteInv

(* A run is spawned with a session for a tester that has one.               *)
LEMMA RouteSpawn ==
    ASSUME TypeInv, RouteInv, Spawn
    PROVE  RouteInv'
<1> DEFINE slot == [loc_id |-> request.loc_id, tester |-> request.tester]
<1>1. PICK w \in Pids :
        /\ Fork(w, request.word)
        /\ runSlots' = [runSlots EXCEPT ![w] = slot]
  BY DEF Spawn
<1>2. /\ UNCHANGED <<runQ, testerSlots, answering>>
      /\ request' = NULL /\ serverPc = "spawn"
  BY DEF Spawn, queueVars
<1>3. /\ request \in Parse /\ slot \in RunSlot /\ slot # NULL
      /\ testerSlots[slot.tester] # NULL
  <2>1. request \in Parse /\ slot \in RunSlot
    BY <1>2 DEF TypeInv, LocalsSet, Parse, RunSlot
  <2>2. request # NULL
    BY <2>1, NullAssumption
  <2> QED
    BY <2>1, <2>2, NullAssumption DEF RouteInv, SessionInv
<1>4. answering = NULL
  BY <1>2 DEF RouteInv, AnsweringInv
<1>5. /\ runSlots'[w] = slot
      /\ \A v \in Pids : v # w => runSlots'[v] = runSlots[v]
  BY <1>1 DEF TypeInv, TypeOK, ServerTypeOK
<1>6. /\ runState[w] = "none" /\ runState'[w] = "boot"
      /\ \A v \in Pids : v # w => runState'[v] = runState[v]
  BY <1>1 DEF Fork, TypeInv, TypeOK, PosixTypeOK
<1>7. QueueInv'
  <2>1. \A i \in 1 .. Len(runQ[0]) : runQ[0][i].pid # w
    BY <1>6 DEF RouteInv, QueueInv, Past, PastStates
  <2> QED
    BY <1>2, <1>4, <1>5, <1>6, <2>1, ResultTyped DEF RouteInv, QueueInv, Past
<1>8. RunInv'
  BY <1>2, <1>3, <1>4, <1>5, <1>6 DEF RouteInv, RunInv, Computing
<1>9. SessionInv'
  <2>1. \A v \in Pids : runSlots'[v] # NULL => testerSlots[runSlots'[v].tester] # NULL
    BY <1>3, <1>5 DEF RouteInv, SessionInv
  <2> QED
    BY <1>2, <2>1 DEF SessionInv
<1>10. AnsweringInv'
  BY <1>2, <1>4 DEF AnsweringInv
<1> QED
  BY <1>7, <1>8, <1>9, <1>10 DEF RouteInv

-----------------------------------------------------------------------------
(* The server takes a step. *)
LEMMA RouteServer ==
    ASSUME TypeInv, RouteInv, ServerStep
    PROVE  RouteInv'
<1>1. serverPc # "answer" => answering = NULL
  BY DEF RouteInv, AnsweringInv
<1>2. ASSUME serverPc # "answer",
             UNCHANGED <<runQ, runSlots, testerSlots, answering, request>>,
             \A w \in Pids : (Past(w) => Past(w)') /\ (Computing(w)' => Computing(w))
      PROVE  RouteInv'
  BY <1>1, <1>2, RouteFrame
<1>3. ASSUME serverPc # "answer",
             UNCHANGED <<runQ, runSlots, testerSlots, answering, request, runState>>
      PROVE  RouteInv'
  <2>1. \A w \in Pids : (Past(w) => Past(w)') /\ (Computing(w)' => Computing(w))
    BY <1>3 DEF Past, Computing
  <2> QED
    BY <1>2, <1>3, <2>1
<1>4. CASE RegisterTester
  <2>1. Head(registerQ[0]) \in Testers
    BY <1>4, ReceivedType
       DEF RegisterTester, Generation, TypeInv, TypeOK, PosixTypeOK
  <2>2. NewSession(Head(registerQ[0])) # NULL
    BY <2>1, NewSessionType, NullAssumption
  <2>3. \A t \in Testers : testerSlots[t] # NULL => testerSlots'[t] # NULL
    BY <1>4, <2>1, <2>2 DEF RegisterTester, TypeInv, TypeOK, ServerTypeOK
  <2>4. UNCHANGED <<runQ, runSlots, answering, request, serverPc, runState>>
    BY <1>4 DEF RegisterTester, localVars, processVars
  <2>5. \A w \in Pids : (Past(w) => Past(w)') /\ (Computing(w)' => Computing(w))
    BY <2>4 DEF Past, Computing
  <2> QED
    BY <2>3, <2>4, <2>5, RouteFrame
<1>5. CASE Throttle
  BY <1>3, <1>5 DEF Throttle, slotVars, localVars, posixVars, queueVars, processVars
<1>6. CASE NoRunResult
  BY <1>3, <1>6 DEF NoRunResult, slotVars, posixVars, queueVars, processVars
<1>7. CASE ReadRunResult
  BY <1>7, RouteRead
<1>8. CASE SendAnswer
  BY <1>8, RouteAnswer
<1>9. CASE ReapNothing
  BY <1>3, <1>9 DEF ReapNothing, reapUnchanged, slotVars, localVars, queueVars
<1>10. CASE ReapExited \/ ReapFailed \/ ReapFatal
  <2>1. PICK v \in Pids : runState[v] \in {"zombie", "failed"} /\ Reap(v)
    BY <1>10 DEF ReapExited, ReapFailed, ReapFatal
  <2>2. /\ serverPc # "answer"
        /\ UNCHANGED <<runQ, runSlots, testerSlots, answering, request>>
    BY <1>10 DEF ReapExited, ReapFailed, ReapFatal, reapUnchanged, slotVars,
                 localVars, queueVars
  <2> QED
    BY <1>2, <2>1, <2>2, ReapForward
<1>11. CASE NoRequest
  BY <1>3, <1>11 DEF NoRequest, slotVars, localVars, posixVars, queueVars, processVars
<1>12. CASE TakeExitRequest
  BY <1>3, <1>12 DEF TakeExitRequest, slotVars, localVars, processVars
<1>13. CASE TakeRequest
  <2> DEFINE msg == Head(reportQ[0])
             session == IF testerSlots[msg.tester] = NULL THEN NewSession(msg.tester)
                        ELSE testerSlots[msg.tester]
  <2>1. /\ msg \in Parse \cup {Exit} /\ msg.type = "parse"
    BY <1>13, ReceivedType
       DEF TakeRequest, Generation, TypeInv, TypeOK, PosixTypeOK
  <2>2. msg.tester \in Testers
    BY <2>1 DEF Exit, Parse
  <2>3. testerSlots \in [Testers -> TesterSlot \cup {NULL}]
    BY DEF TypeInv, TypeOK, ServerTypeOK
  <2>4. session \in TesterSlot
    BY <2>2, <2>3, NewSessionType
  <2>5. [session EXCEPT !.rcd_count = session.rcd_count + 1] # NULL
    <3> HIDE DEF session
    <3>1. [session EXCEPT !.rcd_count = session.rcd_count + 1] \in TesterSlot
      BY <2>4, CountedSlot
    <3> QED
      BY <3>1, NullAssumption
  <2>6. testerSlots' = [testerSlots EXCEPT ![msg.tester] =
                          [session EXCEPT !.rcd_count = session.rcd_count + 1]]
    BY <1>13 DEF TakeRequest
  <2>7. /\ testerSlots'[msg.tester] # NULL
        /\ \A t \in Testers : testerSlots[t] # NULL => testerSlots'[t] # NULL
    BY <2>2, <2>3, <2>5, <2>6
  <2>8. /\ request' \in {request, msg}
        /\ UNCHANGED <<runQ, runSlots, answering, runState>>
        /\ serverPc # "answer"
    BY <1>13 DEF TakeRequest, processVars
  <2>9. \A w \in Pids : (Past(w) => Past(w)') /\ (Computing(w)' => Computing(w))
    BY <2>8 DEF Past, Computing
  <2>10. request' \in {request, NULL} \/ testerSlots'[request'.tester] # NULL
    BY <2>7, <2>8
  <2> QED
    BY <1>1, <2>7, <2>8, <2>9, <2>10, RouteFrame
<1>14. CASE Spawn
  BY <1>14, RouteSpawn
<1>15. CASE SpawnFails
  <2>1. /\ request' \in {request, NULL}
        /\ UNCHANGED <<runQ, runSlots, testerSlots, answering, runState>>
        /\ serverPc # "answer"
    BY <1>15 DEF SpawnFails, slotVars, queueVars, processVars
  <2>2. \A w \in Pids : (Past(w) => Past(w)') /\ (Computing(w)' => Computing(w))
    BY <2>1 DEF Past, Computing
  <2> QED
    BY <1>1, <2>1, <2>2, RouteFrame
<1>16. CASE PushGraph
  BY <1>3, <1>16 DEF PushGraph, slotVars, queueVars
<1>17. CASE WaitAfterFailure \/ FinalWait \/ ExitWait
  <2>1. /\ WaitForAll /\ serverPc # "answer"
        /\ UNCHANGED <<runQ, runSlots, testerSlots, answering, request>>
    BY <1>17 DEF WaitAfterFailure, FinalWait, ExitWait, slotVars, localVars, queueVars
  <2> QED
    BY <1>2, <2>1, WaitForward
<1>18. CASE BroadcastExit
  BY <1>3, <1>18 DEF BroadcastExit, slotVars, localVars, processVars
<1>19. CASE PrintReport
  BY <1>3, <1>19 DEF PrintReport, slotVars, localVars, posixVars, queueVars, processVars
<1>20. CASE RemoveQueues
  BY <1>3, <1>20 DEF RemoveQueues, Unlink, slotVars, localVars, processVars
<1>21. CASE OnExit
  BY <1>3, <1>21 DEF OnExit, slotVars, localVars, processVars
<1> QED
  BY <1>4, <1>5, <1>6, <1>7, <1>8, <1>9, <1>10, <1>11, <1>12, <1>13, <1>14,
     <1>15, <1>16, <1>17, <1>18, <1>19, <1>20, <1>21 DEF ServerStep

(* A step that touches neither the runs nor the server keeps the invariant.  *)
LEMMA RouteStutter ==
    ASSUME TypeInv, RouteInv, UNCHANGED <<runQ, runState, serverVars>>
    PROVE  RouteInv'
<1>1. UNCHANGED <<runQ, runState, runSlots, testerSlots, answering, request, serverPc>>
  BY DEF serverVars, slotVars, localVars
<1>2. \A w \in Pids : (Past(w) => Past(w)') /\ (Computing(w)' => Computing(w))
  BY <1>1 DEF Past, Computing
<1>3. answering # NULL => serverPc' = serverPc
  BY <1>1
<1> QED
  BY <1>1, <1>2, <1>3, RouteFrame

(* A tester takes a step: nothing of this is its business.                  *)
LEMMA RouteTester ==
    ASSUME TypeInv, RouteInv, NEW t \in Testers, TesterNext(t)
    PROVE  RouteInv'
<1>1. UNCHANGED <<runQ, runState, serverVars>>
  BY DEF TesterNext, TesterStep, posixVars, queueVars, processVars, OpenRegister,
         Register, OpenReport, ReadLine, SendExit, SendWord, TakeAnswer, TakeExit,
         PollNothing, CloseTester
<1> QED
  BY <1>1, RouteStutter

(* The invariant of the routing is inductive.                                *)
LEMMA RouteStep == TypeInv /\ RouteInv /\ [Next]_vars => TypeInv' /\ RouteInv'
<1> SUFFICES ASSUME TypeInv, RouteInv, [Next]_vars PROVE TypeInv' /\ RouteInv'
  OBVIOUS
<1>1. TypeInv'
  BY TypeStep
<1>2. CASE ServerNext
  BY <1>1, <1>2, RouteServer DEF ServerNext
<1>3. ASSUME NEW w \in Pids, RunNext(w) \/ CrashNext(w) PROVE RouteInv'
  BY <1>3, RouteRun
<1>4. ASSUME NEW t \in Testers, TesterNext(t) PROVE RouteInv'
  BY <1>4, RouteTester
<1>5. CASE UNCHANGED vars
  <2>1. UNCHANGED <<runQ, runState, serverVars>>
    BY <1>5 DEF vars, posixVars, queueVars, processVars
  <2> QED
    BY <1>1, <2>1, RouteStutter
<1>6. RouteInv'
  BY <1>2, <1>3, <1>4, <1>5 DEF Next, Terminating
<1> QED
  BY <1>1, <1>6

(* A result in the queue finds the session of its run, and that session the *)
(* session of its tester (validator.c:253-281), whatever fails and for any   *)
(* number of testers and runs: no answer goes to another tester.             *)
THEOREM RoutingCorrect == Spec => []SlotRouting
<1>1. Init => TypeInv /\ RouteInv
  BY TypeInit, RouteInit
<1>2. TypeInv /\ RouteInv => SlotRouting
  <2> SUFFICES ASSUME TypeInv, RouteInv PROVE SlotRouting
    OBVIOUS
  <2>1. \A msg \in ToSet(runQ[0]) : runSlots[msg.pid] # NULL
    BY ResultTyped DEF ToSet, RouteInv, QueueInv
  <2> QED
    BY <2>1 DEF RouteInv, SessionInv, AnsweringInv, SlotRouting
<1> QED
  BY <1>1, RouteStep, <1>2, PTL DEF Spec

-----------------------------------------------------------------------------
(* THE ANSWERS                                                             *)

(* A word was sent under this loc_id and is not answered.                   *)
Owed(t, l) == results[t][l] # NULL /\ ~ (testerPc[t] = "send" /\ loc_id[t] = l)

(* No queue holds more than its capacity, so that every message has a slot. *)
CapInv ==
    \A g \in Generation :
        /\ Len(reportQ[g]) <= QueueCap
        /\ \A t \in Testers : Len(testerQ[t][g]) <= QueueCap

(* The locals that name a request or a run are reset when they are done     *)
(* with, and a run that was never forked has no session.                    *)
ResetInv ==
    /\ request # NULL => serverPc = "spawn"
    /\ spawned # NULL => serverPc = "push"
    /\ \A w \in Pids : runState[w] = "none" => runSlots[w] = NULL

(* A tester saves words under the numbers of lines it has read; the line    *)
(* being sent is saved when it is a word.                                   *)
LineInv ==
    \A t \in Testers :
        /\ \A l \in LocIds : results[t][l] # NULL => l <= loc_id[t]
        /\ testerPc[t] = "send" =>
             /\ line[t] \in Line
             /\ results[t][loc_id[t]] = IF line[t] = "!" THEN NULL ELSE line[t]

(* What is owed is in one place at most, the rest in none; with no fault,   *)
(* exactly in one.                                                          *)
PlacesInv ==
    \A t \in Testers, l \in LocIds :
        /\ Places(t, l) <= (IF Owed(t, l) THEN 1 ELSE 0)
        /\ faults = 0 /\ Owed(t, l) => Places(t, l) = 1

(* Whatever is on its way carries the word the tester has saved, or the     *)
(* verdict of that word.                                                    *)
RequestWord ==
    \A g \in Generation : \A msg \in ToSet(reportQ[g]) :
        msg.type = "parse" => msg.word = results[msg.tester][msg.loc_id]

ServedWord == request # NULL => request.word = results[request.tester][request.loc_id]

RunsWord ==
    \A w \in Pids :
        runSlots[w] # NULL =>
            runWord[w] = results[runSlots[w].tester][runSlots[w].loc_id]

ResultVerdict ==
    /\ \A msg \in ToSet(runQ[0]) : msg.result = (runWord[msg.pid] \in Accepted)
    /\ answering # NULL => answering.result = (runWord[answering.pid] \in Accepted)

AnswerVerdict ==
    \A t \in Testers, g \in Generation : \A msg \in ToSet(testerQ[t][g]) :
        msg.type = "answer" => msg.result = (results[t][msg.loc_id] \in Accepted)

VerdictInv == RequestWord /\ ServedWord /\ RunsWord /\ ResultVerdict /\ AnswerVerdict

AnswerInv == CapInv /\ ResetInv /\ LineInv /\ PlacesInv /\ VerdictInv

-----------------------------------------------------------------------------
(* COUNTING MESSAGES IN QUEUES                                             *)

(* There are finitely many slots, so that what they hold can be counted.    *)
LEMMA HeldFinite ==
    ASSUME NEW queues, NEW msgs
    PROVE  /\ IsFiniteSet(Held(queues, msgs))
           /\ Cardinality(Held(queues, msgs)) \in Nat
<1>1. IsFiniteSet(1 .. QueueCap)
  BY FS_Interval, PosixAssumption DEF PosixAssumption
<1>2. IsFiniteSet({0} \cup {1}) /\ {0} \cup {1} = Generation
  BY FS_Singleton, FS_AddElement DEF Generation
<1>3. IsFiniteSet(Slots)
  BY <1>1, <1>2, FS_Product DEF Slots
<1>4. Held(queues, msgs) \in SUBSET Slots
  BY DEF Held
<1> QED
  BY <1>3, <1>4, FS_Subset, FS_CardinalityType

(* A message sent takes one slot more, and its kind is counted once more.   *)
LEMMA HeldSent ==
    ASSUME NEW M, NEW queues \in [Generation -> Seq(M)], NEW gen \in Generation,
           NEW msg \in M, HasRoom(queues[gen]), NEW msgs
    PROVE  Cardinality(Held(Sent(queues, gen, msg), msgs)) =
             Cardinality(Held(queues, msgs)) + (IF msg \in msgs THEN 1 ELSE 0)
<1> DEFINE q == Sent(queues, gen, msg)
           new == <<gen, Len(queues[gen]) + 1>>
<1>1. /\ q[gen] = Append(queues[gen], msg)
      /\ \A g \in Generation \ {gen} : q[g] = queues[g]
  BY DEF Sent
<1>2. /\ Len(queues[gen]) \in Nat /\ Len(q[gen]) = Len(queues[gen]) + 1
      /\ q[gen][Len(queues[gen]) + 1] = msg
      /\ \A i \in 1 .. Len(queues[gen]) : q[gen][i] = queues[gen][i]
  BY <1>1
<1>3. new \in Slots /\ new \notin Held(queues, msgs)
  BY <1>2, PosixAssumption DEF PosixAssumption, HasRoom, Slots, Held
<1> HIDE DEF q
<1>4. ASSUME NEW s \in Slots, s # new
      PROVE  s \in Held(q, msgs) <=> s \in Held(queues, msgs)
  <2>1. PICK g \in Generation, i \in 1 .. QueueCap : s = <<g, i>>
    BY DEF Slots
  <2>2. CASE g # gen
    BY <1>1, <2>1, <2>2 DEF Held
  <2>3. CASE g = gen
    <3>1. i # Len(queues[gen]) + 1 /\ i \in Nat /\ i >= 1
      BY <1>4, <2>1, <2>3, PosixAssumption DEF PosixAssumption
    <3>2. i <= Len(q[gen]) <=> i <= Len(queues[gen])
      BY <1>2, <3>1
    <3>3. i <= Len(queues[gen]) => q[gen][i] = queues[gen][i]
      BY <1>2, <3>1
    <3> QED
      BY <2>1, <2>3, <3>2, <3>3 DEF Held
  <2> QED
    BY <2>2, <2>3
<1>5. new \in Held(q, msgs) <=> msg \in msgs
  BY <1>2, <1>3 DEF Held
<1>6. IsFiniteSet(Held(queues, msgs))
  BY HeldFinite
<1>7. CASE msg \in msgs
  <2>1. Held(q, msgs) = Held(queues, msgs) \cup {new}
    BY <1>3, <1>4, <1>5, <1>7 DEF Held
  <2>2. Cardinality(Held(queues, msgs) \cup {new}) = Cardinality(Held(queues, msgs)) + 1
    BY <1>3, <1>6, FS_AddElement
  <2> QED
    BY <1>7, <2>1, <2>2 DEF q
<1>8. CASE msg \notin msgs
  <2>1. Held(q, msgs) = Held(queues, msgs)
    BY <1>3, <1>4, <1>5, <1>8 DEF Held
  <2> QED
    BY <1>8, <2>1, HeldFinite DEF q
<1> QED
  BY <1>7, <1>8

(* A message received leaves its slot and the others move up by one.        *)
LEMMA HeldReceived ==
    ASSUME NEW M, NEW queues \in [Generation -> Seq(M)], NEW gen \in Generation,
           HasMessage(queues[gen]), Len(queues[gen]) <= QueueCap, NEW msgs
    PROVE  Cardinality(Held(queues, msgs)) =
             Cardinality(Held(Received(queues, gen), msgs))
               + (IF Head(queues[gen]) \in msgs THEN 1 ELSE 0)
<1> DEFINE q == Received(queues, gen)
           first == <<gen, 1>>
           rest == Held(queues, msgs) \ {first}
           shift == [s \in Held(q, msgs) |-> IF s[1] = gen THEN <<gen, s[2] + 1>> ELSE s]
<1>1. /\ q[gen] = Tail(queues[gen])
      /\ \A g \in Generation \ {gen} : q[g] = queues[g]
  BY DEF Received
<1>2. /\ Len(queues[gen]) \in Nat /\ Len(queues[gen]) >= 1
      /\ Head(queues[gen]) = queues[gen][1]
      /\ Len(q[gen]) = Len(queues[gen]) - 1
      /\ \A i \in 1 .. Len(q[gen]) : q[gen][i] = queues[gen][i + 1]
  BY <1>1, TailShift DEF HasMessage
<1>3. first \in Held(queues, msgs) <=> Head(queues[gen]) \in msgs
  BY <1>2, PosixAssumption DEF PosixAssumption, Held, Slots
<1> HIDE DEF q
<1>4. ASSUME NEW s \in Held(q, msgs)
      PROVE  /\ s[1] = gen => s[2] \in 1 .. Len(q[gen]) /\ <<gen, s[2] + 1>> \in rest
             /\ s[1] # gen => s \in rest
             /\ s = <<s[1], s[2]>>
  <2>1. PICK g \in Generation, i \in 1 .. QueueCap : s = <<g, i>>
    BY DEF Held, Slots
  <2>2. i <= Len(q[g]) /\ q[g][i] \in msgs
    BY <2>1 DEF Held
  <2>3. CASE g # gen
    BY <1>1, <2>1, <2>2, <2>3 DEF Held
  <2>4. CASE g = gen
    <3>1. i \in 1 .. Len(q[gen]) /\ i + 1 \in 1 .. QueueCap /\ i + 1 # 1
          /\ i + 1 <= Len(queues[gen])
      BY <1>2, <2>2, <2>4, PosixAssumption DEF PosixAssumption
    <3>2. queues[gen][i + 1] \in msgs
      BY <1>2, <2>2, <2>4, <3>1
    <3>3. <<gen, i + 1>> \in Held(queues, msgs)
      BY <3>1, <3>2 DEF Held, Slots
    <3> QED
      BY <2>1, <2>4, <3>1, <3>3
  <2> QED
    BY <2>3, <2>4
<1>5. ASSUME NEW s \in rest
      PROVE  \E r \in Held(q, msgs) : shift[r] = s
  <2>1. PICK g \in Generation, i \in 1 .. QueueCap : s = <<g, i>>
    BY DEF Held, Slots
  <2>2. i <= Len(queues[g]) /\ queues[g][i] \in msgs /\ (g = gen => i # 1)
    BY <2>1 DEF Held
  <2>3. CASE g # gen
    <3>1. s \in Held(q, msgs)
      BY <1>1, <2>1, <2>2, <2>3 DEF Held, Slots
    <3> QED
      BY <2>1, <2>3, <3>1
  <2>4. CASE g = gen
    <3>1. /\ i - 1 \in 1 .. Len(q[gen]) /\ i - 1 \in 1 .. QueueCap /\ i - 1 + 1 = i
      BY <1>2, <2>2, <2>4, PosixAssumption DEF PosixAssumption
    <3>2. q[gen][i - 1] \in msgs
      BY <1>2, <2>2, <2>4, <3>1
    <3>3. <<gen, i - 1>> \in Held(q, msgs)
      BY <3>1, <3>2 DEF Held, Slots
    <3>4. shift[<<gen, i - 1>>] = s
      BY <2>1, <2>4, <3>1, <3>3
    <3> QED
      BY <3>3, <3>4
  <2> QED
    BY <2>3, <2>4
<1>6. ASSUME NEW r \in Held(q, msgs), NEW s \in Held(q, msgs), shift[r] = shift[s]
      PROVE  r = s
  <2>1. /\ r = <<r[1], r[2]>> /\ s = <<s[1], s[2]>>
        /\ r[1] = gen => r[2] \in 1 .. Len(q[gen])
        /\ s[1] = gen => s[2] \in 1 .. Len(q[gen])
    BY <1>4, Zenon
  <2>2. CASE r[1] = gen /\ s[1] = gen
    <3>1. <<gen, r[2] + 1>> = <<gen, s[2] + 1>>
      BY <1>6, <2>2
    <3>2. r[2] + 1 = s[2] + 1
      BY <3>1
    <3> QED
      BY <2>1, <2>2, <3>2
  <2>3. CASE r[1] = gen /\ s[1] # gen
    BY <1>6, <2>3
  <2>4. CASE r[1] # gen /\ s[1] = gen
    BY <1>6, <2>4
  <2>5. CASE r[1] # gen /\ s[1] # gen
    BY <1>6, <2>5
  <2> QED
    BY <2>2, <2>3, <2>4, <2>5
<1>7. shift \in [Held(q, msgs) -> rest]
  BY <1>4
<1>8. shift \in Bijection(Held(q, msgs), rest)
  <2>1. shift \in Injection(Held(q, msgs), rest)
    BY <1>6, <1>7 DEF Injection, IsInjective
  <2>2. shift \in Surjection(Held(q, msgs), rest)
    BY <1>5, <1>7 DEF Surjection
  <2> QED
    BY <2>1, <2>2 DEF Bijection
<1>9. ExistsBijection(Held(q, msgs), rest)
  BY <1>8 DEF ExistsBijection
<1>10. Cardinality(rest) = Cardinality(Held(q, msgs))
  BY <1>9, HeldFinite, FS_Bijection
<1>11. /\ Cardinality(rest) = IF first \in Held(queues, msgs)
                              THEN Cardinality(Held(queues, msgs)) - 1
                              ELSE Cardinality(Held(queues, msgs))
       /\ Cardinality(Held(queues, msgs)) \in Nat
  BY HeldFinite, FS_RemoveElement
<1> QED
  BY <1>3, <1>10, <1>11 DEF q

-----------------------------------------------------------------------------
(* WHAT QUEUES HOLD                                                        *)

(* What is sent is the only message that appears, and no queue overflows.   *)
LEMMA SentHolds ==
    ASSUME NEW M, NEW queues \in [Generation -> Seq(M)], NEW gen \in Generation,
           NEW msg \in M, HasRoom(queues[gen]),
           \A g \in Generation : Len(queues[g]) <= QueueCap
    PROVE  /\ \A g \in Generation : Len(Sent(queues, gen, msg)[g]) <= QueueCap
           /\ \A g \in Generation :
                ToSet(Sent(queues, gen, msg)[g]) \subseteq ToSet(queues[g]) \cup {msg}
           /\ \A g \in Generation :
                ToSet(queues[g]) \subseteq ToSet(Sent(queues, gen, msg)[g])
<1>1. /\ Sent(queues, gen, msg)[gen] = Append(queues[gen], msg)
      /\ \A g \in Generation \ {gen} : Sent(queues, gen, msg)[g] = queues[g]
  BY DEF Sent
<1>2. Len(Append(queues[gen], msg)) <= QueueCap
  BY PosixAssumption DEF PosixAssumption, HasRoom
<1>3. /\ ToSet(Append(queues[gen], msg)) \subseteq ToSet(queues[gen]) \cup {msg}
      /\ ToSet(queues[gen]) \subseteq ToSet(Append(queues[gen], msg))
  BY DEF ToSet
<1> QED
  BY <1>1, <1>2, <1>3

(* What is received was there, and nothing appears.                         *)
LEMMA ReceivedHolds ==
    ASSUME NEW M, NEW queues \in [Generation -> Seq(M)], NEW gen \in Generation,
           HasMessage(queues[gen]),
           \A g \in Generation : Len(queues[g]) <= QueueCap
    PROVE  /\ \A g \in Generation : Len(Received(queues, gen)[g]) <= QueueCap
           /\ \A g \in Generation :
                ToSet(Received(queues, gen)[g]) \subseteq ToSet(queues[g])
           /\ Head(queues[gen]) \in ToSet(queues[gen])
<1>1. /\ Received(queues, gen)[gen] = Tail(queues[gen])
      /\ \A g \in Generation \ {gen} : Received(queues, gen)[g] = queues[g]
  BY DEF Received
<1>2. /\ Len(queues[gen]) \in Nat /\ Len(queues[gen]) >= 1
      /\ Head(queues[gen]) = queues[gen][1]
      /\ Len(Tail(queues[gen])) = Len(queues[gen]) - 1
      /\ \A i \in 1 .. Len(Tail(queues[gen])) :
           i + 1 \in 1 .. Len(queues[gen]) /\ Tail(queues[gen])[i] = queues[gen][i + 1]
  BY TailShift DEF HasMessage
<1>3. ToSet(Tail(queues[gen])) \subseteq ToSet(queues[gen])
  BY <1>2 DEF ToSet
<1>4. Head(queues[gen]) \in ToSet(queues[gen])
  BY <1>2 DEF ToSet
<1>5. Len(Tail(queues[gen])) <= QueueCap
  BY <1>2, PosixAssumption DEF PosixAssumption
<1> QED
  BY <1>1, <1>3, <1>4, <1>5

(* The messages of a queue have the type of its messages.                   *)
LEMMA HeldTyped ==
    ASSUME TypeInv, NEW g \in Generation
    PROVE  /\ reportQ \in [Generation -> Seq(Parse \cup {Exit})]
           /\ runQ \in [Generation -> Seq(RunResult)]
           /\ ToSet(reportQ[g]) \subseteq Parse \cup {Exit}
           /\ ToSet(runQ[g]) \subseteq RunResult
           /\ \A t \in Testers :
                /\ testerQ[t] \in [Generation -> Seq(Answer \cup {Exit})]
                /\ ToSet(testerQ[t][g]) \subseteq Answer \cup {Exit}
  BY DEF TypeInv, TypeOK, PosixTypeOK, ToSet

(* A message is in some slot, and is counted by the kind it is of.          *)
LEMMA HeldCounts ==
    ASSUME NEW M, NEW queues \in [Generation -> Seq(M)], NEW gen \in Generation,
           Len(queues[gen]) <= QueueCap, NEW msgs, NEW msg \in ToSet(queues[gen]),
           msg \in msgs
    PROVE  Cardinality(Held(queues, msgs)) >= 1
<1>1. PICK i \in 1 .. Len(queues[gen]) : queues[gen][i] = msg
  BY DEF ToSet
<1>2. <<gen, i>> \in Held(queues, msgs)
  BY <1>1, PosixAssumption DEF PosixAssumption, Held, Slots
<1>3. Cardinality(Held(queues, msgs)) # 0
  BY <1>2, HeldFinite, FS_EmptySet
<1> QED
  BY <1>3, HeldFinite

-----------------------------------------------------------------------------
(* PLACES                                                                  *)

(* The parts of Places are numbers.                                         *)
LEMMA PartsCounted ==
    ASSUME NEW t, NEW l
    PROVE  /\ Cardinality(Requests(t, l)) \in Nat
           /\ Cardinality(Answers(t, l)) \in Nat
           /\ IsFiniteSet(Runs(t, l))
           /\ Cardinality(Runs(t, l)) \in Nat
           /\ Places(t, l) \in Nat
<1>1. Cardinality(Requests(t, l)) \in Nat /\ Cardinality(Answers(t, l)) \in Nat
  BY HeldFinite DEF Requests, Answers
<1>2. IsFiniteSet(Pids)
  BY FS_Interval, PosixAssumption DEF PosixAssumption, Pids
<1>3. Runs(t, l) \in SUBSET Pids
  BY DEF Runs
<1>4. IsFiniteSet(Runs(t, l)) /\ Cardinality(Runs(t, l)) \in Nat
  BY <1>2, <1>3, FS_Subset, FS_CardinalityType
<1> QED
  BY <1>1, <1>4 DEF Places

(* So are they in the next state.                                           *)
LEMMA PlacesNumbers == \A t, l : Places(t, l) \in Nat
  BY PartsCounted

LEMMA PlacesNumbersNext == \A t, l : Places(t, l)' \in Nat
<1>1. (\A t, l : Places(t, l) \in Nat)'
  BY PlacesNumbers, PTL
<1> QED
  BY <1>1

(* Whatever is on its way is owed to its tester.                            *)
OnlyOwed ==
    /\ \A g \in Generation : \A msg \in ToSet(reportQ[g]) :
         msg.type = "parse" => Owed(msg.tester, msg.loc_id)
    /\ \A t \in Testers, g \in Generation : \A msg \in ToSet(testerQ[t][g]) :
         msg.type = "answer" => Owed(t, msg.loc_id)
    /\ \A w \in Pids :
         runSlots[w] # NULL => Owed(runSlots[w].tester, runSlots[w].loc_id)
    /\ request # NULL => Owed(request.tester, request.loc_id)

(* It is in a place, and no place is taken by what is not owed.             *)
LEMMA InPlace == TypeInv /\ CapInv /\ PlacesInv => OnlyOwed
<1> SUFFICES ASSUME TypeInv, CapInv, PlacesInv PROVE OnlyOwed
  OBVIOUS
<1>1. ASSUME NEW t \in Testers, NEW l \in LocIds,
             \/ Cardinality(Requests(t, l)) >= 1
             \/ Cardinality(Answers(t, l)) >= 1
             \/ Cardinality(Runs(t, l)) >= 1
             \/ request # NULL /\ request.tester = t /\ request.loc_id = l
      PROVE  Owed(t, l)
  <2> DEFINE a == Cardinality(Requests(t, l))
             b == Cardinality(Answers(t, l))
             c == Cardinality(Runs(t, l))
             d == IF request # NULL /\ request.tester = t /\ request.loc_id = l THEN 1 ELSE 0
  <2>1. a \in Nat /\ b \in Nat /\ c \in Nat /\ d \in Nat
    BY PartsCounted
  <2>2. a >= 1 \/ b >= 1 \/ c >= 1 \/ d >= 1
    BY <1>1
  <2>3. Places(t, l) = a + b + c + d
    BY DEF Places
  <2>4. Places(t, l) <= IF Owed(t, l) THEN 1 ELSE 0
    BY DEF PlacesInv
  <2> HIDE DEF a, b, c, d
  <2> QED
    BY <2>1, <2>2, <2>3, <2>4
<1>2. ASSUME NEW g \in Generation, NEW msg \in ToSet(reportQ[g]), msg.type = "parse"
      PROVE  Owed(msg.tester, msg.loc_id)
  <2>1. msg \in Parse
    BY <1>2, HeldTyped DEF Exit
  <2>2. Cardinality(Requests(msg.tester, msg.loc_id)) >= 1
    BY <2>1, HeldTyped, HeldCounts DEF CapInv, Requests
  <2> QED
    BY <1>1, <2>1, <2>2 DEF Parse
<1>3. ASSUME NEW t \in Testers, NEW g \in Generation, NEW msg \in ToSet(testerQ[t][g]),
             msg.type = "answer"
      PROVE  Owed(t, msg.loc_id)
  <2>1. msg \in Answer
    BY <1>3, HeldTyped DEF Exit
  <2>2. Cardinality(Answers(t, msg.loc_id)) >= 1
    BY <2>1, HeldTyped, HeldCounts DEF CapInv, Answers
  <2> QED
    BY <1>1, <2>1, <2>2 DEF Answer
<1>4. ASSUME NEW w \in Pids, runSlots[w] # NULL
      PROVE  Owed(runSlots[w].tester, runSlots[w].loc_id)
  <2>1. runSlots[w] \in RunSlot
    BY <1>4 DEF TypeInv, TypeOK, ServerTypeOK
  <2>2. w \in Runs(runSlots[w].tester, runSlots[w].loc_id)
    BY <2>1 DEF Runs, RunSlot
  <2>3. Cardinality(Runs(runSlots[w].tester, runSlots[w].loc_id)) # 0
    BY <2>2, PartsCounted, FS_EmptySet
  <2>4. Cardinality(Runs(runSlots[w].tester, runSlots[w].loc_id)) >= 1
    BY <2>3, PartsCounted
  <2> QED
    BY <1>1, <2>1, <2>4 DEF RunSlot
<1>5. ASSUME request # NULL
      PROVE  Owed(request.tester, request.loc_id)
  <2>1. request.tester \in Testers /\ request.loc_id \in LocIds
    BY <1>5 DEF TypeInv, TypeOK, ServerTypeOK, Parse
  <2> QED
    BY <1>1, <1>5, <2>1
<1> QED
  BY <1>2, <1>3, <1>4, <1>5 DEF OnlyOwed

(* A message sent to the server is one place more for its request.          *)
LEMMA ReportSent ==
    ASSUME TypeInv, NEW gen \in Generation, NEW msg \in Parse \cup {Exit},
           HasRoom(reportQ[gen]), reportQ' = Sent(reportQ, gen, msg),
           UNCHANGED <<testerQ, runSlots, request>>,
           NEW t, NEW l
    PROVE  Places(t, l)' = Places(t, l)
             + (IF msg \in Parse /\ msg.tester = t /\ msg.loc_id = l THEN 1 ELSE 0)
<1> DEFINE kind == {m \in Parse : m.tester = t /\ m.loc_id = l}
<1>1. Cardinality(Requests(t, l)') = Cardinality(Requests(t, l))
        + (IF msg \in kind THEN 1 ELSE 0)
  <2>1. /\ Requests(t, l) = Held(reportQ, kind)
        /\ Requests(t, l)' = Held(Sent(reportQ, gen, msg), kind)
    BY DEF Requests
  <2>2. reportQ \in [Generation -> Seq(Parse \cup {Exit})]
    BY DEF TypeInv, TypeOK, PosixTypeOK
  <2> HIDE DEF kind
  <2> QED
    BY <2>1, <2>2, HeldSent
<1>2. Answers(t, l)' = Answers(t, l) /\ Runs(t, l)' = Runs(t, l)
  BY DEF Answers, Runs
<1> QED
  BY <1>1, <1>2, PartsCounted DEF Places

(* A message the server has read is in the queue no more.                   *)
LEMMA ReportReceived ==
    ASSUME TypeInv, CapInv, HasMessage(reportQ[0]),
           reportQ' = Received(reportQ, 0), NEW t, NEW l
    PROVE  Cardinality(Requests(t, l)) = Cardinality(Requests(t, l)')
             + (IF /\ Head(reportQ[0]) \in Parse
                   /\ Head(reportQ[0]).tester = t
                   /\ Head(reportQ[0]).loc_id = l THEN 1 ELSE 0)
<1> DEFINE kind == {m \in Parse : m.tester = t /\ m.loc_id = l}
<1>1. Cardinality(Requests(t, l)) = Cardinality(Requests(t, l)')
        + (IF Head(reportQ[0]) \in kind THEN 1 ELSE 0)
  <2>1. /\ Requests(t, l) = Held(reportQ, kind)
        /\ Requests(t, l)' = Held(Received(reportQ, 0), kind)
    BY DEF Requests
  <2>2. /\ reportQ \in [Generation -> Seq(Parse \cup {Exit})]
        /\ 0 \in Generation /\ Len(reportQ[0]) <= QueueCap
    BY DEF TypeInv, TypeOK, PosixTypeOK, CapInv, Generation
  <2> HIDE DEF kind
  <2> QED
    BY <2>1, <2>2, HeldReceived
<1> QED
  BY <1>1

(* A message sent to a tester is a place for its answer.                    *)
LEMMA AnswerSent ==
    ASSUME TypeInv, NEW t \in Testers, NEW gen \in Generation,
           NEW msg \in Answer \cup {Exit}, HasRoom(testerQ[t][gen]),
           testerQ'[t] = Sent(testerQ[t], gen, msg), NEW l
    PROVE  Cardinality(Answers(t, l)') = Cardinality(Answers(t, l))
             + (IF msg \in Answer /\ msg.loc_id = l THEN 1 ELSE 0)
<1> DEFINE kind == {m \in Answer : m.loc_id = l}
<1>1. /\ Answers(t, l) = Held(testerQ[t], kind)
      /\ Answers(t, l)' = Held(Sent(testerQ[t], gen, msg), kind)
  BY DEF Answers
<1>2. testerQ[t] \in [Generation -> Seq(Answer \cup {Exit})]
  BY DEF TypeInv, TypeOK, PosixTypeOK
<1>3. Cardinality(Answers(t, l)') = Cardinality(Answers(t, l))
        + (IF msg \in kind THEN 1 ELSE 0)
  <2> HIDE DEF kind
  <2> QED
    BY <1>1, <1>2, HeldSent
<1> QED
  BY <1>3

(* A message a tester has read is in the queue no more.                     *)
LEMMA AnswerReceived ==
    ASSUME TypeInv, CapInv, NEW u \in Testers, HasMessage(testerQ[u][0]),
           testerQ' = [testerQ EXCEPT ![u] = Received(testerQ[u], 0)],
           UNCHANGED <<reportQ, runSlots, request>>,
           NEW t \in Testers, NEW l
    PROVE  Places(t, l) = Places(t, l)'
             + (IF t = u /\ Head(testerQ[u][0]) \in Answer
                         /\ Head(testerQ[u][0]).loc_id = l THEN 1 ELSE 0)
<1>1. testerQ'[t] = IF t = u THEN Received(testerQ[u], 0) ELSE testerQ[t]
  BY DEF TypeInv, TypeOK, PosixTypeOK
<1>2. Requests(t, l)' = Requests(t, l) /\ Runs(t, l)' = Runs(t, l)
  BY DEF Requests, Runs
<1>3. CASE t = u
  <2> DEFINE kind == {m \in Answer : m.loc_id = l}
  <2>1. /\ Answers(t, l) = Held(testerQ[u], kind)
        /\ Answers(t, l)' = Held(Received(testerQ[u], 0), kind)
    BY <1>1, <1>3 DEF Answers
  <2>2. /\ testerQ[u] \in [Generation -> Seq(Answer \cup {Exit})]
        /\ 0 \in Generation /\ Len(testerQ[u][0]) <= QueueCap
    BY DEF TypeInv, TypeOK, PosixTypeOK, CapInv, Generation
  <2>3. Cardinality(Answers(t, l)) = Cardinality(Answers(t, l)')
          + (IF Head(testerQ[u][0]) \in kind THEN 1 ELSE 0)
    <3> HIDE DEF kind
    <3> QED
      BY <2>1, <2>2, HeldReceived
  <2>4. Cardinality(Answers(t, l)') \in Nat
    BY HeldFinite DEF Answers
  <2> QED
    BY <1>2, <1>3, <2>3, <2>4, PartsCounted DEF Places
<1>4. CASE t # u
  <2>1. Answers(t, l)' = Answers(t, l)
    BY <1>1, <1>4 DEF Answers
  <2> QED
    BY <1>2, <1>4, <2>1, PartsCounted DEF Places
<1> QED
  BY <1>3, <1>4

(* A step that touches neither queue, no session and no request moves       *)
(* nothing.                                                                 *)
LEMMA PlacesSame ==
    ASSUME UNCHANGED <<reportQ, testerQ, runSlots, request>>, NEW t, NEW l
    PROVE  Places(t, l)' = Places(t, l)
<1>1. /\ Requests(t, l)' = Requests(t, l)
      /\ Answers(t, l)' = Answers(t, l)
      /\ Runs(t, l)' = Runs(t, l)
  BY DEF Requests, Answers, Runs
<1> QED
  BY <1>1 DEF Places

-----------------------------------------------------------------------------
(* THE STEPS                                                               *)

(* The next state is no exception.                                          *)
LEMMA InPlaceNext == TypeInv' /\ CapInv' /\ PlacesInv' => OnlyOwed'
  BY InPlace, PTL

(* A step that sends no answer, moves no run and sends only words that are  *)
(* saved keeps words and verdicts right, if it changes no saved word that    *)
(* is still owed.                                                           *)
LEMMA VerdictFrame ==
    ASSUME TypeInv, TypeInv', VerdictInv, OnlyOwed',
           UNCHANGED <<runWord, runSlots, request, runQ, answering>>,
           \A t \in Testers, l \in LocIds : Owed(t, l)' => results'[t][l] = results[t][l],
           \A g \in Generation : \A msg \in ToSet(reportQ'[g]) :
              msg.type = "parse" => \/ msg \in ToSet(reportQ[g])
                                    \/ msg.word = results[msg.tester][msg.loc_id],
           \A t \in Testers, g \in Generation :
              ToSet(testerQ'[t][g]) \subseteq ToSet(testerQ[t][g])
    PROVE  VerdictInv'
<1>1. RequestWord'
  <2> SUFFICES ASSUME NEW g \in Generation, NEW msg \in ToSet(reportQ'[g]), msg.type = "parse"
               PROVE  msg.word = results'[msg.tester][msg.loc_id]
    BY DEF RequestWord
  <2>1. msg \in Parse
    <3>1. ToSet(reportQ'[g]) \subseteq Parse \cup {Exit}
      BY DEF TypeInv, TypeOK, PosixTypeOK, ToSet
    <3> QED
      BY <3>1 DEF Exit
  <2>2. Owed(msg.tester, msg.loc_id)'
    BY DEF OnlyOwed
  <2>3. msg.word = results[msg.tester][msg.loc_id]
    BY DEF VerdictInv, RequestWord
  <2> QED
    BY <2>1, <2>2, <2>3 DEF Parse
<1>2. ServedWord'
  <2>1. request # NULL => request.tester \in Testers /\ request.loc_id \in LocIds
    BY DEF TypeInv, TypeOK, ServerTypeOK, Parse
  <2> QED
    BY <2>1 DEF OnlyOwed, VerdictInv, ServedWord
<1>3. RunsWord'
  <2>1. \A w \in Pids : runSlots[w] # NULL =>
          runSlots[w].tester \in Testers /\ runSlots[w].loc_id \in LocIds
    BY DEF TypeInv, TypeOK, ServerTypeOK, RunSlot
  <2> QED
    BY <2>1 DEF OnlyOwed, VerdictInv, RunsWord
<1>4. ResultVerdict'
  BY DEF VerdictInv, ResultVerdict
<1>5. AnswerVerdict'
  <2> SUFFICES ASSUME NEW t \in Testers, NEW g \in Generation,
                      NEW msg \in ToSet(testerQ'[t][g]), msg.type = "answer"
               PROVE  msg.result = (results'[t][msg.loc_id] \in Accepted)
    BY DEF AnswerVerdict
  <2>1. msg \in ToSet(testerQ[t][g])
    OBVIOUS
  <2>2. msg \in Answer
    BY <2>1, HeldTyped DEF Exit
  <2>3. results'[t][msg.loc_id] = results[t][msg.loc_id]
    BY <2>2 DEF OnlyOwed, Answer
  <2> QED
    BY <2>1, <2>3 DEF VerdictInv, AnswerVerdict
<1> QED
  BY <1>1, <1>2, <1>3, <1>4, <1>5 DEF VerdictInv

(* What no step of a tester touches.                                        *)
LEMMA TesterKeeps ==
    ASSUME NEW t \in Testers, TesterNext(t)
    PROVE  UNCHANGED <<serverVars, workerVars, processVars, faults, runQ>>
  BY DEF TesterNext, TesterStep, posixVars, queueVars, OpenRegister, Register,
         OpenReport, ReadLine, SendExit, SendWord, TakeAnswer, TakeExit,
         PollNothing, CloseTester

(* A tester moves on between two calls that touch neither queue.            *)
LEMMA QuietTester ==
    ASSUME TypeInv, TypeInv', AnswerInv, NEW t \in Testers, TesterNext(t),
           \/ OpenRegister(t) \/ Register(t) \/ OpenReport(t)
           \/ PollNothing(t) \/ CloseTester(t)
    PROVE  AnswerInv'
<1>1. UNCHANGED <<reportQ, testerQ, results, loc_id, line, runQ, runSlots, request,
                  spawned, serverPc, answering, runWord, runState, faults>>
  BY TesterKeeps DEF OpenRegister, Register, OpenReport, PollNothing, CloseTester, posixVars,
     queueVars, serverVars, slotVars, localVars, processVars
<1>2. \A u \in Testers : testerPc'[u] = "send" <=> testerPc[u] = "send"
  BY DEF OpenRegister, Register, OpenReport, PollNothing, CloseTester, Goto, LoopBack,
     TypeInv, TypeOK, TesterTypeOK
<1>3. \A u \in Testers, l \in LocIds : Owed(u, l)' = Owed(u, l)
  BY <1>1, <1>2 DEF Owed
<1>4. CapInv'
  BY <1>1 DEF AnswerInv, CapInv
<1>5. ResetInv'
  BY <1>1 DEF AnswerInv, ResetInv
<1>6. LineInv'
  BY <1>1, <1>2 DEF AnswerInv, LineInv
<1>7. PlacesInv'
  BY <1>1, <1>3, PlacesSame DEF AnswerInv, PlacesInv
<1>8. VerdictInv'
  BY <1>1, <1>4, <1>7, InPlaceNext, VerdictFrame DEF AnswerInv
<1> QED
  BY <1>4, <1>5, <1>6, <1>7, <1>8 DEF AnswerInv

(* A line is read: its word is saved under a number nothing is known by,    *)
(* and not owed yet.                                                        *)
LEMMA LineRead ==
    ASSUME TypeInv, LineInv, NEW t \in Testers, ReadLine(t)
    PROVE  \E n \in LocIds :
             /\ n = loc_id[t] + 1 /\ loc_id'[t] = n /\ results[t][n] = NULL
             /\ \A u \in Testers \ {t} : /\ loc_id'[u] = loc_id[u]
                                         /\ testerPc'[u] = testerPc[u]
                                         /\ line'[u] = line[u]
                                         /\ results'[u] = results[u]
             /\ \/ /\ testerPc'[t] = "send" /\ line'[t] \in Line
                   /\ results'[t] = IF line'[t] = "!" THEN results[t]
                                    ELSE [results[t] EXCEPT ![n] = line'[t]]
                \/ testerPc'[t] = "poll" /\ results'[t] = results[t]
             /\ \A l \in LocIds : l # n => results'[t][l] = results[t][l]
             /\ \A u \in Testers, l \in LocIds : Owed(u, l)' <=> Owed(u, l)
<1>0. PICK n : n = loc_id[t] + 1
  OBVIOUS
<1>1. /\ n \in LocIds /\ loc_id \in [Testers -> 0 .. MaxLines]
      /\ loc_id' = [loc_id EXCEPT ![t] = n] /\ testerPc[t] = "input"
      /\ loc_id'[t] = n
      /\ \A u \in Testers \ {t} : /\ loc_id'[u] = loc_id[u]
                                  /\ testerPc'[u] = testerPc[u]
                                  /\ line'[u] = line[u]
                                  /\ results'[u] = results[u]
  <2>1. loc_id[t] \in 0 .. MaxLines /\ loc_id[t] < MaxLines
    BY DEF ReadLine, TypeInv, TypeOK, TesterTypeOK
  <2>2. n \in LocIds
    BY <1>0, <2>1, NextLocId
  <2>3. loc_id' = [loc_id EXCEPT ![t] = n] /\ testerPc[t] = "input"
    BY <1>0 DEF ReadLine
  <2>4. ASSUME NEW u \in Testers \ {t}
        PROVE  /\ testerPc'[u] = testerPc[u] /\ line'[u] = line[u]
               /\ results'[u] = results[u]
    BY DEF ReadLine, Goto, TypeInv, TypeOK, TesterTypeOK
  <2> QED
    BY <2>2, <2>3, <2>4 DEF TypeInv, TypeOK, TesterTypeOK
<1>2. /\ results[t][n] = NULL
      /\ \A l \in LocIds : results[t][l] # NULL => l <= loc_id[t]
  <2>1. \A l \in LocIds : results[t][l] # NULL => l <= loc_id[t]
    BY DEF LineInv
  <2>2. ~ n <= loc_id[t]
    BY <1>0, <1>1
  <2> QED
    BY <1>1, <2>1, <2>2
<1>3. \/ /\ stdin[t] # <<>> /\ testerPc'[t] = "send" /\ line'[t] = Head(stdin[t])
         /\ Head(stdin[t]) \in Line
         /\ results'[t] = IF Head(stdin[t]) = "!" THEN results[t]
                          ELSE [results[t] EXCEPT ![n] = Head(stdin[t])]
      \/ testerPc'[t] = "poll" /\ results'[t] = results[t]
  <2>1. CASE stdin[t] # <<>>
    <3>1. Head(stdin[t]) \in Line
      BY <2>1, HeadTailType DEF TypeInv, TypeOK, TesterTypeOK
    <3>2. /\ testerPc'[t] = "send" /\ line'[t] = Head(stdin[t])
          /\ results' = IF Head(stdin[t]) = "!" THEN results
                        ELSE [results EXCEPT ![t][n] = Head(stdin[t])]
      BY <1>0, <2>1 DEF ReadLine, Goto, TypeInv, TypeOK, TesterTypeOK
    <3> QED
      BY <2>1, <3>1, <3>2 DEF TypeInv, TypeOK, TesterTypeOK
  <2>2. CASE stdin[t] = <<>>
    BY <2>2 DEF ReadLine, Goto, TypeInv, TypeOK, TesterTypeOK
  <2> QED
    BY <2>1, <2>2
<1>4. \A l \in LocIds : l # n => results'[t][l] = results[t][l]
  BY <1>1, <1>3 DEF TypeInv, TypeOK, TesterTypeOK
<1>5. \A l \in LocIds : Owed(t, l)' <=> Owed(t, l)
  <2>1. ASSUME NEW l \in LocIds, l # n PROVE Owed(t, l)' <=> Owed(t, l)
    BY <1>1, <1>4, <2>1 DEF Owed
  <2>2. ~ Owed(t, n)
    BY <1>2 DEF Owed
  <2>3. ~ Owed(t, n)'
    BY <1>1, <1>2, <1>3 DEF Owed
  <2> QED
    BY <2>1, <2>2, <2>3
<1>6. \A u \in Testers, l \in LocIds : Owed(u, l)' <=> Owed(u, l)
  <2>1. ASSUME NEW u \in Testers \ {t}, NEW l \in LocIds PROVE Owed(u, l)' <=> Owed(u, l)
    BY <1>1 DEF Owed
  <2> QED
    BY <1>5, <2>1
<1> QED
  BY <1>0, <1>1, <1>2, <1>3, <1>4, <1>6

(* A line is read: nothing moves.                                           *)
LEMMA AnswerReadLine ==
    ASSUME TypeInv, TypeInv', AnswerInv, NEW t \in Testers, TesterNext(t), ReadLine(t)
    PROVE  AnswerInv'
<1>0. PICK n \in LocIds :
        /\ n = loc_id[t] + 1 /\ loc_id'[t] = n /\ results[t][n] = NULL
        /\ \A u \in Testers \ {t} : /\ loc_id'[u] = loc_id[u]
                                    /\ testerPc'[u] = testerPc[u]
                                    /\ line'[u] = line[u]
                                    /\ results'[u] = results[u]
        /\ \/ /\ testerPc'[t] = "send" /\ line'[t] \in Line
              /\ results'[t] = IF line'[t] = "!" THEN results[t]
                               ELSE [results[t] EXCEPT ![n] = line'[t]]
           \/ testerPc'[t] = "poll" /\ results'[t] = results[t]
        /\ \A l \in LocIds : l # n => results'[t][l] = results[t][l]
        /\ \A u \in Testers, l \in LocIds : Owed(u, l)' <=> Owed(u, l)
  BY LineRead DEF AnswerInv
<1>1. UNCHANGED <<reportQ, testerQ, runQ, runSlots, request, spawned, serverPc,
                  answering, runWord, runState, faults>>
  BY TesterKeeps DEF ReadLine, posixVars, queueVars, serverVars, slotVars, localVars, processVars
<1>2. /\ loc_id[t] \in Int
      /\ \A l \in LocIds : results[t][l] # NULL => l <= loc_id[t]
  BY PosixAssumption DEF PosixAssumption, AnswerInv, LineInv, TypeInv, TypeOK, TesterTypeOK
<1>3. CapInv'
  BY <1>1 DEF AnswerInv, CapInv
<1>4. ResetInv'
  BY <1>1 DEF AnswerInv, ResetInv
<1>5. LineInv'
  <2>1. ASSUME NEW l \in LocIds, results'[t][l] # NULL PROVE l <= loc_id'[t]
    BY <1>0, <1>2, <2>1 DEF LocIds
  <2>2. ASSUME testerPc'[t] = "send"
        PROVE  /\ line'[t] \in Line
               /\ results'[t][loc_id'[t]] = IF line'[t] = "!" THEN NULL ELSE line'[t]
    BY <1>0, <2>2 DEF TypeInv, TypeOK, TesterTypeOK
  <2>3. \A u \in Testers \ {t} : /\ loc_id'[u] = loc_id[u] /\ testerPc'[u] = testerPc[u]
                                 /\ line'[u] = line[u] /\ results'[u] = results[u]
    BY <1>0
  <2> QED
    BY <2>1, <2>2, <2>3 DEF AnswerInv, LineInv
<1>6. PlacesInv'
  BY <1>0, <1>1, PlacesSame DEF AnswerInv, PlacesInv
<1>7. VerdictInv'
  <2>1. ASSUME NEW u \in Testers, NEW l \in LocIds, Owed(u, l)'
        PROVE  results'[u][l] = results[u][l]
    BY <1>0, <2>1 DEF Owed
  <2> QED
    BY <1>1, <1>3, <1>6, <2>1, InPlaceNext, VerdictFrame DEF AnswerInv
<1> QED
  BY <1>3, <1>4, <1>5, <1>6, <1>7 DEF AnswerInv

(* "exit" is sent: it is no request, and the line it was is no word.        *)
LEMMA AnswerSendExit ==
    ASSUME TypeInv, TypeInv', AnswerInv, NEW t \in Testers, TesterNext(t), SendExit(t)
    PROVE  AnswerInv'
<1>1. UNCHANGED <<testerQ, runQ, runSlots, request, spawned, serverPc, answering,
                  runWord, runState, faults, results, loc_id>>
  BY TesterKeeps DEF SendExit, serverVars, slotVars, localVars, processVars
<1>2. /\ reportQ \in [Generation -> Seq(Parse \cup {Exit})]
      /\ reportHandle[t] \in Generation /\ HasRoom(reportQ[reportHandle[t]])
      /\ reportQ' = Sent(reportQ, reportHandle[t], Exit)
      /\ Exit \in Parse \cup {Exit} /\ Exit \notin Parse
  BY DEF SendExit, TypeInv, TypeOK, PosixTypeOK, TesterTypeOK, Exit, Parse
<1>3. /\ \A g \in Generation : Len(reportQ'[g]) <= QueueCap
      /\ \A g \in Generation : ToSet(reportQ'[g]) \subseteq ToSet(reportQ[g]) \cup {Exit}
  BY <1>2, SentHolds DEF AnswerInv, CapInv
<1>4. /\ testerPc[t] = "send" /\ testerPc'[t] = "poll" /\ line[t] = "!"
      /\ \A u \in Testers \ {t} : testerPc'[u] = testerPc[u] /\ line'[u] = line[u]
  BY DEF SendExit, Goto, TypeInv, TypeOK, TesterTypeOK
<1>5. \A u \in Testers, l \in LocIds : Owed(u, l)' <=> Owed(u, l)
  <2>1. results[t][loc_id[t]] = NULL
    BY <1>4 DEF AnswerInv, LineInv
  <2> QED
    BY <1>1, <1>4, <2>1 DEF Owed
<1>6. CapInv'
  BY <1>1, <1>3 DEF AnswerInv, CapInv
<1>7. ResetInv'
  BY <1>1 DEF AnswerInv, ResetInv
<1>8. LineInv'
  BY <1>1, <1>4 DEF AnswerInv, LineInv
<1>9. PlacesInv'
  <2>1. ASSUME NEW u \in Testers, NEW l \in LocIds PROVE Places(u, l)' = Places(u, l)
    BY <1>1, <1>2, ReportSent, PartsCounted
  <2> QED
    BY <1>1, <1>5, <2>1 DEF AnswerInv, PlacesInv
<1>10. VerdictInv'
  <2>1. \A g \in Generation : \A msg \in ToSet(reportQ'[g]) :
          msg.type = "parse" => msg \in ToSet(reportQ[g])
    BY <1>3 DEF Exit
  <2> QED
    BY <1>1, <1>6, <1>9, <2>1, InPlaceNext, VerdictFrame DEF AnswerInv
<1> QED
  BY <1>6, <1>7, <1>8, <1>9, <1>10 DEF AnswerInv

(* A word is sent: from now on it is owed.                                  *)
LEMMA WordSent ==
    ASSUME TypeInv, LineInv, NEW t \in Testers, SendWord(t)
    PROVE  /\ loc_id[t] \in LocIds /\ UNCHANGED <<results, loc_id>>
           /\ testerPc[t] = "send" /\ testerPc'[t] = "poll" /\ line[t] \in Words
           /\ \A u \in Testers \ {t} : testerPc'[u] = testerPc[u] /\ line'[u] = line[u]
           /\ results[t][loc_id[t]] = line[t]
           /\ \A l \in LocIds : IF l = loc_id[t] THEN Owed(t, l)' /\ ~ Owed(t, l)
                                ELSE Owed(t, l)' <=> Owed(t, l)
           /\ \A u \in Testers \ {t}, l \in LocIds : Owed(u, l)' <=> Owed(u, l)
<1>1. loc_id[t] \in LocIds /\ UNCHANGED <<results, loc_id>>
  BY DEF SendWord, TypeInv, TypeOK, TesterTypeOK, LocalsSet, LocIds
<1>2. /\ testerPc[t] = "send" /\ testerPc'[t] = "poll" /\ line[t] \in Words
      /\ \A u \in Testers \ {t} : testerPc'[u] = testerPc[u] /\ line'[u] = line[u]
  BY DEF SendWord, Goto, TypeInv, TypeOK, TesterTypeOK
<1>3. results[t][loc_id[t]] = line[t] /\ line[t] # NULL
  BY <1>2, TesterAssumption, NullAssumption DEF TesterAssumption, NullAssumption, LineInv
<1>4. /\ \A l \in LocIds : IF l = loc_id[t] THEN Owed(t, l)' /\ ~ Owed(t, l)
                            ELSE Owed(t, l)' <=> Owed(t, l)
      /\ \A u \in Testers \ {t}, l \in LocIds : Owed(u, l)' <=> Owed(u, l)
  BY <1>1, <1>2, <1>3 DEF Owed
<1> QED
  BY <1>1, <1>2, <1>3, <1>4

(* A word is sent: from now on it is owed, and it is in one place.          *)
LEMMA AnswerSendWord ==
    ASSUME TypeInv, TypeInv', AnswerInv, NEW t \in Testers, TesterNext(t), SendWord(t)
    PROVE  AnswerInv'
<1> DEFINE msg == [type |-> "parse", tester |-> t, loc_id |-> loc_id[t], word |-> line[t]]
<1>1. UNCHANGED <<testerQ, runQ, runSlots, request, spawned, serverPc, answering,
                  runWord, runState, faults, results, loc_id>>
  BY TesterKeeps DEF SendWord, serverVars, slotVars, localVars, processVars
<1>2. loc_id[t] \in LocIds
  BY WordSent DEF AnswerInv
<1>3. /\ reportQ \in [Generation -> Seq(Parse \cup {Exit})]
      /\ reportHandle[t] \in Generation /\ HasRoom(reportQ[reportHandle[t]])
      /\ reportQ' = Sent(reportQ, reportHandle[t], msg)
      /\ msg \in Parse /\ msg \in Parse \cup {Exit}
  BY <1>2 DEF SendWord, TypeInv, TypeOK, PosixTypeOK, TesterTypeOK, Parse
<1>4. /\ \A g \in Generation : Len(reportQ'[g]) <= QueueCap
      /\ \A g \in Generation : ToSet(reportQ'[g]) \subseteq ToSet(reportQ[g]) \cup {msg}
  <2> HIDE DEF msg
  <2> QED
    BY <1>3, SentHolds DEF AnswerInv, CapInv
<1>5. /\ testerPc[t] = "send" /\ testerPc'[t] = "poll"
      /\ \A u \in Testers \ {t} : testerPc'[u] = testerPc[u] /\ line'[u] = line[u]
  BY WordSent DEF AnswerInv
<1>6. results[t][loc_id[t]] = line[t]
  BY WordSent DEF AnswerInv
<1>7. /\ \A l \in LocIds : IF l = loc_id[t] THEN Owed(t, l)' /\ ~ Owed(t, l)
                            ELSE Owed(t, l)' <=> Owed(t, l)
      /\ \A u \in Testers \ {t}, l \in LocIds : Owed(u, l)' <=> Owed(u, l)
  BY WordSent DEF AnswerInv
<1>8. CapInv'
  BY <1>1, <1>4 DEF AnswerInv, CapInv
<1>9. ResetInv'
  BY <1>1 DEF AnswerInv, ResetInv
<1>10. LineInv'
  BY <1>1, <1>5 DEF AnswerInv, LineInv
<1>11. PlacesInv'
  <2> SUFFICES ASSUME NEW u \in Testers, NEW l \in LocIds
               PROVE  /\ Places(u, l)' <= (IF Owed(u, l)' THEN 1 ELSE 0)
                      /\ faults' = 0 /\ Owed(u, l)' => Places(u, l)' = 1
    BY DEF PlacesInv
  <2>1. Places(u, l)' = Places(u, l) + (IF u = t /\ l = loc_id[t] THEN 1 ELSE 0)
    <3>1. msg.tester = t /\ msg.loc_id = loc_id[t]
      OBVIOUS
    <3> HIDE DEF msg
    <3> QED
      BY <1>1, <1>3, <3>1, ReportSent
  <2>2. /\ Places(u, l) <= (IF Owed(u, l) THEN 1 ELSE 0)
        /\ faults = 0 /\ Owed(u, l) => Places(u, l) = 1
        /\ Places(u, l) \in Nat
    BY PartsCounted DEF AnswerInv, PlacesInv
  <2>3. CASE u = t /\ l = loc_id[t]
    BY <1>7, <2>1, <2>2, <2>3
  <2>4. CASE ~ (u = t /\ l = loc_id[t])
    <3>1. Owed(u, l)' <=> Owed(u, l)
      BY <1>7, <2>4
    <3> QED
      BY <1>1, <2>1, <2>2, <2>4, <3>1
  <2> QED
    BY <2>3, <2>4
<1>12. VerdictInv'
  <2>1. \A g \in Generation : \A m \in ToSet(reportQ'[g]) :
          m \in ToSet(reportQ[g]) \/ m.word = results[m.tester][m.loc_id]
    BY <1>4, <1>6
  <2> QED
    BY <1>1, <1>8, <1>11, <2>1, InPlaceNext, VerdictFrame DEF AnswerInv
<1> QED
  BY <1>8, <1>9, <1>10, <1>11, <1>12 DEF AnswerInv

(* An answer is read: its word was owed and is forgotten.                   *)
LEMMA AnswerTaken ==
    ASSUME TypeInv, CapInv, PlacesInv, NEW t \in Testers, TakeAnswer(t)
    PROVE  \E n \in LocIds :
             /\ n = Head(testerQ[t][0]).loc_id /\ Head(testerQ[t][0]) \in Answer
             /\ \A u \in Testers \ {t} : testerPc'[u] = testerPc[u] /\ results'[u] = results[u]
             /\ testerPc[t] = "poll" /\ testerPc'[t] # "send"
             /\ \A l \in LocIds : results'[t][l] = IF l = n THEN NULL ELSE results[t][l]
             /\ Owed(t, n) /\ ~ Owed(t, n)'
             /\ \A l \in LocIds : l # n => (Owed(t, l)' <=> Owed(t, l))
             /\ \A u \in Testers \ {t}, l \in LocIds : Owed(u, l)' <=> Owed(u, l)
<1>1. PICK n : n = Head(testerQ[t][0]).loc_id
  OBVIOUS
<1>2. /\ testerQ[t] \in [Generation -> Seq(Answer \cup {Exit})] /\ 0 \in Generation
      /\ HasMessage(testerQ[t][0]) /\ Head(testerQ[t][0]).type = "answer"
  BY DEF TakeAnswer, TypeInv, TypeOK, PosixTypeOK, Generation
<1>3. Head(testerQ[t][0]) \in ToSet(testerQ[t][0])
  BY <1>2, ReceivedHolds DEF CapInv
<1>4. Head(testerQ[t][0]) \in Answer /\ n \in LocIds /\ Owed(t, n)
  <2>1. Head(testerQ[t][0]) \in Answer
    BY <1>2, <1>3, HeldTyped DEF Exit
  <2>2. Owed(t, n)
    BY <1>1, <1>2, <1>3, InPlace DEF OnlyOwed
  <2> QED
    BY <1>1, <2>1, <2>2 DEF Answer
<1>5. /\ testerPc[t] = "poll" /\ testerPc'[t] # "send"
      /\ \A u \in Testers \ {t} : testerPc'[u] = testerPc[u] /\ results'[u] = results[u]
      /\ \A l \in LocIds : results'[t][l] = IF l = n THEN NULL ELSE results[t][l]
  BY <1>1, <1>4 DEF TakeAnswer, Forget, Goto, LoopBack, TypeInv, TypeOK, TesterTypeOK
<1>6. UNCHANGED loc_id
  BY DEF TakeAnswer
<1>7. /\ ~ Owed(t, n)'
      /\ \A l \in LocIds : l # n => (Owed(t, l)' <=> Owed(t, l))
      /\ \A u \in Testers \ {t}, l \in LocIds : Owed(u, l)' <=> Owed(u, l)
  BY <1>4, <1>5, <1>6 DEF Owed
<1> QED
  BY <1>1, <1>4, <1>5, <1>7

(* An answer is read: it was the only place of its request, and its verdict *)
(* is printed.                                                              *)
LEMMA AnswerTakeAnswer ==
    ASSUME TypeInv, TypeInv', AnswerInv, NEW t \in Testers, TesterNext(t), TakeAnswer(t)
    PROVE  AnswerInv'
<1>0. PICK n \in LocIds :
        /\ n = Head(testerQ[t][0]).loc_id /\ Head(testerQ[t][0]) \in Answer
        /\ \A u \in Testers \ {t} : testerPc'[u] = testerPc[u] /\ results'[u] = results[u]
        /\ testerPc[t] = "poll" /\ testerPc'[t] # "send"
        /\ \A l \in LocIds : results'[t][l] = IF l = n THEN NULL ELSE results[t][l]
        /\ Owed(t, n) /\ ~ Owed(t, n)'
        /\ \A l \in LocIds : l # n => (Owed(t, l)' <=> Owed(t, l))
        /\ \A u \in Testers \ {t}, l \in LocIds : Owed(u, l)' <=> Owed(u, l)
  BY AnswerTaken DEF AnswerInv
<1>1. UNCHANGED <<reportQ, runQ, runSlots, request, spawned, serverPc, answering,
                  runWord, runState, faults, loc_id, line>>
  BY TesterKeeps DEF TakeAnswer, serverVars, slotVars, localVars, processVars
<1>2. /\ testerQ[t] \in [Generation -> Seq(Answer \cup {Exit})] /\ 0 \in Generation
      /\ HasMessage(testerQ[t][0])
      /\ testerQ' = [testerQ EXCEPT ![t] = Received(testerQ[t], 0)]
      /\ \A u \in Testers \ {t} : testerQ'[u] = testerQ[u]
      /\ testerQ'[t] = Received(testerQ[t], 0)
  BY DEF TakeAnswer, TypeInv, TypeOK, PosixTypeOK, Generation
<1>3. /\ \A g \in Generation : Len(Received(testerQ[t], 0)[g]) <= QueueCap
      /\ \A g \in Generation :
           ToSet(Received(testerQ[t], 0)[g]) \subseteq ToSet(testerQ[t][g])
  BY <1>2, ReceivedHolds DEF AnswerInv, CapInv
<1>4. CapInv'
  BY <1>1, <1>2, <1>3 DEF AnswerInv, CapInv
<1>5. ResetInv'
  BY <1>1 DEF AnswerInv, ResetInv
<1>6. LineInv'
  BY <1>0, <1>1 DEF AnswerInv, LineInv
<1>7. PlacesInv'
  <2> SUFFICES ASSUME NEW u \in Testers, NEW l \in LocIds
               PROVE  /\ Places(u, l)' <= (IF Owed(u, l)' THEN 1 ELSE 0)
                      /\ faults' = 0 /\ Owed(u, l)' => Places(u, l)' = 1
    BY DEF PlacesInv
  <2>1. Places(u, l) = Places(u, l)' + (IF u = t /\ l = n THEN 1 ELSE 0)
    <3>1. Places(u, l) = Places(u, l)'
            + (IF u = t /\ Head(testerQ[t][0]) \in Answer
                        /\ Head(testerQ[t][0]).loc_id = l THEN 1 ELSE 0)
      BY <1>1, <1>2, AnswerReceived DEF AnswerInv
    <3> QED
      BY <1>0, <3>1
  <2>2. /\ Places(u, l) <= (IF Owed(u, l) THEN 1 ELSE 0)
        /\ faults = 0 /\ Owed(u, l) => Places(u, l) = 1
        /\ Places(u, l) \in Nat
    BY PartsCounted DEF AnswerInv, PlacesInv
  <2>3. Places(u, l)' \in Nat
    BY PlacesNumbersNext
  <2>4. CASE u = t /\ l = n
    BY <1>0, <2>1, <2>2, <2>3, <2>4
  <2>5. CASE ~ (u = t /\ l = n)
    <3>1. Owed(u, l)' <=> Owed(u, l)
      BY <1>0, <2>5
    <3> QED
      BY <1>1, <2>1, <2>2, <2>3, <2>5, <3>1
  <2> QED
    BY <2>4, <2>5
<1>8. VerdictInv'
  <2>1. ASSUME NEW u \in Testers, NEW l \in LocIds, Owed(u, l)'
        PROVE  results'[u][l] = results[u][l]
    <3>1. CASE u = t
      BY <1>0, <2>1, <3>1
    <3>2. CASE u # t
      BY <1>0, <3>2
    <3> QED
      BY <3>1, <3>2
  <2>2. \A u \in Testers, g \in Generation :
          ToSet(testerQ'[u][g]) \subseteq ToSet(testerQ[u][g])
    BY <1>2, <1>3
  <2> QED
    BY <1>1, <1>4, <1>7, <2>1, <2>2, InPlaceNext, VerdictFrame DEF AnswerInv
<1> QED
  BY <1>4, <1>5, <1>6, <1>7, <1>8 DEF AnswerInv

(* "exit" is read: it was no answer.                                        *)
LEMMA AnswerTakeExit ==
    ASSUME TypeInv, TypeInv', AnswerInv, NEW t \in Testers, TesterNext(t), TakeExit(t)
    PROVE  AnswerInv'
<1>1. UNCHANGED <<reportQ, runQ, runSlots, request, spawned, serverPc, answering,
                  runWord, runState, faults, loc_id, line, results>>
  BY TesterKeeps DEF TakeExit, serverVars, slotVars, localVars, processVars
<1>2. /\ testerQ[t] \in [Generation -> Seq(Answer \cup {Exit})] /\ 0 \in Generation
      /\ HasMessage(testerQ[t][0])
      /\ testerQ' = [testerQ EXCEPT ![t] = Received(testerQ[t], 0)]
      /\ \A u \in Testers \ {t} : testerQ'[u] = testerQ[u]
      /\ testerQ'[t] = Received(testerQ[t], 0)
      /\ Head(testerQ[t][0]) \notin Answer
  BY DEF TakeExit, TypeInv, TypeOK, PosixTypeOK, Generation, Answer
<1>3. /\ \A g \in Generation : Len(Received(testerQ[t], 0)[g]) <= QueueCap
      /\ \A g \in Generation :
           ToSet(Received(testerQ[t], 0)[g]) \subseteq ToSet(testerQ[t][g])
  BY <1>2, ReceivedHolds DEF AnswerInv, CapInv
<1>4. \A u \in Testers : testerPc'[u] = "send" <=> testerPc[u] = "send"
  BY DEF TakeExit, Goto, TypeInv, TypeOK, TesterTypeOK
<1>5. \A u \in Testers, l \in LocIds : Owed(u, l)' = Owed(u, l)
  BY <1>1, <1>4 DEF Owed
<1>6. CapInv'
  BY <1>1, <1>2, <1>3 DEF AnswerInv, CapInv
<1>7. ResetInv'
  BY <1>1 DEF AnswerInv, ResetInv
<1>8. LineInv'
  BY <1>1, <1>4 DEF AnswerInv, LineInv
<1>9. PlacesInv'
  <2>1. ASSUME NEW u \in Testers, NEW l \in LocIds PROVE Places(u, l)' = Places(u, l)
    <3>1. Places(u, l) = Places(u, l)' + 0
      BY <1>1, <1>2, AnswerReceived DEF AnswerInv
    <3>2. Places(u, l)' \in Nat
      BY PlacesNumbersNext
    <3> QED
      BY <3>1, <3>2
  <2> QED
    BY <1>1, <1>5, <2>1 DEF AnswerInv, PlacesInv
<1>10. VerdictInv'
  <2>1. \A u \in Testers, g \in Generation :
          ToSet(testerQ'[u][g]) \subseteq ToSet(testerQ[u][g])
    BY <1>2, <1>3
  <2> QED
    BY <1>1, <1>6, <1>9, <2>1, InPlaceNext, VerdictFrame DEF AnswerInv
<1> QED
  BY <1>6, <1>7, <1>8, <1>9, <1>10 DEF AnswerInv

(* No step of a tester breaks the invariant.                                *)
LEMMA AnswerTester ==
    ASSUME TypeInv, TypeInv', AnswerInv, NEW t \in Testers, TesterNext(t)
    PROVE  AnswerInv'
  BY QuietTester, AnswerReadLine, AnswerSendExit, AnswerSendWord, AnswerTakeAnswer,
     AnswerTakeExit DEF TesterNext, TesterStep

(* A run moves: it commits the verdict of its own word, or fails.           *)
LEMMA AnswerRun ==
    ASSUME TypeInv, TypeInv', AnswerInv, NEW w \in Pids, RunNext(w) \/ CrashNext(w)
    PROVE  AnswerInv'
<1>1. /\ UNCHANGED <<reportQ, testerQ, runSlots, request, runWord, answering, serverPc, spawned>>
      /\ UNCHANGED testerVars
  BY DEF RunNext, CrashNext, RunStep, OpenQueues, ReadGraph, CommitResult, ExitRun, Crash,
         queueVars, serverVars, slotVars, localVars
<1>2. faults' = 0 => faults = 0
  BY DEF RunNext, CrashNext, RunStep, OpenQueues, ReadGraph, CommitResult, ExitRun, Crash,
         Fault, TypeInv, TypeOK, PosixTypeOK
<1>3. \A v \in Pids : runState'[v] = "none" => runState[v] = "none"
  BY DEF RunNext, CrashNext, RunStep, OpenQueues, ReadGraph, CommitResult, ExitRun, Crash,
         MoveRun, TypeInv, TypeOK, PosixTypeOK
<1>4. UNCHANGED <<testerPc, line, loc_id, results>>
  BY <1>1 DEF testerVars
<1>5. \A u \in Testers, l \in LocIds : Owed(u, l)' = Owed(u, l)
  BY <1>4 DEF Owed
<1>6. CapInv'
  BY <1>1 DEF AnswerInv, CapInv
<1>7. ResetInv'
  BY <1>1, <1>3 DEF AnswerInv, ResetInv
<1>8. LineInv'
  BY <1>4 DEF AnswerInv, LineInv
<1>9. PlacesInv'
  BY <1>1, <1>2, <1>5, PlacesSame DEF AnswerInv, PlacesInv
<1>10. RequestWord' /\ ServedWord' /\ RunsWord' /\ AnswerVerdict'
  BY <1>1, <1>4 DEF AnswerInv, VerdictInv, RequestWord, ServedWord, RunsWord, AnswerVerdict
<1>11. ResultVerdict'
  <2>1. CASE UNCHANGED runQ
    BY <1>1, <2>1 DEF AnswerInv, VerdictInv, ResultVerdict
  <2>2. CASE CommitResult(w)
    <3>1. PICK msg : msg = [pid |-> w, result |-> runWord[w] \in Accepted]
      OBVIOUS
    <3>2. /\ runQ \in [Generation -> Seq(RunResult)] /\ workerRunQ[w] \in Generation
          /\ msg \in RunResult /\ 0 \in Generation
          /\ runQ' = Sent(runQ, workerRunQ[w], msg)
      BY <2>2, <3>1 DEF CommitResult, TypeInv, TypeOK, PosixTypeOK, WorkerTypeOK, RunResult,
                        Generation
    <3>3. ToSet(runQ'[0]) \subseteq ToSet(runQ[0]) \cup {msg}
      BY <3>2 DEF Sent, ToSet
    <3> QED
      BY <1>1, <3>1, <3>3 DEF AnswerInv, VerdictInv, ResultVerdict
  <2> QED
    BY <2>1, <2>2 DEF RunNext, CrashNext, RunStep, OpenQueues, ReadGraph, ExitRun, Crash,
                      queueVars
<1>12. VerdictInv'
  BY <1>10, <1>11 DEF VerdictInv
<1> QED
  BY <1>6, <1>7, <1>8, <1>9, <1>12 DEF AnswerInv

-----------------------------------------------------------------------------
(* THE SERVER                                                              *)

(* A step that adds no place, and takes one only when something fails.      *)
LEMMA PlacesFrame ==
    ASSUME PlacesInv, UNCHANGED testerVars,
           \A t \in Testers, l \in LocIds : Places(t, l)' <= Places(t, l),
           faults' = 0 => /\ faults = 0
                          /\ \A t \in Testers, l \in LocIds : Places(t, l)' = Places(t, l)
    PROVE  PlacesInv'
<1>1. \A t \in Testers, l \in LocIds : Owed(t, l)' = Owed(t, l)
  BY DEF Owed, testerVars
<1>2. \A t, l : Places(t, l) \in Nat /\ Places(t, l)' \in Nat
  BY PlacesNumbers, PlacesNumbersNext
<1> QED
  BY <1>1, <1>2 DEF PlacesInv

(* The locals of the server are reset where it is done with them.           *)
LEMMA ResetServer ==
    ASSUME TypeInv, ResetInv, ServerStep
    PROVE  ResetInv'
<1>1. /\ serverPc # "spawn" => request = NULL
      /\ serverPc # "push" => spawned = NULL
      /\ \A w \in Pids : runState[w] = "none" => runSlots[w] = NULL
  BY DEF ResetInv
<1>2. ASSUME UNCHANGED <<request, spawned, runSlots, runState>>,
             serverPc \notin {"spawn", "push"}
      PROVE  ResetInv'
  BY <1>1, <1>2 DEF ResetInv
<1>3. ASSUME UNCHANGED <<request, spawned, runSlots>>, serverPc \notin {"spawn", "push"},
             \A w \in Pids : runState'[w] = "none" => runState[w] = "none"
      PROVE  ResetInv'
  BY <1>1, <1>3 DEF ResetInv
<1>4. CASE RegisterTester \/ Throttle \/ NoRunResult \/ ReadRunResult \/ ReapNothing
           \/ NoRequest \/ TakeExitRequest
  BY <1>2, <1>4 DEF RegisterTester, Throttle, NoRunResult, ReadRunResult, ReapNothing,
     AfterReap, NoRequest, TakeExitRequest, reapUnchanged, slotVars, localVars, posixVars,
     processVars
<1>5. CASE BroadcastExit \/ PrintReport \/ RemoveQueues \/ OnExit
  BY <1>2, <1>5 DEF BroadcastExit, PrintReport, RemoveQueues, Unlink, OnExit, slotVars,
     localVars, posixVars, processVars
<1>6. CASE ReapExited \/ ReapFailed \/ ReapFatal
  <2>1. PICK v \in Pids : runState[v] \in {"zombie", "failed"} /\ Reap(v)
    BY <1>6 DEF ReapExited, ReapFailed, ReapFatal
  <2>2. \A w \in Pids : runState'[w] = "none" => runState[w] = "none"
    BY <2>1 DEF Reap, TypeInv, TypeOK, PosixTypeOK
  <2> QED
    BY <1>3, <1>6, <2>2 DEF ReapExited, ReapFailed, ReapFatal, reapUnchanged, slotVars, localVars
<1>7. CASE WaitAfterFailure \/ FinalWait \/ ExitWait
  <2>1. \A w \in Pids : runState'[w] = "none" => runState[w] = "none"
    BY <1>7 DEF WaitAfterFailure, FinalWait, ExitWait, WaitForAll
  <2> QED
    BY <1>3, <1>7, <2>1 DEF WaitAfterFailure, FinalWait, ExitWait, slotVars, localVars
<1>8. CASE SendAnswer
  <2>1. \A w \in Pids : runSlots'[w] = runSlots[w] \/ runSlots'[w] = NULL
    BY <1>8 DEF SendAnswer, TypeInv, TypeOK, ServerTypeOK
  <2> QED
    BY <1>1, <1>8, <2>1 DEF SendAnswer, ResetInv, processVars
<1>9. CASE TakeRequest
  BY <1>1, <1>9 DEF TakeRequest, ResetInv, processVars
<1>10. CASE Spawn
  <2>1. PICK v \in Pids : Fork(v, request.word) /\ spawned' = v
          /\ runSlots' = [runSlots EXCEPT ![v] =
                            [loc_id |-> request.loc_id, tester |-> request.tester]]
    BY <1>10 DEF Spawn
  <2>2. \A w \in Pids : runState'[w] = "none" =>
          w # v /\ runState[w] = "none" /\ runSlots'[w] = runSlots[w]
    BY <2>1 DEF Fork, TypeInv, TypeOK, PosixTypeOK, ServerTypeOK
  <2> QED
    BY <1>1, <1>10, <2>2 DEF Spawn, ResetInv
<1>11. CASE SpawnFails
  BY <1>1, <1>11 DEF SpawnFails, ResetInv, slotVars, processVars
<1>12. CASE PushGraph
  BY <1>1, <1>12 DEF PushGraph, ResetInv, slotVars
<1> QED
  BY <1>4, <1>5, <1>6, <1>7, <1>8, <1>9, <1>10, <1>11, <1>12 DEF ServerStep

(* The steps of the server that move no request, run or answer.             *)
LEMMA QuietServer ==
    ASSUME TypeInv, AnswerInv, ServerNext,
           UNCHANGED <<reportQ, testerQ, runSlots, request, runWord, runQ, answering, faults>>
    PROVE  AnswerInv'
<1>1. UNCHANGED testerVars /\ UNCHANGED <<testerPc, line, loc_id, results>>
  BY DEF ServerNext, testerVars
<1>2. CapInv'
  BY DEF AnswerInv, CapInv
<1>3. ResetInv'
  BY ResetServer DEF AnswerInv, ServerNext
<1>4. LineInv'
  BY <1>1 DEF AnswerInv, LineInv
<1>5. PlacesInv'
  <2>1. \A t, l : Places(t, l)' = Places(t, l) /\ Places(t, l) \in Nat
    BY PlacesSame, PlacesNumbers
  <2> QED
    BY <1>1, <2>1, PlacesFrame DEF AnswerInv
<1>6. VerdictInv'
  BY <1>1 DEF AnswerInv, VerdictInv, RequestWord, ServedWord, RunsWord, ResultVerdict,
              AnswerVerdict
<1> QED
  BY <1>2, <1>3, <1>4, <1>5, <1>6 DEF AnswerInv

(* The server reads "exit": it was no request.                              *)
LEMMA AnswerTakeExitRequest ==
    ASSUME TypeInv, AnswerInv, ServerNext, TakeExitRequest
    PROVE  AnswerInv'
<1>1. UNCHANGED <<testerQ, runQ, runSlots, request, answering, runWord, faults>>
  BY DEF TakeExitRequest, slotVars, localVars, processVars
<1>2. UNCHANGED testerVars /\ UNCHANGED <<testerPc, line, loc_id, results>>
  BY DEF ServerNext, testerVars
<1>3. /\ reportQ \in [Generation -> Seq(Parse \cup {Exit})] /\ 0 \in Generation
      /\ HasMessage(reportQ[0]) /\ reportQ' = Received(reportQ, 0)
      /\ Head(reportQ[0]) \notin Parse
  BY DEF TakeExitRequest, TypeInv, TypeOK, PosixTypeOK, Generation, Parse
<1>4. /\ \A g \in Generation : Len(reportQ'[g]) <= QueueCap
      /\ \A g \in Generation : ToSet(reportQ'[g]) \subseteq ToSet(reportQ[g])
  BY <1>3, ReceivedHolds DEF AnswerInv, CapInv
<1>5. CapInv'
  BY <1>1, <1>4 DEF AnswerInv, CapInv
<1>6. ResetInv'
  BY ResetServer DEF AnswerInv, ServerNext
<1>7. LineInv'
  BY <1>2 DEF AnswerInv, LineInv
<1>8. PlacesInv'
  <2>1. ASSUME NEW t \in Testers, NEW l \in LocIds PROVE Places(t, l)' = Places(t, l)
    <3>1. Cardinality(Requests(t, l)) = Cardinality(Requests(t, l)') + 0
      BY <1>3, ReportReceived DEF AnswerInv
    <3>2. Requests(t, l)' = Held(reportQ', {msg \in Parse : msg.tester = t /\ msg.loc_id = l})
      BY DEF Requests
    <3>3. Cardinality(Requests(t, l)') = Cardinality(Requests(t, l))
      BY <3>1, <3>2, HeldFinite
    <3>4. Answers(t, l)' = Answers(t, l) /\ Runs(t, l)' = Runs(t, l)
      BY <1>1 DEF Answers, Runs
    <3> QED
      BY <1>1, <3>3, <3>4 DEF Places
  <2>2. \A t, l : Places(t, l) \in Nat
    BY PlacesNumbers
  <2> QED
    BY <1>1, <1>2, <2>1, <2>2, PlacesFrame DEF AnswerInv
<1>9. VerdictInv'
  BY <1>1, <1>2, <1>4
     DEF AnswerInv, VerdictInv, RequestWord, ServedWord, RunsWord, ResultVerdict, AnswerVerdict
<1> QED
  BY <1>5, <1>6, <1>7, <1>8, <1>9 DEF AnswerInv

(* A request leaves its queue for the server, or the server dies with it.   *)
LEMMA AnswerTakeRequest ==
    ASSUME TypeInv, AnswerInv, ServerNext, TakeRequest
    PROVE  AnswerInv'
<1>0. PICK msg : msg = Head(reportQ[0])
  OBVIOUS
<1>1. UNCHANGED <<testerQ, runQ, runSlots, answering, runWord>>
  BY DEF TakeRequest, processVars
<1>2. UNCHANGED testerVars /\ UNCHANGED <<testerPc, line, loc_id, results>>
  BY DEF ServerNext, testerVars
<1>3. /\ reportQ \in [Generation -> Seq(Parse \cup {Exit})] /\ 0 \in Generation
      /\ HasMessage(reportQ[0]) /\ reportQ' = Received(reportQ, 0)
      /\ msg.type = "parse"
  BY <1>0 DEF TakeRequest, TypeInv, TypeOK, PosixTypeOK, Generation
<1>4. /\ \A g \in Generation : Len(reportQ'[g]) <= QueueCap
      /\ \A g \in Generation : ToSet(reportQ'[g]) \subseteq ToSet(reportQ[g])
      /\ msg \in ToSet(reportQ[0])
  BY <1>0, <1>3, ReceivedHolds DEF AnswerInv, CapInv
<1>5. msg \in Parse /\ msg # NULL
  <2>1. msg \in Parse
    BY <1>3, <1>4, HeldTyped DEF Exit
  <2> QED
    BY <2>1, NullAssumption
<1>6. request = NULL
  BY DEF TakeRequest, AnswerInv, ResetInv
<1>7. \/ request' = msg /\ faults' = faults
      \/ request' = request /\ faults' # 0 
  BY <1>0 DEF TakeRequest, Fault, TypeInv, TypeOK, PosixTypeOK
<1>8. CapInv'
  BY <1>1, <1>4 DEF AnswerInv, CapInv
<1>9. ResetInv'
  BY ResetServer DEF AnswerInv, ServerNext
<1>10. LineInv'
  BY <1>2 DEF AnswerInv, LineInv
<1>11. PlacesInv'
  <2>1. ASSUME NEW t \in Testers, NEW l \in LocIds
        PROVE  /\ Places(t, l)' <= Places(t, l)
               /\ request' = msg => Places(t, l)' = Places(t, l)
    <3> DEFINE is == msg.tester = t /\ msg.loc_id = l
    <3>1. Cardinality(Requests(t, l)) = Cardinality(Requests(t, l)') + (IF is THEN 1 ELSE 0)
      BY <1>0, <1>3, <1>5, ReportReceived DEF AnswerInv
    <3>2. Requests(t, l)' = Held(reportQ', {m \in Parse : m.tester = t /\ m.loc_id = l})
      BY DEF Requests
    <3>3. Cardinality(Requests(t, l)') \in Nat
      BY <3>2, HeldFinite
    <3>4. Answers(t, l)' = Answers(t, l) /\ Runs(t, l)' = Runs(t, l)
      BY <1>1 DEF Answers, Runs
    <3>5. Places(t, l) = Cardinality(Requests(t, l)) + Cardinality(Answers(t, l))
                           + Cardinality(Runs(t, l))
      BY <1>6, PartsCounted DEF Places
    <3>6. Places(t, l)' = Cardinality(Requests(t, l)') + Cardinality(Answers(t, l))
                            + Cardinality(Runs(t, l))
                            + (IF request' = msg /\ is THEN 1 ELSE 0)
      BY <1>5, <1>6, <1>7, <3>4 DEF Places
    <3> QED
      BY <3>1, <3>3, <3>5, <3>6, PartsCounted
  <2> QED
    BY <1>2, <1>7, <2>1, PlacesFrame DEF AnswerInv
<1>12. VerdictInv'
  <2>1. RequestWord'
    BY <1>2, <1>4 DEF AnswerInv, VerdictInv, RequestWord
  <2>2. ServedWord'
    BY <1>2, <1>3, <1>4, <1>6, <1>7 DEF AnswerInv, VerdictInv, RequestWord, ServedWord
  <2>3. RunsWord' /\ ResultVerdict' /\ AnswerVerdict'
    BY <1>1, <1>2 DEF AnswerInv, VerdictInv, RunsWord, ResultVerdict, AnswerVerdict
  <2> QED
    BY <2>1, <2>2, <2>3 DEF VerdictInv
<1> QED
  BY <1>8, <1>9, <1>10, <1>11, <1>12 DEF AnswerInv

(* A request becomes a run: its word is the argument of the run.            *)
LEMMA AnswerSpawn ==
    ASSUME TypeInv, RouteInv, AnswerInv, ServerNext, Spawn
    PROVE  AnswerInv'
<1>0. PICK slot : slot = [loc_id |-> request.loc_id, tester |-> request.tester]
  OBVIOUS
<1>1. PICK w \in Pids : Fork(w, request.word) /\ runSlots' = [runSlots EXCEPT ![w] = slot]
  BY <1>0 DEF Spawn
<1>2. /\ UNCHANGED <<reportQ, testerQ, runQ, answering, faults>>
      /\ request' = NULL /\ serverPc = "spawn"
  BY DEF Spawn, queueVars
<1>3. UNCHANGED testerVars /\ UNCHANGED <<testerPc, line, loc_id, results>>
  BY DEF ServerNext, testerVars
<1>4. request \in Parse /\ request # NULL /\ slot \in RunSlot /\ slot # NULL
  BY <1>0, <1>2, NullAssumption DEF TypeInv, LocalsSet, Parse, RunSlot
<1>5. /\ runState[w] = "none" /\ runSlots[w] = NULL
      /\ runSlots'[w] = slot /\ runWord'[w] = request.word
      /\ \A v \in Pids \ {w} : runSlots'[v] = runSlots[v] /\ runWord'[v] = runWord[v]
  BY <1>1 DEF Fork, AnswerInv, ResetInv, TypeInv, TypeOK, PosixTypeOK, ServerTypeOK
<1>6. answering = NULL /\ \A msg \in ToSet(runQ[0]) : msg.pid \in Pids \ {w}
  <2>1. answering = NULL
    BY <1>2 DEF RouteInv, AnsweringInv
  <2>2. \A i \in 1 .. Len(runQ[0]) : runQ[0][i].pid \in Pids /\ runQ[0][i].pid # w
    BY <1>5, ResultTyped DEF RouteInv, QueueInv, Past, PastStates
  <2> QED
    BY <2>1, <2>2 DEF ToSet
<1>7. CapInv'
  BY <1>2 DEF AnswerInv, CapInv
<1>8. ResetInv'
  BY ResetServer DEF AnswerInv, ServerNext
<1>9. LineInv'
  BY <1>3 DEF AnswerInv, LineInv
<1>10. PlacesInv'
  <2>1. ASSUME NEW t \in Testers, NEW l \in LocIds PROVE Places(t, l)' = Places(t, l)
    <3> DEFINE is == request.tester = t /\ request.loc_id = l
    <3>1. Requests(t, l)' = Requests(t, l) /\ Answers(t, l)' = Answers(t, l)
      BY <1>2 DEF Requests, Answers
    <3>2. slot = [loc_id |-> l, tester |-> t] <=> is
      BY <1>0
    <3>3. w \notin Runs(t, l)
      <4>1. [loc_id |-> l, tester |-> t] \in RunSlot
        BY DEF RunSlot
      <4> QED
        BY <1>5, <4>1, NullAssumption DEF Runs
    <3>4. Runs(t, l)' = IF is THEN Runs(t, l) \cup {w} ELSE Runs(t, l)
      BY <1>5, <3>2, <3>3 DEF Runs
    <3>5. Cardinality(Runs(t, l)') = Cardinality(Runs(t, l)) + (IF is THEN 1 ELSE 0)
      <4>1. IsFiniteSet(Runs(t, l)) /\ Cardinality(Runs(t, l)) \in Nat
        BY PartsCounted
      <4>2. Cardinality(Runs(t, l) \cup {w}) = Cardinality(Runs(t, l)) + 1
        BY <3>3, <4>1, FS_AddElement
      <4> HIDE DEF is
      <4> QED
        BY <3>4, <4>1, <4>2
    <3>6. Places(t, l) = Cardinality(Requests(t, l)) + Cardinality(Answers(t, l))
                           + Cardinality(Runs(t, l)) + (IF is THEN 1 ELSE 0)
      BY <1>4 DEF Places
    <3>7. Places(t, l)' = Cardinality(Requests(t, l)) + Cardinality(Answers(t, l))
                            + Cardinality(Runs(t, l)')
      BY <1>2, <3>1, <3>5, PartsCounted DEF Places
    <3> HIDE DEF is
    <3> QED
      BY <3>5, <3>6, <3>7, PartsCounted
  <2>2. \A t, l : Places(t, l) \in Nat
    BY PlacesNumbers
  <2> QED
    BY <1>2, <1>3, <2>1, <2>2, PlacesFrame DEF AnswerInv
<1>11. VerdictInv'
  <2>1. RunsWord'
    <3>1. runWord'[w] = results[slot.tester][slot.loc_id]
      BY <1>0, <1>4, <1>5 DEF AnswerInv, VerdictInv, ServedWord
    <3> QED
      BY <1>3, <1>5, <3>1 DEF AnswerInv, VerdictInv, RunsWord
  <2>2. ResultVerdict'
    BY <1>2, <1>5, <1>6 DEF AnswerInv, VerdictInv, ResultVerdict
  <2>3. RequestWord' /\ ServedWord' /\ AnswerVerdict'
    BY <1>2, <1>3 DEF AnswerInv, VerdictInv, RequestWord, ServedWord, AnswerVerdict
  <2> QED
    BY <2>1, <2>2, <2>3 DEF VerdictInv
<1> QED
  BY <1>7, <1>8, <1>9, <1>10, <1>11 DEF AnswerInv

(* No run could be forked: a fault, and in the end the request is omitted.  *)
LEMMA AnswerSpawnFails ==
    ASSUME TypeInv, AnswerInv, ServerNext, SpawnFails
    PROVE  AnswerInv'
<1>1. /\ UNCHANGED <<reportQ, testerQ, runQ, answering, runWord, runSlots>>
      /\ request' \in {request, NULL} /\ faults' # 0
  BY DEF SpawnFails, Fault, queueVars, slotVars, processVars, TypeInv, TypeOK, PosixTypeOK
<1>2. UNCHANGED testerVars /\ UNCHANGED <<testerPc, line, loc_id, results>>
  BY DEF ServerNext, testerVars
<1>3. CapInv'
  BY <1>1 DEF AnswerInv, CapInv
<1>4. ResetInv'
  BY ResetServer DEF AnswerInv, ServerNext
<1>5. LineInv'
  BY <1>2 DEF AnswerInv, LineInv
<1>6. PlacesInv'
  <2>1. ASSUME NEW t \in Testers, NEW l \in LocIds PROVE Places(t, l)' <= Places(t, l)
    <3>1. /\ Requests(t, l)' = Requests(t, l) /\ Answers(t, l)' = Answers(t, l)
          /\ Runs(t, l)' = Runs(t, l)
      BY <1>1 DEF Requests, Answers, Runs
    <3> QED
      BY <1>1, <3>1, PartsCounted DEF Places
  <2> QED
    BY <1>1, <1>2, <2>1, PlacesFrame DEF AnswerInv
<1>7. VerdictInv'
  BY <1>1, <1>2
     DEF AnswerInv, VerdictInv, RequestWord, ServedWord, RunsWord, ResultVerdict, AnswerVerdict
<1> QED
  BY <1>3, <1>4, <1>5, <1>6, <1>7 DEF AnswerInv

(* A result is read: the verdict is that of the run, and so of its word.    *)
LEMMA AnswerReadResult ==
    ASSUME TypeInv, RouteInv, AnswerInv, ServerNext, ReadRunResult
    PROVE  AnswerInv'
<1>1. UNCHANGED <<reportQ, testerQ, runSlots, request, runWord, faults>>
  BY DEF ReadRunResult, processVars
<1>2. UNCHANGED testerVars /\ UNCHANGED <<testerPc, line, loc_id, results>>
  BY DEF ServerNext, testerVars
<1>3. CapInv'
  BY <1>1 DEF AnswerInv, CapInv
<1>4. ResetInv'
  BY ResetServer DEF AnswerInv, ServerNext
<1>5. LineInv'
  BY <1>2 DEF AnswerInv, LineInv
<1>6. PlacesInv'
  <2>1. \A t, l : Places(t, l)' = Places(t, l) /\ Places(t, l) \in Nat
    BY <1>1, PlacesSame, PlacesNumbers
  <2> QED
    BY <1>1, <1>2, <2>1, PlacesFrame DEF AnswerInv
<1>7. ResultVerdict'
  <2>0. PICK msg : msg = Head(runQ[0])
    OBVIOUS
  <2>1. /\ runQ[0] \in Seq(RunResult) /\ runQ[0] # <<>>
        /\ runQ' = [runQ EXCEPT ![0] = Tail(runQ[0])]
        /\ runQ'[0] = Tail(runQ[0])
    BY ResultTyped DEF ReadRunResult, HasMessage, Received, TypeInv, TypeOK, PosixTypeOK,
                       Generation
  <2>2. /\ msg \in ToSet(runQ[0]) /\ ToSet(runQ'[0]) \subseteq ToSet(runQ[0])
        /\ msg = runQ[0][1] /\ 1 \in 1 .. Len(runQ[0])
    BY <2>0, <2>1, TailShift DEF ToSet
  <2>3. msg.result = (runWord[msg.pid] \in Accepted)
    BY <2>2 DEF AnswerInv, VerdictInv, ResultVerdict
  <2>4. runSlots[msg.pid] # NULL
    BY <2>2 DEF RouteInv, QueueInv
  <2>5. answering'.pid = msg.pid /\ answering'.result = msg.result
    BY <2>0, <2>4 DEF ReadRunResult
  <2> QED
    BY <1>1, <2>2, <2>3, <2>5 DEF AnswerInv, VerdictInv, ResultVerdict
<1>8. VerdictInv'
  BY <1>1, <1>2, <1>7 DEF AnswerInv, VerdictInv, RequestWord, ServedWord, RunsWord, AnswerVerdict
<1> QED
  BY <1>3, <1>4, <1>5, <1>6, <1>8 DEF AnswerInv

(* Who gets the answer, in which queue, and to what.                        *)
LEMMA AnswerGoes ==
    ASSUME TypeInv, RouteInv, SendAnswer
    PROVE  \E t \in Testers, w \in Pids, gen \in Generation, l \in LocIds, msg \in Answer :
             /\ answering # NULL /\ t = answering.tester /\ w = answering.pid
             /\ runSlots[w] = [loc_id |-> l, tester |-> t] /\ runSlots[w] \in RunSlot
             /\ testerSlots[t] # NULL /\ gen = testerSlots[t].queue
             /\ msg.loc_id = l /\ msg.result = answering.result
             /\ HasRoom(testerQ[t][gen])
             /\ testerQ'[t] = Sent(testerQ[t], gen, msg)
             /\ \A u \in Testers \ {t} : testerQ'[u] = testerQ[u]
<1>0. PICK t, w, gen, l, msg :
        /\ t = answering.tester /\ w = answering.pid /\ gen = testerSlots[t].queue
        /\ l = runSlots[w].loc_id
        /\ msg = [type |-> "answer", loc_id |-> l, result |-> answering.result]
  OBVIOUS
<1>1. answering \in Verdict /\ answering # NULL
  BY NullAssumption DEF SendAnswer, TypeInv, LocalsSet
<1>2. /\ w \in Pids /\ t \in Testers /\ answering.result \in BOOLEAN
      /\ runSlots[w] \in RunSlot /\ l \in LocIds
      /\ runSlots[w] = [loc_id |-> l, tester |-> t]
  <2>1. runSlots[w] # NULL /\ runSlots[w].tester = t /\ w \in Pids
    BY <1>0, <1>1 DEF RouteInv, AnsweringInv, Verdict
  <2>2. runSlots[w] \in RunSlot
    BY <2>1 DEF TypeInv, TypeOK, ServerTypeOK
  <2> QED
    BY <1>0, <1>1, <2>1, <2>2 DEF RunSlot, Verdict
<1>3. testerSlots[t] # NULL /\ gen \in Generation
  <2>1. runSlots[w] # NULL /\ runSlots[w].tester = t
    BY <1>2, NullAssumption
  <2>2. testerSlots[t] # NULL
    BY <1>2, <2>1 DEF RouteInv, SessionInv
  <2>3. testerSlots[t] \in TesterSlot
    BY <1>2, <2>2 DEF TypeInv, TypeOK, ServerTypeOK
  <2> QED
    BY <1>0, <2>2, <2>3 DEF TesterSlot
<1>4. msg \in Answer /\ msg.loc_id = l /\ msg.result = answering.result
  BY <1>0, <1>2 DEF Answer
<1>5. /\ HasRoom(testerQ[t][gen])
      /\ testerQ' = [testerQ EXCEPT ![t] = Sent(testerQ[t], gen, msg)]
  BY <1>0 DEF SendAnswer
<1>6. /\ HasRoom(testerQ[t][gen])
      /\ testerQ'[t] = Sent(testerQ[t], gen, msg)
      /\ \A u \in Testers \ {t} : testerQ'[u] = testerQ[u]
  BY <1>2, <1>5 DEF TypeInv, TypeOK, PosixTypeOK
<1>7. /\ answering # NULL /\ t = answering.tester /\ w = answering.pid
      /\ runSlots[w] = [loc_id |-> l, tester |-> t] /\ runSlots[w] \in RunSlot
      /\ testerSlots[t] # NULL /\ gen = testerSlots[t].queue
      /\ msg.loc_id = l /\ msg.result = answering.result
  BY <1>0, <1>1, <1>2, <1>3, <1>4
<1> QED
  BY <1>2, <1>3, <1>4, <1>6, <1>7

(* An answer is sent: what was a run is a message on its way back.          *)
LEMMA AnswerSendAnswer ==
    ASSUME TypeInv, RouteInv, AnswerInv, ServerNext, SendAnswer
    PROVE  AnswerInv'
<1>0. PICK t \in Testers, w \in Pids, gen \in Generation, l \in LocIds, msg \in Answer :
        /\ answering # NULL /\ t = answering.tester /\ w = answering.pid
        /\ runSlots[w] = [loc_id |-> l, tester |-> t] /\ runSlots[w] \in RunSlot
        /\ testerSlots[t] # NULL /\ gen = testerSlots[t].queue
        /\ msg.loc_id = l /\ msg.result = answering.result
        /\ HasRoom(testerQ[t][gen])
        /\ testerQ'[t] = Sent(testerQ[t], gen, msg)
        /\ \A u \in Testers \ {t} : testerQ'[u] = testerQ[u]
  BY AnswerGoes
<1>1. /\ UNCHANGED <<reportQ, runQ, request, runWord, faults>>
      /\ answering' = NULL
      /\ runSlots' = [runSlots EXCEPT ![w] = NULL]
  BY <1>0 DEF SendAnswer, processVars
<1>2. UNCHANGED testerVars /\ UNCHANGED <<testerPc, line, loc_id, results>>
  BY DEF ServerNext, testerVars
<1>3. /\ runSlots[w] # NULL /\ runSlots[w].tester = t /\ runSlots[w].loc_id = l
      /\ msg \in Answer \cup {Exit}
  BY <1>0, NullAssumption
<1>4. testerQ[t] \in [Generation -> Seq(Answer \cup {Exit})]
  BY DEF TypeInv, TypeOK, PosixTypeOK
<1>5. /\ HasRoom(testerQ[t][gen])
      /\ testerQ'[t] = Sent(testerQ[t], gen, msg)
      /\ \A u \in Testers \ {t} : testerQ'[u] = testerQ[u]
  BY <1>0
<1>6. /\ \A g \in Generation : Len(Sent(testerQ[t], gen, msg)[g]) <= QueueCap
      /\ \A g \in Generation :
           ToSet(Sent(testerQ[t], gen, msg)[g]) \subseteq ToSet(testerQ[t][g]) \cup {msg}
  BY <1>3, <1>4, <1>5, SentHolds DEF AnswerInv, CapInv
<1>7. CapInv'
  BY <1>1, <1>5, <1>6 DEF AnswerInv, CapInv
<1>8. ResetInv'
  BY ResetServer DEF AnswerInv, ServerNext
<1>9. LineInv'
  BY <1>2 DEF AnswerInv, LineInv
<1>10. PlacesInv'
  <2>1. ASSUME NEW u \in Testers, NEW k \in LocIds PROVE Places(u, k)' = Places(u, k)
    <3> DEFINE is == u = t /\ k = l
    <3>1. Requests(u, k)' = Requests(u, k)
      BY <1>1 DEF Requests
    <3>2. Cardinality(Answers(u, k)') = Cardinality(Answers(u, k)) + (IF is THEN 1 ELSE 0)
      <4>1. CASE u = t
        <5>1. Cardinality(Answers(t, k)') = Cardinality(Answers(t, k))
                + (IF msg \in Answer /\ msg.loc_id = k THEN 1 ELSE 0)
          BY <1>3, <1>5, AnswerSent
        <5> QED
          BY <1>0, <4>1, <5>1
      <4>2. CASE u # t
        <5>1. Answers(u, k)' = Answers(u, k)
          BY <1>5, <4>2 DEF Answers
        <5> QED
          BY <4>2, <5>1, PartsCounted
      <4> QED
        BY <4>1, <4>2
    <3>3. Runs(u, k)' = Runs(u, k) \ {w}
      <4>1. NULL # [loc_id |-> k, tester |-> u]
        BY NullAssumption DEF RunSlot
      <4>2. \A v \in Pids : runSlots'[v] = IF v = w THEN NULL ELSE runSlots[v]
        BY <1>1 DEF TypeInv, TypeOK, ServerTypeOK
      <4> QED
        BY <4>1, <4>2 DEF Runs
    <3>4. w \in Runs(u, k) <=> is
      BY <1>0 DEF Runs
    <3>5. /\ IsFiniteSet(Runs(u, k)) /\ Cardinality(Runs(u, k)) \in Nat
          /\ Cardinality(Requests(u, k)) \in Nat /\ Cardinality(Answers(u, k)) \in Nat
      BY PartsCounted
    <3>6. Cardinality(Runs(u, k) \ {w}) = IF w \in Runs(u, k) THEN Cardinality(Runs(u, k)) - 1
                                          ELSE Cardinality(Runs(u, k))
      BY <3>5, FS_RemoveElement
    <3> HIDE DEF is
    <3> QED
      BY <1>1, <3>1, <3>2, <3>3, <3>4, <3>5, <3>6 DEF Places
  <2>2. \A u, k : Places(u, k) \in Nat
    BY PlacesNumbers
  <2> QED
    BY <1>1, <1>2, <2>1, <2>2, PlacesFrame DEF AnswerInv
<1>11. VerdictInv'
  <2>1. RunsWord'
    <3>1. \A v \in Pids : runSlots'[v] = runSlots[v] \/ runSlots'[v] = NULL
      BY <1>1 DEF TypeInv, TypeOK, ServerTypeOK
    <3> QED
      BY <1>1, <1>2, <3>1 DEF AnswerInv, VerdictInv, RunsWord
  <2>2. AnswerVerdict'
    <3>1. runWord[w] = results[t][l]
      BY <1>3 DEF AnswerInv, VerdictInv, RunsWord
    <3>2. answering.result = (runWord[w] \in Accepted)
      BY <1>0 DEF AnswerInv, VerdictInv, ResultVerdict
    <3>3. ASSUME NEW u \in Testers, NEW g \in Generation, NEW m \in ToSet(testerQ'[u][g])
          PROVE  m \in ToSet(testerQ[u][g]) \/ (u = t /\ m = msg)
      <4>1. CASE u = t
        BY <1>5, <1>6, <3>3, <4>1
      <4>2. CASE u # t
        BY <1>5, <3>3, <4>2
      <4> QED
        BY <4>1, <4>2
    <3> QED
      BY <1>0, <1>2, <3>1, <3>2, <3>3 DEF AnswerInv, VerdictInv, AnswerVerdict
  <2>3. RequestWord' /\ ServedWord' /\ ResultVerdict'
    BY <1>1, <1>2 DEF AnswerInv, VerdictInv, RequestWord, ServedWord, ResultVerdict
  <2> QED
    BY <2>1, <2>2, <2>3 DEF VerdictInv
<1> QED
  BY <1>7, <1>8, <1>9, <1>10, <1>11 DEF AnswerInv

(* "exit" is broadcast: it is no answer.                                    *)
LEMMA AnswerBroadcast ==
    ASSUME TypeInv, AnswerInv, ServerNext, BroadcastExit
    PROVE  AnswerInv'
<1>1. UNCHANGED <<reportQ, runQ, request, runWord, faults, runSlots, answering>>
  BY DEF BroadcastExit, processVars, slotVars, localVars
<1>2. UNCHANGED testerVars /\ UNCHANGED <<testerPc, line, loc_id, results>>
  BY DEF ServerNext, testerVars
<1>3. PICK t \in exitPending :
        /\ HasRoom(testerQ[t][testerSlots[t].queue])
        /\ testerQ' = [testerQ EXCEPT ![t] = Sent(testerQ[t], testerSlots[t].queue, Exit)]
  BY DEF BroadcastExit
<1>4. /\ t \in Testers /\ testerQ[t] \in [Generation -> Seq(Answer \cup {Exit})]
      /\ testerQ'[t] = Sent(testerQ[t], testerSlots[t].queue, Exit)
      /\ \A u \in Testers \ {t} : testerQ'[u] = testerQ[u]
      /\ Exit \in Answer \cup {Exit} /\ Exit \notin Answer
  BY <1>3 DEF TypeInv, TypeOK, PosixTypeOK, ServerTypeOK, Exit, Answer
<1>5. CASE testerSlots[t].queue \notin Generation
  <2>1. testerQ' = testerQ
    <3>1. Sent(testerQ[t], testerSlots[t].queue, Exit) = testerQ[t]
      <4>1. ASSUME NEW q \in [Generation -> Seq(Answer \cup {Exit})],
                   NEW gen, gen \notin Generation
            PROVE  Sent(q, gen, Exit) = q
        BY <4>1 DEF Sent
      <4> QED
        BY <1>4, <1>5, <4>1
    <3> QED
      BY <1>3, <3>1 DEF TypeInv, TypeOK, PosixTypeOK
  <2> QED
    BY <1>1, <2>1, QuietServer
<1>6. CASE testerSlots[t].queue \in Generation
  <2>0. PICK gen \in Generation : gen = testerSlots[t].queue
    BY <1>6
  <2>1. /\ \A g \in Generation : Len(Sent(testerQ[t], gen, Exit)[g]) <= QueueCap
        /\ \A g \in Generation :
             ToSet(Sent(testerQ[t], gen, Exit)[g]) \subseteq ToSet(testerQ[t][g]) \cup {Exit}
    BY <1>3, <1>4, <2>0, SentHolds DEF AnswerInv, CapInv
  <2>2. CapInv'
    BY <1>1, <1>4, <2>0, <2>1 DEF AnswerInv, CapInv
  <2>3. ResetInv'
    BY ResetServer DEF AnswerInv, ServerNext
  <2>4. LineInv'
    BY <1>2 DEF AnswerInv, LineInv
  <2>5. PlacesInv'
    <3>1. ASSUME NEW u \in Testers, NEW k \in LocIds PROVE Places(u, k)' = Places(u, k)
      <4>1. Requests(u, k)' = Requests(u, k) /\ Runs(u, k)' = Runs(u, k)
        BY <1>1 DEF Requests, Runs
      <4>2. Cardinality(Answers(u, k)') = Cardinality(Answers(u, k))
        <5>1. CASE u = t
          <6>1. Cardinality(Answers(t, k)') = Cardinality(Answers(t, k))
                  + (IF Exit \in Answer /\ Exit.loc_id = k THEN 1 ELSE 0)
            BY <1>3, <1>4, <2>0, AnswerSent
          <6> QED
            BY <1>4, <5>1, <6>1, PartsCounted
        <5>2. CASE u # t
          BY <1>4, <5>2 DEF Answers
        <5> QED
          BY <5>1, <5>2
      <4> QED
        BY <1>1, <4>1, <4>2 DEF Places
    <3>2. \A u, k : Places(u, k) \in Nat
      BY PlacesNumbers
    <3> QED
      BY <1>1, <1>2, <3>1, <3>2, PlacesFrame DEF AnswerInv
  <2>6. VerdictInv'
    <3>1. AnswerVerdict'
      <4>1. ASSUME NEW u \in Testers, NEW g \in Generation, NEW m \in ToSet(testerQ'[u][g]),
                   m.type = "answer"
            PROVE  m \in ToSet(testerQ[u][g])
        <5>1. m # Exit
          BY <4>1 DEF Exit
        <5>2. CASE u = t
          BY <1>4, <2>0, <2>1, <5>1, <5>2
        <5>3. CASE u # t
          BY <1>4, <5>3
        <5> QED
          BY <5>2, <5>3
      <4> QED
        BY <1>2, <4>1 DEF AnswerInv, VerdictInv, AnswerVerdict
    <3> QED
      BY <1>1, <1>2, <3>1
         DEF AnswerInv, VerdictInv, RequestWord, ServedWord, RunsWord, ResultVerdict
  <2> QED
    BY <2>2, <2>3, <2>4, <2>5, <2>6 DEF AnswerInv
<1> QED
  BY <1>5, <1>6

(* No step of the server breaks the invariant.                              *)
LEMMA AnswerServer ==
    ASSUME TypeInv, RouteInv, AnswerInv, ServerNext
    PROVE  AnswerInv'
<1>1. CASE RegisterTester \/ Throttle \/ NoRunResult \/ ReapNothing \/ ReapExited
           \/ ReapFailed \/ ReapFatal \/ NoRequest
  <2>1. UNCHANGED <<reportQ, testerQ, runSlots, request, runWord, runQ, answering, faults>>
    BY <1>1 DEF RegisterTester, Throttle, NoRunResult, ReapNothing, ReapExited, ReapFailed,
       ReapFatal, NoRequest, reapUnchanged, slotVars, localVars, posixVars, queueVars, processVars
  <2> QED
    BY <2>1, QuietServer
<1>2. CASE PushGraph \/ WaitAfterFailure \/ PrintReport \/ RemoveQueues \/ FinalWait \/ ExitWait
  <2>1. UNCHANGED <<reportQ, testerQ, runSlots, request, runWord, runQ, answering, faults>>
    BY <1>2 DEF PushGraph, WaitAfterFailure, PrintReport, RemoveQueues, Unlink, FinalWait,
       ExitWait, slotVars, localVars, posixVars, queueVars, processVars
  <2> QED
    BY <2>1, QuietServer
<1>3. CASE OnExit
  <2>1. testerQ' = testerQ
    BY <1>3 DEF OnExit, GlobalTesterSlots, TypeInv, TypeOK, PosixTypeOK
  <2>2. UNCHANGED <<reportQ, runSlots, request, runWord, runQ, answering, faults>>
    BY <1>3 DEF OnExit, slotVars, localVars, processVars
  <2> QED
    BY <2>1, <2>2, QuietServer
<1> QED
  BY <1>1, <1>2, <1>3, AnswerReadResult, AnswerSendAnswer, AnswerTakeExitRequest,
     AnswerTakeRequest, AnswerSpawn, AnswerSpawnFails, AnswerBroadcast
     DEF ServerNext, ServerStep

-----------------------------------------------------------------------------
(* THE INVARIANT                                                           *)

(* At first nothing is owed and every place is empty.                       *)
LEMMA AnswerInit == Init => AnswerInv
<1> SUFFICES ASSUME Init PROVE AnswerInv
  OBVIOUS
<1>1. /\ \A g \in Generation : reportQ[g] = <<>>
      /\ \A t \in Testers, g \in Generation : testerQ[t][g] = <<>>
      /\ runQ[0] = <<>> /\ 0 \in Generation
  BY DEF Init, PosixInit, Generation
<1>2. /\ \A w \in Pids : runSlots[w] = NULL
      /\ request = NULL /\ spawned = NULL /\ answering = NULL
  BY DEF Init, ServerInit
<1>3. \A t \in Testers : /\ testerPc[t] = "openRegister"
                         /\ \A l \in LocIds : results[t][l] = NULL
  BY DEF Init, TesterInit
<1>4. CapInv
  BY <1>1, PosixAssumption DEF PosixAssumption, CapInv
<1>5. ResetInv
  BY <1>2 DEF ResetInv
<1>6. LineInv
  BY <1>3 DEF LineInv
<1>7. PlacesInv
  <2> SUFFICES ASSUME NEW t \in Testers, NEW l \in LocIds
               PROVE  Places(t, l) = 0 /\ ~ Owed(t, l)
    BY DEF PlacesInv
  <2>1. Requests(t, l) = {} /\ Answers(t, l) = {}
    BY <1>1, PosixAssumption DEF PosixAssumption, Requests, Answers, Held, Slots
  <2>2. Runs(t, l) = {}
    BY <1>2, NullAssumption DEF Runs, RunSlot
  <2> QED
    BY <1>2, <1>3, <2>1, <2>2, FS_EmptySet DEF Places, Owed
<1>8. VerdictInv
  BY <1>1, <1>2
     DEF VerdictInv, RequestWord, ServedWord, RunsWord, ResultVerdict, AnswerVerdict, ToSet
<1> QED
  BY <1>4, <1>5, <1>6, <1>7, <1>8 DEF AnswerInv

(* A step that changes nothing keeps it.                                    *)
LEMMA AnswerStutter ==
    ASSUME AnswerInv, UNCHANGED vars
    PROVE  AnswerInv'
<1>1. /\ UNCHANGED <<reportQ, testerQ, runQ, runWord, runState, faults>>
      /\ UNCHANGED <<serverPc, runSlots, answering, request, spawned>>
      /\ UNCHANGED testerVars /\ UNCHANGED <<testerPc, line, loc_id, results>>
  BY DEF vars, posixVars, queueVars, processVars, serverVars, slotVars, localVars, testerVars
<1>2. CapInv' /\ ResetInv' /\ LineInv'
  BY <1>1 DEF AnswerInv, CapInv, ResetInv, LineInv
<1>3. PlacesInv'
  <2>1. \A t, l : Places(t, l)' = Places(t, l) /\ Places(t, l) \in Nat
    BY <1>1, PlacesSame, PlacesNumbers
  <2> QED
    BY <1>1, <2>1, PlacesFrame DEF AnswerInv
<1>4. VerdictInv'
  BY <1>1 DEF AnswerInv, VerdictInv, RequestWord, ServedWord, RunsWord, ResultVerdict,
              AnswerVerdict
<1> QED
  BY <1>2, <1>3, <1>4 DEF AnswerInv

(* What the theorems below rest on is inductive.                            *)
ServedInv == TypeInv /\ RouteInv /\ AnswerInv

LEMMA ServedInit == Init => ServedInv
  BY TypeInit, RouteInit, AnswerInit DEF ServedInv

LEMMA ServedStep == ServedInv /\ [Next]_vars => ServedInv'
<1> SUFFICES ASSUME ServedInv, [Next]_vars PROVE ServedInv'
  OBVIOUS
<1>1. TypeInv' /\ RouteInv'
  BY RouteStep DEF ServedInv
<1>2. CASE ServerNext
  BY <1>1, <1>2, AnswerServer DEF ServedInv
<1>3. ASSUME NEW w \in Pids, RunNext(w) \/ CrashNext(w) PROVE ServedInv'
  BY <1>1, <1>3, AnswerRun DEF ServedInv
<1>4. ASSUME NEW t \in Testers, TesterNext(t) PROVE ServedInv'
  BY <1>1, <1>4, AnswerTester DEF ServedInv
<1>5. CASE UNCHANGED vars
  BY <1>1, <1>5, AnswerStutter DEF ServedInv
<1> QED
  BY <1>2, <1>3, <1>4, <1>5 DEF Next, Terminating

(* Whatever fails, and for any number of testers, runs and words, a request *)
(* is in one place at most, is in none once its answer is printed           *)
(* (tester.c:155-172), and the answer carries the verdict of the automaton   *)
(* on the word the tester saved (run.c:161, validator.c:300).                *)
THEOREM AnswersCorrect == Spec => []AnswerIntegrity
<1>1. ServedInv => AnswerIntegrity
  <2> SUFFICES ASSUME ServedInv PROVE AnswerIntegrity
    OBVIOUS
  <2>1. ASSUME NEW t \in Testers, NEW l \in LocIds
        PROVE  Places(t, l) <= (IF results[t][l] # NULL THEN 1 ELSE 0)
    <3>1. Places(t, l) <= (IF Owed(t, l) THEN 1 ELSE 0) /\ Places(t, l) \in Nat
      BY PlacesNumbers DEF ServedInv, AnswerInv, PlacesInv
    <3>2. Owed(t, l) => results[t][l] # NULL
      BY DEF Owed
    <3> QED
      BY <3>1, <3>2
  <2> QED
    BY <2>1 DEF ServedInv, AnswerInv, VerdictInv, AnswerVerdict, AnswerIntegrity
<1> QED
  BY ServedInit, ServedStep, <1>1, PTL DEF Spec

(* While nothing fails no word is lost between its send (tester.c:139) and  *)
(* the print of its answer: it is in a queue, with the server or with a run. *)
THEOREM NoneLost == Spec => []NothingLost
<1>1. ServedInv => NothingLost
  BY DEF ServedInv, AnswerInv, PlacesInv, Owed, NothingLost
<1> QED
  BY ServedInit, ServedStep, <1>1, PTL DEF Spec
=============================================================================
