------------------------------- MODULE Tester -------------------------------
(***************************************************************************)
(* The tester process (tester.c): it registers, sends each word of its     *)
(* standard input to the server, and between two lines polls its own queue *)
(* for answers.                                                            *)
(***************************************************************************)
EXTENDS Posix

CONSTANT Inputs     \* the standard inputs considered: [Testers -> Seq(Line)]

Line == Words \cup {"!"}

(* A line that is the command "!" is never taken for a word.                *)
ASSUME TesterAssumption ==
    /\ "!" \notin Words
    /\ Inputs \subseteq [Testers -> Seq(Line)]
    /\ \A input \in Inputs, t \in Testers : Len(input[t]) < MaxLines

VARIABLES
    testerPc,      \* where each tester is
    stdin,         \* the lines it has not read yet
    registerHandle,\* the generation of the registration queue it opened
    reportHandle,  \* the generation of the report queue it opened
    line,          \* line_buf, while it is being sent
    loc_id,        \* lines read
    read_input,    \* does it still read its input
    results,       \* the words not answered yet, by loc_id
    req_count, ans_count, accepted_count

testerVars == <<testerPc, stdin, registerHandle, reportHandle, line, loc_id,
                read_input, results, req_count, ans_count, accepted_count>>

TesterPcs == {"openRegister", "register", "openReport", "input", "send",
              "poll", "close", "done"}

TesterTypeOK ==
    /\ testerPc \in [Testers -> TesterPcs]
    /\ stdin \in [Testers -> Seq(Line)]
    /\ registerHandle \in [Testers -> Generation]
    /\ reportHandle \in [Testers -> Generation]
    /\ line \in [Testers -> Line \cup {NULL}]
    /\ loc_id \in [Testers -> 0 .. MaxLines]
    /\ read_input \in [Testers -> BOOLEAN]
    /\ results \in [Testers -> [LocIds -> Words \cup {NULL}]]
    /\ req_count \in [Testers -> Nat]
    /\ ans_count \in [Testers -> Nat]
    /\ accepted_count \in [Testers -> Nat]

TesterInit ==
    /\ testerPc = [t \in Testers |-> "openRegister"]
    /\ stdin \in Inputs
    /\ registerHandle = [t \in Testers |-> 0]
    /\ reportHandle = [t \in Testers |-> 0]
    /\ line = [t \in Testers |-> NULL]
    /\ loc_id = [t \in Testers |-> 0]
    /\ read_input = [t \in Testers |-> TRUE]
    /\ results = [t \in Testers |-> [l \in LocIds |-> NULL]]
    /\ req_count = [t \in Testers |-> 0]
    /\ ans_count = [t \in Testers |-> 0]
    /\ accepted_count = [t \in Testers |-> 0]

Goto(t, label) == testerPc' = [testerPc EXCEPT ![t] = label]

(* The head of the loop and its last test (line 186), for the values the    *)
(* variables have after the step.                                           *)
MutantNoWait(t, reading, requests, answers) ==
    Goto(t, IF ~ reading THEN "close" ELSE "input")

LoopBack(t, reading, requests, answers) ==
    Goto(t, IF ~ reading /\ ~ (answers < requests) THEN "close"
            ELSE IF reading THEN "input" ELSE "poll")

OpenRegister(t) ==
    /\ testerPc[t] = "openRegister"
    /\ Goto(t, "register")
    /\ registerHandle' = [registerHandle EXCEPT ![t] = OpenQueue("register")]
    /\ UNCHANGED <<posixVars, stdin, reportHandle, line, loc_id, read_input,
                   results, req_count, ans_count, accepted_count>>

(* "register_tester: <pid> <queue>", blocking while the queue is full. *)
Register(t) ==
    /\ testerPc[t] = "register"
    /\ HasRoom(registerQ[registerHandle[t]])
    /\ registerQ' = Sent(registerQ, registerHandle[t], t)
    /\ Goto(t, "openReport")
    /\ UNCHANGED <<reportQ, runQ, testerQ, unlinked, processVars, faults, stdin,
                   registerHandle, reportHandle, line, loc_id, read_input,
                   results, req_count, ans_count, accepted_count>>

(* Opens the report queue and its own input queue, which nobody but the     *)
(* tester itself unlinks: its handle is generation 0 throughout.            *)
OpenReport(t) ==
    /\ testerPc[t] = "openReport"
    /\ Goto(t, "input")
    /\ reportHandle' = [reportHandle EXCEPT ![t] = OpenQueue("report")]
    /\ UNCHANGED <<posixVars, stdin, registerHandle, line, loc_id, read_input,
                   results, req_count, ans_count, accepted_count>>

(* getline: a word is saved under the next loc_id before it is sent. *)
ReadLine(t) ==
    /\ testerPc[t] = "input"
    /\ loc_id[t] < MaxLines
    /\ loc_id' = [loc_id EXCEPT ![t] = @ + 1]
    /\ \/ /\ stdin[t] # <<>>
          /\ stdin' = [stdin EXCEPT ![t] = Tail(@)]
          /\ line' = [line EXCEPT ![t] = Head(stdin[t])]
          /\ results' = IF Head(stdin[t]) = "!" THEN results
                        ELSE [results EXCEPT ![t][loc_id[t] + 1] = Head(stdin[t])]
          /\ Goto(t, "send")
          /\ UNCHANGED read_input
       \/ /\ stdin[t] = <<>>
          /\ read_input' = [read_input EXCEPT ![t] = FALSE]
          /\ Goto(t, "poll")
          /\ UNCHANGED <<stdin, line, results>>
    /\ UNCHANGED <<posixVars, registerHandle, reportHandle, req_count, ans_count,
                   accepted_count>>

(* The blocking send of "exit", the last line the tester reads. *)
SendExit(t) ==
    /\ testerPc[t] = "send"
    /\ line[t] = "!"
    /\ HasRoom(reportQ[reportHandle[t]])
    /\ reportQ' = Sent(reportQ, reportHandle[t], Exit)
    /\ read_input' = [read_input EXCEPT ![t] = FALSE]
    /\ line' = [line EXCEPT ![t] = NULL]
    /\ Goto(t, "poll")
    /\ UNCHANGED <<registerQ, runQ, testerQ, unlinked, processVars, faults, stdin,
                   registerHandle, reportHandle, loc_id, results, req_count,
                   ans_count, accepted_count>>

(* The blocking send of "parse: <pid> <queue> <loc_id> <word>". *)
SendWord(t) ==
    /\ testerPc[t] = "send"
    /\ line[t] \in Words
    /\ HasRoom(reportQ[reportHandle[t]])
    /\ reportQ' = Sent(reportQ, reportHandle[t],
                       [type |-> "parse", tester |-> t, loc_id |-> loc_id[t],
                        word |-> line[t]])
    /\ req_count' = [req_count EXCEPT ![t] = @ + 1]
    /\ line' = [line EXCEPT ![t] = NULL]
    /\ Goto(t, "poll")
    /\ UNCHANGED <<registerQ, runQ, testerQ, unlinked, processVars, faults, stdin,
                   registerHandle, reportHandle, loc_id, read_input, results,
                   ans_count, accepted_count>>

(* Line 169: the word is forgotten under the loc_id of the answer, the      *)
(* variable that hides the counter of the lines.                            *)
MutantLineCounter(t, msg) == [results EXCEPT ![t][loc_id[t]] = NULL]

Forget(t, msg) == [results EXCEPT ![t][msg.loc_id] = NULL]

(* One non-blocking read of the input queue, when answers are owed.  The    *)
(* answer is printed and forgotten; a loc_id with no saved word is refused. *)
TakeAnswer(t) ==
    LET msg   == Head(testerQ[t][0])
        known == results[t][msg.loc_id] # NULL
        answers == ans_count[t] + (IF known THEN 1 ELSE 0)
    IN  /\ testerPc[t] = "poll"
        /\ ans_count[t] < req_count[t]
        /\ HasMessage(testerQ[t][0])
        /\ msg.type = "answer"
        /\ testerQ' = [testerQ EXCEPT ![t] = Received(@, 0)]
        /\ ans_count' = [ans_count EXCEPT ![t] = answers]
        /\ accepted_count' = [accepted_count EXCEPT
                                ![t] = @ + (IF known /\ msg.result THEN 1 ELSE 0)]
        /\ results' = Forget(t, msg)
        /\ LoopBack(t, read_input[t], req_count[t], answers)
        /\ UNCHANGED <<registerQ, reportQ, runQ, unlinked, processVars, faults,
                       stdin, registerHandle, reportHandle, line, loc_id,
                       read_input, req_count>>

(* "exit" from the server, without the break. *)
MutantStay(t) ==
    /\ testerPc[t] = "poll"
    /\ ans_count[t] < req_count[t]
    /\ HasMessage(testerQ[t][0])
    /\ Head(testerQ[t][0]).type = "exit"
    /\ testerQ' = [testerQ EXCEPT ![t] = Received(@, 0)]
    /\ LoopBack(t, read_input[t], req_count[t], ans_count[t])
    /\ UNCHANGED <<registerQ, reportQ, runQ, unlinked, processVars, faults, stdin,
                   registerHandle, reportHandle, line, loc_id, read_input,
                   results, req_count, ans_count, accepted_count>>

(* "exit" from the server: leave the loop whatever is still owed. *)
TakeExit(t) ==
    /\ testerPc[t] = "poll"
    /\ ans_count[t] < req_count[t]
    /\ HasMessage(testerQ[t][0])
    /\ Head(testerQ[t][0]).type = "exit"
    /\ testerQ' = [testerQ EXCEPT ![t] = Received(@, 0)]
    /\ Goto(t, "close")
    /\ UNCHANGED <<registerQ, reportQ, runQ, unlinked, processVars, faults, stdin,
                   registerHandle, reportHandle, line, loc_id, read_input,
                   results, req_count, ans_count, accepted_count>>

(* Nothing to read, or nothing owed: back to the input, or out of the loop. *)
(* With answers owed and no input left the tester spins here, a stuttering  *)
(* step that is left out.                                                   *)
PollNothing(t) ==
    /\ testerPc[t] = "poll"
    /\ ans_count[t] < req_count[t] => testerQ[t][0] = <<>>
    /\ LoopBack(t, read_input[t], req_count[t], ans_count[t])
    /\ testerPc'[t] # "poll"
    /\ UNCHANGED <<posixVars, stdin, registerHandle, reportHandle, line, loc_id,
                   read_input, results, req_count, ans_count, accepted_count>>

(* Print the totals, forget the saved words, msgQueueRemove(&inputQueue). *)
CloseTester(t) ==
    /\ testerPc[t] = "close"
    /\ Goto(t, "done")
    /\ unlinked' = unlinked \cup {t}
    /\ UNCHANGED <<registerQ, reportQ, runQ, testerQ, processVars, faults, stdin,
                   registerHandle, reportHandle, line, loc_id, read_input,
                   results, req_count, ans_count, accepted_count>>

TesterStep(t) ==
    \/ OpenRegister(t) \/ Register(t) \/ OpenReport(t) \/ ReadLine(t)
    \/ SendExit(t) \/ SendWord(t)
    \/ TakeAnswer(t) \/ TakeExit(t) \/ PollNothing(t) \/ CloseTester(t)
=============================================================================
