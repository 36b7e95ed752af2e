----------------------- MODULE OrganizationRun_proofs -----------------------
(* Proofs about a guided organization run: the hard budget, what is sent   *)
(* after a withdrawal, the cache of validated answers, assemblies, the     *)
(* schedule of the coordinator (which scope is completed, pending, in      *)
(* flight or unseen, and what its row says), and the accounts of the       *)
(* ledger.                                                                 *)
EXTENDS OrganizationRun, FiniteSetTheorems, WellFoundedInduction, TLAPS

-----------------------------------------------------------------------------
(* Shapes: what an EXCEPT may rely on. *)

RunShape ==
    run = [pc |-> run.pc, gen |-> run.gen, sel |-> run.sel, pending |-> run.pending,
           ready |-> run.ready, outcome |-> run.outcome, desired |-> run.desired,
           streak |-> run.streak, stop |-> run.stop]
Replies == {"none", "ok", "error", "withdrawn"}
WorkerPoints == {"off", "repair", "enter", "guard", "reserve", "sent", "done", "commit"}
WorkerRow == [pc : WorkerPoints, part : Int, attempt : Int, reply : Replies]
Ledger == [calls : Int, charged : Int, known : Int, blind : Int, overrun : Nat]

-----------------------------------------------------------------------------
(* The budget. *)

BudgetInv == ledger \in Ledger /\ BudgetHeld

\* Only a reservation, an answer and the end of the task touch the ledger.
LEMMA LedgerFrame ==
    ASSUME Next
    PROVE  \/ ledger' \in {ledger, NoLedger}
           \/ \E s \in Scopes : Reserve(s)
           \/ \E s \in Scopes, answer \in Answers, report \in Reports : Respond(s, answer, report)
<1>1. CASE CoordinatorStep
    BY <1>1 DEF CoordinatorStep, OnlyRun, Coordinator, TaskEnds, Validate, Register, Replay,
        ReplayCached, ServeCached, ReplayEnds, Check, Launch, LaunchEnds, Wait, CollectFailure,
        CollectResult, Commit, CollectEnds, Final, Bridge, Drain, AssembleRun,
        Finish
<1>2. CASE \E s \in Scopes : WorkerStep(s)
    BY <1>2 DEF WorkerStep, OnlyWorker, AwaitRepair, Enter, Guard
<1>3. CASE UserStep
    BY <1>3 DEF UserStep, Prepare, Start, Cancel, Correct, AssembleCorrection, Apply, Discard,
        Reviewer
<1>4. CASE WorldStep
    BY <1>4 DEF WorldStep, RefreshCopies, RefreshReplaces, RefreshGivesUp, Tick,
        Crash, TaskEnds
<1> QED
    BY <1>1, <1>2, <1>3, <1>4 DEF Next

\* A reservation that was admitted fits under the hard budget.
LEMMA ReserveInBudget ==
    ASSUME BudgetInv, NEW s \in Scopes, Reserve(s)
    PROVE  BudgetInv'
<1>1. CASE Admitted
  <2>1. ledger' = [ledger EXCEPT !.calls = @ + 1, !.charged = @ + Ceiling]
    BY <1>1 DEF Reserve
  <2>2. ledger' = [calls |-> ledger.calls + 1, charged |-> ledger.charged + Ceiling,
                   known |-> ledger.known, blind |-> ledger.blind,
                   overrun |-> ledger.overrun]
    BY <2>1 DEF BudgetInv, Ledger
  <2> QED
    BY <1>1, <2>2, RunAssumption DEF BudgetInv, BudgetHeld, Ledger, Admitted
<1>2. CASE ~Admitted
    BY <1>2 DEF Reserve, BudgetInv, BudgetHeld
<1> QED
    BY <1>1, <1>2

\* What an answer charges beyond the reservation is overrun.
LEMMA RespondInBudget ==
    ASSUME BudgetInv, NEW s \in Scopes, NEW answer, NEW report \in Reports,
           Respond(s, answer, report)
    PROVE  BudgetInv'
<1>1. Charge(report) \in Nat /\ (report \in Usages => report \in Int)
    BY RunAssumption DEF Charge, Usages, Negative, Unreported
<1>2. Settle(report)
    BY DEF Respond
<1>3. ledger' = [calls |-> ledger.calls,
                 charged |-> ledger.charged + Charge(report) - Ceiling,
                 known |-> IF report \in Usages THEN ledger.known + report ELSE ledger.known,
                 blind |-> IF report \in Usages THEN ledger.blind ELSE ledger.blind + 1,
                 overrun |-> IF Charge(report) > Ceiling
                             THEN ledger.overrun + Charge(report) - Ceiling ELSE ledger.overrun]
    BY <1>2 DEF BudgetInv, Ledger, Settle
<1> QED
    BY <1>1, <1>3, RunAssumption DEF BudgetInv, BudgetHeld, Ledger

LEMMA BudgetInductive == BudgetInv /\ [Next]_vars => BudgetInv'
<1> SUFFICES ASSUME BudgetInv, [Next]_vars
             PROVE  BudgetInv'
    OBVIOUS
<1>1. CASE ledger' = ledger
    BY <1>1 DEF BudgetInv, BudgetHeld
<1>2. CASE ledger' = NoLedger
    BY <1>2, RunAssumption DEF BudgetInv, BudgetHeld, NoLedger, Ledger
<1>3. CASE Next
    BY <1>1, <1>2, <1>3, LedgerFrame, ReserveInBudget, RespondInBudget
<1>4. CASE UNCHANGED vars
    BY <1>1, <1>4 DEF vars, runVars
<1> QED
    BY <1>3, <1>4

\* Whatever the threads do, neither calls nor charged tokens exceed the hard budget, except
\* for what a provider reports beyond the ceiling it was given.
THEOREM BudgetIsHeld == Spec => []BudgetHeld
<1>1. Init => BudgetInv
    BY RunAssumption DEF Init, BudgetInv, BudgetHeld, NoLedger, Ledger
<1>2. BudgetInv => BudgetHeld
    BY DEF BudgetInv
<1> QED
    BY <1>1, <1>2, BudgetInductive, PTL DEF Spec
-----------------------------------------------------------------------------
(* Withdrawal. *)

\* The resting state of the coordinator and of a worker.
LEMMA RestingShaped ==
    /\ Resting = [pc |-> Resting.pc, gen |-> Resting.gen, sel |-> Resting.sel,
                  pending |-> Resting.pending, ready |-> Resting.ready,
                  outcome |-> Resting.outcome, desired |-> Resting.desired,
                  streak |-> Resting.streak, stop |-> Resting.stop]
    /\ Resting.pc = "idle"
    /\ Off \in WorkerRow /\ Off.pc = "off"
BY DEF Resting, Off, WorkerRow, WorkerPoints, Replies

\* One worker goes on, and the others stay.
LEMMA WorkerMoved ==
    ASSUME wk \in [Scopes -> WorkerRow], NEW s, NEW row \in WorkerRow,
           wk' = [wk EXCEPT ![s] = row]
    PROVE  /\ wk' \in [Scopes -> WorkerRow]
           /\ \A x \in Scopes : wk'[x] = IF x = s THEN row ELSE wk[x]
OBVIOUS

LEMMA MoveMoves ==
    ASSUME wk \in [Scopes -> WorkerRow], NEW s \in Scopes, NEW pc \in WorkerPoints, Move(s, pc)
    PROVE  /\ wk' \in [Scopes -> WorkerRow]
           /\ \A x \in Scopes : wk'[x].pc = IF x = s THEN pc ELSE wk[x].pc
<1>1. [wk[s] EXCEPT !.pc = pc] \in WorkerRow /\ [wk[s] EXCEPT !.pc = pc].pc = pc
    BY DEF WorkerRow, WorkerPoints, Replies
<1>2. wk' = [wk EXCEPT ![s] = [wk[s] EXCEPT !.pc = pc]]
    BY DEF Move
<1> QED
    BY <1>1, <1>2, WorkerMoved

LEMMA AnswerMoves ==
    ASSUME wk \in [Scopes -> WorkerRow], NEW s \in Scopes, NEW reply \in Replies,
           Answer(s, reply)
    PROVE  /\ wk' \in [Scopes -> WorkerRow]
           /\ \A x \in Scopes : wk'[x].pc = IF x = s THEN "done" ELSE wk[x].pc
<1> DEFINE row == [wk[s] EXCEPT !.pc = "done", !.reply = reply]
<1>1. row \in WorkerRow /\ row.pc = "done"
    BY DEF WorkerRow, WorkerPoints, Replies
<1>2. wk' = [wk EXCEPT ![s] = row]
    BY DEF Answer
<1> QED
    BY <1>1, <1>2, WorkerMoved

\* After an attempt a worker is at no check of its request.
LEMMA AfterAttemptMoves ==
    ASSUME wk \in [Scopes -> WorkerRow], NEW s \in Scopes, NEW answer,
           AfterAttempt(s, answer) \/ Answer(s, "error")
    PROVE  /\ wk' \in [Scopes -> WorkerRow]
           /\ \A x \in Scopes : wk'[x].pc = wk[x].pc \/ (x = s /\ wk'[x].pc \in {"enter", "repair", "done"})
<1>1. CASE \E reply \in Replies : Answer(s, reply)
    BY <1>1, AnswerMoves
<1> DEFINE next == [pc |-> "enter", part |-> wk[s].part + 1, attempt |-> 1, reply |-> "none"]
           repair == [pc |-> "repair", part |-> wk[s].part, attempt |-> 2, reply |-> "none"]
<1>2. next \in WorkerRow /\ next.pc = "enter" /\ repair \in WorkerRow /\ repair.pc = "repair"
    BY DEF WorkerRow, WorkerPoints, Replies
<1>3. CASE wk' = [wk EXCEPT ![s] = next] \/ wk' = [wk EXCEPT ![s] = repair]
    BY <1>2, <1>3, WorkerMoved
<1> QED
    BY <1>1, <1>2, <1>3 DEF AfterAttempt, Replies

\* A scope that sent a late request is past its checks, and the checks do not let it back
\* as long as the run is cancelled.
LateInv ==
    /\ RunShape
    /\ wk \in [Scopes -> WorkerRow]
    /\ late \in [Scopes -> 0..1]
    /\ slot # "organization" => run.pc = "idle"
    /\ slot # "organization" => \A s \in Scopes : wk[s].pc = "off"
    /\ \A s \in Scopes : late[s] = 1 => cancelled /\ wk[s].pc \notin {"guard", "reserve"}

\* A step of the run that sends nothing and brings no scope to a check keeps the invariant.
LEMMA LateKept ==
    ASSUME LateInv, slot = "organization", RunShape', wk' \in [Scopes -> WorkerRow],
           UNCHANGED <<late, cancelled, authority, slot>>, run'.gen = run.gen,
           \A x \in Scopes : wk'[x].pc \in {"guard", "reserve"} => wk'[x].pc = wk[x].pc
    PROVE  LateInv'
BY DEF LateInv

\* When the task ends nothing of it is left.
LEMMA LateEnds ==
    ASSUME LateInv, TaskEnds
    PROVE  LateInv'
<1>1. RunShape' /\ run'.pc = "idle"
    BY RestingShaped DEF RunShape, TaskEnds
<1>2. wk' \in [Scopes -> WorkerRow] /\ \A s \in Scopes : wk'[s].pc = "off"
    BY RestingShaped DEF TaskEnds
<1>3. /\ late' \in [Scopes -> 0..1]
      /\ \A s \in Scopes : late'[s] = 0
    BY DEF TaskEnds
<1> QED
    BY <1>1, <1>2, <1>3 DEF LateInv

LEMMA LateInductive == LateInv /\ [Next]_vars => LateInv'
<1> SUFFICES ASSUME LateInv, [Next]_vars
             PROVE  LateInv'
    OBVIOUS
<1> USE DEF At
<1>1. ASSUME Validate
     PROVE  LateInv'
    BY <1>1 DEF Validate, LateInv, RunShape, WorkerRow, Coordinator, OnlyRun, Goto, Failing,
        Off
<1>2. ASSUME Register
     PROVE  LateInv'
    BY <1>2 DEF Register, LateInv, RunShape, WorkerRow, Coordinator, OnlyRun, Goto, Failing,
        Off
<1>3. ASSUME Replay
     PROVE  LateInv'
    BY <1>3 DEF Replay, LateInv, RunShape, WorkerRow, Coordinator, OnlyRun, Goto, Failing, Off
<1>4. ASSUME ReplayCached
     PROVE  LateInv'
    BY <1>4 DEF ReplayCached, LateInv, RunShape, WorkerRow, Coordinator, OnlyRun, Goto,
        Failing, Off
<1>5. ASSUME ServeCached
     PROVE  LateInv'
    BY <1>5 DEF ServeCached, LateInv, RunShape, WorkerRow, Coordinator, OnlyRun, Goto, Failing,
        Off
<1>6. ASSUME ReplayEnds
     PROVE  LateInv'
    BY <1>6 DEF ReplayEnds, LateInv, RunShape, WorkerRow, Coordinator, OnlyRun, Goto, Failing,
        Off
<1>7. ASSUME Check
     PROVE  LateInv'
    BY <1>7 DEF Check, LateInv, RunShape, WorkerRow, Coordinator, OnlyRun, Goto, Failing, Off
<1>8. ASSUME Launch
     PROVE  LateInv'
  <2>1. slot = "organization"
    BY <1>8 DEF Launch, LateInv
  <2>2. RunShape' /\ run'.gen = run.gen
    BY <1>8 DEF Launch, LateInv, RunShape, Goto, Failing
  <2>3. [Off EXCEPT !.pc = "enter"] \in WorkerRow /\ [Off EXCEPT !.pc = "enter"].pc = "enter"
    BY DEF WorkerRow, WorkerPoints, Replies, Off, LateInv
  <2>4. wk' = [wk EXCEPT ![Min(run.pending)] = [Off EXCEPT !.pc = "enter"]] \/ wk' = wk
    BY <1>8 DEF Launch
  <2>5. /\ wk' \in [Scopes -> WorkerRow]
        /\ \A x \in Scopes : wk'[x].pc \in {"enter", wk[x].pc}
    BY <2>3, <2>4, WorkerMoved DEF LateInv
  <2> QED
    BY <1>8, <2>1, <2>2, <2>5, LateKept DEF Launch
<1>9. ASSUME LaunchEnds
     PROVE  LateInv'
    BY <1>9 DEF LaunchEnds, LateInv, RunShape, WorkerRow, Coordinator, OnlyRun, Goto, Failing,
        Off
<1>10. ASSUME Wait
     PROVE  LateInv'
    BY <1>10 DEF Wait, LateInv, RunShape, WorkerRow, Coordinator, OnlyRun, Goto, Failing, Off
<1>12. ASSUME NEW s \in Scopes, CollectFailure(s)
     PROVE  LateInv'
  <2>1. slot = "organization"
    BY <1>12 DEF CollectFailure, LateInv
  <2>2. RunShape' /\ run'.gen = run.gen
    BY <1>12 DEF CollectFailure, LateInv, RunShape, Goto, Failing
  <2>3. Off \in WorkerRow /\ Off.pc = "off"
    BY DEF WorkerRow, WorkerPoints, Replies, Off, LateInv
  <2>4. wk' = [wk EXCEPT ![s] = Off]
    BY <1>12 DEF CollectFailure
  <2>5. /\ wk' \in [Scopes -> WorkerRow]
        /\ \A x \in Scopes : wk'[x].pc \in {"off", wk[x].pc}
    BY <2>3, <2>4, WorkerMoved DEF LateInv
  <2> QED
    BY <1>12, <2>1, <2>2, <2>5, LateKept DEF CollectFailure
<1>13. ASSUME NEW s \in Scopes, CollectResult(s)
     PROVE  LateInv'
  <2>1. slot = "organization"
    BY <1>13 DEF CollectResult, LateInv
  <2>2. RunShape' /\ run'.gen = run.gen
    BY <1>13 DEF CollectResult, LateInv, RunShape, Goto, Failing
  <2>3. [Off EXCEPT !.pc = "commit"] \in WorkerRow /\ [Off EXCEPT !.pc = "commit"].pc = "commit"
    BY DEF WorkerRow, WorkerPoints, Replies, Off, LateInv
  <2>4. wk' = [wk EXCEPT ![s] = [Off EXCEPT !.pc = "commit"]]
    BY <1>13 DEF CollectResult
  <2>5. /\ wk' \in [Scopes -> WorkerRow]
        /\ \A x \in Scopes : wk'[x].pc \in {"commit", wk[x].pc}
    BY <2>3, <2>4, WorkerMoved DEF LateInv
  <2> QED
    BY <1>13, <2>1, <2>2, <2>5, LateKept DEF CollectResult
<1>14. ASSUME NEW s \in Scopes, NEW slow \in BOOLEAN, Commit(s, slow)
     PROVE  LateInv'
  <2>1. slot = "organization"
    BY <1>14 DEF Commit, LateInv
  <2>2. RunShape' /\ run'.gen = run.gen
    BY <1>14 DEF Commit, LateInv, RunShape, Goto, Failing
  <2>3. Off \in WorkerRow /\ Off.pc = "off"
    BY DEF WorkerRow, WorkerPoints, Replies, Off, LateInv
  <2>4. wk' = [wk EXCEPT ![s] = Off]
    BY <1>14 DEF Commit
  <2>5. /\ wk' \in [Scopes -> WorkerRow]
        /\ \A x \in Scopes : wk'[x].pc \in {"off", wk[x].pc}
    BY <2>3, <2>4, WorkerMoved DEF LateInv
  <2> QED
    BY <1>14, <2>1, <2>2, <2>5, LateKept DEF Commit
<1>15. ASSUME CollectEnds
     PROVE  LateInv'
    BY <1>15 DEF CollectEnds, LateInv, RunShape, WorkerRow, Coordinator, OnlyRun, Goto,
        Failing, Off
<1>16. ASSUME Final
     PROVE  LateInv'
    BY <1>16 DEF Final, LateInv, RunShape, WorkerRow, Coordinator, OnlyRun, Goto, Failing, Off
<1>17. ASSUME Bridge
     PROVE  LateInv'
    BY <1>17 DEF Bridge, LateInv, RunShape, WorkerRow, Coordinator, OnlyRun, Goto, Failing, Off
<1>18. ASSUME Drain
     PROVE  LateInv'
    BY <1>18 DEF Drain, LateInv, RunShape, WorkerRow, Coordinator, OnlyRun, Goto, Failing, Off
<1>19. ASSUME AssembleRun
     PROVE  LateInv'
    BY <1>19 DEF AssembleRun, LateInv, RunShape, WorkerRow, Coordinator, OnlyRun, Goto,
        Failing, Off
<1>20. ASSUME Finish
     PROVE  LateInv'
    BY <1>20, LateEnds DEF Finish
<1>21. ASSUME NEW s \in Scopes, AwaitRepair(s)
     PROVE  LateInv'
  <2>1. Move(s, "enter") \/ Answer(s, "withdrawn")
    BY <1>21 DEF AwaitRepair
  <2>2. /\ wk' \in [Scopes -> WorkerRow]
        /\ \A x \in Scopes : wk'[x].pc \in {wk[x].pc, "enter", "done"}
    BY <2>1, MoveMoves, AnswerMoves DEF LateInv, WorkerPoints, Replies
  <2> QED
    BY <1>21, <2>2, LateKept DEF AwaitRepair, OnlyWorker, AtPoint, LateInv, RunShape
<1>22. ASSUME NEW s \in Scopes, Enter(s)
     PROVE  LateInv'
  <2>1. CASE Withdrawn \/ Answer(s, "error")
    <3>1. Answer(s, "withdrawn") \/ Answer(s, "error")
      BY <1>22, <2>1 DEF Enter
    <3>2. /\ wk' \in [Scopes -> WorkerRow]
          /\ \A x \in Scopes : wk'[x].pc \in {wk[x].pc, "done"}
      BY <3>1, AnswerMoves DEF LateInv, WorkerPoints, Replies
    <3> QED
      BY <1>22, <3>2, LateKept DEF Enter, OnlyWorker, AtPoint, LateInv, RunShape
  <2>2. CASE ~Withdrawn /\ Move(s, "guard")
    <3>1. /\ wk' \in [Scopes -> WorkerRow]
          /\ \A x \in Scopes : wk'[x].pc = IF x = s THEN "guard" ELSE wk[x].pc
      BY <2>2, MoveMoves DEF LateInv, WorkerPoints
    <3>2. ~cancelled /\ slot = "organization" /\ UNCHANGED <<authority, slot, run, cancelled, late>>
      BY <1>22, <2>2 DEF Enter, OnlyWorker, AtPoint, LateInv, Withdrawn
    <3> QED
      BY <3>1, <3>2 DEF LateInv, RunShape
  <2> QED
    BY <1>22, <2>1, <2>2 DEF Enter
<1>23. ASSUME NEW s \in Scopes, Guard(s)
     PROVE  LateInv'
  <2>1. /\ slot = "organization" /\ wk[s].pc = "guard"
        /\ UNCHANGED <<authority, slot, run, cancelled, late>>
    BY <1>23 DEF Guard, OnlyWorker, AtPoint, LateInv
  <2>2. CASE authority = run.gen /\ Move(s, "reserve")
    <3>1. /\ wk' \in [Scopes -> WorkerRow]
          /\ \A x \in Scopes : wk'[x].pc = IF x = s THEN "reserve" ELSE wk[x].pc
      BY <2>2, MoveMoves DEF LateInv, WorkerPoints
    <3> QED
      BY <2>1, <2>2, <3>1 DEF LateInv, RunShape
  <2>3. CASE Answer(s, "error")
    <3>1. /\ wk' \in [Scopes -> WorkerRow]
          /\ \A x \in Scopes : wk'[x].pc \in {wk[x].pc, "done"}
      BY <2>3, AnswerMoves DEF LateInv, WorkerPoints, Replies
    <3> QED
      BY <2>1, <3>1, LateKept DEF LateInv, RunShape
  <2> QED
    BY <1>23, <2>2, <2>3 DEF Guard
<1>24. ASSUME NEW s \in Scopes, Reserve(s)
     PROVE  LateInv'
  <2>1. /\ slot = "organization" /\ wk[s].pc = "reserve"
        /\ UNCHANGED <<authority, slot, run, cancelled>>
    BY <1>24 DEF Reserve, AtPoint, LateInv
  <2>2. CASE Admitted
    <3>1. /\ wk' \in [Scopes -> WorkerRow]
          /\ \A x \in Scopes : wk'[x].pc = IF x = s THEN "sent" ELSE wk[x].pc
      BY <1>24, <2>2, MoveMoves DEF LateInv, WorkerPoints, Reserve
    <3>2. late[s] = 0
      BY <2>1 DEF LateInv
    <3>3. late' = [late EXCEPT ![s] = IF cancelled THEN 1 ELSE 0]
      BY <1>24, <2>2, <3>2 DEF Reserve, LateInv
    <3>4. /\ late' \in [Scopes -> 0..1]
          /\ \A x \in Scopes : late'[x] = 1 => late[x] = 1 \/ (x = s /\ cancelled)
      BY <3>3 DEF LateInv
    <3> QED
      BY <2>1, <3>1, <3>4 DEF LateInv, RunShape
  <2>3. CASE ~Admitted
    <3>1. Answer(s, "withdrawn") /\ UNCHANGED <<late>>
      BY <1>24, <2>3 DEF Reserve
    <3>2. /\ wk' \in [Scopes -> WorkerRow]
          /\ \A x \in Scopes : wk'[x].pc \in {wk[x].pc, "done"}
      BY <3>1, AnswerMoves DEF LateInv, WorkerPoints, Replies
    <3> QED
      BY <2>1, <3>1, <3>2, LateKept DEF LateInv, RunShape
  <2> QED
    BY <2>2, <2>3
<1>25. ASSUME NEW s \in Scopes, NEW answer \in Answers, NEW report \in Reports, Respond(s, answer, report)
     PROVE  LateInv'
  <2>1. AfterAttempt(s, answer) \/ Answer(s, "error")
    BY <1>25 DEF Respond
  <2>2. /\ slot = "organization"
        /\ UNCHANGED <<authority, slot, run, cancelled, late>>
    BY <1>25 DEF Respond, AtPoint, LateInv
  <2>3. /\ wk' \in [Scopes -> WorkerRow]
        /\ \A x \in Scopes : wk'[x].pc = wk[x].pc \/ wk'[x].pc \in {"enter", "repair", "done"}
    BY <2>1, AfterAttemptMoves DEF LateInv
  <2> QED
    BY <2>2, <2>3, LateKept DEF LateInv, RunShape
<1>26. ASSUME NEW sel \in Selections, Prepare(sel)
     PROVE  LateInv'
    BY <1>26 DEF Prepare, LateInv, RunShape, WorkerRow
<1>27. ASSUME Start
     PROVE  LateInv'
  <2>1. CASE prepared.gen = authority /\ slot = "free"
    <3>1. RunShape' /\ slot' = "organization"
      BY <1>27, <2>1 DEF Start, RunShape, Resting
    <3> QED
      BY <1>27, <2>1, <3>1 DEF Start, LateInv
  <2>2. CASE ~(prepared.gen = authority /\ slot = "free")
    BY <1>27, <2>2 DEF Start, LateInv, RunShape
  <2> QED
    BY <2>1, <2>2
<1>28. ASSUME Cancel
     PROVE  LateInv'
    BY <1>28 DEF Cancel, LateInv, RunShape, WorkerRow
<1>29. ASSUME NEW s \in Scopes, NEW text \in Texts, Correct(s, text)
     PROVE  LateInv'
    BY <1>29 DEF Correct, LateInv, RunShape, WorkerRow, Reviewer
<1>30. ASSUME AssembleCorrection
     PROVE  LateInv'
    BY <1>30 DEF AssembleCorrection, LateInv, RunShape, WorkerRow, Reviewer
<1>31. ASSUME NEW a \in assemblies, Apply(a)
     PROVE  LateInv'
    BY <1>31 DEF Apply, LateInv, RunShape, WorkerRow, Reviewer
<1>32. ASSUME NEW a \in assemblies, Discard(a)
     PROVE  LateInv'
    BY <1>32 DEF Discard, LateInv, RunShape, WorkerRow, Reviewer
<1>33. ASSUME NEW g \in Generations, RefreshCopies(g)
     PROVE  LateInv'
    BY <1>33 DEF RefreshCopies, LateInv, RunShape, WorkerRow
<1>34. ASSUME RefreshReplaces
     PROVE  LateInv'
    BY <1>34 DEF RefreshReplaces, LateInv, RunShape, WorkerRow
<1>35. ASSUME RefreshGivesUp
     PROVE  LateInv'
    BY <1>35 DEF RefreshGivesUp, LateInv, RunShape, WorkerRow
<1>36. ASSUME Tick
     PROVE  LateInv'
    BY <1>36 DEF Tick, LateInv, RunShape, WorkerRow
<1>37. ASSUME Crash
     PROVE  LateInv'
    BY <1>37, LateEnds DEF Crash
<1>38. CASE UNCHANGED vars
    BY <1>38 DEF vars, runVars, LateInv, RunShape, WorkerRow
<1> QED
    BY <1>1, <1>2, <1>3, <1>4, <1>5, <1>6, <1>7, <1>8, <1>9, <1>10, <1>12, <1>13, <1>14,
        <1>15, <1>16, <1>17, <1>18, <1>19, <1>20, <1>21, <1>22, <1>23, <1>24, <1>25, <1>26,
        <1>27, <1>28, <1>29, <1>30, <1>31, <1>32, <1>33, <1>34, <1>35, <1>36, <1>37,
       <1>38
    DEF Next, CoordinatorStep, WorkerStep, UserStep, WorldStep

LEMMA LateInitially == Init => LateInv
<1> SUFFICES ASSUME Init PROVE LateInv
    OBVIOUS
<1>1. RunShape /\ wk \in [Scopes -> WorkerRow] /\ \A s \in Scopes : wk[s].pc = "off"
    BY RestingShaped DEF Init, RunShape
<1> QED
    BY <1>1, RestingShaped DEF Init, LateInv

\* After a cancellation a scope sends at most the one request that had passed its last check.
THEOREM LateIsBounded == Spec => []LateAtMostOnce
<1>1. LateInv => LateAtMostOnce
    BY DEF LateInv, LateAtMostOnce
<1> QED
    BY <1>1, LateInitially, LateInductive, PTL DEF Spec
-----------------------------------------------------------------------------
(* Rows. *)

Shaped(R) ==
    /\ DOMAIN R = Scopes
    /\ R = [s \in Scopes |-> R[s]]
    /\ \A s \in Scopes :
           R[s] = [status |-> R[s].status, gen |-> R[s].gen, input |-> R[s].input,
                   result |-> R[s].result, calls |-> R[s].calls]
RowsShape == Shaped(rows)

\* No row appears, vanishes or changes its generation.
SameRows ==
    \A x \in Scopes : Exists(x)' = Exists(x) /\ rows'[x].gen = rows[x].gen

\* A row is validated by this step only with a result that is cached.
NewlyCached ==
    \A x \in Scopes : rows'[x].status = "validated" =>
        \/ rows[x].status = "validated" /\ rows'[x].result = rows[x].result
        \/ rows'[x].result \in cache

LEMMA TransitionKeeps ==
    ASSUME RowsShape, NEW s, NEW status, NEW result, Transition(s, status, result),
           status # "absent", s \in Scopes => Exists(s),
           status = "validated" => result \in cache
    PROVE  RowsShape' /\ SameRows /\ NewlyCached
<1> DEFINE row == [status |-> status, gen |-> rows[s].gen, input |-> rows[s].input,
                   result |-> result, calls |-> rows[s].calls]
<1>1. CASE s \in Scopes
  <2>1. rows[s] = [status |-> rows[s].status, gen |-> rows[s].gen, input |-> rows[s].input,
                   result |-> rows[s].result, calls |-> rows[s].calls]
    BY <1>1 DEF RowsShape, Shaped
  <2>2. rows' = [rows EXCEPT ![s] = [rows[s] EXCEPT !.status = status, !.result = result]]
    BY DEF Transition
  <2>3. /\ DOMAIN rows' = Scopes
        /\ \A x \in Scopes : x # s => rows'[x] = rows[x]
        /\ rows'[s] = [rows[s] EXCEPT !.status = status, !.result = result]
    BY <1>1, <2>2 DEF RowsShape, Shaped
  <2>4. rows'[s] = row
    BY <2>1, <2>3
  <2>5. rows' = [x \in Scopes |-> rows'[x]]
    BY <2>2 DEF RowsShape, Shaped
  <2> HIDE DEF row
  <2>6. /\ row = [status |-> row.status, gen |-> row.gen, input |-> row.input,
                  result |-> row.result, calls |-> row.calls]
        /\ row.status = status /\ row.gen = rows[s].gen /\ row.result = result
    BY DEF row
  <2> QED
    BY <2>3, <2>4, <2>5, <2>6 DEF RowsShape, Shaped, SameRows, NewlyCached, Exists
<1>2. CASE s \notin Scopes
  <2>1. rows' = rows
    BY <1>2 DEF RowsShape, Shaped, Transition
  <2> QED
    BY <2>1 DEF RowsShape, Shaped, SameRows, NewlyCached, Exists
<1> QED
    BY <1>1, <1>2

\* Publishing needs a row, and leaves its generation alone.
LEMMA PublishKeeps ==
    ASSUME RowsShape, NEW s, NEW status, NEW result,
           Publishable(s, status), Publish(s, status, result), status # "absent",
           status = "validated" => result \in cache
    PROVE  RowsShape' /\ SameRows /\ NewlyCached
<1>1. CASE Settled(s, status)
  <2>1. rows' = rows
    BY <1>1 DEF Publish
  <2> QED
    BY <2>1 DEF RowsShape, Shaped, SameRows, NewlyCached, Exists
<1>2. CASE ~Settled(s, status)
  <2>1. Transition(s, status, result) /\ Allowed(s, status)
    BY <1>2 DEF Publish, Publishable
  <2>2. Exists(s)
    BY <2>1 DEF Allowed, Transitions, Exists
  <2> QED
    BY <2>1, <2>2, TransitionKeeps
<1> QED
    BY <1>1, <1>2

LEMMA SameKeeps ==
    ASSUME RowsShape, rows' = rows
    PROVE  RowsShape' /\ SameRows /\ NewlyCached
BY DEF RowsShape, Shaped, SameRows, NewlyCached, Exists

LEMMA RecordKeeps ==
    ASSUME RowsShape, NEW s \in Scopes, NEW n, RecordAttempt(s, n)
    PROVE  RowsShape' /\ SameRows /\ NewlyCached
<1>1. CASE rows' = [rows EXCEPT ![s].calls = @ + 1]
  <2> DEFINE row == [status |-> rows[s].status, gen |-> rows[s].gen, input |-> rows[s].input,
                     result |-> rows[s].result, calls |-> rows[s].calls + 1]
  <2>1. [rows[s] EXCEPT !.calls = @ + 1] = row
    BY DEF RowsShape, Shaped
  <2>2. rows' = [rows EXCEPT ![s] = row]
    BY <1>1, <2>1
  <2>4. DOMAIN rows' = Scopes /\ \A x \in Scopes : rows'[x] = IF x = s THEN row ELSE rows[x]
    BY <2>2 DEF RowsShape, Shaped
  <2>5. rows' = [x \in Scopes |-> rows'[x]]
    BY <2>2 DEF RowsShape, Shaped
  <2> HIDE DEF row
  <2>6. /\ row = [status |-> row.status, gen |-> row.gen, input |-> row.input,
                  result |-> row.result, calls |-> row.calls]
        /\ row.status = rows[s].status /\ row.gen = rows[s].gen /\ row.result = rows[s].result
    BY DEF row
  <2> QED
    BY <2>4, <2>5, <2>6 DEF RowsShape, Shaped, SameRows, NewlyCached, Exists
<1>2. CASE rows' = rows
    BY <1>2, SameKeeps
<1> QED
    BY <1>1, <1>2 DEF RecordAttempt

\* Registration: a row that stays keeps its result, and the rows are of one generation.
LEMMA RegisteredShape ==
    ASSUME RowsShape, NEW g, NEW sel, NEW input
    PROVE  /\ Shaped(RegisteredRows(g, sel, input))
           /\ \A x \in Scopes :
                /\ RegisteredRows(g, sel, input)[x].status = "validated" =>
                       /\ rows[x].status = "validated"
                       /\ RegisteredRows(g, sel, input)[x].result = rows[x].result
                /\ x \notin sel => RegisteredRows(g, sel, input)[x].status = "absent"
                /\ x \in sel => /\ RegisteredRows(g, sel, input)[x].status # "absent"
                                /\ RegisteredRows(g, sel, input)[x].gen = g
<1> DEFINE row(x) == IF x \in sel THEN RegisteredRow(g, x, input) ELSE NoRow
<1>1. RegisteredRows(g, sel, input) = [x \in Scopes |-> row(x)]
    BY DEF RegisteredRows
<1>2. ASSUME NEW x \in Scopes
      PROVE  /\ row(x) = [status |-> row(x).status, gen |-> row(x).gen, input |-> row(x).input,
                          result |-> row(x).result, calls |-> row(x).calls]
             /\ row(x).status = "validated" =>
                    rows[x].status = "validated" /\ row(x).result = rows[x].result
             /\ x \notin sel => row(x).status = "absent"
             /\ x \in sel => row(x).status # "absent" /\ row(x).gen = g
  <2>1. CASE x \in sel /\ Reusable(x, input)
    <3>1. row(x) = [status |-> rows[x].status, gen |-> g, input |-> rows[x].input,
                    result |-> rows[x].result, calls |-> rows[x].calls]
      BY <2>1 DEF RegisteredRow, RowsShape, Shaped
    <3> HIDE DEF row
    <3> QED
      BY <2>1, <3>1 DEF Reusable
  <2>2. CASE x \in sel /\ ~Reusable(x, input)
    <3>1. row(x) = [status |-> "pending", gen |-> g, input |-> input[x],
                    result |-> "none", calls |-> 0]
      BY <2>2 DEF RegisteredRow, NoRow
    <3> HIDE DEF row
    <3> QED
      BY <2>2, <3>1
  <2>3. CASE x \notin sel
    <3>1. row(x) = [status |-> "absent", gen |-> NoGeneration, input |-> NoInput,
                    result |-> "none", calls |-> 0]
      BY <2>3 DEF NoRow
    <3> HIDE DEF row
    <3> QED
      BY <2>3, <3>1
  <2> QED
    BY <2>1, <2>2, <2>3
<1> HIDE DEF row
<1>3. \A R : R = [x \in Scopes |-> row(x)] =>
          DOMAIN R = Scopes /\ R = [x \in Scopes |-> R[x]] /\ \A x \in Scopes : R[x] = row(x)
    OBVIOUS
<1>4. PICK R : R = RegisteredRows(g, sel, input)
    OBVIOUS
<1>5. DOMAIN R = Scopes /\ R = [x \in Scopes |-> R[x]] /\ \A x \in Scopes : R[x] = row(x)
    BY <1>1, <1>3, <1>4
<1>6. Shaped(R)
    BY <1>2, <1>5 DEF Shaped
<1>7. \A x \in Scopes :
          /\ R[x].status = "validated" =>
                 rows[x].status = "validated" /\ R[x].result = rows[x].result
          /\ x \notin sel => R[x].status = "absent"
          /\ x \in sel => R[x].status # "absent" /\ R[x].gen = g
    BY <1>2, <1>5
<1> QED
    BY <1>4, <1>6, <1>7

LEMMA RegisterKeeps ==
    ASSUME RowsShape, NEW g, NEW sel, NEW input, RegisterScopes(g, sel, input)
    PROVE  RowsShape' /\ NewlyCached
BY RegisteredShape DEF RegisterScopes, RowsShape, Shaped, NewlyCached

\* A worker leaves the coordinator, the cache and the generations of the rows alone.
LEMMA WorkerFrame ==
    ASSUME LateInv, RowsShape, NEW s \in Scopes, WorkerStep(s)
    PROVE  /\ RowsShape' /\ SameRows /\ NewlyCached
           /\ UNCHANGED <<run, cache, assemblies>>
           /\ \A x \in Scopes : wk'[x].pc = "commit" => wk[x].pc = "commit"
<1>1. CASE AwaitRepair(s) \/ Enter(s) \/ Guard(s) \/ Reserve(s)
  <2>1. /\ UNCHANGED <<rows, run, cache, assemblies>>
        /\ \/ \E pc \in {"enter", "guard", "reserve", "sent"} : Move(s, pc)
           \/ \E reply \in Replies : Answer(s, reply)
    BY <1>1 DEF AwaitRepair, Enter, Guard, Reserve, OnlyWorker, storeVars, Replies
  <2>2. \A x \in Scopes : wk'[x].pc = "commit" => wk[x].pc = "commit"
    BY <2>1, MoveMoves, AnswerMoves DEF LateInv, WorkerPoints
  <2> QED
    BY <2>1, <2>2, SameKeeps
<1>2. ASSUME NEW answer \in Answers, NEW report \in Reports, Respond(s, answer, report)
      PROVE  /\ RowsShape' /\ SameRows /\ NewlyCached
             /\ UNCHANGED <<run, cache, assemblies>>
             /\ \A x \in Scopes : wk'[x].pc = "commit" => wk[x].pc = "commit"
  <2>1. /\ UNCHANGED <<run, cache, assemblies>>
        /\ rows' = rows \/ RecordAttempt(s, ordinal[s])
        /\ AfterAttempt(s, answer) \/ Answer(s, "error")
    BY <1>2 DEF Respond
  <2>2. \A x \in Scopes : wk'[x].pc = "commit" => wk[x].pc = "commit"
    BY <2>1, AfterAttemptMoves DEF LateInv
  <2> QED
    BY <2>1, <2>2, SameKeeps, RecordKeeps
<1> QED
    BY <1>1, <1>2 DEF WorkerStep

-----------------------------------------------------------------------------
(* Validated answers are cached. *)

CacheInv ==
    /\ RowsShape
    /\ ValidatedIsCached
    /\ At("served") => IdentityOf(Min(Unseen)) \in cache
    /\ \A s \in Scopes : wk[s].pc = "commit" => IdentityOf(s) \in cache

\* The copy of a refresh is as sound as the store it was taken from.
AllCached(R, C) == \A s \in Scopes : R[s].status = "validated" => R[s].result \in C
StagedCached == slot = "refresh" => Shaped(staged.rows) /\ AllCached(staged.rows, staged.cache)

\* Only the start of a refresh makes a copy, and nothing changes it.
LEMMA StagedFrame ==
    ASSUME Next
    PROVE  \/ slot' # "refresh"
           \/ slot = "refresh" /\ staged' = staged
           \/ \E g \in Generations : RefreshCopies(g)
<1>1. CASE CoordinatorStep
    BY <1>1 DEF CoordinatorStep, OnlyRun, Coordinator, TaskEnds, Validate, Register, Replay,
        ReplayCached, ServeCached, ReplayEnds, Check, Launch, LaunchEnds, Wait, CollectFailure,
        CollectResult, Commit, CollectEnds, Final, Bridge, Drain, AssembleRun, Finish
<1>2. CASE \E s \in Scopes : WorkerStep(s)
    BY <1>2 DEF WorkerStep, OnlyWorker, AwaitRepair, Enter, Guard, Reserve, Respond
<1>3. CASE UserStep
    BY <1>3 DEF UserStep, Prepare, Start, Cancel, Correct, AssembleCorrection, Apply, Discard,
        Reviewer
<1>4. CASE WorldStep
    BY <1>4 DEF WorldStep, RefreshReplaces, RefreshGivesUp, Tick, Crash, TaskEnds
<1> QED
    BY <1>1, <1>2, <1>3, <1>4 DEF Next

LEMMA StagedCachedInductive == CacheInv /\ StagedCached /\ [Next]_vars => StagedCached'
<1> SUFFICES ASSUME CacheInv, StagedCached, Next
             PROVE  StagedCached'
    BY DEF vars, runVars, StagedCached
<1>1. ASSUME NEW g \in Generations, RefreshCopies(g)
      PROVE  StagedCached'
  <2>1. PICK R : R = RegisteredRows(g, Scopes, TechnicalInputs(g))
    OBVIOUS
  <2>2. staged'.rows = R /\ staged'.cache = cache
    BY <1>1, <2>1 DEF RefreshCopies, Refreshed
  <2>3. Shaped(R) /\ AllCached(R, cache)
    BY <2>1, RegisteredShape DEF CacheInv, ValidatedIsCached, AllCached
  <2> QED
    BY <2>2, <2>3 DEF StagedCached
<1> QED
    BY <1>1, StagedFrame DEF StagedCached

\* A step that validates nothing uncached and does not move towards a commit.
LEMMA CacheKept ==
    ASSUME CacheInv, RowsShape', NewlyCached, cache \subseteq cache', run'.gen = run.gen,
           run'.pc # "served",
           \A x \in Scopes : wk'[x].pc = "commit" => wk[x].pc = "commit"
    PROVE  CacheInv'
BY DEF CacheInv, ValidatedIsCached, NewlyCached, At, IdentityOf

\* So does one that leaves the coordinator alone.
LEMMA CacheApart ==
    ASSUME CacheInv, RowsShape', NewlyCached, cache' = cache, run' = run,
           \A x \in Scopes : wk'[x].pc = "commit" => wk[x].pc = "commit"
    PROVE  CacheInv'
BY DEF CacheInv, ValidatedIsCached, NewlyCached, At, IdentityOf, Unseen, Completed

LEMMA CacheEnds ==
    ASSUME CacheInv, TaskEnds, UNCHANGED storeVars
    PROVE  CacheInv'
<1>1. run'.pc # "served" /\ \A x \in Scopes : wk'[x].pc # "commit"
    BY RestingShaped DEF TaskEnds, Off
<1>2. RowsShape' /\ NewlyCached /\ cache' = cache
    BY SameKeeps DEF CacheInv, storeVars
<1> QED
    BY <1>1, <1>2 DEF CacheInv, ValidatedIsCached, NewlyCached, At

LEMMA CacheInductive == LateInv /\ CacheInv /\ StagedCached /\ [Next]_vars => CacheInv'
<1> SUFFICES ASSUME LateInv, CacheInv, StagedCached, [Next]_vars
             PROVE  CacheInv'
    OBVIOUS
<1> USE DEF At
<1>1. ASSUME Validate
     PROVE  CacheInv'
    BY <1>1, SameKeeps, CacheKept DEF Validate, CacheInv, LateInv, RunShape, OnlyRun,
        Coordinator, Goto, storeVars
<1>2. ASSUME Register
     PROVE  CacheInv'
  <2>1. RowsShape' /\ NewlyCached /\ cache' = cache /\ wk' = wk
    BY <1>2, RegisterKeeps DEF Register, CacheInv
  <2> QED
    BY <1>2, <2>1, CacheKept DEF Register, LateInv, RunShape, Goto
<1>3. ASSUME Replay
     PROVE  CacheInv'
    BY <1>3, SameKeeps, CacheKept DEF Replay, CacheInv, LateInv, RunShape, OnlyRun,
        Coordinator, Goto, storeVars
<1>4. ASSUME ReplayCached
     PROVE  CacheInv'
  <2>1. /\ cache' = cache /\ wk' = wk /\ run'.gen = run.gen /\ Unseen' = Unseen
        /\ IdentityOf(Min(Unseen)) \in cache
    BY <1>4 DEF ReplayCached, Coordinator, Failing, Goto, LateInv, RunShape, Unseen, Completed
  <2>2. RowsShape' /\ NewlyCached
    BY <1>4, SameKeeps, PublishKeeps DEF ReplayCached, CacheInv
  <2> QED
    BY <2>1, <2>2 DEF CacheInv, ValidatedIsCached, NewlyCached, IdentityOf
<1>5. ASSUME ServeCached
     PROVE  CacheInv'
  <2>1. /\ cache' = cache /\ wk' = wk /\ run'.gen = run.gen /\ run'.pc # "served"
    BY <1>5 DEF ServeCached, Coordinator, Failing, Goto, LateInv, RunShape
  <2>2. RowsShape' /\ NewlyCached
    BY <1>5, SameKeeps, PublishKeeps DEF ServeCached, CacheInv
  <2> QED
    BY <2>1, <2>2, CacheKept
<1>6. ASSUME ReplayEnds
     PROVE  CacheInv'
    BY <1>6, SameKeeps, CacheKept DEF ReplayEnds, CacheInv, LateInv, RunShape, OnlyRun,
        Coordinator, Goto, storeVars
<1>7. ASSUME Check
     PROVE  CacheInv'
    BY <1>7, SameKeeps, CacheKept DEF Check, CacheInv, LateInv, RunShape, OnlyRun, Coordinator,
        Goto, storeVars
<1>8. ASSUME Launch
     PROVE  CacheInv'
  <2>1. cache' = cache /\ run'.gen = run.gen /\ run'.pc # "served"
    BY <1>8 DEF Launch, Failing, Goto, LateInv, RunShape
  <2>2. RowsShape' /\ NewlyCached
    BY <1>8, SameKeeps, PublishKeeps DEF Launch, CacheInv
  <2>3. [Off EXCEPT !.pc = "enter"] \in WorkerRow /\ [Off EXCEPT !.pc = "enter"].pc = "enter"
    BY DEF WorkerRow, WorkerPoints, Replies, Off
  <2>4. wk' = [wk EXCEPT ![Min(run.pending)] = [Off EXCEPT !.pc = "enter"]] \/ wk' = wk
    BY <1>8 DEF Launch
  <2>5. \A x \in Scopes : wk'[x].pc = "commit" => wk[x].pc = "commit"
    BY <2>3, <2>4, WorkerMoved DEF LateInv
  <2> QED
    BY <2>1, <2>2, <2>5, CacheKept
<1>9. ASSUME LaunchEnds
     PROVE  CacheInv'
    BY <1>9, SameKeeps, CacheKept DEF LaunchEnds, CacheInv, LateInv, RunShape, OnlyRun,
        Coordinator, Goto, storeVars
<1>10. ASSUME Wait
     PROVE  CacheInv'
    BY <1>10, SameKeeps, CacheKept DEF Wait, CacheInv, LateInv, RunShape, OnlyRun, Coordinator,
        Goto, storeVars
<1>12. ASSUME NEW s \in Scopes, CollectFailure(s)
     PROVE  CacheInv'
  <2>1. cache' = cache /\ run'.gen = run.gen /\ run'.pc # "served"
    BY <1>12 DEF CollectFailure, Failing, Goto, LateInv, RunShape
  <2>2. RowsShape' /\ NewlyCached
    BY <1>12, SameKeeps, PublishKeeps DEF CollectFailure, CacheInv, FailureOutcome
  <2>3. Off \in WorkerRow /\ Off.pc = "off"
    BY DEF WorkerRow, WorkerPoints, Replies, Off
  <2>4. wk' = [wk EXCEPT ![s] = Off]
    BY <1>12 DEF CollectFailure
  <2>5. \A x \in Scopes : wk'[x].pc = "commit" => wk[x].pc = "commit"
    BY <2>3, <2>4, WorkerMoved DEF LateInv
  <2> QED
    BY <2>1, <2>2, <2>5, CacheKept
<1>13. ASSUME NEW s \in Scopes, CollectResult(s)
     PROVE  CacheInv'
  <2>1. /\ rows' = rows /\ run'.gen = run.gen /\ run'.pc # "served"
        /\ cache' = cache \cup {IdentityOf(s)}
    BY <1>13 DEF CollectResult, Goto, LateInv, RunShape
  <2>2. [Off EXCEPT !.pc = "commit"] \in WorkerRow
    BY DEF WorkerRow, WorkerPoints, Replies, Off
  <2>3. wk' = [wk EXCEPT ![s] = [Off EXCEPT !.pc = "commit"]]
    BY <1>13 DEF CollectResult
  <2>4. \A x \in Scopes : wk'[x].pc = "commit" => wk[x].pc = "commit" \/ x = s
    BY <2>2, <2>3, WorkerMoved DEF LateInv
  <2> QED
    BY <2>1, <2>4 DEF CacheInv, RowsShape, Shaped, ValidatedIsCached, IdentityOf
<1>14. ASSUME NEW s \in Scopes, NEW slow \in BOOLEAN, Commit(s, slow)
     PROVE  CacheInv'
  <2>1. cache' = cache /\ run'.gen = run.gen /\ run'.pc # "served"
    BY <1>14 DEF Commit, Failing, Goto, LateInv, RunShape
  <2>2. RowsShape' /\ NewlyCached
    BY <1>14, SameKeeps, PublishKeeps DEF Commit, CacheInv
  <2>3. Off \in WorkerRow /\ Off.pc = "off"
    BY DEF WorkerRow, WorkerPoints, Replies, Off
  <2>4. wk' = [wk EXCEPT ![s] = Off]
    BY <1>14 DEF Commit
  <2>5. \A x \in Scopes : wk'[x].pc = "commit" => wk[x].pc = "commit"
    BY <2>3, <2>4, WorkerMoved DEF LateInv
  <2> QED
    BY <2>1, <2>2, <2>5, CacheKept
<1>15. ASSUME CollectEnds
     PROVE  CacheInv'
    BY <1>15, SameKeeps, CacheKept DEF CollectEnds, CacheInv, LateInv, RunShape, OnlyRun,
        Coordinator, Goto, storeVars
<1>16. ASSUME Final
     PROVE  CacheInv'
    BY <1>16, SameKeeps, CacheKept DEF Final, CacheInv, LateInv, RunShape, OnlyRun,
        Coordinator, Goto, storeVars
<1>17. ASSUME Bridge
     PROVE  CacheInv'
  <2>1. /\ cache' = cache /\ wk' = wk /\ run'.gen = run.gen /\ run'.pc # "served"
    BY <1>17 DEF Bridge, Coordinator, Failing, Goto, LateInv, RunShape
  <2>2. RowsShape' /\ NewlyCached
    BY <1>17, SameKeeps, TransitionKeeps DEF Bridge, CacheInv, Exists
  <2> QED
    BY <2>1, <2>2, CacheKept
<1>18. ASSUME Drain
     PROVE  CacheInv'
  <2>1. /\ cache' = cache /\ wk' = wk /\ run'.gen = run.gen /\ run'.pc # "served"
    BY <1>18 DEF Drain, Coordinator, Failing, Goto, LateInv, RunShape
  <2>2. RowsShape' /\ NewlyCached
    BY <1>18, SameKeeps, PublishKeeps DEF Drain, CacheInv
  <2> QED
    BY <2>1, <2>2, CacheKept
<1>19. ASSUME AssembleRun
     PROVE  CacheInv'
  <2>1. /\ cache' = cache /\ wk' = wk /\ run'.gen = run.gen /\ run'.pc # "served"
    BY <1>19 DEF AssembleRun, Coordinator, Failing, Goto, LateInv, RunShape
  <2>2. RowsShape' /\ NewlyCached
    BY <1>19, SameKeeps, PublishKeeps DEF AssembleRun, CacheInv
  <2> QED
    BY <2>1, <2>2, CacheKept
<1>20. ASSUME Finish
     PROVE  CacheInv'
    BY <1>20, CacheEnds DEF Finish
<1>21. ASSUME NEW s \in Scopes, AwaitRepair(s)
     PROVE  CacheInv'
    BY <1>21, WorkerFrame, CacheApart DEF WorkerStep, CacheInv
<1>22. ASSUME NEW s \in Scopes, Enter(s)
     PROVE  CacheInv'
    BY <1>22, WorkerFrame, CacheApart DEF WorkerStep, CacheInv
<1>23. ASSUME NEW s \in Scopes, Guard(s)
     PROVE  CacheInv'
    BY <1>23, WorkerFrame, CacheApart DEF WorkerStep, CacheInv
<1>24. ASSUME NEW s \in Scopes, Reserve(s)
     PROVE  CacheInv'
    BY <1>24, WorkerFrame, CacheApart DEF WorkerStep, CacheInv
<1>25. ASSUME NEW s \in Scopes, NEW answer \in Answers, NEW report \in Reports, Respond(s, answer, report)
     PROVE  CacheInv'
    BY <1>25, WorkerFrame, CacheApart DEF WorkerStep, CacheInv
<1>26. ASSUME NEW sel \in Selections, Prepare(sel)
     PROVE  CacheInv'
    BY <1>26, SameKeeps, CacheApart DEF Prepare, CacheInv, Reviewer, storeVars
<1>27. ASSUME Start
     PROVE  CacheInv'
  <2>1. /\ UNCHANGED <<rows, cache, wk>>
        /\ run' = run \/ (slot = "free" /\ run'.pc = "validate")
    BY <1>27 DEF Start, storeVars, Resting
  <2>2. RowsShape' /\ NewlyCached
    BY <2>1, SameKeeps DEF CacheInv
  <2>3. CASE run' = run
    BY <2>1, <2>2, <2>3, CacheApart
  <2>4. CASE slot = "free" /\ run'.pc = "validate"
    BY <2>1, <2>2, <2>4 DEF CacheInv, ValidatedIsCached, NewlyCached, LateInv
  <2> QED
    BY <2>1, <2>3, <2>4
<1>28. ASSUME Cancel
     PROVE  CacheInv'
    BY <1>28, SameKeeps, CacheApart DEF Cancel, CacheInv, Reviewer, storeVars
<1>29. ASSUME NEW s \in Scopes, NEW text \in Texts, Correct(s, text)
     PROVE  CacheInv'
    BY <1>29, SameKeeps, CacheApart DEF Correct, CacheInv, Reviewer, storeVars
<1>30. ASSUME AssembleCorrection
     PROVE  CacheInv'
    BY <1>30, SameKeeps, CacheApart DEF AssembleCorrection, CacheInv, Reviewer, storeVars
<1>31. ASSUME NEW a \in assemblies, Apply(a)
     PROVE  CacheInv'
    BY <1>31, SameKeeps, CacheApart DEF Apply, CacheInv, Reviewer, storeVars
<1>32. ASSUME NEW a \in assemblies, Discard(a)
     PROVE  CacheInv'
    BY <1>32, SameKeeps, CacheApart DEF Discard, CacheInv, Reviewer, storeVars
<1>33. ASSUME NEW g \in Generations, RefreshCopies(g)
     PROVE  CacheInv'
    BY <1>33, SameKeeps, CacheApart DEF RefreshCopies, CacheInv, Reviewer, storeVars
<1>34. ASSUME RefreshReplaces
     PROVE  CacheInv'
  <2>1. /\ slot = "refresh" /\ UNCHANGED <<run, wk>>
        /\ rows' = staged.rows /\ cache' = staged.cache
    BY <1>34 DEF RefreshReplaces
  <2>2. run.pc = "idle" /\ \A x \in Scopes : wk[x].pc = "off"
    BY <2>1 DEF LateInv
  <2>3. Shaped(staged.rows) /\ AllCached(staged.rows, staged.cache)
    BY <2>1 DEF StagedCached
  <2>4. RowsShape' /\ ValidatedIsCached'
    BY <2>1, <2>3 DEF RowsShape, Shaped, AllCached, ValidatedIsCached
  <2> QED
    BY <2>1, <2>2, <2>4 DEF CacheInv
<1>35. ASSUME RefreshGivesUp
     PROVE  CacheInv'
    BY <1>35, SameKeeps, CacheApart DEF RefreshGivesUp, CacheInv, Reviewer, storeVars
<1>36. ASSUME Tick
     PROVE  CacheInv'
    BY <1>36, SameKeeps, CacheApart DEF Tick, CacheInv, Reviewer, storeVars
<1>37. ASSUME Crash
     PROVE  CacheInv'
    BY <1>37, CacheEnds DEF Crash
<1>38. CASE UNCHANGED vars
    BY <1>38, SameKeeps, CacheApart DEF vars, runVars, storeVars, CacheInv
<1> QED
    BY <1>1, <1>2, <1>3, <1>4, <1>5, <1>6, <1>7, <1>8, <1>9, <1>10, <1>12, <1>13, <1>14,
        <1>15, <1>16, <1>17, <1>18, <1>19, <1>20, <1>21, <1>22, <1>23, <1>24, <1>25, <1>26,
        <1>27, <1>28, <1>29, <1>30, <1>31, <1>32, <1>33, <1>34, <1>35, <1>36, <1>37, <1>38 DEF
        Next, CoordinatorStep, WorkerStep, UserStep, WorldStep

LEMMA CacheInitially == Init => CacheInv /\ StagedCached
<1> SUFFICES ASSUME Init PROVE CacheInv /\ StagedCached
    OBVIOUS
<1>1. RowsShape /\ \A s \in Scopes : rows[s].status = "absent"
    BY DEF Init, StoreInit, RowsShape, Shaped, NoRow
<1>2. run.pc = "idle" /\ \A s \in Scopes : wk[s].pc = "off"
    BY RestingShaped DEF Init
<1> QED
    BY <1>1, <1>2 DEF CacheInv, ValidatedIsCached, At, StagedCached, Init

\* The answer of a validated row is always in the cache, whatever crashes, refreshes and
\* cancellations come between: a row that is reset later is served without a call.
THEOREM ValidatedStaysCached == Spec => []ValidatedIsCached
<1>1. CacheInv => ValidatedIsCached
    BY DEF CacheInv
<1> QED
    BY <1>1, LateInitially, LateInductive, CacheInitially, CacheInductive, StagedCachedInductive, PTL DEF Spec
-----------------------------------------------------------------------------
(* Assemblies. *)

\* A prepared run, and the run of the task, select some scopes.
Selected ==
    /\ prepared = NoRun \/ prepared.sel \in Selections
    /\ At("idle") \/ run.sel \in Selections

LEMMA SelectedInductive == LateInv /\ Selected /\ [Next]_vars => Selected'
<1> SUFFICES ASSUME LateInv, Selected, [Next]_vars
             PROVE  Selected'
    OBVIOUS
<1> USE DEF At
<1>1. ASSUME run'.sel = run.sel, run.pc # "idle", prepared' = prepared
      PROVE  Selected'
    BY <1>1 DEF Selected
<1>2. ASSUME run' = run, prepared' = prepared
      PROVE  Selected'
    BY <1>2 DEF Selected
<1>3. ASSUME TaskEnds, prepared' \in {prepared, NoRun}
      PROVE  Selected'
    BY <1>3, RestingShaped DEF Selected, TaskEnds
<1>4. CASE CoordinatorStep
  <2>1. CASE Finish
    BY <1>3, <2>1 DEF Finish
  <2>2. CASE \/ Validate \/ Register \/ Replay \/ ReplayCached \/ ServeCached \/ ReplayEnds
             \/ Check \/ Launch \/ LaunchEnds \/ Wait
    <3>1. run'.sel = run.sel /\ run.pc # "idle" /\ prepared' = prepared
      BY <2>2
      DEF OnlyRun, Coordinator, Validate, Register, Replay, ReplayCached, ServeCached,
          ReplayEnds, Check, Launch, LaunchEnds, Wait, Goto, Failing, LateInv, RunShape
    <3> QED
      BY <1>1, <3>1
  <2>3. CASE CollectEnds \/ Final \/ Bridge \/ Drain \/ AssembleRun
    <3>1. run'.sel = run.sel /\ run.pc # "idle" /\ prepared' = prepared
      BY <2>3
      DEF OnlyRun, Coordinator, CollectEnds, Final, Bridge, Drain, AssembleRun, Goto, Failing,
          LateInv, RunShape
    <3> QED
      BY <1>1, <3>1
  <2>4. ASSUME NEW s \in Scopes, CollectFailure(s) \/ CollectResult(s)
        PROVE  Selected'
    <3>1. run'.sel = run.sel /\ run.pc # "idle" /\ prepared' = prepared
      BY <2>4 DEF CollectFailure, CollectResult, Goto, Failing, LateInv,
          RunShape
    <3> QED
      BY <1>1, <3>1
  <2>5. ASSUME NEW s \in Scopes, NEW slow \in BOOLEAN, Commit(s, slow)
        PROVE  Selected'
    <3>1. run'.sel = run.sel /\ run.pc # "idle" /\ prepared' = prepared
      BY <2>5 DEF Commit, Goto, Failing, LateInv, RunShape
    <3> QED
      BY <1>1, <3>1
  <2> QED
    BY <1>4, <2>1, <2>2, <2>3, <2>4, <2>5 DEF CoordinatorStep
<1>5. CASE \E s \in Scopes : WorkerStep(s)
    BY <1>2, <1>5 DEF WorkerStep, OnlyWorker, AwaitRepair, Enter, Guard, Reserve, Respond
<1>6. CASE UserStep
  <2>1. ASSUME NEW sel \in Selections, Prepare(sel)
        PROVE  Selected'
    BY <2>1 DEF Prepare, Selected
  <2>2. CASE Start
    <3>1. prepared' = NoRun /\ (run' = run \/ run'.sel = prepared.sel)
      BY <2>2 DEF Start, Resting
    <3> QED
      BY <2>2, <3>1 DEF Selected, Start
  <2> QED
    BY <1>2, <1>6, <2>1, <2>2
    DEF UserStep, Cancel, Correct, AssembleCorrection, Apply, Discard, Reviewer
<1>7. CASE WorldStep
    BY <1>2, <1>3, <1>7 DEF WorldStep, RefreshCopies, RefreshReplaces, RefreshGivesUp, Tick,
        Crash
<1>8. CASE UNCHANGED vars
    BY <1>2, <1>8 DEF vars, runVars
<1> QED
    BY <1>4, <1>5, <1>6, <1>7, <1>8 DEF Next

\* Rows appear, vanish and change generation in the registration of a run, or when a refreshed
\* copy replaces the store.
Registers ==
    \E sel \in Selections : \E g, input : RegisterScopes(g, sel, input)

LEMMA RegisterRegisters ==
    ASSUME Selected, Register
    PROVE  Registers
<1>1. RegisterScopes(run.gen, run.sel, Identity[run.gen]) /\ run.sel \in Selections
    BY DEF Register, Selected, At
<1> QED
    BY <1>1, Zenon DEF Registers

LEMMA RowsFrame ==
    ASSUME LateInv, CacheInv, Selected, Next
    PROVE  SameRows \/ Registers \/ RefreshReplaces
<1> USE DEF At
<1>1. ASSUME ReplayCached \/ ServeCached
      PROVE  SameRows
    BY <1>1, SameKeeps, PublishKeeps DEF ReplayCached, ServeCached, CacheInv
<1>2. ASSUME Launch
      PROVE  SameRows
    BY <1>2, SameKeeps, PublishKeeps DEF Launch, CacheInv
<1>3. ASSUME NEW s \in Scopes, CollectFailure(s)
      PROVE  SameRows
    BY <1>3, SameKeeps, PublishKeeps DEF CollectFailure, CacheInv, FailureOutcome
<1>4. ASSUME NEW s \in Scopes, NEW slow \in BOOLEAN, Commit(s, slow)
      PROVE  SameRows
    BY <1>4, SameKeeps, PublishKeeps DEF Commit, CacheInv
<1>5. ASSUME Drain
      PROVE  SameRows
    BY <1>5, SameKeeps, PublishKeeps DEF Drain, CacheInv
<1>6. ASSUME Bridge
      PROVE  SameRows
    BY <1>6, TransitionKeeps DEF Bridge, CacheInv, Exists
<1>7. CASE \E s \in Scopes : WorkerStep(s)
    BY <1>7, WorkerFrame DEF CacheInv
<1>8. ASSUME Register
      PROVE  Registers
    BY <1>8, RegisterRegisters
<1>10. ASSUME rows' = rows
       PROVE  SameRows
    BY <1>10 DEF SameRows, Exists
<1>11. CASE CoordinatorStep
    BY <1>1, <1>2, <1>3, <1>4, <1>5, <1>6, <1>8, <1>10, <1>11
    DEF CoordinatorStep, OnlyRun, storeVars, Validate, Replay, ReplayEnds, Check, LaunchEnds,
        Wait, CollectResult, CollectEnds, Final, AssembleRun, Finish
<1>12. CASE UserStep
    BY <1>10, <1>12
    DEF UserStep, storeVars, Prepare, Start, Cancel, Correct, AssembleCorrection, Apply, Discard
<1>13. CASE WorldStep
    BY <1>10, <1>13 DEF WorldStep, storeVars, RefreshCopies, RefreshGivesUp, Tick, Crash
<1> QED
    BY <1>7, <1>11, <1>12, <1>13 DEF Next

\* The ways an assembly appears or changes its status.
LEMMA AssembliesFrame ==
    ASSUME Selected, Next
    PROVE  \/ assemblies' = assemblies
           \/ rows' = rows /\ \E g : Assemblable(g) /\ Assemble(g)
           \/ rows' = rows /\ \E a \in assemblies : \E g : Readable(a, g) /\ ApplyAssembly(a, g)
           \/ rows' = rows /\ \E a \in assemblies : DiscardAssembly(a)
           \/ Registers
           \/ RefreshReplaces
<1> USE DEF At
<1>1. CASE CoordinatorStep
    BY <1>1, RegisterRegisters
    DEF CoordinatorStep, OnlyRun, Coordinator, storeVars, KeepsAssemblies, Validate, Register,
        Replay, ReplayCached, ServeCached, ReplayEnds, Check, Launch, LaunchEnds, Wait,
        CollectFailure, CollectResult, Commit, CollectEnds, Final, Bridge,
        Drain, AssembleRun, Finish
<1>2. CASE \E s \in Scopes : WorkerStep(s)
    BY <1>2 DEF WorkerStep, OnlyWorker, storeVars, AwaitRepair, Enter, Guard, Reserve, Respond
<1>3. CASE UserStep
  <2>1. ASSUME NEW a \in assemblies, Apply(a) \/ Discard(a)
        PROVE  /\ rows' = rows
               /\ \/ DiscardAssembly(a)
                  \/ \E g : Readable(a, g) /\ ApplyAssembly(a, g)
    BY <2>1 DEF Apply, Discard
  <2> QED
    BY <1>3, <2>1 DEF UserStep, storeVars, Prepare, Start, Cancel, Correct, AssembleCorrection
<1>4. CASE WorldStep
    BY <1>4 DEF WorldStep, storeVars, RefreshCopies, RefreshGivesUp, Tick, Crash
<1> QED
    BY <1>1, <1>2, <1>3, <1>4 DEF Next

\* The rows are of one generation, and so is every live assembly.
AssemblyInv ==
    /\ \A a \in assemblies : a = [payload |-> a.payload, status |-> a.status]
    /\ OneApplied
    /\ LiveIsCurrent
    /\ \A s, t \in Scopes : Exists(s) /\ Exists(t) => rows[s].gen = rows[t].gen
    /\ (\E a \in assemblies : Live(a)) => \E s \in Scopes : Exists(s)

\* The same of any rows and assemblies, and of the copy of a refresh.
Consistent(R, A) ==
    /\ \A a \in A : a = [payload |-> a.payload, status |-> a.status]
    /\ \A a, b \in A : a.status = "applied" /\ b.status = "applied"
                          /\ a.payload.gen = b.payload.gen => a = b
    /\ \A a \in A : Live(a) =>
           \A s \in Scopes : R[s].status # "absent" => R[s].gen = a.payload.gen
    /\ \A s, t \in Scopes :
           R[s].status # "absent" /\ R[t].status # "absent" => R[s].gen = R[t].gen
    /\ (\E a \in A : Live(a)) => \E s \in Scopes : R[s].status # "absent"
StagedConsistent == slot = "refresh" => Consistent(staged.rows, staged.assemblies)

\* Superseding keeps the payload of an assembly, and revives none.
LEMMA SupersedeKeeps ==
    ASSUME AssemblyInv, NEW dead, NEW b \in Supersede(dead)
    PROVE  /\ b = [payload |-> b.payload, status |-> b.status]
           /\ \/ b.status = "superseded"
              \/ b \in assemblies /\ b \notin dead
<1>1. PICK a \in assemblies :
          b = IF a \in dead THEN [a EXCEPT !.status = "superseded"] ELSE a
    BY DEF Supersede
<1>2. CASE a \in dead
  <2>1. a = [payload |-> a.payload, status |-> a.status]
    BY DEF AssemblyInv
  <2> QED
    BY <1>1, <1>2, <2>1
<1>3. CASE a \notin dead
    BY <1>1, <1>3 DEF AssemblyInv
<1> QED
    BY <1>2, <1>3

\* Registration outdates what is of another generation than the rows it leaves.
LEMMA RegisteredConsistent ==
    ASSUME RowsShape, AssemblyInv, NEW g, NEW input,
           NEW sel, sel \subseteq Scopes, sel # {}
    PROVE  Consistent(RegisteredRows(g, sel, input), Supersede(Outdated(g)))
<1>1. PICK R : R = RegisteredRows(g, sel, input)
    OBVIOUS
<1>2. PICK A : A = Supersede(Outdated(g))
    OBVIOUS
<1>3. /\ \A x \in Scopes : R[x].status # "absent" => R[x].gen = g
      /\ \E x \in Scopes : R[x].status # "absent"
    BY <1>1, RegisteredShape
<1>4. ASSUME NEW b \in A
      PROVE  /\ b = [payload |-> b.payload, status |-> b.status]
             /\ b.status = "superseded" \/ (b \in assemblies /\ b \notin Outdated(g))
    BY <1>2, SupersedeKeeps
<1>5. \A a, b \in A : a.status = "applied" /\ b.status = "applied"
                        /\ a.payload.gen = b.payload.gen => a = b
    BY <1>4 DEF AssemblyInv, OneApplied
<1>6. ASSUME NEW b \in A, Live(b)
      PROVE  b.payload.gen = g
  <2>1. b \in assemblies /\ b \notin Outdated(g)
    BY <1>4, <1>6 DEF Live
  <2>2. PICK s \in Scopes : Exists(s) /\ rows[s].gen = b.payload.gen
    BY <1>6, <2>1 DEF AssemblyInv, LiveIsCurrent
  <2> QED
    BY <2>1, <2>2 DEF Outdated
<1>7. Consistent(R, A)
    BY <1>3, <1>4, <1>5, <1>6 DEF Consistent
<1> QED
    BY <1>1, <1>2, <1>7

LEMMA StagedConsistentInductive ==
    CacheInv /\ AssemblyInv /\ StagedConsistent /\ [Next]_vars => StagedConsistent'
<1> SUFFICES ASSUME CacheInv, AssemblyInv, StagedConsistent, Next
             PROVE  StagedConsistent'
    BY DEF vars, runVars, StagedConsistent
<1>1. ASSUME NEW g \in Generations, RefreshCopies(g)
      PROVE  StagedConsistent'
  <2>1. /\ staged'.rows = RegisteredRows(g, Scopes, TechnicalInputs(g))
        /\ staged'.assemblies = Supersede(Outdated(g))
    BY <1>1 DEF RefreshCopies, Refreshed
  <2>2. Scopes # {}
    BY StoreAssumption
  <2>3. Consistent(RegisteredRows(g, Scopes, TechnicalInputs(g)), Supersede(Outdated(g)))
    BY <2>2, RegisteredConsistent DEF CacheInv
  <2> QED
    BY <2>1, <2>3 DEF StagedConsistent
<1> QED
    BY <1>1, StagedFrame DEF StagedConsistent

LEMMA AssemblyInductive ==
    /\ LateInv /\ CacheInv /\ Selected /\ AssemblyInv /\ StagedConsistent /\ [Next]_vars
    => AssemblyInv'
<1> SUFFICES ASSUME LateInv, CacheInv, Selected, AssemblyInv, StagedConsistent, [Next]_vars
             PROVE  AssemblyInv'
    OBVIOUS
<1>1. ASSUME SameRows, assemblies' = assemblies
      PROVE  AssemblyInv'
    BY <1>1 DEF AssemblyInv, OneApplied, LiveIsCurrent, Live, SameRows, Exists
<1>2. ASSUME rows' = rows, NEW g, Assemblable(g), Assemble(g)
      PROVE  AssemblyInv'
  <2>1. PICK s \in Scopes : Exists(s) /\ rows[s].gen = g
    BY <1>2 DEF Assemblable, ScopesOf
  <2>2. CASE assemblies' = assemblies
    BY <1>1, <1>2, <2>2 DEF SameRows, Exists
  <2>3. CASE assemblies' = assemblies \cup {[payload |-> PayloadOf(g), status |-> Draft]}
    <3> DEFINE new == [payload |-> PayloadOf(g), status |-> Draft]
    <3>1. new.payload.gen = g /\ new.status = "draft"
      BY DEF PayloadOf, Draft
    <3>2. \A t \in Scopes : Exists(t) => rows[t].gen = g
      BY <2>1 DEF AssemblyInv
    <3>3. new = [payload |-> new.payload, status |-> new.status]
      OBVIOUS
    <3> HIDE DEF new
    <3>4. assemblies' = assemblies \cup {new}
      BY <2>3 DEF new
    <3>5. OneApplied'
      BY <3>1, <3>4 DEF AssemblyInv, OneApplied
    <3>6. LiveIsCurrent'
      BY <1>2, <3>1, <3>2, <3>4 DEF AssemblyInv, LiveIsCurrent, Live, Exists
    <3> QED
      BY <1>2, <2>1, <3>3, <3>4, <3>5, <3>6 DEF AssemblyInv, Exists
  <2> QED
    BY <1>2, <2>2, <2>3 DEF Assemble
<1>3. ASSUME rows' = rows, NEW a \in assemblies, NEW g, Readable(a, g), ApplyAssembly(a, g)
      PROVE  AssemblyInv'
  <2> DEFINE new == [a EXCEPT !.status = "applied"]
  <2>1. a = [payload |-> a.payload, status |-> a.status]
    BY DEF AssemblyInv
  <2>2. /\ new = [payload |-> new.payload, status |-> new.status]
        /\ new.payload = a.payload /\ new.status = "applied"
    BY <2>1
  <2>3. a.payload.gen = g /\ Live(a)
    BY <1>3 DEF Readable
  <2> HIDE DEF new
  <2>4. assemblies' = (Supersede(Replaced(a, g)) \ {a}) \cup {new}
    BY <1>3 DEF ApplyAssembly, new
  <2>5. ASSUME NEW b \in assemblies', b # new
        PROVE  /\ b = [payload |-> b.payload, status |-> b.status]
               /\ \/ b.status = "superseded"
                  \/ b \in assemblies /\ b \notin Replaced(a, g) /\ b # a
    BY <2>4, <2>5, SupersedeKeeps
  <2>6. OneApplied'
    <3> SUFFICES ASSUME NEW b \in assemblies', NEW c \in assemblies',
                        b.status = "applied", c.status = "applied",
                        b.payload.gen = c.payload.gen
                 PROVE  b = c
      BY DEF OneApplied
    <3>1. ASSUME NEW d \in assemblies', d.status = "applied", d # new
          PROVE  d \in assemblies /\ d.payload.gen # g
      BY <2>5, <3>1 DEF Replaced
    <3> QED
      BY <2>2, <2>3, <3>1 DEF AssemblyInv, OneApplied
  <2>7. LiveIsCurrent'
    BY <1>3, <2>2, <2>3, <2>5 DEF AssemblyInv, LiveIsCurrent, Live, Exists
  <2> QED
    BY <1>3, <2>2, <2>3, <2>5, <2>6, <2>7 DEF AssemblyInv, Exists
<1>4. ASSUME rows' = rows, NEW a \in assemblies, DiscardAssembly(a)
      PROVE  AssemblyInv'
  <2>1. ASSUME NEW b \in assemblies'
        PROVE  /\ b = [payload |-> b.payload, status |-> b.status]
               /\ b.status = "superseded" \/ b \in assemblies
    BY <1>4, <2>1, SupersedeKeeps DEF DiscardAssembly
  <2>2. OneApplied'
    BY <2>1 DEF AssemblyInv, OneApplied
  <2>3. LiveIsCurrent'
    BY <1>4, <2>1 DEF AssemblyInv, LiveIsCurrent, Live, Exists
  <2> QED
    BY <1>4, <2>1, <2>2, <2>3 DEF AssemblyInv, Live, Exists
<1>5. ASSUME Consistent(rows', assemblies')
      PROVE  AssemblyInv'
    BY <1>5 DEF Consistent, AssemblyInv, OneApplied, LiveIsCurrent, Exists
<1>8. CASE Registers
  <2>1. PICK g, input : \E sel \in Selections : RegisterScopes(g, sel, input)
    BY <1>8, Zenon DEF Registers
  <2>2. PICK sel \in Selections : RegisterScopes(g, sel, input)
    BY <2>1
  <2>3. sel \subseteq Scopes /\ sel # {}
    BY RunAssumption
  <2>4. Consistent(RegisteredRows(g, sel, input), Supersede(Outdated(g)))
    BY <2>3, RegisteredConsistent DEF CacheInv
  <2> QED
    BY <1>5, <2>2, <2>4 DEF RegisterScopes
<1>9. CASE RefreshReplaces
    BY <1>5, <1>9 DEF RefreshReplaces, StagedConsistent
<1>6. CASE Next
  <2>1. CASE SameRows
    BY <1>1, <1>2, <1>3, <1>4, <1>6, <1>8, <1>9, <2>1, AssembliesFrame
  <2> QED
    BY <1>6, <1>8, <1>9, <2>1, RowsFrame
<1>7. CASE UNCHANGED vars
    BY <1>1, <1>7 DEF vars, storeVars, SameRows, Exists
<1> QED
    BY <1>6, <1>7

LEMMA AssemblyInitially == Init => Selected /\ AssemblyInv /\ StagedConsistent
<1> SUFFICES ASSUME Init PROVE Selected /\ AssemblyInv /\ StagedConsistent
    OBVIOUS
<1>1. Selected
    BY RestingShaped DEF Init, Selected, At
<1>2. assemblies = {} /\ \A s \in Scopes : ~Exists(s)
    BY DEF Init, StoreInit, NoRow, Exists
<1> QED
    BY <1>1, <1>2 DEF AssemblyInv, OneApplied, LiveIsCurrent, StagedConsistent, Init

\* Whatever runs, refreshes, corrections and crashes follow one another, at most one assembly
\* of a generation is applied, and live assemblies are of the generation that is registered.
THEOREM AssembliesStayCurrent == Spec => []AssembliesAreCurrent
<1>1. AssemblyInv => AssembliesAreCurrent
    BY DEF AssemblyInv, AssembliesAreCurrent
<1> QED
    BY <1>1, LateInitially, LateInductive, CacheInitially, CacheInductive, StagedCachedInductive, SelectedInductive,
       AssemblyInitially, AssemblyInductive, StagedConsistentInductive, PTL DEF Spec

-----------------------------------------------------------------------------
(* The schedule: where the coordinator has each selected scope, and what   *)
(* the row of the scope says.                                              *)

Preparing == {"idle", "validate", "register"}
Replaying == {"replay", "served"}
Looping == {"check", "launch", "wait", "collect", "commit"}
Ending == {"final", "drain", "finish"}

\* The row of a scope the replay has not reached is as registration left it.
Untouched(s) ==
    \/ rows[s].status = "pending"
    \/ rows[s].status = "validated" /\ rows[s].input = IdentityOf(s)

\* A selected scope is completed, pending, in flight or, while the replay goes on, not yet seen.
Placed(s) ==
    /\ s \in Completed => s \notin run.pending \cup InFlight /\ rows[s].status = run.outcome[s]
    /\ s \in run.pending => s \notin InFlight /\ rows[s].status \in {"pending", "in_flight"}
    /\ s \in InFlight => rows[s].status = "in_flight"
    /\ s \in Completed \cup run.pending \cup InFlight => s \in run.sel
    /\ s \in run.pending \cup InFlight => IdentityOf(s) \notin warm
    /\ s \in run.sel => Exists(s) /\ rows[s].gen = run.gen
    /\ s \in run.sel \ (Completed \cup run.pending \cup InFlight) =>
           /\ run.pc \in Replaying
           /\ IF At("served") /\ s = Min(Unseen) THEN rows[s].status = "cached"
              ELSE Untouched(s)

ScheduleInv ==
    /\ run.pc \in Preparing \cup Replaying \cup Looping \cup Ending
    /\ slot = "organization" => run.pc # "idle"
    /\ run.pc # "idle" => run.gen = authority
    /\ Completed \subseteq run.sel /\ run.pending \subseteq run.sel
    /\ run.pc \in Preparing => Completed = {} /\ run.pending = {}
    /\ run.pc \in Preparing \cup Replaying \cup Ending => InFlight = {}
    /\ run.pc \notin Preparing => warm \subseteq cache
    /\ run.pc \notin Preparing => \A s \in Scopes : Placed(s)
    /\ At("served") => Unseen # {}
    /\ run.pc \in {"collect", "commit"} => run.ready \subseteq InFlight
    /\ At("finish") => run.pending = {}

\* The first of some scopes is one of them.
LEMMA MinIsMember ==
    ASSUME NEW S, S \subseteq Scopes, S # {}
    PROVE  Min(S) \in S
<1>1. S \in SUBSET Nat
    BY StoreAssumption
<1>2. PICK x \in S : \A y \in S : ~(<<y, x>> \in OpToRel(<, Nat))
    BY <1>1, WFMin, NatLessThanWellFounded, Zenon
<1>3. ASSUME NEW y \in S
      PROVE  x <= y
  <2>1. ~(y < x)
    BY <1>1, <1>2, Zenon DEF OpToRel
  <2> QED
    BY <1>1, <2>1
<1> QED
    BY <1>3 DEF Min

\* What publishing does to the rows: one takes the status, the others stay.
Became(s, status) ==
    /\ rows'[s].status = status
    /\ \A x \in Scopes : rows'[x].gen = rows[x].gen
    /\ \A x \in Scopes \ {s} : rows'[x].status = rows[x].status /\ rows'[x].input = rows[x].input

LEMMA TransitionPlaces ==
    ASSUME RowsShape, NEW s \in Scopes, NEW status, NEW result, Transition(s, status, result)
    PROVE  Became(s, status)
<1>1. rows' = [rows EXCEPT ![s] = [rows[s] EXCEPT !.status = status, !.result = result]]
  <2>1. rows[s] = [status |-> rows[s].status, gen |-> rows[s].gen, input |-> rows[s].input,
                   result |-> rows[s].result, calls |-> rows[s].calls]
    BY DEF RowsShape, Shaped
  <2> QED
    BY <2>1 DEF Transition
<1>2. PICK row : row = [rows[s] EXCEPT !.status = status, !.result = result]
    OBVIOUS
<1>3. rows[s] = [status |-> rows[s].status, gen |-> rows[s].gen, input |-> rows[s].input,
                 result |-> rows[s].result, calls |-> rows[s].calls]
    BY DEF RowsShape, Shaped
<1>4. row.status = status /\ row.gen = rows[s].gen
    BY <1>2, <1>3
<1>5. rows'[s] = row /\ \A x \in Scopes \ {s} : rows'[x] = rows[x]
    BY <1>1, <1>2 DEF RowsShape, Shaped
<1> QED
    BY <1>4, <1>5 DEF Became

LEMMA PublishPlaces ==
    ASSUME RowsShape, NEW s \in Scopes, NEW status, NEW result, Publish(s, status, result)
    PROVE  Became(s, status)
<1>1. CASE Settled(s, status)
    BY <1>1 DEF Publish, Settled, Became
<1>2. CASE ~Settled(s, status)
    BY <1>2, TransitionPlaces DEF Publish
<1> QED
    BY <1>1, <1>2

\* A recorded attempt counts in the row, and changes nothing else of it.
SameStatuses ==
    \A x \in Scopes : /\ rows'[x].status = rows[x].status
                      /\ rows'[x].gen = rows[x].gen
                      /\ rows'[x].input = rows[x].input

LEMMA RecordPlaces ==
    ASSUME RowsShape, NEW s \in Scopes, NEW n, RecordAttempt(s, n)
    PROVE  SameStatuses
<1>1. CASE rows' = [rows EXCEPT ![s].calls = @ + 1]
  <2>1. rows[s] = [status |-> rows[s].status, gen |-> rows[s].gen, input |-> rows[s].input,
                   result |-> rows[s].result, calls |-> rows[s].calls]
    BY DEF RowsShape, Shaped
  <2>2. PICK row : row = [rows[s] EXCEPT !.calls = @ + 1]
    OBVIOUS
  <2>3. row.status = rows[s].status /\ row.gen = rows[s].gen /\ row.input = rows[s].input
    BY <2>1, <2>2
  <2>4. rows' = [rows EXCEPT ![s] = row]
    BY <1>1, <2>2
  <2>5. \A x \in Scopes : rows'[x] = IF x = s THEN row ELSE rows[x]
    BY <2>4 DEF RowsShape, Shaped
  <2> QED
    BY <2>3, <2>5 DEF SameStatuses
<1>2. CASE rows' = rows
    BY <1>2 DEF SameStatuses
<1> QED
    BY <1>1, <1>2 DEF RecordAttempt

\* Registration leaves every selected scope untouched.
LEMMA RegisteredUntouched ==
    ASSUME RowsShape, NEW g, NEW sel, NEW input, NEW x \in Scopes, x \in sel
    PROVE  \/ RegisteredRows(g, sel, input)[x].status = "pending"
           \/ /\ RegisteredRows(g, sel, input)[x].status = "validated"
              /\ RegisteredRows(g, sel, input)[x].input = input[x]
<1>1. RegisteredRows(g, sel, input)[x] = RegisteredRow(g, x, input)
    BY DEF RegisteredRows
<1>2. CASE Reusable(x, input)
  <2>1. rows[x] = [status |-> rows[x].status, gen |-> rows[x].gen, input |-> rows[x].input,
                   result |-> rows[x].result, calls |-> rows[x].calls]
    BY DEF RowsShape, Shaped
  <2>2. PICK row : row = [rows[x] EXCEPT !.gen = g]
    OBVIOUS
  <2>3. row.status = "validated" /\ row.input = input[x]
    BY <1>2, <2>1, <2>2 DEF Reusable
  <2> QED
    BY <1>1, <1>2, <2>2, <2>3 DEF RegisteredRow
<1>3. CASE ~Reusable(x, input)
  <2>1. PICK row : row = [NoRow EXCEPT !.status = "pending", !.gen = g, !.input = input[x]]
    OBVIOUS
  <2>2. row.status = "pending"
    BY <2>1 DEF NoRow
  <2> QED
    BY <1>1, <1>3, <2>1, <2>2 DEF RegisteredRow
<1> QED
    BY <1>2, <1>3

\* A step that leaves the coordinator, the workers' places and the rows' statuses alone.
LEMMA ScheduleApart ==
    ASSUME ScheduleInv, SameStatuses, UNCHANGED <<run, authority, warm, cache>>,
           slot' = slot, InFlight' = InFlight
    PROVE  ScheduleInv'
<1>1. Completed' = Completed /\ Unseen' = Unseen
    BY DEF Completed, Unseen
<1>2. ASSUME NEW x \in Scopes, Placed(x)
      PROVE  Placed(x)'
    BY <1>1, <1>2 DEF Placed, SameStatuses, Untouched, IdentityOf, At, Exists
<1> QED
    BY <1>1, <1>2 DEF ScheduleInv, At

\* The coordinator goes on, with every scope where it was.
Goes(pcs) ==
    /\ run'.pc \in pcs
    /\ run'.gen = run.gen /\ run'.sel = run.sel
    /\ UNCHANGED <<authority, slot, warm>>

LEMMA ScheduleGoesOn ==
    ASSUME ScheduleInv, Goes(Looping \cup Ending), UNCHANGED <<rows, wk>>,
           cache \subseteq cache', run'.pending = run.pending, run'.outcome = run.outcome,
           run.pc \in Replaying \cup Looping \cup Ending, Unseen \subseteq InFlight,
           run'.pc \in Ending => InFlight = {},
           run'.pc \in {"collect", "commit"} => run'.ready \subseteq InFlight,
           run'.pc = "finish" => run.pending = {}
    PROVE  ScheduleInv'
<1>1. Completed' = Completed /\ Unseen' = Unseen /\ InFlight' = InFlight
    BY DEF Completed, Unseen, Goes, InFlight
<1>2. ASSUME NEW x \in Scopes, Placed(x)
      PROVE  Placed(x)'
    BY <1>1, <1>2 DEF Placed, Goes, IdentityOf, At, Exists, Unseen
<1>3. \A x \in Scopes : Placed(x)'
    BY <1>2 DEF ScheduleInv, Preparing, Replaying, Looping, Ending
<1>4. run.pc # "idle" /\ warm \subseteq cache
    BY DEF ScheduleInv, Preparing, Replaying, Looping, Ending
<1>5. /\ run'.pc \notin Preparing \cup Replaying
      /\ run'.pc \in Looping \cup Ending
      /\ run'.pc # "served" /\ run'.pc # "idle"
    BY DEF Goes, Preparing, Replaying, Looping, Ending
<1> QED
    BY <1>1, <1>3, <1>4, <1>5 DEF ScheduleInv, At, Goes

\* When the task ends nothing is scheduled.
LEMMA ScheduleEnds ==
    ASSUME run'.pc \in Preparing, slot' = "organization" => run'.pc # "idle",
           run'.pc # "idle" => run'.gen = authority',
           run'.outcome = <<>>, run'.pending = {}, \A x \in Scopes : wk'[x].pc = "off"
    PROVE  ScheduleInv'
<1>1. Completed' = {} /\ InFlight' = {}
    BY DEF Completed, InFlight
<1> QED
    BY <1>1 DEF ScheduleInv, Preparing, Replaying, Looping, Ending, At

\* Outside Replaying every selected scope has been seen.
LEMMA AllSeen ==
    ASSUME Selected, ScheduleInv, run.pc \in Looping \cup Ending
    PROVE  Unseen \subseteq InFlight
<1>1. run.sel \subseteq Scopes
    BY RunAssumption DEF Selected, At, Looping, Ending
<1>2. \A x \in Scopes : Placed(x)
    BY DEF ScheduleInv, Preparing, Looping, Ending
<1>3. run.pc \notin Replaying
    BY DEF Replaying, Looping, Ending
<1> QED
    BY <1>1, <1>2, <1>3 DEF Placed, Unseen

\* A scope is completed: its row has the outcome, and it is neither pending nor in flight.
LEMMA PlacedCompletes ==
    ASSUME ScheduleInv, run.pc \notin Preparing, NEW s \in run.sel, NEW status,
           Goes({"replay"} \cup Looping \cup Ending), Became(s, status), status # "absent",
           run'.outcome = Completing(s, status), run'.pending = run.pending \ {s},
           InFlight' = InFlight \ {s}, s \in Scopes,
           \A x \in Unseen \ (InFlight \cup {s}) : run'.pc = "replay" /\ Untouched(x)
    PROVE  \A x \in Scopes : Placed(x)'
<1>1. Completed' = Completed \cup {s} /\ run'.outcome[s] = status
      /\ \A x \in Completed : x # s => run'.outcome[x] = run.outcome[x]
    BY DEF Completed, Completing
<1>2. \A x \in Scopes : Placed(x)
    BY DEF ScheduleInv
<1>3. run'.pc # "served" /\ ("replay" \in Replaying)
    BY DEF Goes, Looping, Ending, Replaying
<1>4. Placed(s)'
    BY <1>1, <1>2, <1>3 DEF Placed, Goes, Became, Exists
<1>5. ASSUME NEW x \in Scopes, x # s
      PROVE  Placed(x)'
  <2>1. /\ rows'[x].status = rows[x].status /\ rows'[x].input = rows[x].input
        /\ rows'[x].gen = rows[x].gen
    BY <1>5 DEF Became
  <2>2. IdentityOf(x)' = IdentityOf(x) /\ warm' = warm
    BY DEF Goes, IdentityOf
  <2>3. Untouched(x)' = Untouched(x)
    BY <2>1, <2>2 DEF Untouched
  <2>4. x \in run.sel \ (Completed \cup run.pending \cup InFlight) =>
            run'.pc = "replay" /\ Untouched(x)
    BY <1>5 DEF Unseen
  <2>5. Placed(x)
    BY <1>2
  <2> QED
    BY <1>1, <1>3, <1>5, <2>1, <2>2, <2>3, <2>4, <2>5 DEF Placed, Goes, Exists, At
<1> QED
    BY <1>4, <1>5

LEMMA ScheduleCompletes ==
    ASSUME ScheduleInv, run.pc \notin Preparing, NEW s \in run.sel, NEW status,
           Goes({"replay"} \cup Looping \cup Ending), Became(s, status), status # "absent",
           run'.outcome = Completing(s, status), run'.pending = run.pending \ {s},
           InFlight' = InFlight \ {s}, s \in Scopes, cache' = cache,
           \A x \in Unseen \ (InFlight \cup {s}) : run'.pc = "replay" /\ Untouched(x),
           run'.pc \in Ending \cup {"replay"} => InFlight = {},
           run'.pc # "finish",
           run'.pc \in {"collect", "commit"} => run'.ready \subseteq InFlight \ {s}
    PROVE  ScheduleInv'
<1>1. \A x \in Scopes : Placed(x)'
    BY PlacedCompletes
<1>2. Completed' = Completed \cup {s}
    BY DEF Completed, Completing
<1>3. run.pc # "idle" /\ warm \subseteq cache
    BY DEF ScheduleInv, Preparing
<1>4. /\ run'.pc \notin Preparing /\ run'.pc # "served" /\ run'.pc # "idle"
      /\ run'.pc \in Replaying \cup Looping \cup Ending
      /\ run'.pc \in Replaying => run'.pc = "replay"
    BY DEF Goes, Preparing, Replaying, Looping, Ending
<1> QED
    BY <1>1, <1>2, <1>3, <1>4 DEF ScheduleInv, At, Goes

\* What the coordinator knows in every phase past the registration.
LEMMA Phases ==
    ASSUME ScheduleInv, Selected, LateInv, run.pc \in Replaying \cup Looping \cup Ending
    PROVE  /\ run.pc \notin Preparing /\ slot = "organization" /\ run.sel \in Selections
           /\ run.sel \subseteq Scopes /\ run.sel # {}
           /\ \A x \in Scopes : Placed(x)
<1>1. run.pc \notin Preparing
    BY DEF Preparing, Replaying, Looping, Ending
<1>2. run.sel \in Selections /\ slot = "organization"
    BY <1>1 DEF Selected, LateInv, Preparing, At
<1> QED
    BY <1>1, <1>2, RunAssumption DEF ScheduleInv

\* The first unseen scope.
LEMMA FirstUnseen ==
    ASSUME ScheduleInv, Selected, LateInv, run.pc \in Replaying, Unseen # {}
    PROVE  /\ Min(Unseen) \in Unseen /\ Min(Unseen) \in Scopes /\ InFlight = {}
           /\ \A x \in Unseen : x # Min(Unseen) => Untouched(x)
           /\ At("replay") => Untouched(Min(Unseen))
           /\ At("served") => rows[Min(Unseen)].status = "cached"
<1>1. Unseen \subseteq Scopes
    BY Phases DEF Unseen
<1>2. Min(Unseen) \in Unseen
    BY <1>1, MinIsMember
<1>3. InFlight = {} /\ \A x \in Scopes : Placed(x)
    BY Phases DEF ScheduleInv
<1>4. ASSUME NEW x \in Unseen
      PROVE  IF At("served") /\ x = Min(Unseen) THEN rows[x].status = "cached" ELSE Untouched(x)
    BY <1>1, <1>3, <1>4 DEF Placed, Unseen
<1> QED
    BY <1>1, <1>2, <1>3, <1>4 DEF At

LEMMA ReplaySchedules ==
    ASSUME ScheduleInv, Selected, LateInv, CacheInv, Replay
    PROVE  ScheduleInv'
<1>1. run.pc = "replay" /\ Unseen # {} /\ run.pc \in Replaying
    BY DEF Replay, At, Replaying
<1>2. PICK s : s = Min(Unseen)
    OBVIOUS
<1>3. /\ s \in Unseen /\ s \in Scopes /\ InFlight = {} /\ Untouched(s)
      /\ \A x \in Unseen : x # s => Untouched(x)
    BY <1>1, <1>2, FirstUnseen DEF At
<1>4. UNCHANGED <<authority, slot, warm, rows, wk, cache>>
    BY DEF Replay, OnlyRun, Coordinator, storeVars
<1>5. InFlight' = InFlight
    BY <1>4 DEF InFlight
<1>6. s \in run.sel /\ s \notin Completed /\ s \notin run.pending
    BY <1>3 DEF Unseen
<1>7. CASE rows[s].status = "validated" /\ rows[s].input = IdentityOf(s)
  <2>1. run' = [run EXCEPT !.outcome = Completing(s, "validated")]
    BY <1>2, <1>7 DEF Replay
  <2>2. /\ run'.pc = "replay" /\ run'.gen = run.gen /\ run'.sel = run.sel
        /\ run'.pending = run.pending /\ run'.outcome = Completing(s, "validated")
    BY <1>1, <2>1 DEF LateInv, RunShape
  <2>3. Goes({"replay"} \cup Looping \cup Ending)
    BY <1>4, <2>2 DEF Goes
  <2>4. Became(s, "validated")
    BY <1>4, <1>7 DEF Became
  <2> QED
    BY <1>1, <1>3, <1>4, <1>5, <1>6, <2>2, <2>3, <2>4, Phases, ScheduleCompletes DEF Ending
<1>8. CASE ~(rows[s].status = "validated" /\ rows[s].input = IdentityOf(s))
  <2>1. /\ run' = [run EXCEPT !.pending = run.pending \cup {s}]
        /\ IdentityOf(s) \notin cache
    BY <1>2, <1>8 DEF Replay
  <2>2. /\ run'.pc = "replay" /\ run'.gen = run.gen /\ run'.sel = run.sel
        /\ run'.pending = run.pending \cup {s} /\ run'.outcome = run.outcome
    BY <1>1, <2>1 DEF LateInv, RunShape
  <2>3. rows[s].status = "pending"
    BY <1>3, <1>8 DEF Untouched
  <2>4. warm \subseteq cache /\ \A x \in Scopes : Placed(x)
    BY <1>1, Phases DEF ScheduleInv
  <2>5. Completed' = Completed
    BY <2>2 DEF Completed
  <2>6. ASSUME NEW x \in Scopes
        PROVE  Placed(x)'
    <3>1. Untouched(x)' = Untouched(x) /\ IdentityOf(x)' = IdentityOf(x) /\ Exists(x)' = Exists(x)
      BY <1>4, <2>2 DEF Untouched, IdentityOf, Exists
    <3>2. x \in Unseen => Untouched(x)
      BY <1>3
    <3>3. Placed(x)
      BY <2>4
    <3> QED
      BY <1>1, <1>3, <1>4, <1>5, <1>6, <2>1, <2>2, <2>3, <2>4, <2>5, <3>1, <3>2, <3>3
      DEF Placed, At, Unseen, Replaying
  <2> QED
    BY <1>1, <1>3, <1>4, <1>5, <1>6, <2>2, <2>4, <2>5, <2>6
    DEF ScheduleInv, At, Preparing, Replaying
<1> QED
    BY <1>7, <1>8

\* The first unseen scope is cached: its row takes the event, and is served next.
LEMMA ReplayCachedSchedules ==
    ASSUME ScheduleInv, Selected, LateInv, CacheInv, ReplayCached
    PROVE  ScheduleInv'
<1>1. run.pc = "replay" /\ Unseen # {} /\ run.pc \in Replaying
    BY DEF ReplayCached, At, Replaying
<1>2. PICK s : s = Min(Unseen)
    OBVIOUS
<1>3. /\ s \in Unseen /\ s \in Scopes /\ InFlight = {} /\ Untouched(s)
      /\ \A x \in Unseen : x # s => Untouched(x)
    BY <1>1, <1>2, FirstUnseen DEF At
<1>4. UNCHANGED <<authority, slot, warm, wk, cache>>
    BY DEF ReplayCached, Coordinator
<1>5. rows[s].status = "pending"
    BY <1>2, <1>3 DEF Untouched, ReplayCached
<1>6. Publishable(s, "cached")
    BY <1>5 DEF Publishable, Allowed, Transitions
<1>7. Publish(s, "cached", "none") /\ run' = [run EXCEPT !.pc = "served"]
    BY <1>2, <1>6 DEF ReplayCached, Goto
<1>8. Became(s, "cached")
    BY <1>3, <1>7, PublishPlaces DEF CacheInv
<1>9. /\ run'.pc = "served" /\ run'.gen = run.gen /\ run'.sel = run.sel
      /\ run'.pending = run.pending /\ run'.outcome = run.outcome
    BY <1>7 DEF LateInv, RunShape
<1>10. Completed' = Completed /\ Unseen' = Unseen /\ InFlight' = InFlight
    BY <1>4, <1>9 DEF Completed, Unseen, InFlight
<1>11. warm \subseteq cache /\ \A x \in Scopes : Placed(x)
    BY <1>1, Phases DEF ScheduleInv
<1>12. ASSUME NEW x \in Scopes
       PROVE  Placed(x)'
  <2>1. IdentityOf(x)' = IdentityOf(x) /\ Placed(x)
    BY <1>9, <1>11 DEF IdentityOf
  <2>2. CASE x = s
    BY <1>2, <1>3, <1>4, <1>8, <1>9, <1>10, <2>1, <2>2
    DEF Placed, Became, Exists, At, Unseen, Replaying
  <2>3. CASE x # s
    <3>1. Untouched(x)' = Untouched(x) /\ Exists(x)' = Exists(x)
      BY <1>8, <2>1, <2>3 DEF Became, Untouched, Exists
    <3>2. x \in Unseen => Untouched(x)
      BY <1>3, <2>3
    <3>3. /\ rows'[x].status = rows[x].status /\ rows'[x].gen = rows[x].gen
      BY <1>8, <2>3 DEF Became
    <3>4. x \in run.sel \ (Completed \cup run.pending \cup InFlight) => x \in Unseen
      BY DEF Unseen
    <3>5. run'.pc \in Replaying /\ ~(x = Min(Unseen'))
      BY <1>2, <1>9, <1>10, <2>3 DEF Replaying
    <3> QED
      BY <1>3, <1>4, <1>9, <1>10, <2>1, <3>1, <3>2, <3>3, <3>4, <3>5 DEF Placed
  <2> QED
    BY <2>2, <2>3
<1> QED
    BY <1>1, <1>3, <1>4, <1>9, <1>10, <1>11, <1>12
    DEF ScheduleInv, At, Preparing, Replaying, Ending, Looping

LEMMA ServeCachedSchedules ==
    ASSUME ScheduleInv, Selected, LateInv, CacheInv, ServeCached
    PROVE  ScheduleInv'
<1>1. run.pc = "served" /\ Unseen # {} /\ run.pc \in Replaying
    BY DEF ServeCached, At, Replaying, ScheduleInv
<1>2. PICK s : s = Min(Unseen)
    OBVIOUS
<1>3. /\ s \in Unseen /\ s \in Scopes /\ InFlight = {} /\ rows[s].status = "cached"
      /\ \A x \in Unseen : x # s => Untouched(x)
    BY <1>1, <1>2, FirstUnseen DEF At
<1>4. UNCHANGED <<authority, slot, warm, wk, cache>>
    BY DEF ServeCached, Coordinator
<1>5. Publishable(s, "validated")
    BY <1>3 DEF Publishable, Allowed, Transitions
<1>6. /\ Publish(s, "validated", IdentityOf(s))
      /\ run' = [run EXCEPT !.pc = "replay", !.outcome = Completing(s, "validated")]
    BY <1>2, <1>5 DEF ServeCached
<1>7. Became(s, "validated")
    BY <1>3, <1>6, PublishPlaces DEF CacheInv
<1>8. /\ run'.pc = "replay" /\ run'.gen = run.gen /\ run'.sel = run.sel
      /\ run'.pending = run.pending /\ run'.outcome = Completing(s, "validated")
    BY <1>6 DEF LateInv, RunShape
<1>9. InFlight' = InFlight \ {s} /\ run.pending = run.pending \ {s} /\ s \in run.sel
    BY <1>3, <1>4 DEF InFlight, Unseen
<1>10. Goes({"replay"} \cup Looping \cup Ending)
    BY <1>4, <1>8 DEF Goes
<1> QED
    BY <1>1, <1>3, <1>4, <1>7, <1>8, <1>9, <1>10, Phases, ScheduleCompletes DEF Ending

LEMMA RegisterSchedules ==
    ASSUME ScheduleInv, Selected, LateInv, CacheInv, Register
    PROVE  ScheduleInv'
<1>1. run.pc = "register" /\ run.pc \in Preparing
    BY DEF Register, At, Preparing
<1>2. /\ Completed = {} /\ run.pending = {} /\ InFlight = {} /\ run.gen = authority
      /\ run.sel \subseteq Scopes
    BY <1>1, RunAssumption DEF ScheduleInv, Selected, At
<1>3. PICK R : R = RegisteredRows(run.gen, run.sel, Identity[run.gen])
    OBVIOUS
<1>4. /\ rows' = R /\ warm' = cache /\ cache' = cache /\ UNCHANGED <<authority, slot, wk>>
      /\ run' = [run EXCEPT !.pc = "replay"]
    BY <1>3 DEF Register, RegisterScopes, Goto
<1>5. /\ run'.pc = "replay" /\ run'.gen = run.gen /\ run'.sel = run.sel
      /\ run'.pending = {} /\ run'.outcome = run.outcome
    BY <1>2, <1>4 DEF LateInv, RunShape
<1>6. Completed' = {} /\ InFlight' = {}
    BY <1>2, <1>4, <1>5 DEF Completed, InFlight
<1>7. ASSUME NEW x \in Scopes, x \in run.sel
      PROVE  Exists(x)' /\ rows'[x].gen = run.gen /\ Untouched(x)'
  <2>1. R[x].status # "absent" /\ R[x].gen = run.gen
    BY <1>3, <1>7, RegisteredShape DEF CacheInv
  <2>2. \/ R[x].status = "pending"
        \/ R[x].status = "validated" /\ R[x].input = Identity[run.gen][x]
    BY <1>3, <1>7, RegisteredUntouched DEF CacheInv
  <2> QED
    BY <1>4, <1>5, <2>1, <2>2 DEF Exists, Untouched, IdentityOf
<1>8. \A x \in Scopes : Placed(x)'
    BY <1>5, <1>6, <1>7 DEF Placed, Replaying, At
<1> QED
    BY <1>1, <1>2, <1>4, <1>5, <1>6, <1>8 DEF ScheduleInv, At, Preparing, Replaying, Looping, Ending

\* A pending scope is launched: its row is in flight, and a worker has it.
LEMMA LaunchSchedules ==
    ASSUME ScheduleInv, Selected, LateInv, CacheInv, Launch
    PROVE  ScheduleInv'
<1>1. run.pc = "launch" /\ run.pc \in Looping
    BY DEF Launch, At, Looping
<1>2. PICK s : s = Min(run.pending)
    OBVIOUS
<1>3. run.pending \subseteq Scopes /\ run.pending # {} /\ \A x \in Scopes : Placed(x)
    BY <1>1, Phases DEF ScheduleInv, Launch, CanLaunch
<1>4. s \in run.pending /\ s \in Scopes
    BY <1>2, <1>3, MinIsMember
<1>5. rows[s].status \in {"pending", "in_flight"}
    BY <1>3, <1>4 DEF Placed
<1>6. Publishable(s, "in_flight")
    BY <1>5 DEF Publishable, Allowed, Transitions, Settled
<1>7. /\ Publish(s, "in_flight", "none")
      /\ run' = [run EXCEPT !.pending = run.pending \ {s}]
      /\ wk' = [wk EXCEPT ![s] = [Off EXCEPT !.pc = "enter"]]
    BY <1>2, <1>6 DEF Launch
<1>8. Became(s, "in_flight") /\ UNCHANGED <<authority, slot, warm, cache>>
    BY <1>4, <1>7, PublishPlaces DEF CacheInv, Launch
<1>9. /\ run'.pc = "launch" /\ run'.gen = run.gen /\ run'.sel = run.sel
      /\ run'.pending = run.pending \ {s} /\ run'.outcome = run.outcome
    BY <1>1, <1>7 DEF LateInv, RunShape
<1>10. [Off EXCEPT !.pc = "enter"] \in WorkerRow /\ [Off EXCEPT !.pc = "enter"].pc = "enter"
    BY DEF WorkerRow, WorkerPoints, Replies, Off
<1>11. \A x \in Scopes : wk'[x].pc = IF x = s THEN "enter" ELSE wk[x].pc
    BY <1>4, <1>7, <1>10, WorkerMoved DEF LateInv
<1>12. InFlight' = InFlight \cup {s} /\ Completed' = Completed
    BY <1>4, <1>9, <1>11 DEF InFlight, Completed
<1>13. Unseen \subseteq InFlight
    BY <1>1, AllSeen
<1>14. ASSUME NEW x \in Scopes
       PROVE  Placed(x)'
  <2>1. IdentityOf(x)' = IdentityOf(x) /\ Placed(x)
    BY <1>3, <1>9 DEF IdentityOf
  <2>2. CASE x = s
    BY <1>4, <1>8, <1>9, <1>12, <2>1, <2>2 DEF Placed, Became, Exists
  <2>3. CASE x # s
    <3>1. rows'[x].status = rows[x].status /\ rows'[x].gen = rows[x].gen
      BY <1>8, <2>3 DEF Became
    <3> QED
      BY <1>4, <1>8, <1>9, <1>12, <1>13, <2>1, <2>3, <3>1 DEF Placed, Exists, Unseen
  <2> QED
    BY <2>2, <2>3
<1> QED
    BY <1>1, <1>3, <1>8, <1>9, <1>12, <1>14
    DEF ScheduleInv, At, Preparing, Replaying, Looping, Ending

\* A collected scope leaves its worker for its outcome.
Collected(s, status) ==
    /\ Became(s, status)
    /\ run'.pc = "collect" /\ run'.gen = run.gen /\ run'.sel = run.sel
    /\ run'.pending = run.pending /\ run'.ready = run.ready \ {s}
    /\ run'.outcome = Completing(s, status)
    /\ UNCHANGED <<authority, slot, warm, cache>>

LEMMA WorkerLeaves ==
    ASSUME LateInv, NEW s \in Scopes, wk' = [wk EXCEPT ![s] = Off]
    PROVE  InFlight' = InFlight \ {s}
<1>1. \A x \in Scopes : wk'[x].pc = IF x = s THEN "off" ELSE wk[x].pc
    BY RestingShaped, WorkerMoved DEF LateInv
<1> QED
    BY <1>1 DEF InFlight

LEMMA CollectedSchedules ==
    ASSUME ScheduleInv, Selected, LateInv, NEW s \in Scopes, NEW status \in Outcomes,
           run.pc \in {"collect", "commit"}, s \in InFlight, InFlight' = InFlight \ {s},
           Collected(s, status)
    PROVE  ScheduleInv'
<1>1. Became(s, status) /\ status # "absent"
    BY DEF Collected, Outcomes
<1>2. run.pc \in Looping /\ Unseen \subseteq InFlight
    BY AllSeen DEF Looping
<1>3. s \in run.sel /\ run.pending = run.pending \ {s} /\ run.ready \subseteq InFlight
    BY <1>2, Phases DEF Placed, ScheduleInv
<1>4. Goes({"replay"} \cup Looping \cup Ending)
    BY DEF Goes, Looping, Collected
<1>5. /\ run'.outcome = Completing(s, status) /\ run'.pending = run.pending \ {s}
      /\ cache' = cache /\ run'.ready \subseteq InFlight \ {s} /\ run'.pc = "collect"
    BY <1>3 DEF Collected
<1> QED
    BY <1>1, <1>2, <1>3, <1>4, <1>5, Phases, ScheduleCompletes DEF Ending

\* A row in flight admits every outcome.
LEMMA InFlightAdmits ==
    ASSUME ScheduleInv, Selected, LateInv, NEW s \in InFlight, run.pc \in Looping,
           NEW status \in Outcomes
    PROVE  Publishable(s, status)
<1>1. s \in Scopes /\ Placed(s)
    BY Phases DEF InFlight
<1>2. rows[s].status = "in_flight"
    BY <1>1 DEF Placed
<1> QED
    BY <1>2 DEF Publishable, Allowed, Transitions, Outcomes

LEMMA CollectFailureSchedules ==
    ASSUME ScheduleInv, Selected, LateInv, CacheInv, NEW s \in Scopes, CollectFailure(s)
    PROVE  ScheduleInv'
<1>1. run.pc = "collect" /\ run.pc \in Looping /\ s \in InFlight
    BY DEF CollectFailure, At, Looping, ScheduleInv
<1>2. PICK status \in Outcomes : status = FailureOutcome(s)
    BY DEF FailureOutcome, Outcomes
<1>3. Publishable(s, status)
    BY <1>1, InFlightAdmits
<1>4. /\ Publish(s, status, "technical")
      /\ run' = [run EXCEPT !.ready = run.ready \ {s}, !.streak = 0,
                            !.desired = Slower(run.desired \div 2),
                            !.outcome = Completing(s, status)]
      /\ wk' = [wk EXCEPT ![s] = Off] /\ UNCHANGED <<authority, slot, warm, cache>>
    BY <1>2, <1>3 DEF CollectFailure
<1>5. /\ run'.pc = "collect" /\ run'.gen = run.gen /\ run'.sel = run.sel
      /\ run'.pending = run.pending /\ run'.ready = run.ready \ {s}
      /\ run'.outcome = Completing(s, status)
    BY <1>1, <1>4 DEF LateInv, RunShape
<1>6. Became(s, status)
    BY <1>4, PublishPlaces DEF CacheInv
<1>7. Collected(s, status)
    BY <1>4, <1>5, <1>6 DEF Collected
<1>8. InFlight' = InFlight \ {s}
    BY <1>4, WorkerLeaves
<1> QED
    BY <1>1, <1>7, <1>8, CollectedSchedules

LEMMA CommitSchedules ==
    ASSUME ScheduleInv, Selected, LateInv, CacheInv, NEW s \in Scopes, NEW slow \in BOOLEAN,
           Commit(s, slow)
    PROVE  ScheduleInv'
<1>1. run.pc = "commit" /\ run.pc \in Looping /\ s \in InFlight
    BY DEF Commit, At, Looping, InFlight
<1>2. Publishable(s, "validated") /\ "validated" \in Outcomes
    BY <1>1, InFlightAdmits DEF Outcomes
<1>3. /\ Publish(s, "validated", IdentityOf(s))
      /\ \E streak, desired :
             run' = [run EXCEPT !.pc = "collect", !.ready = run.ready \ {s},
                                !.outcome = Completing(s, "validated"),
                                !.streak = streak, !.desired = desired]
      /\ wk' = [wk EXCEPT ![s] = Off] /\ UNCHANGED <<authority, slot, warm, cache>>
    BY <1>2 DEF Commit
<1>4. PICK streak, desired :
             run' = [run EXCEPT !.pc = "collect", !.ready = run.ready \ {s},
                                !.outcome = Completing(s, "validated"),
                                !.streak = streak, !.desired = desired]
    BY <1>3
<1>5. /\ run'.pc = "collect" /\ run'.gen = run.gen /\ run'.sel = run.sel
      /\ run'.pending = run.pending /\ run'.ready = run.ready \ {s}
      /\ run'.outcome = Completing(s, "validated")
    BY <1>4 DEF LateInv, RunShape
<1>6. Became(s, "validated")
    BY <1>3, PublishPlaces DEF CacheInv
<1>7. Collected(s, "validated")
    BY <1>3, <1>5, <1>6 DEF Collected
<1>8. InFlight' = InFlight \ {s}
    BY <1>3, WorkerLeaves
<1> QED
    BY <1>1, <1>2, <1>7, <1>8, CollectedSchedules

\* A result is cached: whatever was warm still is, and its worker stays.
LEMMA CollectResultSchedules ==
    ASSUME ScheduleInv, Selected, LateInv, CacheInv, NEW s \in Scopes, CollectResult(s)
    PROVE  ScheduleInv'
<1>1. run.pc = "collect" /\ run.pc \in Looping /\ s \in InFlight
    BY DEF CollectResult, At, Looping, ScheduleInv
<1>2. /\ run' = [run EXCEPT !.pc = "commit"] /\ cache \subseteq cache'
      /\ UNCHANGED <<rows, authority, slot, warm>>
      /\ wk' = [wk EXCEPT ![s] = [Off EXCEPT !.pc = "commit"]]
    BY DEF CollectResult, Goto
<1>3. /\ run'.pc = "commit" /\ run'.gen = run.gen /\ run'.sel = run.sel
      /\ run'.pending = run.pending /\ run'.ready = run.ready /\ run'.outcome = run.outcome
    BY <1>2 DEF LateInv, RunShape
<1>4. [Off EXCEPT !.pc = "commit"] \in WorkerRow /\ [Off EXCEPT !.pc = "commit"].pc = "commit"
    BY DEF WorkerRow, WorkerPoints, Replies, Off
<1>5. \A x \in Scopes : wk'[x].pc = IF x = s THEN "commit" ELSE wk[x].pc
    BY <1>2, <1>4, WorkerMoved DEF LateInv
<1>6. InFlight' = InFlight /\ Completed' = Completed
    BY <1>1, <1>3, <1>5 DEF InFlight, Completed
<1>7. Unseen \subseteq InFlight /\ \A x \in Scopes : Placed(x)
    BY <1>1, AllSeen, Phases
<1>8. ASSUME NEW x \in Scopes
      PROVE  Placed(x)'
  <2>1. IdentityOf(x)' = IdentityOf(x) /\ Placed(x)
    BY <1>3, <1>7 DEF IdentityOf
  <2> QED
    BY <1>2, <1>3, <1>6, <1>7, <2>1 DEF Placed, Exists, Unseen
<1> QED
    BY <1>1, <1>2, <1>3, <1>6, <1>8 DEF ScheduleInv, At, Preparing, Replaying, Looping, Ending

\* The bridge puts a scope that was never started in flight, in its row only.
LEMMA BridgeSchedules ==
    ASSUME ScheduleInv, Selected, LateInv, CacheInv, Bridge
    PROVE  ScheduleInv'
<1>1. run.pc = "drain" /\ run.pc \in Ending
    BY DEF Bridge, At, Ending
<1>2. PICK s : s = Min(run.pending)
    OBVIOUS
<1>3. run.pending \subseteq Scopes /\ run.pending # {} /\ \A x \in Scopes : Placed(x)
    BY <1>1, Phases DEF ScheduleInv, Bridge
<1>4. s \in run.pending /\ s \in Scopes
    BY <1>2, <1>3, MinIsMember
<1>5. Transition(s, "in_flight", "none") /\ UNCHANGED <<run, authority, slot, warm, cache, wk>>
    BY <1>2 DEF Bridge, Coordinator
<1>6. Became(s, "in_flight")
    BY <1>4, <1>5, TransitionPlaces DEF CacheInv
<1>7. InFlight' = InFlight /\ Completed' = Completed /\ Unseen' = Unseen
    BY <1>5 DEF InFlight, Completed, Unseen
<1>8. Unseen \subseteq InFlight
    BY <1>1, AllSeen
<1>9. ASSUME NEW x \in Scopes
      PROVE  Placed(x)'
  <2>1. IdentityOf(x)' = IdentityOf(x) /\ Placed(x)
    BY <1>3, <1>5 DEF IdentityOf
  <2>2. CASE x = s
    BY <1>4, <1>5, <1>6, <1>7, <2>1, <2>2 DEF Placed, Became, Exists
  <2>3. CASE x # s
    <3>1. rows'[x].status = rows[x].status /\ rows'[x].gen = rows[x].gen
      BY <1>6, <2>3 DEF Became
    <3> QED
      BY <1>4, <1>5, <1>7, <1>8, <2>1, <2>3, <3>1 DEF Placed, Exists, Unseen
  <2> QED
    BY <2>2, <2>3
<1> QED
    BY <1>1, <1>5, <1>7, <1>9 DEF ScheduleInv, At

\* A scope that was never started is completed as cancelled or by its fallback.
LEMMA DrainSchedules ==
    ASSUME ScheduleInv, Selected, LateInv, CacheInv, Drain
    PROVE  ScheduleInv'
<1>1. run.pc = "drain" /\ run.pc \in Ending
    BY DEF Drain, At, Ending
<1>2. PICK s : s = Min(run.pending)
    OBVIOUS
<1>3. PICK status : status = IF run.stop = "cancelled" THEN "cancelled" ELSE "fallback"
    OBVIOUS
<1>4. run.pending \subseteq Scopes /\ run.pending # {} /\ InFlight = {}
    BY <1>1, Phases DEF ScheduleInv, Drain
<1>5. s \in run.pending /\ s \in Scopes
    BY <1>2, <1>4, MinIsMember
<1>6. /\ rows[s].status \in {"pending", "in_flight"} /\ s \in run.sel
      /\ status = "fallback" => rows[s].status # "pending"
    BY <1>1, <1>2, <1>3, <1>5, Phases DEF Placed, Drain
<1>7. Publishable(s, status) /\ status # "absent"
    BY <1>3, <1>6 DEF Publishable, Allowed, Transitions
<1>8. /\ Publish(s, status, IF status = "fallback" THEN "technical" ELSE "none")
      /\ run' = [run EXCEPT !.pending = run.pending \ {s}, !.outcome = Completing(s, status)]
      /\ UNCHANGED <<authority, slot, warm, cache, wk>>
    BY <1>2, <1>3, <1>7 DEF Drain, Coordinator
<1>9. Became(s, status)
    BY <1>5, <1>8, PublishPlaces DEF CacheInv
<1>10. /\ run'.pc = "drain" /\ run'.gen = run.gen /\ run'.sel = run.sel
       /\ run'.pending = run.pending \ {s} /\ run'.outcome = Completing(s, status)
    BY <1>1, <1>8 DEF LateInv, RunShape
<1>11. InFlight' = InFlight \ {s} /\ Unseen \subseteq InFlight
    BY <1>1, <1>4, <1>8, AllSeen DEF InFlight
<1>12. Goes({"replay"} \cup Looping \cup Ending)
    BY <1>8, <1>10 DEF Goes, Ending
<1> QED
    BY <1>1, <1>4, <1>5, <1>6, <1>7, <1>8, <1>9, <1>10, <1>11, <1>12, Phases, ScheduleCompletes

\* The rows that were selected are there to be assembled.
LEMMA AssembleRunSchedules ==
    ASSUME ScheduleInv, Selected, LateInv, AssembleRun
    PROVE  ScheduleInv'
<1>1. run.pc = "drain" /\ run.pc \in Ending /\ run.pending = {}
    BY DEF AssembleRun, At, Ending
<1>2. /\ run.sel # {} /\ run.sel \subseteq Scopes /\ \A x \in Scopes : Placed(x)
      /\ InFlight = {}
    BY <1>1, Phases DEF ScheduleInv
<1>3. Assemblable(run.gen)
    BY <1>2 DEF Assemblable, ScopesOf, Placed
<1>4. run' = [run EXCEPT !.pc = "finish"] /\ UNCHANGED <<rows, cache, authority, slot, warm, wk>>
    BY <1>3 DEF AssembleRun, Goto, Coordinator
<1>5. /\ run'.pc = "finish" /\ run'.gen = run.gen /\ run'.sel = run.sel
      /\ run'.pending = run.pending /\ run'.outcome = run.outcome
    BY <1>4 DEF LateInv, RunShape
<1>6. Goes(Looping \cup Ending)
    BY <1>4, <1>5 DEF Goes, Ending
<1> QED
    BY <1>1, <1>2, <1>4, <1>5, <1>6, AllSeen, ScheduleGoesOn

\* The steps that only move the coordinator on.
LEMMA LoopSchedules ==
    ASSUME ScheduleInv, Selected, LateInv,
           ReplayEnds \/ Check \/ LaunchEnds \/ Wait \/ CollectEnds \/ Final
    PROVE  ScheduleInv'
<1>1. UNCHANGED <<rows, cache, authority, slot, warm, wk>>
    BY DEF ReplayEnds, Check, LaunchEnds, Wait, CollectEnds, Final, OnlyRun, Coordinator,
        storeVars
<1>2. Done \subseteq InFlight
    BY DEF Done
<1>3. /\ run'.gen = run.gen /\ run'.sel = run.sel
      /\ run'.pending = run.pending /\ run'.outcome = run.outcome
      /\ run'.pc \in {"collect", "commit"} => run'.pc = "collect" /\ run'.ready = Done
    BY DEF ReplayEnds, Check, LaunchEnds, Wait, CollectEnds, Final, Goto, At, LateInv, RunShape
<1>4. /\ run'.pc \in {"check", "launch", "wait", "collect", "final", "drain"}
      /\ run'.pc \in {"final", "drain"} => run.pc = "final" \/ InFlight = {}
      /\ run.pc \in {"check", "launch", "wait", "collect", "final"} \/ (At("replay") /\ Unseen = {})
    BY DEF ReplayEnds, Check, LaunchEnds, Wait, CollectEnds, Final, Goto, At, LateInv, RunShape
<1>5. Unseen \subseteq InFlight
    BY <1>4, AllSeen DEF Looping, Ending
<1>6. run.pc = "final" => InFlight = {}
    BY DEF ScheduleInv, Ending
<1>7. Goes(Looping \cup Ending) /\ run.pc \in Replaying \cup Looping \cup Ending
    BY <1>1, <1>3, <1>4 DEF Goes, Looping, Ending, Replaying, At
<1>8. run'.pc \in Ending => InFlight = {}
    BY <1>4, <1>6 DEF Ending
<1> QED
    BY <1>1, <1>2, <1>3, <1>4, <1>5, <1>7, <1>8, ScheduleGoesOn

\* A worker stays in flight, and its attempt changes no status.
LEMMA WorkerSchedules ==
    ASSUME ScheduleInv, LateInv, RowsShape, NEW s \in Scopes, WorkerStep(s)
    PROVE  ScheduleInv'
<1>1. CASE AwaitRepair(s) \/ Enter(s) \/ Guard(s) \/ Reserve(s)
  <2>1. /\ wk[s].pc # "off"
        /\ UNCHANGED <<rows, run, cache, authority, slot, warm>>
        /\ \/ \E pc \in {"enter", "guard", "reserve", "sent"} : Move(s, pc)
           \/ \E reply \in Replies : Answer(s, reply)
    BY <1>1
    DEF AwaitRepair, Enter, Guard, Reserve, OnlyWorker, storeVars, Replies, AtPoint
  <2>2. \A x \in Scopes : wk'[x].pc = "off" <=> wk[x].pc = "off"
    BY <2>1, MoveMoves, AnswerMoves DEF LateInv, WorkerPoints
  <2>3. InFlight' = InFlight /\ SameStatuses
    BY <2>1, <2>2 DEF InFlight, SameStatuses
  <2> QED
    BY <2>1, <2>3, ScheduleApart
<1>2. ASSUME NEW answer \in Answers, NEW report \in Reports, Respond(s, answer, report)
      PROVE  ScheduleInv'
  <2>1. /\ wk[s].pc # "off"
        /\ UNCHANGED <<run, cache, authority, slot, warm>>
        /\ rows' = rows \/ RecordAttempt(s, ordinal[s])
        /\ AfterAttempt(s, answer) \/ Answer(s, "error")
    BY <1>2 DEF Respond, AtPoint
  <2>2. \A x \in Scopes : wk'[x].pc = "off" <=> wk[x].pc = "off"
    BY <2>1, AfterAttemptMoves DEF LateInv
  <2>3. SameStatuses
    BY <2>1, RecordPlaces DEF SameStatuses
  <2>4. InFlight' = InFlight
    BY <2>2 DEF InFlight
  <2> QED
    BY <2>1, <2>3, <2>4, ScheduleApart
<1> QED
    BY <1>1, <1>2 DEF WorkerStep

\* Only while no run holds the slot is the map replaced.
LEMMA RestSchedules ==
    ASSUME ScheduleInv, LateInv, TaskEnds \/ RefreshReplaces \/ Start
    PROVE  ScheduleInv'
<1>1. CASE TaskEnds
  <2>1. run' = Resting /\ slot' = "free" /\ \A x \in Scopes : wk'[x].pc = "off"
    BY <1>1 DEF TaskEnds, Off
  <2> QED
    BY <2>1, ScheduleEnds DEF Resting, Preparing
<1>2. ASSUME run.pc = "idle", slot # "organization" => \A x \in Scopes : wk[x].pc = "off",
             UNCHANGED <<run, wk>>, slot # "organization", slot' # "organization"
      PROVE  ScheduleInv'
  <2>1. Completed' = {} /\ run'.pending = {} /\ InFlight' = {}
    BY <1>2 DEF ScheduleInv, Completed, InFlight, Preparing
  <2> QED
    BY <1>2, <2>1 DEF ScheduleInv, Preparing, Replaying, Looping, Ending, At
<1>3. CASE RefreshReplaces
    BY <1>2, <1>3 DEF RefreshReplaces, LateInv
<1>4. CASE Start
  <2>1. CASE prepared.gen = authority /\ slot = "free"
    <3>1. /\ run'.pc = "validate" /\ run'.gen = authority /\ authority' = authority
          /\ run'.outcome = <<>> /\ run'.pending = {} /\ \A x \in Scopes : wk'[x].pc = "off"
      BY <1>4, <2>1 DEF Start, Resting, LateInv
    <3> QED
      BY <3>1, ScheduleEnds DEF Preparing
  <2>2. CASE ~(prepared.gen = authority /\ slot = "free")
    <3>1. UNCHANGED <<run, authority, warm, cache, rows, wk, slot>>
      BY <1>4, <2>2 DEF Start, storeVars
    <3>2. SameStatuses /\ InFlight' = InFlight
      BY <3>1 DEF SameStatuses, InFlight
    <3> QED
      BY <3>1, <3>2, ScheduleApart
  <2> QED
    BY <2>1, <2>2
<1> QED
    BY <1>1, <1>3, <1>4

LEMMA ValidateSchedules ==
    ASSUME ScheduleInv, LateInv, Validate
    PROVE  ScheduleInv'
<1>1. run.pc = "validate" /\ authority = run.gen
    BY DEF Validate, At, ScheduleInv
<1>2. run' = [run EXCEPT !.pc = "register"] /\ UNCHANGED <<wk, authority, slot>>
    BY <1>1 DEF Validate, OnlyRun, Coordinator, Goto
<1>3. /\ run'.pc = "register" /\ run'.gen = run.gen
      /\ run'.pending = run.pending /\ run'.outcome = run.outcome
    BY <1>2 DEF LateInv, RunShape
<1>4. Completed' = {} /\ InFlight' = {} /\ run'.pending = {}
    BY <1>1, <1>2, <1>3 DEF ScheduleInv, Completed, InFlight, Preparing
<1> QED
    BY <1>1, <1>2, <1>3, <1>4 DEF ScheduleInv, Preparing, Replaying, Looping, Ending, At

LEMMA ScheduleInductive ==
    LateInv /\ CacheInv /\ Selected /\ ScheduleInv /\ [Next]_vars => ScheduleInv'
<1> SUFFICES ASSUME LateInv, CacheInv, Selected, ScheduleInv, [Next]_vars
             PROVE  ScheduleInv'
    OBVIOUS
<1>1. ASSUME UNCHANGED <<run, wk, authority, warm, cache, rows>>, slot' = slot \/ slot' # "organization"
      PROVE  ScheduleInv'
  <2>1. SameStatuses /\ InFlight' = InFlight
    BY <1>1 DEF SameStatuses, InFlight
  <2>2. CASE slot' = slot
    BY <1>1, <2>1, <2>2, ScheduleApart
  <2>3. CASE slot' # "organization"
    <3>1. Completed' = Completed /\ Unseen' = Unseen
      BY <1>1 DEF Completed, Unseen
    <3>2. \A x \in Scopes : Placed(x)' = Placed(x)
      BY <1>1, <2>1, <3>1 DEF Placed, Untouched, IdentityOf, At, Exists
    <3> QED
      BY <1>1, <2>1, <2>3, <3>1, <3>2 DEF ScheduleInv, At
  <2> QED
    BY <1>1, <2>2, <2>3
<1>2. CASE CoordinatorStep
    BY <1>2, ValidateSchedules, RegisterSchedules, ReplaySchedules, ReplayCachedSchedules,
        ServeCachedSchedules, LoopSchedules, LaunchSchedules, CollectFailureSchedules,
        CollectResultSchedules, CommitSchedules, BridgeSchedules, DrainSchedules,
        AssembleRunSchedules, RestSchedules
    DEF CoordinatorStep, Finish
<1>3. CASE \E s \in Scopes : WorkerStep(s)
    BY <1>3, WorkerSchedules DEF CacheInv
<1>4. CASE UserStep
    BY <1>1, <1>4, RestSchedules
    DEF UserStep, Prepare, Cancel, Correct, AssembleCorrection, Apply, Discard, Reviewer,
        storeVars
<1>5. CASE WorldStep
    BY <1>1, <1>5, RestSchedules
    DEF WorldStep, RefreshCopies, RefreshGivesUp, Tick, Crash, storeVars
<1>6. CASE UNCHANGED vars
    BY <1>1, <1>6 DEF vars, runVars, storeVars
<1> QED
    BY <1>2, <1>3, <1>4, <1>5, <1>6 DEF Next

LEMMA ScheduleInitially == Init => ScheduleInv
<1> SUFFICES ASSUME Init PROVE ScheduleInv
    OBVIOUS
<1>1. Completed = {} /\ InFlight = {} /\ run.pending = {} /\ run.pc = "idle" /\ slot = "free"
    BY DEF Init, Resting, Off, Completed, InFlight
<1> QED
    BY <1>1 DEF ScheduleInv, Preparing, Replaying, Looping, Ending, At

\* The state machine of the rows never refuses the scheduler, what the scheduler counts as
\* completed is in the database, and a run that assembled completed every selected scope.
THEOREM CompletionIsDurable == Spec => []CompletedIsDurable
<1>1. LateInv /\ Selected /\ ScheduleInv => CompletedIsDurable
  <2> SUFFICES ASSUME LateInv, Selected, ScheduleInv PROVE CompletedIsDurable
    OBVIOUS
  <2>1. ~At("failing")
    BY DEF ScheduleInv, Preparing, Replaying, Looping, Ending, At
  <2>2. ASSUME NEW s \in Completed
        PROVE  rows[s].status = run.outcome[s]
    <3>1. run.pc \in Replaying \cup Looping \cup Ending
      BY <2>2 DEF ScheduleInv
    <3>2. s \in Scopes /\ Placed(s)
      BY <2>2, <3>1, Phases DEF ScheduleInv
    <3> QED
      BY <2>2, <3>2 DEF Placed
  <2>3. ASSUME At("finish")
        PROVE  Completed = run.sel
    <3>1. run.pc \in Ending
      BY <2>3 DEF At, Ending
    <3>2. Unseen \subseteq InFlight /\ InFlight = {} /\ run.pending = {} /\ Completed \subseteq run.sel
      BY <2>3, <3>1, AllSeen DEF ScheduleInv
    <3> QED
      BY <3>2 DEF Unseen
  <2> QED
    BY <2>1, <2>2, <2>3 DEF CompletedIsDurable
<1>2. Init => Selected
    BY AssemblyInitially
<1> QED
    BY <1>1, <1>2, LateInitially, LateInductive, CacheInitially, CacheInductive,
       StagedCachedInductive, SelectedInductive, ScheduleInitially, ScheduleInductive, PTL
    DEF Spec

\* A scope whose identity was cached when the run registered is answered without a request.
THEOREM CachedStaysUnsent == Spec => []CachedIsNotSent
<1>1. LateInv /\ Selected /\ ScheduleInv => CachedIsNotSent
  <2> SUFFICES ASSUME LateInv, Selected, ScheduleInv, NEW s \in InFlight
               PROVE  IdentityOf(s) \notin warm
    BY DEF CachedIsNotSent
  <2>1. run.pc \in Replaying \cup Looping \cup Ending /\ s \in Scopes
    BY DEF ScheduleInv, InFlight
  <2> QED
    BY <2>1, Phases DEF Placed
<1>2. Init => Selected
    BY AssemblyInitially
<1> QED
    BY <1>1, <1>2, LateInitially, LateInductive, CacheInitially, CacheInductive,
       StagedCachedInductive, SelectedInductive, ScheduleInitially, ScheduleInductive, PTL
    DEF Spec

-----------------------------------------------------------------------------
(* The charge. *)

\* What was collected as done has no request open.
ReadyInv ==
    run.pc \in {"collect", "commit"} => \A s \in run.ready : wk[s].pc \in {"done", "commit"}

LEMMA ReadyInductive ==
    LateInv /\ Selected /\ ScheduleInv /\ ReadyInv /\ [Next]_vars => ReadyInv'
<1> SUFFICES ASSUME LateInv, Selected, ScheduleInv, ReadyInv, [Next]_vars
             PROVE  ReadyInv'
    OBVIOUS
<1>1. CASE run'.pc \notin {"collect", "commit"}
    BY <1>1 DEF ReadyInv
<1>2. CASE UNCHANGED <<run, wk>>
    BY <1>2 DEF ReadyInv
<1>3. ASSUME NEW s \in Scopes, WorkerStep(s)
      PROVE  ReadyInv'
  <2>1. run' = run /\ wk[s].pc \notin {"done", "commit"}
    BY <1>3
    DEF WorkerStep, AwaitRepair, Enter, Guard, Reserve, Respond, OnlyWorker, AtPoint
  <2>2. \A x \in Scopes : x # s => wk'[x] = wk[x]
    BY <1>3
    DEF WorkerStep, AwaitRepair, Enter, Guard, Reserve, Respond, Move, Answer, AfterAttempt,
        LateInv
  <2>3. run.pc \in {"collect", "commit"} => run.ready \subseteq Scopes
    BY DEF ScheduleInv, InFlight
  <2> QED
    BY <2>1, <2>2, <2>3 DEF ReadyInv
<1>4. ASSUME NEW s \in Scopes,
             CollectFailure(s) \/ CollectResult(s) \/ \E slow \in BOOLEAN : Commit(s, slow)
      PROVE  ReadyInv'
  <2>1. run.pc \in {"collect", "commit"} /\ run.ready \subseteq Scopes
    BY <1>4 DEF CollectFailure, CollectResult, Commit, At, ScheduleInv, InFlight
  <2>2. \A x \in Scopes : x # s => wk'[x] = wk[x]
    BY <1>4 DEF CollectFailure, CollectResult, Commit, LateInv
  <2>3. CASE CollectFailure(s)
    <3>1. run'.pc = "failing" \/ run'.ready = run.ready \ {s}
      BY <2>3 DEF CollectFailure, Goto, Failing, LateInv, RunShape
    <3> QED
      BY <2>1, <2>2, <3>1 DEF ReadyInv
  <2>4. CASE CollectResult(s)
    <3>1. run'.ready = run.ready
      BY <2>4 DEF CollectResult, Goto, LateInv, RunShape
    <3>2. wk'[s].pc = "commit"
      BY <2>4 DEF CollectResult, LateInv, Off
    <3> QED
      BY <2>1, <2>2, <3>1, <3>2 DEF ReadyInv
  <2>5. CASE \E slow \in BOOLEAN : Commit(s, slow)
    <3>1. run'.pc = "failing" \/ run'.ready = run.ready \ {s}
      BY <2>5 DEF Commit, Goto, Failing, LateInv, RunShape
    <3> QED
      BY <2>1, <2>2, <3>1 DEF ReadyInv
  <2> QED
    BY <1>4, <2>3, <2>4, <2>5
<1>5. CASE Wait
  <2>1. wk' = wk
    BY <1>5 DEF Wait, OnlyRun, Coordinator
  <2>2. run'.pc \notin {"collect", "commit"} \/ run'.ready = Done
    BY <1>5 DEF Wait, Goto, LateInv, RunShape
  <2>3. \A s \in Done : wk[s].pc = "done"
    BY DEF Done
  <2> QED
    BY <2>1, <2>2, <2>3 DEF ReadyInv
<1>10. ASSUME Validate \/ Register \/ Replay \/ ReplayCached \/ ServeCached \/ ReplayEnds \/ Check
       PROVE  run'.pc \notin {"collect", "commit"}
    BY <1>10
    DEF Validate, Register, Replay, ReplayCached, ServeCached, ReplayEnds, Check, Goto, Failing,
        At, LateInv, RunShape
<1>11. ASSUME Launch \/ LaunchEnds \/ CollectEnds \/ Final \/ Bridge \/ Drain \/ AssembleRun
       PROVE  run'.pc \notin {"collect", "commit"}
    BY <1>11
    DEF Launch, LaunchEnds, CollectEnds, Final, Bridge, Drain, AssembleRun, Goto, Failing, At,
        LateInv, RunShape
<1>12. ASSUME Finish
       PROVE  run'.pc \notin {"collect", "commit"}
    BY <1>12 DEF Finish, TaskEnds, Resting
<1>6. CASE CoordinatorStep
    BY <1>1, <1>4, <1>5, <1>6, <1>10, <1>11, <1>12 DEF CoordinatorStep
<1>7. CASE UserStep
    BY <1>1, <1>2, <1>7
    DEF UserStep, Prepare, Start, Cancel, Correct, AssembleCorrection, Apply, Discard, Reviewer,
        Resting
<1>8. CASE WorldStep
    BY <1>1, <1>2, <1>8
    DEF WorldStep, RefreshCopies, RefreshReplaces, RefreshGivesUp, Tick, Crash, TaskEnds, Resting
<1>9. CASE UNCHANGED vars
    BY <1>2, <1>9 DEF vars, runVars
<1> QED
    BY <1>3, <1>6, <1>7, <1>8, <1>9 DEF Next

\* Only a reservation opens a request, and only an answer or the end of the task closes one.
LEMMA OpenFrame ==
    ASSUME LateInv, Selected, ScheduleInv, ReadyInv, Next
    PROVE  \/ ledger' = ledger /\ Open' = Open
           \/ ledger' = NoLedger /\ Open' = {}
           \/ \E s \in Scopes : Reserve(s)
           \/ \E s \in Scopes, answer \in Answers, report \in Reports : Respond(s, answer, report)
<1>1. ASSUME UNCHANGED <<ledger, wk>>
      PROVE  ledger' = ledger /\ Open' = Open
    BY <1>1 DEF Open
<1>2. ASSUME TaskEnds
      PROVE  ledger' = NoLedger /\ Open' = {}
    BY <1>2 DEF TaskEnds, Open, Off
<1>3. ASSUME Launch
      PROVE  ledger' = ledger /\ Open' = Open
  <2>1. run.pc \in Looping /\ ledger' = ledger /\ run.pending # {} /\ run.pending \subseteq run.sel
    BY <1>3 DEF Launch, At, Looping, CanLaunch, ScheduleInv
  <2>2. run.sel \subseteq Scopes /\ \A x \in Scopes : Placed(x)
    BY <2>1, Phases
  <2>3. PICK s : s = Min(run.pending)
    OBVIOUS
  <2>4. s \in Scopes /\ wk[s].pc = "off"
    BY <2>1, <2>2, <2>3, MinIsMember DEF Placed, InFlight
  <2>5. wk' = [wk EXCEPT ![s] = [Off EXCEPT !.pc = "enter"]] \/ wk' = wk
    BY <1>3, <2>3 DEF Launch
  <2>6. [Off EXCEPT !.pc = "enter"] \in WorkerRow /\ [Off EXCEPT !.pc = "enter"].pc = "enter"
    BY DEF WorkerRow, WorkerPoints, Replies, Off
  <2>7. \A x \in Scopes : wk'[x].pc = "sent" <=> wk[x].pc = "sent"
    BY <2>4, <2>5, <2>6, WorkerMoved DEF LateInv
  <2> QED
    BY <2>1, <2>7 DEF Open
<1>4. ASSUME NEW s \in Scopes,
             CollectFailure(s) \/ CollectResult(s) \/ \E slow \in BOOLEAN : Commit(s, slow)
      PROVE  ledger' = ledger /\ Open' = Open
  <2>1. ledger' = ledger /\ wk[s].pc # "sent"
    BY <1>4 DEF CollectFailure, CollectResult, Commit, At, ReadyInv
  <2>3. wk'[s] = Off \/ wk'[s] = [Off EXCEPT !.pc = "commit"]
    BY <1>4 DEF CollectFailure, CollectResult, Commit, LateInv
  <2>4. wk'[s].pc # "sent"
    BY <2>3 DEF Off
  <2>2. \A x \in Scopes : x # s => wk'[x] = wk[x]
    BY <1>4 DEF CollectFailure, CollectResult, Commit, LateInv
  <2> QED
    BY <2>1, <2>2, <2>4 DEF Open
<1>5. ASSUME NEW s \in Scopes, AwaitRepair(s) \/ Enter(s) \/ Guard(s)
      PROVE  ledger' = ledger /\ Open' = Open
  <2>1. /\ ledger' = ledger /\ wk[s].pc # "sent"
        /\ \/ \E pc \in {"enter", "guard", "reserve"} : Move(s, pc)
           \/ \E reply \in Replies : Answer(s, reply)
    BY <1>5 DEF AwaitRepair, Enter, Guard, OnlyWorker, Replies, AtPoint
  <2>2. \A x \in Scopes : wk'[x].pc = "sent" <=> wk[x].pc = "sent"
    BY <2>1, MoveMoves, AnswerMoves DEF LateInv, WorkerPoints
  <2> QED
    BY <2>1, <2>2 DEF Open
<1>6. CASE CoordinatorStep
    BY <1>1, <1>2, <1>3, <1>4, <1>6
    DEF CoordinatorStep, OnlyRun, Coordinator, Validate, Register, Replay, ReplayCached,
        ServeCached, ReplayEnds, Check, LaunchEnds, Wait, CollectEnds, Final, Bridge, Drain,
        AssembleRun, Finish
<1>7. CASE \E s \in Scopes : WorkerStep(s)
    BY <1>5, <1>7 DEF WorkerStep
<1>8. CASE UserStep
    BY <1>1, <1>8
    DEF UserStep, Prepare, Start, Cancel, Correct, AssembleCorrection, Apply, Discard, Reviewer
<1>9. CASE WorldStep
    BY <1>1, <1>2, <1>9
    DEF WorldStep, RefreshCopies, RefreshReplaces, RefreshGivesUp, Tick, Crash
<1> QED
    BY <1>6, <1>7, <1>8, <1>9 DEF Next

Accounted == ledger.charged = ledger.known + Ceiling * (Cardinality(Open) + ledger.blind)
ChargeInv == ledger \in Ledger /\ Accounted

LEMMA OpenCounts ==
    /\ Cardinality(Open) \in Nat
    /\ \A s \in Scopes : s \notin Open => Cardinality(Open \cup {s}) = Cardinality(Open) + 1
    /\ \A s \in Open : Cardinality(Open \ {s}) = Cardinality(Open) - 1
<1>1. IsFiniteSet(Open)
    BY StoreAssumption, FS_Subset DEF Open
<1> QED
    BY <1>1, FS_CardinalityType, FS_AddElement, FS_RemoveElement

LEMMA ReserveAccounted ==
    ASSUME LateInv, ChargeInv, NEW s \in Scopes, Reserve(s)
    PROVE  Accounted'
<1>1. CASE Admitted
  <2>1. ledger' = [ledger EXCEPT !.calls = @ + 1, !.charged = @ + Ceiling]
    BY <1>1 DEF Reserve
  <2>2. ledger'.charged = ledger.charged + Ceiling /\ ledger'.known = ledger.known
        /\ ledger'.blind = ledger.blind
    BY <2>1 DEF ChargeInv, Ledger
  <2>3. \A x \in Scopes : wk'[x].pc = IF x = s THEN "sent" ELSE wk[x].pc
    BY <1>1, MoveMoves DEF Reserve, LateInv, WorkerPoints
  <2>4. wk[s].pc = "reserve"
    BY DEF Reserve, AtPoint
  <2>5. Open' = Open \cup {s} /\ s \notin Open
    BY <2>3, <2>4 DEF Open
  <2>6. Cardinality(Open') = Cardinality(Open) + 1
    BY <2>5, OpenCounts
  <2>7. PICK n \in Nat : n = Cardinality(Open)
    BY OpenCounts
  <2>8. ledger.known \in Int /\ ledger.blind \in Int /\ ledger.charged \in Int /\ Ceiling \in Int
    BY RunAssumption DEF ChargeInv, Ledger
  <2>9. Ceiling * ((n + 1) + ledger.blind) = Ceiling * (n + ledger.blind) + Ceiling
    BY <2>8
  <2> QED
    BY <2>2, <2>6, <2>7, <2>8, <2>9 DEF ChargeInv, Accounted
<1>2. CASE ~Admitted
  <2>1. ledger' = ledger /\ Answer(s, "withdrawn") /\ wk[s].pc = "reserve"
    BY <1>2 DEF Reserve, AtPoint
  <2>2. \A x \in Scopes : wk'[x].pc = "sent" <=> wk[x].pc = "sent"
    BY <2>1, AnswerMoves DEF LateInv, Replies
  <2>3. Open' = Open
    BY <2>2 DEF Open
  <2> QED
    BY <2>1, <2>3 DEF ChargeInv, Accounted
<1> QED
    BY <1>1, <1>2

\* After its answer a request is closed.
LEMMA RespondCloses ==
    ASSUME wk \in [Scopes -> WorkerRow], NEW s \in Scopes, NEW answer,
           AfterAttempt(s, answer) \/ Answer(s, "error")
    PROVE  wk'[s].pc # "sent"
<1>1. CASE \E reply \in Replies : Answer(s, reply)
    BY <1>1, AnswerMoves
<1>2. ASSUME NEW row, row.pc # "sent", wk' = [wk EXCEPT ![s] = row]
      PROVE  wk'[s].pc # "sent"
    BY <1>2
<1>3. CASE \/ wk' = [wk EXCEPT ![s] = [pc |-> "enter", part |-> wk[s].part + 1,
                                       attempt |-> 1, reply |-> "none"]]
           \/ wk' = [wk EXCEPT ![s] = [pc |-> "repair", part |-> wk[s].part,
                                       attempt |-> 2, reply |-> "none"]]
    BY <1>2, <1>3
<1> QED
    BY <1>1, <1>3 DEF AfterAttempt, Replies

LEMMA RespondAccounted ==
    ASSUME LateInv, ChargeInv, NEW s \in Scopes, NEW answer, NEW report \in Reports,
           Respond(s, answer, report)
    PROVE  Accounted'
<1>1. /\ ledger.known \in Int /\ ledger.blind \in Int /\ ledger.charged \in Int
      /\ Ceiling \in Int /\ report \in Int
    BY RunAssumption DEF ChargeInv, Ledger, Negative, Unreported
<1>2. /\ ledger'.charged = ledger.charged + Charge(report) - Ceiling
      /\ ledger'.known = IF report \in Usages THEN ledger.known + report ELSE ledger.known
      /\ ledger'.blind = IF report \in Usages THEN ledger.blind ELSE ledger.blind + 1
    BY DEF Respond, Settle, ChargeInv, Ledger
<1>3. wk[s].pc = "sent" /\ (AfterAttempt(s, answer) \/ Answer(s, "error"))
    BY DEF Respond, AtPoint
<1>4. \A x \in Scopes : /\ wk'[x].pc = "sent" => wk[x].pc = "sent"
                        /\ wk[x].pc = "sent" /\ x # s => wk'[x].pc = "sent"
    BY <1>3, AfterAttemptMoves DEF LateInv
<1>5. wk'[s].pc # "sent"
    BY <1>3, RespondCloses DEF LateInv
<1>6. Open' = Open \ {s} /\ s \in Open
    BY <1>3, <1>4, <1>5 DEF Open
<1>7. PICK n \in Nat : n = Cardinality(Open)
    BY OpenCounts
<1>8. Cardinality(Open') = n - 1
    BY <1>6, <1>7, OpenCounts
<1>9. Ceiling * ((n - 1) + ledger.blind) = Ceiling * (n + ledger.blind) - Ceiling
  <2>1. PICK m \in Int : m = n + ledger.blind
    BY <1>1
  <2>2. (n - 1) + ledger.blind = m - 1
    BY <1>1, <2>1
  <2>3. Ceiling * (m - 1) = Ceiling * m - Ceiling
    BY <1>1
  <2> QED
    BY <2>1, <2>2, <2>3
<1>10. Ceiling * ((n - 1) + (ledger.blind + 1)) = Ceiling * (n + ledger.blind)
  <2>1. (n - 1) + (ledger.blind + 1) = n + ledger.blind
    BY <1>1
  <2> QED
    BY <2>1
<1>11. ledger.charged = ledger.known + Ceiling * (n + ledger.blind)
    BY <1>7 DEF ChargeInv, Accounted
<1>12. PICK product \in Int : product = Ceiling * (n + ledger.blind)
    BY <1>1
<1>13. CASE report \in Usages
    BY <1>1, <1>2, <1>8, <1>9, <1>11, <1>12, <1>13 DEF Accounted, Charge
<1>14. CASE report \notin Usages
    BY <1>1, <1>2, <1>8, <1>10, <1>11, <1>12, <1>14 DEF Accounted, Charge
<1> QED
    BY <1>13, <1>14

LEMMA AccountedInductive ==
    LateInv /\ Selected /\ ScheduleInv /\ ReadyInv /\ ChargeInv /\ [Next]_vars => Accounted'
<1> SUFFICES ASSUME LateInv, Selected, ScheduleInv, ReadyInv, ChargeInv, [Next]_vars
             PROVE  Accounted'
    OBVIOUS
<1>1. ASSUME ledger' = ledger, Open' = Open
      PROVE  Accounted'
    BY <1>1 DEF ChargeInv, Accounted
<1>2. ASSUME ledger' = NoLedger, Open' = {}
      PROVE  Accounted'
  <2>1. Cardinality(Open') = 0
    BY <1>2, FS_EmptySet
  <2>2. ledger'.charged = 0 /\ ledger'.known = 0 /\ ledger'.blind = 0
    BY <1>2 DEF NoLedger
  <2> QED
    BY <2>1, <2>2, RunAssumption DEF Accounted
<1>3. CASE Next
    BY <1>1, <1>2, <1>3, OpenFrame, ReserveAccounted, RespondAccounted
<1>4. CASE UNCHANGED vars
    BY <1>1, <1>4 DEF vars, runVars, Open
<1> QED
    BY <1>3, <1>4

\* The charge is always what was reported plus the ceiling of every call that is open or whose
\* report could not be used, so malformed accounting never replenishes the budget.
THEOREM ChargesAlwaysAddUp == Spec => []ChargesAddUp
<1>1. Init => ReadyInv /\ Accounted /\ BudgetInv /\ Selected
  <2> SUFFICES ASSUME Init PROVE ReadyInv /\ Accounted /\ BudgetInv /\ Selected
    OBVIOUS
  <2>1. Open = {} /\ ledger = NoLedger /\ run.pc = "idle"
    BY DEF Init, Open, Off, Resting
  <2>2. Cardinality(Open) = 0
    BY <2>1, FS_EmptySet
  <2>3. Accounted
    BY <2>1, <2>2, RunAssumption DEF Accounted, NoLedger
  <2>4. BudgetInv
    BY <2>1, RunAssumption DEF BudgetInv, BudgetHeld, NoLedger, Ledger
  <2> QED
    BY <2>1, <2>3, <2>4, AssemblyInitially DEF ReadyInv
<1>2. BudgetInv /\ Accounted => ChargeInv
    BY DEF BudgetInv, ChargeInv
<1>3. Accounted => ChargesAddUp
    BY DEF Accounted, ChargesAddUp
<1> QED
    BY <1>1, <1>2, <1>3, BudgetInductive, LateInitially, LateInductive, CacheInitially,
       CacheInductive, StagedCachedInductive, SelectedInductive, ScheduleInitially,
       ScheduleInductive, ReadyInductive, AccountedInductive, PTL
    DEF Spec
=============================================================================
