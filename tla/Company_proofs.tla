--------------------------- MODULE Company_proofs ----------------------------
(***************************************************************************)
(* Proofs about Company.  IInv, the inductive invariant, says for every    *)
(* await which value each local must have there and what the ledger must   *)
(* say about it; the safety properties of Company follow from it, and so   *)
(* does its refinement of RunPromise.                                      *)
(***************************************************************************)
EXTENDS Company, TLAPS

IntakePc    == {"unstarted", "accept", "compile", "replay", "contracted"}
PlanningPc  == {"plan", "reject", "reject_outcome", "reject_status", "graph",
                "planned"}
ExecutingPc == {"cells", "exhausted", "stalled", "short_evidence",
                "short_outcome", "budget", "verifying"}
VerifyingPc == {"verify", "evidence", "outcome", "final"}
ShortPc     == {"exhausted", "stalled", "short_evidence", "short_outcome",
                "short_route"}
UndecidedPc == (IntakePc \cup PlanningPc \cup {"executing"} \cup ExecutingPc
                \cup VerifyingPc) \ {"reject_status", "final"}
LeavingPc   == {"fail_return", "closing", "done"}

\* What current_status and the persisted status are at each await: they agree,
\* except that _verify_and_finish does not move the caller's variable.
StatusKnown ==
  /\ pc \in IntakePc    => current = "intake" /\ ledger.status = "intake"
  /\ pc \in PlanningPc  => current = "contracted" /\ ledger.status = "contracted"
  /\ pc = "executing"   => current = "planned" /\ ledger.status = "planned"
  /\ pc \in ExecutingPc => current = "executing" /\ ledger.status = "executing"
  /\ pc \in VerifyingPc => current = "executing" /\ ledger.status = "verifying"
  /\ pc = "short_route" => /\ ledger.status = current
                           /\ \/ current = "executing"
                              \/ current = "verifying" /\ decided = "abstained"

\* What has been decided, and on which evidence.
DecisionKnown ==
  /\ pc \in ShortPc => decided \in {"failed", "abstained"}
  /\ pc \in {"evidence", "outcome", "final"} => decided \in Outcomes
  /\ pc = "outcome" => ledger.manifest = decided

\* terminal_outcome knows of every persisted outcome but the handler's own.
OutcomeKnown ==
  /\ terminal # "none" => emitted = <<terminal>>
  /\ terminal = "none" =>
       \/ emitted = <<>> /\ pc # "fail_status"
       \/ emitted = <<"failed">> /\ pc \in {"fail_status"} \cup LeavingPc
  /\ pc \in UndecidedPc => terminal = "none"
  /\ pc = "reject_status" => terminal = "abstained"
  /\ pc \in {"short_route", "final"} => terminal = decided

\* How far the persisted status may be ahead of the one the handler works with.
HandlerLag ==
  pc \in {"handler", "fail_status"} =>
    /\ terminal = "verified" => current = "executing"
    /\ terminal = "abstained" =>
         current = "executing" \/ ledger.status \in {current, "abstained"}

\* What the caller is handed, and that a begun run is not left without outcome.
LeavingKnown ==
  /\ pc \notin {"closing", "done"} => result = "pending"
  /\ result \in Outcomes => emitted \in {<<>>, <<result>>}
  /\ pc = "unstarted" => ~ledger.begun
  /\ pc \in LeavingPc /\ ledger.begun /\ ~lost => emitted # <<>>

IInv == /\ TypeOK
        /\ StatusKnown
        /\ DecisionKnown
        /\ OutcomeKnown
        /\ HandlerLag
        /\ LeavingKnown
        /\ TerminalStatusIsOutcome
        /\ VerdictRestsOnEvidence

-----------------------------------------------------------------------------
(* What one event does to the ledger *)

\* Appending to an empty log yields the log of that one event.
LEMMA AppendToEmpty ==
  ASSUME NEW x
  PROVE  Append(<<>>, x) = <<x>> /\ <<x>>[1] = x /\ <<x>> # <<>>
  OBVIOUS

\* A stored status becomes the persisted one and touches nothing else.
LEMMA StoreStatus ==
  ASSUME TypeOK, NEW s \in Statuses, Store(Status(s))
  PROVE  /\ ledger' \in LedgerView
         /\ ledger'.status = s
         /\ ledger'.begun = ledger.begun
         /\ ledger'.manifest = ledger.manifest
         /\ emitted' = emitted
         /\ lost' = lost
  BY DEF TypeOK, LedgerView, Store, Fold, Status, Statuses

\* A stored outcome is appended to the run's outcomes.
LEMMA StoreOutcome ==
  ASSUME TypeOK, NEW o \in Outcomes, Store(Outcome(o))
  PROVE  /\ ledger' \in LedgerView
         /\ ledger'.status = ledger.status
         /\ ledger'.begun = ledger.begun
         /\ ledger'.manifest = ledger.manifest
         /\ emitted' = Append(emitted, o)
         /\ lost' = lost
  BY DEF TypeOK, LedgerView, Store, Fold, Outcome

\* A stored manifest replaces the last one.
LEMMA StoreEvidence ==
  ASSUME TypeOK, NEW o \in Outcomes, Store(Evidence(o))
  PROVE  /\ ledger' \in LedgerView
         /\ ledger'.status = ledger.status
         /\ ledger'.begun = ledger.begun
         /\ ledger'.manifest = o
         /\ emitted' = emitted
         /\ lost' = lost
  BY DEF TypeOK, LedgerView, Store, Fold, Evidence

\* The remaining events change neither status, manifest nor outcomes.
LEMMA StorePlain ==
  ASSUME TypeOK, NEW e \in {Begin, Other, Stall}, Store(e)
  PROVE  /\ ledger' \in LedgerView
         /\ ledger'.status = ledger.status
         /\ e # Begin => ledger'.begun = ledger.begun
         /\ ledger'.manifest = ledger.manifest
         /\ emitted' = emitted
         /\ lost' = lost
<1>1. CASE e = Begin
  BY <1>1 DEF TypeOK, LedgerView, Store, Fold, Begin
<1>2. CASE e = Other
  BY <1>2 DEF TypeOK, LedgerView, Store, Fold, Begin, Other
<1>3. CASE e = Stall
  BY <1>3 DEF TypeOK, LedgerView, Store, Fold, Begin, Stall, Outcomes
<1>4. QED
  BY <1>1, <1>2, <1>3

-----------------------------------------------------------------------------
(* Exceptions on the way to an outcome *)

\* At an await of the normal flow, an outcome is known only right before the
\* status that goes with it.
LEMMA OutcomeOfNormalFlow ==
  ASSUME IInv, pc \in NormalPc
  PROVE  /\ terminal = "none" => emitted = <<>>
         /\ terminal # "none" => /\ emitted = <<terminal>>
                                /\ pc \in {"reject_status", "short_route", "final"}
         /\ terminal = "verified" => current = "executing"
         /\ terminal = "abstained" =>
              current = "executing" \/ ledger.status = current
         /\ ledger.status \in Phases
         /\ result = "pending"
  BY DEF IInv, TypeOK, NormalPc, StatusKnown, DecisionKnown, OutcomeKnown,
         LeavingKnown, IntakePc, PlanningPc, ExecutingPc, VerifyingPc, ShortPc,
         UndecidedPc, LeavingPc, Phases, Outcomes

\* An exception keeps the invariant if what was persisted before it was raised
\* is no outcome, no manifest once there is an outcome, and no status but a
\* phase on the way or the outcome's own.
LEMMA Thrown ==
  ASSUME IInv, pc \in NormalPc, NEW kind \in {"cancelled", "error"}, Throw(kind),
         late' \in BOOLEAN,
         ledger' \in LedgerView, lost' \in BOOLEAN, emitted' = emitted,
         ledger'.manifest = ledger.manifest \/ emitted = <<>>,
         \/ ledger'.status = ledger.status
         \/ /\ ledger'.status \in Phases
            /\ terminal = "abstained" => current = "executing"
         \/ terminal # "none" /\ ledger'.status = terminal
  PROVE  IInv'
<1>1. /\ pc' = "handler" /\ exc' = kind
      /\ UNCHANGED <<entry, current, decided, terminal, result>>
  BY DEF Throw
<1>2. TypeOK'
  BY <1>1 DEF IInv, TypeOK, Pcs, HandlerPc
<1>3. StatusKnown' /\ DecisionKnown'
  BY <1>1 DEF StatusKnown, DecisionKnown, IntakePc, PlanningPc, ExecutingPc,
              VerifyingPc, ShortPc
<1>4. OutcomeKnown'
  BY <1>1, OutcomeOfNormalFlow
     DEF OutcomeKnown, UndecidedPc, IntakePc, PlanningPc, ExecutingPc,
         VerifyingPc, LeavingPc
<1>5. HandlerLag'
  BY <1>1, OutcomeOfNormalFlow DEF HandlerLag
<1>6. LeavingKnown'
  BY <1>1, OutcomeOfNormalFlow DEF LeavingKnown, LeavingPc, Outcomes
<1>7. TerminalStatusIsOutcome'
  BY <1>1, OutcomeOfNormalFlow DEF TerminalStatusIsOutcome, Phases, Outcomes
<1>8. VerdictRestsOnEvidence'
  BY <1>1 DEF IInv, VerdictRestsOnEvidence
<1>9. QED
  BY <1>2, <1>3, <1>4, <1>5, <1>6, <1>7, <1>8 DEF IInv

\* So does an interruption, which only notes when it struck.
LEMMA Interrupted ==
  ASSUME IInv, pc \in NormalPc, NEW kind \in {"cancelled", "error"}, Interrupt(kind),
         ledger' \in LedgerView, lost' \in BOOLEAN, emitted' = emitted,
         ledger'.manifest = ledger.manifest \/ emitted = <<>>,
         \/ ledger'.status = ledger.status
         \/ /\ ledger'.status \in Phases
            /\ terminal = "abstained" => current = "executing"
         \/ terminal # "none" /\ ledger'.status = terminal
  PROVE  IInv'
<1>1. Throw(kind) /\ late' \in BOOLEAN
  BY DEF Interrupt
<1>2. QED
  BY <1>1, Thrown

\* An await that persists nothing.
LEMMA FailsKeepsInv ==
  ASSUME IInv, NEW at \in NormalPc, Fails(at)
  PROVE  IInv'
  BY Interrupted DEF Fails, NoEvent, IInv, TypeOK

\* An await on an event that is neither status, manifest nor outcome.
LEMMA InterruptedPlain ==
  ASSUME IInv, pc \in NormalPc, NEW e \in {Begin, Other, Stall}, InterruptedEmit(e)
  PROVE  IInv'
<1>1. CASE Store(e) /\ Interrupt("cancelled")
  BY <1>1, StorePlain, Interrupted DEF IInv, TypeOK
<1>2. CASE Lose /\ (Interrupt("cancelled") \/ Interrupt("error"))
  BY <1>2, Interrupted DEF Lose, IInv, TypeOK
<1>3. QED
  BY <1>1, <1>2 DEF InterruptedEmit

\* An await on the manifest, which no outcome precedes.
LEMMA InterruptedEvidence ==
  ASSUME IInv, pc \in NormalPc, terminal = "none", NEW o \in Outcomes,
         InterruptedEmit(Evidence(o))
  PROVE  IInv'
<1>1. CASE Store(Evidence(o)) /\ Interrupt("cancelled")
  BY <1>1, StoreEvidence, OutcomeOfNormalFlow, Interrupted DEF IInv, TypeOK
<1>2. CASE Lose /\ (Interrupt("cancelled") \/ Interrupt("error"))
  BY <1>2, Interrupted DEF Lose, IInv, TypeOK
<1>3. QED
  BY <1>1, <1>2 DEF InterruptedEmit

\* An await on a status.
LEMMA InterruptedStatus ==
  ASSUME IInv, pc \in NormalPc, NEW s \in Statuses, InterruptedEmit(Status(s)),
         \/ s \in Phases /\ (terminal = "abstained" => current = "executing")
         \/ terminal # "none" /\ s = terminal
  PROVE  IInv'
<1>1. CASE Store(Status(s)) /\ Interrupt("cancelled")
  BY <1>1, StoreStatus, Interrupted DEF IInv, TypeOK
<1>2. CASE Lose /\ (Interrupt("cancelled") \/ Interrupt("error"))
  BY <1>2, Interrupted DEF Lose, IInv, TypeOK
<1>3. QED
  BY <1>1, <1>2 DEF InterruptedEmit

-----------------------------------------------------------------------------
(* The steps up to the outcome *)

\* A step of the normal flow that pronounces no outcome keeps the invariant if
\* it leaves the status and the decision as its next await expects them.
LEMMA Moved ==
  ASSUME IInv, pc \in NormalPc \cup {"unstarted"}, terminal = "none",
         TypeOK', StatusKnown', DecisionKnown',
         pc' \in UndecidedPc, pc' # "unstarted",
         UNCHANGED <<terminal, result, emitted>>
  PROVE  IInv'
<1>1. emitted = <<>> /\ emitted' = <<>> /\ result' = "pending"
  BY DEF IInv, OutcomeKnown, LeavingKnown, LeavingPc, NormalPc
<1>2. OutcomeKnown'
  BY <1>1 DEF OutcomeKnown, UndecidedPc, IntakePc, PlanningPc, ExecutingPc, VerifyingPc
<1>3. HandlerLag' /\ LeavingKnown'
  BY <1>1 DEF HandlerLag, LeavingKnown, LeavingPc, Outcomes, UndecidedPc, IntakePc,
              PlanningPc, ExecutingPc, VerifyingPc
<1>4. TerminalStatusIsOutcome'
  BY DEF TerminalStatusIsOutcome, StatusKnown, UndecidedPc, IntakePc,
         PlanningPc, ExecutingPc, VerifyingPc, Outcomes
<1>5. VerdictRestsOnEvidence'
  BY <1>1 DEF VerdictRestsOnEvidence
<1>6. QED
  BY <1>2, <1>3, <1>4, <1>5 DEF IInv

\* The facts every such step starts from.
LEMMA BeforeOutcome ==
  ASSUME IInv
  PROVE  /\ TypeOK /\ StatusKnown /\ DecisionKnown
         /\ pc \in UndecidedPc => terminal = "none"
  BY DEF IInv, OutcomeKnown

\* Entering the coroutine writes nothing.
LEMMA StartKeepsInv ==
  ASSUME IInv, Start
  PROVE  IInv'
  BY BeforeOutcome, Moved
     DEF Start, Proceed, NoEvent, locals, TypeOK, StatusKnown, DecisionKnown,
         Pcs, NormalPc, UndecidedPc, IntakePc, PlanningPc, ExecutingPc,
         VerifyingPc, ShortPc

\* A run that never enters the try block leaves no event.
LEMMA UnstartedKeepsInv ==
  ASSUME IInv, CancelUnstarted \/ RefuseResume
  PROVE  IInv'
<1>1. /\ pc = "unstarted" /\ pc' = "done" /\ result' \in {"cancelled", "refused"}
      /\ UNCHANGED <<entry, decided, exc, current, terminal, late, ledger, emitted, lost>>
  BY DEF CancelUnstarted, RefuseResume, NoEvent
<1>2. TypeOK' /\ StatusKnown' /\ DecisionKnown'
  BY <1>1 DEF IInv, TypeOK, StatusKnown, DecisionKnown, Pcs, IntakePc,
              PlanningPc, ExecutingPc, VerifyingPc, ShortPc
<1>3. OutcomeKnown' /\ HandlerLag'
  BY <1>1 DEF IInv, OutcomeKnown, HandlerLag, LeavingPc, UndecidedPc, IntakePc,
              PlanningPc, ExecutingPc, VerifyingPc
<1>4. LeavingKnown'
  BY <1>1 DEF IInv, LeavingKnown, LeavingPc, Outcomes
<1>5. TerminalStatusIsOutcome' /\ VerdictRestsOnEvidence'
  BY <1>1 DEF IInv, TerminalStatusIsOutcome, VerdictRestsOnEvidence
<1>6. QED
  BY <1>2, <1>3, <1>4, <1>5 DEF IInv

\* Events that are neither status, manifest nor outcome.
LEMMA PlainKeepsInv ==
  ASSUME IInv, AcceptRequest \/ RejectGraph \/ AcceptGraph \/ BudgetExhausted
               \/ StallDetected \/ UpdateBudget \/ ReplaySource
  PROVE  IInv'
<1>1. PICK at, e, next :
        /\ <<at, e, next>> \in
             {<<"accept", Begin, "compile">>, <<"accept", Begin, "replay">>,
              <<"replay", Other, "contracted">>,
              <<"reject", Other, "reject_outcome">>, <<"graph", Other, "planned">>,
              <<"exhausted", Other, "short_evidence">>,
              <<"stalled", Stall, "short_evidence">>,
              <<"budget", Other, "verifying">>}
        /\ Emit(at, e, next) \/ Fails(at)
  BY DEF AcceptRequest, RejectGraph, AcceptGraph, BudgetExhausted, StallDetected,
         UpdateBudget, ReplaySource
<1>2. at \in NormalPc /\ at \in UndecidedPc /\ e \in {Begin, Other, Stall}
  BY <1>1 DEF NormalPc, UndecidedPc, IntakePc, PlanningPc, ExecutingPc, VerifyingPc
<1>3. CASE Fails(at)
  BY <1>2, <1>3, FailsKeepsInv
<1>4. CASE pc = at /\ InterruptedEmit(e)
  BY <1>2, <1>4, InterruptedPlain
<1>5. CASE /\ pc = at /\ Store(e) /\ pc' = next
           /\ UNCHANGED <<locals, current, terminal, late>>
  <2>1. TypeOK' /\ StatusKnown' /\ DecisionKnown'
    BY <1>1, <1>2, <1>5, BeforeOutcome, StorePlain
       DEF locals, TypeOK, StatusKnown, DecisionKnown, Pcs, NormalPc, IntakePc,
           PlanningPc, ExecutingPc, VerifyingPc, ShortPc
  <2>2. pc' \in UndecidedPc /\ pc' # "unstarted"
    BY <1>1, <1>5 DEF UndecidedPc, IntakePc, PlanningPc, ExecutingPc, VerifyingPc
  <2>3. QED
    BY <1>2, <1>5, <2>1, <2>2, BeforeOutcome, StorePlain, Moved DEF locals
<1>6. QED
  BY <1>1, <1>3, <1>4, <1>5 DEF Emit

\* Stages that hand back a decision or a next await, or raise.
LEMMA StageKeepsInv ==
  ASSUME IInv, Compile \/ Plan \/ ExecuteCells \/ Verify
  PROVE  IInv'
<1>1. CASE \E at \in {"compile", "plan", "cells", "verify"} : Fails(at)
  BY <1>1, FailsKeepsInv DEF NormalPc
<1>2. CASE ~ \E at \in {"compile", "plan", "cells", "verify"} : Fails(at)
  <2>1. /\ pc \in {"compile", "plan", "cells", "verify"}
        /\ UNCHANGED <<entry, exc, result, current, terminal, late, ledger,
                       emitted, lost>>
    BY <1>2 DEF Compile, Plan, ExecuteCells, Verify, Proceed, ShortCircuit,
                locals, NoEvent
  <2>2. TypeOK' /\ StatusKnown' /\ DecisionKnown'
    BY <1>2, <2>1, BeforeOutcome
       DEF Compile, Plan, ExecuteCells, Verify, Proceed, ShortCircuit, locals,
           TypeOK, StatusKnown, DecisionKnown, Pcs, NormalPc, IntakePc,
           PlanningPc, ExecutingPc, VerifyingPc, ShortPc, Outcomes
  <2>3. pc' \in UndecidedPc /\ pc' # "unstarted"
    BY <1>2 DEF Compile, Plan, ExecuteCells, Verify, Proceed, ShortCircuit,
                UndecidedPc, IntakePc, PlanningPc, ExecutingPc, VerifyingPc
  <2>4. pc \in NormalPc /\ pc \in UndecidedPc
    BY <2>1 DEF NormalPc, UndecidedPc, IntakePc, PlanningPc, ExecutingPc, VerifyingPc
  <2>5. QED
    BY <2>1, <2>2, <2>3, <2>4, BeforeOutcome, Moved
<1>3. QED
  BY <1>1, <1>2

\* The statuses on the way to the outcome.
LEMMA PhaseKeepsInv ==
  ASSUME IInv, Contracted \/ Planned \/ Executing \/ Verifying
  PROVE  IInv'
<1>1. PICK at, s, next, cur :
        /\ <<at, s, next, cur>> \in
             {<<"contracted", "contracted", "plan", "contracted">>,
              <<"contracted", "contracted", "planned", "contracted">>,
              <<"planned", "planned", "executing", "planned">>,
              <<"executing", "executing", "cells", "executing">>,
              <<"verifying", "verifying", "verify", current>>}
        /\ EmitStatus(at, s, current, next, cur)
  BY DEF Contracted, Planned, Executing, Verifying
<1>2. /\ pc = at /\ at \in NormalPc /\ at \in UndecidedPc /\ s \in Phases
      /\ s \in Statuses /\ CanTransition(current, s)
  BY <1>1, BeforeOutcome
     DEF EmitStatus, StatusKnown, CanTransition, Successor, Phases, Statuses,
         NormalPc, UndecidedPc, IntakePc, PlanningPc, ExecutingPc, VerifyingPc
<1>3. CASE InterruptedEmit(Status(s))
  BY <1>2, <1>3, BeforeOutcome, InterruptedStatus
<1>4. CASE /\ Store(Status(s)) /\ pc' = next /\ current' = cur
           /\ UNCHANGED <<locals, terminal, late>>
  <2>1. TypeOK' /\ StatusKnown' /\ DecisionKnown'
    BY <1>1, <1>2, <1>4, BeforeOutcome, StoreStatus
       DEF locals, TypeOK, StatusKnown, DecisionKnown, Pcs, NormalPc, Phases,
           IntakePc, PlanningPc, ExecutingPc, VerifyingPc, ShortPc
  <2>2. pc' \in UndecidedPc /\ pc' # "unstarted"
    BY <1>1, <1>4 DEF UndecidedPc, IntakePc, PlanningPc, ExecutingPc, VerifyingPc
  <2>3. QED
    BY <1>2, <1>4, <2>1, <2>2, BeforeOutcome, StoreStatus, Moved DEF locals
<1>5. QED
  BY <1>1, <1>2, <1>3, <1>4 DEF EmitStatus

\* The manifest, recorded before the outcome it says.
LEMMA ManifestKeepsInv ==
  ASSUME IInv, ShortEvidence \/ RecordEvidence
  PROVE  IInv'
<1>1. PICK at, next :
        /\ <<at, next>> \in {<<"short_evidence", "short_outcome">>,
                             <<"evidence", "outcome">>}
        /\ Emit(at, Evidence(decided), next)
  BY DEF ShortEvidence, RecordEvidence
<1>2. /\ pc = at /\ pc \in NormalPc /\ pc \in UndecidedPc /\ decided \in Outcomes
  BY <1>1, BeforeOutcome
     DEF Emit, DecisionKnown, ShortPc, Outcomes, NormalPc, UndecidedPc,
         IntakePc, PlanningPc, ExecutingPc, VerifyingPc
<1>3. CASE InterruptedEmit(Evidence(decided))
  BY <1>2, <1>3, BeforeOutcome, InterruptedEvidence
<1>4. CASE /\ Store(Evidence(decided)) /\ pc' = next
           /\ UNCHANGED <<locals, current, terminal, late>>
  <2>1. TypeOK' /\ StatusKnown' /\ DecisionKnown'
    BY <1>1, <1>2, <1>4, BeforeOutcome, StoreEvidence
       DEF locals, TypeOK, StatusKnown, DecisionKnown, Pcs, NormalPc,
           IntakePc, PlanningPc, ExecutingPc, VerifyingPc, ShortPc
  <2>2. pc' \in UndecidedPc /\ pc' # "unstarted"
    BY <1>1, <1>4 DEF UndecidedPc, IntakePc, PlanningPc, ExecutingPc, VerifyingPc
  <2>3. QED
    BY <1>2, <1>4, <2>1, <2>2, BeforeOutcome, StoreEvidence, Moved DEF locals
<1>5. QED
  BY <1>1, <1>3, <1>4 DEF Emit

-----------------------------------------------------------------------------
(* The outcome and the status that settles it *)

\* The outcome is noted whether or not a cancellation struck meanwhile.
LEMMA OutcomeKeepsInv ==
  ASSUME IInv, RejectOutcome \/ ShortOutcome \/ EmitOutcome
  PROVE  IInv'
<1>1. PICK at, o, next :
        /\ <<at, o, next>> \in {<<"reject_outcome", "abstained", "reject_status">>,
                                <<"short_outcome", decided, "short_route">>,
                                <<"outcome", decided, "final">>}
        /\ EmitVerdict(at, o, next)
  BY DEF RejectOutcome, ShortOutcome, EmitOutcome
<1>2. /\ pc = at /\ pc \in NormalPc /\ pc \in UndecidedPc /\ o \in Outcomes
      /\ o = "verified" => current = "executing" /\ ledger.manifest = "verified"
      /\ o = "abstained" => current = "executing" \/ ledger.status = current
      /\ ledger.status \in Phases
  BY <1>1, BeforeOutcome
     DEF EmitVerdict, StatusKnown, DecisionKnown, ShortPc, Outcomes, Phases,
         NormalPc, UndecidedPc, IntakePc, PlanningPc, ExecutingPc, VerifyingPc
<1>3. terminal = "none" /\ emitted = <<>> /\ result = "pending"
  BY <1>2, BeforeOutcome, OutcomeOfNormalFlow
<1>4. CASE Lose /\ Interrupt("error")
  BY <1>2, <1>4, Interrupted DEF Lose, IInv, TypeOK
<1>5. CASE /\ Store(Outcome(o)) /\ terminal' = o
           /\ UNCHANGED <<entry, current, decided, result>>
           /\ \/ pc' = next /\ UNCHANGED <<exc, late>>
              \/ pc' = "handler" /\ exc' = "cancelled" /\ late' = TRUE
  <2>1. /\ ledger' \in LedgerView /\ ledger'.status = ledger.status
        /\ ledger'.begun = ledger.begun /\ ledger'.manifest = ledger.manifest
        /\ emitted' = <<o>> /\ lost' = lost
    BY <1>2, <1>3, <1>5, BeforeOutcome, StoreOutcome, AppendToEmpty
  <2>2. TypeOK'
    <3>1. emitted' \in Seq(Outcomes)
      BY <1>2, <2>1
    <3>2. terminal' \in Outcomes \cup {"none"} /\ pc' \in Pcs
      BY <1>1, <1>2, <1>5 DEF Pcs, NormalPc, HandlerPc
    <3>3. QED
      BY <1>5, <2>1, <3>1, <3>2, BeforeOutcome DEF TypeOK
  <2>3. StatusKnown' /\ DecisionKnown'
    BY <1>1, <1>2, <1>5, <2>1, BeforeOutcome
       DEF StatusKnown, DecisionKnown, IntakePc, PlanningPc, ExecutingPc,
           VerifyingPc, ShortPc, Outcomes
  <2>4. OutcomeKnown'
    BY <1>1, <1>2, <1>5, <2>1
       DEF OutcomeKnown, UndecidedPc, IntakePc, PlanningPc, ExecutingPc,
           VerifyingPc, Outcomes
  <2>5. HandlerLag' /\ LeavingKnown'
    BY <1>1, <1>2, <1>3, <1>5, <2>1
       DEF HandlerLag, LeavingKnown, LeavingPc, Outcomes
  <2>6. TerminalStatusIsOutcome' /\ VerdictRestsOnEvidence'
    BY <1>2, <2>1 DEF TerminalStatusIsOutcome, VerdictRestsOnEvidence, Phases, Outcomes
  <2>7. QED
    BY <2>2, <2>3, <2>4, <2>5, <2>6 DEF IInv
<1>6. QED
  BY <1>1, <1>4, <1>5 DEF EmitVerdict, locals

\* The status of the outcome, and the return.
LEMMA LastStatus ==
  ASSUME IInv, NEW at \in {"reject_status", "short_route", "final"}, NEW from,
         EmitLastStatus(at, terminal, from)
  PROVE  IInv'
<1>1. /\ pc = at /\ pc \in NormalPc /\ terminal \in Outcomes
      /\ emitted = <<terminal>>
  BY BeforeOutcome, OutcomeOfNormalFlow
     DEF EmitLastStatus, IInv, OutcomeKnown, DecisionKnown, ShortPc, NormalPc, Outcomes
<1>2. CASE InterruptedEmit(Status(terminal))
  BY <1>1, <1>2, InterruptedStatus DEF Outcomes, Statuses
<1>3. CASE IllegalStatus
  BY <1>1, <1>3, Thrown DEF IllegalStatus, NoEvent, IInv, TypeOK
<1>4. CASE /\ Store(Status(terminal)) /\ Return(terminal)
           /\ UNCHANGED <<entry, decided, exc, current, terminal, late>>
  <2>1. /\ ledger' \in LedgerView /\ ledger'.status = terminal
        /\ ledger'.begun = ledger.begun /\ ledger'.manifest = ledger.manifest
        /\ emitted' = emitted /\ lost' = lost
    BY <1>1, <1>4, BeforeOutcome, StoreStatus DEF Statuses
  <2>2. pc' \in {"closing", "done"} /\ result' = terminal
    BY <1>4 DEF Return
  <2>3. TypeOK'
    BY <1>1, <1>4, <2>1, <2>2, BeforeOutcome DEF TypeOK, Pcs
  <2>4. StatusKnown' /\ DecisionKnown'
    BY <2>2 DEF StatusKnown, DecisionKnown, IntakePc, PlanningPc, ExecutingPc,
                VerifyingPc, ShortPc
  <2>5. OutcomeKnown' /\ HandlerLag'
    BY <1>1, <1>4, <2>1, <2>2
       DEF OutcomeKnown, HandlerLag, LeavingPc, UndecidedPc, IntakePc,
           PlanningPc, ExecutingPc, VerifyingPc, Outcomes
  <2>6. LeavingKnown'
    BY <1>1, <2>1, <2>2 DEF LeavingKnown, LeavingPc
  <2>7. TerminalStatusIsOutcome' /\ VerdictRestsOnEvidence'
    BY <1>1, <2>1 DEF IInv, TerminalStatusIsOutcome, VerdictRestsOnEvidence
  <2>8. QED
    BY <2>3, <2>4, <2>5, <2>6, <2>7 DEF IInv
<1>5. QED
  BY <1>1, <1>2, <1>3, <1>4 DEF EmitLastStatus

\* The rejection and the verdict both end the run with the status of its outcome.
LEMMA LastStatusKeepsInv ==
  ASSUME IInv, RejectStatus \/ FinalStatus
  PROVE  IInv'
<1>1. CASE RejectStatus
  BY <1>1, LastStatus DEF RejectStatus, EmitLastStatus, IInv, OutcomeKnown
<1>2. CASE FinalStatus
  BY <1>2, LastStatus DEF FinalStatus, EmitLastStatus, IInv, OutcomeKnown
<1>3. QED
  BY <1>1, <1>2

\* One hop of the detour, or the last status.
LEMMA ShortRouteKeepsInv ==
  ASSUME IInv, ShortRoute
  PROVE  IInv'
<1>1. /\ pc = "short_route" /\ pc \in NormalPc /\ terminal = decided
      /\ decided \in {"failed", "abstained"} /\ ledger.status = current
      /\ emitted = <<terminal>> /\ result = "pending"
  BY BeforeOutcome, OutcomeOfNormalFlow
     DEF ShortRoute, EmitLastStatus, EmitStatus, IInv, StatusKnown, OutcomeKnown,
         DecisionKnown, ShortPc, NormalPc
<1>2. CASE NextHop(current, decided) = decided
  BY <1>1, <1>2, LastStatus DEF ShortRoute
<1>3. CASE NextHop(current, decided) # decided
  <2>1. /\ current = "executing" /\ decided = "abstained"
        /\ EmitStatus("short_route", "verifying", current, "short_route", "verifying")
    BY <1>3 DEF ShortRoute, NextHop
  <2>2. CASE InterruptedEmit(Status("verifying"))
    BY <1>1, <2>1, <2>2, InterruptedStatus DEF Phases, Statuses
  <2>3. CASE IllegalStatus
    BY <1>1, <2>3, Thrown DEF IllegalStatus, NoEvent, IInv, TypeOK
  <2>4. CASE /\ Store(Status("verifying")) /\ pc' = "short_route"
             /\ current' = "verifying" /\ UNCHANGED <<locals, terminal, late>>
    <3>1. /\ ledger' \in LedgerView /\ ledger'.status = "verifying"
          /\ ledger'.begun = ledger.begun /\ ledger'.manifest = ledger.manifest
          /\ emitted' = emitted /\ lost' = lost
      BY <2>4, BeforeOutcome, StoreStatus DEF Statuses, Phases
    <3>2. TypeOK'
      BY <2>4, <3>1, BeforeOutcome DEF TypeOK, Pcs, NormalPc, Phases, locals
    <3>3. StatusKnown' /\ DecisionKnown' /\ OutcomeKnown' /\ HandlerLag'
      BY <1>1, <2>1, <2>4, <3>1
         DEF StatusKnown, DecisionKnown, OutcomeKnown, HandlerLag, locals, ShortPc,
             UndecidedPc, IntakePc, PlanningPc, ExecutingPc, VerifyingPc, LeavingPc
    <3>4. LeavingKnown' /\ TerminalStatusIsOutcome' /\ VerdictRestsOnEvidence'
      BY <1>1, <2>4, <3>1
         DEF IInv, LeavingKnown, LeavingPc, TerminalStatusIsOutcome,
             VerdictRestsOnEvidence, locals, Outcomes
    <3>5. QED
      BY <3>2, <3>3, <3>4 DEF IInv
  <2>5. QED
    BY <2>1, <2>2, <2>3, <2>4 DEF EmitStatus
<1>4. QED
  BY <1>2, <1>3

-----------------------------------------------------------------------------
(* The handler *)

\* The handler emits an outcome only if none was persisted before it.
LEMMA PersistOutcomeKeepsInv ==
  ASSUME IInv, PersistOutcome
  PROVE  IInv'
<1>1. pc = "handler" /\ UNCHANGED <<entry, decided, exc, result, current, terminal, late>>
  BY DEF PersistOutcome, locals
<1>2. result = "pending" /\ pc' \in {"fail_status", "fail_return"}
  BY <1>1 DEF PersistOutcome, IInv, LeavingKnown
<1>3. ledger' \in LedgerView /\ ledger'.status = ledger.status
      /\ ledger'.begun = ledger.begun /\ ledger'.manifest = ledger.manifest
      /\ lost' \in BOOLEAN
  BY BeforeOutcome, StoreOutcome DEF PersistOutcome, NoEvent, Lose, TypeOK, Outcomes
<1>4. IF terminal # "none"
      THEN emitted' = <<terminal>> /\ pc' = "fail_status"
      ELSE \/ emitted' = <<"failed">> /\ pc' = "fail_status"
           \/ emitted' = <<>> /\ pc' = "fail_return" /\ lost'
  <2>1. terminal # "none" => emitted = <<terminal>>
    BY DEF IInv, OutcomeKnown
  <2>2. terminal = "none" => emitted = <<>>
    BY <1>1 DEF IInv, OutcomeKnown, LeavingPc
  <2>3. Store(Outcome("failed")) => emitted' = Append(emitted, "failed")
    BY BeforeOutcome, StoreOutcome DEF Outcomes
  <2>4. CASE terminal # "none"
    BY <2>1, <2>4 DEF PersistOutcome, NoEvent
  <2>5. CASE terminal = "none"
    BY <2>2, <2>3, <2>5, AppendToEmpty DEF PersistOutcome, Lose
  <2>6. QED
    BY <2>4, <2>5
<1>5. emitted = <<>> \/ emitted' = emitted
  BY <1>1, <1>4 DEF IInv, OutcomeKnown, LeavingPc
<1>6. TypeOK'
  <2>1. terminal # "none" => terminal \in Outcomes
    BY BeforeOutcome DEF TypeOK
  <2>2. \E o \in Outcomes : emitted' \in {<<>>, <<o>>}
    BY <1>4, <2>1 DEF Outcomes
  <2>3. emitted' \in Seq(Outcomes)
    <3>1. <<>> \in Seq(Outcomes) /\ \A o \in Outcomes : <<o>> \in Seq(Outcomes)
      OBVIOUS
    <3>2. QED
      BY <2>2, <3>1
  <2>4. QED
    BY <1>1, <1>2, <1>3, <2>3, BeforeOutcome DEF TypeOK, Pcs, HandlerPc
<1>7. StatusKnown' /\ DecisionKnown' /\ HandlerLag'
  BY <1>1, <1>2, <1>3
     DEF IInv, StatusKnown, DecisionKnown, HandlerLag, IntakePc, PlanningPc,
         ExecutingPc, VerifyingPc, ShortPc
<1>8. OutcomeKnown'
  BY <1>1, <1>2, <1>4
     DEF OutcomeKnown, LeavingPc, UndecidedPc, IntakePc, PlanningPc, ExecutingPc,
         VerifyingPc
<1>9. LeavingKnown'
  BY <1>1, <1>2, <1>4 DEF LeavingKnown, LeavingPc, Outcomes
<1>10. TerminalStatusIsOutcome'
  <2>1. ledger.status \in Outcomes => emitted # <<>>
    BY AppendToEmpty DEF IInv, TerminalStatusIsOutcome
  <2>2. QED
    BY <1>3, <1>5, <2>1 DEF IInv, TerminalStatusIsOutcome
<1>11. VerdictRestsOnEvidence'
  <2>1. CASE emitted' = emitted
    BY <1>3, <2>1 DEF IInv, VerdictRestsOnEvidence
  <2>2. CASE emitted' # emitted
    BY <1>4, <2>2, <1>5 DEF VerdictRestsOnEvidence, IInv, OutcomeKnown
  <2>3. QED
    BY <2>1, <2>2
<1>12. QED
  BY <1>6, <1>7, <1>8, <1>9, <1>10, <1>11 DEF IInv

\* The handler's status is that of the outcome, or is never stored.
LEMMA PersistStatusKeepsInv ==
  ASSUME IInv, PersistStatus
  PROVE  IInv'
<1>1. /\ pc = "fail_status" /\ pc' = "fail_return"
      /\ UNCHANGED <<entry, decided, exc, result, current, terminal, late, emitted>>
  BY BeforeOutcome, StoreStatus
     DEF PersistStatus, locals, Lose, NoEvent, FailureOutcome, TypeOK, Statuses, Outcomes
<1>2. emitted = <<FailureOutcome>> /\ FailureOutcome \in Outcomes
  BY <1>1, BeforeOutcome DEF IInv, OutcomeKnown, FailureOutcome, TypeOK, Outcomes
<1>3. /\ ledger' \in LedgerView /\ ledger'.status \in {ledger.status, FailureOutcome}
      /\ ledger'.begun = ledger.begun /\ ledger'.manifest = ledger.manifest
      /\ lost' \in BOOLEAN
  BY <1>2, BeforeOutcome, StoreStatus DEF PersistStatus, Lose, NoEvent, TypeOK, Statuses
<1>4. TypeOK'
  BY <1>1, <1>3, BeforeOutcome DEF TypeOK, Pcs, HandlerPc
<1>5. StatusKnown' /\ DecisionKnown' /\ HandlerLag'
  BY <1>1 DEF StatusKnown, DecisionKnown, HandlerLag, IntakePc, PlanningPc,
              ExecutingPc, VerifyingPc, ShortPc
<1>6. OutcomeKnown' /\ LeavingKnown'
  BY <1>1, <1>2
     DEF IInv, OutcomeKnown, LeavingKnown, LeavingPc, UndecidedPc, IntakePc,
         PlanningPc, ExecutingPc, VerifyingPc, Outcomes
<1>7. TerminalStatusIsOutcome' /\ VerdictRestsOnEvidence'
  BY <1>1, <1>2, <1>3 DEF IInv, TerminalStatusIsOutcome, VerdictRestsOnEvidence
<1>8. QED
  BY <1>4, <1>5, <1>6, <1>7 DEF IInv

\* Leaving the handler and closing the gateway touch only what the caller gets.
LEMMA LeaveKeepsInv ==
  ASSUME IInv, LeaveHandler \/ CloseGateway
  PROVE  IInv'
<1>1. /\ pc \in {"fail_return", "closing"} /\ pc' \in {"closing", "done"}
      /\ UNCHANGED <<entry, decided, exc, current, terminal, late, ledger, emitted, lost>>
  BY DEF LeaveHandler, CloseGateway, Return, NoEvent
<1>2. \/ result' \in {"cancelled", result}
      \/ pc = "fail_return" /\ result' = FailureOutcome
  <2>1. CASE LeaveHandler
    BY <2>1 DEF LeaveHandler, Return, FailureReturn
  <2>2. CASE CloseGateway
    BY <2>2 DEF CloseGateway
  <2>3. QED
    BY <2>1, <2>2
<1>3. pc = "fail_return" =>
        emitted \in {<<>>, <<FailureOutcome>>} /\ FailureOutcome \in Outcomes
  BY <1>1, BeforeOutcome DEF IInv, OutcomeKnown, FailureOutcome, TypeOK, Outcomes
<1>4. TypeOK'
  BY <1>1, <1>2, <1>3, BeforeOutcome DEF TypeOK, Pcs
<1>5. StatusKnown' /\ DecisionKnown' /\ HandlerLag'
  BY <1>1 DEF StatusKnown, DecisionKnown, HandlerLag, IntakePc, PlanningPc,
              ExecutingPc, VerifyingPc, ShortPc
<1>6. OutcomeKnown'
  BY <1>1 DEF IInv, OutcomeKnown, LeavingPc, UndecidedPc, IntakePc, PlanningPc,
              ExecutingPc, VerifyingPc
<1>7. LeavingKnown'
  BY <1>1, <1>2, <1>3 DEF IInv, LeavingKnown, LeavingPc, Outcomes
<1>8. TerminalStatusIsOutcome' /\ VerdictRestsOnEvidence'
  BY <1>1 DEF IInv, TerminalStatusIsOutcome, VerdictRestsOnEvidence
<1>9. QED
  BY <1>4, <1>5, <1>6, <1>7, <1>8 DEF IInv

-----------------------------------------------------------------------------
(* The theorems *)

\* A run that has not started satisfies the invariant.
LEMMA InitInv == Init => IInv
<1>1. SUFFICES ASSUME Init PROVE IInv
  OBVIOUS
<1>2. TypeOK
  <2>1. ledger \in LedgerView
    BY <1>1 DEF Init, LedgerView, Statuses, Phases
  <2>2. emitted \in Seq(Outcomes)
    BY <1>1 DEF Init
  <2>3. QED
    BY <1>1, <2>1, <2>2 DEF Init, TypeOK, Phases, Pcs
<1>3. StatusKnown /\ DecisionKnown /\ OutcomeKnown /\ HandlerLag /\ LeavingKnown
  BY <1>1
     DEF Init, StatusKnown, DecisionKnown, OutcomeKnown, HandlerLag, LeavingKnown,
         IntakePc, PlanningPc, ExecutingPc, VerifyingPc, ShortPc, UndecidedPc,
         LeavingPc, Outcomes
<1>4. TerminalStatusIsOutcome /\ VerdictRestsOnEvidence
  BY <1>1 DEF Init, TerminalStatusIsOutcome, VerdictRestsOnEvidence, Outcomes
<1>5. QED
  BY <1>2, <1>3, <1>4 DEF IInv

\* Steps of the rest of the process leave the run as it is.
LEMMA StutterKeepsInv ==
  ASSUME IInv, UNCHANGED vars
  PROVE  IInv'
  BY DEF vars, IInv, TypeOK, StatusKnown, DecisionKnown, OutcomeKnown, HandlerLag,
         LeavingKnown, TerminalStatusIsOutcome, VerdictRestsOnEvidence

\* IInv is inductive: one lemma per kind of step.
LEMMA NextInv == IInv /\ [Next]_vars => IInv'
<1>1. SUFFICES ASSUME IInv, [Next]_vars PROVE IInv'
  OBVIOUS
<1>2. CASE Prologue
  BY <1>1, <1>2, StartKeepsInv, UnstartedKeepsInv, PlainKeepsInv, StageKeepsInv,
     PhaseKeepsInv, OutcomeKeepsInv, LastStatusKeepsInv DEF Prologue
<1>3. CASE Execution
  BY <1>1, <1>3, StageKeepsInv, PlainKeepsInv, ManifestKeepsInv, OutcomeKeepsInv,
     ShortRouteKeepsInv DEF Execution
<1>4. CASE Verification
  BY <1>1, <1>4, PlainKeepsInv, PhaseKeepsInv, StageKeepsInv, ManifestKeepsInv,
     OutcomeKeepsInv, LastStatusKeepsInv DEF Verification
<1>5. CASE Teardown
  BY <1>1, <1>5, PersistOutcomeKeepsInv, PersistStatusKeepsInv, LeaveKeepsInv
     DEF Teardown
<1>6. CASE Finished \/ UNCHANGED vars
  BY <1>1, <1>6, StutterKeepsInv DEF Finished
<1>7. QED
  BY <1>1, <1>2, <1>3, <1>4, <1>5, <1>6 DEF Next

\* The inductive invariant holds at every await of every run.
THEOREM Invariance == Spec => []IInv
  BY InitInv, NextInv, PTL DEF Spec

\* Every variable of a run keeps its type.
THEOREM TypeCorrect == Spec => []TypeOK
<1>1. IInv => TypeOK
  BY DEF IInv
<1>2. QED
  BY <1>1, Invariance, PTL

\* At most one outcome is ever emitted for a run: the failure handler knows of
\* an outcome persisted before the cancellation that brought it there.
THEOREM AtMostOneOutcome == Spec => []OneOutcome
<1>1. IInv => OneOutcome
  <2>1. \A o : Len(<<>>) <= 1 /\ Len(<<o>>) <= 1
    OBVIOUS
  <2>2. QED
    BY <2>1 DEF IInv, OutcomeKnown, OneOutcome
<1>2. QED
  BY <1>1, Invariance, PTL

\* No terminal status without the outcome of that name persisted before it.
THEOREM TerminalStatusBacked == Spec => []TerminalStatusIsOutcome
<1>1. IInv => TerminalStatusIsOutcome
  BY DEF IInv
<1>2. QED
  BY <1>1, Invariance, PTL

\* No verified outcome without a persisted manifest that says verified.
THEOREM VerifiedOnEvidence == Spec => []VerdictRestsOnEvidence
<1>1. IInv => VerdictRestsOnEvidence
  BY DEF IInv
<1>2. QED
  BY <1>1, Invariance, PTL

\* The caller's outcome never contradicts the ledger's.
THEOREM ReturnAgrees == Spec => []ReturnAgreesWithLedger
<1>1. IInv => ReturnAgreesWithLedger
  BY DEF IInv, LeavingKnown, ReturnAgreesWithLedger
<1>2. QED
  BY <1>1, Invariance, PTL

\* With working appends every begun run is left with an outcome in its ledger.
THEOREM OutcomeRecorded == Spec => []OutcomeAlwaysRecorded
<1>1. IInv => OutcomeAlwaysRecorded
  BY DEF IInv, LeavingKnown, LeavingPc, OutcomeAlwaysRecorded
<1>2. QED
  BY <1>1, Invariance, PTL

-----------------------------------------------------------------------------
(* The terminal status *)

\* The handler an undisturbed run reaches has no outcome to reckon with, so that it
\* stores one and then its status; whoever leaves has a terminal status.
Settling ==
  /\ pc \in HandlerPc \ {"fail_return"} /\ ~late => terminal = "none"
  /\ pc \in LeavingPc /\ ledger.begun /\ ~lost /\ ~late => ledger.status \in Outcomes

\* In the normal flow there is nothing to show.
LEMMA SettlingInFlow == pc' \in NormalPc => Settling'
BY DEF Settling, NormalPc, HandlerPc, LeavingPc

\* An exception that finds an outcome is late.
LEMMA SettlingInterrupted ==
  ASSUME NEW kind, Interrupt(kind)
  PROVE  Settling'
BY DEF Interrupt, Throw, Settling, HandlerPc, LeavingPc

LEMMA SettlingInterruptedEmit ==
  ASSUME NEW e, InterruptedEmit(e)
  PROVE  Settling'
BY SettlingInterrupted DEF InterruptedEmit

LEMMA SettlingPlain ==
  ASSUME NEW at, NEW next \in NormalPc, NEW e,
         Emit(at, e, next) \/ Proceed(at, next) \/ Fails(at) \/ EmitVerdict(at, e, next)
  PROVE  Settling'
<1>1. CASE Emit(at, e, next)
  BY <1>1, SettlingInFlow, SettlingInterruptedEmit DEF Emit
<1>2. CASE Proceed(at, next)
  BY <1>2, SettlingInFlow DEF Proceed
<1>3. CASE Fails(at)
  BY <1>3, SettlingInterrupted DEF Fails
<1>4. CASE EmitVerdict(at, e, next)
  <2>1. pc' = next \/ Interrupt("error") \/ (pc' = "handler" /\ late')
    BY <1>4 DEF EmitVerdict
  <2> QED
    BY <2>1, SettlingInFlow, SettlingInterrupted DEF Settling, HandlerPc, LeavingPc
<1> QED
  BY <1>1, <1>2, <1>3, <1>4

\* A status the table refuses is refused before there is an outcome.
LEMMA SettlingStatus ==
  ASSUME NEW at, NEW s, NEW from, NEW next \in NormalPc, NEW cur,
         EmitStatus(at, s, from, next, cur), CanTransition(from, s) \/ terminal = "none"
  PROVE  Settling'
<1>1. CASE CanTransition(from, s)
  BY <1>1, SettlingInFlow, SettlingInterruptedEmit DEF EmitStatus
<1>2. CASE ~CanTransition(from, s)
  BY <1>2 DEF EmitStatus, IllegalStatus, Throw, Settling, HandlerPc, LeavingPc
<1> QED
  BY <1>1, <1>2

LEMMA SettlingLastStatus ==
  ASSUME TypeOK, NEW at, NEW s \in Outcomes, NEW from,
         EmitLastStatus(at, s, from), CanTransition(from, s)
  PROVE  Settling'
<1>1. CASE InterruptedEmit(Status(s))
  BY <1>1, SettlingInterruptedEmit
<1>2. CASE Store(Status(s)) /\ Return(s)
  <2>1. ledger'.status = s
    BY <1>2, StoreStatus DEF Statuses
  <2>2. pc' \in {"closing", "done"}
    BY <1>2 DEF Return
  <2> QED
    BY <2>1, <2>2 DEF Settling, HandlerPc
<1> QED
  BY <1>1, <1>2 DEF EmitLastStatus

LEMMA SettlingPrologue ==
  ASSUME IInv, Prologue
  PROVE  Settling'
<1>1. CASE Start \/ AcceptRequest \/ Compile \/ ReplaySource \/ Plan \/ RejectGraph
           \/ RejectOutcome \/ AcceptGraph
  <2>1. {"accept", "compile", "replay", "contracted", "graph", "reject", "reject_outcome",
         "reject_status", "planned"} \subseteq NormalPc
    BY DEF NormalPc
  <2> QED
    BY <1>1, <2>1, SettlingPlain
       DEF Start, AcceptRequest, Compile, ReplaySource, Plan, RejectGraph, RejectOutcome,
           AcceptGraph
<1>2. CASE CancelUnstarted \/ RefuseResume
  <2>1. pc' = "done" /\ ledger' = ledger /\ ~ledger.begun
    BY <1>2 DEF CancelUnstarted, RefuseResume, NoEvent, IInv, LeavingKnown
  <2> QED
    BY <2>1 DEF Settling, HandlerPc
<1>3. CASE Contracted \/ Planned \/ Executing
  <2>1. terminal = "none"
    BY <1>3 DEF Contracted, Planned, Executing, EmitStatus, IInv, OutcomeKnown,
                UndecidedPc, IntakePc, PlanningPc
  <2>2. {"plan", "planned", "executing", "cells"} \subseteq NormalPc
    BY DEF NormalPc
  <2> QED
    BY <1>3, <2>1, <2>2, SettlingStatus DEF Contracted, Planned, Executing
<1>4. CASE RejectStatus
  <2>1. current = "contracted"
    BY <1>4 DEF RejectStatus, EmitLastStatus, IInv, StatusKnown, PlanningPc
  <2>2. CanTransition(current, "abstained") /\ "abstained" \in Outcomes
    BY <2>1 DEF CanTransition, Phases, Outcomes
  <2> QED
    BY <1>4, <2>2, SettlingLastStatus DEF RejectStatus, IInv
<1> QED
  BY <1>1, <1>2, <1>3, <1>4 DEF Prologue

LEMMA SettlingExecution ==
  ASSUME IInv, Execution
  PROVE  Settling'
<1>0. {"budget", "short_evidence", "exhausted", "stalled", "short_outcome", "short_route"}
        \subseteq NormalPc
  BY DEF NormalPc
<1>1. CASE ExecuteCells
  <2>1. pc' \in NormalPc \/ Fails("cells")
    BY <1>0, <1>1 DEF ExecuteCells, Proceed, ShortCircuit
  <2> QED
    BY <2>1, <1>0, SettlingInFlow, SettlingPlain
<1>2. CASE BudgetExhausted \/ StallDetected \/ ShortEvidence \/ ShortOutcome
  BY <1>0, <1>2, SettlingPlain DEF BudgetExhausted, StallDetected, ShortEvidence, ShortOutcome
<1>3. CASE ShortRoute
  <2> DEFINE hop == NextHop(current, decided)
  <2>1. /\ pc = "short_route"
        /\ \/ hop = decided /\ EmitLastStatus("short_route", hop, current)
           \/ hop # decided /\ EmitStatus("short_route", hop, current, "short_route", hop)
    BY <1>3 DEF ShortRoute, EmitLastStatus, EmitStatus
  <2>2. /\ decided \in {"failed", "abstained"}
        /\ \/ current = "executing"
           \/ current = "verifying" /\ decided = "abstained"
    <3>1. pc = "short_route" /\ pc \in ShortPc
      BY <2>1 DEF ShortPc
    <3>2. decided \in {"failed", "abstained"}
      BY <3>1 DEF IInv, DecisionKnown
    <3>3. current = "executing" \/ (current = "verifying" /\ decided = "abstained")
      BY <3>1 DEF IInv, StatusKnown
    <3> QED
      BY <3>2, <3>3
  <2>3. CanTransition(current, hop)
    BY <2>2 DEF NextHop, CanTransition, Phases, Successor
  <2>4. hop = decided => hop \in Outcomes
    BY <2>2 DEF Outcomes
  <2> HIDE DEF hop
  <2> QED
    BY <1>0, <2>1, <2>3, <2>4, SettlingStatus, SettlingLastStatus DEF IInv
<1> QED
  BY <1>1, <1>2, <1>3 DEF Execution

LEMMA SettlingVerification ==
  ASSUME IInv, Verification
  PROVE  Settling'
<1>0. {"verifying", "verify", "evidence", "outcome", "final"} \subseteq NormalPc
  BY DEF NormalPc
<1>1. CASE UpdateBudget \/ RecordEvidence \/ EmitOutcome
  BY <1>0, <1>1, SettlingPlain DEF UpdateBudget, RecordEvidence, EmitOutcome
<1>2. CASE Verifying
  <2>1. terminal = "none"
    BY <1>2 DEF Verifying, EmitStatus, IInv, OutcomeKnown, UndecidedPc, ExecutingPc
  <2> QED
    BY <1>0, <1>2, <2>1, SettlingStatus DEF Verifying
<1>3. CASE Verify
  <2>1. pc' \in NormalPc \/ Fails("verify")
    BY <1>0, <1>3 DEF Verify, ShortCircuit
  <2> QED
    BY <1>0, <2>1, SettlingInFlow, SettlingPlain
<1>4. CASE FinalStatus
  <2>1. decided \in Outcomes
    BY <1>4 DEF FinalStatus, EmitLastStatus, IInv, DecisionKnown
  <2>2. CanTransition("verifying", decided)
    BY <2>1 DEF CanTransition, Phases, Successor, Outcomes
  <2> QED
    BY <1>4, <2>1, <2>2, SettlingLastStatus DEF FinalStatus, IInv
<1> QED
  BY <1>1, <1>2, <1>3, <1>4 DEF Verification

LEMMA SettlingTeardown ==
  ASSUME IInv, Settling, Teardown
  PROVE  Settling'
<1>1. CASE PersistOutcome
  <2>1. /\ pc = "handler" /\ late' = late /\ terminal' = terminal
        /\ terminal = "none" => pc' = "fail_status" \/ (pc' = "fail_return" /\ lost')
        /\ terminal # "none" => pc' = "fail_status"
    BY <1>1 DEF PersistOutcome, Lose
  <2> QED
    BY <2>1 DEF Settling, HandlerPc, LeavingPc
<1>2. CASE PersistStatus
  <2>1. pc = "fail_status" /\ pc' = "fail_return" /\ late' = late
    BY <1>2 DEF PersistStatus
  <2>2. SUFFICES ASSUME ~late, ~lost' PROVE ledger'.status \in Outcomes
    BY <2>1 DEF Settling, HandlerPc
  <2>3. FailureOutcome = "failed"
    BY <2>1, <2>2 DEF Settling, HandlerPc, FailureOutcome
  <2>4. CanTransition(current, "failed")
    BY DEF IInv, TypeOK, CanTransition
  <2>5. Store(Status("failed"))
    BY <1>2, <2>2, <2>3, <2>4 DEF PersistStatus, Lose
  <2> QED
    BY <2>5, StoreStatus DEF IInv, Statuses, Outcomes
<1>3. CASE LeaveHandler \/ CloseGateway
  <2>1. /\ pc \in LeavingPc /\ pc' \in {"closing", "done"}
        /\ UNCHANGED <<ledger, lost, late, terminal>>
    BY <1>3 DEF LeaveHandler, CloseGateway, Return, NoEvent, LeavingPc
  <2> QED
    BY <2>1 DEF Settling, HandlerPc, LeavingPc
<1> QED
  BY <1>1, <1>2, <1>3 DEF Teardown

\* With working appends a run ends with a terminal status, unless the exception that
\* ended it struck once its outcome was known (orchestrator.py:355-366, 851-871).
THEOREM UndisturbedSettles == Spec => []UndisturbedRunSettles
<1>1. Init => Settling
  BY DEF Init, Settling, HandlerPc, LeavingPc
<1>2. IInv /\ Settling /\ [Next]_vars => Settling'
  <2> SUFFICES ASSUME IInv, Settling, [Next]_vars PROVE Settling'
    OBVIOUS
  <2>1. CASE UNCHANGED vars
    BY <2>1 DEF vars, Settling
  <2> QED
    BY <2>1, SettlingPrologue, SettlingExecution, SettlingVerification, SettlingTeardown
       DEF Next, Finished
<1>3. Settling => UndisturbedRunSettles
  BY DEF Settling, LeavingPc, UndisturbedRunSettles
<1> QED
  BY <1>1, <1>2, <1>3, Invariance, PTL DEF Spec

-----------------------------------------------------------------------------
(* Refinement *)

\* A step that moves neither the status nor the outcomes is a stutter.
LEMMA PromiseStutter ==
  ASSUME ledger'.status = ledger.status, emitted' = emitted
  PROVE  [Promise!Next]_Promise!promiseVars
  BY DEF Promise!promiseVars

\* A phase the transition table allows is an Advance.
LEMMA PromiseAdvance ==
  ASSUME IInv, NEW s \in Phases, Store(Status(s)), CanTransition(ledger.status, s)
  PROVE  [Promise!Next]_Promise!promiseVars
<1>1. ledger'.status = s /\ emitted' = emitted
  BY StoreStatus DEF IInv, Statuses
<1>2. Promise!Advance
  BY <1>1
     DEF Promise!Advance, Promise!Phases, Phases, Promise!CanTransition, CanTransition,
         Promise!Successor, Successor
<1>3. QED
  BY <1>2 DEF Promise!Next

\* The status of the outcome is a Settle, or was persisted before.
LEMMA PromiseSettle ==
  ASSUME IInv, NEW s \in Outcomes, Store(Status(s)), emitted = <<s>>,
         CanTransition(ledger.status, s) \/ ledger.status = s
  PROVE  [Promise!Next]_Promise!promiseVars
<1>1. ledger'.status = s /\ emitted' = emitted
  BY StoreStatus DEF IInv, Statuses
<1>2. CASE ledger.status = s
  BY <1>1, <1>2, PromiseStutter
<1>3. CASE CanTransition(ledger.status, s)
  <2>1. emitted # <<>> /\ emitted[1] = s
    BY AppendToEmpty
  <2>2. Promise!Settle
    BY <1>1, <1>3, <2>1
       DEF Promise!Settle, Promise!Outcomes, Outcomes, Promise!Phases, Phases,
           Promise!CanTransition, CanTransition, Promise!Successor, Successor
  <2>3. QED
    BY <2>2 DEF Promise!Next
<1>4. QED
  BY <1>2, <1>3

\* The first outcome, while the status is a phase, is a Pronounce.
LEMMA PromisePronounce ==
  ASSUME IInv, NEW o \in Outcomes, Store(Outcome(o)), emitted = <<>>
  PROVE  [Promise!Next]_Promise!promiseVars
<1>1. ledger'.status = ledger.status /\ emitted' = <<o>>
  BY StoreOutcome, AppendToEmpty DEF IInv
<1>2. ledger.status \in Phases
  BY AppendToEmpty DEF IInv, TypeOK, LedgerView, TerminalStatusIsOutcome, Statuses
<1>3. emitted' # <<>> /\ emitted'[1] = o
  BY <1>1, AppendToEmpty
<1>4. Promise!Pronounce
  BY <1>1, <1>2, <1>3
     DEF Promise!Pronounce, Promise!Outcomes, Outcomes, Promise!Phases, Phases
<1>5. QED
  BY <1>4 DEF Promise!Next

\* Steps that store no status and no outcome.
LEMMA QuietImplements ==
  ASSUME IInv,
         \/ Start \/ CancelUnstarted \/ RefuseResume \/ AcceptRequest \/ Compile
         \/ ReplaySource \/ Plan \/ RejectGraph \/ AcceptGraph \/ ExecuteCells
         \/ BudgetExhausted \/ StallDetected \/ ShortEvidence \/ UpdateBudget
         \/ Verify \/ RecordEvidence \/ LeaveHandler \/ CloseGateway
         \/ Finished \/ UNCHANGED vars
  PROVE  [Promise!Next]_Promise!promiseVars
<1>1. \/ UNCHANGED <<ledger, emitted>>
      \/ \E e \in {Begin, Other, Stall} : Store(e)
      \/ pc \in {"short_evidence", "evidence"} /\ Store(Evidence(decided))
  BY DEF Start, CancelUnstarted, RefuseResume, AcceptRequest, Compile,
         ReplaySource, Plan, RejectGraph, AcceptGraph, ExecuteCells,
         BudgetExhausted, StallDetected, ShortEvidence, UpdateBudget, Verify,
         RecordEvidence, LeaveHandler, CloseGateway, Finished, vars, Proceed,
         Fails, NoEvent, Emit, InterruptedEmit, Lose, ShortCircuit
<1>2. pc \in {"short_evidence", "evidence"} => decided \in Outcomes
  BY DEF IInv, DecisionKnown, ShortPc, Outcomes
<1>3. ledger'.status = ledger.status /\ emitted' = emitted
  BY <1>1, <1>2, StorePlain, StoreEvidence DEF IInv
<1>4. QED
  BY <1>3, PromiseStutter

\* Steps of the normal flow that store a status.
LEMMA StatusImplements ==
  ASSUME IInv, Contracted \/ Planned \/ Executing \/ Verifying
               \/ RejectStatus \/ FinalStatus \/ ShortRoute
  PROVE  [Promise!Next]_Promise!promiseVars
<1>1. CASE UNCHANGED <<ledger, emitted>>
  BY <1>1, PromiseStutter
<1>2. CASE Contracted \/ Planned \/ Executing \/ Verifying
  <2>1. PICK s \in Phases :
          \/ UNCHANGED <<ledger, emitted>>
          \/ Store(Status(s)) /\ CanTransition(current, s)
    BY <1>2 DEF Contracted, Planned, Executing, Verifying, EmitStatus,
                InterruptedEmit, Lose, NoEvent, IllegalStatus, Phases
  <2>2. current = ledger.status
    BY <1>2 DEF Contracted, Planned, Executing, Verifying, EmitStatus, IInv,
                StatusKnown, IntakePc, PlanningPc, ExecutingPc
  <2>3. QED
    BY <1>1, <2>1, <2>2, PromiseAdvance
<1>3. CASE RejectStatus \/ FinalStatus
  <2>1. /\ pc \in {"reject_status", "final"} /\ terminal \in Outcomes
        /\ emitted = <<terminal>>
    BY <1>3 DEF RejectStatus, FinalStatus, EmitLastStatus, IInv, OutcomeKnown,
                DecisionKnown, Outcomes
  <2>2. \/ UNCHANGED <<ledger, emitted>>
        \/ Store(Status(terminal)) /\ CanTransition(ledger.status, terminal)
    BY <1>3 DEF RejectStatus, FinalStatus, EmitLastStatus, InterruptedEmit, Lose,
                NoEvent, IllegalStatus, IInv, OutcomeKnown, StatusKnown, PlanningPc,
                VerifyingPc
  <2>3. QED
    BY <1>1, <2>1, <2>2, PromiseSettle
<1>4. CASE ShortRoute
  <2>1. /\ pc = "short_route" /\ terminal = decided /\ decided \in Outcomes
        /\ emitted = <<decided>> /\ ledger.status = current
    BY <1>4 DEF ShortRoute, EmitLastStatus, EmitStatus, IInv, OutcomeKnown,
                DecisionKnown, StatusKnown, ShortPc, Outcomes
  <2>2. \/ UNCHANGED <<ledger, emitted>>
        \/ /\ Store(Status(NextHop(current, decided)))
           /\ CanTransition(current, NextHop(current, decided))
    BY <1>4 DEF ShortRoute, EmitLastStatus, EmitStatus, InterruptedEmit, Lose, NoEvent,
                IllegalStatus
  <2>3. NextHop(current, decided) = decided \/ NextHop(current, decided) \in Phases
    BY DEF NextHop, Phases
  <2>4. QED
    BY <1>1, <2>1, <2>2, <2>3, PromiseSettle, PromiseAdvance
<1>5. QED
  BY <1>2, <1>3, <1>4

\* Steps that pronounce the outcome.
LEMMA OutcomeImplements ==
  ASSUME IInv, RejectOutcome \/ ShortOutcome \/ EmitOutcome \/ PersistOutcome
  PROVE  [Promise!Next]_Promise!promiseVars
<1>1. PICK o \in Outcomes :
        \/ UNCHANGED <<ledger, emitted>>
        \/ /\ Store(Outcome(o))
           /\ \/ pc \in UndecidedPc
              \/ pc = "handler" /\ terminal = "none"
  BY DEF RejectOutcome, ShortOutcome, EmitOutcome, EmitVerdict, PersistOutcome,
         Lose, NoEvent, IInv, DecisionKnown, ShortPc, Outcomes, UndecidedPc,
         PlanningPc, ExecutingPc, VerifyingPc
<1>2. pc \in UndecidedPc \/ (pc = "handler" /\ terminal = "none") => emitted = <<>>
  BY DEF IInv, OutcomeKnown, UndecidedPc, LeavingPc, IntakePc, PlanningPc,
         ExecutingPc, VerifyingPc
<1>3. QED
  BY <1>1, <1>2, PromiseStutter, PromisePronounce

\* The handler's status is legal for the ledger whenever the handler thinks it is.
LEMMA HandlerImplements ==
  ASSUME IInv, PersistStatus
  PROVE  [Promise!Next]_Promise!promiseVars
<1>1. /\ pc = "fail_status" /\ FailureOutcome \in Outcomes
      /\ emitted = <<FailureOutcome>>
  BY DEF PersistStatus, IInv, OutcomeKnown, FailureOutcome, TypeOK, Outcomes
<1>2. \/ UNCHANGED <<ledger, emitted>>
      \/ Store(Status(FailureOutcome)) /\ CanTransition(current, FailureOutcome)
  BY DEF PersistStatus, Lose, NoEvent
<1>3. CanTransition(current, FailureOutcome) =>
        CanTransition(ledger.status, FailureOutcome) \/ ledger.status = FailureOutcome
  <2>1. CASE ledger.status \in Outcomes
    <3>1. emitted = <<ledger.status>>
      BY <2>1 DEF IInv, TerminalStatusIsOutcome
    <3>2. QED
      BY <1>1, <3>1, AppendToEmpty
  <2>2. CASE ledger.status \in Phases
    BY <1>1, <2>2 DEF IInv, HandlerLag, FailureOutcome, CanTransition, Successor,
                      Phases, Outcomes
  <2>3. QED
    BY <2>1, <2>2 DEF IInv, TypeOK, LedgerView, Statuses
<1>4. QED
  BY <1>1, <1>2, <1>3, PromiseStutter, PromiseSettle

\* Company implements RunPromise: whatever is cancelled and whatever append
\* fails, its ledger shows one verdict, a status that moves along the transition
\* table, and a terminal status only after and only as that verdict.
THEOREM Implements == Spec => KeepsRunPromise
<1>1. Init => Promise!Init
  BY DEF Init, Promise!Init
<1>2. IInv /\ [Next]_vars => [Promise!Next]_Promise!promiseVars
  <2>1. SUFFICES ASSUME IInv, [Next]_vars
                 PROVE  [Promise!Next]_Promise!promiseVars
    OBVIOUS
  <2>2. CASE Prologue
    BY <2>1, <2>2, QuietImplements, StatusImplements, OutcomeImplements DEF Prologue
  <2>3. CASE Execution
    BY <2>1, <2>3, QuietImplements, StatusImplements, OutcomeImplements DEF Execution
  <2>4. CASE Verification
    BY <2>1, <2>4, QuietImplements, StatusImplements, OutcomeImplements DEF Verification
  <2>5. CASE Teardown
    BY <2>1, <2>5, QuietImplements, OutcomeImplements, HandlerImplements DEF Teardown
  <2>6. CASE Finished \/ UNCHANGED vars
    BY <2>1, <2>6, QuietImplements
  <2>7. QED
    BY <2>1, <2>2, <2>3, <2>4, <2>5, <2>6 DEF Next
<1>3. QED
  BY <1>1, <1>2, Invariance, PTL DEF Spec, KeepsRunPromise, Promise!Spec
=============================================================================
