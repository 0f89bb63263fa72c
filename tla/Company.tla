------------------------------- MODULE Company -------------------------------
(***************************************************************************)
(* One run of Company.run_async or Company.resume_async                    *)
(* (application/orchestrator.py): the single coroutine that writes a run's *)
(* status, evidence and outcome to the ledger, from its first event to its *)
(* return, with                                                            *)
(*   - a cancellation (POST /stop, shutdown, Ctrl-C) at any await, any     *)
(*     number of times;                                                    *)
(*   - an append that fails (locked database, closed ledger, full disk);   *)
(*   - an exception of any stage.                                          *)
(* The stages between two events (compile, plan, cells, verification) are  *)
(* abstracted to what they hand back to this coroutine.                    *)
(*                                                                         *)
(* EventStream.emit_async shields the append: a cancelled caller is told   *)
(* so only after the append has ended, so "cancelled" and "persisted" go   *)
(* together or not at the whim of the append alone.                        *)
(***************************************************************************)
EXTENDS RunStatus, Naturals, Sequences

VARIABLES
  entry,     \* which of the two entry points drives the run
  pc,        \* the await the coroutine stands at
  current,   \* local current_status
  decided,   \* local cell_outcome or verdict.outcome, "none" before either
  terminal,  \* local terminal_outcome, "none" for None
  exc,       \* the exception the handler is serving: "none", "cancelled", "error"
  result,    \* what the caller gets: "pending", an outcome, "cancelled", "refused"
  ledger,    \* what the run's persisted events say (see Fold)
  emitted,   \* the OutcomeEmitted events in the ledger, in order
  lost,      \* history: some append failed
  late       \* history: a cancellation or error struck once terminal was known

vars == <<entry, pc, current, decided, terminal, exc, result, ledger, emitted,
          lost, late>>

locals == <<entry, decided, exc, result>>

Entries == {"run_async", "resume_async"}

NormalPc == {"accept", "compile", "replay", "contracted", "plan", "reject",
             "reject_outcome", "reject_status", "graph", "planned",
             "executing", "cells", "exhausted", "stalled", "short_evidence",
             "short_outcome", "short_route", "budget", "verifying", "verify",
             "evidence", "outcome", "final"}

HandlerPc == {"handler", "fail_status", "fail_return"}

Pcs == {"unstarted"} \cup NormalPc \cup HandlerPc \cup {"closing", "done"}

LedgerView == [begun      : BOOLEAN,
               status     : Statuses,
               outcome    : Outcomes \cup {"none"},
               manifest   : Outcomes \cup {"none"},
               replayable : BOOLEAN]

TypeOK ==
  /\ entry \in Entries
  /\ pc \in Pcs
  /\ current \in Phases
  /\ decided \in Outcomes \cup {"none"}
  /\ terminal \in Outcomes \cup {"none"}
  /\ exc \in {"none", "cancelled", "error"}
  /\ result \in Outcomes \cup {"pending", "cancelled", "refused"}
  /\ ledger \in LedgerView
  /\ emitted \in Seq(Outcomes)
  /\ lost \in BOOLEAN
  /\ late \in BOOLEAN

Init ==
  /\ entry \in Entries
  /\ pc = "unstarted"
  /\ current = "intake"
  /\ decided = "none"
  /\ terminal = "none"
  /\ exc = "none"
  /\ result = "pending"
  /\ ledger = [begun |-> FALSE, status |-> "intake", outcome |-> "none",
               manifest |-> "none", replayable |-> TRUE]
  /\ emitted = <<>>
  /\ lost = FALSE
  /\ late = FALSE

-----------------------------------------------------------------------------
(* Events and what replay makes of them *)

Begin        == [kind |-> "begin",    val |-> "none"]
Other        == [kind |-> "other",    val |-> "none"]
Stall        == [kind |-> "stall",    val |-> "none"]
Status(s)    == [kind |-> "status",   val |-> s]
Evidence(o)  == [kind |-> "evidence", val |-> o]
Outcome(o)   == [kind |-> "outcome",  val |-> o]

(***************************************************************************)
(* projection.fold, for the fields that matter here.  fold raises on an    *)
(* illegal StatusChanged, and the run can never be replayed again: that is *)
(* "replayable".  The status itself is that of the last event, which is    *)
(* also what the history listing reads.                                    *)
(***************************************************************************)
Fold(view, e) ==
  CASE e.kind = "begin"    -> [view EXCEPT !.begun = TRUE]
    [] e.kind = "other"    -> view
    [] e.kind = "stall"    -> [view EXCEPT !.outcome = "abstained"]
    [] e.kind = "evidence" -> [view EXCEPT !.manifest = e.val]
    [] e.kind = "outcome"  -> [view EXCEPT !.outcome = e.val]
    [] e.kind = "status"   ->
         [view EXCEPT !.status = e.val,
                      !.replayable = @ /\ CanTransition(view.status, e.val)]

Store(e) ==
  /\ ledger' = Fold(ledger, e)
  /\ emitted' = IF e.kind = "outcome" THEN Append(emitted, e.val) ELSE emitted
  /\ UNCHANGED lost

Lose == lost' = TRUE /\ UNCHANGED <<ledger, emitted>>

NoEvent == UNCHANGED <<ledger, emitted, lost>>

-----------------------------------------------------------------------------
(* Control flow shared by the stages *)

\* Any exception inside the try block lands in one of its two handlers.
Throw(kind) ==
  /\ pc' = "handler"
  /\ exc' = kind
  /\ UNCHANGED <<entry, current, decided, terminal, result>>

\* A cancellation, or an error that is not of the coroutine's own making.
Interrupt(kind) == Throw(kind) /\ late' = (late \/ terminal # "none")

\* _emit_status raises ValueError for a transition the table does not allow.
IllegalStatus == NoEvent /\ Throw("error") /\ UNCHANGED late

\* `return`: run_async still closes the gateway in its finally block.
Return(value) ==
  /\ pc' = IF entry = "run_async" THEN "closing" ELSE "done"
  /\ result' = value

\* await self._emit(...): persisted or not, cancelled or not, independently.
InterruptedEmit(e) ==
  \/ Store(e) /\ Interrupt("cancelled")
  \/ Lose /\ Interrupt("cancelled")
  \/ Lose /\ Interrupt("error")

Emit(at, e, next) ==
  /\ pc = at
  /\ \/ /\ Store(e)
        /\ pc' = next
        /\ UNCHANGED <<locals, current, terminal, late>>
     \/ InterruptedEmit(e)

\* _emit_status from `from`, then the assignment of current_status to `cur`.
EmitStatus(at, s, from, next, cur) ==
  /\ pc = at
  /\ IF CanTransition(from, s)
     THEN \/ /\ Store(Status(s))
             /\ pc' = next
             /\ current' = cur
             /\ UNCHANGED <<locals, terminal, late>>
          \/ InterruptedEmit(Status(s))
     ELSE IllegalStatus

\* The status that ends the run: like EmitStatus, then `return`.
EmitLastStatus(at, s, from) ==
  /\ pc = at
  /\ IF CanTransition(from, s)
     THEN \/ /\ Store(Status(s))
             /\ Return(s)
             /\ UNCHANGED <<entry, decided, exc, current, terminal, late>>
          \/ InterruptedEmit(Status(s))
     ELSE IllegalStatus

(***************************************************************************)
(* _emit_terminal_outcome and the caller's two lines after it.  The append *)
(* runs in a task of its own that no cancellation reaches; one that struck *)
(* meanwhile comes back as a value and is raised after terminal_outcome is *)
(* assigned.  A failed append raises its own error and drops it.           *)
(***************************************************************************)
EmitVerdict(at, o, next) ==
  /\ pc = at
  /\ \/ /\ Store(Outcome(o))
        /\ terminal' = o
        /\ pc' = next
        /\ UNCHANGED <<locals, current, late>>
     \/ /\ Store(Outcome(o))
        /\ terminal' = o
        /\ pc' = "handler"
        /\ exc' = "cancelled"
        /\ late' = TRUE
        /\ UNCHANGED <<entry, current, decided, result>>
     \/ Lose /\ Interrupt("error")

\* An await that persists nothing itself may be cancelled or raise.
Fails(at) ==
  /\ pc = at
  /\ NoEvent
  /\ Interrupt("cancelled") \/ Interrupt("error")

Proceed(at, next) ==
  /\ pc = at
  /\ pc' = next
  /\ NoEvent
  /\ UNCHANGED <<locals, current, terminal, late>>

-----------------------------------------------------------------------------
(* Before the try block *)

Start == Proceed("unstarted", "accept")

\* A task cancelled before its first step never enters the coroutine.
CancelUnstarted ==
  /\ pc = "unstarted"
  /\ pc' = "done"
  /\ result' = "cancelled"
  /\ NoEvent
  /\ UNCHANGED <<entry, decided, exc, current, terminal, late>>

\* resume_async raises for a source without contract or graph, or already verified.
RefuseResume ==
  /\ pc = "unstarted"
  /\ entry = "resume_async"
  /\ pc' = "done"
  /\ result' = "refused"
  /\ NoEvent
  /\ UNCHANGED <<entry, decided, exc, current, terminal, late>>

-----------------------------------------------------------------------------
(* Intake to execution *)

AcceptRequest ==
  Emit("accept", Begin, IF entry = "run_async" THEN "compile" ELSE "replay")

Compile == Proceed("compile", "contracted") \/ Fails("compile")

\* resume_async re-emits the source's contract, graph and completed cells.
ReplaySource == Emit("replay", Other, "contracted") \/ Fails("replay")

Contracted ==
  EmitStatus("contracted", "contracted", current,
             IF entry = "run_async" THEN "plan" ELSE "planned", "contracted")

Plan ==
  \/ \E next \in {"graph", "reject"} : Proceed("plan", next)
  \/ Fails("plan")

RejectGraph   == Emit("reject", Other, "reject_outcome")
RejectOutcome == EmitVerdict("reject_outcome", "abstained", "reject_status")
RejectStatus  == EmitLastStatus("reject_status", "abstained", current)

AcceptGraph == Emit("graph", Other, "planned")
Planned     == EmitStatus("planned", "planned", current, "executing", "planned")
Executing   == EmitStatus("executing", "executing", current, "cells", "executing")

-----------------------------------------------------------------------------
(* _execute_cells, as its caller sees it *)

ShortCircuit(next) ==
  /\ pc' = next
  /\ NoEvent
  /\ UNCHANGED <<entry, exc, result, current, terminal, late>>

ExecuteCells ==
  \/ Proceed("cells", "budget")
  \/ /\ pc = "cells"
     /\ decided' \in {"failed", "abstained"}
     /\ ShortCircuit("short_evidence")
  \/ /\ pc = "cells"
     /\ decided' = "abstained"
     /\ \E next \in {"exhausted", "stalled"} : ShortCircuit(next)
  \/ Fails("cells")

BudgetExhausted == Emit("exhausted", Other, "short_evidence")
StallDetected   == Emit("stalled", Stall, "short_evidence")

ShortEvidence == Emit("short_evidence", Evidence(decided), "short_outcome")
ShortOutcome  == EmitVerdict("short_outcome", decided, "short_route")

\* The walk along RunStateMachine.route, one hop a step.
ShortRoute ==
  LET hop == NextHop(current, decided)
  IN  IF hop = decided
      THEN EmitLastStatus("short_route", hop, current)
      ELSE EmitStatus("short_route", hop, current, "short_route", hop)

-----------------------------------------------------------------------------
(* _verify_and_finish; the caller's current_status stays EXECUTING *)

UpdateBudget == Emit("budget", Other, "verifying")
Verifying    == EmitStatus("verifying", "verifying", current, "verify", current)

\* The verifiers and the release law hand back any outcome, or raise.
Verify ==
  \/ /\ pc = "verify"
     /\ decided' \in Outcomes
     /\ ShortCircuit("evidence")
  \/ Fails("verify")

\* Mutant of RecordEvidence: a failed append of the manifest is shrugged off.
RecordEvidenceBestEffort ==
  \/ Emit("evidence", Evidence(decided), "outcome")
  \/ /\ pc = "evidence"
     /\ Lose
     /\ pc' = "outcome"
     /\ UNCHANGED <<locals, current, terminal, late>>

RecordEvidence == Emit("evidence", Evidence(decided), "outcome")
EmitOutcome    == EmitVerdict("outcome", decided, "final")
FinalStatus    == EmitLastStatus("final", decided, "verifying")

-----------------------------------------------------------------------------
(* The handlers: _emit_failure, in a task of its own *)

\* Mutant of PersistOutcome: a cancelled run is only torn down, never recorded.
PersistOutcomeUnlessCancelled ==
  /\ pc = "handler"
  /\ \/ /\ terminal = "none" /\ exc = "error"
        /\ \/ Store(Outcome("failed")) /\ pc' = "fail_status"
           \/ Lose /\ pc' = "fail_return"
     \/ /\ exc = "cancelled" \/ terminal # "none"
        /\ NoEvent
        /\ pc' = "fail_status"
  /\ UNCHANGED <<locals, current, terminal, late>>

\* An append that fails here is logged, and the status is not attempted.
PersistOutcome ==
  /\ pc = "handler"
  /\ IF terminal = "none"
     THEN \/ Store(Outcome("failed")) /\ pc' = "fail_status"
          \/ Lose /\ pc' = "fail_return"
     ELSE NoEvent /\ pc' = "fail_status"
  /\ UNCHANGED <<locals, current, terminal, late>>

FailureOutcome == IF terminal = "none" THEN "failed" ELSE terminal

\* Mutant of PersistStatus: the transition table is not consulted.
PersistStatusUnchecked ==
  /\ pc = "fail_status"
  /\ \/ Store(Status(FailureOutcome))
     \/ Lose
  /\ pc' = "fail_return"
  /\ UNCHANGED <<locals, current, terminal, late>>

\* An illegal transition raises ValueError, which persist() swallows.
PersistStatus ==
  /\ pc = "fail_status"
  /\ IF CanTransition(current, FailureOutcome)
     THEN Store(Status(FailureOutcome)) \/ Lose
     ELSE NoEvent
  /\ pc' = "fail_return"
  /\ UNCHANGED <<locals, current, terminal, late>>

\* Mutant of FailureReturn: the default is always taken.
FailureReturnAlwaysFailed == "failed"
FailureReturn == FailureOutcome

\* Re-raise a cancellation, the original or one absorbed by _emit_failure.
LeaveHandler ==
  /\ pc = "fail_return"
  /\ \/ Return("cancelled")
     \/ exc = "error" /\ Return(FailureReturn)
  /\ NoEvent
  /\ UNCHANGED <<entry, decided, exc, current, terminal, late>>

\* finally: gateway.close(); only a cancellation escapes it.
CloseGateway ==
  /\ pc = "closing"
  /\ pc' = "done"
  /\ result' \in {result, "cancelled"}
  /\ NoEvent
  /\ UNCHANGED <<entry, decided, exc, current, terminal, late>>

-----------------------------------------------------------------------------
Prologue == Start \/ CancelUnstarted \/ RefuseResume \/ AcceptRequest
            \/ Compile \/ ReplaySource \/ Contracted \/ Plan
            \/ RejectGraph \/ RejectOutcome \/ RejectStatus
            \/ AcceptGraph \/ Planned \/ Executing

Execution == ExecuteCells \/ BudgetExhausted \/ StallDetected
             \/ ShortEvidence \/ ShortOutcome \/ ShortRoute

Verification == UpdateBudget \/ Verifying \/ Verify \/ RecordEvidence
                \/ EmitOutcome \/ FinalStatus

Teardown == PersistOutcome \/ PersistStatus \/ LeaveHandler \/ CloseGateway

\* A finished run stutters; anything else stopping is a deadlock.
Finished == pc = "done" /\ UNCHANGED vars

Next == Prologue \/ Execution \/ Verification \/ Teardown \/ Finished

Spec == Init /\ [][Next]_vars

-----------------------------------------------------------------------------
(* Properties *)

\* A run's outcome is emitted at most once, wherever cancellations, append
\* errors and the failure handler strike: the handler must know of an outcome
\* that was persisted before it was told of the cancellation.
OneOutcome == Len(emitted) <= 1

\* A terminal status is always backed by the outcome of the same name,
\* persisted before it: no crash or cancellation leaves status without verdict.
TerminalStatusIsOutcome ==
  ledger.status \in Outcomes => emitted = <<ledger.status>>

\* A run is only ever pronounced verified with the evidence manifest that says
\* so already in the ledger, even when appends fail.
VerdictRestsOnEvidence ==
  emitted # <<>> /\ emitted[1] = "verified" => ledger.manifest = "verified"

\* The caller is never handed an outcome that contradicts the ledger's.
ReturnAgreesWithLedger ==
  result \in Outcomes /\ emitted # <<>> => emitted = <<result>>

\* Every run whose first event was stored ends with an outcome in the ledger,
\* at whatever await it was stopped, provided appends work.
OutcomeAlwaysRecorded ==
  pc = "done" /\ ledger.begun /\ ~lost => emitted # <<>>

\* With working appends, a finished run has a terminal status unless the
\* exception struck after the outcome was emitted.
UndisturbedRunSettles ==
  pc = "done" /\ ledger.begun /\ ~lost /\ ~late => ledger.status \in Outcomes

\* Company keeps the promise of RunPromise.
Promise == INSTANCE RunPromise
             WITH status  <- ledger.status,
                  verdict <- IF emitted = <<>> THEN "none" ELSE emitted[1]
KeepsRunPromise == Promise!Spec

\* Claimed: "Terminal states cannot transition further" (docs/architecture.md),
\* and an interrupted run's ledger must "replay cleanly" (docs/testing-strategy.md).
LedgerStaysReplayable == ledger.replayable

=============================================================================
