----------------------------- MODULE CellRunner ------------------------------
(***************************************************************************)
(* The attempt loops of the cells of one read-only wave                    *)
(* (application/cell_runner.py, retry.py, routing.py).  _execute_cells     *)
(* gathers one run_cell coroutine per ready cell; between two awaits a     *)
(* coroutine runs alone, so an action is the code from one await to the    *)
(* next.  The cells share the run's usage totals and the RetryPolicy with  *)
(* its table of seen signatures.                                           *)
(*                                                                         *)
(* A cell's contract version, tool plan and evidence digest do not change  *)
(* during its loop, so a signature is a cell and a profile.  Conversations, *)
(* checkpoints and memory only shape what a worker is told and are left    *)
(* out; spend is counted in API calls.                                     *)
(***************************************************************************)
EXTENDS Integers, Sequences, FiniteSets, FiniteSetsExt

CONSTANTS
  Cells,
  Profiles,
  NoProfile,     \* the selected_profile of an abstained route
  Eligibles,     \* for each cell, the profiles with its roles and capabilities
  Rank,          \* Rank[c][p]: p's place by score, ties broken by configuration
  Premium,       \* profiles of tier 3 and above
  Budgets,       \* the values contract.budget may take
  MaxSpend,      \* bound: API calls of one attempt
  UsageBound     \* bound: API calls of the run, where the total saturates

ASSUME CellRunnerAssumption ==
  /\ IsFiniteSet(Cells) /\ IsFiniteSet(Profiles)
  /\ NoProfile \notin Profiles
  /\ Eligibles \subseteq [Cells -> SUBSET Profiles]
  /\ Rank \in [Cells -> [Profiles -> Nat]]
  /\ Premium \subseteq Profiles
  /\ Budgets \subseteq [maxRetries : Nat, maxCalls : Nat]
  /\ MaxSpend \in Nat /\ UsageBound \in Nat

VARIABLES
  budget,   \* contract.budget: max_retries and max_calls, 0 for no limit
  eligible, \* what the configuration offers each cell; neither ever changes
  usage,    \* usage.total_calls, shared by the cells
  seen,     \* RetryPolicy._seen: consultations per signature
  cell      \* the locals of each run_cell, and what its events say

given == <<budget, eligible>>

vars == <<given, usage, seen, cell>>

Failures == {"transient", "sampling", "capability", "specification",
             "safety", "budget"}

RetryActions == {"backoff_retry", "changed_strategy_retry"}

AbstainActions == {"abstain", "contract_amendment", "split_replan",
                   "scope_reduction"}

RecoveryActions == RetryActions \cup AbstainActions
                   \cup {"reroute_escalate", "terminate", "fail"}

Ended == {"completed", "failed", "abstained", "raised"}

\* The await a cell stands at, or how it ended.
Awaits == {"route", "unroutable", "start", "attempt", "recover", "reroute",
           "rebackoff", "backoff", "fail", "store", "complete"}

\* Bound: the attempt counter saturates one above what the ladders allow.
AttemptBound == 2 * Cardinality(Profiles) + 2

CellState == [pc      : Awaits \cup Ended,
              profile : Profiles \cup {NoProfile},
              attempt : 0..AttemptBound,             \* attempt_number
              failure : Failures \cup {"none"},      \* of the last attempt
              action  : RecoveryActions \cup {"none"},
              before  : Nat,                         \* usage_before
              charged : Nat,                         \* CellCompleted.usage
              audit   : SUBSET (0..AttemptBound)]    \* RecoveryTransition numbers

TypeOK ==
  /\ budget \in Budgets
  /\ eligible \in Eligibles
  /\ usage \in Nat
  /\ seen \in [Cells -> [Profiles -> Nat]]
  /\ cell \in [Cells -> CellState]

-----------------------------------------------------------------------------
(* Routing *)

\* Router.route: the best-ranked eligible profile that is neither excluded nor,
\* with little money left, premium; NoProfile when the router abstains.
Routes(c, excluded, thin) ==
  LET candidates == {p \in eligible[c] \ excluded : ~(thin /\ p \in Premium)}
  IN  IF candidates = {} THEN {NoProfile}
      ELSE {p \in candidates : \A q \in candidates : Rank[c][p] <= Rank[c][q]}

-----------------------------------------------------------------------------
(* Recovery *)

\* RECOVERY_POLICY, for the failures that reach RetryPolicy.next_action.
RecoveryPolicy ==
  [transient     |-> <<"backoff_retry", "reroute_escalate", "terminate">>,
   sampling      |-> <<"changed_strategy_retry", "backoff_retry", "abstain">>,
   capability    |-> <<"reroute_escalate", "split_replan",
                       "contract_amendment", "abstain">>,
   specification |-> <<"contract_amendment", "abstain">>]

NextAction(failure, rung) ==
  LET ladder == RecoveryPolicy[failure]
  IN  ladder[IF rung < Len(ladder) THEN rung + 1 ELSE Len(ladder)]

\* Mutant of Consult: the signature leaves out the cell.
ConsultAnyCell(c, p) == [d \in Cells |-> [seen[d] EXCEPT ![p] = @ + 1]]

Consult(c, p) == [seen EXCEPT ![c][p] = @ + 1]

\* Mutant of Capped: one retry too many.
CappedLate(attempt) ==
  budget.maxRetries # 0 /\ attempt > budget.maxRetries

Capped(attempt) == budget.maxRetries # 0 /\ attempt >= budget.maxRetries

\* A failure that a worker reports with the call limit reached is one of budget.
Reclassified(failure, total) ==
  IF budget.maxCalls # 0 /\ total >= budget.maxCalls THEN "budget" ELSE failure

\* _handle_cell_failure: the actions it may select.  RecoveryManager.decide picks
\* between its two terminal ones by the money and tokens left.
Actions(c, failure) ==
  IF Capped(cell[c].attempt) \/ failure = "safety" THEN {"terminate"}
  ELSE IF failure = "budget" THEN {"scope_reduction", "fail"}
  ELSE {NextAction(failure, seen[c][cell[c].profile])}

\* Only next_action consults the table of signatures.
Consulted(c, failure) ==
  IF Capped(cell[c].attempt) \/ failure \notin DOMAIN RecoveryPolicy
  THEN seen
  ELSE Consult(c, cell[c].profile)

-----------------------------------------------------------------------------
\* A cell before its first step; a local that no code reads any more is put
\* back to its value here.
Blank == [pc |-> "route", profile |-> NoProfile, attempt |-> 0,
          failure |-> "none", action |-> "none", before |-> 0, charged |-> 0,
          audit |-> {}]

Init ==
  /\ budget \in Budgets
  /\ eligible \in Eligibles
  /\ usage = 0
  /\ seen = [c \in Cells |-> [p \in Profiles |-> 0]]
  /\ cell = [c \in Cells |-> Blank]

At(c, pc) == cell[c].pc = pc

GoTo(c, pc) == cell' = [cell EXCEPT ![c].pc = pc]

\* gather starts its coroutines in one pass of the event loop: each reads
\* usage_before and its route before any of them gets past its first await.
StartWave ==
  /\ \A c \in Cells : At(c, "route")
  /\ \E selected \in [Cells -> Profiles \cup {NoProfile}] :
       /\ \A c \in Cells : selected[c] \in Routes(c, {}, FALSE)
       /\ cell' = [c \in Cells |->
                     [cell[c] EXCEPT
                        !.before  = usage,
                        !.profile = selected[c],
                        !.pc      = IF selected[c] = NoProfile THEN "unroutable"
                                                               ELSE "start"]]
  /\ UNCHANGED <<given, usage, seen>>

\* RouteSelected and CellFailed are persisted and run_cell returns ABSTAINED.
AbstainUnrouted(c) ==
  /\ At(c, "unroutable")
  /\ GoTo(c, "abstained")
  /\ UNCHANGED <<given, usage, seen>>

StartCell(c) ==
  /\ At(c, "start")
  /\ GoTo(c, "attempt")
  /\ UNCHANGED <<given, usage, seen>>

Total(spent) == IF usage + spent <= UsageBound THEN usage + spent ELSE UsageBound

\* The worker answers: its spend is booked, failed or not.
WorkerSucceeds(c) ==
  /\ At(c, "attempt")
  /\ \E spent \in 0..MaxSpend :
       /\ usage' = Total(spent)
       /\ GoTo(c, "store")
  /\ UNCHANGED <<given, seen>>

Fail(c, failure, total) ==
  /\ \E action \in Actions(c, failure) :
       cell' = [cell EXCEPT ![c].pc = "recover",
                            ![c].failure = failure, ![c].action = action]
  /\ seen' = Consulted(c, failure)
  /\ usage' = total
  /\ UNCHANGED given

WorkerFails(c) ==
  /\ At(c, "attempt")
  /\ \E spent \in 0..MaxSpend, reported \in Failures :
       Fail(c, Reclassified(reported, Total(spent)), Total(spent))

\* worker.run raises: no spend is known and the call limit is not consulted.
WorkerRaises(c) ==
  /\ At(c, "attempt")
  /\ Fail(c, "transient", usage)

Increment(n) == IF n < AttemptBound THEN n + 1 ELSE n

\* Mutant of Audited: a capped attempt leaves no trace.
AuditedUnlessCapped(s) ==
  IF Capped(s.attempt) THEN s.audit ELSE s.audit \cup {s.attempt}

Audited(s) == s.audit \cup {s.attempt}

Excluded(s) == {s.profile}

\* Where the loop goes after the action, given what a reroute would find.
Resumption(s, next) ==
  CASE s.action \in RetryActions                           -> "backoff"
    [] s.action = "reroute_escalate" /\ next # NoProfile   -> "reroute"
    [] s.action = "reroute_escalate" /\ next = NoProfile /\ s.failure = "transient"
                                                           -> "rebackoff"
    [] OTHER                                               -> "fail"

\* RecoveryTransition is persisted; the loop goes on as the action says.
RecordRecovery(c) ==
  LET s == cell[c] IN
  /\ At(c, "recover")
  /\ \E thin \in BOOLEAN : \E next \in Routes(c, Excluded(s), thin) :
       LET pc == Resumption(s, next)
       IN  cell' = [cell EXCEPT
                      ![c].audit   = Audited(s),
                      ![c].attempt = Increment(@),
                      ![c].profile = IF pc = "reroute" THEN next ELSE @,
                      ![c].failure = IF pc = "fail" THEN @ ELSE "none",
                      ![c].action  = IF pc = "fail" THEN @ ELSE "none",
                      ![c].pc      = pc]
  /\ UNCHANGED <<given, usage, seen>>

\* The rerouted RouteSelected is persisted.
Reroute(c) ==
  /\ At(c, "reroute")
  /\ GoTo(c, "attempt")
  /\ UNCHANGED <<given, usage, seen>>

\* Nowhere to reroute a transient failure to: a second RecoveryTransition, with
\* the number of the attempt to come, and back off once more.
RecordBackoff(c) ==
  /\ At(c, "rebackoff")
  /\ cell' = [cell EXCEPT ![c].audit = @ \cup {cell[c].attempt},
                          ![c].pc    = "backoff"]
  /\ UNCHANGED <<given, usage, seen>>

\* Mutant of Backoff: a cell waits for its siblings to leave their backoff.
BackoffInTurn(c) ==
  /\ At(c, "backoff")
  /\ \A d \in Cells \ {c} : ~At(d, "backoff")
  /\ GoTo(c, "attempt")
  /\ UNCHANGED <<given, usage, seen>>

Backoff(c) ==
  /\ At(c, "backoff")
  /\ GoTo(c, "attempt")
  /\ UNCHANGED <<given, usage, seen>>

FailCell(c) ==
  /\ At(c, "fail")
  /\ GoTo(c, IF cell[c].action \in AbstainActions THEN "abstained" ELSE "failed")
  /\ UNCHANGED <<given, usage, seen>>

\* CellCompleted's spend is the run's spend since the cell began.
Charged(s) == usage - s.before

\* The artifact is stored and CellCompleted made out.
StoreEvidence(c) ==
  /\ At(c, "store")
  /\ cell' = [cell EXCEPT ![c] = [Blank EXCEPT
                !.charged = Charged(cell[c]),
                !.pc      = "complete"]]
  /\ UNCHANGED <<given, usage, seen>>

CompleteCell(c) ==
  /\ At(c, "complete")
  /\ GoTo(c, "completed")
  /\ UNCHANGED <<given, usage, seen>>

\* Any await may raise out of run_cell: a failed append or artifact write, or a
\* cancellation by the stall watchdog or from outside.
Raise(c) ==
  /\ cell[c].pc \notin Ended \cup {"route"}
  /\ cell' = [cell EXCEPT ![c] = [Blank EXCEPT !.pc = "raised"]]
  /\ UNCHANGED <<given, usage, seen>>

Work(c) == AbstainUnrouted(c) \/ StartCell(c)
           \/ WorkerSucceeds(c) \/ WorkerFails(c) \/ WorkerRaises(c)
           \/ RecordRecovery(c) \/ Reroute(c) \/ RecordBackoff(c) \/ Backoff(c)
           \/ FailCell(c) \/ StoreEvidence(c) \/ CompleteCell(c)

\* The gather returns when every cell has ended.
Gathered == /\ \A c \in Cells : cell[c].pc \in Ended
            /\ UNCHANGED vars

Next == StartWave \/ Gathered \/ \E c \in Cells : Work(c) \/ Raise(c)

Spec == Init /\ [][Next]_vars

\* The event loop runs every ready coroutine; appends and backoffs end, and a
\* worker's call ends by its wall-time limit or the provider's timeouts.
FairSpec == Spec /\ WF_vars(StartWave) /\ \A c \in Cells : WF_vars(Work(c))

-----------------------------------------------------------------------------
(* Properties *)

\* With max_retries set no cell runs more often than 1 + max_retries, across
\* retries, reroutes and the extra backoff of an abstained reroute.
RetriesWithinCap ==
  \A c \in Cells :
    At(c, "attempt") /\ budget.maxRetries # 0 => cell[c].attempt <= budget.maxRetries

\* A cell is never given up on a first transient failure: what its siblings did
\* on the same profile does not count against it.
OwnLadder ==
  \A c \in Cells :
    At(c, "failed") /\ cell[c].failure = "transient" => cell[c].attempt >= 2

\* Every attempt of a failed cell is named by a RecoveryTransition, the capped
\* one included: the audit trail is lossless.
AuditNamesEveryAttempt ==
  \A c \in Cells :
    cell[c].pc \in {"failed", "abstained"} =>
      0..(cell[c].attempt - 1) \subseteq cell[c].audit

\* A reroute moves the cell to another profile and never to none.
RerouteMovesOn ==
  [][\A c \in Cells :
       At(c, "recover") /\ cell[c].pc' = "reroute"
         => cell[c].profile' \in Profiles \ {cell[c].profile}]_vars

\* Every cell of the wave ends, so the gather returns.
EveryCellEnds == \A c \in Cells : <>(cell[c].pc \in Ended)

=============================================================================
