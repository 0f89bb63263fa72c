-------------------------- MODULE CellRunner_proofs ---------------------------
(***************************************************************************)
(* What the attempt loops guarantee for any cells, profiles, rankings and  *)
(* budgets: the cap on retries holds, a cell is not given up for what its  *)
(* siblings did, every attempt is audited and a reroute moves on.          *)
(*                                                                         *)
(* The invariant relates, for each cell by itself, its attempt number to   *)
(* its audit trail, to the cap and to how often it consulted the shared    *)
(* retry table; no cell's steps touch another's part of it.                *)
(***************************************************************************)
EXTENDS CellRunner, FiniteSetTheorems, TLAPS

\* Between two attempts, or before the first.
Looping == {"route", "start", "attempt", "reroute", "rebackoff", "backoff"}

\* Where a cell has a profile.
Routed == {"start", "attempt", "recover", "reroute", "rebackoff", "backoff"}

Profiled(c) == cell[c].pc \in Routed => cell[c].profile \in Profiles

\* The table counts no more consultations than the cell has had attempts, as far
\* as the ladder of a transient failure goes.
OwnCount(c) ==
  \A p \in Profiles :
    /\ cell[c].pc \in Looping /\ seen[c][p] >= 1 => cell[c].attempt >= 1
    /\ cell[c].pc \in Looping /\ seen[c][p] >= 2 => cell[c].attempt >= 2
    /\ cell[c].pc = "recover" /\ seen[c][p] >= 2 => cell[c].attempt >= 1

\* A failure that is given up at once is not the first one.
GivenUp(c) ==
  /\ cell[c].pc = "recover" /\ cell[c].failure = "transient"
     /\ cell[c].action \notin RetryActions \cup {"reroute_escalate"}
       => cell[c].attempt >= 1
  /\ cell[c].pc \in {"fail", "failed"} /\ cell[c].failure = "transient"
       => cell[c].attempt >= 2

WithinCap(c) ==
  budget.maxRetries # 0 =>
    /\ cell[c].pc \in Looping => cell[c].attempt <= budget.maxRetries
    /\ cell[c].pc = "recover" /\ cell[c].attempt >= budget.maxRetries
         => cell[c].action = "terminate"

Trail(c) == 0..(cell[c].attempt - 1) \subseteq cell[c].audit

Spending(c) == cell[c].before <= usage

CellInv(c) == /\ Profiled(c) /\ OwnCount(c) /\ GivenUp(c) /\ WithinCap(c)
              /\ Trail(c) /\ Spending(c)

IInv == TypeOK /\ usage <= UsageBound /\ \A c \in Cells : CellInv(c)

-----------------------------------------------------------------------------
(* What the constants and the ladders are *)

\* The attempt counter's bound is a number that leaves room for two attempts.
LEMMA BoundFacts == AttemptBound \in Nat /\ AttemptBound >= 2
<1>1. Cardinality(Profiles) \in Nat
  BY CellRunnerAssumption, FS_CardinalityType DEF CellRunnerAssumption
<1> QED
  BY <1>1 DEF AttemptBound

\* What the state's type says of one cell.
LEMMA CellFacts ==
  ASSUME TypeOK, NEW c \in Cells
  PROVE  /\ cell[c] \in CellState
         /\ cell[c].pc \in Awaits \cup Ended
         /\ cell[c].profile \in Profiles \cup {NoProfile}
         /\ cell[c].attempt \in 0..AttemptBound
         /\ cell[c].failure \in Failures \cup {"none"}
         /\ cell[c].action \in RecoveryActions \cup {"none"}
         /\ cell[c].before \in Nat
         /\ cell[c].audit \in SUBSET (0..AttemptBound)
         /\ seen[c] \in [Profiles -> Nat]
         /\ eligible[c] \subseteq Profiles
         /\ budget.maxRetries \in Nat
<1>1. cell[c] \in CellState /\ seen[c] \in [Profiles -> Nat]
  BY DEF TypeOK
<1>2. budget.maxRetries \in Nat /\ eligible[c] \subseteq Profiles
  BY CellRunnerAssumption DEF TypeOK, CellRunnerAssumption
<1> QED
  BY <1>1, <1>2 DEF CellState

\* A rung of a ladder is a recovery action; only the third rung of the transient
\* ladder, and those after it, give up.
LEMMA NextActionFacts ==
  ASSUME NEW failure \in DOMAIN RecoveryPolicy, NEW rung \in Nat
  PROVE  /\ NextAction(failure, rung) \in RecoveryActions
         /\ failure = "transient" /\ rung < 2 =>
              NextAction(failure, rung) \in RetryActions \cup {"reroute_escalate"}
<1> USE DEF NextAction, RecoveryPolicy, RecoveryActions, RetryActions, AbstainActions
<1>1. failure \in {"transient", "sampling", "capability", "specification"}
  OBVIOUS
<1>2. CASE failure = "transient"
  <2>1. RecoveryPolicy[failure] = <<"backoff_retry", "reroute_escalate", "terminate">>
    BY <1>2
  <2> QED
    BY <1>2, <2>1
<1>3. CASE failure = "sampling"
  <2>1. RecoveryPolicy[failure] = <<"changed_strategy_retry", "backoff_retry", "abstain">>
    BY <1>3
  <2> QED
    BY <1>3, <2>1
<1>4. CASE failure = "capability"
  <2>1. RecoveryPolicy[failure] = <<"reroute_escalate", "split_replan",
                                    "contract_amendment", "abstain">>
    BY <1>4
  <2> QED
    BY <1>4, <2>1
<1>5. CASE failure = "specification"
  <2>1. RecoveryPolicy[failure] = <<"contract_amendment", "abstain">>
    BY <1>5
  <2> QED
    BY <1>5, <2>1
<1> QED
  BY <1>1, <1>2, <1>3, <1>4, <1>5

-----------------------------------------------------------------------------
(* One cell's step *)

\* A step of one cell leaves the others' part of the invariant alone.
LEMMA OneCell ==
  ASSUME IInv, NEW c \in Cells,
         cell' \in [Cells -> CellState],
         \A d \in Cells \ {c} : cell'[d] = cell[d] /\ seen'[d] = seen[d],
         seen' \in [Cells -> [Profiles -> Nat]],
         usage' \in Nat, usage <= usage', usage' <= UsageBound,
         UNCHANGED given, CellInv(c)'
  PROVE  IInv'
<1>1. TypeOK'
  BY DEF IInv, TypeOK, given
<1>2. ASSUME NEW d \in Cells \ {c} PROVE CellInv(d)'
  <2>1. CellInv(d) /\ cell'[d] = cell[d] /\ seen'[d] = seen[d] /\ budget' = budget
    BY DEF IInv, given
  <2>2. cell[d].before \in Nat /\ usage \in Nat
    BY CellFacts DEF IInv, TypeOK
  <2> QED
    BY <2>1, <2>2 DEF CellInv, Profiled, OwnCount, GivenUp, WithinCap, Trail, Spending
<1> QED
  BY <1>1, <1>2 DEF IInv

\* A step that only moves a cell to another await, or to its end.
LEMMA GoToKeepsInv ==
  ASSUME IInv, NEW c \in Cells, NEW next \in Awaits \cup Ended, GoTo(c, next),
         UNCHANGED <<given, seen>>,
         usage' \in Nat, usage <= usage', usage' <= UsageBound,
         next \in Looping => cell[c].pc \in Looping,
         next \in Routed => cell[c].pc \in Routed,
         next # "recover",
         next \in {"fail", "failed"} => cell[c].pc = "fail"
  PROVE  IInv'
<1>1. /\ cell \in [Cells -> CellState] /\ usage \in Nat
      /\ seen \in [Cells -> [Profiles -> Nat]]
  BY DEF IInv, TypeOK
<1>2. /\ cell'[c] = [cell[c] EXCEPT !.pc = next]
      /\ \A d \in Cells \ {c} : cell'[d] = cell[d]
  BY <1>1 DEF GoTo
<1>3. cell'[c] \in CellState
  BY <1>1, <1>2 DEF CellState
<1>4. cell' \in [Cells -> CellState]
  BY <1>1, <1>2, <1>3 DEF GoTo
<1>5. /\ cell'[c].pc = next /\ cell'[c].profile = cell[c].profile
      /\ cell'[c].attempt = cell[c].attempt /\ cell'[c].failure = cell[c].failure
      /\ cell'[c].audit = cell[c].audit /\ cell'[c].before = cell[c].before
  BY <1>1, <1>2 DEF CellState
<1>6. CellInv(c) /\ cell[c].before \in Nat
  BY <1>1 DEF IInv, CellState
<1>7. CellInv(c)'
  BY <1>1, <1>5, <1>6 DEF CellInv, Profiled, OwnCount, GivenUp, WithinCap, Trail,
     Spending, given
<1> QED
  BY <1>1, <1>2, <1>4, <1>7, OneCell

\* The run's total only grows, and saturates.
LEMMA TotalFacts ==
  ASSUME IInv, NEW spent \in 0..MaxSpend
  PROVE  /\ Total(spent) \in Nat
         /\ usage <= Total(spent) /\ Total(spent) <= UsageBound
  BY CellRunnerAssumption DEF CellRunnerAssumption, IInv, TypeOK, Total

\* What a failed attempt may select, and why it may give up.
LEMMA ActionsFacts ==
  ASSUME IInv, NEW c \in Cells, At(c, "attempt"),
         NEW failure \in Failures, NEW action \in Actions(c, failure)
  PROVE  /\ action \in RecoveryActions
         /\ Capped(cell[c].attempt) => action = "terminate"
         /\ failure = "transient"
            /\ action \notin RetryActions \cup {"reroute_escalate"}
              => cell[c].attempt >= 1
<1>1. /\ cell[c].attempt \in Nat /\ budget.maxRetries \in Nat
      /\ cell[c].profile \in Profiles /\ seen[c] \in [Profiles -> Nat]
  BY CellFacts, BoundFacts DEF IInv, CellInv, Profiled, At, Routed
<1>2. OwnCount(c)
  BY DEF IInv, CellInv
<1>3. CASE Capped(cell[c].attempt)
  BY <1>1, <1>3 DEF Actions, Capped, RecoveryActions
<1>4. CASE ~Capped(cell[c].attempt) /\ failure \in {"safety", "budget"}
  BY <1>4 DEF Actions, RecoveryActions, AbstainActions
<1>5. CASE ~Capped(cell[c].attempt) /\ failure \notin {"safety", "budget"}
  <2>1. failure \in DOMAIN RecoveryPolicy
    BY <1>5 DEF Failures, RecoveryPolicy
  <2>2. action = NextAction(failure, seen[c][cell[c].profile])
    BY <1>5 DEF Actions
  <2>3. seen[c][cell[c].profile] \in Nat
    BY <1>1
  <2>4. seen[c][cell[c].profile] >= 2 => cell[c].attempt >= 2
    BY <1>1, <1>2 DEF OwnCount, At, Looping
  <2> QED
    BY <1>1, <1>5, <2>1, <2>2, <2>3, <2>4, NextActionFacts
<1> QED
  BY <1>3, <1>4, <1>5

\* A consultation adds one to the cell's own count and to no other's.
LEMMA ConsultedFacts ==
  ASSUME IInv, NEW c \in Cells, At(c, "attempt"), NEW failure \in Failures,
         seen' = Consulted(c, failure)
  PROVE  /\ seen' \in [Cells -> [Profiles -> Nat]]
         /\ \A d \in Cells \ {c} : seen'[d] = seen[d]
         /\ \A p \in Profiles : seen'[c][p] \in {seen[c][p], seen[c][p] + 1}
<1>1. seen \in [Cells -> [Profiles -> Nat]] /\ cell[c].profile \in Profiles
  BY DEF IInv, TypeOK, CellInv, Profiled, At, Routed
<1>2. CASE seen' = seen
  BY <1>1, <1>2
<1>3. CASE seen' = Consult(c, cell[c].profile)
  BY <1>1, <1>3 DEF Consult
<1> QED
  BY <1>2, <1>3 DEF Consulted

\* Failing an attempt, by a report or by an exception.
LEMMA FailKeepsInv ==
  ASSUME IInv, NEW c \in Cells, At(c, "attempt"), NEW failure \in Failures,
         NEW total \in Nat, usage <= total, total <= UsageBound,
         Fail(c, failure, total)
  PROVE  IInv'
<1>1. PICK action \in Actions(c, failure) :
        cell' = [cell EXCEPT ![c].pc = "recover",
                             ![c].failure = failure, ![c].action = action]
  BY DEF Fail
<1>2. seen' = Consulted(c, failure) /\ usage' = total /\ UNCHANGED given
  BY DEF Fail
<1>3. cell \in [Cells -> CellState] /\ usage \in Nat
  BY DEF IInv, TypeOK
<1>4. cell'[c] = [cell[c] EXCEPT !.pc = "recover", !.failure = failure,
                                 !.action = action]
  BY <1>1, <1>3
<1>5. \A d \in Cells \ {c} : cell'[d] = cell[d]
  BY <1>1, <1>3
<1>6. action \in RecoveryActions
  BY ActionsFacts
<1>7. cell'[c] \in CellState
  BY <1>3, <1>4, <1>6 DEF CellState, Awaits
<1>8. cell' \in [Cells -> CellState]
  BY <1>1, <1>3, <1>7
<1>9. /\ cell'[c].pc = "recover" /\ cell'[c].failure = failure
      /\ cell'[c].action = action /\ cell'[c].profile = cell[c].profile
      /\ cell'[c].attempt = cell[c].attempt /\ cell'[c].audit = cell[c].audit
      /\ cell'[c].before = cell[c].before
  BY <1>3, <1>4 DEF CellState
<1>10. /\ CellInv(c) /\ cell[c].before \in Nat /\ cell[c].attempt \in Nat
       /\ seen[c] \in [Profiles -> Nat] /\ budget' = budget /\ budget.maxRetries \in Nat
  BY <1>2, CellFacts, BoundFacts DEF IInv, given
<1>11. OwnCount(c)'
  <2>1. \A p \in Profiles : seen'[c][p] \in {seen[c][p], seen[c][p] + 1}
    BY <1>2, ConsultedFacts
  <2> QED
    BY <1>9, <1>10, <2>1 DEF OwnCount, CellInv, Looping, At
<1>12. GivenUp(c)'
  BY <1>9, ActionsFacts DEF GivenUp
<1>13. WithinCap(c)'
  BY <1>9, <1>10, ActionsFacts DEF WithinCap, Looping, Capped
<1>14. Profiled(c)' /\ Trail(c)' /\ Spending(c)'
  BY <1>2, <1>3, <1>9, <1>10 DEF Profiled, Trail, Spending, CellInv, Routed, At
<1>15. CellInv(c)'
  BY <1>11, <1>12, <1>13, <1>14 DEF CellInv
<1> QED
  BY <1>2, <1>3, <1>5, <1>8, <1>15, ConsultedFacts, OneCell

\* Recording a recovery counts the attempt it names.
LEMMA RecordRecoveryKeepsInv ==
  ASSUME IInv, NEW c \in Cells, RecordRecovery(c)
  PROVE  IInv'
<1>1. /\ cell \in [Cells -> CellState] /\ usage \in Nat
      /\ seen \in [Cells -> [Profiles -> Nat]] /\ cell[c].pc = "recover"
      /\ UNCHANGED <<given, usage, seen>>
  BY DEF IInv, TypeOK, RecordRecovery, At
<1>2. PICK next \in Profiles \cup {NoProfile} :
        LET pc == Resumption(cell[c], next)
        IN  cell' = [cell EXCEPT
                      ![c].audit   = Audited(cell[c]),
                      ![c].attempt = Increment(@),
                      ![c].profile = IF pc = "reroute" THEN next ELSE @,
                      ![c].failure = IF pc = "fail" THEN @ ELSE "none",
                      ![c].action  = IF pc = "fail" THEN @ ELSE "none",
                      ![c].pc      = pc]
  <2>1. \A thin \in BOOLEAN :
          Routes(c, Excluded(cell[c]), thin) \subseteq Profiles \cup {NoProfile}
    BY CellFacts DEF Routes, IInv
  <2> QED
    BY <2>1 DEF RecordRecovery
<1> DEFINE pc == Resumption(cell[c], next)
<1>3. /\ pc \in {"backoff", "reroute", "rebackoff", "fail"}
      /\ pc = "reroute" => next # NoProfile
      /\ pc # "fail" => cell[c].action \in RetryActions \cup {"reroute_escalate"}
      /\ pc = "fail" /\ cell[c].failure = "transient" =>
           cell[c].action \notin RetryActions \cup {"reroute_escalate"}
  BY DEF Resumption, RetryActions
<1>4. cell'[c] = [cell[c] EXCEPT
                    !.audit   = Audited(cell[c]),
                    !.attempt = Increment(@),
                    !.profile = IF pc = "reroute" THEN next ELSE @,
                    !.failure = IF pc = "fail" THEN @ ELSE "none",
                    !.action  = IF pc = "fail" THEN @ ELSE "none",
                    !.pc      = pc]
  BY <1>1, <1>2
<1>5. \A d \in Cells \ {c} : cell'[d] = cell[d]
  BY <1>1, <1>2
<1>6. /\ cell'[c].pc = pc /\ cell'[c].audit = cell[c].audit \cup {cell[c].attempt}
      /\ cell'[c].attempt = Increment(cell[c].attempt)
      /\ cell'[c].profile = IF pc = "reroute" THEN next ELSE cell[c].profile
      /\ cell'[c].failure = IF pc = "fail" THEN cell[c].failure ELSE "none"
      /\ cell'[c].before = cell[c].before
  BY <1>1, <1>4 DEF CellState, Audited
<1>7. /\ cell[c].attempt \in 0..AttemptBound /\ cell[c].before \in Nat
      /\ cell[c].profile \in Profiles /\ budget.maxRetries \in Nat
      /\ cell[c].audit \subseteq 0..AttemptBound
      /\ CellInv(c) /\ budget' = budget /\ usage' = usage /\ seen' = seen
      /\ seen[c] \in [Profiles -> Nat] /\ usage <= UsageBound
  BY <1>1, CellFacts DEF IInv, CellInv, Profiled, Routed, given
<1>8. /\ Increment(cell[c].attempt) \in 0..AttemptBound
      /\ Increment(cell[c].attempt) <= cell[c].attempt + 1
      /\ Increment(cell[c].attempt) >= 1
      /\ cell[c].attempt >= 1 => Increment(cell[c].attempt) >= 2
  BY <1>7, BoundFacts DEF Increment
<1>9. cell'[c] \in CellState
  <2>1. Audited(cell[c]) \subseteq 0..AttemptBound
    BY <1>7 DEF Audited
  <2>2. pc \in Awaits \cup Ended
    BY <1>3 DEF Awaits
  <2> DEFINE profile == IF pc = "reroute" THEN next ELSE cell[c].profile
             failure == IF pc = "fail" THEN cell[c].failure ELSE "none"
             action  == IF pc = "fail" THEN cell[c].action ELSE "none"
  <2>3. /\ profile \in Profiles \cup {NoProfile}
        /\ failure \in Failures \cup {"none"}
        /\ action \in RecoveryActions \cup {"none"}
    BY <1>1, <1>2, CellFacts DEF IInv
  <2>4. cell'[c] = [cell[c] EXCEPT
                      !.audit   = Audited(cell[c]),
                      !.attempt = Increment(cell[c].attempt),
                      !.profile = profile, !.failure = failure,
                      !.action  = action, !.pc = pc]
    BY <1>4
  <2> DEFINE attempt == Increment(cell[c].attempt)
             audit   == Audited(cell[c])
  <2>5. /\ cell[c] \in CellState /\ attempt \in 0..AttemptBound
        /\ audit \in SUBSET (0..AttemptBound)
    BY <1>1, <1>8, <2>1
  <2>6. cell'[c] = [cell[c] EXCEPT !.audit = audit, !.attempt = attempt,
                                   !.profile = profile, !.failure = failure,
                                   !.action = action, !.pc = pc]
    BY <2>4
  <2> HIDE DEF pc, profile, failure, action, attempt, audit
  <2>7. [cell[c] EXCEPT !.audit = audit, !.attempt = attempt, !.profile = profile,
                        !.failure = failure, !.action = action, !.pc = pc] \in CellState
    BY <2>2, <2>3, <2>5 DEF CellState
  <2> QED
    BY <2>6, <2>7
<1>10. cell' \in [Cells -> CellState]
  <2>1. DOMAIN cell' = Cells /\ cell' = [d \in Cells |-> cell'[d]]
    BY <1>1, <1>2
  <2> QED
    BY <1>1, <1>5, <1>9, <2>1
<1> HIDE DEF pc
<1>11. OwnCount(c)'
  BY <1>3, <1>6, <1>7, <1>8, <1>1 DEF OwnCount, CellInv, Looping
<1>12. GivenUp(c)'
  BY <1>1, <1>3, <1>6, <1>7, <1>8 DEF GivenUp, CellInv
<1>13. WithinCap(c)'
  <2>1. CASE pc = "fail"
    BY <1>6, <2>1 DEF WithinCap, Looping
  <2>2. CASE pc # "fail"
    <3>1. cell[c].action # "terminate"
      BY <1>3, <2>2 DEF RetryActions
    <3>2. budget.maxRetries # 0 => cell[c].attempt < budget.maxRetries
      BY <1>1, <1>7, <3>1 DEF CellInv, WithinCap
    <3> QED
      BY <1>3, <1>6, <1>7, <1>8, <3>2 DEF WithinCap
  <2> QED
    BY <2>1, <2>2
<1>14. Profiled(c)'
  BY <1>2, <1>3, <1>6, <1>7 DEF Profiled, Routed
<1>15. Trail(c)' /\ Spending(c)'
  BY <1>6, <1>7, <1>8 DEF Trail, Spending, CellInv
<1>16. CellInv(c)'
  BY <1>11, <1>12, <1>13, <1>14, <1>15 DEF CellInv
<1> QED
  BY <1>1, <1>5, <1>7, <1>10, <1>16, OneCell

\* The second transition of a transient failure with nowhere to go.
LEMMA RecordBackoffKeepsInv ==
  ASSUME IInv, NEW c \in Cells, RecordBackoff(c)
  PROVE  IInv'
<1>1. /\ cell \in [Cells -> CellState] /\ usage \in Nat
      /\ seen \in [Cells -> [Profiles -> Nat]] /\ cell[c].pc = "rebackoff"
      /\ UNCHANGED <<given, usage, seen>>
      /\ cell' = [cell EXCEPT ![c].audit = @ \cup {cell[c].attempt},
                              ![c].pc    = "backoff"]
  BY DEF IInv, TypeOK, RecordBackoff, At
<1>2. /\ cell'[c] = [cell[c] EXCEPT !.audit = @ \cup {cell[c].attempt}, !.pc = "backoff"]
      /\ \A d \in Cells \ {c} : cell'[d] = cell[d]
  BY <1>1
<1>3. cell'[c] \in CellState
  BY <1>1, <1>2 DEF CellState, Awaits
<1>4. cell' \in [Cells -> CellState]
  BY <1>1, <1>3
<1>5. /\ cell'[c].pc = "backoff" /\ cell'[c].profile = cell[c].profile
      /\ cell'[c].attempt = cell[c].attempt /\ cell[c].audit \subseteq cell'[c].audit
      /\ cell'[c].before = cell[c].before
  BY <1>1, <1>2 DEF CellState
<1>6. /\ CellInv(c) /\ cell[c].before \in Nat /\ usage <= UsageBound
      /\ budget' = budget /\ usage' = usage /\ seen' = seen
  BY <1>1, CellFacts DEF IInv, given
<1>7. CellInv(c)'
  BY <1>1, <1>5, <1>6 DEF CellInv, Profiled, OwnCount, GivenUp, WithinCap, Trail,
     Spending, Looping, Routed
<1> QED
  BY <1>1, <1>2, <1>4, <1>6, <1>7, OneCell

\* A cell before its first step.
LEMMA BlankFacts ==
  /\ Blank \in CellState /\ Blank.pc = "route" /\ Blank.attempt = 0
  /\ Blank.before = 0 /\ Blank.audit = {}
  BY BoundFacts DEF CellState, Blank, Awaits

\* A cell that keeps nothing of its loop: stored and made out, or raised.
LEMMA ResetKeepsInv ==
  ASSUME IInv, NEW c \in Cells, NEW reset \in CellState,
         reset.pc \in {"complete", "raised"}, reset.attempt = 0, reset.before = 0,
         cell' = [cell EXCEPT ![c] = reset], UNCHANGED <<given, usage, seen>>
  PROVE  IInv'
<1>1. /\ cell \in [Cells -> CellState] /\ usage \in Nat /\ usage <= UsageBound
      /\ seen \in [Cells -> [Profiles -> Nat]]
      /\ budget' = budget /\ usage' = usage /\ seen' = seen
  BY DEF IInv, TypeOK, given
<1>2. cell'[c] = reset /\ \A d \in Cells \ {c} : cell'[d] = cell[d]
  BY <1>1
<1>3. cell' \in [Cells -> CellState]
  BY <1>1
<1>4. CellInv(c)'
  BY <1>1, <1>2 DEF CellInv, Profiled, OwnCount, GivenUp, WithinCap, Trail,
     Spending, Looping, Routed
<1> QED
  BY <1>1, <1>2, <1>3, <1>4, OneCell

\* The gather starts every cell at once.
LEMMA StartWaveKeepsInv ==
  ASSUME IInv, StartWave
  PROVE  IInv'
<1>1. PICK selected \in [Cells -> Profiles \cup {NoProfile}] :
        cell' = [c \in Cells |->
                   [cell[c] EXCEPT
                      !.before  = usage,
                      !.profile = selected[c],
                      !.pc      = IF selected[c] = NoProfile THEN "unroutable"
                                                             ELSE "start"]]
  BY DEF StartWave
<1>2. /\ \A c \in Cells : cell[c].pc = "route"
      /\ UNCHANGED <<given, usage, seen>>
  BY DEF StartWave, At
<1>3. cell \in [Cells -> CellState] /\ usage \in Nat
  BY DEF IInv, TypeOK
<1>4. ASSUME NEW c \in Cells
      PROVE  cell'[c] \in CellState /\ CellInv(c)'
  <2> DEFINE pc == IF selected[c] = NoProfile THEN "unroutable" ELSE "start"
  <2>1. cell'[c] = [cell[c] EXCEPT !.before = usage, !.profile = selected[c], !.pc = pc]
    BY <1>1
  <2>2. pc \in {"unroutable", "start"} /\ (pc = "start" => selected[c] \in Profiles)
    OBVIOUS
  <2> HIDE DEF pc
  <2>3. /\ cell'[c].pc = pc /\ cell'[c].profile = selected[c]
        /\ cell'[c].before = usage /\ cell'[c].attempt = cell[c].attempt
        /\ cell'[c].failure = cell[c].failure /\ cell'[c].audit = cell[c].audit
    BY <1>3, <2>1 DEF CellState
  <2>4. cell'[c] \in CellState
    BY <1>3, <2>1, <2>2 DEF CellState, Awaits
  <2>5. /\ CellInv(c) /\ budget' = budget /\ usage' = usage /\ seen' = seen
    BY <1>2 DEF IInv, given
  <2>6. CellInv(c)'
    BY <1>2, <1>3, <2>2, <2>3, <2>5 DEF CellInv, Profiled, OwnCount, GivenUp,
       WithinCap, Trail, Spending, Looping, Routed
  <2> QED
    BY <2>4, <2>6
<1>5. cell' \in [Cells -> CellState]
  BY <1>1, <1>4
<1>6. TypeOK' /\ usage' <= UsageBound
  BY <1>2, <1>5 DEF IInv, TypeOK, given
<1> QED
  BY <1>4, <1>6 DEF IInv

-----------------------------------------------------------------------------
(* The invariant is inductive *)

LEMMA InitInv == Init => IInv
<1> SUFFICES ASSUME Init PROVE IInv
  OBVIOUS
<1>1. TypeOK /\ usage <= UsageBound
  BY BlankFacts, CellRunnerAssumption DEF Init, TypeOK, CellRunnerAssumption
<1>2. ASSUME NEW c \in Cells PROVE CellInv(c)
  <2>1. cell[c] = Blank /\ usage = 0 /\ \A p \in Profiles : seen[c][p] = 0
    BY DEF Init
  <2>2. budget.maxRetries \in Nat
    BY <1>1, CellFacts
  <2> QED
    BY BlankFacts, <2>1, <2>2 DEF CellInv, Profiled, OwnCount, GivenUp, WithinCap,
       Trail, Spending, Looping, Routed
<1> QED
  BY <1>1, <1>2 DEF IInv

\* One cell's step, action by action.
LEMMA WorkKeepsInv ==
  ASSUME IInv, NEW c \in Cells, Work(c)
  PROVE  IInv'
<1>0. usage \in Nat /\ usage <= UsageBound /\ cell[c] \in CellState
  BY DEF IInv, TypeOK
<1> USE DEF Looping, Routed, Awaits, Ended, At
<1>1. CASE AbstainUnrouted(c)
  BY <1>0, <1>1, GoToKeepsInv DEF AbstainUnrouted
<1>2. CASE StartCell(c)
  BY <1>0, <1>2, GoToKeepsInv DEF StartCell
<1>3. CASE WorkerSucceeds(c)
  <2>1. PICK spent \in 0..MaxSpend : usage' = Total(spent) /\ GoTo(c, "store")
    BY <1>3 DEF WorkerSucceeds
  <2> QED
    BY <1>3, <2>1, TotalFacts, GoToKeepsInv DEF WorkerSucceeds
<1>4. CASE WorkerFails(c)
  <2>1. PICK spent \in 0..MaxSpend, reported \in Failures :
          Fail(c, Reclassified(reported, Total(spent)), Total(spent))
    BY <1>4 DEF WorkerFails
  <2>2. Reclassified(reported, Total(spent)) \in Failures
    BY DEF Reclassified, Failures
  <2> QED
    BY <1>4, <2>1, <2>2, TotalFacts, FailKeepsInv DEF WorkerFails
<1>5. CASE WorkerRaises(c)
  <2>1. "transient" \in Failures
    BY DEF Failures
  <2> QED
    BY <1>0, <1>5, <2>1, FailKeepsInv DEF WorkerRaises
<1>6. CASE RecordRecovery(c)
  BY <1>6, RecordRecoveryKeepsInv
<1>7. CASE Reroute(c)
  BY <1>0, <1>7, GoToKeepsInv DEF Reroute
<1>8. CASE RecordBackoff(c)
  BY <1>8, RecordBackoffKeepsInv
<1>9. CASE Backoff(c)
  BY <1>0, <1>9, GoToKeepsInv DEF Backoff
<1>10. CASE FailCell(c)
  BY <1>0, <1>10, GoToKeepsInv DEF FailCell
<1>11. CASE StoreEvidence(c)
  <2> DEFINE reset == [Blank EXCEPT !.charged = Charged(cell[c]), !.pc = "complete"]
  <2>1. Charged(cell[c]) \in Nat
    BY <1>0 DEF Charged, IInv, CellInv, Spending, CellState
  <2>2. /\ reset \in CellState /\ reset.pc = "complete"
        /\ reset.attempt = 0 /\ reset.before = 0
    BY <2>1, BlankFacts DEF CellState
  <2> QED
    BY <1>11, <2>2, ResetKeepsInv DEF StoreEvidence
<1>12. CASE CompleteCell(c)
  BY <1>0, <1>12, GoToKeepsInv DEF CompleteCell
<1> QED
  BY <1>1, <1>2, <1>3, <1>4, <1>5, <1>6, <1>7, <1>8, <1>9, <1>10, <1>11, <1>12 DEF Work

LEMMA NextInv == IInv /\ [Next]_vars => IInv'
<1> SUFFICES ASSUME IInv, [Next]_vars PROVE IInv'
  OBVIOUS
<1>1. CASE StartWave
  BY <1>1, StartWaveKeepsInv
<1>2. CASE UNCHANGED vars
  BY <1>2 DEF vars, given, IInv, TypeOK, CellInv, Profiled, OwnCount, GivenUp,
     WithinCap, Trail, Spending
<1>3. ASSUME NEW c \in Cells, Work(c) PROVE IInv'
  BY <1>3, WorkKeepsInv
<1>4. ASSUME NEW c \in Cells, Raise(c) PROVE IInv'
  <2> DEFINE reset == [Blank EXCEPT !.pc = "raised"]
  <2>1. /\ reset \in CellState /\ reset.pc = "raised"
        /\ reset.attempt = 0 /\ reset.before = 0
    BY BlankFacts DEF CellState, Ended
  <2> QED
    BY <1>4, <2>1, ResetKeepsInv DEF Raise
<1> QED
  BY <1>1, <1>2, <1>3, <1>4 DEF Next, Gathered

THEOREM Invariance == Spec => []IInv
  BY InitInv, NextInv, PTL DEF Spec

-----------------------------------------------------------------------------
(* What it gives *)

\* Every reachable state of the wave is well typed.
THEOREM TypeCorrect == Spec => []TypeOK
<1>1. IInv => TypeOK
  BY DEF IInv
<1> QED
  BY <1>1, Invariance, PTL

\* No cell runs more often than 1 + max_retries, whatever its siblings do.
THEOREM RetriesHoldToCap == Spec => []RetriesWithinCap
<1>1. IInv => RetriesWithinCap
  BY DEF IInv, CellInv, WithinCap, RetriesWithinCap, Looping, At
<1> QED
  BY <1>1, Invariance, PTL

\* No cell is given up on its first transient failure, whatever its siblings did
\* on the profile they share.
THEOREM LadderIsOwn == Spec => []OwnLadder
<1>1. IInv => OwnLadder
  BY DEF IInv, CellInv, GivenUp, OwnLadder, At
<1> QED
  BY <1>1, Invariance, PTL

\* Every attempt a failed or abstained cell had is in its audit trail.
THEOREM AuditIsLossless == Spec => []AuditNamesEveryAttempt
<1>1. IInv => AuditNamesEveryAttempt
  BY DEF IInv, CellInv, Trail, AuditNamesEveryAttempt
<1> QED
  BY <1>1, Invariance, PTL

\* A reroute never stays on the profile that failed and never goes to none.
THEOREM ReroutesMoveOn == Spec => RerouteMovesOn
<1> DEFINE Moves == \A c \in Cells :
             At(c, "recover") /\ cell[c].pc' = "reroute"
               => cell[c].profile' \in Profiles \ {cell[c].profile}
<1>1. IInv /\ [Next]_vars => [Moves]_vars
  <2> SUFFICES ASSUME IInv, Next, NEW c \in Cells,
                      cell[c].pc = "recover", cell[c].pc' = "reroute"
               PROVE  cell[c].profile' \in Profiles \ {cell[c].profile}
    BY DEF At
  <2>1. cell \in [Cells -> CellState]
    BY DEF IInv, TypeOK
  <2>2. RecordRecovery(c)
    <3>1. ~StartWave /\ ~Gathered
      BY DEF StartWave, Gathered, At, Ended
    <3>2. PICK d \in Cells : Work(d) \/ Raise(d)
      BY <3>1 DEF Next
    <3>3. d = c
      <4>1. cell'[c] # cell[c]
        OBVIOUS
      <4> QED
        BY <2>1, <3>2, <4>1 DEF Work, Raise, AbstainUnrouted, StartCell, WorkerSucceeds,
           WorkerFails, WorkerRaises, Fail, RecordRecovery, Reroute, RecordBackoff,
           Backoff, FailCell, StoreEvidence, CompleteCell, GoTo
    <3>4. ~Raise(c)
      <4>1. ASSUME Raise(c) PROVE cell'[c].pc = "raised"
        BY <2>1, <4>1, BlankFacts DEF Raise, CellState
      <4> QED
        BY <4>1
    <3> QED
      BY <3>2, <3>3, <3>4 DEF Work, AbstainUnrouted, StartCell, WorkerSucceeds,
         WorkerFails, WorkerRaises, Reroute, RecordBackoff, Backoff, FailCell,
         StoreEvidence, CompleteCell, At
  <2>3. PICK thin \in BOOLEAN : \E next \in Routes(c, Excluded(cell[c]), thin) :
          /\ cell'[c].pc = Resumption(cell[c], next)
          /\ cell'[c].profile = IF Resumption(cell[c], next) = "reroute"
                                THEN next ELSE cell[c].profile
    BY <2>1, <2>2 DEF RecordRecovery, CellState
  <2>4. PICK next \in Routes(c, Excluded(cell[c]), thin) :
          Resumption(cell[c], next) = "reroute" /\ cell'[c].profile = next
    BY <2>3
  <2>5. next # NoProfile
    BY <2>4 DEF Resumption
  <2> QED
    BY <2>4, <2>5, CellFacts DEF Routes, Excluded, IInv
<1> QED
  BY <1>1, Invariance, PTL DEF Spec, RerouteMovesOn
=============================================================================
