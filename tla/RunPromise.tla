----------------------------- MODULE RunPromise ------------------------------
(***************************************************************************)
(* What a reader of the ledger is promised about one run, whatever code    *)
(* writes it: the status moves along the transition table, one verdict is  *)
(* ever pronounced, it is pronounced before the status turns terminal, and *)
(* the terminal status is that verdict.  Company implements it.            *)
(***************************************************************************)
EXTENDS RunStatus

VARIABLES status,   \* the run's last persisted status
          verdict   \* the run's emitted outcome, or "none"

promiseVars == <<status, verdict>>

Init == status = "intake" /\ verdict = "none"

Advance == /\ status' \in Phases
           /\ CanTransition(status, status')
           /\ UNCHANGED verdict

Pronounce == /\ verdict = "none"
             /\ status \in Phases
             /\ verdict' \in Outcomes
             /\ UNCHANGED status

Settle == /\ verdict \in Outcomes
          /\ CanTransition(status, verdict)
          /\ status' = verdict
          /\ UNCHANGED verdict

Next == Advance \/ Pronounce \/ Settle

Spec == Init /\ [][Next]_promiseVars
=============================================================================
