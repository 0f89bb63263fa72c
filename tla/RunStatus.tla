------------------------------ MODULE RunStatus ------------------------------
(***************************************************************************)
(* The vocabulary of a run and its authoritative transition table          *)
(* (domain/status.py).  RunOutcome's values are spelled like the three     *)
(* terminal statuses, so _OUTCOME_TO_STATUS is the identity here.          *)
(***************************************************************************)

Outcomes == {"verified", "abstained", "failed"}

Phases == {"intake", "contracted", "planned", "executing", "verifying"}

Statuses == Phases \cup Outcomes

\* The happy-path successor of a phase: pairwise() over the tuple of phases.
Successor == [intake     |-> "contracted",
              contracted |-> "planned",
              planned    |-> "executing",
              executing  |-> "verifying",
              verifying  |-> "verified"]

\* Every phase may escape to FAILED, and to ABSTAINED unless it is EXECUTING.
CanTransition(from, to) ==
  /\ from \in Phases
  /\ \/ to = Successor[from]
     \/ to = "failed"
     \/ to = "abstained" /\ from # "executing"

\* The mutant of NextHop below: the abstention's detour is forgotten.
NextHopNoDetour(from, to) == to

(***************************************************************************)
(* The first status on the path RunStateMachine.route returns.  A caller   *)
(* that walks the whole path asks again from the status it just reached:   *)
(* the one detour, <<VERIFYING, ABSTAINED>>, unfolds into two hops.        *)
(***************************************************************************)
NextHop(from, to) ==
  IF from = "executing" /\ to = "abstained" THEN "verifying" ELSE to
=============================================================================
