---------------------------- MODULE Waves_proofs ------------------------------
(***************************************************************************)
(* What the wave loop guarantees for every graph, every number of rounds   *)
(* and every stall window: no cell runs twice, before its dependencies or  *)
(* beside a mutating one, none is left behind, and only a complete run     *)
(* goes on to verification.                                                *)
(*                                                                         *)
(* The invariant says where the cells may be: only the batch under guard   *)
(* has active cells, all others are idle or accounted for in completed or  *)
(* failed, and what the ledger says is completed plus what the batch has   *)
(* just added.                                                             *)
(***************************************************************************)
EXTENDS Waves, TLAPS

Rest == {"idle", "completed", "raised"}

RoundBound == pc \in {"guard", "unwatch", "write"} => round <= maxWaves

\* Only the batch under guard is active; outside it cells are at rest.
Confined ==
  /\ \A c \in Cells : task[c] \in Active => pc = "guard" /\ c \in guarded
  /\ \A c \in Cells \ guarded : task[c] \in Rest

\* A batch holds readers or one cell.
LoneWriter == guarded \cap graph.mutating = {} \/ \E w \in Cells : guarded = {w}

\* The ledger's completions are those of completed_ids and of the batch.
Accounted ==
  /\ completed \subseteq persisted
  /\ \A c \in Cells : task[c] = "completed" => c \in persisted
  /\ \A c \in persisted :
       \/ c \in completed
       \/ c \in guarded /\ task[c] \in {"completed", "cancelled"}

Touched ==
  /\ \A c \in Cells : task[c] # "idle" => c \in guarded \cup completed \cup failed
  /\ writers \cap (guarded \cup completed \cup failed) = {}

Unlocked == \A c \in guarded \cup writers : graph.deps[c] \subseteq completed

\* Cancelled tasks are those of a guard that was cancelled.
Undisturbed ==
  /\ ~asked => \A c \in Cells : task[c] \notin {"cancelling", "closing", "cancelled"}
  /\ pc \in {"round", "write", "unwatch"} => ~asked

\* Between two batches nothing is under guard, and the budget is not spent but for
\* a resumed run that has not started a cell yet.
BetweenBatches ==
  pc \in {"round", "write"} =>
    /\ guarded = {}
    /\ dry => resumed /\ \A c \in Cells : task[c] = "idle"

Verified == outcome = "verify" => completed = Cells /\ pc = "done"

IInv == /\ TypeOK /\ RoundBound /\ Confined /\ LoneWriter /\ Accounted
        /\ Touched /\ Unlocked /\ Undisturbed /\ BetweenBatches /\ Verified

-----------------------------------------------------------------------------
(* Steps that leave the wave loop *)

\* What a graph and its limits are made of.
LEMMA GivenFacts ==
  ASSUME TypeOK
  PROVE  /\ graph.mutating \subseteq Cells
         /\ \A c \in Cells : graph.deps[c] \subseteq Cells
         /\ maxWaves \in Nat /\ window \in Nat
  BY WavesAssumption DEF TypeOK, WavesAssumption

\* Outside a guard, and in one that is over, no cell is active.
LEMMA NoneActive ==
  ASSUME IInv, pc # "guard" \/ Over
  PROVE  \A c \in Cells : task[c] \notin Active
  BY DEF IInv, Confined, Over, Ended, Active

\* Leaving with nothing active, for verification only when complete.
LEMMA LeaveKeepsInv ==
  ASSUME IInv,
         NEW o \in {"verify", "failed", "abstained", "exhausted", "stalled",
                    "error", "cancelled"},
         Leave(o), Idle, UNCHANGED <<progress, guarded>>,
         \A c \in Cells : task[c] \notin Active,
         o = "verify" => completed = Cells
  PROVE  IInv'
<1> USE DEF IInv, Leave, Idle, progress, given
<1>1. TypeOK'
  BY DEF TypeOK
<1>2. RoundBound' /\ BetweenBatches'
  BY DEF RoundBound, BetweenBatches
<1>3. Confined'
  BY DEF Confined
<1>4. LoneWriter' /\ Accounted' /\ Touched' /\ Unlocked'
  BY DEF LoneWriter, Accounted, Touched, Unlocked
<1>5. Undisturbed'
  BY DEF Undisturbed
<1>6. Verified'
  BY DEF Verified
<1> QED
  BY <1>1, <1>2, <1>3, <1>4, <1>5, <1>6

\* Every way out of the loop keeps the invariant.
LEMMA LeavingKeepsInv ==
  ASSUME IInv,
         RoundsUsedUp \/ NothingReady \/ CutShort \/ ReturnVerdict \/ WriterRaises
  PROVE  IInv'
<1>1. CASE RoundsUsedUp
  <2>1. \A c \in Cells : task[c] \notin Active
    BY <1>1, NoneActive DEF RoundsUsedUp
  <2> QED
    BY <1>1, <2>1, LeaveKeepsInv DEF RoundsUsedUp
<1>2. CASE NothingReady
  <2>1. \A c \in Cells : task[c] \notin Active
    BY <1>2, NoneActive DEF NothingReady
  <2> QED
    BY <1>2, <2>1, LeaveKeepsInv DEF NothingReady
<1>3. CASE CutShort
  <2>1. \A c \in Cells : task[c] \notin Active
    BY <1>3, NoneActive DEF CutShort
  <2> QED
    BY <1>3, <2>1, LeaveKeepsInv DEF CutShort
<1>4. CASE ReturnVerdict
  <2>1. \A c \in Cells : task[c] \notin Active
    BY <1>4, NoneActive DEF ReturnVerdict
  <2>2. PICK c \in Verdicts : Leave(task[c])
    BY <1>4 DEF ReturnVerdict
  <2>3. task[c] \in {"failed", "abstained"}
    BY DEF Verdicts
  <2> QED
    BY <1>4, <2>1, <2>2, <2>3, LeaveKeepsInv DEF ReturnVerdict
<1>5. CASE WriterRaises
  <2>1. \A c \in Cells : task[c] \notin Active
    BY <1>5, NoneActive DEF WriterRaises
  <2> QED
    BY <1>5, <2>1, LeaveKeepsInv DEF WriterRaises
<1> QED
  BY <1>1, <1>2, <1>3, <1>4, <1>5

-----------------------------------------------------------------------------
(* Steps that start a batch or end one *)

\* A batch of eligible cells, of readers or of one cell, enters the guard.
LEMMA GuardKeepsInv ==
  ASSUME IInv, pc \in {"round", "write"}, round <= maxWaves,
         NEW batch \in SUBSET Cells,
         batch \cap graph.mutating = {} \/ \E w \in Cells : batch = {w},
         batch \cap (completed \cup failed) = {},
         \A c \in batch : graph.deps[c] \subseteq completed,
         Guard(batch),
         writers' \in SUBSET graph.mutating,
         writers' \cap (batch \cup completed \cup failed) = {},
         \A c \in writers' : graph.deps[c] \subseteq completed
  PROVE  IInv'
<1> USE DEF IInv, Guard, given
<1>1. guarded = {} /\ \A c \in Cells : task[c] \in Rest
  BY DEF BetweenBatches, Confined
<1>2. /\ \A c \in batch : task'[c] \in {"cancelled", "running"}
      /\ \A c \in Cells \ batch : task'[c] = task[c]
      /\ ~asked' => \A c \in batch : task'[c] = "running"
  OBVIOUS
<1>3. TypeOK'
  <2>1. task' \in [Cells -> {"idle"} \cup Active \cup Ended]
    BY DEF TypeOK, Active, Ended
  <2>2. asked' \in BOOLEAN
    BY DEF IsStalled
  <2> QED
    BY <2>1, <2>2 DEF TypeOK
<1>4. RoundBound' /\ BetweenBatches' /\ Verified'
  BY DEF RoundBound, BetweenBatches, Verified
<1>5. Confined' /\ LoneWriter'
  BY <1>1, <1>2 DEF Confined, LoneWriter, Rest, Active
<1>6. Accounted'
  BY <1>1, <1>2 DEF Accounted, TypeOK
<1>7. Touched' /\ Unlocked'
  BY <1>1, <1>2 DEF Touched, Unlocked
<1>8. Undisturbed'
  BY <1>1, <1>2 DEF Undisturbed, Rest
<1> QED
  BY <1>3, <1>4, <1>5, <1>6, <1>7, <1>8

\* What the scheduler offers has its dependencies and was never started.
LEMMA ReadyFacts ==
  ASSUME TypeOK
  PROVE  /\ ReadyReaders \in SUBSET Cells /\ ReadyReaders \cap graph.mutating = {}
         /\ ReadyWriters \in SUBSET graph.mutating
         /\ (ReadyReaders \cup ReadyWriters) \cap (completed \cup failed) = {}
         /\ \A c \in ReadyReaders \cup ReadyWriters : graph.deps[c] \subseteq completed
  BY DEF ReadyReaders, ReadyWriters, Eligible

LEMMA StartReadersKeepsInv ==
  ASSUME IInv, StartReaders
  PROVE  IInv'
<1>1. TypeOK /\ pc = "round" /\ round <= maxWaves
  BY DEF IInv, StartReaders, RoundsLeft
<1>2. Guard(ReadyReaders) /\ writers' = ReadyWriters
  BY DEF StartReaders
<1>3. writers' \cap (ReadyReaders \cup completed \cup failed) = {}
  BY <1>1, <1>2, ReadyFacts
<1> QED
  BY <1>1, <1>2, <1>3, ReadyFacts, GuardKeepsInv

LEMMA StartWriterKeepsInv ==
  ASSUME IInv, StartWriter
  PROVE  IInv'
<1>1. TypeOK /\ pc = "write" /\ round <= maxWaves
  BY DEF IInv, StartWriter, RoundBound
<1>2. PICK c \in writers : Guard({c}) /\ writers' = writers \ {c}
  BY DEF StartWriter
<1>3. c \in Cells /\ writers' \in SUBSET graph.mutating
  BY <1>1, <1>2, GivenFacts DEF TypeOK
<1>4. /\ {c} \cap (completed \cup failed) = {}
      /\ writers' \cap ({c} \cup completed \cup failed) = {}
  BY <1>2 DEF IInv, Touched
<1>5. \A d \in {c} \cup writers' : graph.deps[d] \subseteq completed
  BY <1>2 DEF IInv, Unlocked
<1> QED
  BY <1>1, <1>2, <1>3, <1>4, <1>5, GuardKeepsInv

\* Moving on within the loop: the mutating cell of a round without readers, and the
\* next round.
LEMMA MoveOnKeepsInv ==
  ASSUME IInv, NoReaders \/ NextRound
  PROVE  IInv'
<1> USE DEF IInv, Idle, given
<1>1. guarded = {} /\ guarded' = {}
  BY DEF BetweenBatches, NoReaders, NextRound
<1>2. /\ writers' \in SUBSET graph.mutating
      /\ writers' \cap (completed \cup failed) = {}
      /\ \A c \in writers' : graph.deps[c] \subseteq completed
  BY ReadyFacts DEF NoReaders, NextRound
<1>3. round' \in 0..(maxWaves + 1) /\ (pc' = "write" => round' <= maxWaves)
  BY GivenFacts DEF NoReaders, NextRound, RoundsLeft, RoundBound, TypeOK
<1>4. TypeOK' /\ RoundBound'
  BY <1>2, <1>3 DEF TypeOK, RoundBound, NoReaders, NextRound
<1>5. Confined' /\ LoneWriter' /\ Accounted' /\ Undisturbed'
  BY <1>1 DEF Confined, LoneWriter, Accounted, Undisturbed, NoReaders, NextRound
<1>6. Touched' /\ Unlocked'
  BY <1>1, <1>2 DEF Touched, Unlocked, NoReaders, NextRound
<1>7. BetweenBatches' /\ Verified'
  BY <1>1 DEF BetweenBatches, Verified, NoReaders, NextRound
<1> QED
  BY <1>4, <1>5, <1>6, <1>7

LEMMA EndGuardKeepsInv ==
  ASSUME IInv, EndGuard
  PROVE  IInv'
<1> USE DEF IInv, EndGuard, Idle, given, progress
<1>1. \A c \in Cells : task[c] \notin Active
  BY NoneActive
<1>2. TypeOK' /\ RoundBound'
  BY DEF TypeOK, RoundBound
<1>3. Confined' /\ LoneWriter' /\ Accounted' /\ Touched' /\ Unlocked'
  BY <1>1 DEF Confined, LoneWriter, Accounted, Touched, Unlocked
<1>4. Undisturbed' /\ BetweenBatches' /\ Verified'
  BY DEF Undisturbed, BetweenBatches, Verified
<1> QED
  BY <1>2, <1>3, <1>4

LEMMA CollectKeepsInv ==
  ASSUME IInv, Collect
  PROVE  IInv'
<1> USE DEF IInv, Collect, Idle, given
<1>1. \A c \in guarded : task[c] \in Rest
  <2>1. \A c \in Cells : task[c] \notin Active \cup {"cancelled"}
    BY NoneActive DEF Undisturbed
  <2>2. \A c \in guarded : task[c] \notin {"failed", "abstained"}
    BY DEF Verdicts
  <2> QED
    BY <2>1, <2>2 DEF TypeOK, Rest, Active, Ended
<1>2. completed' = completed \cup Done /\ failed' = failed \cup Raised
  OBVIOUS
<1>3. pc' \in {"done", "write"} /\ (pc' = "write" => ~dry)
  BY DEF Leave, OutOfBudget
<1>4. TypeOK'
  BY DEF TypeOK, Leave, Done, Raised
<1>5. RoundBound' /\ BetweenBatches' /\ LoneWriter' /\ Undisturbed'
  BY <1>3 DEF RoundBound, BetweenBatches, LoneWriter, Undisturbed
<1>6. Confined'
  BY <1>1, NoneActive DEF Confined
<1>7. Accounted'
  BY <1>1, <1>2 DEF Accounted, Done, TypeOK, Rest
<1>8. Touched'
  BY <1>1, <1>2 DEF Touched, Done, Raised, TypeOK, Rest
<1>9. Unlocked'
  BY <1>2 DEF Unlocked
<1>10. Verified'
  BY DEF Verified, Leave
<1> QED
  BY <1>4, <1>5, <1>6, <1>7, <1>8, <1>9, <1>10

-----------------------------------------------------------------------------
(* Steps during a guard *)

\* A step that only moves tasks under guard along, and says so in the ledger.
LEMMA CellsKeepInv ==
  ASSUME IInv, pc = "guard",
         UNCHANGED <<given, pc, progress, guarded, outcome>>,
         task' \in [Cells -> {"idle"} \cup Active \cup Ended],
         \A c \in Cells : task'[c] # task[c] => c \in guarded /\ task'[c] # "idle",
         \A c \in Cells : task'[c] = "completed" => c \in persisted',
         \A c \in persisted : task'[c] = task[c] \/ c \in completed,
         persisted \subseteq persisted', persisted' \subseteq Cells,
         \A c \in persisted' \ persisted :
            c \in guarded /\ task'[c] \in {"completed", "cancelled"},
         asked' \in BOOLEAN, asked => asked',
         ~asked' => \A c \in Cells :
            task'[c] \in {"cancelling", "closing", "cancelled"} => task'[c] = task[c],
         dry' \in BOOLEAN, stopped' \in BOOLEAN, quiet' \in 0..(window + 1)
  PROVE  IInv'
<1> USE DEF IInv, given, progress
<1>1. TypeOK'
  BY DEF TypeOK
<1>2. RoundBound' /\ BetweenBatches' /\ Verified'
  BY DEF RoundBound, BetweenBatches, Verified
<1>3. Confined' /\ LoneWriter'
  BY DEF Confined, LoneWriter
<1>4. Accounted'
  BY DEF Accounted
<1>5. Touched' /\ Unlocked'
  BY DEF Touched, Unlocked
<1>6. Undisturbed'
  BY DEF Undisturbed
<1> QED
  BY <1>1, <1>2, <1>3, <1>4, <1>5, <1>6

\* A cancellation of the batch, by the watchdog or from outside.
LEMMA CancelKeepsInv ==
  ASSUME IInv, pc = "guard", CancelTasks, asked' = TRUE, Awaiting, stopped' \in BOOLEAN
  PROVE  IInv'
<1>1. \A c \in Cells : task[c] \in {"idle"} \cup Active \cup Ended
  BY DEF IInv, TypeOK
<1>2. \A c \in Cells : /\ task'[c] = Cancelled(task[c])
                      /\ task'[c] \in {"idle"} \cup Active \cup Ended
  BY <1>1 DEF CancelTasks, Cancelled, Active, Ended
<1>3. task' \in [Cells -> {"idle"} \cup Active \cup Ended]
  BY <1>2 DEF CancelTasks
<1>4. \A c \in Cells : task'[c] # task[c] => /\ task[c] \in Active
                                            /\ task'[c] \in {"cancelling", "closing"}
  BY <1>1, <1>2 DEF Cancelled, Active
<1>5. \A c \in Cells : task'[c] # task[c] => c \in guarded /\ task'[c] # "idle"
  BY <1>4 DEF IInv, Confined
<1>6. \A c \in Cells : task'[c] = "completed" => c \in persisted
  BY <1>4 DEF IInv, Accounted
<1>7. \A c \in persisted : task'[c] = task[c] \/ c \in completed
  BY <1>4 DEF IInv, Accounted, Active, TypeOK
<1>8. dry \in BOOLEAN /\ quiet \in 0..(window + 1) /\ persisted \subseteq Cells
  BY DEF IInv, TypeOK
<1> QED
  BY <1>3, <1>5, <1>6, <1>7, <1>8, CellsKeepInv DEF Awaiting, given, progress

\* A step of a cell that ends nothing, or ends it without an entry in the ledger.
LEMMA CellStepKeepsInv ==
  ASSUME IInv, NEW c \in Cells, task[c] \in Active,
         NEW s \in Active \cup Ended, Becomes(c, s), Elsewhere,
         s \in {"cancelling", "closing", "cancelled"} =>
           task[c] \in {"cancelling", "closing"},
         \/ s # "completed" /\ persisted' = persisted
         \/ s \in {"completed", "cancelled"} /\ persisted' = persisted \cup {c},
         dry' \in BOOLEAN, quiet' \in 0..(window + 1)
  PROVE  IInv'
<1>1. pc = "guard" /\ c \in guarded
  BY DEF IInv, Confined
<1>2. task \in [Cells -> {"idle"} \cup Active \cup Ended]
  BY DEF IInv, TypeOK
<1>3. /\ task' \in [Cells -> {"idle"} \cup Active \cup Ended]
      /\ task'[c] = s
      /\ \A d \in Cells : d # c => task'[d] = task[d]
  BY <1>2 DEF Becomes
<1>4. s # "idle" /\ task[c] \notin {"completed", "cancelled"}
  BY DEF Active, Ended
<1>5. \A d \in Cells : task'[d] # task[d] => d \in guarded /\ task'[d] # "idle"
  BY <1>1, <1>3, <1>4
<1>6. \A d \in Cells : task'[d] = "completed" => d \in persisted'
  BY <1>3 DEF IInv, Accounted
<1>7. persisted \subseteq Cells
  BY DEF IInv, TypeOK
<1>8. \A d \in persisted : task'[d] = task[d] \/ d \in completed
  BY <1>3, <1>4, <1>7 DEF IInv, Accounted
<1>9. \A d \in persisted' \ persisted :
         d \in guarded /\ task'[d] \in {"completed", "cancelled"}
  BY <1>1, <1>3
<1>10. ~asked => \A d \in Cells :
         task'[d] \in {"cancelling", "closing", "cancelled"} => task'[d] = task[d]
  BY <1>3 DEF IInv, Undisturbed
<1>11. asked \in BOOLEAN /\ stopped \in BOOLEAN
  BY DEF IInv, TypeOK
<1>12. persisted \subseteq persisted' /\ persisted' \subseteq Cells
  BY <1>7
<1> QED
  BY <1>1, <1>3, <1>5, <1>6, <1>8, <1>9, <1>10, <1>11, <1>12, CellsKeepInv
  DEF Elsewhere, given, progress

\* Every end of a cell, its teardown included.
LEMMA CellEndsKeepsInv ==
  ASSUME IInv, NEW c \in Cells, CellEnds(c)
  PROVE  IInv'
<1> USE DEF Active, Ended
<1>1. dry \in BOOLEAN /\ quiet \in 0..(window + 1)
  BY DEF IInv, TypeOK
<1>2. CASE StoreCell(c)
  BY <1>1, <1>2, CellStepKeepsInv DEF StoreCell
<1>3. CASE CompleteCell(c)
  <2>1. CASE Becomes(c, "completed") /\ persisted' = persisted \cup {c}
    BY <1>1, <1>3, <2>1, CellStepKeepsInv DEF CompleteCell
  <2>2. CASE Becomes(c, "raised") /\ UNCHANGED persisted
    BY <1>1, <1>3, <2>2, CellStepKeepsInv DEF CompleteCell
  <2> QED
    BY <1>3, <2>1, <2>2 DEF CompleteCell
<1>4. CASE EndCell(c)
  <2>1. PICK s \in {"failed", "abstained", "raised"} : Becomes(c, s)
    BY <1>4 DEF EndCell
  <2> QED
    BY <1>1, <1>4, <2>1, CellStepKeepsInv DEF EndCell
<1>5. CASE Hang(c)
  BY <1>1, <1>5, CellStepKeepsInv DEF Hang
<1>6. CASE TearDown(c)
  BY <1>1, <1>6, CellStepKeepsInv DEF TearDown
<1>7. CASE TearDownStored(c)
  <2>1. CASE persisted' = persisted
    BY <1>1, <1>7, <2>1, CellStepKeepsInv DEF TearDownStored
  <2>2. CASE persisted' = persisted \cup {c}
    BY <1>1, <1>7, <2>2, CellStepKeepsInv DEF TearDownStored
  <2> QED
    BY <1>7, <2>1, <2>2 DEF TearDownStored
<1> QED
  BY <1>2, <1>3, <1>4, <1>5, <1>6, <1>7 DEF CellEnds

\* A heartbeat or an attempt's spend, of a cell that is running.
LEMMA CellProgressKeepsInv ==
  ASSUME IInv, NEW c \in Cells, Beat(c) \/ Spend(c)
  PROVE  IInv'
<1> USE DEF IInv, Beat, Spend, Elsewhere, given, progress
<1>1. pc = "guard"
  BY DEF Confined, Active
<1>2. TypeOK'
  <2>1. window \in Nat
    BY GivenFacts
  <2>2. dry' \in BOOLEAN /\ quiet \in 0..(window + 1)
    BY DEF TypeOK
  <2>3. quiet' \in 0..(window + 1)
    BY <2>1, <2>2
  <2> QED
    BY <2>2, <2>3 DEF TypeOK
<1>3. RoundBound' /\ BetweenBatches' /\ Verified'
  BY <1>1 DEF RoundBound, BetweenBatches, Verified
<1>4. Confined' /\ LoneWriter' /\ Accounted'
  BY DEF Confined, LoneWriter, Accounted
<1>5. Touched' /\ Unlocked' /\ Undisturbed'
  BY DEF Touched, Unlocked, Undisturbed
<1> QED
  BY <1>2, <1>3, <1>4, <1>5

\* Time, a swallowed cancellation, and nothing at all.
LEMMA OutsideKeepsInv ==
  ASSUME IInv, Tick \/ StopSwallowed \/ UNCHANGED vars
  PROVE  IInv'
<1> USE DEF IInv, Tick, StopSwallowed, Elsewhere, Awaiting, vars, given, progress
<1>1. TypeOK'
  <2>1. window \in Nat
    BY GivenFacts
  <2>2. stopped' \in BOOLEAN /\ quiet \in 0..(window + 1)
    BY DEF TypeOK
  <2>3. quiet' \in 0..(window + 1)
    BY <2>1, <2>2
  <2> QED
    BY <2>2, <2>3 DEF TypeOK
<1>2. RoundBound' /\ BetweenBatches' /\ Verified'
  BY DEF RoundBound, BetweenBatches, Verified
<1>3. Confined' /\ LoneWriter' /\ Accounted'
  BY DEF Confined, LoneWriter, Accounted
<1>4. Touched' /\ Unlocked' /\ Undisturbed'
  BY DEF Touched, Unlocked, Undisturbed
<1> QED
  BY <1>1, <1>2, <1>3, <1>4

-----------------------------------------------------------------------------
(* The invariant *)

\* The wave loop starts in the invariant, in a resumed run too.
LEMMA InitInv == Init => IInv
<1> SUFFICES ASSUME Init PROVE IInv
  OBVIOUS
<1> USE DEF Init
<1>1. TypeOK
  <2>1. maxWaves \in Nat /\ window \in Nat
    BY WavesAssumption DEF WavesAssumption
  <2>2. round \in 0..(maxWaves + 1) /\ quiet \in 0..(window + 1)
    BY <2>1
  <2>3. task \in [Cells -> {"idle"} \cup Active \cup Ended]
    OBVIOUS
  <2>4. completed \subseteq Cells /\ failed \subseteq Cells /\ persisted \subseteq Cells
    OBVIOUS
  <2> QED
    BY <2>2, <2>3, <2>4 DEF TypeOK
<1>2. RoundBound /\ Confined /\ LoneWriter /\ Accounted
  BY DEF RoundBound, Confined, LoneWriter, Accounted, Active, Rest
<1>3. Touched /\ Unlocked /\ Undisturbed /\ BetweenBatches /\ Verified
  BY DEF Touched, Unlocked, Undisturbed, BetweenBatches, Verified
<1> QED
  BY <1>1, <1>2, <1>3 DEF IInv

\* Every step of the wave loop keeps the invariant.
LEMMA NextInv == IInv /\ [Next]_vars => IInv'
<1> SUFFICES ASSUME IInv, [Next]_vars PROVE IInv'
  OBVIOUS
<1>1. CASE Loop
  BY <1>1, LeavingKeepsInv, StartReadersKeepsInv, StartWriterKeepsInv,
     MoveOnKeepsInv, EndGuardKeepsInv, CollectKeepsInv DEF Loop
<1>2. CASE Watchdog \/ Stop
  <2>1. stopped \in BOOLEAN
    BY DEF IInv, TypeOK
  <2> QED
    BY <1>2, <2>1, CancelKeepsInv DEF Watchdog, Stop
<1>3. CASE StopSwallowed \/ Tick \/ Finished \/ UNCHANGED vars
  BY <1>3, OutsideKeepsInv DEF Finished
<1>4. CASE \E c \in Cells : Beat(c) \/ Spend(c) \/ CellEnds(c)
  BY <1>4, CellProgressKeepsInv, CellEndsKeepsInv
<1> QED
  BY <1>1, <1>2, <1>3, <1>4 DEF Next

\* The invariant holds throughout.
THEOREM Invariance == Spec => []IInv
BY InitInv, NextInv, PTL DEF Spec

-----------------------------------------------------------------------------
(* What follows *)

\* The state of the wave loop has its type.
THEOREM TypeCorrect == Spec => []TypeOK
<1>1. IInv => TypeOK
  BY DEF IInv
<1> QED
  BY <1>1, Invariance, PTL

\* A mutating cell never runs beside another cell, whatever raises, hangs or is
\* cancelled in its run.
THEOREM WritersRunAlone == Spec => []WriterAlone
<1>1. IInv => WriterAlone
  BY GivenFacts DEF IInv, Confined, LoneWriter, WriterAlone
<1> QED
  BY <1>1, Invariance, PTL

\* No cell runs before the completions of its dependencies are in the ledger.
THEOREM DependenciesComeFirst == Spec => []DependenciesFirst
<1>1. IInv => DependenciesFirst
  BY DEF IInv, Confined, Unlocked, Accounted, DependenciesFirst
<1> QED
  BY <1>1, Invariance, PTL

\* Verification starts from a complete run only.
THEOREM VerifiedIsComplete == Spec => []VerifyOnlyComplete
<1>1. IInv => VerifyOnlyComplete
  BY DEF IInv, Verified, Accounted, TypeOK, VerifyOnlyComplete
<1> QED
  BY <1>1, Invariance, PTL

\* The wave loop leaves no cell running behind it.
THEOREM NothingLeftRunning == Spec => []NoOrphans
<1>1. IInv => NoOrphans
  BY DEF IInv, Confined, NoOrphans
<1> QED
  BY <1>1, Invariance, PTL

\* A cell starts by entering a guard, from a state between two batches.
LEMMA StartFacts ==
  ASSUME IInv, [Next]_vars, NEW c \in Cells, Starts(c)
  PROVE  /\ pc \in {"round", "write"} /\ c \notin completed \cup failed
         /\ guarded = {}
<1>1. CASE StartReaders
  <2>1. pc = "round" /\ c \in ReadyReaders
    BY <1>1 DEF StartReaders, Guard, Starts
  <2> QED
    BY <2>1, ReadyFacts DEF IInv, BetweenBatches
<1>2. CASE StartWriter
  <2>1. pc = "write" /\ c \in writers
    BY <1>2 DEF StartWriter, Guard, Starts
  <2> QED
    BY <2>1 DEF IInv, BetweenBatches, Touched
<1>3. CASE RoundsUsedUp \/ NothingReady \/ NoReaders \/ NextRound \/ EndGuard
           \/ CutShort \/ ReturnVerdict \/ WriterRaises \/ Collect
  BY <1>3 DEF RoundsUsedUp, NothingReady, NoReaders, NextRound, EndGuard, CutShort,
     ReturnVerdict, WriterRaises, Collect, Idle, Starts
<1>4. CASE Watchdog \/ Stop
  <2>1. task'[c] = Cancelled(task[c])
    BY <1>4 DEF Watchdog, Stop, CancelTasks
  <2> QED
    BY <2>1 DEF Starts, Cancelled
<1>5. CASE StopSwallowed \/ Tick \/ Finished \/ UNCHANGED vars
  BY <1>5 DEF StopSwallowed, Awaiting, Tick, Elsewhere, Finished, vars, Starts
<1>6. CASE \E d \in Cells : Beat(d) \/ Spend(d)
  BY <1>6 DEF Beat, Spend, Starts
<1>7. CASE \E d \in Cells : CellEnds(d)
  <2>1. PICK d \in Cells, s \in Ended \cup {"storing", "hung"} : Becomes(d, s)
    BY <1>7 DEF CellEnds, StoreCell, CompleteCell, EndCell, Hang, TearDown,
       TearDownStored, Ended
  <2>2. task'[c] = task[c] \/ task'[c] = s
    BY <2>1 DEF Becomes, IInv, TypeOK
  <2> QED
    BY <2>2 DEF Starts, Ended
<1> QED
  BY <1>1, <1>2, <1>3, <1>4, <1>5, <1>6, <1>7 DEF Next, Loop

\* No cell is run twice, nor one that the ledger says is completed.
THEOREM EveryCellStartsOnce == Spec => StartsOnce
<1> DEFINE Once == \A c \in Cells : Starts(c) => task[c] = "idle" /\ c \notin persisted
<1>1. IInv /\ [Next]_vars => Once
  <2> SUFFICES ASSUME IInv, [Next]_vars, NEW c \in Cells, Starts(c)
               PROVE  task[c] = "idle" /\ c \notin persisted
    OBVIOUS
  <2> QED
    BY StartFacts DEF IInv, Touched, Accounted
<1>2. IInv /\ [Next]_vars => [Once]_vars
  BY <1>1
<1> QED
  BY <1>2, Invariance, PTL DEF Spec, StartsOnce

\* No cell starts once a verdict has been given, a batch been cut short or the
\* budget been spent.
THEOREM EveryStartIsJustified == Spec => StartsJustified
<1> DEFINE Justified ==
      \A c \in Cells : Starts(c) =>
        /\ \A d \in Cells : task[d] \notin {"failed", "abstained", "cancelled"}
        /\ dry => resumed /\ \A d \in Cells : task[d] = "idle"
<1>1. IInv /\ [Next]_vars => Justified
  <2> SUFFICES ASSUME IInv, [Next]_vars, NEW c \in Cells, Starts(c)
               PROVE  /\ \A d \in Cells :
                           task[d] \notin {"failed", "abstained", "cancelled"}
                      /\ dry => resumed /\ \A d \in Cells : task[d] = "idle"
    OBVIOUS
  <2> QED
    BY StartFacts DEF IInv, BetweenBatches, Confined, Rest
<1>2. IInv /\ [Next]_vars => [Justified]_vars
  BY <1>1
<1> QED
  BY <1>2, Invariance, PTL DEF Spec, StartsJustified
=============================================================================
