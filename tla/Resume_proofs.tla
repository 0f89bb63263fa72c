---------------------------- MODULE Resume_proofs ----------------------------
(***************************************************************************)
(* Proofs about Resume, for any graph, any number of runs in any pattern   *)
(* of resumes, and any bounds; and, with the same lemmas on sums, about    *)
(* BudgetAuthority, which counts what each of its runs may spend.          *)
(***************************************************************************)
EXTENDS Resume, BudgetAuthority, FiniteSetTheorems, WellFoundedInduction, TLAPS

Given(r) == CellsAt(r, {"given"})

FinishedStages == {"stored", "done", "raised"}

SomeFinished(c) == \E q \in Runs : stage[q][c] \in FinishedStages

\* What a run has done its events say.
Sealed(r) == \A c \in CellsAt(r, {"done"}) : c \in ToSet(log[r].completed)

AllSealed == \A r \in Runs : Sealed(r)

\* A run that has not begun its waves has begun no cell.
Early(r) ==
  /\ pc[r] = "unborn" =>
       log[r] = NoLog /\ todo[r] = <<>> /\ lineage[r] = {} /\ wrote[r] = {}
  /\ pc[r] \in {"unborn"} \cup Seeding =>
       fresh[r] = {} /\ \A c \in Cells : stage[r][c] \in {"idle", "given"}

\* Between two waves nothing is half finished, and a run that is over left
\* something so only by a crash.
Clean(r) ==
  /\ pc[r] \in {"between", "verifying"} => CellsAt(r, {"stored"}) = {}
  /\ pc[r] = "over" => \A c \in CellsAt(r, {"stored"}) : end[r] = "crash"

\* The graph a run has emitted marks what it was given.
Marked(r) == log[r].graph => log[r].marks = Given(r)

\* No ancestor was cut while it seeded.
Uncut(r) == \A p \in lineage[r] : todo[p] = <<>>

\* What a run was given is emitted again or still to emit, and then has evidence;
\* so has what it finished.
Evidenced(r) ==
  /\ Uncut(r) => Given(r) \subseteq ToSet(log[r].completed) \cup ToSet(todo[r])
  /\ Uncut(r) /\ pc[r] \in Executing => Given(r) \subseteq evidence[r]
  /\ CellsAt(r, {"stored", "done"}) \subseteq evidence[r]

\* A run's ancestors are over, and what they recorded it was given.
Descends(r) ==
  \A p \in lineage[r] : p \in Runs /\ pc[p] = "over" /\ Recorded(p) \subseteq Given(r)

\* What a run found no file of nobody before it had kept, or somebody finished.
Fresh(r) ==
  \A c \in fresh[r] : (\E p \in lineage[r] : c \in wrote[p]) => SomeFinished(c)

RunInv(r) ==
  Early(r) /\ Clean(r) /\ Marked(r) /\ Evidenced(r) /\ Descends(r) /\ Fresh(r)

\* A file that was written is there until its cell is finished.
Kept(c) == (\E p \in Runs : c \in wrote[p]) /\ checkpoint[c] = 0 => SomeFinished(c)

\* The inductive invariant.
IInv ==
  /\ TypeOK
  /\ \A r \in Runs : RunInv(r)
  /\ \A c \in Cells : Kept(c)

-----------------------------------------------------------------------------
(* Types *)

LEMMA InitType == Init => TypeOK
<1> SUFFICES ASSUME Init PROVE TypeOK
  OBVIOUS
<1>1. NoLog \in Log
  BY DEF NoLog, Log
<1>2. log \in [Runs -> Log]
  BY <1>1 DEF Init
<1> QED
  BY <1>2 DEF Init, TypeOK, Unset, Log, Pcs, Active, Seeding, Executing, Known

LEMMA LogUpdate ==
  ASSUME NEW l \in Log, NEW n \in Nat, NEW b \in BOOLEAN
  PROVE  /\ [l EXCEPT !.usage = n] \in Log
         /\ [l EXCEPT !.usage = n, !.exhausted = TRUE] \in Log
         /\ [l EXCEPT !.verified = b] \in Log
BY DEF Log

LEMMA SeedingType ==
  ASSUME TypeOK, NEW r \in Runs, NEW s \in Runs,
         FirstRun \/ Resume(r, s) \/ EmitContract(r) \/ EmitGraph(r)
           \/ EmitCompleted(r) \/ Execute(r)
  PROVE  TypeOK'
<1>0. /\ pc \in [Runs -> Pcs] /\ log \in [Runs -> Log] /\ todo \in [Runs -> Seq(Cells)]
      /\ log[r].completed \in Seq(Cells) /\ todo[r] \in Seq(Cells)
  BY DEF TypeOK, Log
<1>1. CASE FirstRun
  <2>1. pc' \in [Runs -> Pcs]
    BY <1>0, <1>1 DEF FirstRun, Pcs, Active, Seeding
  <2> QED
    BY <1>1, <2>1 DEF FirstRun, cell, history, TypeOK
<1>2. CASE Resume(r, s)
  <2>1. /\ todo' \in [Runs -> Seq(Cells)]
        /\ usage' \in [Runs -> Nat]
    BY <1>2 DEF Resume, TypeOK, Log, Carried
  <2>2. [c \in Cells |-> IF c \in Completed(s) THEN "given" ELSE "idle"] \in [Cells -> Known]
    BY DEF Known
  <2>3. stage' \in [Runs -> [Cells -> Known]]
    BY <1>2, <2>2 DEF Resume, TypeOK
  <2>4. lineage' \in [Runs -> SUBSET Runs]
    BY <1>2 DEF Resume, TypeOK
  <2>5. pc' \in [Runs -> Pcs]
    BY <1>2, <1>0 DEF Resume, Pcs, Active, Seeding
  <2> QED
    BY <1>2, <2>1, <2>3, <2>4, <2>5 DEF Resume, TypeOK
<1>3. CASE EmitContract(r)
  <2>1. log' = [log EXCEPT ![r].contract = TRUE]
    BY <1>3 DEF EmitContract
  <2>2. log' \in [Runs -> Log]
    BY <2>1, <1>0, ZenonT(40) DEF Log
  <2>3. pc' \in [Runs -> Pcs]
    BY <1>3, <1>0 DEF EmitContract, Pcs, Active, Seeding
  <2>4. UNCHANGED <<checkpoint, todo, stage, rounds, calls, usage, evidence, waves,
                    faults, lineage, spent, fresh, wrote, missed, end>>
    BY <1>3 DEF EmitContract, cell, history
  <2> QED
    BY <2>2, <2>3, <2>4 DEF TypeOK
<1>4. CASE EmitGraph(r)
  <2>1. Marks(r) \in SUBSET Cells
    BY DEF Marks, CellsAt
  <2>2. log' = [log EXCEPT ![r].graph = TRUE, ![r].marks = Marks(r)]
    BY <1>4 DEF EmitGraph
  <2>3. log' \in [Runs -> Log]
    BY <2>1, <2>2, <1>0, ZenonT(40) DEF Log
  <2>4. pc' \in [Runs -> Pcs]
    BY <1>4, <1>0 DEF EmitGraph, Pcs, Active, Seeding
  <2>5. UNCHANGED <<checkpoint, todo, stage, rounds, calls, usage, evidence, waves,
                    faults, lineage, spent, fresh, wrote, missed, end>>
    BY <1>4 DEF EmitGraph, cell, history
  <2> QED
    BY <2>3, <2>4, <2>5 DEF TypeOK
<1>5. CASE EmitCompleted(r)
  <2>1. todo[r] # <<>>
    BY <1>5 DEF EmitCompleted
  <2>2. Head(todo[r]) \in Cells /\ Tail(todo[r]) \in Seq(Cells)
    BY <1>0, <2>1
  <2>3. Append(log[r].completed, Head(todo[r])) \in Seq(Cells)
    BY <1>0, <2>2
  <2>4. log' = [log EXCEPT ![r].completed = Append(log[r].completed, Head(todo[r]))]
    BY <1>5 DEF EmitCompleted
  <2>5. log' \in [Runs -> Log]
    BY <1>0, <2>3, <2>4, ZenonT(40) DEF Log
  <2>6. todo' \in [Runs -> Seq(Cells)]
    BY <1>5, <1>0, <2>2 DEF EmitCompleted
  <2>7. UNCHANGED <<pc, checkpoint, stage, rounds, calls, usage, evidence, waves,
                    faults, lineage, spent, fresh, wrote, missed, end>>
    BY <1>5 DEF EmitCompleted, cell, history
  <2> QED
    BY <2>5, <2>6, <2>7 DEF TypeOK
<1>6. CASE Execute(r)
  <2>1. Seed(r) \in SUBSET Cells
    BY <1>0 DEF Seed, ToSet
  <2>2. evidence' \in [Runs -> SUBSET Cells]
    BY <1>6, <2>1 DEF Execute, TypeOK
  <2>3. pc' \in [Runs -> Pcs]
    BY <1>6, <1>0 DEF Execute, Pcs, Active, Executing
  <2>4. UNCHANGED <<log, checkpoint, todo, stage, rounds, calls, usage, waves,
                    faults, lineage, spent, fresh, wrote, missed, end>>
    BY <1>6 DEF Execute, cell, history
  <2> QED
    BY <2>2, <2>3, <2>4 DEF TypeOK
<1> QED
  BY <1>1, <1>2, <1>3, <1>4, <1>5, <1>6

LEMMA EndAttemptType ==
  ASSUME TypeOK, NEW r \in Runs, NEW c \in Cells, EndAttempt(r, c)
  PROVE  /\ spent' \in [Runs -> Nat]
         /\ calls' \in [Runs -> [Cells -> Nat]]
         /\ Account(r, c) => usage' \in [Runs -> Nat]
         /\ Miss(r, c) => missed' \in [Runs -> Nat]
<1>1. /\ calls \in [Runs -> [Cells -> Nat]]
      /\ spent \in [Runs -> Nat] /\ usage \in [Runs -> Nat] /\ missed \in [Runs -> Nat]
  BY DEF TypeOK
<1>2. /\ spent[r] + 1 \in Nat /\ usage[r] + calls[r][c] + 1 \in Nat
      /\ missed[r] + calls[r][c] + 1 \in Nat
  BY <1>1
<1>3. spent' \in [Runs -> Nat]
  BY <1>1, <1>2 DEF EndAttempt
<1>4. calls' \in [Runs -> [Cells -> Nat]]
  BY <1>1 DEF EndAttempt
<1>5. Account(r, c) => usage' \in [Runs -> Nat]
  BY <1>1, <1>2 DEF Account
<1>6. Miss(r, c) => missed' \in [Runs -> Nat]
  BY <1>1, <1>2 DEF Miss
<1> QED
  BY <1>3, <1>4, <1>5, <1>6

LEMMA CellType ==
  ASSUME TypeOK, NEW r \in Runs, NEW c \in Cells, CellStep(r, c)
  PROVE  TypeOK'
<1>0. /\ rounds \in [Runs -> [Cells -> Nat]] /\ calls \in [Runs -> [Cells -> Nat]]
      /\ checkpoint \in [Cells -> Nat] /\ faults \in Nat /\ spent \in [Runs -> Nat]
      /\ wrote \in [Runs -> SUBSET Cells] /\ log \in [Runs -> Log]
      /\ stage \in [Runs -> [Cells -> Known]] /\ evidence \in [Runs -> SUBSET Cells]
  BY DEF TypeOK
<1>1. ASSUME NEW written \in BOOLEAN, Round(r, c, written) PROVE TypeOK'
  <2>1. rounds[r][c] + 1 \in Nat /\ calls[r][c] + 1 \in Nat /\ spent[r] + 1 \in Nat
    BY <1>0
  <2>2. rounds' \in [Runs -> [Cells -> Nat]]
    BY <1>0, <1>1, <2>1 DEF Round
  <2>3. calls' \in [Runs -> [Cells -> Nat]]
    BY <1>0, <1>1, <2>1 DEF Round
  <2>4. spent' \in [Runs -> Nat] /\ faults' \in Nat
    BY <1>0, <1>1, <2>1 DEF Round, Fault
  <2>5. CASE written
    <3>1. checkpoint' \in [Cells -> Nat]
      BY <1>0, <1>1, <2>5, <2>1 DEF Round
    <3>2. wrote' = [wrote EXCEPT ![r] = wrote[r] \cup {c}]
      BY <1>1, <2>5 DEF Round
    <3>3. wrote' \in [Runs -> SUBSET Cells]
      BY <1>0, <3>2
    <3> QED
      BY <1>1, <3>1, <3>3, <2>2, <2>3, <2>4 DEF Round, TypeOK
  <2>6. CASE ~written
    BY <1>1, <2>6, <2>2, <2>3, <2>4 DEF Round, TypeOK
  <2> QED
    BY <2>5, <2>6
<1>2. CASE RetryResult(r, c)
  <2>1. EndAttempt(r, c) /\ Account(r, c) /\ faults' \in Nat
    BY <1>0, <1>2 DEF RetryResult, Fault
  <2> QED
    BY <1>2, <2>1, EndAttemptType DEF RetryResult, TypeOK
<1>3. CASE RetryRaised(r, c)
  <2>1. EndAttempt(r, c) /\ Miss(r, c) /\ faults' \in Nat
    BY <1>0, <1>3 DEF RetryRaised, Fault
  <2>2. rounds' \in [Runs -> [Cells -> Nat]]
    BY <1>0, <1>3 DEF RetryRaised
  <2> QED
    BY <1>3, <2>1, <2>2, EndAttemptType DEF RetryRaised, TypeOK
<1>4. ASSUME NEW raised \in BOOLEAN, Fail(r, c, raised) PROVE TypeOK'
  <2>1. EndAttempt(r, c)
    BY <1>4 DEF Fail
  <2>2. usage' \in [Runs -> Nat] /\ missed' \in [Runs -> Nat]
    BY <1>4, <2>1, EndAttemptType DEF Fail, TypeOK
  <2>3. rounds' \in [Runs -> [Cells -> Nat]]
    BY <1>0, <1>4 DEF Fail
  <2>4. stage' \in [Runs -> [Cells -> Known]]
    BY <1>0, <1>4 DEF Fail, Known
  <2> QED
    BY <1>4, <2>1, <2>2, <2>3, <2>4, EndAttemptType DEF Fail, AfterFailure, TypeOK
<1>5. ASSUME NEW removed \in BOOLEAN, Finish(r, c, removed) PROVE TypeOK'
  <2>1. EndAttempt(r, c) /\ Account(r, c) /\ faults' \in Nat
    BY <1>0, <1>5 DEF Finish, Fault
  <2>2. rounds' \in [Runs -> [Cells -> Nat]]
    BY <1>0, <1>5 DEF Finish
  <2>3. stage' \in [Runs -> [Cells -> Known]]
    BY <1>0, <1>5 DEF Finish, Known
  <2>4. checkpoint' \in [Cells -> Nat] /\ evidence' \in [Runs -> SUBSET Cells]
    <3>1. checkpoint' = [checkpoint EXCEPT ![c] = 0] \/ checkpoint' = checkpoint
      BY <1>5 DEF Finish
    <3>2. evidence' = [evidence EXCEPT ![r] = evidence[r] \cup {c}]
      BY <1>5 DEF Finish
    <3>3. checkpoint' \in [Cells -> Nat]
      <4>1. CASE checkpoint' = checkpoint
        BY <1>0, <4>1
      <4>2. CASE checkpoint' = [checkpoint EXCEPT ![c] = 0]
        BY <1>0, <4>2
      <4> QED
        BY <3>1, <4>1, <4>2
    <3> QED
      BY <1>0, <3>2, <3>3
  <2> QED
    BY <1>5, <2>1, <2>2, <2>3, <2>4, EndAttemptType DEF Finish, TypeOK
<1>6. CASE Record(r, c)
  <2>1. Append(log[r].completed, c) \in Seq(Cells)
    BY <1>0 DEF Log
  <2>2. log' = [log EXCEPT ![r].completed = Append(log[r].completed, c)]
    BY <1>6 DEF Record
  <2>3. log' \in [Runs -> Log]
    BY <1>0, <2>1, <2>2, ZenonT(40) DEF Log
  <2>4. stage' \in [Runs -> [Cells -> Known]]
    BY <1>0, <1>6 DEF Record, Known
  <2>5. UNCHANGED <<pc, checkpoint, todo, rounds, calls, usage, evidence, waves, faults,
                    lineage, spent, fresh, wrote, missed, end>>
    BY <1>6 DEF Record, history
  <2> QED
    BY <2>3, <2>4, <2>5 DEF TypeOK
<1>7. CASE RecordFails(r, c)
  <2>1. stage' \in [Runs -> [Cells -> Known]] /\ faults' \in Nat
    BY <1>0, <1>7 DEF RecordFails, Known, Fault
  <2>2. UNCHANGED <<pc, log, checkpoint, todo, rounds, calls, usage, evidence, waves,
                    lineage, spent, fresh, wrote, missed, end>>
    BY <1>7 DEF RecordFails, history
  <2> QED
    BY <2>1, <2>2 DEF TypeOK
<1> QED
  BY <1>1, <1>2, <1>3, <1>4, <1>5, <1>6, <1>7 DEF CellStep

LEMMA WaveType ==
  ASSUME TypeOK, NEW r \in Runs,
         (\E unread \in SUBSET Cells : StartWave(r, unread)) \/ EndWave(r) \/ Conclude(r)
           \/ (\E verified \in BOOLEAN : Verify(r, verified))
  PROVE  TypeOK'
<1>0. /\ pc \in [Runs -> Pcs] /\ log \in [Runs -> Log] /\ usage \in [Runs -> Nat]
      /\ stage \in [Runs -> [Cells -> Known]] /\ rounds \in [Runs -> [Cells -> Nat]]
      /\ checkpoint \in [Cells -> Nat] /\ waves \in [Runs -> Nat]
      /\ fresh \in [Runs -> SUBSET Cells] /\ usage[r] \in Nat
      /\ end \in [Runs -> {"none", "failed", "exhausted", "verdict", "crash", "stop"}]
      /\ faults \in Nat
  BY DEF TypeOK
<1>1. ASSUME NEW unread \in SUBSET Cells, StartWave(r, unread) PROVE TypeOK'
  <2>1. [c \in Cells |-> IF c \in Ready(r) THEN "running" ELSE stage[r][c]] \in [Cells -> Known]
    BY <1>0 DEF Known
  <2>2. stage' \in [Runs -> [Cells -> Known]]
    BY <1>0, <1>1, <2>1 DEF StartWave
  <2>3. [c \in Cells |-> IF c \in Ready(r) THEN Loaded(r, c, unread) ELSE rounds[r][c]] \in [Cells -> Nat]
    BY <1>0 DEF Loaded
  <2>4. rounds' \in [Runs -> [Cells -> Nat]]
    BY <1>0, <1>1, <2>3 DEF StartWave
  <2>5. fresh[r] \cup {c \in Ready(r) \ unread : Loaded(r, c, unread) = 0} \in SUBSET Cells
    BY <1>0 DEF Ready, CellsAt
  <2>6. fresh' \in [Runs -> SUBSET Cells]
    BY <1>0, <1>1, <2>5 DEF StartWave
  <2>7. pc' \in [Runs -> Pcs] /\ waves' \in [Runs -> Nat] /\ faults' \in Nat
    BY <1>0, <1>1 DEF StartWave, Fault, Pcs, Active, Executing
  <2> QED
    BY <1>1, <2>2, <2>4, <2>6, <2>7 DEF StartWave, TypeOK
<1>2. CASE EndWave(r)
  <2>1. pc' \in [Runs -> Pcs]
    BY <1>0, <1>2 DEF EndWave, Pcs, Active, Executing
  <2>2. log' = log \/ log' = [log EXCEPT ![r] = [log[r] EXCEPT !.usage = usage[r], !.exhausted = TRUE]]
    BY <1>2 DEF EndWave
  <2> DEFINE l == log[r]
             n == usage[r]
  <2>6. l \in Log /\ n \in Nat /\ TRUE \in BOOLEAN
    BY <1>0
  <2>7. [l EXCEPT !.usage = n] \in Log /\ [l EXCEPT !.usage = n, !.exhausted = TRUE] \in Log
    BY <2>6, LogUpdate
  <2>3. log' \in [Runs -> Log]
    BY <1>0, <2>2, <2>7
  <2>4. end' \in [Runs -> {"none", "failed", "exhausted", "verdict", "crash", "stop"}]
    BY <1>0, <1>2 DEF EndWave
  <2>5. UNCHANGED <<checkpoint, todo, stage, rounds, calls, usage, evidence, waves,
                    faults, lineage, spent, fresh, wrote, missed>>
    BY <1>2 DEF EndWave, cell
  <2> QED
    BY <2>1, <2>3, <2>4, <2>5 DEF TypeOK
<1>3. CASE Conclude(r)
  <2>1. pc' \in [Runs -> Pcs]
    BY <1>0, <1>3 DEF Conclude, Pcs, Active, Executing
  <2>2. log' = log \/ log' = [log EXCEPT ![r] = [log[r] EXCEPT !.usage = usage[r]]]
    BY <1>3 DEF Conclude
  <2> DEFINE l == log[r]
             n == usage[r]
  <2>6. l \in Log /\ n \in Nat /\ TRUE \in BOOLEAN
    BY <1>0
  <2>7. [l EXCEPT !.usage = n] \in Log /\ [l EXCEPT !.usage = n, !.exhausted = TRUE] \in Log
    BY <2>6, LogUpdate
  <2>3. log' \in [Runs -> Log]
    BY <1>0, <2>2, <2>7
  <2>4. end' \in [Runs -> {"none", "failed", "exhausted", "verdict", "crash", "stop"}]
    BY <1>0, <1>3 DEF Conclude
  <2>5. UNCHANGED <<checkpoint, todo, stage, rounds, calls, usage, evidence, waves,
                    faults, lineage, spent, fresh, wrote, missed>>
    BY <1>3 DEF Conclude, cell
  <2> QED
    BY <2>1, <2>3, <2>4, <2>5 DEF TypeOK
<1>4. ASSUME NEW verified \in BOOLEAN, Verify(r, verified) PROVE TypeOK'
  <2>1. pc' \in [Runs -> Pcs]
    BY <1>0, <1>4 DEF Verify, Pcs
  <2>2. log' = [log EXCEPT ![r] = [log[r] EXCEPT !.verified = verified]]
    BY <1>4 DEF Verify
  <2>3. log' \in [Runs -> Log]
    BY <1>0, <2>2, LogUpdate
  <2>4. end' \in [Runs -> {"none", "failed", "exhausted", "verdict", "crash", "stop"}]
    BY <1>0, <1>4 DEF Verify
  <2>5. UNCHANGED <<checkpoint, todo, stage, rounds, calls, usage, evidence, waves,
                    faults, lineage, spent, fresh, wrote, missed>>
    BY <1>4 DEF Verify, cell
  <2> QED
    BY <2>1, <2>3, <2>4, <2>5 DEF TypeOK
<1> QED
  BY <1>1, <1>2, <1>3, <1>4

LEMMA CutType ==
  ASSUME TypeOK, NEW r \in Runs, Crash \/ Stop(r) \/ Stopped(r)
  PROVE  TypeOK'
<1>0. /\ pc \in [Runs -> Pcs] /\ rounds \in [Runs -> [Cells -> Nat]] /\ faults \in Nat
      /\ end \in [Runs -> {"none", "failed", "exhausted", "verdict", "crash", "stop"}]
      /\ [c \in Cells |-> 0] \in [Cells -> Nat]
  BY DEF TypeOK
<1>1. CASE Crash
  <2>1. pc' \in [Runs -> Pcs] /\ faults' \in Nat
    BY <1>0, <1>1 DEF Crash, Pcs, Fault
  <2>2. end' \in [Runs -> {"none", "failed", "exhausted", "verdict", "crash", "stop"}]
    BY <1>0, <1>1 DEF Crash
  <2>3. rounds' \in [Runs -> [Cells -> Nat]]
    BY <1>0, <1>1 DEF Crash
  <2> QED
    BY <1>1, <2>1, <2>2, <2>3 DEF Crash, TypeOK
<1>2. CASE Stop(r)
  <2>1. pc' \in [Runs -> Pcs] /\ faults' \in Nat
    BY <1>0, <1>2 DEF Stop, Pcs, Active, Fault
  <2>2. UNCHANGED <<log, checkpoint, todo, stage, rounds, calls, usage, evidence, waves,
                    lineage, spent, fresh, wrote, missed, end>>
    BY <1>2 DEF Stop, cell, history
  <2> QED
    BY <2>1, <2>2 DEF TypeOK
<1>3. CASE Stopped(r)
  <2>1. pc' \in [Runs -> Pcs]
    BY <1>0, <1>3 DEF Stopped, Pcs
  <2>2. end' \in [Runs -> {"none", "failed", "exhausted", "verdict", "crash", "stop"}]
    BY <1>0, <1>3 DEF Stopped
  <2>3. rounds' \in [Runs -> [Cells -> Nat]]
    BY <1>0, <1>3 DEF Stopped
  <2> QED
    BY <1>3, <2>1, <2>2, <2>3 DEF Stopped, TypeOK
<1> QED
  BY <1>1, <1>2, <1>3

LEMMA NextType == TypeOK /\ [Next]_vars => TypeOK'
<1> SUFFICES ASSUME TypeOK, [Next]_vars PROVE TypeOK'
  OBVIOUS
<1>1. CASE UNCHANGED vars
  BY <1>1 DEF vars, cell, history, TypeOK
<1>2. CASE FirstRun
  BY <1>2, SeedingType, ResumeAssumption
<1>3. CASE Crash
  BY <1>3, CutType, ResumeAssumption
<1>4. ASSUME NEW r \in Runs, RunStep(r) PROVE TypeOK'
  BY <1>4, SeedingType, WaveType, CutType DEF RunStep
<1>5. ASSUME NEW r \in Runs, NEW c \in Cells, CellStep(r, c) PROVE TypeOK'
  BY <1>5, CellType
<1> QED
  BY <1>1, <1>2, <1>3, <1>4, <1>5 DEF Next
-----------------------------------------------------------------------------
(* The invariant *)

LEMMA InitInv == Init => IInv
<1> SUFFICES ASSUME Init PROVE IInv
  OBVIOUS
<1>1. TypeOK
  BY InitType
<1>2. ASSUME NEW r \in Runs PROVE RunInv(r)
  <2>1. /\ pc[r] = "unborn" /\ log[r] = NoLog /\ todo[r] = <<>> /\ lineage[r] = {}
        /\ wrote[r] = {} /\ fresh[r] = {} /\ \A c \in Cells : stage[r][c] = "idle"
    BY DEF Init, Unset
  <2>2. log[r].graph = FALSE
    BY <2>1 DEF NoLog
  <2> QED
    BY <2>1, <2>2 DEF RunInv, Early, Clean, Marked, Evidenced, Descends, Fresh, Given,
      CellsAt, Executing
<1>3. ASSUME NEW c \in Cells PROVE Kept(c)
  BY DEF Init, Kept
<1> QED
  BY <1>1, <1>2, <1>3 DEF IInv

\* A step of one run that is not over leaves the others' part of the invariant.
LEMMA OneRun ==
  ASSUME IInv, TypeOK', NEW r \in Runs, pc[r] # "over", lineage' = lineage,
         \A q \in Runs \ {r} :
           /\ pc'[q] = pc[q] /\ log'[q] = log[q] /\ todo'[q] = todo[q]
           /\ stage'[q] = stage[q] /\ evidence'[q] = evidence[q]
           /\ fresh'[q] = fresh[q] /\ wrote'[q] = wrote[q] /\ end'[q] = end[q],
         \A c \in Cells : stage[r][c] \in FinishedStages => stage'[r][c] \in FinishedStages,
         Given(r)' = Given(r),
         Early(r)', Clean(r)', Marked(r)', Evidenced(r)', Fresh(r)',
         \A c \in Cells : Kept(c)'
  PROVE  IInv'
<1>1. ASSUME NEW q \in Runs, NEW p \in lineage[q]
      PROVE  /\ p \in Runs /\ p # r /\ pc'[p] = "over" /\ todo'[p] = todo[p]
             /\ wrote'[p] = wrote[p] /\ Recorded(p)' = Recorded(p)
             /\ Recorded(p) \subseteq Given(q)
  BY DEF IInv, RunInv, Descends, Recorded
<1>2. ASSUME NEW c \in Cells, SomeFinished(c) PROVE SomeFinished(c)'
  BY <1>2 DEF SomeFinished
<1>3. ASSUME NEW q \in Runs PROVE Given(q)' = Given(q)
  BY DEF Given, CellsAt
<1>4. ASSUME NEW q \in Runs PROVE Descends(q)'
  BY <1>1, <1>3 DEF Descends
<1>5. ASSUME NEW q \in Runs, q # r PROVE RunInv(q)'
  <2>1. RunInv(q)
    BY DEF IInv
  <2>2. Early(q)' /\ Clean(q)'
    BY <2>1, <1>5 DEF RunInv, Early, Clean, CellsAt
  <2>3. Marked(q)'
    BY <2>1, <1>3, <1>5 DEF RunInv, Marked
  <2>4. Uncut(q)' = Uncut(q)
    BY <1>1 DEF Uncut
  <2>5. CellsAt(q, {"stored", "done"})' = CellsAt(q, {"stored", "done"})
    BY <1>5 DEF CellsAt
  <2>6. Evidenced(q)'
    BY <2>1, <2>4, <2>5, <1>3, <1>5 DEF RunInv, Evidenced
  <2>7. ASSUME NEW c \in fresh[q], NEW p \in lineage[q], c \in wrote'[p]
        PROVE  SomeFinished(c)'
    <3>1. c \in Cells
      BY DEF IInv, TypeOK
    <3>2. SomeFinished(c)
      BY <2>1, <2>7, <1>1 DEF RunInv, Fresh
    <3> QED
      BY <3>1, <3>2, <1>2
  <2>8. Fresh(q)'
    BY <2>7, <1>5 DEF Fresh
  <2> QED
    BY <2>2, <2>3, <2>6, <2>8, <1>4 DEF RunInv
<1>6. RunInv(r)'
  BY <1>4 DEF RunInv
<1> QED
  BY <1>5, <1>6 DEF IInv

\* What does not touch the run's stages, files or lineage keeps what they say.
LEMMA Steady ==
  ASSUME IInv, TypeOK', NEW r \in Runs, pc[r] # "over",
         UNCHANGED <<lineage, stage, checkpoint, fresh, wrote>>,
         \A q \in Runs \ {r} : todo'[q] = todo[q]
  PROVE  /\ Given(r)' = Given(r)
         /\ Uncut(r)' = Uncut(r)
         /\ CellsAt(r, {"stored", "done"})' = CellsAt(r, {"stored", "done"})
         /\ Fresh(r)'
         /\ \A c \in Cells : Kept(c)'
<1>1. \A p \in lineage[r] : p \in Runs /\ p # r
  BY DEF IInv, RunInv, Descends
<1>2. Uncut(r)' = Uncut(r)
  BY <1>1 DEF Uncut
<1>3. Fresh(r)'
  BY DEF IInv, RunInv, Fresh, SomeFinished
<1>4. \A c \in Cells : Kept(c)'
  BY DEF IInv, Kept, SomeFinished
<1> QED
  BY <1>2, <1>3, <1>4 DEF Given, CellsAt

LEMMA AppendedSet ==
  ASSUME NEW S, NEW done \in Seq(S), NEW left \in Seq(S), left # <<>>
  PROVE  ToSet(done) \cup ToSet(left) \subseteq ToSet(Append(done, Head(left))) \cup ToSet(Tail(left))
<1> DEFINE more == Append(done, Head(left))
<1>1. /\ Len(done) \in Nat /\ Len(left) \in Nat \ {0} /\ Head(left) \in S
      /\ more \in Seq(S) /\ Len(more) = Len(done) + 1 /\ more[Len(done) + 1] = Head(left)
      /\ Tail(left) \in Seq(S) /\ Len(Tail(left)) = Len(left) - 1
      /\ DOMAIN more = 1..(Len(done) + 1) /\ DOMAIN Tail(left) = 1..(Len(left) - 1)
      /\ DOMAIN done = 1..Len(done) /\ DOMAIN left = 1..Len(left)
  OBVIOUS
<1>2. ASSUME NEW i \in DOMAIN done PROVE done[i] \in ToSet(more)
  <2>1. i \in DOMAIN more /\ more[i] = done[i]
    BY <1>1
  <2> QED
    BY <2>1 DEF ToSet
<1>3. ASSUME NEW i \in DOMAIN left PROVE left[i] \in ToSet(more) \cup ToSet(Tail(left))
  <2>1. CASE i = 1
    <3>1. Len(done) + 1 \in DOMAIN more /\ more[Len(done) + 1] = left[i]
      BY <1>1, <2>1
    <3> QED
      BY <3>1 DEF ToSet
  <2>2. CASE i # 1
    <3>1. i - 1 \in DOMAIN Tail(left) /\ Tail(left)[i - 1] = left[i]
      BY <1>1, <2>2
    <3> QED
      BY <3>1 DEF ToSet
  <2> QED
    BY <2>1, <2>2
<1> QED
  BY <1>2, <1>3 DEF ToSet

LEMMA AppendedIsMember ==
  ASSUME NEW S, NEW done \in Seq(S), NEW c \in S
  PROVE  ToSet(Append(done, c)) = ToSet(done) \cup {c}
<1> DEFINE more == Append(done, c)
<1>1. /\ Len(done) \in Nat /\ more \in Seq(S) /\ Len(more) = Len(done) + 1
      /\ DOMAIN more = 1..(Len(done) + 1) /\ DOMAIN done = 1..Len(done)
      /\ more[Len(done) + 1] = c /\ \A i \in 1..Len(done) : more[i] = done[i]
  OBVIOUS
<1> QED
  BY <1>1 DEF ToSet

LEMMA FirstRunInv == IInv /\ FirstRun => IInv'
<1> SUFFICES ASSUME IInv, FirstRun PROVE IInv'
  OBVIOUS
<1>1. 1 \in Runs /\ TypeOK'
  BY SeedingType, ResumeAssumption DEF IInv
<1>2. /\ pc[1] = "unborn" /\ pc' = [pc EXCEPT ![1] = "contract"] /\ pc \in [Runs -> Pcs]
      /\ UNCHANGED <<log, checkpoint, todo, stage, evidence, lineage, fresh, wrote, end>>
  BY DEF FirstRun, cell, history, IInv, TypeOK
<1>3. RunInv(1)
  BY <1>1 DEF IInv
<1>4. Early(1)' /\ Clean(1)' /\ Marked(1)'
  BY <1>1, <1>2, <1>3 DEF RunInv, Early, Clean, Marked, Given, CellsAt, Seeding
<1>5. Evidenced(1)'
  BY <1>1, <1>2, <1>3, Steady DEF RunInv, Evidenced, Executing
<1> QED
  BY <1>1, <1>2, <1>4, <1>5, Steady, OneRun

LEMMA EmitContractInv ==
  ASSUME IInv, NEW r \in Runs, EmitContract(r)
  PROVE  IInv'
<1>1. TypeOK'
  BY SeedingType DEF IInv
<1>2. /\ pc[r] = "contract" /\ pc' = [pc EXCEPT ![r] = "graph"] /\ pc \in [Runs -> Pcs]
      /\ log \in [Runs -> Log] /\ log' = [log EXCEPT ![r].contract = TRUE]
      /\ UNCHANGED <<checkpoint, todo, stage, evidence, lineage, fresh, wrote, end>>
  BY DEF EmitContract, cell, history, IInv, TypeOK
<1>3. /\ log'[r].completed = log[r].completed /\ log'[r].graph = log[r].graph
      /\ log'[r].marks = log[r].marks /\ \A q \in Runs \ {r} : log'[q] = log[q]
  BY <1>2 DEF Log
<1>4. RunInv(r)
  BY DEF IInv
<1>5. Early(r)' /\ Clean(r)'
  BY <1>2, <1>4 DEF RunInv, Early, Clean, CellsAt, Seeding
<1>6. Marked(r)' /\ Evidenced(r)'
  BY <1>1, <1>2, <1>3, <1>4, Steady DEF RunInv, Marked, Evidenced, Executing
<1> QED
  BY <1>1, <1>2, <1>3, <1>5, <1>6, Steady, OneRun

LEMMA EmitGraphInv ==
  ASSUME IInv, NEW r \in Runs, EmitGraph(r)
  PROVE  IInv'
<1>1. TypeOK'
  BY SeedingType DEF IInv
<1>2. /\ pc[r] = "graph" /\ pc' = [pc EXCEPT ![r] = "completed"] /\ pc \in [Runs -> Pcs]
      /\ log \in [Runs -> Log]
      /\ log' = [log EXCEPT ![r].graph = TRUE, ![r].marks = Marks(r)]
      /\ UNCHANGED <<checkpoint, todo, stage, evidence, lineage, fresh, wrote, end>>
  BY DEF EmitGraph, cell, history, IInv, TypeOK
<1>3. /\ log'[r].completed = log[r].completed /\ log'[r].marks = Given(r)
      /\ \A q \in Runs \ {r} : log'[q] = log[q]
  BY <1>2 DEF Log, Marks, Given
<1>4. RunInv(r)
  BY DEF IInv
<1>5. Early(r)' /\ Clean(r)'
  BY <1>2, <1>4 DEF RunInv, Early, Clean, CellsAt, Seeding
<1>6. Marked(r)' /\ Evidenced(r)'
  BY <1>1, <1>2, <1>3, <1>4, Steady DEF RunInv, Marked, Evidenced, Executing
<1> QED
  BY <1>1, <1>2, <1>3, <1>5, <1>6, Steady, OneRun

LEMMA EmitCompletedInv ==
  ASSUME IInv, NEW r \in Runs, EmitCompleted(r)
  PROVE  IInv'
<1>1. TypeOK'
  BY SeedingType DEF IInv
<1>2. /\ pc[r] = "completed" /\ pc' = pc /\ todo[r] # <<>>
      /\ log' = [log EXCEPT ![r].completed = Append(log[r].completed, Head(todo[r]))]
      /\ todo' = [todo EXCEPT ![r] = Tail(todo[r])]
      /\ UNCHANGED <<checkpoint, stage, evidence, lineage, fresh, wrote, end>>
  BY DEF EmitCompleted, cell, history
<1>3. /\ log \in [Runs -> Log] /\ todo \in [Runs -> Seq(Cells)]
      /\ log[r].completed \in Seq(Cells) /\ todo[r] \in Seq(Cells)
  BY DEF IInv, TypeOK, Log
<1>4. /\ log'[r].completed = Append(log[r].completed, Head(todo[r]))
      /\ log'[r].marks = log[r].marks /\ log'[r].graph = log[r].graph
      /\ todo'[r] = Tail(todo[r])
      /\ \A q \in Runs \ {r} : log'[q] = log[q] /\ todo'[q] = todo[q]
  BY <1>2, <1>3 DEF Log
<1>5. RunInv(r)
  BY DEF IInv
<1>6. Early(r)' /\ Clean(r)'
  BY <1>2, <1>5 DEF RunInv, Early, Clean, CellsAt
<1>7. Marked(r)'
  BY <1>1, <1>2, <1>4, <1>5, Steady DEF RunInv, Marked
<1>8. ToSet(log[r].completed) \cup ToSet(todo[r])
        \subseteq ToSet(log'[r].completed) \cup ToSet(todo'[r])
  BY <1>2, <1>3, <1>4, AppendedSet
<1>9. Evidenced(r)'
  BY <1>1, <1>2, <1>4, <1>5, <1>8, Steady DEF RunInv, Evidenced, Executing
<1> QED
  BY <1>1, <1>2, <1>4, <1>6, <1>7, <1>9, Steady, OneRun

LEMMA ExecuteInv ==
  ASSUME IInv, NEW r \in Runs, Execute(r)
  PROVE  IInv'
<1>1. TypeOK'
  BY SeedingType DEF IInv
<1>2. /\ pc[r] = "completed" /\ pc' = [pc EXCEPT ![r] = "between"] /\ todo[r] = <<>>
      /\ evidence' = [evidence EXCEPT ![r] = ToSet(log[r].completed)]
      /\ UNCHANGED <<log, checkpoint, todo, stage, lineage, fresh, wrote, end>>
      /\ pc \in [Runs -> Pcs] /\ evidence \in [Runs -> SUBSET Cells]
  BY DEF Execute, Seed, cell, history, IInv, TypeOK
<1>3. /\ pc'[r] = "between" /\ evidence'[r] = ToSet(log[r].completed)
      /\ \A q \in Runs \ {r} : pc'[q] = pc[q] /\ evidence'[q] = evidence[q]
  BY <1>2
<1>4. RunInv(r)
  BY DEF IInv
<1>5. \A c \in Cells : stage[r][c] \in {"idle", "given"}
  BY <1>2, <1>4 DEF RunInv, Early, Seeding
<1>6. CellsAt(r, {"stored"}) = {} /\ CellsAt(r, {"stored", "done"}) = {}
  BY <1>5 DEF CellsAt
<1>7. Early(r)' /\ Clean(r)'
  BY <1>2, <1>3, <1>6 DEF Early, Clean, Seeding, CellsAt
<1>8. Marked(r)'
  BY <1>1, <1>2, <1>4, Steady DEF RunInv, Marked
<1>9. ToSet(todo[r]) = {}
  BY <1>2 DEF ToSet
<1>10. Evidenced(r)'
  BY <1>1, <1>2, <1>3, <1>4, <1>6, <1>9, Steady DEF RunInv, Evidenced
<1> QED
  BY <1>1, <1>2, <1>3, <1>7, <1>8, <1>10, Steady, OneRun

LEMMA StartWaveInv ==
  ASSUME IInv, NEW r \in Runs, NEW unread \in SUBSET Cells, StartWave(r, unread)
  PROVE  IInv'
<1>1. TypeOK'
  BY WaveType DEF IInv
<1>2. /\ pc[r] = "between" /\ pc' = [pc EXCEPT ![r] = "wave"]
      /\ stage' = [stage EXCEPT ![r] =
           [c \in Cells |-> IF c \in Ready(r) THEN "running" ELSE stage[r][c]]]
      /\ fresh' = [fresh EXCEPT ![r] =
           fresh[r] \cup {c \in Ready(r) \ unread : Loaded(r, c, unread) = 0}]
      /\ UNCHANGED <<log, checkpoint, todo, evidence, lineage, wrote, end>>
      /\ pc \in [Runs -> Pcs] /\ stage \in [Runs -> [Cells -> Known]]
      /\ fresh \in [Runs -> SUBSET Cells]
  BY DEF StartWave, IInv, TypeOK
<1>3. /\ pc'[r] = "wave"
      /\ fresh'[r] \subseteq fresh[r] \cup {c \in Ready(r) : checkpoint[c] = 0}
      /\ \A c \in Cells : stage'[r][c] = IF c \in Ready(r) THEN "running" ELSE stage[r][c]
      /\ \A q \in Runs \ {r} : pc'[q] = pc[q] /\ stage'[q] = stage[q] /\ fresh'[q] = fresh[q]
  BY <1>2 DEF Loaded
<1>4. RunInv(r)
  BY DEF IInv
<1>5. \A c \in Ready(r) : c \in Cells /\ stage[r][c] = "idle"
  BY DEF Ready, CellsAt
<1>6. /\ \A c \in Cells : stage[r][c] \in FinishedStages => stage'[r][c] \in FinishedStages
      /\ Given(r)' = Given(r)
      /\ CellsAt(r, {"stored", "done"})' = CellsAt(r, {"stored", "done"})
  BY <1>3, <1>5 DEF FinishedStages, Given, CellsAt
<1>7. \A c \in Cells : SomeFinished(c) => SomeFinished(c)'
  BY <1>3, <1>6 DEF SomeFinished
<1>8. Early(r)' /\ Clean(r)'
  BY <1>3 DEF Early, Clean, Seeding
<1>9. Marked(r)'
  BY <1>2, <1>4, <1>6 DEF RunInv, Marked
<1>10. Uncut(r)' = Uncut(r)
  BY <1>2 DEF Uncut
<1>11. Evidenced(r)'
  BY <1>2, <1>4, <1>6, <1>10 DEF RunInv, Evidenced, Executing
<1>12. \A c \in Cells : Kept(c)'
  BY <1>2, <1>7 DEF IInv, Kept
<1>13. ASSUME NEW c \in fresh'[r], NEW p \in lineage[r], c \in wrote[p]
       PROVE  SomeFinished(c)'
  <2>1. c \in Cells /\ p \in Runs
    BY <1>2, <1>3, <1>4, <1>5 DEF RunInv, Descends
  <2>2. CASE c \in fresh[r]
    BY <2>1, <2>2, <1>4, <1>7, <1>13 DEF RunInv, Fresh
  <2>3. CASE checkpoint[c] = 0
    BY <2>1, <2>3, <1>7, <1>13 DEF IInv, Kept
  <2> QED
    BY <2>2, <2>3, <1>3
<1>14. Fresh(r)'
  BY <1>2, <1>13 DEF Fresh
<1> QED
  BY <1>1, <1>2, <1>3, <1>6, <1>8, <1>9, <1>11, <1>12, <1>14, OneRun

\* The usage and the exhaustion a run records say nothing of its cells.
LEMMA Unmarked ==
  ASSUME IInv, NEW r \in Runs,
         \E l \in {log[r], [log[r] EXCEPT !.usage = usage[r]],
                   [log[r] EXCEPT !.usage = usage[r], !.exhausted = TRUE]} :
           log' = [log EXCEPT ![r] = l]
  PROVE  /\ log'[r].graph = log[r].graph /\ log'[r].marks = log[r].marks
         /\ log'[r].completed = log[r].completed
         /\ \A q \in Runs \ {r} : log'[q] = log[q]
<1>1. log \in [Runs -> Log]
  BY DEF IInv, TypeOK
<1>2. PICK l \in {log[r], [log[r] EXCEPT !.usage = usage[r]],
                 [log[r] EXCEPT !.usage = usage[r], !.exhausted = TRUE]} :
        log' = [log EXCEPT ![r] = l]
  OBVIOUS
<1>3. l.graph = log[r].graph /\ l.marks = log[r].marks /\ l.completed = log[r].completed
  BY <1>1, <1>2, ZenonT(40) DEF Log
<1> QED
  BY <1>1, <1>2, <1>3

LEMMA EndWaveInv ==
  ASSUME IInv, NEW r \in Runs, EndWave(r)
  PROVE  IInv'
<1>1. TypeOK'
  BY WaveType DEF IInv
<1>2. /\ pc[r] = "wave" /\ CellsAt(r, {"running", "stored"}) = {}
      /\ pc' = [pc EXCEPT ![r] = "over"] \/ pc' = [pc EXCEPT ![r] = "between"]
      /\ \A q \in Runs \ {r} : end'[q] = end[q]
      /\ UNCHANGED <<checkpoint, todo, stage, evidence, lineage, fresh, wrote>>
      /\ pc \in [Runs -> Pcs] /\ log \in [Runs -> Log]
  BY DEF EndWave, cell, IInv, TypeOK
<1>3. pc'[r] \in {"over", "between"} /\ \A q \in Runs \ {r} : pc'[q] = pc[q]
  BY <1>2
<1>4. log' = [log EXCEPT ![r] = log[r]]
        \/ log' = [log EXCEPT ![r] = [log[r] EXCEPT !.usage = usage[r], !.exhausted = TRUE]]
  BY <1>2 DEF EndWave
<1>5. /\ log'[r].graph = log[r].graph /\ log'[r].marks = log[r].marks
      /\ log'[r].completed = log[r].completed
      /\ \A q \in Runs \ {r} : log'[q] = log[q]
  BY <1>4, Unmarked
<1>6. RunInv(r)
  BY DEF IInv
<1>7. CellsAt(r, {"stored"}) = {}
  BY <1>2 DEF CellsAt
<1>8. Early(r)' /\ Clean(r)'
  BY <1>2, <1>3, <1>7 DEF Early, Clean, CellsAt, Seeding
<1>9. Marked(r)'
  BY <1>1, <1>2, <1>5, <1>6, Steady DEF RunInv, Marked
<1>10. Evidenced(r)'
  BY <1>1, <1>2, <1>3, <1>5, <1>6, Steady DEF RunInv, Evidenced, Executing
<1> QED
  BY <1>1, <1>2, <1>3, <1>5, <1>8, <1>9, <1>10, Steady, OneRun

LEMMA ConcludeInv ==
  ASSUME IInv, NEW r \in Runs, Conclude(r)
  PROVE  IInv'
<1>1. TypeOK'
  BY WaveType DEF IInv
<1>2. /\ pc[r] = "between"
      /\ pc' = [pc EXCEPT ![r] = "over"] \/ pc' = [pc EXCEPT ![r] = "verifying"]
      /\ \A q \in Runs \ {r} : end'[q] = end[q]
      /\ UNCHANGED <<checkpoint, todo, stage, evidence, lineage, fresh, wrote>>
      /\ pc \in [Runs -> Pcs] /\ log \in [Runs -> Log]
  BY DEF Conclude, cell, IInv, TypeOK
<1>3. pc'[r] \in {"over", "verifying"} /\ \A q \in Runs \ {r} : pc'[q] = pc[q]
  BY <1>2
<1>4. log' = [log EXCEPT ![r] = log[r]]
        \/ log' = [log EXCEPT ![r] = [log[r] EXCEPT !.usage = usage[r]]]
  BY <1>2 DEF Conclude
<1>5. /\ log'[r].graph = log[r].graph /\ log'[r].marks = log[r].marks
      /\ log'[r].completed = log[r].completed
      /\ \A q \in Runs \ {r} : log'[q] = log[q]
  BY <1>4, Unmarked
<1>6. RunInv(r)
  BY DEF IInv
<1>7. CellsAt(r, {"stored"}) = {}
  BY <1>2, <1>6 DEF RunInv, Clean
<1>8. Early(r)' /\ Clean(r)'
  BY <1>2, <1>3, <1>7 DEF Early, Clean, CellsAt, Seeding
<1>9. Marked(r)'
  BY <1>1, <1>2, <1>5, <1>6, Steady DEF RunInv, Marked
<1>10. Evidenced(r)'
  BY <1>1, <1>2, <1>3, <1>5, <1>6, Steady DEF RunInv, Evidenced, Executing
<1> QED
  BY <1>1, <1>2, <1>3, <1>5, <1>8, <1>9, <1>10, Steady, OneRun

LEMMA VerifyInv ==
  ASSUME IInv, NEW r \in Runs, NEW verified \in BOOLEAN, Verify(r, verified)
  PROVE  IInv'
<1>1. TypeOK'
  BY WaveType DEF IInv
<1>2. /\ pc[r] = "verifying" /\ pc' = [pc EXCEPT ![r] = "over"]
      /\ log' = [log EXCEPT ![r] = [log[r] EXCEPT !.verified = verified]]
      /\ \A q \in Runs \ {r} : end'[q] = end[q]
      /\ UNCHANGED <<checkpoint, todo, stage, evidence, lineage, fresh, wrote>>
      /\ pc \in [Runs -> Pcs] /\ log \in [Runs -> Log]
  BY DEF Verify, cell, IInv, TypeOK
<1>3. pc'[r] = "over" /\ \A q \in Runs \ {r} : pc'[q] = pc[q]
  BY <1>2
<1>4. /\ log'[r].graph = log[r].graph /\ log'[r].marks = log[r].marks
      /\ log'[r].completed = log[r].completed
      /\ \A q \in Runs \ {r} : log'[q] = log[q]
  BY <1>2 DEF Log
<1>5. RunInv(r)
  BY DEF IInv
<1>6. CellsAt(r, {"stored"}) = {}
  BY <1>2, <1>5 DEF RunInv, Clean
<1>7. Early(r)' /\ Clean(r)'
  BY <1>2, <1>3, <1>6 DEF Early, Clean, CellsAt, Seeding
<1>8. Marked(r)'
  BY <1>1, <1>2, <1>4, <1>5, Steady DEF RunInv, Marked
<1>9. Evidenced(r)'
  BY <1>1, <1>2, <1>3, <1>4, <1>5, Steady DEF RunInv, Evidenced, Executing
<1> QED
  BY <1>1, <1>2, <1>3, <1>4, <1>7, <1>8, <1>9, Steady, OneRun

LEMMA StopInv ==
  ASSUME IInv, NEW r \in Runs, Stop(r)
  PROVE  IInv'
<1>1. TypeOK'
  BY CutType DEF IInv
<1>2. /\ pc[r] \in Active /\ pc' = [pc EXCEPT ![r] = "stopping"]
      /\ UNCHANGED <<log, checkpoint, todo, stage, evidence, lineage, fresh, wrote, end>>
      /\ pc \in [Runs -> Pcs]
  BY DEF Stop, cell, history, IInv, TypeOK
<1>3. /\ pc[r] # "over" /\ pc'[r] = "stopping"
      /\ \A q \in Runs \ {r} : pc'[q] = pc[q]
  BY <1>2 DEF Active, Seeding, Executing
<1>4. RunInv(r)
  BY DEF IInv
<1>5. Early(r)' /\ Clean(r)'
  BY <1>2, <1>3, <1>4 DEF Early, Clean, CellsAt, Seeding
<1>6. Marked(r)' /\ Evidenced(r)'
  BY <1>1, <1>2, <1>3, <1>4, Steady DEF RunInv, Marked, Evidenced, Executing
<1> QED
  BY <1>1, <1>2, <1>3, <1>5, <1>6, Steady, OneRun

LEMMA StoppedInv ==
  ASSUME IInv, NEW r \in Runs, Stopped(r)
  PROVE  IInv'
<1>1. TypeOK'
  BY CutType DEF IInv
<1>2. /\ pc[r] = "stopping" /\ pc' = [pc EXCEPT ![r] = "over"]
      /\ CellsAt(r, {"stored"}) = {} /\ \A q \in Runs \ {r} : end'[q] = end[q]
      /\ UNCHANGED <<log, checkpoint, todo, stage, evidence, lineage, fresh, wrote>>
      /\ pc \in [Runs -> Pcs]
  BY DEF Stopped, Shielded, IInv, TypeOK
<1>3. pc'[r] = "over" /\ \A q \in Runs \ {r} : pc'[q] = pc[q]
  BY <1>2
<1>4. RunInv(r)
  BY DEF IInv
<1>5. Early(r)' /\ Clean(r)'
  BY <1>2, <1>3 DEF Early, Clean, CellsAt, Seeding
<1>6. Marked(r)' /\ Evidenced(r)'
  BY <1>1, <1>2, <1>3, <1>4, Steady DEF RunInv, Marked, Evidenced, Executing
<1> QED
  BY <1>1, <1>2, <1>3, <1>5, <1>6, Steady, OneRun
-----------------------------------------------------------------------------
(* The steps of a cell *)

\* A cell under way is neither given nor finished: what becomes of it takes nothing
\* from what the run was given, or from what is finished.
LEMMA CellMoves ==
  ASSUME IInv, NEW r \in Runs, NEW c \in Cells, NEW k \in Known \ {"given"},
         stage[r][c] \notin {"given", "done", "raised"},
         stage[r][c] = "stored" => k \in FinishedStages,
         stage' = [stage EXCEPT ![r][c] = k],
         UNCHANGED lineage
  PROVE  /\ \A d \in Cells : stage[r][d] \in FinishedStages => stage'[r][d] \in FinishedStages
         /\ \A q \in Runs \ {r} : stage'[q] = stage[q]
         /\ Given(r)' = Given(r)
         /\ \A d \in Cells : SomeFinished(d) => SomeFinished(d)'
         /\ CellsAt(r, {"stored", "done"})' \subseteq CellsAt(r, {"stored", "done"}) \cup {c}
         /\ k \notin {"stored", "done"} =>
              CellsAt(r, {"stored", "done"})' \subseteq CellsAt(r, {"stored", "done"})
<1>1. stage \in [Runs -> [Cells -> Known]]
  BY DEF IInv, TypeOK
<1>2. /\ stage'[r][c] = k /\ \A d \in Cells \ {c} : stage'[r][d] = stage[r][d]
      /\ \A q \in Runs \ {r} : stage'[q] = stage[q]
  BY <1>1
<1>3. \A d \in Cells : stage[r][d] \in FinishedStages => stage'[r][d] \in FinishedStages
  BY <1>2 DEF FinishedStages
<1>4. Given(r)' = Given(r)
  BY <1>2 DEF Given, CellsAt
<1>5. \A d \in Cells : SomeFinished(d) => SomeFinished(d)'
  BY <1>2, <1>3 DEF SomeFinished
<1>6. /\ CellsAt(r, {"stored", "done"})' \subseteq CellsAt(r, {"stored", "done"}) \cup {c}
      /\ k \notin {"stored", "done"} =>
           CellsAt(r, {"stored", "done"})' \subseteq CellsAt(r, {"stored", "done"})
  BY <1>2 DEF CellsAt
<1> QED
  BY <1>2, <1>3, <1>4, <1>5, <1>6

\* In a wave, or in one being stopped, only what the run's cells say matters.
LEMMA InWave ==
  ASSUME IInv, NEW r \in Runs, pc[r] \in {"wave", "stopping"}, pc' = pc
  PROVE  Early(r)' /\ Clean(r)' /\ pc[r] # "over"
BY DEF IInv, TypeOK, Early, Clean, Seeding

LEMMA RoundInv ==
  ASSUME IInv, NEW r \in Runs, NEW c \in Cells, NEW written \in BOOLEAN,
         Round(r, c, written)
  PROVE  IInv'
<1>1. TypeOK'
  BY CellType DEF IInv, CellStep
<1>2. /\ pc[r] = "wave" /\ pc' = pc
      /\ UNCHANGED <<log, todo, stage, evidence, lineage, fresh, end>>
  BY DEF Round
<1>3. /\ checkpoint \in [Cells -> Nat] /\ wrote \in [Runs -> SUBSET Cells]
      /\ rounds[r][c] \in Nat
  BY DEF IInv, TypeOK
<1>4. \/ checkpoint' = checkpoint /\ wrote' = wrote
      \/ /\ checkpoint' = [checkpoint EXCEPT ![c] = rounds[r][c] + 1]
         /\ wrote' = [wrote EXCEPT ![r] = wrote[r] \cup {c}]
  BY DEF Round
<1>5. RunInv(r)
  BY DEF IInv
<1>6. Early(r)' /\ Clean(r)' /\ pc[r] # "over"
  BY <1>2, InWave
<1>7. \A q \in Runs \ {r} : wrote'[q] = wrote[q]
  BY <1>3, <1>4
<1>8. Given(r)' = Given(r) /\ Uncut(r)' = Uncut(r)
  BY <1>2 DEF Given, CellsAt, Uncut
<1>9. Marked(r)' /\ Evidenced(r)'
  BY <1>2, <1>5, <1>8 DEF RunInv, Marked, Evidenced, CellsAt
<1>10. Fresh(r)'
  BY <1>2, <1>5, <1>6, <1>7 DEF RunInv, Fresh, Descends, SomeFinished
<1>11. ASSUME NEW d \in Cells PROVE Kept(d)'
  <2>1. Kept(d)
    BY DEF IInv
  <2>2. SomeFinished(d)' = SomeFinished(d)
    BY <1>2 DEF SomeFinished
  <2>3. CASE checkpoint' = checkpoint /\ wrote' = wrote
    BY <2>1, <2>2, <2>3 DEF Kept
  <2>4. CASE checkpoint' = [checkpoint EXCEPT ![c] = rounds[r][c] + 1]
               /\ wrote' = [wrote EXCEPT ![r] = wrote[r] \cup {c}]
    <3>1. checkpoint'[c] # 0 /\ (d # c => checkpoint'[d] = checkpoint[d])
      BY <1>3, <2>4
    <3>2. d # c => \A p \in Runs : d \in wrote'[p] => d \in wrote[p]
      BY <1>3, <2>4
    <3> QED
      BY <2>1, <2>2, <3>1, <3>2 DEF Kept
  <2> QED
    BY <1>4, <2>3, <2>4
<1> QED
  BY <1>1, <1>2, <1>6, <1>7, <1>8, <1>9, <1>10, <1>11, OneRun

\* An attempt that is tried again changes nothing the invariant is about.
LEMMA RetryInv ==
  ASSUME IInv, NEW r \in Runs, NEW c \in Cells, RetryResult(r, c) \/ RetryRaised(r, c)
  PROVE  IInv'
<1>1. TypeOK'
  BY CellType DEF IInv, CellStep
<1>2. /\ pc[r] = "wave" /\ pc' = pc
      /\ UNCHANGED <<log, checkpoint, todo, stage, evidence, lineage, fresh, wrote, end>>
  BY DEF RetryResult, RetryRaised, EndAttempt
<1>3. Early(r)' /\ Clean(r)' /\ pc[r] # "over"
  BY <1>2, InWave
<1>4. Marked(r)' /\ Evidenced(r)'
  BY <1>1, <1>2, <1>3, Steady DEF IInv, RunInv, Marked, Evidenced
<1> QED
  BY <1>1, <1>2, <1>3, <1>4, Steady, OneRun

LEMMA FailInv ==
  ASSUME IInv, NEW r \in Runs, NEW c \in Cells, NEW raised \in BOOLEAN,
         Fail(r, c, raised)
  PROVE  IInv'
<1>1. TypeOK'
  BY CellType DEF IInv, CellStep
<1>2. /\ pc[r] = "wave" /\ pc' = pc /\ stage[r][c] = "running"
      /\ stage' = [stage EXCEPT ![r][c] = "failed"]
      /\ UNCHANGED <<log, checkpoint, todo, evidence, lineage, fresh, wrote, end>>
  BY DEF Fail, EndAttempt, AfterFailure
<1>3. /\ \A d \in Cells : stage[r][d] \in FinishedStages => stage'[r][d] \in FinishedStages
      /\ \A q \in Runs \ {r} : stage'[q] = stage[q]
      /\ Given(r)' = Given(r)
      /\ \A d \in Cells : SomeFinished(d) => SomeFinished(d)'
      /\ CellsAt(r, {"stored", "done"})' \subseteq CellsAt(r, {"stored", "done"})
  <2>1. "failed" \in Known \ {"given"}
    BY DEF Known
  <2> QED
    BY <1>2, <2>1, CellMoves
<1>4. RunInv(r)
  BY DEF IInv
<1>5. Early(r)' /\ Clean(r)' /\ pc[r] # "over"
  BY <1>2, InWave
<1>6. Marked(r)' /\ Evidenced(r)'
  BY <1>2, <1>3, <1>4 DEF RunInv, Marked, Evidenced, Uncut
<1>7. Fresh(r)'
  BY <1>1, <1>2, <1>3, <1>4 DEF RunInv, Fresh, IInv, TypeOK
<1>8. \A d \in Cells : Kept(d)'
  BY <1>2, <1>3 DEF IInv, Kept
<1> QED
  BY <1>1, <1>2, <1>3, <1>5, <1>6, <1>7, <1>8, OneRun

LEMMA FinishInv ==
  ASSUME IInv, NEW r \in Runs, NEW c \in Cells, NEW removed \in BOOLEAN,
         Finish(r, c, removed)
  PROVE  IInv'
<1>1. TypeOK'
  BY CellType DEF IInv, CellStep
<1>2. /\ pc[r] = "wave" /\ pc' = pc /\ stage[r][c] = "running"
      /\ stage' = [stage EXCEPT ![r][c] = "stored"]
      /\ checkpoint' = [checkpoint EXCEPT ![c] = 0] \/ checkpoint' = checkpoint
      /\ evidence' = [evidence EXCEPT ![r] = evidence[r] \cup {c}]
      /\ UNCHANGED <<log, todo, lineage, fresh, wrote, end>>
      /\ stage \in [Runs -> [Cells -> Known]] /\ checkpoint \in [Cells -> Nat]
      /\ evidence \in [Runs -> SUBSET Cells]
  BY DEF Finish, EndAttempt, IInv, TypeOK
<1>3. /\ \A d \in Cells : stage[r][d] \in FinishedStages => stage'[r][d] \in FinishedStages
      /\ \A q \in Runs \ {r} : stage'[q] = stage[q]
      /\ Given(r)' = Given(r)
      /\ \A d \in Cells : SomeFinished(d) => SomeFinished(d)'
      /\ CellsAt(r, {"stored", "done"})' \subseteq CellsAt(r, {"stored", "done"}) \cup {c}
  <2>1. "stored" \in Known \ {"given"}
    BY DEF Known
  <2> QED
    BY <1>2, <2>1, CellMoves
<1>4. RunInv(r)
  BY DEF IInv
<1>5. Early(r)' /\ Clean(r)' /\ pc[r] # "over"
  BY <1>2, InWave
<1>6. SomeFinished(c)'
  <2>1. stage'[r][c] \in FinishedStages
    BY <1>2 DEF FinishedStages
  <2> QED
    BY <2>1 DEF SomeFinished
<1>7. /\ evidence'[r] = evidence[r] \cup {c}
      /\ \A q \in Runs \ {r} : evidence'[q] = evidence[q]
      /\ \A d \in Cells \ {c} : checkpoint'[d] = checkpoint[d]
  BY <1>2
<1>8. Marked(r)' /\ Evidenced(r)'
  BY <1>2, <1>3, <1>4, <1>7 DEF RunInv, Marked, Evidenced, Uncut
<1>9. Fresh(r)'
  BY <1>1, <1>2, <1>3, <1>4 DEF RunInv, Fresh, IInv, TypeOK
<1>10. \A d \in Cells : Kept(d)'
  BY <1>2, <1>3, <1>6, <1>7 DEF IInv, Kept
<1> QED
  BY <1>1, <1>2, <1>3, <1>5, <1>7, <1>8, <1>9, <1>10, OneRun

LEMMA RecordInv ==
  ASSUME IInv, NEW r \in Runs, NEW c \in Cells, Record(r, c)
  PROVE  IInv'
<1>1. TypeOK'
  BY CellType DEF IInv, CellStep
<1>2. /\ pc[r] \in {"wave", "stopping"} /\ pc' = pc /\ stage[r][c] = "stored"
      /\ stage' = [stage EXCEPT ![r][c] = "done"]
      /\ log' = [log EXCEPT ![r].completed = Append(log[r].completed, c)]
      /\ UNCHANGED <<checkpoint, todo, evidence, lineage, fresh, wrote, end>>
      /\ stage \in [Runs -> [Cells -> Known]] /\ log \in [Runs -> Log]
      /\ log[r].completed \in Seq(Cells)
  BY DEF Record, history, IInv, TypeOK, Log
<1>3. /\ \A d \in Cells : stage[r][d] \in FinishedStages => stage'[r][d] \in FinishedStages
      /\ \A q \in Runs \ {r} : stage'[q] = stage[q]
      /\ Given(r)' = Given(r)
      /\ \A d \in Cells : SomeFinished(d) => SomeFinished(d)'
  <2>1. "done" \in Known \ {"given"} /\ "done" \in FinishedStages
    BY DEF Known, FinishedStages
  <2> QED
    BY <1>2, <2>1, CellMoves
<1>4. CellsAt(r, {"stored", "done"})' = CellsAt(r, {"stored", "done"})
  BY <1>2 DEF CellsAt
<1>5. RunInv(r)
  BY DEF IInv
<1>6. Early(r)' /\ Clean(r)' /\ pc[r] # "over"
  BY <1>2, InWave
<1>7. /\ log'[r].completed = Append(log[r].completed, c)
      /\ log'[r].marks = log[r].marks /\ log'[r].graph = log[r].graph
      /\ \A q \in Runs \ {r} : log'[q] = log[q]
  BY <1>2 DEF Log
<1>8. ToSet(log[r].completed) \subseteq ToSet(log'[r].completed)
  BY <1>2, <1>7, AppendedIsMember
<1>9. Marked(r)' /\ Evidenced(r)'
  BY <1>2, <1>3, <1>4, <1>5, <1>7, <1>8 DEF RunInv, Marked, Evidenced, Uncut
<1>10. Fresh(r)'
  BY <1>1, <1>2, <1>3, <1>5 DEF RunInv, Fresh, IInv, TypeOK
<1>11. \A d \in Cells : Kept(d)'
  BY <1>2, <1>3 DEF IInv, Kept
<1> QED
  BY <1>1, <1>2, <1>3, <1>6, <1>7, <1>9, <1>10, <1>11, OneRun

LEMMA RecordFailsInv ==
  ASSUME IInv, NEW r \in Runs, NEW c \in Cells, RecordFails(r, c)
  PROVE  IInv'
<1>1. TypeOK'
  BY CellType DEF IInv, CellStep
<1>2. /\ pc[r] \in {"wave", "stopping"} /\ pc' = pc /\ stage[r][c] = "stored"
      /\ stage' = [stage EXCEPT ![r][c] = "raised"]
      /\ UNCHANGED <<log, checkpoint, todo, evidence, lineage, fresh, wrote, end>>
  BY DEF RecordFails, history
<1>3. /\ \A d \in Cells : stage[r][d] \in FinishedStages => stage'[r][d] \in FinishedStages
      /\ \A q \in Runs \ {r} : stage'[q] = stage[q]
      /\ Given(r)' = Given(r)
      /\ \A d \in Cells : SomeFinished(d) => SomeFinished(d)'
      /\ CellsAt(r, {"stored", "done"})' \subseteq CellsAt(r, {"stored", "done"})
  <2>1. "raised" \in Known \ {"given"} /\ "raised" \in FinishedStages
    BY DEF Known, FinishedStages
  <2> QED
    BY <1>2, <2>1, CellMoves
<1>4. RunInv(r)
  BY DEF IInv
<1>5. Early(r)' /\ Clean(r)' /\ pc[r] # "over"
  BY <1>2, InWave
<1>6. Marked(r)' /\ Evidenced(r)'
  BY <1>2, <1>3, <1>4 DEF RunInv, Marked, Evidenced, Uncut
<1>7. Fresh(r)'
  BY <1>1, <1>2, <1>3, <1>4 DEF RunInv, Fresh, IInv, TypeOK
<1>8. \A d \in Cells : Kept(d)'
  BY <1>2, <1>3 DEF IInv, Kept
<1> QED
  BY <1>1, <1>2, <1>3, <1>5, <1>6, <1>7, <1>8, OneRun
-----------------------------------------------------------------------------
(* Resuming, and crashing *)

LEMMA ResumeInv ==
  ASSUME IInv, NEW r \in Runs, NEW s \in Runs, Resume(r, s)
  PROVE  IInv'
<1>1. TypeOK'
  BY SeedingType DEF IInv
<1>2. /\ pc[r] = "unborn" /\ pc[s] = "over" /\ r # s /\ log[s].graph
      /\ pc' = [pc EXCEPT ![r] = "contract"]
      /\ todo' = [todo EXCEPT ![r] = log[s].completed]
      /\ stage' = [stage EXCEPT ![r] =
           [c \in Cells |-> IF c \in Recorded(s) THEN "given" ELSE "idle"]]
      /\ lineage' = [lineage EXCEPT ![r] = lineage[s] \cup {s}]
      /\ UNCHANGED <<log, checkpoint, evidence, fresh, wrote, end>>
  BY DEF Resume, MayResume, Completed
<1>3. /\ pc \in [Runs -> Pcs] /\ todo \in [Runs -> Seq(Cells)]
      /\ stage \in [Runs -> [Cells -> Known]] /\ lineage \in [Runs -> SUBSET Runs]
      /\ log \in [Runs -> Log] /\ log[s].completed \in Seq(Cells)
      /\ log[s].marks \subseteq Cells
  BY DEF IInv, TypeOK, Log
<1>4. /\ pc'[r] = "contract" /\ todo'[r] = log[s].completed
      /\ lineage'[r] = lineage[s] \cup {s}
      /\ \A c \in Cells : stage'[r][c] = IF c \in Recorded(s) THEN "given" ELSE "idle"
      /\ \A q \in Runs \ {r} :
           pc'[q] = pc[q] /\ todo'[q] = todo[q] /\ stage'[q] = stage[q] /\ lineage'[q] = lineage[q]
  BY <1>2, <1>3
<1>5. RunInv(r) /\ RunInv(s)
  BY DEF IInv
<1>6. /\ log[r] = NoLog /\ wrote[r] = {} /\ fresh[r] = {} /\ lineage[r] = {}
      /\ \A c \in Cells : stage[r][c] \in {"idle", "given"}
  BY <1>2, <1>5 DEF RunInv, Early
<1>7. Recorded(s) \subseteq Cells
  BY <1>3 DEF Recorded, ToSet
<1>8. Given(r)' = Recorded(s) /\ Recorded(s) = Given(s) \cup ToSet(log[s].completed)
  <2>1. Given(r)' = Recorded(s)
    BY <1>4, <1>7 DEF Given, CellsAt
  <2>2. log[s].marks = Given(s)
    BY <1>2, <1>5 DEF RunInv, Marked
  <2> QED
    BY <2>1, <2>2 DEF Recorded
<1>9. ASSUME NEW q \in Runs, NEW p \in lineage[q]
      PROVE  p \in Runs /\ p # r /\ pc'[p] = "over" /\ todo'[p] = todo[p]
             /\ Recorded(p)' = Recorded(p) /\ Recorded(p) \subseteq Given(q)
  BY <1>2, <1>4 DEF IInv, RunInv, Descends, Recorded
<1>10. \A c \in Cells : SomeFinished(c) => SomeFinished(c)'
  BY <1>4, <1>6 DEF SomeFinished, FinishedStages
<1>11. \A c \in Cells : Kept(c)'
  BY <1>2, <1>10 DEF IInv, Kept
<1>12. RunInv(r)'
  <2>1. Early(r)' /\ Clean(r)' /\ Fresh(r)'
    BY <1>2, <1>4, <1>6 DEF Early, Clean, Fresh
  <2>2. Marked(r)'
    BY <1>2, <1>6 DEF Marked, NoLog
  <2>3. Uncut(r)' => Given(r)' \subseteq ToSet(todo'[r])
    <3>1. SUFFICES ASSUME Uncut(r)' PROVE Given(r)' \subseteq ToSet(todo'[r])
      OBVIOUS
    <3>2. todo[s] = <<>>
      BY <3>1, <1>2, <1>4 DEF Uncut
    <3>3. Uncut(s)
      BY <3>1, <1>4, <1>9 DEF Uncut
    <3>4. Given(s) \subseteq ToSet(log[s].completed)
      <4>1. ToSet(todo[s]) = {}
        BY <3>2 DEF ToSet
      <4> QED
        BY <4>1, <3>3, <1>5 DEF RunInv, Evidenced
    <3> QED
      BY <3>4, <1>4, <1>8
  <2>4. CellsAt(r, {"stored", "done"})' = {}
    BY <1>4 DEF CellsAt
  <2>5. Evidenced(r)'
    BY <2>3, <2>4, <1>4 DEF Evidenced, Executing
  <2>6. ASSUME NEW p \in lineage'[r]
        PROVE  p \in Runs /\ pc'[p] = "over" /\ Recorded(p)' \subseteq Given(r)'
    <3>1. CASE p = s
      BY <3>1, <1>2, <1>4, <1>8 DEF Recorded
    <3>2. CASE p \in lineage[s]
      BY <3>2, <1>8, <1>9
    <3> QED
      BY <2>6, <3>1, <3>2, <1>4
  <2>7. Descends(r)'
    BY <2>6 DEF Descends
  <2> QED
    BY <2>1, <2>2, <2>5, <2>7 DEF RunInv
<1>13. ASSUME NEW q \in Runs, q # r PROVE RunInv(q)'
  <2>1. RunInv(q)
    BY DEF IInv
  <2>2. /\ Given(q)' = Given(q)
        /\ CellsAt(q, {"stored", "done"})' = CellsAt(q, {"stored", "done"})
        /\ CellsAt(q, {"stored"})' = CellsAt(q, {"stored"})
    BY <1>4, <1>13 DEF Given, CellsAt
  <2>3. Early(q)' /\ Clean(q)' /\ Marked(q)'
    BY <2>1, <2>2, <1>2, <1>4, <1>13 DEF RunInv, Early, Clean, Marked
  <2>4. Uncut(q)' = Uncut(q)
    BY <1>4, <1>9, <1>13 DEF Uncut
  <2>5. Evidenced(q)'
    BY <2>1, <2>2, <2>4, <1>2, <1>4, <1>13 DEF RunInv, Evidenced
  <2>6. Descends(q)'
    BY <2>2, <1>4, <1>9, <1>13 DEF Descends
  <2>7. \A c \in fresh[q] : c \in Cells
    BY DEF IInv, TypeOK
  <2>8. Fresh(q)'
    BY <2>1, <2>7, <1>2, <1>4, <1>10, <1>13 DEF RunInv, Fresh
  <2> QED
    BY <2>3, <2>5, <2>6, <2>8 DEF RunInv
<1> QED
  BY <1>1, <1>11, <1>12, <1>13 DEF IInv

LEMMA CrashInv == IInv /\ Crash => IInv'
<1> SUFFICES ASSUME IInv, Crash PROVE IInv'
  OBVIOUS
<1>1. TypeOK'
  BY CutType, ResumeAssumption DEF IInv
<1>2. /\ UNCHANGED <<log, checkpoint, todo, stage, evidence, lineage, fresh, wrote>>
      /\ \A r \in Runs :
           /\ pc'[r] = IF pc[r] \in Active THEN "over" ELSE pc[r]
           /\ end'[r] = IF pc[r] \in Active THEN "crash" ELSE end[r]
  BY DEF Crash
<1>3. \A r \in Runs : pc[r] \in Pcs
  BY DEF IInv, TypeOK
<1>4. ASSUME NEW r \in Runs PROVE RunInv(r)'
  <2>1. RunInv(r)
    BY DEF IInv
  <2>2. pc'[r] \in {"unborn", "over"} /\ (pc'[r] = "unborn" => pc[r] = "unborn")
    BY <1>2, <1>3 DEF Pcs
  <2>3. Early(r)'
    BY <2>1, <2>2, <1>2 DEF RunInv, Early, Seeding
  <2>4. Clean(r)'
    BY <2>1, <2>2, <1>2, <1>3 DEF RunInv, Clean, CellsAt, Pcs
  <2>5. Marked(r)' /\ Fresh(r)'
    BY <2>1, <1>2 DEF RunInv, Marked, Given, CellsAt, Fresh, SomeFinished
  <2>6. Evidenced(r)'
    BY <2>1, <2>2, <1>2 DEF RunInv, Evidenced, Given, CellsAt, Uncut, Executing
  <2>7. Descends(r)'
    BY <2>1, <1>2 DEF RunInv, Descends, Recorded, Given, CellsAt, Active, Seeding, Executing
  <2> QED
    BY <2>3, <2>4, <2>5, <2>6, <2>7 DEF RunInv
<1>5. \A c \in Cells : Kept(c)'
  BY <1>2 DEF IInv, Kept, SomeFinished
<1> QED
  BY <1>1, <1>4, <1>5 DEF IInv

LEMMA StutterInv == IInv /\ UNCHANGED vars => IInv'
<1> SUFFICES ASSUME IInv, UNCHANGED vars PROVE IInv'
  OBVIOUS
<1>1. UNCHANGED <<pc, log, checkpoint, todo, stage, evidence, lineage, fresh, wrote, end>>
  BY DEF vars, cell, history
<1>2. TypeOK'
  BY NextType DEF IInv
<1>3. ASSUME NEW r \in Runs PROVE RunInv(r)'
  <2>1. RunInv(r)
    BY DEF IInv
  <2>2. Early(r)' /\ Clean(r)' /\ Marked(r)'
    BY <1>1, <2>1 DEF RunInv, Early, Clean, Marked, Given, CellsAt
  <2>3. Evidenced(r)'
    BY <1>1, <2>1 DEF RunInv, Evidenced, Given, CellsAt, Uncut
  <2>4. Descends(r)' /\ Fresh(r)'
    BY <1>1, <2>1 DEF RunInv, Descends, Recorded, Given, CellsAt, Fresh, SomeFinished
  <2> QED
    BY <2>2, <2>3, <2>4 DEF RunInv
<1>4. \A c \in Cells : Kept(c)'
  BY <1>1 DEF IInv, Kept, SomeFinished
<1> QED
  BY <1>2, <1>3, <1>4 DEF IInv

LEMMA NextInv == IInv /\ [Next]_vars => IInv'
<1> SUFFICES ASSUME IInv, [Next]_vars PROVE IInv'
  OBVIOUS
<1>1. CASE UNCHANGED vars
  BY <1>1, StutterInv
<1>2. CASE FirstRun
  BY <1>2, FirstRunInv
<1>3. CASE Crash
  BY <1>3, CrashInv
<1>4. ASSUME NEW r \in Runs, RunStep(r) PROVE IInv'
  BY <1>4, ResumeInv, EmitContractInv, EmitGraphInv, EmitCompletedInv, ExecuteInv,
    StartWaveInv, EndWaveInv, ConcludeInv, VerifyInv, StopInv, StoppedInv DEF RunStep
<1>5. ASSUME NEW r \in Runs, NEW c \in Cells, CellStep(r, c) PROVE IInv'
  BY <1>5, RoundInv, RetryInv, FailInv, FinishInv, RecordInv, RecordFailsInv DEF CellStep
<1> QED
  BY <1>1, <1>2, <1>3, <1>4, <1>5 DEF Next

LEMMA Invariance == Spec => []IInv
<1>1. Init => IInv
  BY InitInv
<1>2. IInv /\ [Next]_vars => IInv'
  BY NextInv
<1> QED
  BY <1>1, <1>2, PTL DEF Spec

\* A step that calls no other cell done, and takes no completion back.
LEMMA SealedKept ==
  ASSUME NEW q \in Runs, Sealed(q),
         CellsAt(q, {"done"})' \subseteq CellsAt(q, {"done"}),
         log'[q].completed = log[q].completed
  PROVE  Sealed(q)'
BY DEF Sealed

LEMMA SealedRunStep ==
  ASSUME IInv, \A q \in Runs : Sealed(q), NEW r \in Runs, RunStep(r)
  PROVE  \A q \in Runs : Sealed(q)'
<1>0. log \in [Runs -> Log] /\ stage \in [Runs -> [Cells -> Known]] /\ todo \in [Runs -> Seq(Cells)]
  BY DEF IInv, TypeOK
<1>1. CASE EmitCompleted(r)
  <2>1. /\ log' = [log EXCEPT ![r].completed = Append(log[r].completed, Head(todo[r]))]
        /\ UNCHANGED stage /\ todo[r] # <<>> /\ todo[r] \in Seq(Cells)
    BY <1>0, <1>1 DEF EmitCompleted, cell
  <2>2. log[r].completed \in Seq(Cells) /\ Head(todo[r]) \in Cells
    BY <1>0, <2>1 DEF Log
  <2>3. /\ log'[r].completed = Append(log[r].completed, Head(todo[r]))
        /\ \A q \in Runs \ {r} : log'[q].completed = log[q].completed
    BY <1>0, <2>1 DEF Log
  <2>4. ToSet(log[r].completed) \subseteq ToSet(log'[r].completed)
    BY <2>2, <2>3, AppendedIsMember
  <2> QED
    BY <2>1, <2>3, <2>4 DEF Sealed, CellsAt
<1>2. CASE \E s \in Runs : Resume(r, s)
  <2>1. PICK s \in Runs : Resume(r, s)
    BY <1>2
  <2>2. /\ UNCHANGED log
        /\ stage' = [stage EXCEPT ![r] =
             [c \in Cells |-> IF c \in Completed(s) THEN "given" ELSE "idle"]]
    BY <2>1 DEF Resume
  <2>3. \A q \in Runs : CellsAt(q, {"done"})' \subseteq CellsAt(q, {"done"})
    BY <1>0, <2>2 DEF CellsAt
  <2> QED
    BY <2>2, <2>3, SealedKept
<1>3. CASE \E unread \in SUBSET Cells : StartWave(r, unread)
  <2>1. PICK unread \in SUBSET Cells : StartWave(r, unread)
    BY <1>3
  <2>2. /\ UNCHANGED log
        /\ stage' = [stage EXCEPT ![r] =
             [c \in Cells |-> IF c \in Ready(r) THEN "running" ELSE stage[r][c]]]
    BY <2>1 DEF StartWave
  <2>3. \A q \in Runs : CellsAt(q, {"done"})' \subseteq CellsAt(q, {"done"})
    BY <1>0, <2>2 DEF CellsAt
  <2> QED
    BY <2>2, <2>3, SealedKept
<1>4. CASE EmitContract(r) \/ EmitGraph(r) \/ Execute(r) \/ EndWave(r) \/ Conclude(r)
             \/ (\E verified \in BOOLEAN : Verify(r, verified)) \/ Stop(r) \/ Stopped(r)
  <2>1. UNCHANGED stage
    BY <1>4 DEF EmitContract, EmitGraph, Execute, EndWave, Conclude, Verify, Stop, Stopped, cell
  <2>2. \A q \in Runs : log'[q].completed = log[q].completed
    <3>1. CASE log' = log
      BY <3>1
    <3>2. CASE EmitContract(r)
      BY <1>0, <3>2 DEF EmitContract, Log
    <3>6. CASE EmitGraph(r)
      <4>1. log' = [log EXCEPT ![r].graph = TRUE, ![r].marks = Marks(r)]
        BY <3>6 DEF EmitGraph
      <4> QED
        BY <1>0, <4>1 DEF Log
    <3>5. CASE \E verified \in BOOLEAN : Verify(r, verified)
      BY <1>0, <3>5 DEF Verify, Log
    <3>3. CASE EndWave(r)
      <4>1. log' = [log EXCEPT ![r] = log[r]]
              \/ log' = [log EXCEPT ![r] = [log[r] EXCEPT !.usage = usage[r], !.exhausted = TRUE]]
        BY <1>0, <3>3 DEF EndWave
      <4> QED
        BY <4>1, Unmarked
    <3>4. CASE Conclude(r)
      <4>1. log' = [log EXCEPT ![r] = log[r]]
              \/ log' = [log EXCEPT ![r] = [log[r] EXCEPT !.usage = usage[r]]]
        BY <1>0, <3>4 DEF Conclude
      <4> QED
        BY <4>1, Unmarked
    <3> QED
      BY <1>4, <3>1, <3>2, <3>3, <3>4, <3>5, <3>6 DEF Execute, Stop, Stopped
  <2> QED
    BY <2>1, <2>2, SealedKept DEF CellsAt
<1> QED
  BY <1>1, <1>2, <1>3, <1>4 DEF RunStep

LEMMA SealedCellStep ==
  ASSUME TypeOK, \A q \in Runs : Sealed(q), NEW r \in Runs, NEW c \in Cells, CellStep(r, c)
  PROVE  \A q \in Runs : Sealed(q)'
<1>0. log \in [Runs -> Log] /\ stage \in [Runs -> [Cells -> Known]]
  BY DEF TypeOK
<1>1. CASE Record(r, c)
  <2>1. /\ log' = [log EXCEPT ![r].completed = Append(log[r].completed, c)]
        /\ stage' = [stage EXCEPT ![r][c] = "done"]
        /\ log[r].completed \in Seq(Cells)
    BY <1>0, <1>1 DEF Record, Log
  <2>2. /\ log'[r].completed = Append(log[r].completed, c)
        /\ \A q \in Runs \ {r} : log'[q].completed = log[q].completed
    BY <1>0, <2>1 DEF Log
  <2>3. ToSet(log'[r].completed) = ToSet(log[r].completed) \cup {c}
    BY <2>1, <2>2, AppendedIsMember
  <2>4. /\ CellsAt(r, {"done"})' \subseteq CellsAt(r, {"done"}) \cup {c}
        /\ \A q \in Runs \ {r} : CellsAt(q, {"done"})' = CellsAt(q, {"done"})
    BY <1>0, <2>1 DEF CellsAt
  <2>5. Sealed(r)'
    BY <2>3, <2>4 DEF Sealed
  <2>6. ASSUME NEW q \in Runs \ {r} PROVE Sealed(q)'
    BY <2>2, <2>4, SealedKept
  <2> QED
    BY <2>5, <2>6
<1>2. CASE (\E raised \in BOOLEAN : Fail(r, c, raised))
             \/ (\E removed \in BOOLEAN : Finish(r, c, removed)) \/ RecordFails(r, c)
  <2>1. UNCHANGED log /\ \E k \in {"failed", "stored", "raised"} :
          stage' = [stage EXCEPT ![r][c] = k]
    BY <1>2 DEF Fail, Finish, RecordFails
  <2>2. \A q \in Runs : CellsAt(q, {"done"})' \subseteq CellsAt(q, {"done"})
    BY <1>0, <2>1 DEF CellsAt
  <2> QED
    BY <2>1, <2>2, SealedKept
<1>3. CASE (\E written \in BOOLEAN : Round(r, c, written)) \/ RetryResult(r, c) \/ RetryRaised(r, c)
  <2>1. UNCHANGED <<log, stage>>
    BY <1>3 DEF Round, RetryResult, RetryRaised
  <2> QED
    BY <2>1, SealedKept DEF CellsAt
<1> QED
  BY <1>1, <1>2, <1>3 DEF CellStep

LEMMA SealedInvariance == Spec => []AllSealed
<1>1. Init => AllSealed
  BY DEF Init, Unset, AllSealed, Sealed, CellsAt
<1>2. IInv /\ AllSealed /\ [Next]_vars => AllSealed'
  <2> SUFFICES ASSUME IInv, \A r \in Runs : Sealed(r), [Next]_vars
               PROVE  \A r \in Runs : Sealed(r)'
    BY DEF AllSealed
  <2> TypeOK
    BY DEF IInv
  <2>1. CASE UNCHANGED <<log, stage>>
    BY <2>1, SealedKept DEF CellsAt
  <2>2. CASE Next
    <3>1. CASE FirstRun \/ Crash
      BY <3>1, <2>1 DEF FirstRun, Crash, cell
    <3> QED
      BY <2>2, <3>1, SealedRunStep, SealedCellStep DEF Next
  <2> QED
    BY <2>1, <2>2 DEF vars, cell
<1> QED
  BY <1>1, <1>2, Invariance, PTL DEF Spec

-----------------------------------------------------------------------------
(* Sums over finite sets *)

LEMMA LeastMember ==
  ASSUME NEW S \in SUBSET Nat, S # {}
  PROVE  \E m \in S : \A x \in S : m <= x
<1>1. PICK n \in S : TRUE
  OBVIOUS
<1> DEFINE UpTo(x) == 0..x
           T == {UpTo(x) : x \in {y \in S : y <= n}}
           R == StrictSubsetOrdering(0..n)
<1>2. IsWellFoundedOn(R, SUBSET (0..n))
  <2>1. IsFiniteSet(0..n)
    BY <1>1, FS_Interval
  <2>2. FiniteSubsetsOf(0..n) = SUBSET (0..n)
    BY <2>1, FS_FiniteSubsetsOfFinite
  <2> QED
    BY <2>2, FS_StrictSubsetOrderingWellFounded
<1>3. T \subseteq SUBSET (0..n) /\ T # {}
  BY <1>1
<1>4. PICK X \in T : \A Y \in T : <<Y, X>> \notin R
  <2> HIDE DEF R, T
  <2> QED
    BY <1>2, <1>3, WFMin
<1>5. PICK m \in S : m <= n /\ X = UpTo(m)
  BY <1>4
<1>6. ASSUME NEW x \in S, x < m PROVE FALSE
  <2>1. x \in Nat /\ m \in Nat /\ n \in Nat
    BY <1>1, <1>5
  <2>2. UpTo(x) \in T
    BY <1>5, <1>6, <2>1
  <2>3. UpTo(x) \subseteq UpTo(m) /\ m \in UpTo(m) /\ m \notin UpTo(x)
    BY <1>6, <2>1
  <2>4. <<UpTo(x), X>> \in R
    BY <1>3, <1>5, <2>2, <2>3 DEF StrictSubsetOrdering
  <2> QED
    BY <1>4, <2>2, <2>4
<1> QED
  BY <1>5, <1>6

Picked(s) == CHOOSE x \in s : TRUE

Sums(g, f, S) ==
  g = [s \in SUBSET S |-> IF s = {} THEN 0 ELSE f[Picked(s)] + g[s \ {Picked(s)}]]

LEMMA SumsExist ==
  ASSUME NEW S, IsFiniteSet(S), NEW f, \A x \in S : f[x] \in Nat
  PROVE  \E g \in [SUBSET S -> Nat] : Sums(g, f, S)
<1> DEFINE Step(g) ==
             [s \in SUBSET S |-> IF s = {} THEN 0 ELSE f[Picked(s)] + g[s \ {Picked(s)}]]
           Good(g, n) == \A s \in SUBSET S : Cardinality(s) <= n => g[s] = Step(g)[s]
           Bad == {n \in Nat : ~\E g \in [SUBSET S -> Nat] : Good(g, n)}
<1>1. ASSUME NEW s \in SUBSET S
      PROVE  /\ IsFiniteSet(s) /\ Cardinality(s) \in Nat /\ Cardinality(s) <= Cardinality(S)
             /\ Cardinality(S) \in Nat
             /\ Cardinality(s) = 0 <=> s = {}
             /\ s # {} => /\ Picked(s) \in s /\ s \ {Picked(s)} \in SUBSET S
                          /\ Cardinality(s \ {Picked(s)}) = Cardinality(s) - 1
  <2>1. IsFiniteSet(s) /\ Cardinality(s) <= Cardinality(S)
    BY FS_Subset
  <2>2. Cardinality(s) \in Nat /\ Cardinality(S) \in Nat
    BY <2>1, FS_CardinalityType
  <2>3. Cardinality(s) = 0 <=> s = {}
    BY <2>1, FS_EmptySet
  <2>4. ASSUME s # {}
        PROVE  /\ Picked(s) \in s /\ s \ {Picked(s)} \in SUBSET S
               /\ Cardinality(s \ {Picked(s)}) = Cardinality(s) - 1
    <3>1. Picked(s) \in s
      BY <2>4 DEF Picked
    <3> QED
      BY <2>1, <3>1, FS_RemoveElement
  <2> QED
    BY <2>1, <2>2, <2>3, <2>4
<1>2. ASSUME NEW g \in [SUBSET S -> Nat] PROVE Step(g) \in [SUBSET S -> Nat]
  <2>1. ASSUME NEW s \in SUBSET S, s # {} PROVE f[Picked(s)] + g[s \ {Picked(s)}] \in Nat
    <3>1. f[Picked(s)] \in Nat /\ g[s \ {Picked(s)}] \in Nat
      BY <1>1, <2>1
    <3> QED
      BY <3>1
  <2> QED
    BY <2>1
<1>3. ASSUME NEW g \in [SUBSET S -> Nat], NEW n \in Nat, Good(g, n) PROVE Good(Step(g), n + 1)
  <2> SUFFICES ASSUME NEW s \in SUBSET S, Cardinality(s) <= n + 1
               PROVE  Step(g)[s] = Step(Step(g))[s]
    OBVIOUS
  <2>1. CASE s = {}
    BY <2>1
  <2>2. CASE s # {}
    <3> DEFINE u == s \ {Picked(s)}
    <3>1. u \in SUBSET S /\ Cardinality(u) <= n
      BY <1>1, <2>2
    <3> HIDE DEF u
    <3>2. g[u] = Step(g)[u]
      BY <1>3, <3>1
    <3>3. Step(g)[s] = f[Picked(s)] + g[u]
      BY <2>2 DEF u
    <3>4. Step(Step(g))[s] = f[Picked(s)] + Step(g)[u]
      BY <2>2 DEF u
    <3> QED
      BY <3>2, <3>3, <3>4
  <2> QED
    BY <2>1, <2>2
<1>4. Bad = {}
  <2> SUFFICES ASSUME Bad # {} PROVE FALSE
    OBVIOUS
  <2>1. PICK m \in Bad : \A n \in Bad : m <= n
    <3>1. Bad \in SUBSET Nat
      OBVIOUS
    <3> HIDE DEF Bad
    <3> QED
      BY <3>1, LeastMember
  <2>2. m # 0
    <3> DEFINE none == [s \in SUBSET S |-> 0]
    <3>1. none \in [SUBSET S -> Nat]
      OBVIOUS
    <3>2. ASSUME NEW s \in SUBSET S, Cardinality(s) <= 0 PROVE s = {}
      <4>1. Cardinality(s) \in Nat
        BY <1>1
      <4>2. Cardinality(s) = 0
        BY <3>2, <4>1
      <4> QED
        BY <1>1, <4>2
    <3>3. Good(none, 0)
      BY <3>2
    <3> HIDE DEF none, Good
    <3> QED
      BY <3>1, <3>3
  <2>3. m - 1 \in Nat /\ m - 1 \notin Bad /\ (m - 1) + 1 = m
    <3>1. m \in Nat
      OBVIOUS
    <3> HIDE DEF Bad
    <3> QED
      BY <2>1, <2>2, <3>1
  <2>4. PICK g \in [SUBSET S -> Nat] : Good(g, m - 1)
    BY <2>3
  <2>5. Step(g) \in [SUBSET S -> Nat] /\ Good(Step(g), m)
    <3> HIDE DEF Good, Step
    <3> QED
      BY <2>3, <2>4, <1>2, <1>3
  <2> QED
    BY <2>1, <2>5
<1>5. PICK g \in [SUBSET S -> Nat] : Good(g, Cardinality(S))
  <2>1. Cardinality(S) \in Nat
    BY <1>1
  <2> HIDE DEF Good
  <2> QED
    BY <1>4, <2>1
<1>6. g = Step(g)
  <2>1. \A s \in SUBSET S : g[s] = Step(g)[s]
    BY <1>1, <1>5
  <2>2. Step(g) \in [SUBSET S -> Nat]
    BY <1>2
  <2> HIDE DEF Step
  <2> QED
    BY <2>1, <2>2
<1> QED
  BY <1>6 DEF Sums

\* Induction over the subsets of a finite set, as the choice of a least one.
LEMMA LeastSubset ==
  ASSUME NEW S, IsFiniteSet(S), NEW Bad \in SUBSET SUBSET S, Bad # {}
  PROVE  \E s \in Bad : \A x \in s : s \ {x} \notin Bad
<1> DEFINE R == StrictSubsetOrdering(S)
<1>1. IsWellFoundedOn(R, SUBSET S)
  <2>1. FiniteSubsetsOf(S) = SUBSET S
    BY FS_FiniteSubsetsOfFinite
  <2> QED
    BY <2>1, FS_StrictSubsetOrderingWellFounded
<1>2. PICK s \in Bad : \A u \in Bad : <<u, s>> \notin R
  <2> HIDE DEF R
  <2> QED
    BY <1>1, WFMin
<1>3. ASSUME NEW x \in s, s \ {x} \in Bad PROVE FALSE
  <2>1. <<s \ {x}, s>> \in R
    BY <1>3 DEF StrictSubsetOrdering
  <2> QED
    BY <1>2, <1>3, <2>1
<1> QED
  BY <1>3

\* Two such functions agree where both are defined.
LEMMA SumsAgree ==
  ASSUME NEW S, IsFiniteSet(S), NEW T \in SUBSET S, NEW f, NEW g, NEW h,
         Sums(g, f, T), Sums(h, f, S)
  PROVE  g[T] = h[T]
<1> DEFINE Apart == {s \in SUBSET T : g[s] # h[s]}
<1>1. SUFFICES ASSUME Apart # {} PROVE FALSE
  OBVIOUS
<1>2. PICK s \in Apart : \A x \in s : s \ {x} \notin Apart
  <2>1. IsFiniteSet(T) /\ Apart \in SUBSET SUBSET T
    BY FS_Subset
  <2> HIDE DEF Apart
  <2> QED
    BY <1>1, <2>1, LeastSubset
<1>3. s \in SUBSET T /\ s \in SUBSET S /\ g[s] # h[s]
  BY <1>2
<1>4. /\ g[s] = IF s = {} THEN 0 ELSE f[Picked(s)] + g[s \ {Picked(s)}]
      /\ h[s] = IF s = {} THEN 0 ELSE f[Picked(s)] + h[s \ {Picked(s)}]
  BY <1>3 DEF Sums
<1>5. s # {} /\ g[s \ {Picked(s)}] # h[s \ {Picked(s)}]
  BY <1>3, <1>4
<1>6. Picked(s) \in s
  BY <1>5 DEF Picked
<1> QED
  BY <1>2, <1>3, <1>5, <1>6

LEMMA TotalFacts ==
  ASSUME NEW S, IsFiniteSet(S), NEW f, \A x \in S : f[x] \in Nat
  PROVE  \E g \in [SUBSET S -> Nat] : Sums(g, f, S) /\ Total(f, S) = g[S]
<1> DEFINE iter == CHOOSE g : Sums(g, f, S)
<1>1. Total(f, S) = iter[S]
  BY DEF Total, FoldSet, MapThenFoldSet, Sums, Picked
<1>2. PICK g \in [SUBSET S -> Nat] : Sums(g, f, S)
  BY SumsExist
<1>3. Sums(iter, f, S)
  BY <1>2
<1>4. iter[S] = g[S]
  BY <1>2, <1>3, SumsAgree
<1> QED
  BY <1>1, <1>2, <1>4

LEMMA TotalUnfold ==
  ASSUME NEW S, IsFiniteSet(S), NEW f, \A x \in S : f[x] \in Nat
  PROVE  /\ Total(f, S) \in Nat
         /\ Total(f, {}) = 0
         /\ S # {} => /\ Picked(S) \in S
                      /\ Total(f, S) = f[Picked(S)] + Total(f, S \ {Picked(S)})
<1>1. PICK g \in [SUBSET S -> Nat] : Sums(g, f, S) /\ Total(f, S) = g[S]
  BY TotalFacts
<1>2. ASSUME NEW T \in SUBSET S PROVE Total(f, T) = g[T]
  <2>1. IsFiniteSet(T)
    BY FS_Subset
  <2>2. PICK h \in [SUBSET T -> Nat] : Sums(h, f, T) /\ Total(f, T) = h[T]
    BY <2>1, TotalFacts
  <2> QED
    BY <1>1, <2>2, SumsAgree
<1>3. Total(f, {}) = 0
  BY <1>1, <1>2 DEF Sums
<1>4. S # {} => Picked(S) \in S
  BY DEF Picked
<1>5. S # {} => Total(f, S) = f[Picked(S)] + Total(f, S \ {Picked(S)})
  BY <1>1, <1>2 DEF Sums
<1> QED
  BY <1>1, <1>3, <1>4, <1>5

\* Any element may be taken out first.
LEMMA TotalRemove ==
  ASSUME NEW S, IsFiniteSet(S), NEW f, \A x \in S : f[x] \in Nat, NEW a \in S
  PROVE  Total(f, S) = f[a] + Total(f, S \ {a})
<1> DEFINE Bad == {s \in SUBSET S : \E x \in s : Total(f, s) # f[x] + Total(f, s \ {x})}
<1>1. SUFFICES ASSUME Bad # {} PROVE FALSE
  OBVIOUS
<1>2. PICK s \in Bad : \A x \in s : s \ {x} \notin Bad
  <2>1. Bad \in SUBSET SUBSET S
    OBVIOUS
  <2> HIDE DEF Bad
  <2> QED
    BY <1>1, <2>1, LeastSubset
<1>3. PICK x \in s : Total(f, s) # f[x] + Total(f, s \ {x})
  BY <1>2
<1> DEFINE y == Picked(s)
<1>4. ASSUME NEW u \in SUBSET S PROVE IsFiniteSet(u) /\ Total(f, u) \in Nat
  <2>1. IsFiniteSet(u)
    BY FS_Subset
  <2> QED
    BY <2>1, TotalUnfold
<1>5. y \in s /\ Total(f, s) = f[y] + Total(f, s \ {y})
  BY <1>2, <1>3, <1>4, TotalUnfold
<1> HIDE DEF y
<1>6. x # y
  BY <1>3, <1>5
<1>7. Total(f, s \ {y}) = f[x] + Total(f, (s \ {y}) \ {x})
  BY <1>2, <1>3, <1>5, <1>6
<1>8. Total(f, s \ {x}) = f[y] + Total(f, (s \ {x}) \ {y})
  BY <1>2, <1>3, <1>5, <1>6
<1>9. (s \ {y}) \ {x} = (s \ {x}) \ {y}
  OBVIOUS
<1>10. f[x] \in Nat /\ f[y] \in Nat /\ Total(f, (s \ {x}) \ {y}) \in Nat
  BY <1>2, <1>3, <1>4, <1>5
<1> QED
  BY <1>3, <1>5, <1>7, <1>8, <1>9, <1>10

LEMMA TotalAdd ==
  ASSUME NEW S, IsFiniteSet(S), NEW f, NEW a, a \notin S, \A x \in S \cup {a} : f[x] \in Nat
  PROVE  Total(f, S \cup {a}) = f[a] + Total(f, S)
<1>1. IsFiniteSet(S \cup {a}) /\ (S \cup {a}) \ {a} = S
  BY FS_AddElement
<1>2. Total(f, S \cup {a}) = f[a] + Total(f, (S \cup {a}) \ {a})
  BY <1>1, TotalRemove
<1> QED
  BY <1>1, <1>2

\* Counts that differ at most at a have totals that differ as they do.
LEMMA TotalChange ==
  ASSUME NEW S, IsFiniteSet(S), NEW f, NEW g, NEW a,
         \A x \in S : f[x] \in Nat /\ g[x] \in Nat /\ (x # a => g[x] = f[x])
  PROVE  /\ a \in S => Total(g, S) + f[a] = Total(f, S) + g[a]
         /\ a \notin S => Total(g, S) = Total(f, S)
<1> DEFINE Bad == {s \in SUBSET S : a \notin s /\ Total(g, s) # Total(f, s)}
<1>1. Bad = {}
  <2> SUFFICES ASSUME Bad # {} PROVE FALSE
    OBVIOUS
  <2>1. PICK s \in Bad : \A x \in s : s \ {x} \notin Bad
    <3>1. Bad \in SUBSET SUBSET S
      OBVIOUS
    <3> HIDE DEF Bad
    <3> QED
      BY <3>1, LeastSubset
  <2>2. IsFiniteSet(s) /\ a \notin s /\ Total(g, s) # Total(f, s)
    BY <2>1, FS_Subset
  <2>3. /\ Total(f, {}) = 0 /\ Total(g, {}) = 0
        /\ s # {} => /\ Picked(s) \in s
                     /\ Total(f, s) = f[Picked(s)] + Total(f, s \ {Picked(s)})
                     /\ Total(g, s) = g[Picked(s)] + Total(g, s \ {Picked(s)})
    BY <2>1, <2>2, TotalUnfold
  <2>4. s # {}
    BY <2>2, <2>3
  <2>5. g[Picked(s)] = f[Picked(s)] /\ Total(g, s \ {Picked(s)}) = Total(f, s \ {Picked(s)})
    BY <2>1, <2>2, <2>3, <2>4
  <2> QED
    BY <2>2, <2>3, <2>4, <2>5
<1>2. a \notin S => Total(g, S) = Total(f, S)
  BY <1>1
<1>3. ASSUME a \in S PROVE Total(g, S) + f[a] = Total(f, S) + g[a]
  <2>1. Total(f, S) = f[a] + Total(f, S \ {a}) /\ Total(g, S) = g[a] + Total(g, S \ {a})
    BY <1>3, TotalRemove
  <2>2. Total(g, S \ {a}) = Total(f, S \ {a})
    BY <1>1
  <2>3. Total(f, S \ {a}) \in Nat
    <3>1. IsFiniteSet(S \ {a})
      BY FS_Subset
    <3> QED
      BY <3>1, TotalUnfold
  <2> QED
    BY <1>3, <2>1, <2>2, <2>3
<1> QED
  BY <1>2, <1>3

LEMMA TotalNone ==
  ASSUME NEW S, IsFiniteSet(S), NEW f, \A x \in S : f[x] = 0
  PROVE  Total(f, S) = 0
<1> DEFINE Bad == {s \in SUBSET S : Total(f, s) # 0}
<1>1. SUFFICES ASSUME Bad # {} PROVE FALSE
  OBVIOUS
<1>2. PICK s \in Bad : \A x \in s : s \ {x} \notin Bad
  <2>1. Bad \in SUBSET SUBSET S
    OBVIOUS
  <2> HIDE DEF Bad
  <2> QED
    BY <1>1, <2>1, LeastSubset
<1>3. IsFiniteSet(s) /\ \A x \in s : f[x] \in Nat /\ f[x] = 0
  BY <1>2, FS_Subset
<1>4. s # {} /\ Picked(s) \in s /\ Total(f, s) = f[Picked(s)] + Total(f, s \ {Picked(s)})
  BY <1>2, <1>3, TotalUnfold
<1>5. Total(f, s \ {Picked(s)}) = 0 /\ f[Picked(s)] = 0
  BY <1>2, <1>3, <1>4
<1> QED
  BY <1>2, <1>4, <1>5

LEMMA TotalSame ==
  ASSUME NEW S, IsFiniteSet(S), NEW f, NEW g, \A x \in S : f[x] \in Nat /\ g[x] = f[x]
  PROVE  Total(g, S) = Total(f, S)
<1>1. CASE S = {}
  BY <1>1, TotalUnfold
<1>2. CASE S # {}
  <2>1. PICK a \in S : TRUE
    BY <1>2
  <2>2. Total(g, S) + f[a] = Total(f, S) + g[a]
    BY <2>1, TotalChange
  <2>3. Total(g, S) \in Nat /\ Total(f, S) \in Nat /\ f[a] \in Nat /\ g[a] = f[a]
    BY <2>1, TotalUnfold
  <2> QED
    BY <2>2, <2>3
<1> QED
  BY <1>1, <1>2

-----------------------------------------------------------------------------
(* The budget over a chain of runs *)

Chain(r) == lineage[r] \cup {r}

\* A run that settled its usage: its last BudgetUpdated says all it counted.
Settled(r) == end[r] \in {"exhausted", "verdict"}

\* Runs are numbered as they begin, so the largest ancestor is the one resumed.
Ordered(r) ==
  /\ \A p \in lineage[r] : p < r
  /\ lineage[r] # {} => Source(r) \in lineage[r]
  /\ pc[r] # "unborn" => \A q \in Runs : q < r => pc[q] # "unborn"

\* A run that has not begun counts nothing.
Unused(r) ==
  /\ pc[r] = "unborn" => usage[r] = 0 /\ spent[r] = 0 /\ missed[r] = 0
  /\ pc[r] \in {"unborn"} \cup Seeding => waves[r] = 0

\* Calls are under way in running cells only, and in none where a run settles.
Quiet(r) ==
  /\ \A c \in Cells : stage[r][c] # "running" => calls[r][c] = 0
  /\ pc[r] \in {"between", "verifying"} \/ Settled(r) => CellsAt(r, {"running"}) = {}

\* What the events say was spent is never too much, and all of it once settled.
Settles(r) ==
  /\ log[r].usage <= usage[r]
  /\ Settled(r) => pc[r] = "over"
  /\ pc[r] = "verifying" \/ Settled(r) => log[r].usage = usage[r]
  /\ log[r].exhausted => pc[r] = "over" /\ log[r].usage >= Limit

\* A run without budget left has begun no wave, or is in its only one.
OneWave(r) == waves[r] <= 1 /\ (pc[r] = "between" => waves[r] = 0)

Broke(r) ==
  lineage[r] # {} /\ log[Source(r)].exhausted => usage[r] >= Limit /\ OneWave(r)

\* The calls of a chain that are counted, missed or under way, against those made.
Balanced(r) ==
  LET counted == usage[r] + Total(missed, Chain(r)) + Pending(r)
      made == Total(spent, Chain(r))
  IN  /\ counted <= made
      /\ (\A p \in lineage[r] : Settled(p)) => counted = made

UseInv ==
  \A r \in Runs : Ordered(r) /\ Unused(r) /\ Quiet(r) /\ Settles(r) /\ Broke(r) /\ Balanced(r)

LEMMA LargestMember ==
  ASSUME NEW S \in SUBSET Nat, NEW s \in S, \A p \in S : p <= s
  PROVE  Max(S) = s
<1>1. \A x \in S : (\A y \in S : x >= y) => x = s
  OBVIOUS
<1>2. \A y \in S : s >= y
  OBVIOUS
<1> QED
  BY <1>1, <1>2 DEF Max

\* The chain of a run is finite, and its counts are numbers.
LEMMA ChainFacts ==
  ASSUME TypeOK, NEW r \in Runs, \A p \in lineage[r] : p < r
  PROVE  /\ Chain(r) \subseteq Runs /\ IsFiniteSet(Chain(r)) /\ IsFiniteSet(lineage[r])
         /\ r \notin lineage[r] /\ r \in Nat /\ lineage[r] \subseteq Runs
         /\ usage[r] \in Nat /\ spent[r] \in Nat /\ missed[r] \in Nat
         /\ Total(missed, Chain(r)) \in Nat /\ Total(spent, Chain(r)) \in Nat
         /\ Pending(r) \in Nat
<1>1. Chain(r) \subseteq Runs /\ Runs \subseteq Nat /\ r \in Nat
  BY ResumeAssumption DEF Chain, TypeOK
<1>2. ASSUME NEW p \in Chain(r) PROVE p <= r
  <2>1. p \in Nat /\ (p = r \/ p < r)
    BY <1>1 DEF Chain
  <2> QED
    BY <1>1, <2>1
<1>3. IsFiniteSet(Chain(r))
  BY <1>1, <1>2, FS_BoundedSetOfNaturals
<1>4. lineage[r] \in SUBSET Chain(r)
  BY DEF Chain
<1>5. IsFiniteSet(lineage[r])
  BY <1>3, <1>4, FS_Subset
<1>6. \A p \in Chain(r) : missed[p] \in Nat /\ spent[p] \in Nat
  BY <1>1 DEF TypeOK
<1>7. Total(missed, Chain(r)) \in Nat /\ Total(spent, Chain(r)) \in Nat
  BY <1>3, <1>6, TotalUnfold
<1>8. \A c \in Cells : calls[r][c] \in Nat
  BY DEF TypeOK
<1>9. Pending(r) \in Nat
  BY <1>8, TotalUnfold, ResumeAssumption DEF Pending
<1>10. r \notin lineage[r]
  BY <1>1
<1>11. lineage[r] \subseteq Runs /\ usage[r] \in Nat /\ spent[r] \in Nat /\ missed[r] \in Nat
  BY DEF TypeOK
<1> QED
  BY <1>1, <1>3, <1>5, <1>7, <1>9, <1>10, <1>11

\* A step of one run that is not over: what it counts, misses or has under way grows
\* as what it spends.
LEMMA OneRunUse ==
  ASSUME IInv, UseInv, TypeOK', NEW r \in Runs, pc[r] # "over", lineage' = lineage,
         pc[r] # "unborn" \/ r = 1, pc'[r] # "unborn",
         \A q \in Runs \ {r} :
           /\ pc'[q] = pc[q] /\ log'[q] = log[q] /\ stage'[q] = stage[q]
           /\ calls'[q] = calls[q] /\ usage'[q] = usage[q] /\ waves'[q] = waves[q]
           /\ spent'[q] = spent[q] /\ missed'[q] = missed[q] /\ end'[q] = end[q],
         Unused(r)', Quiet(r)', Settles(r)',
         usage'[r] >= usage[r], usage[r] >= Limit /\ OneWave(r) => OneWave(r)',
         usage'[r] + missed'[r] + Pending(r)' + spent[r]
           = usage[r] + missed[r] + Pending(r) + spent'[r]
  PROVE  UseInv'
<1>1. TypeOK /\ \A q \in Runs : Ordered(q)
  BY DEF IInv, UseInv
<1>2. ASSUME NEW q \in Runs, NEW p \in lineage[q]
      PROVE  /\ p \in Runs /\ p # r /\ p # q /\ p < q
             /\ log'[p] = log[p] /\ spent'[p] = spent[p] /\ missed'[p] = missed[p]
             /\ end'[p] = end[p]
  <2>1. p \in Runs /\ p # r
    BY DEF IInv, RunInv, Descends
  <2>2. p < q /\ p \in Nat /\ q \in Nat
    BY <1>1, <2>1, ResumeAssumption DEF Ordered
  <2> QED
    BY <2>1, <2>2
<1>3. ASSUME NEW q \in Runs PROVE Ordered(q)'
  <2>1. Source(q)' = Source(q)
    BY DEF Source
  <2>2. pc'[q] # "unborn" => \A p \in Runs : p < q => pc'[p] # "unborn"
    <3>1. CASE q = r /\ r = 1
      BY <3>1, ResumeAssumption
    <3>2. CASE ~(q = r /\ r = 1)
      BY <1>1, <3>2 DEF Ordered
    <3> QED
      BY <3>1, <3>2
  <2> QED
    BY <1>1, <2>1, <2>2 DEF Ordered
<1>4. ASSUME NEW q \in Runs PROVE Broke(q)'
  <2>1. Source(q)' = Source(q) /\ Broke(q)
    BY DEF Source, UseInv
  <2>2. lineage[q] # {} => log'[Source(q)] = log[Source(q)]
    BY <1>1, <1>2 DEF Ordered
  <2>3. CASE q = r
    <3>1. usage[r] \in Nat /\ usage'[r] \in Nat /\ Limit \in Nat
      BY <1>1, ResumeAssumption DEF TypeOK
    <3>2. usage[r] >= Limit => usage'[r] >= Limit
      BY <3>1
    <3> QED
      BY <2>1, <2>2, <2>3, <3>2 DEF Broke
  <2>4. CASE q # r
    BY <2>1, <2>2, <2>4 DEF Broke, OneWave
  <2> QED
    BY <2>3, <2>4
<1>5. ASSUME NEW q \in Runs PROVE Balanced(q)'
  <2>1. Balanced(q) /\ Chain(q)' = Chain(q)
    BY DEF UseInv, Chain
  <2>2. /\ IsFiniteSet(Chain(q)) /\ Chain(q) \subseteq Runs
        /\ usage[q] \in Nat /\ Total(missed, Chain(q)) \in Nat
        /\ Total(spent, Chain(q)) \in Nat /\ Pending(q) \in Nat
    BY <1>1, ChainFacts DEF Ordered
  <2>3. /\ usage'[q] \in Nat /\ Total(missed', Chain(q)) \in Nat
        /\ Total(spent', Chain(q)) \in Nat /\ Pending(q)' \in Nat
    <3>1. /\ usage'[q] \in Nat /\ \A c \in Cells : calls'[q][c] \in Nat
          /\ \A p \in Chain(q) : missed'[p] \in Nat /\ spent'[p] \in Nat
      BY <2>2 DEF TypeOK
    <3>2. Pending(q)' \in Nat
      BY <3>1, TotalUnfold, ResumeAssumption DEF Pending
    <3>3. Total(missed', Chain(q)) \in Nat
      BY <3>1, <2>2, TotalUnfold
    <3>4. Total(spent', Chain(q)) \in Nat
      BY <3>1, <2>2, TotalUnfold
    <3> QED
      BY <3>1, <3>2, <3>3, <3>4
  <2>4. /\ \A p \in Runs : missed[p] \in Nat /\ missed'[p] \in Nat
        /\ \A p \in Runs : spent[p] \in Nat /\ spent'[p] \in Nat
        /\ \A p \in Chain(q) : p # r => missed'[p] = missed[p] /\ spent'[p] = spent[p]
    BY <1>1, <2>2 DEF TypeOK
  <2>5. (\A p \in lineage'[q] : Settled(p)') <=> (\A p \in lineage[q] : Settled(p))
    BY <1>2 DEF Settled
  <2>6. CASE q = r
    <3>1. r \in Chain(q)
      BY <2>6 DEF Chain
    <3>2. \A p \in Chain(q) : missed[p] \in Nat /\ missed'[p] \in Nat
                               /\ (p # r => missed'[p] = missed[p])
      BY <2>2, <2>4
    <3>3. Total(missed', Chain(q)) + missed[r] = Total(missed, Chain(q)) + missed'[r]
      BY <3>1, <3>2, <2>2, TotalChange
    <3>4. \A p \in Chain(q) : spent[p] \in Nat /\ spent'[p] \in Nat
                               /\ (p # r => spent'[p] = spent[p])
      BY <2>2, <2>4
    <3>5. Total(spent', Chain(q)) + spent[r] = Total(spent, Chain(q)) + spent'[r]
      BY <3>1, <3>4, <2>2, TotalChange
    <3> DEFINE u == usage[r]   uu == usage'[r]
               m == missed[r]  mm == missed'[r]
               s == spent[r]   ss == spent'[r]
               p == Pending(r) pp == Pending(r)'
               tm == Total(missed, Chain(q))  tmm == Total(missed', Chain(q))
               ts == Total(spent, Chain(q))   tss == Total(spent', Chain(q))
    <3>6. /\ u \in Nat /\ uu \in Nat /\ m \in Nat /\ mm \in Nat /\ s \in Nat /\ ss \in Nat
          /\ p \in Nat /\ pp \in Nat /\ tm \in Nat /\ tmm \in Nat /\ ts \in Nat /\ tss \in Nat
      BY <2>2, <2>3, <2>4, <2>6
    <3>7. tmm + m = tm + mm /\ tss + s = ts + ss /\ uu + mm + pp + s = u + m + p + ss
      BY <3>3, <3>5
    <3>8. /\ u + tm + p <= ts => uu + tmm + pp <= tss
          /\ u + tm + p = ts => uu + tmm + pp = tss
      <4> HIDE DEF u, uu, m, mm, s, ss, p, pp, tm, tmm, ts, tss
      <4> QED
        BY <3>6, <3>7
    <3> QED
      BY <2>1, <2>5, <2>6, <3>8 DEF Balanced
  <2>7. CASE q # r
    <3>1. r \notin Chain(q)
      BY <1>2, <2>7 DEF Chain
    <3>2. ASSUME NEW p \in Chain(q)
          PROVE  /\ missed[p] \in Nat /\ missed'[p] = missed[p]
                 /\ spent[p] \in Nat /\ spent'[p] = spent[p]
      BY <3>1, <2>2, <2>4
    <3>3. Total(missed', Chain(q)) = Total(missed, Chain(q))
      BY <3>2, <2>2, TotalSame
    <3>4. Total(spent', Chain(q)) = Total(spent, Chain(q))
      BY <3>2, <2>2, TotalSame
    <3>5. Pending(q)' = Pending(q) /\ usage'[q] = usage[q]
      BY <2>7 DEF Pending
    <3> QED
      BY <2>1, <2>5, <3>3, <3>4, <3>5 DEF Balanced
  <2> QED
    BY <2>6, <2>7
<1>6. ASSUME NEW q \in Runs, q # r PROVE Unused(q)' /\ Quiet(q)' /\ Settles(q)'
  <2>1. Unused(q) /\ Quiet(q) /\ Settles(q)
    BY DEF UseInv
  <2> QED
    BY <1>6, <2>1 DEF Unused, Quiet, Settles, Settled, CellsAt
<1> QED
  BY <1>3, <1>4, <1>5, <1>6 DEF UseInv

\* A run under way has not settled, and its events do not say it ran out.
LEMMA UnderWay ==
  ASSUME UseInv, NEW r \in Runs, pc[r] # "over"
  PROVE  ~Settled(r) /\ ~log[r].exhausted /\ log[r].usage <= usage[r]
         /\ Unused(r) /\ Quiet(r)
BY DEF UseInv, Settles

\* The steps that count nothing and settle nothing.
LEMMA PlainUse ==
  ASSUME IInv, UseInv, TypeOK', NEW r \in Runs, pc[r] # "over", pc[r] # "unborn" \/ r = 1,
         pc'[r] \in Seeding \cup {"between", "stopping"},
         pc'[r] # "stopping" => pc[r] \in {"unborn"} \cup Seeding,
         UNCHANGED <<lineage, stage, calls, usage, waves, spent, missed, end>>,
         \A q \in Runs \ {r} : pc'[q] = pc[q] /\ log'[q] = log[q],
         log'[r].usage = log[r].usage /\ log'[r].exhausted = log[r].exhausted
  PROVE  UseInv'
<1>1. /\ ~Settled(r) /\ ~log[r].exhausted /\ log[r].usage <= usage[r]
      /\ Unused(r) /\ Quiet(r) /\ Early(r)
  BY UnderWay DEF IInv, RunInv
<1>2. pc'[r] \notin {"unborn", "over", "verifying"}
  BY DEF Seeding
<1>3. Unused(r)' /\ Settles(r)'
  BY <1>1, <1>2 DEF Unused, Settles, Settled, Seeding
<1>4. Quiet(r)'
  BY <1>1, <1>2 DEF Quiet, Settled, Early, CellsAt
<1>5. OneWave(r) => OneWave(r)'
  BY <1>1 DEF OneWave, Unused, Seeding
<1>6. usage'[r] >= usage[r] /\ Pending(r)' = Pending(r)
  BY DEF Pending, IInv, TypeOK
<1> QED
  BY <1>2, <1>3, <1>4, <1>5, <1>6, OneRunUse

LEMMA SeedingUse ==
  ASSUME IInv, UseInv, TypeOK', NEW r \in Runs,
         (FirstRun /\ r = 1) \/ EmitContract(r) \/ EmitGraph(r) \/ EmitCompleted(r)
           \/ Execute(r) \/ Stop(r)
  PROVE  UseInv'
<1>1. pc \in [Runs -> Pcs] /\ log \in [Runs -> Log]
  BY DEF IInv, TypeOK
<1>2. CASE FirstRun /\ r = 1
  <2>1. /\ pc[r] = "unborn" /\ pc'[r] = "contract"
        /\ \A q \in Runs \ {r} : pc'[q] = pc[q]
        /\ UNCHANGED <<log, lineage, stage, calls, usage, waves, spent, missed, end>>
    BY <1>1, <1>2 DEF FirstRun, cell, history
  <2> QED
    BY <1>2, <2>1, PlainUse DEF Seeding
<1>3. CASE EmitContract(r)
  <2>1. /\ pc[r] = "contract" /\ pc'[r] = "graph"
        /\ \A q \in Runs \ {r} : pc'[q] = pc[q] /\ log'[q] = log[q]
        /\ log'[r].usage = log[r].usage /\ log'[r].exhausted = log[r].exhausted
        /\ UNCHANGED <<lineage, stage, calls, usage, waves, spent, missed, end>>
    BY <1>1, <1>3 DEF EmitContract, cell, history, Log
  <2> QED
    BY <2>1, PlainUse DEF Seeding
<1>4. CASE EmitGraph(r)
  <2>1. /\ pc[r] = "graph" /\ pc'[r] = "completed"
        /\ \A q \in Runs \ {r} : pc'[q] = pc[q] /\ log'[q] = log[q]
        /\ log'[r].usage = log[r].usage /\ log'[r].exhausted = log[r].exhausted
        /\ UNCHANGED <<lineage, stage, calls, usage, waves, spent, missed, end>>
    BY <1>1, <1>4 DEF EmitGraph, cell, history, Log
  <2> QED
    BY <2>1, PlainUse DEF Seeding
<1>5. CASE EmitCompleted(r)
  <2>1. /\ pc[r] = "completed" /\ pc' = pc
        /\ \A q \in Runs \ {r} : log'[q] = log[q]
        /\ log'[r].usage = log[r].usage /\ log'[r].exhausted = log[r].exhausted
        /\ UNCHANGED <<lineage, stage, calls, usage, waves, spent, missed, end>>
    BY <1>1, <1>5 DEF EmitCompleted, cell, history, Log
  <2> QED
    BY <2>1, PlainUse DEF Seeding
<1>6. CASE Execute(r)
  <2>1. /\ pc[r] = "completed" /\ pc'[r] = "between"
        /\ \A q \in Runs \ {r} : pc'[q] = pc[q]
        /\ UNCHANGED <<log, lineage, stage, calls, usage, waves, spent, missed, end>>
    BY <1>1, <1>6 DEF Execute, cell, history
  <2> QED
    BY <2>1, PlainUse DEF Seeding
<1>7. CASE Stop(r)
  <2>1. /\ pc[r] \in Active /\ pc'[r] = "stopping"
        /\ \A q \in Runs \ {r} : pc'[q] = pc[q]
        /\ UNCHANGED <<log, lineage, stage, calls, usage, waves, spent, missed, end>>
    BY <1>1, <1>7 DEF Stop, cell, history
  <2>2. pc[r] # "over" /\ pc[r] # "unborn"
    BY <2>1 DEF Active, Seeding, Executing
  <2> QED
    BY <2>1, <2>2, PlainUse
<1> QED
  BY <1>2, <1>3, <1>4, <1>5, <1>6, <1>7

LEMMA StartWaveUse ==
  ASSUME IInv, UseInv, TypeOK', NEW r \in Runs, NEW unread \in SUBSET Cells,
         StartWave(r, unread)
  PROVE  UseInv'
<1>1. /\ pc[r] = "between" /\ pc'[r] = "wave" /\ waves'[r] = waves[r] + 1
      /\ \A c \in Cells : stage'[r][c] = IF c \in Ready(r) THEN "running" ELSE stage[r][c]
      /\ \A q \in Runs \ {r} : pc'[q] = pc[q] /\ waves'[q] = waves[q] /\ stage'[q] = stage[q]
      /\ UNCHANGED <<log, lineage, calls, usage, spent, missed, end>>
  BY DEF StartWave, IInv, TypeOK
<1>2. ~Settled(r) /\ ~log[r].exhausted /\ log[r].usage <= usage[r] /\ Unused(r) /\ Quiet(r)
  BY <1>1, UnderWay
<1>3. Unused(r)' /\ Settles(r)' /\ Quiet(r)'
  BY <1>1, <1>2 DEF Unused, Settles, Settled, Seeding, Quiet
<1>4. OneWave(r) => OneWave(r)'
  BY <1>1 DEF OneWave
<1>5. usage'[r] >= usage[r] /\ Pending(r)' = Pending(r)
  BY <1>1 DEF Pending, IInv, TypeOK
<1> QED
  BY <1>1, <1>3, <1>4, <1>5, OneRunUse

\* What one cell has under way changes what its run has.
LEMMA PendingChange ==
  ASSUME IInv, TypeOK', NEW r \in Runs, NEW c \in Cells,
         \A d \in Cells \ {c} : calls'[r][d] = calls[r][d]
  PROVE  Pending(r)' + calls[r][c] = Pending(r) + calls'[r][c]
<1>1. \A d \in Cells : /\ calls[r][d] \in Nat /\ calls'[r][d] \in Nat
                       /\ d # c => calls'[r][d] = calls[r][d]
  BY DEF IInv, TypeOK
<1>2. IsFiniteSet(Cells)
  BY ResumeAssumption
<1>3. Total(calls'[r], Cells) + calls[r][c] = Total(calls[r], Cells) + calls'[r][c]
  BY <1>1, <1>2, TotalChange
<1> QED
  BY <1>3 DEF Pending

\* A step of a cell under way: its calls are counted, missed or still under way.
LEMMA CallUse ==
  ASSUME IInv, UseInv, TypeOK', NEW r \in Runs, NEW c \in Cells,
         pc[r] \in {"wave", "stopping"},
         UNCHANGED <<pc, lineage, waves, end>>,
         \A q \in Runs \ {r} :
           /\ log'[q] = log[q] /\ stage'[q] = stage[q] /\ calls'[q] = calls[q]
           /\ usage'[q] = usage[q] /\ spent'[q] = spent[q] /\ missed'[q] = missed[q],
         \A d \in Cells \ {c} : calls'[r][d] = calls[r][d] /\ stage'[r][d] = stage[r][d],
         stage'[r][c] # "running" => calls'[r][c] = 0,
         log'[r].usage = log[r].usage /\ log'[r].exhausted = log[r].exhausted,
         usage'[r] >= usage[r],
         usage'[r] + missed'[r] + calls'[r][c] + spent[r]
           = usage[r] + missed[r] + calls[r][c] + spent'[r]
  PROVE  UseInv'
<1>1. ~Settled(r) /\ ~log[r].exhausted /\ log[r].usage <= usage[r] /\ Unused(r) /\ Quiet(r)
  BY UnderWay
<1>2. /\ usage[r] \in Nat /\ usage'[r] \in Nat /\ missed[r] \in Nat /\ missed'[r] \in Nat
      /\ calls[r][c] \in Nat /\ calls'[r][c] \in Nat /\ spent[r] \in Nat /\ spent'[r] \in Nat
      /\ log[r].usage \in Nat
  BY DEF IInv, TypeOK, Log
<1>3. Unused(r)' /\ Settles(r)'
  BY <1>1, <1>2 DEF Unused, Settles, Settled, Seeding
<1>4. Quiet(r)'
  BY <1>1 DEF Quiet, Settled
<1>5. OneWave(r) => OneWave(r)'
  BY DEF OneWave
<1>6. usage'[r] + missed'[r] + Pending(r)' + spent[r]
        = usage[r] + missed[r] + Pending(r) + spent'[r]
  <2> DEFINE p == Pending(r)  pp == Pending(r)'
  <2>1. pp + calls[r][c] = p + calls'[r][c]
    BY PendingChange
  <2>2. p \in Nat
    <3>1. \A q \in lineage[r] : q < r
      BY DEF UseInv, Ordered
    <3> QED
      BY <3>1, ChainFacts DEF IInv
  <2>3. pp \in Nat
    <3>1. \A d \in Cells : calls'[r][d] \in Nat
      BY DEF TypeOK
    <3> QED
      BY <3>1, TotalUnfold, ResumeAssumption DEF Pending
  <2> HIDE DEF p, pp
  <2>4. usage'[r] + missed'[r] + pp + spent[r] = usage[r] + missed[r] + p + spent'[r]
    BY <1>2, <2>1, <2>2, <2>3
  <2> QED
    BY <2>4 DEF p, pp
<1>7. pc[r] # "over" /\ pc[r] # "unborn" /\ pc'[r] # "unborn"
  OBVIOUS
<1> QED
  BY <1>3, <1>4, <1>5, <1>6, <1>7, OneRunUse

LEMMA CellUse ==
  ASSUME IInv, UseInv, TypeOK', NEW r \in Runs, NEW c \in Cells, CellStep(r, c)
  PROVE  UseInv'
<1>0. /\ stage \in [Runs -> [Cells -> Known]] /\ calls \in [Runs -> [Cells -> Nat]]
      /\ usage \in [Runs -> Nat] /\ spent \in [Runs -> Nat] /\ missed \in [Runs -> Nat]
      /\ calls[r][c] \in Nat /\ usage[r] \in Nat /\ spent[r] \in Nat /\ missed[r] \in Nat
      /\ log \in [Runs -> Log]
  <2>1. /\ stage \in [Runs -> [Cells -> Known]] /\ calls \in [Runs -> [Cells -> Nat]]
        /\ usage \in [Runs -> Nat] /\ spent \in [Runs -> Nat] /\ missed \in [Runs -> Nat]
        /\ log \in [Runs -> Log]
    BY DEF IInv, TypeOK
  <2> QED
    BY <2>1
<1> DEFINE u == usage[r]   k == calls[r][c]   s == spent[r]   m == missed[r]
<1>n. u \in Nat /\ k \in Nat /\ s \in Nat /\ m \in Nat
  BY <1>0
<1>1. ASSUME NEW written \in BOOLEAN, Round(r, c, written) PROVE UseInv'
  <2>1. /\ pc[r] = "wave" /\ stage[r][c] = "running"
        /\ calls' = [calls EXCEPT ![r][c] = calls[r][c] + 1]
        /\ spent' = [spent EXCEPT ![r] = spent[r] + 1]
        /\ UNCHANGED <<pc, log, stage, usage, missed, lineage, waves, end>>
    BY <1>1 DEF Round
  <2>2. /\ calls'[r][c] = calls[r][c] + 1 /\ spent'[r] = spent[r] + 1
        /\ \A q \in Runs \ {r} : calls'[q] = calls[q] /\ spent'[q] = spent[q]
        /\ \A d \in Cells \ {c} : calls'[r][d] = calls[r][d]
    BY <1>0, <2>1
  <2>3. /\ usage'[r] >= usage[r]
        /\ usage'[r] + missed'[r] + calls'[r][c] + spent[r]
             = usage[r] + missed[r] + calls[r][c] + spent'[r]
    <3>1. usage'[r] = usage[r] /\ missed'[r] = missed[r]
      BY <2>1
    <3>2. u >= u /\ u + m + (k + 1) + s = u + m + k + (s + 1)
      <4> HIDE DEF u, k, s, m
      <4> QED
        BY <1>n
    <3> QED
      BY <2>2, <3>1, <3>2
  <2> QED
    BY <2>1, <2>2, <2>3, CallUse
\* The call that ends an attempt, with those before it, is counted or missed.
<1>2. ASSUME EndAttempt(r, c),
             \/ Account(r, c) /\ missed' = missed
             \/ Miss(r, c) /\ usage' = usage
      PROVE  /\ pc[r] = "wave" /\ calls'[r][c] = 0 /\ usage'[r] >= usage[r]
             /\ \A q \in Runs \ {r} : /\ calls'[q] = calls[q] /\ spent'[q] = spent[q]
                                      /\ usage'[q] = usage[q] /\ missed'[q] = missed[q]
             /\ \A d \in Cells \ {c} : calls'[r][d] = calls[r][d]
             /\ usage'[r] + missed'[r] + calls'[r][c] + spent[r]
                  = usage[r] + missed[r] + calls[r][c] + spent'[r]
  <2>1. /\ pc[r] = "wave" /\ calls'[r][c] = 0 /\ spent'[r] = spent[r] + 1
        /\ \A q \in Runs \ {r} : calls'[q] = calls[q] /\ spent'[q] = spent[q]
        /\ \A d \in Cells \ {c} : calls'[r][d] = calls[r][d]
    BY <1>0, <1>2 DEF EndAttempt
  <2>2. CASE Account(r, c) /\ missed' = missed
    <3>1. /\ usage'[r] = usage[r] + calls[r][c] + 1
          /\ \A q \in Runs \ {r} : usage'[q] = usage[q] /\ missed'[q] = missed[q]
          /\ missed'[r] = missed[r]
      BY <1>0, <2>2 DEF Account
    <3>2. /\ usage'[r] >= usage[r]
          /\ usage'[r] + missed'[r] + calls'[r][c] + spent[r]
               = usage[r] + missed[r] + calls[r][c] + spent'[r]
      <4>1. u + k + 1 >= u /\ (u + k + 1) + m + 0 + s = u + m + k + (s + 1)
        <5> HIDE DEF u, k, s, m
        <5> QED
          BY <1>n
      <4> QED
        BY <2>1, <3>1, <4>1
    <3> QED
      BY <2>1, <3>1, <3>2
  <2>3. CASE Miss(r, c) /\ usage' = usage
    <3>1. /\ missed'[r] = missed[r] + calls[r][c] + 1
          /\ \A q \in Runs \ {r} : usage'[q] = usage[q] /\ missed'[q] = missed[q]
          /\ usage'[r] = usage[r]
      BY <1>0, <2>3 DEF Miss
    <3>2. /\ usage'[r] >= usage[r]
          /\ usage'[r] + missed'[r] + calls'[r][c] + spent[r]
               = usage[r] + missed[r] + calls[r][c] + spent'[r]
      <4>1. u >= u /\ u + (m + k + 1) + 0 + s = u + m + k + (s + 1)
        <5> HIDE DEF u, k, s, m
        <5> QED
          BY <1>n
      <4> QED
        BY <2>1, <3>1, <4>1
    <3> QED
      BY <2>1, <3>1, <3>2
  <2> QED
    BY <1>2, <2>2, <2>3
<1>3. CASE RetryResult(r, c)
  <2>1. /\ EndAttempt(r, c) /\ Account(r, c) /\ missed' = missed
        /\ UNCHANGED <<pc, log, stage, lineage, waves, end>>
    BY <1>3 DEF RetryResult
  <2> QED
    BY <2>1, <1>2, CallUse
<1>4. CASE RetryRaised(r, c)
  <2>1. /\ EndAttempt(r, c) /\ Miss(r, c) /\ usage' = usage
        /\ UNCHANGED <<pc, log, stage, lineage, waves, end>>
    BY <1>4 DEF RetryRaised
  <2> QED
    BY <2>1, <1>2, CallUse
<1>5. ASSUME NEW raised \in BOOLEAN, Fail(r, c, raised) PROVE UseInv'
  <2>1. /\ EndAttempt(r, c)
        /\ \/ Account(r, c) /\ missed' = missed
           \/ Miss(r, c) /\ usage' = usage
        /\ stage' = [stage EXCEPT ![r][c] = "failed"]
        /\ UNCHANGED <<pc, log, lineage, waves, end>>
    BY <1>5 DEF Fail
  <2>2. /\ \A q \in Runs \ {r} : stage'[q] = stage[q]
        /\ \A d \in Cells \ {c} : stage'[r][d] = stage[r][d]
    BY <1>0, <2>1
  <2> QED
    BY <2>1, <2>2, <1>2, CallUse
<1>6. ASSUME NEW removed \in BOOLEAN, Finish(r, c, removed) PROVE UseInv'
  <2>1. /\ EndAttempt(r, c) /\ Account(r, c) /\ missed' = missed
        /\ stage' = [stage EXCEPT ![r][c] = "stored"]
        /\ UNCHANGED <<pc, log, lineage, waves, end>>
    BY <1>6 DEF Finish
  <2>2. /\ \A q \in Runs \ {r} : stage'[q] = stage[q]
        /\ \A d \in Cells \ {c} : stage'[r][d] = stage[r][d]
    BY <1>0, <2>1
  <2> QED
    BY <2>1, <2>2, <1>2, CallUse
<1>7. CASE Record(r, c) \/ RecordFails(r, c)
  <2>1. /\ pc[r] \in {"wave", "stopping"} /\ stage[r][c] = "stored"
        /\ UNCHANGED <<pc, calls, usage, spent, missed, lineage, waves, end>>
        /\ \A q \in Runs \ {r} : log'[q] = log[q] /\ stage'[q] = stage[q]
        /\ \A d \in Cells \ {c} : stage'[r][d] = stage[r][d]
        /\ log'[r].usage = log[r].usage /\ log'[r].exhausted = log[r].exhausted
    BY <1>0, <1>7 DEF Record, RecordFails, history, Log
  <2>2. calls[r][c] = 0
    BY <2>1 DEF UseInv, Quiet
  <2>3. /\ usage'[r] >= usage[r] /\ calls'[r][c] = 0
        /\ usage'[r] + missed'[r] + calls'[r][c] + spent[r]
             = usage[r] + missed[r] + calls[r][c] + spent'[r]
    <3>1. /\ usage'[r] = usage[r] /\ missed'[r] = missed[r] /\ spent'[r] = spent[r]
          /\ calls'[r][c] = calls[r][c]
      BY <2>1
    <3> QED
      BY <1>0, <2>2, <3>1
  <2>4. \A q \in Runs \ {r} : /\ calls'[q] = calls[q] /\ spent'[q] = spent[q]
                               /\ usage'[q] = usage[q] /\ missed'[q] = missed[q]
    BY <2>1
  <2>5. \A d \in Cells \ {c} : calls'[r][d] = calls[r][d]
    BY <2>1
  <2> QED
    BY <2>1, <2>3, <2>4, <2>5, CallUse
<1> QED
  BY <1>1, <1>3, <1>4, <1>5, <1>6, <1>7 DEF CellStep

\* The steps that end a wave or a run: nothing is called.
LEMMA EndUse ==
  ASSUME IInv, UseInv, TypeOK', NEW r \in Runs,
         EndWave(r) \/ Conclude(r) \/ Stopped(r) \/ (\E verified \in BOOLEAN : Verify(r, verified))
  PROVE  UseInv'
<1>0. /\ pc \in [Runs -> Pcs] /\ log \in [Runs -> Log] /\ log[r] \in Log /\ usage[r] \in Nat
      /\ end \in [Runs -> {"none", "failed", "exhausted", "verdict", "crash", "stop"}]
  BY DEF IInv, TypeOK
<1>1. /\ pc[r] \in Executing \cup {"stopping"} /\ pc'[r] \in {"between", "verifying", "over"}
      /\ UNCHANGED <<lineage, stage, calls, usage, waves, spent, missed>>
      /\ \A q \in Runs \ {r} : pc'[q] = pc[q] /\ log'[q] = log[q] /\ end'[q] = end[q]
  <2>1. CASE EndWave(r)
    BY <1>0, <2>1 DEF EndWave, cell, Executing
  <2>2. CASE Conclude(r)
    BY <1>0, <2>2 DEF Conclude, cell, Executing
  <2>3. CASE Stopped(r)
    BY <1>0, <2>3 DEF Stopped, cell
  <2>4. CASE \E verified \in BOOLEAN : Verify(r, verified)
    BY <1>0, <2>4 DEF Verify, cell, Executing
  <2> QED
    BY <2>1, <2>2, <2>3, <2>4
<1>2. pc[r] \notin {"over", "unborn"} /\ pc'[r] # "unborn"
  BY <1>1 DEF Executing
<1>3. ~Settled(r) /\ ~log[r].exhausted /\ log[r].usage <= usage[r] /\ Unused(r) /\ Quiet(r)
      /\ Settles(r)
  BY <1>2, UnderWay DEF UseInv
<1>4. Unused(r)'
  BY <1>1, <1>2 DEF Unused, Seeding
<1>5. Quiet(r)' /\ Settles(r)' /\ (pc'[r] = "between" => usage[r] < Limit)
  <2>1. CASE EndWave(r)
    <3>1. /\ pc'[r] = IF CellsAt(r, {"failed"}) # {} \/ Exhausted(r) THEN "over" ELSE "between"
          /\ end'[r] = IF CellsAt(r, {"failed"}) # {} THEN "failed"
                       ELSE IF Exhausted(r) THEN "exhausted" ELSE end[r]
          /\ CellsAt(r, {"running"}) = {}
      BY <1>0, <2>1 DEF EndWave, CellsAt
    <3>2. /\ log'[r].usage = IF CellsAt(r, {"failed"}) = {} /\ Exhausted(r)
                             THEN usage[r] ELSE log[r].usage
          /\ log'[r].exhausted => CellsAt(r, {"failed"}) = {} /\ Exhausted(r)
      BY <1>0, <1>3, <2>1 DEF EndWave, Log
    <3>3. Quiet(r)'
      BY <1>1, <1>3, <3>1 DEF Quiet, CellsAt
    <3>4. Limit \in Nat
      BY ResumeAssumption
    <3>5. Settles(r)' /\ (pc'[r] = "between" => usage[r] < Limit)
      BY <1>0, <1>1, <1>3, <3>1, <3>2, <3>4 DEF Settles, Settled, Exhausted
    <3> QED
      BY <3>3, <3>5
  <2>2. CASE Conclude(r)
    <3>1. /\ pc[r] = "between" /\ pc'[r] \in {"verifying", "over"}
          /\ end'[r] = IF pc'[r] = "over" THEN "failed" ELSE end[r]
          /\ log'[r].usage = IF pc'[r] = "over" THEN log[r].usage ELSE usage[r]
          /\ log'[r].exhausted = log[r].exhausted
      BY <1>0, <2>2 DEF Conclude, Log
    <3>2. Quiet(r)'
      BY <1>1, <1>3, <3>1 DEF Quiet, CellsAt
    <3>3. Settles(r)'
      BY <1>0, <1>1, <1>3, <3>1 DEF Settles, Settled
    <3> QED
      BY <3>1, <3>2, <3>3
  <2>3. CASE Stopped(r)
    <3>1. pc'[r] = "over" /\ end'[r] = "stop" /\ log' = log
      BY <1>0, <2>3 DEF Stopped
    <3> QED
      BY <1>1, <1>3, <3>1 DEF Quiet, Settles, Settled, CellsAt
  <2>4. ASSUME NEW verified \in BOOLEAN, Verify(r, verified)
        PROVE  Quiet(r)' /\ Settles(r)' /\ (pc'[r] = "between" => usage[r] < Limit)
    <3>1. /\ pc[r] = "verifying" /\ pc'[r] = "over" /\ end'[r] = "verdict"
          /\ log'[r].usage = log[r].usage /\ log'[r].exhausted = log[r].exhausted
      BY <1>0, <2>4 DEF Verify, Log
    <3>2. Quiet(r)'
      BY <1>1, <1>3, <3>1 DEF Quiet, CellsAt
    <3>3. Settles(r)'
      BY <1>0, <1>1, <1>3, <3>1 DEF Settles, Settled
    <3> QED
      BY <3>1, <3>2, <3>3
  <2> QED
    BY <2>1, <2>2, <2>3, <2>4
<1>6. usage[r] >= Limit /\ OneWave(r) => OneWave(r)'
  <2>1. Limit \in Nat
    BY ResumeAssumption
  <2> QED
    BY <1>0, <1>1, <1>5, <2>1 DEF OneWave
<1>7. usage'[r] >= usage[r] /\ Pending(r)' = Pending(r)
  BY <1>0, <1>1 DEF Pending
<1> QED
  BY <1>1, <1>2, <1>4, <1>5, <1>6, <1>7, OneRunUse

LEMMA ResumeUse ==
  ASSUME IInv, UseInv, TypeOK', NEW r \in Runs, NEW s \in Runs, Resume(r, s)
  PROVE  UseInv'
<1>1. /\ pc[r] = "unborn" /\ pc[s] = "over" /\ r # s /\ pc'[r] = "contract"
      /\ \A q \in Runs : q < r => pc[q] # "unborn"
      /\ lineage'[r] = lineage[s] \cup {s} /\ usage'[r] = log[s].usage
      /\ \A c \in Cells : stage'[r][c] \in {"given", "idle"}
      /\ \A q \in Runs \ {r} : /\ pc'[q] = pc[q] /\ stage'[q] = stage[q]
                               /\ usage'[q] = usage[q] /\ lineage'[q] = lineage[q]
      /\ UNCHANGED <<log, calls, waves, spent, missed, end>>
  BY DEF Resume, MayResume, Carried, IInv, TypeOK
<1>2. TypeOK /\ \A q \in Runs : Ordered(q)
  BY DEF IInv, UseInv
<1>3. s < r /\ r \in Nat /\ s \in Nat
  <2>1. r \in Nat /\ s \in Nat
    BY ResumeAssumption
  <2>2. ~(r < s)
    BY <1>1, <1>2 DEF Ordered
  <2> QED
    BY <1>1, <2>1, <2>2
<1>4. log[r] = NoLog /\ lineage[r] = {} /\ Early(r) /\ Unused(r) /\ Quiet(r)
  BY <1>1 DEF IInv, RunInv, Early, UseInv
<1>5. ASSUME NEW q \in Runs, NEW p \in lineage[q] PROVE p \in Runs /\ p # r /\ q # r
  BY <1>1, <1>4 DEF IInv, RunInv, Descends
<1>6. /\ usage[s] \in Nat /\ log[s].usage \in Nat /\ log[s].usage <= usage[s]
      /\ Chain(s) \subseteq Runs /\ IsFiniteSet(Chain(s)) /\ s \notin lineage[s]
      /\ Total(missed, Chain(s)) \in Nat /\ Total(spent, Chain(s)) \in Nat /\ Pending(s) \in Nat
  <2>1. log[s] \in Log
    BY <1>2 DEF TypeOK
  <2>2. log[s].usage <= usage[s]
    BY DEF UseInv, Settles
  <2> QED
    BY <2>1, <2>2, <1>2, ChainFacts DEF Ordered, Log
<1>7. ~Settled(r) /\ ~Settled(r)'
  <2>1. ~Settled(r)
    BY <1>1 DEF UseInv, Settles
  <2> QED
    BY <2>1, <1>1 DEF Settled
<1>8. Source(r)' = s
  <2>1. lineage'[r] \in SUBSET Nat /\ s \in lineage'[r]
    BY <1>1, <1>3, <1>5, ResumeAssumption
  <2>2. ASSUME NEW p \in lineage'[r] PROVE p <= s
    <3>1. p \in Nat
      BY <2>1
    <3>2. p = s \/ p < s
      BY <1>1, <1>2 DEF Ordered
    <3> QED
      BY <1>3, <3>1, <3>2
  <2> QED
    BY <2>1, <2>2, LargestMember DEF Source
<1>9. Ordered(r)'
  <2>1. ASSUME NEW p \in lineage'[r] PROVE p < r
    <3>1. p = s \/ (p \in lineage[s] /\ p < s /\ p \in Nat)
      BY <1>1, <1>2, <1>5, ResumeAssumption DEF Ordered
    <3> QED
      BY <1>3, <3>1
  <2>2. Source(r)' \in lineage'[r]
    BY <1>1, <1>8
  <2>3. \A q \in Runs : q < r => pc'[q] # "unborn"
    BY <1>1, <1>3
  <2> QED
    BY <2>1, <2>2, <2>3 DEF Ordered
<1>10. Unused(r)' /\ Quiet(r)'
  BY <1>1, <1>4, <1>7 DEF Unused, Seeding, Quiet, Early
<1>11. Settles(r)'
  BY <1>1, <1>4, <1>6, <1>7 DEF Settles, NoLog
<1>12. Broke(r)'
  <2>1. log[s].exhausted => log[s].usage >= Limit
    BY DEF UseInv, Settles
  <2>2. OneWave(r)'
    BY <1>1, <1>4 DEF OneWave, Unused
  <2> QED
    BY <1>1, <1>8, <2>1, <2>2 DEF Broke
<1>13. Balanced(r)'
  <2>1. Chain(r)' = Chain(s) \cup {r} /\ r \notin Chain(s)
    BY <1>1, <1>5 DEF Chain
  <2>2. spent[r] = 0 /\ missed[r] = 0
    BY <1>1, <1>4 DEF Unused
  <2>3. \A p \in Chain(s) \cup {r} : spent[p] \in Nat /\ missed[p] \in Nat
    BY <1>2, <1>6 DEF TypeOK
  <2>4. Total(spent, Chain(r)') = Total(spent, Chain(s))
    <3>1. Total(spent, Chain(s) \cup {r}) = spent[r] + Total(spent, Chain(s))
      BY <1>6, <2>1, <2>3, TotalAdd
    <3> QED
      BY <1>6, <2>1, <2>2, <3>1
  <2>5. Total(missed, Chain(r)') = Total(missed, Chain(s))
    <3>1. Total(missed, Chain(s) \cup {r}) = missed[r] + Total(missed, Chain(s))
      BY <1>6, <2>1, <2>3, TotalAdd
    <3> QED
      BY <1>6, <2>1, <2>2, <3>1
  <2>6. Pending(r)' = 0
    <3>1. \A c \in Cells : calls[r][c] = 0
      BY <1>4, <1>1 DEF Early, Quiet
    <3>2. Total(calls[r], Cells) = 0
      BY <3>1, TotalNone, ResumeAssumption
    <3> QED
      BY <1>1, <3>2 DEF Pending
  <2>7. Balanced(s)
    BY DEF UseInv
  <2>8. ASSUME \A p \in lineage'[r] : Settled(p)'
        PROVE  log[s].usage = usage[s] /\ Pending(s) = 0 /\ \A p \in lineage[s] : Settled(p)
    <3>1. Settled(s) /\ \A p \in lineage[s] : Settled(p)
      BY <2>8, <1>1 DEF Settled
    <3>2. \A c \in Cells : calls[s][c] = 0
      BY <3>1 DEF UseInv, Quiet, CellsAt
    <3>3. Pending(s) = 0
      BY <3>2, TotalNone, ResumeAssumption DEF Pending
    <3>4. log[s].usage = usage[s]
      BY <3>1 DEF UseInv, Settles
    <3> QED
      BY <3>1, <3>3, <3>4
  <2> DEFINE l == log[s].usage   u == usage[s]   p == Pending(s)
             m == Total(missed, Chain(s))   t == Total(spent, Chain(s))
  <2>9. /\ l \in Nat /\ u \in Nat /\ p \in Nat /\ m \in Nat /\ t \in Nat /\ l <= u
        /\ u + m + p <= t /\ ((\A q \in lineage[s] : Settled(q)) => u + m + p = t)
    BY <1>6, <2>7 DEF Balanced
  <2>10. /\ l + m + 0 <= t
         /\ (\A q \in lineage'[r] : Settled(q)') => l + m + 0 = t
    <3>1. (\A q \in lineage'[r] : Settled(q)') => l = u /\ p = 0 /\ u + m + p = t
      BY <2>8, <2>9
    <3> HIDE DEF l, u, p, m, t
    <3> QED
      BY <2>9, <3>1
  <2>11. usage'[r] = l /\ Total(missed', Chain(r)') = m /\ Total(spent', Chain(r)') = t
    BY <1>1, <2>4, <2>5
  <2> HIDE DEF l, u, p, m, t
  <2> QED
    BY <2>6, <2>10, <2>11 DEF Balanced
<1>14. ASSUME NEW q \in Runs, q # r
       PROVE  Ordered(q)' /\ Unused(q)' /\ Quiet(q)' /\ Settles(q)' /\ Broke(q)' /\ Balanced(q)'
  <2>1. Ordered(q) /\ Unused(q) /\ Quiet(q) /\ Settles(q) /\ Broke(q) /\ Balanced(q)
    BY DEF UseInv
  <2>2. Source(q)' = Source(q) /\ Chain(q)' = Chain(q) /\ Pending(q)' = Pending(q)
        /\ (Settled(q)' <=> Settled(q)) /\ lineage'[q] = lineage[q]
    BY <1>1, <1>14 DEF Source, Chain, Pending, Settled
  <2>3. Ordered(q)'
    BY <1>1, <1>3, <1>14, <2>1, <2>2 DEF Ordered
  <2>4. Unused(q)' /\ Quiet(q)' /\ Settles(q)'
    BY <1>1, <1>14, <2>1, <2>2 DEF Unused, Quiet, Settles, CellsAt
  <2>5. Broke(q)'
    BY <1>1, <1>14, <2>1, <2>2 DEF Broke, OneWave
  <2>6. Balanced(q)'
    BY <1>1, <1>14, <2>1, <2>2 DEF Balanced, Settled
  <2> QED
    BY <2>3, <2>4, <2>5, <2>6
<1> QED
  BY <1>9, <1>10, <1>11, <1>12, <1>13, <1>14 DEF UseInv

\* A crash leaves the counts, and the ends of the runs that are over.
LEMMA CrashUse == IInv /\ UseInv /\ Crash => UseInv'
<1> SUFFICES ASSUME IInv, UseInv, Crash PROVE UseInv'
  OBVIOUS
<1>1. /\ UNCHANGED <<log, stage, calls, usage, waves, lineage, spent, missed>>
      /\ \A r \in Runs :
           /\ pc'[r] = IF pc[r] \in Active THEN "over" ELSE pc[r]
           /\ end'[r] = IF pc[r] \in Active THEN "crash" ELSE end[r]
  BY DEF Crash
<1>2. \A r \in Runs : pc[r] \in {"unborn", "over"} \cup Active
  BY DEF IInv, TypeOK, Pcs
<1>3. ASSUME NEW r \in Runs
      PROVE  Ordered(r)' /\ Unused(r)' /\ Quiet(r)' /\ Settles(r)' /\ Broke(r)' /\ Balanced(r)'
  <2>1. Ordered(r) /\ Unused(r) /\ Quiet(r) /\ Settles(r) /\ Broke(r) /\ Balanced(r)
    BY DEF UseInv
  <2>2. \A q \in Runs : Settled(q)' <=> Settled(q)
    <3> SUFFICES ASSUME NEW q \in Runs PROVE Settled(q)' <=> Settled(q)
      OBVIOUS
    <3>1. CASE pc[q] \in Active
      <4>1. pc[q] # "over"
        BY <3>1 DEF Active, Seeding, Executing
      <4> QED
        BY <3>1, <4>1, <1>1 DEF UseInv, Settles, Settled
    <3>2. CASE pc[q] \notin Active
      BY <3>2, <1>1 DEF Settled
    <3> QED
      BY <3>1, <3>2
  <2>3. pc'[r] \in {"unborn", "over"} /\ (pc'[r] = "unborn" <=> pc[r] = "unborn")
    BY <1>1, <1>2 DEF Active, Seeding, Executing
  <2>4. Source(r)' = Source(r) /\ Chain(r)' = Chain(r) /\ Pending(r)' = Pending(r)
    BY <1>1 DEF Source, Chain, Pending
  <2>5. Ordered(r)'
    BY <1>1, <1>2, <2>1, <2>3, <2>4 DEF Ordered
  <2>6. Unused(r)'
    BY <1>1, <2>1, <2>3 DEF Unused, Seeding
  <2>7. Quiet(r)'
    BY <1>1, <2>1, <2>2, <2>3 DEF Quiet, CellsAt
  <2>8. Settles(r)'
    BY <1>1, <2>1, <2>2, <2>3 DEF Settles, Active, Seeding, Executing
  <2>9. Broke(r)'
    BY <1>1, <2>1, <2>3, <2>4 DEF Broke, OneWave
  <2>10. Balanced(r)'
    <3>1. \A p \in lineage[r] : p \in Runs
      BY DEF IInv, TypeOK
    <3> QED
      BY <1>1, <2>1, <2>2, <2>4, <3>1 DEF Balanced
  <2> QED
    BY <2>5, <2>6, <2>7, <2>8, <2>9, <2>10
<1> QED
  BY <1>3 DEF UseInv

LEMMA InitUse == Init => UseInv
<1> SUFFICES ASSUME Init PROVE UseInv
  OBVIOUS
<1> SUFFICES ASSUME NEW r \in Runs
             PROVE  Ordered(r) /\ Unused(r) /\ Quiet(r) /\ Settles(r) /\ Broke(r) /\ Balanced(r)
  BY DEF UseInv
<1>1. /\ pc[r] = "unborn" /\ log[r] = NoLog /\ lineage[r] = {} /\ end[r] = "none"
      /\ usage[r] = 0 /\ spent[r] = 0 /\ missed[r] = 0 /\ waves[r] = 0
      /\ \A c \in Cells : calls[r][c] = 0
  BY DEF Init, Unset
<1>2. Ordered(r) /\ Unused(r) /\ Quiet(r) /\ Broke(r)
  BY <1>1 DEF Ordered, Unused, Quiet, Broke, Settled
<1>3. Settles(r)
  BY <1>1 DEF Settles, NoLog, Settled
<1>4. Balanced(r)
  <2>1. Chain(r) = {r} /\ IsFiniteSet({r})
    BY <1>1, FS_Singleton DEF Chain
  <2>2. Total(missed, Chain(r)) = 0
    BY <1>1, <2>1, TotalNone
  <2>3. Total(spent, Chain(r)) = 0
    BY <1>1, <2>1, TotalNone
  <2>4. Pending(r) = 0
    BY <1>1, TotalNone, ResumeAssumption DEF Pending
  <2> QED
    BY <1>1, <2>2, <2>3, <2>4 DEF Balanced
<1> QED
  BY <1>2, <1>3, <1>4

LEMMA StutterUse == UseInv /\ UNCHANGED vars => UseInv'
<1> SUFFICES ASSUME UseInv, UNCHANGED vars PROVE UseInv'
  OBVIOUS
<1>1. UNCHANGED <<pc, log, stage, calls, usage, waves, lineage, spent, missed, end>>
  BY DEF vars, cell, history
<1>2. ASSUME NEW r \in Runs
      PROVE  Ordered(r)' /\ Unused(r)' /\ Quiet(r)' /\ Settles(r)' /\ Broke(r)' /\ Balanced(r)'
  <2>1. Ordered(r) /\ Unused(r) /\ Quiet(r) /\ Settles(r) /\ Broke(r) /\ Balanced(r)
    BY DEF UseInv
  <2>2. Ordered(r)' /\ Unused(r)' /\ Quiet(r)' /\ Settles(r)'
    BY <1>1, <2>1 DEF Ordered, Source, Unused, Quiet, Settles, Settled, CellsAt
  <2>3. Broke(r)' /\ Balanced(r)'
    BY <1>1, <2>1 DEF Broke, Source, OneWave, Balanced, Chain, Pending, Settled
  <2> QED
    BY <2>2, <2>3
<1> QED
  BY <1>2 DEF UseInv

LEMMA NextUse == IInv /\ UseInv /\ [Next]_vars => UseInv'
<1> SUFFICES ASSUME IInv, UseInv, [Next]_vars PROVE UseInv'
  OBVIOUS
<1>0. TypeOK'
  BY NextType DEF IInv
<1>1. CASE UNCHANGED vars
  BY <1>1, StutterUse
<1>2. CASE FirstRun
  BY <1>0, <1>2, SeedingUse, ResumeAssumption
<1>3. CASE Crash
  BY <1>3, CrashUse
<1>4. ASSUME NEW r \in Runs, RunStep(r) PROVE UseInv'
  BY <1>0, <1>4, ResumeUse, SeedingUse, StartWaveUse, EndUse DEF RunStep
<1>5. ASSUME NEW r \in Runs, NEW c \in Cells, CellStep(r, c) PROVE UseInv'
  BY <1>0, <1>5, CellUse
<1> QED
  BY <1>1, <1>2, <1>3, <1>4, <1>5 DEF Next

LEMMA UseInvariance == Spec => [](IInv /\ UseInv)
<1>1. Init => UseInv
  BY InitUse
<1>2. IInv /\ UseInv /\ [Next]_vars => UseInv'
  BY NextUse
<1> QED
  BY <1>1, <1>2, Invariance, PTL DEF Spec

-----------------------------------------------------------------------------
(* Theorems *)

\* The variables keep their types in every chain of runs.
THEOREM TypeCorrect == Spec => []TypeOK
<1>1. Init => TypeOK
  BY InitType
<1>2. TypeOK /\ [Next]_vars => TypeOK'
  BY NextType
<1> QED
  BY <1>1, <1>2, PTL DEF Spec

\* A resume begins no cell an ancestor has recorded completed, nor one an ancestor
\* finished, unless the CellCompleted was lost: that one crashed before the append, or
\* the append failed (orchestrator.py:471-492, cell_runner.py:442-463), whatever the
\* graph and however the runs fork. Runs of different branches are not compared.
THEOREM WorkIsDoneOnce == Spec => []NoWorkTwice
<1>1. ASSUME IInv, AllSealed PROVE NoWorkTwice
  <2> SUFFICES ASSUME NEW r \in Runs, NEW p \in lineage[r], NEW c \in Cells, Started(r, c)
               PROVE  c \notin Recorded(p) /\ (Finished(p, c) => Lost(p, c))
    BY DEF NoWorkTwice
  <2>1. /\ p \in Runs /\ pc[p] = "over" /\ Recorded(p) \subseteq Given(r)
    BY <1>1 DEF IInv, RunInv, Descends
  <2>2. c \notin Given(r)
    BY DEF Started, Given, CellsAt
  <2>3. stage[p][c] = "stored" => end[p] = "crash"
    BY <1>1, <2>1 DEF IInv, RunInv, Clean, CellsAt
  <2>4. stage[p][c] = "done" => c \in Recorded(p)
    BY <1>1, <2>1 DEF AllSealed, Sealed, CellsAt, Recorded
  <2> QED
    BY <2>1, <2>2, <2>3, <2>4 DEF Finished, Lost
<1> QED
  BY <1>1, Invariance, SealedInvariance, PTL

\* The cells a run takes for completed have their evidence once it executes, unless
\* an ancestor was cut while it seeded (orchestrator.py:490-517).
THEOREM EvidenceIsSeeded == Spec => []SeededUnlessCut
<1>1. ASSUME IInv PROVE SeededUnlessCut
  <2> SUFFICES ASSUME NEW r \in Runs, pc[r] \in Executing, Uncut(r)
               PROVE  Done(r) \subseteq evidence[r]
    BY DEF SeededUnlessCut, Uncut
  <2>1. Given(r) \subseteq evidence[r] /\ CellsAt(r, {"stored", "done"}) \subseteq evidence[r]
    BY <1>1 DEF IInv, RunInv, Evidenced
  <2> QED
    BY <2>1 DEF Done, Given, CellsAt
<1> QED
  BY <1>1, Invariance, PTL

\* A run finds no file of a cell whose conversation an ancestor kept only after some
\* run has finished it (cell_runner.py:221-263, 444).
THEOREM RoundsAreKept == Spec => []KeptRoundsAreUsed
<1>1. ASSUME IInv PROVE KeptRoundsAreUsed
  BY <1>1 DEF IInv, RunInv, Fresh, SomeFinished, FinishedStages, Finished, KeptRoundsAreUsed
<1> QED
  BY <1>1, Invariance, PTL

\* A resume of a run that ran out of budget begins one wave at most
\* (orchestrator.py:497-512, 660-666), whatever the limit, the graph and the chain.
THEOREM OneWaveIsBought == Spec => []ExhaustedBuysOneWave
<1>1. ASSUME UseInv PROVE ExhaustedBuysOneWave
  BY <1>1 DEF UseInv, Broke, OneWave, ExhaustedBuysOneWave
<1> QED
  BY <1>1, UseInvariance, PTL

\* Over any chain of resumes, what the budget counts is never more than the calls made,
\* and misses only those of attempts that raised or are under way as long as every
\* ancestor settled (orchestrator.py:497-512, cell_runner.py:328-344).
THEOREM UsageIsCarried == Spec => []UsageCarries
<1>1. ASSUME IInv, UseInv PROVE UsageCarries
  <2> SUFFICES ASSUME NEW r \in Runs
               PROVE  /\ usage[r] <= Total(spent, Chain(r))
                      /\ (\A p \in lineage[r] : Settled(p)) =>
                           usage[r] + Total(missed, Chain(r)) + Pending(r) = Total(spent, Chain(r))
    BY DEF UsageCarries, Chain, Settled
  <2>1. Balanced(r)
    BY <1>1 DEF UseInv
  <2> DEFINE u == usage[r]   p == Pending(r)
             m == Total(missed, Chain(r))   t == Total(spent, Chain(r))
  <2>2. u \in Nat /\ p \in Nat /\ m \in Nat /\ t \in Nat
    BY <1>1, ChainFacts DEF IInv, UseInv, Ordered
  <2>3. u + m + p <= t /\ ((\A q \in lineage[r] : Settled(q)) => u + m + p = t)
    BY <2>1 DEF Balanced
  <2>4. u <= t
    <3> HIDE DEF u, p, m, t
    <3> QED
      BY <2>2, <2>3
  <2> QED
    BY <2>3, <2>4
<1> QED
  BY <1>1, UseInvariance, PTL

-----------------------------------------------------------------------------
(* The spend authority *)

\* What the active reservations hold of an axis.
Held(a) == Total([r \in Reservation |-> r.estimate[a]], reservations)

\* What the authority counts as held is what its reservations hold.
HeldIsOwed == \A a \in Axes : reserved[a] = Held(a)

\* The inductive invariant.
AuthorityInv ==
  /\ AuthorityTypeOK
  /\ WithinLimit
  /\ IsFiniteSet(reservations) /\ \A r \in reservations : r.id \in issued
  /\ HeldIsOwed

\* A reservation is a number on each axis.
LEMMA ReservationFacts ==
  ASSUME NEW r \in Reservation
  PROVE  r.id \in Ids /\ r.estimate \in Spends /\ r.estimate \in [Axes -> Nat]
BY BudgetAssumption DEF Reservation

\* A fresh authority has spent and holds nothing.
LEMMA AuthorityInitInv == AuthorityInit => AuthorityInv
<1> SUFFICES ASSUME AuthorityInit PROVE AuthorityInv
  OBVIOUS
<1>1. IsFiniteSet(reservations) /\ \A r \in reservations : r.id \in issued
  BY FS_EmptySet DEF AuthorityInit
<1>2. ASSUME NEW a \in Axes PROVE reserved[a] = Held(a)
  BY <1>1, TotalNone DEF AuthorityInit, Held, Zero
<1> QED
  BY <1>1, <1>2, BudgetAssumption
     DEF AuthorityInit, AuthorityInv, AuthorityTypeOK, WithinLimit, HeldIsOwed, Zero

\* A reservation made is held besides the others.
LEMMA HoldOneMore ==
  ASSUME AuthorityInv, NEW id \in Ids, NEW s \in Spends, Reserve(id, s)
  PROVE  IsFiniteSet(reservations)' /\ HeldIsOwed'
<1> DEFINE q == [id |-> id, estimate |-> s]
<1>1. q \in Reservation /\ q \notin reservations /\ reservations \subseteq Reservation
  BY DEF Reserve, AuthorityInv, AuthorityTypeOK, Reservation
<1>2. IsFiniteSet(reservations) /\ reservations' = reservations \cup {q}
  BY DEF Reserve, AuthorityInv
<1>3. IsFiniteSet(reservations')
  BY <1>2, FS_AddElement
<1>4. ASSUME NEW a \in Axes PROVE reserved'[a] = Held(a)'
  <2> DEFINE f == [r \in Reservation |-> r.estimate[a]]
  <2>1. \A r \in reservations \cup {q} : f[r] \in Nat
    BY <1>1, ReservationFacts
  <2>2. Total(f, reservations \cup {q}) = f[q] + Total(f, reservations)
    <3> HIDE DEF f, q
    <3> QED
      BY <1>1, <1>2, <2>1, TotalAdd
  <2>3. f[q] = s[a]
    BY <1>1
  <2>4. reserved'[a] = reserved[a] + s[a]
    BY DEF Reserve, Plus
  <2>5. reserved[a] = Total(f, reservations)
    BY DEF AuthorityInv, HeldIsOwed, Held
  <2>6. Held(a)' = Total(f, reservations \cup {q})
    BY <1>2 DEF Held
  <2>7. Total(f, reservations) \in Nat /\ s[a] \in Nat
    BY <2>1, <1>2, TotalUnfold, BudgetAssumption
  <2> HIDE DEF f, q
  <2> QED
    BY <2>2, <2>3, <2>4, <2>5, <2>6, <2>7
<1> QED
  BY <1>3, <1>4 DEF HeldIsOwed

\* A reservation settled is held no longer, and nothing else is.
LEMMA HoldOneLess ==
  ASSUME AuthorityInv, NEW q \in reservations,
         reserved' = Minus(reserved, q.estimate), reservations' = reservations \ {q}
  PROVE  /\ IsFiniteSet(reservations)' /\ HeldIsOwed'
         /\ reserved' \in [Axes -> Nat]
         /\ \A a \in Axes : reserved'[a] = reserved[a] - q.estimate[a]
<1>1. q \in Reservation /\ reservations \subseteq Reservation /\ IsFiniteSet(reservations)
  BY DEF AuthorityInv, AuthorityTypeOK
<1>2. IsFiniteSet(reservations')
  BY <1>1, FS_RemoveElement
<1>3. ASSUME NEW a \in Axes
      PROVE  /\ reserved'[a] = Held(a)' /\ reserved'[a] \in Nat
             /\ reserved'[a] = reserved[a] - q.estimate[a]
  <2> DEFINE f == [r \in Reservation |-> r.estimate[a]]
  <2>1. \A r \in reservations : f[r] \in Nat
    BY <1>1, ReservationFacts
  <2>2. Total(f, reservations) = f[q] + Total(f, reservations \ {q})
    <3> HIDE DEF f
    <3> QED
      BY <1>1, <2>1, TotalRemove
  <2>3. f[q] = q.estimate[a]
    BY <1>1
  <2>4. reserved'[a] = reserved[a] - q.estimate[a]
    BY DEF Minus
  <2>5. reserved[a] = Total(f, reservations)
    BY DEF AuthorityInv, HeldIsOwed, Held
  <2>6. Held(a)' = Total(f, reservations \ {q})
    BY DEF Held
  <2>7. Total(f, reservations \ {q}) \in Nat /\ f[q] \in Nat
    BY <1>1, <1>2, <2>1, TotalUnfold
  <2> HIDE DEF f
  <2> QED
    BY <2>2, <2>3, <2>4, <2>5, <2>6, <2>7
<1>4. reserved' \in [Axes -> Nat]
  BY <1>3 DEF Minus
<1> QED
  BY <1>2, <1>3, <1>4 DEF HeldIsOwed

\* reserve() holds only what the headroom check left.
LEMMA ReserveKeepsInv ==
  ASSUME AuthorityInv, NEW id \in Ids, NEW s \in Spends, Reserve(id, s)
  PROVE  AuthorityInv'
<1>1. s \in [Axes -> Nat]
  BY BudgetAssumption
<1>2. AuthorityTypeOK'
  BY <1>1 DEF AuthorityInv, AuthorityTypeOK, Reserve, Plus, Reservation
<1>3. WithinLimit'
  BY <1>1, BudgetAssumption
     DEF AuthorityInv, AuthorityTypeOK, WithinLimit, Reserve, HasHeadroom, Plus
<1>4. \A r \in reservations' : r.id \in issued'
  BY DEF AuthorityInv, Reserve
<1> QED
  BY <1>2, <1>3, <1>4, HoldOneMore DEF AuthorityInv

\* commit() trades an estimate for an actual within it.
LEMMA CommitKeepsInv ==
  ASSUME AuthorityInv, NEW r \in Reservation, NEW s \in Spends, Commit(r, s)
  PROVE  AuthorityInv'
<1>1. s \in [Axes -> Nat] /\ r.estimate \in [Axes -> Nat] /\ r \in reservations
  BY ReservationFacts, BudgetAssumption DEF Commit, IsActive
<1>2. /\ IsFiniteSet(reservations)' /\ HeldIsOwed'
      /\ reserved' \in [Axes -> Nat]
      /\ \A a \in Axes : reserved'[a] = reserved[a] - r.estimate[a]
  BY <1>1, HoldOneLess DEF Commit
<1>3. AuthorityTypeOK'
  BY <1>1, <1>2 DEF AuthorityInv, AuthorityTypeOK, Commit, Plus
<1>4. WithinLimit'
  BY <1>1, <1>2, BudgetAssumption
     DEF AuthorityInv, AuthorityTypeOK, WithinLimit, Commit, Within, Plus
<1>5. \A q \in reservations' : q.id \in issued'
  BY DEF AuthorityInv, Commit
<1> QED
  BY <1>2, <1>3, <1>4, <1>5 DEF AuthorityInv

\* release() only gives headroom back.
LEMMA ReleaseKeepsInv ==
  ASSUME AuthorityInv, NEW r \in Reservation, Release(r)
  PROVE  AuthorityInv'
<1>1. r.estimate \in [Axes -> Nat] /\ r \in reservations
  BY ReservationFacts DEF Release, IsActive
<1>2. /\ IsFiniteSet(reservations)' /\ HeldIsOwed'
      /\ reserved' \in [Axes -> Nat]
      /\ \A a \in Axes : reserved'[a] = reserved[a] - r.estimate[a]
  BY <1>1, HoldOneLess DEF Release
<1>3. AuthorityTypeOK'
  BY <1>1, <1>2 DEF AuthorityInv, AuthorityTypeOK, Release
<1>4. WithinLimit'
  BY <1>1, <1>2, BudgetAssumption DEF AuthorityInv, AuthorityTypeOK, WithinLimit, Release
<1>5. \A q \in reservations' : q.id \in issued'
  BY DEF AuthorityInv, Release
<1> QED
  BY <1>2, <1>3, <1>4, <1>5 DEF AuthorityInv

\* record() may pass a limit, by what it adds to the recorded spend.
LEMMA RecordKeepsInv ==
  ASSUME AuthorityInv, NEW s \in Spends, RecordSpend(s)
  PROVE  AuthorityInv'
<1>1. s \in [Axes -> Nat]
  BY BudgetAssumption
<1>2. AuthorityTypeOK'
  BY <1>1, BudgetAssumption DEF AuthorityInv, AuthorityTypeOK, RecordSpend, Plus
<1>3. WithinLimit'
  BY <1>1, BudgetAssumption
     DEF AuthorityInv, AuthorityTypeOK, WithinLimit, RecordSpend, Plus
<1>4. /\ HeldIsOwed' /\ IsFiniteSet(reservations)'
      /\ \A q \in reservations' : q.id \in issued'
  BY DEF AuthorityInv, RecordSpend, HeldIsOwed, Held
<1> QED
  BY <1>2, <1>3, <1>4 DEF AuthorityInv

\* The invariant is inductive: one lemma per method.
LEMMA AuthorityNextInv == AuthorityInv /\ [AuthorityNext]_authority => AuthorityInv'
<1>1. SUFFICES ASSUME AuthorityInv, [AuthorityNext]_authority PROVE AuthorityInv'
  OBVIOUS
<1>2. CASE AuthorityNext
  BY <1>1, <1>2, ReserveKeepsInv, CommitKeepsInv, ReleaseKeepsInv, RecordKeepsInv
     DEF AuthorityNext
<1>3. CASE UNCHANGED authority
  BY <1>1, <1>3
     DEF authority, AuthorityInv, AuthorityTypeOK, WithinLimit, HeldIsOwed, Held
<1>4. QED
  BY <1>1, <1>2, <1>3

\* The totals, the active reservations and the records keep their types: nothing held
\* or committed is ever negative.
THEOREM AuthorityTypes == AuthoritySpec => []AuthorityTypeOK
<1>1. AuthorityInv => AuthorityTypeOK
  BY DEF AuthorityInv
<1>2. QED
  BY <1>1, AuthorityInitInv, AuthorityNextInv, PTL DEF AuthoritySpec

\* Reserving and committing never carry a limited axis past its limit; spend
\* recorded after the fact does, by no more than its own amount
\* (budget_authority.py:11).
THEOREM LimitHolds == AuthoritySpec => []WithinLimit
<1>1. AuthorityInv => WithinLimit
  BY DEF AuthorityInv
<1>2. QED
  BY <1>1, AuthorityInitInv, AuthorityNextInv, PTL DEF AuthoritySpec

\* The counters of held headroom and the table of reservations say the same, on every
\* axis and in whatever order the reservations settle (budget_authority.py:115-156).
THEOREM HeldIsTheSum == AuthoritySpec => []HeldIsOwed
<1>1. AuthorityInv => HeldIsOwed
  BY DEF AuthorityInv
<1>2. QED
  BY <1>1, AuthorityInitInv, AuthorityNextInv, PTL DEF AuthoritySpec

\* A settled reservation gives headroom back on every limited axis.
THEOREM SettlingFrees == AuthoritySpec => SettlingFreesHeadroom
<1>1. AuthorityInv /\ [AuthorityNext]_authority =>
        [\A r \in reservations \ reservations' : \A a \in Limited :
           Remaining(a)' >= Remaining(a)]_authority
  <2>1. SUFFICES ASSUME AuthorityInv, AuthorityNext, NEW r \in reservations \ reservations',
                        NEW a \in Limited
                 PROVE  Remaining(a)' >= Remaining(a)
    BY DEF authority
  <2>2. PICK q \in Reservation : Release(q) \/ \E s \in Spends : Commit(q, s)
    BY <2>1 DEF AuthorityNext, Reserve, RecordSpend
  <2>3. q.estimate \in [Axes -> Nat] /\ a \in Axes /\ Limits[a] \in Nat
    BY BudgetAssumption, ReservationFacts
  <2>4. committed'[a] + reserved'[a] <= committed[a] + reserved[a]
    <3>1. CASE Release(q)
      BY <2>1, <2>3, <3>1 DEF Release, Minus, AuthorityInv, AuthorityTypeOK
    <3>2. CASE \E s \in Spends : Commit(q, s)
      <4>1. PICK s \in Spends : Commit(q, s)
        BY <3>2
      <4>2. s \in [Axes -> Nat]
        BY BudgetAssumption
      <4>3. QED
        BY <2>1, <2>3, <4>1, <4>2
           DEF Commit, Within, Plus, Minus, AuthorityInv, AuthorityTypeOK
    <3>3. QED
      BY <2>2, <3>1, <3>2
  <2>5. /\ committed[a] \in Int /\ reserved[a] \in Int
        /\ committed'[a] \in Int /\ reserved'[a] \in Int
    BY <2>1, <2>3, AuthorityNextInv DEF AuthorityInv, AuthorityTypeOK
  <2>6. QED
    BY <2>3, <2>4, <2>5 DEF Remaining
<1>2. QED
  BY <1>1, AuthorityInitInv, AuthorityNextInv, PTL DEF AuthoritySpec, SettlingFreesHeadroom
=============================================================================
