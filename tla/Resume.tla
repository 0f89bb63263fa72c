-------------------------------- MODULE Resume --------------------------------
(***************************************************************************)
(* A chain of runs of one project: Company.run_async once, and             *)
(* Company.resume_async of any run that stopped short                      *)
(* (application/orchestrator.py), over the ledger and the cell checkpoints *)
(* (application/cell_runner.py) that outlive the process.                  *)
(*                                                                         *)
(* The process may crash at any step, with every run it drives; a run may  *)
(* be stopped; and since only its source is asked for being active, two    *)
(* resumes of one run may work side by side on the same checkpoint files.  *)
(* The cells only read (a writer kept alone is Waves' subject), and an     *)
(* attempt is its tool rounds, each one call, and the call that ends it.   *)
(***************************************************************************)
EXTENDS Naturals, FiniteSets, SequencesExt

CONSTANTS
  Cells,        \* the cells of the graph
  Deps,         \* Deps[c]: the cells c depends on
  Runs,         \* the runs there may be, 1..n; 1 is the first
  Limit,        \* the run budget, in calls
  Loops,        \* Loops[r]: max_waves + 1, of the request or, in a resume, the default
  MaxRounds,    \* bound: tool rounds of a conversation
  MaxFaults     \* bound: crashes, stops, retries, failed appends, unusable files

ASSUME ResumeAssumption ==
  /\ Runs \subseteq Nat \ {0} /\ 1 \in Runs
  /\ IsFiniteSet(Cells)
  /\ Deps \in [Cells -> SUBSET Cells]
  /\ Limit \in Nat /\ Loops \in [Runs -> Nat]
  /\ MaxRounds \in Nat /\ MaxFaults \in Nat

VARIABLES
  pc,          \* pc[r]: where run r is
  log,         \* log[r]: what its persisted events say
  checkpoint,  \* checkpoint[c]: rounds in the file of cell c, 0 for no file
  todo,        \* todo[r]: CellCompleted events of the source still to emit
  stage,       \* stage[r][c]: what run r knows of cell c
  rounds,      \* rounds[r][c]: tool rounds in the conversation of c
  calls,       \* calls[r][c]: calls of the attempt under way
  usage,       \* usage[r]: the calls its BudgetUsage and BudgetAuthority count
  evidence,    \* evidence[r]: cells whose criteria have an evidence digest
  waves,       \* waves[r]: waves begun
  faults,      \* crashes, stops, retries, failed appends, unusable files
  lineage,     \* history: lineage[r], the runs r descends from
  spent,       \* history: spent[r], the calls run r really made
  fresh,       \* history: fresh[r], the cells run r began and found no file of
  wrote,       \* history: wrote[r], the cells whose file run r wrote
  missed,      \* history: missed[r], calls of its attempts that raised
  end          \* history: end[r], how run r came to its end

cell == <<stage, rounds, calls>>
history == <<lineage, spent, fresh, wrote, missed, end>>
vars == <<pc, log, checkpoint, todo, cell, usage, evidence, waves, faults, history>>

Seeding == {"contract", "graph", "completed"}
Executing == {"between", "wave", "verifying"}
Active == Seeding \cup Executing \cup {"stopping"}
Pcs == {"unborn", "over"} \cup Active

\* "given": in initially_completed; "stored": evidence on disk and file removed,
\* CellCompleted not yet; "raised": run_cell let an exception out.
Known == {"idle", "given", "running", "stored", "done", "failed", "raised"}

Log == [contract : BOOLEAN, graph : BOOLEAN, marks : SUBSET Cells,
        completed : Seq(Cells), usage : Nat, exhausted : BOOLEAN, verified : BOOLEAN]

NoLog == [contract |-> FALSE, graph |-> FALSE, marks |-> {}, completed |-> <<>>,
          usage |-> 0, exhausted |-> FALSE, verified |-> FALSE]

Unset(v) == [r \in Runs |-> [c \in Cells |-> v]]

Init ==
  /\ pc = [r \in Runs |-> "unborn"]
  /\ log = [r \in Runs |-> NoLog]
  /\ checkpoint = [c \in Cells |-> 0]
  /\ todo = [r \in Runs |-> <<>>]
  /\ stage = Unset("idle")
  /\ rounds = Unset(0) /\ calls = Unset(0)
  /\ usage = [r \in Runs |-> 0]
  /\ evidence = [r \in Runs |-> {}]
  /\ waves = [r \in Runs |-> 0]
  /\ faults = 0
  /\ lineage = [r \in Runs |-> {}]
  /\ spent = [r \in Runs |-> 0]
  /\ fresh = [r \in Runs |-> {}]
  /\ wrote = [r \in Runs |-> {}]
  /\ missed = [r \in Runs |-> 0]
  /\ end = [r \in Runs |-> "none"]

Fault == faults < MaxFaults /\ faults' = faults + 1

\* The cells a run's own events call completed (projection.py, CellCompleted and
\* the statuses in GraphAccepted).
Recorded(s) == log[s].marks \cup ToSet(log[s].completed)

\* The cells run r has begun itself.
Started(r, c) == stage[r][c] \notin {"idle", "given"}

CellsAt(r, S) == {c \in Cells : stage[r][c] \in S}

-----------------------------------------------------------------------------
(* The first events of a run *)

FirstRun ==
  /\ pc[1] = "unborn"
  /\ pc' = [pc EXCEPT ![1] = "contract"]
  /\ UNCHANGED <<log, checkpoint, todo, cell, usage, evidence, waves, faults, history>>

\* Mutant of Completed: only the CellCompleted events count.
CompletedByEvents(s) == ToSet(log[s].completed)

\* completed_ids of a resume of s.
Completed(s) == Recorded(s)

\* Mutant of Carried: a resume starts from no usage.
CarriedNothing(s) == 0

\* replay_run(s).usage: the last BudgetUpdated; no other event carries it over.
Carried(s) == log[s].usage

\* What a run is refused for: nothing to replay, or nothing left to do.
MayResume(s) ==
  /\ pc[s] = "over"
  /\ log[s].contract /\ log[s].graph /\ ~log[s].verified

Resume(r, s) ==
  /\ r # 1 /\ pc[r] = "unborn" /\ \A q \in Runs : q < r => pc[q] # "unborn"
  /\ MayResume(s)
  /\ pc' = [pc EXCEPT ![r] = "contract"]
  /\ todo' = [todo EXCEPT ![r] = log[s].completed]
  /\ stage' = [stage EXCEPT ![r] =
       [c \in Cells |-> IF c \in Completed(s) THEN "given" ELSE "idle"]]
  /\ usage' = [usage EXCEPT ![r] = Carried(s)]
  /\ lineage' = [lineage EXCEPT ![r] = lineage[s] \cup {s}]
  /\ UNCHANGED <<log, checkpoint, rounds, calls, evidence, waves, faults,
                 spent, fresh, wrote, missed, end>>

EmitContract(r) ==
  /\ pc[r] = "contract"
  /\ log' = [log EXCEPT ![r].contract = TRUE]
  /\ pc' = [pc EXCEPT ![r] = "graph"]
  /\ UNCHANGED <<checkpoint, todo, cell, usage, evidence, waves, faults, history>>

\* The cells GraphAccepted says are completed: none in a first run.
Marks(r) == CellsAt(r, {"given"})

EmitGraph(r) ==
  /\ pc[r] = "graph"
  /\ log' = [log EXCEPT ![r].graph = TRUE, ![r].marks = Marks(r)]
  /\ pc' = [pc EXCEPT ![r] = "completed"]
  /\ UNCHANGED <<checkpoint, todo, cell, usage, evidence, waves, faults, history>>

EmitCompleted(r) ==
  /\ pc[r] = "completed" /\ todo[r] # <<>>
  /\ log' = [log EXCEPT ![r].completed = Append(@, Head(todo[r]))]
  /\ todo' = [todo EXCEPT ![r] = Tail(@)]
  /\ UNCHANGED <<pc, checkpoint, cell, usage, evidence, waves, faults, history>>

\* Mutant of Seed: the evidence of the last run alone.
SeedNothing(r) == {}

\* source_completed holds just what has been emitted again.
Seed(r) == ToSet(log[r].completed)

Execute(r) ==
  /\ pc[r] = "completed" /\ todo[r] = <<>>
  /\ evidence' = [evidence EXCEPT ![r] = Seed(r)]
  /\ pc' = [pc EXCEPT ![r] = "between"]
  /\ UNCHANGED <<log, checkpoint, todo, cell, usage, waves, faults, history>>

-----------------------------------------------------------------------------
(* Waves and cells *)

Done(r) == CellsAt(r, {"given", "done"})

Ready(r) == {c \in CellsAt(r, {"idle"}) : Deps[c] \subseteq Done(r)}

\* Mutant of Loaded: a file of its own for every run.
LoadedByRun(r, c, unread) == IF c \in wrote[r] \ unread THEN checkpoint[c] ELSE 0

\* _load_checkpoint: the file is found by the cell's id alone; one that cannot be
\* read, or does not hold a conversation, counts as none.
Loaded(r, c, unread) == IF c \in unread THEN 0 ELSE checkpoint[c]

HasFile(c) == checkpoint[c] # 0

\* unread: the cells whose file is there and cannot be used.
StartWave(r, unread) ==
  /\ pc[r] = "between" /\ Ready(r) # {} /\ waves[r] < Loops[r]
  /\ \A c \in unread : c \in Ready(r) /\ HasFile(c)
  /\ IF unread = {} THEN UNCHANGED faults ELSE Fault
  /\ pc' = [pc EXCEPT ![r] = "wave"]
  /\ waves' = [waves EXCEPT ![r] = @ + 1]
  /\ stage' = [stage EXCEPT ![r] =
       [c \in Cells |-> IF c \in Ready(r) THEN "running" ELSE @[c]]]
  /\ rounds' = [rounds EXCEPT ![r] =
       [c \in Cells |-> IF c \in Ready(r) THEN Loaded(r, c, unread) ELSE @[c]]]
  /\ fresh' = [fresh EXCEPT ![r] =
       @ \cup {c \in Ready(r) \ unread : Loaded(r, c, unread) = 0}]
  /\ UNCHANGED <<log, checkpoint, todo, calls, usage, evidence,
                 lineage, spent, wrote, missed, end>>

\* A tool round, and the file that keeps it; a write that fails is passed over.
Round(r, c, written) ==
  /\ pc[r] = "wave" /\ stage[r][c] = "running" /\ rounds[r][c] < MaxRounds
  /\ rounds' = [rounds EXCEPT ![r][c] = @ + 1]
  /\ calls' = [calls EXCEPT ![r][c] = @ + 1]
  /\ spent' = [spent EXCEPT ![r] = @ + 1]
  /\ IF written THEN /\ UNCHANGED faults
                     /\ checkpoint' = [checkpoint EXCEPT ![c] = rounds[r][c] + 1]
                     /\ wrote' = [wrote EXCEPT ![r] = @ \cup {c}]
                ELSE Fault /\ UNCHANGED <<checkpoint, wrote>>
  /\ UNCHANGED <<pc, log, todo, stage, usage, evidence, waves,
                 lineage, fresh, missed, end>>

\* The last call of an attempt, and what the attempt came to.
EndAttempt(r, c) ==
  /\ pc[r] = "wave" /\ stage[r][c] = "running"
  /\ spent' = [spent EXCEPT ![r] = @ + 1]
  /\ calls' = [calls EXCEPT ![r][c] = 0]

\* An attempt whose result came back is counted, and its messages carried on.
Account(r, c) == usage' = [usage EXCEPT ![r] = @ + calls[r][c] + 1]

Miss(r, c) == missed' = [missed EXCEPT ![r] = @ + calls[r][c] + 1]

\* The result carries an error: counted, and tried again with its messages.
RetryResult(r, c) ==
  /\ EndAttempt(r, c) /\ Fault
  /\ Account(r, c)
  /\ UNCHANGED <<pc, log, checkpoint, todo, stage, rounds, evidence, waves,
                 lineage, fresh, wrote, missed, end>>

\* The worker raised: nothing is counted, and the conversation starts over.
RetryRaised(r, c) ==
  /\ EndAttempt(r, c) /\ Fault
  /\ Miss(r, c)
  /\ rounds' = [rounds EXCEPT ![r][c] = 0]
  /\ UNCHANGED <<pc, log, checkpoint, todo, stage, usage, evidence, waves,
                 lineage, fresh, wrote, end>>

\* The files as a failed cell leaves them.
AfterFailure(c) == checkpoint

\* The recovery gives up (CellRunner's subject): CellFailed, and the run is lost
\* with the cell.
Fail(r, c, raised) ==
  /\ EndAttempt(r, c)
  /\ IF raised THEN Miss(r, c) /\ UNCHANGED usage
               ELSE Account(r, c) /\ UNCHANGED missed
  /\ stage' = [stage EXCEPT ![r][c] = "failed"]
  /\ rounds' = [rounds EXCEPT ![r][c] = 0]
  /\ checkpoint' = AfterFailure(c)
  /\ UNCHANGED <<pc, log, todo, evidence, waves, faults,
                 lineage, fresh, wrote, end>>

\* The evidence is stored and the file removed, before CellCompleted; a removal
\* that fails is passed over.
Finish(r, c, removed) ==
  /\ EndAttempt(r, c)
  /\ Account(r, c)
  /\ IF removed THEN UNCHANGED faults /\ checkpoint' = [checkpoint EXCEPT ![c] = 0]
                ELSE Fault /\ HasFile(c) /\ UNCHANGED checkpoint
  /\ stage' = [stage EXCEPT ![r][c] = "stored"]
  /\ rounds' = [rounds EXCEPT ![r][c] = 0]
  /\ evidence' = [evidence EXCEPT ![r] = @ \cup {c}]
  /\ UNCHANGED <<pc, log, todo, waves, lineage, fresh, wrote, missed, end>>

Record(r, c) ==
  /\ pc[r] \in {"wave", "stopping"} /\ stage[r][c] = "stored"
  /\ log' = [log EXCEPT ![r].completed = Append(@, c)]
  /\ stage' = [stage EXCEPT ![r][c] = "done"]
  /\ UNCHANGED <<pc, checkpoint, todo, rounds, calls, usage, evidence, waves,
                 faults, history>>

\* _budget_exhausted: asked once a wave has ended, never before one starts.
Exhausted(r) == usage[r] >= Limit

EndWave(r) ==
  /\ pc[r] = "wave" /\ CellsAt(r, {"running", "stored"}) = {}
  /\ LET lost == CellsAt(r, {"failed"}) # {}
     IN /\ pc' = [pc EXCEPT ![r] =
             IF lost \/ Exhausted(r) THEN "over" ELSE "between"]
        /\ log' = IF ~lost /\ Exhausted(r)
                  THEN [log EXCEPT ![r].usage = usage[r], ![r].exhausted = TRUE]
                  ELSE log
        /\ end' = [end EXCEPT ![r] =
             IF lost THEN "failed" ELSE IF Exhausted(r) THEN "exhausted" ELSE @]
  /\ UNCHANGED <<checkpoint, todo, cell, usage, evidence, waves, faults,
                 lineage, spent, fresh, wrote, missed>>

\* No cell is ready, or no wave is left.
Conclude(r) ==
  /\ pc[r] = "between" /\ (Ready(r) = {} \/ waves[r] = Loops[r])
  /\ IF Done(r) = Cells
     THEN /\ pc' = [pc EXCEPT ![r] = "verifying"]
          /\ log' = [log EXCEPT ![r].usage = usage[r]]
          /\ UNCHANGED end
     ELSE /\ pc' = [pc EXCEPT ![r] = "over"]
          /\ end' = [end EXCEPT ![r] = "failed"]
          /\ UNCHANGED log
  /\ UNCHANGED <<checkpoint, todo, cell, usage, evidence, waves, faults,
                 lineage, spent, fresh, wrote, missed>>

\* The verdict, with its status: a run cut between the two is one cut before both.
Verify(r, verified) ==
  /\ pc[r] = "verifying"
  /\ pc' = [pc EXCEPT ![r] = "over"]
  /\ log' = [log EXCEPT ![r].verified = verified]
  /\ end' = [end EXCEPT ![r] = "verdict"]
  /\ UNCHANGED <<checkpoint, todo, cell, usage, evidence, waves, faults,
                 lineage, spent, fresh, wrote, missed>>

-----------------------------------------------------------------------------
(* What cuts a run short *)

Crash ==
  /\ Fault /\ \E r \in Runs : pc[r] \in Active
  /\ pc' = [r \in Runs |-> IF pc[r] \in Active THEN "over" ELSE pc[r]]
  /\ end' = [r \in Runs |-> IF pc[r] \in Active THEN "crash" ELSE end[r]]
  /\ rounds' = [r \in Runs |-> IF pc[r] \in Active THEN [c \in Cells |-> 0] ELSE rounds[r]]
  /\ UNCHANGED <<log, checkpoint, todo, stage, calls, usage, evidence, waves,
                 lineage, spent, fresh, wrote, missed>>

\* A cancellation (POST /stop, the stall watchdog, an error of the run's own): the
\* cells under way are given up.
Stop(r) ==
  /\ Fault /\ pc[r] \in Active \ {"stopping"}
  /\ pc' = [pc EXCEPT ![r] = "stopping"]
  /\ UNCHANGED <<log, checkpoint, todo, cell, usage, evidence, waves, history>>

\* The appends a cancellation waits for: no await lies between the removal of the
\* file and the append, and the append is shielded.
Shielded(r) == CellsAt(r, {"stored"})

Stopped(r) ==
  /\ pc[r] = "stopping" /\ Shielded(r) = {}
  /\ pc' = [pc EXCEPT ![r] = "over"]
  /\ end' = [end EXCEPT ![r] = "stop"]
  /\ rounds' = [rounds EXCEPT ![r] = [c \in Cells |-> 0]]
  /\ UNCHANGED <<log, checkpoint, todo, stage, calls, usage, evidence, waves, faults,
                 lineage, spent, fresh, wrote, missed>>

\* The append of CellCompleted fails: the cell counts as failed, not the run.
RecordFails(r, c) ==
  /\ Fault /\ pc[r] \in {"wave", "stopping"} /\ stage[r][c] = "stored"
  /\ stage' = [stage EXCEPT ![r][c] = "raised"]
  /\ UNCHANGED <<pc, log, checkpoint, todo, rounds, calls, usage, evidence,
                 waves, history>>

CellStep(r, c) ==
  \/ \E written \in BOOLEAN : Round(r, c, written)
  \/ RetryResult(r, c) \/ RetryRaised(r, c) \/ (\E raised \in BOOLEAN : Fail(r, c, raised))
  \/ (\E removed \in BOOLEAN : Finish(r, c, removed))
  \/ Record(r, c) \/ RecordFails(r, c)

RunStep(r) ==
  \/ \E s \in Runs : Resume(r, s)
  \/ EmitContract(r) \/ EmitGraph(r) \/ EmitCompleted(r) \/ Execute(r)
  \/ (\E unread \in SUBSET Cells : StartWave(r, unread))
  \/ EndWave(r) \/ Conclude(r)
  \/ \E verified \in BOOLEAN : Verify(r, verified)
  \/ Stop(r) \/ Stopped(r)

Next ==
  \/ FirstRun
  \/ Crash
  \/ \E r \in Runs : RunStep(r) \/ \E c \in Cells : CellStep(r, c)

Spec == Init /\ [][Next]_vars

-----------------------------------------------------------------------------
(* Properties *)

\* The variables keep their types.
TypeOK ==
  /\ pc \in [Runs -> Pcs]
  /\ log \in [Runs -> Log]
  /\ checkpoint \in [Cells -> Nat]
  /\ todo \in [Runs -> Seq(Cells)]
  /\ stage \in [Runs -> [Cells -> Known]]
  /\ rounds \in [Runs -> [Cells -> Nat]]
  /\ calls \in [Runs -> [Cells -> Nat]]
  /\ usage \in [Runs -> Nat]
  /\ evidence \in [Runs -> SUBSET Cells]
  /\ waves \in [Runs -> Nat]
  /\ faults \in Nat
  /\ lineage \in [Runs -> SUBSET Runs]
  /\ spent \in [Runs -> Nat]
  /\ fresh \in [Runs -> SUBSET Cells]
  /\ wrote \in [Runs -> SUBSET Cells]
  /\ missed \in [Runs -> Nat]
  /\ end \in [Runs -> {"none", "failed", "exhausted", "verdict", "crash", "stop"}]

Finished(p, c) == stage[p][c] \in {"stored", "done", "raised"}

\* p finished c and its CellCompleted never reached the ledger: p crashed between
\* the removal of the file and the append, or the append failed.
Lost(p, c) == (stage[p][c] = "stored" /\ end[p] = "crash") \/ stage[p][c] = "raised"

\* A run begins a cell again only if no ancestor recorded it completed and, where an
\* ancestor had finished it, the CellCompleted was lost to a crash or to an append
\* that failed (orchestrator.py:471-492, cell_runner.py:442-463): the marks of the
\* re-emitted graph keep what a resume cut short while seeding has not said in events
\* yet, and a stop waits for the append it interrupts (stream.py:53-73). It compares a
\* run with those it descends from: two resumes of one run, side by side or one after
\* the other, know nothing of each other and may both do the same cell.
NoWorkTwice ==
  \A r \in Runs : \A p \in lineage[r] : \A c \in Cells : Started(r, c) =>
    /\ c \notin Recorded(p)
    /\ Finished(p, c) => Lost(p, c)

\* A cell a run found no file of when it began it, though an ancestor kept rounds of
\* it, is one that some run has finished: no failure, stop or crash of a run, and no
\* failed write of a later round, removes a kept conversation (cell_runner.py:221-263,
\* 444). It says nothing of a file that is there and cannot be used, which counts as
\* none, nor of the attempts after the first of a run: one that follows an attempt
\* which raised starts over whatever was kept (cell_runner.py:380-387).
KeptRoundsAreUsed ==
  \A r \in Runs : \A c \in fresh[r] :
    (\E p \in lineage[r] : c \in wrote[p])
      => \E q \in Runs : Finished(q, c)

\* Once a run executes, every cell it takes for completed has its evidence
\* (orchestrator.py:513-517), unless an ancestor was cut short before it had
\* re-emitted every CellCompleted (orchestrator.py:490-492).
SeededUnlessCut ==
  \A r \in Runs : pc[r] \in Executing =>
    \/ Done(r) \subseteq evidence[r]
    \/ \E p \in lineage[r] : todo[p] # <<>>

\* The run that r resumes: runs are numbered as they begin.
Source(r) == Max(lineage[r])

\* Resuming a run that ran out of budget buys one wave (orchestrator.py:497-512,
\* 660-666): the spend of the source is carried over, and asked after a wave only.
ExhaustedBuysOneWave ==
  \A r \in Runs : lineage[r] # {} /\ log[Source(r)].exhausted => waves[r] <= 1

Total(count, S) == FoldSet(LAMBDA p, n : count[p] + n, 0, S)

\* Calls of attempts under way, or cut short.
Pending(r) == Total(calls[r], Cells)

\* A chain never counts a call it did not make, and as long as each run before
\* settled its usage it misses just those of attempts under way or raised
\* (orchestrator.py:497-512, projection.py:114, cell_runner.py:328-344).
UsageCarries ==
  \A r \in Runs : LET chain == lineage[r] \cup {r} IN
    /\ usage[r] <= Total(spent, chain)
    /\ (\A p \in lineage[r] : end[p] \in {"exhausted", "verdict"}) =>
         usage[r] + Total(missed, chain) + Pending(r) = Total(spent, chain)

=============================================================================
