-------------------------------- MODULE Waves ---------------------------------
(***************************************************************************)
(* The wave loop of one run: Company._execute_cells with its scheduler     *)
(* (application/orchestrator.py, scheduling.py), the guard that races each *)
(* batch of cells against the stall watchdog (_run_with_stall_watchdog,    *)
(* stall_detector.py), and the graphs the planner accepts (planning.py).   *)
(*                                                                         *)
(* A cell is the task of its run_cell coroutine, of which only the end     *)
(* matters here: its attempts are CellRunner's subject.  Two things reach  *)
(* the tasks of a batch from outside: the watchdog, and a cancellation of  *)
(* the run (POST /stop, shutdown).  Time passes in ticks; the events that  *)
(* the short-circuits emit are Company's.                                  *)
(***************************************************************************)
EXTENDS Naturals, FiniteSets

CONSTANTS
  Cells,
  Place,          \* Place[c]: position of c in graph.cells
  Graphs,         \* the graphs that may be proposed
  WaveLimits,     \* the values request.max_waves may take
  Windows         \* the stall windows configured, in ticks; 0 for none

ASSUME WavesAssumption ==
  /\ IsFiniteSet(Cells)
  /\ Place \in [Cells -> Nat]
  /\ \A c, d \in Cells : Place[c] = Place[d] => c = d
  /\ Graphs \subseteq [deps : [Cells -> SUBSET Cells], mutating : SUBSET Cells]
  /\ WaveLimits \subseteq Nat
  /\ Windows \subseteq Nat

VARIABLES
  graph,      \* its deps and mutating cells; with maxWaves, window and resumed,
  maxWaves,   \* request.max_waves                 what this run was started on
  window,     \* stall_window_seconds
  resumed,    \* driven by resume_async
  pc,         \* where _execute_cells stands
  round,      \* _wave
  guarded,    \* the cells of the batch under guard
  writers,    \* mutating_cells of this round that have not been started
  completed,  \* completed_ids
  failed,     \* failed_ids
  task,       \* the state of each cell's run_cell coroutine
  persisted,  \* the cells with a CellCompleted in the ledger
  dry,        \* _budget_exhausted(budget_auth)
  quiet,      \* ticks since the last heartbeat, up to one more than the window
  asked,      \* the guard's await was cancelled, by the watchdog or from outside
  stopped,    \* history: a cancellation came from outside
  outcome     \* what _execute_cells hands to its caller; "verify" for None

given == <<graph, maxWaves, window, resumed>>
progress == <<round, writers, completed, failed>>
vars == <<given, pc, progress, guarded, task, persisted, dry, quiet,
          asked, stopped, outcome>>

Ended == {"completed", "failed", "abstained", "raised", "cancelled"}
Active == {"running", "hung", "storing", "cancelling", "closing"}

TypeOK ==
  /\ graph \in Graphs
  /\ maxWaves \in WaveLimits
  /\ window \in Windows
  /\ resumed \in BOOLEAN
  /\ pc \in {"round", "guard", "unwatch", "write", "done"}
  /\ round \in 0..(maxWaves + 1)
  /\ guarded \subseteq Cells
  /\ writers \subseteq graph.mutating
  /\ completed \subseteq Cells /\ failed \subseteq Cells
  /\ task \in [Cells -> {"idle"} \cup Active \cup Ended]
  /\ persisted \subseteq Cells
  /\ dry \in BOOLEAN
  /\ quiet \in 0..(window + 1)
  /\ asked \in BOOLEAN /\ stopped \in BOOLEAN
  /\ outcome \in {"pending", "verify", "failed", "abstained", "exhausted",
                  "stalled", "error", "cancelled"}

-----------------------------------------------------------------------------
(* Planning *)

\* GraphPlanner.validate: some wave numbers put every dependency in an earlier
\* wave and no two mutating cells in one, and the waves suffice to serialize the
\* mutating cells.
Accepted(g, limit) ==
  /\ \E wave \in [Cells -> 0..Cardinality(Cells)] :
       /\ \A c \in Cells : \A d \in g.deps[c] : wave[d] < wave[c]
       /\ \A c, d \in g.mutating : c # d => wave[c] # wave[d]
  /\ Cardinality(g.mutating) <= limit

\* A resumed run starts from the cells its source completed, each after its
\* dependencies, on a budget that may be spent already, and with a max_waves of
\* its own, whatever its source was accepted with.
Init ==
  /\ graph \in Graphs
  /\ maxWaves \in WaveLimits
  /\ window \in Windows
  /\ resumed \in BOOLEAN
  /\ \E limit \in WaveLimits : /\ Accepted(graph, limit)
                               /\ ~resumed => limit = maxWaves
  /\ completed \in SUBSET Cells
  /\ \A c \in completed : graph.deps[c] \subseteq completed
  /\ dry \in BOOLEAN
  /\ ~resumed => completed = {} /\ ~dry
  /\ persisted = completed
  /\ failed = {} /\ writers = {} /\ guarded = {}
  /\ task = [c \in Cells |-> "idle"]
  /\ pc = "round" /\ round = 0 /\ quiet = 0
  /\ asked = FALSE /\ stopped = FALSE
  /\ outcome = "pending"

-----------------------------------------------------------------------------
(* Scheduling *)

\* Mutant of Eligible: a failed dependency no longer holds its dependants back.
EligibleAfterFailure(c) ==
  /\ c \notin completed \cup failed
  /\ graph.deps[c] \subseteq completed \cup failed

Eligible(c) ==
  /\ c \notin completed \cup failed
  /\ graph.deps[c] \subseteq completed

\* Mutant of ReadyReaders: the batch is not split by mode.
ReadyOfAnyMode == {c \in Cells : Eligible(c)}

ReadyReaders == {c \in Cells \ graph.mutating : Eligible(c)}

\* The first eligible mutating cell of graph.cells, alone.
ReadyWriters ==
  {c \in graph.mutating :
     /\ Eligible(c)
     /\ \A d \in graph.mutating : Eligible(d) => Place[c] <= Place[d]}

IsStalled == window # 0 /\ quiet > window

Leave(o) == pc' = "done" /\ outcome' = o

Idle == UNCHANGED <<given, task, persisted, dry, quiet, asked, stopped>>

RoundsLeft == round <= maxWaves

\* range(max_waves + 1) is used up.
RoundsUsedUp ==
  /\ pc = "round" /\ ~RoundsLeft
  /\ Leave(IF completed = Cells THEN "verify" ELSE "failed")
  /\ Idle /\ UNCHANGED <<progress, guarded>>

NothingReady ==
  /\ pc = "round" /\ RoundsLeft
  /\ ReadyReaders \cup ReadyWriters = {}
  /\ Leave(IF failed = {} /\ completed = Cells THEN "verify" ELSE "failed")
  /\ Idle /\ UNCHANGED <<progress, guarded>>

-----------------------------------------------------------------------------
(* The guard *)

\* Enter _run_with_stall_watchdog.  With the run stalled already, the tasks are
\* cancelled before their first step and only awaited.
Guard(batch) ==
  /\ guarded' = batch
  /\ task' = [c \in Cells |->
                IF c \notin batch THEN task[c]
                ELSE IF IsStalled THEN "cancelled" ELSE "running"]
  /\ pc' = "guard"
  /\ asked' = IsStalled
  /\ UNCHANGED <<given, persisted, dry, quiet, stopped, completed, failed, round,
                 outcome>>

StartReaders ==
  /\ pc = "round" /\ RoundsLeft
  /\ ReadyReaders # {}
  /\ Guard(ReadyReaders)
  /\ writers' = ReadyWriters

NoReaders ==
  /\ pc = "round" /\ RoundsLeft
  /\ ReadyReaders = {} /\ ReadyWriters # {}
  /\ pc' = "write"
  /\ writers' = ReadyWriters
  /\ Idle /\ UNCHANGED <<round, completed, failed, guarded, outcome>>

\* One pass of `for mc in mutating_cells`, in graph order.
StartWriter ==
  /\ pc = "write"
  /\ \E c \in writers :
       /\ \A d \in writers : Place[c] <= Place[d]
       /\ Guard({c})
       /\ writers' = writers \ {c}

NextRound ==
  /\ pc = "write" /\ writers = {}
  /\ pc' = "round"
  /\ round' = round + 1
  /\ Idle /\ UNCHANGED <<writers, completed, failed, guarded, outcome>>

\* Mutant of Cancelled: a hung worker swallows the cancellation.
CancelledUnlessHung(s) == CASE s = "running" -> "cancelling"
                            [] s = "storing" -> "closing"
                            [] OTHER         -> s

\* Task.cancel on what the guard awaits: gather cancels all its children.
Cancelled(s) == CASE s \in {"running", "hung"} -> "cancelling"
                  [] s = "storing"             -> "closing"
                  [] OTHER                     -> s

CancelTasks == task' = [c \in Cells |-> Cancelled(task[c])]

Awaiting == UNCHANGED <<given, progress, guarded, persisted, dry, quiet, outcome, pc>>

\* Mutant of Watchdog: it looks once, when the guard is entered.
WatchdogOnce ==
  /\ pc = "guard" /\ IsStalled
  /\ \A c \in guarded : task[c] = "running"
  /\ CancelTasks
  /\ asked' = TRUE
  /\ Awaiting /\ UNCHANGED stopped

Watchdog ==
  /\ pc = "guard" /\ IsStalled
  /\ \E c \in guarded : task[c] \in {"running", "hung", "storing"}
  /\ CancelTasks
  /\ asked' = TRUE
  /\ Awaiting /\ UNCHANGED stopped

\* A cancellation from outside, at the await of the tasks.
Stop ==
  /\ pc = "guard"
  /\ CancelTasks
  /\ asked' = TRUE /\ stopped' = TRUE
  /\ Awaiting

\* The same while the guard, its cells over, awaits the watchdog's end: suppress()
\* swallows it.
StopSwallowed ==
  /\ pc = "unwatch"
  /\ stopped' = TRUE
  /\ Awaiting /\ UNCHANGED <<task, asked>>

\* Mutant of Over: gather without return_exceptions, which returns at the first
\* exception of a child and leaves the others running.
OverAtFirstError ==
  \/ \E c \in guarded : task[c] = "raised"
  \/ \A c \in guarded : task[c] \in Ended

Over == \A c \in guarded : task[c] \in Ended

\* The cells have ended undisturbed.
EndGuard ==
  /\ pc = "guard" /\ Over /\ ~asked
  /\ pc' = "unwatch"
  /\ Idle /\ UNCHANGED <<progress, guarded, outcome>>

\* A guard that was cancelled: _STALLED if the run is stalled by now, whoever
\* asked, and else the cancellation is raised again.
CutShort ==
  /\ pc = "guard" /\ Over /\ asked
  /\ Leave(IF IsStalled THEN "stalled" ELSE "cancelled")
  /\ Idle /\ UNCHANGED <<progress, guarded>>

-----------------------------------------------------------------------------
(* The batch's results *)

\* Cells of the batch whose run_cell returned a RunOutcome.
Verdicts == {c \in guarded : task[c] \in {"failed", "abstained"}}

Raised == {c \in guarded : task[c] = "raised"}

\* Mutant of Done: whatever is not an outcome counts as completed.
DoneUnlessVerdict == {c \in guarded : task[c] \notin {"failed", "abstained"}}

Done == {c \in guarded : task[c] = "completed"}

\* The first verdict in the graph's order is returned at once.
ReturnVerdict ==
  /\ pc = "unwatch"
  /\ \E c \in Verdicts : /\ \A d \in Verdicts : Place[c] <= Place[d]
                          /\ Leave(task[c])
  /\ Idle /\ UNCHANGED <<progress, guarded>>

\* An exception of the mutating cell is not caught, unlike a reader's.
WriterRaises ==
  /\ pc = "unwatch"
  /\ Raised \cap graph.mutating # {}
  /\ Leave("error")
  /\ Idle /\ UNCHANGED <<progress, guarded>>

OutOfBudget == dry

\* No verdict: note what completed and what raised, then look at the budget.
Collect ==
  /\ pc = "unwatch"
  /\ Verdicts = {} /\ Raised \cap graph.mutating = {}
  /\ completed' = completed \cup Done
  /\ failed' = failed \cup Raised
  /\ IF OutOfBudget THEN Leave("exhausted") ELSE pc' = "write" /\ UNCHANGED outcome
  /\ guarded' = {}
  /\ Idle /\ UNCHANGED <<round, writers>>

-----------------------------------------------------------------------------
(* The cells *)

Becomes(c, s) == task' = [task EXCEPT ![c] = s]

Elsewhere ==
  UNCHANGED <<given, pc, progress, guarded, asked, stopped, outcome>>

\* A heartbeat, at an attempt's start or while the worker streams.
Beat(c) ==
  /\ task[c] = "running"
  /\ quiet' = 0
  /\ Elsewhere /\ UNCHANGED <<task, persisted, dry>>

\* An attempt's spend is recorded; it may use the budget up.
Spend(c) ==
  /\ task[c] = "running"
  /\ dry' = TRUE
  /\ Elsewhere /\ UNCHANGED <<task, persisted, quiet>>

\* CellCompleted is being appended, the last await of run_cell.
StoreCell(c) ==
  /\ task[c] = "running"
  /\ Becomes(c, "storing")
  /\ Elsewhere /\ UNCHANGED <<persisted, dry, quiet>>

\* It is persisted and run_cell returns None, or the append fails and it raises.
CompleteCell(c) ==
  /\ task[c] = "storing"
  /\ \/ Becomes(c, "completed") /\ persisted' = persisted \cup {c}
     \/ Becomes(c, "raised") /\ UNCHANGED persisted
  /\ Elsewhere /\ UNCHANGED <<dry, quiet>>

\* run_cell returns FAILED or ABSTAINED, or raises.
EndCell(c) ==
  /\ task[c] = "running"
  /\ \E s \in {"failed", "abstained", "raised"} : Becomes(c, s)
  /\ Elsewhere /\ UNCHANGED <<persisted, dry, quiet>>

\* The worker hangs: no heartbeat, no end.
Hang(c) ==
  /\ task[c] = "running"
  /\ Becomes(c, "hung")
  /\ Elsewhere /\ UNCHANGED <<persisted, dry, quiet>>

\* The CancelledError ends run_cell.
TearDown(c) ==
  /\ task[c] = "cancelling"
  /\ Becomes(c, "cancelled")
  /\ Elsewhere /\ UNCHANGED <<persisted, dry, quiet>>

\* The shielded append of CellCompleted ends first, one way or the other.
TearDownStored(c) ==
  /\ task[c] = "closing"
  /\ Becomes(c, "cancelled")
  /\ persisted' \in {persisted, persisted \cup {c}}
  /\ Elsewhere /\ UNCHANGED <<dry, quiet>>

-----------------------------------------------------------------------------
\* Time passes at every await, and however long the loop takes in between.
Tick ==
  /\ pc # "done"
  /\ window # 0 /\ quiet <= window
  /\ quiet' = quiet + 1
  /\ Elsewhere /\ UNCHANGED <<task, persisted, dry>>

Finished == pc = "done" /\ UNCHANGED vars

Loop == RoundsUsedUp \/ NothingReady \/ StartReaders \/ NoReaders \/ StartWriter
        \/ NextRound \/ EndGuard \/ CutShort \/ ReturnVerdict \/ WriterRaises
        \/ Collect

CellEnds(c) == StoreCell(c) \/ CompleteCell(c) \/ EndCell(c) \/ Hang(c)
               \/ TearDown(c) \/ TearDownStored(c)

Next == Loop \/ Watchdog \/ Stop \/ StopSwallowed \/ Tick \/ Finished
        \/ \E c \in Cells : Beat(c) \/ Spend(c) \/ CellEnds(c)

Spec == Init /\ [][Next]_vars

\* The event loop runs what is ready: the run's coroutine, the watchdog, and each
\* cell until it ends or hangs; an attempt loop is finite (CellRunner).  Nothing
\* is assumed of heartbeats, of hung cells or of cancellations from outside.
FairSpec ==
  /\ Spec
  /\ WF_vars(Loop) /\ WF_vars(Watchdog) /\ WF_vars(Tick)
  /\ \A c \in Cells : WF_vars(CellEnds(c))

-----------------------------------------------------------------------------
(* Properties *)

\* A mutating cell runs alone: neither a reader of its own round nor a cell that
\* was cancelled or left over by an earlier batch touches the workspace with it.
WriterAlone ==
  \A w \in graph.mutating : \A c \in Cells \ {w} :
    ~(task[w] \in Active /\ task[c] \in Active)

\* A cell only ever runs with every dependency's CellCompleted in the ledger, in
\* a resumed run too; a cell that raised or was cut short unlocks nothing.
DependenciesFirst ==
  \A c \in Cells : task[c] \in Active => graph.deps[c] \subseteq persisted

\* The caller goes on to verification only with every cell completed and in the
\* ledger, whichever raised, however many rounds were left.
VerifyOnlyComplete == outcome = "verify" => persisted = Cells

\* _execute_cells never leaves a cell running behind it, not when it gives up on
\* a stalled batch, not when it is cancelled.
NoOrphans == pc = "done" => \A c \in Cells : task[c] \notin Active

Starts(c) == task[c] # "running" /\ task[c]' = "running"

\* No cell is run twice, and none whose completion is in the ledger.
StartsOnce ==
  [][\A c \in Cells : Starts(c) => task[c] = "idle" /\ c \notin persisted]_vars

\* No cell starts after a sibling gave a verdict or was cut short, nor on a spent
\* budget, but for the first batch of a resumed run.
StartsJustified ==
  [][\A c \in Cells : Starts(c) =>
       /\ \A d \in Cells : task[d] \notin {"failed", "abstained", "cancelled"}
       /\ dry => resumed /\ \A d \in Cells : task[d] = "idle"]_vars

\* With a stall window a run gets out of its wave loop although cells hang.
HungRunReturns == window # 0 => <>(pc = "done")

\* With or without one, a cancellation at the guard gets it out.
StopFreesHungRun == asked ~> (pc = "done")

\* Claimed: "The cancellation path must emit a terminal failed"
\* (tests/test_live_directions.py): a stopped run does not go on to verification.
StoppedRunIsNotVerified == ~(stopped /\ outcome = "verify")
=============================================================================
