---------------------------- MODULE ControlPlane -----------------------------
(***************************************************************************)
(* One run in the web server: the supervisor that owns its task and its    *)
(* ledger handle (application/run_supervisor.py), the handlers that start, *)
(* stop, view and delete it (interfaces/web/routes_runs.py), the server's  *)
(* shutdown, the projection cache the views share                          *)
(* (application/projection_cache.py), and the page that polls a view and   *)
(* decides when to stop (static/js/poll.js).                               *)
(*                                                                         *)
(* start, stop and shutdown are coroutines of the event loop, which runs   *)
(* the task as well; get_run and delete_run are plain functions, each call *)
(* on a thread of its own, and fall between any two steps of the loop.  An *)
(* action is what a thread does to shared state at one point.              *)
(*                                                                         *)
(* An event is its sequence number; a projection is the sequence of events *)
(* folded into it.  The run's ledger folds in order: what Company writes   *)
(* is Company's module.                                                    *)
(***************************************************************************)
EXTENDS Naturals, Sequences

CONSTANTS
  Pollers,       \* pages that send GET /runs/{run_id}, one request at a time
  Deleters,      \* clients that send DELETE /runs/{run_id}
  StatusEvents,  \* the sequence numbers of StatusChanged events
  Endings,       \* those of them to verified, abstained or failed
  PageSize,      \* the limit of events_since
  LastEvent,     \* bound: events of the run
  MaxStops       \* bound: stops, each of which may leave an entry longer than before

ASSUME ControlPlaneAssumption ==
  /\ Pollers \cap Deleters = {}
  /\ LastEvent \in Nat /\ PageSize \in Nat \ {0} /\ MaxStops \in Nat
  /\ StatusEvents \subseteq 1..LastEvent /\ Endings \subseteq StatusEvents

VARIABLES
  server,      \* the lifespan: up, awaiting the tasks in its finally, down
  handler,     \* how far start_run or resume_run has come
  supervisor,  \* RunSupervisor: registered, holds its task, holds its ledger
  task,        \* the asyncio task
  appending,   \* an append runs in a thread behind emit_async's shield
  events,      \* length of the run's ledger
  stops,       \* stops so far
  tombstoned,
  cache,       \* the run's entry in ProjectionCache, or Cold
  request,     \* the locals of each client's current request
  view,        \* each page's last answer
  disturbed    \* history: the entry was read or dropped under a running read

runVars  == <<server, handler, supervisor, task, appending, events>>
viewVars == <<stops, tombstoned, cache, request, view, disturbed>>
vars     == <<runVars, viewVars>>

Clients == Pollers \cup Deleters

Prefix(n) == [i \in 1..n |-> i]

\* events_since(since) as far as the event numbered last.
TailOf(since, last) == [i \in 1..(IF since < last THEN last - since ELSE 0) |-> since + i]

Entry == [cursor : Nat, folded : Seq(1..LastEvent)]

Cold == [cursor |-> 0, folded |-> <<>>]

\* A local that no code reads any more is put back to its value here.
Idle == [pc |-> "idle", since |-> 0, last |-> 0, entry |-> Cold]

\* The part of get_run that reads the entry and replaces it.
Folding == {"read", "project", "store"}

TypeOK ==
  /\ server \in {"up", "waiting", "down"}
  /\ handler \in {"none", "supervised", "started", "refused"}
  /\ supervisor \in [registered : BOOLEAN, task : BOOLEAN, ledger : BOOLEAN]
  /\ task \in {"none", "pending", "running", "done"}
  /\ appending \in BOOLEAN
  /\ events \in 0..LastEvent
  /\ stops \in 0..MaxStops /\ tombstoned \in BOOLEAN
  /\ cache \in Entry
  /\ request \in [Clients -> [pc : {"idle", "peek", "check", "inactive", "active"} \cup Folding,
                              since : Nat, last : 0..LastEvent, entry : Entry]]
  /\ view \in [Pollers -> Seq(1..LastEvent)]
  /\ disturbed \in BOOLEAN

Init ==
  /\ server = "up" /\ handler = "none"
  /\ supervisor = [registered |-> FALSE, task |-> FALSE, ledger |-> FALSE]
  /\ task = "none" /\ appending = FALSE /\ events = 0
  /\ stops = 0 /\ tombstoned = FALSE /\ cache = Cold /\ disturbed = FALSE
  /\ request = [c \in Clients |-> Idle]
  /\ view = [p \in Pollers |-> <<>>]

-----------------------------------------------------------------------------
(* The event loop *)

\* start_run and resume_run hold the loop from here to their return.
LoopFree == handler # "supervised"

\* RunSupervisor.release; idempotent.
Released(sup) == [sup EXCEPT !.task = FALSE, !.ledger = FALSE]

\* build_company opens the ledger; the supervisor goes into app.state.
Supervise ==
  /\ server = "up" /\ handler = "none"
  /\ handler' = "supervised"
  /\ supervisor' = [registered |-> TRUE, task |-> FALSE, ledger |-> TRUE]
  /\ UNCHANGED <<server, task, appending, events, viewVars>>

\* RunIndex.register or create_task raises: the handler undoes what it did.
RollBack ==
  /\ handler = "supervised"
  /\ handler' = "refused"
  /\ supervisor' = Released([supervisor EXCEPT !.registered = FALSE])
  /\ UNCHANGED <<server, task, appending, events, viewVars>>

\* RunIndex.register, create_task and bind_task.
StartTask ==
  /\ handler = "supervised"
  /\ handler' = "started"
  /\ task' = "pending"
  /\ supervisor' = [supervisor EXCEPT !.task = TRUE]
  /\ UNCHANGED <<server, appending, events, viewVars>>

\* Queued before the step of any coroutine that could know the run's id, so that
\* Stop finds the task begun; a thread's check may come earlier.
FirstStep ==
  /\ task = "pending"
  /\ task' = "running"
  /\ UNCHANGED <<server, handler, supervisor, appending, events, viewVars>>

BeginAppend ==
  /\ task = "running" /\ ~appending /\ events < LastEvent
  /\ appending' = TRUE
  /\ UNCHANGED <<server, handler, supervisor, task, events, viewVars>>

\* It may fail, and leaves the ledger as it was.
EndAppend ==
  /\ appending
  /\ appending' = FALSE
  /\ events' \in {events, events + 1}
  /\ UNCHANGED <<server, handler, supervisor, task, viewVars>>

\* Mutant of EndRun: a cancelled run does not wait for its append.
EndRunUnshielded ==
  /\ task = "running"
  /\ task' = "done"
  /\ supervisor' = Released(supervisor)
  /\ UNCHANGED <<server, handler, appending, events, viewVars>>

\* The run returns or raises, cancelled or not, and _run's finally releases; from
\* there to the end of the task nothing is done.
\* emit_async does not give way to a cancellation before its append is done.
EndRun ==
  /\ task = "running" /\ ~appending
  /\ task' = "done"
  /\ supervisor' = Released(supervisor)
  /\ UNCHANGED <<server, handler, appending, events, viewVars>>

\* stop_run: task.cancel() only lets EndRun happen earlier; the entry is dropped.
Stop ==
  /\ server = "up" /\ LoopFree /\ task # "pending"
  /\ supervisor.registered /\ supervisor.task
  /\ stops < MaxStops /\ stops' = stops + 1
  /\ cache' = Cold
  /\ disturbed' = \E p \in Pollers : request[p].pc \in Folding
  /\ UNCHANGED <<runVars, tombstoned, request, view>>

\* The lifespan ends once the server has answered its last request.  A task that
\* it cancels before its first step, which no order of the loop's callbacks is
\* relied on to exclude, never runs, nor does its finally.
Shutdown ==
  /\ server = "up" /\ LoopFree
  /\ \A c \in Clients : request[c].pc = "idle"
  /\ server' = "waiting"
  /\ task' = IF task = "pending" THEN "done" ELSE task
  /\ UNCHANGED <<handler, supervisor, appending, events, viewVars>>

\* Every supervisor's task has been awaited and every supervisor released.
ReleaseAll ==
  /\ server = "waiting" /\ task \in {"none", "done"}
  /\ server' = "down"
  /\ supervisor' = [Released(supervisor) EXCEPT !.registered = FALSE]
  /\ UNCHANGED <<handler, task, appending, events, viewVars>>

-----------------------------------------------------------------------------
(* The handlers' threads *)

At(c, pc) == request[c].pc = pc

GoTo(c, pc) == request' = [request EXCEPT ![c].pc = pc]

Finish(c) == request' = [request EXCEPT ![c] = Idle]

\* The next request of a page that polls, or one that its user asks for.  A client knows the fresh
\* id from start_run's answer or from the list of active runs, which has it once the
\* task is bound.
Receive(c) ==
  /\ At(c, "idle") /\ server = "up" /\ handler = "started"
  /\ GoTo(c, "peek")
  /\ UNCHANGED <<runVars, stops, tombstoned, cache, view, disturbed>>

\* is_active's first condition: not released, and a task bound ...
Peek(c) ==
  /\ At(c, "peek")
  /\ GoTo(c, IF supervisor.registered /\ supervisor.task THEN "check" ELSE "inactive")
  /\ UNCHANGED <<runVars, stops, tombstoned, cache, view, disturbed>>

\* Mutant of Unfinished: only a task that has begun counts.
UnfinishedBegun == task = "running"

\* not task.done()
Unfinished == task # "done"

\* ... and its second, on the task read again: None by now if the supervisor was
\* released in between, which fails the request.
Check(c) ==
  /\ At(c, "check")
  /\ \/ supervisor.task /\ GoTo(c, IF Unfinished THEN "active" ELSE "inactive")
     \/ ~supervisor.task /\ Finish(c)
  /\ UNCHANGED <<runVars, stops, tombstoned, cache, view, disturbed>>

\* Mutant of Cursor: the last event is read again.
CursorOfLast == IF cache.cursor > 0 THEN cache.cursor - 1 ELSE 0

Cursor == cache.cursor

ReadCursor(p) ==
  /\ At(p, "active")
  /\ request' = [request EXCEPT ![p].pc = "read", ![p].since = Cursor]
  /\ disturbed' = (disturbed \/ \E q \in Pollers \ {p} : request[q].pc \in Folding)
  /\ UNCHANGED <<runVars, stops, tombstoned, cache, view>>

PageEnd(since) == IF since + PageSize < events THEN since + PageSize ELSE events

ReadTail(p) ==
  /\ At(p, "read")
  /\ request' = [request EXCEPT ![p].pc = "project", ![p].last = PageEnd(request[p].since)]
  /\ UNCHANGED <<runVars, stops, tombstoned, cache, view, disturbed>>

\* fold raises at a status that is not the next one.
Foldable(folded) ==
  \A i \in 1..Len(folded) :
    folded[i] \in StatusEvents =>
      {folded[j] : j \in 1..(i - 1)} \cap StatusEvents
        = {e \in StatusEvents : e < folded[i]}

\* The snapshot's status is verified, abstained or failed, which no status follows.
LooksOver(folded) == \E i \in 1..Len(folded) : folded[i] \in Endings

\* ProjectionCache.project reads the entry again and folds the tail onto it.
Project(p) ==
  LET tail  == TailOf(request[p].since, request[p].last)
      entry == [cursor |-> cache.cursor + Len(tail), folded |-> cache.folded \o tail]
  IN  /\ At(p, "project")
      /\ \/ /\ Foldable(entry.folded)
            /\ request' = [request EXCEPT ![p] = [Idle EXCEPT !.pc = "store", !.entry = entry]]
         \/ ~Foldable(entry.folded) /\ Finish(p)
      /\ UNCHANGED <<runVars, stops, tombstoned, cache, view, disturbed>>

StoreEntry(p) ==
  /\ At(p, "store")
  /\ cache' = request[p].entry
  /\ view' = [view EXCEPT ![p] = request[p].entry.folded]
  /\ Finish(p)
  /\ UNCHANGED <<runVars, stops, tombstoned, disturbed>>

\* Mutant of Replay: the entry serves finished runs too.
ReplayCached(p) ==
  /\ At(p, "inactive")
  /\ view' = [view EXCEPT ![p] = IF cache # Cold THEN cache.folded ELSE Prefix(events)]
  /\ Finish(p)
  /\ UNCHANGED <<runVars, stops, tombstoned, cache, disturbed>>

\* A run that is not active is replayed from its first event.
Replay(p) ==
  /\ At(p, "inactive")
  /\ view' = [view EXCEPT ![p] = Prefix(events)]
  /\ Finish(p)
  /\ UNCHANGED <<runVars, stops, tombstoned, cache, disturbed>>

\* An active run is not deleted: 409.
RefuseDelete(d) ==
  /\ At(d, "active")
  /\ Finish(d)
  /\ UNCHANGED <<runVars, stops, tombstoned, cache, view, disturbed>>

\* A run without events is not found: 404.
Delete(d) ==
  /\ At(d, "inactive")
  /\ tombstoned' = (tombstoned \/ events > 0)
  /\ Finish(d)
  /\ UNCHANGED <<runVars, stops, cache, view, disturbed>>

View(p) == Peek(p) \/ Check(p) \/ ReadCursor(p) \/ ReadTail(p)
           \/ Project(p) \/ StoreEntry(p) \/ Replay(p)

Dispose(d) == Receive(d) \/ Peek(d) \/ Check(d) \/ RefuseDelete(d) \/ Delete(d)

Loop == Supervise \/ RollBack \/ StartTask \/ FirstStep
        \/ BeginAppend \/ EndAppend \/ EndRun \/ Stop \/ Shutdown \/ ReleaseAll

Down == server = "down" /\ UNCHANGED vars

Next == Loop \/ Down \/ (\E p \in Pollers : Receive(p) \/ View(p))
        \/ (\E d \in Deleters : Dispose(d))

Spec == Init /\ [][Next]_vars

\* A handler's thread goes on running.  Nothing is assumed of the pages, the run, of
\* deletions or of shutdown.
FairSpec == Spec /\ \A p \in Pollers : WF_vars(View(p))

-----------------------------------------------------------------------------
(* Properties *)

\* No append finds the run's ledger handle closed, however stops, the end of the
\* task and shutdown race to release it.
AppendsReachLedger == appending => supervisor.ledger

\* A run that has run, a start that was undone and a server that is down leave no
\* ledger handle open; a task that shutdown cancelled unstarted is covered too.
HandlesReleased ==
  handler = "refused" \/ server = "down" \/ (task = "done" /\ server = "up")
    => ~supervisor.ledger /\ ~supervisor.task

\* A tombstoned run is over: neither a check made earlier nor the time before its
\* task's first step lets an active run be hidden.
DeletedIsOver == tombstoned => task = "done"

\* As long as no read of the entry overlaps another or a stop, the incremental
\* projection is that of the events before its cursor.
CacheIsPrefix ==
  ~disturbed => cache.cursor <= events /\ cache.folded = Prefix(cache.cursor)

\* The request a watched page sends on its timer: it polls until a snapshot has a
\* status that it takes for the end.
PollAgain(p) == ~LooksOver(view[p]) /\ Receive(p)

\* Whatever overlapping reads did to the entry, a page sees all of a run that has
\* ended, if it is not left hidden or paused, and unless a snapshot had the run's last
\* status.  Such a page has stopped with what it has, be it from a doubled or lossy
\* entry of a task that still runs, or older than the events after that status.
EndIsSeen ==
  \A p \in Pollers :
    WF_vars(PollAgain(p)) =>
      (task = "done" ~> view[p] = Prefix(events) \/ LooksOver(view[p]) \/ server # "up")

=============================================================================
