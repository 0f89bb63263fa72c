------------------------- MODULE ControlPlane_proofs -------------------------
(***************************************************************************)
(* Proofs about ControlPlane, for any clients, events, status events, page *)
(* size and number of stops.                                               *)
(***************************************************************************)
EXTENDS ControlPlane, TLAPS

\* A run that is being started has its ledger, a task that is not done is the
\* supervisor's, with the ledger, and only a task that runs appends.
Owned ==
  /\ task # "none" <=> handler = "started"
  /\ handler = "supervised" =>
       server = "up" /\ supervisor.registered /\ supervisor.ledger
  /\ task \in {"pending", "running"} =>
       supervisor.registered /\ supervisor.task /\ supervisor.ledger
  /\ appending => task = "running" /\ events < LastEvent
  /\ server = "down" => task \in {"none", "done"}

\* A request's locals, as TypeOK has them.
Local ==
  [pc : {"idle", "peek", "check", "inactive", "active"} \cup Folding,
   since : Nat, last : 0..LastEvent, entry : Entry]

\* Requests are answered while the server is up; one that found the run inactive
\* found it over.
Answered ==
  \A c \in Clients :
    /\ request[c].pc # "idle" => server = "up" /\ handler = "started"
    /\ request[c].pc = "inactive" => task = "done"

\* What a read that nothing overlaps knows of the entry and of the ledger.
ReadsAlone ==
  ~disturbed =>
    /\ \A p, q \in Pollers :
         request[p].pc \in Folding /\ request[q].pc \in Folding => p = q
    /\ \A p \in Pollers :
         /\ request[p].pc \in {"read", "project"} => request[p].since = cache.cursor
         /\ request[p].pc = "project" =>
              request[p].since <= request[p].last /\ request[p].last <= events
         /\ request[p].pc = "store" =>
              /\ request[p].entry.cursor <= events
              /\ request[p].entry.folded = Prefix(request[p].entry.cursor)

\* The inductive invariant.
IInv ==
  /\ TypeOK
  /\ Owned
  /\ HandlesReleased
  /\ Answered
  /\ DeletedIsOver
  /\ CacheIsPrefix
  /\ ReadsAlone

-----------------------------------------------------------------------------
(* Lemmas about sequences of events *)

LEMMA PrefixType ==
  ASSUME NEW n \in 0..LastEvent
  PROVE  Prefix(n) \in Seq(1..LastEvent) /\ Len(Prefix(n)) = n
BY ControlPlaneAssumption DEF Prefix

LEMMA TailType ==
  ASSUME NEW since \in Nat, NEW last \in 0..LastEvent
  PROVE  /\ TailOf(since, last) \in Seq(1..LastEvent)
         /\ Len(TailOf(since, last)) = IF since < last THEN last - since ELSE 0
BY ControlPlaneAssumption DEF TailOf

LEMMA ColdType == Cold \in Entry
<1>1. <<>> \in Seq(1..LastEvent)
  OBVIOUS
<1> QED
  BY <1>1 DEF Cold, Entry

LEMMA EmptyPrefix == Prefix(0) = <<>>
BY DEF Prefix

\* The tail read from a cursor continues the prefix that ends at the cursor.
LEMMA TailContinuesPrefix ==
  ASSUME NEW n \in Nat, NEW m \in 0..LastEvent, n <= m
  PROVE  /\ Prefix(n) \o TailOf(n, m) = Prefix(m)
         /\ n + Len(TailOf(n, m)) = m
<1> USE ControlPlaneAssumption DEF Prefix, TailOf
<1>1. Len(Prefix(n)) = n /\ Len(TailOf(n, m)) = m - n
  OBVIOUS
<1>2. Prefix(n) \in Seq(Nat) /\ TailOf(n, m) \in Seq(Nat) /\ Prefix(m) \in Seq(Nat)
  OBVIOUS
<1>3. Len(Prefix(n) \o TailOf(n, m)) = m /\ Prefix(n) \o TailOf(n, m) \in Seq(Nat)
  BY <1>1, <1>2
<1>4. ASSUME NEW i \in 1..m
      PROVE  (Prefix(n) \o TailOf(n, m))[i] = Prefix(m)[i]
  BY <1>1, <1>2
<1> QED
  BY <1>1, <1>2, <1>3, <1>4

-----------------------------------------------------------------------------
(* The event loop keeps the invariant *)

LEMMA InitInv == Init => IInv
<1> SUFFICES ASSUME Init PROVE IInv
  OBVIOUS
<1> USE ControlPlaneAssumption DEF Init, Idle
<1>1. <<>> \in Seq(1..LastEvent)
  OBVIOUS
<1>2. TypeOK
  <2>1. [c \in Clients |-> Idle] \in [Clients -> Local]
    BY ColdType DEF Local
  <2>2. view \in [Pollers -> Seq(1..LastEvent)]
    BY <1>1
  <2>3. cache \in Entry
    BY ColdType
  <2>4. supervisor \in [registered : BOOLEAN, task : BOOLEAN, ledger : BOOLEAN]
    OBVIOUS
  <2> HIDE DEF Idle
  <2>5. request \in [Clients -> Local]
    BY <2>1
  <2>6. /\ server = "up" /\ handler = "none" /\ task = "none"
        /\ appending = FALSE /\ tombstoned = FALSE /\ disturbed = FALSE
        /\ events \in 0..LastEvent /\ stops \in 0..MaxStops
    OBVIOUS
  <2> HIDE DEF Init
  <2> QED
    BY <2>2, <2>3, <2>4, <2>5, <2>6 DEF TypeOK, Local
<1>3. Owned /\ HandlesReleased /\ Answered /\ DeletedIsOver
  BY DEF Owned, HandlesReleased, Answered, DeletedIsOver
<1>4. CacheIsPrefix
  BY EmptyPrefix DEF CacheIsPrefix, Cold
<1>5. ReadsAlone
  BY DEF ReadsAlone, Folding, Clients
<1> QED
  BY <1>2, <1>3, <1>4, <1>5 DEF IInv

LEMMA StutterKeepsInv ==
  ASSUME IInv, UNCHANGED vars
  PROVE  IInv'
BY DEF IInv, TypeOK, Owned, HandlesReleased, Answered, DeletedIsOver,
       CacheIsPrefix, ReadsAlone, vars, runVars, viewVars

\* What a step that leaves the entry and the requests alone has to show.
LEMMA RunKeepsViews ==
  ASSUME IInv, UNCHANGED viewVars,
         events' \in 0..LastEvent, events' >= events
  PROVE  CacheIsPrefix' /\ ReadsAlone'
<1> USE DEF IInv, TypeOK, viewVars
<1>1. CacheIsPrefix'
  BY DEF CacheIsPrefix, Entry
<1>2. ReadsAlone'
  BY DEF ReadsAlone, Entry, Clients, Folding
<1> QED
  BY <1>1, <1>2

LEMMA LoopKeepsInv ==
  ASSUME IInv, Loop
  PROVE  IInv'
<1> USE ControlPlaneAssumption DEF IInv
<1>1. CASE Supervise
  <2> USE <1>1 DEF Supervise, Released, runVars, viewVars
  <2>1. TypeOK'
    BY DEF TypeOK
  <2>2. Owned' /\ HandlesReleased'
    BY DEF TypeOK, Owned, HandlesReleased
  <2>3. Answered' /\ DeletedIsOver'
    BY DEF TypeOK, Owned, Answered, DeletedIsOver
  <2>4. events' \in 0..LastEvent /\ events' >= events
    BY DEF TypeOK, Owned
  <2>5. CacheIsPrefix' /\ ReadsAlone'
    BY <2>4, RunKeepsViews
  <2> QED
    BY <2>1, <2>2, <2>3, <2>4, <2>5
<1>2. CASE RollBack
  <2> USE <1>2 DEF RollBack, Released, runVars, viewVars
  <2>1. TypeOK'
    BY DEF TypeOK
  <2>2. Owned' /\ HandlesReleased'
    BY DEF TypeOK, Owned, HandlesReleased
  <2>3. Answered' /\ DeletedIsOver'
    BY DEF TypeOK, Owned, Answered, DeletedIsOver
  <2>4. events' \in 0..LastEvent /\ events' >= events
    BY DEF TypeOK, Owned
  <2>5. CacheIsPrefix' /\ ReadsAlone'
    BY <2>4, RunKeepsViews
  <2> QED
    BY <2>1, <2>2, <2>3, <2>4, <2>5
<1>3. CASE StartTask
  <2> USE <1>3 DEF StartTask, Released, runVars, viewVars
  <2>1. TypeOK'
    BY DEF TypeOK
  <2>2. Owned' /\ HandlesReleased'
    BY DEF TypeOK, Owned, HandlesReleased
  <2>3. Answered' /\ DeletedIsOver'
    BY DEF TypeOK, Owned, Answered, DeletedIsOver
  <2>4. events' \in 0..LastEvent /\ events' >= events
    BY DEF TypeOK, Owned
  <2>5. CacheIsPrefix' /\ ReadsAlone'
    BY <2>4, RunKeepsViews
  <2> QED
    BY <2>1, <2>2, <2>3, <2>4, <2>5
<1>4. CASE FirstStep
  <2> USE <1>4 DEF FirstStep, Released, runVars, viewVars
  <2>1. TypeOK'
    BY DEF TypeOK
  <2>2. Owned' /\ HandlesReleased'
    BY DEF TypeOK, Owned, HandlesReleased
  <2>3. Answered' /\ DeletedIsOver'
    BY DEF TypeOK, Owned, Answered, DeletedIsOver
  <2>4. events' \in 0..LastEvent /\ events' >= events
    BY DEF TypeOK, Owned
  <2>5. CacheIsPrefix' /\ ReadsAlone'
    BY <2>4, RunKeepsViews
  <2> QED
    BY <2>1, <2>2, <2>3, <2>4, <2>5
<1>5. CASE BeginAppend
  <2> USE <1>5 DEF BeginAppend, Released, runVars, viewVars
  <2>1. TypeOK'
    BY DEF TypeOK
  <2>2. Owned' /\ HandlesReleased'
    BY DEF TypeOK, Owned, HandlesReleased
  <2>3. Answered' /\ DeletedIsOver'
    BY DEF TypeOK, Owned, Answered, DeletedIsOver
  <2>4. events' \in 0..LastEvent /\ events' >= events
    BY DEF TypeOK, Owned
  <2>5. CacheIsPrefix' /\ ReadsAlone'
    BY <2>4, RunKeepsViews
  <2> QED
    BY <2>1, <2>2, <2>3, <2>4, <2>5
<1>6. CASE EndAppend
  <2> USE <1>6 DEF EndAppend, Released, runVars, viewVars
  <2>1. TypeOK'
    <3>1. events' \in 0..LastEvent
      BY DEF TypeOK, Owned
    <3> QED
      BY <3>1, ZenonT(40) DEF TypeOK
  <2>2. Owned' /\ HandlesReleased'
    BY DEF TypeOK, Owned, HandlesReleased
  <2>3. Answered' /\ DeletedIsOver'
    BY DEF TypeOK, Owned, Answered, DeletedIsOver
  <2>4. events' \in 0..LastEvent /\ events' >= events
    BY DEF TypeOK, Owned
  <2>5. CacheIsPrefix' /\ ReadsAlone'
    BY <2>4, RunKeepsViews
  <2> QED
    BY <2>1, <2>2, <2>3, <2>4, <2>5
<1>7. CASE EndRun
  <2> USE <1>7 DEF EndRun, Released, runVars, viewVars
  <2>1. TypeOK'
    BY DEF TypeOK
  <2>2. Owned' /\ HandlesReleased'
    BY DEF TypeOK, Owned, HandlesReleased
  <2>3. Answered' /\ DeletedIsOver'
    BY DEF TypeOK, Owned, Answered, DeletedIsOver
  <2>4. events' \in 0..LastEvent /\ events' >= events
    BY DEF TypeOK, Owned
  <2>5. CacheIsPrefix' /\ ReadsAlone'
    BY <2>4, RunKeepsViews
  <2> QED
    BY <2>1, <2>2, <2>3, <2>4, <2>5
<1>8. CASE Stop
  <2> USE <1>8 DEF Stop, Released, runVars, viewVars
  <2>1. TypeOK'
    <3>1. disturbed' \in BOOLEAN
      BY Zenon
    <3>2. stops' \in 0..MaxStops
      BY DEF TypeOK
    <3>3. cache' \in Entry
      BY ColdType
    <3> QED
      BY <3>1, <3>2, <3>3 DEF TypeOK
  <2>2. Owned' /\ HandlesReleased'
    BY DEF TypeOK, Owned, HandlesReleased
  <2>3. Answered' /\ DeletedIsOver'
    BY DEF TypeOK, Owned, Answered, DeletedIsOver
  <2>4. CacheIsPrefix'
    BY EmptyPrefix DEF TypeOK, CacheIsPrefix, Cold
  <2>5. ReadsAlone'
    BY DEF ReadsAlone, Folding
  <2> QED
    BY <2>1, <2>2, <2>3, <2>4, <2>5
<1>9. CASE Shutdown
  <2> USE <1>9 DEF Shutdown, Released, runVars, viewVars
  <2>1. TypeOK'
    BY DEF TypeOK
  <2>2. Owned' /\ HandlesReleased'
    BY DEF TypeOK, Owned, HandlesReleased, LoopFree
  <2>3. Answered' /\ DeletedIsOver'
    BY DEF TypeOK, Owned, Answered, DeletedIsOver
  <2>4. events' \in 0..LastEvent /\ events' >= events
    BY DEF TypeOK, Owned
  <2>5. CacheIsPrefix' /\ ReadsAlone'
    BY <2>4, RunKeepsViews
  <2> QED
    BY <2>1, <2>2, <2>3, <2>4, <2>5
<1>10. CASE ReleaseAll
  <2> USE <1>10 DEF ReleaseAll, Released, runVars, viewVars
  <2>1. TypeOK'
    BY DEF TypeOK
  <2>2. Owned' /\ HandlesReleased'
    BY DEF TypeOK, Owned, HandlesReleased
  <2>3. Answered' /\ DeletedIsOver'
    BY DEF TypeOK, Owned, Answered, DeletedIsOver
  <2>4. events' \in 0..LastEvent /\ events' >= events
    BY DEF TypeOK, Owned
  <2>5. CacheIsPrefix' /\ ReadsAlone'
    BY <2>4, RunKeepsViews
  <2> QED
    BY <2>1, <2>2, <2>3, <2>4, <2>5
<1> QED
  BY <1>1, <1>2, <1>3, <1>4, <1>5, <1>6, <1>7, <1>8, <1>9, <1>10 DEF Loop

-----------------------------------------------------------------------------
(* The handlers' threads keep the invariant *)

\* What a step of one request that leaves the run alone has to show: the types of
\* what it sets, and that it finds the run inactive only when it is over.
LEMMA RequestKeepsRun ==
  ASSUME IInv, NEW c \in Clients, NEW r \in Local,
         request[c].pc # "idle" \/ (server = "up" /\ handler = "started"),
         request' = [request EXCEPT ![c] = r],
         r.pc = "inactive" => task = "done",
         UNCHANGED <<runVars, stops>>,
         tombstoned' \in BOOLEAN, tombstoned' => task = "done",
         cache' \in Entry, disturbed' \in BOOLEAN,
         view' \in [Pollers -> Seq(1..LastEvent)]
  PROVE  TypeOK' /\ Owned' /\ HandlesReleased' /\ Answered' /\ DeletedIsOver'
<1> USE DEF IInv, runVars
<1>1. request \in [Clients -> Local] /\ request' \in [Clients -> Local]
  BY DEF TypeOK, Local
<1>2. TypeOK'
  BY <1>1 DEF TypeOK, Local
<1>3. Owned' /\ HandlesReleased'
  BY DEF Owned, HandlesReleased
<1>4. Answered'
  BY <1>1 DEF Answered
<1>5. DeletedIsOver'
  BY DEF DeletedIsOver
<1> QED
  BY <1>2, <1>3, <1>4, <1>5

\* A step of a request that does not read the entry, or no longer does.
LEMMA AwayFromEntry ==
  ASSUME IInv, NEW c \in Clients, NEW r \in Local,
         request' = [request EXCEPT ![c] = r], r.pc \notin Folding,
         UNCHANGED <<events, cache, disturbed>>
  PROVE  CacheIsPrefix' /\ ReadsAlone'
<1> USE DEF IInv
<1>1. request \in [Clients -> Local] /\ Pollers \subseteq Clients
  BY DEF TypeOK, Local, Clients
<1>2. CacheIsPrefix'
  BY DEF CacheIsPrefix
<1>3. \A p \in Pollers : request'[p].pc \in Folding => request'[p] = request[p]
  BY <1>1
<1>4. ReadsAlone'
  BY <1>1, <1>3 DEF ReadsAlone, Folding
<1> QED
  BY <1>2, <1>4

\* The two together, for a step that changes neither the entry nor what is
\* concluded from it.
LEMMA RoutingKeepsInv ==
  ASSUME IInv, NEW c \in Clients, NEW r \in Local,
         request[c].pc # "idle" \/ (server = "up" /\ handler = "started"),
         request' = [request EXCEPT ![c] = r], r.pc \notin Folding,
         r.pc = "inactive" => task = "done",
         UNCHANGED <<runVars, stops, cache, disturbed>>,
         tombstoned' \in BOOLEAN, tombstoned' => task = "done",
         view' \in [Pollers -> Seq(1..LastEvent)]
  PROVE  IInv'
<1>1. cache' \in Entry /\ disturbed' \in BOOLEAN
  BY DEF IInv, TypeOK
<1>2. TypeOK' /\ Owned' /\ HandlesReleased' /\ Answered' /\ DeletedIsOver'
  BY <1>1, RequestKeepsRun
<1>3. CacheIsPrefix' /\ ReadsAlone'
  BY AwayFromEntry DEF runVars
<1> QED
  BY <1>2, <1>3 DEF IInv

LEMMA IdleType == Idle \in Local /\ Idle.pc = "idle"
BY ColdType, ControlPlaneAssumption DEF Idle, Local

LEMMA StoreType ==
  ASSUME NEW e \in Entry
  PROVE  LET r == [Idle EXCEPT !.pc = "store", !.entry = e]
         IN  r \in Local /\ r.pc = "store" /\ r.entry = e
BY IdleType DEF Local, Folding

\* is_active, its answers, and the requests that end without reading the entry.
LEMMA AnswersKeepInv ==
  ASSUME IInv, NEW c \in Clients,
         \/ Receive(c) \/ Peek(c) \/ Check(c)
         \/ RefuseDelete(c) \/ Delete(c)
         \/ c \in Pollers /\ Replay(c)
  PROVE  IInv'
<1>1. request[c] \in Local
  BY DEF IInv, TypeOK, Local
<1>2. /\ tombstoned \in BOOLEAN /\ (tombstoned => task = "done")
      /\ view \in [Pollers -> Seq(1..LastEvent)]
      /\ events \in 0..LastEvent
  BY DEF IInv, TypeOK, DeletedIsOver
<1>3. ASSUME NEW pc \in {"peek", "check", "inactive", "active"}
      PROVE  LET r == [request[c] EXCEPT !.pc = pc]
             IN  r \in Local /\ r.pc = pc /\ pc \notin Folding
  BY <1>1 DEF Local, Folding
<1> USE DEF Folding
<1>4. CASE Receive(c)
  BY <1>2, <1>3, <1>4, RoutingKeepsInv DEF Receive, GoTo, At
<1>5. CASE Peek(c)
  <2>1. ~(supervisor.registered /\ supervisor.task) => task = "done"
    BY <1>5 DEF Peek, At, IInv, TypeOK, Answered, Owned
  <2>2. PICK pc \in {"check", "inactive"} :
          /\ request' = [request EXCEPT ![c] = [request[c] EXCEPT !.pc = pc]]
          /\ pc = "inactive" => task = "done"
    BY <1>5, <2>1 DEF Peek, GoTo
  <2> QED
    BY <1>2, <1>3, <1>5, <2>2, RoutingKeepsInv DEF Peek, At
<1>6. CASE Check(c)
  <2>1. CASE Finish(c)
    BY <1>2, <1>6, <2>1, IdleType, RoutingKeepsInv DEF Check, At, Finish
  <2>2. CASE GoTo(c, IF Unfinished THEN "active" ELSE "inactive")
    <3>1. PICK pc \in {"active", "inactive"} :
            /\ request' = [request EXCEPT ![c] = [request[c] EXCEPT !.pc = pc]]
            /\ pc = "inactive" => task = "done"
      BY <2>2 DEF GoTo, Unfinished
    <3> QED
      BY <1>2, <1>3, <1>6, <3>1, RoutingKeepsInv DEF Check, At
  <2> QED
    BY <1>6, <2>1, <2>2 DEF Check
<1>7. CASE RefuseDelete(c)
  BY <1>2, <1>7, IdleType, RoutingKeepsInv DEF RefuseDelete, At, Finish
<1>8. CASE Delete(c)
  <2>1. task = "done"
    BY <1>8 DEF Delete, At, IInv, Answered
  <2>2. tombstoned' \in BOOLEAN
    BY <1>2, <1>8, Zenon DEF Delete
  <2> QED
    BY <1>2, <1>8, <2>1, <2>2, IdleType, RoutingKeepsInv DEF Delete, At, Finish
<1>9. CASE c \in Pollers /\ Replay(c)
  <2>1. view' \in [Pollers -> Seq(1..LastEvent)]
    BY <1>2, <1>9, PrefixType DEF Replay
  <2> QED
    BY <1>2, <1>9, <2>1, IdleType, RoutingKeepsInv DEF Replay, At, Finish
<1> QED
  BY <1>4, <1>5, <1>6, <1>7, <1>8, <1>9

\* get_run reads the cursor: nobody else is between his read and his store, or
\* the read is disturbed.
LEMMA ReadCursorKeepsInv ==
  ASSUME IInv, NEW p \in Pollers, ReadCursor(p)
  PROVE  IInv'
<1> DEFINE r == [request[p] EXCEPT !.pc = "read", !.since = Cursor]
<1> USE DEF IInv
<1>1. p \in Clients /\ request \in [Clients -> Local] /\ Pollers \subseteq Clients
  BY DEF TypeOK, Local, Clients
<1>2. /\ r \in Local /\ r.pc = "read" /\ r.since = cache.cursor
      /\ request' = [request EXCEPT ![p] = r] /\ request[p].pc = "active"
  BY <1>1 DEF TypeOK, Entry, Local, Folding, Cursor, ReadCursor, At
<1>3. disturbed' \in BOOLEAN
  BY Zenon DEF ReadCursor
<1>4. /\ UNCHANGED <<runVars, stops, tombstoned, cache, view>>
      /\ cache \in Entry /\ tombstoned \in BOOLEAN /\ (tombstoned => task = "done")
      /\ view \in [Pollers -> Seq(1..LastEvent)]
  BY DEF ReadCursor, TypeOK, DeletedIsOver
<1>5. TypeOK' /\ Owned' /\ HandlesReleased' /\ Answered' /\ DeletedIsOver'
  <2> HIDE DEF r, IInv
  <2> QED
    BY <1>1, <1>2, <1>3, <1>4, RequestKeepsRun
<1>6. ~disturbed' => ~disturbed /\ \A q \in Pollers \ {p} : request[q].pc \notin Folding
  BY DEF ReadCursor
<1>7. \A q \in Pollers : request'[q] = IF q = p THEN r ELSE request[q]
  BY <1>1, <1>2
<1> HIDE DEF r
<1>8. CacheIsPrefix'
  BY <1>4, <1>6 DEF CacheIsPrefix, runVars
<1>9. ReadsAlone'
  BY <1>2, <1>4, <1>6, <1>7 DEF ReadsAlone, Folding
<1> QED
  BY <1>5, <1>8, <1>9

\* The tail ends no later than the ledger does.
LEMMA ReadTailKeepsInv ==
  ASSUME IInv, NEW p \in Pollers, ReadTail(p)
  PROVE  IInv'
<1> DEFINE r == [request[p] EXCEPT !.pc = "project", !.last = PageEnd(request[p].since)]
<1> USE DEF IInv
<1>1. p \in Clients /\ request \in [Clients -> Local] /\ Pollers \subseteq Clients
  BY DEF TypeOK, Local, Clients
<1>2. /\ request[p].since \in Nat /\ events \in 0..LastEvent
      /\ request[p].pc = "read"
  BY <1>1 DEF TypeOK, Local, ReadTail, At
<1>3. /\ PageEnd(request[p].since) \in 0..LastEvent
      /\ PageEnd(request[p].since) <= events
      /\ request[p].since <= events => request[p].since <= PageEnd(request[p].since)
  BY <1>2, ControlPlaneAssumption DEF PageEnd
<1>4. /\ r \in Local /\ r.pc = "project" /\ r.since = request[p].since
      /\ r.last = PageEnd(request[p].since)
      /\ request' = [request EXCEPT ![p] = r]
  BY <1>1, <1>3 DEF Local, Folding, ReadTail
<1>5. /\ UNCHANGED <<runVars, stops, tombstoned, cache, view, disturbed>>
      /\ cache \in Entry /\ tombstoned \in BOOLEAN /\ (tombstoned => task = "done")
      /\ view \in [Pollers -> Seq(1..LastEvent)] /\ disturbed \in BOOLEAN
  BY DEF ReadTail, TypeOK, DeletedIsOver
<1>6. TypeOK' /\ Owned' /\ HandlesReleased' /\ Answered' /\ DeletedIsOver'
  <2> HIDE DEF r, IInv
  <2> QED
    BY <1>1, <1>2, <1>4, <1>5, RequestKeepsRun
<1>7. \A q \in Pollers : request'[q] = IF q = p THEN r ELSE request[q]
  BY <1>1, <1>4
<1> HIDE DEF r
<1>8. CacheIsPrefix'
  BY <1>5 DEF CacheIsPrefix, runVars
<1>9. ReadsAlone'
  BY <1>2, <1>3, <1>4, <1>5, <1>7 DEF ReadsAlone, CacheIsPrefix, Folding, runVars
<1> QED
  BY <1>6, <1>8, <1>9

\* An undisturbed fold continues the prefix it is put on.
LEMMA ProjectKeepsInv ==
  ASSUME IInv, NEW p \in Pollers, Project(p)
  PROVE  IInv'
<1> DEFINE tail == TailOf(request[p].since, request[p].last)
           entry == [cursor |-> cache.cursor + Len(tail), folded |-> cache.folded \o tail]
           r == [Idle EXCEPT !.pc = "store", !.entry = entry]
<1> USE DEF IInv
<1>1. p \in Clients /\ request \in [Clients -> Local] /\ Pollers \subseteq Clients
  BY DEF TypeOK, Local, Clients
<1>2. /\ request[p].since \in Nat /\ request[p].last \in 0..LastEvent
      /\ request[p].pc = "project" /\ cache \in Entry
  BY <1>1 DEF TypeOK, Local, Project, At
<1>3. /\ UNCHANGED <<runVars, stops, tombstoned, cache, view, disturbed>>
      /\ tombstoned \in BOOLEAN /\ (tombstoned => task = "done")
      /\ view \in [Pollers -> Seq(1..LastEvent)] /\ disturbed \in BOOLEAN
  BY DEF Project, TypeOK, DeletedIsOver
<1>4. CASE Finish(p)
  <2> HIDE DEF IInv
  <2> QED
    BY <1>1, <1>2, <1>3, <1>4, IdleType, RoutingKeepsInv DEF Finish, Folding
<1>5. CASE request' = [request EXCEPT ![p] = r]
  <2>1. tail \in Seq(1..LastEvent) /\ Len(tail) \in Nat
    BY <1>2, TailType
  <2>2. cache.cursor \in Nat /\ cache.folded \in Seq(1..LastEvent)
    BY <1>2 DEF Entry
  <2>3. entry \in Entry
    <3> HIDE DEF tail
    <3>1. cache.folded \o tail \in Seq(1..LastEvent)
      BY <2>1, <2>2
    <3> QED
      BY <2>1, <2>2, <3>1 DEF Entry
  <2>4. /\ r \in Local /\ r.pc = "store" /\ r.entry = entry
    BY <2>3, StoreType
  <2>5. TypeOK' /\ Owned' /\ HandlesReleased' /\ Answered' /\ DeletedIsOver'
    <3> HIDE DEF r, IInv
    <3> QED
      BY <1>1, <1>2, <1>3, <1>5, <2>4, RequestKeepsRun
  <2>6. ~disturbed => entry.cursor <= events /\ entry.folded = Prefix(entry.cursor)
    <3> SUFFICES ASSUME ~disturbed
                 PROVE  entry.cursor <= events /\ entry.folded = Prefix(entry.cursor)
      OBVIOUS
    <3>1. /\ request[p].since = cache.cursor
          /\ request[p].since <= request[p].last /\ request[p].last <= events
      BY <1>2 DEF ReadsAlone
    <3>2. cache.folded = Prefix(request[p].since)
      BY <3>1 DEF CacheIsPrefix
    <3>3. /\ Prefix(request[p].since) \o tail = Prefix(request[p].last)
          /\ request[p].since + Len(tail) = request[p].last
      BY <1>2, <3>1, TailContinuesPrefix
    <3> HIDE DEF tail
    <3>4. entry.cursor = request[p].last /\ entry.folded = Prefix(request[p].last)
      BY <3>1, <3>2, <3>3
    <3> QED
      BY <3>1, <3>4
  <2>7. \A q \in Pollers : request'[q] = IF q = p THEN r ELSE request[q]
    BY <1>1, <1>5
  <2> HIDE DEF r, entry
  <2>8. CacheIsPrefix'
    BY <1>3 DEF CacheIsPrefix, runVars
  <2>9. ReadsAlone'
    BY <1>2, <1>3, <2>4, <2>6, <2>7 DEF ReadsAlone, Folding, runVars
  <2> QED
    BY <2>5, <2>8, <2>9
<1> QED
  BY <1>4, <1>5 DEF Project

\* Storing an undisturbed entry replaces one prefix by another.
LEMMA StoreEntryKeepsInv ==
  ASSUME IInv, NEW p \in Pollers, StoreEntry(p)
  PROVE  IInv'
<1> USE DEF IInv
<1>1. p \in Clients /\ request \in [Clients -> Local] /\ Pollers \subseteq Clients
  BY DEF TypeOK, Local, Clients
<1>2. /\ request[p].pc = "store" /\ request[p].entry \in Entry
      /\ request[p].entry.folded \in Seq(1..LastEvent)
      /\ request' = [request EXCEPT ![p] = Idle] /\ cache' = request[p].entry
      /\ UNCHANGED <<runVars, stops, tombstoned, disturbed>>
  BY <1>1 DEF Local, Entry, StoreEntry, At, Finish
<1>3. /\ tombstoned \in BOOLEAN /\ (tombstoned => task = "done")
      /\ view' \in [Pollers -> Seq(1..LastEvent)] /\ disturbed \in BOOLEAN
  BY <1>2 DEF StoreEntry, TypeOK, DeletedIsOver
<1>4. TypeOK' /\ Owned' /\ HandlesReleased' /\ Answered' /\ DeletedIsOver'
  <2> HIDE DEF IInv
  <2> QED
    BY <1>1, <1>2, <1>3, IdleType, RequestKeepsRun
<1>5. CacheIsPrefix'
  BY <1>2 DEF CacheIsPrefix, ReadsAlone, runVars
<1>6. ~disturbed => \A q \in Pollers : request'[q].pc \notin Folding
  BY <1>1, <1>2, IdleType DEF ReadsAlone, Folding
<1>7. ReadsAlone'
  BY <1>2, <1>6 DEF ReadsAlone, Folding
<1> QED
  BY <1>4, <1>5, <1>7

-----------------------------------------------------------------------------
(* Theorems *)

LEMMA StepKeepsInv == IInv /\ [Next]_vars => IInv'
<1> SUFFICES ASSUME IInv, [Next]_vars PROVE IInv'
  OBVIOUS
<1>1. CASE Loop
  BY <1>1, LoopKeepsInv
<1>2. CASE \E p \in Pollers : Receive(p) \/ View(p)
  <2>1. PICK p \in Pollers : Receive(p) \/ View(p)
    BY <1>2
  <2>2. CASE Receive(p) \/ Peek(p) \/ Check(p) \/ Replay(p)
    BY <2>2, AnswersKeepInv DEF Clients
  <2>3. CASE ReadCursor(p)
    BY <2>3, ReadCursorKeepsInv
  <2>4. CASE ReadTail(p)
    BY <2>4, ReadTailKeepsInv
  <2>5. CASE Project(p)
    BY <2>5, ProjectKeepsInv
  <2>6. CASE StoreEntry(p)
    BY <2>6, StoreEntryKeepsInv
  <2> QED
    BY <2>1, <2>2, <2>3, <2>4, <2>5, <2>6 DEF View
<1>3. CASE \E d \in Deleters : Dispose(d)
  BY <1>3, AnswersKeepInv DEF Dispose, Clients
<1>4. CASE UNCHANGED vars
  BY <1>4, StutterKeepsInv
<1> QED
  BY <1>1, <1>2, <1>3, <1>4 DEF Next, Down

LEMMA Invariance == Spec => []IInv
BY InitInv, StepKeepsInv, PTL DEF Spec

\* Type correctness.
THEOREM TypeCorrect == Spec => []TypeOK
BY Invariance, PTL DEF IInv

\* Whatever releases the run's ledger handle, no append finds it closed.
THEOREM AppendsFindLedger == Spec => []AppendsReachLedger
<1>1. IInv => AppendsReachLedger
  BY DEF IInv, Owned, AppendsReachLedger
<1> QED
  BY <1>1, Invariance, PTL

\* A run that ended, a start that was undone and a server that is down hold no
\* handle.
THEOREM HandlesAreReleased == Spec => []HandlesReleased
BY Invariance, PTL DEF IInv

\* However many deletions race with the start and the end of a run, the run they
\* hide is over.
THEOREM OnlyOverIsDeleted == Spec => []DeletedIsOver
BY Invariance, PTL DEF IInv

\* For any page size, any number of clients and stops: what nothing overlapped is
\* the projection of the events before the cursor.
THEOREM UndisturbedCacheIsPrefix == Spec => []CacheIsPrefix
BY Invariance, PTL DEF IInv
=============================================================================
