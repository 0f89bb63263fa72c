------------------------------- MODULE Gateway -------------------------------
(***************************************************************************)
(* ModelGateway and ModelLimiter (adapters/providers/gateway.py): calls of *)
(* one profile share a semaphore and a rolling window of reservations; a   *)
(* call posts its request, retries what is transient, and reads the answer *)
(* whole or frame by frame.  A call may be cancelled at any await.         *)
(*                                                                         *)
(* Reservations are numbered as they are made.  Time is kept as ages: that *)
(* of a reservation made at t is now - t, up to the window, where it no    *)
(* longer matters; a sleep is the time it has left.  A request's body      *)
(* follows from its profile and its call: only requests are counted.       *)
(***************************************************************************)
EXTENDS Wire, FiniteSetsExt

CONSTANTS
  Calls,           \* the callers of the gateway, one call each at a time
  Profiles,        \* the profiles to try: protocol, capabilities, flags
  Window,          \* the 60 seconds of the rolling window, in ticks
  Backoff,         \* profile.transport_retry_backoff_seconds, in ticks
  RequestOf,       \* RequestOf[c]: the request of call c
  Answers,         \* what the provider may answer
  MaxCalls         \* bound: calls made in all

Profile == [protocol : Protocols, streaming : BOOLEAN, strict : BOOLEAN,
            retries : Nat, key : BOOLEAN, vision : BOOLEAN, tools : BOOLEAN,
            schema : BOOLEAN, concurrency : Nat \ {0}, rpm : Nat \ {0}]

\* What a provider may answer: its blocks, why it stopped, and what it cost.
Answer == [blocks : Seq([kind : {"text", "thought", "call"}, text : STRING, id : STRING,
                         name : STRING, args : Seq(STRING)]),
           why    : {"done", "calls", "cut"},
           cost   : {c \in [input : Nat, cached : Nat, output : Nat, thoughts : Nat] :
                       c.thoughts <= c.output}]

Request == [messages : Seq(Messages), system : BOOLEAN, tools : BOOLEAN, schema : BOOLEAN]

ASSUME GatewayAssumption ==
  /\ Profiles \subseteq Profile
  /\ \A c \in Calls : RequestOf[c] \in Request /\ Conversation(RequestOf[c].messages)
  /\ Answers \subseteq Answer
  /\ Window \in Nat \ {0}
  /\ Backoff \in Nat
  /\ MaxCalls \in Nat

VARIABLES
  profile,   \* the profile the calls name
  pc,        \* pc[c]: where call c is
  queue,     \* the calls waiting for the semaphore, first come first served
  holders,   \* the calls inside the semaphore
  ages,      \* ages[n]: the age of the n-th reservation
  times,     \* _request_times: the reservations it holds
  left,      \* left[c]: what is left of the sleep of call c
  made,      \* calls made so far
  posts,     \* posts[c]: requests call c has sent
  reply,     \* reply[c]: the answer of an open response, and the place in its stream
  parser,    \* parser[c]: the stream's parser
  deltas,    \* deltas[c]: the assembler of a stream
  result     \* result[c]: what the caller has

limiter == <<queue, holders, ages, times>>
reading == <<reply, parser, deltas>>
vars == <<profile, pc, queue, holders, ages, times, left, made, posts,
          reply, parser, deltas, result>>

Waiting == {"queued", "reserving", "asleep"}
Ended == {"returned", "failed", "cancelled"}
Pcs == {"idle", "posting", "backoff", "reading", "storing"} \cup Waiting \cup Ended

\* The typed errors, and what else a caller may get.
Errors == {"network", "http", "transient", "auth", "protocol", "json", "interrupted"}

NoReply == [open |-> FALSE, answer |-> None, at |-> Place(0, 0)]
NoResult == [error |-> None, answer |-> None, text |-> <<>>, calls |-> <<>>,
             finish |-> None, usage |-> NoUsage, stored |-> FALSE]

Init ==
  /\ profile \in Profiles
  /\ pc = [c \in Calls |-> "idle"]
  /\ queue = <<>> /\ holders = {} /\ ages = <<>> /\ times = {}
  /\ left = [c \in Calls |-> 0]
  /\ made = 0
  /\ posts = [c \in Calls |-> 0]
  /\ reply = [c \in Calls |-> NoReply]
  /\ parser = [c \in Calls |-> Parser]
  /\ deltas = [c \in Calls |-> Assembler]
  /\ result = [c \in Calls |-> NoResult]

-----------------------------------------------------------------------------
(* The limiter *)

\* The streaming path needs its key before it queues; complete() after.
Submit(c) ==
  /\ pc[c] \in {"idle"} \cup Ended /\ made < MaxCalls
  /\ made' = made + 1
  /\ posts' = [posts EXCEPT ![c] = 0]
  /\ IF profile.streaming /\ ~profile.key
     THEN /\ pc' = [pc EXCEPT ![c] = "failed"]
          /\ result' = [result EXCEPT ![c] = [NoResult EXCEPT !.error = "auth"]]
          /\ UNCHANGED queue
     ELSE /\ pc' = [pc EXCEPT ![c] = "queued"]
          /\ queue' = Append(queue, c)
          /\ result' = [result EXCEPT ![c] = NoResult]
  /\ UNCHANGED <<profile, holders, ages, times, left, reading>>

\* Mutant of CanEnter: one more than the profile allows.
CanEnterOneMore(c) ==
  queue # <<>> /\ Head(queue) = c /\ Cardinality(holders) <= profile.concurrency

\* asyncio.Semaphore serves its waiters in the order they came.
CanEnter(c) ==
  queue # <<>> /\ Head(queue) = c /\ Cardinality(holders) < profile.concurrency

Enter(c) ==
  /\ pc[c] = "queued" /\ CanEnter(c)
  /\ queue' = Tail(queue)
  /\ holders' = holders \cup {c}
  /\ pc' = [pc EXCEPT ![c] = "reserving"]
  /\ UNCHANGED <<profile, ages, times, left, made, posts, reading, result>>

\* Mutant of Recent: the window is pruned a tick early.
RecentEarly(slots) == {n \in slots : ages[n] < Window - 1}

\* The pruned list.
Recent(slots) == {n \in slots : ages[n] < Window}

\* One turn of _enforce_rpm: reserve, or sleep until the oldest one expires.
Reserve(c) ==
  /\ pc[c] = "reserving"
  /\ IF Cardinality(Recent(times)) < profile.rpm
     THEN /\ ages' = Append(ages, 0)
          /\ times' = Recent(times) \cup {Len(ages) + 1}
          /\ pc' = [pc EXCEPT ![c] = "posting"]
          /\ UNCHANGED left
     ELSE /\ times' = Recent(times)
          /\ \E oldest \in Recent(times) :
               /\ \A n \in Recent(times) : oldest <= n
               /\ left' = [left EXCEPT ![c] = Window - ages[oldest]]
          /\ pc' = [pc EXCEPT ![c] = "asleep"]
          /\ UNCHANGED ages
  /\ UNCHANGED <<profile, queue, holders, made, posts, reading, result>>

\* _enforce_rpm loops: the window is looked at again after the sleep.
Wake(c) ==
  /\ pc[c] = "asleep" /\ left[c] = 0
  /\ pc' = [pc EXCEPT ![c] = "reserving"]
  /\ UNCHANGED <<profile, limiter, left, made, posts, reading, result>>

\* Time passes.
Tick ==
  /\ ages' = [n \in DOMAIN ages |-> IF ages[n] < Window THEN ages[n] + 1 ELSE Window]
  /\ left' = [c \in Calls |-> IF left[c] > 0 THEN left[c] - 1 ELSE 0]
  /\ UNCHANGED <<profile, pc, queue, holders, times, made, posts, reading, result>>

-----------------------------------------------------------------------------
(* The request *)

\* The response of call c is closed, and its parser goes.
Drop(c) ==
  /\ reply' = [reply EXCEPT ![c] = NoReply]
  /\ parser' = [parser EXCEPT ![c] = Parser]
  /\ deltas' = [deltas EXCEPT ![c] = Assembler]

\* Call c leaves the semaphore, with whatever it held closed.
Leave(c) ==
  /\ holders' = holders \ {c}
  /\ Drop(c)

Fail(c, error) ==
  /\ pc' = [pc EXCEPT ![c] = "failed"]
  /\ result' = [result EXCEPT ![c].error = error]
  /\ Leave(c)

\* What a profile's provider answers, in frames and parsed.
Streams == [p \in Profiles |-> [a \in Answers |-> Stream(p.protocol, a)]]
Parsed == [p \in Profiles |-> [a \in Answers |->
             Parse(p.protocol, ReplyBody(p.protocol, a))]]

\* What the caller of a call gets from what was read.
Returned(answer, read) ==
  [NoResult EXCEPT !.answer = answer, !.text = read.text, !.calls = read.calls,
                   !.finish = read.finish, !.usage = read.usage]

Send(c) == posts' = [posts EXCEPT ![c] = @ + 1]

\* attempt < retries, for the request that has just been sent.
MayRetry(c) == posts[c] < profile.retries

\* complete() resolves the key inside the slot it has reserved.
KeyMissing(c) ==
  /\ pc[c] = "posting" /\ ~profile.key
  /\ Fail(c, "auth")
  /\ UNCHANGED <<profile, queue, ages, times, left, made, posts>>

\* A transport error or one of 429, 502, 503, 504: again after a backoff while
\* tries are left.  A response is closed before the sleep.
TransientReply(c, error) ==
  /\ pc[c] = "posting" /\ profile.key
  /\ Send(c)
  /\ IF MayRetry(c)
     THEN /\ pc' = [pc EXCEPT ![c] = "backoff"]
          /\ left' = [left EXCEPT ![c] = Backoff]
          /\ UNCHANGED <<holders, reading, result>>
     ELSE /\ Fail(c, error)
          /\ UNCHANGED left
  /\ UNCHANGED <<profile, queue, ages, times, made>>

Retry(c) ==
  /\ pc[c] = "backoff" /\ left[c] = 0
  /\ pc' = [pc EXCEPT ![c] = "posting"]
  /\ UNCHANGED <<profile, limiter, left, made, posts, reading, result>>

\* 401, any other status, or a body that is not JSON or has no answer (no choice, no
\* candidate, no content): the call fails.
RefusedReply(c, error) ==
  /\ pc[c] = "posting" /\ profile.key
  /\ error \in {"auth", "http"} \cup IF profile.streaming THEN {} ELSE {"json", "protocol"}
  /\ Send(c)
  /\ Fail(c, error)
  /\ UNCHANGED <<profile, queue, ages, times, left, made>>

\* complete(): the body is parsed in one go.
WholeReply(c, answer) ==
  LET parsed == Parsed[profile][answer]
  IN  /\ pc[c] = "posting" /\ profile.key /\ ~profile.streaming
      /\ Send(c)
      /\ IF parsed = Refused
         THEN Fail(c, "protocol")
         ELSE /\ pc' = [pc EXCEPT ![c] = "storing"]
              /\ result' = [result EXCEPT ![c] = Returned(answer, parsed)]
              /\ UNCHANGED <<holders, reading>>
      /\ UNCHANGED <<profile, queue, ages, times, left, made>>

-----------------------------------------------------------------------------
(* The stream *)

\* A response with status 200: its frames are read from here on.
OpenStream(c, answer) ==
  /\ pc[c] = "posting" /\ profile.key /\ profile.streaming
  /\ Send(c)
  /\ pc' = [pc EXCEPT ![c] = "reading"]
  /\ reply' = [reply EXCEPT ![c] =
       [open |-> TRUE, answer |-> answer, at |-> Opening(profile.protocol)]]
  /\ UNCHANGED <<profile, limiter, left, made, parser, deltas, result>>

Over(c) == reply[c].at = Ending(reply[c].answer)

ReadFrame(c) ==
  LET stream == Streams[profile][reply[c].answer]
      read   == Chunk(profile.protocol, parser[c], FrameAt(stream, reply[c].at))
  IN  /\ pc[c] = "reading" /\ ~parser[c].terminal /\ ~Over(c)
      /\ parser' = [parser EXCEPT ![c] = read.parser]
      /\ deltas' = [deltas EXCEPT ![c] = Assemble(@, read.deltas)]
      /\ reply' = [reply EXCEPT ![c].at = Onward(stream, @)]
      /\ UNCHANGED <<profile, pc, limiter, left, made, posts, result>>

\* The connection ends without an error before the last frame.
CutStream(c) ==
  /\ pc[c] = "reading" /\ ~parser[c].terminal /\ ~Over(c)
  /\ reply' = [reply EXCEPT ![c].at = Ending(reply[c].answer)]
  /\ UNCHANGED <<profile, pc, limiter, left, made, posts, parser, deltas, result>>

\* A broken connection, a malformed frame, a response that fails to close: the
\* call fails and its half-read answer is never asked for again.
BreakStream(c, error) ==
  /\ pc[c] = "reading"
  /\ error \in {"interrupted", "protocol"}
  /\ Fail(c, error)
  /\ UNCHANGED <<profile, queue, ages, times, left, made, posts>>

\* Mutant of Complete: an answer is whole when a finish code came.
CompleteWhenFinished(c) == parser[c].finish # None \/ ~profile.strict

\* _require_stream_terminal.
Complete(c) == parser[c].terminal \/ ~profile.strict

\* The end of the frames: the response is closed before the finish delta is
\* yielded, and the slot is given back before the answer is stored.
EndStream(c) ==
  /\ pc[c] = "reading" /\ (parser[c].terminal \/ Over(c))
  /\ IF Complete(c)
     THEN LET built == Build(Assemble(deltas[c], LastDeltas(profile.protocol, parser[c])))
          IN  /\ pc' = [pc EXCEPT ![c] = "storing"]
              /\ result' = [result EXCEPT ![c] = Returned(reply[c].answer, built)]
              /\ Leave(c)
     ELSE Fail(c, "protocol")
  /\ UNCHANGED <<profile, queue, ages, times, left, made, posts>>

\* _store_response_artifact: complete() stores inside its slot; a file that
\* cannot be written leaves the answer without its digest.
StoreAnswer(c, stored) ==
  /\ pc[c] = "storing"
  /\ pc' = [pc EXCEPT ![c] = "returned"]
  /\ result' = [result EXCEPT ![c].stored = stored]
  /\ holders' = holders \ {c}
  /\ UNCHANGED <<profile, queue, ages, times, left, made, posts, reading>>

\* Mutant of GiveBack: a cancelled call keeps its slot.
GiveBackNothing(c) == UNCHANGED holders

GiveBack(c) == holders' = holders \ {c}

\* A cancellation lands at an await: the semaphore, the sleep, the request, a
\* frame, or the file.  Both context managers run their exits.
Cancel(c) ==
  /\ pc[c] \in {"queued", "asleep", "posting", "backoff", "reading", "storing"}
  /\ pc' = [pc EXCEPT ![c] = "cancelled"]
  /\ queue' = RemoveFirst(queue, c)
  /\ GiveBack(c)
  /\ Drop(c)
  /\ result' = [result EXCEPT ![c] = NoResult]
  /\ left' = [left EXCEPT ![c] = 0]
  /\ UNCHANGED <<profile, ages, times, made, posts>>

-----------------------------------------------------------------------------

Replied(c) ==
  \/ KeyMissing(c)
  \/ \E error \in {"network", "transient"} : TransientReply(c, error)
  \/ \E error \in Errors : RefusedReply(c, error)
  \/ \E answer \in Answers : WholeReply(c, answer)
  \/ \E answer \in Answers : OpenStream(c, answer)

Streamed(c) ==
  \/ ReadFrame(c) \/ CutStream(c) \/ EndStream(c)
  \/ \E error \in Errors : BreakStream(c, error)

Limited(c) == Enter(c) \/ Reserve(c) \/ Wake(c) \/ Retry(c)

Stored(c) == \E stored \in BOOLEAN : StoreAnswer(c, stored)

Next ==
  \/ Tick
  \/ \E c \in Calls :
       Submit(c) \/ Limited(c) \/ Replied(c) \/ Streamed(c) \/ Stored(c) \/ Cancel(c)

\* The event loop runs what can run, time passes, and a request is answered or
\* fails: request_timeout_seconds bounds the wait for each read.  Nothing makes
\* a caller call.
Spec ==
  /\ Init /\ [][Next]_vars
  /\ WF_vars(Tick)
  /\ \A c \in Calls : WF_vars(Limited(c) \/ Replied(c) \/ Streamed(c) \/ Stored(c))

-----------------------------------------------------------------------------
(* Properties *)

TypeOK ==
  /\ profile \in Profiles
  /\ pc \in [Calls -> Pcs]
  /\ queue \in Seq(Calls) /\ holders \in SUBSET Calls
  /\ ages \in Seq(0..Window) /\ times \in SUBSET DOMAIN ages
  /\ left \in [Calls -> Nat] /\ posts \in [Calls -> Nat]

\* However callers come, sleep, fail and are cancelled, no window of Window
\* ticks sees more than profile.rpm reservations (ModelLimiter._enforce_rpm): the list
\* that is pruned never forgets one that still counts.
ReservationsWithinRpm ==
  Cardinality({n \in DOMAIN ages : ages[n] < Window}) <= profile.rpm

\* No more than profile.concurrency calls hold a slot; whoever has a request or a
\* stream in flight is one of them, and whoever has ended, in any way, holds
\* neither a slot, nor a place in the queue, nor an open response
\* (ModelLimiter.run, session, _yield_stream_response).
SlotsAreExact ==
  /\ Cardinality(holders) <= profile.concurrency
  /\ \A c \in Calls :
       /\ pc[c] \in {"reserving", "asleep", "posting", "backoff", "reading"}
            => c \in holders
       /\ reply[c].open => c \in holders /\ pc[c] = "reading"
       /\ pc[c] \in Ended => c \notin holders /\ c \notin Range(queue)

\* The one answer whose cost is dropped: Anthropic's, whole, cut before its first
\* block.
CostDropped(answer) ==
  profile.protocol = "anthropic" /\ ~profile.streaming /\ answer.blocks = <<>>

\* An answer returned by complete(), or by a stream under
\* strict_stream_completion, has all of the text and the calls of what the
\* provider said, however the frames were cut, and its cost too, unless complete()
\* read an answer of Anthropic's that was cut before its first block, whose usage
\* it drops (_require_stream_terminal, StreamAssembler, _parse_response).
AnswerIsWhole ==
  \A c \in Calls :
    LET got   == result[c]
        meant == Meant(got.answer)
    IN  pc[c] = "returned" /\ (profile.strict \/ ~profile.streaming)
          => /\ got.text = meant.text /\ got.calls = meant.calls
             /\ got.usage = meant.usage \/ CostDropped(got.answer)

\* A call sends no more requests than the profile's retries allow, and gives up
\* on a transient error only when it has sent that many (_execute_request,
\* _open_stream_with_retry).
RetriesAreExact ==
  \A c \in Calls :
    /\ posts[c] <= profile.retries + 1
    /\ pc[c] = "failed" /\ result[c].error \in {"network", "transient"}
         => posts[c] = profile.retries + 1

\* In the body of every request, whatever the protocol, the results of an
\* assistant's calls come right after it, one for each call, in its order
\* (_convert_messages).
WireAnswersCalls ==
  \A c \in Calls :
    pc[c] = "posting"
      => AnswersFollow(profile.protocol, Body(profile, RequestOf[c]).turns)

CallersStop == <>[][made' = made]_vars

\* Once no further calls come, every call that was made returns, fails or is cancelled:
\* nobody waits for ever for a slot, a frame, or a window that no newcomer fills.
\* While callers keep coming a sleeper is promised nothing, for _enforce_rpm does not
\* serve its sleepers in turn: whenever one wakes, a caller that came later may have
\* taken the place in the window.
EveryCallEnds ==
  CallersStop => \A c \in Calls : pc[c] = "queued" ~> pc[c] \in Ended

=============================================================================
