------------------------------- MODULE Worker --------------------------------
(***************************************************************************)
(* The model/tool loop of one cell (application/worker.py) over the        *)
(* attempts the cell runner makes of it: the conversation, its compaction, *)
(* the budgets of an attempt, the schema repair, the truncation fuse, the  *)
(* tool batches, the mutation lease, and the conversation carried to the   *)
(* next attempt in memory or through the checkpoint on disk.               *)
(*                                                                         *)
(* A message is its role and a number: the tool calls of an assistant turn, *)
(* the call a tool result answers, 0 for the objective and 1 for any later *)
(* user turn.  What it says is left out, and so is the elision note, which *)
(* rewrites the objective's text.  The loop runs alone between two awaits, *)
(* and nothing else touches its locals, so an action is a stretch of the   *)
(* loop up to the gateway call, or one batch of tools.                     *)
(***************************************************************************)
EXTENDS Integers, Sequences, FiniteSets, FiniteSetsExt

CONSTANTS
  Budgets,         \* the values cell.contract.budget may take
  SystemPrompt,    \* whether memory gave the cell a system prompt
  Size,            \* Size[r]: tokens a message of role r adds to a request
  Window,          \* profile.context_window_tokens
  MaxOutput,       \* profile.max_output_tokens
  MinRetained,     \* _MIN_RETAINED_SPANS
  MaxTruncations,  \* _MAX_CONSECUTIVE_TRUNCATIONS
  MaxParallel,     \* _MAX_PARALLEL_TOOL_CALLS
  ToolPlans,       \* bound: the tool calls one turn may ask for
  Usages,          \* bound: the provider's count over the estimate, and output
  MaxAttempts      \* bound: attempts at the cell, restarts included

NoLimit == -1      \* token_limit None

Roles == {"system", "user", "assistant", "tool"}

ASSUME WorkerAssumption ==
  /\ Budgets \subseteq [calls : Nat, rounds : Nat, tokens : Nat \cup {NoLimit},
                        wall : BOOLEAN, schema : BOOLEAN]
  /\ SystemPrompt \in BOOLEAN
  /\ Size \in [Roles -> Nat \ {0}]
  /\ Window \in Nat /\ MaxOutput \in Nat \ {0}
  /\ MinRetained \in Nat /\ MaxTruncations \in Nat \ {0}
  /\ MaxParallel \in Nat \ {0}
  /\ ToolPlans \subseteq Seq({"read", "write"}) \ {<<>>}
  /\ Usages \subseteq [over : Nat, out : Nat] /\ Usages # {}
  /\ MaxAttempts \in Nat

VARIABLES
  budget,      \* cell.contract.budget and whether the cell has a schema
  pc,          \* where the attempt is
  outcome,     \* the attempt's result: "ok" or its error_kind
  messages,    \* the conversation
  checkpoint,  \* the conversation on disk, <<>> for no file
  plan,        \* response.tool_calls of the round in progress
  answered,    \* how many of them have their result in the conversation
  calls,       \* acct.api_calls
  rounds,      \* acct.rounds
  spent,       \* acct.input_tokens + acct.output_tokens
  repaired,    \* schema_repair_attempted
  truncated,   \* truncated_turns
  lease,       \* is the workspace's lease the one mutation_lease names?
  attempts     \* attempts begun so far

tally == <<calls, rounds, spent, repaired, truncated>>
vars == <<budget, pc, outcome, messages, checkpoint, plan, answered, tally,
          lease, attempts>>

Failures == {"budget", "provider", "schema", "capability", "authentication",
             "configuration", "raised"}

ProviderKinds == {"provider", "capability", "authentication", "configuration"}

Message == [role : Roles, n : Nat]

TypeOK ==
  /\ budget \in Budgets
  /\ pc \in {"idle", "loop", "call", "tools", "returned", "over"}
  /\ outcome \in Failures \cup {"none", "ok"}
  /\ messages \in Seq(Message) /\ checkpoint \in Seq(Message)
  /\ plan \in ToolPlans \cup {<<>>}
  /\ answered \in 0..Len(plan)
  /\ calls \in Nat /\ rounds \in Nat /\ spent \in Nat
  /\ repaired \in BOOLEAN /\ truncated \in 0..MaxTruncations
  /\ lease \in BOOLEAN
  /\ attempts \in 0..MaxAttempts

Init ==
  /\ budget \in Budgets
  /\ pc = "idle" /\ outcome = "none"
  /\ messages = <<>> /\ checkpoint = <<>>
  /\ plan = <<>> /\ answered = 0
  /\ calls = 0 /\ rounds = 0 /\ spent = 0
  /\ repaired = FALSE /\ truncated = 0
  /\ lease = FALSE
  /\ attempts = 0

-----------------------------------------------------------------------------
(* The conversation *)

Turn(role, n) == [role |-> role, n |-> n]

Prompt ==
  (IF SystemPrompt THEN <<Turn("system", 0)>> ELSE <<>>) \o <<Turn("user", 0)>>

Nudge == Turn("user", 1)

\* What the messages of m at the places in kept weigh in a request.
Weight(m, kept) ==
  LET Tokens(role) == Size[role] * Cardinality({i \in kept : m[i].role = role})
  IN  Tokens("system") + Tokens("user") + Tokens("assistant") + Tokens("tool")

Estimate(m) == Weight(m, 1..Len(m))

\* Mutant of Pinned: only the system prompt is kept from eviction.
PinnedSystemOnly(m) ==
  Min({i \in 0..Len(m) : i = Len(m) \/ m[i + 1].role # "system"})

\* Length of the pinned prefix: the system messages, then the objective.
Pinned(m) ==
  LET systems == Min({i \in 0..Len(m) : i = Len(m) \/ m[i + 1].role # "system"})
  IN  IF systems < Len(m) /\ m[systems + 1].role = "user"
      THEN systems + 1 ELSE systems

\* Mutant of SpanStarts: every message is a span of its own.
SpanStartsAnywhere(m) == (Pinned(m) + 1)..Len(m)

\* Where the evictable spans start: a turn and the tool results answering it.
SpanStarts(m) ==
  LET first == Pinned(m) + 1
  IN  {i \in first..Len(m) : i = first \/ m[i].role # "tool"}

\* m with the spans that start before s gone.
EvictBefore(m, s) == SubSeq(m, 1, Pinned(m)) \o SubSeq(m, s, Len(m))

\* Above 78% of the window the oldest spans go, until 62% or MinRetained spans.
Compact(m) ==
  LET starts == SpanStarts(m)
      pinned == 1..Pinned(m)
      Enough(s) == \/ Weight(m, pinned \cup (s..Len(m))) * 100 <= Window * 62
                   \/ Cardinality({r \in starts : r >= s}) <= MinRetained
  IN  IF Estimate(m) * 100 <= Window * 78 THEN m
      ELSE EvictBefore(m, Min({s \in starts \cup {Len(m) + 1} : Enough(s)}))

-----------------------------------------------------------------------------
(* Tool batches *)

\* Does call i of a round open a batch?  A write runs alone and in place, reads
\* between two writes share batches of at most MaxParallel.
Starts(p, i) ==
  LET run == Max({j \in 1..i : j = 1 \/ p[j] = "write" \/ p[j - 1] = "write"})
  IN  (i - run) % MaxParallel = 0

\* Mutant of BatchEnd: the batch may end where the one before it did.
BatchEndOffByOne(p, k) ==
  Min({j \in k..Len(p) : j = Len(p) \/ Starts(p, j + 1)})

\* The last call of the batch that opens after the first k calls.
BatchEnd(p, k) ==
  Min({j \in (k + 1)..Len(p) : j = Len(p) \/ Starts(p, j + 1)})

Results(first, last) == [i \in 1..(last - first + 1) |-> Turn("tool", first + i - 1)]

-----------------------------------------------------------------------------
(* The attempt *)

Begin(conversation) ==
  /\ attempts < MaxAttempts
  /\ attempts' = attempts + 1
  /\ messages' = IF conversation = <<>> THEN Prompt ELSE conversation
  /\ calls' = 0 /\ rounds' = 0 /\ spent' = 0
  /\ repaired' = FALSE /\ truncated' = 0
  /\ lease' = FALSE
  /\ pc' = "loop" /\ outcome' = "none"
  /\ plan' = <<>> /\ answered' = 0
  /\ UNCHANGED <<budget, checkpoint>>

\* run_cell's first attempt: an unreadable checkpoint is as good as none.
FirstAttempt ==
  /\ pc = "idle"
  /\ \E conversation \in {checkpoint, <<>>} : Begin(conversation)

\* The failures whose ladder retries or reroutes.
Retried == {"provider", "schema", "capability", "raised"}

\* result.messages; an attempt that raised left no result.
Carried == IF outcome = "raised" THEN <<>> ELSE messages

Retry == pc = "returned" /\ outcome \in Retried /\ Begin(Carried)

\* run_cell returns; the cell's success removes its checkpoint.
Finish ==
  /\ pc = "returned"
  /\ pc' = "over"
  /\ checkpoint' = IF outcome = "ok" THEN <<>> ELSE checkpoint
  /\ UNCHANGED <<budget, outcome, messages, plan, answered, tally, lease, attempts>>

\* The process dies, or the failed run is resumed: the disk is what is left.
Restart ==
  /\ ~(pc = "over" /\ outcome = "ok") /\ pc # "idle"
  /\ attempts < MaxAttempts
  /\ pc' = "idle" /\ outcome' = "none"
  /\ messages' = <<>> /\ plan' = <<>> /\ answered' = 0
  /\ calls' = 0 /\ rounds' = 0 /\ spent' = 0
  /\ repaired' = FALSE /\ truncated' = 0
  /\ lease' = FALSE
  /\ UNCHANGED <<budget, checkpoint, attempts>>

\* The finally block: release_lease(mutation_lease) frees the lease it names.
Release(kind) == lease' = FALSE

\* The attempt returns, or raises; text # "" is appended when append_final says so.
Return(kind, conversation) ==
  /\ pc' = "returned" /\ outcome' = kind
  /\ messages' = conversation
  /\ Release(kind)
  /\ UNCHANGED <<budget, checkpoint, attempts>>

Keep == UNCHANGED <<plan, answered, tally>>

-----------------------------------------------------------------------------
(* The top of the loop *)

Reached(limit, count) == limit > 0 /\ count >= limit

\* Mutant of Available: the input of the next request is not set aside.
AvailableForAll(m) ==
  IF budget.tokens = NoLimit THEN MaxOutput ELSE budget.tokens - spent

\* What the token limit leaves for the next response, the whole cap without one.
Available(m) ==
  IF budget.tokens = NoLimit THEN MaxOutput
  ELSE budget.tokens - spent - Estimate(m)

\* max_calls and max_tool_rounds, 0 for no limit.
Exhausted == Reached(budget.calls, calls) \/ Reached(budget.rounds, rounds)

\* gateway.profile(name) refuses before there is a conversation.
NoProfile ==
  /\ pc = "loop" /\ calls = 0
  /\ Return("configuration", <<>>)
  /\ Keep

OutOfWallTime ==
  /\ pc = "loop" /\ budget.wall
  /\ Return("budget", messages)
  /\ Keep

OutOfBudget ==
  /\ pc = "loop" /\ Exhausted
  /\ Return("budget", messages)
  /\ Keep

OutOfTokens ==
  /\ pc = "loop" /\ ~Exhausted /\ budget.tokens # NoLimit
  /\ LET fitted == Compact(messages)
     IN  Available(fitted) <= 0 /\ Return("budget", fitted)
  /\ Keep

\* Compaction, the token check, record_attempt, the gateway call.
StartCall ==
  /\ pc = "loop" /\ ~Exhausted
  /\ LET fitted == Compact(messages)
     IN  Available(fitted) > 0 /\ messages' = fitted
  /\ pc' = "call"
  /\ calls' = calls + 1
  /\ UNCHANGED <<budget, outcome, checkpoint, plan, answered, rounds, spent,
                 repaired, truncated, lease, attempts>>

-----------------------------------------------------------------------------
(* The response *)

CallTimesOut ==
  /\ pc = "call" /\ budget.wall
  /\ Return("budget", messages)
  /\ Keep

\* A ProviderError returns its kind; anything else leaves run() as it is.
CallFails ==
  /\ pc = "call"
  /\ \E kind \in ProviderKinds \cup {"raised"} : Return(kind, messages)
  /\ Keep

\* record_call: the input as the provider counts it, the output it was allowed.
Cost(u) == Estimate(messages) + u.over + Min({u.out, Available(messages), MaxOutput})

\* Counted only where there is a limit to compare it with.
Answer(u) ==
  /\ pc = "call"
  /\ spent' = IF budget.tokens = NoLimit THEN spent ELSE spent + Cost(u)

\* A response's text: empty, or with a schema valid, null or invalid JSON; without
\* one "valid" is any text that is not empty.
WithFinal(text) ==
  IF text = "empty" THEN messages ELSE Append(messages, Turn("assistant", 0))

OutOfCalls == Reached(budget.calls, calls)

\* The text does not parse, or does not fit the schema: the one repair.
Repair(u, text) ==
  /\ Answer(u) /\ budget.schema
  /\ text \in {"invalid", "empty"} /\ ~repaired /\ ~OutOfCalls
  /\ repaired' = TRUE
  /\ messages' = Append(Append(messages, Turn("assistant", 0)), Nudge)
  /\ pc' = "loop"
  /\ UNCHANGED <<budget, outcome, checkpoint, plan, answered, calls, rounds,
                 truncated, lease, attempts>>

\* JSON null parses and may fit, but counts as no output and is not repaired.
SchemaFailure(u, text) ==
  /\ Answer(u) /\ budget.schema
  /\ text = "null" \/ (text \in {"invalid", "empty"} /\ (repaired \/ OutOfCalls))
  /\ Return("schema", WithFinal(text))
  /\ UNCHANGED <<plan, answered, calls, rounds, repaired, truncated>>

\* A final answer; with a schema, one that parses to an object that fits.  JSON
\* that fits but is no object makes the WorkerResult raise.
Final(u, text) ==
  /\ Answer(u) /\ (budget.schema => text = "valid")
  /\ \E kind \in IF budget.schema THEN {"ok", "raised"} ELSE {"ok"} :
       Return(kind, WithFinal(text))
  /\ UNCHANGED <<plan, answered, calls, rounds, repaired, truncated>>

\* Mutant of Fuse: a truncated turn is only counted when it said something.
FuseOnText(text) ==
  truncated' = IF text = "empty" THEN truncated ELSE truncated + 1

Fuse(text) == truncated' = truncated + 1

\* max_tokens without a tool call: the third in a row fails the attempt.
Truncated(u, text) ==
  /\ Answer(u) /\ ~budget.schema
  /\ Fuse(text)
  /\ IF OutOfCalls \/ truncated' >= MaxTruncations
     THEN Return("provider", WithFinal(text))
     ELSE /\ messages' = Append(WithFinal(text), Nudge)
          /\ pc' = "loop"
          /\ UNCHANGED <<budget, outcome, checkpoint, lease, attempts>>
  /\ UNCHANGED <<plan, answered, calls, rounds, repaired>>

\* Tool calls: the assistant turn joins the conversation, the fuse is reset.
Calls(u, p) ==
  /\ Answer(u)
  /\ plan' = p /\ answered' = 0
  /\ truncated' = 0
  /\ messages' = Append(messages, Turn("assistant", Len(p)))
  /\ pc' = "tools"
  /\ UNCHANGED <<budget, outcome, checkpoint, calls, rounds, repaired, lease,
                 attempts>>

-----------------------------------------------------------------------------
(* The tools *)

\* acquire_lease before each write: the live lease, every worker being the same
\* owner, or a new one when there is none or it has expired.
Acquire(write) == lease' = (lease \/ write)

\* One batch: its results, in the order of the calls.
RunBatch ==
  /\ pc = "tools" /\ answered < Len(plan)
  /\ LET last == BatchEnd(plan, answered)
     IN  /\ messages' = messages \o Results(answered + 1, last)
         /\ answered' = last
  /\ Acquire(plan[answered + 1] = "write")
  /\ UNCHANGED <<budget, pc, outcome, checkpoint, plan, tally, attempts>>

\* The wall time runs out on a batch: what it did stays done, its results are
\* dropped.  A lease it took by then goes back with the one held before.
BatchTimesOut ==
  /\ pc = "tools" /\ answered < Len(plan) /\ budget.wall
  /\ Return("budget", messages)
  /\ Keep

\* on_checkpoint: a write that fails is swallowed.
Checkpoint == checkpoint' \in {messages, checkpoint}

EndRound ==
  /\ pc = "tools" /\ answered = Len(plan)
  /\ rounds' = rounds + 1
  /\ Checkpoint
  /\ plan' = <<>> /\ answered' = 0
  /\ pc' = "loop"
  /\ UNCHANGED <<budget, outcome, messages, calls, spent, repaired, truncated,
                 lease, attempts>>

\* A worker of another cell, being the same owner, gives back the lease they
\* share, or takes a new one when it has expired.
Sibling ==
  /\ lease
  /\ lease' = FALSE
  /\ UNCHANGED <<budget, pc, outcome, messages, checkpoint, plan, answered,
                 tally, attempts>>

-----------------------------------------------------------------------------
Respond ==
  \E u \in Usages :
    \/ \E text \in {"invalid", "empty"} : Repair(u, text)
    \/ \E text \in {"null", "invalid", "empty"} : SchemaFailure(u, text)
    \/ \E text \in {"valid", "empty"} : Final(u, text)
    \/ \E text \in {"valid", "empty"} : Truncated(u, text)
    \/ \E p \in ToolPlans : Calls(u, p)

\* What the attempt itself does, the provider's answers included.
Attempt ==
  \/ NoProfile \/ OutOfWallTime \/ OutOfBudget \/ OutOfTokens \/ StartCall
  \/ CallTimesOut \/ CallFails \/ Respond
  \/ RunBatch \/ BatchTimesOut \/ EndRound

Next == FirstAttempt \/ Retry \/ Finish \/ Restart \/ Attempt \/ Sibling

\* The loop is never left alone: the gateway's own timeouts end every call, and
\* a tool runs to its end.
Spec == Init /\ [][Next]_vars /\ WF_vars(Attempt)

-----------------------------------------------------------------------------
(* Properties *)

\* The request of every call pairs tool calls and results: behind an assistant
\* turn come the results of all its calls, in order, and no result stands
\* anywhere else -- whatever was evicted, carried or read back from disk.
Paired(m) ==
  /\ \A i \in 1..Len(m) : m[i].role = "assistant" =>
       \A k \in 1..m[i].n : i + k <= Len(m) /\ m[i + k] = Turn("tool", k)
  /\ \A i \in 1..Len(m) : m[i].role = "tool" =>
       m[i].n < i /\ m[i - m[i].n].role = "assistant" /\ m[i].n <= m[i - m[i].n].n

RequestsPaired == pc = "call" => Paired(messages)

\* The system prompt and the objective head every request, once.
ObjectiveKept ==
  pc = "call" =>
    /\ SubSeq(messages, 1, Len(Prompt)) = Prompt
    /\ \A i \in (Len(Prompt) + 1)..Len(messages) :
         messages[i] # Turn("user", 0) /\ messages[i].role # "system"

\* max_calls and max_tool_rounds are never passed; the token limit is passed at
\* most by what the provider counts over the estimate of a single call.
BudgetsHold ==
  /\ budget.calls > 0 => calls <= budget.calls
  /\ budget.rounds > 0 => rounds <= budget.rounds
  /\ budget.tokens # NoLimit =>
       \E u \in Usages : spent <= budget.tokens + u.over

\* A write runs alone, and no batch is larger than the cap.
BatchesRespectWrites ==
  pc = "tools" /\ answered < Len(plan) =>
    LET batch == (answered + 1)..BatchEnd(plan, answered)
    IN  /\ Cardinality(batch) <= MaxParallel
        /\ (\E k \in batch : plan[k] = "write") => Cardinality(batch) = 1

\* Between two tool rounds an attempt makes few calls, so that a limit on rounds
\* bounds the calls too: the fuse ends a row of truncated turns, and there is one
\* repair.
FuseBoundsCalls == calls <= MaxTruncations * (rounds + 1) + 1

\* With any one of the three limits set, every attempt ends: truncations and
\* repairs cannot keep a loop going that uses up no round.
EveryAttemptEnds ==
  pc = "loop" ~> pc \in {"returned", "idle"}
=============================================================================
