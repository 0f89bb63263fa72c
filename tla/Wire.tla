-------------------------------- MODULE Wire ---------------------------------
(***************************************************************************)
(* What the gateway says to a provider and how it reads the answer         *)
(* (adapters/providers/gateway.py, wire.py): a conversation converted to   *)
(* the turns of each protocol, a complete answer parsed in one go, and the *)
(* same answer read from the frames of a stream and assembled.             *)
(*                                                                         *)
(* Text is a sequence of pieces and a tool's arguments a sequence of       *)
(* fragments of JSON; what they say is left out.  The providers' encoders  *)
(* (ReplyBody, Stream) are outside the repository: they are written from   *)
(* the fields its parsers read.                                            *)
(***************************************************************************)
EXTENDS Integers, Sequences, FiniteSets, SequencesExt

Protocols == {"openai", "anthropic", "gemini"}

None == "none"

-----------------------------------------------------------------------------
(* A conversation, and the turns it becomes *)

\* A message: its role, whether it has text and images, the calls of an
\* assistant, and for a tool result the call it answers and whether it failed.
Message == [role |-> "user", text |-> TRUE, images |-> FALSE,
            calls |-> <<>>, answers |-> None, error |-> FALSE]

Messages == [role : {"system", "user", "assistant", "tool"}, text : BOOLEAN,
             images : BOOLEAN, calls : Seq([id : STRING, name : STRING]),
             answers : STRING, error : BOOLEAN]

Part(kind, id, name, error) ==
  [kind |-> kind, id |-> id, name |-> name, error |-> error]

Text == Part("text", None, None, FALSE)
Image == Part("image", None, None, FALSE)
CallPart(call) == Part("call", call.id, call.name, FALSE)
ResultPart(m) == Part("result", m.answers, None, m.error)

If(condition, parts) == IF condition THEN parts ELSE <<>>

Each(Op(_), s) == [i \in DOMAIN s |-> Op(s[i])]

Turn(role, parts) == [role |-> role, parts |-> parts]

\* The parts of a turn, or the blocks of an answer, that are of a kind.
OfKind(parts, kind) ==
  LET kept[n \in 0..Len(parts)] ==
        IF n = 0 THEN <<>>
        ELSE kept[n - 1] \o If(parts[n].kind = kind, <<parts[n]>>)
  IN  kept[Len(parts)]

\* The last turn, with a part more.
Joined(turns, part) == [turns EXCEPT ![Len(turns)].parts = Append(@, part)]

\* Images are stripped for a profile that cannot see.
Visible(profile, messages) ==
  IF profile.vision THEN messages
  ELSE [i \in DOMAIN messages |-> [messages[i] EXCEPT !.images = FALSE]]

\* Every message becomes one turn; a result names its call, and its text says
\* whether the call failed.
OpenAiTurn(m) ==
  IF m.role = "assistant" /\ m.calls # <<>>
  THEN Turn("assistant", If(m.text, <<Text>>) \o Each(CallPart, m.calls))
  ELSE IF m.role = "tool"
  THEN Turn("tool", <<ResultPart(m)>>)
  ELSE Turn(m.role, If(m.text, <<Text>>) \o If(m.images, <<Image>>))

OpenAiTurns(messages) == Each(OpenAiTurn, messages)

\* Mutant of AnthropicTurn: each tool result opens a user turn of its own.
AnthropicTurnApart(turns, m) ==
  IF m.role = "system" THEN turns
  ELSE IF m.role = "tool" THEN Append(turns, Turn("user", <<ResultPart(m)>>))
  ELSE Append(turns, Turn(m.role, If(m.text, <<Text>>) \o Each(CallPart, m.calls)))

\* A turn that is a list of blocks, as a turn of results or of images is and a turn of
\* plain text is not.
Listed(turn) == turn.role = "user" /\ turn.parts # <<Text>>

\* The turns, with a message more.  A result joins the user turn before it when that
\* turn is a list.
AnthropicTurn(turns, m) ==
  IF m.role = "system" THEN turns
  ELSE IF m.role = "tool" /\ turns # <<>> /\ Listed(Last(turns))
  THEN Joined(turns, ResultPart(m))
  ELSE IF m.role = "tool" THEN Append(turns, Turn("user", <<ResultPart(m)>>))
  ELSE IF m.role = "assistant" /\ m.calls # <<>>
  THEN Append(turns, Turn("assistant", If(m.text, <<Text>>) \o Each(CallPart, m.calls)))
  ELSE Append(turns, Turn(m.role, If(m.images, <<Image>>)
                                  \o If(m.text \/ ~m.images, <<Text>>)))

AnthropicTurns(messages) ==
  LET turns[n \in 0..Len(messages)] ==
        IF n = 0 THEN <<>> ELSE AnthropicTurn(turns[n - 1], messages[n])
  IN  turns[Len(messages)]

NameOf(names, id) == IF id \in DOMAIN names THEN names[id] ELSE id

\* The names of the calls so far, a later call's in place of an earlier one's.
Named(names, calls) ==
  LET Latest(id) == CHOOSE i \in DOMAIN calls :
                      /\ calls[i].id = id
                      /\ \A j \in DOMAIN calls : calls[j].id = id => j <= i
  IN  [id \in DOMAIN names \cup {calls[i].id : i \in DOMAIN calls} |->
         IF \E i \in DOMAIN calls : calls[i].id = id
         THEN calls[Latest(id)].name ELSE names[id]]

\* A result carries the name of its call, which the calls before it give, and
\* joins any user turn right before it.
GeminiTurn(acc, m) ==
  LET result == Part("result", None, NameOf(acc.names, m.answers), m.error)
      turns  == acc.turns
  IN  IF m.role = "system" THEN acc
      ELSE IF m.role = "tool" /\ turns # <<>> /\ Last(turns).role = "user"
      THEN [acc EXCEPT !.turns = Joined(@, result)]
      ELSE IF m.role = "tool"
      THEN [acc EXCEPT !.turns = Append(@, Turn("user", <<result>>))]
      ELSE [names |-> Named(acc.names, m.calls),
            turns |-> Append(turns,
              Turn(IF m.role = "assistant" THEN "model" ELSE "user",
                   If(m.text, <<Text>>) \o If(m.images, <<Image>>)
                   \o Each(CallPart, m.calls)))]

GeminiTurns(messages) ==
  LET acc[n \in 0..Len(messages)] ==
        IF n = 0 THEN [names |-> <<>>, turns |-> <<>>]
        ELSE GeminiTurn(acc[n - 1], messages[n])
  IN  acc[Len(messages)].turns

\* The body of a request: the turns, and what the capabilities let through of the rest.
Offered(profile, request, system, turns) ==
  [system |-> system, turns |-> turns,
   tools  |-> request.tools /\ profile.tools,
   schema |-> request.schema /\ profile.schema]

Hoisted(request) ==
  request.system \/ \E i \in DOMAIN request.messages : request.messages[i].role = "system"

\* _build_body of the three adapters: OpenAI's system prompt is a turn of its
\* own, the others hoist every system message out of the turns.
OpenAiBody(profile, request) ==
  Offered(profile, request, FALSE,
          If(request.system, <<Turn("system", <<Text>>)>>)
          \o OpenAiTurns(Visible(profile, request.messages)))

AnthropicBody(profile, request) ==
  Offered(profile, request, Hoisted(request),
          AnthropicTurns(Visible(profile, request.messages)))

GeminiBody(profile, request) ==
  Offered(profile, request, Hoisted(request),
          GeminiTurns(Visible(profile, request.messages)))

Body(profile, request) ==
  CASE profile.protocol = "openai" -> OpenAiBody(profile, request)
    [] profile.protocol = "anthropic" -> AnthropicBody(profile, request)
    [] profile.protocol = "gemini" -> GeminiBody(profile, request)

-----------------------------------------------------------------------------
(* Reading an answer.  A call is its id, name, and the fragments of JSON   *)
(* its arguments are: an object from "{" to "}", an empty list, or text    *)
(* that is no JSON.                                                        *)

EmptyObject == <<"{", "}">>
EmptyList == <<"[]">>

IsObject(raw) == Len(raw) >= 2 /\ raw[1] = "{" /\ Last(raw) = "}"
IsJson(raw) == IsObject(raw) \/ raw = EmptyList

\* _safe_json_object: what does not decode to an object is an empty one.
SafeObject(raw) == IF IsObject(raw) THEN raw ELSE EmptyObject

OpenAiFinish ==
  [stop |-> "end_turn", tool_calls |-> "tool_use", length |-> "max_tokens",
   content_filter |-> "error"]

AnthropicFinish ==
  [end_turn |-> "end_turn", tool_use |-> "tool_use",
   max_tokens |-> "max_tokens", stop_sequence |-> "stop_sequence"]

GeminiFinish == [STOP |-> "end_turn", MAX_TOKENS |-> "max_tokens", SAFETY |-> "error"]

\* A code the table does not hold ends the turn.
Finish(protocol, code) ==
  LET table == CASE protocol = "openai" -> OpenAiFinish
                 [] protocol = "anthropic" -> AnthropicFinish
                 [] protocol = "gemini" -> GeminiFinish
  IN  IF code \in DOMAIN table THEN table[code] ELSE "end_turn"

Usage(input, output, cached) == [input |-> input, output |-> output, cached |-> cached]

NoUsage == Usage(0, 0, 0)

\* The prompt of OpenAI and of Gemini counts the cached prefix, Anthropic's does
\* not; Gemini reports the tokens of thoughts apart.
Fresh(raw) == IF raw.prompt < raw.cached THEN 0 ELSE raw.prompt - raw.cached

OpenAiUsage(raw) == Usage(Fresh(raw), raw.output, raw.cached)
AnthropicUsage(raw) == Usage(raw.prompt, raw.output, raw.cached)
GeminiUsage(raw) == Usage(Fresh(raw), raw.output + raw.thoughts, raw.cached)

Refused == [refused |-> TRUE]      \* a ProviderProtocolError

Blocks(answer, kind) == OfKind(answer.blocks, kind)

Said(answer) ==
  LET said == Blocks(answer, "text")
  IN  [i \in DOMAIN said |-> said[i].text]

Asked(answer) ==
  LET asked == Blocks(answer, "call")
  IN  [i \in DOMAIN asked |->
         [id |-> asked[i].id, name |-> asked[i].name, args |-> asked[i].args]]

\* A ModelResponse, whose calls have objects for arguments: an answer with calls
\* stopped to use a tool, whatever its code.
Response(text, calls, finish, usage) ==
  IF \E i \in DOMAIN calls : ~IsObject(calls[i].args) THEN Refused
  ELSE [text |-> text, calls |-> calls, usage |-> usage,
        finish |-> IF calls # <<>> THEN "tool_use" ELSE finish]

\* _parse_response of the three adapters, on the body of a complete answer.
\* OpenAI's message may have neither content nor calls; its arguments are text, and
\* empty when it is no JSON.
ParseOpenAi(body) ==
  LET asked == Asked(body)
      calls == [i \in DOMAIN asked |->
                  [asked[i] EXCEPT !.args = IF IsJson(@) THEN @ ELSE EmptyObject]]
  IN  Response(Said(body), calls, Finish("openai", body.code), OpenAiUsage(body.usage))

\* An answer cut before its first block is returned without its usage.
ParseAnthropic(body) ==
  IF body.blocks = <<>>
  THEN IF body.code = "max_tokens" THEN Response(<<>>, <<>>, "max_tokens", NoUsage)
       ELSE Refused
  ELSE Response(Said(body), Asked(body), Finish("anthropic", body.code),
                AnthropicUsage(body.usage))

\* A candidate may have no part, and an empty value is no arguments.
ParseGemini(body) ==
  LET asked == Asked(body)
      calls == [i \in DOMAIN asked |->
                  [asked[i] EXCEPT !.args = IF @ = EmptyList THEN EmptyObject ELSE @]]
  IN  Response(Said(body), calls, Finish("gemini", body.code), GeminiUsage(body.usage))

Parse(protocol, body) ==
  CASE protocol = "openai" -> ParseOpenAi(body)
    [] protocol = "anthropic" -> ParseAnthropic(body)
    [] protocol = "gemini" -> ParseGemini(body)

-----------------------------------------------------------------------------
(* The frames of a stream *)

\* A frame: Anthropic's event type, text, tool-call fragments, finish code, usage.
Frame == [type |-> "chunk", text |-> <<>>, calls |-> <<>>, code |-> None,
          usage |-> <<>>]

Blank == ""      \* an id or a name that a fragment does not repeat

Fragment(index, id, name, args) ==
  [index |-> index, id |-> id, name |-> name, args |-> args]

TextDelta(text) == [type |-> "text", text |-> text]
CallDelta(f) == [type |-> "call", call |-> f]
UsageDelta(usage) == [type |-> "usage", usage |-> usage]
FinishDelta(reason) == [type |-> "finish", reason |-> reason]

\* What a parser keeps between two frames.
Parser == [finish |-> None, usage |-> NoUsage, index |-> 0, terminal |-> FALSE]

\* One frame read: the parser after it and the deltas it yields.
Read(parser, deltas) == [parser |-> parser, deltas |-> deltas]

Ends(p, protocol, f) ==
  [p EXCEPT !.finish = IF f.code = None THEN @ ELSE Finish(protocol, f.code)]

\* _openai_stream_chunks: only [DONE] is terminal.
OpenAiChunk(p, f) ==
  LET Counted(raw) == UsageDelta(OpenAiUsage(raw))
  IN  IF f.type = "done" THEN Read([p EXCEPT !.terminal = TRUE], <<>>)
      ELSE Read(Ends(p, "openai", f),
                If(f.text # <<>>, <<TextDelta(f.text)>>)
                \o Each(CallDelta, f.calls) \o Each(Counted, f.usage))

\* _anthropic_stream_chunks: the usage of the start and the output of the last
\* message_delta are held back for the end of the stream.
AnthropicChunk(p, f) ==
  CASE f.type = "message_stop" -> Read([p EXCEPT !.terminal = TRUE], <<>>)
    [] f.type = "message_start" ->
         Read([p EXCEPT !.usage = [AnthropicUsage(f.usage[1]) EXCEPT !.output = 0]],
              <<>>)
    [] f.type = "content_block_start" -> Read(p, Each(CallDelta, f.calls))
    [] f.type = "content_block_delta" ->
         Read(p, If(f.text # <<>>, <<TextDelta(f.text)>>) \o Each(CallDelta, f.calls))
    [] f.type = "message_delta" ->
         Read([Ends(p, "anthropic", f) EXCEPT
                 !.usage.output = IF f.usage[1].output > @ THEN f.usage[1].output ELSE @],
              <<>>)
    [] OTHER -> Read(p, <<>>)

\* _gemini_stream_chunks: a call is whole and takes the next index; a finish
\* reason is terminal.
GeminiChunk(p, f) ==
  LET Numbered(i) == CallDelta([f.calls[i] EXCEPT !.index = p.index + i - 1])
  IN  Read([Ends(p, "gemini", f) EXCEPT
              !.usage = IF f.usage = <<>> THEN @ ELSE GeminiUsage(f.usage[1]),
              !.index = @ + Len(f.calls),
              !.terminal = f.code # None],
           If(f.text # <<>>, <<TextDelta(f.text)>>)
           \o [i \in DOMAIN f.calls |-> Numbered(i)])

Chunk(protocol, p, f) ==
  CASE protocol = "openai" -> OpenAiChunk(p, f)
    [] protocol = "anthropic" -> AnthropicChunk(p, f)
    [] protocol = "gemini" -> GeminiChunk(p, f)

\* The deltas after the last frame: usage unless it was yielded, then finish.
LastDeltas(protocol, p) ==
  If(protocol # "openai", <<UsageDelta(p.usage)>>)
  \o <<FinishDelta(IF p.finish = None THEN "end_turn" ELSE p.finish)>>

\* StreamAssembler: fragments gather under the index of their call.
Assembler == [text |-> <<>>, calls |-> <<>>, usage |-> NoUsage, finish |-> None]

\* Mutant of Gather: a fragment starts its call anew.
GatherLast(calls, f) ==
  LET Latest(new, old) == IF new = Blank THEN old ELSE new
  IN  [i \in DOMAIN calls \cup {f.index} |->
         IF i # f.index THEN calls[i]
         ELSE IF i \notin DOMAIN calls THEN [id |-> f.id, name |-> f.name, args |-> f.args]
         ELSE [id   |-> Latest(f.id, calls[i].id),
               name |-> Latest(f.name, calls[i].name),
               args |-> f.args]]

Gather(calls, f) ==
  LET Latest(new, old) == IF new = Blank THEN old ELSE new
  IN  [i \in DOMAIN calls \cup {f.index} |->
         IF i # f.index THEN calls[i]
         ELSE IF i \notin DOMAIN calls THEN [id |-> f.id, name |-> f.name, args |-> f.args]
         ELSE [id   |-> Latest(f.id, calls[i].id),
               name |-> Latest(f.name, calls[i].name),
               args |-> calls[i].args \o f.args]]

Update(a, d) ==
  CASE d.type = "text"   -> [a EXCEPT !.text = @ \o d.text]
    [] d.type = "call"   -> [a EXCEPT !.calls = Gather(@, d.call)]
    [] d.type = "usage"  -> [a EXCEPT !.usage = d.usage]
    [] d.type = "finish" -> [a EXCEPT !.finish = d.reason]

Assemble(a, deltas) ==
  LET after[n \in 0..Len(deltas)] ==
        IF n = 0 THEN a ELSE Update(after[n - 1], deltas[n])
  IN  after[Len(deltas)]

\* The k-th of a set of numbers, in order.
InOrder(S, k) == CHOOSE i \in S : Cardinality({j \in S : j < i}) = k - 1

\* Calls in the order of their indices; undecodable arguments are empty.
Build(a) ==
  [text   |-> a.text,
   calls  |-> [k \in 1..Cardinality(DOMAIN a.calls) |->
                 [a.calls[InOrder(DOMAIN a.calls, k)] EXCEPT !.args = SafeObject(@)]],
   finish |-> IF a.finish = None THEN "end_turn" ELSE a.finish,
   usage  |-> a.usage]

-----------------------------------------------------------------------------
(* The provider: an answer is its blocks, why it stopped and what it cost  *)

StopCode(protocol, why) ==
  CASE protocol = "openai" -> [done |-> "stop", calls |-> "tool_calls", cut |-> "length"][why]
    [] protocol = "anthropic" ->
         [done |-> "end_turn", calls |-> "tool_use", cut |-> "max_tokens"][why]
    [] protocol = "gemini" -> [done |-> "STOP", calls |-> "STOP", cut |-> "MAX_TOKENS"][why]

\* An answer costs fresh and cached input, output and, in Gemini, thoughts.
RawUsage(protocol, cost) ==
  [prompt   |-> IF protocol = "anthropic" THEN cost.input ELSE cost.input + cost.cached,
   cached   |-> cost.cached,
   output   |-> IF protocol = "gemini" THEN cost.output - cost.thoughts ELSE cost.output,
   thoughts |-> IF protocol = "gemini" THEN cost.thoughts ELSE 0]

ReplyBody(protocol, answer) ==
  [blocks |-> answer.blocks, code |-> StopCode(protocol, answer.why),
   usage  |-> RawUsage(protocol, answer.cost)]

ContentFrame(type, text, calls) == [Frame EXCEPT !.type = type, !.text = text, !.calls = calls]
StatusFrame(type, code, usage) == [Frame EXCEPT !.type = type, !.code = code, !.usage = usage]

\* The index of block k: OpenAI counts calls, Anthropic blocks, and Gemini gives none.
IndexOf(protocol, answer, k) ==
  CASE protocol = "openai" -> Cardinality({j \in 1..(k - 1) : answer.blocks[j].kind = "call"})
    [] protocol = "anthropic" -> k - 1
    [] protocol = "gemini" -> 0

\* The frames of block k: a call is opened and then told fragment by fragment, but
\* for Gemini's.
BlockFrames(protocol, answer, k) ==
  LET b     == answer.blocks[k]
      index == IndexOf(protocol, answer, k)
      first == IF protocol = "anthropic" THEN "content_block_start" ELSE "chunk"
      delta == IF protocol = "anthropic" THEN "content_block_delta" ELSE "chunk"
  IN  CASE b.kind = "text" -> <<ContentFrame(delta, <<b.text>>, <<>>)>>
        [] b.kind = "thought" -> <<ContentFrame(delta, <<>>, <<>>)>>
        [] b.kind = "call" /\ protocol = "gemini" ->
             <<ContentFrame(delta, <<>>, <<Fragment(index, b.id, b.name, b.args)>>)>>
        [] OTHER ->
             [i \in 1..(1 + Len(b.args)) |->
                IF i = 1 THEN ContentFrame(first, <<>>, <<Fragment(index, b.id, b.name, <<>>)>>)
                ELSE ContentFrame(delta, <<>>, <<Fragment(index, Blank, Blank, <<b.args[i - 1]>>)>>)]

\* A stream's frames come in groups: one before the blocks of the answer, those of
\* each block, one behind them.
Group(protocol, answer, k) ==
  LET usage == RawUsage(protocol, answer.cost)
      code  == StopCode(protocol, answer.why)
  IN  IF k = 0 THEN <<StatusFrame("message_start", None, <<usage>>)>>
      ELSE IF k <= Len(answer.blocks) THEN BlockFrames(protocol, answer, k)
      ELSE CASE protocol = "openai" ->
                  <<StatusFrame("chunk", code, <<>>), StatusFrame("chunk", None, <<usage>>),
                    StatusFrame("done", None, <<>>)>>
             [] protocol = "anthropic" ->
                  <<StatusFrame("message_delta", code, <<usage>>), StatusFrame("message_stop", None, <<>>)>>
             [] protocol = "gemini" -> <<StatusFrame("chunk", code, <<usage>>)>>

Stream(protocol, answer) ==
  [k \in 0..(Len(answer.blocks) + 1) |-> Group(protocol, answer, k)]

\* A place in a stream: frame i of group k is next.
Place(k, i) == [group |-> k, frame |-> i]

Opening(protocol) == Place(IF protocol = "anthropic" THEN 0 ELSE 1, 1)
Ending(answer) == Place(Len(answer.blocks) + 2, 1)

FrameAt(stream, at) == stream[at.group][at.frame]

Onward(stream, at) ==
  IF at.frame + 1 \in DOMAIN stream[at.group]
  THEN Place(at.group, at.frame + 1) ELSE Place(at.group + 1, 1)

-----------------------------------------------------------------------------
(* What the properties compare with *)

\* The text, the calls and the cost the provider's answer really has.
Meant(answer) ==
  LET asked == Asked(answer)
  IN  [text  |-> Said(answer),
       calls |-> [i \in DOMAIN asked |-> [asked[i] EXCEPT !.args = SafeObject(@)]],
       usage |-> Usage(answer.cost.input, answer.cost.output, answer.cost.cached)]

Key(protocol, part) == IF protocol = "gemini" THEN part.name ELSE part.id

Keys(protocol, parts) == [k \in DOMAIN parts |-> Key(protocol, parts[k])]

\* Every call of an assistant's turn is answered, and nothing else is, right
\* after that turn: by the next turn of results, or in OpenAI's case by as many
\* tool turns as there are calls.  A result names its call by id or, in Gemini's
\* case, by the name of the tool.
AnswersFollow(protocol, turns) ==
  LET Asks(i) == OfKind(turns[i].parts, "call")
      Results(i) ==
        IF protocol = "openai"
        THEN [k \in DOMAIN Asks(i) |->
                IF i + k <= Len(turns) /\ turns[i + k].role = "tool"
                THEN Key(protocol, turns[i + k].parts[1]) ELSE "missing"]
        ELSE IF i < Len(turns) THEN Keys(protocol, OfKind(turns[i + 1].parts, "result"))
        ELSE <<>>
  IN  \A i \in DOMAIN turns : Asks(i) # <<>> => Results(i) = Keys(protocol, Asks(i))

\* The conversations the worker sends (Worker, RequestsPaired): the calls of an
\* assistant are answered right behind it, each once and in their order, and nothing
\* else is.  Calls of one turn with the same id are calls of the same tool.
Conversation(messages) ==
  \A i \in DOMAIN messages :
    LET m == messages[i]
    IN  /\ m.calls # <<>> => m.role = "assistant"
        /\ \A k \in DOMAIN m.calls :
             /\ i + k \in DOMAIN messages
             /\ messages[i + k].role = "tool" /\ messages[i + k].answers = m.calls[k].id
             /\ \A j \in DOMAIN m.calls :
                  m.calls[j].id = m.calls[k].id => m.calls[j].name = m.calls[k].name
        /\ m.role = "tool" => \E k \in 1..(i - 1) : k \in DOMAIN messages[i - k].calls
=============================================================================
