----------------------------- MODULE MC_Gateway ------------------------------
(* Two callers of two calls each, with one slot and two reservations a window, *)
(* two and one, or one and one; every protocol, streamed or not.  The          *)
(* conversation has two rounds of calls whose ids come again, a result that    *)
(* failed, a nudge and an image.                                               *)
EXTENDS Gateway

Call(id, name) == [id |-> id, name |-> name]
Says(role)     == [Message EXCEPT !.role = role]
Calling(calls) == [Message EXCEPT !.role = "assistant", !.calls = calls]
Result(id, e)  == [Message EXCEPT !.role = "tool", !.answers = id, !.error = e]

Talk == <<Says("system"), Says("user"),
          Calling(<<Call("i1", "read"), Call("i2", "write")>>),
          Result("i1", FALSE), Result("i2", TRUE),
          [Says("user") EXCEPT !.images = TRUE],
          Calling(<<Call("i1", "write")>>), Result("i1", FALSE), Says("user")>>

MC_RequestOf == [c \in Calls |->
  [messages |-> Talk, system |-> TRUE, tools |-> TRUE, schema |-> FALSE]]

Block(kind, text, id, args) ==
  [kind |-> kind, text |-> text, id |-> id, name |-> "read", args |-> args]

Cost == [input |-> 2, cached |-> 3, output |-> 4, thoughts |-> 1]

MC_Answers == {
  [blocks |-> <<Block("text", "a", None, <<>>), Block("call", None, "i3", <<"{", "x", "}">>),
                Block("call", None, "i4", <<"{", "}">>)>>,
   why |-> "calls", cost |-> Cost],
  [blocks |-> <<>>, why |-> "cut", cost |-> Cost]}

Of(protocol, streaming, strict, key, concurrency, rpm, retries) ==
  [protocol |-> protocol, streaming |-> streaming, strict |-> strict,
   key |-> key, concurrency |-> concurrency, rpm |-> rpm, retries |-> retries,
   vision |-> FALSE, tools |-> TRUE, schema |-> FALSE]

MC_Profiles ==
  {Of("openai", FALSE, TRUE, TRUE, 2, 1, 1), Of("openai", TRUE, TRUE, TRUE, 1, 2, 1),
   Of("openai", TRUE, FALSE, TRUE, 1, 1, 0), Of("openai", FALSE, TRUE, FALSE, 2, 1, 0),
   Of("openai", TRUE, TRUE, FALSE, 1, 1, 0)}
  \cup {Of(p, s, TRUE, TRUE, 1, 1, 0) : p \in {"anthropic", "gemini"}, s \in BOOLEAN}
=============================================================================
