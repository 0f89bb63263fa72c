--------------------------- MODULE MC_CellRunner -----------------------------
(* Two cells of a wave: c1 may run on a cheap or a premium profile, c2 only on *)
(* the cheap one or on none, so routes, reroutes and both abstentions occur.   *)
EXTENDS CellRunner, TLC

CONSTANTS c1, c2, cheap, premium

MC_Cells      == {c1, c2}
MC_Profiles   == {cheap, premium}
MC_Eligibles  == {(c1 :> {cheap, premium}) @@ (c2 :> ps) : ps \in {{}, {cheap}}}
MC_Rank       == [c \in MC_Cells |-> (cheap :> 1) @@ (premium :> 2)]
MC_Premium    == {premium}

Limits(retries, calls) == [maxRetries |-> retries, maxCalls |-> calls]
MC_Budgets == {Limits(0, 0), Limits(0, 1), Limits(2, 0)}
=============================================================================
