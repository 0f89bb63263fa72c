------------------------- MODULE MC_BudgetAuthority --------------------------
(* Two limited axes and an unlimited one, three reservations, one late spend. *)
EXTENDS BudgetAuthority

Spend(tokens, calls) == [tokens |-> tokens, cost |-> tokens, calls |-> calls]

MC_Axes    == {"tokens", "cost", "calls"}
MC_Limited == {"tokens", "calls"}
MC_Limits  == [tokens |-> 4, calls |-> 3]
MC_Spends  == {Spend(t, c) : t \in 0..2, c \in 0..1} \cup {Spend(3, 2)}
=============================================================================
