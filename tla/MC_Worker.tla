------------------------------ MODULE MC_Worker ------------------------------
(* Two attempts; a limit on calls, on rounds or on tokens, with and without a  *)
(* schema; a window that two tool rounds overflow.                             *)
EXTENDS Worker

Limits(c, r, t, w, s) ==
  [calls |-> c, rounds |-> r, tokens |-> t, wall |-> w, schema |-> s]

MC_Budgets == {Limits(3, 0, NoLimit, TRUE, FALSE),
               Limits(0, 2, NoLimit, FALSE, FALSE),
               Limits(0, 0, 14, FALSE, FALSE),
               Limits(3, 0, NoLimit, TRUE, TRUE)}
MC_Size   == [r \in Roles |-> 1]
MC_Plans  == {<<"read", "read", "read">>, <<"write", "read">>}
MC_Usages == {[over |-> 0, out |-> 1], [over |-> 1, out |-> 3]}
=============================================================================
