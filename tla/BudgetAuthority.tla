--------------------------- MODULE BudgetAuthority ---------------------------
(***************************************************************************)
(* The spend authority (application/budget_authority.py).  Every method    *)
(* holds the authority's lock throughout, so it is one action, and the     *)
(* callers' threads interleave between calls.  A Spend is a number on each *)
(* axis: tokens, cost, calls.  Costs are counted in whole units, so the    *)
(* 1e-9 slack that absorbs float rounding is not needed here.              *)
(***************************************************************************)
EXTENDS Integers

CONSTANTS
  Axes,       \* tokens, cost, calls
  Limited,    \* the axes on which the budget sets a limit
  Limits,     \* Limits[a]: the limit on a limited axis
  Ids,        \* bound: the ids reservations may take
  Spends,     \* bound: the estimates and actuals callers present
  MaxRecords  \* bound: how many spends are recorded after the fact

ASSUME BudgetAssumption ==
  /\ Limited \subseteq Axes
  /\ Limits \in [Limited -> Nat]
  /\ Spends \subseteq [Axes -> Nat]
  /\ MaxRecords \in Nat

VARIABLES
  committed,     \* _committed_tokens, _committed_cost, _committed_calls
  reserved,      \* _reserved_tokens, _reserved_cost, _reserved_calls
  reservations,  \* _reservations: the active ones
  issued,        \* ids handed out so far: _ids never repeats one
  recorded,      \* history: what record() added, on each axis
  records        \* history: how often record() was called

authority == <<committed, reserved, reservations, issued, recorded, records>>

Reservation == [id : Ids, estimate : Spends]

AuthorityTypeOK ==
  /\ committed \in [Axes -> Nat]
  /\ reserved \in [Axes -> Nat]
  /\ reservations \subseteq Reservation
  /\ issued \subseteq Ids
  /\ recorded \in [Axes -> Nat]
  /\ records \in 0..MaxRecords

Zero == [a \in Axes |-> 0]

Plus(s, t) == [a \in Axes |-> s[a] + t[a]]

Minus(s, t) == [a \in Axes |-> s[a] - t[a]]

AuthorityInit ==
  /\ committed = Zero
  /\ reserved = Zero
  /\ reservations = {}
  /\ issued = {}
  /\ recorded = Zero
  /\ records = 0

-----------------------------------------------------------------------------
\* Mutant of HasHeadroom: headroom that other reservations hold is offered again.
HasHeadroomDoubleBooked(estimate) ==
  \A a \in Limited : committed[a] + estimate[a] <= Limits[a]

HasHeadroom(estimate) ==
  \A a \in Limited : committed[a] + reserved[a] + estimate[a] <= Limits[a]

\* reserve() with headroom; without it BudgetExhausted is raised, nothing changes.
Reserve(id, estimate) ==
  /\ id \notin issued
  /\ HasHeadroom(estimate)
  /\ reservations' = reservations \cup {[id |-> id, estimate |-> estimate]}
  /\ issued' = issued \cup {id}
  /\ reserved' = Plus(reserved, estimate)
  /\ UNCHANGED <<committed, recorded, records>>

Within(actual, estimate) == \A a \in Axes : actual[a] <= estimate[a]

\* _require_active: a settled, foreign or forged handle raises.
IsActive(r) == r \in reservations

\* commit() of more than was reserved raises BudgetExhausted, nothing changes.
Commit(r, actual) ==
  /\ IsActive(r)
  /\ Within(actual, r.estimate)
  /\ reserved' = Minus(reserved, r.estimate)
  /\ committed' = Plus(committed, actual)
  /\ reservations' = reservations \ {r}
  /\ UNCHANGED <<issued, recorded, records>>

Release(r) ==
  /\ IsActive(r)
  /\ reserved' = Minus(reserved, r.estimate)
  /\ reservations' = reservations \ {r}
  /\ UNCHANGED <<committed, issued, recorded, records>>

\* record(): never refused, no limit consulted.
RecordSpend(actual) ==
  /\ records < MaxRecords
  /\ committed' = Plus(committed, actual)
  /\ recorded' = Plus(recorded, actual)
  /\ records' = records + 1
  /\ UNCHANGED <<reserved, reservations, issued>>

AuthorityNext ==
  \/ \E id \in Ids, s \in Spends : Reserve(id, s)
  \/ \E r \in Reservation, s \in Spends : Commit(r, s)
  \/ \E r \in Reservation : Release(r)
  \/ \E s \in Spends : RecordSpend(s)

AuthoritySpec == AuthorityInit /\ [][AuthorityNext]_authority

\* remaining(): the headroom reported on a limited axis.
Remaining(a) ==
  LET left == Limits[a] - committed[a] - reserved[a]
  IN  IF left > 0 THEN left ELSE 0

-----------------------------------------------------------------------------
(* Properties *)

\* "reserve/commit arithmetic never lets committed spend exceed the configured
\* limit", outstanding reservations included and whatever order they settle in.
\* Spend booked after the fact is the only way past a limit, by its own amount; and
\* settling gives back no more than was held, so committed spend alone is within it too.
WithinLimit ==
  \A a \in Limited :
    reserved[a] >= 0 /\ committed[a] + reserved[a] <= Limits[a] + recorded[a]

\* Settling a reservation never takes headroom away from the others.
SettlingFreesHeadroom ==
  [][\A r \in reservations \ reservations' : \A a \in Limited :
       Remaining(a)' >= Remaining(a)]_authority
=============================================================================
