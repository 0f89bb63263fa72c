------------------------------- MODULE MC_Waves -------------------------------
(* Three cells, in the graph's order a, b, c: independent, joined, forked and in *)
(* a chain, along that order and against it, with up to two of them mutating.    *)
EXTENDS Waves, TLC

CONSTANTS a, b, c

MC_Cells == {a, b, c}
MC_Place == (a :> 1) @@ (b :> 2) @@ (c :> 3)

After(da, db, dc) == (a :> da) @@ (b :> db) @@ (c :> dc)

MC_Deps == {After({}, {}, {}), After({}, {}, {a, b}), After({}, {a}, {a}),
            After({}, {a}, {b}), After({b}, {c}, {})}

MC_Graphs ==
  [deps : MC_Deps, mutating : {m \in SUBSET MC_Cells : Cardinality(m) <= 2}]
=============================================================================
