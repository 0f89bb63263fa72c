------------------------------ MODULE MC_Resume ------------------------------
(* Three cells, each but the first needing the one before, through a first run *)
(* and two resumes, in a line or side by side; a resume has fewer waves than a *)
(* request may ask for.                                                        *)
EXTENDS Resume

MC_Deps == [c \in Cells |-> CASE c = "a" -> {} [] c = "b" -> {"a"} [] c = "c" -> {"b"}]

MC_Loops == [r \in Runs |-> IF r = 1 THEN 3 ELSE 2]
=============================================================================
