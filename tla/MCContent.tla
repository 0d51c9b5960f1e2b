------------------------------ MODULE MCContent ------------------------------
(* Content with the small sets TLC needs. *)
EXTENDS Content

CONSTANTS i1, i2, i3, a1, a2

\* An import whose attempts overlap; two imports; an import and two analyses of it.
MCTogether == {{i1}, {i2, i3}, {i2, a1, a2}}
MCOneEach == {Job}
MCBudget == [j \in Job |-> IF j \in {i1, a1} THEN 2 ELSE 1]
=============================================================================
