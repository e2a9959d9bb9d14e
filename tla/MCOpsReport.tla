---------------------------- MODULE MCOpsReport -----------------------------
(***************************************************************************)
(* Three events, which may be created at any units of several days.        *)
(***************************************************************************)
EXTENDS OpsReport, TLC

CONSTANTS e1, e2, e3

MCJobEvents == {e1, e2, e3}

Symmetry == Permutations(MCJobEvents)
=============================================================================
