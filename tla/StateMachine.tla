---------------------------- MODULE StateMachine ----------------------------
(***************************************************************************)
(* The job status graph of apps/jobs/state_machine.py.  The dictionary     *)
(* from a status to its allowed successors is the set of its edges.        *)
(***************************************************************************)
EXTENDS Integers

JobStatus ==
  {"new", "assigned", "en_route", "on_site", "completed", "cancelled"}

TRANSITIONS ==
  { <<"new", "assigned">>,
    <<"assigned", "en_route">>, <<"assigned", "cancelled">>,
    <<"en_route", "on_site">>,
    <<"on_site", "completed">> }

\* validate_transition raises unless the pair is an edge.  The comparison is
\* with the status the caller passes, so it is only as fresh as that value.
\* The mutant takes a repeated status for a harmless no-op.
ValidOrSame(from, to) == from = to \/ <<from, to>> \in TRANSITIONS
ValidTransition(from, to) == <<from, to>> \in TRANSITIONS

-----------------------------------------------------------------------------
(* Every edge leads one level down: "cancelled" is as deep as "en_route".  *)
(* A job therefore enters a status at most once, and its audit trail is no *)
(* longer than MaxDepth.                                                   *)

Depth(s) ==
  CASE s = "new" -> 0
    [] s = "assigned" -> 1
    [] s \in {"en_route", "cancelled"} -> 2
    [] s = "on_site" -> 3
    [] s = "completed" -> 4
    [] OTHER -> 0

MaxDepth == 4
=============================================================================
