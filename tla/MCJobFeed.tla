------------------------------ MODULE MCJobFeed -----------------------------
(***************************************************************************)
(* Two tenants.  The sockets are the first one's: the feed of one of its   *)
(* agents, another agent's in a job's room, and one without a token.       *)
(***************************************************************************)
EXTENDS JobFeed, TLC

CONSTANTS
  acme, beta, disp, ag, ag2, cust, dispB, agB, custB, ag2_feed, ag_room, no_token

MCUsers == {disp, ag, ag2, cust, dispB, agB, custB}
MCRole == [u \in Users |->
             IF u \in {disp, dispB} THEN "dispatcher"
             ELSE IF u \in {ag, ag2, agB} THEN "agent" ELSE "customer"]
MCOrgOf == [u \in Users |-> IF u \in {dispB, agB, custB} THEN beta ELSE acme]

Room == CHOOSE j \in Jobs : TRUE
MCPath == [s \in Sockets |-> IF s = ag_room THEN Room ELSE Fleet]
MCTokenUser == [s \in Sockets |->
                  CASE s = ag2_feed -> ag2
                    [] s = ag_room -> ag
                    [] s = no_token -> NoUser]

ThreadSymmetry == Permutations(Requests)
=============================================================================
