---------------------------- MODULE MCJobService ----------------------------
(***************************************************************************)
(* An organization with a dispatcher, two agents and a customer, and an    *)
(* agent of another tenant; or, where two jobs count, a single agent.      *)
(***************************************************************************)
EXTENDS JobService

CONSTANTS acme, zenith, disp, ag, ag1, ag2, cust

MCUsers == {disp, ag, ag1, ag2, cust}
MCUsersOneAgent == {disp, ag, cust}
MCRole == [u \in Users |->
             IF u = disp THEN "dispatcher"
             ELSE IF u = cust THEN "customer" ELSE "agent"]
MCOrgOf == [u \in Users |-> IF u = ag2 THEN zenith ELSE acme]
=============================================================================
