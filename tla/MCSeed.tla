------------------------------- MODULE MCSeed -------------------------------
(***************************************************************************)
(* The demo organization and its three users.                              *)
(***************************************************************************)
EXTENDS Seed

CONSTANTS riverside, dana, alex, cory

MCUsers == {dana, alex, cory}
MCRole == [u \in MCUsers |->
             IF u = dana THEN "dispatcher"
             ELSE IF u = cory THEN "customer" ELSE "agent"]
MCOrgOf == [u \in MCUsers |-> riverside]
=============================================================================
