----------------------------- MODULE MCNotifier -----------------------------
(***************************************************************************)
(* One job of one organization, its dispatcher, agent and customer.        *)
(***************************************************************************)
EXTENDS Notifier

CONSTANTS acme, disp, ag, cust

MCUsers == {disp, ag, cust}
MCRole == [u \in MCUsers |->
             IF u = disp THEN "dispatcher"
             ELSE IF u = cust THEN "customer" ELSE "agent"]
MCOrgOf == [u \in MCUsers |-> acme]
=============================================================================
