----------------------------- MODULE MCJobAdmin -----------------------------
(***************************************************************************)
(* One organization with a dispatcher, an agent and a customer.            *)
(***************************************************************************)
EXTENDS JobAdmin, TLC

CONSTANTS acme, disp, ag, cust

MCUsers == {disp, ag, cust}
MCRole == [u \in MCUsers |->
             IF u = disp THEN "dispatcher"
             ELSE IF u = cust THEN "customer" ELSE "agent"]
MCOrgOf == [u \in MCUsers |-> acme]
Symmetry == Permutations(Requests) \union Permutations(Staff)
=============================================================================
