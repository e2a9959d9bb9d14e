-------------------------- MODULE MCAgentPresence ---------------------------
(***************************************************************************)
(* Two tenants: in one a dispatcher and an agent with two connections, in  *)
(* the other an agent; a customer's connection is refused.                 *)
(***************************************************************************)
EXTENDS AgentPresence

CONSTANTS acme, zenith, disp, ag, ag2, cust, sd, sa, sb, sz, sc

MCUsers == {disp, ag, ag2, cust}
MCRole == [u \in MCUsers |->
             IF u = disp THEN "dispatcher"
             ELSE IF u = cust THEN "customer" ELSE "agent"]
MCOrgOf == [u \in MCUsers |-> IF u = ag2 THEN zenith ELSE acme]
MCUserOf == [s \in Sockets |->
               IF s = sd THEN disp ELSE IF s = sz THEN ag2
               ELSE IF s = sc THEN cust ELSE ag]
=============================================================================
