---------------------------- MODULE MCBootstrap -----------------------------
(***************************************************************************)
(* Two spellings of one mailbox and a second mailbox.                      *)
(***************************************************************************)
EXTENDS Bootstrap

CONSTANTS raw, plain, other, r1, r2, r3, r4

MCEmails == {raw, plain, other}
MCNormalize == [e \in MCEmails |-> IF e = raw THEN plain ELSE e]

\* Two processes with the raw spelling, one with the plain one, one by itself.
MCWanted == [r \in Runs |-> CASE r \in {r1, r2} -> raw [] r = r3 -> plain [] r = r4 -> other]
=============================================================================
