------------------------ MODULE NotificationLedger -------------------------
(***************************************************************************)
(* What the Notification table promises whoever writes through             *)
(* get_or_create: an item, a (job, kind) of one recipient, is recorded     *)
(* once and for good, and is sent at most once, after it was recorded.     *)
(* Nothing promises that it is sent: a row exists whether or not.          *)
(*                                                                         *)
(* Notifier and Reminders implement this specification.                    *)
(***************************************************************************)
EXTENDS Naturals

CONSTANT Items

VARIABLES
  recorded,    \* the rows of the table
  times        \* how often each item has been sent

ledgerVars == <<recorded, times>>

Init ==
  /\ recorded = {}
  /\ times = [i \in Items |-> 0]

Record(i) ==
  /\ i \notin recorded
  /\ recorded' = recorded \union {i}
  /\ UNCHANGED times

Deliver(i) ==
  /\ i \in recorded
  /\ times[i] = 0
  /\ times' = [times EXCEPT ![i] = 1]
  /\ UNCHANGED recorded

Spec == Init /\ [][\E i \in Items : Record(i) \/ Deliver(i)]_ledgerVars
=============================================================================
