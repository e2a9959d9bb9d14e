--------------------------- MODULE ProfileWriters ---------------------------
(***************************************************************************)
(* One agent's AgentProfile row and all who write it: record_location for  *)
(* each of the agent's connections, with the instant it takes before it    *)
(* waits for the row; the expiry sweep; and the profile form in the user's *)
(* page of the admin, where every column of the row can be edited.  A      *)
(* finer clock than that of AgentPresence: a ping may be saved up to       *)
(* MaxStall units after its instant.                                       *)
(***************************************************************************)
EXTENDS Integers

CONSTANTS
  Connections, \* the agent's sockets
  Staff,       \* the browser tabs with the admin
  Never,       \* the age of a last_ping_at that is NULL
  NoForm,      \* a tab that shows no profile
  StaleAfter,  \* stale_after_minutes, in units
  MaxStall,    \* bound: the units between now() and the save
  MaxAhead     \* bound: how far ahead staff may date a last_ping_at

ASSUME WritersAssumption ==
  /\ StaleAfter \in Nat /\ MaxStall \in Nat /\ MaxAhead \in Nat
  /\ Never \notin Int

VARIABLES
  pc,          \* per connection: "idle", or "stamped" once now() was called
  stamp,       \* per connection, the age of the last now()
  status,      \* AgentProfile.status
  pingAge,     \* the age of last_ping_at and of the position beside it
  newest,      \* the age of the newest ping that was ever saved
  form,        \* the age of the last_ping_at that each tab shows, or NoForm
  entered,     \* the age of the newest instant that staff ever entered
  restored     \* whether a form was saved since the last ping

writersVars == <<pc, stamp, status, pingAge, newest, form, entered, restored>>

\* An instant to come has a negative age.
MaxAge == StaleAfter + MaxStall + 2
Instants == -MaxAhead .. MaxAge
Ages == Instants \union {Never}
Older(n) == IF n \in {Never, MaxAge} THEN n ELSE n + 1

Statuses == {"offline", "online", "busy"}

\* The row is as staff created it, with any values.
WritersInit ==
  /\ pc = [c \in Connections |-> "idle"]
  /\ stamp = [c \in Connections |-> Never]
  /\ status \in Statuses
  /\ pingAge \in Ages
  /\ newest = Never
  /\ form = [f \in Staff |-> NoForm]
  /\ entered = pingAge
  /\ restored = TRUE

-----------------------------------------------------------------------------

\* The defaults of update_or_create: now() is called before the row is locked.
Stamp(c) ==
  /\ pc[c] = "idle"
  /\ pc' = [pc EXCEPT ![c] = "stamped"]
  /\ stamp' = [stamp EXCEPT ![c] = 0]
  /\ UNCHANGED <<status, pingAge, newest, form, entered, restored>>

Newer(m, n) == IF n = Never \/ m < n THEN m ELSE n

\* The locked row gets what this connection holds, however late.  The mutant
\* sets the status only.
SaveOnline(c) ==
  /\ pc[c] = "stamped"
  /\ pc' = [pc EXCEPT ![c] = "idle"]
  /\ status' = "online"
  /\ newest' = Newer(stamp[c], newest)
  /\ restored' = FALSE
  /\ UNCHANGED <<stamp, pingAge, form, entered>>
SaveLocation(c) ==
  /\ pc[c] = "stamped"
  /\ pc' = [pc EXCEPT ![c] = "idle"]
  /\ status' = "online"
  /\ pingAge' = stamp[c]
  /\ newest' = Newer(stamp[c], newest)
  /\ restored' = FALSE
  /\ UNCHANGED <<stamp, form, entered>>

\* The UPDATE of expire_stale_locations: a NULL is not less than the threshold.
\* The mutant is off by one.
StaleFrom == pingAge # Never /\ pingAge >= StaleAfter
Stale == pingAge # Never /\ pingAge > StaleAfter

Sweep ==
  /\ status = "online" /\ Stale
  /\ status' = "offline"
  /\ UNCHANGED <<pc, stamp, pingAge, newest, form, entered, restored>>

OpenForm(f) ==
  /\ form[f] = NoForm
  /\ form' = [form EXCEPT ![f] = pingAge]
  /\ UNCHANGED <<pc, stamp, status, pingAge, newest, entered, restored>>

\* save() writes every column: the status is any that staff choose, last_ping_at
\* the one the form showed, NULL, or any instant they enter.  The mutant takes
\* the save for a ping (auto_now).
SaveFormNow(f) ==
  /\ form[f] # NoForm
  /\ status' \in Statuses
  /\ pingAge' = 0
  /\ form' = [form EXCEPT ![f] = NoForm]
  /\ restored' = TRUE
  /\ UNCHANGED <<pc, stamp, newest, entered>>
SaveForm(f) ==
  /\ form[f] # NoForm
  /\ status' \in Statuses
  /\ \/ pingAge' \in {form[f], Never} /\ UNCHANGED entered
     \/ \E t \in Instants : pingAge' = t /\ entered' = Newer(t, entered)
  /\ form' = [form EXCEPT ![f] = NoForm]
  /\ restored' = TRUE
  /\ UNCHANGED <<pc, stamp, newest>>

Tick ==
  /\ \A c \in Connections : pc[c] = "stamped" => stamp[c] # MaxStall
  /\ stamp' = [c \in Connections |-> Older(stamp[c])]
  /\ pingAge' = Older(pingAge)
  /\ newest' = Older(newest)
  /\ entered' = Older(entered)
  /\ form' = [f \in Staff |-> IF form[f] = NoForm THEN NoForm ELSE Older(form[f])]
  /\ UNCHANGED <<pc, status, restored>>

WritersNext ==
  \/ \E c \in Connections : Stamp(c) \/ SaveLocation(c)
  \/ Sweep
  \/ \E f \in Staff : OpenForm(f) \/ SaveForm(f)
  \/ Tick

WritersSpec == WritersInit /\ [][WritersNext]_writersVars

\* Time passes, a ping that was begun is saved, and the sweep runs again and
\* again.  Pings and staff may come or stay away.
WritersFairness ==
  /\ WF_writersVars(Tick)
  /\ WF_writersVars(Sweep)
  /\ \A c \in Connections : WF_writersVars(SaveLocation(c))

FairWritersSpec == WritersSpec /\ WritersFairness

-----------------------------------------------------------------------------
(* Properties.                                                             *)

\* Types; a ping that is being saved has an instant of its own, no older than a
\* save may be held up.
WritersTypeOK ==
  /\ pc \in [Connections -> {"idle", "stamped"}]
  /\ stamp \in [Connections -> 0 .. MaxAge \union {Never}]
  /\ \A c \in Connections : pc[c] = "stamped" => stamp[c] \in 0 .. MaxStall
  /\ status \in Statuses
  /\ pingAge \in Ages
  /\ newest \in 0 .. MaxAge \union {Never}
  /\ form \in [Staff -> Ages \union {NoForm}]
  /\ entered \in Ages
  /\ restored \in BOOLEAN

\* The docstring of record_location: "The only writer of AgentProfile's location
\* fields".  Two connections may save their pings in the other order and take
\* last_ping_at backwards, but never by more than a save may be held up; and what
\* a form, the other writer, puts back in its place lasts until the next ping.
LastPingKept ==
  newest # Never /\ ~restored => /\ pingAge # Never
                                 /\ pingAge <= newest + MaxStall

\* The sweep does not make up for that: while no form is saved, an agent is
\* online as long as his newest ping is within the threshold, less the time that
\* a save may be held up and put an older instant in its place.
HeardIsOnline ==
  newest # Never /\ newest + MaxStall <= StaleAfter /\ ~restored => status = "online"

\* Forms may take the profile back in time, and forward to an instant that staff
\* entered, but no further: nobody counts as heard of later than the newest ping
\* and the newest entry, however often old values are written back.
NeverTooFresh ==
  pingAge # Never =>
    \/ newest # Never /\ newest <= pingAge
    \/ entered # Never /\ entered <= pingAge

\* A silent agent is taken offline although forms put the profile online over and
\* over; unless pings keep coming, staff keep entering instants within the
\* threshold or to come, or clear last_ping_at: a NULL is never found by the sweep.
Pinged == newest # Never /\ newest <= MaxStall
Entered == entered # Never /\ entered <= StaleAfter

ExpiredAllTheSame ==
  status = "online" ~> status # "online" \/ pingAge = Never \/ Pinged \/ Entered
=============================================================================
