------------------------------ MODULE Bootstrap -----------------------------
(***************************************************************************)
(* Runs of bootstrap_superuser: a lookup by the e-mail as it is given,     *)
(* then UserManager._create_user, which normalizes the e-mail, validates   *)
(* the user and inserts the row.  seed.py's get_or_create_user is the same *)
(* sequence.  Runs overlap, are cut short and are started again.           *)
(***************************************************************************)
EXTENDS Naturals

CONSTANTS
  Emails,      \* e-mail addresses as they are spelled
  Normalize,   \* normalize_email: the same with the domain in lower case
  Runs,        \* the processes that may run at a time
  Wanted,      \* per process, the e-mail in its environment
  MaxCrashes   \* bound: how many runs are cut short

ASSUME BootstrapAssumption ==
  /\ Normalize \in [Emails -> Emails]
  /\ \A e \in Emails : Normalize[Normalize[e]] = Normalize[e]
  /\ Wanted \in [Runs -> Emails]
  /\ MaxCrashes \in Nat

VARIABLES
  users,       \* the e-mails in the User table, a unique column
  pc,          \* per process: "idle", "create", "save"
  told,        \* how its last run ended: "created", "exists", "error"
  crashes

bootVars == <<users, pc, told, crashes>>

BootInit ==
  /\ users = {}
  /\ pc = [r \in Runs |-> "idle"]
  /\ told = [r \in Runs |-> "nothing"]
  /\ crashes = 0

Goto(r, phase) == pc' = [pc EXCEPT ![r] = phase] /\ UNCHANGED told

Exit(r, how) ==
  /\ pc' = [pc EXCEPT ![r] = "idle"]
  /\ told' = [told EXCEPT ![r] = how]

\* Whether a user has the e-mail.  The mutant forgets to look.
NeverFound(r) == FALSE
Found(r) == Wanted[r] \in users

Lookup(r) ==
  /\ pc[r] = "idle"
  /\ IF Found(r) THEN Exit(r, "exists") ELSE Goto(r, "create")
  /\ UNCHANGED <<users, crashes>>

\* The e-mail of the new user.  The mutant forgets to normalize it.
EmailAsGiven(r) == Wanted[r]
EmailOf(r) == Normalize[Wanted[r]]

\* full_clean: "User with this Email already exists".
FullClean(r) ==
  /\ pc[r] = "create"
  /\ IF EmailOf(r) \in users THEN Exit(r, "error") ELSE Goto(r, "save")
  /\ UNCHANGED <<users, crashes>>

\* The unique column has the last word: IntegrityError.
Save(r) ==
  /\ pc[r] = "save"
  /\ Exit(r, IF EmailOf(r) \in users THEN "error" ELSE "created")
  /\ users' = users \union {EmailOf(r)}
  /\ UNCHANGED crashes

CutShort(r) ==
  /\ pc[r] # "idle"
  /\ crashes < MaxCrashes
  /\ crashes' = crashes + 1
  /\ Goto(r, "idle")
  /\ UNCHANGED users

BootNext == \E r \in Runs : Lookup(r) \/ FullClean(r) \/ Save(r) \/ CutShort(r)

BootSpec == BootInit /\ [][BootNext]_bootVars

-----------------------------------------------------------------------------
(* Properties.                                                             *)

\* A process that ended has left its mailbox with an account, under the e-mail
\* that everybody logs in with: also when it lost a race against another one and
\* died of the unique column, and whatever the spelling it was given.
AccountIsThere == \A r \in Runs : told[r] # "nothing" => Normalize[Wanted[r]] \in users

\* The help text of the command, "Idempotently create the platform superuser".
\* With a normalized e-mail, whatever others do: once a process has ended, every
\* later run ends at its lookup, and creates nothing.  If nobody else asks for the
\* mailbox, no run fails at all, cut short and run again as it may be.  A capital
\* in the domain voids both: the lookup does not normalize and misses the row.
RerunIsSafe ==
  \A r \in Runs : Normalize[Wanted[r]] = Wanted[r] =>
    /\ told[r] # "nothing" => pc[r] = "idle"
    /\ (\A q \in Runs \ {r} : EmailOf(q) # EmailOf(r)) => told[r] # "error"
=============================================================================
