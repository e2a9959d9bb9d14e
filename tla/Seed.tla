-------------------------------- MODULE Seed --------------------------------
(***************************************************************************)
(* scripts/seed.py, run again and again, next to the jobs API (JobLedger): *)
(* five rows are got or created, and unless the organization has a job,    *)
(* six jobs are driven through services.py, each statement a transaction   *)
(* of its own.  A run may be cut short anywhere.                           *)
(***************************************************************************)
EXTENDS JobLedger, FiniteSets

CONSTANTS
  Demo,        \* the demo organization
  Dispatcher, Agent, Customer,  \* its users
  Profile,     \* the agent's AgentProfile
  MaxCrashes,  \* bound: how often a run is cut short
  MaxRequests  \* bound: how many requests the API serves meanwhile

\* The database has no other users of these e-mails: each is what
\* get_or_create_user makes of it.
ASSUME SeedAssumption ==
  /\ Demo \in Orgs /\ {Dispatcher, Agent, Customer} \subseteq Users
  /\ \A u \in {Dispatcher, Agent, Customer} : OrgOf[u] = Demo
  /\ Role[Dispatcher] = "dispatcher" /\ Role[Agent] = "agent"
  /\ Role[Customer] = "customer"
  /\ MaxCrashes \in Nat /\ MaxRequests \in Nat

VARIABLES
  pc,          \* "idle", "rows" (up to the users), "check", "jobs"
  ready,       \* how many of Rows this run has got or created
  rows,        \* how many of Rows exist: they come into being in order
  made,        \* the jobs this run has created
  step,        \* how many changes the last of them has seen
  seeded,      \* the jobs that any run has created
  ended,       \* how the last run ended
  crashes, requests

scriptVars == <<pc, ready, rows, made, step, seeded, ended>>
seedVars == <<jobVars, scriptVars, crashes, requests>>

Rows == <<Demo, Dispatcher, Agent, Profile, Customer>>

\* What main() makes of each job it creates.
Plan == << <<>>, <<"assigned">>, <<"assigned", "en_route">>,
           <<"assigned", "en_route", "on_site">>,
           <<"assigned", "en_route", "on_site", "completed">>,
           <<"assigned", "cancelled">> >>

SeedInit ==
  /\ LedgerInit
  /\ pc = "idle"
  /\ ready = 0 /\ rows = 0
  /\ made = <<>> /\ step = 0
  /\ seeded = {}
  /\ ended = "never"
  /\ crashes = 0 /\ requests = 0

-----------------------------------------------------------------------------
(* The script.                                                             *)

Start ==
  /\ pc = "idle"
  /\ pc' = "rows"
  /\ ready' = 0 /\ made' = <<>> /\ step' = 0
  /\ UNCHANGED <<jobVars, rows, seeded, ended, crashes, requests>>

\* get_or_create, get_or_create_user
EnsureRow ==
  /\ pc = "rows"
  /\ ready' = ready + 1
  /\ rows' = IF ready < rows THEN rows ELSE ready'
  /\ pc' = IF ready' = Len(Rows) THEN "check" ELSE "rows"
  /\ UNCHANGED <<jobVars, made, step, seeded, ended, crashes, requests>>

End(how) ==
  /\ pc' = "idle"
  /\ ended' = how
  /\ UNCHANGED <<jobVars, ready, rows, made, step, seeded, requests>>

\* The mutant looks for jobs that are still new.
HasNewJob == \E j \in Jobs : org[j] = Demo /\ status[j] = "new"
HasJobs == \E j \in Jobs : org[j] = Demo

CheckJobs ==
  /\ pc = "check"
  /\ \/ HasJobs /\ End("left")
     \/ ~HasJobs /\ pc' = "jobs"
        /\ UNCHANGED <<jobVars, ready, rows, made, step, seeded, ended, requests>>
  /\ UNCHANGED crashes

Driven == made # <<>> => step = Len(Plan[Len(made)])

\* A primary key that was never used.  The model has Jobs of them.
Unused == {j \in Jobs : ~Exists(j)}
Fresh == CHOOSE j \in Unused : TRUE

MakeJob ==
  /\ pc = "jobs" /\ Driven
  /\ Len(made) < Len(Plan) /\ Unused # {}
  /\ status' = [status EXCEPT ![Fresh] = "new"]
  /\ customer' = [customer EXCEPT ![Fresh] = Customer]
  /\ org' = [org EXCEPT ![Fresh] = Demo]
  /\ made' = Append(made, Fresh)
  /\ step' = 0
  /\ seeded' = seeded \union {Fresh}
  /\ UNCHANGED <<agent, events, pc, ready, rows, ended, crashes, requests>>

Actor(s) == IF s \in {"assigned", "cancelled"} THEN Dispatcher ELSE Agent

\* services.assign and services.transition, which ask for no permission.  The
\* mutant saves the status of the job itself.
SaveStatus(j, s) ==
  /\ status' = [status EXCEPT ![j] = s]
  /\ agent' = [agent EXCEPT ![j] = Agent]
  /\ UNCHANGED events
DriveTo(j, s) ==
  /\ ValidTransition(status[j], s)
  /\ status' = [status EXCEPT ![j] = s]
  /\ agent' = IF s = "assigned" THEN [agent EXCEPT ![j] = Agent] ELSE agent
  /\ Log(j, [from |-> status[j], to |-> s, actor |-> Actor(s)])

DriveJob ==
  /\ pc = "jobs" /\ ~Driven
  /\ DriveTo(made[Len(made)], Plan[Len(made)][step + 1])
  /\ step' = step + 1
  /\ UNCHANGED <<customer, org, pc, ready, rows, made, seeded, ended, crashes, requests>>

Finished ==
  /\ pc = "jobs" /\ Driven
  /\ Len(made) = Len(Plan)
  /\ End("seeded")
  /\ UNCHANGED crashes

\* The API was faster: validate_transition raises and the script dies of it.
Refused ==
  /\ pc = "jobs" /\ ~Driven
  /\ ~ValidTransition(status[made[Len(made)]], Plan[Len(made)][step + 1])
  /\ End("failed")
  /\ UNCHANGED crashes

Crash ==
  /\ pc # "idle"
  /\ crashes < MaxCrashes
  /\ crashes' = crashes + 1
  /\ End("failed")

Script == Start \/ EnsureRow \/ CheckJobs \/ MakeJob \/ DriveJob \/ Finished \/ Refused

-----------------------------------------------------------------------------

\* The users that exist by now use the API.
Present == {Rows[i] : i \in 1 .. rows} \intersect Users

Request ==
  /\ requests < MaxRequests
  /\ requests' = requests + 1
  /\ \E u \in Present :
       \/ Unused # {} /\ \E c \in Present : Create(u, Fresh, c)
       \/ \E j \in Jobs, a \in Present : Assign(u, j, a)
       \/ \E j \in Jobs, s \in JobStatus : Transition(u, j, s)
  /\ UNCHANGED <<scriptVars, crashes>>

SeedNext == Script \/ Crash \/ Request

SeedSpec == SeedInit /\ [][SeedNext]_seedVars

-----------------------------------------------------------------------------
(* Properties.  LedgerSpec is the docstring of seed.py: "the audit trail    *)
(* (JobEvent) and notifications this script produces are the same ones the *)
(* real API would produce": whatever the script does to the tables is a    *)
(* request that its users were permitted to make.                          *)

\* "Idempotent: safe to re-run": whatever cut a run short and whatever became of
\* its jobs through the API, running the script again adds no job a second time.
SeededOnce == Cardinality(seeded) <= Len(Plan)

\* "Seed a demo organization with one user per role and a job in every status ...
\* Idempotent: safe to re-run": a run that does not fail leaves an organization
\* where every status has, or had, a job.  A run that was cut short is taken for
\* a complete one by the next.
DoneMeansSeeded ==
  ended \in {"seeded", "left"} =>
    \A s \in JobStatus : \E j \in Jobs :
      org[j] = Demo /\ \/ s = "new"
                       \/ \E i \in 1 .. Len(events[j]) : events[j][i].to = s
=============================================================================
