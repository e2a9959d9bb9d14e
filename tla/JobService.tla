----------------------------- MODULE JobService -----------------------------
(***************************************************************************)
(* The jobs API as the server runs it: concurrent requests, each a thread  *)
(* that goes through views.py, services.py and the on_commit callback,     *)
(* with a PostgreSQL row lock per job between them.                        *)
(*                                                                         *)
(* "idle"    no request                                                    *)
(* "begin"   get_object, the permissions and the serializer are done: the  *)
(*           request passed them on a row read WITHOUT a lock              *)
(* "locked"  select_for_update().get() returned; the row lock is held      *)
(* "written" save() and JobEvent.objects.create() are done, uncommitted    *)
(* "org"     committed, lock released; the callback is about to broadcast  *)
(*           to the organization's group                                   *)
(* "job"     about to broadcast to the job's group                         *)
(* "delay"   about to call notify_status_change.delay()                    *)
(***************************************************************************)
EXTENDS JobLedger, FiniteSets, Functions

CONSTANTS
  Requests,    \* the server's threads
  NoRequest,   \* what an idle thread serves
  Targets,     \* bound: the statuses that clients ask for
  MaxFaults    \* bound: how often a thread crashes or a statement raises

ASSUME ServiceAssumption ==
  /\ NoRequest \notin [user : Users, job : Jobs, to : JobStatus,
                       agent : Users \union {NoUser}]
  /\ Targets \subseteq JobStatus
  /\ MaxFaults \in Nat

VARIABLES
  pc,          \* where each thread is
  req,         \* what it was asked: user, job, to, and for an assign the agent
  from,        \* from_status: the status of the row it locked
  orgFeed,     \* per job, the job.update statuses sent to the org's group
  jobFeed,     \* per job, the job.update statuses sent to the job's group
  queue,       \* per job, the notify_status_change messages in the broker
  faults       \* the failures so far

threadVars == <<pc, req, from, faults>>
outVars == <<orgFeed, jobFeed, queue>>
serviceVars == <<jobVars, threadVars, outVars>>

Request == [user : Users, job : Jobs, to : JobStatus,
            agent : Users \union {NoUser}]

InTransaction == {"locked", "written"}
InCallback == {"org", "job", "delay"}
Phases == {"idle", "begin"} \union InTransaction \union InCallback

ServiceInit ==
  /\ LedgerInit
  /\ pc = [r \in Requests |-> "idle"]
  /\ req = [r \in Requests |-> NoRequest]
  /\ from = [r \in Requests |-> Absent]
  /\ orgFeed = [j \in Jobs |-> <<>>]
  /\ jobFeed = [j \in Jobs |-> <<>>]
  /\ queue = [j \in Jobs |-> 0]
  /\ faults = 0

-----------------------------------------------------------------------------
(* The request, up to the transaction.                                     *)

Goto(r, phase) == pc' = [pc EXCEPT ![r] = phase]

\* The thread is done with its request: answered, or given up.
Finish(r) ==
  /\ pc' = [pc EXCEPT ![r] = "idle"]
  /\ req' = [req EXCEPT ![r] = NoRequest]
  /\ from' = [from EXCEPT ![r] = Absent]

\* A creation is a single INSERT.
CreateJob == \E u \in Users, j \in Jobs, c \in Users :
  /\ Create(u, j, c)
  /\ UNCHANGED <<threadVars, outVars>>

\* The view up to the call of the service.
Accept(r, q) ==
  /\ pc[r] = "idle"
  /\ Exists(q.job)
  /\ Goto(r, "begin")
  /\ req' = [req EXCEPT ![r] = q]
  /\ UNCHANGED <<from, faults, jobVars, outVars>>

GetForAssign(r) == \E u \in Users, j \in Jobs, a \in Users :
  /\ MayAssign(u, j)
  /\ AgentFits(a, j)
  /\ Accept(r, [user |-> u, job |-> j, to |-> "assigned", agent |-> a])

GetForTransition(r) == \E u \in Users, j \in Jobs, s \in Targets :
  /\ MayTransition(u, j)
  /\ Accept(r, [user |-> u, job |-> j, to |-> s, agent |-> NoUser])

-----------------------------------------------------------------------------
(* The transaction.                                                        *)

Holds(r, j) == pc[r] \in InTransaction /\ req[r].job = j

\* select_for_update waits while another transaction holds the row; the
\* mutant reads it with a plain get().
ReadUnlocked(j) == TRUE
RowFree(j) == \A r \in Requests : ~Holds(r, j)

SelectForUpdate(r) ==
  /\ pc[r] = "begin"
  /\ RowFree(req[r].job)
  /\ Goto(r, "locked")
  /\ from' = [from EXCEPT ![r] = status[req[r].job]]
  /\ UNCHANGED <<req, faults, jobVars, outVars>>

\* validate_transition raises: rollback, and a 400 for the client.  The mutant
\* answers the client and leaves the transaction open.
RejectLeavesOpen(r) ==
  /\ pc[r] = "locked"
  /\ ~ValidTransition(from[r], req[r].to)
  /\ UNCHANGED serviceVars

Reject(r) ==
  /\ pc[r] = "locked"
  /\ ~ValidTransition(from[r], req[r].to)
  /\ Finish(r)
  /\ UNCHANGED <<faults, jobVars, outVars>>

\* send_to_group, with the status of the row in memory.
SendToGroup(feed, r) == [feed EXCEPT ![req[r].job] = Append(@, req[r].to)]

\* save() and JobEvent.objects.create(): nobody else sees them yet.  The
\* mutant broadcasts from inside the transaction instead of on commit.
BroadcastInTransaction(r) ==
  /\ pc[r] = "locked"
  /\ ValidTransition(from[r], req[r].to)
  /\ Goto(r, "written")
  /\ orgFeed' = SendToGroup(orgFeed, r)
  /\ UNCHANGED <<req, from, faults, jobVars, jobFeed, queue>>

Write(r) ==
  /\ pc[r] = "locked"
  /\ ValidTransition(from[r], req[r].to)
  /\ Goto(r, "written")
  /\ UNCHANGED <<req, from, faults, jobVars, outVars>>

\* Whether the request is an assign: services.assign saves agent and status,
\* services.transition the status only.
IsAssign(q) == q.agent # NoUser

\* COMMIT makes the row and the event visible and releases the lock.
Commit(r) ==
  LET q == req[r]
  IN  /\ pc[r] = "written"
      /\ status' = [status EXCEPT ![q.job] = q.to]
      /\ agent' = IF IsAssign(q) THEN [agent EXCEPT ![q.job] = q.agent] ELSE agent
      /\ Log(q.job, [from |-> from[r], to |-> q.to, actor |-> q.user])
      /\ Goto(r, "org")
      /\ UNCHANGED <<req, from, faults, customer, org, outVars>>

-----------------------------------------------------------------------------
(* _on_status_committed.  The mutants forget the job's own group, and skip *)
(* a status that has been overtaken.                                       *)

PublishOrgOnly(r) ==
  /\ pc[r] = "org"
  /\ orgFeed' = SendToGroup(orgFeed, r)
  /\ Goto(r, "delay")
  /\ UNCHANGED <<req, from, faults, jobVars, jobFeed, queue>>

PublishOrg(r) ==
  /\ pc[r] = "org"
  /\ orgFeed' = SendToGroup(orgFeed, r)
  /\ Goto(r, "job")
  /\ UNCHANGED <<req, from, faults, jobVars, jobFeed, queue>>

PublishJobIfCurrent(r) ==
  /\ pc[r] = "job"
  /\ jobFeed' = IF status[req[r].job] = req[r].to
                THEN SendToGroup(jobFeed, r)
                ELSE jobFeed
  /\ Goto(r, "delay")
  /\ UNCHANGED <<req, from, faults, jobVars, orgFeed, queue>>

PublishJob(r) ==
  /\ pc[r] = "job"
  /\ jobFeed' = SendToGroup(jobFeed, r)
  /\ Goto(r, "delay")
  /\ UNCHANGED <<req, from, faults, jobVars, orgFeed, queue>>

Delay(r) ==
  /\ pc[r] = "delay"
  /\ queue' = [queue EXCEPT ![req[r].job] = @ + 1]
  /\ Finish(r)
  /\ UNCHANGED <<faults, jobVars, orgFeed, jobFeed>>

-----------------------------------------------------------------------------
(* Failures: the process dies, the database or Redis cannot be reached.    *)

Fault == faults < MaxFaults /\ faults' = faults + 1

\* Before the commit the database undoes the transaction.  The mutant is a
\* service without transaction.atomic(): what was saved stays saved.
RollbackKeepsRow(r) ==
  /\ Fault
  /\ pc[r] \in {"begin"} \union InTransaction
  /\ status' = IF pc[r] = "written"
               THEN [status EXCEPT ![req[r].job] = req[r].to]
               ELSE status
  /\ Finish(r)
  /\ UNCHANGED <<agent, customer, org, events, outVars>>

Rollback(r) ==
  /\ Fault
  /\ pc[r] \in {"begin"} \union InTransaction
  /\ Finish(r)
  /\ UNCHANGED <<jobVars, outVars>>

\* After it the change stands and the rest of the callback never runs: an
\* exception in on_commit is a 500 for a change that took place.
CutCallback(r) ==
  /\ Fault
  /\ pc[r] \in InCallback
  /\ Finish(r)
  /\ UNCHANGED <<jobVars, outVars>>

Serve(r) ==
  \/ SelectForUpdate(r) \/ Reject(r) \/ Write(r) \/ Commit(r)
  \/ PublishOrg(r) \/ PublishJob(r) \/ Delay(r)

ServiceNext ==
  \/ CreateJob
  \/ \E r \in Requests :
       \/ GetForAssign(r) \/ GetForTransition(r)
       \/ Serve(r)
       \/ Rollback(r) \/ CutCallback(r)

ServiceSpec == ServiceInit /\ [][ServiceNext]_serviceVars

\* A server that does not crash runs every request to its end, and PostgreSQL
\* grants a row lock to its waiters in turn: a thread whose turn keeps coming
\* gets it (SF), however often others are served in between.
Fairness == \A r \in Requests :
  /\ SF_serviceVars(SelectForUpdate(r))
  /\ WF_serviceVars(Serve(r))

FairServiceSpec == ServiceSpec /\ Fairness

-----------------------------------------------------------------------------
(* Properties.  The first of them is LedgerSpec itself: however requests   *)
(* interleave and fail, the tables change as if each successful request    *)
(* had been one atomic step, permitted by the row it changed.              *)

ServiceTypeOK ==
  /\ LedgerTypeOK
  /\ pc \in [Requests -> Phases]
  /\ req \in [Requests -> Request \union {NoRequest}]
  /\ from \in [Requests -> JobStatus \union {Absent}]
  /\ orgFeed \in [Jobs -> Seq(JobStatus)]
  /\ jobFeed \in [Jobs -> Seq(JobStatus)]
  /\ queue \in [Jobs -> Nat]
  /\ faults \in 0 .. MaxFaults

Changes(j) == {events[j][i].to : i \in 1 .. Len(events[j])}

\* The docstring of _on_status_committed: "Fired once a status change has
\* actually committed - never for a transition that gets rolled back".  A
\* group hears of committed changes only, of each at most once, of none in the
\* job's room that was not sent to the organization first; and there are never
\* more notification tasks than changes announced in the job's room.
FanoutFollowsCommit ==
  \A j \in Jobs :
    /\ Range(orgFeed[j]) \subseteq Changes(j)
    /\ Range(jobFeed[j]) \subseteq Range(orgFeed[j])
    /\ Len(orgFeed[j]) = Cardinality(Range(orgFeed[j]))
    /\ Len(jobFeed[j]) = Cardinality(Range(jobFeed[j]))
    /\ queue[j] <= Len(jobFeed[j])

\* What the view checked before it called the service.
Entitled(q) ==
  IF IsAssign(q) THEN MayAssign(q.user, q.job) /\ AgentFits(q.agent, q.job)
                 ELSE MayTransition(q.user, q.job)

\* views.py reads the job and checks the permission before services.py locks
\* it.  The stale answer does no harm: whoever is about to commit would still
\* pass the same check on the current row.
StillPermitted ==
  \A r \in Requests : pc[r] = "written" => Entitled(req[r])

\* services.py locks the row it validates: of all open transactions at most one
\* has read a job, and what it read is what the job still is when it commits.
ValidatedRowIsCurrent ==
  \A r \in Requests : pc[r] \in InTransaction =>
    /\ from[r] = status[req[r].job]
    /\ \A q \in Requests \ {r} : ~Holds(q, req[r].job)

\* After the commit the callback's three statements run one by one, and whatever
\* interrupts them loses the rest for good: nobody repeats it.  But each failure
\* costs no more than ONE change its broadcasts or its notification task, however
\* callbacks for the job overlap; without failures, every change has all three.
FanoutComplete ==
  \A j \in Jobs :
    (\A r \in Requests : pc[r] \in InCallback => req[r].job # j) =>
      \A fanout \in {Len(orgFeed[j]), Len(jobFeed[j]), queue[j]} :
        Len(events[j]) <= fanout + faults

\* No request waits for a row lock forever, however the others are served.
RequestAnswered == \A r \in Requests : pc[r] = "begin" ~> pc[r] = "idle"

\* A committed change is eventually announced in the job's room, unless a process
\* fails, though the requests that follow it may overtake its callback.
ChangeAnnounced ==
  \A j \in Jobs, s \in JobStatus :
    s \in Changes(j) ~> s \in Range(jobFeed[j]) \/ faults > 0

-----------------------------------------------------------------------------
(* What the repository says of the program and the program does not do.    *)

\* The docstring of services.assign: "so two dispatchers can't race to assign
\* the same job (or grab the same agent for two jobs) at once".
NoConcurrentGrab ==
  \A r, q \in Requests :
    /\ pc[r] = "written" /\ IsAssign(req[r])
    /\ pc[q] = "written" /\ IsAssign(req[q])
    /\ req[r].agent = req[q].agent
    => req[r].job = req[q].job
=============================================================================
