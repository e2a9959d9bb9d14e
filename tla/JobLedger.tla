----------------------------- MODULE JobLedger ------------------------------
(***************************************************************************)
(* What the jobs API promises, one atomic step per successful request: the *)
(* Job table (a variable per column the rules read) and the JobEvent table *)
(* (per job, in the order of the rows' creation).  A step checks the       *)
(* permission and the state machine against the row it changes.            *)
(*                                                                         *)
(* JobService implements these steps with requests that read the row long  *)
(* before they lock it; it is shown to refine LedgerSpec.                  *)
(***************************************************************************)
EXTENDS Accounts, StateMachine, Sequences

CONSTANTS
  Jobs,        \* the primary keys a job may get
  Absent       \* the "status" of a job that has not been created

ASSUME LedgerAssumption == Absent \notin JobStatus

VARIABLES
  status,      \* Job.status
  agent,       \* Job.agent, NoUser for NULL
  customer,    \* Job.customer
  org,         \* Job.organization
  events       \* the job's JobEvent rows

jobVars == <<status, agent, customer, org, events>>

Event == [from : JobStatus, to : JobStatus, actor : Users]

LedgerInit ==
  /\ status = [j \in Jobs |-> Absent]
  /\ agent = [j \in Jobs |-> NoUser]
  /\ customer = [j \in Jobs |-> NoUser]
  /\ org = [j \in Jobs |-> NoOrg]
  /\ events = [j \in Jobs |-> <<>>]

-----------------------------------------------------------------------------
(* Who may do what.                                                        *)

Exists(j) == status[j] # Absent

\* OrgScopedQuerySet.for_organization
ForOrganization(u, j) == org[j] = OrgOf[u]

\* JobQuerySet.visible_to
VisibleTo(u, j) ==
  \/ u \in Superusers
  \/ /\ ForOrganization(u, j)
     /\ Role[u] = "agent" => agent[j] = u
     /\ Role[u] = "customer" => customer[j] = u

\* JobViewSet.assign: get_permissions, then get_object on the scoped queryset.
MayAssign(u, j) == IsDispatcher(u) /\ VisibleTo(u, j)

\* CanTransitionStatus.has_object_permission; the mutant lets a customer in.
AnyViewer(u, j) == VisibleTo(u, j)
CanTransitionStatus(u, j) ==
  \/ u \in Superusers
  \/ Role[u] = "dispatcher" /\ org[j] = OrgOf[u]
  \/ Role[u] = "agent" /\ agent[j] = u

MayTransition(u, j) == VisibleTo(u, j) /\ CanTransitionStatus(u, j)

\* AssignSerializer: the agent field's queryset and validate_agent.  The
\* mutant forgets the comparison of the organizations.
AnyAgent(a, j) == Role[a] = "agent"
AgentFits(a, j) == Role[a] = "agent" /\ OrgOf[a] = org[j]

\* JobCreateSerializer: the customer field's queryset and validate_customer.
CustomerFits(c, u) == Role[c] = "customer" /\ OrgOf[c] = OrgOf[u]

-----------------------------------------------------------------------------
(* The operations.                                                         *)

\* JobEvent.objects.create(job, from_status, to_status, actor).  The mutants
\* forget the row, and forget to pass the actor.
LogNothing(j, e) == UNCHANGED events
LogAnonymously(j, e) ==
  events' = [events EXCEPT ![j] = Append(@, [e EXCEPT !.actor = NoUser])]
Log(j, e) == events' = [events EXCEPT ![j] = Append(@, e)]

\* JobViewSet.create.  A creation writes no JobEvent.  A dispatcher without an
\* organization (a superuser) fails on the NOT NULL column.
Create(u, j, c) ==
  /\ ~Exists(j)
  /\ IsDispatcher(u)
  /\ OrgOf[u] \in Orgs
  /\ CustomerFits(c, u)
  /\ status' = [status EXCEPT ![j] = "new"]
  /\ customer' = [customer EXCEPT ![j] = c]
  /\ org' = [org EXCEPT ![j] = OrgOf[u]]
  /\ UNCHANGED <<agent, events>>

\* services.assign: agent, status and event in one transaction.
Assign(u, j, a) ==
  /\ Exists(j)
  /\ MayAssign(u, j)
  /\ AgentFits(a, j)
  /\ ValidTransition(status[j], "assigned")
  /\ agent' = [agent EXCEPT ![j] = a]
  /\ status' = [status EXCEPT ![j] = "assigned"]
  /\ Log(j, [from |-> status[j], to |-> "assigned", actor |-> u])
  /\ UNCHANGED <<customer, org>>

\* services.transition: any status of the serializer's choice field, so also
\* "assigned", for which it leaves the agent as it is.
Transition(u, j, s) ==
  /\ Exists(j)
  /\ MayTransition(u, j)
  /\ ValidTransition(status[j], s)
  /\ status' = [status EXCEPT ![j] = s]
  /\ Log(j, [from |-> status[j], to |-> s, actor |-> u])
  /\ UNCHANGED <<agent, customer, org>>

LedgerNext ==
  \E u \in Users, j \in Jobs :
    \/ \E c \in Users : Create(u, j, c)
    \/ \E a \in Users : Assign(u, j, a)
    \/ \E s \in JobStatus : Transition(u, j, s)

LedgerSpec == LedgerInit /\ [][LedgerNext]_jobVars

-----------------------------------------------------------------------------
(* Properties.                                                             *)

\* The columns hold what the schema allows; only a created job has an
\* organization and a customer.
LedgerTypeOK ==
  /\ status \in [Jobs -> JobStatus \union {Absent}]
  /\ agent \in [Jobs -> Users \union {NoUser}]
  /\ customer \in [Jobs -> Users \union {NoUser}]
  /\ org \in [Jobs -> Orgs \union {NoOrg}]
  /\ events \in [Jobs -> Seq(Event)]
  /\ \A j \in Jobs : IF Exists(j) THEN org[j] \in Orgs /\ customer[j] \in Users
                                 ELSE org[j] = NoOrg /\ customer[j] = NoUser

\* The status a job is left in by the first n events of its trail.
StatusAfter(trail, n) == IF n = 0 THEN "new" ELSE trail[n].to

\* data-model.md, JobEvent: "a Job.status change without a matching JobEvent
\* row is a bug".  The events of a job form one walk of the status graph that
\* starts at "new" and ends at the job's current status.
AuditTrail ==
  \A j \in Jobs :
    /\ Exists(j) => StatusAfter(events[j], Len(events[j])) = status[j]
    /\ \A i \in 1 .. Len(events[j]) :
         /\ events[j][i].from = StatusAfter(events[j], i - 1)
         /\ <<events[j][i].from, events[j][i].to>> \in TRANSITIONS

\* architecture.md #5: whoever a job's trail names was entitled to act on it,
\* a dispatcher of its organization or its agent, and still is.
EntitledActor ==
  \A j \in Jobs : \A i \in 1 .. Len(events[j]) :
    LET u == events[j][i].actor
    IN  \/ u \in Superusers
        \/ Role[u] = "dispatcher" /\ OrgOf[u] = org[j]
        \/ u = agent[j]

\* system-design.md #2: "One organization can never see another's jobs,
\* agents": whoever a job refers to belongs to the job's own organization.
TenantIsolation ==
  \A j \in Jobs :
    /\ agent[j] # NoUser => OrgOf[agent[j]] = org[j] /\ Role[agent[j]] = "agent"
    /\ customer[j] # NoUser => OrgOf[customer[j]] = org[j]
    /\ \A i \in 1 .. Len(events[j]) :
         events[j][i].actor \notin Superusers => OrgOf[events[j][i].actor] = org[j]

\* system-design.md #2, "no silent overwrites": once a job has an agent, or a
\* job is finished, no later request takes that away.
NoOverwrite ==
  [][\A j \in Jobs :
       /\ agent[j] # NoUser => agent'[j] = agent[j]
       /\ status[j] \in {"completed", "cancelled"} => status'[j] = status[j]
       /\ org[j] # NoOrg => org'[j] = org[j]]_jobVars
=============================================================================
