-------------------------- MODULE JobLedgerProofs ---------------------------
(***************************************************************************)
(* The properties of JobLedger, for any number of users, tenants and jobs. *)
(***************************************************************************)
EXTENDS JobLedger, TLAPS

-----------------------------------------------------------------------------
(* What the operators give.                                                *)

\* StateMachine: an edge joins two statuses, only "new" leads to "assigned",
\* nothing leads to "new" and nothing leads out of a terminal status.
LEMMA Edges ==
  ASSUME NEW s, NEW t, ValidTransition(s, t)
  PROVE  /\ s \in JobStatus /\ t \in JobStatus
         /\ t # "new"
         /\ t = "assigned" <=> s = "new"
         /\ s \notin {"completed", "cancelled"}
  BY DEF ValidTransition, TRANSITIONS, JobStatus

\* JobLedger!Log appends a row to one job's trail and touches no other.
LEMMA LogAppends ==
  ASSUME NEW j \in Jobs, NEW e \in Event, events \in [Jobs -> Seq(Event)], Log(j, e)
  PROVE  /\ events' \in [Jobs -> Seq(Event)]
         /\ Len(events'[j]) = Len(events[j]) + 1
         /\ events'[j][Len(events[j]) + 1] = e
         /\ \A i \in 1 .. Len(events[j]) : events'[j][i] = events[j][i]
         /\ \A k \in Jobs \ {j} : events'[k] = events[k]
  <1>1. events[j] \in Seq(Event)
    OBVIOUS
  <1>2. events'[j] = Append(events[j], e)
    BY DEF Log
  <1>3. Append(events[j], e) \in Seq(Event)
    BY <1>1
  <1>. QED  BY <1>1, <1>2, <1>3 DEF Log

-----------------------------------------------------------------------------
(* The inductive invariant.  An unassigned job has no agent and no trail:  *)
(* that makes the agent a value that is written once.                      *)

Untouched ==
  \A j \in Jobs : status[j] \in {Absent, "new"} => agent[j] = NoUser /\ events[j] = <<>>

LedgerInv ==
  /\ LedgerTypeOK
  /\ Untouched
  /\ AuditTrail
  /\ EntitledActor
  /\ TenantIsolation

LEMMA LedgerInitial == LedgerInit => LedgerInv
  <1>. SUFFICES ASSUME LedgerInit PROVE LedgerInv
    OBVIOUS
  <1>. USE AccountsAssumption, LedgerAssumption DEF LedgerInit, Exists
  <1>1. LedgerTypeOK
    BY DEF LedgerTypeOK
  <1>2. Untouched
    BY DEF Untouched
  <1>3. AuditTrail
    BY DEF AuditTrail
  <1>4. EntitledActor /\ TenantIsolation
    BY DEF EntitledActor, TenantIsolation
  <1>. QED  BY <1>1, <1>2, <1>3, <1>4 DEF LedgerInv

LEMMA CreateKeeps ==
  ASSUME LedgerInv, NEW u \in Users, NEW j \in Jobs, NEW c \in Users, Create(u, j, c)
  PROVE  LedgerInv'
  <1>. USE AccountsAssumption, LedgerAssumption DEF LedgerInv, Create, Exists, CustomerFits
  <1>1. LedgerTypeOK'
    <2>1. "new" \in JobStatus
      BY DEF JobStatus
    <2>. QED  BY <2>1 DEF LedgerTypeOK
  <1>2. Untouched'
    BY DEF LedgerTypeOK, Untouched
  <1>3. AuditTrail'
    BY DEF LedgerTypeOK, Untouched, AuditTrail, StatusAfter
  <1>4. agent[j] = NoUser /\ events[j] = <<>>
    BY DEF Untouched
  <1>5. EntitledActor'
    BY <1>4 DEF LedgerTypeOK, EntitledActor
  <1>6. TenantIsolation'
    BY <1>4 DEF LedgerTypeOK, TenantIsolation
  <1>. QED  BY <1>1, <1>2, <1>3, <1>5, <1>6

\* Assign and Transition are one kind of step for the invariant: a legal change
\* of status by u, logged, that sets the agent at most of an unassigned job.
Change(u, j, s, a) ==
  /\ Exists(j)
  /\ ValidTransition(status[j], s)
  /\ VisibleTo(u, j)
  /\ u \in Superusers \/ Role[u] = "dispatcher" \/ a = u
  /\ agent[j] # NoUser => a = agent[j]
  /\ a # NoUser => AgentFits(a, j)
  /\ agent' = [agent EXCEPT ![j] = a]
  /\ status' = [status EXCEPT ![j] = s]
  /\ Log(j, [from |-> status[j], to |-> s, actor |-> u])
  /\ UNCHANGED <<customer, org>>

LEMMA ChangeKeeps ==
  ASSUME LedgerInv, NEW u \in Users, NEW j \in Jobs, NEW s \in JobStatus,
         NEW a \in Users \union {NoUser}, Change(u, j, s, a)
  PROVE  LedgerInv'
  <1>. DEFINE e == [from |-> status[j], to |-> s, actor |-> u]
              n == Len(events[j])
  <1>. USE AccountsAssumption, LedgerAssumption
  <1>0. /\ status[j] \in JobStatus /\ s # "new"
        /\ status' = [status EXCEPT ![j] = s]
        /\ agent' = [agent EXCEPT ![j] = a]
        /\ org' = org /\ customer' = customer
        /\ \A k \in Jobs : status[k] \in JobStatus \union {Absent}
        /\ \A k \in Jobs : agent[k] \in Users \union {NoUser}
        /\ \A k \in Jobs : events[k] \in Seq(Event)
        /\ org[j] \in Orgs
    BY Edges DEF Change, LedgerInv, LedgerTypeOK, Exists
  <1>1. e \in Event
    BY <1>0 DEF Event
  <1>2. /\ events' \in [Jobs -> Seq(Event)]
        /\ n \in Nat
        /\ Len(events'[j]) = n + 1
        /\ events'[j][n + 1] = e
        /\ \A i \in 1 .. n : events'[j][i] = events[j][i]
        /\ \A k \in Jobs \ {j} : events'[k] = events[k]
    <2>1. Log(j, e) /\ events \in [Jobs -> Seq(Event)]
      BY DEF Change, LedgerInv, LedgerTypeOK
    <2>2. n \in Nat
      BY <1>0
    <2>. QED  BY <1>1, <2>1, <2>2, LogAppends
  <1>3. LedgerTypeOK'
    BY <1>0, <1>2 DEF LedgerInv, LedgerTypeOK, Exists
  <1>4. Untouched'
    BY <1>0, <1>2 DEF LedgerInv, LedgerTypeOK, Untouched
  <1>5. AuditTrail'
    <2>. SUFFICES ASSUME NEW k \in Jobs
                  PROVE  /\ status'[k] # Absent =>
                              StatusAfter(events'[k], Len(events'[k])) = status'[k]
                         /\ \A i \in 1 .. Len(events'[k]) :
                              /\ events'[k][i].from = StatusAfter(events'[k], i - 1)
                              /\ <<events'[k][i].from, events'[k][i].to>> \in TRANSITIONS
      BY DEF AuditTrail, Exists
    <2>1. CASE k # j
      <3>1. events'[k] = events[k] /\ status'[k] = status[k]
        BY <2>1, <1>0, <1>2 DEF LedgerInv, LedgerTypeOK
      <3>. QED  BY <3>1 DEF LedgerInv, AuditTrail, Exists
    <2>2. CASE k = j
      <3>1. StatusAfter(events[j], n) = status[j]
        BY <1>0 DEF LedgerInv, AuditTrail, Exists, Change
      <3>2. StatusAfter(events'[j], n + 1) = s /\ status'[j] = s
        BY <1>0, <1>2 DEF StatusAfter, LedgerInv, LedgerTypeOK
      <3>3. \A i \in 0 .. n : StatusAfter(events'[j], i) = StatusAfter(events[j], i)
        BY <1>2 DEF StatusAfter
      <3>4. ASSUME NEW i \in 1 .. n
            PROVE  /\ events'[j][i].from = StatusAfter(events'[j], i - 1)
                   /\ <<events'[j][i].from, events'[j][i].to>> \in TRANSITIONS
        <4>1. events'[j][i] = events[j][i] /\ i - 1 \in 0 .. n
          BY <1>2
        <4>2. StatusAfter(events'[j], i - 1) = StatusAfter(events[j], i - 1)
          BY <3>3, <4>1
        <4>. QED  BY <4>1, <4>2 DEF LedgerInv, AuditTrail
      <3>5. /\ events'[j][n + 1].from = StatusAfter(events'[j], n)
            /\ <<events'[j][n + 1].from, events'[j][n + 1].to>> \in TRANSITIONS
        <4>1. StatusAfter(events'[j], n) = status[j]
          BY <3>1, <3>3, <1>2
        <4>2. <<status[j], s>> \in TRANSITIONS
          BY DEF Change, ValidTransition
        <4>. QED  BY <4>1, <4>2, <1>2
      <3>6. \A i \in 1 .. n + 1 : i \in 1 .. n \/ (i = n + 1 /\ i - 1 = n)
        BY <1>2
      <3>. HIDE DEF n
      <3>7. \A i \in 1 .. n + 1 :
              /\ events'[j][i].from = StatusAfter(events'[j], i - 1)
              /\ <<events'[j][i].from, events'[j][i].to>> \in TRANSITIONS
        BY <3>4, <3>5, <3>6
      <3>. QED  BY <2>2, <1>2, <3>2, <3>7
    <2>. QED  BY <2>1, <2>2
  <1>6. EntitledActor'
    <2>. SUFFICES ASSUME NEW k \in Jobs, NEW i \in 1 .. Len(events'[k])
                  PROVE  LET v == events'[k][i].actor
                         IN  \/ v \in Superusers
                             \/ Role[v] = "dispatcher" /\ OrgOf[v] = org[k]
                             \/ v = agent'[k]
      BY <1>0 DEF EntitledActor
    <2>1. CASE k # j
      <3>1. events'[k] = events[k] /\ agent'[k] = agent[k]
        BY <2>1, <1>0, <1>2 DEF LedgerInv, LedgerTypeOK
      <3>. QED  BY <2>1, <3>1 DEF LedgerInv, EntitledActor
    <2>2. CASE k = j /\ i = n + 1
      BY <2>2, <1>0, <1>2 DEF Change, VisibleTo, ForOrganization, LedgerInv, LedgerTypeOK
    <2>3. CASE k = j /\ i \in 1 .. n
      <3>1. events'[j][i] = events[j][i]
        BY <2>3, <1>2
      <3>2. LET v == events[j][i].actor
            IN  \/ v \in Superusers
                \/ Role[v] = "dispatcher" /\ OrgOf[v] = org[j]
                \/ v = agent[j]
        BY <2>3 DEF LedgerInv, EntitledActor
      <3>3. events[j][i].actor \in Users
        <4>1. events[j] \in Seq(Event) /\ i \in 1 .. Len(events[j])
          BY <2>3, <1>0
        <4>2. events[j][i] \in Event
          BY <4>1
        <4>. QED  BY <4>2 DEF Event
      <3>4. agent'[j] = a
        BY <1>0 DEF LedgerInv, LedgerTypeOK
      <3>5. agent[j] # NoUser => a = agent[j]
        BY DEF Change
      <3>. QED  BY <2>3, <3>1, <3>2, <3>3, <3>4, <3>5
    <2>. QED  BY <2>1, <2>2, <2>3, <1>2
  <1>7. TenantIsolation'
    <2>. SUFFICES ASSUME NEW k \in Jobs
                  PROVE  /\ agent'[k] # NoUser =>
                              OrgOf[agent'[k]] = org[k] /\ Role[agent'[k]] = "agent"
                         /\ customer[k] # NoUser => OrgOf[customer[k]] = org[k]
                         /\ \A i \in 1 .. Len(events'[k]) :
                              events'[k][i].actor \notin Superusers =>
                                OrgOf[events'[k][i].actor] = org[k]
      BY <1>0 DEF TenantIsolation
    <2>1. CASE k # j
      <3>1. events'[k] = events[k] /\ agent'[k] = agent[k]
        BY <2>1, <1>0, <1>2 DEF LedgerInv, LedgerTypeOK
      <3>. QED  BY <3>1 DEF LedgerInv, TenantIsolation
    <2>2. CASE k = j
      <3>1. agent'[j] # NoUser => OrgOf[agent'[j]] = org[j] /\ Role[agent'[j]] = "agent"
        BY <1>0 DEF Change, AgentFits, LedgerInv, LedgerTypeOK
      <3>2. \A i \in 1 .. n :
              events[j][i].actor \notin Superusers => OrgOf[events[j][i].actor] = org[j]
        BY DEF LedgerInv, TenantIsolation
      <3>3. u \notin Superusers => OrgOf[u] = org[j]
        BY DEF Change, VisibleTo, ForOrganization
      <3>4. \A i \in 1 .. n + 1 : i \in 1 .. n \/ i = n + 1
        BY <1>2
      <3>5. customer[j] # NoUser => OrgOf[customer[j]] = org[j]
        BY DEF LedgerInv, TenantIsolation
      <3>. QED  BY <2>2, <3>1, <3>2, <3>3, <3>4, <3>5, <1>2
    <2>. QED  BY <2>1, <2>2
  <1>. QED  BY <1>3, <1>4, <1>5, <1>6, <1>7 DEF LedgerInv

LEMMA AssignChanges ==
  ASSUME LedgerInv, NEW u \in Users, NEW j \in Jobs, NEW a \in Users, Assign(u, j, a)
  PROVE  Change(u, j, "assigned", a)
  <1>1. agent[j] = NoUser
    BY Edges DEF LedgerInv, Untouched, Assign
  <1>. QED  BY <1>1 DEF Assign, Change, MayAssign, IsDispatcher

LEMMA TransitionChanges ==
  ASSUME LedgerInv, NEW u \in Users, NEW j \in Jobs, NEW s \in JobStatus, Transition(u, j, s)
  PROVE  Change(u, j, s, agent[j]) /\ agent[j] \in Users \union {NoUser}
  <1>1. agent[j] \in Users \union {NoUser} /\ agent' = [agent EXCEPT ![j] = agent[j]]
    BY DEF LedgerInv, LedgerTypeOK, Transition
  <1>2. agent[j] # NoUser => AgentFits(agent[j], j)
    BY <1>1 DEF LedgerInv, TenantIsolation, AgentFits
  <1>. QED  BY <1>1, <1>2 DEF Transition, Change, MayTransition, CanTransitionStatus

LEMMA LedgerStep == LedgerInv /\ [LedgerNext]_jobVars => LedgerInv'
  <1>. SUFFICES ASSUME LedgerInv, [LedgerNext]_jobVars PROVE LedgerInv'
    OBVIOUS
  <1>1. ASSUME NEW u \in Users, NEW j \in Jobs, NEW c \in Users, Create(u, j, c)
        PROVE  LedgerInv'
    BY <1>1, CreateKeeps
  <1>2. ASSUME NEW u \in Users, NEW j \in Jobs, NEW a \in Users, Assign(u, j, a)
        PROVE  LedgerInv'
    <2>1. "assigned" \in JobStatus
      BY DEF JobStatus
    <2>. QED  BY <1>2, <2>1, AssignChanges, ChangeKeeps
  <1>3. ASSUME NEW u \in Users, NEW j \in Jobs, NEW s \in JobStatus, Transition(u, j, s)
        PROVE  LedgerInv'
    BY <1>3, TransitionChanges, ChangeKeeps
  <1>4. CASE UNCHANGED jobVars
    BY <1>4 DEF jobVars, LedgerInv, LedgerTypeOK, Untouched, AuditTrail, EntitledActor,
                TenantIsolation, Exists, StatusAfter
  <1>. QED  BY <1>1, <1>2, <1>3, <1>4 DEF LedgerNext

-----------------------------------------------------------------------------
(* The theorems.                                                           *)

\* Every reachable state of the ledger satisfies the inductive invariant.
THEOREM LedgerInvariant == LedgerSpec => []LedgerInv
  BY LedgerInitial, LedgerStep, PTL DEF LedgerSpec

\* The Job and JobEvent columns keep their types.
THEOREM LedgerTypeCorrect == LedgerSpec => []LedgerTypeOK
  <1>1. LedgerInv => LedgerTypeOK
    BY DEF LedgerInv
  <1>. QED  BY <1>1, LedgerInvariant, PTL

\* Every status change has its JobEvent and the trail is a legal walk from
\* "new" to the current status, however many jobs and users there are.
THEOREM AuditTrailCorrect == LedgerSpec => []AuditTrail
  <1>1. LedgerInv => AuditTrail
    BY DEF LedgerInv
  <1>. QED  BY <1>1, LedgerInvariant, PTL

\* Nobody but a dispatcher of the job's organization, the job's agent or a
\* superuser ever appears in the job's trail.
THEOREM EntitledActors == LedgerSpec => []EntitledActor
  <1>1. LedgerInv => EntitledActor
    BY DEF LedgerInv
  <1>. QED  BY <1>1, LedgerInvariant, PTL

\* A job never refers to another tenant's agent, customer or dispatcher.
THEOREM TenantsIsolated == LedgerSpec => []TenantIsolation
  <1>1. LedgerInv => TenantIsolation
    BY DEF LedgerInv
  <1>. QED  BY <1>1, LedgerInvariant, PTL

\* An agent, once set, a terminal status and the organization never change.
LEMMA NothingOverwritten ==
  ASSUME LedgerInv, LedgerNext
  PROVE  \A j \in Jobs :
           /\ agent[j] # NoUser => agent'[j] = agent[j]
           /\ status[j] \in {"completed", "cancelled"} => status'[j] = status[j]
           /\ org[j] # NoOrg => org'[j] = org[j]
  <1>. USE AccountsAssumption, LedgerAssumption DEF LedgerInv, LedgerTypeOK
  <1>1. ASSUME NEW u \in Users, NEW k \in Jobs, NEW c \in Users, Create(u, k, c),
               NEW j \in Jobs
        PROVE  /\ agent[j] # NoUser => agent'[j] = agent[j]
               /\ status[j] \in {"completed", "cancelled"} => status'[j] = status[j]
               /\ org[j] # NoOrg => org'[j] = org[j]
    <2>1. {"completed", "cancelled"} \subseteq JobStatus
      BY DEF JobStatus
    <2>. QED  BY <1>1, <2>1 DEF Create, Exists
  <1>2. ASSUME NEW u \in Users, NEW k \in Jobs, NEW s \in JobStatus,
               NEW a \in Users \union {NoUser}, Change(u, k, s, a), NEW j \in Jobs
        PROVE  /\ agent[j] # NoUser => agent'[j] = agent[j]
               /\ status[j] \in {"completed", "cancelled"} => status'[j] = status[j]
               /\ org[j] # NoOrg => org'[j] = org[j]
    BY <1>2, Edges DEF Change
  <1>3. "assigned" \in JobStatus
    BY DEF JobStatus
  <1>. QED  BY <1>1, <1>2, <1>3, AssignChanges, TransitionChanges DEF LedgerNext

\* No request overwrites what an earlier one settled.
THEOREM NothingIsOverwritten == LedgerSpec => NoOverwrite
  <1>1. LedgerInv /\ [LedgerNext]_jobVars =>
          [\A j \in Jobs :
             /\ agent[j] # NoUser => agent'[j] = agent[j]
             /\ status[j] \in {"completed", "cancelled"} => status'[j] = status[j]
             /\ org[j] # NoOrg => org'[j] = org[j]]_jobVars
    BY NothingOverwritten
  <1>. QED  BY <1>1, LedgerInvariant, PTL DEF LedgerSpec, NoOverwrite

-----------------------------------------------------------------------------
(* A walk of the graph goes down one level with each event.                *)

TrailsAreDeep == \A j \in Jobs : Len(events[j]) = Depth(status[j])

TrailsAreShort == \A j \in Jobs : Len(events[j]) <= MaxDepth

LEMMA EdgesGoDown ==
  ASSUME NEW s, NEW t, ValidTransition(s, t)
  PROVE  Depth(t) = Depth(s) + 1
  BY DEF ValidTransition, TRANSITIONS, Depth

LEMMA TrailsDeepen ==
  ASSUME LedgerInv, TrailsAreDeep, LedgerNext
  PROVE  TrailsAreDeep'
  <1>1. ASSUME NEW u \in Users, NEW k \in Jobs, NEW c \in Users, Create(u, k, c)
        PROVE  TrailsAreDeep'
    <2>1. /\ status' = [status EXCEPT ![k] = "new"] /\ events' = events
          /\ status[k] = Absent /\ DOMAIN status = Jobs
      BY <1>1 DEF Create, Exists, LedgerInv, LedgerTypeOK
    <2>2. Depth(Absent) = 0 /\ Depth("new") = 0
      BY LedgerAssumption DEF Depth, JobStatus
    <2>. QED  BY <2>1, <2>2 DEF TrailsAreDeep
  <1>2. ASSUME NEW u \in Users, NEW k \in Jobs, NEW s \in JobStatus,
               NEW a \in Users \union {NoUser}, Change(u, k, s, a)
        PROVE  TrailsAreDeep'
    <2>. DEFINE e == [from |-> status[k], to |-> s, actor |-> u]
    <2>1. e \in Event /\ events \in [Jobs -> Seq(Event)] /\ Log(k, e)
      BY <1>2, Edges DEF Change, Event, LedgerInv, LedgerTypeOK
    <2>. HIDE DEF e
    <2>2. /\ Len(events'[k]) = Len(events[k]) + 1
          /\ \A l \in Jobs \ {k} : events'[l] = events[l]
      BY <2>1, LogAppends
    <2>3. /\ status'[k] = s /\ Depth(s) = Depth(status[k]) + 1
          /\ \A l \in Jobs \ {k} : status'[l] = status[l]
      BY <1>2, EdgesGoDown DEF Change, LedgerInv, LedgerTypeOK
    <2>. QED  BY <2>2, <2>3 DEF TrailsAreDeep
  <1>3. "assigned" \in JobStatus
    BY DEF JobStatus
  <1>. QED  BY <1>1, <1>2, <1>3, AssignChanges, TransitionChanges DEF LedgerNext

\* A job has at most MaxDepth changes of status in its life, whoever asks for
\* however many: what bounds the history also bounds the callbacks it causes.
THEOREM TrailsStayShort == LedgerSpec => []TrailsAreShort
  <1>1. LedgerInit => TrailsAreDeep
    <2>1. Depth(Absent) = 0
      BY LedgerAssumption DEF Depth, JobStatus
    <2>. QED  BY <2>1 DEF LedgerInit, TrailsAreDeep
  <1>2. LedgerInv /\ TrailsAreDeep /\ [LedgerNext]_jobVars => TrailsAreDeep'
    <2>. SUFFICES ASSUME TrailsAreDeep, UNCHANGED jobVars PROVE TrailsAreDeep'
      BY TrailsDeepen
    <2>. QED  BY DEF jobVars, TrailsAreDeep
  <1>3. TrailsAreDeep => TrailsAreShort
    BY DEF TrailsAreDeep, TrailsAreShort, Depth, MaxDepth
  <1>. QED  BY <1>1, <1>2, <1>3, LedgerInvariant, PTL DEF LedgerSpec

-----------------------------------------------------------------------------
(* A PATCH of the status to "assigned" is a legal request on a new job.    *)

\* services.transition leaves such a job without an agent, and nothing repairs
\* that: services.assign asks for the edge into "assigned" again.
Orphaned(j) == status[j] \in JobStatus \ {"new"} /\ agent[j] = NoUser

LEMMA OrphanStays ==
  ASSUME LedgerInv, LedgerNext, NEW j \in Jobs, Orphaned(j)
  PROVE  Orphaned(j)'
  <1>. USE DEF Orphaned
  <1>1. ASSUME NEW u \in Users, NEW k \in Jobs, NEW c \in Users, Create(u, k, c)
        PROVE  Orphaned(j)'
    BY <1>1, LedgerAssumption DEF Create, Exists, LedgerInv, LedgerTypeOK
  <1>2. ASSUME NEW u \in Users, NEW k \in Jobs, NEW a \in Users, Assign(u, k, a)
        PROVE  Orphaned(j)'
    <2>1. status[k] = "new"
      BY <1>2, Edges DEF Assign
    <2>. QED  BY <1>2, <2>1 DEF Assign, LedgerInv, LedgerTypeOK
  <1>3. ASSUME NEW u \in Users, NEW k \in Jobs, NEW s \in JobStatus, Transition(u, k, s)
        PROVE  Orphaned(j)'
    <2>1. s # "new"
      BY <1>3, Edges DEF Transition
    <2>. QED  BY <1>3, <2>1 DEF Transition, LedgerInv, LedgerTypeOK
  <1>. QED  BY <1>1, <1>2, <1>3 DEF LedgerNext

\* No request ever gives an orphaned job an agent.
THEOREM OrphansStay == LedgerSpec => [][\A j \in Jobs : Orphaned(j) => Orphaned(j)']_jobVars
  <1>1. LedgerInv /\ [LedgerNext]_jobVars =>
          [\A j \in Jobs : Orphaned(j) => Orphaned(j)']_jobVars
    BY OrphanStays
  <1>. QED  BY <1>1, LedgerInvariant, PTL DEF LedgerSpec
=============================================================================
