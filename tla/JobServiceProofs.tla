-------------------------- MODULE JobServiceProofs --------------------------
(***************************************************************************)
(* The server implements the ledger for any number of threads, jobs, users *)
(* and failures; the ledger's theorems then hold of the server.  The       *)
(* second part is about the callbacks: what is announced and queued.       *)
(***************************************************************************)
EXTENDS JobService, JobLedgerProofs, FunctionTheorems, FiniteSetTheorems

-----------------------------------------------------------------------------
(* The inductive invariant.                                                *)

\* A thread that is not idle serves a request about a job that exists.
RequestsSound ==
  \A r \in Requests : pc[r] # "idle" =>
    /\ req[r] \in Request
    /\ Exists(req[r].job)
    /\ IsAssign(req[r]) => req[r].to = "assigned"

\* The check of the view still holds from the read without a lock to the commit.
RequestsPermitted ==
  \A r \in Requests : pc[r] \in {"begin"} \union InTransaction => Entitled(req[r])

\* What has been written was validated.
WritesValid ==
  \A r \in Requests : pc[r] = "written" => ValidTransition(from[r], req[r].to)

ThreadInv ==
  /\ RequestsSound
  /\ RequestsPermitted
  /\ WritesValid
  /\ ValidatedRowIsCurrent

ServiceInv == ServiceTypeOK /\ LedgerInv /\ ThreadInv

LEMMA ServiceInitial == ServiceInit => ServiceInv
  <1>. SUFFICES ASSUME ServiceInit PROVE ServiceInv
    OBVIOUS
  <1>. USE ServiceAssumption DEF ServiceInit
  <1>1. LedgerInv
    BY LedgerInitial
  <1>2. ServiceTypeOK
    BY <1>1 DEF ServiceTypeOK, LedgerInv, Phases
  <1>3. ThreadInv
    BY DEF ThreadInv, RequestsSound, RequestsPermitted, WritesValid, ValidatedRowIsCurrent,
           InTransaction
  <1>. QED  BY <1>1, <1>2, <1>3 DEF ServiceInv

-----------------------------------------------------------------------------
(* Refinement, step by step: only a creation and a commit change a table.  *)

LEMMA CommitRefines ==
  ASSUME ServiceInv, NEW r \in Requests, Commit(r)
  PROVE  LedgerNext
  <1>. DEFINE q == req[r]
  <1>1. /\ q \in Request /\ Exists(q.job) /\ Entitled(q)
        /\ IsAssign(q) => q.to = "assigned"
        /\ ValidTransition(from[r], q.to)
        /\ from[r] = status[q.job]
    BY DEF Commit, ServiceInv, ThreadInv, RequestsSound, RequestsPermitted, WritesValid,
           ValidatedRowIsCurrent, InTransaction
  <1>2. /\ q.user \in Users /\ q.job \in Jobs /\ q.to \in JobStatus
        /\ q.agent \in Users \union {NoUser}
    BY <1>1 DEF Request
  <1>3. CASE IsAssign(q)
    <2>1. Assign(q.user, q.job, q.agent)
      BY <1>1, <1>3 DEF Commit, Assign, Entitled
    <2>. QED  BY <1>2, <1>3, <2>1 DEF LedgerNext, IsAssign
  <1>4. CASE ~IsAssign(q)
    <2>1. Transition(q.user, q.job, q.to)
      BY <1>1, <1>4 DEF Commit, Transition, Entitled
    <2>. QED  BY <1>2, <2>1 DEF LedgerNext
  <1>. QED  BY <1>3, <1>4

OtherStep(r) ==
  \/ GetForAssign(r) \/ GetForTransition(r) \/ SelectForUpdate(r) \/ Reject(r)
  \/ Write(r) \/ PublishOrg(r) \/ PublishJob(r) \/ Delay(r)
  \/ Rollback(r) \/ CutCallback(r)

LEMMA OtherStepsKeepTables ==
  ASSUME NEW r \in Requests, OtherStep(r)
  PROVE  UNCHANGED jobVars
  BY DEF OtherStep, GetForAssign, GetForTransition, Accept, SelectForUpdate, Reject, Write,
         PublishOrg, PublishJob, Delay, Rollback, CutCallback

LEMMA StepRefines ==
  ASSUME ServiceInv, [ServiceNext]_serviceVars
  PROVE  [LedgerNext]_jobVars
  <1>1. CASE CreateJob
    BY <1>1 DEF CreateJob, LedgerNext
  <1>2. ASSUME NEW r \in Requests, Commit(r)
        PROVE  LedgerNext
    BY <1>2, CommitRefines
  <1>3. ASSUME NEW r \in Requests, OtherStep(r) PROVE UNCHANGED jobVars
    BY <1>3, OtherStepsKeepTables
  <1>4. CASE UNCHANGED serviceVars
    BY <1>4 DEF serviceVars
  <1>. QED  BY <1>1, <1>2, <1>3, <1>4 DEF ServiceNext, Serve, OtherStep

-----------------------------------------------------------------------------
(* The invariant is preserved.                                             *)

\* The lemmas that JobAdminProofs needs as well assume no more of the tables
\* than what holds where staff change them.
RequestsTyped == \A r \in Requests : pc[r] # "idle" => req[r] \in Request

LEMMA ServiceTypeStep ==
  ASSUME ServiceTypeOK, RequestsTyped, LedgerTypeOK', [ServiceNext]_serviceVars
  PROVE  ServiceTypeOK'
  <1>. USE ServiceAssumption
       DEF ServiceTypeOK, Goto, Finish, Phases, InTransaction, InCallback
  <1>1. CASE CreateJob
    BY <1>1 DEF CreateJob, threadVars, outVars
  <1>2. ASSUME NEW r \in Requests, GetForAssign(r) PROVE ServiceTypeOK'
    <2>1. PICK u \in Users, j \in Jobs, a \in Users :
            Accept(r, [user |-> u, job |-> j, to |-> "assigned", agent |-> a])
      BY <1>2 DEF GetForAssign
    <2>2. [user |-> u, job |-> j, to |-> "assigned", agent |-> a] \in Request
      BY DEF Request, JobStatus
    <2>. QED  BY <2>1, <2>2 DEF Accept, outVars
  <1>3. ASSUME NEW r \in Requests, GetForTransition(r) PROVE ServiceTypeOK'
    <2>1. PICK u \in Users, j \in Jobs, s \in Targets :
            Accept(r, [user |-> u, job |-> j, to |-> s, agent |-> NoUser])
      BY <1>3 DEF GetForTransition
    <2>2. [user |-> u, job |-> j, to |-> s, agent |-> NoUser] \in Request
      BY DEF Request
    <2>. QED  BY <2>1, <2>2 DEF Accept, outVars
  <1>4. ASSUME NEW r \in Requests, SelectForUpdate(r) PROVE ServiceTypeOK'
    <2>1. status[req[r].job] \in JobStatus \union {Absent}
      BY <1>4 DEF SelectForUpdate, RequestsTyped, Request, LedgerTypeOK
    <2>. QED  BY <1>4, <2>1 DEF SelectForUpdate, outVars
  <1>5. ASSUME NEW r \in Requests, Reject(r) \/ Write(r) \/ Commit(r) PROVE ServiceTypeOK'
    BY <1>5 DEF Reject, Write, Commit, outVars
  <1>6. ASSUME NEW r \in Requests, PublishOrg(r) \/ PublishJob(r) \/ Delay(r)
        PROVE  ServiceTypeOK'
    <2>1. req[r].job \in Jobs /\ req[r].to \in JobStatus
      BY <1>6 DEF PublishOrg, PublishJob, Delay, RequestsTyped, Request
    <2>2. CASE PublishOrg(r)
      <3>1. Append(orgFeed[req[r].job], req[r].to) \in Seq(JobStatus)
        BY <2>1
      <3>. QED  BY <2>2, <3>1 DEF PublishOrg, SendToGroup
    <2>3. CASE PublishJob(r)
      <3>1. Append(jobFeed[req[r].job], req[r].to) \in Seq(JobStatus)
        BY <2>1
      <3>. QED  BY <2>3, <3>1 DEF PublishJob, SendToGroup
    <2>4. CASE Delay(r)
      BY <2>1, <2>4 DEF Delay
    <2>. QED  BY <1>6, <2>2, <2>3, <2>4
  <1>7. ASSUME NEW r \in Requests, Rollback(r) \/ CutCallback(r) PROVE ServiceTypeOK'
    <2>1. /\ Finish(r) /\ UNCHANGED outVars
          /\ faults < MaxFaults /\ faults' = faults + 1
      BY <1>7 DEF Rollback, CutCallback, Fault
    <2>2. faults' \in 0 .. MaxFaults
      BY <2>1
    <2>. QED  BY <2>1, <2>2 DEF outVars
  <1>8. CASE UNCHANGED serviceVars
    BY <1>8 DEF serviceVars, threadVars, outVars
  <1>. QED  BY <1>1, <1>2, <1>3, <1>4, <1>5, <1>6, <1>7, <1>8 DEF ServiceNext, Serve

\* A job neither disappears nor moves to another organization.
LEMMA JobsStay ==
  ASSUME LedgerInv, LedgerInv', [LedgerNext]_jobVars, NEW j \in Jobs, Exists(j)
  PROVE  Exists(j)' /\ org'[j] = org[j]
  <1>. USE AccountsAssumption, LedgerAssumption
  <1>1. org[j] \in Orgs
    BY DEF LedgerInv, LedgerTypeOK
  <1>2. org'[j] = org[j]
    <2>1. CASE LedgerNext
      BY <1>1, <2>1, NothingOverwritten
    <2>2. CASE UNCHANGED jobVars
      BY <2>2 DEF jobVars
    <2>. QED  BY <2>1, <2>2
  <1>. QED  BY <1>1, <1>2 DEF LedgerInv, LedgerTypeOK, Exists

\* Why the stale permission check is good enough: neither the organization of
\* a job nor an agent it has got ever changes.
LEMMA PermissionLasts ==
  ASSUME LedgerInv, LedgerInv', [LedgerNext]_jobVars,
         NEW q \in Request, Exists(q.job), Entitled(q)
  PROVE  Exists(q.job)' /\ Entitled(q)'
  <1>. USE AccountsAssumption, LedgerAssumption
  <1>1. /\ q.job \in Jobs /\ q.user \in Users
        /\ org[q.job] \in Orgs /\ agent[q.job] \in Users \union {NoUser}
    BY DEF Request, LedgerInv, LedgerTypeOK
  <1>2. agent[q.job] # NoUser => agent'[q.job] = agent[q.job]
    <2>1. CASE LedgerNext
      BY <1>1, <2>1, NothingOverwritten
    <2>2. CASE UNCHANGED jobVars
      BY <2>2 DEF jobVars
    <2>. QED  BY <2>1, <2>2
  <1>3. Exists(q.job)' /\ org'[q.job] = org[q.job]
    BY <1>1, JobsStay
  <1>4. Entitled(q)'
    BY <1>1, <1>2, <1>3
       DEF Entitled, IsAssign, MayAssign, MayTransition, AgentFits, VisibleTo, ForOrganization,
           CanTransitionStatus, IsDispatcher, Roles
  <1>. QED  BY <1>3, <1>4

\* What a step of the server can be to one thread.
LEMMA ThreadMoves ==
  ASSUME ServiceTypeOK, [ServiceNext]_serviceVars, NEW t \in Requests
  PROVE  \/ pc'[t] = "idle"
         \/ GetForAssign(t) \/ GetForTransition(t)
         \/ SelectForUpdate(t) \/ Write(t) \/ Commit(t)
         \/ pc[t] \in InCallback /\ pc'[t] \in InCallback /\ req'[t] = req[t]
         \/ pc'[t] = pc[t] /\ req'[t] = req[t] /\ from'[t] = from[t]
  <1>. USE DEF ServiceTypeOK, Goto, Finish
  <1>1. CASE CreateJob \/ UNCHANGED serviceVars
    BY <1>1 DEF CreateJob, serviceVars, threadVars
  <1>2. ASSUME NEW r \in Requests,
               \/ GetForAssign(r) \/ GetForTransition(r) \/ SelectForUpdate(r)
               \/ Write(r) \/ Commit(r)
        PROVE  t = r \/ (pc'[t] = pc[t] /\ req'[t] = req[t] /\ from'[t] = from[t])
    BY <1>2 DEF GetForAssign, GetForTransition, Accept, SelectForUpdate, Write, Commit
  <1>3. ASSUME NEW r \in Requests, PublishOrg(r) \/ PublishJob(r)
        PROVE  \/ pc[t] \in InCallback /\ pc'[t] \in InCallback /\ req'[t] = req[t]
               \/ pc'[t] = pc[t] /\ req'[t] = req[t] /\ from'[t] = from[t]
    BY <1>3 DEF PublishOrg, PublishJob, InCallback
  <1>4. ASSUME NEW r \in Requests, Reject(r) \/ Delay(r) \/ Rollback(r) \/ CutCallback(r)
        PROVE  \/ pc'[t] = "idle"
               \/ pc'[t] = pc[t] /\ req'[t] = req[t] /\ from'[t] = from[t]
    BY <1>4 DEF Reject, Delay, Rollback, CutCallback
  <1>. QED  BY <1>1, <1>2, <1>3, <1>4 DEF ServiceNext, Serve

\* Nobody changes the status of a row that a transaction has locked.
LEMMA LockedRowStays ==
  ASSUME ServiceInv, [ServiceNext]_serviceVars,
         NEW t \in Requests, pc[t] \in InTransaction, ~Commit(t)
  PROVE  status'[req[t].job] = status[req[t].job]
  <1>1. Exists(req[t].job) /\ req[t].job \in Jobs /\ req[t] \in Request
    BY DEF ServiceInv, ThreadInv, RequestsSound, Request, InTransaction
  <1>2. status \in [Jobs -> JobStatus \union {Absent}]
    BY DEF ServiceInv, ServiceTypeOK, LedgerTypeOK
  <1>3. ASSUME NEW u \in Users, NEW j \in Jobs, NEW c \in Users, Create(u, j, c)
        PROVE  status'[req[t].job] = status[req[t].job]
    BY <1>1, <1>2, <1>3 DEF Create
  <1>4. ASSUME NEW r \in Requests, Commit(r)
        PROVE  status'[req[t].job] = status[req[t].job]
    <2>1. r # t /\ pc[r] \in InTransaction
      BY <1>4 DEF Commit, InTransaction
    <2>2. req[r].job # req[t].job
      BY <2>1 DEF ServiceInv, ThreadInv, ValidatedRowIsCurrent, Holds
    <2>. QED  BY <1>1, <1>2, <1>4, <2>2 DEF Commit
  <1>5. ASSUME NEW r \in Requests, OtherStep(r) PROVE status' = status
    BY <1>5, OtherStepsKeepTables DEF jobVars
  <1>6. CASE UNCHANGED serviceVars
    BY <1>6 DEF serviceVars, jobVars
  <1>. QED  BY <1>3, <1>4, <1>5, <1>6 DEF ServiceNext, Serve, OtherStep, CreateJob

LEMMA RequestsStep ==
  ASSUME ServiceInv, LedgerInv', [ServiceNext]_serviceVars
  PROVE  RequestsSound' /\ RequestsPermitted'
  <1>. SUFFICES ASSUME NEW t \in Requests, NEW q, q = req'[t], pc'[t] # "idle"
                PROVE  /\ q \in Request
                       /\ Exists(q.job)'
                       /\ IsAssign(q) => q.to = "assigned"
                       /\ pc'[t] \in {"begin"} \union InTransaction => Entitled(q)'
    BY DEF RequestsSound, RequestsPermitted, Exists, Entitled, IsAssign, MayAssign,
           MayTransition, AgentFits, VisibleTo, ForOrganization, CanTransitionStatus, InTransaction
  <1>1. LedgerInv /\ [LedgerNext]_jobVars
    BY StepRefines DEF ServiceInv
  <1>2. ServiceTypeOK
    BY DEF ServiceInv
  <1>3. CASE /\ pc[t] # "idle" /\ q = req[t]
             /\ pc'[t] \in {"begin"} \union InTransaction =>
                  pc[t] \in {"begin"} \union InTransaction
    <2>1. /\ q \in Request /\ Exists(q.job)
          /\ IsAssign(q) => q.to = "assigned"
          /\ pc[t] \in {"begin"} \union InTransaction => Entitled(q)
      BY <1>3 DEF ServiceInv, ThreadInv, RequestsSound, RequestsPermitted
    <2>2. Exists(q.job)'
      BY <1>1, <2>1, JobsStay DEF Request
    <2>. QED  BY <1>1, <1>3, <2>1, <2>2, PermissionLasts
  <1>4. ASSUME NEW p \in Request, Accept(t, p), Entitled(p), IsAssign(p) => p.to = "assigned"
        PROVE  /\ q \in Request
               /\ Exists(q.job)'
               /\ IsAssign(q) => q.to = "assigned"
               /\ Entitled(q)'
    <2>1. q = p /\ Exists(p.job)
      BY <1>2, <1>4 DEF Accept, ServiceTypeOK
    <2>. QED  BY <1>1, <1>4, <2>1, PermissionLasts
  <1>5. CASE GetForAssign(t)
    <2>1. PICK u \in Users, j \in Jobs, a \in Users :
            /\ MayAssign(u, j)
            /\ AgentFits(a, j)
            /\ Accept(t, [user |-> u, job |-> j, to |-> "assigned", agent |-> a])
      BY <1>5 DEF GetForAssign
    <2>. DEFINE p == [user |-> u, job |-> j, to |-> "assigned", agent |-> a]
    <2>2. p \in Request /\ p.to = "assigned"
      BY DEF Request, JobStatus
    <2>3. Entitled(p)
      BY <2>1, AccountsAssumption DEF Entitled, IsAssign
    <2>. QED  BY <1>4, <2>1, <2>2, <2>3
  <1>6. CASE GetForTransition(t)
    <2>1. PICK u \in Users, j \in Jobs, s \in Targets :
            /\ MayTransition(u, j)
            /\ Accept(t, [user |-> u, job |-> j, to |-> s, agent |-> NoUser])
      BY <1>6 DEF GetForTransition
    <2>. DEFINE p == [user |-> u, job |-> j, to |-> s, agent |-> NoUser]
    <2>2. p \in Request /\ ~IsAssign(p)
      BY ServiceAssumption DEF Request, IsAssign
    <2>3. Entitled(p)
      BY <2>1, <2>2 DEF Entitled
    <2>. QED  BY <1>4, <2>1, <2>2, <2>3
  <1>7. CASE SelectForUpdate(t) \/ Write(t) \/ Commit(t)
    BY <1>2, <1>3, <1>7 DEF SelectForUpdate, Write, Commit, Goto, ServiceTypeOK, InTransaction
  <1>8. CASE pc[t] \in InCallback /\ pc'[t] \in InCallback /\ req'[t] = req[t]
    BY <1>3, <1>8 DEF InCallback, InTransaction
  <1>9. CASE pc'[t] = pc[t] /\ req'[t] = req[t] /\ from'[t] = from[t]
    BY <1>3, <1>9
  <1>. QED  BY <1>2, <1>5, <1>6, <1>7, <1>8, <1>9, ThreadMoves

LEMMA WritesStep ==
  ASSUME ServiceTypeOK, WritesValid, [ServiceNext]_serviceVars
  PROVE  WritesValid'
  <1>. SUFFICES ASSUME NEW t \in Requests, pc'[t] = "written"
                PROVE  ValidTransition(from'[t], req'[t].to)
    BY DEF WritesValid
  <1>1. Write(t) \/ (pc'[t] = pc[t] /\ req'[t] = req[t] /\ from'[t] = from[t])
    BY ThreadMoves
       DEF ServiceTypeOK, GetForAssign, GetForTransition, Accept, SelectForUpdate, Commit, Goto,
           InCallback
  <1>2. CASE Write(t)
    BY <1>2 DEF Write
  <1>3. CASE pc'[t] = pc[t] /\ req'[t] = req[t] /\ from'[t] = from[t]
    BY <1>3 DEF WritesValid
  <1>. QED  BY <1>1, <1>2, <1>3

LEMMA LocksStep ==
  ASSUME ServiceTypeOK, ValidatedRowIsCurrent, [ServiceNext]_serviceVars,
         \A t \in Requests : pc[t] \in InTransaction /\ ~Commit(t) =>
           status'[req[t].job] = status[req[t].job]
  PROVE  ValidatedRowIsCurrent'
  \* How a thread gets to be in a transaction.
  <1>1. ASSUME NEW t \in Requests, pc'[t] \in InTransaction
        PROVE  \/ SelectForUpdate(t)
               \/ /\ pc[t] \in InTransaction /\ ~Commit(t)
                  /\ req'[t] = req[t] /\ from'[t] = from[t]
    BY <1>1, ThreadMoves
       DEF ServiceTypeOK, GetForAssign, GetForTransition, Accept, Write, Commit, Goto,
           InCallback, InTransaction
  <1>2. ASSUME NEW t \in Requests, pc'[t] \in InTransaction
        PROVE  from'[t] = status'[req'[t].job]
    <2>1. CASE SelectForUpdate(t)
      BY <2>1 DEF SelectForUpdate, ServiceTypeOK, jobVars
    <2>2. CASE /\ pc[t] \in InTransaction /\ ~Commit(t)
               /\ req'[t] = req[t] /\ from'[t] = from[t]
      BY <2>2 DEF ValidatedRowIsCurrent
    <2>. QED  BY <1>1, <1>2, <2>1, <2>2
  <1>3. ASSUME NEW t \in Requests, NEW q \in Requests \ {t},
               pc'[t] \in InTransaction, pc'[q] \in InTransaction, req'[q].job = req'[t].job
        PROVE  FALSE
    <2>1. ASSUME NEW x \in Requests, NEW y \in Requests \ {x}, SelectForUpdate(x)
          PROVE  /\ pc'[y] = pc[y] /\ req'[y] = req[y] /\ req'[x] = req[x]
                 /\ pc[y] \in InTransaction => req[y].job # req[x].job
      BY <2>1 DEF SelectForUpdate, RowFree, Holds, ServiceTypeOK, Goto
    <2>2. ~SelectForUpdate(t) /\ ~SelectForUpdate(q)
      BY <1>3, <2>1
    <2>3. /\ pc[t] \in InTransaction /\ req'[t] = req[t]
          /\ pc[q] \in InTransaction /\ req'[q] = req[q]
      BY <1>1, <1>3, <2>2
    <2>. QED  BY <1>3, <2>3 DEF ValidatedRowIsCurrent, Holds
  <1>. QED  BY <1>2, <1>3 DEF ValidatedRowIsCurrent, Holds

LEMMA ServiceStep ==
  ASSUME ServiceInv, [ServiceNext]_serviceVars
  PROVE  ServiceInv'
  <1>1. LedgerInv'
    BY StepRefines, LedgerStep DEF ServiceInv
  <1>2. ServiceTypeOK'
    BY <1>1, ServiceTypeStep
       DEF ServiceInv, LedgerInv, ThreadInv, RequestsSound, RequestsTyped
  <1>3. WritesValid' /\ ValidatedRowIsCurrent'
    BY WritesStep, LocksStep, LockedRowStays DEF ServiceInv, ThreadInv
  <1>. QED  BY <1>1, <1>2, <1>3, RequestsStep DEF ServiceInv, ThreadInv

-----------------------------------------------------------------------------
(* The theorems.                                                           *)

\* Every reachable state of the server satisfies the inductive invariant.
THEOREM ServiceInvariant == ServiceSpec => []ServiceInv
  BY ServiceInitial, ServiceStep, PTL DEF ServiceSpec

\* The tables, the threads, the feeds and the broker keep their types.
THEOREM ServiceTypeCorrect == ServiceSpec => []ServiceTypeOK
  <1>1. ServiceInv => ServiceTypeOK
    BY DEF ServiceInv
  <1>. QED  BY <1>1, ServiceInvariant, PTL

\* services.py implements the ledger: whatever the interleaving of unlocked
\* reads, row locks, commits, callbacks and failures, the tables change by
\* atomic, permitted, legal steps.
THEOREM ServiceImplementsLedger == ServiceSpec => LedgerSpec
  <1>1. ServiceInit => LedgerInit
    BY DEF ServiceInit
  <1>2. ServiceInv /\ [ServiceNext]_serviceVars => [LedgerNext]_jobVars
    BY StepRefines
  <1>. QED  BY <1>1, <1>2, ServiceInvariant, PTL DEF ServiceSpec, LedgerSpec

\* The permission that views.py checked on an unlocked read still holds when
\* services.py is about to commit.
THEOREM PermissionsHold == ServiceSpec => []StillPermitted
  <1>1. ServiceInv => StillPermitted
    BY DEF ServiceInv, ThreadInv, RequestsPermitted, StillPermitted, InTransaction
  <1>. QED  BY <1>1, ServiceInvariant, PTL

\* select_for_update makes the validated status the current one, and the
\* transaction the only one on its job.
THEOREM LocksProtect == ServiceSpec => []ValidatedRowIsCurrent
  <1>1. ServiceInv => ValidatedRowIsCurrent
    BY DEF ServiceInv, ThreadInv
  <1>. QED  BY <1>1, ServiceInvariant, PTL

\* The audit trail of the running server is complete and legal.
THEOREM ServiceAuditTrail == ServiceSpec => []AuditTrail
  BY ServiceImplementsLedger, AuditTrailCorrect, PTL

\* No interleaving of requests overwrites an agent or a terminal status.
THEOREM ServiceOverwritesNothing == ServiceSpec => NoOverwrite
  BY ServiceImplementsLedger, NothingIsOverwritten, PTL

\* A job that was taken to "assigned" by a PATCH never gets an agent.
THEOREM ServiceOrphansStay ==
          ServiceSpec => [][\A j \in Jobs : Orphaned(j) => Orphaned(j)']_jobVars
  BY ServiceImplementsLedger, OrphansStay, PTL

\* Whatever is sent to the server, a job changes its status MaxDepth times at most.
THEOREM ServiceTrailsStayShort == ServiceSpec => []TrailsAreShort
  BY ServiceImplementsLedger, TrailsStayShort, PTL

-----------------------------------------------------------------------------
(* Sequences without repetitions, and what a COMMIT does to Changes.       *)

\* Appending adds one value to what a sequence holds.
LEMMA AppendHolds ==
  ASSUME NEW S, NEW f \in Seq(S), NEW x \in S
  PROVE  /\ Append(f, x) \in Seq(S)
         /\ Len(Append(f, x)) = Len(f) + 1
         /\ Range(Append(f, x)) = Range(f) \union {x}
         /\ IsInjective(f) /\ x \notin Range(f) => IsInjective(Append(f, x))
  <1>. DEFINE g == Append(f, x)
              n == Len(f)
  <1>1. /\ g \in Seq(S) /\ n \in Nat /\ Len(g) = n + 1
        /\ DOMAIN f = 1 .. n /\ DOMAIN g = 1 .. n + 1
        /\ \A i \in 1 .. n : g[i] = f[i]
        /\ g[n + 1] = x
    OBVIOUS
  <1>2. 1 .. n + 1 = (1 .. n) \union {n + 1}
    BY <1>1
  <1>. HIDE DEF g, n
  <1>3. Range(g) = Range(f) \union {x}
    BY <1>1, <1>2 DEF Range
  <1>4. ASSUME IsInjective(f), x \notin Range(f) PROVE IsInjective(g)
    BY <1>1, <1>2, <1>4 DEF Range, IsInjective
  <1>. QED  BY <1>1, <1>3, <1>4 DEF g, n

\* A sequence without repetitions is as long as the set of what it holds.
LEMMA InjectiveLength ==
  ASSUME NEW S, NEW f \in Seq(S), IsInjective(f)
  PROVE  Len(f) = Cardinality(Range(f))
  <1>1. Len(f) \in Nat /\ f \in [1 .. Len(f) -> S]
    OBVIOUS
  <1>2. f \in Injection(1 .. Len(f), S)
    BY <1>1 DEF Injection
  <1>3. f \in Bijection(1 .. Len(f), Range(f))
    BY <1>2, Fun_InjMeansBijImage
  <1>. QED  BY <1>1, <1>3, FS_CountingElements DEF ExistsBijection

-----------------------------------------------------------------------------
(* The inductive invariant.                                                *)

OfJob(j, phases) == {r \in Requests : pc[r] \in phases /\ req[r].job = j}

\* A job only descends, so that the status it is about to enter is a new one.
StatusPassed ==
  \A j \in Jobs : \A s \in Changes(j) : Depth(s) <= Depth(status[j])

\* A callback is about a change of its own, and what it has sent of it is in the
\* feeds while the rest is not.
CallbacksApart ==
  \A r \in Requests : pc[r] \in InCallback =>
    /\ req[r].to \in Changes(req[r].job)
    /\ pc[r] = "org" <=> req[r].to \notin Range(orgFeed[req[r].job])
    /\ pc[r] = "delay" <=> req[r].to \in Range(jobFeed[req[r].job])
    /\ \A q \in Requests \ {r} :
         pc[q] \in InCallback /\ req[q].job = req[r].job => req[q].to # req[r].to

FeedsSound ==
  \A j \in Jobs :
    /\ Range(orgFeed[j]) \subseteq Changes(j)
    /\ Range(jobFeed[j]) \subseteq Range(orgFeed[j])
    /\ IsInjective(orgFeed[j])
    /\ IsInjective(jobFeed[j])

\* What is about to be queued counts as queued.
QueueBounded ==
  \A j \in Jobs :
    /\ IsFiniteSet(OfJob(j, {"delay"}))
    /\ queue[j] + Cardinality(OfJob(j, {"delay"})) <= Len(jobFeed[j])

\* A change without its notification task has a callback that is on its way to it,
\* or one that a failure cut.
OnlyFailuresSkip ==
  \A j \in Jobs :
    /\ IsFiniteSet(OfJob(j, InCallback))
    /\ Len(events[j]) <= queue[j] + faults + Cardinality(OfJob(j, InCallback))

FanoutInv ==
  StatusPassed /\ CallbacksApart /\ FeedsSound /\ QueueBounded /\ OnlyFailuresSkip

LEMMA FanoutInitial == ServiceInit => FanoutInv
  <1>. SUFFICES ASSUME ServiceInit PROVE FanoutInv
    OBVIOUS
  <1>. USE DEF ServiceInit, LedgerInit
  <1>1. \A j \in Jobs : Changes(j) = {} /\ Range(orgFeed[j]) = {} /\ Range(jobFeed[j]) = {}
    BY DEF Changes, Range
  <1>2. \A j \in Jobs : OfJob(j, {"delay"}) = {} /\ OfJob(j, InCallback) = {}
    BY DEF OfJob, InCallback
  <1>3. \A j \in Jobs : IsInjective(orgFeed[j]) /\ IsInjective(jobFeed[j])
    BY DEF IsInjective
  <1>4. StatusPassed /\ CallbacksApart /\ FeedsSound
    BY <1>1, <1>3 DEF StatusPassed, CallbacksApart, FeedsSound, InCallback
  <1>5. QueueBounded /\ OnlyFailuresSkip
    <2>1. \A j \in Jobs : Len(jobFeed[j]) = 0 /\ Len(events[j]) = 0 /\ queue[j] = 0
      OBVIOUS
    <2>2. 0 + 0 <= 0 /\ 0 <= 0 + 0 + 0
      OBVIOUS
    <2>. QED  BY <1>2, <2>1, <2>2, FS_EmptySet DEF QueueBounded, OnlyFailuresSkip
  <1>. QED  BY <1>4, <1>5 DEF FanoutInv

-----------------------------------------------------------------------------
(* What a step does to the fan-out.                                        *)

\* A step outside of commits and callbacks.
Quiet ==
  /\ UNCHANGED <<events, outVars>>
  /\ \A j \in Jobs : events[j] # <<>> => status'[j] = status[j]
  /\ \A r \in Requests : /\ pc'[r] \in InCallback <=> pc[r] \in InCallback
                         /\ pc[r] \in InCallback => pc'[r] = pc[r] /\ req'[r] = req[r]
  /\ faults' \in Nat /\ faults' >= faults

LEMMA QuietKeepsCallbacks ==
  ASSUME Quiet, NEW j \in Jobs, NEW phases, phases \subseteq InCallback
  PROVE  /\ OfJob(j, phases)' = OfJob(j, phases)
         /\ \A r \in OfJob(j, phases) : req'[r] = req[r]
  BY DEF Quiet, OfJob

\* The other steps of the server are quiet.
LEMMA StepFansOut ==
  ASSUME ServiceInv, [ServiceNext]_serviceVars
  PROVE  \/ Quiet
         \/ \E r \in Requests :
              Commit(r) \/ PublishOrg(r) \/ PublishJob(r) \/ Delay(r) \/ CutCallback(r)
  <1>. USE DEF ServiceInv, ServiceTypeOK, Goto, Finish, InCallback, InTransaction
  <1>1. CASE CreateJob
    <2>1. \A j \in Jobs : events[j] # <<>> => Exists(j)
      BY DEF LedgerInv, Untouched, Exists
    <2>2. \A j \in Jobs : Exists(j) => status'[j] = status[j]
      BY <1>1 DEF CreateJob, Create, LedgerTypeOK, Exists
    <2>. QED  BY <1>1, <2>1, <2>2 DEF CreateJob, Create, Quiet, threadVars
  <1>2. ASSUME NEW r \in Requests,
               \/ GetForAssign(r) \/ GetForTransition(r) \/ SelectForUpdate(r)
               \/ Write(r) \/ Reject(r)
        PROVE  Quiet
    BY <1>2 DEF GetForAssign, GetForTransition, Accept, SelectForUpdate, Write, Reject, Quiet,
                jobVars
  <1>3. ASSUME NEW r \in Requests, Rollback(r) PROVE Quiet
    BY <1>3 DEF Rollback, Fault, Quiet, jobVars
  <1>4. CASE UNCHANGED serviceVars
    BY <1>4 DEF serviceVars, threadVars, jobVars, Quiet
  <1>. QED  BY <1>1, <1>2, <1>3, <1>4 DEF ServiceNext, Serve

LEMMA EdgesDescend ==
  ASSUME NEW s, NEW t, ValidTransition(s, t)
  PROVE  Depth(s) < Depth(t)
  BY DEF ValidTransition, TRANSITIONS, Depth

LEMMA DepthIsNat == \A s : Depth(s) \in Nat
  BY DEF Depth

\* A COMMIT enters a status that the job has not had.
LEMMA CommitChanges ==
  ASSUME ServiceInv, StatusPassed, NEW r \in Requests, Commit(r),
         NEW j \in Jobs, j = req[r].job, NEW s \in JobStatus, s = req[r].to
  PROVE  /\ Changes(j)' = Changes(j) \union {s}
         /\ s \notin Changes(j)
         /\ Len(events'[j]) = Len(events[j]) + 1
         /\ status'[j] = s
         /\ Depth(status[j]) < Depth(s)
         /\ \A k \in Jobs \ {j} : events'[k] = events[k] /\ status'[k] = status[k]
         /\ pc[r] = "written" /\ pc'[r] = "org" /\ req' = req
         /\ \A q \in Requests \ {r} : pc'[q] = pc[q]
  <1>. DEFINE e == [from |-> from[r], to |-> s, actor |-> req[r].user]
              n == Len(events[j])
  <1>1. /\ pc[r] = "written" /\ pc'[r] = "org" /\ req' = req
        /\ \A q \in Requests \ {r} : pc'[q] = pc[q]
    BY DEF Commit, Goto, ServiceInv, ServiceTypeOK
  <1>2. /\ ValidTransition(status[j], s)
        /\ from[r] = status[j]
        /\ req[r] \in Request
    BY DEF Commit, ServiceInv, ThreadInv, RequestsSound, WritesValid, ValidatedRowIsCurrent,
           InTransaction
  <1>3. e \in Event
    BY <1>2, Edges DEF Event, Request
  <1>4. Log(j, e) /\ events \in [Jobs -> Seq(Event)]
    BY DEF Commit, ServiceInv, LedgerInv, LedgerTypeOK
  <1>5. /\ n \in Nat /\ Len(events'[j]) = n + 1 /\ events'[j][n + 1] = e
        /\ \A i \in 1 .. n : events'[j][i] = events[j][i]
        /\ \A k \in Jobs \ {j} : events'[k] = events[k]
    <2>1. n \in Nat
      BY <1>4
    <2>. QED  BY <1>3, <1>4, <2>1, LogAppends
  <1>. HIDE DEF n
  <1>6. 1 .. n + 1 = (1 .. n) \union {n + 1}
    BY <1>5
  <1>7. Changes(j)' = Changes(j) \union {s}
    <2>1. events'[j][n + 1].to = s
      BY <1>5
    <2>2. Changes(j)' = {events'[j][i].to : i \in (1 .. n) \union {n + 1}}
      BY <1>5, <1>6 DEF Changes
    <2>3. Changes(j) = {events[j][i].to : i \in 1 .. n}
      BY DEF Changes, n
    <2>4. ASSUME NEW x \in Changes(j)' PROVE x \in Changes(j) \union {s}
      <3>1. PICK i \in (1 .. n) \union {n + 1} : x = events'[j][i].to
        BY <2>2
      <3>2. CASE i = n + 1
        BY <2>1, <3>1, <3>2
      <3>3. CASE i \in 1 .. n
        <4>1. x = events[j][i].to
          BY <1>5, <3>1, <3>3
        <4>. QED  BY <2>3, <3>3, <4>1
      <3>. QED  BY <3>2, <3>3
    <2>5. ASSUME NEW i \in 1 .. n PROVE events[j][i].to \in Changes(j)'
      <3>1. events[j][i].to = events'[j][i].to
        BY <1>5
      <3>. QED  BY <2>2, <3>1
    <2>6. s \in Changes(j)'
      BY <2>1, <2>2
    <2>. QED  BY <2>3, <2>4, <2>5, <2>6
  <1>8. Depth(status[j]) < Depth(s)
    BY <1>2, EdgesDescend
  <1>9. s \notin Changes(j)
    BY <1>8, DepthIsNat DEF StatusPassed
  <1>10. status'[j] = s /\ \A k \in Jobs \ {j} : status'[k] = status[k]
    BY DEF Commit, ServiceInv, LedgerInv, LedgerTypeOK
  <1>. QED  BY <1>1, <1>5, <1>7, <1>8, <1>9, <1>10 DEF n

LEMMA SameChanges ==
  ASSUME NEW j \in Jobs, events'[j] = events[j]
  PROVE  Changes(j)' = Changes(j)
  BY DEF Changes

\* A callback's step.
LEMMA CallbackMoves ==
  ASSUME ServiceInv, NEW r \in Requests,
         PublishOrg(r) \/ PublishJob(r) \/ Delay(r) \/ CutCallback(r)
  PROVE  /\ pc[r] \in InCallback /\ req[r] \in Request
         /\ \A q \in Requests \ {r} : pc'[q] = pc[q] /\ req'[q] = req[q]
         /\ UNCHANGED jobVars
         /\ \A j \in Jobs : Changes(j)' = Changes(j)
         /\ PublishOrg(r) => pc[r] = "org" /\ pc'[r] = "job" /\ req'[r] = req[r]
         /\ PublishJob(r) => pc[r] = "job" /\ pc'[r] = "delay" /\ req'[r] = req[r]
         /\ Delay(r) => pc[r] = "delay" /\ pc'[r] = "idle"
         /\ CutCallback(r) => pc'[r] = "idle" /\ faults' = faults + 1
  <1>1. pc[r] \in InCallback
    BY DEF PublishOrg, PublishJob, Delay, CutCallback, InCallback
  <1>2. req[r] \in Request
    BY <1>1 DEF ServiceInv, ThreadInv, RequestsSound, InCallback
  <1>3. UNCHANGED jobVars
    BY DEF PublishOrg, PublishJob, Delay, CutCallback
  <1>4. \A j \in Jobs : Changes(j)' = Changes(j)
    BY <1>3 DEF jobVars, Changes
  <1>. QED
    BY <1>1, <1>2, <1>3, <1>4
       DEF PublishOrg, PublishJob, Delay, CutCallback, Fault, Goto, Finish, ServiceInv,
           ServiceTypeOK

\* Failures are counted: none after the step means none before it, and no cut.
LEMMA NoFaultYet ==
  ASSUME ServiceInv, faults' = 0
  PROVE  /\ Quiet => faults = 0
         /\ \A r \in Requests : ~CutCallback(r)
  <1>1. faults \in Nat
    BY ServiceAssumption DEF ServiceInv, ServiceTypeOK
  <1>2. Quiet => faults = 0
    BY <1>1 DEF Quiet
  <1>3. ASSUME NEW r \in Requests, CutCallback(r) PROVE FALSE
    BY <1>1, <1>3, CallbackMoves
  <1>. QED  BY <1>2, <1>3

-----------------------------------------------------------------------------
(* The invariant is preserved, conjunct by conjunct.                       *)

LEMMA StatusPassedStep ==
  ASSUME ServiceInv, StatusPassed, [ServiceNext]_serviceVars
  PROVE  StatusPassed'
  <1>. SUFFICES ASSUME NEW j \in Jobs, NEW s \in Changes(j)'
                PROVE  Depth(s) <= Depth(status'[j])
    BY DEF StatusPassed
  <1>1. CASE Quiet
    <2>1. s \in Changes(j) /\ events[j] # <<>>
      BY <1>1 DEF Quiet, Changes
    <2>. QED  BY <1>1, <2>1 DEF Quiet, StatusPassed
  <1>2. ASSUME NEW r \in Requests, Commit(r) PROVE Depth(s) <= Depth(status'[j])
    <2>1. PICK k \in Jobs, t \in JobStatus : k = req[r].job /\ t = req[r].to
      BY <1>2 DEF Commit, ServiceInv, ThreadInv, RequestsSound, Request
    <2>2. /\ Changes(k)' = Changes(k) \union {t}
          /\ status'[k] = t /\ Depth(status[k]) < Depth(t)
          /\ \A i \in Jobs \ {k} : events'[i] = events[i] /\ status'[i] = status[i]
      BY <1>2, <2>1, CommitChanges
    <2>3. CASE j = k
      BY <2>2, <2>3, DepthIsNat DEF StatusPassed
    <2>4. CASE j # k
      BY <2>2, <2>4, SameChanges DEF StatusPassed
    <2>. QED  BY <2>3, <2>4
  <1>3. ASSUME NEW r \in Requests,
               PublishOrg(r) \/ PublishJob(r) \/ Delay(r) \/ CutCallback(r)
        PROVE  Depth(s) <= Depth(status'[j])
    BY <1>3, CallbackMoves DEF jobVars, StatusPassed
  <1>. QED  BY <1>1, <1>2, <1>3, StepFansOut

\* What was committed stays in the trail.
LEMMA ChangesGrow ==
  ASSUME ServiceInv, StatusPassed, [ServiceNext]_serviceVars, NEW j \in Jobs
  PROVE  Changes(j) \subseteq Changes(j)'
  <1>1. ASSUME NEW r \in Requests, Commit(r) PROVE Changes(j) \subseteq Changes(j)'
    <2>1. PICK k \in Jobs, x \in JobStatus : k = req[r].job /\ x = req[r].to
      BY <1>1 DEF Commit, ServiceInv, ThreadInv, RequestsSound, Request
    <2>2. /\ Changes(k)' = Changes(k) \union {x}
          /\ \A i \in Jobs \ {k} : events'[i] = events[i]
      BY <1>1, <2>1, CommitChanges
    <2>3. CASE j = k
      BY <2>2, <2>3
    <2>4. CASE j # k
      BY <2>2, <2>4, SameChanges
    <2>. QED  BY <2>3, <2>4
  <1>. QED  BY <1>1, CallbackMoves, StepFansOut, SameChanges DEF Quiet

\* send_to_group appends the thread's status to the feed of its job.
LEMMA OrgFeedGrows ==
  ASSUME ServiceInv, NEW r \in Requests, PublishOrg(r),
         NEW j \in Jobs, j = req[r].job, NEW s \in JobStatus, s = req[r].to
  PROVE  /\ Len(orgFeed'[j]) = Len(orgFeed[j]) + 1
         /\ orgFeed'[j] = Append(orgFeed[j], s)
         /\ Range(orgFeed'[j]) = Range(orgFeed[j]) \union {s}
         /\ IsInjective(orgFeed[j]) /\ s \notin Range(orgFeed[j]) => IsInjective(orgFeed'[j])
         /\ \A k \in Jobs \ {j} : orgFeed'[k] = orgFeed[k]
         /\ UNCHANGED <<jobFeed, queue, faults>>
  <1>1. orgFeed[j] \in Seq(JobStatus)
    BY DEF ServiceInv, ServiceTypeOK
  <1>2. /\ orgFeed'[j] = Append(orgFeed[j], s)
        /\ \A k \in Jobs \ {j} : orgFeed'[k] = orgFeed[k]
        /\ UNCHANGED <<jobFeed, queue, faults>>
    BY DEF PublishOrg, SendToGroup, ServiceInv, ServiceTypeOK
  <1>. QED  BY <1>1, <1>2, AppendHolds

LEMMA JobFeedGrows ==
  ASSUME ServiceInv, NEW r \in Requests, PublishJob(r),
         NEW j \in Jobs, j = req[r].job, NEW s \in JobStatus, s = req[r].to
  PROVE  /\ Len(jobFeed'[j]) = Len(jobFeed[j]) + 1
         /\ jobFeed'[j] = Append(jobFeed[j], s)
         /\ Range(jobFeed'[j]) = Range(jobFeed[j]) \union {s}
         /\ IsInjective(jobFeed[j]) /\ s \notin Range(jobFeed[j]) => IsInjective(jobFeed'[j])
         /\ \A k \in Jobs \ {j} : jobFeed'[k] = jobFeed[k]
         /\ UNCHANGED <<orgFeed, queue, faults>>
  <1>1. jobFeed[j] \in Seq(JobStatus)
    BY DEF ServiceInv, ServiceTypeOK
  <1>2. /\ jobFeed'[j] = Append(jobFeed[j], s)
        /\ \A k \in Jobs \ {j} : jobFeed'[k] = jobFeed[k]
        /\ UNCHANGED <<orgFeed, queue, faults>>
    BY DEF PublishJob, SendToGroup, ServiceInv, ServiceTypeOK
  <1>. QED  BY <1>1, <1>2, AppendHolds

LEMMA FeedsSoundStep ==
  ASSUME ServiceInv, FanoutInv, [ServiceNext]_serviceVars
  PROVE  FeedsSound'
  <1>. USE DEF FanoutInv, FeedsSound
  <1>1. CASE Quiet
    BY <1>1, SameChanges DEF Quiet, outVars
  <1>2. ASSUME NEW r \in Requests, Commit(r) PROVE FeedsSound'
    <2>1. PICK k \in Jobs, t \in JobStatus : k = req[r].job /\ t = req[r].to
      BY <1>2 DEF Commit, ServiceInv, ThreadInv, RequestsSound, Request
    <2>2. \A j \in Jobs : Changes(j) \subseteq Changes(j)'
      BY <1>2, <2>1, CommitChanges, SameChanges
    <2>. QED  BY <1>2, <2>2 DEF Commit, outVars
  <1>3. ASSUME NEW r \in Requests, PublishOrg(r) PROVE FeedsSound'
    <2>1. PICK k \in Jobs, t \in JobStatus : k = req[r].job /\ t = req[r].to
      BY <1>3, CallbackMoves DEF Request
    <2>2. t \in Changes(k) /\ t \notin Range(orgFeed[k])
      BY <1>3, <2>1, CallbackMoves DEF CallbacksApart
    <2>3. /\ Range(orgFeed'[k]) = Range(orgFeed[k]) \union {t}
          /\ IsInjective(orgFeed'[k])
          /\ \A j \in Jobs \ {k} : orgFeed'[j] = orgFeed[j]
          /\ jobFeed' = jobFeed
      BY <1>3, <2>1, <2>2, OrgFeedGrows
    <2>. QED  BY <1>3, <2>2, <2>3, CallbackMoves
  <1>4. ASSUME NEW r \in Requests, PublishJob(r) PROVE FeedsSound'
    <2>1. PICK k \in Jobs, t \in JobStatus : k = req[r].job /\ t = req[r].to
      BY <1>4, CallbackMoves DEF Request
    <2>2. t \in Range(orgFeed[k]) /\ t \notin Range(jobFeed[k])
      BY <1>4, <2>1, CallbackMoves DEF CallbacksApart
    <2>3. /\ Range(jobFeed'[k]) = Range(jobFeed[k]) \union {t}
          /\ IsInjective(jobFeed'[k])
          /\ \A j \in Jobs \ {k} : jobFeed'[j] = jobFeed[j]
          /\ orgFeed' = orgFeed
      BY <1>4, <2>1, <2>2, JobFeedGrows
    <2>. QED  BY <1>4, <2>2, <2>3, CallbackMoves
  <1>5. ASSUME NEW r \in Requests, Delay(r) \/ CutCallback(r) PROVE FeedsSound'
    <2>1. orgFeed' = orgFeed /\ jobFeed' = jobFeed
      BY <1>5 DEF Delay, CutCallback, outVars
    <2>. QED  BY <1>5, <2>1, CallbackMoves
  <1>. QED  BY <1>1, <1>2, <1>3, <1>4, <1>5, StepFansOut

LEMMA CallbacksApartStep ==
  ASSUME ServiceInv, FanoutInv, [ServiceNext]_serviceVars
  PROVE  CallbacksApart'
  <1>. USE DEF FanoutInv
  <1>1. CASE Quiet
    <2>1. \A j : Changes(j)' = Changes(j)
      BY <1>1 DEF Quiet, Changes
    <2>. QED  BY <1>1, <2>1 DEF Quiet, outVars, CallbacksApart
  <1>2. ASSUME NEW r \in Requests, Commit(r) PROVE CallbacksApart'
    <2>1. PICK k \in Jobs, t \in JobStatus : k = req[r].job /\ t = req[r].to
      BY <1>2 DEF Commit, ServiceInv, ThreadInv, RequestsSound, Request
    <2>2. /\ Changes(k)' = Changes(k) \union {t} /\ t \notin Changes(k)
          /\ \A j \in Jobs \ {k} : Changes(j)' = Changes(j)
          /\ pc[r] = "written" /\ pc'[r] = "org" /\ req' = req
          /\ \A q \in Requests \ {r} : pc'[q] = pc[q]
      BY <1>2, <2>1, CommitChanges, SameChanges
    <2>3. orgFeed' = orgFeed /\ jobFeed' = jobFeed
      BY <1>2 DEF Commit, outVars
    <2>4. \A q \in Requests : pc[q] \in InCallback => req[q].job \in Jobs
      BY DEF ServiceInv, ThreadInv, RequestsSound, Request, InCallback
    <2>5. t \notin Range(orgFeed[k]) /\ t \notin Range(jobFeed[k])
      BY <2>2 DEF FeedsSound
    <2>6. \A q \in Requests : pc[q] \in InCallback /\ req[q].job = k => req[q].to # t
      BY <2>2 DEF CallbacksApart
    <2>. QED  BY <2>1, <2>2, <2>3, <2>4, <2>5, <2>6 DEF CallbacksApart, InCallback
  <1>3. ASSUME NEW r \in Requests, PublishOrg(r) PROVE CallbacksApart'
    <2>1. PICK k \in Jobs, t \in JobStatus : k = req[r].job /\ t = req[r].to
      BY <1>3, CallbackMoves DEF Request
    <2>2. /\ \A j \in Jobs : Changes(j)' = Changes(j)
          /\ pc[r] = "org" /\ pc'[r] = "job" /\ req'[r] = req[r]
          /\ \A q \in Requests \ {r} : pc'[q] = pc[q] /\ req'[q] = req[q]
      BY <1>3, CallbackMoves
    <2>3. /\ Range(orgFeed'[k]) = Range(orgFeed[k]) \union {t}
          /\ \A j \in Jobs \ {k} : orgFeed'[j] = orgFeed[j]
          /\ jobFeed' = jobFeed
      BY <1>3, <2>1, OrgFeedGrows
    <2>4. \A q \in Requests : pc[q] \in InCallback => req[q].job \in Jobs
      BY DEF ServiceInv, ThreadInv, RequestsSound, Request, InCallback
    <2>. QED  BY <2>1, <2>2, <2>3, <2>4 DEF CallbacksApart, InCallback
  <1>4. ASSUME NEW r \in Requests, PublishJob(r) PROVE CallbacksApart'
    <2>1. PICK k \in Jobs, t \in JobStatus : k = req[r].job /\ t = req[r].to
      BY <1>4, CallbackMoves DEF Request
    <2>2. /\ \A j \in Jobs : Changes(j)' = Changes(j)
          /\ pc[r] = "job" /\ pc'[r] = "delay" /\ req'[r] = req[r]
          /\ \A q \in Requests \ {r} : pc'[q] = pc[q] /\ req'[q] = req[q]
      BY <1>4, CallbackMoves
    <2>3. /\ Range(jobFeed'[k]) = Range(jobFeed[k]) \union {t}
          /\ \A j \in Jobs \ {k} : jobFeed'[j] = jobFeed[j]
          /\ orgFeed' = orgFeed
      BY <1>4, <2>1, JobFeedGrows
    <2>4. \A q \in Requests : pc[q] \in InCallback => req[q].job \in Jobs
      BY DEF ServiceInv, ThreadInv, RequestsSound, Request, InCallback
    <2>. QED  BY <2>1, <2>2, <2>3, <2>4 DEF CallbacksApart, InCallback
  <1>5. ASSUME NEW r \in Requests, Delay(r) \/ CutCallback(r) PROVE CallbacksApart'
    <2>1. orgFeed' = orgFeed /\ jobFeed' = jobFeed
      BY <1>5 DEF Delay, CutCallback, outVars
    <2>2. /\ \A j \in Jobs : Changes(j)' = Changes(j)
          /\ pc'[r] = "idle"
          /\ \A q \in Requests \ {r} : pc'[q] = pc[q] /\ req'[q] = req[q]
      BY <1>5, CallbackMoves
    <2>3. \A q \in Requests : pc[q] \in InCallback => req[q].job \in Jobs
      BY DEF ServiceInv, ThreadInv, RequestsSound, Request, InCallback
    <2>. QED  BY <2>1, <2>2, <2>3 DEF CallbacksApart, InCallback
  <1>. QED  BY <1>1, <1>2, <1>3, <1>4, <1>5, StepFansOut

\* Counting the threads in some phases when one thread moves.
LEMMA Counts ==
  ASSUME NEW r \in Requests, NEW j \in Jobs, NEW phases, IsFiniteSet(OfJob(j, phases)),
         \A q \in Requests \ {r} : pc'[q] = pc[q] /\ req'[q] = req[q]
  PROVE  /\ IsFiniteSet(OfJob(j, phases)')
         /\ Cardinality(OfJob(j, phases)) \in Nat
         /\ Cardinality(OfJob(j, phases)') =
              Cardinality(OfJob(j, phases))
                + (IF pc'[r] \in phases /\ req'[r].job = j THEN 1 ELSE 0)
                - (IF pc[r] \in phases /\ req[r].job = j THEN 1 ELSE 0)
  <1>. DEFINE T == OfJob(j, phases) \ {r}
  <1>1. IsFiniteSet(T) /\ Cardinality(OfJob(j, phases)) \in Nat /\ Cardinality(T) \in Nat
    BY FS_RemoveElement, FS_CardinalityType
  <1>2. Cardinality(OfJob(j, phases)) =
          Cardinality(T) + IF pc[r] \in phases /\ req[r].job = j THEN 1 ELSE 0
    <2>1. r \in OfJob(j, phases) <=> pc[r] \in phases /\ req[r].job = j
      BY DEF OfJob
    <2>2. Cardinality(T) = IF r \in OfJob(j, phases) THEN Cardinality(OfJob(j, phases)) - 1
                                                     ELSE Cardinality(OfJob(j, phases))
      BY FS_RemoveElement
    <2>. QED  BY <1>1, <2>1, <2>2
  <1>3. OfJob(j, phases)' = IF pc'[r] \in phases /\ req'[r].job = j THEN T \union {r} ELSE T
    BY DEF OfJob
  <1>4. /\ IsFiniteSet(T \union {r}) /\ Cardinality(T \union {r}) = Cardinality(T) + 1
    <2>1. r \notin T
      OBVIOUS
    <2>. QED  BY <1>1, <2>1, FS_AddElement
  <1>. HIDE DEF T
  <1>. QED  BY <1>1, <1>2, <1>3, <1>4

LEMMA QueueBoundedStep ==
  ASSUME ServiceInv, FanoutInv, [ServiceNext]_serviceVars
  PROVE  QueueBounded'
  <1>. SUFFICES ASSUME NEW j \in Jobs
                PROVE  /\ IsFiniteSet(OfJob(j, {"delay"})')
                       /\ queue'[j] + Cardinality(OfJob(j, {"delay"})') <= Len(jobFeed'[j])
    BY DEF QueueBounded
  <1>. DEFINE D == OfJob(j, {"delay"})
  <1>1. /\ IsFiniteSet(D) /\ Cardinality(D) \in Nat
        /\ queue[j] + Cardinality(D) <= Len(jobFeed[j])
    BY FS_CardinalityType DEF FanoutInv, QueueBounded
  <1>2. queue \in [Jobs -> Nat] /\ jobFeed[j] \in Seq(JobStatus)
    BY DEF ServiceInv, ServiceTypeOK
  <1>3. CASE Quiet
    <2>1. D' = D
      BY <1>3, QuietKeepsCallbacks DEF InCallback
    <2>. QED  BY <1>1, <1>3, <2>1 DEF Quiet, outVars
  <1>4. ASSUME NEW r \in Requests, Commit(r)
        PROVE  IsFiniteSet(D') /\ queue'[j] + Cardinality(D') <= Len(jobFeed'[j])
    <2>1. PICK k \in Jobs, t \in JobStatus : k = req[r].job /\ t = req[r].to
      BY <1>4 DEF Commit, ServiceInv, ThreadInv, RequestsSound, Request
    <2>2. /\ pc[r] = "written" /\ pc'[r] = "org" /\ req' = req
          /\ \A q \in Requests \ {r} : pc'[q] = pc[q]
      BY <1>4, <2>1, CommitChanges DEF FanoutInv
    <2>3. D' = D
      BY <2>2 DEF OfJob
    <2>. QED  BY <1>1, <1>4, <2>3 DEF Commit, outVars
  <1>5. ASSUME NEW r \in Requests, PublishOrg(r)
        PROVE  IsFiniteSet(D') /\ queue'[j] + Cardinality(D') <= Len(jobFeed'[j])
    <2>1. D' = D
      BY <1>5, CallbackMoves DEF OfJob
    <2>. QED  BY <1>1, <1>5, <2>1 DEF PublishOrg
  <1>6. ASSUME NEW r \in Requests, PublishJob(r)
        PROVE  IsFiniteSet(D') /\ queue'[j] + Cardinality(D') <= Len(jobFeed'[j])
    <2>1. PICK k \in Jobs, t \in JobStatus : k = req[r].job /\ t = req[r].to
      BY <1>6, CallbackMoves DEF Request
    <2>2. /\ pc[r] = "job" /\ pc'[r] = "delay" /\ req'[r].job = k
          /\ \A q \in Requests \ {r} : pc'[q] = pc[q] /\ req'[q] = req[q]
      BY <1>6, <2>1, CallbackMoves
    <2>3. IsFiniteSet(D') /\ Cardinality(D') = Cardinality(D) + IF k = j THEN 1 ELSE 0
      BY <1>1, <2>2, Counts
    <2>4. /\ queue' = queue /\ Len(jobFeed[j]) \in Nat
          /\ IF k = j THEN Len(jobFeed'[j]) = Len(jobFeed[j]) + 1
                      ELSE jobFeed'[j] = jobFeed[j]
      BY <1>2, <1>6, <2>1, JobFeedGrows
    <2>. HIDE DEF D
    <2>5. CASE k = j
      BY <1>1, <1>2, <2>3, <2>4, <2>5
    <2>6. CASE k # j
      BY <1>1, <1>2, <2>3, <2>4, <2>6
    <2>. QED  BY <2>5, <2>6
  <1>7. ASSUME NEW r \in Requests, Delay(r) \/ CutCallback(r)
        PROVE  IsFiniteSet(D') /\ queue'[j] + Cardinality(D') <= Len(jobFeed'[j])
    <2>1. /\ pc[r] \in InCallback /\ pc'[r] = "idle" /\ (Delay(r) => pc[r] = "delay")
          /\ \A q \in Requests \ {r} : pc'[q] = pc[q] /\ req'[q] = req[q]
      BY <1>7, CallbackMoves
    <2>2. /\ IsFiniteSet(D')
          /\ Cardinality(D') = Cardinality(D)
                               - IF pc[r] = "delay" /\ req[r].job = j THEN 1 ELSE 0
      BY <1>1, <2>1, Counts
    <2>3. jobFeed' = jobFeed
      BY <1>7 DEF Delay, CutCallback, outVars
    <2>4. queue'[j] = queue[j] + IF Delay(r) /\ req[r].job = j THEN 1 ELSE 0
      BY <1>2, <1>7, <2>1 DEF Delay, CutCallback, outVars
    <2>. HIDE DEF D
    <2>. QED  BY <1>1, <1>2, <2>1, <2>2, <2>3, <2>4
  <1>. QED  BY <1>3, <1>4, <1>5, <1>6, <1>7, StepFansOut

LEMMA OnlyFailuresSkipStep ==
  ASSUME ServiceInv, FanoutInv, [ServiceNext]_serviceVars
  PROVE  OnlyFailuresSkip'
  <1>. SUFFICES ASSUME NEW j \in Jobs
                PROVE  /\ IsFiniteSet(OfJob(j, InCallback)')
                       /\ Len(events'[j]) <=
                            queue'[j] + faults' + Cardinality(OfJob(j, InCallback)')
    BY DEF OnlyFailuresSkip
  <1>. DEFINE C == OfJob(j, InCallback)
              Counted == /\ IsFiniteSet(C)
                         /\ Len(events[j]) <= queue[j] + faults + Cardinality(C)
  <1>1. Counted /\ Cardinality(C) \in Nat
    BY FS_CardinalityType DEF FanoutInv, OnlyFailuresSkip
  <1>2. /\ queue \in [Jobs -> Nat] /\ Len(events[j]) \in Nat /\ faults \in Nat
    BY ServiceAssumption DEF ServiceInv, ServiceTypeOK, LedgerInv, LedgerTypeOK
  <1>3. CASE Quiet
    <2>1. C' = C
      BY <1>3, QuietKeepsCallbacks
    <2>2. UNCHANGED <<events, queue>> /\ faults' \in Nat /\ faults' >= faults
      BY <1>3 DEF Quiet, outVars
    <2>3. Counted'
      <3>. HIDE DEF C
      <3>. QED  BY <1>1, <1>2, <2>1, <2>2
    <2>. QED  BY <2>3
  <1>4. ASSUME NEW r \in Requests, Commit(r) PROVE Counted'
    <2>1. PICK k \in Jobs, t \in JobStatus : k = req[r].job /\ t = req[r].to
      BY <1>4 DEF Commit, ServiceInv, ThreadInv, RequestsSound, Request
    <2>2. /\ \A i \in Jobs \ {k} : events'[i] = events[i]
          /\ Len(events'[k]) = Len(events[k]) + 1
          /\ pc[r] = "written" /\ pc'[r] = "org" /\ req' = req
          /\ \A q \in Requests \ {r} : pc'[q] = pc[q]
      BY <1>4, <2>1, CommitChanges DEF FanoutInv
    <2>3. UNCHANGED <<faults, queue>>
      BY <1>4 DEF Commit, outVars
    <2>4. IsFiniteSet(C') /\ Cardinality(C') = Cardinality(C) + IF k = j THEN 1 ELSE 0
      BY <1>1, <2>1, <2>2, Counts DEF InCallback
    <2>. HIDE DEF C
    <2>. QED  BY <1>1, <1>2, <2>2, <2>3, <2>4
  <1>5. ASSUME NEW r \in Requests, PublishOrg(r) \/ PublishJob(r) PROVE Counted'
    <2>1. /\ pc[r] \in InCallback /\ pc'[r] \in InCallback /\ req'[r] = req[r]
          /\ \A q \in Requests \ {r} : pc'[q] = pc[q] /\ req'[q] = req[q]
          /\ UNCHANGED events
      BY <1>5, CallbackMoves DEF InCallback, jobVars
    <2>2. UNCHANGED <<faults, queue>>
      BY <1>5 DEF PublishOrg, PublishJob
    <2>3. C' = C
      BY <2>1 DEF OfJob
    <2>. HIDE DEF C
    <2>. QED  BY <1>1, <2>1, <2>2, <2>3
  <1>6. ASSUME NEW r \in Requests, Delay(r) \/ CutCallback(r) PROVE Counted'
    <2>1. /\ pc[r] \in InCallback /\ pc'[r] = "idle"
          /\ \A q \in Requests \ {r} : pc'[q] = pc[q] /\ req'[q] = req[q]
          /\ UNCHANGED events
      BY <1>6, CallbackMoves DEF jobVars
    <2>2. /\ IsFiniteSet(C')
          /\ Cardinality(C') = Cardinality(C) - IF req[r].job = j THEN 1 ELSE 0
      BY <1>1, <2>1, Counts DEF InCallback
    <2>3. CASE Delay(r)
      <3>1. /\ faults' = faults
            /\ queue'[j] = queue[j] + IF req[r].job = j THEN 1 ELSE 0
        BY <1>2, <2>3 DEF Delay
      <3>. HIDE DEF C
      <3>. QED  BY <1>1, <1>2, <2>1, <2>2, <3>1
    <2>4. CASE CutCallback(r)
      <3>1. faults' = faults + 1 /\ queue' = queue
        BY <2>4, CallbackMoves DEF CutCallback, outVars
      <3>. HIDE DEF C
      <3>. QED  BY <1>1, <1>2, <2>1, <2>2, <3>1
    <2>. QED  BY <1>6, <2>3, <2>4
  <1>. QED  BY <1>3, <1>4, <1>5, <1>6, StepFansOut

LEMMA FanoutStep ==
  ASSUME ServiceInv, FanoutInv, [ServiceNext]_serviceVars
  PROVE  FanoutInv'
  BY StatusPassedStep, CallbacksApartStep, FeedsSoundStep, QueueBoundedStep,
     OnlyFailuresSkipStep
     DEF FanoutInv

\* Every reachable state of the server satisfies the invariant of the fan-out.
THEOREM FanoutInvariant == ServiceSpec => [](ServiceInv /\ FanoutInv)
  BY ServiceInitial, ServiceStep, FanoutInitial, FanoutStep, PTL DEF ServiceSpec

\* _on_status_committed: nothing is announced that was not committed, and nothing
\* twice, whatever the interleaving and the failures.
THEOREM NothingUncommittedAnnounced == ServiceSpec => []FanoutFollowsCommit
  <1>1. ServiceInv /\ FanoutInv => FanoutFollowsCommit
    <2>. SUFFICES ASSUME ServiceInv, FanoutInv, NEW j \in Jobs
                  PROVE  /\ Range(orgFeed[j]) \subseteq Changes(j)
                         /\ Range(jobFeed[j]) \subseteq Range(orgFeed[j])
                         /\ Len(orgFeed[j]) = Cardinality(Range(orgFeed[j]))
                         /\ Len(jobFeed[j]) = Cardinality(Range(jobFeed[j]))
                         /\ queue[j] <= Len(jobFeed[j])
      BY DEF FanoutFollowsCommit
    <2>1. /\ orgFeed[j] \in Seq(JobStatus) /\ jobFeed[j] \in Seq(JobStatus)
          /\ queue[j] \in Nat
      BY DEF ServiceInv, ServiceTypeOK
    <2>2. queue[j] <= Len(jobFeed[j])
      BY <2>1, FS_CardinalityType DEF FanoutInv, QueueBounded
    <2>. QED  BY <2>1, <2>2, InjectiveLength DEF FanoutInv, FeedsSound
  <1>. QED  BY <1>1, FanoutInvariant, PTL

LEMMA JobStatusFinite == IsFiniteSet(JobStatus)
  <1>1. JobStatus = {"new"} \union {"assigned"} \union {"en_route"} \union {"on_site"}
                      \union {"completed"} \union {"cancelled"}
    BY DEF JobStatus
  <1>. QED  BY <1>1, FS_Singleton, FS_Union

\* The room's feed holds nothing twice and nothing that the organization's does not.
LEMMA RoomHearsNoMore ==
  ASSUME ServiceInv, FanoutInv, NEW j \in Jobs
  PROVE  /\ Len(jobFeed[j]) \in Nat /\ Len(orgFeed[j]) \in Nat
         /\ Len(jobFeed[j]) <= Len(orgFeed[j])
  <1>1. orgFeed[j] \in Seq(JobStatus) /\ jobFeed[j] \in Seq(JobStatus)
    BY DEF ServiceInv, ServiceTypeOK
  <1>2. /\ Len(orgFeed[j]) = Cardinality(Range(orgFeed[j]))
        /\ Len(jobFeed[j]) = Cardinality(Range(jobFeed[j]))
    BY <1>1, InjectiveLength DEF FanoutInv, FeedsSound
  <1>3. IsFiniteSet(Range(orgFeed[j]))
    <2>1. /\ Range(orgFeed[j]) \subseteq JobStatus
      BY <1>1 DEF Range
    <2>. QED  BY <2>1, JobStatusFinite, FS_Subset
  <1>4. Cardinality(Range(jobFeed[j])) <= Cardinality(Range(orgFeed[j]))
    BY <1>3, FS_Subset DEF FanoutInv, FeedsSound
  <1>5. Len(jobFeed[j]) \in Nat /\ Len(orgFeed[j]) \in Nat
    BY <1>1
  <1>. QED  BY <1>2, <1>4, <1>5

\* A failure costs one change its fan-out and no other change anything, whatever the
\* interleaving of the requests.
THEOREM NothingLeftOut == ServiceSpec => []FanoutComplete
  <1>1. ServiceInv /\ FanoutInv => FanoutComplete
    <2>. SUFFICES ASSUME ServiceInv, FanoutInv, NEW j \in Jobs,
                         \A r \in Requests : pc[r] \in InCallback => req[r].job # j
                  PROVE  /\ Len(events[j]) <= Len(orgFeed[j]) + faults
                         /\ Len(events[j]) <= Len(jobFeed[j]) + faults
                         /\ Len(events[j]) <= queue[j] + faults
      BY DEF FanoutComplete
    <2>1. OfJob(j, InCallback) = {} /\ Cardinality({}) = 0
      BY FS_EmptySet DEF OfJob
    <2>2. Len(events[j]) <= queue[j] + faults + 0
      BY <2>1 DEF FanoutInv, OnlyFailuresSkip
    <2>3. /\ Len(events[j]) \in Nat /\ queue[j] \in Nat /\ faults \in Nat
      BY ServiceAssumption DEF ServiceInv, ServiceTypeOK, LedgerInv, LedgerTypeOK
    <2>4. IsFiniteSet(OfJob(j, {"delay"})) => Cardinality(OfJob(j, {"delay"})) \in Nat
      BY FS_CardinalityType
    <2>5. /\ Len(jobFeed[j]) \in Nat /\ Len(orgFeed[j]) \in Nat
          /\ Len(jobFeed[j]) <= Len(orgFeed[j])
      BY RoomHearsNoMore
    <2>6. queue[j] <= Len(jobFeed[j])
      BY <2>3, <2>4, <2>5 DEF FanoutInv, QueueBounded
    <2>. QED  BY <2>2, <2>3, <2>5, <2>6
  <1>. QED  BY <1>1, FanoutInvariant, PTL
=============================================================================
