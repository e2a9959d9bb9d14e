--------------------------- MODULE JobAdminProofs ---------------------------
(***************************************************************************)
(* Staff who edit and delete jobs behind the back of running requests      *)
(* cannot make an event lie, for any number of threads, tabs, jobs and     *)
(* users, and whichever columns the staff change.  The ledger's invariant  *)
(* is no help: its rules about agents, tenants and whole trails end with   *)
(* the first form that is saved.  What is left is the row lock.            *)
(***************************************************************************)
EXTENDS JobAdmin, JobServiceProofs

-----------------------------------------------------------------------------
(* The inductive invariant.                                                *)

\* The job of a request may be deleted meanwhile, but was there once: its key
\* is not given to another job.  So is that of a form.
RequestsServed ==
  \A r \in Requests : pc[r] # "idle" =>
    /\ req[r] \in Request
    /\ Exists(req[r].job) \/ req[r].job \in deleted

FormsServed ==
  \A f \in Staff : form[f] # NoForm =>
    form[f] \in Form /\ (Exists(form[f].job) \/ form[f].job \in deleted)

AdminInv ==
  /\ AdminTypeOK
  /\ RequestsServed
  /\ FormsServed
  /\ WritesValid
  /\ ValidatedRowIsCurrent

LEMMA AdminInitial == AdminInit => AdminInv
  <1>. SUFFICES ASSUME AdminInit PROVE AdminInv
    OBVIOUS
  <1>1. ServiceInv
    BY ServiceInitial DEF AdminInit
  <1>2. AdminTypeOK
    BY <1>1, AdminAssumption DEF AdminInit, AdminTypeOK, ServiceInv, ServiceInit, LedgerInit
  <1>3. RequestsServed
    BY <1>1 DEF ServiceInv, ThreadInv, RequestsSound, RequestsServed
  <1>4. FormsServed
    BY DEF AdminInit, FormsServed
  <1>. QED  BY <1>1, <1>2, <1>3, <1>4 DEF AdminInv, ServiceInv, ThreadInv

-----------------------------------------------------------------------------
(* The API's own steps.                                                    *)

LEMMA CreateTypes ==
  ASSUME LedgerTypeOK, NEW u \in Users, NEW j \in Jobs, NEW c \in Users, Create(u, j, c)
  PROVE  /\ LedgerTypeOK'
         /\ status' = [status EXCEPT ![j] = "new"] /\ events' = events
  <1>1. "new" \in JobStatus
    BY DEF JobStatus
  <1>. QED
    BY <1>1, AccountsAssumption, LedgerAssumption DEF Create, CustomerFits, Exists, LedgerTypeOK

\* What Commit logs.
Logged(r) == [from |-> from[r], to |-> req[r].to, actor |-> req[r].user]

\* A commit is the legal step that its event tells: nobody has touched the row
\* since it was locked.
LEMMA CommitTellsTruth ==
  ASSUME AdminInv, NEW r \in Requests, Commit(r)
  PROVE  /\ req[r].job \in Jobs /\ Exists(req[r].job)
         /\ Logged(r) \in Event /\ Logged(r).from = status[req[r].job]
         /\ <<Logged(r).from, Logged(r).to>> \in TRANSITIONS
         /\ status' = [status EXCEPT ![req[r].job] = Logged(r).to]
         /\ events' = [events EXCEPT ![req[r].job] = Append(@, Logged(r))]
  <1>1. /\ req[r] \in Request /\ req[r].job \in Jobs
        /\ from[r] = status[req[r].job]
        /\ ValidTransition(from[r], req[r].to)
    BY DEF Commit, AdminInv, RequestsServed, WritesValid, ValidatedRowIsCurrent, InTransaction,
           Request
  <1>2. from[r] \in JobStatus /\ Exists(req[r].job)
    BY <1>1, Edges, LedgerAssumption DEF Exists
  <1>3. Logged(r) \in Event
    BY <1>1, <1>2 DEF Request, Event, Logged
  <1>. QED  BY <1>1, <1>2, <1>3 DEF Commit, Log, ValidTransition, Logged

LEMMA CommitTypes ==
  ASSUME AdminInv, NEW r \in Requests, Commit(r)
  PROVE  /\ LedgerTypeOK'
         /\ \A j \in Jobs : Exists(j)' <=> Exists(j)
         /\ \A j \in Jobs : ~Exists(j)' => events'[j] = events[j]
  <1>. DEFINE j == req[r].job
              e == Logged(r)
  <1>1. /\ j \in Jobs /\ Exists(j) /\ e \in Event
        /\ status' = [status EXCEPT ![j] = e.to]
        /\ events' = [events EXCEPT ![j] = Append(@, e)]
    BY CommitTellsTruth
  <1>2. req[r] \in Request
    BY DEF Commit, AdminInv, RequestsServed
  <1>3. /\ agent' = IF IsAssign(req[r]) THEN [agent EXCEPT ![j] = req[r].agent] ELSE agent
        /\ UNCHANGED <<customer, org>>
    BY DEF Commit
  <1>4. LedgerTypeOK
    BY DEF AdminInv, AdminTypeOK, ServiceTypeOK
  <1>5. e.to \in JobStatus /\ Absent \notin JobStatus /\ req[r].agent \in Users \union {NoUser}
    BY <1>2, LedgerAssumption DEF Request, Logged
  <1>. HIDE DEF j, e
  <1>6. events' \in [Jobs -> Seq(Event)]
    <2>1. events[j] \in Seq(Event)
      BY <1>1, <1>4 DEF LedgerTypeOK
    <2>2. Append(events[j], e) \in Seq(Event)
      BY <1>1, <2>1
    <2>. QED  BY <1>1, <1>4, <2>2 DEF LedgerTypeOK
  <1>7. \A i \in Jobs : Exists(i)' <=> Exists(i)
    BY <1>1, <1>4, <1>5 DEF LedgerTypeOK, Exists
  <1>8. LedgerTypeOK'
    BY <1>1, <1>3, <1>4, <1>5, <1>6, <1>7 DEF LedgerTypeOK, Exists
  <1>. QED  BY <1>1, <1>4, <1>5, <1>7, <1>8 DEF LedgerTypeOK, Exists

\* What a step of the API does to the tables.
LEMMA ServingSteps ==
  ASSUME AdminInv, Serving
  PROVE  /\ [ServiceNext]_serviceVars /\ UNCHANGED adminVars
         /\ LedgerTypeOK'
         /\ \A j \in Jobs : Exists(j) => Exists(j)'
         /\ \A j \in Jobs : ~Exists(j)' => events'[j] = events[j]
         /\ \A j \in Jobs :
              status'[j] # status[j] =>
                \/ ~Exists(j) /\ j \notin deleted
                \/ \E r \in Requests : Commit(r) /\ req[r].job = j /\ Exists(j)
  <1>. USE DEF AdminInv, AdminTypeOK, ServiceTypeOK
  <1>1. [ServiceNext]_serviceVars /\ UNCHANGED adminVars
    BY DEF Serving, ServiceNext
  <1>2. CASE CreateJob /\ \A j \in deleted : status'[j] = status[j]
    <2>1. PICK u \in Users, k \in Jobs, c \in Users : Create(u, k, c)
      BY <1>2 DEF CreateJob
    <2>2. /\ LedgerTypeOK' /\ ~Exists(k)
          /\ status' = [status EXCEPT ![k] = "new"] /\ events' = events
      BY <2>1, CreateTypes DEF Create
    <2>3. k \notin deleted
      <3>1. "new" # Absent
        BY LedgerAssumption DEF JobStatus
      <3>. QED  BY <1>2, <2>2, <3>1 DEF LedgerTypeOK, Exists
    <2>. QED  BY <1>1, <1>2, <2>2, <2>3 DEF Exists, LedgerTypeOK
  <1>3. ASSUME NEW r \in Requests, Commit(r)
        PROVE  /\ LedgerTypeOK'
               /\ \A j \in Jobs : Exists(j) => Exists(j)'
               /\ \A j \in Jobs : ~Exists(j)' => events'[j] = events[j]
               /\ \A j \in Jobs : status'[j] # status[j] => req[r].job = j /\ Exists(j)
    <2>1. \A j \in Jobs : status'[j] # status[j] => req[r].job = j
      BY <1>3 DEF Commit, LedgerTypeOK
    <2>2. Exists(req[r].job)
      BY <1>3, CommitTellsTruth
    <2>. QED  BY <1>3, <2>1, <2>2, CommitTypes DEF Exists
  <1>4. ASSUME NEW r \in Requests, OtherStep(r)
        PROVE  /\ LedgerTypeOK'
               /\ UNCHANGED <<status, events>>
    BY <1>4, OtherStepsKeepTables DEF jobVars, LedgerTypeOK, Exists
  <1>5. \/ CreateJob /\ (\A j \in deleted : status'[j] = status[j])
        \/ \E r \in Requests : Commit(r) \/ OtherStep(r)
    BY DEF Serving, Serve, OtherStep
  <1>. QED  BY <1>1, <1>2, <1>3, <1>4, <1>5 DEF Exists

LEMMA ServingKeeps ==
  ASSUME AdminInv, Serving
  PROVE  AdminInv'
  <1>. USE DEF AdminInv
  <1>1. ServiceTypeOK'
    BY ServingSteps, ServiceTypeStep DEF AdminTypeOK, RequestsServed, RequestsTyped
  <1>2. AdminTypeOK'
    <2>1. \A j \in Jobs : ~Exists(j)' => ~Exists(j) /\ events'[j] = events[j]
      BY ServingSteps
    <2>. QED  BY <1>1, <2>1, ServingSteps DEF AdminTypeOK, adminVars, Exists
  <1>3. RequestsServed'
    <2>. SUFFICES ASSUME NEW t \in Requests, pc'[t] # "idle"
                  PROVE  /\ req'[t] \in Request
                         /\ \E j \in Jobs : j = req'[t].job /\ (Exists(j)' \/ j \in deleted)
      BY ServingSteps DEF RequestsServed, Exists, adminVars
    <2>1. CASE pc[t] # "idle" /\ req'[t] = req[t]
      BY <2>1, ServingSteps DEF RequestsServed, Request
    <2>2. ASSUME NEW q \in Request, Accept(t, q)
          PROVE  req'[t] = q /\ q.job \in Jobs /\ Exists(q.job)'
      BY <2>2, ServingSteps DEF Accept, Request, AdminTypeOK, ServiceTypeOK
    <2>3. CASE GetForAssign(t)
      <3>1. PICK q \in Request : Accept(t, q)
        <4>1. PICK u \in Users, j \in Jobs, a \in Users :
                Accept(t, [user |-> u, job |-> j, to |-> "assigned", agent |-> a])
          BY <2>3 DEF GetForAssign
        <4>2. [user |-> u, job |-> j, to |-> "assigned", agent |-> a] \in Request
          BY DEF Request, JobStatus
        <4>. QED  BY <4>1, <4>2
      <3>. QED  BY <2>2, <3>1
    <2>4. CASE GetForTransition(t)
      <3>1. PICK q \in Request : Accept(t, q)
        <4>1. PICK u \in Users, j \in Jobs, s \in Targets :
                Accept(t, [user |-> u, job |-> j, to |-> s, agent |-> NoUser])
          BY <2>4 DEF GetForTransition
        <4>2. [user |-> u, job |-> j, to |-> s, agent |-> NoUser] \in Request
          BY ServiceAssumption DEF Request
        <4>. QED  BY <4>1, <4>2
      <3>. QED  BY <2>2, <3>1
    <2>5. CASE SelectForUpdate(t) \/ Write(t) \/ Commit(t)
      BY <2>1, <2>5 DEF SelectForUpdate, Write, Commit
    <2>. QED
      BY <2>1, <2>3, <2>4, <2>5, ServingSteps, ThreadMoves DEF AdminTypeOK, InCallback
  <1>4. WritesValid'
    BY ServingSteps, WritesStep DEF AdminTypeOK
  <1>5. ASSUME NEW t \in Requests, pc[t] \in InTransaction, ~Commit(t)
        PROVE  status'[req[t].job] = status[req[t].job]
    <2>1. /\ req[t].job \in Jobs
          /\ Exists(req[t].job) \/ req[t].job \in deleted
      BY <1>5 DEF RequestsServed, InTransaction, Request
    <2>2. ASSUME NEW r \in Requests, Commit(r) PROVE req[r].job # req[t].job
      <3>1. r # t /\ pc[r] \in InTransaction
        BY <1>5, <2>2 DEF Commit, InTransaction
      <3>. QED  BY <1>5, <3>1 DEF ValidatedRowIsCurrent, Holds
    <2>. QED  BY <2>1, <2>2, ServingSteps
  <1>6. ValidatedRowIsCurrent'
    BY <1>5, ServingSteps, LocksStep DEF AdminTypeOK
  <1>7. FormsServed'
    BY ServingSteps DEF FormsServed, Form, Exists, adminVars
  <1>. QED  BY <1>2, <1>3, <1>4, <1>6, <1>7

-----------------------------------------------------------------------------
(* The steps of the staff.                                                 *)

\* A row that no transaction holds may change under the requests.
LEMMA UnlockedRowChanges ==
  ASSUME AdminInv, UNCHANGED threadVars, NEW j \in Jobs, RowFree(j),
         \A i \in Jobs \ {j} : status'[i] = status[i]
  PROVE  WritesValid' /\ ValidatedRowIsCurrent'
  <1>1. WritesValid'
    BY DEF AdminInv, WritesValid, threadVars
  <1>2. ASSUME NEW r \in Requests, pc[r] \in InTransaction
        PROVE  req[r].job \in Jobs \ {j}
    BY <1>2 DEF AdminInv, RequestsServed, RowFree, Holds, InTransaction, Request
  <1>3. ValidatedRowIsCurrent'
    BY <1>2 DEF AdminInv, ValidatedRowIsCurrent, Holds, threadVars
  <1>. QED  BY <1>1, <1>3

LEMMA SaveTypes ==
  ASSUME AdminInv, NEW j \in Jobs, NEW row \in Row, SaveRow(j, row),
         UNCHANGED <<threadVars, outVars, events>>
  PROVE  /\ ServiceTypeOK'
         /\ Exists(j)' /\ \A i \in Jobs \ {j} : status'[i] = status[i]
  <1>. USE LedgerAssumption DEF AdminInv, AdminTypeOK, ServiceTypeOK, SaveRow, Row
  <1>1. Exists(j)' /\ \A i \in Jobs \ {j} : status'[i] = status[i]
    BY DEF LedgerTypeOK, Exists
  <1>2. LedgerTypeOK'
    BY DEF LedgerTypeOK, Exists
  <1>. QED  BY <1>1, <1>2 DEF threadVars, outVars

\* An UPDATE of the row, or an INSERT if it was deleted.
LEMMA SaveFormKeeps ==
  ASSUME AdminInv, NEW f \in Staff, SaveForm(f)
  PROVE  AdminInv'
  <1>1. /\ form[f] \in Form
        /\ Exists(form[f].job) \/ form[f].job \in deleted
    BY DEF SaveForm, AdminInv, AdminTypeOK, FormsServed
  <1>2. PICK j \in Jobs, row \in Row :
          /\ j = form[f].job /\ row = form[f].row
          /\ RowFree(j) /\ SaveRow(j, row)
    BY <1>1 DEF SaveForm, Form
  <1>3. /\ UNCHANGED <<threadVars, outVars, events, doomed, deleted, posts>>
        /\ form' = [form EXCEPT ![f] = NoForm] /\ posted' = posted \ {f} /\ f \in posted
    BY DEF SaveForm, Show
  <1>4. /\ ServiceTypeOK'
        /\ Exists(j)' /\ \A i \in Jobs \ {j} : status'[i] = status[i]
    BY <1>2, <1>3, SaveTypes
  <1>5. \A i \in Jobs : Exists(i) => Exists(i)'
    BY <1>4 DEF Exists
  <1>6. AdminTypeOK'
    <2>1. /\ form' \in [Staff -> Form \union {NoForm}]
          /\ (posted \union doomed)' \in SUBSET {g \in Staff : form'[g] # NoForm}
          /\ posted' \intersect doomed' = {}
      BY <1>3 DEF AdminInv, AdminTypeOK
    <2>2. \A i \in Jobs : ~Exists(i)' => events'[i] = <<>>
      BY <1>3, <1>5 DEF AdminInv, AdminTypeOK
    <2>. QED  BY <1>3, <1>4, <2>1, <2>2 DEF AdminInv, AdminTypeOK, Exists
  <1>7. RequestsServed' /\ FormsServed'
    BY <1>3, <1>5
       DEF AdminInv, AdminTypeOK, RequestsServed, FormsServed, Request, Form, Exists, threadVars
  <1>. QED  BY <1>2, <1>3, <1>4, <1>6, <1>7, UnlockedRowChanges DEF AdminInv

LEMMA AddJobKeeps ==
  ASSUME AdminInv, AddJob
  PROVE  AdminInv'
  <1>1. PICK j \in Jobs \ deleted, row \in Row :
          /\ ~Exists(j)
          /\ SaveRow(j, row)
          /\ UNCHANGED <<threadVars, outVars, events, adminVars>>
    BY DEF AddJob, EditsOf
  <1>2. /\ ServiceTypeOK'
        /\ Exists(j)' /\ \A i \in Jobs \ {j} : status'[i] = status[i]
    BY <1>1, SaveTypes
  <1>3. RowFree(j)
    BY <1>1 DEF AdminInv, RequestsServed, RowFree, Holds, InTransaction
  <1>4. AdminTypeOK'
    BY <1>1, <1>2 DEF AdminInv, AdminTypeOK, Exists, adminVars
  <1>5. RequestsServed' /\ FormsServed'
    BY <1>1, <1>2
       DEF AdminInv, RequestsServed, FormsServed, Request, Form, Exists, threadVars, adminVars
  <1>. QED  BY <1>1, <1>2, <1>3, <1>4, <1>5, UnlockedRowChanges DEF AdminInv

LEMMA DeleteJobKeeps ==
  ASSUME AdminInv, NEW f \in Staff, DeleteJob(f)
  PROVE  AdminInv'
  <1>1. PICK j \in Jobs : j = form[f].job /\ Exists(j) /\ RowFree(j)
    BY DEF DeleteJob, AdminInv, AdminTypeOK, Form
  <1>2. /\ status' = [status EXCEPT ![j] = Absent]
        /\ agent' = [agent EXCEPT ![j] = NoUser]
        /\ customer' = [customer EXCEPT ![j] = NoUser]
        /\ org' = [org EXCEPT ![j] = NoOrg]
        /\ events' = [events EXCEPT ![j] = <<>>]
        /\ UNCHANGED <<threadVars, outVars, posted, posts>>
        /\ form' = [form EXCEPT ![f] = NoForm] /\ doomed' = doomed \ {f}
        /\ deleted' = deleted \union {j}
    BY <1>1 DEF DeleteJob, Cascade, Show
  <1>3. ServiceTypeOK'
    <2>1. LedgerTypeOK'
      BY <1>1, <1>2, LedgerAssumption
         DEF AdminInv, AdminTypeOK, ServiceTypeOK, LedgerTypeOK, Exists
    <2>. QED
      BY <1>2, <2>1 DEF AdminInv, AdminTypeOK, ServiceTypeOK, threadVars, outVars
  <1>4. status'[j] = Absent /\ \A i \in Jobs \ {j} : status'[i] = status[i]
    BY <1>1, <1>2 DEF AdminInv, AdminTypeOK, ServiceTypeOK, LedgerTypeOK
  <1>5. AdminTypeOK'
    <2>1. \A i \in Jobs : ~Exists(i)' => events'[i] = <<>>
      BY <1>1, <1>2, <1>4
         DEF AdminInv, AdminTypeOK, ServiceTypeOK, LedgerTypeOK, Exists
    <2>2. /\ form' \in [Staff -> Form \union {NoForm}]
          /\ (posted \union doomed)' \in SUBSET {g \in Staff : form'[g] # NoForm}
          /\ posted' \intersect doomed' = {}
      BY <1>2 DEF DeleteJob, AdminInv, AdminTypeOK
    <2>. QED  BY <1>1, <1>2, <1>3, <2>1, <2>2 DEF AdminInv, AdminTypeOK, Exists
  <1>6. RequestsServed' /\ FormsServed'
    BY <1>2, <1>4
       DEF AdminInv, AdminTypeOK, RequestsServed, FormsServed, Request, Form, Exists, threadVars
  <1>. QED  BY <1>1, <1>2, <1>4, <1>5, <1>6, UnlockedRowChanges DEF AdminInv

\* What staff look at, post, confirm or abandon.
LEMMA FormsKeep ==
  ASSUME AdminInv, NEW f \in Staff,
         OpenForm(f) \/ PostForm(f) \/ ConfirmDelete(f) \/ Abandon(f)
  PROVE  AdminInv'
  <1>1. UNCHANGED <<serviceVars, deleted>>
    BY DEF OpenForm, PostForm, ConfirmDelete, Abandon
  <1>2. UNCHANGED <<jobVars, threadVars, outVars>>
    BY <1>1 DEF serviceVars
  <1>3. ServiceTypeOK' /\ RequestsServed' /\ WritesValid' /\ ValidatedRowIsCurrent'
    BY <1>1, <1>2
       DEF AdminInv, AdminTypeOK, ServiceTypeOK, LedgerTypeOK, RequestsServed, WritesValid,
           ValidatedRowIsCurrent, Exists, Holds, jobVars, threadVars, outVars
  <1>. DEFINE FormsOK ==
         /\ form \in [Staff -> Form \union {NoForm}]
         /\ posted \union doomed \in SUBSET {g \in Staff : form[g] # NoForm}
         /\ posted \intersect doomed = {}
         /\ posts \in 0 .. MaxPosts
         /\ FormsServed
  <1>4. FormsOK
    BY DEF AdminInv, AdminTypeOK
  <1>5. UNCHANGED <<status, deleted>>
    BY <1>1, <1>2 DEF jobVars
  <1>6. FormsOK'
    <2>. USE <1>4, <1>5 DEF FormsServed, Exists
    <2>1. CASE OpenForm(f)
      <3>1. PICK k \in Jobs :
              /\ form[f] = NoForm /\ Exists(k)
              /\ form' = [form EXCEPT ![f] = [job |-> k, row |-> RowOf(k)]]
              /\ UNCHANGED <<posted, doomed, posts>>
        BY <2>1 DEF OpenForm, Show
      <3>2. RowOf(k) \in Row
        BY <3>1 DEF RowOf, Row, AdminInv, AdminTypeOK, ServiceTypeOK, LedgerTypeOK
      <3>3. [job |-> k, row |-> RowOf(k)] \in Form
        BY <3>2 DEF Form
      <3>. QED  BY <3>1, <3>3
    <2>2. CASE PostForm(f)
      <3>1. PICK row \in Row :
              /\ form[f] # NoForm /\ Exists(form[f].job)
              /\ form' = [form EXCEPT ![f] = [form[f] EXCEPT !.row = row]]
              /\ posted' = posted \union {f} /\ f \notin doomed /\ UNCHANGED doomed
              /\ posts < MaxPosts /\ posts' = posts + 1
        BY <2>2 DEF PostForm, Show, EditsOf
      <3>2. form[f] \in Form
        BY <3>1
      <3>3. /\ [form[f] EXCEPT !.row = row] \in Form
            /\ [form[f] EXCEPT !.row = row].job = form[f].job
        BY <3>2 DEF Form
      <3>4. posts' \in 0 .. MaxPosts
        BY <3>1, AdminAssumption
      <3>5. NoForm \notin Form
        BY AdminAssumption DEF Form, Row
      <3>. QED  BY <3>1, <3>2, <3>3, <3>4, <3>5
    <2>3. CASE ConfirmDelete(f)
      BY <2>3 DEF ConfirmDelete
    <2>4. CASE Abandon(f)
      BY <2>4 DEF Abandon, Show
    <2>. QED  BY <2>1, <2>2, <2>3, <2>4
  <1>7. AdminTypeOK'
    BY <1>1, <1>2, <1>3, <1>6 DEF AdminInv, AdminTypeOK, Exists, jobVars
  <1>. QED  BY <1>3, <1>6, <1>7 DEF AdminInv

LEMMA AdminStep == AdminInv /\ [AdminNext]_allVars => AdminInv'
  <1>. SUFFICES ASSUME AdminInv, UNCHANGED allVars PROVE AdminInv'
    BY ServingKeeps, AddJobKeeps, SaveFormKeeps, DeleteJobKeeps, FormsKeep DEF AdminNext
  <1>. QED
    BY DEF allVars, serviceVars, adminVars, jobVars, threadVars, outVars, AdminInv, AdminTypeOK,
           ServiceTypeOK, LedgerTypeOK, RequestsServed, FormsServed, WritesValid,
           ValidatedRowIsCurrent, Exists, Holds

-----------------------------------------------------------------------------
(* The theorems.                                                           *)

\* Every reachable state satisfies the inductive invariant.
THEOREM AdminInvariant == AdminSpec => []AdminInv
  BY AdminInitial, AdminStep, PTL DEF AdminSpec

\* Types; the events of a job go with it, and none is added to a job that is gone.
THEOREM AdminTypesCorrect == AdminSpec => []AdminTypeOK
  <1>1. AdminInv => AdminTypeOK
    BY DEF AdminInv
  <1>. QED  BY <1>1, AdminInvariant, PTL

\* Whatever staff save or delete between the statements of a request, each
\* event tells the legal step that its job takes when the event appears.
THEOREM NoEventLies == AdminSpec => EventsTellTruth
  <1>1. AdminInv /\ [AdminNext]_allVars =>
          [\A j \in Jobs : Exists(j) /\ status'[j] # Absent /\ events'[j] # events[j] =>
             \E e \in Event :
               /\ events'[j] = Append(events[j], e)
               /\ e.from = status[j] /\ e.to = status'[j]
               /\ <<e.from, e.to>> \in TRANSITIONS]_allVars
    <2>. SUFFICES ASSUME AdminInv, AdminNext, NEW j \in Jobs,
                         Exists(j), status'[j] # Absent, events'[j] # events[j]
                  PROVE  \E e \in Event :
                           /\ events'[j] = Append(events[j], e)
                           /\ e.from = status[j] /\ e.to = status'[j]
                           /\ <<e.from, e.to>> \in TRANSITIONS
      OBVIOUS
    <2>1. ASSUME NEW r \in Requests, Commit(r)
          PROVE  /\ Logged(r) \in Event
                 /\ events'[j] = Append(events[j], Logged(r))
                 /\ Logged(r).from = status[j] /\ Logged(r).to = status'[j]
                 /\ <<Logged(r).from, Logged(r).to>> \in TRANSITIONS
      <3>1. req[r].job = j
        <4>1. events' = [events EXCEPT ![req[r].job] = Append(@, Logged(r))]
          BY <2>1, CommitTellsTruth
        <4>2. events \in [Jobs -> Seq(Event)]
          BY DEF AdminInv, AdminTypeOK, ServiceTypeOK, LedgerTypeOK
        <4>. QED  BY <4>1, <4>2
      <3>2. /\ Logged(r) \in Event /\ Logged(r).from = status[j]
            /\ <<Logged(r).from, Logged(r).to>> \in TRANSITIONS
            /\ status' = [status EXCEPT ![j] = Logged(r).to]
            /\ events' = [events EXCEPT ![j] = Append(@, Logged(r))]
        BY <2>1, <3>1, CommitTellsTruth
      <3>3. j \in DOMAIN status /\ j \in DOMAIN events
        BY DEF AdminInv, AdminTypeOK, ServiceTypeOK, LedgerTypeOK
      <3>. QED  BY <3>2, <3>3
    <2>. USE DEF AdminInv, AdminTypeOK, ServiceTypeOK, LedgerTypeOK
    <2>2. ASSUME NEW r \in Requests, OtherStep(r) PROVE FALSE
      BY <2>2, OtherStepsKeepTables DEF jobVars
    <2>3. ~CreateJob /\ ~AddJob
      BY CreateTypes DEF CreateJob, AddJob
    <2>4. ASSUME NEW f \in Staff,
                 OpenForm(f) \/ PostForm(f) \/ SaveForm(f) \/ ConfirmDelete(f) \/ Abandon(f)
          PROVE  FALSE
      BY <2>4 DEF OpenForm, PostForm, SaveForm, ConfirmDelete, Abandon, serviceVars, jobVars
    <2>5. ASSUME NEW f \in Staff, DeleteJob(f) PROVE FALSE
      <3>1. form[f].job \in Jobs
        BY <2>5 DEF DeleteJob, Form
      <3>. QED  BY <2>5, <3>1 DEF DeleteJob, Cascade
    <2>. QED
      BY <2>1, <2>2, <2>3, <2>4, <2>5 DEF AdminNext, Serving, Serve, OtherStep
  <1>. QED  BY <1>1, AdminInvariant, PTL DEF AdminSpec, EventsTellTruth

\* A job that was deleted does not come back by a request that had read it or
\* passed its checks before the deletion: only by a change form.
THEOREM DeletionsStandForRequests == AdminSpec => OnlyFormsRevive
  <1>1. AdminInv /\ [AdminNext]_allVars =>
          [\A j \in deleted : ~Exists(j) /\ status'[j] # Absent =>
             \E f \in posted : form[f].job = j]_allVars
    <2>. SUFFICES ASSUME AdminInv, AdminNext, NEW j \in deleted,
                         ~Exists(j), status'[j] # Absent
                  PROVE  \E f \in posted : form[f].job = j
      OBVIOUS
    <2>. USE DEF AdminInv, AdminTypeOK, ServiceTypeOK, LedgerTypeOK
    <2>1. j \in Jobs /\ status'[j] # status[j]
      BY DEF Exists
    <2>2. ~Serving
      BY <2>1, ServingSteps
    <2>3. ~AddJob
      BY <2>1 DEF AddJob, SaveRow
    <2>4. ASSUME NEW f \in Staff, SaveForm(f) PROVE f \in posted /\ form[f].job = j
      BY <2>1, <2>4 DEF SaveForm, SaveRow
    <2>5. ASSUME NEW f \in Staff,
                 OpenForm(f) \/ PostForm(f) \/ ConfirmDelete(f) \/ DeleteJob(f) \/ Abandon(f)
          PROVE  FALSE
      BY <2>1, <2>5
         DEF OpenForm, PostForm, ConfirmDelete, DeleteJob, Abandon, Exists, serviceVars, jobVars
    <2>. QED  BY <2>2, <2>3, <2>4, <2>5 DEF AdminNext
  <1>. QED  BY <1>1, AdminInvariant, PTL DEF AdminSpec, OnlyFormsRevive
=============================================================================
