----------------------------- MODULE SeedProofs -----------------------------
(***************************************************************************)
(* The seed script next to the API, for any number of other users, jobs,   *)
(* requests and interrupted runs: what it does to the tables are requests  *)
(* that its users were permitted to make, and it makes its jobs once.      *)
(***************************************************************************)
EXTENDS Seed, JobLedgerProofs, FiniteSetTheorems

-----------------------------------------------------------------------------
(* What the operators give.                                                *)

\* Each job's plan is a sequence of statuses, of which the first and no other
\* is "assigned": the agent has the job before he is to move it on.
LEMMA Plans ==
  /\ Len(Plan) = 6
  /\ \A n \in 1 .. 6 :
       /\ Len(Plan[n]) \in Nat
       /\ \A i \in 1 .. Len(Plan[n]) :
            Plan[n][i] \in JobStatus /\ (Plan[n][i] = "assigned" <=> i = 1)
  <1>. USE DEF JobStatus
  <1>1. Len(Plan) = 6
    BY DEF Plan
  <1>2. /\ Plan[1] = <<>>
        /\ Plan[2] = <<"assigned">>
        /\ Plan[3] = <<"assigned", "en_route">>
        /\ Plan[4] = <<"assigned", "en_route", "on_site">>
        /\ Plan[5] = <<"assigned", "en_route", "on_site", "completed">>
        /\ Plan[6] = <<"assigned", "cancelled">>
    BY DEF Plan
  <1>. HIDE DEF Plan
  <1>3. SUFFICES ASSUME NEW n \in 1 .. 6
                 PROVE  /\ Len(Plan[n]) \in Nat
                        /\ \A i \in 1 .. Len(Plan[n]) :
                             Plan[n][i] \in JobStatus /\ (Plan[n][i] = "assigned" <=> i = 1)
    BY <1>1
  <1>4. CASE n = 1
    BY <1>2, <1>4
  <1>5. CASE n = 2
    BY <1>2, <1>5
  <1>6. CASE n = 3
    BY <1>2, <1>6
  <1>7. CASE n = 4
    BY <1>2, <1>7
  <1>8. CASE n = 5
    <2>1. /\ Len(Plan[5]) = 4
          /\ Plan[5][1] = "assigned" /\ Plan[5][2] = "en_route"
          /\ Plan[5][3] = "on_site" /\ Plan[5][4] = "completed"
      BY <1>2
    <2>2. \A i \in 1 .. 4 : i \in {1, 2, 3, 4}
      OBVIOUS
    <2>. QED  BY <1>8, <2>1, <2>2
  <1>9. CASE n = 6
    BY <1>2, <1>9
  <1>. QED  BY <1>4, <1>5, <1>6, <1>7, <1>8, <1>9

\* While a key is left, the next job gets one.
LEMMA FreshIsUnused ==
  ASSUME Unused # {}
  PROVE  Fresh \in Jobs /\ ~Exists(Fresh)
  BY DEF Fresh, Unused

\* Whoever is in the database by now is a user.
LEMMA PresentAreUsers == Present \subseteq Users
  BY DEF Present

-----------------------------------------------------------------------------
(* The inductive invariant.                                                *)

\* The job the script is at, and the statuses it is to go through.
Last == made[Len(made)]
LastPlan == Plan[Len(made)]

\* Any job of the demo organization ends the next run at once.
SeededInDemo ==
  /\ seeded \subseteq Jobs
  /\ \A j \in seeded : org[j] = Demo

\* While it makes jobs, the script has made all that were ever made.  The last
\* one it has taken through the first statuses of its plan; whatever the API did
\* with it since, it has kept its agent.
ScriptSound ==
  /\ made \in Seq(Jobs) /\ Len(made) \in 0 .. 6
  /\ pc \in {"rows", "check"} => made = <<>>
  /\ pc = "jobs" =>
       /\ Cardinality(seeded) <= Len(made)
       /\ made # <<>> =>
            /\ Last \in seeded
            /\ step \in 0 .. Len(LastPlan)
            /\ step > 0 => agent[Last] = Agent

SeedInv ==
  /\ LedgerInv
  /\ SeededInDemo
  /\ ScriptSound
  /\ IsFiniteSet(seeded) /\ Cardinality(seeded) <= 6

LEMMA SeedInitial == SeedInit => SeedInv
  <1>. SUFFICES ASSUME SeedInit PROVE SeedInv
    OBVIOUS
  <1>1. LedgerInv
    BY LedgerInitial DEF SeedInit
  <1>2. SeededInDemo /\ ScriptSound
    BY DEF SeedInit, SeededInDemo, ScriptSound
  <1>3. IsFiniteSet(seeded) /\ Cardinality(seeded) <= 6
    BY FS_EmptySet DEF SeedInit
  <1>. QED  BY <1>1, <1>2, <1>3 DEF SeedInv

-----------------------------------------------------------------------------
(* Every step is a step of the ledger, or none.                            *)

LEMMA MakeJobCreates ==
  ASSUME MakeJob
  PROVE  Create(Dispatcher, Fresh, Customer) /\ Fresh \in Jobs
  BY FreshIsUnused, SeedAssumption DEF MakeJob, Create, IsDispatcher, CustomerFits

\* Where the script stands when it drives a job.
LEMMA Driving ==
  ASSUME SeedInv, pc = "jobs", ~Driven
  PROVE  /\ made # <<>> /\ Last \in Jobs
         /\ Exists(Last) /\ org[Last] = Demo
         /\ Len(made) \in 1 .. 6 /\ step \in Nat /\ step + 1 \in 1 .. Len(LastPlan)
         /\ LastPlan[step + 1] \in JobStatus
         /\ LastPlan[step + 1] = "assigned" <=> step = 0
         /\ step > 0 => agent[Last] = Agent
  <1>1. /\ made # <<>> /\ step # Len(LastPlan)
    BY DEF Driven, LastPlan
  <1>2. /\ made \in Seq(Jobs) /\ Len(made) \in 0 .. 6
        /\ Last \in seeded /\ step \in 0 .. Len(LastPlan)
        /\ step > 0 => agent[Last] = Agent
    BY <1>1 DEF SeedInv, ScriptSound
  <1>3. Len(made) \in 1 .. 6
    BY <1>1, <1>2
  <1>4. Len(LastPlan) \in Nat
    BY <1>3, Plans DEF LastPlan
  <1>5. step \in Nat /\ step + 1 \in 1 .. Len(LastPlan)
    BY <1>1, <1>2, <1>4
  <1>6. LastPlan[step + 1] \in JobStatus /\ (LastPlan[step + 1] = "assigned" <=> step = 0)
    <2>1. \A i \in 1 .. Len(LastPlan) :
            LastPlan[i] \in JobStatus /\ (LastPlan[i] = "assigned" <=> i = 1)
      BY <1>3, Plans DEF LastPlan
    <2>2. step + 1 = 1 <=> step = 0
      BY <1>5
    <2>. QED  BY <1>5, <2>1, <2>2
  <1>7. Last \in Jobs /\ org[Last] = Demo
    BY <1>2 DEF SeedInv, SeededInDemo
  <1>8. Exists(Last)
    BY <1>7, SeedAssumption, AccountsAssumption DEF SeedInv, LedgerInv, LedgerTypeOK
  <1>. QED  BY <1>1, <1>2, <1>3, <1>5, <1>6, <1>7, <1>8

LEMMA DriveJobRequests ==
  ASSUME SeedInv, DriveJob
  PROVE  \/ Assign(Dispatcher, Last, Agent)
         \/ \E u \in Users, s \in JobStatus : Transition(u, Last, s)
  <1>. DEFINE s == LastPlan[step + 1]
  <1>1. /\ pc = "jobs" /\ ~Driven
        /\ DriveTo(Last, s)
        /\ UNCHANGED <<customer, org>>
    BY DEF DriveJob, Last, LastPlan
  <1>2. /\ Exists(Last) /\ org[Last] = Demo
        /\ s \in JobStatus /\ (s = "assigned" <=> step = 0)
        /\ step \in Nat /\ (step > 0 => agent[Last] = Agent)
    BY <1>1, Driving
  <1>. HIDE DEF s
  <1>. USE SeedAssumption DEF DriveTo, VisibleTo, ForOrganization
  <1>3. CASE s = "assigned"
    <2>1. MayAssign(Dispatcher, Last) /\ AgentFits(Agent, Last)
      BY <1>2 DEF MayAssign, IsDispatcher, AgentFits
    <2>. QED  BY <1>1, <1>2, <1>3, <2>1 DEF Assign, Actor
  <1>4. CASE s = "cancelled"
    <2>1. MayTransition(Dispatcher, Last)
      BY <1>2 DEF MayTransition, CanTransitionStatus
    <2>2. Transition(Dispatcher, Last, s)
      BY <1>1, <1>2, <1>4, <2>1 DEF Transition, Actor
    <2>. QED  BY <1>2, <2>2
  <1>5. CASE s \notin {"assigned", "cancelled"}
    <2>1. MayTransition(Agent, Last)
      BY <1>2, <1>5 DEF MayTransition, CanTransitionStatus
    <2>2. Transition(Agent, Last, s)
      BY <1>1, <1>2, <1>5, <2>1 DEF Transition, Actor
    <2>. QED  BY <1>2, <2>2
  <1>. QED  BY <1>3, <1>4, <1>5

LEMMA RequestIsLedgerStep == Request => LedgerNext
  BY PresentAreUsers, FreshIsUnused DEF Request, LedgerNext

LEMMA SeedStepsLedger ==
  ASSUME SeedInv, [SeedNext]_seedVars
  PROVE  [LedgerNext]_jobVars
  <1>1. CASE MakeJob
    BY <1>1, MakeJobCreates, SeedAssumption DEF LedgerNext
  <1>2. CASE DriveJob
    <2>1. Last \in Jobs
      BY <1>2, Driving DEF DriveJob
    <2>. QED  BY <1>2, <2>1, DriveJobRequests, SeedAssumption DEF LedgerNext
  <1>3. CASE Start \/ EnsureRow \/ CheckJobs \/ Finished \/ Refused \/ Crash
    BY <1>3 DEF Start, EnsureRow, CheckJobs, Finished, Refused, Crash, End
  <1>4. CASE Request
    BY <1>4, RequestIsLedgerStep
  <1>5. CASE UNCHANGED seedVars
    BY <1>5 DEF seedVars
  <1>. QED  BY <1>1, <1>2, <1>3, <1>4, <1>5 DEF SeedNext, Script

-----------------------------------------------------------------------------
(* Every step keeps the invariant.                                         *)

\* No step takes a job its organization or its agent.
LEMMA RowsLast ==
  ASSUME SeedInv, [SeedNext]_seedVars, NEW j \in Jobs
  PROVE  /\ org[j] = Demo => org'[j] = Demo
         /\ agent[j] = Agent => agent'[j] = Agent
  <1>1. CASE LedgerNext
    BY <1>1, NothingOverwritten, SeedAssumption, AccountsAssumption DEF SeedInv
  <1>2. CASE UNCHANGED jobVars
    BY <1>2 DEF jobVars
  <1>. QED  BY <1>1, <1>2, SeedStepsLedger

LEMMA MakeJobKeeps ==
  ASSUME SeedInv, MakeJob
  PROVE  SeededInDemo' /\ ScriptSound' /\ IsFiniteSet(seeded)' /\ (Cardinality(seeded) <= 6)'
  <1>1. /\ pc = "jobs" /\ pc' = "jobs" /\ Len(made) < 6
        /\ made' = Append(made, Fresh) /\ step' = 0
        /\ seeded' = seeded \union {Fresh}
        /\ org' = [org EXCEPT ![Fresh] = Demo]
    BY Plans DEF MakeJob
  <1>2. Fresh \in Jobs
    BY MakeJobCreates
  <1>3. SeededInDemo'
    BY <1>1, <1>2 DEF SeedInv, SeededInDemo, LedgerInv, LedgerTypeOK
  <1>4. /\ made' \in Seq(Jobs) /\ Len(made') = Len(made) + 1 /\ made'[Len(made')] = Fresh
        /\ Len(made) \in 0 .. 5
    BY <1>1, <1>2 DEF SeedInv, ScriptSound
  <1>5. /\ IsFiniteSet(seeded') /\ Cardinality(seeded') <= Len(made')
    <2>1. IsFiniteSet(seeded) /\ Cardinality(seeded) \in Nat /\ Cardinality(seeded) <= Len(made)
      BY <1>1, FS_CardinalityType DEF SeedInv, ScriptSound
    <2>2. /\ IsFiniteSet(seeded')
          /\ Cardinality(seeded') = IF Fresh \in seeded THEN Cardinality(seeded)
                                                        ELSE Cardinality(seeded) + 1
      BY <1>1, <2>1, FS_AddElement
    <2>. QED  BY <1>4, <2>1, <2>2
  <1>6. Cardinality(seeded') \in Nat
    BY <1>5, FS_CardinalityType
  <1>7. Len(LastPlan') \in Nat
    BY <1>4, Plans DEF LastPlan
  <1>8. ScriptSound'
    BY <1>1, <1>4, <1>5, <1>7 DEF ScriptSound, Last
  <1>9. Cardinality(seeded') <= 6
    <2>. DEFINE c == Cardinality(seeded')
                m == Len(made')
    <2>1. c \in Nat /\ c <= m
      BY <1>5, <1>6
    <2>2. m \in 1 .. 6
      <3>. DEFINE l == Len(made)
      <3>1. l \in 0 .. 5 /\ m = l + 1
        BY <1>4
      <3>. HIDE DEF m, l
      <3>. QED  BY <3>1
    <2>. HIDE DEF c, m
    <2>3. c <= 6
      BY <2>1, <2>2
    <2>. QED  BY <2>3 DEF c
  <1>. QED  BY <1>3, <1>5, <1>8, <1>9

LEMMA CheckJobsKeeps ==
  ASSUME SeedInv, CheckJobs
  PROVE  ScriptSound'
  <1>1. made = <<>> /\ made' = made /\ seeded' = seeded
    BY DEF CheckJobs, End, SeedInv, ScriptSound
  <1>2. CASE HasJobs /\ End("left")
    BY <1>1, <1>2 DEF End, ScriptSound, SeedInv
  <1>3. CASE ~HasJobs
    <2>1. seeded = {}
      BY <1>3 DEF HasJobs, SeedInv, SeededInDemo
    <2>. QED  BY <1>1, <2>1, FS_EmptySet DEF ScriptSound, SeedInv
  <1>. QED  BY <1>2, <1>3 DEF CheckJobs

LEMMA SeedStep == SeedInv /\ [SeedNext]_seedVars => SeedInv'
  <1>. SUFFICES ASSUME SeedInv, [SeedNext]_seedVars PROVE SeedInv'
    OBVIOUS
  <1>1. LedgerInv'
    BY SeedStepsLedger, LedgerStep DEF SeedInv
  <1>2. ASSUME seeded' = seeded
        PROVE  SeededInDemo' /\ IsFiniteSet(seeded)' /\ (Cardinality(seeded) <= 6)'
    BY <1>2, RowsLast DEF SeedInv, SeededInDemo
  <1>3. CASE MakeJob
    BY <1>1, <1>3, MakeJobKeeps DEF SeedInv
  <1>4. CASE CheckJobs
    <2>1. seeded' = seeded
      BY <1>4 DEF CheckJobs, End
    <2>. QED  BY <1>1, <1>2, <1>4, <2>1, CheckJobsKeeps DEF SeedInv
  <1>5. CASE DriveJob
    <2>1. /\ pc' = pc /\ made' = made /\ seeded' = seeded /\ step' = step + 1
          /\ pc = "jobs" /\ ~Driven
      BY <1>5 DEF DriveJob
    <2>2. /\ step' \in 0 .. Len(LastPlan) /\ Last \in Jobs /\ made # <<>>
      BY <2>1, Driving
    <2>3. agent'[Last] = Agent
      <3>1. CASE step = 0
        <4>1. LastPlan[step + 1] = "assigned"
          BY <2>1, <3>1, Driving
        <4>. QED  BY <1>5, <2>2, <4>1
                  DEF DriveJob, DriveTo, Last, LastPlan, SeedInv, LedgerInv, LedgerTypeOK
      <3>2. CASE step > 0
        BY <2>1, <2>2, <3>2, Driving, RowsLast
      <3>. QED  BY <2>1, <3>1, <3>2, Driving
    <2>4. Last' = Last /\ LastPlan' = LastPlan
      BY <2>1 DEF Last, LastPlan
    <2>5. ScriptSound'
      BY <2>1, <2>2, <2>3, <2>4 DEF SeedInv, ScriptSound
    <2>. QED  BY <1>1, <1>2, <2>1, <2>5 DEF SeedInv
  <1>6. CASE Start \/ EnsureRow
    <2>1. seeded' = seeded /\ pc' \in {"rows", "check"} /\ made' = <<>>
      BY <1>6 DEF Start, EnsureRow, SeedInv, ScriptSound
    <2>2. ScriptSound'
      BY <2>1 DEF ScriptSound
    <2>. QED  BY <1>1, <1>2, <2>1, <2>2 DEF SeedInv
  <1>7. CASE Finished \/ Refused \/ Crash
    <2>1. seeded' = seeded /\ pc' = "idle" /\ made' = made
      BY <1>7 DEF Finished, Refused, Crash, End
    <2>2. ScriptSound'
      BY <2>1 DEF SeedInv, ScriptSound
    <2>. QED  BY <1>1, <1>2, <2>1, <2>2 DEF SeedInv
  <1>8. CASE Request \/ UNCHANGED seedVars
    <2>1. UNCHANGED <<pc, made, step, seeded>>
      BY <1>8 DEF Request, scriptVars, seedVars
    <2>2. Last' = Last /\ LastPlan' = LastPlan
      BY <2>1 DEF Last, LastPlan
    <2>3. ScriptSound'
      BY <2>1, <2>2, RowsLast DEF SeedInv, ScriptSound, SeededInDemo
    <2>. QED  BY <1>1, <1>2, <2>1, <2>3 DEF SeedInv
  <1>. QED  BY <1>3, <1>4, <1>5, <1>6, <1>7, <1>8 DEF SeedNext, Script

-----------------------------------------------------------------------------
(* DoneMeansSeeded is violated by a run that finds the jobs of another one *)
(* that was cut short.  A run that gets to its own end keeps the promise.  *)

\* The statuses that a job's events lead to.
Entered(trail) == {trail[i].to : i \in 1 .. Len(trail)}

EveryStatusSeeded ==
  \A s \in JobStatus : \E j \in Jobs : org[j] = Demo /\ (s = "new" \/ s \in Entered(events[j]))

SeededIsComplete == ended = "seeded" => EveryStatusSeeded

\* The n-th job has been through its plan; the last one, through step of it.
DriveSound ==
  pc = "jobs" =>
    \A n \in 1 .. Len(made) :
      /\ made[n] \in Jobs /\ org[made[n]] = Demo
      /\ \A i \in 1 .. Len(Plan[n]) :
           n < Len(made) \/ i <= step => Plan[n][i] \in Entered(events[made[n]])

\* What a trail has named it names for ever.
LEMMA EnteredGrows ==
  ASSUME LedgerInv, [LedgerNext]_jobVars, NEW j \in Jobs
  PROVE  Entered(events[j]) \subseteq Entered(events'[j])
  <1>1. CASE events' = events
    BY <1>1 DEF Entered
  <1>2. ASSUME NEW u \in Users, NEW k \in Jobs, NEW s \in JobStatus,
               NEW a \in Users \union {NoUser}, Change(u, k, s, a)
        PROVE  Entered(events[j]) \subseteq Entered(events'[j])
    <2>. DEFINE e == [from |-> status[k], to |-> s, actor |-> u]
    <2>1. e \in Event /\ events \in [Jobs -> Seq(Event)] /\ Log(k, e)
      BY <1>2, Edges DEF Change, Event, LedgerInv, LedgerTypeOK
    <2>. HIDE DEF e
    <2>2. /\ Len(events'[k]) = Len(events[k]) + 1 /\ Len(events[k]) \in Nat
          /\ \A i \in 1 .. Len(events[k]) : events'[k][i] = events[k][i]
          /\ \A l \in Jobs \ {k} : events'[l] = events[l]
      BY <2>1, LogAppends
    <2>3. ASSUME j = k, NEW i \in 1 .. Len(events[j])
          PROVE  i \in 1 .. Len(events'[j]) /\ events'[j][i] = events[j][i]
      BY <2>2, <2>3
    <2>4. CASE j = k
      BY <2>3, <2>4 DEF Entered
    <2>5. CASE j # k
      BY <2>2, <2>5 DEF Entered
    <2>. QED  BY <2>4, <2>5
  <1>3. CASE UNCHANGED jobVars
    BY <1>1, <1>3 DEF jobVars
  <1>4. CASE LedgerNext
    <2>1. "assigned" \in JobStatus
      BY DEF JobStatus
    <2>2. ASSUME NEW u \in Users, NEW k \in Jobs, NEW c \in Users, Create(u, k, c)
          PROVE  events' = events
      BY <2>2 DEF Create
    <2>. QED  BY <1>1, <1>2, <1>4, <2>1, <2>2, AssignChanges, TransitionChanges DEF LedgerNext
  <1>. QED  BY <1>3, <1>4

\* The event of a status just driven to is there.
LEMMA DrivenIsEntered ==
  ASSUME SeedInv, DriveJob
  PROVE  LastPlan[step + 1] \in Entered(events'[Last])
  <1>. DEFINE s == LastPlan[step + 1]
              e == [from |-> status[Last], to |-> s, actor |-> Actor(s)]
  <1>1. Last \in Jobs
    BY Driving DEF DriveJob
  <1>2. e \in Event
    <2>1. Actor(s) \in Users
      BY SeedAssumption DEF Actor
    <2>2. ValidTransition(status[Last], s)
      BY DEF DriveJob, DriveTo, Last, LastPlan
    <2>. QED  BY <2>1, <2>2, Edges DEF Event
  <1>3. Log(Last, e) /\ events \in [Jobs -> Seq(Event)]
    BY DEF DriveJob, DriveTo, Last, LastPlan, SeedInv, LedgerInv, LedgerTypeOK
  <1>4. e.to = s
    OBVIOUS
  <1>. HIDE DEF e
  <1>5. /\ Len(events'[Last]) = Len(events[Last]) + 1 /\ Len(events[Last]) \in Nat
        /\ events'[Last][Len(events[Last]) + 1] = e
    BY <1>1, <1>2, <1>3, LogAppends
  <1>6. \E i \in 1 .. Len(events'[Last]) : events'[Last][i].to = s
    BY <1>4, <1>5
  <1>7. Entered(events'[Last]) = {events'[Last][i].to : i \in 1 .. Len(events'[Last])}
    BY DEF Entered
  <1>. QED  BY <1>6, <1>7

LEMMA DriveSoundStep ==
  ASSUME SeedInv, DriveSound, [SeedNext]_seedVars
  PROVE  DriveSound'
  <1>1. ASSUME NEW j \in Jobs
        PROVE  Entered(events[j]) \subseteq Entered(events'[j]) /\ (org[j] = Demo => org'[j] = Demo)
    BY SeedStepsLedger, EnteredGrows, RowsLast DEF SeedInv
  <1>2. CASE MakeJob
    <2>1. /\ pc = "jobs" /\ made' = Append(made, Fresh) /\ step' = 0 /\ Fresh \in Jobs
          /\ Driven
          /\ org' = [org EXCEPT ![Fresh] = Demo]
      BY <1>2, MakeJobCreates DEF MakeJob
    <2>2. /\ made \in Seq(Jobs) /\ Len(made) \in Nat /\ Len(made') = Len(made) + 1
          /\ made'[Len(made) + 1] = Fresh
          /\ \A n \in 1 .. Len(made) : made'[n] = made[n]
      BY <2>1 DEF SeedInv, ScriptSound
    <2>3. ASSUME NEW n \in 1 .. Len(made), NEW i \in 1 .. Len(Plan[n])
          PROVE  Plan[n][i] \in Entered(events'[made[n]])
      <3>1. made[n] \in Jobs /\ Plan[n][i] \in Entered(events[made[n]])
        <4>1. n < Len(made) \/ i <= step
          BY <2>1, <2>2 DEF Driven
        <4>. QED  BY <2>1, <4>1 DEF DriveSound
      <3>. QED  BY <1>1, <3>1
    <2>4. \A n \in 1 .. Len(made) : made[n] \in Jobs /\ org'[made[n]] = Demo
      BY <1>1, <2>1 DEF DriveSound
    <2>5. org'[Fresh] = Demo
      BY <2>1 DEF SeedInv, LedgerInv, LedgerTypeOK
    <2>. SUFFICES ASSUME NEW n \in 1 .. Len(made')
                  PROVE  /\ made'[n] \in Jobs /\ org'[made'[n]] = Demo
                         /\ \A i \in 1 .. Len(Plan[n]) :
                              n < Len(made') \/ i <= step' =>
                                Plan[n][i] \in Entered(events'[made'[n]])
      BY DEF DriveSound, Entered
    <2>6. CASE n \in 1 .. Len(made)
      BY <2>2, <2>3, <2>4, <2>6
    <2>7. CASE n \notin 1 .. Len(made)
      <3>1. n = Len(made) + 1 /\ ~(n < Len(made'))
        BY <2>2, <2>7
      <3>2. \A i \in 1 .. Len(Plan[n]) : ~(i <= step')
        BY <2>1
      <3>. QED  BY <2>1, <2>2, <2>5, <3>1, <3>2
    <2>. QED  BY <2>6, <2>7
  <1>3. CASE DriveJob
    <2>1. /\ pc = "jobs" /\ ~Driven /\ made' = made /\ step' = step + 1 /\ UNCHANGED org
      BY <1>3 DEF DriveJob
    <2>2. /\ Len(made) \in 1 .. 6 /\ step \in Nat
      BY <2>1, Driving
    <2>3. ASSUME NEW n \in 1 .. Len(made), NEW i \in 1 .. Len(Plan[n]),
                 n < Len(made) \/ i <= step + 1
          PROVE  Plan[n][i] \in Entered(events'[made[n]])
      <3>1. made[n] \in Jobs
        BY <2>1 DEF DriveSound
      <3>2. CASE n < Len(made) \/ i <= step
        BY <1>1, <2>1, <3>1, <3>2 DEF DriveSound
      <3>3. CASE ~(n < Len(made) \/ i <= step)
        <4>1. n = Len(made) /\ i = step + 1
          BY <2>2, <2>3, <3>3
        <4>. QED  BY <1>3, <4>1, DrivenIsEntered DEF Last, LastPlan
      <3>. QED  BY <3>2, <3>3
    <2>4. \A n \in 1 .. Len(made) : made[n] \in Jobs /\ org'[made[n]] = Demo
      BY <1>1, <2>1 DEF DriveSound
    <2>. QED  BY <2>1, <2>3, <2>4 DEF DriveSound, Entered
  <1>4. CASE CheckJobs
    <2>1. made' = <<>>
      BY <1>4 DEF CheckJobs, End, SeedInv, ScriptSound
    <2>. QED  BY <2>1 DEF DriveSound
  <1>5. CASE Start \/ EnsureRow \/ Finished \/ Refused \/ Crash
    <2>1. pc' # "jobs"
      BY <1>5 DEF Start, EnsureRow, Finished, Refused, Crash, End
    <2>. QED  BY <2>1 DEF DriveSound
  <1>6. CASE Request \/ UNCHANGED seedVars
    <2>1. UNCHANGED <<pc, made, step>>
      BY <1>6 DEF Request, scriptVars, seedVars
    <2>2. CASE pc = "jobs"
      <3>1. ASSUME NEW n \in 1 .. Len(made)
            PROVE  /\ made[n] \in Jobs /\ org'[made[n]] = Demo
                   /\ \A i \in 1 .. Len(Plan[n]) :
                        n < Len(made) \/ i <= step => Plan[n][i] \in Entered(events'[made[n]])
        BY <1>1, <2>2 DEF DriveSound
      <3>. QED  BY <2>1, <3>1 DEF DriveSound, Entered
    <2>3. CASE pc # "jobs"
      BY <2>1, <2>3 DEF DriveSound
    <2>. QED  BY <2>2, <2>3
  <1>. QED  BY <1>2, <1>3, <1>4, <1>5, <1>6 DEF SeedNext, Script

\* The six plans lead through all statuses.
LEMMA FinishedIsComplete ==
  ASSUME SeedInv, DriveSound, Finished
  PROVE  EveryStatusSeeded
  <1>1. pc = "jobs" /\ Len(made) = 6 /\ Driven
    BY Plans DEF Finished
  <1>2. step = Len(Plan[6])
    BY <1>1 DEF Driven
  <1>3. \A n \in 1 .. 6 :
          /\ made[n] \in Jobs /\ org[made[n]] = Demo
          /\ \A i \in 1 .. Len(Plan[n]) :
               n < 6 \/ i <= step => Plan[n][i] \in Entered(events[made[n]])
    BY <1>1 DEF DriveSound
  <1>4. /\ Len(Plan[5]) = 4 /\ Len(Plan[6]) = 2
        /\ Plan[5][1] = "assigned" /\ Plan[5][2] = "en_route"
        /\ Plan[5][3] = "on_site" /\ Plan[5][4] = "completed"
        /\ Plan[6][2] = "cancelled"
    <2>1. /\ Plan[5] = <<"assigned", "en_route", "on_site", "completed">>
          /\ Plan[6] = <<"assigned", "cancelled">>
      BY DEF Plan
    <2>. QED  BY <2>1
  <1>5. {"assigned", "en_route", "on_site", "completed"} \subseteq Entered(events[made[5]])
    <2>1. \A i \in 1 .. Len(Plan[5]) : Plan[5][i] \in Entered(events[made[5]])
      BY <1>3
    <2>2. \A i \in {1, 2, 3, 4} : Plan[5][i] \in Entered(events[made[5]])
      BY <1>4, <2>1
    <2>. QED  BY <1>4, <2>2
  <1>6. "cancelled" \in Entered(events[made[6]])
    <2>1. Plan[6][2] \in Entered(events[made[6]])
      <3>1. \A i \in 1 .. Len(Plan[6]) : Plan[6][i] \in Entered(events[made[6]])
        BY <1>2, <1>3, <1>4
      <3>. QED  BY <1>4, <3>1
    <2>. QED  BY <1>4, <2>1
  <1>7. made[5] \in Jobs /\ org[made[5]] = Demo /\ made[6] \in Jobs /\ org[made[6]] = Demo
    BY <1>3
  <1>. QED  BY <1>5, <1>6, <1>7 DEF EveryStatusSeeded, JobStatus

LEMMA CompleteStep ==
  ASSUME SeedInv, DriveSound, SeededIsComplete, [SeedNext]_seedVars
  PROVE  SeededIsComplete'
  <1>1. EveryStatusSeeded => EveryStatusSeeded'
    <2>1. \A j \in Jobs : Entered(events[j]) \subseteq Entered(events'[j]) /\ (org[j] = Demo => org'[j] = Demo)
      BY SeedStepsLedger, EnteredGrows, RowsLast DEF SeedInv
    <2>. QED  BY <2>1 DEF EveryStatusSeeded
  <1>2. CASE Finished
    BY <1>1, <1>2, FinishedIsComplete DEF SeededIsComplete
  <1>3. CASE ~Finished
    <2>1. ended' = "seeded" => ended = "seeded"
      BY <1>3 DEF SeedNext, Script, Start, EnsureRow, CheckJobs, MakeJob, DriveJob, Refused,
                  Crash, Request, End, scriptVars, seedVars
    <2>. QED  BY <1>1, <2>1 DEF SeededIsComplete
  <1>. QED  BY <1>2, <1>3

-----------------------------------------------------------------------------
(* The theorems.                                                           *)

\* Every reachable state satisfies the inductive invariant.
THEOREM SeedInvariant == SeedSpec => []SeedInv
  BY SeedInitial, SeedStep, PTL DEF SeedSpec

\* "Idempotent: safe to re-run": however often the script is run and cut short,
\* and whatever the API does with its jobs, it makes no job a second time.
THEOREM SeedsOnce == SeedSpec => []SeededOnce
  <1>1. SeedInv => SeededOnce
    BY Plans DEF SeedInv, SeededOnce
  <1>. QED  BY <1>1, SeedInvariant, PTL

\* The script calls services.py, which asks for no permission, and yet it does
\* nothing that its users might not have done through the API.
THEOREM SeedImplementsLedger == SeedSpec => LedgerSpec
  <1>1. SeedInit => LedgerInit
    BY DEF SeedInit
  <1>2. SeedInv /\ [SeedNext]_seedVars => [LedgerNext]_jobVars
    BY SeedStepsLedger
  <1>. QED  BY <1>1, <1>2, SeedInvariant, PTL DEF SeedSpec, LedgerSpec

\* The docstring's "the audit trail (JobEvent) and notifications this script
\* produces are the same ones the real API would produce".
THEOREM SeedKeepsTrail == SeedSpec => []AuditTrail
  BY SeedImplementsLedger, AuditTrailCorrect, PTL

\* "a job in every status": a run that ends with "Seeded 6 jobs, one per status"
\* leaves an organization where every status has, or had, a job.
THEOREM OwnEndIsComplete == SeedSpec => []SeededIsComplete
  <1>1. SeedInit => DriveSound /\ SeededIsComplete
    BY DEF SeedInit, DriveSound, SeededIsComplete
  <1>2. SeedInv /\ DriveSound /\ SeededIsComplete /\ [SeedNext]_seedVars =>
          DriveSound' /\ SeededIsComplete'
    BY DriveSoundStep, CompleteStep
  <1>. QED  BY <1>1, <1>2, SeedInvariant, PTL DEF SeedSpec
=============================================================================
