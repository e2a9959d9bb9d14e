---------------------------- MODULE FanoutProofs ----------------------------
(***************************************************************************)
(* Who hears of a committed change: the sockets and the notified users,    *)
(* for any number of sockets, workers, jobs, users, threads, repeated      *)
(* messages, exceptions and failures.                                      *)
(*                                                                         *)
(* Sockets. A connection is checked once. That is enough because nothing a *)
(* participant is one by can change: the customer and the organization of  *)
(* a job, and an agent it has got.                                         *)
(*                                                                         *)
(* Notifications. At most one message of a kind about a job, and one of    *)
(* its last status.                                                        *)
(***************************************************************************)
EXTENDS JobFeed, Notifier, JobServiceProofs

-----------------------------------------------------------------------------
(* The sockets: the inductive invariant.                                   *)

\* Who passed the check of a room, whether it has joined it yet or not, is a
\* participant; only who passed is a member.
RoomsChecked ==
  \A s \in Sockets : conn[s] # "closed" /\ Path[s] # Fleet =>
    /\ TokenUser[s] \in Users
    /\ Participant(TokenUser[s], Path[s])

FeedInv ==
  /\ ServiceInv
  /\ conn \in [Sockets -> {"closed", "checked", "joined", "open"}]
  /\ members = {s \in Sockets : conn[s] \in {"joined", "open"}}
  /\ RoomsChecked

-----------------------------------------------------------------------------

\* Once a participant, always a participant.
LEMMA ParticipantLasts ==
  ASSUME LedgerInv, LedgerInv', [LedgerNext]_jobVars,
         NEW u \in Users, NEW j \in Jobs, Participant(u, j)
  PROVE  Participant(u, j)'
  <1>. USE AccountsAssumption, LedgerAssumption
  <1>1. Exists(j) /\ agent[j] \in Users \union {NoUser} /\ org[j] \in Orgs
    BY DEF Participant, LedgerInv, LedgerTypeOK
  <1>2. agent[j] # NoUser => agent'[j] = agent[j]
    <2>1. CASE LedgerNext
      BY <1>1, <2>1, NothingOverwritten
    <2>2. CASE UNCHANGED jobVars
      BY <2>2 DEF jobVars
    <2>. QED  BY <2>1, <2>2
  <1>3. Exists(j)' /\ org'[j] = org[j]
    BY <1>1, JobsStay
  <1>4. customer'[j] = customer[j]
    BY <1>1 DEF LedgerNext, Create, Assign, Transition, jobVars, Exists, LedgerInv, LedgerTypeOK
  <1>. QED  BY <1>1, <1>2, <1>3, <1>4 DEF Participant, VisibleTo, ForOrganization

\* Nobody is connected.
LEMMA FeedInitial == FeedInit => FeedInv
  BY ServiceInitial DEF FeedInit, FeedInv, RoomsChecked

\* A step of the server leaves the connections alone, and their users what they
\* were to the job.
LEMMA ServingStep ==
  ASSUME FeedInv, [ServiceNext]_serviceVars, UNCHANGED <<conn, members>>
  PROVE  FeedInv'
  <1>1. ServiceInv'
    BY ServiceStep DEF FeedInv
  <1>2. LedgerInv /\ LedgerInv' /\ [LedgerNext]_jobVars
    BY <1>1, StepRefines DEF FeedInv, ServiceInv
  <1>3. RoomsChecked'
    <2>. SUFFICES ASSUME NEW s \in Sockets, conn[s] # "closed", Path[s] # Fleet
                  PROVE  TokenUser[s] \in Users /\ Participant(TokenUser[s], Path[s])'
      BY DEF RoomsChecked, Participant, Exists, VisibleTo, ForOrganization
    <2>1. /\ TokenUser[s] \in Users /\ Path[s] \in Jobs
          /\ Participant(TokenUser[s], Path[s])
      BY FeedAssumption DEF FeedInv, RoomsChecked
    <2>. QED  BY <1>2, <2>1, ParticipantLasts
  <1>. QED  BY <1>1, <1>3 DEF FeedInv

\* A step of a connection leaves the server alone; only OpenSocket lets one in.
LEMMA SocketStep ==
  ASSUME FeedInv, NEW s \in Sockets,
         \/ OpenSocket(s) \/ JoinGroup(s) \/ AcceptSocket(s) \/ CloseSocket(s)
         \/ Forward(s)
  PROVE  FeedInv'
  <1>. USE DEF FeedInv, Proceed
  <1>1. UNCHANGED serviceVars
    BY DEF OpenSocket, JoinGroup, AcceptSocket, CloseSocket, Forward
  <1>2. ServiceInv'
    BY <1>1, ServiceStep
  <1>3. \A t \in Sockets : Participant(TokenUser[t], Path[t])' = Participant(TokenUser[t], Path[t])
    BY <1>1 DEF serviceVars, jobVars, Participant, Exists, VisibleTo, ForOrganization
  <1>4. CASE OpenSocket(s)
    <2>1. Path[s] # Fleet => /\ TokenUser[s] \in Users
                             /\ Participant(TokenUser[s], Path[s])
      BY <1>4, FeedAssumption DEF OpenSocket, Authenticated
    <2>. QED  BY <1>2, <1>3, <1>4, <2>1 DEF OpenSocket, RoomsChecked
  <1>5. CASE JoinGroup(s)
    BY <1>2, <1>3, <1>5 DEF JoinGroup, RoomsChecked
  <1>6. CASE AcceptSocket(s)
    BY <1>2, <1>3, <1>6 DEF AcceptSocket, RoomsChecked
  <1>7. CASE CloseSocket(s)
    BY <1>2, <1>3, <1>7 DEF CloseSocket, RoomsChecked
  <1>8. CASE Forward(s)
    BY <1>2, <1>3, <1>8 DEF Forward, RoomsChecked
  <1>. QED  BY <1>4, <1>5, <1>6, <1>7, <1>8

LEMMA FeedStep == FeedInv /\ [FeedNext]_feedVars => FeedInv'
  <1>. SUFFICES ASSUME FeedInv, [FeedNext]_feedVars PROVE FeedInv'
    OBVIOUS
  <1>1. CASE Serving
    BY <1>1, ServingStep DEF Serving
  <1>2. CASE UNCHANGED feedVars
    BY <1>2, ServingStep DEF feedVars, socketVars
  <1>3. CASE \E s \in Sockets :
               \/ OpenSocket(s) \/ JoinGroup(s) \/ AcceptSocket(s) \/ CloseSocket(s)
               \/ Forward(s)
    BY <1>3, SocketStep
  <1>. QED  BY <1>1, <1>2, <1>3 DEF FeedNext

-----------------------------------------------------------------------------

\* The invariant holds of every run of the server and its sockets.
THEOREM FeedInvariant == FeedSpec => []FeedInv
  BY FeedInitial, FeedStep, PTL DEF FeedSpec

\* JobConsumer: the one check at connect is enough, however long the client
\* stays and whatever is done to the job meanwhile.
THEOREM RoomsStayPrivate == FeedSpec => []RoomIsForParticipants
  <1>1. FeedInv => RoomIsForParticipants
    BY DEF FeedInv, RoomsChecked, RoomIsForParticipants
  <1>. QED  BY <1>1, FeedInvariant, PTL

-----------------------------------------------------------------------------
(* What the members of a group are sent.                                   *)

\* A message of this step is the announcement of a running callback.
LEMMA SentIsAnnounced ==
  ASSUME ServiceInv, FanoutInv, [ServiceNext]_serviceVars, NEW s \in Sockets, NEW u \in Sent(s)
  PROVE  \E j \in Jobs, t \in JobStatus :
           /\ u = <<j, t>>
           /\ t \in Changes(j)
           /\ GroupOf(s) \in {OrgGroup(org[j]), JobGroup(j)}
  <1>1. CASE orgFeed' = orgFeed /\ jobFeed' = jobFeed
    BY <1>1 DEF Sent
  <1>2. ASSUME NEW r \in Requests, PublishOrg(r) \/ PublishJob(r)
        PROVE  \E j \in Jobs, t \in JobStatus :
                 /\ u = <<j, t>>
                 /\ t \in Changes(j)
                 /\ GroupOf(s) \in {OrgGroup(org[j]), JobGroup(j)}
    <2>1. PICK k \in Jobs, t \in JobStatus : k = req[r].job /\ t = req[r].to
      BY <1>2, CallbackMoves DEF Request
    <2>2. t \in Changes(k)
      BY <1>2, <2>1, CallbackMoves DEF FanoutInv, CallbacksApart
    <2>3. /\ orgFeed \in [Jobs -> Seq(JobStatus)] /\ jobFeed \in [Jobs -> Seq(JobStatus)]
      BY DEF ServiceInv, ServiceTypeOK
    <2>4. CASE PublishOrg(r)
      <3>1. /\ orgFeed'[k] = Append(orgFeed[k], t) /\ jobFeed' = jobFeed
            /\ \A j \in Jobs \ {k} : orgFeed'[j] = orgFeed[j]
        BY <2>1, <2>4, OrgFeedGrows
      <3>2. Update(orgFeed', k) = <<k, t>>
        BY <2>3, <3>1 DEF Update
      <3>. QED  BY <2>2, <3>1, <3>2 DEF Sent
    <2>5. CASE PublishJob(r)
      <3>1. /\ jobFeed'[k] = Append(jobFeed[k], t) /\ orgFeed' = orgFeed
            /\ \A j \in Jobs \ {k} : jobFeed'[j] = jobFeed[j]
        BY <2>1, <2>5, JobFeedGrows
      <3>2. Update(jobFeed', k) = <<k, t>>
        BY <2>3, <3>1 DEF Update
      <3>. QED  BY <2>2, <3>1, <3>2 DEF Sent
    <2>. QED  BY <1>2, <2>4, <2>5
  <1>3. ASSUME NEW r \in Requests, Commit(r) \/ Delay(r) \/ CutCallback(r)
        PROVE  orgFeed' = orgFeed /\ jobFeed' = jobFeed
    BY <1>3 DEF Commit, Delay, CutCallback, outVars
  <1>4. CASE Quiet
    BY <1>1, <1>4 DEF Quiet, outVars
  <1>. QED  BY <1>1, <1>2, <1>3, <1>4, StepFansOut

\* The announcement reaches every group it is sent to.
LEMMA AnnouncedIsSent ==
  ASSUME ServiceInv, NEW r \in Requests, NEW s \in Sockets,
         NEW j \in Jobs, j = req[r].job, NEW t \in JobStatus, t = req[r].to
  PROVE  /\ PublishOrg(r) /\ GroupOf(s) = OrgGroup(org[j]) => <<j, t>> \in Sent(s)
         /\ PublishJob(r) /\ GroupOf(s) = JobGroup(j) => <<j, t>> \in Sent(s)
  <1>1. orgFeed \in [Jobs -> Seq(JobStatus)] /\ jobFeed \in [Jobs -> Seq(JobStatus)]
    BY DEF ServiceInv, ServiceTypeOK
  <1>2. ASSUME PublishOrg(r), GroupOf(s) = OrgGroup(org[j]) PROVE <<j, t>> \in Sent(s)
    <2>1. orgFeed'[j] = Append(orgFeed[j], t) /\ Len(orgFeed'[j]) = Len(orgFeed[j]) + 1
      BY <1>2, OrgFeedGrows
    <2>2. Update(orgFeed', j) = <<j, t>> /\ orgFeed'[j] # orgFeed[j]
      BY <1>1, <2>1 DEF Update
    <2>. QED  BY <1>2, <2>2 DEF Sent
  <1>3. ASSUME PublishJob(r), GroupOf(s) = JobGroup(j) PROVE <<j, t>> \in Sent(s)
    <2>1. jobFeed'[j] = Append(jobFeed[j], t) /\ Len(jobFeed'[j]) = Len(jobFeed[j]) + 1
      BY <1>3, JobFeedGrows
    <2>2. Update(jobFeed', j) = <<j, t>> /\ jobFeed'[j] # jobFeed[j]
      BY <1>1, <2>1 DEF Update
    <2>. QED  BY <1>3, <2>2 DEF Sent
  <1>. QED  BY <1>2, <1>3

\* Whoever is in one of a job's groups belongs to its organization, and in a room
\* to the job.
LEMMA GroupIsInTenant ==
  ASSUME FeedInv, NEW s \in members, NEW j \in Jobs,
         GroupOf(s) \in {OrgGroup(org[j]), JobGroup(j)}
  PROVE  /\ TokenUser[s] \in Superusers \/ ForOrganization(TokenUser[s], j)
         /\ Path[s] # Fleet => Path[s] = j
  <1>1. CASE Path[s] = Fleet
    BY <1>1 DEF GroupOf, OrgGroup, JobGroup, ForOrganization
  <1>2. CASE Path[s] # Fleet
    <2>1. Path[s] = j
      BY <1>2 DEF GroupOf, OrgGroup, JobGroup
    <2>. QED  BY <1>2, <2>1 DEF FeedInv, RoomsChecked, Participant, VisibleTo
  <1>. QED  BY <1>1, <1>2

\* What was committed stays in the trail, with the job and its organization.
LEMMA ChangesLast ==
  ASSUME ServiceInv, ServiceInv', FanoutInv, [ServiceNext]_serviceVars,
         NEW j \in Jobs, NEW t \in Changes(j)
  PROVE  t \in Changes(j)' /\ org'[j] = org[j]
  <1>1. Exists(j)
    BY DEF Changes, ServiceInv, LedgerInv, Untouched, Exists
  <1>2. org'[j] = org[j]
    BY <1>1, StepRefines, JobsStay DEF ServiceInv
  <1>. QED  BY <1>2, ChangesGrow DEF FanoutInv

-----------------------------------------------------------------------------
(* The mail stays in its tenant and its room.                              *)

MailSorted ==
  \A s \in Sockets : \A u \in inbox[s] \union heard[s] :
    /\ u[2] \in Changes(u[1])
    /\ TokenUser[s] \in Superusers \/ ForOrganization(TokenUser[s], u[1])
    /\ Path[s] # Fleet => u[1] = Path[s]

MailInv ==
  /\ inbox \in [Sockets -> SUBSET Message]
  /\ heard \in [Sockets -> SUBSET Message]
  /\ base \in [Sockets -> [Jobs -> Nat]]
  /\ \A s \in Sockets : conn[s] \in {"closed", "checked"} => inbox[s] = {}
  /\ \A s \in Sockets : conn[s] # "open" => heard[s] = {}
  /\ MailSorted

LEMMA MailInitial == FeedInit => MailInv
  BY DEF FeedInit, MailInv, NoEvents, MailSorted

\* A step of the server adds mail for the right readers and moves no job.
LEMMA ServingKeepsMail ==
  ASSUME FeedInv, FanoutInv, MailInv, FeedInv', [ServiceNext]_serviceVars,
         UNCHANGED <<conn, members, heard, base>>,
         inbox' = inbox
           \/ inbox' = [s \in Sockets |->
                          IF s \in members THEN inbox[s] \union Sent(s) ELSE inbox[s]]
  PROVE  MailInv'
  <1>1. ServiceInv /\ ServiceInv'
    BY DEF FeedInv
  <1>2. ASSUME NEW s \in Sockets, NEW u \in inbox'[s] \union heard'[s]
        PROVE  \/ u \in inbox[s] \union heard[s]
               \/ s \in members /\ u \in Sent(s)
    BY <1>2
  <1>3. ASSUME NEW s \in members, NEW u \in Sent(s)
        PROVE  /\ u \in Message
               /\ u[2] \in Changes(u[1])'
               /\ TokenUser[s] \in Superusers \/ ForOrganization(TokenUser[s], u[1])'
               /\ Path[s] # Fleet => u[1] = Path[s]
    <2>1. s \in Sockets
      BY DEF FeedInv
    <2>2. PICK j \in Jobs, t \in JobStatus :
            u = <<j, t>> /\ t \in Changes(j) /\ GroupOf(s) \in {OrgGroup(org[j]), JobGroup(j)}
      BY <1>1, <2>1, SentIsAnnounced
    <2>3. t \in Changes(j)' /\ org'[j] = org[j]
      BY <1>1, <2>2, ChangesLast
    <2>4. /\ TokenUser[s] \in Superusers \/ ForOrganization(TokenUser[s], j)
          /\ Path[s] # Fleet => Path[s] = j
      BY <2>2, GroupIsInTenant
    <2>. QED  BY <2>2, <2>3, <2>4 DEF Message, ForOrganization
  <1>4. ASSUME NEW s \in Sockets, NEW u \in inbox[s] \union heard[s]
        PROVE  /\ u \in Message
               /\ u[2] \in Changes(u[1])'
               /\ TokenUser[s] \in Superusers \/ ForOrganization(TokenUser[s], u[1])'
               /\ Path[s] # Fleet => u[1] = Path[s]
    <2>1. /\ u \in Message /\ u[2] \in Changes(u[1])
          /\ TokenUser[s] \in Superusers \/ ForOrganization(TokenUser[s], u[1])
          /\ Path[s] # Fleet => u[1] = Path[s]
      BY DEF MailInv, MailSorted
    <2>2. u[1] \in Jobs
      BY <2>1 DEF Message
    <2>3. u[2] \in Changes(u[1])' /\ org'[u[1]] = org[u[1]]
      BY <1>1, <2>1, <2>2, ChangesLast
    <2>. QED  BY <2>1, <2>3 DEF ForOrganization
  <1>5. MailSorted'
    BY <1>2, <1>3, <1>4 DEF MailSorted
  <1>6. inbox' \in [Sockets -> SUBSET Message]
    BY <1>3 DEF MailInv
  <1>7. \A s \in Sockets : conn[s] \in {"closed", "checked"} => inbox'[s] = {}
    BY DEF MailInv, FeedInv
  <1>. QED  BY <1>5, <1>6, <1>7 DEF MailInv

\* A connection forwards what it has, and forgets it when it closes.
LEMMA SocketKeepsMail ==
  ASSUME FeedInv, MailInv, NEW s \in Sockets,
         \/ OpenSocket(s) \/ JoinGroup(s) \/ AcceptSocket(s) \/ CloseSocket(s)
         \/ Forward(s)
  PROVE  MailInv'
  <1>1. UNCHANGED serviceVars
    BY DEF OpenSocket, JoinGroup, AcceptSocket, CloseSocket, Forward
  <1>2. \A u : /\ Changes(u[1])' = Changes(u[1])
               /\ \A t \in Sockets : ForOrganization(TokenUser[t], u[1])'
                                       <=> ForOrganization(TokenUser[t], u[1])
    BY <1>1 DEF serviceVars, jobVars, Changes, ForOrganization
  <1>3. \A t \in Sockets : inbox'[t] \union heard'[t] \subseteq inbox[t] \union heard[t]
    <2>1. CASE OpenSocket(s) \/ JoinGroup(s) \/ AcceptSocket(s)
      BY <2>1 DEF OpenSocket, JoinGroup, AcceptSocket
    <2>2. CASE CloseSocket(s)
      BY <2>2 DEF CloseSocket, MailInv
    <2>3. CASE Forward(s)
      BY <2>3 DEF Forward, MailInv
    <2>. QED  BY <2>1, <2>2, <2>3
  <1>4. MailSorted'
    BY <1>2, <1>3 DEF MailSorted, MailInv
  <1>5. CASE OpenSocket(s) \/ JoinGroup(s)
    BY <1>4, <1>5 DEF OpenSocket, JoinGroup, Proceed, MailInv, FeedInv
  <1>6. CASE AcceptSocket(s)
    <2>1. \A j \in Jobs : Len(events[j]) \in Nat
      BY DEF FeedInv, ServiceInv, LedgerInv, LedgerTypeOK
    <2>. QED  BY <1>4, <1>6, <2>1 DEF AcceptSocket, Proceed, Accepted, MailInv, FeedInv
  <1>7. CASE CloseSocket(s)
    BY <1>4, <1>7 DEF CloseSocket, Proceed, NoEvents, MailInv, FeedInv
  <1>8. CASE Forward(s)
    BY <1>4, <1>8 DEF Forward, MailInv, FeedInv
  <1>. QED  BY <1>5, <1>6, <1>7, <1>8

-----------------------------------------------------------------------------
(* Nothing is missed.                                                      *)

\* The callbacks that have yet to write to the group a connection is in.
YetToSend(s) == IF Path[s] = Fleet THEN {"org"} ELSE {"org", "job"}

Followed(s, j, t) ==
  \/ <<j, t>> \in inbox[s] \union heard[s]
  \/ \E r \in Requests : pc[r] \in YetToSend(s) /\ req[r].job = j /\ req[r].to = t

AllFollowed ==
  faults = 0 => \A s \in Sockets, j \in Jobs :
    conn[s] = "open" /\ Concerns(s, j) => \A t \in ChangesSince(s, j) : Followed(s, j, t)

LEMMA AllFollowedInitially == FeedInit => AllFollowed
  BY DEF FeedInit, AllFollowed

LEMMA SinceIsChanges ==
  ASSUME MailInv, NEW s \in Sockets, NEW j \in Jobs
  PROVE  ChangesSince(s, j) \subseteq Changes(j)
  BY DEF MailInv, ChangesSince, Changes

\* What concerns a connection concerned it before, or has no history.
LEMMA ConcernLasts ==
  ASSUME ServiceInv, ServiceInv', FanoutInv, MailInv, [ServiceNext]_serviceVars,
         NEW s \in Sockets, NEW j \in Jobs, Concerns(s, j)', NEW t \in ChangesSince(s, j)
  PROVE  Concerns(s, j)
  BY SinceIsChanges, ChangesLast DEF Concerns

LEMMA ServingIsFollowed ==
  ASSUME FeedInv, FanoutInv, MailInv, AllFollowed, FeedInv', Serving
  PROVE  AllFollowed'
  <1>. SUFFICES ASSUME faults' = 0, NEW s \in Sockets, NEW j \in Jobs, conn[s] = "open",
                       Concerns(s, j)', NEW t \in ChangesSince(s, j)'
                PROVE  Followed(s, j, t)'
    BY DEF AllFollowed, Serving
  <1>1. /\ ServiceInv /\ ServiceInv' /\ [ServiceNext]_serviceVars
        /\ UNCHANGED <<conn, members, heard, base>>
        /\ s \in members
    BY DEF FeedInv, Serving
  <1>2. /\ inbox'[s] = inbox[s] \union Sent(s)
        /\ inbox[s] \union heard[s] \subseteq inbox'[s] \union heard'[s]
    BY <1>1 DEF Serving
  <1>3. ASSUME faults = 0, t \in ChangesSince(s, j) PROVE Followed(s, j, t) /\ Concerns(s, j)
    BY <1>1, <1>3, ConcernLasts DEF AllFollowed
  <1>4. CASE Quiet
    <2>1. faults = 0 /\ t \in ChangesSince(s, j)
      BY <1>1, <1>4, NoFaultYet DEF Quiet, ChangesSince
    <2>2. Followed(s, j, t)
      BY <1>3, <2>1
    <2>. QED  BY <1>2, <1>4, <2>2 DEF Followed, YetToSend, Quiet, InCallback
  <1>5. ASSUME NEW r \in Requests, Commit(r) PROVE Followed(s, j, t)'
    <2>1. PICK k \in Jobs, x \in JobStatus : k = req[r].job /\ x = req[r].to
      BY <1>1, <1>5 DEF Commit, ServiceInv, ThreadInv, RequestsSound, Request
    <2>2. /\ pc[r] = "written" /\ pc'[r] = "org" /\ req' = req /\ faults = 0
          /\ \A q \in Requests \ {r} : pc'[q] = pc[q]
      BY <1>1, <1>5, <2>1, CommitChanges DEF FanoutInv, Commit
    <2>3. t \in ChangesSince(s, j) \/ (j = k /\ t = x)
      <3>1. CASE j # k
        BY <1>1, <1>5, <2>1, <3>1, CommitChanges DEF FanoutInv, ChangesSince
      <3>2. CASE j = k
        <4>. DEFINE n == Len(events[j])
                    e == [from |-> from[r], to |-> x, actor |-> req[r].user]
        <4>1. events[j] \in Seq(Event) /\ base[s][j] \in Nat
          BY <1>1 DEF MailInv, ServiceInv, LedgerInv, LedgerTypeOK
        <4>2. events'[j] = Append(events[j], e)
          BY <1>1, <1>5, <2>1, <3>2
             DEF Commit, Log, ServiceInv, LedgerInv, LedgerTypeOK
        <4>3. /\ Len(events'[j]) = n + 1 /\ n \in Nat
              /\ \A i \in 1 .. n : events'[j][i] = events[j][i]
              /\ events'[j][n + 1] = e
          BY <4>1, <4>2
        <4>. HIDE DEF n
        <4>4. PICK i \in base[s][j] + 1 .. n + 1 : t = events'[j][i].to
          BY <1>1, <4>3 DEF ChangesSince
        <4>5. CASE i = n + 1
          BY <3>2, <4>3, <4>4, <4>5
        <4>6. CASE i # n + 1
          <5>1. i \in base[s][j] + 1 .. n /\ i \in 1 .. n
            BY <4>1, <4>3, <4>4, <4>6
          <5>. QED  BY <4>3, <4>4, <5>1 DEF ChangesSince, n
        <4>. QED  BY <4>5, <4>6
      <3>. QED  BY <3>1, <3>2
    <2>4. CASE t \in ChangesSince(s, j)
      <3>1. Followed(s, j, t)
        BY <1>3, <2>2, <2>4
      <3>. QED  BY <1>2, <2>2, <3>1 DEF Followed, YetToSend
    <2>5. CASE j = k /\ t = x
      BY <2>1, <2>2, <2>5 DEF Followed, YetToSend
    <2>. QED  BY <2>3, <2>4, <2>5
  <1>6. ASSUME NEW r \in Requests, PublishOrg(r) \/ PublishJob(r) \/ Delay(r)
        PROVE  Followed(s, j, t)'
    <2>1. PICK k \in Jobs, x \in JobStatus : k = req[r].job /\ x = req[r].to
      BY <1>1, <1>6, CallbackMoves DEF Request
    <2>2. /\ \A q \in Requests \ {r} : pc'[q] = pc[q] /\ req'[q] = req[q]
          /\ PublishOrg(r) => pc[r] = "org" /\ pc'[r] = "job" /\ req'[r] = req[r]
          /\ PublishJob(r) => pc[r] = "job"
          /\ Delay(r) => pc[r] = "delay"
      BY <1>1, <1>6, CallbackMoves
    <2>3. faults = 0 /\ t \in ChangesSince(s, j)
      <3>1. faults = 0
        BY <1>6 DEF PublishOrg, PublishJob, Delay
      <3>2. events' = events /\ base' = base
        BY <1>1, <1>6, CallbackMoves DEF jobVars
      <3>. QED  BY <3>1, <3>2 DEF ChangesSince
    <2>4. Followed(s, j, t) /\ Concerns(s, j)
      BY <1>3, <2>3
    <2>5. CASE <<j, t>> \in inbox[s] \union heard[s]
      BY <1>2, <2>5 DEF Followed
    <2>6. ASSUME NEW q \in Requests \ {r},
                 pc[q] \in YetToSend(s) /\ req[q].job = j /\ req[q].to = t
          PROVE  Followed(s, j, t)'
      BY <2>2, <2>6 DEF Followed, YetToSend
    <2>7. CASE pc[r] \in YetToSend(s) /\ req[r].job = j /\ req[r].to = t
      <3>1. CASE Path[s] = Fleet
        <4>1. PublishOrg(r) /\ GroupOf(s) = OrgGroup(org[j])
          BY <1>6, <2>2, <2>4, <2>7, <3>1 DEF YetToSend, Concerns, GroupOf
        <4>2. <<j, t>> \in Sent(s)
          BY <1>1, <2>1, <2>7, <4>1, AnnouncedIsSent
        <4>. QED  BY <1>2, <4>2 DEF Followed
      <3>2. CASE Path[s] # Fleet /\ PublishOrg(r)
        BY <2>2, <2>7, <3>2 DEF Followed, YetToSend
      <3>3. CASE Path[s] # Fleet /\ ~PublishOrg(r)
        <4>1. PublishJob(r) /\ GroupOf(s) = JobGroup(j)
          BY <1>6, <2>2, <2>4, <2>7, <3>3 DEF YetToSend, Concerns, GroupOf
        <4>2. <<j, t>> \in Sent(s)
          BY <1>1, <2>1, <2>7, <4>1, AnnouncedIsSent
        <4>. QED  BY <1>2, <4>2 DEF Followed
      <3>. QED  BY <3>1, <3>2, <3>3
    <2>. QED  BY <2>4, <2>5, <2>6, <2>7 DEF Followed
  <1>7. ASSUME NEW r \in Requests, CutCallback(r) PROVE FALSE
    BY <1>1, <1>7, NoFaultYet
  <1>. QED  BY <1>1, <1>4, <1>5, <1>6, <1>7, StepFansOut

\* A connection that opens has everything ahead of it; one that is open loses
\* nothing of its mail.
LEMMA SocketIsFollowed ==
  ASSUME FeedInv, MailInv, AllFollowed, NEW s \in Sockets,
         \/ OpenSocket(s) \/ JoinGroup(s) \/ AcceptSocket(s) \/ CloseSocket(s)
         \/ Forward(s)
  PROVE  AllFollowed'
  <1>. SUFFICES ASSUME faults' = 0, NEW u \in Sockets, NEW j \in Jobs, conn'[u] = "open",
                       Concerns(u, j)', NEW t \in ChangesSince(u, j)'
                PROVE  Followed(u, j, t)'
    BY DEF AllFollowed
  <1>1. UNCHANGED serviceVars
    BY DEF OpenSocket, JoinGroup, AcceptSocket, CloseSocket, Forward
  <1>2. conn[u] = "open" /\ base'[u] = base[u] => Followed(u, j, t)
    BY <1>1 DEF AllFollowed, Concerns, ChangesSince, serviceVars, jobVars, threadVars
  <1>3. CASE AcceptSocket(s) /\ u = s
    <2>1. base'[u][j] = Len(events[j]) /\ events[j] \in Seq(Event)
      BY <1>3 DEF AcceptSocket, Accepted, MailInv, FeedInv, ServiceInv, LedgerInv, LedgerTypeOK
    <2>2. ChangesSince(u, j)' = {}
      BY <1>1, <2>1 DEF ChangesSince, serviceVars, jobVars
    <2>. QED  BY <2>2
  <1>4. CASE ~(AcceptSocket(s) /\ u = s)
    <2>1. /\ conn[u] = "open" /\ base'[u] = base[u]
          /\ inbox'[u] \union heard'[u] = inbox[u] \union heard[u]
      BY <1>4 DEF OpenSocket, JoinGroup, AcceptSocket, CloseSocket, Forward, Proceed, Accepted,
                  MailInv, FeedInv
    <2>. QED  BY <1>1, <1>2, <2>1 DEF Followed, YetToSend, serviceVars, threadVars
  <1>. QED  BY <1>3, <1>4

-----------------------------------------------------------------------------
(* The whole.                                                              *)

MailFeedInv == FeedInv /\ FanoutInv /\ MailInv /\ AllFollowed

LEMMA MailFeedStep == MailFeedInv /\ [FeedNext]_feedVars => MailFeedInv'
  <1>. SUFFICES ASSUME MailFeedInv, [FeedNext]_feedVars PROVE MailFeedInv'
    OBVIOUS
  <1>. USE DEF MailFeedInv
  <1>1. FeedInv'
    BY FeedStep
  <1>2. ASSUME [ServiceNext]_serviceVars PROVE FanoutInv'
    BY <1>2, FanoutStep DEF FeedInv
  <1>3. CASE Serving
    <2>1. FanoutInv' /\ MailInv'
      BY <1>1, <1>2, <1>3, ServingKeepsMail DEF Serving
    <2>2. AllFollowed'
      BY <1>1, <1>3, ServingIsFollowed
    <2>. QED  BY <1>1, <2>1, <2>2
  <1>4. CASE \E s \in Sockets :
               \/ OpenSocket(s) \/ JoinGroup(s) \/ AcceptSocket(s) \/ CloseSocket(s)
               \/ Forward(s)
    <2>1. UNCHANGED serviceVars
      BY <1>4 DEF OpenSocket, JoinGroup, AcceptSocket, CloseSocket, Forward
    <2>2. MailInv' /\ AllFollowed'
      BY <1>4, SocketKeepsMail, SocketIsFollowed
    <2>. QED  BY <1>1, <1>2, <2>1, <2>2
  <1>5. CASE UNCHANGED feedVars
    <2>1. FanoutInv' /\ MailInv'
      BY <1>1, <1>2, <1>5, ServingKeepsMail DEF feedVars, socketVars
    <2>2. AllFollowed'
      BY <1>5 DEF AllFollowed, Concerns, ChangesSince, Followed, YetToSend,
                  feedVars, socketVars, serviceVars, jobVars, threadVars
    <2>. QED  BY <1>1, <2>1, <2>2
  <1>. QED  BY <1>3, <1>4, <1>5 DEF FeedNext

\* Every reachable state of the server and its sockets satisfies the invariant.
THEOREM MailFeedInvariant == FeedSpec => []MailFeedInv
  <1>1. FeedInit => MailFeedInv
    BY FeedInitial, FanoutInitial, MailInitial, AllFollowedInitially DEF MailFeedInv, FeedInit
  <1>. QED  BY <1>1, MailFeedStep, PTL DEF FeedSpec

\* A connection is in its group from group_add to group_discard; types.
THEOREM FeedTypesCorrect == FeedSpec => []FeedTypeOK
  <1>1. MailFeedInv => FeedTypeOK
    BY DEF MailFeedInv, FeedInv, ServiceInv, MailInv, FeedTypeOK
  <1>. QED  BY <1>1, MailFeedInvariant, PTL

\* One organization never sees another's jobs, nobody a change that was not
\* committed, and in a room one sees that job's and belongs to the job.
THEOREM TenantsHearTheirOwn == FeedSpec => []HeardInTenant
  <1>1. MailFeedInv => HeardInTenant
    <2>. SUFFICES ASSUME MailFeedInv, NEW s \in Sockets, NEW u \in inbox[s] \union heard[s]
                  PROVE  /\ u[2] \in Changes(u[1])
                         /\ \/ TokenUser[s] \in Superusers
                            \/ ForOrganization(TokenUser[s], u[1])
                         /\ Path[s] # Fleet => u[1] = Path[s] /\ Participant(TokenUser[s], u[1])
      BY DEF HeardInTenant
    <2>1. conn[s] # "closed"
      BY DEF MailFeedInv, MailInv
    <2>. QED  BY <2>1 DEF MailFeedInv, FeedInv, RoomsChecked, MailInv, MailSorted
  <1>. QED  BY <1>1, MailFeedInvariant, PTL

\* From the handshake on a client hears of every change, while no process fails:
\* group_add comes before accept(), and the broadcast after the commit.
THEOREM NoGapAfterAccept == FeedSpec => []NothingMissed
  <1>1. MailFeedInv => NothingMissed
    <2>. SUFFICES ASSUME MailFeedInv, faults = 0, NEW s \in Sockets, NEW j \in Jobs,
                         conn[s] = "open", Concerns(s, j), NEW t \in ChangesSince(s, j),
                         <<j, t>> \notin inbox[s] \union heard[s]
                  PROVE  \E r \in Requests :
                           /\ req[r] # NoRequest
                           /\ req[r].job = j /\ req[r].to = t
                           /\ pc[r] \in {"org", "job"}
      BY DEF NothingMissed
    <2>1. PICK r \in Requests : pc[r] \in YetToSend(s) /\ req[r].job = j /\ req[r].to = t
      BY DEF MailFeedInv, AllFollowed, Followed
    <2>2. pc[r] \in {"org", "job"}
      BY <2>1 DEF YetToSend
    <2>3. req[r] # NoRequest
      BY <2>2, ServiceAssumption
         DEF MailFeedInv, FeedInv, ServiceInv, ThreadInv, RequestsSound, Request
    <2>. QED  BY <2>1, <2>2, <2>3
  <1>. QED  BY <1>1, MailFeedInvariant, PTL

-----------------------------------------------------------------------------
(* The workers: the inductive invariant.                                   *)

Task == [job : Jobs, attempt : 0 .. MaxRetries]

WorkerTypes ==
  /\ wpc \in [Workers -> {"idle", "read", "get", "create", "send"}]
  /\ task \in [Workers -> Task \union {NoTask}]
  /\ seen \in [Workers -> DOMAIN STATUS_NOTIFICATION_KIND \union {Absent}]
  /\ retry \in [Jobs \X (1 .. MaxRetries) -> Nat]
  /\ rows \in [Jobs -> SUBSET Kinds]
  /\ sent \in [Jobs \X Kinds -> Nat]
  /\ errors \in 0 .. MaxErrors

\* What a worker does is about a status that the job has had.
TasksSound ==
  \A w \in Workers :
    /\ wpc[w] # "idle" => task[w] \in Task
    /\ wpc[w] \in {"get", "create", "send"} =>
         HasKind(seen[w]) /\ seen[w] \in Changes(task[w].job)

RowsSound == \A j \in Jobs : rows[j] \subseteq {Kind(s) : s \in Changes(j)}

\* A worker that is about to send is the only one that inserted the row, and
\* nobody has sent it.
OneSender ==
  /\ \A w \in Workers : wpc[w] = "send" =>
       /\ Kind(seen[w]) \in rows[task[w].job]
       /\ sent[<<task[w].job, Kind(seen[w])>>] = 0
       /\ \A v \in Workers \ {w} :
            wpc[v] = "send" /\ task[v].job = task[w].job => Kind(seen[v]) # Kind(seen[w])
  /\ \A j \in Jobs : \A k \in Kinds \ rows[j] : sent[<<j, k>>] = 0

\* Each retry was paid for with an exception.
AttemptsCounted ==
  /\ \A w \in Workers : wpc[w] # "idle" => task[w].attempt <= errors
  /\ \A j \in Jobs, n \in 1 .. MaxRetries : retry[<<j, n>>] > 0 => n <= errors

\* Who is going to see to the current status of a job: a callback, a message, a
\* retry, or a worker that has not read the job or has read this status.
SeenTo(j) ==
  \/ Kind(status[j]) \in rows[j]
  \/ \E r \in Requests : pc[r] \in InCallback /\ req[r].job = j
  \/ queue[j] > 0
  \/ \E n \in 1 .. MaxRetries : retry[<<j, n>>] > 0
  \/ \E w \in Workers :
       /\ \/ wpc[w] = "read"
          \/ wpc[w] \in {"get", "create"} /\ seen[w] = status[j]
       /\ task[w].job = j

LastStatusSeenTo ==
  faults = 0 /\ errors <= MaxRetries => \A j \in Jobs : HasKind(status[j]) => SeenTo(j)

\* Each lost message was paid for with a failure.
LossesCounted == IsFiniteSet(Lost) /\ Cardinality(Lost) <= faults + errors

NotifierInv ==
  /\ ServiceInv
  /\ StatusPassed
  /\ WorkerTypes
  /\ TasksSound
  /\ RowsSound
  /\ OneSender
  /\ AttemptsCounted
  /\ LastStatusSeenTo
  /\ LossesCounted

LEMMA NotifierInitial == NotifierInit => NotifierInv
  <1>. SUFFICES ASSUME NotifierInit PROVE NotifierInv
    OBVIOUS
  <1>1. ServiceInv /\ StatusPassed
    BY ServiceInitial, FanoutInitial DEF NotifierInit, FanoutInv
  <1>2. WorkerTypes
    BY NotifierAssumption DEF NotifierInit, WorkerTypes
  <1>3. TasksSound /\ RowsSound /\ OneSender
    BY DEF NotifierInit, TasksSound, RowsSound, OneSender
  <1>4. AttemptsCounted
    BY DEF NotifierInit, AttemptsCounted
  <1>5. LastStatusSeenTo
    BY LedgerAssumption
       DEF NotifierInit, ServiceInit, LedgerInit, LastStatusSeenTo, HasKind,
           STATUS_NOTIFICATION_KIND, JobStatus
  <1>6. LossesCounted
    <2>1. Lost = {} /\ faults + errors = 0
      BY DEF NotifierInit, ServiceInit, Lost
    <2>. QED  BY <2>1, FS_EmptySet DEF LossesCounted
  <1>. QED  BY <1>1, <1>2, <1>3, <1>4, <1>5, <1>6 DEF NotifierInv

-----------------------------------------------------------------------------
(* What the workers and the broker leave alone.                            *)

WorkerStep(w) == Take(w) \/ TakeRetry(w) \/ Work(w) \/ Raise(w) \/ Crash(w)

\* They change the broker's queue and count failures, nothing else of the server.
LEMMA TablesLeftAlone ==
  ASSUME (\E w \in Workers : WorkerStep(w)) \/ (\E j \in Jobs : Duplicate(j))
  PROVE  UNCHANGED <<jobVars, pc, req, from, orgFeed, jobFeed>>
  BY DEF WorkerStep, Work, Take, TakeRetry, Start, ReadJob, Get, CreateRow, Send, Raise, Crash,
         Duplicate, threadVars, outVars, serviceVars

LEMMA BrokerTypes ==
  ASSUME ServiceInv, (\E w \in Workers : WorkerStep(w)) \/ (\E j \in Jobs : Duplicate(j))
  PROVE  queue' \in [Jobs -> Nat] /\ faults' \in 0 .. MaxFaults
  <1>. USE ServiceAssumption DEF ServiceInv, ServiceTypeOK
  <1>1. ASSUME NEW w \in Workers, Take(w) PROVE queue' \in [Jobs -> Nat] /\ faults' = faults
    BY <1>1 DEF Take, Start, threadVars
  <1>2. ASSUME NEW w \in Workers, TakeRetry(w) \/ Work(w) \/ Raise(w)
        PROVE  queue' = queue /\ faults' = faults
    BY <1>2 DEF TakeRetry, Work, Raise, Start, ReadJob, Get, CreateRow, Send, serviceVars,
                threadVars, outVars
  <1>3. ASSUME NEW w \in Workers, Crash(w)
        PROVE  queue' = queue /\ faults' \in 0 .. MaxFaults
    BY <1>3 DEF Crash, Fault, outVars
  <1>4. ASSUME NEW j \in Jobs, Duplicate(j)
        PROVE  queue' \in [Jobs -> Nat] /\ faults' \in 0 .. MaxFaults
    BY <1>4 DEF Duplicate, Fault
  <1>. QED  BY <1>1, <1>2, <1>3, <1>4 DEF WorkerStep

\* The server's invariant survives the steps of workers and broker, and a
\* job's trail only grows.
LEMMA ServerKeepsOn ==
  ASSUME ServiceInv, StatusPassed, [NotifierNext]_allVars
  PROVE  /\ ServiceInv' /\ StatusPassed'
         /\ \A j \in Jobs : Changes(j) \subseteq Changes(j)'
  <1>1. CASE [ServiceNext]_serviceVars
    BY <1>1, ServiceStep, StatusPassedStep, ChangesGrow
  <1>2. CASE (\E w \in Workers : WorkerStep(w)) \/ (\E j \in Jobs : Duplicate(j))
    <2>1. /\ UNCHANGED <<jobVars, pc, req, from, orgFeed, jobFeed>>
          /\ queue' \in [Jobs -> Nat] /\ faults' \in 0 .. MaxFaults
      BY <1>2, TablesLeftAlone, BrokerTypes
    <2>2. LedgerInv'
      BY <2>1, LedgerStep DEF ServiceInv
    <2>3. ServiceTypeOK'
      BY <2>1, <2>2 DEF ServiceInv, ServiceTypeOK, LedgerInv
    <2>4. ThreadInv'
      BY <2>1 DEF ServiceInv, ThreadInv, RequestsSound, RequestsPermitted, WritesValid,
                  ValidatedRowIsCurrent, Entitled, MayAssign, MayTransition, VisibleTo,
                  CanTransitionStatus, AgentFits, ForOrganization, Exists, Holds, jobVars
    <2>5. StatusPassed' /\ \A j \in Jobs : Changes(j)' = Changes(j)
      BY <2>1 DEF StatusPassed, Changes, jobVars
    <2>. QED  BY <2>2, <2>3, <2>4, <2>5 DEF ServiceInv
  <1>. QED  BY <1>1, <1>2 DEF NotifierNext, WorkerStep, allVars

LEMMA StepsOfWorkers ==
  ASSUME [NotifierNext]_allVars
  PROVE  UNCHANGED workerVars \/ \E w \in Workers : WorkerStep(w)
  BY DEF NotifierNext, WorkerStep, Duplicate, allVars

\* A worker's step moves no other worker.
LEMMA OthersStay ==
  ASSUME WorkerTypes, NEW w \in Workers, WorkerStep(w), NEW v \in Workers, v # w
  PROVE  wpc'[v] = wpc[v] /\ task'[v] = task[v] /\ seen'[v] = seen[v]
  BY DEF WorkerTypes, WorkerStep, Take, TakeRetry, Start, Work, ReadJob, Get, CreateRow, Send,
         Raise, Crash, EndTask

-----------------------------------------------------------------------------
(* The invariant is preserved, conjunct by conjunct.                       *)

LEMMA WorkerTypesStep ==
  ASSUME NotifierInv, [NotifierNext]_allVars
  PROVE  WorkerTypes'
  <1>. USE NotifierAssumption DEF NotifierInv, WorkerTypes, EndTask
  <1>1. CASE UNCHANGED workerVars
    BY <1>1 DEF workerVars
  <1>2. ASSUME NEW w \in Workers, Take(w) PROVE WorkerTypes'
    BY <1>2 DEF Take, Start, Task
  <1>3. ASSUME NEW w \in Workers, TakeRetry(w) PROVE WorkerTypes'
    BY <1>3 DEF TakeRetry, Start, Task
  <1>4. ASSUME NEW w \in Workers, ReadJob(w) PROVE WorkerTypes'
    BY <1>4 DEF ReadJob, HasKind
  <1>5. ASSUME NEW w \in Workers, Get(w) PROVE WorkerTypes'
    BY <1>5 DEF Get
  <1>6. ASSUME NEW w \in Workers, CreateRow(w) PROVE WorkerTypes'
    <2>1. HasKind(seen[w]) /\ task[w].job \in Jobs /\ Kind(seen[w]) \in Kinds
      BY <1>6 DEF CreateRow, TasksSound, Task, HasKind, Kind, Kinds, Range
    <2>. QED  BY <1>6, <2>1 DEF CreateRow
  <1>7. ASSUME NEW w \in Workers, Send(w) PROVE WorkerTypes'
    <2>1. task[w].job \in Jobs /\ Kind(seen[w]) \in Kinds
      BY <1>7 DEF Send, TasksSound, Task, HasKind, Kind, Kinds, Range
    <2>. QED  BY <1>7, <2>1 DEF Send
  <1>8. ASSUME NEW w \in Workers, Raise(w) PROVE WorkerTypes'
    <2>1. task[w] \in Task
      BY <1>8 DEF Raise, TasksSound
    <2>. QED  BY <1>8, <2>1 DEF Raise, MayRetry, Task
  <1>9. ASSUME NEW w \in Workers, Crash(w) PROVE WorkerTypes'
    BY <1>9 DEF Crash
  <1>. QED
    BY <1>1, <1>2, <1>3, <1>4, <1>5, <1>6, <1>7, <1>8, <1>9, StepsOfWorkers
       DEF WorkerStep, Work

\* HasKind leaves "new" out: a status with a kind was entered by a change.
LEMMA KindIsChange ==
  ASSUME ServiceInv, NEW j \in Jobs, HasKind(status[j])
  PROVE  status[j] \in Changes(j)
  <1>1. status[j] # "new"
    BY DEF HasKind, STATUS_NOTIFICATION_KIND
  <1>2. Exists(j)
    BY LedgerAssumption DEF HasKind, STATUS_NOTIFICATION_KIND, Exists, JobStatus
  <1>3. /\ events[j] \in Seq(Event)
        /\ StatusAfter(events[j], Len(events[j])) = status[j]
    BY <1>2 DEF ServiceInv, LedgerInv, LedgerTypeOK, AuditTrail
  <1>4. Len(events[j]) \in 1 .. Len(events[j]) /\ events[j][Len(events[j])].to = status[j]
    BY <1>1, <1>3 DEF StatusAfter
  <1>. QED  BY <1>4 DEF Changes

LEMMA TasksSoundStep ==
  ASSUME NotifierInv, [NotifierNext]_allVars
  PROVE  TasksSound'
  <1>1. \A j \in Jobs : Changes(j) \subseteq Changes(j)'
    BY ServerKeepsOn DEF NotifierInv
  <1>. SUFFICES ASSUME NEW v \in Workers
                PROVE  /\ wpc'[v] # "idle" => task'[v] \in Task
                       /\ wpc'[v] \in {"get", "create", "send"} =>
                            /\ HasKind(seen'[v])
                            /\ \E j \in Jobs : j = task'[v].job /\ seen'[v] \in Changes(j)'
    BY DEF TasksSound, Changes
  <1>. DEFINE j == task[v].job
  <1>2. /\ wpc[v] # "idle" => task[v] \in Task /\ j \in Jobs
        /\ wpc[v] \in {"get", "create", "send"} =>
             HasKind(seen[v]) /\ j \in Jobs /\ seen[v] \in Changes(j)
    BY DEF NotifierInv, TasksSound, Task
  <1>3. CASE wpc'[v] = wpc[v] /\ task'[v] = task[v] /\ seen'[v] = seen[v]
    BY <1>1, <1>2, <1>3
  <1>4. ASSUME NEW w \in Workers, WorkerStep(w), v # w
        PROVE  wpc'[v] = wpc[v] /\ task'[v] = task[v] /\ seen'[v] = seen[v]
    BY <1>4, OthersStay DEF NotifierInv
  <1>. USE DEF NotifierInv, WorkerTypes
  <1>5. CASE Take(v) \/ TakeRetry(v)
    <2>1. PICK k \in Jobs, n \in 0 .. MaxRetries : Start(v, k, n)
      <3>1. 0 \in 0 .. MaxRetries /\ \A n \in 1 .. MaxRetries : n \in 0 .. MaxRetries
        BY NotifierAssumption
      <3>2. CASE Take(v)
        BY <3>1, <3>2 DEF Take
      <3>3. CASE TakeRetry(v)
        BY <3>1, <3>3 DEF TakeRetry
      <3>. QED  BY <1>5, <3>2, <3>3
    <2>2. wpc'[v] = "read" /\ task'[v] = [job |-> k, attempt |-> n]
      BY <2>1 DEF Start
    <2>. QED  BY <2>2 DEF Task
  <1>6. CASE ReadJob(v)
    <2>1. HasKind(status[j]) => status[j] \in Changes(j)
      BY <1>2, <1>6, KindIsChange DEF ReadJob
    <2>. QED  BY <1>1, <1>2, <1>6, <2>1 DEF ReadJob, EndTask
  <1>7. CASE Get(v) \/ CreateRow(v) \/ Send(v)
    BY <1>1, <1>2, <1>7 DEF Get, CreateRow, Send, EndTask
  <1>8. CASE Raise(v) \/ Crash(v)
    BY <1>8 DEF Raise, Crash, EndTask
  <1>9. ASSUME WorkerStep(v)
        PROVE  \/ Take(v) \/ TakeRetry(v) \/ ReadJob(v)
               \/ Get(v) \/ CreateRow(v) \/ Send(v) \/ Raise(v) \/ Crash(v)
    BY <1>9 DEF WorkerStep, Work
  <1>10. CASE WorkerStep(v)
    BY <1>5, <1>6, <1>7, <1>8, <1>9, <1>10
  <1>11. UNCHANGED workerVars \/ \E w \in Workers : WorkerStep(w)
    BY StepsOfWorkers
  <1>12. CASE UNCHANGED workerVars
    BY <1>3, <1>12 DEF workerVars
  <1>13. CASE \E w \in Workers \ {v} : WorkerStep(w)
    BY <1>3, <1>4, <1>13
  <1>. QED  BY <1>10, <1>11, <1>12, <1>13

LEMMA RowsSoundStep ==
  ASSUME NotifierInv, [NotifierNext]_allVars
  PROVE  RowsSound'
  <1>1. \A j \in Jobs : Changes(j) \subseteq Changes(j)'
    BY ServerKeepsOn DEF NotifierInv
  <1>2. CASE rows' = rows
    BY <1>1, <1>2 DEF NotifierInv, RowsSound
  <1>3. ASSUME NEW w \in Workers, CreateRow(w) PROVE RowsSound'
    BY <1>1, <1>3 DEF CreateRow, NotifierInv, RowsSound, WorkerTypes, TasksSound, Task
  <1>. QED
    BY <1>2, <1>3, StepsOfWorkers
       DEF WorkerStep, Take, TakeRetry, Start, Work, ReadJob, Get, Send, Raise, Crash, workerVars

\* A step after which nobody new is about to send.
LEMMA NoNewSender ==
  ASSUME NotifierInv, NEW w \in Workers, WorkerStep(w),
         wpc'[w] # "send", UNCHANGED <<rows, sent>>
  PROVE  OneSender'
  <1>1. \A v \in Workers : wpc'[v] = "send" =>
          wpc[v] = "send" /\ task'[v] = task[v] /\ seen'[v] = seen[v]
    BY OthersStay DEF NotifierInv
  <1>. QED  BY <1>1 DEF NotifierInv, OneSender

LEMMA OneSenderStep ==
  ASSUME NotifierInv, [NotifierNext]_allVars
  PROVE  OneSender'
  <1>1. CASE UNCHANGED workerVars
    BY <1>1 DEF NotifierInv, OneSender, workerVars
  <1>. USE DEF NotifierInv, WorkerTypes
  <1>2. ASSUME NEW w \in Workers, Take(w) \/ TakeRetry(w) \/ ReadJob(w) \/ Get(w)
        PROVE  OneSender'
    <2>1. wpc'[w] # "send" /\ UNCHANGED <<rows, sent>>
      BY <1>2 DEF Take, TakeRetry, Start, ReadJob, Get, EndTask
    <2>. QED  BY <1>2, <2>1, NoNewSender DEF WorkerStep, Work
  <1>3. ASSUME NEW w \in Workers, Raise(w) \/ Crash(w) PROVE OneSender'
    <2>1. wpc'[w] # "send" /\ UNCHANGED <<rows, sent>>
      BY <1>3 DEF Raise, Crash, EndTask
    <2>. QED  BY <1>3, <2>1, NoNewSender DEF WorkerStep
  <1>4. ASSUME NEW w \in Workers, CreateRow(w) PROVE OneSender'
    <2>. DEFINE j == task[w].job
                k == Kind(seen[w])
    <2>1. j \in Jobs /\ k \in Kinds
      BY <1>4 DEF CreateRow, TasksSound, Task, HasKind, Kind, Kinds, Range
    <2>2. CASE k \in rows[j]
      <3>1. wpc'[w] # "send" /\ UNCHANGED <<rows, sent>>
        BY <1>4, <2>2 DEF CreateRow, EndTask
      <3>. QED  BY <1>4, <3>1, NoNewSender DEF WorkerStep, Work
    <2>3. CASE k \notin rows[j]
      <3>1. /\ rows' = [rows EXCEPT ![j] = @ \union {k}] /\ sent' = sent
            /\ wpc'[w] = "send" /\ task'[w] = task[w] /\ seen'[w] = seen[w]
        BY <1>4, <2>3 DEF CreateRow
      <3>2. rows'[j] = rows[j] \union {k} /\ \A i \in Jobs \ {j} : rows'[i] = rows[i]
        BY <2>1, <3>1
      <3>3. \A v \in Workers \ {w} :
              wpc'[v] = wpc[v] /\ task'[v] = task[v] /\ seen'[v] = seen[v]
        BY <1>4, OthersStay DEF WorkerStep, Work
      <3>4. sent[<<j, k>>] = 0
        BY <2>1, <2>3 DEF OneSender
      <3>5. \A v \in Workers \ {w} :
              wpc[v] = "send" => task[v].job # j \/ Kind(seen[v]) # k
        BY <2>3 DEF OneSender
      <3>6. \A v \in Workers : wpc[v] = "send" => task[v].job \in Jobs
        BY DEF TasksSound, Task
      <3>7. ASSUME NEW v \in Workers, wpc'[v] = "send"
            PROVE  /\ Kind(seen'[v]) \in rows'[task'[v].job]
                   /\ sent'[<<task'[v].job, Kind(seen'[v])>>] = 0
                   /\ \A u \in Workers \ {v} :
                        wpc'[u] = "send" /\ task'[u].job = task'[v].job
                          => Kind(seen'[u]) # Kind(seen'[v])
        <4>1. CASE v = w
          BY <3>1, <3>2, <3>3, <3>4, <3>5, <4>1
        <4>2. CASE v # w
          BY <3>1, <3>2, <3>3, <3>5, <3>6, <3>7, <4>2 DEF OneSender
        <4>. QED  BY <4>1, <4>2
      <3>8. ASSUME NEW i \in Jobs, NEW l \in Kinds \ rows'[i] PROVE sent'[<<i, l>>] = 0
        <4>1. l \notin rows[i]
          BY <3>2, <3>8
        <4>. QED  BY <3>1, <3>8, <4>1 DEF OneSender
      <3>. QED  BY <3>7, <3>8 DEF OneSender
    <2>. QED  BY <2>2, <2>3
  <1>5. ASSUME NEW w \in Workers, Send(w) PROVE OneSender'
    <2>. DEFINE j == task[w].job
                k == Kind(seen[w])
    <2>1. /\ wpc'[w] = "idle" /\ rows' = rows
          /\ sent' = [sent EXCEPT ![<<j, k>>] = @ + 1]
          /\ \A p \in Jobs \X Kinds : p # <<j, k>> => sent'[p] = sent[p]
      BY <1>5 DEF Send, EndTask
    <2>2. /\ k \in rows[j]
          /\ \A v \in Workers \ {w} :
               wpc[v] = "send" => <<task[v].job, Kind(seen[v])>> # <<j, k>>
      BY <1>5 DEF Send, OneSender
    <2>3. \A v \in Workers \ {w} :
            wpc'[v] = wpc[v] /\ task'[v] = task[v] /\ seen'[v] = seen[v]
      BY <1>5, OthersStay DEF WorkerStep, Work
    <2>4. \A v \in Workers :
            wpc[v] = "send" => task[v].job \in Jobs /\ Kind(seen[v]) \in Kinds
      BY DEF TasksSound, Task, HasKind, Kind, Kinds, Range
    <2>5. ASSUME NEW v \in Workers, wpc'[v] = "send"
          PROVE  /\ Kind(seen'[v]) \in rows'[task'[v].job]
                 /\ sent'[<<task'[v].job, Kind(seen'[v])>>] = 0
                 /\ \A u \in Workers \ {v} :
                      wpc'[u] = "send" /\ task'[u].job = task'[v].job
                        => Kind(seen'[u]) # Kind(seen'[v])
      <3>1. /\ v # w /\ wpc[v] = "send"
            /\ task'[v] = task[v] /\ seen'[v] = seen[v]
        BY <2>1, <2>3, <2>5
      <3>2. /\ Kind(seen[v]) \in rows[task[v].job]
            /\ sent[<<task[v].job, Kind(seen[v])>>] = 0
            /\ \A u \in Workers \ {v} :
                 wpc[u] = "send" /\ task[u].job = task[v].job
                   => Kind(seen[u]) # Kind(seen[v])
        BY <3>1 DEF OneSender
      <3>3. sent'[<<task[v].job, Kind(seen[v])>>] = 0
        BY <2>1, <2>2, <2>4, <3>1, <3>2
      <3>4. \A u \in Workers : wpc'[u] = "send" =>
              u # w /\ wpc[u] = "send" /\ task'[u] = task[u] /\ seen'[u] = seen[u]
        BY <2>1, <2>3
      <3>. QED  BY <2>1, <3>1, <3>2, <3>3, <3>4
    <2>6. ASSUME NEW i \in Jobs, NEW l \in Kinds \ rows'[i] PROVE sent'[<<i, l>>] = 0
      <3>1. l \notin rows[i] /\ <<i, l>> \in Jobs \X Kinds /\ <<i, l>> # <<j, k>>
        BY <2>1, <2>2, <2>6
      <3>2. sent[<<i, l>>] = 0
        BY <2>6, <3>1 DEF OneSender
      <3>. QED  BY <2>1, <3>1, <3>2
    <2>. QED  BY <2>5, <2>6 DEF OneSender
  <1>. QED  BY <1>1, <1>2, <1>3, <1>4, <1>5, StepsOfWorkers DEF WorkerStep, Work

LEMMA AttemptsCountedStep ==
  ASSUME NotifierInv, [NotifierNext]_allVars
  PROVE  AttemptsCounted'
  <1>1. CASE UNCHANGED workerVars
    BY <1>1 DEF NotifierInv, AttemptsCounted, workerVars
  <1>2. ASSUME NEW w \in Workers, WorkerStep(w) PROVE AttemptsCounted'
    <2>. USE DEF NotifierInv, WorkerTypes, AttemptsCounted
    <2>1. ASSUME NEW v \in Workers, v # w
          PROVE  wpc'[v] = wpc[v] /\ task'[v] = task[v]
      BY <1>2, <2>1, OthersStay
    <2>2. errors \in Nat /\ \A v \in Workers : wpc[v] # "idle" => task[v].attempt \in Nat
      BY NotifierAssumption DEF TasksSound, Task
    <2>3. CASE Take(w)
      <3>1. wpc'[w] = "read" /\ task'[w].attempt = 0 /\ UNCHANGED <<retry, errors>>
        BY <2>3 DEF Take, Start
      <3>. QED  BY <2>1, <2>2, <3>1
    <2>4. CASE TakeRetry(w)
      <3>1. PICK j \in Jobs, n \in 1 .. MaxRetries :
              /\ retry[<<j, n>>] > 0
              /\ retry' = [retry EXCEPT ![<<j, n>>] = @ - 1]
              /\ Start(w, j, n)
        BY <2>4 DEF TakeRetry
      <3>2. wpc'[w] = "read" /\ task'[w].attempt = n /\ UNCHANGED errors
        BY <3>1 DEF Start
      <3>3. n <= errors
        BY <3>1
      <3>4. ASSUME NEW i \in Jobs, NEW m \in 1 .. MaxRetries, retry'[<<i, m>>] > 0
            PROVE  m <= errors
        <4>1. CASE <<i, m>> = <<j, n>>
          BY <3>3, <4>1
        <4>2. CASE <<i, m>> # <<j, n>>
          BY <3>1, <3>4, <4>2
        <4>. QED  BY <4>1, <4>2
      <3>. QED  BY <2>1, <3>2, <3>3, <3>4
    <2>5. CASE Work(w)
      <3>1. /\ UNCHANGED <<retry, errors>>
            /\ wpc[w] # "idle" /\ (wpc'[w] # "idle" => task'[w] = task[w])
        BY <2>5 DEF Work, ReadJob, Get, CreateRow, Send, EndTask
      <3>. QED  BY <2>1, <3>1
    <2>6. CASE Raise(w)
      <3>. DEFINE j == task[w].job
                  n == task[w].attempt
      <3>1. /\ wpc'[w] = "idle" /\ errors' = errors + 1
            /\ \/ retry' = retry
               \/ retry' = [retry EXCEPT ![<<j, n + 1>>] = @ + 1]
        BY <2>6 DEF Raise, EndTask
      <3>2. n <= errors /\ n \in Nat
        BY <2>2, <2>6 DEF Raise
      <3>3. ASSUME NEW i \in Jobs, NEW m \in 1 .. MaxRetries, retry'[<<i, m>>] > 0
            PROVE  m <= errors'
        <4>1. CASE m = n + 1
          BY <2>2, <3>1, <3>2, <4>1
        <4>2. CASE m # n + 1
          <5>1. retry'[<<i, m>>] = retry[<<i, m>>]
            BY <3>1, <4>2
          <5>. QED  BY <2>2, <3>1, <3>3, <5>1
        <4>. QED  BY <4>1, <4>2
      <3>4. ASSUME NEW v \in Workers, wpc'[v] # "idle" PROVE task'[v].attempt <= errors'
        BY <2>1, <2>2, <3>1, <3>4
      <3>. QED  BY <3>3, <3>4
    <2>7. CASE Crash(w)
      <3>1. wpc'[w] = "idle" /\ UNCHANGED <<retry, errors>>
        BY <2>7 DEF Crash, EndTask
      <3>. QED  BY <2>1, <3>1
    <2>. QED  BY <1>2, <2>3, <2>4, <2>5, <2>6, <2>7 DEF WorkerStep
  <1>. QED  BY <1>1, <1>2, StepsOfWorkers

\* The server passes a job on from its commit to the queue.
LEMMA ServerSeesTo ==
  ASSUME NotifierInv, ServiceInv', [ServiceNext]_serviceVars, UNCHANGED workerVars,
         faults' = 0, errors <= MaxRetries, NEW j \in Jobs, HasKind(status'[j])
  PROVE  SeenTo(j)'
  <1>1. ASSUME status'[j] = status[j], faults = 0 PROVE SeenTo(j)
    BY <1>1 DEF NotifierInv, LastStatusSeenTo
  <1>2. queue \in [Jobs -> Nat]
    BY DEF NotifierInv, ServiceInv, ServiceTypeOK
  <1>3. CASE Quiet
    <2>1. status'[j] = status[j]
      <3>1. events'[j] = <<>> => status'[j] \in {Absent, "new"}
        BY DEF ServiceInv, LedgerInv, AuditTrail, StatusAfter, Exists
      <3>2. status'[j] \notin {Absent, "new"}
        BY LedgerAssumption DEF HasKind, STATUS_NOTIFICATION_KIND, JobStatus
      <3>. QED  BY <1>3, <3>1, <3>2 DEF Quiet
    <2>2. SeenTo(j)
      BY <1>1, <1>3, <2>1, NoFaultYet DEF NotifierInv
    <2>. QED  BY <1>3, <2>1, <2>2 DEF SeenTo, Quiet, outVars, workerVars
  <1>4. ASSUME NEW r \in Requests, Commit(r) PROVE SeenTo(j)'
    <2>1. PICK k \in Jobs, t \in JobStatus : k = req[r].job /\ t = req[r].to
      BY <1>4 DEF Commit, NotifierInv, ServiceInv, ThreadInv, RequestsSound, Request
    <2>2. /\ \A i \in Jobs \ {k} : status'[i] = status[i]
          /\ pc[r] = "written" /\ pc'[r] = "org" /\ req' = req
          /\ \A q \in Requests \ {r} : pc'[q] = pc[q]
      BY <1>4, <2>1, CommitChanges DEF NotifierInv
    <2>3. CASE j = k
      BY <2>1, <2>2, <2>3 DEF SeenTo, InCallback
    <2>4. CASE j # k
      <3>1. status'[j] = status[j] /\ SeenTo(j)
        BY <1>1, <1>4, <2>2, <2>4 DEF Commit
      <3>. QED  BY <1>4, <2>2, <3>1 DEF Commit, SeenTo, InCallback, outVars, workerVars
    <2>. QED  BY <2>3, <2>4
  <1>5. ASSUME NEW r \in Requests, PublishOrg(r) \/ PublishJob(r) PROVE SeenTo(j)'
    <2>1. /\ status' = status /\ faults = 0 /\ queue' = queue
          /\ pc'[r] \in InCallback /\ req'[r] = req[r]
          /\ \A q \in Requests \ {r} : pc'[q] = pc[q] /\ req'[q] = req[q]
      BY <1>5, CallbackMoves DEF NotifierInv, InCallback, jobVars, PublishOrg, PublishJob
    <2>2. SeenTo(j)
      BY <1>1, <2>1
    <2>. QED  BY <2>1, <2>2 DEF SeenTo, workerVars
  <1>6. ASSUME NEW r \in Requests, Delay(r) PROVE SeenTo(j)'
    <2>1. /\ status' = status /\ faults = 0
          /\ queue' = [queue EXCEPT ![req[r].job] = @ + 1]
          /\ \A q \in Requests \ {r} : pc'[q] = pc[q] /\ req'[q] = req[q]
      BY <1>6, CallbackMoves DEF NotifierInv, jobVars, Delay
    <2>2. SeenTo(j)
      BY <1>1, <2>1
    <2>3. CASE req[r].job = j
      BY <1>2, <2>1, <2>3 DEF SeenTo
    <2>4. CASE req[r].job # j
      BY <1>2, <2>1, <2>2, <2>4 DEF SeenTo, workerVars
    <2>. QED  BY <2>3, <2>4
  <1>7. ASSUME NEW r \in Requests, CutCallback(r) PROVE FALSE
    BY <1>7, NoFaultYet DEF NotifierInv
  <1>8. ServiceInv
    BY DEF NotifierInv
  <1>. QED  BY <1>3, <1>4, <1>5, <1>6, <1>7, <1>8, StepFansOut

\* A worker passes it on, to the table or to a retry.
LEMMA WorkerSeesTo ==
  ASSUME NotifierInv, NEW w \in Workers, WorkerStep(w),
         faults' = 0, errors' <= MaxRetries, NEW j \in Jobs, HasKind(status'[j])
  PROVE  SeenTo(j)'
  <1>. USE DEF NotifierInv, WorkerTypes
  <1>1. UNCHANGED <<status, pc, req>>
    BY TablesLeftAlone DEF jobVars
  <1>2. /\ \A v \in Workers \ {w} :
             wpc'[v] = wpc[v] /\ task'[v] = task[v] /\ seen'[v] = seen[v]
        /\ errors \in Nat /\ MaxRetries \in Nat
        /\ queue \in [Jobs -> Nat]
    BY OthersStay, NotifierAssumption DEF ServiceInv, ServiceTypeOK
  <1>3. ASSUME faults = 0, errors <= MaxRetries PROVE SeenTo(j)
    BY <1>1, <1>3 DEF LastStatusSeenTo
  \* Only the witness that is used up can be lost.
  <1>4. CASE Take(w)
    <2>1. PICK k \in Jobs : /\ queue' = [queue EXCEPT ![k] = @ - 1]
                            /\ UNCHANGED retry /\ Start(w, k, 0)
      BY <1>4 DEF Take
    <2>2. /\ wpc[w] = "idle" /\ wpc'[w] = "read" /\ task'[w].job = k
          /\ UNCHANGED <<rows, errors, faults>>
      BY <2>1 DEF Start, threadVars
    <2>3. SeenTo(j)
      BY <1>3, <2>2
    <2>4. CASE j = k
      BY <2>2, <2>4 DEF SeenTo
    <2>5. CASE j # k
      BY <1>1, <1>2, <2>1, <2>2, <2>3, <2>5 DEF SeenTo
    <2>. QED  BY <2>4, <2>5
  <1>5. CASE TakeRetry(w)
    <2>1. PICK k \in Jobs, n \in 1 .. MaxRetries :
            /\ retry' = [retry EXCEPT ![<<k, n>>] = @ - 1]
            /\ UNCHANGED queue /\ Start(w, k, n)
      BY <1>5 DEF TakeRetry
    <2>2. /\ wpc[w] = "idle" /\ wpc'[w] = "read" /\ task'[w].job = k
          /\ UNCHANGED <<rows, errors, faults>>
      BY <2>1 DEF Start, threadVars
    <2>3. SeenTo(j)
      BY <1>3, <2>2
    <2>4. CASE j = k
      BY <2>2, <2>4 DEF SeenTo
    <2>5. CASE j # k
      <3>1. \A m \in 1 .. MaxRetries : retry'[<<j, m>>] = retry[<<j, m>>]
        BY <2>1, <2>5
      <3>2. \A v \in Workers : task[v].job = j /\ wpc[v] # "idle" => v # w
        BY <2>2
      <3>3. CASE Kind(status[j]) \in rows[j] \/ queue[j] > 0
        BY <1>1, <2>1, <2>2, <3>3 DEF SeenTo
      <3>4. CASE \E r \in Requests : pc[r] \in InCallback /\ req[r].job = j
        BY <1>1, <3>4 DEF SeenTo
      <3>5. CASE \E m \in 1 .. MaxRetries : retry[<<j, m>>] > 0
        BY <3>1, <3>5 DEF SeenTo
      <3>6. CASE \E v \in Workers :
                    /\ \/ wpc[v] = "read"
                       \/ wpc[v] \in {"get", "create"} /\ seen[v] = status[j]
                    /\ task[v].job = j
        BY <1>1, <1>2, <3>2, <3>6 DEF SeenTo
      <3>. QED  BY <2>3, <3>3, <3>4, <3>5, <3>6 DEF SeenTo
    <2>. QED  BY <2>4, <2>5
  <1>6. ASSUME Work(w) PROVE UNCHANGED <<queue, retry, errors, faults>> /\ SeenTo(j)
    <2>1. UNCHANGED <<queue, retry, errors, faults>>
      BY <1>6 DEF Work, ReadJob, Get, CreateRow, Send, serviceVars, threadVars, outVars
    <2>. QED  BY <1>3, <2>1
  <1>7. CASE ReadJob(w)
    <2>1. UNCHANGED rows /\ wpc[w] = "read"
      BY <1>7 DEF ReadJob
    <2>2. task[w].job = j => wpc'[w] = "get" /\ task'[w].job = j /\ seen'[w] = status'[j]
      BY <1>1, <1>7 DEF ReadJob
    <2>. QED  BY <1>1, <1>2, <1>6, <1>7, <2>1, <2>2 DEF SeenTo, Work
  <1>8. CASE Get(w)
    <2>1. UNCHANGED rows /\ wpc[w] = "get"
      BY <1>8 DEF Get
    <2>2. task[w].job = j /\ seen[w] = status[j] =>
            \/ Kind(status[j]) \in rows[j]
            \/ wpc'[w] = "create" /\ task'[w].job = j /\ seen'[w] = status'[j]
      BY <1>1, <1>8 DEF Get, HasRow
    <2>. QED  BY <1>1, <1>2, <1>6, <1>8, <2>1, <2>2 DEF SeenTo, Work
  <1>9. CASE CreateRow(w)
    <2>1. wpc[w] = "create" /\ task[w].job \in Jobs
      BY <1>9 DEF CreateRow, TasksSound, Task
    <2>2. /\ rows[j] \subseteq rows'[j]
          /\ task[w].job = j => Kind(seen[w]) \in rows'[j]
      BY <1>9, <2>1 DEF CreateRow
    <2>. QED  BY <1>1, <1>2, <1>6, <1>9, <2>1, <2>2 DEF SeenTo, Work
  <1>10. CASE Send(w)
    <2>1. wpc[w] = "send" /\ UNCHANGED rows
      BY <1>10 DEF Send
    <2>. QED  BY <1>1, <1>2, <1>6, <1>10, <2>1 DEF SeenTo, Work
  <1>11. CASE Raise(w)
    <2>. DEFINE k == task[w].job
                n == task[w].attempt
    <2>1. /\ k \in Jobs /\ n \in Nat /\ n <= errors
          /\ UNCHANGED <<queue, faults, rows>> /\ errors' = errors + 1
      BY <1>11 DEF Raise, TasksSound, AttemptsCounted, Task, serviceVars, threadVars, outVars
    <2>2. n < MaxRetries /\ n + 1 \in 1 .. MaxRetries
      BY <1>2, <2>1
    <2>3. retry' = [retry EXCEPT ![<<k, n + 1>>] = @ + 1]
      BY <1>11, <2>2 DEF Raise, MayRetry
    <2>4. SeenTo(j)
      BY <1>2, <1>3, <2>1
    <2>. HIDE DEF n
    <2>5. CASE j = k
      BY <2>1, <2>2, <2>3, <2>5 DEF SeenTo
    <2>6. CASE j # k
      <3>1. \A m \in 1 .. MaxRetries : retry'[<<j, m>>] = retry[<<j, m>>]
        BY <2>3, <2>6
      <3>. QED  BY <1>1, <1>2, <2>1, <2>4, <2>6, <3>1 DEF SeenTo
    <2>. QED  BY <2>5, <2>6
  <1>12. CASE Crash(w)
    BY <1>12 DEF Crash, Fault, ServiceInv, ServiceTypeOK
  <1>. QED
    BY <1>4, <1>5, <1>7, <1>8, <1>9, <1>10, <1>11, <1>12 DEF WorkerStep, Work

LEMMA LastStatusSeenToStep ==
  ASSUME NotifierInv, [NotifierNext]_allVars
  PROVE  LastStatusSeenTo'
  <1>. SUFFICES ASSUME faults' = 0, errors' <= MaxRetries, NEW j \in Jobs, HasKind(status'[j])
                PROVE  SeenTo(j)'
    BY DEF LastStatusSeenTo
  <1>1. ServiceInv'
    BY ServerKeepsOn DEF NotifierInv
  <1>2. CASE [ServiceNext]_serviceVars /\ UNCHANGED workerVars
    BY <1>1, <1>2, ServerSeesTo DEF workerVars
  <1>3. ASSUME NEW k \in Jobs, Duplicate(k) PROVE FALSE
    BY <1>3 DEF Duplicate, Fault, NotifierInv, ServiceInv, ServiceTypeOK
  <1>4. ASSUME NEW w \in Workers, WorkerStep(w) PROVE SeenTo(j)'
    BY <1>4, WorkerSeesTo
  <1>. QED  BY <1>2, <1>3, <1>4 DEF NotifierNext, WorkerStep, allVars

\* Failures are never forgotten.
LEMMA FailuresCounted ==
  ASSUME NotifierInv, [NotifierNext]_allVars
  PROVE  /\ faults \in Nat /\ errors \in Nat /\ faults' \in Nat /\ errors' \in Nat
         /\ faults' >= faults /\ errors' >= errors
         /\ \A w \in Workers :
              Raise(w) \/ Crash(w) => faults' + errors' = faults + errors + 1
  <1>1. faults \in Nat /\ errors \in Nat
    BY ServiceAssumption, NotifierAssumption
       DEF NotifierInv, ServiceInv, ServiceTypeOK, WorkerTypes
  <1>2. CASE [ServiceNext]_serviceVars /\ UNCHANGED workerVars
    <2>1. faults' = faults \/ faults' = faults + 1
      BY <1>2 DEF ServiceNext, CreateJob, GetForAssign, GetForTransition, Accept, Serve,
                  SelectForUpdate, Reject, Write, Commit, PublishOrg, PublishJob, Delay,
                  Rollback, CutCallback, Fault, serviceVars, threadVars
    <2>2. errors' = errors /\ \A w \in Workers : ~Raise(w)
      BY <1>1, <1>2 DEF workerVars, Raise
    <2>3. \A w \in Workers : ~Crash(w)
      <3>. SUFFICES ASSUME NEW w \in Workers, Crash(w) PROVE FALSE
        OBVIOUS
      <3>1. wpc[w] # "idle" /\ wpc'[w] = "idle"
        BY DEF Crash, EndTask, NotifierInv, WorkerTypes
      <3>. QED  BY <1>2, <3>1 DEF workerVars
    <2>. QED  BY <1>1, <2>1, <2>2, <2>3
  <1>3. ASSUME NEW v \in Workers, WorkerStep(v)
        PROVE  /\ faults' = faults \/ faults' = faults + 1
               /\ errors' = errors \/ errors' = errors + 1
    BY <1>3 DEF WorkerStep, Take, TakeRetry, Start, Work, ReadJob, Get, CreateRow, Send, Raise,
                Crash, Fault, serviceVars, threadVars
  <1>4. ASSUME NEW j \in Jobs, Duplicate(j)
        PROVE  faults' = faults + 1 /\ UNCHANGED workerVars
    BY <1>4 DEF Duplicate, Fault
  <1>5. ASSUME NEW w \in Workers, Raise(w)
        PROVE  faults' = faults /\ errors' = errors + 1
    BY <1>5 DEF Raise, serviceVars, threadVars
  <1>6. ASSUME NEW w \in Workers, Crash(w)
        PROVE  faults' = faults + 1 /\ errors' = errors
    BY <1>6 DEF Crash, Fault
  <1>7. /\ faults' = faults \/ faults' = faults + 1
        /\ errors' = errors \/ errors' = errors + 1
    BY <1>1, <1>2, <1>3, <1>4 DEF NotifierNext, WorkerStep, allVars, workerVars, serviceVars,
       threadVars, ServiceNext, CreateJob, GetForAssign, GetForTransition, Accept, Serve,
       SelectForUpdate, Reject, Write, Commit, PublishOrg, PublishJob, Delay, Rollback,
       CutCallback, Fault
  <1>. QED  BY <1>1, <1>5, <1>6, <1>7

\* Only a worker that raises or dies can lose anything, and only the message that
\* it was about to send.
LEMMA OneLossAtATime ==
  ASSUME NotifierInv, NEW w \in Workers, WorkerStep(w)
  PROVE  \/ Lost' \subseteq Lost
         \/ (Raise(w) \/ Crash(w)) /\ Lost' \subseteq Lost \union {Sending(w)}
  <1>. USE DEF NotifierInv, WorkerTypes
  <1>1. \A v \in Workers \ {w} : /\ wpc'[v] = wpc[v]
                                 /\ Sending(v)' = Sending(v)
    BY OthersStay DEF Sending
  <1>2. CASE Take(w) \/ TakeRetry(w) \/ ReadJob(w) \/ Get(w)
    <2>1. wpc[w] # "send" /\ UNCHANGED <<rows, sent>>
      BY <1>2 DEF Take, TakeRetry, Start, ReadJob, Get
    <2>. QED  BY <1>1, <2>1 DEF Lost
  <1>3. CASE CreateRow(w)
    <2>. DEFINE j == task[w].job
                k == Kind(seen[w])
    <2>1. j \in Jobs /\ k \in Kinds /\ wpc[w] = "create" /\ sent' = sent
      BY <1>3 DEF CreateRow, TasksSound, Task, HasKind, Kind, Kinds, Range
    <2>2. CASE k \in rows[j]
      <3>1. rows' = rows
        BY <1>3, <2>2 DEF CreateRow
      <3>. QED  BY <1>1, <2>1, <3>1 DEF Lost
    <2>3. CASE k \notin rows[j]
      <3>1. /\ rows' = [rows EXCEPT ![j] = @ \union {k}]
            /\ wpc'[w] = "send" /\ Sending(w)' = <<j, k>>
        BY <1>3, <2>3 DEF CreateRow, Sending
      <3>2. ASSUME NEW p \in Lost' PROVE p \in Lost
        <4>1. p \in Jobs \X Kinds /\ p # <<j, k>>
          BY <3>1 DEF Lost
        <4>2. p[2] \in rows'[p[1]]
          BY DEF Lost
        <4>3. p[2] \in rows[p[1]]
          <5>1. p = <<p[1], p[2]>> /\ p[1] \in Jobs
            BY <4>1
          <5>2. CASE p[1] = j
            BY <2>1, <3>1, <4>1, <4>2, <5>1, <5>2
          <5>3. CASE p[1] # j
            BY <2>1, <3>1, <4>2, <5>1, <5>3
          <5>. QED  BY <5>2, <5>3
        <4>. QED  BY <1>1, <2>1, <4>1, <4>3 DEF Lost
      <3>. QED  BY <3>2
    <2>. QED  BY <2>2, <2>3
  <1>4. CASE Send(w)
    <2>. DEFINE k == Sending(w)
    <2>1. /\ k \in Jobs \X Kinds /\ rows' = rows
          /\ sent' = [sent EXCEPT ![k] = @ + 1]
      BY <1>4 DEF Send, TasksSound, Task, HasKind, Kind, Kinds, Range, Sending
    <2>2. sent'[k] # 0 /\ \A p \in Jobs \X Kinds : p # k => sent'[p] = sent[p]
      BY <2>1
    <2>. QED  BY <1>1, <2>1, <2>2 DEF Lost
  <1>5. CASE Raise(w) \/ Crash(w)
    <2>1. UNCHANGED <<rows, sent>>
      BY <1>5 DEF Raise, Crash
    <2>. QED  BY <1>1, <1>5, <2>1 DEF Lost
  <1>. QED  BY <1>2, <1>3, <1>4, <1>5 DEF WorkerStep, Work

LEMMA LossesCountedStep ==
  ASSUME NotifierInv, [NotifierNext]_allVars
  PROVE  LossesCounted'
  <1>. DEFINE n == faults + errors
  <1>1. /\ n \in Nat /\ n' \in Nat /\ n' >= n
        /\ \A w \in Workers : Raise(w) \/ Crash(w) => n' = n + 1
    BY FailuresCounted
  <1>2. IsFiniteSet(Lost) /\ Cardinality(Lost) \in Nat /\ Cardinality(Lost) <= n
    BY FS_CardinalityType DEF NotifierInv, LossesCounted
  <1>. HIDE DEF n
  <1>3. IsFiniteSet(Lost') /\ Cardinality(Lost') <= n' => LossesCounted'
    BY DEF LossesCounted, n
  <1>4. CASE Lost' \subseteq Lost
    <2>1. /\ IsFiniteSet(Lost') /\ Cardinality(Lost') <= Cardinality(Lost)
          /\ Cardinality(Lost') \in Nat
      BY <1>2, <1>4, FS_Subset, FS_CardinalityType
    <2>. QED  BY <1>1, <1>2, <1>3, <2>1
  <1>5. ASSUME NEW w \in Workers, Raise(w) \/ Crash(w), Lost' \subseteq Lost \union {Sending(w)}
        PROVE  LossesCounted'
    <2>. DEFINE more == Lost \union {Sending(w)}
    <2>1. IsFiniteSet(more) /\ Cardinality(more) <= Cardinality(Lost) + 1
          /\ Cardinality(more) \in Nat
      BY <1>2, FS_AddElement, FS_CardinalityType
    <2>. HIDE DEF more
    <2>2. /\ IsFiniteSet(Lost') /\ Cardinality(Lost') <= Cardinality(more)
          /\ Cardinality(Lost') \in Nat
      BY <1>5, <2>1, FS_Subset, FS_CardinalityType DEF more
    <2>. QED  BY <1>1, <1>2, <1>3, <1>5, <2>1, <2>2
  <1>6. CASE UNCHANGED workerVars
    <2>1. Lost' = Lost
      BY <1>6 DEF Lost, Sending, workerVars
    <2>. QED  BY <1>4, <2>1
  <1>. QED  BY <1>4, <1>5, <1>6, StepsOfWorkers, OneLossAtATime

LEMMA NotifierStep == NotifierInv /\ [NotifierNext]_allVars => NotifierInv'
  <1>. SUFFICES ASSUME NotifierInv, [NotifierNext]_allVars PROVE NotifierInv'
    OBVIOUS
  <1>1. ServiceInv' /\ StatusPassed'
    BY ServerKeepsOn DEF NotifierInv
  <1>. QED
    BY <1>1, WorkerTypesStep, TasksSoundStep, RowsSoundStep, OneSenderStep, AttemptsCountedStep,
       LastStatusSeenToStep, LossesCountedStep
       DEF NotifierInv

-----------------------------------------------------------------------------

\* Every reachable state of server, broker and workers satisfies the invariant.
THEOREM NotifierInvariant == NotifierSpec => []NotifierInv
  BY NotifierInitial, NotifierStep, PTL DEF NotifierSpec

\* Types; a notification is of a status that the job has had.
THEOREM NotifierTypesCorrect == NotifierSpec => []NotifierTypeOK
  <1>1. NotifierInv => NotifierTypeOK
    BY DEF NotifierInv, ServiceInv, WorkerTypes, RowsSound, Task, NotifierTypeOK
  <1>. QED  BY <1>1, NotifierInvariant, PTL

\* notify_status_change may skip a status that has passed, but not the last: at
\* rest its row is there, unless a process crashed or retries were used up.
THEOREM LastStatusNotified == NotifierSpec => []CurrentStatusNotified
  <1>1. NotifierInv => CurrentStatusNotified
    <2>. SUFFICES ASSUME NotifierInv, AtRest, faults = 0, errors <= MaxRetries,
                         NEW j \in Jobs, HasKind(status[j])
                  PROVE  Kind(status[j]) \in rows[j]
      BY DEF CurrentStatusNotified
    <2>1. SeenTo(j)
      BY DEF NotifierInv, LastStatusSeenTo
    <2>2. \A n \in 1 .. MaxRetries : retry[<<j, n>>] = 0
      BY DEF AtRest, NotifierInv, WorkerTypes
    <2>3. ~(\E r \in Requests : pc[r] \in InCallback /\ req[r].job = j)
      BY DEF AtRest
    <2>4. queue[j] = 0 /\ \A w \in Workers : wpc[w] = "idle"
      BY DEF AtRest
    <2>5. ~(queue[j] > 0)
      BY <2>4
    <2>6. ASSUME NEW n \in 1 .. MaxRetries PROVE ~(retry[<<j, n>>] > 0)
      <3>1. retry[<<j, n>>] = 0
        BY <2>2
      <3>. QED  BY <3>1
    <2>7. ~(\E w \in Workers :
                /\ \/ wpc[w] = "read"
                   \/ wpc[w] \in {"get", "create"} /\ seen[w] = status[j]
                /\ task[w].job = j)
      BY <2>4
    <2>. QED  BY <2>1, <2>3, <2>5, <2>6, <2>7 DEF SeenTo
  <1>. QED  BY <1>1, NotifierInvariant, PTL

\* tasks.py inserts the row before it sends: what that loses is one message per
\* failure, whatever is raced, retried or delivered twice.
THEOREM LossesAreFailures == NotifierSpec => []LostByFailure
  <1>1. NotifierInv => LostByFailure
    BY DEF NotifierInv, LossesCounted, LostByFailure
  <1>. QED  BY <1>1, NotifierInvariant, PTL

-----------------------------------------------------------------------------
(* NotificationLedger is implemented: one insertion is one Record, one     *)
(* Send one Deliver, and every other step a stutter.                       *)

Recorded == {p \in Jobs \X Kinds : p[2] \in rows[p[1]]}

LEMMA PromiseStep ==
  ASSUME NotifierInv, [NotifierNext]_allVars
  PROVE  [\E i \in Jobs \X Kinds : Promise!Record(i) \/ Promise!Deliver(i)]_Promise!ledgerVars
  <1>1. CASE UNCHANGED <<rows, sent>>
    BY <1>1 DEF Promise!ledgerVars
  <1>2. ASSUME NEW w \in Workers, WorkerStep(w), ~UNCHANGED <<rows, sent>>
        PROVE  \E i \in Jobs \X Kinds : Promise!Record(i) \/ Promise!Deliver(i)
    <2>. DEFINE j == task[w].job
                k == Kind(seen[w])
    <2>1. CreateRow(w) \/ Send(w)
      BY <1>2 DEF WorkerStep, Work, Take, TakeRetry, Start, ReadJob, Get, Raise, Crash
    <2>2. j \in Jobs /\ k \in Kinds /\ <<j, k>> \in Jobs \X Kinds
      BY <2>1 DEF CreateRow, Send, NotifierInv, TasksSound, Task, HasKind, Kind, Kinds, Range
    <2>3. CASE CreateRow(w)
      <3>1. k \notin rows[j] /\ rows' = [rows EXCEPT ![j] = @ \union {k}] /\ sent' = sent
        BY <1>2, <2>3 DEF CreateRow
      <3>2. Recorded' = Recorded \union {<<j, k>>} /\ <<j, k>> \notin Recorded
        BY <2>2, <3>1 DEF Recorded, NotifierInv, WorkerTypes
      <3>. QED  BY <2>2, <3>1, <3>2 DEF Promise!Record, Recorded
    <2>4. CASE Send(w)
      <3>1. k \in rows[j] /\ sent[<<j, k>>] = 0
        BY <2>4 DEF Send, NotifierInv, OneSender
      <3>2. rows' = rows /\ sent' = [sent EXCEPT ![<<j, k>>] = 1]
        BY <2>2, <2>4, <3>1 DEF Send, NotifierInv, WorkerTypes
      <3>. QED  BY <2>2, <3>1, <3>2 DEF Promise!Deliver
    <2>. QED  BY <2>1, <2>3, <2>4
  <1>. QED  BY <1>1, <1>2, StepsOfWorkers DEF workerVars

\* The docstring of notify_status_change: whatever is repeated, raced, raised or
\* delivered twice, a customer gets at most one message of a kind about a job,
\* after its row.
THEOREM NotifierImplementsPromise == NotifierSpec => NotificationPromise
  <1>1. NotifierInit => Promise!Init
    BY DEF NotifierInit, Promise!Init
  <1>2. NotifierInv /\ [NotifierNext]_allVars =>
          [\E i \in Jobs \X Kinds : Promise!Record(i) \/ Promise!Deliver(i)]_Promise!ledgerVars
    BY PromiseStep
  <1>. QED
    BY <1>1, <1>2, NotifierInvariant, PTL DEF NotifierSpec, NotificationPromise, Promise!Spec
=============================================================================
