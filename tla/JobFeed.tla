------------------------------ MODULE JobFeed -------------------------------
(***************************************************************************)
(* The sockets next to the server of JobService: who joins which group of  *)
(* the channel layer, and what of the feeds reaches whom.  A connection is *)
(* authenticated and authorized once, when it opens.                       *)
(*                                                                         *)
(* "closed"   not connected; a client may try again                        *)
(* "checked"  the token and, for a job's room, the job's row were read     *)
(* "joined"   group_add returned: messages wait in the channel's mailbox   *)
(* "open"     accept() was sent; the consumer forwards its mailbox         *)
(***************************************************************************)
EXTENDS JobService

CONSTANTS
  Sockets,     \* the connections
  Path,        \* per connection its URL: a job for its room, or Fleet
  TokenUser,   \* whose valid token it carries, or NoUser
  Fleet        \* /ws/dispatch/ or /ws/agent/

ASSUME FeedAssumption ==
  /\ Fleet \notin Jobs
  /\ Path \in [Sockets -> Jobs \union {Fleet}]
  /\ TokenUser \in [Sockets -> Users \union {NoUser}]

VARIABLES
  conn,        \* where each connection is
  members,     \* the connections that are in their group
  inbox,       \* per connection, the <<job, status>> messages not yet forwarded
  heard,       \* per connection, what its client was sent
  base         \* per open connection, how many events each job had at accept()

socketVars == <<conn, members, inbox, heard, base>>
feedVars == <<serviceVars, socketVars>>

NoEvents == [j \in Jobs |-> 0]

FeedInit ==
  /\ ServiceInit
  /\ conn = [s \in Sockets |-> "closed"]
  /\ members = {}
  /\ inbox = [s \in Sockets |-> {}]
  /\ heard = [s \in Sockets |-> {}]
  /\ base = [s \in Sockets |-> NoEvents]

-----------------------------------------------------------------------------
(* Connecting.                                                             *)

\* realtime/groups.py.  The mutant has one group for every organization.
EveryOrgGroup(o) == <<"org", NoOrg>>
OrgGroup(o) == <<"org", o>>
JobGroup(j) == <<"job", j>>

GroupOf(s) == IF Path[s] = Fleet THEN OrgGroup(OrgOf[TokenUser[s]])
                                 ELSE JobGroup(Path[s])

\* JobConsumer._get_job_if_participant.
Participant(u, j) == Exists(j) /\ VisibleTo(u, j)

\* ws_user: an anonymous scope is nobody's.
Authenticated(s) == TokenUser[s] # NoUser

\* DispatchConsumer.connect and AgentConsumer.connect.
MayOpenFleet(s) == Role[TokenUser[s]] \in {"dispatcher", "agent"}

Proceed(s, phase) == conn' = [conn EXCEPT ![s] = phase]

OpenSocket(s) ==
  /\ conn[s] = "closed"
  /\ Authenticated(s)
  /\ IF Path[s] = Fleet THEN MayOpenFleet(s) ELSE Participant(TokenUser[s], Path[s])
  /\ Proceed(s, "checked")
  /\ UNCHANGED <<serviceVars, members, inbox, heard, base>>

Accepted(s) == base' = [base EXCEPT ![s] = [j \in Jobs |-> Len(events[j])]]

\* The mutant of JoinGroup accepts first and joins the group afterwards.
AcceptThenJoin(s) ==
  \/ /\ conn[s] = "checked"
     /\ Proceed(s, "open")
     /\ Accepted(s)
     /\ UNCHANGED <<serviceVars, members, inbox, heard>>
  \/ /\ conn[s] = "open"
     /\ members' = members \union {s}
     /\ UNCHANGED <<serviceVars, conn, inbox, heard, base>>

JoinGroup(s) ==
  /\ conn[s] = "checked"
  /\ Proceed(s, "joined")
  /\ members' = members \union {s}
  /\ UNCHANGED <<serviceVars, inbox, heard, base>>

AcceptSocket(s) ==
  /\ conn[s] = "joined"
  /\ Proceed(s, "open")
  /\ Accepted(s)
  /\ UNCHANGED <<serviceVars, members, inbox, heard>>

\* The client leaves, or the replica that holds the socket dies.  The mutant
\* forgets group_discard.
CloseAndStay(s) ==
  /\ conn[s] # "closed"
  /\ Proceed(s, "closed")
  /\ inbox' = [inbox EXCEPT ![s] = {}]
  /\ heard' = [heard EXCEPT ![s] = {}]
  /\ base' = [base EXCEPT ![s] = NoEvents]
  /\ UNCHANGED <<serviceVars, members>>
CloseSocket(s) ==
  /\ conn[s] # "closed"
  /\ Proceed(s, "closed")
  /\ members' = members \ {s}
  /\ inbox' = [inbox EXCEPT ![s] = {}]
  /\ heard' = [heard EXCEPT ![s] = {}]
  /\ base' = [base EXCEPT ![s] = NoEvents]
  /\ UNCHANGED serviceVars

-----------------------------------------------------------------------------
(* Delivery.                                                               *)

\* group_send of a step of the server: the jobs whose feed grows have a new
\* message for the members of the group.
Update(feed, j) == <<j, feed[j][Len(feed[j])]>>

Sent(s) ==
  {Update(orgFeed', j) : j \in {k \in Jobs : orgFeed'[k] # orgFeed[k]
                                          /\ GroupOf(s) = OrgGroup(org[k])}}
  \union
  {Update(jobFeed', j) : j \in {k \in Jobs : jobFeed'[k] # jobFeed[k]
                                          /\ GroupOf(s) = JobGroup(k)}}

Serving ==
  /\ ServiceNext
  /\ inbox' = [s \in Sockets |->
                 IF s \in members THEN inbox[s] \union Sent(s) ELSE inbox[s]]
  /\ UNCHANGED <<conn, members, heard, base>>

\* job_update
Forward(s) == \E u \in inbox[s] :
  /\ conn[s] = "open"
  /\ inbox' = [inbox EXCEPT ![s] = @ \ {u}]
  /\ heard' = [heard EXCEPT ![s] = @ \union {u}]
  /\ UNCHANGED <<serviceVars, conn, members, base>>

FeedNext ==
  \/ Serving
  \/ \E s \in Sockets :
       \/ OpenSocket(s) \/ JoinGroup(s) \/ AcceptSocket(s) \/ CloseSocket(s)
       \/ Forward(s)

FeedSpec == FeedInit /\ [][FeedNext]_feedVars

-----------------------------------------------------------------------------
(* Properties.                                                             *)

Message == Jobs \X JobStatus

\* Types; a connection is in its group from group_add to group_discard, and has
\* mail only while it is.
FeedTypeOK ==
  /\ ServiceTypeOK
  /\ conn \in [Sockets -> {"closed", "checked", "joined", "open"}]
  /\ members = {s \in Sockets : conn[s] \in {"joined", "open"}}
  /\ inbox \in [Sockets -> SUBSET Message]
  /\ heard \in [Sockets -> SUBSET Message]
  /\ base \in [Sockets -> [Jobs -> Nat]]
  /\ \A s \in Sockets : conn[s] \in {"closed", "checked"} => inbox[s] = {}

\* JobConsumer: "one job's room".  The participant is checked once, before the
\* room is joined, and the connection may stay for as long as it likes: what
\* becomes of the job meanwhile, its members remain its participants.
RoomIsForParticipants ==
  \A s \in members : Path[s] # Fleet => Participant(TokenUser[s], Path[s])

\* system-design.md #2, "One organization can never see another's jobs": a
\* client is sent only changes that were committed, of jobs of its organization;
\* and in a job's room only those of that job, while it is one of the client's.
\* On the agents' own socket that does not hold: org_group brings them every job
\* of the organization, other agents' too, and job_update passes all of them on,
\* against system-design.md #3.1, "Must never see: Other agents' jobs".
HeardInTenant ==
  \A s \in Sockets : \A u \in inbox[s] \union heard[s] :
    /\ u[2] \in Changes(u[1])
    /\ TokenUser[s] \in Superusers \/ ForOrganization(TokenUser[s], u[1])
    /\ Path[s] # Fleet => u[1] = Path[s] /\ Participant(TokenUser[s], u[1])

\* The changes of a job since the connection was accepted.
ChangesSince(s, j) == {events[j][i].to : i \in base[s][j] + 1 .. Len(events[j])}

Concerns(s, j) == IF Path[s] = Fleet THEN org[j] = OrgOf[TokenUser[s]]
                                     ELSE j = Path[s]

\* system-design.md #5, "a gap in the socket can never silently become a stale
\* UI": a client reads the state once it is connected, so it must hear of every
\* change from the handshake on.  Unless a process failed, whatever was committed
\* since then has been heard, is in the mailbox, or is still to be announced by a
\* running callback.
NothingMissed ==
  faults = 0 => \A s \in Sockets, j \in Jobs :
    conn[s] = "open" /\ Concerns(s, j) =>
      \A st \in ChangesSince(s, j) :
        \/ <<j, st>> \in inbox[s] \union heard[s]
        \/ \E r \in Requests :
             /\ req[r] # NoRequest
             /\ req[r].job = j /\ req[r].to = st
             /\ pc[r] \in {"org", "job"}
=============================================================================
