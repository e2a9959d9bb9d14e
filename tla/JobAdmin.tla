------------------------------ MODULE JobAdmin ------------------------------
(***************************************************************************)
(* The job admin next to the API of JobService.  A change form shows a row *)
(* and, when it is posted, writes back every column it showed, into a row  *)
(* it looked up before; a deletion is confirmed before it takes place.     *)
(* Neither goes through services.py.                                       *)
(*                                                                         *)
(* Forms and deletions are Django's: ModelAdmin with no method overridden. *)
(***************************************************************************)
EXTENDS JobService, Sequences

CONSTANTS
  Staff,       \* the browser tabs with the admin
  NoForm,      \* a tab that shows no job
  Edits,       \* bound: the columns that staff change
  Picked,      \* bound: the users they pick as customer of a new job
  MaxPosts     \* bound: how often a change form is posted

ASSUME AdminAssumption ==
  /\ Edits \subseteq {"status", "agent", "customer", "org"}
  /\ Picked \subseteq Users /\ MaxPosts \in Nat
  /\ NoForm \notin [job : Jobs,
                    row : [status : JobStatus, agent : Users \union {NoUser},
                           customer : Users, org : Orgs]]

VARIABLES
  form,        \* what each tab shows or posts: a job and its row
  posted,      \* the tabs whose change form has found its job
  doomed,      \* the tabs whose deletion has passed the permission check
  deleted,     \* the primary keys that were deleted: no new job gets one
  posts        \* the change forms posted so far

adminVars == <<form, posted, doomed, deleted, posts>>
allVars == <<serviceVars, adminVars>>

Row == [status : JobStatus, agent : Users \union {NoUser}, customer : Users,
        org : Orgs]
Form == [job : Jobs, row : Row]

AdminInit ==
  /\ ServiceInit
  /\ form = [f \in Staff |-> NoForm]
  /\ posted = {}
  /\ doomed = {}
  /\ deleted = {}
  /\ posts = 0

-----------------------------------------------------------------------------
(* The forms.                                                              *)

RowOf(j) == [status |-> status[j], agent |-> agent[j],
             customer |-> customer[j], org |-> org[j]]

\* What staff make of the row they see.
EditsOf(shown) ==
  {row \in Row : \A c \in DOMAIN row \ Edits : row[c] = shown[c]}

\* obj.save() of the whole row.
SaveRow(j, row) ==
  /\ status' = [status EXCEPT ![j] = row.status]
  /\ agent' = [agent EXCEPT ![j] = row.agent]
  /\ customer' = [customer EXCEPT ![j] = row.customer]
  /\ org' = [org EXCEPT ![j] = row.org]

Show(f, shown) == form' = [form EXCEPT ![f] = shown]

OpenForm(f) == \E j \in Jobs :
  /\ form[f] = NoForm
  /\ Exists(j)
  /\ Show(f, [job |-> j, row |-> RowOf(j)])
  /\ UNCHANGED <<serviceVars, posted, doomed, deleted, posts>>

\* get_object finds the job, and the form puts in place of its columns what staff
\* made of the row they saw.
PostForm(f) ==
  /\ posts < MaxPosts
  /\ posts' = posts + 1
  /\ form[f] # NoForm
  /\ f \notin posted \union doomed
  /\ Exists(form[f].job)
  /\ \E row \in EditsOf(form[f].row) : Show(f, [form[f] EXCEPT !.row = row])
  /\ posted' = posted \union {f}
  /\ UNCHANGED <<serviceVars, doomed, deleted>>

\* save(): the UPDATE waits for the row lock, but nothing is read again under it.
\* If it matches no row there is an INSERT: a job deleted meanwhile is back.
SaveForm(f) ==
  /\ f \in posted
  /\ RowFree(form[f].job)
  /\ SaveRow(form[f].job, form[f].row)
  /\ Show(f, NoForm)
  /\ posted' = posted \ {f}
  /\ UNCHANGED <<threadVars, outVars, events, doomed, deleted, posts>>

\* The add form proposes the defaults of the model.
AddJob == \E j \in Jobs \ deleted, c \in Picked, o \in Orgs :
  /\ ~Exists(j)
  /\ \E row \in EditsOf([status |-> "new", agent |-> NoUser, customer |-> c, org |-> o]) :
       SaveRow(j, row)
  /\ UNCHANGED <<threadVars, outVars, events, adminVars>>

\* The tab is closed, the job is gone, permission is denied, or the server fails.
Abandon(f) ==
  /\ form[f] # NoForm
  /\ Show(f, NoForm)
  /\ posted' = posted \ {f}
  /\ doomed' = doomed \ {f}
  /\ UNCHANGED <<serviceVars, deleted, posts>>

-----------------------------------------------------------------------------
(* Deleting a job.                                                         *)

\* get_deleted_objects: a job with events cannot be deleted, since
\* JobEventAdmin.has_delete_permission is False.
Deletable(j) == events[j] = <<>>

ConfirmDelete(f) ==
  /\ form[f] # NoForm
  /\ f \notin posted
  /\ Exists(form[f].job)
  /\ Deletable(form[f].job)
  /\ doomed' = doomed \union {f}
  /\ UNCHANGED <<serviceVars, form, posted, deleted, posts>>

\* on_delete=CASCADE of JobEvent.job; the mutant is DO_NOTHING.
CascadeNothing(j) == UNCHANGED events
Cascade(j) == events' = [events EXCEPT ![j] = <<>>]

\* obj.delete() collects again, and deletes the events committed meanwhile.
DeleteJob(f) ==
  LET j == form[f].job
  IN  /\ f \in doomed
      /\ Exists(j)
      /\ RowFree(j)
      /\ status' = [status EXCEPT ![j] = Absent]
      /\ agent' = [agent EXCEPT ![j] = NoUser]
      /\ customer' = [customer EXCEPT ![j] = NoUser]
      /\ org' = [org EXCEPT ![j] = NoOrg]
      /\ Cascade(j)
      /\ deleted' = deleted \union {j}
      /\ doomed' = doomed \ {f}
      /\ Show(f, NoForm)
      /\ UNCHANGED <<threadVars, outVars, posted, posts>>

-----------------------------------------------------------------------------

\* The API.  A thread whose job is gone gets DoesNotExist from get(): here it
\* reads Absent and is rejected; no form brings the job back in between, but one
\* may before and after.
Serving ==
  /\ \/ CreateJob /\ \A j \in deleted : status'[j] = status[j]
     \/ \E r \in Requests :
          GetForAssign(r) \/ GetForTransition(r) \/ Serve(r) \/ Rollback(r) \/ CutCallback(r)
  /\ UNCHANGED adminVars

AdminNext ==
  \/ Serving
  \/ AddJob
  \/ \E f \in Staff :
       \/ OpenForm(f) \/ PostForm(f) \/ SaveForm(f) \/ Abandon(f)
       \/ ConfirmDelete(f) \/ DeleteJob(f)

AdminSpec == AdminInit /\ [][AdminNext]_allVars

-----------------------------------------------------------------------------
(* Properties.                                                             *)

\* Types; the events of a job go with it.
AdminTypeOK ==
  /\ ServiceTypeOK
  /\ form \in [Staff -> Form \union {NoForm}]
  /\ posted \union doomed \in SUBSET {f \in Staff : form[f] # NoForm}
  /\ posted \intersect doomed = {}
  /\ deleted \in SUBSET Jobs
  /\ \A j \in Jobs : ~Exists(j) => events[j] = <<>>
  /\ posts \in 0 .. MaxPosts

\* data-model.md, JobEvent: "Append-only audit trail".  Staff may change a
\* job's row between any two statements of a request, and yet no event lies:
\* while a job exists its trail only grows, and each new event tells the legal
\* step that the row takes at that very moment.
EventsTellTruth ==
  [][\A j \in Jobs : Exists(j) /\ status'[j] # Absent /\ events'[j] # events[j] =>
       \E e \in Event :
         /\ events'[j] = Append(events[j], e)
         /\ e.from = status[j] /\ e.to = status'[j]
         /\ <<e.from, e.to>> \in TRANSITIONS]_allVars

\* A deletion that was answered stands against the requests: one that had read
\* the job, or passed its checks, before the deletion does not bring it back.
\* Only a change form can that had looked the job up before.
OnlyFormsRevive ==
  [][\A j \in deleted : ~Exists(j) /\ status'[j] # Absent =>
       \E f \in posted : form[f].job = j]_allVars
=============================================================================
