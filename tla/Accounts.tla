------------------------------ MODULE Accounts ------------------------------
(***************************************************************************)
(* The users and tenants of apps/accounts/models.py, as far as the jobs    *)
(* API reads them.  Roles and organizations are constants: no endpoint of  *)
(* the program changes them.                                               *)
(***************************************************************************)
CONSTANTS
  Users,       \* rows of accounts.User
  Orgs,        \* rows of accounts.Organization
  Role,        \* User.role
  OrgOf,       \* User.organization, NoOrg for NULL
  Superusers,  \* the users with is_superuser set
  NoUser,      \* NULL in a foreign key to User
  NoOrg        \* NULL in a foreign key to Organization

Roles == {"dispatcher", "agent", "customer"}

\* User.clean: only a superuser may have no organization.
ASSUME AccountsAssumption ==
  /\ Role \in [Users -> Roles]
  /\ OrgOf \in [Users -> Orgs \union {NoOrg}]
  /\ Superusers \subseteq Users
  /\ \A u \in Users \ Superusers : OrgOf[u] \in Orgs
  /\ NoUser \notin Users
  /\ NoOrg \notin Orgs

\* HasRole.has_permission with allowed_roles = {"dispatcher"}: the role alone
\* decides, a superuser with another role is refused.
IsDispatcher(u) == Role[u] = "dispatcher"
=============================================================================
