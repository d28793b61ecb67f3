------------------------------- MODULE Domain -------------------------------
(* The vocabulary of the modules in which users have rights: the workflow of *)
(* a task and the users with the role their access token carries.            *)
EXTENDS Workflow

Roles == {"ADMIN", "PM", "DEVELOPER"}

CONSTANTS
    Users,      \* the rows of the User table; no endpoint adds or edits one
    RoleOf,     \* User.role
    NoUser      \* the null of assignedToId

ASSUME DomainAssumption ==
    /\ RoleOf \in [Users -> Roles]
    /\ NoUser \notin Users
=============================================================================
