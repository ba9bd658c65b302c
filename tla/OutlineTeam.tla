----------------------------- MODULE OutlineTeam -----------------------------
(***************************************************************************)
(* The Outline instance the adapter drives, as far as the adapter can see  *)
(* it: accounts, groups and the membership edges between them, with one    *)
(* operator per API method.  Outline itself is not part of this            *)
(* repository.  What a method does is taken from the in-memory client of   *)
(* internal/scim/fake_test.go, which records the behaviour the adapter was *)
(* written against.  Each operator here is the effect of one call that     *)
(* Outline carries out; refused calls and lost replies are added by the    *)
(* modules that make the calls.                                            *)
(***************************************************************************)
EXTENDS RoleMap

CONSTANTS
  UserIds,      \* Outline user UUIDs
  GroupIds,     \* Outline group UUIDs, each used for at most one group
  GroupExts     \* the externalIds clients give to groups

(* "" is the name, the externalId and the id of nothing. *)
ASSUME NoNameAssumption ==
  "" \notin GroupNames \cup GroupExts \cup UserIds \cup GroupIds

VARIABLES
  ustate,       \* ustate[u]: the account's life cycle
  role,         \* role[u]: the account's team role
  gstate,       \* gstate[g]: the group's life cycle
  gname,        \* gname[g]: display name
  gext,         \* gext[g]: externalId, "" when it has none
  members       \* members[g]: the users that belong to g

teamVars == <<ustate, role, gstate, gname, gext, members>>
accountVars == <<ustate, role>>
groupVars == <<gstate, gname, gext, members>>

UserStates == {"absent", "active", "suspended", "deleted"}
GroupStates == {"absent", "live", "deleted"}

TeamTypeOK ==
  /\ ustate \in [UserIds -> UserStates]
  /\ role \in [UserIds -> Roles]
  /\ gstate \in [GroupIds -> GroupStates]
  /\ gname \in [GroupIds -> GroupNames \cup {""}]
  /\ gext \in [GroupIds -> GroupExts \cup {""}]
  /\ members \in [GroupIds -> SUBSET UserIds]

HasUser(u) == ustate[u] \in {"active", "suspended"}
HasGroup(g) == gstate[g] = "live"

-----------------------------------------------------------------------------
(* Reads *)

\* A mutant of UserGroups: the userId filter of groups.list is forgotten.
UserGroupsUnfiltered(u) == {g \in GroupIds : HasGroup(g)}

UserGroups(u) == {g \in GroupIds : HasGroup(g) /\ u \in members[g]}

(* The role the groups a user belongs to right now give that user. *)
RoleByMembership(u) == DeriveRole({gname[g] : g \in UserGroups(u)})

-----------------------------------------------------------------------------
(* Calls that change the team *)

CreateGroup(g, name, ext) ==
  /\ gstate[g] = "absent"
  /\ gstate' = [gstate EXCEPT ![g] = "live"]
  /\ gname' = [gname EXCEPT ![g] = name]
  /\ gext' = [gext EXCEPT ![g] = ext]
  /\ members' = [members EXCEPT ![g] = {}]
  /\ UNCHANGED accountVars

(* Empty fields are left out of the request and so keep their value. *)
UpdateGroup(g, name, ext) ==
  /\ gname' = [gname EXCEPT ![g] = IF name = "" THEN @ ELSE name]
  /\ gext' = [gext EXCEPT ![g] = IF ext = "" THEN @ ELSE ext]
  /\ UNCHANGED <<gstate, members, accountVars>>

DeleteGroup(g) ==
  /\ gstate' = [gstate EXCEPT ![g] = "deleted"]
  /\ gname' = [gname EXCEPT ![g] = ""]
  /\ gext' = [gext EXCEPT ![g] = ""]
  /\ members' = [members EXCEPT ![g] = {}]
  /\ UNCHANGED accountVars

AddUserToGroup(g, u) ==
  /\ members' = [members EXCEPT ![g] = @ \cup {u}]
  /\ UNCHANGED <<gstate, gname, gext, accountVars>>

RemoveUserFromGroup(g, u) ==
  /\ members' = [members EXCEPT ![g] = @ \ {u}]
  /\ UNCHANGED <<gstate, gname, gext, accountVars>>

UpdateUserRole(u, r) ==
  /\ role' = [role EXCEPT ![u] = r]
  /\ UNCHANGED <<ustate, groupVars>>

SuspendUser(u) ==
  /\ ustate' = [ustate EXCEPT ![u] = "suspended"]
  /\ UNCHANGED <<role, groupVars>>

ActivateUser(u) ==
  /\ ustate' = [ustate EXCEPT ![u] = "active"]
  /\ UNCHANGED <<role, groupVars>>

DeleteUser(u) ==
  /\ ustate' = [ustate EXCEPT ![u] = "deleted"]
  /\ members' = [g \in GroupIds |-> members[g] \ {u}]
  /\ UNCHANGED <<role, gstate, gname, gext>>
=============================================================================
