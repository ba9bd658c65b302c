------------------------------- MODULE RoleMap -------------------------------
(***************************************************************************)
(* The role map of internal/scim/roles.go: which Outline team role the     *)
(* groups a user belongs to give that user.  Group display names are       *)
(* opaque; RoleKey[n] is the name as the role map compares it, in lower    *)
(* case and without surrounding blanks.                                    *)
(***************************************************************************)
CONSTANTS
  GroupNames,   \* the group display names in play
  RoleKey,      \* RoleKey[n]: ToLower(TrimSpace(n))
  AdminKeys,    \* ROLE_MAP_ADMIN, as keys
  MemberKeys    \* ROLE_MAP_MEMBER, as keys

Roles == {"admin", "member", "viewer"}

ContainsAny(set, names) == set \cap names # {}

DeriveRole(names) ==
  LET held == {RoleKey[n] : n \in names}
  IN CASE ContainsAny(held, AdminKeys)  -> "admin"
       [] ~ ContainsAny(held, AdminKeys) /\ ContainsAny(held, MemberKeys) -> "member"
       [] OTHER -> "viewer"
=============================================================================
