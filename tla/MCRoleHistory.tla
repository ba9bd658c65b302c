---------------------------- MODULE MCRoleHistory ----------------------------
(***************************************************************************)
(* A small instance of RoleHistory: two handlers and two users who stand   *)
(* differently to the requests.                                            *)
(***************************************************************************)
EXTENDS RoleHistory, MCScimGroups

\* u1 is named, u2 comes and goes as a member.
TouchRequests ==
  {Post("Admins", "", {"u1"}), Put("g1", "", "", {"u1", "u2"}),
   Patch("g1", <<Name("Staff"), Members("replace", {"u1"})>>),
   Patch("g1", <<Members("add", {"u2"}), Members("remove", {"u1"})>>), Delete("g1")}
=============================================================================
