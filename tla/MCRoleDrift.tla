----------------------------- MODULE MCRoleDrift -----------------------------
(***************************************************************************)
(* Small instances of RoleDrift: one user whose groups two handlers edit.  *)
(***************************************************************************)
EXTENDS RoleDrift, MCScimGroups

\* Joining, leaving, renaming and deleting groups that give different roles:
\* once g1 is renamed, a POST creates g2.
DriftRequests ==
  {Post("Admins", "", {"u1"}), Put("g1", "Staff", "", {"u1"}),
   Patch("g1", <<Members("remove", {"u1"})>>), Delete("g2")}
=============================================================================
