---------------------------- MODULE MCUserHistory ----------------------------
(***************************************************************************)
(* A small instance of UserHistory: two handlers at once, with requests    *)
(* that contradict each other.                                             *)
(***************************************************************************)
EXTENDS UserHistory, MCScimUsers, TLC

\* Two handlers are interchangeable, and the properties are safety properties.
Symmetry == Permutations(Procs)

\* They claim and drop one externalId, and rename, suspend and activate one account.
Claims ==
  {Post(e, "n1", "", "x1") : e \in Emails}
  \cup {PutUser("u1", "n2", "yes", "x1"),
        Patch("u1", <<Assign("replace", {"n1"}, {"no"}, {})>>)}
  \cup {Delete("u1"), Find("x1")}
=============================================================================
