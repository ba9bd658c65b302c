---------------------------- MODULE MCScimGroups ----------------------------
(***************************************************************************)
(* Small instances of ScimGroups: two users, two groups, and a role map    *)
(* with one admin and one member group.  "admins" and "ADMINS" are one     *)
(* name to strings.EqualFold and to the role map.                          *)
(***************************************************************************)
EXTENDS ScimGroups

MCGroupNames == {"Admins", "ADMINS", "Staff"}
MCKey == [n \in MCGroupNames |-> IF n = "Staff" THEN "staff" ELSE "admins"]
MCAdminKeys == {"admins"}
MCMemberKeys == {"staff"}

Viewer == {[state |-> "active", role |-> "viewer"]}
ViewerOrSuspended == Viewer \cup {[state |-> "suspended", role |-> "viewer"]}

Req(op, g, n, x, ms, ops) ==
  [op |-> op, gid |-> g, name |-> n, ext |-> x, edit |-> "delta",
   members |-> ms, remove |-> {}, ops |-> ops]

Post(n, x, ms) == Req("POST", "", n, x, ms, <<>>)
Put(g, n, x, ms) == Req("PUT", g, n, x, ms, <<>>)
Patch(g, ops) == Req("PATCH", g, "", "", {}, ops)
Delete(g) == Req("DELETE", g, "", "", {}, <<>>)

Members(op, ids) == [op |-> op, path |-> "members", ids |-> ids, name |-> {}, ext |-> {}]
Name(n) == [op |-> "replace", path |-> "", ids |-> {}, name |-> {n}, ext |-> {}]

Clear == Members("remove", {})
Bad == Members("other", {})

\* Every kind of operation, alone and before or after another.
OpLists ==
  { <<Members("add", {"u1"}), Members("remove", {"u2"})>>,
    <<Members("add", {"u1", "u2"}), Members("remove", {"u1"})>>,
    <<Members("remove", {"u1"}), Members("add", {"u1"})>>,
    <<Members("add", {"u1"}), Members("replace", {"u1", "u2"}), Members("replace", {"u2"})>>,
    <<Members("replace", {"u1"}), Members("add", {"u2"})>>,
    <<Members("add", {"u1"}), Clear>>,
    <<Name("Admins"), Bad, Name("Staff")>> }

\* Every handler and every way to edit members, one request at a time.
SerialRequests ==
  {Post("Admins", "", {"u1"}), Post("ADMINS", "x1", {"u2"}), Post("Staff", "", {})}
  \cup {Put(g, "", "", ms) : g \in GroupIds, ms \in SUBSET UserIds}
  \cup {Put(g, "Staff", "x1", {"u1"}) : g \in GroupIds}
  \cup {Patch(g, ops) : g \in GroupIds, ops \in OpLists}
  \cup {Delete(g) : g \in GroupIds}

\* Groups are created empty: whoever is a member was made one by a PUT.
PutsOnly ==
  {Post("Admins", "", {}), Post("Staff", "", {})}
  \cup {Put(g, "", "", ms) : g \in GroupIds, ms \in {{}, {"u1"}}}

\* One request of every kind, around one group.
LiveRequests ==
  {Post("Admins", "", {"u1"}), Put("g1", "Staff", "", {}),
   Patch("g1", <<Members("add", {"u1"})>>), Delete("g1")}

\* Two handlers at once, no DELETE: an admin group and a member group.
RacingRequests ==
  {Post("Admins", "", {"u1"}), Post("Staff", "", {"u1"})}
  \cup {Put(g, "", "", {"u1"}) : g \in GroupIds}
  \cup {Patch(g, <<Members("remove", {"u1"})>>) : g \in GroupIds}
=============================================================================
