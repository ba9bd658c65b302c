----------------------------- MODULE MCScimUsers -----------------------------
(***************************************************************************)
(* Small instances of ScimUsers: two accounts and two externalIds that     *)
(* clients give to either.                                                 *)
(***************************************************************************)
EXTENDS ScimUsers

Req(op, u, e, n, a, x, ops) ==
  [op |-> op, uid |-> u, email |-> e, name |-> n, active |-> a, ext |-> x, ops |-> ops]

Post(e, n, a, x) == Req("POST", "", e, n, a, x, <<>>)
PutUser(u, n, a, x) == Req("PUT", u, "", n, a, x, <<>>)
Patch(u, ops) == Req("PATCH", u, "", "", "", "", ops)
Delete(u) == Req("DELETE", u, "", "", "", "", <<>>)
Find(x) == Req("FIND", "", "", "", "", x, <<>>)

Assign(op, n, a, x) == [op |-> op, name |-> n, active |-> a, ext |-> x]

\* One attribute after another, and one given twice; a path-less operation with
\* two keys for the name; one that is refused, after one that is not.
OpLists ==
  { <<Assign("replace", {}, {}, {"x2"})>>,
    <<Assign("add", {}, {"yes"}, {}), Assign("remove", {}, {"no"}, {})>>,
    <<Assign("replace", {}, {"yes"}, {"x1"}), Assign("replace", {}, {"no"}, {})>>,
    <<Assign("replace", {"n1", "n2"}, {}, {})>>,
    <<Assign("replace", {}, {"no"}, {}), Assign("other", {}, {}, {})>> }

\* Every handler and every branch, one request at a time.
OneByOne ==
  {Post(e, "n1", "", x) : e \in Emails, x \in Exts}
  \cup {Post("e1", "n2", "no", "")}
  \cup {PutUser(u, "n1", a, "x1") : u \in UserIds, a \in {"yes", "no"}}
  \cup {Patch(u, ops) : u \in UserIds, ops \in OpLists}
  \cup {Delete(u) : u \in UserIds}
  \cup {Find(x) : x \in Exts}

\* A PUT that was sent before a hard delete and ends after it.
PutAndDelete ==
  {Post("e1", "n1", "", ""), PutUser("u1", "", "yes", "x1"), Delete("u1")}
=============================================================================
