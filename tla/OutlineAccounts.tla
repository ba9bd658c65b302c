--------------------------- MODULE OutlineAccounts ---------------------------
(***************************************************************************)
(* The accounts of the Outline instance as the /Users handlers see them:   *)
(* addresses, display names and the account life cycle.  As in OutlineTeam *)
(* every operator is the effect of one call that Outline carries out, as   *)
(* the in-memory client of internal/scim/fake_test.go records it.          *)
(***************************************************************************)
CONSTANTS
  UserIds,    \* Outline user UUIDs, each used for at most one account
  Emails,     \* login addresses, one per class of strings.EqualFold
  Names       \* display names

VARIABLES
  ustate,     \* ustate[u]: the account's life cycle
  email,      \* email[u]: its address, "" while there is no account
  name        \* name[u]: its display name

accountVars == <<ustate, email, name>>

AccountsTypeOK ==
  /\ ustate \in [UserIds -> {"absent", "active", "suspended", "deleted"}]
  /\ email \in [UserIds -> Emails \cup {""}]
  /\ name \in [UserIds -> Names \cup {""}]

HasUser(u) == ustate[u] \in {"active", "suspended"}

FreshIds == {u \in UserIds : ustate[u] = "absent"}

WithEmail(e) == {u \in UserIds : HasUser(u) /\ email[u] = e}

\* What the reply to a call tells about the account, as the call leaves it.
Reported(u) == [name |-> name'[u], suspended |-> ustate'[u] = "suspended"]

InviteUser(u, e, n) ==
  /\ ustate[u] = "absent"
  /\ ustate' = [ustate EXCEPT ![u] = "active"]
  /\ email' = [email EXCEPT ![u] = e]
  /\ name' = [name EXCEPT ![u] = n]

UpdateUserName(u, n) ==
  /\ name' = [name EXCEPT ![u] = n]
  /\ UNCHANGED <<ustate, email>>

SetState(u, s) ==
  /\ ustate' = [ustate EXCEPT ![u] = s]
  /\ UNCHANGED <<email, name>>

SuspendUser(u) == SetState(u, "suspended")

ActivateUser(u) == SetState(u, "active")

DeleteUser(u) == SetState(u, "deleted")
=============================================================================
