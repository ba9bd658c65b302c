----------------------------- MODULE RoleHistory -----------------------------
(***************************************************************************)
(* Which users a request may modify, and which roles a user may be given:  *)
(* the handlers of ScimGroups run unchanged next to a history of what each *)
(* request is about and of the roles memberships have ever stood for.      *)
(***************************************************************************)
EXTENDS ScimGroups

VARIABLES
  touched,      \* touched[p]: the users the request of p has concerned so far
  earned        \* earned[u]: the initial role of u, and all its groups ever gave

hvars == <<vars, touched, earned>>

(* The role a user is entitled to, as README.md:45-49 puts it. *)
Granted(u) ==
  LET In(keys) == \E g \in GroupIds :
                    HasGroup(g) /\ u \in members[g] /\ RoleKey[gname[g]] \in keys
  IN IF In(AdminKeys) THEN "admin" ELSE IF In(MemberKeys) THEN "member" ELSE "viewer"

(* The users the request of a handler concerns at this moment: those it     *)
(* names; those whose membership is not what it asks for; those who are in  *)
(* the group it deletes.                                                    *)
Concerned(f) ==
  LET in == IF f.gid = "" THEN {} ELSE members[f.gid]
      wants == f.req.op = "PUT" \/ (f.req.op = "PATCH" /\ f.req.edit = "replace")
  IN CASE f.pc = "idle" -> {}
       [] f.pc # "idle" /\ wants -> (in \ f.req.members) \cup (f.req.members \ in)
       [] f.pc # "idle" /\ f.req.op = "DELETE" -> in
       [] OTHER -> f.req.members \cup f.req.remove

HInit ==
  /\ Init
  /\ touched = [p \in Procs |-> {}]
  /\ earned = [u \in UserIds |-> {role[u], Granted(u)}]

Record ==
  /\ touched' = [p \in Procs |-> IF h'[p].pc = "idle" THEN {}
                                 ELSE touched[p] \cup Concerned(h[p])]
  /\ earned' = [u \in UserIds |-> earned[u] \cup {Granted(u)'}]

HNext == Next /\ Record

HSpec == HInit /\ [][HNext]_hvars

-----------------------------------------------------------------------------
(* Users not touched by a request are never modified (README.md:24): a role *)
(* changes only while a request is served that names the user, or that      *)
(* found the user in or out of its group against what it asks for.          *)
OnlyTouchedChange ==
  [][\A u \in UserIds :
       role'[u] # role[u] => \E p \in Procs : u \in touched[p]]_hvars

(* What makes it so: a handler edits and recomputes only users its request  *)
(* concerned while it ran.                                                  *)
WorkIsTouched ==
  \A p \in Procs : h[p].pc # "idle" =>
                      h[p].add \cup h[p].rem \cup h[p].affected \subseteq touched[p]

(* No role out of thin air: the role of a user is one the user had at first *)
(* or that the groups the user was in at some one moment gave (README.md:21 *)
(* and 45-49), however requests interleave and fail.                        *)
RoleEarned == \A u \in UserIds : role[u] \in earned[u]

TargetEarned ==
  \A p \in Procs : h[p].uid # "" => h[p].target \in earned[h[p].uid]

(* Only a PATCH that replaces the members is reconciled. *)
ReconcileReplaces ==
  \A p \in Procs :
    h[p].pc = "reconcile" => h[p].req.op = "PUT" \/ h[p].req.edit = "replace"

HistoryInv ==
  HandlerInv /\ WorkIsTouched /\ RoleEarned /\ TargetEarned /\ ReconcileReplaces
=============================================================================
