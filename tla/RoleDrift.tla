------------------------------ MODULE RoleDrift ------------------------------
(***************************************************************************)
(* How far the team roles may drift from the group memberships.  The       *)
(* handlers of ScimGroups run unchanged next to a history of the users     *)
(* whose role something has put out of step, as an observer of the calls   *)
(* and answers sees it.  RoleAccounted says that nothing else ever does.   *)
(***************************************************************************)
EXTENDS ScimGroups

VARIABLES
  owed,     \* the users whose role may be wrong, and who are not ahead
  listed    \* listed[p]: who was in the group p deletes, when p asked

dvars == <<vars, owed, listed>>

RoleIsRight(u) == role[u] = RoleByMembership(u)

DInit ==
  /\ Init
  /\ owed = {u \in UserIds : ~ RoleIsRight(u)}
  /\ listed = [p \in Procs |-> {}]

-----------------------------------------------------------------------------
(* What puts a role out of step *)

EdgesChange(u) == \E g \in GroupIds : (u \in members[g]) # (u \in members'[g])

Fails(p) == Ends(p) /\ status'[p] # "ok"

(* A request failed, or the process ended, after the request had changed    *)
(* the user's groups, or in the very call that changed them (its reply was  *)
(* lost).                                                                   *)
Abandoned(u) == \E p \in Procs : Fails(p) /\ (u \in h[p].affected \/ EdgesChange(u))

(* The user's groups changed after a handler had read them to derive the    *)
(* role and before it was done with the user.                               *)
Overtaken(u) ==
  RoleByMembership(u)' # RoleByMembership(u) /\ \E p \in Procs : h[p].uid = u

(* The user joined a group after the handler that deletes it had listed     *)
(* who is in it.                                                            *)
Uncaptured(u) ==
  \E p \in Procs : /\ h[p].pc = "delete"
                   /\ HasGroup(h[p].gid) /\ gstate'[h[p].gid] = "deleted"
                   /\ u \in members[h[p].gid] \ listed[p]

(* One of the user's groups was renamed: no role is recomputed for that.    *)
Renamed(u) == \E g \in UserGroups(u) : gname'[g] \notin {gname[g], ""}

(* The account was suspended, and handlers passed it over.                  *)
Reactivated(u) == ustate[u] = "suspended" /\ ustate'[u] = "active"

Disturbed(u) ==
  \/ Abandoned(u)
  \/ Overtaken(u)
  \/ Uncaptured(u)
  \/ Renamed(u)
  \/ Reactivated(u)

(* A handler was done with the user, having seen the groups as they are     *)
(* now, and no other handler is about to write an older result.             *)
Settled(u) ==
  /\ ustate[u] = "active"
  /\ \E p \in Procs : h[p].uid = u /\ h'[p].pc = "work"
  /\ \A p \in Procs : h[p].uid = u => h[p].target = RoleByMembership(u)

Observe ==
  /\ owed' = {u \in UserIds : Disturbed(u) \/ (u \in owed /\ ~ Settled(u))}
  /\ listed' = [p \in Procs |-> IF h'[p].pc # "delete" THEN {}
                                ELSE IF h[p].pc = "capture" THEN members[h[p].gid]
                                ELSE listed[p]]

DNext == Next /\ Observe

DSpec == DInit /\ [][DNext]_dvars

-----------------------------------------------------------------------------
(* Any number of handlers at once, any failures: an active account whose    *)
(* role is not the one its groups give it still has its recomputation       *)
(* ahead of it, or one of the five disturbances above has happened to it    *)
(* since it was last settled.  (README.md:21-23, server.go:127-159)         *)
RoleAccounted ==
  \A u \in UserIds :
    ustate[u] = "active" =>
      \/ RoleIsRight(u)
      \/ \E p \in Procs : u \in h[p].affected
      \/ u \in owed

(* What makes RoleAccounted inductive: a handler that has derived a role    *)
(* for a user who is owed nothing derived the right one.                    *)
TargetsCurrent ==
  \A p \in Procs, u \in UserIds :
    h[p].uid = u /\ u \notin owed => h[p].target = RoleByMembership(u)

(* A handler that deletes a group will recompute everybody it listed. *)
ListedKept == \A p \in Procs : listed[p] \subseteq h[p].affected

DriftInv == HandlerInv /\ TargetsCurrent /\ ListedKept /\ RoleAccounted
=============================================================================
