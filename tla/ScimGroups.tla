------------------------------ MODULE ScimGroups ------------------------------
(***************************************************************************)
(* The /Groups handlers of internal/scim/groups.go and the role            *)
(* recomputation of internal/scim/server.go.  A handler is a goroutine     *)
(* that makes Outline calls one after another; every call is one step, so  *)
(* requests that are served at the same time interleave between any two    *)
(* calls.  GET handlers change nothing and are left out.                   *)
(***************************************************************************)
EXTENDS OutlineTeam, ScimPatch, FiniteSets

CONSTANTS
  FoldKey,          \* FoldKey[n]: the class of n under strings.EqualFold
  Procs,            \* requests served at the same time
  Requests,         \* the requests clients may send
  Faults,           \* what may go wrong: subset of {"refused", "lost", "exit"}
  AccountEvents,    \* what else happens to accounts: subset of AccountEventTypes
  InitialAccounts   \* the accounts the team may hold at first

AccountEventTypes == {"suspend", "activate", "delete"}

GroupOp ==
  [op : OpNames, path : Paths, ids : SUBSET UserIds,
   name : SUBSET GroupNames, ext : SUBSET GroupExts]

RequestType ==
  [op : {"POST", "PUT", "PATCH", "DELETE"},
   gid : GroupIds \cup {""},
   name : GroupNames \cup {""},
   ext : GroupExts \cup {""},
   edit : {"delta", "replace", "invalid"},
   members : SUBSET UserIds,
   remove : SUBSET UserIds,
   ops : Seq(GroupOp)]

ASSUME RequestsAssumption ==
  /\ Requests \subseteq RequestType
  /\ \A r \in Requests : IF r.op = "POST" THEN r.name # "" ELSE r.gid \in GroupIds

(* A PATCH comes as operations, and is worked on as what they reduce to.    *)
Reduced(r, n, x) ==
  [r EXCEPT !.name = n, !.ext = x, !.edit = Edit(r.ops),
            !.members = MembersWanted(r.ops), !.remove = Listed(r.ops, "remove")]

Reductions(r) == {Reduced(r, n, x) : n \in NamesGiven(r.ops), x \in ExtsGiven(r.ops)}

Decoded(r) == IF r.op = "PATCH" THEN Reductions(r) ELSE {r}

Received == UNION {Decoded(r) : r \in Requests}

ASSUME AccountsAssumption ==
  InitialAccounts \subseteq [state : {"active", "suspended", "absent"}, role : Roles]

VARIABLES
  h,        \* h[p]: the locals of the handler running in p
  status    \* status[p]: the last answer p gave

vars == <<teamVars, h, status>>

Steps == {"idle", "find", "create", "get", "update", "parse", "reconcile",
          "capture", "delete", "work", "getUser", "setRole"}

NoRequest == [op |-> "", gid |-> "", name |-> "", ext |-> "", edit |-> "delta",
              members |-> {}, remove |-> {}, ops |-> <<>>]

Idle == [pc |-> "idle", req |-> NoRequest, gid |-> "", name |-> "", ext |-> "",
         add |-> {}, rem |-> {}, affected |-> {}, uid |-> "", target |-> "viewer"]

Frame ==
  [pc : Steps, req : Received \cup {NoRequest}, gid : GroupIds \cup {""},
   name : GroupNames \cup {""}, ext : GroupExts \cup {""},
   add : SUBSET UserIds, rem : SUBSET UserIds, affected : SUBSET UserIds,
   uid : UserIds \cup {""}, target : Roles]

Answers == {"none", "ok", "badRequest", "notFound", "upstream"}

(* Every local of a handler, every account and every group has its type. *)
TypeOK ==
  /\ TeamTypeOK
  /\ h \in [Procs -> Frame]
  /\ status \in [Procs -> Answers]

Init ==
  /\ \E account \in [UserIds -> InitialAccounts] :
       /\ ustate = [u \in UserIds |-> account[u].state]
       /\ role = [u \in UserIds |-> account[u].role]
  /\ gstate = [g \in GroupIds |-> "absent"]
  /\ gname = [g \in GroupIds |-> ""]
  /\ gext = [g \in GroupIds |-> ""]
  /\ members = [g \in GroupIds |-> {}]
  /\ h = [p \in Procs |-> Idle]
  /\ status = [p \in Procs |-> "none"]

-----------------------------------------------------------------------------
(* Answers and calls *)

Answer(p, s) ==
  /\ h' = [h EXCEPT ![p] = Idle]
  /\ status' = [status EXCEPT ![p] = s]

(* The handler of p goes on with the locals f. *)
Continue(p, f) ==
  /\ h' = [h EXCEPT ![p] = f]
  /\ UNCHANGED status

(* A call that asks Outline for effect, which needs what found states.      *)
(* It succeeds; or Outline does not know the resource; or the call is       *)
(* refused or never arrives; or it is carried out and its reply is lost     *)
(* (time-out, broken connection, undecodable body).  Every failure ends     *)
(* the handler, which answers 404 or 502.                                   *)
Call(p, found, effect, after) ==
  \/ found /\ effect /\ after
  \/ ~ found /\ UNCHANGED teamVars /\ Answer(p, "notFound")
  \/ "refused" \in Faults /\ UNCHANGED teamVars /\ Answer(p, "upstream")
  \/ "lost" \in Faults /\ found /\ effect /\ Answer(p, "upstream")

Read(p, found, after) == Call(p, found, UNCHANGED teamVars, after)

-----------------------------------------------------------------------------
(* Arrival *)

FirstStep(op) ==
  CASE op = "POST" -> "find"
    [] op \in {"PUT", "PATCH"} -> "get"
    [] op = "DELETE" -> "capture"

FreshIds == {g \in GroupIds : gstate[g] = "absent"}

(* GroupIds bounds the groups ever created: a POST is served only while an  *)
(* unused id is left for it.                                                *)
IdLeft ==
  Cardinality({p \in Procs : h[p].req.op = "POST"}) < Cardinality(FreshIds)

Receive(p, r) ==
  /\ h[p].pc = "idle"
  /\ r.op = "POST" => IdLeft
  /\ Continue(p, [Idle EXCEPT !.pc = FirstStep(r.op), !.req = r, !.gid = r.gid])
  /\ UNCHANGED teamVars

-----------------------------------------------------------------------------
(* POST /Groups: adopt or create *)

EqualFold(a, b) == FoldKey[a] = FoldKey[b]

GroupsNamed(name) == {g \in GroupIds : HasGroup(g) /\ EqualFold(gname[g], name)}

\* A mutant of FindGroup: no adoption, every POST creates.
FindGroupNeverAdopts(p) ==
  /\ h[p].pc = "find"
  /\ Read(p, TRUE,
          Continue(p, [h[p] EXCEPT !.pc = "create", !.add = h[p].req.members]))

\* A mutant of FindGroup: an adopted group keeps its own externalId.
FindGroupKeepsExt(p) ==
  LET r == h[p].req
  IN /\ h[p].pc = "find"
     /\ Read(p, TRUE,
             \/ \E g \in GroupsNamed(r.name) :
                  Continue(p, [h[p] EXCEPT !.gid = g, !.add = r.members, !.pc = "work"])
             \/ /\ GroupsNamed(r.name) = {}
                /\ Continue(p, [h[p] EXCEPT !.add = r.members, !.pc = "create"]))

FindGroup(p) ==
  LET r == h[p].req
      adopt(g) == [h[p] EXCEPT !.gid = g, !.add = r.members, !.ext = r.ext,
                     !.pc = IF r.ext \notin {"", gext[g]} THEN "update" ELSE "work"]
      create == [h[p] EXCEPT !.add = r.members, !.pc = "create"]
  IN /\ h[p].pc = "find"
     /\ Read(p, TRUE,
             \/ \E g \in GroupsNamed(r.name) : Continue(p, adopt(g))
             \/ GroupsNamed(r.name) = {} /\ Continue(p, create))

CreateNew(p) ==
  /\ h[p].pc = "create"
  /\ \E g \in FreshIds :
       Call(p, TRUE, CreateGroup(g, h[p].req.name, h[p].req.ext),
            Continue(p, [h[p] EXCEPT !.pc = "work", !.gid = g]))

-----------------------------------------------------------------------------
(* PUT and PATCH /Groups/{id}: attributes first, then members *)

\* "" stands for "leave it": the value is absent or the group already has it.
Changed(new, cur) == IF new = cur THEN "" ELSE new

GetGroup(p) ==
  LET f == h[p]
      r == f.req
      differs == \/ Changed(r.name, gname[f.gid]) # ""
                 \/ Changed(r.ext, gext[f.gid]) # ""
      next == IF r.op = "PUT" THEN "reconcile" ELSE "parse"
      name == IF r.op = "PUT" THEN Changed(r.name, gname[f.gid]) ELSE r.name
      ext == IF r.op = "PUT" THEN Changed(r.ext, gext[f.gid]) ELSE r.ext
  IN /\ f.pc = "get"
     /\ Read(p, HasGroup(f.gid),
             Continue(p, [f EXCEPT !.pc = IF differs THEN "update" ELSE next,
                                   !.name = name, !.ext = ext]))

\* A mutant of AfterUpdate: a PUT is taken for a PATCH.
AfterUpdateParses(op) == IF op = "POST" THEN "work" ELSE "parse"

AfterUpdate(op) ==
  CASE op = "POST" -> "work"
    [] op = "PUT" -> "reconcile"
    [] op = "PATCH" -> "parse"

UpdateAttributes(p) ==
  /\ h[p].pc = "update"
  /\ Call(p, HasGroup(h[p].gid), UpdateGroup(h[p].gid, h[p].name, h[p].ext),
          Continue(p, [h[p] EXCEPT !.pc = AfterUpdate(h[p].req.op)]))

(* applyGroupMemberPatch: the member operations are looked at only now,     *)
(* after the attributes have been written.                                  *)
ParseMembers(p) ==
  /\ h[p].pc = "parse"
  /\ UNCHANGED teamVars
  /\ LET r == h[p].req
     IN \/ r.edit = "invalid" /\ Answer(p, "badRequest")
        \/ r.edit = "replace" /\ Continue(p, [h[p] EXCEPT !.pc = "reconcile"])
        \/ r.edit = "delta" /\ Continue(p, [h[p] EXCEPT !.pc = "work",
                                              !.add = r.members, !.rem = r.remove])

-----------------------------------------------------------------------------
(* Membership edits *)

\* A mutant of Surplus: members that are no longer wanted stay.
NoSurplus(cur, want) == {}

\* A mutant of Missing: those who are members already are added again.
MissingAll(cur, want) == want

Missing(cur, want) == want \ cur
Surplus(cur, want) == cur \ want

Reconcile(p) ==
  LET cur == members[h[p].gid]
      want == h[p].req.members
  IN /\ h[p].pc = "reconcile"
     /\ Read(p, HasGroup(h[p].gid),
             Continue(p, [h[p] EXCEPT !.pc = "work", !.add = Missing(cur, want),
                                      !.rem = Surplus(cur, want)]))

(* Go visits the entries of a map, and a client lists members, in any       *)
(* order.  Outline may answer 404 for an account it does not have.          *)
AddMember(p) ==
  /\ h[p].pc = "work"
  /\ \E u \in h[p].add :
       \/ Call(p, HasGroup(h[p].gid), AddUserToGroup(h[p].gid, u),
               Continue(p, [h[p] EXCEPT !.add = @ \ {u}, !.affected = @ \cup {u}]))
       \/ ~ HasUser(u) /\ UNCHANGED teamVars /\ Answer(p, "notFound")

\* A mutant of RemoveMember: the removed user is not recorded as affected.
RemoveMemberUnrecorded(p) ==
  /\ h[p].pc = "work" /\ h[p].add = {}
  /\ \E u \in h[p].rem :
       Call(p, HasGroup(h[p].gid), RemoveUserFromGroup(h[p].gid, u),
            Continue(p, [h[p] EXCEPT !.rem = @ \ {u}]))

RemoveMember(p) ==
  /\ h[p].pc = "work" /\ h[p].add = {}
  /\ \E u \in h[p].rem :
       Call(p, HasGroup(h[p].gid), RemoveUserFromGroup(h[p].gid, u),
            Continue(p, [h[p] EXCEPT !.rem = @ \ {u}, !.affected = @ \cup {u}]))

-----------------------------------------------------------------------------
(* DELETE /Groups/{id} *)

\* A mutant of Capture: the group is deleted without noting who was in it.
CaptureNothing(p) ==
  /\ h[p].pc = "capture"
  /\ Read(p, HasGroup(h[p].gid), Continue(p, [h[p] EXCEPT !.pc = "delete"]))

Capture(p) ==
  /\ h[p].pc = "capture"
  /\ Read(p, HasGroup(h[p].gid),
          Continue(p, [h[p] EXCEPT !.pc = "delete", !.affected = members[h[p].gid]]))

DeleteCaptured(p) ==
  /\ h[p].pc = "delete"
  /\ Call(p, HasGroup(h[p].gid), DeleteGroup(h[p].gid),
          Continue(p, [h[p] EXCEPT !.pc = "work"]))

-----------------------------------------------------------------------------
(* recomputeRole: three calls for one user, nothing held between them *)

EditsDone(f) == f.pc = "work" /\ f.add = {} /\ f.rem = {}

\* A mutant of FetchGroups: only one of the user's groups is looked at.
FetchGroupsOnePage(p) ==
  /\ EditsDone(h[p])
  /\ \E u \in h[p].affected, g \in GroupIds :
       Read(p, TRUE,
            Continue(p, [h[p] EXCEPT !.pc = "getUser", !.uid = u,
                                     !.target = DeriveRole({gname[k] : k \in UserGroups(u) \cap {g}})]))

FetchGroups(p) ==
  /\ EditsDone(h[p])
  /\ \E u \in h[p].affected :
       Read(p, TRUE,
            Continue(p, [h[p] EXCEPT !.pc = "getUser", !.uid = u,
                                     !.target = RoleByMembership(u)]))

(* The locals of p once the user at hand needs nothing more. *)
UserDone(f) == [f EXCEPT !.pc = "work", !.affected = @ \ {f.uid},
                         !.uid = "", !.target = "viewer"]

\* A mutant of GetUser: a user who needs no update is looked at again.
GetUserAgain(p) ==
  /\ h[p].pc = "getUser"
  /\ Read(p, HasUser(h[p].uid),
          IF ustate[h[p].uid] = "suspended" \/ role[h[p].uid] = h[p].target
          THEN Continue(p, [UserDone(h[p]) EXCEPT !.affected = h[p].affected])
          ELSE Continue(p, [h[p] EXCEPT !.pc = "setRole"]))

GetUser(p) ==
  /\ h[p].pc = "getUser"
  /\ Read(p, HasUser(h[p].uid),
          IF ustate[h[p].uid] = "suspended" \/ role[h[p].uid] = h[p].target
          THEN Continue(p, UserDone(h[p]))
          ELSE Continue(p, [h[p] EXCEPT !.pc = "setRole"]))

(* Outline refuses to change the role of a suspended account. *)
SetRole(p) ==
  /\ h[p].pc = "setRole"
  /\ \/ /\ ustate[h[p].uid] # "suspended"
        /\ Call(p, HasUser(h[p].uid), UpdateUserRole(h[p].uid, h[p].target),
                Continue(p, UserDone(h[p])))
     \/ /\ ustate[h[p].uid] = "suspended"
        /\ UNCHANGED teamVars
        /\ Answer(p, "upstream")

(* Every answer but the empty one to DELETE carries the members it reads. *)
Finish(p) ==
  /\ EditsDone(h[p]) /\ h[p].affected = {}
  /\ \/ h[p].req.op = "DELETE" /\ UNCHANGED teamVars /\ Answer(p, "ok")
     \/ h[p].req.op # "DELETE" /\ Read(p, HasGroup(h[p].gid), Answer(p, "ok"))

-----------------------------------------------------------------------------
(* Everything else that happens to accounts: the /Users handlers, and       *)
(* administrators at work in Outline.                                       *)
AccountEvent ==
  /\ UNCHANGED <<h, status>>
  /\ \E u \in UserIds :
       \/ "suspend" \in AccountEvents /\ ustate[u] = "active" /\ SuspendUser(u)
       \/ "activate" \in AccountEvents /\ ustate[u] = "suspended" /\ ActivateUser(u)
       \/ "delete" \in AccountEvents /\ HasUser(u) /\ DeleteUser(u)

(* The process ends between two calls of its handlers: it is killed, or it  *)
(* is told to stop and a handler needs longer than the 10 s that Shutdown   *)
(* waits for it.  Nothing but Outline's own state is left to the next one.  *)
Exit ==
  /\ "exit" \in Faults
  /\ h' = [p \in Procs |-> Idle]
  /\ status' = [p \in Procs |-> "none"]
  /\ UNCHANGED teamVars

Step(p) ==
  \/ FindGroup(p)      \/ CreateNew(p)
  \/ GetGroup(p)       \/ UpdateAttributes(p)  \/ ParseMembers(p)
  \/ Reconcile(p)      \/ AddMember(p)         \/ RemoveMember(p)
  \/ Capture(p)        \/ DeleteCaptured(p)
  \/ FetchGroups(p)    \/ GetUser(p)           \/ SetRole(p)
  \/ Finish(p)

Next ==
  \/ \E p \in Procs : Step(p)
  \/ \E p \in Procs, r \in Received : Receive(p, r)
  \/ AccountEvent
  \/ Exit

(* Every call returns: the HTTP client gives up after 30 s, and a call that *)
(* is rate-limited is sent at most twice more (client.go:20-23 and 64), so  *)
(* a handler that has started keeps taking steps.                           *)
Fairness == \A p \in Procs : WF_vars(Step(p))

Spec == Init /\ [][Next]_vars
FairSpec == Spec /\ Fairness

-----------------------------------------------------------------------------
(* Properties *)

\* Requests are served one at a time.
Serial == \A p, q \in Procs : p = q

Ends(p) == h[p].pc # "idle" /\ h'[p].pc = "idle"
Succeeds(p) == Ends(p) /\ status'[p] = "ok"

RecomputeSteps == {"work", "getUser", "setRole"}

StepsOf(op) ==
  CASE op = "POST" -> {"find", "create", "update"} \cup RecomputeSteps
    [] op = "PUT" -> {"get", "update", "reconcile"} \cup RecomputeSteps
    [] op = "PATCH" -> {"get", "update", "parse", "reconcile"} \cup RecomputeSteps
    [] op = "DELETE" -> {"capture", "delete"} \cup RecomputeSteps

(* A handler stays on the path of its own operation, and every call it      *)
(* makes about a group is about a group id.  What TypeOK needs to be        *)
(* inductive.                                                               *)
OnTrack ==
  \A p \in Procs :
    h[p].pc # "idle" =>
      /\ h[p].req \in Received
      /\ h[p].pc \in StepsOf(h[p].req.op)
      /\ h[p].pc \notin {"find", "create"} => h[p].gid \in GroupIds

(* The user at hand is one of the affected, there is one only while the     *)
(* user is looked at, and nobody is affected before the first edit.         *)
AtHand(f) ==
  /\ f.pc \in {"getUser", "setRole"} => f.uid \in f.affected
  /\ f.pc \notin {"getUser", "setRole"} => f.uid = ""
  /\ f.pc \notin {"delete"} \cup RecomputeSteps => f.affected = {}

UserAtHand == \A p \in Procs : AtHand(h[p])

HandlerInv == TypeOK /\ OnTrack /\ UserAtHand

(* A request that is served is answered, whatever other handlers do and     *)
(* whichever calls fail (the loops of createGroup, reconcileMembers and     *)
(* recomputeRoles end).                                                     *)
Responds == \A p \in Procs : h[p].pc # "idle" ~> h[p].pc = "idle"

(* Whenever no request is being served, the role of every active account is *)
(* the one its groups give it (README.md:21-23).                            *)
RoleMatchesMembership ==
  (\A p \in Procs : h[p].pc = "idle") =>
     \A u \in UserIds : ustate[u] = "active" => role[u] = RoleByMembership(u)

\* What a request promises of its group once it is answered with success.
Exactly(r, g) == members'[g] = r.members
Joined(r, g) == r.members \subseteq members'[g]
Patched(r, g) ==
  InOrder(r.ops) =>
    \A u \in UserIds : /\ MadeMember(r.ops, u) => u \in members'[g]
                       /\ MadeStranger(r.ops, u) => u \notin members'[g]
Named(r, g) == /\ r.name # "" => gname'[g] = r.name
               /\ r.ext # "" => gext'[g] = r.ext

Promise(r, g) ==
  CASE r.op = "PUT" -> Exactly(r, g) /\ Named(r, g)
    [] r.op = "PATCH" -> Patched(r, g) /\ Named(r, g)
    [] r.op = "POST" -> /\ Joined(r, g)
                        /\ EqualFold(gname'[g], r.name)
                        /\ r.ext # "" => gext'[g] = r.ext
    [] r.op = "DELETE" -> gstate'[g] = "deleted"

(* What a handler still has to do is what separates its group from its      *)
(* request.                                                                 *)

\* The attribute once new, "" for "leave it", is written over cur.
Written(new, cur) == IF new = "" THEN cur ELSE new

AttributesDue(f) ==
  LET r == f.req
      due == f.pc = "update"
      written == f.pc \in {"parse", "reconcile"} \cup RecomputeSteps /\ r.op # "DELETE"
  IN /\ due /\ r.op # "POST" /\ r.name # "" => Written(f.name, gname[f.gid]) = r.name
     /\ due /\ r.ext # "" => Written(f.ext, gext[f.gid]) = r.ext
     /\ written /\ r.op # "POST" /\ r.name # "" => gname[f.gid] = r.name
     /\ written /\ r.ext # "" => gext[f.gid] = r.ext
     /\ (due \/ written) /\ r.op = "POST" => EqualFold(gname[f.gid], r.name)

\* The members once what is left of the edits is carried out.
MembersDue(f) == (members[f.gid] \cup f.add) \ f.rem

EditsDue(f) ==
  LET r == f.req
  IN /\ f.pc \in RecomputeSteps =>
          \/ r.op = "POST" /\ r.members \subseteq MembersDue(f)
          \/ r.op = "PUT" /\ MembersDue(f) = r.members
          \/ r.op = "PATCH" /\ r.edit = "replace" /\ MembersDue(f) = r.members
          \/ /\ r.op = "PATCH" /\ r.edit = "delta"
             /\ r.members \ r.remove \subseteq MembersDue(f)
             /\ r.remove \cap MembersDue(f) = {}
          \/ r.op = "DELETE" /\ gstate[f.gid] = "deleted"
     /\ f.pc = "reconcile" => r.op = "PUT" \/ r.edit = "replace"

\* A POST has the members to add from the look-up on, and renames nothing.
PostDue(f) ==
  f.req.op = "POST" /\ f.pc \in {"find", "create", "update"} =>
    /\ f.rem = {} /\ f.name = ""
    /\ f.pc # "find" => f.add = f.req.members
    /\ f.pc = "create" => GroupsNamed(f.req.name) = {}

(* Requests served one at a time: at every step of a handler, the calls it  *)
(* has made and those it still has to make give its group the attributes    *)
(* and the members that were asked for, and a name is not taken when a      *)
(* group is about to be created under it (groups.go:55-117, 165-292).       *)
WorkDue ==
  \A p \in Procs : AttributesDue(h[p]) /\ EditsDue(h[p]) /\ PostDue(h[p])

(* Requests served one at a time: an answer 2xx means that the group is     *)
(* what the request asked for, whatever earlier requests left half done.    *)
(* For DELETE, and after a rename, too (the handlers of groups.go).  A      *)
(* PATCH whose operations are in order has the effect of one after another  *)
(* (patch.go:110-122); one that is refused for its members with 400 has     *)
(* renamed the group all the same (groups.go:241-255).                      *)
AnswerHolds ==
  [][\A p \in Procs :
       /\ Succeeds(p) => Promise(h[p].req, h[p].gid)
       /\ Ends(p) /\ status'[p] = "badRequest" => Named(h[p].req, h[p].gid)]_vars

(* Requests served one at a time: POST /Groups adopts the group that has    *)
(* the display name (README.md:117), so a group is never created under the  *)
(* name of a live one, even when the client repeats a POST after the reply  *)
(* to its groups.create was lost.                                           *)
NoDuplicateCreated ==
  [][\A g, k \in GroupIds :
       gstate[g] = "absent" /\ gstate'[g] = "live" /\ HasGroup(k) =>
         ~ EqualFold(gname'[g], gname[k])]_vars

(* "A user's role is recomputed after any membership change that affects    *)
(* them" (README.md:22-23): so a PUT that is answered with success leaves   *)
(* every active member with the role its groups give it, also when it       *)
(* repeats a PUT that changed the members and then failed.                  *)
PutSettlesRoles ==
  [][\A p \in Procs : Succeeds(p) /\ h[p].req.op = "PUT" =>
       \A u \in members[h[p].gid] :
          ustate[u] = "active" => role[u] = RoleByMembership(u)]_vars
=============================================================================
