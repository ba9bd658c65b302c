---------------------------- MODULE RoleDriftProofs ----------------------------
(***************************************************************************)
(* RoleAccounted, for any numbers of users, groups, handlers and requests, *)
(* and any failures.  StepFacts says what one step of one handler may do   *)
(* to one user; the invariant follows from it by cases on the user.        *)
(***************************************************************************)
EXTENDS RoleDrift, ScimGroupsProofs

(* A role is a function of the groups a user is in and of their names. *)
LEMMA SameGroupsSameRole ==
  ASSUME NEW u,
         UserGroups(u)' = UserGroups(u),
         \A g \in UserGroups(u) : gname'[g] = gname[g]
  PROVE  RoleByMembership(u)' = RoleByMembership(u)
<1>1. {gname'[g] : g \in UserGroups(u)'} = {gname[g] : g \in UserGroups(u)}
  OBVIOUS
<1> QED
  BY <1>1 DEF RoleByMembership

LEMMA SameTeamSameRole ==
  ASSUME NEW u, UNCHANGED groupVars
  PROVE  RoleByMembership(u)' = RoleByMembership(u)
  BY SameGroupsSameRole DEF groupVars, UserGroups, HasGroup

(* Which users' roles a call that changes groups may put out of step. *)
LEMMA CreateGroupRole ==
  ASSUME TypeOK, NEW g \in GroupIds, NEW n, NEW x, CreateGroup(g, n, x), NEW u
  PROVE  RoleByMembership(u)' = RoleByMembership(u)
<1>1. \A k \in GroupIds : k \in UserGroups(u)' <=> k \in UserGroups(u)
  BY DEF CreateGroup, UserGroups, HasGroup, TypeOK, TeamTypeOK
<1>2. UserGroups(u)' = UserGroups(u)
  BY <1>1 DEF UserGroups
<1>3. \A k \in UserGroups(u) : gname'[k] = gname[k]
  BY DEF CreateGroup, UserGroups, HasGroup, TypeOK, TeamTypeOK
<1> QED
  BY <1>2, <1>3, SameGroupsSameRole

LEMMA UpdateGroupRole ==
  ASSUME TypeOK, NEW g, NEW n, NEW x, UpdateGroup(g, n, x), NEW u,
         RoleByMembership(u)' # RoleByMembership(u)
  PROVE  Renamed(u)
<1>1. UserGroups(u)' = UserGroups(u)
  BY DEF UpdateGroup, UserGroups, HasGroup
<1>2. PICK k \in UserGroups(u) : gname'[k] # gname[k]
  BY <1>1, SameGroupsSameRole
<1>3. k = g /\ n # "" /\ gname'[k] = n
  BY <1>2 DEF UpdateGroup, UserGroups, TypeOK, TeamTypeOK
<1> QED
  BY <1>2, <1>3 DEF Renamed

LEMMA EditRole ==
  ASSUME TypeOK, NEW g, NEW v, AddUserToGroup(g, v) \/ RemoveUserFromGroup(g, v), NEW u,
         RoleByMembership(u)' # RoleByMembership(u)
  PROVE  u = v /\ EdgesChange(u)
<1>1. UserGroups(u)' # UserGroups(u)
  BY SameGroupsSameRole DEF AddUserToGroup, RemoveUserFromGroup
<1>2. EdgesChange(u)
  BY <1>1 DEF EdgesChange, UserGroups, HasGroup, AddUserToGroup, RemoveUserFromGroup
<1>3. PICK k \in GroupIds : (u \in members[k]) # (u \in members'[k])
  BY <1>2 DEF EdgesChange
<1>4. members \in [GroupIds -> SUBSET UserIds]
  BY DEF TypeOK, TeamTypeOK
<1>5. CASE AddUserToGroup(g, v)
  <2>1. members'[k] = IF k = g THEN members[k] \cup {v} ELSE members[k]
    BY <1>4, <1>5 DEF AddUserToGroup
  <2> QED
    BY <1>2, <1>3, <2>1
<1>6. CASE RemoveUserFromGroup(g, v)
  <2>1. members'[k] = IF k = g THEN members[k] \ {v} ELSE members[k]
    BY <1>4, <1>6 DEF RemoveUserFromGroup
  <2> QED
    BY <1>2, <1>3, <2>1
<1> QED
  BY <1>5, <1>6

LEMMA DeleteGroupRole ==
  ASSUME TypeOK, NEW g \in GroupIds, DeleteGroup(g), NEW u,
         RoleByMembership(u)' # RoleByMembership(u)
  PROVE  u \in members[g] /\ EdgesChange(u) /\ HasGroup(g) /\ gstate'[g] = "deleted"
<1>1. \A k \in GroupIds : k # g => (k \in UserGroups(u)' <=> k \in UserGroups(u))
                                   /\ gname'[k] = gname[k]
  BY DEF DeleteGroup, UserGroups, HasGroup, TypeOK, TeamTypeOK
<1>2. g \notin UserGroups(u)'
  BY DEF DeleteGroup, UserGroups, HasGroup, TypeOK, TeamTypeOK
<1>3. g \in UserGroups(u)
  <2>1. SUFFICES ASSUME g \notin UserGroups(u) PROVE FALSE
    OBVIOUS
  <2>2. UserGroups(u)' = UserGroups(u)
    BY <1>1, <1>2, <2>1 DEF UserGroups
  <2> QED
    BY <1>1, <2>1, <2>2, SameGroupsSameRole DEF UserGroups
<1> QED
  BY <1>3 DEF EdgesChange, DeleteGroup, UserGroups, HasGroup, TypeOK, TeamTypeOK

-----------------------------------------------------------------------------
(* One step of the handler of p, as user u sees it. *)
StepFacts(p, u) ==
  /\ UNCHANGED ustate
  /\ \A q \in Procs \ {p} : h'[q] = h[q]
  /\ h[p].pc # "idle"
  /\ h'[p].uid = u =>
       \/ h[p].uid = u /\ h'[p].target = h[p].target
       \/ h'[p].target = RoleByMembership(u) /\ UNCHANGED teamVars
  /\ u \in h[p].affected =>
       \/ u \in h'[p].affected
       \/ Fails(p)
       \/ h[p].uid = u /\ h'[p].pc = "work"
  /\ h[p].uid = u /\ h'[p].pc = "work" =>
       /\ ustate[u] = "active" => role'[u] = h[p].target
       /\ RoleByMembership(u)' = RoleByMembership(u)
  /\ role'[u] # role[u] => u \in h[p].affected
  /\ RoleByMembership(u)' # RoleByMembership(u) => u \in h'[p].affected \/ Disturbed(u)

(* The handler fails: either nothing changed, or the change was carried out *)
(* and its reply lost.                                                      *)
LEMMA FailFacts ==
  ASSUME HandlerInv, NEW p \in Procs, NEW s, Answer(p, s), s # "ok",
         h[p].pc # "idle", UNCHANGED ustate, NEW u \in UserIds,
         role'[u] # role[u] => u \in h[p].affected,
         RoleByMembership(u)' # RoleByMembership(u) => EdgesChange(u) \/ Renamed(u)
  PROVE  StepFacts(p, u)
<1>1. h \in [Procs -> Frame] /\ status \in [Procs -> Answers] /\ u # ""
  BY NoNameAssumption DEF HandlerInv, TypeOK
<1>2. h'[p] = Idle /\ status'[p] = s /\ \A q \in Procs \ {p} : h'[q] = h[q]
  BY <1>1 DEF Answer
<1>3. /\ Idle.pc = "idle" /\ Idle.uid = "" /\ Idle.affected = {}
  BY DEF Idle
<1>4. Fails(p)
  BY <1>2, <1>3 DEF Fails, Ends
<1>5. RoleByMembership(u)' # RoleByMembership(u) => Disturbed(u)
  BY <1>4 DEF Disturbed, Abandoned
<1> QED
  BY <1>1, <1>2, <1>3, <1>4, <1>5 DEF StepFacts

(* The same for a failure that changed nothing. *)
LEMMA RefusedFacts ==
  ASSUME HandlerInv, NEW p \in Procs, NEW s, Answer(p, s), s # "ok",
         h[p].pc # "idle", UNCHANGED teamVars, NEW u \in UserIds
  PROVE  StepFacts(p, u)
  BY FailFacts, SameTeamSameRole DEF teamVars, accountVars, groupVars

(* The handler goes on with other locals, and no role changes. *)
LEMMA ContinueFacts ==
  ASSUME HandlerInv, NEW p \in Procs, NEW k, Continue(p, k),
         h[p].pc # "idle", UNCHANGED accountVars, NEW u \in UserIds,
         k.uid = "" \/ (k.uid = h[p].uid /\ k.target = h[p].target),
         h[p].affected \subseteq k.affected,
         h[p].uid = "" \/ k.pc # "work",
         RoleByMembership(u)' # RoleByMembership(u) => u \in k.affected \/ Disturbed(u)
  PROVE  StepFacts(p, u)
<1>1. h \in [Procs -> Frame] /\ u # ""
  BY NoNameAssumption DEF HandlerInv, TypeOK
<1>2. h'[p] = k /\ \A q \in Procs \ {p} : h'[q] = h[q]
  BY <1>1 DEF Continue
<1> QED
  BY <1>1, <1>2 DEF StepFacts, accountVars

LEMMA StepHasFacts ==
  ASSUME HandlerInv, ListedKept, NEW p \in Procs, Step(p), NEW u \in UserIds
  PROVE  StepFacts(p, u)
<1> DEFINE f == h[p]
<1>1. TypeOK /\ f \in Frame /\ AtHand(f) /\ h \in [Procs -> Frame]
  BY DEF HandlerInv, TypeOK, UserAtHand
<1>2. f.pc # "idle"
  BY DEF Step, FindGroup, CreateNew, GetGroup, UpdateAttributes, ParseMembers, Reconcile,
         AddMember, RemoveMember, Capture, DeleteCaptured, FetchGroups, GetUser, SetRole,
         Finish, EditsDone
<1>3. f.pc \notin {"find", "create"} => f.gid \in GroupIds
  BY <1>2, TrackFacts
<1>4. UNCHANGED teamVars => /\ RoleByMembership(u)' = RoleByMembership(u)
                            /\ UNCHANGED accountVars
  BY SameTeamSameRole DEF teamVars, groupVars, accountVars
<1>5. ASSUME NEW s \in {"notFound", "upstream", "badRequest"}, Answer(p, s), UNCHANGED teamVars
      PROVE  StepFacts(p, u)
  BY <1>2, <1>5, RefusedFacts
\* A step that only reads, keeps the user at hand, and forgets nobody.
<1>6. ASSUME NEW k, Continue(p, k), UNCHANGED teamVars,
             k.uid = f.uid, k.target = f.target, f.affected \subseteq k.affected,
             f.uid = "" \/ k.pc # "work"
      PROVE  StepFacts(p, u)
  BY <1>2, <1>4, <1>6, ContinueFacts
<1> HIDE DEF f
<1>7. CASE FindGroup(p)
  <2>1. f.pc = "find" /\ f.uid = ""
    BY <1>1, <1>7 DEF FindGroup, AtHand, RecomputeSteps, f
  <2>2. ASSUME NEW pc \in {"update", "work"}, NEW g
        PROVE  LET k == [f EXCEPT !.gid = g, !.add = f.req.members, !.ext = f.req.ext, !.pc = pc]
               IN k.uid = f.uid /\ k.target = f.target /\ f.affected = k.affected
    BY <1>1, <2>1 DEF Frame
  <2>3. LET k == [f EXCEPT !.add = f.req.members, !.pc = "create"]
        IN k.uid = f.uid /\ k.target = f.target /\ f.affected = k.affected
    BY <1>1, <2>1 DEF Frame
  <2> QED
    BY <1>5, <1>6, <1>7, <2>1, <2>2, <2>3 DEF FindGroup, Read, Call, f
<1>8. CASE CreateNew(p)
  <2>1. PICK g \in GroupIds :
          Call(p, TRUE, CreateGroup(g, f.req.name, f.req.ext),
               Continue(p, [f EXCEPT !.pc = "work", !.gid = g]))
    BY <1>8 DEF CreateNew, FreshIds, f
  <2>2. f.pc = "create" /\ f.uid = ""
    BY <1>1, <1>8 DEF CreateNew, AtHand, RecomputeSteps, f
  <2>3. CreateGroup(g, f.req.name, f.req.ext) =>
          RoleByMembership(u)' = RoleByMembership(u) /\ UNCHANGED accountVars
    BY <1>1, CreateGroupRole DEF CreateGroup
  <2>4. LET k == [f EXCEPT !.pc = "work", !.gid = g]
        IN k.uid = f.uid /\ k.target = f.target /\ f.affected = k.affected
    BY <1>1, <2>2 DEF Frame
  <2>5. CASE CreateGroup(g, f.req.name, f.req.ext)
             /\ Continue(p, [f EXCEPT !.pc = "work", !.gid = g])
    BY <1>2, <2>2, <2>3, <2>4, <2>5, ContinueFacts DEF f
  <2>6. CASE CreateGroup(g, f.req.name, f.req.ext) /\ Answer(p, "upstream")
    BY <1>2, <2>3, <2>6, FailFacts DEF accountVars, f
  <2> QED
    BY <1>5, <2>1, <2>5, <2>6 DEF Call
<1>9. CASE GetGroup(p)
  <2>1. f.pc = "get" /\ f.uid = ""
    BY <1>1, <1>9 DEF GetGroup, AtHand, RecomputeSteps, f
  <2>2. ASSUME NEW pc \in {"update", "reconcile", "parse"}, NEW n, NEW x
        PROVE  LET k == [f EXCEPT !.pc = pc, !.name = n, !.ext = x]
               IN k.uid = f.uid /\ k.target = f.target /\ f.affected = k.affected
    BY <1>1, <2>1 DEF Frame
  <2> QED
    <3>1. \/ \E s \in {"notFound", "upstream"} : Answer(p, s)
          \/ \E pc \in {"update", "reconcile", "parse"} : \E n, x :
               Continue(p, [f EXCEPT !.pc = pc, !.name = n, !.ext = x])
      BY <1>9 DEF GetGroup, Read, Call, f
    <3>2. UNCHANGED teamVars
      BY <1>9 DEF GetGroup, Read, Call
    <3>3. ASSUME NEW pc \in {"update", "reconcile", "parse"}, NEW n, NEW x,
                 Continue(p, [f EXCEPT !.pc = pc, !.name = n, !.ext = x])
          PROVE  StepFacts(p, u)
      <4> DEFINE k == [f EXCEPT !.pc = pc, !.name = n, !.ext = x]
      <4>1. k.uid = f.uid /\ k.target = f.target /\ f.affected = k.affected
        BY <2>2
      <4>2. Continue(p, k)
        BY <3>3
      <4> HIDE DEF k
      <4> QED
        BY <1>6, <2>1, <3>2, <4>1, <4>2
    <3> QED
      BY <1>5, <3>1, <3>2, <3>3
<1>10. CASE UpdateAttributes(p)
  <2>1. f.pc = "update" /\ f.uid = "" /\ f.req.op \in {"POST", "PUT", "PATCH"}
    BY <1>1, <1>10, TrackFacts DEF UpdateAttributes, AtHand, StepsOf, RecomputeSteps, f
  <2>2. UpdateGroup(f.gid, f.name, f.ext) =>
          /\ RoleByMembership(u)' # RoleByMembership(u) => Renamed(u)
          /\ UNCHANGED accountVars
    <3>1. UpdateGroup(f.gid, f.name, f.ext) => UNCHANGED accountVars
      BY DEF UpdateGroup
    <3> QED
      BY <1>1, <3>1, UpdateGroupRole
  <2>3. LET k == [f EXCEPT !.pc = AfterUpdate(f.req.op)]
        IN k.uid = f.uid /\ k.target = f.target /\ f.affected = k.affected
    BY <1>1, <2>1 DEF Frame, AfterUpdate
  <2>4. CASE UpdateGroup(f.gid, f.name, f.ext)
             /\ Continue(p, [f EXCEPT !.pc = AfterUpdate(f.req.op)])
    BY <1>2, <2>1, <2>2, <2>3, <2>4, ContinueFacts DEF Disturbed, f
  <2>5. CASE UpdateGroup(f.gid, f.name, f.ext) /\ Answer(p, "upstream")
    BY <1>2, <2>2, <2>5, FailFacts DEF accountVars, f
  <2> QED
    BY <1>5, <1>10, <2>4, <2>5 DEF UpdateAttributes, Call, f
<1>11. CASE ParseMembers(p)
  <2>1. f.pc = "parse" /\ f.uid = ""
    BY <1>1, <1>11 DEF ParseMembers, AtHand, RecomputeSteps, f
  <2>2. LET k == [f EXCEPT !.pc = "reconcile"]
        IN k.uid = f.uid /\ k.target = f.target /\ f.affected = k.affected
    BY <1>1, <2>1 DEF Frame
  <2>3. LET k == [f EXCEPT !.pc = "work", !.add = f.req.members, !.rem = f.req.remove]
        IN k.uid = f.uid /\ k.target = f.target /\ f.affected = k.affected
    BY <1>1, <2>1 DEF Frame
  <2> QED
    BY <1>5, <1>6, <1>11, <2>1, <2>2, <2>3 DEF ParseMembers, f
<1>12. CASE Reconcile(p)
  <2>1. f.pc = "reconcile" /\ f.uid = ""
    BY <1>1, <1>12 DEF Reconcile, AtHand, RecomputeSteps, f
  <2>2. ASSUME NEW add, NEW rem
        PROVE  LET k == [f EXCEPT !.pc = "work", !.add = add, !.rem = rem]
               IN k.uid = f.uid /\ k.target = f.target /\ f.affected = k.affected
    BY <1>1, <2>1 DEF Frame
  <2> QED
    BY <1>5, <1>6, <1>12, <2>1, <2>2 DEF Reconcile, Read, Call, f
<1>13. CASE AddMember(p)
  <2>1. f.pc = "work" /\ f.uid = ""
    BY <1>1, <1>13 DEF AddMember, AtHand, RecomputeSteps, f
  <2>2. PICK v \in f.add :
          \/ Call(p, HasGroup(f.gid), AddUserToGroup(f.gid, v),
                  Continue(p, [f EXCEPT !.add = @ \ {v}, !.affected = @ \cup {v}]))
          \/ UNCHANGED teamVars /\ Answer(p, "notFound")
    BY <1>13 DEF AddMember, f
  <2>3. AddUserToGroup(f.gid, v) =>
          /\ RoleByMembership(u)' # RoleByMembership(u) => u = v /\ EdgesChange(u)
          /\ UNCHANGED accountVars
    BY <1>1, EditRole DEF AddUserToGroup
  <2>4. LET k == [f EXCEPT !.add = @ \ {v}, !.affected = @ \cup {v}]
        IN k.uid = "" /\ k.affected = f.affected \cup {v}
    BY <1>1, <2>1 DEF Frame
  <2>5. CASE AddUserToGroup(f.gid, v)
             /\ Continue(p, [f EXCEPT !.add = @ \ {v}, !.affected = @ \cup {v}])
    BY <1>2, <2>1, <2>3, <2>4, <2>5, ContinueFacts DEF f
  <2>6. CASE AddUserToGroup(f.gid, v) /\ Answer(p, "upstream")
    BY <1>2, <2>3, <2>6, FailFacts DEF accountVars, f
  <2> QED
    BY <1>5, <2>2, <2>5, <2>6 DEF Call
<1>14. CASE RemoveMember(p)
  <2>1. f.pc = "work" /\ f.uid = ""
    BY <1>1, <1>14 DEF RemoveMember, AtHand, RecomputeSteps, f
  <2>2. PICK v \in f.rem :
          Call(p, HasGroup(f.gid), RemoveUserFromGroup(f.gid, v),
               Continue(p, [f EXCEPT !.rem = @ \ {v}, !.affected = @ \cup {v}]))
    BY <1>14 DEF RemoveMember, f
  <2>3. RemoveUserFromGroup(f.gid, v) =>
          /\ RoleByMembership(u)' # RoleByMembership(u) => u = v /\ EdgesChange(u)
          /\ UNCHANGED accountVars
    BY <1>1, EditRole DEF RemoveUserFromGroup
  <2>4. LET k == [f EXCEPT !.rem = @ \ {v}, !.affected = @ \cup {v}]
        IN k.uid = "" /\ k.affected = f.affected \cup {v}
    BY <1>1, <2>1 DEF Frame
  <2>5. CASE RemoveUserFromGroup(f.gid, v)
             /\ Continue(p, [f EXCEPT !.rem = @ \ {v}, !.affected = @ \cup {v}])
    BY <1>2, <2>1, <2>3, <2>4, <2>5, ContinueFacts DEF f
  <2>6. CASE RemoveUserFromGroup(f.gid, v) /\ Answer(p, "upstream")
    BY <1>2, <2>3, <2>6, FailFacts DEF accountVars, f
  <2> QED
    BY <1>5, <2>2, <2>5, <2>6 DEF Call
<1>15. CASE Capture(p)
  <2>1. f.pc = "capture" /\ f.uid = "" /\ f.affected = {}
    BY <1>1, <1>15 DEF Capture, AtHand, RecomputeSteps, f
  <2>2. ASSUME NEW aff
        PROVE  LET k == [f EXCEPT !.pc = "delete", !.affected = aff]
               IN k.uid = f.uid /\ k.target = f.target /\ f.affected = {}
    BY <1>1, <2>1 DEF Frame
  <2> QED
    BY <1>5, <1>6, <1>15, <2>1, <2>2 DEF Capture, Read, Call, f
<1>16. CASE DeleteCaptured(p)
  <2>1. f.pc = "delete" /\ f.uid = "" /\ f.gid \in GroupIds
    BY <1>1, <1>3, <1>16 DEF DeleteCaptured, AtHand, RecomputeSteps, f
  <2>2. DeleteGroup(f.gid) =>
          /\ RoleByMembership(u)' # RoleByMembership(u) =>
               u \in members[f.gid] /\ EdgesChange(u)
               /\ HasGroup(f.gid) /\ gstate'[f.gid] = "deleted"
          /\ UNCHANGED accountVars
    BY <1>1, <2>1, DeleteGroupRole DEF DeleteGroup
  <2>3. LET k == [f EXCEPT !.pc = "work"]
        IN k.uid = "" /\ k.affected = f.affected
    BY <1>1, <2>1 DEF Frame
  <2>4. CASE DeleteGroup(f.gid) /\ Continue(p, [f EXCEPT !.pc = "work"])
    <3>1. RoleByMembership(u)' # RoleByMembership(u) => u \in f.affected \/ Disturbed(u)
      <4>1. listed[p] \subseteq f.affected
        BY DEF ListedKept, f
      <4> QED
        BY <2>1, <2>2, <2>4, <4>1 DEF Disturbed, Uncaptured, f
    <3> QED
      BY <1>2, <2>1, <2>2, <2>3, <2>4, <3>1, ContinueFacts DEF f
  <2>5. CASE DeleteGroup(f.gid) /\ Answer(p, "upstream")
    BY <1>2, <2>2, <2>5, FailFacts DEF accountVars, f
  <2> QED
    BY <1>5, <1>16, <2>4, <2>5 DEF DeleteCaptured, Call, f
<1>17. CASE FetchGroups(p)
  <2>1. f.pc = "work" /\ f.uid = ""
    BY <1>1, <1>17 DEF FetchGroups, EditsDone, AtHand, RecomputeSteps, f
  <2>2. PICK v \in f.affected :
          Read(p, TRUE, Continue(p, [f EXCEPT !.pc = "getUser", !.uid = v,
                                              !.target = RoleByMembership(v)]))
    BY <1>17 DEF FetchGroups, f
  <2>3. LET k == [f EXCEPT !.pc = "getUser", !.uid = v, !.target = RoleByMembership(v)]
        IN /\ k.uid = v /\ k.target = RoleByMembership(v)
           /\ k.affected = f.affected /\ k.pc = "getUser"
    BY <1>1, <2>1, <2>2 DEF Frame
  <2>4. CASE UNCHANGED teamVars /\ Continue(p, [f EXCEPT !.pc = "getUser", !.uid = v,
                                                  !.target = RoleByMembership(v)])
    <3>1. /\ h'[p] = [f EXCEPT !.pc = "getUser", !.uid = v, !.target = RoleByMembership(v)]
          /\ \A q \in Procs \ {p} : h'[q] = h[q]
      BY <1>1, <2>4 DEF Continue, f
    <3> QED
      BY <1>2, <1>4, <2>3, <2>4, <3>1 DEF StepFacts, teamVars, accountVars, f
  <2> QED
    BY <1>5, <2>2, <2>4 DEF Read, Call
<1>18. ASSUME f.pc \in {"getUser", "setRole"}
       PROVE  LET k == UserDone(f)
              IN /\ k.uid = "" /\ k.pc = "work"
                 /\ k.affected = f.affected \ {f.uid}
  BY <1>1, <1>18 DEF Frame, UserDone
<1>19. ASSUME f.pc \in {"getUser", "setRole"}, Continue(p, UserDone(f)),
              UNCHANGED <<ustate, groupVars>>,
              role'[u] = IF ustate[u] = "active" /\ f.uid = u THEN f.target ELSE role[u]
       PROVE  StepFacts(p, u)
  <2>1. h'[p] = UserDone(f) /\ \A q \in Procs \ {p} : h'[q] = h[q]
    BY <1>1, <1>19 DEF Continue
  <2>2. RoleByMembership(u)' = RoleByMembership(u) /\ u # ""
    BY <1>19, SameTeamSameRole, NoNameAssumption
  <2>3. f.uid \in f.affected
    BY <1>1, <1>19 DEF AtHand, RecomputeSteps
  <2> QED
    BY <1>2, <1>18, <1>19, <2>1, <2>2, <2>3 DEF StepFacts, f
<1>20. CASE GetUser(p)
  <2>1. f.pc = "getUser"
    BY <1>20 DEF GetUser, f
  <2>2. LET k == [f EXCEPT !.pc = "setRole"]
        IN /\ k.uid = f.uid /\ k.target = f.target
           /\ k.affected = f.affected /\ k.pc # "work"
    BY <1>1, <2>1 DEF Frame
  <2>3. CASE /\ UNCHANGED teamVars /\ Continue(p, UserDone(f))
             /\ ustate[f.uid] = "suspended" \/ role[f.uid] = f.target
    <3>1. role'[u] = IF ustate[u] = "active" /\ f.uid = u THEN f.target ELSE role[u]
      BY <2>3 DEF teamVars
    <3> QED
      BY <1>19, <2>1, <2>3, <3>1 DEF teamVars, groupVars
  <2>4. CASE UNCHANGED teamVars /\ Continue(p, [f EXCEPT !.pc = "setRole"])
    BY <1>6, <2>2, <2>4
  <2> QED
    BY <1>5, <1>20, <2>3, <2>4 DEF GetUser, Read, Call, f
<1>21. CASE SetRole(p)
  <2>1. f.pc = "setRole" /\ f.uid \in f.affected
    BY <1>1, <1>21 DEF SetRole, AtHand, RecomputeSteps, f
  <2>2. UpdateUserRole(f.uid, f.target) =>
          /\ role'[u] = IF f.uid = u THEN f.target ELSE role[u]
          /\ UNCHANGED <<ustate, groupVars>>
    BY <1>1 DEF UpdateUserRole, TypeOK, TeamTypeOK
  <2>3. CASE /\ UpdateUserRole(f.uid, f.target) /\ HasUser(f.uid)
             /\ ustate[f.uid] # "suspended" /\ Continue(p, UserDone(f))
    BY <1>19, <2>1, <2>2, <2>3 DEF HasUser
  <2>4. CASE UpdateUserRole(f.uid, f.target) /\ Answer(p, "upstream")
    BY <1>2, <2>1, <2>2, <2>4, FailFacts, SameTeamSameRole DEF f
  <2> QED
    BY <1>5, <1>21, <2>3, <2>4 DEF SetRole, Call, f
<1>22. CASE Finish(p)
  <2>1. f.pc = "work" /\ f.affected = {}
    BY <1>22 DEF Finish, EditsDone, f
  <2>2. CASE UNCHANGED teamVars /\ Answer(p, "ok")
    <3>1. h'[p] = Idle /\ \A q \in Procs \ {p} : h'[q] = h[q]
      BY <1>1, <2>2 DEF Answer
    <3>2. Idle.uid = "" /\ Idle.pc = "idle" /\ u # ""
      BY NoNameAssumption DEF Idle, RecomputeSteps
    <3> QED
      BY <1>2, <1>4, <2>1, <2>2, <3>1, <3>2 DEF StepFacts, teamVars, f
  <2> QED
    BY <1>5, <1>22, <2>2 DEF Finish, Read, Call
<1> QED
  BY <1>7, <1>8, <1>9, <1>10, <1>11, <1>12, <1>13, <1>14, <1>15, <1>16, <1>17, <1>20,
     <1>21, <1>22 DEF Step

-----------------------------------------------------------------------------
(* What the facts about one step make of the invariant. *)
LEMMA FactsKeepTargets ==
  ASSUME HandlerInv, TargetsCurrent, Observe,
         NEW p \in Procs, \A u \in UserIds : StepFacts(p, u)
  PROVE  TargetsCurrent'
<1> SUFFICES ASSUME NEW q \in Procs, NEW u \in UserIds, h'[q].uid = u, u \notin owed'
             PROVE  h'[q].target = RoleByMembership(u)'
  BY DEF TargetsCurrent
<1>1. StepFacts(p, u)
  OBVIOUS
<1>2. ~ Disturbed(u) /\ (u \in owed => Settled(u))
  BY DEF Observe
<1>3. \/ h[q].uid = u /\ h'[q].target = h[q].target
      \/ h'[q].target = RoleByMembership(u) /\ UNCHANGED teamVars
  BY <1>1 DEF StepFacts
<1>4. CASE h'[q].target = RoleByMembership(u) /\ UNCHANGED teamVars
  BY <1>4, SameTeamSameRole DEF teamVars, groupVars
<1>5. CASE h[q].uid = u /\ h'[q].target = h[q].target
  <2>1. RoleByMembership(u)' = RoleByMembership(u)
    BY <1>2, <1>5 DEF Disturbed, Overtaken
  <2>2. h[q].target = RoleByMembership(u)
    BY <1>2, <1>5 DEF Settled, TargetsCurrent
  <2> QED
    BY <1>5, <2>1, <2>2
<1> QED
  BY <1>3, <1>4, <1>5

LEMMA FactsKeepRoles ==
  ASSUME HandlerInv, TargetsCurrent, RoleAccounted, Observe,
         NEW p \in Procs, \A u \in UserIds : StepFacts(p, u)
  PROVE  RoleAccounted'
<1> SUFFICES ASSUME NEW u \in UserIds, ustate'[u] = "active", u \notin owed',
                    \A q \in Procs : u \notin h'[q].affected
             PROVE  RoleIsRight(u)'
  BY DEF RoleAccounted
<1>1. StepFacts(p, u) /\ u # ""
  BY NoNameAssumption
<1>2. ~ Disturbed(u) /\ (u \in owed => Settled(u))
  BY DEF Observe
<1>3. ustate[u] = "active" /\ RoleByMembership(u)' = RoleByMembership(u)
  BY <1>1, <1>2 DEF StepFacts
<1>4. ASSUME h[p].uid = u, h'[p].pc = "work"
      PROVE  RoleIsRight(u)'
  <2>1. role'[u] = h[p].target
    BY <1>1, <1>3, <1>4 DEF StepFacts
  <2>2. h[p].target = RoleByMembership(u)
    BY <1>2, <1>4 DEF Settled, TargetsCurrent
  <2> QED
    BY <1>3, <2>1, <2>2 DEF RoleIsRight
<1>5. CASE \E q \in Procs : u \in h[q].affected
  <2>1. PICK q \in Procs : u \in h[q].affected
    BY <1>5
  <2>2. q = p /\ u \in h[p].affected
    BY <1>1, <2>1 DEF StepFacts
  <2>3. ~ Fails(p)
    BY <1>2, <2>2 DEF Disturbed, Abandoned
  <2> QED
    BY <1>1, <1>4, <2>2, <2>3 DEF StepFacts
<1>6. CASE u \in owed
  <2>1. PICK q \in Procs : h[q].uid = u /\ h'[q].pc = "work"
    BY <1>2, <1>6 DEF Settled
  <2>2. CASE q = p
    BY <1>4, <2>1, <2>2
  <2>3. CASE q # p
    BY <1>1, <2>1, <2>3 DEF StepFacts, HandlerInv, UserAtHand, AtHand
  <2> QED
    BY <2>2, <2>3
<1>7. CASE u \notin owed /\ \A q \in Procs : u \notin h[q].affected
  <2>1. RoleIsRight(u)
    BY <1>3, <1>7 DEF RoleAccounted
  <2>2. role'[u] = role[u]
    BY <1>1, <1>7 DEF StepFacts
  <2> QED
    BY <1>3, <2>1, <2>2 DEF RoleIsRight
<1> QED
  BY <1>5, <1>6, <1>7

(* Only Capture leads to the deletion, and it keeps whom it has listed. *)
LEMMA DeleteFollowsCapture ==
  ASSUME HandlerInv, NEW p \in Procs, Step(p), h'[p].pc = "delete"
  PROVE  h[p].pc = "capture" /\ h'[p].affected = members[h[p].gid]
<1>1. h[p] \in Frame /\ h \in [Procs -> Frame]
  BY DEF HandlerInv, TypeOK
<1>2. ASSUME NEW s, Answer(p, s) PROVE FALSE
  <2>1. h'[p] = Idle
    BY <1>1, <1>2 DEF Answer
  <2>2. Idle.pc = "idle"
    BY DEF Idle
  <2> QED
    BY <2>1, <2>2
<1>3. ASSUME NEW k, Continue(p, k) PROVE k.pc = "delete" /\ h'[p] = k
  BY <1>1, <1>3 DEF Continue
<1>4. CASE FindGroup(p)
  <2>1. ASSUME NEW g, NEW s \in {"update", "work"}
        PROVE  [h[p] EXCEPT !.gid = g, !.add = h[p].req.members,
                            !.ext = h[p].req.ext, !.pc = s].pc = s
    BY <1>1 DEF Frame
  <2>2. [h[p] EXCEPT !.add = h[p].req.members, !.pc = "create"].pc = "create"
    BY <1>1 DEF Frame
  <2> QED
    BY <1>2, <1>3, <1>4, <2>1, <2>2 DEF FindGroup, Read, Call
<1>5. CASE CreateNew(p)
  <2>1. \A g : [h[p] EXCEPT !.pc = "work", !.gid = g].pc = "work"
    BY <1>1 DEF Frame
  <2> QED
    BY <1>2, <1>3, <1>5, <2>1 DEF CreateNew, Call
<1>6. CASE GetGroup(p)
  <2> DEFINE f == h[p]
             r == f.req
             differs == \/ Changed(r.name, gname[f.gid]) # ""
                        \/ Changed(r.ext, gext[f.gid]) # ""
             next == IF r.op = "PUT" THEN "reconcile" ELSE "parse"
             name == IF r.op = "PUT" THEN Changed(r.name, gname[f.gid]) ELSE r.name
             ext == IF r.op = "PUT" THEN Changed(r.ext, gext[f.gid]) ELSE r.ext
             pc == IF differs THEN "update" ELSE next
  <2>1. ASSUME NEW n, NEW x, NEW s
        PROVE  [f EXCEPT !.pc = s, !.name = n, !.ext = x].pc = s
    BY <1>1 DEF Frame
  <2>2. pc # "delete"
    OBVIOUS
  <2>3. ~ Continue(p, [f EXCEPT !.pc = pc, !.name = name, !.ext = ext])
    <3> HIDE DEF pc, name, ext
    <3>1. [f EXCEPT !.pc = pc, !.name = name, !.ext = ext].pc = pc
      BY <2>1
    <3> QED
      BY <1>3, <2>2, <3>1
  <2>4. Read(p, HasGroup(f.gid), Continue(p, [f EXCEPT !.pc = pc, !.name = name, !.ext = ext]))
    BY <1>6, Zenon DEF GetGroup
  <2> HIDE DEF pc, name, ext
  <2> QED
    BY <1>2, <2>3, <2>4 DEF Read, Call
<1>7. CASE UpdateAttributes(p)
  <2>1. [h[p] EXCEPT !.pc = AfterUpdate(h[p].req.op)].pc = AfterUpdate(h[p].req.op)
    BY <1>1 DEF Frame
  <2>2. h[p].req.op \in {"POST", "PUT", "PATCH"}
    BY <1>7, ReceivedFacts
    DEF UpdateAttributes, HandlerInv, OnTrack, StepsOf, RecomputeSteps, RequestType
  <2>3. AfterUpdate(h[p].req.op) # "delete"
    BY <2>2 DEF AfterUpdate
  <2>4. ~ Continue(p, [h[p] EXCEPT !.pc = AfterUpdate(h[p].req.op)])
    BY <1>3, <2>1, <2>3
  <2> QED
    BY <1>2, <1>7, <2>4 DEF UpdateAttributes, Call
<1>8. CASE ParseMembers(p)
  <2>1. [h[p] EXCEPT !.pc = "reconcile"].pc = "reconcile"
    BY <1>1 DEF Frame
  <2>2. \A a, r : [h[p] EXCEPT !.pc = "work", !.add = a, !.rem = r].pc = "work"
    BY <1>1 DEF Frame
  <2>3. ~ Continue(p, [h[p] EXCEPT !.pc = "reconcile"])
    BY <1>3, <2>1
  <2>4. ASSUME NEW a, NEW r, Continue(p, [h[p] EXCEPT !.pc = "work", !.add = a, !.rem = r])
        PROVE  FALSE
    BY <1>3, <2>2, <2>4
  <2> QED
    BY <1>2, <1>8, <2>3, <2>4, Zenon DEF ParseMembers
<1>9. CASE Reconcile(p)
  <2>1. \A a, r : [h[p] EXCEPT !.pc = "work", !.add = a, !.rem = r].pc = "work"
    BY <1>1 DEF Frame
  <2>2. ASSUME NEW a, NEW r, Continue(p, [h[p] EXCEPT !.pc = "work", !.add = a, !.rem = r])
        PROVE  FALSE
    BY <1>3, <2>1, <2>2
  <2>3. PICK a, r : Read(p, HasGroup(h[p].gid),
                         Continue(p, [h[p] EXCEPT !.pc = "work", !.add = a, !.rem = r]))
    BY <1>9, Zenon DEF Reconcile
  <2> QED
    BY <1>2, <2>2, <2>3 DEF Read, Call
<1>10. CASE AddMember(p)
  <2>1. \A u : [h[p] EXCEPT !.add = @ \ {u}, !.affected = @ \cup {u}].pc = "work"
    BY <1>1, <1>10 DEF Frame, AddMember
  <2> QED
    BY <1>2, <1>3, <1>10, <2>1 DEF AddMember, Call
<1>11. CASE RemoveMember(p)
  <2>1. \A u : [h[p] EXCEPT !.rem = @ \ {u}, !.affected = @ \cup {u}].pc = "work"
    BY <1>1, <1>11 DEF Frame, RemoveMember
  <2> QED
    BY <1>2, <1>3, <1>11, <2>1 DEF RemoveMember, Call
<1>12. CASE Capture(p)
  <2> DEFINE k == [h[p] EXCEPT !.pc = "delete", !.affected = members[h[p].gid]]
  <2>1. k.affected = members[h[p].gid]
    BY <1>1 DEF Frame
  <2>2. h'[p] = k
    BY <1>2, <1>3, <1>12 DEF Capture, Read, Call
  <2> QED
    BY <1>12, <2>1, <2>2 DEF Capture
<1>13. CASE DeleteCaptured(p)
  <2>1. [h[p] EXCEPT !.pc = "work"].pc = "work"
    BY <1>1 DEF Frame
  <2> QED
    BY <1>2, <1>3, <1>13, <2>1 DEF DeleteCaptured, Call
<1>14. CASE FetchGroups(p)
  <2>1. \A u, t : [h[p] EXCEPT !.pc = "getUser", !.uid = u, !.target = t].pc = "getUser"
    BY <1>1 DEF Frame
  <2> QED
    BY <1>2, <1>3, <1>14, <2>1 DEF FetchGroups, Read, Call
<1>15. UserDone(h[p]).pc = "work"
  BY <1>1 DEF UserDone, Frame
<1>16. CASE GetUser(p)
  <2>1. [h[p] EXCEPT !.pc = "setRole"].pc = "setRole"
    BY <1>1 DEF Frame
  <2> QED
    BY <1>2, <1>3, <1>15, <1>16, <2>1 DEF GetUser, Read, Call
<1>17. CASE SetRole(p)
  BY <1>2, <1>3, <1>15, <1>17 DEF SetRole, Call
<1>18. CASE Finish(p)
  BY <1>2, <1>18 DEF Finish, Read, Call
<1> QED
  BY <1>4, <1>5, <1>6, <1>7, <1>8, <1>9, <1>10, <1>11, <1>12, <1>13, <1>14, <1>16,
     <1>17, <1>18 DEF Step

LEMMA StepKeepsListed ==
  ASSUME HandlerInv, ListedKept, NEW p \in Procs, Step(p), Observe,
         \A q \in Procs \ {p} : h'[q] = h[q]
  PROVE  ListedKept'
<1> SUFFICES ASSUME NEW q \in Procs PROVE listed'[q] \subseteq h'[q].affected
  BY DEF ListedKept
<1>1. CASE q = p
  BY <1>1, DeleteFollowsCapture DEF Observe
<1>2. CASE q # p
  BY <1>2 DEF Observe, ListedKept
<1> QED
  BY <1>1, <1>2

LEMMA StepKeepsDriftInv ==
  ASSUME DriftInv, NEW p \in Procs, Step(p), Observe
  PROVE  TargetsCurrent' /\ ListedKept' /\ RoleAccounted'
<1>1. \A u \in UserIds : StepFacts(p, u)
  BY StepHasFacts DEF DriftInv
<1>2. TargetsCurrent' /\ RoleAccounted'
  BY <1>1, FactsKeepTargets, FactsKeepRoles DEF DriftInv
<1>3. ASSUME NEW q \in Procs \ {p} PROVE h'[q] = h[q]
  <2>1. h \in [Procs -> Frame]
    BY DEF DriftInv, HandlerInv, TypeOK
  <2>2. \A s : Answer(p, s) => h'[q] = h[q]
    BY <2>1 DEF Answer
  <2>3. \A k : Continue(p, k) => h'[q] = h[q]
    BY <2>1 DEF Continue
  <2> QED
    BY <2>2, <2>3
    DEF Step, FindGroup, CreateNew, GetGroup, UpdateAttributes, ParseMembers, Reconcile,
        AddMember, RemoveMember, Capture, DeleteCaptured, FetchGroups, GetUser, SetRole,
        Finish, Read, Call
<1>4. ListedKept'
  BY <1>3, StepKeepsListed DEF DriftInv
<1> QED
  BY <1>2, <1>4

(* Neither a new request nor an event outside touches a handler at work. *)
LEMMA OtherKeepsDriftInv ==
  ASSUME DriftInv, Observe,
         \A u \in UserIds : ustate'[u] = "active" =>
            /\ ustate[u] \in {"active", "suspended"}
            /\ role'[u] = role[u]
            /\ RoleByMembership(u)' = RoleByMembership(u),
         \A q \in Procs :
            \/ h'[q] = h[q]
            \/ h[q].pc = "idle" /\ h'[q].uid = "" /\ h'[q].pc # "delete"
  PROVE  TargetsCurrent' /\ ListedKept' /\ RoleAccounted'
<1>2. ASSUME NEW q \in Procs, NEW u \in UserIds, h'[q].uid = u, u \notin owed'
      PROVE  h'[q].target = RoleByMembership(u)'
  <2>1. h'[q] = h[q] /\ h[q].uid = u
    BY <1>2, NoNameAssumption
  <2>2. ~ Disturbed(u) /\ (u \in owed => Settled(u))
    BY <1>2 DEF Observe
  <2>3. RoleByMembership(u)' = RoleByMembership(u)
    BY <2>1, <2>2 DEF Disturbed, Overtaken
  <2>4. h[q].target = RoleByMembership(u)
    BY <2>1, <2>2 DEF Settled, TargetsCurrent, DriftInv
  <2> QED
    BY <2>1, <2>3, <2>4
<1>3. ASSUME NEW u \in UserIds, ustate'[u] = "active", u \notin owed',
             \A q \in Procs : u \notin h'[q].affected
      PROVE  RoleIsRight(u)'
  <2>1. ~ Disturbed(u) /\ (u \in owed => Settled(u))
    BY <1>3 DEF Observe
  <2>2. ustate[u] = "active"
    BY <1>3, <2>1 DEF Disturbed, Reactivated
  <2>3. \A q \in Procs : u \notin h[q].affected
    BY <1>3 DEF DriftInv, HandlerInv, UserAtHand, AtHand, RecomputeSteps
  <2>4. ~ Settled(u)
    BY <2>3, NoNameAssumption DEF DriftInv, HandlerInv, UserAtHand, AtHand, Settled
  <2> QED
    BY <1>3, <2>1, <2>2, <2>3, <2>4 DEF DriftInv, RoleAccounted, RoleIsRight
<1>4. ListedKept'
  BY DEF Observe, ListedKept, DriftInv
<1> QED
  BY <1>2, <1>3, <1>4 DEF TargetsCurrent, RoleAccounted

(* The end of the process leaves behind whom its handlers had ahead. *)
LEMMA ExitKeepsDriftInv ==
  ASSUME DriftInv, HandlerInv', Exit, Observe
  PROVE  DriftInv'
<1>1. \A p \in Procs : h'[p].pc = "idle" /\ h'[p].uid = "" /\ status'[p] = "none"
  BY DEF Exit, Idle
<1>2. UNCHANGED teamVars /\ UNCHANGED <<ustate, role>>
  BY DEF Exit, teamVars
<1>3. \A u : RoleByMembership(u)' = RoleByMembership(u)
  BY <1>2, SameTeamSameRole DEF teamVars, groupVars
<1>4. TargetsCurrent' /\ ListedKept'
  BY <1>1, NoNameAssumption DEF TargetsCurrent, ListedKept, Observe
<1>5. ASSUME NEW u \in UserIds, NEW p \in Procs, u \in h[p].affected
      PROVE  u \in owed'
  <2>1. h[p].pc # "idle"
    BY <1>5 DEF DriftInv, HandlerInv, UserAtHand, AtHand, RecomputeSteps
  <2>2. Fails(p)
    BY <1>1, <2>1 DEF Fails, Ends
  <2> QED
    BY <1>5, <2>2 DEF Observe, Disturbed, Abandoned
<1>6. \A u \in owed : u \in UserIds => u \in owed'
  BY <1>1 DEF Observe, Settled
<1>7. RoleAccounted'
  BY <1>2, <1>3, <1>5, <1>6 DEF DriftInv, RoleAccounted, RoleIsRight
<1> QED
  BY <1>4, <1>7 DEF DriftInv

LEMMA DriftInvInit == DInit => DriftInv
<1> SUFFICES ASSUME DInit PROVE DriftInv
  OBVIOUS
<1>1. HandlerInv
  BY HandlerInvInit DEF DInit
<1>2. \A p \in Procs : h[p].uid = ""
  BY DEF DInit, Init, Idle
<1> QED
  BY <1>1, <1>2, NoNameAssumption
  DEF DriftInv, TargetsCurrent, ListedKept, RoleAccounted, DInit

LEMMA DriftInvNext == DriftInv /\ [DNext]_dvars => DriftInv'
<1> SUFFICES ASSUME DriftInv, [DNext]_dvars PROVE DriftInv'
  OBVIOUS
<1>1. HandlerInv'
  BY HandlerInvNext DEF DriftInv, DNext, dvars
<1>2. ASSUME NEW p \in Procs, Step(p), Observe
      PROVE  DriftInv'
  BY <1>1, <1>2, StepKeepsDriftInv DEF DriftInv
<1>3. ASSUME NEW p \in Procs, NEW r \in Received, Receive(p, r), Observe
      PROVE  DriftInv'
  <2>1. h \in [Procs -> Frame]
    BY DEF DriftInv, HandlerInv, TypeOK
  <2>2. LET k == [Idle EXCEPT !.pc = FirstStep(r.op), !.req = r, !.gid = r.gid]
        IN k.uid = "" /\ k.pc # "delete"
    <3>1. r.op \in {"POST", "PUT", "PATCH", "DELETE"}
      BY ReceivedFacts DEF RequestType
    <3>2. FirstStep(r.op) # "delete"
      BY <3>1 DEF FirstStep
    <3> QED
      BY <3>2 DEF Idle
  <2>3. \A q \in Procs : \/ h'[q] = h[q]
                         \/ h[q].pc = "idle" /\ h'[q].uid = "" /\ h'[q].pc # "delete"
    BY <1>3, <2>1, <2>2 DEF Receive, Continue
  <2>4. UNCHANGED teamVars
    BY <1>3 DEF Receive
  <2>5. \A u \in UserIds : ustate'[u] = "active" =>
            /\ ustate[u] \in {"active", "suspended"}
            /\ role'[u] = role[u]
            /\ RoleByMembership(u)' = RoleByMembership(u)
    BY <2>4, SameTeamSameRole DEF teamVars, accountVars, groupVars
  <2> QED
    BY <1>1, <1>3, <2>3, <2>5, OtherKeepsDriftInv DEF DriftInv
<1>4. ASSUME AccountEvent, Observe
      PROVE  DriftInv'
  <2>1. ustate \in [UserIds -> UserStates] /\ members \in [GroupIds -> SUBSET UserIds]
    BY DEF DriftInv, HandlerInv, TypeOK, TeamTypeOK
  <2>2. \A q \in Procs : h'[q] = h[q]
    BY <1>4 DEF AccountEvent
  <2>3. ASSUME NEW u \in UserIds, ustate'[u] = "active"
        PROVE  /\ ustate[u] \in {"active", "suspended"}
               /\ role'[u] = role[u]
               /\ RoleByMembership(u)' = RoleByMembership(u)
    <3>1. PICK v \in UserIds :
            \/ ustate[v] = "active" /\ SuspendUser(v)
            \/ ustate[v] = "suspended" /\ ActivateUser(v)
            \/ HasUser(v) /\ DeleteUser(v)
      BY <1>4 DEF AccountEvent
    <3>2. CASE DeleteUser(v)
      <4>1. ustate[u] = "active" /\ u # v /\ role'[u] = role[u]
        BY <2>1, <2>3, <3>2 DEF DeleteUser
      <4>2. \A g \in GroupIds : u \in members'[g] <=> u \in members[g]
        BY <2>1, <3>2, <4>1 DEF DeleteUser
      <4>3. UserGroups(u)' = UserGroups(u) /\ gname' = gname
        BY <3>2, <4>2 DEF DeleteUser, UserGroups, HasGroup
      <4> QED
        BY <4>1, <4>3, SameGroupsSameRole
    <3>3. CASE SuspendUser(v)
      BY <2>1, <2>3, <3>3, SameTeamSameRole DEF SuspendUser
    <3>4. CASE ustate[v] = "suspended" /\ ActivateUser(v)
      BY <2>1, <2>3, <3>4, SameTeamSameRole DEF ActivateUser
    <3> QED
      BY <3>1, <3>2, <3>3, <3>4
  <2> QED
    BY <1>1, <1>4, <2>2, <2>3, OtherKeepsDriftInv DEF DriftInv
<1>5. CASE UNCHANGED dvars
  <2>1. UNCHANGED <<vars, teamVars, groupVars, owed, listed>>
    BY <1>5 DEF dvars, vars, teamVars, groupVars, accountVars
  <2>2. \A u : RoleByMembership(u)' = RoleByMembership(u)
    BY <2>1, SameTeamSameRole
  <2> QED
    BY <1>1, <2>1, <2>2
    DEF DriftInv, TargetsCurrent, ListedKept, RoleAccounted, RoleIsRight, vars, teamVars,
        accountVars
<1> QED
  BY <1>1, <1>2, <1>3, <1>4, <1>5, ExitKeepsDriftInv DEF DNext, Next

(* The invariant RolesAccounted rests on. *)
THEOREM DriftInvariant == DSpec => []DriftInv
  BY DriftInvInit, DriftInvNext, PTL DEF DSpec

(* However many handlers run at once and whatever fails, a role is out of   *)
(* step with the memberships only while its recomputation is ahead, or for  *)
(* one of the five reasons Disturbed lists.                                 *)
THEOREM RolesAccounted == DSpec => []RoleAccounted
<1>1. DriftInv => RoleAccounted
  BY DEF DriftInv
<1> QED
  BY <1>1, DriftInvariant, PTL

-----------------------------------------------------------------------------
(* Requests served one at a time *)

(* No active account is disturbed by a request that fails, a renamed group  *)
(* or a suspension that ends.                                               *)
Calm ==
  \A u \in UserIds :
    ustate'[u] = "active" => ~ (Abandoned(u) \/ Renamed(u) \/ Reactivated(u))

(* The runs in which no such thing happens.  The other two disturbances     *)
(* take two requests that overlap.                                          *)
CalmSpec == DInit /\ RoleMatchesMembership /\ [][DNext /\ Calm]_dvars

(* No active account is owed anything, and nobody joins a group between the *)
(* listing of its members and its deletion.                                 *)
OwedInactive == \A u \in owed : ustate[u] # "active"
AllListed == \A p \in Procs : h[p].pc = "delete" => members[h[p].gid] \subseteq listed[p]

(* Nothing but the handler's own edits moves the user at hand.              *)
LEMMA NotOvertaken ==
  ASSUME Serial, HandlerInv, Next, NEW u \in UserIds, ustate'[u] = "active"
  PROVE  ~ Overtaken(u)
<1> SUFFICES ASSUME NEW p \in Procs, h[p].uid = u,
                    RoleByMembership(u)' # RoleByMembership(u)
             PROVE  FALSE
  BY DEF Overtaken
<1>1. h[p].pc \in {"getUser", "setRole"}
  BY NoNameAssumption DEF HandlerInv, UserAtHand, AtHand
<1>2. ~ UNCHANGED groupVars
  BY SameTeamSameRole
<1>3. ~ Step(p)
  BY <1>1, <1>2
  DEF Step, FindGroup, CreateNew, GetGroup, UpdateAttributes, ParseMembers, Reconcile,
      AddMember, RemoveMember, Capture, DeleteCaptured, FetchGroups, GetUser, SetRole,
      Finish, EditsDone, Read, Call, UpdateUserRole, teamVars, groupVars
<1>4. ~ (\E q \in Procs, r \in Received : Receive(q, r)) /\ ~ Exit
  BY <1>2 DEF Receive, Exit, teamVars, groupVars
<1>5. AccountEvent /\ \A q \in Procs : ~ Step(q)
  BY <1>3, <1>4 DEF Next, Serial
<1>6. PICK v \in UserIds : SuspendUser(v) \/ ActivateUser(v) \/ DeleteUser(v)
  BY <1>5 DEF AccountEvent
<1>7. DeleteUser(v)
  BY <1>2, <1>6 DEF SuspendUser, ActivateUser
<1>8. ustate \in [UserIds -> UserStates] /\ members \in [GroupIds -> SUBSET UserIds]
  BY DEF HandlerInv, TypeOK, TeamTypeOK
<1>9. u # v
  BY <1>7, <1>8 DEF DeleteUser
<1>10. UserGroups(u)' = UserGroups(u) /\ gname' = gname
  <2>1. \A g \in GroupIds : u \in members'[g] <=> u \in members[g]
    BY <1>7, <1>8, <1>9 DEF DeleteUser
  <2> QED
    BY <1>7, <2>1 DEF DeleteUser, UserGroups, HasGroup
<1> QED
  BY <1>10, SameGroupsSameRole

LEMMA CalmKeepsInactive ==
  ASSUME Serial, HandlerInv, ListedKept, OwedInactive, AllListed, Next, Observe, Calm
  PROVE  OwedInactive'
<1> SUFFICES ASSUME NEW u \in UserIds, u \in owed', ustate'[u] = "active"
             PROVE  FALSE
  BY DEF OwedInactive, Observe
<1>1. ~ Abandoned(u) /\ ~ Renamed(u) /\ ~ Reactivated(u)
  BY DEF Calm
<1>2. ~ Overtaken(u)
  BY NotOvertaken
<1>3. ~ Uncaptured(u)
  BY DEF Uncaptured, AllListed
<1>4. u \in owed
  BY <1>1, <1>2, <1>3 DEF Observe, Disturbed
<1>5. ustate[u] # "active"
  BY <1>4 DEF OwedInactive
<1>6. ustate[u] # "suspended"
  BY <1>1 DEF Reactivated
<1>7. ustate \in [UserIds -> UserStates]
  BY DEF HandlerInv, TypeOK, TeamTypeOK
<1>8. \A p \in Procs : Step(p) => UNCHANGED ustate
  BY StepHasFacts DEF StepFacts
<1>9. ~ UNCHANGED ustate
  BY <1>5
<1>10. AccountEvent
  BY <1>8, <1>9 DEF Next, Receive, Exit, teamVars
<1> QED
  BY <1>5, <1>6, <1>7, <1>10 DEF AccountEvent, SuspendUser, ActivateUser, DeleteUser

LEMMA CalmKeepsListed ==
  ASSUME Serial, HandlerInv, AllListed, Next, Observe
  PROVE  AllListed'
<1> SUFFICES ASSUME NEW p \in Procs, h'[p].pc = "delete"
             PROVE  members'[h'[p].gid] \subseteq listed'[p]
  BY DEF AllListed
<1>1. h[p] \in Frame /\ h \in [Procs -> Frame]
  BY DEF HandlerInv, TypeOK
<1>2. CASE Step(p)
  <2>1. h[p].pc = "capture"
    BY <1>2, DeleteFollowsCapture
  <2>2. listed'[p] = members[h[p].gid]
    BY <2>1 DEF Observe
  <2>3. Capture(p)
    BY <1>2, <2>1
    DEF Step, FindGroup, CreateNew, GetGroup, UpdateAttributes, ParseMembers, Reconcile,
        AddMember, RemoveMember, DeleteCaptured, FetchGroups, GetUser, SetRole,
        Finish, EditsDone
  <2>4. Idle.pc = "idle"
    BY DEF Idle
  <2>5. \A s : ~ Answer(p, s)
    BY <1>1, <2>4 DEF Answer
  <2>6. members' = members /\ Continue(p, [h[p] EXCEPT !.pc = "delete", !.affected = members[h[p].gid]])
    BY <2>3, <2>5 DEF Capture, Read, Call, teamVars
  <2>7. h'[p].gid = h[p].gid
    BY <1>1, <2>6 DEF Continue, Frame
  <2> QED
    BY <2>2, <2>6, <2>7
<1>3. CASE AccountEvent
  <2>1. h' = h /\ listed'[p] = listed[p]
    BY <1>3 DEF AccountEvent, Observe
  <2>2. h[p].gid \in GroupIds
    BY <2>1, TrackFacts
  <2>3. members'[h[p].gid] \subseteq members[h[p].gid]
    BY <1>3, <2>2 DEF AccountEvent, SuspendUser, ActivateUser, DeleteUser, groupVars
  <2> QED
    BY <2>1, <2>3 DEF AllListed
<1>4. ASSUME NEW q \in Procs, NEW r \in Received, Receive(q, r)
      PROVE  FALSE
  <2>1. r.op \in {"POST", "PUT", "PATCH", "DELETE"}
    BY ReceivedFacts DEF RequestType
  <2>2. FirstStep(r.op) # "delete"
    BY <2>1 DEF FirstStep
  <2>3. [Idle EXCEPT !.pc = FirstStep(r.op), !.req = r, !.gid = r.gid].pc = FirstStep(r.op)
    BY DEF Idle
  <2> QED
    BY <1>1, <1>4, <2>2, <2>3 DEF Receive, Continue, Serial
<1>5. CASE Exit
  BY <1>5 DEF Exit, Idle
<1> QED
  BY <1>2, <1>3, <1>4, <1>5 DEF Next, Serial

(* Requests served one at a time, in any number and any order, accounts     *)
(* suspended and deleted meanwhile: as long as no request fails after its   *)
(* first edit, no group is renamed and no suspension ends, every active     *)
(* account has the role its groups give it whenever nothing is being served *)
(* (README.md:21-23).                                                       *)
THEOREM RolesMatchWhenCalm ==
  ASSUME Serial
  PROVE  CalmSpec => []RoleMatchesMembership
<1> DEFINE Inv == DriftInv /\ OwedInactive /\ AllListed
<1>1. DInit /\ RoleMatchesMembership => Inv
  <2> SUFFICES ASSUME DInit, RoleMatchesMembership PROVE OwedInactive /\ AllListed
    BY DriftInvInit
  <2>1. \A p \in Procs : h[p].pc = "idle"
    BY DEF DInit, Init, Idle
  <2> QED
    BY <2>1 DEF DInit, OwedInactive, AllListed, RoleMatchesMembership, RoleIsRight
<1>2. Inv /\ [DNext /\ Calm]_dvars => Inv'
  <2> SUFFICES ASSUME Inv, [DNext /\ Calm]_dvars PROVE Inv'
    OBVIOUS
  <2>1. DriftInv' /\ HandlerInv /\ ListedKept
    BY DriftInvNext DEF DriftInv
  <2>2. CASE DNext /\ Calm
    BY <2>1, <2>2, CalmKeepsInactive, CalmKeepsListed DEF DNext
  <2>3. CASE UNCHANGED dvars
    BY <2>1, <2>3 DEF dvars, vars, teamVars, OwedInactive, AllListed
  <2> QED
    BY <2>2, <2>3
<1>3. Inv => RoleMatchesMembership
  <2> SUFFICES ASSUME Inv, \A p \in Procs : h[p].pc = "idle",
                      NEW u \in UserIds, ustate[u] = "active"
               PROVE  RoleIsRight(u)
    BY DEF RoleMatchesMembership, RoleIsRight
  <2>1. \A p \in Procs : h[p].affected = {}
    BY DEF DriftInv, HandlerInv, UserAtHand, AtHand, RecomputeSteps
  <2> QED
    BY <2>1 DEF DriftInv, RoleAccounted, OwedInactive
<1> QED
  BY <1>1, <1>2, <1>3, PTL DEF CalmSpec
=============================================================================
