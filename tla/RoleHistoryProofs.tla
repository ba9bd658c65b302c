-------------------------- MODULE RoleHistoryProofs --------------------------
(***************************************************************************)
(* RoleEarned and OnlyTouchedChange, for any numbers of users, groups,     *)
(* handlers and requests, and any failures.                                *)
(***************************************************************************)
EXTENDS RoleHistory, ScimGroupsProofs

(* What README.md:45-49 says of roles is what DeriveRole computes. *)
LEMMA GrantedIsDerived == \A u : Granted(u) = RoleByMembership(u)
<1> SUFFICES ASSUME NEW u PROVE Granted(u) = RoleByMembership(u)
  OBVIOUS
<1> DEFINE held == {RoleKey[n] : n \in {gname[g] : g \in UserGroups(u)}}
           In(keys) == \E g \in GroupIds :
                         HasGroup(g) /\ u \in members[g] /\ RoleKey[gname[g]] \in keys
<1>1. \A keys : In(keys) <=> ContainsAny(held, keys)
  BY DEF ContainsAny, UserGroups
<1>2. Granted(u) = IF In(AdminKeys) THEN "admin" ELSE IF In(MemberKeys) THEN "member" ELSE "viewer"
  BY DEF Granted
<1>3. RoleByMembership(u) =
        CASE ContainsAny(held, AdminKeys) -> "admin"
          [] ~ ContainsAny(held, AdminKeys) /\ ContainsAny(held, MemberKeys) -> "member"
          [] OTHER -> "viewer"
  BY DEF RoleByMembership, DeriveRole
<1> HIDE DEF held, In
<1> QED
  BY <1>1, <1>2, <1>3

Work(f) == f.add \cup f.rem \cup f.affected

MayReconcile(f) == f.pc = "reconcile" => f.req.op = "PUT" \/ f.req.edit = "replace"

(* One step of the handler of p, as the history sees it. *)
HistoryFacts(p) ==
  /\ h[p].pc # "idle"
  /\ \A q \in Procs \ {p} : h'[q] = h[q]
  /\ Work(h'[p]) \subseteq Work(h[p]) \cup Concerned(h[p])
  /\ MayReconcile(h'[p])
  /\ \A u \in UserIds : role'[u] # role[u] => h[p].uid = u /\ role'[u] = h[p].target
  /\ h'[p].uid # "" =>
       \/ h'[p].uid = h[p].uid /\ h'[p].target = h[p].target
       \/ h'[p].target = RoleByMembership(h'[p].uid) /\ UNCHANGED teamVars

LEMMA AnswerFacts ==
  ASSUME HandlerInv, NEW p \in Procs, NEW s, Answer(p, s), h[p].pc # "idle",
         \A u \in UserIds : role'[u] # role[u] => h[p].uid = u /\ role'[u] = h[p].target
  PROVE  HistoryFacts(p)
<1>1. h'[p] = Idle /\ \A q \in Procs \ {p} : h'[q] = h[q]
  BY DEF Answer, HandlerInv, TypeOK
<1>2. Idle.pc = "idle" /\ Idle.uid = "" /\ Work(Idle) = {}
  BY DEF Idle, Work
<1> QED
  BY <1>1, <1>2 DEF HistoryFacts, MayReconcile

LEMMA ContinueFacts ==
  ASSUME HandlerInv, NEW p \in Procs, NEW k, Continue(p, k), h[p].pc # "idle",
         Work(k) \subseteq Work(h[p]) \cup Concerned(h[p]), MayReconcile(k),
         \A u \in UserIds : role'[u] # role[u] => h[p].uid = u /\ role'[u] = h[p].target,
         k.uid # "" => \/ k.uid = h[p].uid /\ k.target = h[p].target
                       \/ k.target = RoleByMembership(k.uid) /\ UNCHANGED teamVars
  PROVE  HistoryFacts(p)
<1>1. h'[p] = k /\ \A q \in Procs \ {p} : h'[q] = h[q]
  BY DEF Continue, HandlerInv, TypeOK
<1> QED
  BY <1>1 DEF HistoryFacts

(* The calls that leave every account alone. *)
LEMMA EffectsOnRoles ==
  /\ UNCHANGED teamVars => UNCHANGED role
  /\ \A g, n, x : CreateGroup(g, n, x) \/ UpdateGroup(g, n, x) => UNCHANGED role
  /\ \A g : DeleteGroup(g) => UNCHANGED role
  /\ \A g, u : AddUserToGroup(g, u) \/ RemoveUserFromGroup(g, u) => UNCHANGED role
  BY DEF teamVars, accountVars, CreateGroup, UpdateGroup, DeleteGroup, AddUserToGroup,
         RemoveUserFromGroup

LEMMA StepHasHistoryFacts ==
  ASSUME HandlerInv, ReconcileReplaces, NEW p \in Procs, Step(p)
  PROVE  HistoryFacts(p)
<1> DEFINE f == h[p]
<1>1. TypeOK /\ f \in Frame /\ AtHand(f) /\ MayReconcile(f)
  BY DEF HandlerInv, TypeOK, UserAtHand, ReconcileReplaces, MayReconcile
<1>2. f.pc # "idle"
  BY DEF Step, FindGroup, CreateNew, GetGroup, UpdateAttributes, ParseMembers, Reconcile,
         AddMember, RemoveMember, Capture, DeleteCaptured, FetchGroups, GetUser, SetRole,
         Finish, EditsDone
<1>3. /\ f.req.op \in {"POST", "PUT", "PATCH", "DELETE"}
      /\ f.pc \in StepsOf(f.req.op)
      /\ f.pc \notin {"find", "create"} => f.gid \in GroupIds
  BY <1>2, TrackFacts
<1>4. ASSUME NEW s, Answer(p, s), UNCHANGED role
      PROVE  HistoryFacts(p)
  BY <1>2, <1>4, AnswerFacts
<1>5. ASSUME NEW k, Continue(p, k), UNCHANGED role, MayReconcile(k),
             Work(k) \subseteq Work(f) \cup Concerned(f),
             k.uid = f.uid, k.target = f.target
      PROVE  HistoryFacts(p)
  BY <1>2, <1>5, ContinueFacts
<1> HIDE DEF f
<1> USE DEF Read, Call
<1>6. CASE FindGroup(p)
  <2>1. f.pc = "find" /\ f.req.op = "POST"
    BY <1>3, <1>6 DEF FindGroup, StepsOf, RecomputeSteps, f
  <2>2. Concerned(f) = f.req.members \cup f.req.remove
    BY <2>1 DEF Concerned
  <2>3. ASSUME NEW pc \in {"update", "work"}, NEW g
        PROVE  LET k == [f EXCEPT !.gid = g, !.add = f.req.members, !.ext = f.req.ext, !.pc = pc]
               IN /\ MayReconcile(k) /\ Work(k) \subseteq Work(f) \cup Concerned(f)
                  /\ k.uid = f.uid /\ k.target = f.target
    BY <1>1, <2>2 DEF Frame, MayReconcile, Work
  <2>4. LET k == [f EXCEPT !.add = f.req.members, !.pc = "create"]
        IN /\ MayReconcile(k) /\ Work(k) \subseteq Work(f) \cup Concerned(f)
           /\ k.uid = f.uid /\ k.target = f.target
    BY <1>1, <2>2 DEF Frame, MayReconcile, Work
  <2> QED
    BY <1>4, <1>5, <1>6, <2>3, <2>4, EffectsOnRoles DEF FindGroup, f
<1>7. CASE CreateNew(p)
  <2>1. ASSUME NEW g
        PROVE  LET k == [f EXCEPT !.pc = "work", !.gid = g]
               IN /\ MayReconcile(k) /\ Work(k) \subseteq Work(f) \cup Concerned(f)
                  /\ k.uid = f.uid /\ k.target = f.target
    BY <1>1 DEF Frame, MayReconcile, Work
  <2> QED
    BY <1>4, <1>5, <1>7, <2>1, EffectsOnRoles DEF CreateNew, f
<1>8. CASE GetGroup(p)
  <2>1. f.pc = "get" /\ f.req.op \in {"PUT", "PATCH"}
    BY <1>3, <1>8 DEF GetGroup, StepsOf, RecomputeSteps, f
  <2>2. ASSUME NEW pc \in {"update", "reconcile", "parse"}, NEW n, NEW x,
               pc = "reconcile" => f.req.op = "PUT",
               Continue(p, [f EXCEPT !.pc = pc, !.name = n, !.ext = x]), UNCHANGED role
        PROVE  HistoryFacts(p)
    <3> DEFINE k == [f EXCEPT !.pc = pc, !.name = n, !.ext = x]
    <3>1. /\ MayReconcile(k) /\ Work(k) \subseteq Work(f) \cup Concerned(f)
          /\ k.uid = f.uid /\ k.target = f.target
      BY <1>1, <2>2 DEF Frame, MayReconcile, Work
    <3>2. Continue(p, k)
      BY <2>2
    <3> HIDE DEF k
    <3> QED
      BY <1>5, <2>2, <3>1, <3>2
  <2>3. UNCHANGED role
    BY <1>8, EffectsOnRoles DEF GetGroup
  <2>4. \/ \E s : Answer(p, s)
        \/ \E pc \in {"update", "reconcile", "parse"} : \E n, x :
             /\ pc = "reconcile" => f.req.op = "PUT"
             /\ Continue(p, [f EXCEPT !.pc = pc, !.name = n, !.ext = x])
    BY <1>8 DEF GetGroup, f
  <2> QED
    BY <1>4, <2>2, <2>3, <2>4
<1>9. CASE UpdateAttributes(p)
  <2>1. f.pc = "update" /\ f.req.op \in {"POST", "PUT", "PATCH"}
    BY <1>3, <1>9 DEF UpdateAttributes, StepsOf, RecomputeSteps, f
  <2>2. LET k == [f EXCEPT !.pc = AfterUpdate(f.req.op)]
        IN /\ MayReconcile(k) /\ Work(k) \subseteq Work(f) \cup Concerned(f)
           /\ k.uid = f.uid /\ k.target = f.target
    BY <1>1, <2>1 DEF Frame, MayReconcile, Work, AfterUpdate
  <2> QED
    BY <1>4, <1>5, <1>9, <2>2, EffectsOnRoles DEF UpdateAttributes, f
<1>10. CASE ParseMembers(p)
  <2>1. f.pc = "parse" /\ f.req.op = "PATCH"
    BY <1>3, <1>10 DEF ParseMembers, StepsOf, RecomputeSteps, f
  <2>2. f.req.edit = "replace" =>
          LET k == [f EXCEPT !.pc = "reconcile"]
          IN /\ MayReconcile(k) /\ Work(k) \subseteq Work(f) \cup Concerned(f)
             /\ k.uid = f.uid /\ k.target = f.target
    BY <1>1 DEF Frame, MayReconcile, Work
  <2>3. f.req.edit # "replace" => Concerned(f) = f.req.members \cup f.req.remove
    BY <2>1 DEF Concerned
  <2>4. f.req.edit # "replace" =>
          LET k == [f EXCEPT !.pc = "work", !.add = f.req.members, !.rem = f.req.remove]
          IN /\ MayReconcile(k) /\ Work(k) \subseteq Work(f) \cup Concerned(f)
             /\ k.uid = f.uid /\ k.target = f.target
    BY <1>1, <2>3 DEF Frame, MayReconcile, Work
  <2> QED
    BY <1>4, <1>5, <1>10, <2>2, <2>4, EffectsOnRoles DEF ParseMembers, f
<1>11. CASE Reconcile(p)
  <2>1. /\ f.pc = "reconcile" /\ f.gid \in GroupIds /\ f.gid # ""
        /\ f.req.op = "PUT" \/ (f.req.op = "PATCH" /\ f.req.edit = "replace")
    BY <1>1, <1>3, <1>11, NoNameAssumption
    DEF Reconcile, StepsOf, RecomputeSteps, MayReconcile, f
  <2>2. Concerned(f) = (members[f.gid] \ f.req.members) \cup (f.req.members \ members[f.gid])
    BY <2>1 DEF Concerned
  <2>3. ASSUME NEW add, NEW rem, add \cup rem \subseteq Concerned(f)
        PROVE  LET k == [f EXCEPT !.pc = "work", !.add = add, !.rem = rem]
               IN /\ MayReconcile(k) /\ Work(k) \subseteq Work(f) \cup Concerned(f)
                  /\ k.uid = f.uid /\ k.target = f.target
    BY <1>1, <2>3 DEF Frame, MayReconcile, Work
  <2>4. LET k == [f EXCEPT !.pc = "work", !.add = Missing(members[f.gid], f.req.members),
                           !.rem = Surplus(members[f.gid], f.req.members)]
        IN /\ MayReconcile(k) /\ Work(k) \subseteq Work(f) \cup Concerned(f)
           /\ k.uid = f.uid /\ k.target = f.target
    BY <2>2, <2>3 DEF Missing, Surplus
  <2> QED
    BY <1>4, <1>5, <1>11, <2>4, EffectsOnRoles DEF Reconcile, f
<1>12. CASE AddMember(p)
  <2>1. f.pc = "work"
    BY <1>12 DEF AddMember, f
  <2>2. ASSUME NEW v \in f.add
        PROVE  LET k == [f EXCEPT !.add = @ \ {v}, !.affected = @ \cup {v}]
               IN /\ MayReconcile(k) /\ Work(k) \subseteq Work(f) \cup Concerned(f)
                  /\ k.uid = f.uid /\ k.target = f.target
    BY <1>1, <2>1 DEF Frame, MayReconcile, Work
  <2> QED
    BY <1>4, <1>5, <1>12, <2>2, EffectsOnRoles DEF AddMember, f
<1>13. CASE RemoveMember(p)
  <2>1. f.pc = "work"
    BY <1>13 DEF RemoveMember, f
  <2>2. ASSUME NEW v \in f.rem
        PROVE  LET k == [f EXCEPT !.rem = @ \ {v}, !.affected = @ \cup {v}]
               IN /\ MayReconcile(k) /\ Work(k) \subseteq Work(f) \cup Concerned(f)
                  /\ k.uid = f.uid /\ k.target = f.target
    BY <1>1, <2>1 DEF Frame, MayReconcile, Work
  <2> QED
    BY <1>4, <1>5, <1>13, <2>2, EffectsOnRoles DEF RemoveMember, f
<1>14. CASE Capture(p)
  <2>1. f.pc = "capture" /\ f.req.op = "DELETE" /\ f.gid \in GroupIds /\ f.gid # ""
    BY <1>3, <1>14, NoNameAssumption DEF Capture, StepsOf, RecomputeSteps, f
  <2>2. Concerned(f) = members[f.gid]
    BY <2>1 DEF Concerned
  <2>3. LET k == [f EXCEPT !.pc = "delete", !.affected = members[f.gid]]
        IN /\ MayReconcile(k) /\ Work(k) \subseteq Work(f) \cup Concerned(f)
           /\ k.uid = f.uid /\ k.target = f.target
    BY <1>1, <2>2 DEF Frame, MayReconcile, Work
  <2> QED
    BY <1>4, <1>5, <1>14, <2>3, EffectsOnRoles DEF Capture, f
<1>15. CASE DeleteCaptured(p)
  <2>1. LET k == [f EXCEPT !.pc = "work"]
        IN /\ MayReconcile(k) /\ Work(k) \subseteq Work(f) \cup Concerned(f)
           /\ k.uid = f.uid /\ k.target = f.target
    BY <1>1 DEF Frame, MayReconcile, Work
  <2> QED
    BY <1>4, <1>5, <1>15, <2>1, EffectsOnRoles DEF DeleteCaptured, f
<1>16. CASE FetchGroups(p)
  <2>1. PICK v \in f.affected :
          Read(p, TRUE, Continue(p, [f EXCEPT !.pc = "getUser", !.uid = v,
                                              !.target = RoleByMembership(v)]))
    BY <1>16 DEF FetchGroups, f
  <2>2. LET k == [f EXCEPT !.pc = "getUser", !.uid = v, !.target = RoleByMembership(v)]
        IN /\ MayReconcile(k) /\ Work(k) \subseteq Work(f) \cup Concerned(f)
           /\ k.uid = v /\ k.target = RoleByMembership(v)
    BY <1>1 DEF Frame, MayReconcile, Work
  <2>3. CASE UNCHANGED teamVars /\ Continue(p, [f EXCEPT !.pc = "getUser", !.uid = v,
                                                  !.target = RoleByMembership(v)])
    BY <1>2, <2>2, <2>3, ContinueFacts, EffectsOnRoles DEF f
  <2> QED
    BY <1>4, <2>1, <2>3, EffectsOnRoles
<1>17. LET k == UserDone(f)
       IN /\ MayReconcile(k) /\ Work(k) \subseteq Work(f) \cup Concerned(f) /\ k.uid = ""
  BY <1>1 DEF Frame, MayReconcile, Work, UserDone
<1>18. ASSUME Continue(p, UserDone(f)),
              \A u \in UserIds : role'[u] # role[u] => f.uid = u /\ role'[u] = f.target
       PROVE  HistoryFacts(p)
  BY <1>2, <1>17, <1>18, ContinueFacts DEF f
<1>19. CASE GetUser(p)
  <2>1. f.pc = "getUser"
    BY <1>19 DEF GetUser, f
  <2>2. LET k == [f EXCEPT !.pc = "setRole"]
        IN /\ MayReconcile(k) /\ Work(k) \subseteq Work(f) \cup Concerned(f)
           /\ k.uid = f.uid /\ k.target = f.target
    BY <1>1 DEF Frame, MayReconcile, Work
  <2> QED
    BY <1>4, <1>5, <1>18, <1>19, <2>2, EffectsOnRoles DEF GetUser, f
<1>20. CASE SetRole(p)
  <2>1. UpdateUserRole(f.uid, f.target) =>
          \A u \in UserIds : role'[u] # role[u] => f.uid = u /\ role'[u] = f.target
    BY <1>1 DEF UpdateUserRole, TypeOK, TeamTypeOK
  <2>2. CASE UpdateUserRole(f.uid, f.target) /\ Answer(p, "upstream")
    BY <1>2, <2>1, <2>2, AnswerFacts DEF f
  <2>3. CASE UpdateUserRole(f.uid, f.target) /\ Continue(p, UserDone(f))
    BY <1>18, <2>1, <2>3
  <2> QED
    BY <1>4, <1>20, <2>2, <2>3, EffectsOnRoles DEF SetRole, f
<1>21. CASE Finish(p)
  BY <1>4, <1>21, EffectsOnRoles DEF Finish
<1> QED
  BY <1>6, <1>7, <1>8, <1>9, <1>10, <1>11, <1>12, <1>13, <1>14, <1>15, <1>16, <1>19,
     <1>20, <1>21 DEF Step

-----------------------------------------------------------------------------
LEMMA StepKeepsHistory ==
  ASSUME HistoryInv, NEW p \in Procs, Step(p), Record
  PROVE  WorkIsTouched' /\ RoleEarned' /\ TargetEarned' /\ ReconcileReplaces'
<1>1. HistoryFacts(p)
  BY StepHasHistoryFacts DEF HistoryInv
<1>2. \A u \in UserIds : earned[u] \subseteq earned'[u] /\ Granted(u)' \in earned'[u]
  BY DEF Record
<1>3. WorkIsTouched'
  <2>1. SUFFICES ASSUME NEW q \in Procs, h'[q].pc # "idle"
                 PROVE  Work(h'[q]) \subseteq touched'[q]
    BY DEF WorkIsTouched, Work
  <2>2. h[q].pc # "idle" => Work(h[q]) \subseteq touched[q]
    BY DEF HistoryInv, WorkIsTouched, Work
  <2>3. touched'[q] = IF h'[q].pc = "idle" THEN {} ELSE touched[q] \cup Concerned(h[q])
    BY DEF Record
  <2> QED
    BY <1>1, <2>1, <2>2, <2>3 DEF HistoryFacts
<1>4. RoleEarned'
  <2>1. SUFFICES ASSUME NEW u \in UserIds PROVE role'[u] \in earned'[u]
    BY DEF RoleEarned
  <2>2. CASE role'[u] = role[u]
    BY <1>2, <2>2 DEF HistoryInv, RoleEarned
  <2>3. CASE role'[u] # role[u]
    <3>1. h[p].uid = u /\ role'[u] = h[p].target
      BY <1>1, <2>3 DEF HistoryFacts
    <3>2. h[p].target \in earned[u]
      BY <3>1, NoNameAssumption DEF HistoryInv, TargetEarned
    <3> QED
      BY <1>2, <3>1, <3>2
  <2> QED
    BY <2>2, <2>3
<1>5. TargetEarned'
  <2>1. SUFFICES ASSUME NEW q \in Procs, h'[q].uid # ""
                 PROVE  h'[q].target \in earned'[h'[q].uid]
    BY DEF TargetEarned
  <2>2. h[q].uid \in UserIds \cup {""} /\ h'[q].uid \in UserIds
    BY <2>1, StepTyped DEF HistoryInv, HandlerInv, TypeOK, Frame
  <2>3. CASE h'[q].uid = h[q].uid /\ h'[q].target = h[q].target
    BY <1>2, <2>1, <2>2, <2>3 DEF HistoryInv, TargetEarned
  <2>4. CASE h'[q].target = RoleByMembership(h'[q].uid) /\ UNCHANGED teamVars
    <3>1. RoleByMembership(h'[q].uid) = Granted(h'[q].uid)
      BY GrantedIsDerived
    <3>2. \A u : Granted(u)' = Granted(u)
      BY <2>4 DEF Granted, HasGroup, teamVars
    <3> QED
      BY <1>2, <2>2, <2>4, <3>1, <3>2
  <2>5. q # p => h'[q] = h[q]
    BY <1>1 DEF HistoryFacts
  <2> QED
    BY <1>1, <2>1, <2>3, <2>4, <2>5 DEF HistoryFacts
<1>6. ReconcileReplaces'
  BY <1>1 DEF HistoryFacts, MayReconcile, HistoryInv, ReconcileReplaces
<1> QED
  BY <1>3, <1>4, <1>5, <1>6

LEMMA OtherKeepsHistory ==
  ASSUME HistoryInv, Record, UNCHANGED role,
         \A q \in Procs : h'[q] = h[q] \/ (Work(h'[q]) = {} /\ h'[q].uid = ""
                                           /\ h'[q].pc # "reconcile")
  PROVE  WorkIsTouched' /\ RoleEarned' /\ TargetEarned' /\ ReconcileReplaces'
<1>1. \A u \in UserIds : earned[u] \subseteq earned'[u]
  BY DEF Record
<1>2. WorkIsTouched'
  <2>1. SUFFICES ASSUME NEW q \in Procs, h'[q].pc # "idle"
                 PROVE  Work(h'[q]) \subseteq touched'[q]
    BY DEF WorkIsTouched, Work
  <2>2. h[q].pc # "idle" => Work(h[q]) \subseteq touched[q]
    BY DEF HistoryInv, WorkIsTouched, Work
  <2>3. touched'[q] = touched[q] \cup Concerned(h[q])
    BY <2>1 DEF Record
  <2> QED
    BY <2>1, <2>2, <2>3
<1>3. RoleEarned'
  BY <1>1 DEF HistoryInv, RoleEarned
<1>4. TargetEarned'
  <2>1. SUFFICES ASSUME NEW q \in Procs, h'[q].uid # ""
                 PROVE  h'[q].target \in earned'[h'[q].uid]
    BY DEF TargetEarned
  <2>2. h'[q] = h[q] /\ h[q].uid \in UserIds
    BY <2>1 DEF HistoryInv, HandlerInv, TypeOK, Frame
  <2> QED
    BY <1>1, <2>1, <2>2 DEF HistoryInv, TargetEarned
<1>5. ReconcileReplaces'
  BY DEF HistoryInv, ReconcileReplaces
<1> QED
  BY <1>2, <1>3, <1>4, <1>5

LEMMA HistoryInvInit == HInit => HistoryInv
<1> SUFFICES ASSUME HInit PROVE HistoryInv
  OBVIOUS
<1>1. HandlerInv
  BY HandlerInvInit DEF HInit
<1>2. \A p \in Procs : h[p].pc = "idle" /\ h[p].uid = ""
  BY DEF HInit, Init, Idle
<1> QED
  BY <1>1, <1>2
  DEF HInit, HistoryInv, WorkIsTouched, RoleEarned, TargetEarned, ReconcileReplaces

LEMMA HistoryInvNext == HistoryInv /\ [HNext]_hvars => HistoryInv'
<1> SUFFICES ASSUME HistoryInv, [HNext]_hvars PROVE HistoryInv'
  OBVIOUS
<1>1. HandlerInv'
  BY HandlerInvNext DEF HistoryInv, HNext, hvars
<1>2. ASSUME NEW p \in Procs, Step(p), Record
      PROVE  HistoryInv'
  BY <1>1, <1>2, StepKeepsHistory DEF HistoryInv
<1>3. ASSUME NEW p \in Procs, NEW r \in Received, Receive(p, r), Record
      PROVE  HistoryInv'
  <2> DEFINE k == [Idle EXCEPT !.pc = FirstStep(r.op), !.req = r, !.gid = r.gid]
  <2>1. Work(k) = {} /\ k.uid = "" /\ k.pc # "reconcile"
    BY ReceivedFacts DEF Idle, Work, FirstStep, RequestType
  <2>2. h \in [Procs -> Frame]
    BY DEF HistoryInv, HandlerInv, TypeOK
  <2>3. \A q \in Procs : h'[q] = h[q] \/ h'[q] = k
    BY <1>3, <2>2 DEF Receive, Continue
  <2>4. UNCHANGED role
    BY <1>3 DEF Receive, teamVars
  <2> HIDE DEF k
  <2> QED
    BY <1>1, <1>3, <2>1, <2>3, <2>4, OtherKeepsHistory DEF HistoryInv
<1>4. ASSUME AccountEvent, Record
      PROVE  HistoryInv'
  <2>1. UNCHANGED <<h, role>>
    BY <1>4 DEF AccountEvent, SuspendUser, ActivateUser, DeleteUser
  <2> QED
    BY <1>1, <1>4, <2>1, OtherKeepsHistory DEF HistoryInv
<1>5. ASSUME Exit, Record
      PROVE  HistoryInv'
  <2>1. Work(Idle) = {} /\ Idle.uid = "" /\ Idle.pc # "reconcile"
    BY DEF Idle, Work
  <2>2. \A q \in Procs : h'[q] = Idle
    BY <1>5 DEF Exit
  <2>3. UNCHANGED role
    BY <1>5 DEF Exit, teamVars
  <2> QED
    BY <1>1, <1>5, <2>1, <2>2, <2>3, OtherKeepsHistory DEF HistoryInv
<1>6. CASE UNCHANGED hvars
  BY <1>1, <1>6
  DEF HistoryInv, WorkIsTouched, RoleEarned, TargetEarned, ReconcileReplaces, hvars, vars,
      teamVars
<1> QED
  BY <1>2, <1>3, <1>4, <1>5, <1>6 DEF HNext, Next

(* The invariant that the two theorems below rest on: handlers work only on *)
(* users they have touched, and write only roles those users have earned.   *)
THEOREM HistoryInvariant == HSpec => []HistoryInv
  BY HistoryInvInit, HistoryInvNext, PTL DEF HSpec

(* No user ever has a role other than the initial one and those that the    *)
(* groups the user was in gave at some one moment.                          *)
THEOREM RolesAreEarned == HSpec => []RoleEarned
<1>1. HistoryInv => RoleEarned
  BY DEF HistoryInv
<1> QED
  BY <1>1, HistoryInvariant, PTL

(* Only users a request in progress concerns are ever modified. *)
THEOREM OnlyTouchedUsersChange == HSpec => OnlyTouchedChange
<1>1. HistoryInv /\ [HNext]_hvars =>
        [\A u \in UserIds : role'[u] # role[u] => \E p \in Procs : u \in touched[p]]_hvars
  <2>1. SUFFICES ASSUME HistoryInv, HNext, NEW u \in UserIds, role'[u] # role[u]
                 PROVE  \E p \in Procs : u \in touched[p]
    OBVIOUS
  <2>2. PICK p \in Procs : Step(p)
    BY <2>1 DEF HNext, Next, Receive, Exit, AccountEvent, SuspendUser, ActivateUser, DeleteUser,
                teamVars
  <2>3. h[p].uid = u /\ h[p].pc # "idle"
    BY <2>1, <2>2, StepHasHistoryFacts DEF HistoryInv, HistoryFacts
  <2>4. u \in h[p].affected
    <3>1. AtHand(h[p])
      BY <2>1 DEF HistoryInv, HandlerInv, UserAtHand
    <3>2. h[p].uid # ""
      BY <2>3, NoNameAssumption
    <3> QED
      BY <2>3, <3>1, <3>2 DEF AtHand
  <2>5. h[p].add \cup h[p].rem \cup h[p].affected \subseteq touched[p]
    BY <2>1, <2>3 DEF HistoryInv, WorkIsTouched
  <2> QED
    BY <2>4, <2>5
<1> QED
  BY <1>1, HistoryInvariant, PTL DEF HSpec, OnlyTouchedChange
=============================================================================
