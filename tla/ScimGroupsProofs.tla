--------------------------- MODULE ScimGroupsProofs ---------------------------
(***************************************************************************)
(* Type correctness of the /Groups handlers, for any numbers of users,     *)
(* groups, handlers and requests, and any failures.                        *)
(***************************************************************************)
EXTENDS ScimGroups, TLAPS

(* A role map always yields a role. *)
LEMMA DeriveRoleType == ASSUME NEW names PROVE DeriveRole(names) \in Roles
  BY DEF DeriveRole, Roles

LEMMA RoleByMembershipType == \A u : RoleByMembership(u) \in Roles
  BY DeriveRoleType DEF RoleByMembership

FramesOK == h \in [Procs -> Frame] /\ status \in [Procs -> Answers]

AnyRequest ==
  [op : {"", "POST", "PUT", "PATCH", "DELETE"}, gid : GroupIds \cup {""},
   name : GroupNames \cup {""}, ext : GroupExts \cup {""},
   edit : {"delta", "replace", "invalid"},
   members : SUBSET UserIds, remove : SUBSET UserIds, ops : Seq(GroupOp)]

-----------------------------------------------------------------------------
(* What a PATCH is reduced to *)

LEMMA LastGivenType ==
  ASSUME NEW S, NEW given, \A i \in DOMAIN given : given[i] \subseteq S
  PROVE  LastGiven(given) \subseteq S \cup {""}
  BY DEF LastGiven, Latest

LEMMA PatchTyped ==
  ASSUME NEW ops \in Seq(GroupOp)
  PROVE  /\ NamesGiven(ops) \subseteq GroupNames \cup {""}
         /\ ExtsGiven(ops) \subseteq GroupExts \cup {""}
         /\ Edit(ops) \in {"delta", "replace", "invalid"}
         /\ MembersWanted(ops) \in SUBSET UserIds
         /\ Listed(ops, "remove") \in SUBSET UserIds
<1>0. \A i \in DOMAIN ops : ops[i] \in GroupOp
  OBVIOUS
<1>1. \A i \in DOMAIN ops : ops[i].name \subseteq GroupNames
                            /\ ops[i].ext \subseteq GroupExts /\ ops[i].ids \subseteq UserIds
  BY <1>0 DEF GroupOp
<1> DEFINE names == [i \in DOMAIN ops |-> IF Assigns(ops[i]) THEN ops[i].name ELSE {}]
           exts == [i \in DOMAIN ops |-> IF Assigns(ops[i]) THEN ops[i].ext ELSE {}]
<1>2. \A i \in DOMAIN names : names[i] \subseteq GroupNames
  BY <1>1
<1>3. \A i \in DOMAIN exts : exts[i] \subseteq GroupExts
  BY <1>1
<1> HIDE DEF names, exts
<1>4. NamesGiven(ops) \subseteq GroupNames \cup {""}
  BY <1>2, LastGivenType DEF NamesGiven, names
<1>5. ExtsGiven(ops) \subseteq GroupExts \cup {""}
  BY <1>3, LastGivenType DEF ExtsGiven, exts
<1>6. Edit(ops) \in {"delta", "replace", "invalid"}
  BY DEF Edit
<1>7. \A op : Listed(ops, op) \in SUBSET UserIds
  BY <1>1 DEF Listed, MemberOps
<1>8. MembersWanted(ops) \in SUBSET UserIds
  BY <1>1, <1>7 DEF MembersWanted, Replacements, MemberOps, Latest
<1> QED
  BY <1>4, <1>5, <1>6, <1>7, <1>8

(* Decoding changes neither the operation nor the group it is about. *)
LEMMA ReceivedFacts ==
  ASSUME NEW r \in Received
  PROVE  /\ r \in RequestType
         /\ r.op = "POST" => r.name # ""
         /\ r.op # "POST" => r.gid \in GroupIds
<1>1. PICK raw \in Requests : r \in Decoded(raw)
  BY DEF Received
<1>2. /\ raw \in RequestType
      /\ raw.op = "POST" => raw.name # ""
      /\ raw.op # "POST" => raw.gid \in GroupIds
  BY RequestsAssumption
<1>3. CASE raw.op = "PATCH"
  <2>1. PICK n \in NamesGiven(raw.ops), x \in ExtsGiven(raw.ops) :
          r = Reduced(raw, n, x)
    BY <1>1, <1>3 DEF Decoded, Reductions
  <2>2. raw.ops \in Seq(GroupOp)
    BY <1>2 DEF RequestType
  <2>3. /\ n \in GroupNames \cup {""} /\ x \in GroupExts \cup {""}
        /\ Edit(raw.ops) \in {"delta", "replace", "invalid"}
        /\ MembersWanted(raw.ops) \in SUBSET UserIds
        /\ Listed(raw.ops, "remove") \in SUBSET UserIds
    BY <2>1, <2>2, PatchTyped
  <2>4. r.op = "PATCH" /\ r.gid = raw.gid /\ r \in RequestType
    BY <1>2, <1>3, <2>1, <2>3 DEF RequestType, Reduced
  <2> QED
    BY <1>2, <1>3, <2>4
<1>4. CASE raw.op # "PATCH"
  <2>1. Decoded(raw) = {raw}
    BY <1>4, Zenon DEF Decoded
  <2>2. r = raw
    BY <1>1, <2>1
  <2> QED
    BY <1>2, <2>2
<1> QED
  BY <1>3, <1>4

LEMMA RequestTyped ==
  ASSUME TypeOK, NEW p \in Procs
  PROVE  h[p] \in Frame /\ h[p].req \in AnyRequest
<1>1. h[p] \in Frame
  BY DEF TypeOK
<1>2. h[p].req \in Received \cup {NoRequest}
  BY <1>1 DEF Frame
<1>3. NoRequest \in AnyRequest
  BY DEF NoRequest, AnyRequest
<1>4. Received \subseteq AnyRequest
  <2>1. RequestType \subseteq AnyRequest
    BY DEF RequestType, AnyRequest
  <2> QED
    BY <2>1, ReceivedFacts
<1> QED
  BY <1>1, <1>2, <1>3, <1>4

LEMMA AnswerTyped ==
  ASSUME TypeOK, NEW p \in Procs, NEW s \in Answers, Answer(p, s)
  PROVE  FramesOK'
<1>1. Idle \in Frame
  BY DEF Idle, Frame, Steps, Roles
<1> QED
  BY <1>1 DEF TypeOK, FramesOK, Answer

LEMMA ContinueTyped ==
  ASSUME TypeOK, NEW p \in Procs, NEW f \in Frame, Continue(p, f)
  PROVE  FramesOK'
  BY DEF TypeOK, FramesOK, Continue

LEMMA TeamTyped ==
  ASSUME TeamTypeOK
  PROVE  /\ UNCHANGED teamVars => TeamTypeOK'
         /\ \A g \in GroupIds, n \in GroupNames \cup {""}, x \in GroupExts \cup {""} :
              CreateGroup(g, n, x) => TeamTypeOK'
         /\ \A g, n, x :
              /\ n \in GroupNames \cup {""} /\ x \in GroupExts \cup {""}
              /\ UpdateGroup(g, n, x)
              => TeamTypeOK'
         /\ \A g : DeleteGroup(g) => TeamTypeOK'
         /\ \A g, u : u \in UserIds /\ AddUserToGroup(g, u) => TeamTypeOK'
         /\ \A g, u : RemoveUserFromGroup(g, u) => TeamTypeOK'
         /\ \A u : \A r \in Roles : UpdateUserRole(u, r) => TeamTypeOK'
         /\ \A u : SuspendUser(u) => TeamTypeOK'
         /\ \A u : ActivateUser(u) => TeamTypeOK'
         /\ \A u : DeleteUser(u) => TeamTypeOK'
<1> USE DEF TeamTypeOK, teamVars, accountVars, groupVars
<1>1. UNCHANGED teamVars => TeamTypeOK'
  OBVIOUS
<1>2. ASSUME NEW g \in GroupIds, NEW n \in GroupNames \cup {""},
             NEW x \in GroupExts \cup {""}, CreateGroup(g, n, x)
      PROVE  TeamTypeOK'
  <2>1. gstate' \in [GroupIds -> GroupStates]
    BY <1>2 DEF CreateGroup, GroupStates
  <2>2. gname' \in [GroupIds -> GroupNames \cup {""}]
    BY <1>2 DEF CreateGroup
  <2>3. gext' \in [GroupIds -> GroupExts \cup {""}]
    BY <1>2 DEF CreateGroup
  <2>4. members' \in [GroupIds -> SUBSET UserIds]
    BY <1>2 DEF CreateGroup
  <2> QED
    BY <1>2, <2>1, <2>2, <2>3, <2>4 DEF CreateGroup
<1>3. ASSUME NEW g, NEW n, NEW x, n \in GroupNames \cup {""},
             x \in GroupExts \cup {""}, UpdateGroup(g, n, x)
      PROVE  TeamTypeOK'
  <2>1. gname' \in [GroupIds -> GroupNames \cup {""}]
    <3>1. CASE n = ""
      BY <1>3, <3>1 DEF UpdateGroup
    <3>2. CASE n # ""
      BY <1>3, <3>2 DEF UpdateGroup
    <3> QED
      BY <3>1, <3>2
  <2>2. gext' \in [GroupIds -> GroupExts \cup {""}]
    <3>1. CASE x = ""
      BY <1>3, <3>1 DEF UpdateGroup
    <3>2. CASE x # ""
      BY <1>3, <3>2 DEF UpdateGroup
    <3> QED
      BY <3>1, <3>2
  <2> QED
    BY <1>3, <2>1, <2>2 DEF UpdateGroup
<1>4. \A g : DeleteGroup(g) => TeamTypeOK'
  BY DEF DeleteGroup, GroupStates
<1>5. ASSUME NEW g, NEW u \in UserIds, AddUserToGroup(g, u)
      PROVE  TeamTypeOK'
  <2>1. members' \in [GroupIds -> SUBSET UserIds]
    BY <1>5 DEF AddUserToGroup
  <2> QED
    BY <1>5, <2>1 DEF AddUserToGroup
<1>6. \A g, u : RemoveUserFromGroup(g, u) => TeamTypeOK'
  BY DEF RemoveUserFromGroup
<1>7. \A u : \A r \in Roles : UpdateUserRole(u, r) => TeamTypeOK'
  BY DEF UpdateUserRole
<1>8. \A u : SuspendUser(u) => TeamTypeOK'
  BY DEF SuspendUser, UserStates
<1>9. \A u : ActivateUser(u) => TeamTypeOK'
  BY DEF ActivateUser, UserStates
<1>10. ASSUME NEW u, DeleteUser(u)
       PROVE  TeamTypeOK'
  <2>1. ustate' \in [UserIds -> UserStates]
    BY <1>10 DEF DeleteUser, UserStates
  <2>2. members' \in [GroupIds -> SUBSET UserIds]
    BY <1>10 DEF DeleteUser
  <2> QED
    BY <1>10, <2>1, <2>2 DEF DeleteUser
<1> QED
  BY <1>1, <1>2, <1>3, <1>4, <1>5, <1>6, <1>7, <1>8, <1>9, <1>10

(* What OnTrack says of a handler at work. *)
LEMMA TrackFacts ==
  ASSUME HandlerInv, NEW p \in Procs, h[p].pc # "idle"
  PROVE  /\ h[p].req \in Received
         /\ h[p].req.op \in {"POST", "PUT", "PATCH", "DELETE"}
         /\ h[p].pc \in StepsOf(h[p].req.op)
         /\ h[p].pc \notin {"find", "create"} => h[p].gid \in GroupIds
  BY ReceivedFacts DEF HandlerInv, OnTrack, RequestType

(* A step by a handler keeps every type. *)
LEMMA StepTyped ==
  ASSUME HandlerInv, NEW p \in Procs, Step(p)
  PROVE  TypeOK'
<1> DEFINE f == h[p]
<1> SUFFICES TeamTypeOK' /\ FramesOK'
  BY DEF TypeOK, FramesOK
<1>0. TypeOK
  BY DEF HandlerInv
<1>1. /\ TeamTypeOK /\ f \in Frame /\ f.req \in AnyRequest
      /\ f.gid \in GroupIds \cup {""} /\ f.req.name \in GroupNames \cup {""}
      /\ f.req.ext \in GroupExts \cup {""}
      /\ f.req.members \in SUBSET UserIds /\ f.req.remove \in SUBSET UserIds
  BY <1>0, RequestTyped DEF TypeOK, Frame, AnyRequest
<1>2. \A s \in Answers : Answer(p, s) => FramesOK'
  BY <1>0, AnswerTyped
<1>3. \A k \in Frame : Continue(p, k) => FramesOK'
  BY <1>0, ContinueTyped
<1>4. {"ok", "badRequest", "notFound", "upstream"} \subseteq Answers
  BY DEF Answers
<1> HIDE DEF f
<1>5. UNCHANGED teamVars => TeamTypeOK'
  BY <1>1, TeamTyped
<1>6. CASE FindGroup(p)
  <2>1. \A g \in GroupIds : \A pc \in Steps :
          [f EXCEPT !.gid = g, !.add = f.req.members, !.ext = f.req.ext, !.pc = pc] \in Frame
    BY <1>1 DEF Frame
  <2>2. [f EXCEPT !.add = f.req.members, !.pc = "create"] \in Frame
    BY <1>1 DEF Frame, Steps
  <2> QED
    BY <1>2, <1>3, <1>4, <1>5, <1>6, <2>1, <2>2
    DEF FindGroup, Read, Call, GroupsNamed, Steps, f
<1>7. CASE CreateNew(p)
  <2>1. ASSUME NEW g \in GroupIds
        PROVE  [f EXCEPT !.pc = "work", !.gid = g] \in Frame
    BY <1>1 DEF Frame, Steps
  <2>2. ASSUME NEW g \in GroupIds, CreateGroup(g, f.req.name, f.req.ext)
        PROVE  TeamTypeOK'
    BY <1>1, <2>2, TeamTyped
  <2> QED
    BY <1>2, <1>3, <1>4, <1>5, <1>7, <2>1, <2>2 DEF CreateNew, Call, FreshIds, f
<1>8. CASE GetGroup(p)
  <2>1. ASSUME NEW pc \in Steps, NEW n \in GroupNames \cup {""}, NEW x \in GroupExts \cup {""}
        PROVE  [f EXCEPT !.pc = pc, !.name = n, !.ext = x] \in Frame
    BY <1>1 DEF Frame
  <2> QED
    BY <1>1, <1>2, <1>3, <1>4, <1>5, <1>8, <2>1 DEF GetGroup, Read, Call, Changed, Steps, f
<1>9. CASE UpdateAttributes(p)
  <2>1. f.pc = "update" /\ f.req.op \in {"POST", "PUT", "PATCH"}
    BY <1>9, TrackFacts DEF UpdateAttributes, StepsOf, RecomputeSteps, f
  <2>2. [f EXCEPT !.pc = AfterUpdate(f.req.op)] \in Frame
    BY <1>1, <2>1 DEF AfterUpdate, Steps, Frame
  <2>3. UpdateGroup(f.gid, f.name, f.ext) => TeamTypeOK'
    BY <1>1, TeamTyped DEF Frame
  <2> QED
    BY <1>2, <1>3, <1>4, <1>5, <1>9, <2>2, <2>3 DEF UpdateAttributes, Call, f
<1>10. CASE ParseMembers(p)
  <2>1. /\ [f EXCEPT !.pc = "reconcile"] \in Frame
        /\ [f EXCEPT !.pc = "work", !.add = f.req.members, !.rem = f.req.remove] \in Frame
    BY <1>1 DEF Frame, Steps
  <2> QED
    BY <1>2, <1>3, <1>4, <1>5, <1>10, <2>1 DEF ParseMembers, f
<1>11. CASE Reconcile(p)
  <2>1. members[f.gid] \in SUBSET UserIds
    BY <1>1, <1>11, TrackFacts DEF Reconcile, TeamTypeOK, f
  <2>2. /\ Missing(members[f.gid], f.req.members) \in SUBSET UserIds
        /\ Surplus(members[f.gid], f.req.members) \in SUBSET UserIds
    BY <1>1, <2>1 DEF Missing, Surplus
  <2>3. \A add, rem \in SUBSET UserIds :
          [f EXCEPT !.pc = "work", !.add = add, !.rem = rem] \in Frame
    BY <1>1 DEF Frame, Steps
  <2> QED
    BY <1>2, <1>3, <1>4, <1>5, <1>11, <2>2, <2>3 DEF Reconcile, Read, Call, f
<1>12. CASE AddMember(p)
  <2>1. ASSUME NEW u \in f.add
        PROVE  u \in UserIds /\ [f EXCEPT !.add = @ \ {u}, !.affected = @ \cup {u}] \in Frame
    BY <1>1 DEF Frame
  <2>2. ASSUME NEW u \in f.add, AddUserToGroup(f.gid, u)
        PROVE  TeamTypeOK'
    BY <1>1, <2>1, <2>2, TeamTyped
  <2> QED
    BY <1>2, <1>3, <1>4, <1>5, <1>12, <2>1, <2>2 DEF AddMember, Call, f
<1>13. CASE RemoveMember(p)
  <2>1. ASSUME NEW u \in f.rem
        PROVE  [f EXCEPT !.rem = @ \ {u}, !.affected = @ \cup {u}] \in Frame
    BY <1>1 DEF Frame
  <2>2. ASSUME NEW u \in f.rem, RemoveUserFromGroup(f.gid, u)
        PROVE  TeamTypeOK'
    BY <1>1, <2>2, TeamTyped
  <2> QED
    BY <1>2, <1>3, <1>4, <1>5, <1>13, <2>1, <2>2 DEF RemoveMember, Call, f
<1>14. CASE Capture(p)
  <2>1. members[f.gid] \in SUBSET UserIds
    BY <1>1, <1>14, TrackFacts DEF Capture, TeamTypeOK, f
  <2>2. [f EXCEPT !.pc = "delete", !.affected = members[f.gid]] \in Frame
    BY <1>1, <2>1 DEF Frame, Steps
  <2> QED
    BY <1>2, <1>3, <1>4, <1>5, <1>14, <2>2 DEF Capture, Read, Call, f
<1>15. CASE DeleteCaptured(p)
  <2>1. [f EXCEPT !.pc = "work"] \in Frame
    BY <1>1 DEF Frame, Steps
  <2>2. DeleteGroup(f.gid) => TeamTypeOK'
    BY <1>1, TeamTyped
  <2> QED
    BY <1>2, <1>3, <1>4, <1>5, <1>15, <2>1, <2>2 DEF DeleteCaptured, Call, f
<1>16. CASE FetchGroups(p)
  <2>1. ASSUME NEW u \in f.affected
        PROVE  [f EXCEPT !.pc = "getUser", !.uid = u, !.target = RoleByMembership(u)] \in Frame
    BY <1>1, RoleByMembershipType DEF Frame, Steps
  <2> QED
    BY <1>2, <1>3, <1>4, <1>5, <1>16, <2>1 DEF FetchGroups, Read, Call, f
<1>17. UserDone(f) \in Frame
  BY <1>1 DEF UserDone, Frame, Steps, Roles
<1>18. CASE GetUser(p)
  <2>1. [f EXCEPT !.pc = "setRole"] \in Frame
    BY <1>1 DEF Frame, Steps
  <2> QED
    BY <1>2, <1>3, <1>4, <1>5, <1>17, <1>18, <2>1 DEF GetUser, Read, Call, f
<1>19. CASE SetRole(p)
  <2>1. UpdateUserRole(f.uid, f.target) => TeamTypeOK'
    BY <1>1, TeamTyped DEF Frame
  <2> QED
    BY <1>2, <1>3, <1>4, <1>5, <1>17, <1>19, <2>1 DEF SetRole, Call, f
<1>20. CASE Finish(p)
  BY <1>2, <1>4, <1>5, <1>20 DEF Finish, Read, Call
<1> QED
  BY <1>6, <1>7, <1>8, <1>9, <1>10, <1>11, <1>12, <1>13, <1>14, <1>15, <1>16,
     <1>18, <1>19, <1>20 DEF Step

-----------------------------------------------------------------------------
(* A step by the handler of p keeps it, and leaves the others, on track. *)
LEMMA StepOnTrack ==
  ASSUME HandlerInv, NEW p \in Procs, Step(p)
  PROVE  OnTrack'
<1> DEFINE f == h[p]
           On(k) == k.pc # "idle" =>
                      /\ k.req \in Received
                      /\ k.pc \in StepsOf(k.req.op)
                      /\ k.pc \notin {"find", "create"} => k.gid \in GroupIds
<1>1. TypeOK /\ f \in Frame /\ f.req \in AnyRequest
  BY RequestTyped DEF HandlerInv
<1>2. f.pc # "idle"
  BY DEF Step, FindGroup, CreateNew, GetGroup, UpdateAttributes, ParseMembers, Reconcile,
         AddMember, RemoveMember, Capture, DeleteCaptured, FetchGroups, GetUser, SetRole,
         Finish, EditsDone
<1>3. /\ f.req \in Received
      /\ f.req.op \in {"POST", "PUT", "PATCH", "DELETE"}
      /\ f.pc \in StepsOf(f.req.op)
      /\ f.pc \notin {"find", "create"} => f.gid \in GroupIds
  BY <1>2, TrackFacts
<1>4. ASSUME NEW s, Answer(p, s)
      PROVE  OnTrack'
  BY <1>1, <1>4 DEF Answer, OnTrack, Idle, HandlerInv, TypeOK
<1>5. ASSUME NEW k, Continue(p, k), On(k)
      PROVE  OnTrack'
  BY <1>1, <1>5 DEF Continue, OnTrack, HandlerInv, TypeOK
<1> HIDE DEF f
<1>6. CASE FindGroup(p)
  <2>1. f.pc = "find" /\ f.req.op = "POST"
    BY <1>3, <1>6 DEF FindGroup, StepsOf, RecomputeSteps, f
  <2>2. ASSUME NEW g \in GroupIds, NEW pc \in {"update", "work"}
        PROVE  On([f EXCEPT !.gid = g, !.add = f.req.members, !.ext = f.req.ext, !.pc = pc])
    BY <1>1, <1>3, <2>1 DEF StepsOf, RecomputeSteps, Frame
  <2>3. On([f EXCEPT !.add = f.req.members, !.pc = "create"])
    BY <1>1, <1>3, <2>1 DEF StepsOf, Frame
  <2> HIDE DEF On
  <2> QED
    BY <1>4, <1>5, <1>6, <2>2, <2>3 DEF FindGroup, Read, Call, GroupsNamed, f
<1>7. CASE CreateNew(p)
  <2>1. f.pc = "create" /\ f.req.op = "POST"
    BY <1>3, <1>7 DEF CreateNew, StepsOf, RecomputeSteps, f
  <2>2. ASSUME NEW g \in GroupIds
        PROVE  On([f EXCEPT !.pc = "work", !.gid = g])
    BY <1>1, <1>3, <2>1 DEF StepsOf, RecomputeSteps, Frame
  <2> HIDE DEF On
  <2> QED
    BY <1>4, <1>5, <1>7, <2>2 DEF CreateNew, Call, FreshIds, f
<1>8. CASE GetGroup(p)
  <2>1. f.pc = "get" /\ f.req.op \in {"PUT", "PATCH"}
    BY <1>3, <1>8 DEF GetGroup, StepsOf, RecomputeSteps, f
  <2>2. ASSUME NEW n, NEW x, NEW pc \in {"update", "reconcile", "parse"},
               pc = "reconcile" => f.req.op = "PUT", pc = "parse" => f.req.op = "PATCH"
        PROVE  On([f EXCEPT !.pc = pc, !.name = n, !.ext = x])
    BY <1>1, <1>3, <2>1, <2>2 DEF StepsOf, Frame
  <2> HIDE DEF On
  <2>3. CASE f.req.op = "PUT"
    BY <1>4, <1>5, <1>8, <2>2, <2>3 DEF GetGroup, Read, Call, f
  <2>4. CASE f.req.op = "PATCH"
    BY <1>4, <1>5, <1>8, <2>2, <2>4 DEF GetGroup, Read, Call, f
  <2> QED
    BY <2>1, <2>3, <2>4
<1>9. CASE UpdateAttributes(p)
  <2>1. f.pc = "update" /\ f.req.op \in {"POST", "PUT", "PATCH"}
    BY <1>3, <1>9 DEF UpdateAttributes, StepsOf, RecomputeSteps, f
  <2>2. On([f EXCEPT !.pc = AfterUpdate(f.req.op)])
    BY <1>1, <1>3, <2>1 DEF AfterUpdate, StepsOf, RecomputeSteps, Frame
  <2> HIDE DEF On
  <2> QED
    BY <1>4, <1>5, <1>9, <2>2 DEF UpdateAttributes, Call, f
<1>10. CASE ParseMembers(p)
  <2>1. f.pc = "parse" /\ f.req.op = "PATCH"
    BY <1>3, <1>10 DEF ParseMembers, StepsOf, RecomputeSteps, f
  <2>2. /\ On([f EXCEPT !.pc = "reconcile"])
        /\ On([f EXCEPT !.pc = "work", !.add = f.req.members, !.rem = f.req.remove])
    BY <1>1, <1>3, <2>1 DEF StepsOf, RecomputeSteps, Frame
  <2> HIDE DEF On
  <2> QED
    BY <1>4, <1>5, <1>10, <2>2 DEF ParseMembers, f
<1>12. ASSUME NEW k, Continue(p, k), k.pc \in RecomputeSteps \cup {"delete"},
              k.pc = "delete" => f.req.op = "DELETE",
              k.req = f.req, k.gid = f.gid, f.gid \in GroupIds
       PROVE  OnTrack'
  <2>1. On(k)
    BY <1>3, <1>12 DEF StepsOf
  <2> QED
    BY <1>5, <1>12, <2>1
<1> HIDE DEF On
<1>13. CASE Reconcile(p)
  <2>1. f.gid \in GroupIds
    BY <1>3, <1>13 DEF Reconcile, f
  <2>2. \A add, rem : LET k == [f EXCEPT !.pc = "work", !.add = add, !.rem = rem]
                      IN k.pc = "work" /\ k.req = f.req /\ k.gid = f.gid
    BY <1>1 DEF Frame
  <2> QED
    BY <1>4, <1>12, <1>13, <2>1, <2>2 DEF Reconcile, Read, Call, RecomputeSteps, f
<1>14. CASE AddMember(p)
  <2>1. f.pc = "work" /\ f.gid \in GroupIds
    BY <1>3, <1>14 DEF AddMember, f
  <2>2. \A u : LET k == [f EXCEPT !.add = @ \ {u}, !.affected = @ \cup {u}]
               IN k.pc = "work" /\ k.req = f.req /\ k.gid = f.gid
    BY <1>1, <2>1 DEF Frame
  <2> QED
    BY <1>4, <1>12, <1>14, <2>1, <2>2 DEF AddMember, Call, RecomputeSteps, f
<1>15. CASE RemoveMember(p)
  <2>1. f.pc = "work" /\ f.gid \in GroupIds
    BY <1>3, <1>15 DEF RemoveMember, f
  <2>2. \A u : LET k == [f EXCEPT !.rem = @ \ {u}, !.affected = @ \cup {u}]
               IN k.pc = "work" /\ k.req = f.req /\ k.gid = f.gid
    BY <1>1, <2>1 DEF Frame
  <2> QED
    BY <1>4, <1>12, <1>15, <2>1, <2>2 DEF RemoveMember, Call, RecomputeSteps, f
<1>16. CASE Capture(p)
  <2>1. f.pc = "capture" /\ f.req.op = "DELETE" /\ f.gid \in GroupIds
    BY <1>3, <1>16 DEF Capture, StepsOf, RecomputeSteps, f
  <2>2. \A aff : LET k == [f EXCEPT !.pc = "delete", !.affected = aff]
                 IN k.pc = "delete" /\ k.req = f.req /\ k.gid = f.gid
    BY <1>1 DEF Frame
  <2> QED
    BY <1>4, <1>12, <1>16, <2>1, <2>2 DEF Capture, Read, Call, f
<1>17. CASE DeleteCaptured(p)
  <2>1. f.gid \in GroupIds
    BY <1>3, <1>17 DEF DeleteCaptured, f
  <2>2. LET k == [f EXCEPT !.pc = "work"]
        IN k.pc = "work" /\ k.req = f.req /\ k.gid = f.gid
    BY <1>1 DEF Frame
  <2> QED
    BY <1>4, <1>12, <1>17, <2>1, <2>2 DEF DeleteCaptured, Call, RecomputeSteps, f
<1>18. CASE FetchGroups(p)
  <2>1. f.gid \in GroupIds
    BY <1>3, <1>18 DEF FetchGroups, EditsDone, f
  <2>2. \A u, t : LET k == [f EXCEPT !.pc = "getUser", !.uid = u, !.target = t]
                  IN k.pc = "getUser" /\ k.req = f.req /\ k.gid = f.gid
    BY <1>1 DEF Frame
  <2> QED
    BY <1>4, <1>12, <1>18, <2>1, <2>2 DEF FetchGroups, Read, Call, RecomputeSteps, f
<1>19. UserDone(f).pc = "work" /\ UserDone(f).req = f.req /\ UserDone(f).gid = f.gid
  BY <1>1 DEF UserDone, Frame
<1>20. CASE GetUser(p)
  <2>1. f.gid \in GroupIds
    BY <1>3, <1>20 DEF GetUser, f
  <2>2. LET k == [f EXCEPT !.pc = "setRole"]
        IN k.pc = "setRole" /\ k.req = f.req /\ k.gid = f.gid
    BY <1>1 DEF Frame
  <2> QED
    BY <1>4, <1>12, <1>19, <1>20, <2>1, <2>2 DEF GetUser, Read, Call, RecomputeSteps, f
<1>21. CASE SetRole(p)
  <2>1. f.gid \in GroupIds
    BY <1>3, <1>21 DEF SetRole, f
  <2> QED
    BY <1>4, <1>12, <1>19, <1>21, <2>1 DEF SetRole, Call, RecomputeSteps, f
<1>22. CASE Finish(p)
  BY <1>4, <1>22 DEF Finish, Read, Call
<1> QED
  BY <1>6, <1>7, <1>8, <1>9, <1>10, <1>13, <1>14, <1>15, <1>16, <1>17, <1>18, <1>20,
     <1>21, <1>22 DEF Step

(* A step by the handler of p keeps its affected users and the one at hand  *)
(* in order.                                                                *)
LEMMA StepAtHand ==
  ASSUME HandlerInv, NEW p \in Procs, Step(p)
  PROVE  UserAtHand'
<1> DEFINE f == h[p]
<1>1. f \in Frame /\ AtHand(f) /\ h \in [Procs -> Frame]
  BY DEF HandlerInv, TypeOK, UserAtHand
<1>2. ASSUME NEW s, Answer(p, s)
      PROVE  UserAtHand'
  BY <1>1, <1>2 DEF Answer, HandlerInv, UserAtHand, AtHand, Idle
<1>3. ASSUME NEW k, Continue(p, k), AtHand(k)
      PROVE  UserAtHand'
  BY <1>1, <1>3 DEF Continue, HandlerInv, UserAtHand
<1> HIDE DEF f
<1> USE DEF Read, Call, RecomputeSteps
<1>4. CASE FindGroup(p)
  <2>1. f.pc = "find" /\ f.uid = "" /\ f.affected = {}
    BY <1>1, <1>4 DEF FindGroup, AtHand, f
  <2>2. ASSUME NEW pc \in {"update", "work"}, NEW g
        PROVE  AtHand([f EXCEPT !.gid = g, !.add = f.req.members, !.ext = f.req.ext, !.pc = pc])
    BY <1>1, <2>1 DEF AtHand, Frame
  <2>3. AtHand([f EXCEPT !.add = f.req.members, !.pc = "create"])
    BY <1>1, <2>1 DEF AtHand, Frame
  <2> QED
    BY <1>2, <1>3, <1>4, <2>2, <2>3 DEF FindGroup, f
<1>5. CASE CreateNew(p)
  <2>1. f.pc = "create" /\ f.uid = ""
    BY <1>1, <1>5 DEF CreateNew, AtHand, f
  <2>2. \A g : AtHand([f EXCEPT !.pc = "work", !.gid = g])
    BY <1>1, <2>1 DEF AtHand, Frame
  <2> QED
    BY <1>2, <1>3, <1>5, <2>2 DEF CreateNew, f
<1>6. CASE GetGroup(p)
  <2>1. f.pc = "get" /\ f.uid = "" /\ f.affected = {}
    BY <1>1, <1>6 DEF GetGroup, AtHand, f
  <2>2. ASSUME NEW pc \in {"update", "reconcile", "parse"}, NEW n, NEW x
        PROVE  AtHand([f EXCEPT !.pc = pc, !.name = n, !.ext = x])
    BY <1>1, <2>1 DEF AtHand, Frame
  <2>3. \/ \E s : Answer(p, s)
        \/ \E pc \in {"update", "reconcile", "parse"} : \E n, x :
             Continue(p, [f EXCEPT !.pc = pc, !.name = n, !.ext = x])
    BY <1>6 DEF GetGroup, f
  <2> QED
    BY <1>2, <1>3, <2>2, <2>3
<1>7. CASE UpdateAttributes(p)
  <2>1. f.pc = "update" /\ f.uid = "" /\ f.affected = {}
        /\ f.req.op \in {"POST", "PUT", "PATCH"}
    BY <1>1, <1>7, TrackFacts DEF UpdateAttributes, AtHand, StepsOf, f
  <2>2. AtHand([f EXCEPT !.pc = AfterUpdate(f.req.op)])
    BY <1>1, <2>1 DEF AtHand, Frame, AfterUpdate
  <2> QED
    BY <1>2, <1>3, <1>7, <2>2 DEF UpdateAttributes, f
<1>8. CASE ParseMembers(p)
  <2>1. f.pc = "parse" /\ f.uid = "" /\ f.affected = {}
    BY <1>1, <1>8 DEF ParseMembers, AtHand, f
  <2>2. /\ AtHand([f EXCEPT !.pc = "reconcile"])
        /\ AtHand([f EXCEPT !.pc = "work", !.add = f.req.members, !.rem = f.req.remove])
    BY <1>1, <2>1 DEF AtHand, Frame
  <2> QED
    BY <1>2, <1>3, <1>8, <2>2 DEF ParseMembers, f
<1>9. CASE Reconcile(p)
  <2>1. f.pc = "reconcile" /\ f.uid = ""
    BY <1>1, <1>9 DEF Reconcile, AtHand, f
  <2>2. \A add, rem : AtHand([f EXCEPT !.pc = "work", !.add = add, !.rem = rem])
    BY <1>1, <2>1 DEF AtHand, Frame
  <2> QED
    BY <1>2, <1>3, <1>9, <2>2 DEF Reconcile, f
<1>10. CASE AddMember(p)
  <2>1. f.pc = "work" /\ f.uid = ""
    BY <1>1, <1>10 DEF AddMember, AtHand, f
  <2>2. \A v : AtHand([f EXCEPT !.add = @ \ {v}, !.affected = @ \cup {v}])
    BY <1>1, <2>1 DEF AtHand, Frame
  <2> QED
    BY <1>2, <1>3, <1>10, <2>2 DEF AddMember, f
<1>11. CASE RemoveMember(p)
  <2>1. f.pc = "work" /\ f.uid = ""
    BY <1>1, <1>11 DEF RemoveMember, AtHand, f
  <2>2. \A v : AtHand([f EXCEPT !.rem = @ \ {v}, !.affected = @ \cup {v}])
    BY <1>1, <2>1 DEF AtHand, Frame
  <2> QED
    BY <1>2, <1>3, <1>11, <2>2 DEF RemoveMember, f
<1>12. CASE Capture(p)
  <2>1. f.pc = "capture" /\ f.uid = ""
    BY <1>1, <1>12 DEF Capture, AtHand, f
  <2>2. \A aff : AtHand([f EXCEPT !.pc = "delete", !.affected = aff])
    BY <1>1, <2>1 DEF AtHand, Frame
  <2> QED
    BY <1>2, <1>3, <1>12, <2>2 DEF Capture, f
<1>13. CASE DeleteCaptured(p)
  <2>1. f.pc = "delete" /\ f.uid = ""
    BY <1>1, <1>13 DEF DeleteCaptured, AtHand, f
  <2>2. AtHand([f EXCEPT !.pc = "work"])
    BY <1>1, <2>1 DEF AtHand, Frame
  <2> QED
    BY <1>2, <1>3, <1>13, <2>2 DEF DeleteCaptured, f
<1>14. CASE FetchGroups(p)
  <2>1. \A t : \A v \in f.affected :
          AtHand([f EXCEPT !.pc = "getUser", !.uid = v, !.target = t])
    BY <1>1 DEF AtHand, Frame
  <2> QED
    BY <1>2, <1>3, <1>14, <2>1 DEF FetchGroups, f
<1>15. f.pc \in {"getUser", "setRole"} =>
         AtHand(UserDone(f)) /\ AtHand([f EXCEPT !.pc = "setRole"])
  BY <1>1 DEF AtHand, UserDone, Frame
<1>16. CASE GetUser(p)
  BY <1>2, <1>3, <1>15, <1>16 DEF GetUser, f
<1>17. CASE SetRole(p)
  BY <1>2, <1>3, <1>15, <1>17 DEF SetRole, f
<1>18. CASE Finish(p)
  BY <1>2, <1>18 DEF Finish
<1> QED
  BY <1>4, <1>5, <1>6, <1>7, <1>8, <1>9, <1>10, <1>11, <1>12, <1>13, <1>14, <1>16,
     <1>17, <1>18 DEF Step

(* A request arrives. *)
LEMMA ReceiveKeeps ==
  ASSUME HandlerInv, NEW p \in Procs, NEW r \in Received, Receive(p, r)
  PROVE  HandlerInv'
<1> DEFINE k == [Idle EXCEPT !.pc = FirstStep(r.op), !.req = r, !.gid = r.gid]
<1>1. /\ r.op \in {"POST", "PUT", "PATCH", "DELETE"} /\ r.gid \in GroupIds \cup {""}
      /\ r.op # "POST" => r.gid \in GroupIds
  BY ReceivedFacts DEF RequestType
<1>2. k \in Frame
  BY <1>1 DEF Frame, Idle, FirstStep, Steps, Roles
<1>3. k.pc \in StepsOf(r.op) /\ k.req = r /\ (k.pc # "find" => k.gid \in GroupIds)
  BY <1>1 DEF Idle, FirstStep, StepsOf
<1>4. TypeOK
  BY DEF HandlerInv
<1>5. Continue(p, k)
  BY DEF Receive
<1> HIDE DEF k
<1>6. FramesOK' /\ TeamTypeOK'
  BY <1>2, <1>4, <1>5, ContinueTyped, TeamTyped DEF Receive, TypeOK
<1>7. OnTrack'
  BY <1>3, <1>4, <1>5 DEF HandlerInv, OnTrack, Continue, TypeOK
<1>8. AtHand(k)
  <2>1. FirstStep(r.op) \in {"find", "get", "capture"}
    BY <1>1 DEF FirstStep
  <2> QED
    BY <2>1 DEF AtHand, Idle, RecomputeSteps, k
<1>9. UserAtHand'
  BY <1>4, <1>5, <1>8 DEF HandlerInv, UserAtHand, Continue, TypeOK
<1> QED
  BY <1>6, <1>7, <1>9 DEF HandlerInv, TypeOK, FramesOK

(* Something else happens to an account. *)
LEMMA AccountEventKeeps ==
  ASSUME HandlerInv, AccountEvent
  PROVE  HandlerInv'
<1>1. TeamTypeOK'
  BY TeamTyped DEF HandlerInv, TypeOK, AccountEvent
<1> QED
  BY <1>1 DEF HandlerInv, TypeOK, OnTrack, UserAtHand, AccountEvent

LEMMA HandlerInvInit == Init => HandlerInv
<1> SUFFICES ASSUME Init PROVE HandlerInv
  OBVIOUS
<1>1. ustate \in [UserIds -> UserStates] /\ role \in [UserIds -> Roles]
  <2>1. PICK account \in [UserIds -> InitialAccounts] :
          /\ ustate = [u \in UserIds |-> account[u].state]
          /\ role = [u \in UserIds |-> account[u].role]
    BY DEF Init
  <2>2. \A u \in UserIds : account[u] \in InitialAccounts
    OBVIOUS
  <2>3. \A a \in InitialAccounts : a.state \in UserStates /\ a.role \in Roles
    BY AccountsAssumption DEF UserStates
  <2>4. \A u \in UserIds : account[u].state \in UserStates /\ account[u].role \in Roles
    BY <2>2, <2>3
  <2> QED
    BY <2>1, <2>4
<1>2. TeamTypeOK
  BY <1>1 DEF Init, TeamTypeOK, GroupStates
<1>3. Idle \in Frame
  BY DEF Idle, Frame, Steps, Roles
<1>4. TypeOK
  BY <1>2, <1>3 DEF Init, TypeOK, Answers
<1> QED
  BY <1>4 DEF Init, HandlerInv, OnTrack, UserAtHand, AtHand, Idle

LEMMA ExitKeeps ==
  ASSUME HandlerInv, Exit
  PROVE  HandlerInv'
<1>1. Idle \in Frame /\ Idle.pc = "idle" /\ AtHand(Idle)
  BY DEF Idle, Frame, Steps, Roles, AtHand, RecomputeSteps
<1>2. TeamTypeOK'
  BY TeamTyped DEF Exit, HandlerInv, TypeOK
<1>3. TypeOK'
  BY <1>1, <1>2 DEF Exit, TypeOK, Answers
<1>4. OnTrack' /\ UserAtHand'
  BY <1>1 DEF Exit, OnTrack, UserAtHand
<1> QED
  BY <1>3, <1>4 DEF HandlerInv

LEMMA HandlerInvNext == HandlerInv /\ [Next]_vars => HandlerInv'
<1> SUFFICES ASSUME HandlerInv, [Next]_vars PROVE HandlerInv'
  OBVIOUS
<1>1. ASSUME NEW p \in Procs, Step(p) PROVE HandlerInv'
  BY <1>1, StepTyped, StepOnTrack, StepAtHand DEF HandlerInv
<1>2. ASSUME NEW p \in Procs, NEW r \in Received, Receive(p, r) PROVE HandlerInv'
  BY <1>2, ReceiveKeeps
<1>3. CASE AccountEvent
  BY <1>3, AccountEventKeeps
<1>4. CASE Exit
  BY <1>4, ExitKeeps
<1>5. CASE UNCHANGED vars
  BY <1>5 DEF HandlerInv, TypeOK, TeamTypeOK, OnTrack, UserAtHand, vars, teamVars
<1> QED
  BY <1>1, <1>2, <1>3, <1>4, <1>5 DEF Next

(* Every handler keeps its locals, and the team its state, well formed, and *)
(* every call a handler makes belongs to its operation and names a group    *)
(* id: for any numbers of users, groups and handlers, and any failures.     *)
THEOREM HandlersWellFormed == Spec => []HandlerInv
<1> QED
  BY HandlerInvInit, HandlerInvNext, PTL DEF Spec

THEOREM TypeCorrect == Spec => []TypeOK
<1>1. HandlerInv => TypeOK
  BY DEF HandlerInv
<1> QED
  BY <1>1, HandlersWellFormed, PTL
=============================================================================
