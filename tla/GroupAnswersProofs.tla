-------------------------- MODULE GroupAnswersProofs --------------------------
(***************************************************************************)
(* What an answer of the /Groups handlers means when requests are served   *)
(* one at a time: that a PATCH is reduced to what its operations do one    *)
(* after another, that no group is created under the name of another, and  *)
(* that a 2xx answer holds.  For any users, groups and requests, and       *)
(* whatever earlier requests left half done.                               *)
(***************************************************************************)
EXTENDS ScimGroupsProofs, WellFoundedInduction

-----------------------------------------------------------------------------
(* The reduction of a PATCH *)

(* Of positions in a list, if there are any, one is the last. *)
LEMMA LatestExists ==
  ASSUME NEW n \in Nat, NEW I, I \subseteq 1..n, I # {}
  PROVE  \E i \in I : \A j \in I : j <= i
<1> DEFINE Left == {n - i : i \in I}
<1>1. Left \subseteq Nat /\ Left # {}
  <2>1. \A i \in 1..n : n - i \in Nat
    OBVIOUS
  <2> QED
    BY <2>1
<1>2. PICK x \in Left : \A y \in Left : ~ (<<y, x>> \in OpToRel(<, Nat))
  <2> HIDE DEF Left
  <2> QED
    BY <1>1, NatLessThanWellFounded, WFMin
<1>3. PICK i \in I : x = n - i
  OBVIOUS
<1>4. ASSUME NEW j \in I PROVE j <= i
  <2>1. n - j \in Left /\ n - j \in Nat /\ n - i \in Nat
    OBVIOUS
  <2>2. ~ (n - j < n - i)
    BY <1>2, <1>3, <2>1 DEF OpToRel
  <2> QED
    BY <2>2
<1> QED
  BY <1>4

(* An operation on the members as the decoders give it. *)
LEMMA MemberOpFacts ==
  ASSUME NEW ops \in Seq(GroupOp)
  PROVE  /\ MemberOps(ops) \subseteq 1..Len(ops)
         /\ \A i \in MemberOps(ops) : ops[i].op \in OpNames
<1>1. DOMAIN ops = 1..Len(ops) /\ \A i \in 1..Len(ops) : ops[i] \in GroupOp
  OBVIOUS
<1>2. \A op \in GroupOp : op.op \in OpNames
  BY DEF GroupOp
<1> QED
  BY <1>1, <1>2 DEF MemberOps

(* A list with a replacement: nothing but replacements follows the first of *)
(* them, so the last one says who is a member and who is not.               *)
LEMMA ReplacementReduced ==
  ASSUME NEW ops \in Seq(GroupOp), InOrder(ops), Replacements(ops) # {}, NEW u
  PROVE  /\ MadeMember(ops, u) <=> u \in MembersWanted(ops)
         /\ MadeStranger(ops, u) <=> u \notin MembersWanted(ops)
<1>1. /\ MemberOps(ops) \subseteq 1..Len(ops) /\ Len(ops) \in Nat
      /\ Replacements(ops) \subseteq MemberOps(ops)
  BY MemberOpFacts DEF Replacements
<1>2. PICK last \in Replacements(ops) : \A j \in Replacements(ops) : j <= last
  BY <1>1, LatestExists
<1>3. Latest(Replacements(ops)) = {last}
  BY <1>1, <1>2 DEF Latest
<1>4. MembersWanted(ops) = ops[last].ids
  BY <1>3 DEF MembersWanted
<1>5. \A i \in MemberOps(ops) : i <= last
  BY <1>1, <1>2 DEF InOrder, Replacements
<1>6. Replaces(ops[last]) /\ last \in MemberOps(ops)
  BY <1>2 DEF Replacements
<1>7. /\ Takes(ops[last], u) <=> u \notin ops[last].ids
      /\ Gives(ops[last], u) <=> u \in ops[last].ids
  BY <1>6 DEF Takes, Gives, Replaces, Assigns
<1>8. \A i \in MemberOps(ops) : i = last \/ last > i
  BY <1>1, <1>5, <1>6
<1>9. \A i \in MemberOps(ops) : ~ (i > last)
  BY <1>1, <1>5, <1>6
<1>10. MadeMember(ops, u) <=> u \in ops[last].ids
  BY <1>6, <1>7, <1>8, <1>9 DEF MadeMember
<1>11. MadeStranger(ops, u) <=> u \notin ops[last].ids
  BY <1>6, <1>7, <1>8, <1>9 DEF MadeStranger
<1> QED
  BY <1>4, <1>10, <1>11

(* A list without one: nobody is removed and then added, so whoever is      *)
(* listed in a removal is out, and whoever is listed in an addition only is *)
(* in.                                                                      *)
LEMMA DeltaReduced ==
  ASSUME NEW ops \in Seq(GroupOp), InOrder(ops), Edit(ops) = "delta", NEW u
  PROVE  /\ MadeMember(ops, u) <=> u \in MembersWanted(ops) \ Listed(ops, "remove")
         /\ MadeStranger(ops, u) <=> u \in Listed(ops, "remove")
<1>1. /\ MemberOps(ops) \subseteq 1..Len(ops) /\ Len(ops) \in Nat
      /\ \A i \in MemberOps(ops) : ops[i].op \in OpNames
  BY MemberOpFacts
<1>2. /\ Replacements(ops) = {}
      /\ \A i \in MemberOps(ops) : ops[i].op # "other"
  BY DEF Edit
<1>3. ASSUME NEW i \in MemberOps(ops)
      PROVE  /\ ops[i].op \in {"add", "remove"}
             /\ ops[i].op = "remove" => ops[i].ids # {}
  BY <1>1, <1>2 DEF Replacements, Replaces, OpNames
<1>4. MembersWanted(ops) = Listed(ops, "add")
  BY <1>2 DEF MembersWanted
<1>5. ASSUME NEW i \in MemberOps(ops)
      PROVE  /\ Gives(ops[i], u) <=> ops[i].op = "add" /\ u \in ops[i].ids
             /\ Takes(ops[i], u) <=> ops[i].op = "remove" /\ u \in ops[i].ids
  BY <1>3 DEF Gives, Takes, Assigns
<1>6. \A op : u \in Listed(ops, op) <=>
               \E i \in MemberOps(ops) : ops[i].op = op /\ u \in ops[i].ids
  BY DEF Listed
<1>7. ASSUME NEW i \in MemberOps(ops), Gives(ops[i], u),
             NEW j \in MemberOps(ops), Takes(ops[j], u)
      PROVE  j > i
  <2>1. i # j /\ ops[i].ids \cap ops[j].ids # {}
    BY <1>5, <1>7
  <2>2. ~ (j < i)
    BY <1>5, <1>7, <2>1 DEF InOrder
  <2> QED
    BY <1>1, <2>1, <2>2
<1>8. MadeMember(ops, u) <=> u \in Listed(ops, "add") /\ u \notin Listed(ops, "remove")
  <2>1. MadeMember(ops, u) <=>
          /\ \E i \in MemberOps(ops) : Gives(ops[i], u)
          /\ \A j \in MemberOps(ops) : ~ Takes(ops[j], u)
    BY <1>7 DEF MadeMember
  <2> QED
    BY <1>5, <1>6, <2>1
<1>9. MadeStranger(ops, u) <=> u \in Listed(ops, "remove")
  <2>1. ASSUME NEW i \in MemberOps(ops), Takes(ops[i], u),
               NEW j \in MemberOps(ops), j > i
        PROVE  ~ Gives(ops[j], u)
    BY <1>1, <1>7, <2>1
  <2>2. MadeStranger(ops, u) <=> \E i \in MemberOps(ops) : Takes(ops[i], u)
    BY <2>1 DEF MadeStranger
  <2> QED
    BY <1>5, <1>6, <2>2
<1> QED
  BY <1>4, <1>8, <1>9

\* What one edit makes of the members cur.
Edited(ops, cur) ==
  IF Edit(ops) = "replace" THEN MembersWanted(ops)
  ELSE (cur \cup MembersWanted(ops)) \ Listed(ops, "remove")

(* A list of operations of any length, none refused, in which only          *)
(* replacements follow a replacement and nobody is added after an operation *)
(* that removed them (InOrder): the one edit it is reduced to leaves the    *)
(* group with the members that its operations, one after another, would     *)
(* (patch.go:123-168).                                                      *)
THEOREM PatchReducesInOrder ==
  ASSUME NEW ops \in Seq(GroupOp), InOrder(ops), Edit(ops) # "invalid", NEW cur, NEW u
  PROVE  u \in Edited(ops, cur) <=>
           MadeMember(ops, u) \/ (u \in cur /\ ~ MadeStranger(ops, u))
<1>1. CASE Replacements(ops) # {}
  <2>1. Edit(ops) = "replace"
    BY <1>1 DEF Edit
  <2> QED
    BY <1>1, <2>1, ReplacementReduced DEF Edited
<1>2. CASE Replacements(ops) = {}
  <2>1. Edit(ops) = "delta"
    BY <1>2 DEF Edit
  <2> QED
    BY <2>1, DeltaReduced DEF Edited
<1> QED
  BY <1>1, <1>2

-----------------------------------------------------------------------------
(* One request at a time *)

LEMMA ReceivedPatch ==
  ASSUME NEW r \in Received, r.op = "PATCH"
  PROVE  /\ r.ops \in Seq(GroupOp)
         /\ r.edit = Edit(r.ops)
         /\ r.members = MembersWanted(r.ops)
         /\ r.remove = Listed(r.ops, "remove")
<1>1. PICK raw \in Requests : r \in Decoded(raw)
  BY DEF Received
<1>2. raw \in RequestType
  BY RequestsAssumption
<1>3. CASE raw.op = "PATCH"
  <2>1. PICK n \in NamesGiven(raw.ops), x \in ExtsGiven(raw.ops) :
          r = Reduced(raw, n, x)
    BY <1>1, <1>3 DEF Decoded, Reductions
  <2>2. raw.ops \in Seq(GroupOp)
    BY <1>2 DEF RequestType
  <2>3. r.ops = raw.ops
    BY <1>2, <2>1 DEF RequestType, Reduced
  <2> QED
    BY <1>2, <2>1, <2>2, <2>3 DEF RequestType, Reduced
<1>4. CASE raw.op # "PATCH"
  <2>1. Decoded(raw) = {raw}
    BY <1>4, Zenon DEF Decoded
  <2> QED
    BY <1>1, <1>4, <2>1
<1> QED
  BY <1>3, <1>4

\* WorkDue of one handler.
Due(f) == AttributesDue(f) /\ EditsDue(f) /\ PostDue(f)

LEMMA AnswerDue ==
  ASSUME Serial, TypeOK, NEW p \in Procs, NEW s, Answer(p, s)
  PROVE  WorkDue'
<1>1. \A q \in Procs : h'[q] = Idle
  BY DEF Serial, TypeOK, Answer
<1>2. Idle.pc = "idle"
  BY DEF Idle
<1> QED
  BY <1>1, <1>2 DEF WorkDue, AttributesDue, EditsDue, PostDue, RecomputeSteps

LEMMA ContinueDue ==
  ASSUME Serial, TypeOK, NEW p \in Procs, NEW k, Continue(p, k),
         AttributesDue(k)', EditsDue(k)', PostDue(k)'
  PROVE  WorkDue'
<1>1. \A q \in Procs : h'[q] = k
  BY DEF Serial, TypeOK, Continue
<1> QED
  BY <1>1 DEF WorkDue

(* While roles are recomputed, members are edited and groups renamed by     *)
(* nobody, and edits work off what is due.                                  *)
LEMMA EditsKeepDue ==
  ASSUME NEW f, NEW k, Due(f), f.pc \in RecomputeSteps, k.pc \in RecomputeSteps,
         k.req = f.req, k.gid = f.gid, UNCHANGED <<gstate, gname, gext>>,
         MembersDue(k)' = MembersDue(f)
  PROVE  AttributesDue(k)' /\ EditsDue(k)' /\ PostDue(k)'
<1>1. f.pc \notin {"find", "create", "update", "parse", "reconcile"}
      /\ k.pc \notin {"find", "create", "update", "parse", "reconcile"}
  BY DEF RecomputeSteps
<1>2. AttributesDue(k)'
  BY <1>1 DEF Due, AttributesDue, EqualFold
<1>3. EditsDue(k)'
  BY <1>1 DEF Due, EditsDue
<1>4. PostDue(k)'
  BY <1>1 DEF PostDue
<1> QED
  BY <1>2, <1>3, <1>4

(* A step by the one handler there is keeps what is due. *)
LEMMA StepKeepsDue ==
  ASSUME Serial, HandlerInv, WorkDue, NEW p \in Procs, Step(p)
  PROVE  WorkDue'
<1> PICK f : f = h[p]
  OBVIOUS
<1> DEFINE g == f.gid
           r == f.req
<1>1. /\ TypeOK /\ TeamTypeOK /\ f \in Frame
      /\ AttributesDue(f) /\ EditsDue(f) /\ PostDue(f) /\ Due(f)
  BY DEF HandlerInv, TypeOK, WorkDue, Due
<1>2. f.pc # "idle"
  BY DEF Step, FindGroup, CreateNew, GetGroup, UpdateAttributes, ParseMembers, Reconcile,
         AddMember, RemoveMember, Capture, DeleteCaptured, FetchGroups, GetUser, SetRole,
         Finish, EditsDone
<1>3. /\ r \in Received
      /\ r.op \in {"POST", "PUT", "PATCH", "DELETE"}
      /\ f.pc \in StepsOf(r.op)
      /\ f.pc \notin {"find", "create"} => g \in GroupIds
  BY <1>2, TrackFacts
<1>4. r.op = "POST" => r.name # ""
  BY <1>3, ReceivedFacts
<1>5. \A s : Answer(p, s) => WorkDue'
  BY <1>1, AnswerDue
<1>6. ASSUME NEW k, Continue(p, k), AttributesDue(k)', EditsDue(k)', PostDue(k)'
      PROVE  WorkDue'
  BY <1>1, <1>6, ContinueDue
<1> HIDE DEF g, r
<1> USE DEF Read, Call
<1>7. CASE FindGroup(p)
  <2>1. f.pc = "find" /\ r.op = "POST" /\ f.rem = {} /\ f.name = ""
    BY <1>1, <1>3, <1>7 DEF FindGroup, StepsOf, RecomputeSteps, PostDue, r
  <2>2. ASSUME NEW j \in GroupsNamed(r.name), UNCHANGED teamVars,
               NEW k, Continue(p, k),
               k = [f EXCEPT !.gid = j, !.add = r.members, !.ext = r.ext,
                      !.pc = IF r.ext \notin {"", gext[j]} THEN "update" ELSE "work"]
        PROVE  WorkDue'
    <3>1. /\ k.req = r /\ k.gid = j /\ k.add = r.members /\ k.rem = {} /\ k.name = ""
          /\ k.ext = r.ext /\ k.pc \in {"update", "work"}
          /\ k.pc = "work" /\ r.ext # "" => gext[j] = r.ext
      BY <1>1, <2>1, <2>2 DEF Frame, r
    <3>2. EqualFold(gname[j], r.name)
      BY DEF GroupsNamed
    <3>3. AttributesDue(k)'
      BY <2>1, <2>2, <3>1, <3>2
      DEF AttributesDue, Written, RecomputeSteps, EqualFold, teamVars
    <3>4. EditsDue(k)'
      BY <2>1, <3>1 DEF EditsDue, MembersDue, RecomputeSteps
    <3>5. PostDue(k)'
      BY <3>1 DEF PostDue
    <3> QED
      BY <1>6, <2>2, <3>3, <3>4, <3>5
  <2>3. ASSUME GroupsNamed(r.name) = {}, UNCHANGED teamVars, NEW k, Continue(p, k),
               k = [f EXCEPT !.add = r.members, !.pc = "create"]
        PROVE  WorkDue'
    <3>1. /\ k.req = r /\ k.add = r.members /\ k.rem = {} /\ k.name = ""
          /\ k.pc = "create"
      BY <1>1, <2>1, <2>3 DEF Frame, r
    <3>2. AttributesDue(k)' /\ EditsDue(k)'
      BY <3>1 DEF AttributesDue, EditsDue, RecomputeSteps
    <3>3. PostDue(k)'
      BY <2>3, <3>1 DEF PostDue, GroupsNamed, HasGroup, EqualFold, teamVars
    <3> QED
      BY <1>6, <2>3, <3>2, <3>3
  <2> QED
    BY <1>5, <1>7, <2>2, <2>3 DEF FindGroup, r
<1>8. CASE CreateNew(p)
  <2>1. f.pc = "create" /\ r.op = "POST" /\ f.rem = {} /\ f.add = r.members
    BY <1>1, <1>3, <1>8 DEF CreateNew, StepsOf, RecomputeSteps, PostDue, r
  <2>2. ASSUME NEW j \in FreshIds, CreateGroup(j, r.name, r.ext),
               NEW k, Continue(p, k), k = [f EXCEPT !.pc = "work", !.gid = j]
        PROVE  WorkDue'
    <3>1. /\ k.req = r /\ k.gid = j /\ k.add = r.members /\ k.rem = {} /\ k.pc = "work"
      BY <1>1, <2>1, <2>2 DEF Frame, r
    <3>2. j \in GroupIds /\ gname'[j] = r.name /\ gext'[j] = r.ext
      BY <1>1, <2>2 DEF FreshIds, CreateGroup, TeamTypeOK
    <3>3. AttributesDue(k)'
      BY <2>1, <3>1, <3>2 DEF AttributesDue, EqualFold
    <3>4. EditsDue(k)'
      BY <2>1, <3>1 DEF EditsDue, MembersDue
    <3>5. PostDue(k)'
      BY <3>1 DEF PostDue
    <3> QED
      BY <1>6, <2>2, <3>3, <3>4, <3>5
  <2> QED
    BY <1>5, <1>8, <2>2 DEF CreateNew, r
<1>9. CASE GetGroup(p)
  <2>1. f.pc = "get" /\ r.op \in {"PUT", "PATCH"} /\ g \in GroupIds
    BY <1>3, <1>9 DEF GetGroup, StepsOf, RecomputeSteps
  <2> DEFINE n == IF r.op = "PUT" THEN Changed(r.name, gname[g]) ELSE r.name
             x == IF r.op = "PUT" THEN Changed(r.ext, gext[g]) ELSE r.ext
             differs == Changed(r.name, gname[g]) # "" \/ Changed(r.ext, gext[g]) # ""
             next == IF r.op = "PUT" THEN "reconcile" ELSE "parse"
  <2>2. /\ r.name # "" => Written(n, gname[g]) = r.name
        /\ r.ext # "" => Written(x, gext[g]) = r.ext
        /\ ~ differs /\ r.name # "" => gname[g] = r.name
        /\ ~ differs /\ r.ext # "" => gext[g] = r.ext
    BY DEF Changed, Written
  <2> HIDE DEF n, x, differs
  <2>3. ASSUME UNCHANGED teamVars, NEW k, Continue(p, k),
               k = [f EXCEPT !.pc = IF differs THEN "update" ELSE next,
                             !.name = n, !.ext = x]
        PROVE  WorkDue'
    <3>1. /\ k.req = r /\ k.gid = g /\ k.name = n /\ k.ext = x
          /\ k.pc = IF differs THEN "update" ELSE next
      BY <1>1, <2>3 DEF Frame, r, g
    <3>2. AttributesDue(k)'
      <4>1. gname'[g] = gname[g] /\ gext'[g] = gext[g]
        BY <2>3 DEF teamVars
      <4>2. CASE differs
        BY <2>1, <2>2, <3>1, <4>1, <4>2 DEF AttributesDue, RecomputeSteps
      <4>3. CASE ~ differs
        BY <2>1, <2>2, <3>1, <4>1, <4>3 DEF AttributesDue, RecomputeSteps
      <4> QED
        BY <4>2, <4>3
    <3>3. EditsDue(k)' /\ PostDue(k)'
      BY <2>1, <3>1 DEF EditsDue, PostDue, RecomputeSteps
    <3> QED
      BY <1>6, <2>3, <3>2, <3>3
  <2> QED
    BY <1>5, <1>9, <2>3 DEF GetGroup, n, x, differs, r, g
<1>10. CASE UpdateAttributes(p)
  <2>1. f.pc = "update" /\ r.op \in {"POST", "PUT", "PATCH"} /\ g \in GroupIds
    BY <1>3, <1>10 DEF UpdateAttributes, StepsOf, RecomputeSteps
  <2>2. ASSUME UpdateGroup(g, f.name, f.ext), NEW k, Continue(p, k),
               k = [f EXCEPT !.pc = AfterUpdate(r.op)]
        PROVE  WorkDue'
    <3>1. /\ k.req = r /\ k.gid = g /\ k.add = f.add /\ k.rem = f.rem
          /\ k.pc = AfterUpdate(r.op)
      BY <1>1, <2>2 DEF Frame, r, g
    <3>2. k.pc \in {"work", "reconcile", "parse"}
          /\ (k.pc = "work" <=> r.op = "POST") /\ (k.pc = "reconcile" <=> r.op = "PUT")
      BY <2>1, <3>1 DEF AfterUpdate
    <3>3. /\ gname'[g] = Written(f.name, gname[g]) /\ gext'[g] = Written(f.ext, gext[g])
          /\ members' = members
      BY <1>1, <2>1, <2>2 DEF UpdateGroup, Written, TeamTypeOK
    <3>4. AttributesDue(k)'
      <4>1. r.op = "POST" => gname'[g] = gname[g] /\ EqualFold(gname[g], r.name)
        BY <1>1, <2>1, <3>3 DEF PostDue, AttributesDue, Written, r, g
      <4>2. r.op # "POST" /\ r.name # "" => gname'[g] = r.name
        BY <1>1, <2>1, <3>3 DEF AttributesDue, r, g
      <4>3. r.ext # "" => gext'[g] = r.ext
        BY <1>1, <2>1, <3>3 DEF AttributesDue, r, g
      <4> QED
        BY <2>1, <3>1, <3>2, <4>1, <4>2, <4>3 DEF AttributesDue, EqualFold
    <3>5. EditsDue(k)'
      BY <1>1, <2>1, <3>1, <3>2, <3>3 DEF PostDue, EditsDue, MembersDue, RecomputeSteps, r
    <3>6. PostDue(k)'
      BY <3>2 DEF PostDue
    <3> QED
      BY <1>6, <2>2, <3>4, <3>5, <3>6
  <2> QED
    BY <1>5, <1>10, <2>2 DEF UpdateAttributes, r, g
<1>11. CASE ParseMembers(p)
  <2>1. f.pc = "parse" /\ r.op = "PATCH" /\ UNCHANGED teamVars
    BY <1>3, <1>11 DEF ParseMembers, StepsOf, RecomputeSteps
  <2>2. ASSUME r.edit = "replace", NEW k, Continue(p, k), k = [f EXCEPT !.pc = "reconcile"]
        PROVE  WorkDue'
    <3>1. k.req = r /\ k.gid = g /\ k.pc = "reconcile"
      BY <1>1, <2>2 DEF Frame, r, g
    <3>2. AttributesDue(k)'
      BY <1>1, <2>1, <3>1 DEF AttributesDue, teamVars, r, g
    <3>3. EditsDue(k)' /\ PostDue(k)'
      BY <2>2, <3>1 DEF EditsDue, PostDue, RecomputeSteps
    <3> QED
      BY <1>6, <2>2, <3>2, <3>3
  <2>3. ASSUME r.edit = "delta", NEW k, Continue(p, k),
               k = [f EXCEPT !.pc = "work", !.add = r.members, !.rem = r.remove]
        PROVE  WorkDue'
    <3>1. k.req = r /\ k.gid = g /\ k.pc = "work" /\ k.add = r.members /\ k.rem = r.remove
      BY <1>1, <2>3 DEF Frame, r, g
    <3>2. AttributesDue(k)'
      BY <1>1, <2>1, <3>1 DEF AttributesDue, teamVars, RecomputeSteps, r, g
    <3>3. EditsDue(k)'
      BY <2>1, <2>3, <3>1 DEF EditsDue, MembersDue
    <3>4. PostDue(k)'
      BY <3>1 DEF PostDue
    <3> QED
      BY <1>6, <2>3, <3>2, <3>3, <3>4
  <2> QED
    BY <1>5, <1>11, <2>2, <2>3 DEF ParseMembers, r
<1>12. CASE Reconcile(p)
  <2>1. f.pc = "reconcile" /\ r.op \in {"PUT", "PATCH"} /\ g \in GroupIds
    BY <1>3, <1>12 DEF Reconcile, StepsOf, RecomputeSteps
  <2>2. ASSUME UNCHANGED teamVars, NEW k, Continue(p, k),
               k = [f EXCEPT !.pc = "work", !.add = Missing(members[g], r.members),
                             !.rem = Surplus(members[g], r.members)]
        PROVE  WorkDue'
    <3>1. /\ k.req = r /\ k.gid = g /\ k.pc = "work"
          /\ k.add = r.members \ members[g] /\ k.rem = members[g] \ r.members
      BY <1>1, <2>2 DEF Frame, Missing, Surplus, r, g
    <3>2. AttributesDue(k)'
      BY <1>1, <2>1, <2>2, <3>1 DEF AttributesDue, teamVars, RecomputeSteps, r, g
    <3>3. MembersDue(k)' = r.members
      BY <2>2, <3>1 DEF MembersDue, teamVars
    <3>4. r.op = "PUT" \/ r.edit = "replace"
      BY <1>1, <2>1 DEF EditsDue, r
    <3>5. EditsDue(k)' /\ PostDue(k)'
      BY <2>1, <3>1, <3>3, <3>4 DEF EditsDue, PostDue
    <3> QED
      BY <1>6, <2>2, <3>2, <3>5
  <2> QED
    BY <1>5, <1>12, <2>2 DEF Reconcile, r, g
<1>13. ASSUME NEW k, Continue(p, k), f.pc \in RecomputeSteps, k.pc \in RecomputeSteps,
             k.req = r, k.gid = g, UNCHANGED <<gstate, gname, gext>>,
             MembersDue(k)' = MembersDue(f)
       PROVE  WorkDue'
  BY <1>1, <1>6, <1>13, EditsKeepDue DEF r, g
<1>14. CASE AddMember(p)
  <2>1. f.pc = "work" /\ g \in GroupIds
    BY <1>3, <1>14 DEF AddMember
  <2>2. ASSUME NEW u \in f.add, AddUserToGroup(g, u), NEW k, Continue(p, k),
               k = [f EXCEPT !.add = @ \ {u}, !.affected = @ \cup {u}]
        PROVE  WorkDue'
    <3>1. /\ k.req = r /\ k.gid = g /\ k.pc = "work"
          /\ k.add = f.add \ {u} /\ k.rem = f.rem
      BY <1>1, <2>1, <2>2 DEF Frame, r, g
    <3>2. members'[g] = members[g] \cup {u} /\ UNCHANGED <<gstate, gname, gext>>
      BY <1>1, <2>1, <2>2 DEF AddUserToGroup, TeamTypeOK
    <3>3. MembersDue(k)' = MembersDue(f)
      BY <2>2, <3>1, <3>2 DEF MembersDue, g
    <3> QED
      BY <1>13, <2>1, <2>2, <3>1, <3>2, <3>3 DEF RecomputeSteps
  <2> QED
    BY <1>5, <1>14, <2>2 DEF AddMember, g
<1>15. CASE RemoveMember(p)
  <2>1. f.pc = "work" /\ f.add = {} /\ g \in GroupIds
    BY <1>3, <1>15 DEF RemoveMember
  <2>2. ASSUME NEW u \in f.rem, RemoveUserFromGroup(g, u), NEW k, Continue(p, k),
               k = [f EXCEPT !.rem = @ \ {u}, !.affected = @ \cup {u}]
        PROVE  WorkDue'
    <3>1. /\ k.req = r /\ k.gid = g /\ k.pc = "work"
          /\ k.add = {} /\ k.rem = f.rem \ {u}
      BY <1>1, <2>1, <2>2 DEF Frame, r, g
    <3>2. members'[g] = members[g] \ {u} /\ UNCHANGED <<gstate, gname, gext>>
      BY <1>1, <2>1, <2>2 DEF RemoveUserFromGroup, TeamTypeOK
    <3>3. MembersDue(k)' = MembersDue(f)
      BY <2>1, <2>2, <3>1, <3>2 DEF MembersDue, g
    <3> QED
      BY <1>13, <2>1, <2>2, <3>1, <3>2, <3>3 DEF RecomputeSteps
  <2> QED
    BY <1>5, <1>15, <2>2 DEF RemoveMember, g
<1>16. CASE Capture(p)
  <2>1. f.pc = "capture" /\ r.op = "DELETE"
    BY <1>3, <1>16 DEF Capture, StepsOf, RecomputeSteps
  <2>2. ASSUME NEW k, Continue(p, k), k = [f EXCEPT !.pc = "delete", !.affected = members[g]]
        PROVE  WorkDue'
    <3>1. k.req = r /\ k.pc = "delete"
      BY <1>1, <2>2 DEF Frame, r
    <3>2. AttributesDue(k)' /\ EditsDue(k)' /\ PostDue(k)'
      BY <3>1 DEF AttributesDue, EditsDue, PostDue, RecomputeSteps
    <3> QED
      BY <1>6, <2>2, <3>2
  <2> QED
    BY <1>5, <1>16, <2>2 DEF Capture, g
<1>17. CASE DeleteCaptured(p)
  <2>1. f.pc = "delete" /\ r.op = "DELETE" /\ g \in GroupIds
    BY <1>3, <1>17 DEF DeleteCaptured, StepsOf, RecomputeSteps
  <2>2. ASSUME DeleteGroup(g), NEW k, Continue(p, k), k = [f EXCEPT !.pc = "work"]
        PROVE  WorkDue'
    <3>1. k.req = r /\ k.gid = g /\ k.pc = "work"
      BY <1>1, <2>2 DEF Frame, r, g
    <3>2. gstate'[g] = "deleted"
      BY <1>1, <2>1, <2>2 DEF DeleteGroup, TeamTypeOK
    <3>3. AttributesDue(k)' /\ EditsDue(k)' /\ PostDue(k)'
      BY <2>1, <3>1, <3>2 DEF AttributesDue, EditsDue, PostDue
    <3> QED
      BY <1>6, <2>2, <3>3
  <2> QED
    BY <1>5, <1>17, <2>2 DEF DeleteCaptured, g
<1>18. ASSUME NEW k, Continue(p, k), f.pc \in RecomputeSteps, k.pc \in RecomputeSteps,
              k.req = r, k.gid = g, k.add = f.add, k.rem = f.rem, UNCHANGED groupVars
       PROVE  WorkDue'
  <2>1. MembersDue(k)' = MembersDue(f)
    BY <1>18 DEF MembersDue, groupVars, g
  <2> QED
    BY <1>13, <1>18, <2>1 DEF groupVars
<1>19. UNCHANGED teamVars => UNCHANGED groupVars
  BY DEF teamVars, groupVars
<1>20. CASE FetchGroups(p)
  <2>1. ASSUME NEW u, NEW k, Continue(p, k), UNCHANGED teamVars,
               k = [f EXCEPT !.pc = "getUser", !.uid = u, !.target = RoleByMembership(u)]
        PROVE  WorkDue'
    <3>1. /\ k.req = r /\ k.gid = g /\ k.pc = "getUser"
          /\ k.add = f.add /\ k.rem = f.rem
      BY <1>1, <2>1 DEF Frame, r, g
    <3>2. f.pc \in RecomputeSteps /\ k.pc \in RecomputeSteps
      BY <1>20, <3>1 DEF FetchGroups, EditsDone, RecomputeSteps
    <3> QED
      BY <1>18, <1>19, <2>1, <3>1, <3>2
  <2> QED
    BY <1>5, <1>20, <2>1 DEF FetchGroups
<1>21. ASSUME NEW k, Continue(p, k), f.pc \in {"getUser", "setRole"}, UNCHANGED groupVars,
              k = UserDone(f) \/ k = [f EXCEPT !.pc = "setRole"]
       PROVE  WorkDue'
  <2>1. /\ k.req = r /\ k.gid = g /\ k.pc \in {"work", "setRole"}
        /\ k.add = f.add /\ k.rem = f.rem
    BY <1>1, <1>21 DEF Frame, UserDone, r, g
  <2>2. f.pc \in RecomputeSteps /\ k.pc \in RecomputeSteps
    BY <1>21, <2>1 DEF RecomputeSteps
  <2> QED
    BY <1>18, <1>21, <2>1, <2>2
<1>22. CASE GetUser(p)
  BY <1>5, <1>19, <1>21, <1>22 DEF GetUser
<1>23. CASE SetRole(p)
  BY <1>5, <1>21, <1>23 DEF SetRole, UpdateUserRole
<1>24. CASE Finish(p)
  BY <1>5, <1>24 DEF Finish
<1> QED
  BY <1>7, <1>8, <1>9, <1>10, <1>11, <1>12, <1>14, <1>15, <1>16, <1>17, <1>20, <1>22,
     <1>23, <1>24 DEF Step

(* A step of a handler that does not go on has failed, is the 400 of a      *)
(* PATCH, or is the answer at the end; and only the look-up leads to the    *)
(* creation of a group.                                                     *)
LEMMA StepOutcome ==
  ASSUME HandlerInv, NEW p \in Procs, Step(p)
  PROVE  \/ Answer(p, "notFound")
         \/ Answer(p, "upstream")
         \/ FindGroup(p) /\ h'[p].pc # "idle"
         \/ h'[p].pc \notin {"idle", "create"}
         \/ ParseMembers(p) /\ h[p].req.edit = "invalid" /\ Answer(p, "badRequest")
         \/ Finish(p) /\ Answer(p, "ok")
<1> PICK f : f = h[p]
  OBVIOUS
<1>1. f \in Frame /\ h \in [Procs -> Frame]
  BY DEF HandlerInv, TypeOK
<1>2. \A k : Continue(p, k) => h'[p] = k
  BY <1>1 DEF Continue
<1> USE DEF Read, Call
<1>3. CASE FindGroup(p)
  <2>1. ASSUME NEW j, NEW k, Continue(p, k),
               k = [f EXCEPT !.gid = j, !.add = f.req.members, !.ext = f.req.ext,
                      !.pc = IF f.req.ext \notin {"", gext[j]} THEN "update" ELSE "work"]
        PROVE  h'[p].pc # "idle"
    BY <1>1, <1>2, <2>1 DEF Frame
  <2>2. ASSUME NEW k, Continue(p, k), k = [f EXCEPT !.add = f.req.members, !.pc = "create"]
        PROVE  h'[p].pc # "idle"
    BY <1>1, <1>2, <2>2 DEF Frame
  <2> QED
    BY <1>3, <2>1, <2>2 DEF FindGroup
<1>4. CASE CreateNew(p)
  <2>1. \A j : [f EXCEPT !.pc = "work", !.gid = j].pc = "work"
    BY <1>1 DEF Frame
  <2> QED
    BY <1>2, <1>4, <2>1 DEF CreateNew
<1>5. CASE GetGroup(p)
  <2>1. ASSUME NEW pc \in {"update", "reconcile", "parse"}, NEW n, NEW x,
               Continue(p, [f EXCEPT !.pc = pc, !.name = n, !.ext = x])
        PROVE  h'[p].pc \notin {"idle", "create"}
    BY <1>1, <1>2, <2>1 DEF Frame
  <2>2. \/ Answer(p, "notFound") \/ Answer(p, "upstream")
        \/ \E pc \in {"update", "reconcile", "parse"} : \E n, x :
             Continue(p, [f EXCEPT !.pc = pc, !.name = n, !.ext = x])
    BY <1>5 DEF GetGroup
  <2> QED
    BY <2>1, <2>2
<1>6. CASE UpdateAttributes(p)
  <2>1. f.pc = "update" /\ f.req.op \in {"POST", "PUT", "PATCH"}
    BY <1>6, TrackFacts DEF UpdateAttributes, StepsOf, RecomputeSteps
  <2>2. [f EXCEPT !.pc = AfterUpdate(f.req.op)].pc \in {"work", "reconcile", "parse"}
    BY <1>1, <2>1 DEF Frame, AfterUpdate
  <2> QED
    BY <1>2, <1>6, <2>2 DEF UpdateAttributes
<1>7. CASE ParseMembers(p)
  <2>1. /\ [f EXCEPT !.pc = "reconcile"].pc = "reconcile"
        /\ [f EXCEPT !.pc = "work", !.add = f.req.members, !.rem = f.req.remove].pc = "work"
    BY <1>1 DEF Frame
  <2> QED
    BY <1>2, <1>7, <2>1 DEF ParseMembers
<1>8. CASE Reconcile(p)
  <2>1. ASSUME NEW add, NEW rem, Continue(p, [f EXCEPT !.pc = "work", !.add = add, !.rem = rem])
        PROVE  h'[p].pc = "work"
    BY <1>1, <1>2, <2>1 DEF Frame
  <2> QED
    BY <1>8, <2>1 DEF Reconcile
<1>9. CASE AddMember(p)
  <2>1. f.pc = "work"
    BY <1>9 DEF AddMember
  <2>2. \A u : [f EXCEPT !.add = @ \ {u}, !.affected = @ \cup {u}].pc = "work"
    BY <1>1, <2>1 DEF Frame
  <2> QED
    BY <1>2, <1>9, <2>2 DEF AddMember
<1>10. CASE RemoveMember(p)
  <2>1. f.pc = "work"
    BY <1>10 DEF RemoveMember
  <2>2. \A u : [f EXCEPT !.rem = @ \ {u}, !.affected = @ \cup {u}].pc = "work"
    BY <1>1, <2>1 DEF Frame
  <2> QED
    BY <1>2, <1>10, <2>2 DEF RemoveMember
<1>11. CASE Capture(p)
  <2>1. \A aff : [f EXCEPT !.pc = "delete", !.affected = aff].pc = "delete"
    BY <1>1 DEF Frame
  <2> QED
    BY <1>2, <1>11, <2>1 DEF Capture
<1>12. CASE DeleteCaptured(p)
  <2>1. [f EXCEPT !.pc = "work"].pc = "work"
    BY <1>1 DEF Frame
  <2> QED
    BY <1>2, <1>12, <2>1 DEF DeleteCaptured
<1>13. CASE FetchGroups(p)
  <2>1. \A u, t : [f EXCEPT !.pc = "getUser", !.uid = u, !.target = t].pc = "getUser"
    BY <1>1 DEF Frame
  <2> QED
    BY <1>2, <1>13, <2>1 DEF FetchGroups
<1>14. UserDone(f).pc = "work" /\ [f EXCEPT !.pc = "setRole"].pc = "setRole"
  BY <1>1 DEF Frame, UserDone
<1>15. CASE GetUser(p)
  BY <1>2, <1>14, <1>15 DEF GetUser
<1>16. CASE SetRole(p)
  BY <1>2, <1>14, <1>16 DEF SetRole
<1>17. CASE Finish(p)
  BY <1>17 DEF Finish
<1> QED
  BY <1>3, <1>4, <1>5, <1>6, <1>7, <1>8, <1>9, <1>10, <1>11, <1>12, <1>13, <1>15,
     <1>16, <1>17 DEF Step

-----------------------------------------------------------------------------
(* No two groups of one name *)

\* The name is free when a group is about to be created under it.
NameFree == \A p \in Procs : h[p].pc = "create" => GroupsNamed(h[p].req.name) = {}

LEMMA StepKeepsNameFree ==
  ASSUME Serial, HandlerInv, NameFree, NEW p \in Procs, Step(p)
  PROVE  NameFree'
<1>1. h \in [Procs -> Frame] /\ h[p] \in Frame
  BY DEF HandlerInv, TypeOK
<1> SUFFICES ASSUME h'[p].pc = "create" PROVE (GroupsNamed(h[p].req.name) = {})'
  BY DEF NameFree, Serial
<1>2. ASSUME NEW s, Answer(p, s) PROVE FALSE
  <2>1. h'[p] = Idle
    BY <1>1, <1>2 DEF Answer
  <2>2. Idle.pc = "idle"
    BY DEF Idle
  <2> QED
    BY <2>1, <2>2
<1>3. FindGroup(p)
  BY <1>2, StepOutcome
<1>4. \A j, x, pc : pc # "create" =>
        ~ Continue(p, [h[p] EXCEPT !.gid = j, !.add = h[p].req.members, !.ext = x, !.pc = pc])
  BY <1>1 DEF Continue, Frame
<1>5. /\ GroupsNamed(h[p].req.name) = {} /\ UNCHANGED teamVars
      /\ Continue(p, [h[p] EXCEPT !.add = h[p].req.members, !.pc = "create"])
  BY <1>2, <1>3, <1>4 DEF FindGroup, Read, Call
<1>6. h'[p].req = h[p].req
  BY <1>1, <1>5 DEF Continue, Frame
<1> QED
  BY <1>5, <1>6 DEF GroupsNamed, HasGroup, EqualFold, teamVars

LEMMA NextKeepsNameFree ==
  ASSUME Serial, HandlerInv, NameFree, [Next]_vars
  PROVE  NameFree'
<1> USE DEF HandlerInv, TypeOK
<1>1. ASSUME NEW p \in Procs, Step(p) PROVE NameFree'
  BY <1>1, StepKeepsNameFree
<1>2. ASSUME NEW p \in Procs, NEW r \in Received, Receive(p, r) PROVE NameFree'
  <2>1. FirstStep(r.op) # "create"
    BY ReceivedFacts DEF RequestType, FirstStep
  <2>2. h'[p].pc # "create"
    BY <1>2, <2>1 DEF Receive, Continue, Idle
  <2> QED
    BY <2>2 DEF NameFree, Serial
<1>3. CASE AccountEvent
  <2>1. UNCHANGED <<h, gstate, gname>>
    BY <1>3 DEF AccountEvent, SuspendUser, ActivateUser, DeleteUser, groupVars
  <2> QED
    BY <2>1 DEF NameFree, GroupsNamed, HasGroup, EqualFold
<1>4. CASE Exit
  BY <1>4 DEF Exit, NameFree, Idle
<1>5. CASE UNCHANGED vars
  BY <1>5 DEF vars, teamVars, NameFree, GroupsNamed, HasGroup, EqualFold
<1> QED
  BY <1>1, <1>2, <1>3, <1>4, <1>5 DEF Next

(* Only CreateNew brings a group to life. *)
LEMMA OnlyCreateNew ==
  ASSUME HandlerInv, [Next]_vars, NEW g \in GroupIds, gstate[g] # "live", gstate'[g] = "live"
  PROVE  \E p \in Procs : /\ CreateNew(p)
                          /\ CreateGroup(g, h[p].req.name, h[p].req.ext)
<1>1. TeamTypeOK
  BY DEF HandlerInv, TypeOK
<1>2. ~ UNCHANGED teamVars
  BY DEF teamVars
<1>3. \A j, n, x : ~ UpdateGroup(j, n, x)
  BY DEF UpdateGroup
<1>4. \A j : ~ DeleteGroup(j)
  BY <1>1 DEF DeleteGroup, TeamTypeOK
<1>5. \A j, u : ~ AddUserToGroup(j, u) /\ ~ RemoveUserFromGroup(j, u)
  BY DEF AddUserToGroup, RemoveUserFromGroup
<1>6. \A u, t : ~ UpdateUserRole(u, t)
  BY DEF UpdateUserRole, groupVars
<1>7. ~ AccountEvent
  BY DEF AccountEvent, SuspendUser, ActivateUser, DeleteUser, groupVars
<1>8. \A j, n, x : CreateGroup(j, n, x) => j = g
  BY <1>1 DEF CreateGroup, TeamTypeOK
<1>9. PICK p \in Procs : Step(p)
  BY <1>2, <1>7 DEF Next, vars, Receive, Exit
<1>10. CreateNew(p)
  BY <1>2, <1>3, <1>4, <1>5, <1>6, <1>9
  DEF Step, FindGroup, GetGroup, UpdateAttributes, ParseMembers, Reconcile, AddMember,
      RemoveMember, Capture, DeleteCaptured, FetchGroups, GetUser, SetRole, Finish, Read, Call
<1> QED
  BY <1>2, <1>8, <1>10 DEF CreateNew, Call

(* For requests served one at a time, any failures and repetitions, and     *)
(* whatever happens to accounts: a group is never created under the name of *)
(* a live one (groups.go:55-74).                                            *)
THEOREM NeverCreatedTwice ==
  ASSUME Serial
  PROVE  Spec => NoDuplicateCreated
<1> DEFINE Fresh(g, k) ==
      gstate[g] = "absent" /\ gstate'[g] = "live" /\ HasGroup(k) =>
        ~ EqualFold(gname'[g], gname[k])
<1>1. Init => NameFree
  <2>1. Idle.pc = "idle"
    BY DEF Idle
  <2> QED
    BY <2>1 DEF Init, NameFree
<1>2. HandlerInv /\ NameFree /\ [Next]_vars => NameFree'
  BY NextKeepsNameFree
<1>3. HandlerInv /\ NameFree /\ [Next]_vars => [\A g, k \in GroupIds : Fresh(g, k)]_vars
  <2>1. SUFFICES ASSUME HandlerInv, NameFree, [Next]_vars,
                        NEW g \in GroupIds, NEW k \in GroupIds,
                        gstate[g] = "absent", gstate'[g] = "live", HasGroup(k)
                 PROVE  ~ EqualFold(gname'[g], gname[k])
    OBVIOUS
  <2>2. PICK p \in Procs : CreateNew(p) /\ CreateGroup(g, h[p].req.name, h[p].req.ext)
    BY <2>1, OnlyCreateNew
  <2>3. k \notin GroupsNamed(h[p].req.name)
    BY <2>1, <2>2 DEF CreateNew, NameFree
  <2>4. ~ EqualFold(gname[k], h[p].req.name)
    BY <2>1, <2>3 DEF GroupsNamed
  <2>5. gname'[g] = h[p].req.name
    BY <2>1, <2>2 DEF CreateGroup, HandlerInv, TypeOK, TeamTypeOK
  <2> QED
    BY <2>4, <2>5 DEF EqualFold
<1> QED
  BY <1>1, <1>2, <1>3, HandlersWellFormed, PTL DEF Spec, NoDuplicateCreated

-----------------------------------------------------------------------------
(* An answer means what it says *)

LEMMA WorkDueNext ==
  ASSUME Serial, "delete" \notin AccountEvents, HandlerInv, WorkDue, [Next]_vars
  PROVE  WorkDue'
<1>0. TypeOK
  BY DEF HandlerInv
<1>1. ASSUME NEW p \in Procs, Step(p) PROVE WorkDue'
  BY <1>1, StepKeepsDue
<1>2. ASSUME NEW p \in Procs, NEW r \in Received, Receive(p, r) PROVE WorkDue'
  <2>1. PICK k : /\ k = [Idle EXCEPT !.pc = FirstStep(r.op), !.req = r, !.gid = r.gid]
                 /\ Continue(p, k)
    BY <1>2 DEF Receive
  <2>2. k.pc \in {"find", "get", "capture"} /\ k.rem = {} /\ k.name = ""
    <3>1. FirstStep(r.op) \in {"find", "get", "capture"}
      BY ReceivedFacts DEF RequestType, FirstStep
    <3> QED
      BY <2>1, <3>1 DEF Idle
  <2>3. AttributesDue(k)' /\ EditsDue(k)' /\ PostDue(k)'
    BY <2>2 DEF AttributesDue, EditsDue, PostDue, RecomputeSteps
  <2> QED
    BY <1>0, <2>1, <2>3, ContinueDue
<1>3. ASSUME UNCHANGED <<h, groupVars>> PROVE WorkDue'
  <2>1. ASSUME NEW k, AttributesDue(k), EditsDue(k), PostDue(k)
        PROVE  AttributesDue(k)' /\ EditsDue(k)' /\ PostDue(k)'
    BY <1>3, <2>1 DEF AttributesDue, EditsDue, PostDue, MembersDue, GroupsNamed, HasGroup,
                      EqualFold, groupVars
  <2>2. ASSUME NEW q \in Procs
        PROVE  AttributesDue(h[q])' /\ EditsDue(h[q])' /\ PostDue(h[q])'
    <3>1. PICK k : k = h[q]
      OBVIOUS
    <3>2. AttributesDue(k) /\ EditsDue(k) /\ PostDue(k)
      BY <3>1 DEF WorkDue
    <3>3. h'[q] = k
      BY <1>3, <3>1
    <3> QED
      BY <2>1, <3>2, <3>3
  <2> QED
    BY <2>2 DEF WorkDue
<1>4. CASE AccountEvent
  BY <1>3, <1>4 DEF AccountEvent, SuspendUser, ActivateUser
<1>5. CASE Exit
  <2>1. \A q \in Procs : h'[q] = Idle
    BY <1>5 DEF Exit
  <2>2. Idle.pc = "idle"
    BY DEF Idle
  <2> QED
    BY <2>1, <2>2 DEF WorkDue, AttributesDue, EditsDue, PostDue, RecomputeSteps
<1>6. CASE UNCHANGED vars
  BY <1>3, <1>6 DEF vars, teamVars, groupVars
<1> QED
  BY <1>1, <1>2, <1>4, <1>5, <1>6 DEF Next

LEMMA WorkDueInit == Init => WorkDue
<1>1. Idle.pc = "idle"
  BY DEF Idle
<1> QED
  BY <1>1 DEF Init, WorkDue, AttributesDue, EditsDue, PostDue, RecomputeSteps

(* For requests served one at a time, any failures and repetitions, and     *)
(* accounts that others suspend and activate, but do not delete, meanwhile: *)
(* what a handler has done and has still to do is what its request asks.    *)
THEOREM WorkIsDue ==
  ASSUME Serial, "delete" \notin AccountEvents
  PROVE  Spec => []WorkDue
<1>1. HandlerInv /\ WorkDue /\ [Next]_vars => WorkDue'
  BY WorkDueNext
<1> QED
  BY <1>1, WorkDueInit, HandlersWellFormed, PTL DEF Spec

\* AnswerHolds of a step.
AnswerIsTrue(p) ==
  /\ Succeeds(p) => Promise(h[p].req, h[p].gid)
  /\ Ends(p) /\ status'[p] = "badRequest" => Named(h[p].req, h[p].gid)

LEMMA FinishIsTrue ==
  ASSUME HandlerInv, WorkDue, NEW p \in Procs, Finish(p), Answer(p, "ok")
  PROVE  Promise(h[p].req, h[p].gid)
<1> PICK f : f = h[p]
  OBVIOUS
<1> PICK r : r = f.req
  OBVIOUS
<1> PICK g : g = f.gid
  OBVIOUS
<1>1. AttributesDue(f) /\ EditsDue(f)
  BY DEF WorkDue
<1>2. f.pc = "work" /\ f.add = {} /\ f.rem = {} /\ UNCHANGED teamVars
  BY DEF Finish, EditsDone, Read, Call
<1>3. r \in Received /\ r.op \in {"POST", "PUT", "PATCH", "DELETE"}
  BY <1>2, TrackFacts
<1>4. MembersDue(f) = members'[g]
  BY <1>2 DEF MembersDue, teamVars
<1>5. /\ r.op = "POST" => r.members \subseteq members'[g]
      /\ r.op = "PUT" => members'[g] = r.members
      /\ r.op = "PATCH" => \/ r.edit = "replace" /\ members'[g] = r.members
                           \/ /\ r.edit = "delta"
                              /\ r.members \ r.remove \subseteq members'[g]
                              /\ r.remove \cap members'[g] = {}
      /\ r.op = "DELETE" => gstate'[g] = "deleted"
  BY <1>1, <1>2, <1>4 DEF EditsDue, RecomputeSteps, teamVars
<1>6. r.op \in {"PUT", "PATCH"} => Named(r, g)
  BY <1>1, <1>2 DEF AttributesDue, RecomputeSteps, Named, teamVars
<1>7. r.op = "POST" => EqualFold(gname'[g], r.name) /\ (r.ext # "" => gext'[g] = r.ext)
  BY <1>1, <1>2 DEF AttributesDue, RecomputeSteps, EqualFold, teamVars
<1>8. r.op = "PATCH" => Patched(r, g)
  <2> SUFFICES ASSUME r.op = "PATCH", InOrder(r.ops), NEW u \in UserIds
               PROVE  /\ MadeMember(r.ops, u) => u \in members'[g]
                      /\ MadeStranger(r.ops, u) => u \notin members'[g]
    BY DEF Patched
  <2>1. /\ r.ops \in Seq(GroupOp) /\ r.edit = Edit(r.ops)
        /\ r.members = MembersWanted(r.ops) /\ r.remove = Listed(r.ops, "remove")
    BY <1>3, ReceivedPatch
  <2>2. CASE r.edit = "replace"
    <3>1. Replacements(r.ops) # {}
      BY <2>1, <2>2 DEF Edit
    <3> QED
      BY <1>5, <2>1, <2>2, <3>1, ReplacementReduced
  <2>3. CASE r.edit = "delta"
    BY <1>5, <2>1, <2>3, DeltaReduced
  <2> QED
    BY <1>5, <2>2, <2>3
<1> QED
  BY <1>3, <1>5, <1>6, <1>7, <1>8 DEF Promise, Exactly, Joined

LEMMA RefusalIsTrue ==
  ASSUME HandlerInv, WorkDue, NEW p \in Procs, ParseMembers(p)
  PROVE  Named(h[p].req, h[p].gid)
<1> PICK f : f = h[p]
  OBVIOUS
<1>1. AttributesDue(f) /\ f.pc = "parse" /\ UNCHANGED teamVars
  BY DEF WorkDue, ParseMembers
<1>2. f.req.op = "PATCH"
  BY <1>1, TrackFacts DEF StepsOf, RecomputeSteps
<1> QED
  BY <1>1, <1>2 DEF AttributesDue, Named, teamVars

(* Under the same conditions a 2xx answer means that the group has the      *)
(* name, the externalId and the members that were asked for, and a 400 for  *)
(* the members of a PATCH that its attributes are written (groups.go).      *)
THEOREM AnswersAreTrue ==
  ASSUME Serial, "delete" \notin AccountEvents
  PROVE  Spec => AnswerHolds
<1>1. HandlerInv /\ WorkDue /\ [Next]_vars => [\A p \in Procs : AnswerIsTrue(p)]_vars
  <2> SUFFICES ASSUME HandlerInv, WorkDue, Next, NEW p \in Procs, Ends(p),
                      status'[p] \in {"ok", "badRequest"}
               PROVE  AnswerIsTrue(p)
    BY DEF AnswerIsTrue, Succeeds
  <2>1. status \in [Procs -> Answers] /\ h \in [Procs -> Frame]
    BY DEF HandlerInv, TypeOK
  <2>2. Step(p)
    <3>1. ASSUME NEW q \in Procs, NEW r \in Received, Receive(q, r) PROVE FALSE
      <4>1. q = p /\ h[p].pc = "idle"
        BY <3>1 DEF Serial, Receive
      <4> QED
        BY <4>1 DEF Ends
    <3>2. ~ AccountEvent
      BY DEF AccountEvent, Ends
    <3>3. ~ Exit
      BY DEF Exit
    <3>4. PICK q \in Procs : Step(q)
      BY <3>1, <3>2, <3>3 DEF Next
    <3> QED
      BY <3>4 DEF Serial
  <2>3. \A s : Answer(p, s) => status'[p] = s
    BY <2>1 DEF Answer
  <2>4. h'[p].pc = "idle"
    BY DEF Ends
  <2>5. \/ ParseMembers(p) /\ status'[p] = "badRequest"
        \/ Finish(p) /\ Answer(p, "ok") /\ status'[p] = "ok"
    BY <2>2, <2>3, <2>4, StepOutcome
  <2> QED
    BY <2>5, FinishIsTrue, RefusalIsTrue DEF AnswerIsTrue, Succeeds
<1> QED
  BY <1>1, WorkIsDue, HandlersWellFormed, PTL DEF Spec, AnswerHolds, AnswerIsTrue
=============================================================================
