-------------------------- MODULE UserHistoryProofs --------------------------
(***************************************************************************)
(* A PUT, PATCH or POST of a user that is answered with success has seen   *)
(* every attribute it asks for, for any numbers of accounts, externalIds,  *)
(* handlers and requests, whatever overlaps, fails or is killed.           *)
(***************************************************************************)
EXTENDS UserHistory, ScimUsersProofs

LEMMA WantedFacts ==
  ASSUME NEW r
  PROVE  /\ "name" \in Wanted(r) <=> r.name # "" /\ r.op # "POST"
         /\ "state" \in Wanted(r) <=> r.active = "no" \/ (r.active = "yes" /\ r.op # "POST")
         /\ "ext" \in Wanted(r) <=> r.ext # ""
         /\ Wanted(r) \subseteq {"name", "state", "ext"}
  BY DEF Wanted, Attributes

-----------------------------------------------------------------------------
(* What a reply tells a handler is so at that moment. *)

LEMMA RecordFacts ==
  ASSUME HeldInv, Record, NEW p \in Procs, h'[p].pc # "idle"
  PROVE  held'[p] = held[p] \cup Had(h[p])'
  BY DEF Record

LEMMA ReplySeen ==
  ASSUME Record, HeldInv, NEW p \in Procs, h'[p].pc # "idle", h'[p].uid \in UserIds,
         h'[p].cur = Reported(h'[p].uid), ustate'[h'[p].uid] \in {"active", "suspended"}
  PROVE  /\ CurSeen(h'[p], held'[p])
         /\ h'[p].cur.name = h'[p].req.name => "name" \in held'[p]
<1>1. held'[p] = held[p] \cup Had(h[p])'
  BY RecordFacts
<1>2. h'[p].uid # ""
  BY NoNameAssumption
<1>3. Had(h[p])' = {a \in Attributes : Holds(a, h[p].req, h[p].uid)'}
  BY <1>2 DEF Had
<1>4. /\ h'[p].cur.name = name'[h'[p].uid]
      /\ h'[p].cur.suspended = (ustate'[h'[p].uid] = "suspended")
  BY DEF Reported
<1>5. {"name", "state"} \subseteq Attributes
  BY DEF Attributes
<1>6. h'[p].cur.name = h'[p].req.name => "name" \in held'[p]
  BY <1>1, <1>3, <1>4, <1>5 DEF Holds
<1>7. CASE ustate'[h'[p].uid] = "suspended"
  <2>1. h'[p].req.active = "no" => "state" \in held'[p]
    BY <1>1, <1>3, <1>5, <1>7 DEF Holds
  <2> QED
    BY <1>4, <1>6, <1>7, <2>1 DEF CurSeen
<1>8. CASE ustate'[h'[p].uid] = "active"
  <2>1. h'[p].req.active = "yes" => "state" \in held'[p]
    BY <1>1, <1>3, <1>5, <1>8 DEF Holds
  <2> QED
    BY <1>4, <1>6, <1>8, <2>1 DEF CurSeen
<1> QED
  BY <1>7, <1>8

(* The next step is chosen by what was seen. *)
LEMMA AfterRenameSeen ==
  ASSUME NEW f \in Frame, NEW k, NEW seen, k.req = f.req, k.pc = AfterRename(f),
         f.req.active \in {"yes", "no", ""}, CurSeen(f, seen),
         "name" \in Wanted(f.req) => "name" \in seen
  PROVE  Seen(k, seen)
<1>1. f.cur.suspended \in BOOLEAN
  BY DEF Frame
<1>2. CASE f.req.active = "no" /\ ~ f.cur.suspended
  BY <1>2 DEF AfterRename, Seen
<1>3. CASE f.req.active = "yes" /\ f.cur.suspended /\ f.req.op # "POST"
  BY <1>3 DEF AfterRename, Seen
<1>4. CASE /\ ~ (f.req.active = "no" /\ ~ f.cur.suspended)
           /\ ~ (f.req.active = "yes" /\ f.cur.suspended /\ f.req.op # "POST")
  <2>1. k.pc = "store"
    BY <1>4 DEF AfterRename
  <2>2. "state" \in Wanted(f.req) => "state" \in seen
    BY <1>1, <1>4, WantedFacts DEF CurSeen
  <2> QED
    BY <2>1, <2>2 DEF Seen
<1> QED
  BY <1>2, <1>3, <1>4

LEMMA AfterGetSeen ==
  ASSUME NEW f \in Frame, NEW k, NEW seen, k.req = f.req, k.pc = AfterGet(f),
         f.req.active \in {"yes", "no", ""}, CurSeen(f, seen), CurSeen(k, seen),
         f.cur.name = f.req.name => "name" \in seen
  PROVE  Seen(k, seen)
<1>1. CASE f.req.name \notin {"", f.cur.name}
  BY <1>1 DEF AfterGet, Seen
<1>2. CASE f.req.name \in {"", f.cur.name}
  <2>1. k.pc = AfterRename(f)
    BY <1>2 DEF AfterGet
  <2>2. "name" \in Wanted(f.req) => "name" \in seen
    BY <1>2, WantedFacts
  <2> QED
    BY <2>1, <2>2, AfterRenameSeen
<1> QED
  BY <1>1, <1>2

LEMMA SeenGrows ==
  ASSUME NEW f, NEW seen, NEW more, seen \subseteq more, Seen(f, seen)
  PROVE  Seen(f, more)
  BY DEF Seen, CurSeen

LEMMA EarlySeen ==
  ASSUME NEW f, NEW seen,
         f.pc \notin {"rename", "suspend", "activate", "store", "answer"}
  PROVE  Seen(f, seen)
  BY DEF Seen

-----------------------------------------------------------------------------
(* A step of a handler *)

LEMMA ReplyIdle ==
  ASSUME UserInv, NEW p \in Procs, NEW s, Reply(p, s)
  PROVE  h'[p].pc = "idle" /\ Seen(h'[p], held'[p])
<1>1. h'[p] = Idle
  BY DEF Reply, UserInv, TypeOK
<1>2. Idle.pc = "idle"
  BY DEF Idle
<1>3. Seen(Idle, held'[p])
  BY <1>2, EarlySeen
<1> QED
  BY <1>1, <1>2, <1>3

LEMMA GoOnFacts ==
  ASSUME UserInv, NEW p \in Procs, NEW f, NEW step, GoOn(p, f, step), f \in Frame
  PROVE  /\ h'[p].pc = step /\ h'[p].req = f.req
         /\ h'[p].uid = f.uid /\ h'[p].cur = f.cur
  BY DEF GoOn, Continue, Goes, UserInv, TypeOK, Frame

(* A handler goes on after a reply about an account that is there. *)
LEMMA KnownFacts ==
  ASSUME HeldInv, UserInv', Record, NEW p \in Procs, h[p].pc # "idle", NEW u \in UserIds,
         NEW step \in Steps \ {"idle"}, GoOn(p, Known(h[p], u), step),
         ustate'[u] \in {"active", "suspended"}
  PROVE  LET k == Known(h[p], u)
         IN /\ k \in Frame /\ k.req = h[p].req /\ k.cur = Reported(u)
            /\ h'[p].pc = step /\ h'[p].req = k.req /\ h'[p].cur = k.cur
            /\ CurSeen(k, held'[p]) /\ CurSeen(h'[p], held'[p])
            /\ k.cur.name = k.req.name => "name" \in held'[p]
            /\ held[p] \subseteq held'[p]
<1> DEFINE k == Known(h[p], u)
<1>1. h[p] \in Frame /\ UserInv
  BY DEF HeldInv, UserInv, TypeOK
<1>2. k \in Frame /\ k.req = h[p].req /\ k.uid = u /\ k.cur = Reported(u)
  BY <1>1 DEF Known, Reported, Frame, UserInv, TypeOK, AccountsTypeOK
<1> HIDE DEF k
<1>3. /\ h'[p].pc = step /\ h'[p].req = k.req
      /\ h'[p].uid = u /\ h'[p].cur = k.cur
  BY <1>1, <1>2, GoOnFacts DEF k
<1>4. /\ CurSeen(h'[p], held'[p])
      /\ h'[p].cur.name = h'[p].req.name => "name" \in held'[p]
  BY <1>2, <1>3, ReplySeen
<1>5. held[p] \subseteq held'[p]
  BY <1>3, RecordFacts
<1>6. CurSeen(k, held'[p])
  BY <1>3, <1>4 DEF CurSeen
<1> QED
  BY <1>2, <1>3, <1>4, <1>5, <1>6 DEF k

LEMMA StepSeen ==
  ASSUME HeldInv, UserInv', Record, NEW p \in Procs, Step(p)
  PROVE  Seen(h'[p], held'[p])
<1> DEFINE f == h[p]
           Goal == Seen(h'[p], held'[p])
<1> SUFFICES Goal
  OBVIOUS
<1>1. f.pc # "idle"
  BY DEF Step, Invite, Adopt, Get, Rename, Suspend, Activate, StoreExternalId,
         Represent, DeleteUserCall, Forget, Lookup, Resolve
<1>2. /\ UserInv /\ f \in Frame /\ f.req.active \in {"yes", "no", ""}
      /\ f.req.op \in {"POST", "PUT", "PATCH", "DELETE", "FIND"}
      /\ f.pc \in StepsOf(f.req.op)
      /\ f.pc \notin {"invite", "adopt", "lookup"} => f.uid \in UserIds
  BY <1>1, RequestFacts DEF HeldInv, RequestType
<1>3. /\ Seen(f, held[p])
      /\ f.pc \in {"rename", "suspend", "activate", "store"} => Writes(f)
  BY <1>2 DEF HeldInv, Writes, StepsOf
<1>4. \A s : Answer(p, s) => Goal
  BY <1>2, ReplyIdle DEF Answer
<1>5. \A s : Reply(p, s) => Goal
  BY <1>2, ReplyIdle
<1>6. ASSUME NEW k \in Frame, NEW step, GoOn(p, k, step),
             step \notin {"rename", "suspend", "activate", "store", "answer"}
      PROVE  Goal
  BY <1>2, <1>6, GoOnFacts, EarlySeen
<1>7. {"rename", "suspend", "activate", "store", "answer"} \subseteq Steps \ {"idle"}
  BY DEF Steps
<1>8. ASSUME NEW u \in UserIds, GoOn(p, Known(f, u), AfterGet(Known(f, u))),
             ustate'[u] \in {"active", "suspended"}
      PROVE  Goal
  <2>1. AfterGet(Known(f, u)) \in Steps \ {"idle"}
    BY <1>7 DEF AfterGet, AfterRename
  <2>2. LET k == Known(f, u)
        IN /\ k \in Frame /\ k.req = f.req
           /\ h'[p].pc = AfterGet(k) /\ h'[p].req = k.req
           /\ CurSeen(k, held'[p]) /\ CurSeen(h'[p], held'[p])
           /\ k.cur.name = k.req.name => "name" \in held'[p]
    BY <1>1, <1>8, <2>1, KnownFacts
  <2> QED
    BY <1>2, <2>2, AfterGetSeen
<1>9. ASSUME NEW u \in UserIds, GoOn(p, Known(f, u), AfterRename(Known(f, u))),
             ustate'[u] \in {"active", "suspended"},
             "name" \in Wanted(f.req) => Known(f, u).cur.name = f.req.name
      PROVE  Goal
  <2>1. AfterRename(Known(f, u)) \in Steps \ {"idle"}
    BY <1>7 DEF AfterRename
  <2>2. LET k == Known(f, u)
        IN /\ k \in Frame /\ k.req = f.req
           /\ h'[p].pc = AfterRename(k) /\ h'[p].req = k.req
           /\ CurSeen(k, held'[p])
           /\ k.cur.name = k.req.name => "name" \in held'[p]
    BY <1>1, <1>9, <2>1, KnownFacts
  <2> QED
    BY <1>2, <1>9, <2>2, AfterRenameSeen
<1>10. ASSUME NEW u \in UserIds, GoOn(p, Known(f, u), "store"), f.pc \in {"suspend", "activate"},
              ustate'[u] = IF f.pc = "suspend" THEN "suspended" ELSE "active"
       PROVE  Goal
  <2>1. /\ h'[p].pc = "store" /\ h'[p].req = f.req /\ h'[p].cur = Reported(u)
        /\ CurSeen(h'[p], held'[p]) /\ held[p] \subseteq held'[p]
    BY <1>1, <1>7, <1>10, KnownFacts
  <2>2. f.req.active = (IF f.pc = "suspend" THEN "no" ELSE "yes")
    BY <1>3, <1>10 DEF Seen
  <2>3. h'[p].cur.suspended = (f.pc = "suspend")
    BY <1>10, <2>1 DEF Reported
  <2>4. "state" \in held'[p]
    BY <1>10, <2>1, <2>2, <2>3 DEF CurSeen
  <2>5. "name" \in Wanted(f.req) => "name" \in held'[p]
    BY <1>3, <1>10, <2>1 DEF Seen
  <2> QED
    BY <2>1, <2>4, <2>5 DEF Seen
<1> HIDE DEF f, Goal
<1>11. CASE Invite(p)
  <2>1. f.pc = "invite" /\ f.req.op = "POST"
    BY <1>2, <1>11 DEF Invite, StepsOf, f
  <2>2. "name" \notin Wanted(f.req)
    BY <2>1, WantedFacts
  <2>3. ASSUME NEW u \in UserIds, InviteUser(u, f.req.email, f.req.name)
        PROVE  ustate'[u] = "active"
    BY <1>2, <2>3 DEF InviteUser, UserInv, TypeOK, AccountsTypeOK
  <2> QED
    BY <1>2, <1>4, <1>6, <1>9, <1>11, <2>2, <2>3 DEF Invite, Call, FreshIds, f
<1>12. CASE Adopt(p)
  <2>1. ASSUME NEW u \in WithEmail(f.req.email), UNCHANGED accountVars
        PROVE  u \in UserIds /\ ustate'[u] \in {"active", "suspended"}
    BY <2>1 DEF WithEmail, HasUser, accountVars
  <2> QED
    BY <1>4, <1>8, <1>12, <2>1 DEF Adopt, Call, f
<1>13. CASE Get(p)
  <2>1. f.uid \in UserIds
    BY <1>2, <1>13 DEF Get, f
  <2>2. HasUser(f.uid) /\ UNCHANGED accountVars => ustate'[f.uid] \in {"active", "suspended"}
    BY DEF HasUser, accountVars
  <2> QED
    BY <1>4, <1>8, <1>13, <2>1, <2>2 DEF Get, UserCall, Call, f
<1>14. CASE Rename(p)
  <2>1. f.uid \in UserIds /\ f.pc = "rename"
    BY <1>2, <1>14 DEF Rename, f
  <2>2. ASSUME HasUser(f.uid), UpdateUserName(f.uid, f.req.name)
        PROVE  /\ ustate'[f.uid] \in {"active", "suspended"}
               /\ Known(f, f.uid).cur.name = f.req.name
    BY <1>2, <2>1, <2>2
    DEF UpdateUserName, HasUser, Known, Reported, Frame, UserInv, TypeOK, AccountsTypeOK
  <2>3. ASSUME GoOn(p, f, AfterRename(f)), f.req.op = "POST"
        PROVE  Goal
    <3>1. h'[p].pc = AfterRename(f) /\ h'[p].req = f.req
      BY <1>2, <2>3, GoOnFacts DEF f
    <3>2. h'[p].pc # "idle"
      BY <3>1 DEF AfterRename
    <3>3. CurSeen(f, held'[p])
      BY <1>3, <2>1, <3>2, RecordFacts DEF Seen, CurSeen
    <3>4. "name" \notin Wanted(f.req)
      BY <2>3, WantedFacts
    <3> QED
      BY <1>2, <3>1, <3>3, <3>4, AfterRenameSeen DEF Goal
  <2>4. CASE f.req.op = "POST"
    BY <1>9, <1>14, <2>1, <2>2, <2>3, <2>4 DEF Rename, Call, f
  <2>5. CASE f.req.op # "POST"
    BY <1>4, <1>9, <1>14, <2>1, <2>2, <2>5 DEF Rename, Call, f
  <2> QED
    BY <2>4, <2>5
<1>15. CASE Suspend(p)
  <2>1. f.uid \in UserIds /\ f.pc = "suspend"
    BY <1>2, <1>15 DEF Suspend, f
  <2>2. SuspendUser(f.uid) => ustate'[f.uid] = "suspended"
    BY <1>2, <2>1 DEF SuspendUser, SetState, UserInv, TypeOK, AccountsTypeOK
  <2> QED
    BY <1>4, <1>10, <1>15, <2>1, <2>2 DEF Suspend, UserCall, Call, f
<1>16. CASE Activate(p)
  <2>1. f.uid \in UserIds /\ f.pc = "activate"
    BY <1>2, <1>16 DEF Activate, f
  <2>2. ActivateUser(f.uid) => ustate'[f.uid] = "active"
    BY <1>2, <2>1 DEF ActivateUser, SetState, UserInv, TypeOK, AccountsTypeOK
  <2> QED
    BY <1>4, <1>10, <1>16, <2>1, <2>2 DEF Activate, UserCall, Call, f
<1>17. CASE StoreExternalId(p)
  <2>1. f.pc = "store" /\ f.uid \in UserIds /\ f.uid # ""
    BY <1>2, <1>17, NoNameAssumption DEF StoreExternalId, f
  <2>2. PICK m : m = IF map[f.uid] = f.req.ext THEN map
                     ELSE Store!Assigned(map, f.uid, f.req.ext)
    OBVIOUS
  <2>3. m[f.uid] = f.req.ext
    BY <1>2, <2>1, <2>2 DEF Store!Assigned, UserInv, TypeOK, Store!Mapping
  <2>4. ASSUME Goes(p, [f EXCEPT !.pc = "answer"]), f.req.ext # "" => map'[f.uid] = f.req.ext
        PROVE  Goal
    <3>1. h'[p].pc = "answer" /\ h'[p].req = f.req /\ h'[p].uid = f.uid
      BY <1>2, <2>4 DEF Goes, UserInv, TypeOK, Frame
    <3>2. held'[p] = held[p] \cup {a \in Attributes : Holds(a, h[p].req, h[p].uid)'}
      BY <2>1, <3>1, RecordFacts DEF Had
    <3>3. "ext" \in Wanted(f.req) => "ext" \in held'[p]
      BY <2>4, <3>1, <3>2, WantedFacts DEF Holds, Attributes
    <3>4. /\ "name" \in Wanted(f.req) => "name" \in held'[p]
          /\ "state" \in Wanted(f.req) => "state" \in held'[p]
      BY <1>3, <2>1, <3>2 DEF Seen
    <3> QED
      BY <3>1, <3>3, <3>4 DEF Seen, Goal
  <2>5. \/ f.req.ext = "" /\ Goes(p, [f EXCEPT !.pc = "answer"])
        \/ f.req.ext # "" /\ Stored(m) /\ Goes(p, [f EXCEPT !.pc = "answer"])
        \/ Reply(p, "storeError")
    BY <1>17, <2>2 DEF StoreExternalId, GoOn, Continue, f
  <2> QED
    BY <1>5, <2>3, <2>4, <2>5, StoreFacts
<1>18. CASE DeleteUserCall(p)
  <2>1. CASE hardDelete
    BY <1>2, <1>4, <1>6, <1>18, <2>1 DEF DeleteUserCall, UserCall, Call, f
  <2>2. CASE ~ hardDelete
    BY <1>4, <1>18, <2>2 DEF DeleteUserCall, UserCall, Call, f
  <2> QED
    BY <2>1, <2>2
<1>22. CASE Represent(p)
  BY <1>4, <1>22 DEF Represent
<1>19. CASE Forget(p)
  BY <1>5, <1>19, StoreFacts DEF Forget
<1>20. CASE Lookup(p)
  <2>1. ASSUME NEW u, Continue(p, [f EXCEPT !.pc = "resolve", !.uid = u])
        PROVE  Goal
    <3>1. h'[p].pc = "resolve"
      BY <1>2, <2>1 DEF Continue, Goes, UserInv, TypeOK, Frame
    <3> QED
      BY <3>1, EarlySeen DEF Goal
  <2> QED
    BY <1>4, <1>20, <2>1 DEF Lookup, f
<1>21. CASE Resolve(p)
  <2>1. f.uid \in UserIds /\ ~ Writes(f)
    BY <1>2, <1>21 DEF Resolve, StepsOf, Writes, f
  <2>2. ASSUME ShowFound(p), HasUser(f.uid), UNCHANGED accountVars
        PROVE  Goal
    <3>1. ustate'[f.uid] \in {"active", "suspended"}
      BY <2>2 DEF HasUser, accountVars
    <3>2. h'[p].req = f.req
      BY <1>1, <1>7, <2>1, <2>2, <3>1, KnownFacts DEF ShowFound, f
    <3> QED
      BY <2>1, <3>2 DEF Seen, Writes, Goal
  <2> QED
    BY <1>4, <1>5, <1>21, <2>2, StoreFacts DEF Resolve, Call, f
<1> QED
  BY <1>11, <1>12, <1>13, <1>14, <1>15, <1>16, <1>17, <1>18, <1>19, <1>20, <1>21, <1>22
  DEF Step

-----------------------------------------------------------------------------
LEMMA OthersSeen ==
  ASSUME HeldInv, UserInv', Record, NEW p \in Procs, h'[p] = h[p]
  PROVE  Seen(h'[p], held'[p])
<1>1. Seen(h[p], held[p])
  BY DEF HeldInv
<1>2. CASE h[p].pc = "idle"
  BY <1>2, EarlySeen
<1>3. CASE h[p].pc # "idle"
  <2>1. held[p] \subseteq held'[p]
    BY <1>3, RecordFacts
  <2> QED
    BY <1>1, <2>1, SeenGrows
<1> QED
  BY <1>2, <1>3

LEMMA HandlersApart ==
  ASSUME UserInv, NEW p \in Procs, Step(p)
  PROVE  \A q \in Procs \ {p} : h'[q] = h[q]
<1>1. HandlerGood(p)
  BY StepGood
<1> QED
  BY <1>1 DEF HandlerGood, UserInv, TypeOK

LEMMA HeldInvNext ==
  ASSUME HeldInv, [HNext]_hvars
  PROVE  HeldInv'
<1>1. UserInv /\ [Next]_vars
  BY DEF HeldInv, HNext, hvars
<1>2. UserInv'
  BY <1>1, NextKeepsInv
<1>3. SUFFICES ASSUME NEW q \in Procs PROVE Seen(h'[q], held'[q])
  BY <1>2 DEF HeldInv
<1>4. CASE UNCHANGED hvars
  BY <1>4 DEF hvars, vars, HeldInv
<1>5. ASSUME Record, NEW p \in Procs, Step(p)
      PROVE  Seen(h'[q], held'[q])
  <2>1. CASE p = q
    BY <1>2, <1>5, <2>1, StepSeen
  <2>2. CASE p # q
    <3>1. h'[q] = h[q]
      BY <1>1, <1>5, <2>2, HandlersApart
    <3> QED
      BY <1>2, <1>5, <3>1, OthersSeen
  <2> QED
    BY <2>1, <2>2
<1>6. ASSUME Record, NEW p \in Procs, NEW r \in Received, Receive(p, r)
      PROVE  Seen(h'[q], held'[q])
  <2>1. CASE p = q
    <3>1. h'[q].pc = FirstStep(r.op)
      BY <1>1, <1>6, <2>1 DEF Receive, Continue, Goes, UserInv, TypeOK, Idle
    <3>2. r.op \in {"POST", "PUT", "PATCH", "DELETE", "FIND"}
      BY ReceivedFacts DEF RequestType
    <3>3. FirstStep(r.op) \notin {"rename", "suspend", "activate", "store", "answer"}
      BY <3>2 DEF FirstStep
    <3> QED
      BY <3>1, <3>3, EarlySeen
  <2>2. CASE p # q
    <3>1. h'[q] = h[q]
      BY <1>1, <1>6, <2>2 DEF Receive, Continue, Goes, UserInv, TypeOK
    <3> QED
      BY <1>2, <1>6, <3>1, OthersSeen
  <2> QED
    BY <2>1, <2>2
<1>7. ASSUME Record, NEW p \in Procs, Reject(p)
      PROVE  Seen(h'[q], held'[q])
  <2>1. CASE p = q
    BY <1>1, <1>7, <2>1, ReplyIdle DEF Reject, Answer
  <2>2. CASE p # q
    <3>1. h'[q] = h[q]
      BY <1>1, <1>7, <2>2 DEF Reject, Answer, Reply, UserInv, TypeOK
    <3> QED
      BY <1>2, <1>7, <3>1, OthersSeen
  <2> QED
    BY <2>1, <2>2
<1>8. ASSUME Record, DeleteInOutline
      PROVE  Seen(h'[q], held'[q])
  <2>1. h'[q] = h[q]
    BY <1>8 DEF DeleteInOutline
  <2> QED
    BY <1>2, <1>8, <2>1, OthersSeen
<1>9. ASSUME Restart
      PROVE  Seen(h'[q], held'[q])
  <2>1. h'[q].pc = "idle"
    BY <1>9 DEF Restart, Idle
  <2> QED
    BY <2>1, EarlySeen
<1> QED
  BY <1>4, <1>5, <1>6, <1>7, <1>8, <1>9 DEF HNext, Next

(* Handlers stay well formed, and what they decide by has been so. *)
THEOREM HeldInvariant == HSpec => []HeldInv
<1>1. HInit => HeldInv
  <2>1. ASSUME HInit, NEW p \in Procs PROVE Seen(h[p], held[p])
    <3>1. h[p].pc = "idle"
      BY <2>1 DEF HInit, Init, Idle
    <3> QED
      BY <3>1, EarlySeen
  <2> QED
    BY <2>1, UserInitInv DEF HInit, HeldInv
<1>2. HeldInv /\ [HNext]_hvars => HeldInv'
  BY HeldInvNext
<1> QED
  BY <1>1, <1>2, PTL DEF HSpec

-----------------------------------------------------------------------------
(* Only the last step of a POST, PUT or PATCH answers with success. *)
LEMMA SuccessAnswers ==
  ASSUME UserInv, NEW p \in Procs, HNext, Succeeds(p), Writes(h[p])
  PROVE  h[p].pc = "answer"
<1>1. h[p].pc # "idle" /\ h'[p].pc = "idle" /\ status'[p] \in {"ok", "empty"}
  BY DEF Succeeds
<1>2. /\ h[p].req.op \in {"POST", "PUT", "PATCH"}
      /\ h[p].pc \in StepsOf(h[p].req.op) /\ h[p] \in Frame
  BY <1>1, RequestFacts DEF Writes
<1>3. h[p].pc \notin {"delete", "forget", "lookup", "resolve"}
  BY <1>2 DEF StepsOf
<1>4. PICK q \in Procs : Step(q)
  <2>1. ASSUME NEW q \in Procs, NEW r \in Received, Receive(q, r)
        PROVE  FALSE
    <3>1. q # p /\ h'[p] = h[p]
      BY <1>1, <2>1 DEF Receive, Continue, Goes, UserInv, TypeOK
    <3> QED
      BY <1>1, <3>1
  <2>2. ASSUME NEW q \in Procs, Reject(q)
        PROVE  FALSE
    <3>1. q # p /\ h'[p] = h[p]
      BY <1>1, <2>2 DEF Reject, Answer, Reply, UserInv, TypeOK
    <3> QED
      BY <1>1, <3>1
  <2>3. ~ DeleteInOutline
    BY <1>1 DEF DeleteInOutline
  <2>4. ~ Restart
    BY <1>1 DEF Restart
  <2> QED
    BY <2>1, <2>2, <2>3, <2>4 DEF HNext, Next
<1>5. q = p
  BY <1>1, <1>4, HandlersApart
<1>6. Step(p)
  BY <1>4, <1>5
<1>7. ASSUME NEW s, s \notin {"ok", "empty"}
      PROVE  ~ Answer(p, s)
  BY <1>1, <1>7 DEF Answer, Reply, UserInv, TypeOK
<1>8. ASSUME NEW k, NEW step \in Steps \ {"idle"}, k \in Frame
      PROVE  ~ GoOn(p, k, step)
  BY <1>1, <1>8, GoOnFacts
<1>9. \A k : AfterRename(k) \in Steps \ {"idle"} /\ AfterGet(k) \in Steps \ {"idle"}
  BY DEF AfterRename, AfterGet, Steps
<1>10. \A u \in UserIds : AccountsTypeOK' => Known(h[p], u) \in Frame
  BY <1>2 DEF Known, Reported, Frame, AccountsTypeOK
<1>11. AccountsTypeOK'
  BY <1>6, StepGood DEF AccountsGood
<1>12. h[p].uid \in UserIds \/ h[p].pc \in {"invite", "adopt"}
  BY <1>1, <1>3, RequestFacts
<1>13. {"adopt", "store", "answer"} \subseteq Steps \ {"idle"}
  BY DEF Steps
<1>14. ~ (Invite(p) \/ Adopt(p))
  BY <1>2, <1>7, <1>8, <1>9, <1>10, <1>11, <1>13 DEF Invite, Adopt, Call, FreshIds, WithEmail
<1>15. ~ (Get(p) \/ Rename(p) \/ Suspend(p) \/ Activate(p))
  BY <1>2, <1>7, <1>8, <1>9, <1>10, <1>11, <1>12, <1>13
  DEF Get, Rename, Suspend, Activate, UserCall, Call
<1>16. ~ StoreExternalId(p)
  <2>1. ASSUME Goes(p, [h[p] EXCEPT !.pc = "answer"])
        PROVE  FALSE
    <3>1. h'[p] = [h[p] EXCEPT !.pc = "answer"]
      BY <2>1 DEF Goes, UserInv, TypeOK
    <3>2. h'[p].pc = "answer"
      BY <1>2, <3>1 DEF Frame
    <3> QED
      BY <1>1, <3>2
  <2>2. ~ Reply(p, "storeError")
    BY <1>1 DEF Reply, UserInv, TypeOK
  <2> QED
    BY <2>1, <2>2 DEF StoreExternalId, GoOn, Continue
<1> QED
  BY <1>3, <1>6, <1>14, <1>15, <1>16
  DEF Step, Represent, DeleteUserCall, Forget, Lookup, Resolve

(* Whatever overlaps, fails or is killed: every attribute that a POST, PUT  *)
(* or PATCH asks for, its externalId in the mapping included, was the       *)
(* account's at some moment between its receipt and its 2xx answer; at the  *)
(* answer another request may have taken it back (users.go:39-51, 103-129,  *)
(* 215-235 and 256-278).                                                    *)
THEOREM AnswersSeen == HSpec => EachHeld
<1>1. ASSUME HeldInv, HNext, NEW p \in Procs, Succeeds(p), Writes(h[p])
      PROVE  Wanted(h[p].req) \subseteq held[p]
  <2>1. h[p].pc = "answer"
    BY <1>1, SuccessAnswers DEF HeldInv
  <2>2. Seen(h[p], held[p])
    BY <1>1 DEF HeldInv
  <2> QED
    BY <1>1, <2>1, <2>2, WantedFacts DEF Seen
<1>2. HeldInv /\ [HNext]_hvars =>
        [\A p \in Procs :
           Succeeds(p) /\ Writes(h[p]) => Wanted(h[p].req) \subseteq held[p]]_hvars
  BY <1>1
<1> QED
  BY <1>2, HeldInvariant, PTL DEF HSpec, EachHeld
=============================================================================
