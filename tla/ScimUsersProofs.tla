--------------------------- MODULE ScimUsersProofs ---------------------------
(***************************************************************************)
(* The /Users handlers keep their invariant and never drop the entry of a  *)
(* live account, for any numbers of accounts, externalIds, handlers and    *)
(* requests; served one at a time, they answer truly and leave no entry of *)
(* a deleted account.                                                      *)
(***************************************************************************)
EXTENDS ScimUsers, TLAPS

(* What a PATCH is reduced to. *)
LEMMA LastGivenType ==
  ASSUME NEW S, NEW given, \A i \in DOMAIN given : given[i] \subseteq S
  PROVE  LastGiven(given) \subseteq S \cup {""}
  BY DEF LastGiven, Latest

LEMMA PatchTyped ==
  ASSUME NEW ops \in Seq(UserOp)
  PROVE  /\ NamesGiven(ops) \subseteq Names \cup {""}
         /\ StatesGiven(ops) \subseteq {"yes", "no", ""}
         /\ ExtsGiven(ops) \subseteq Exts \cup {""}
<1>1. \A i \in DOMAIN ops : ops[i] \in UserOp
  OBVIOUS
<1>2. \A i \in DOMAIN ops : /\ ops[i].name \subseteq Names /\ ops[i].ext \subseteq Exts
                            /\ ops[i].active \subseteq {"yes", "no"}
  BY <1>1 DEF UserOp
<1> DEFINE names == [i \in DOMAIN ops |-> IF Assigns(ops[i]) THEN ops[i].name ELSE {}]
           states == [i \in DOMAIN ops |-> IF Assigns(ops[i]) THEN ops[i].active ELSE {}]
           exts == [i \in DOMAIN ops |-> IF Assigns(ops[i]) THEN ops[i].ext ELSE {}]
<1>3. \A i \in DOMAIN names : names[i] \subseteq Names
  BY <1>2
<1>4. \A i \in DOMAIN states : states[i] \subseteq {"yes", "no"}
  BY <1>2
<1>5. \A i \in DOMAIN exts : exts[i] \subseteq Exts
  BY <1>2
<1> HIDE DEF names, states, exts
<1>6. NamesGiven(ops) \subseteq Names \cup {""}
  BY <1>3, LastGivenType DEF NamesGiven, names
<1>7. StatesGiven(ops) \subseteq {"yes", "no"} \cup {""}
  BY <1>4, LastGivenType DEF StatesGiven, states
<1>8. ExtsGiven(ops) \subseteq Exts \cup {""}
  BY <1>5, LastGivenType DEF ExtsGiven, exts
<1> QED
  BY <1>6, <1>7, <1>8

(* Decoding changes neither the operation nor the user it is about. *)
LEMMA ReceivedFacts ==
  ASSUME NEW r \in Received
  PROVE  /\ r \in RequestType
         /\ r.op = "POST" => r.email # "" /\ r.name # ""
         /\ r.op \in {"PUT", "PATCH", "DELETE"} => r.uid # ""
         /\ r.op = "FIND" => r.ext # ""
<1>1. PICK raw \in Requests : r \in Decoded(raw)
  BY DEF Received
<1>2. raw \in RequestType
  BY RequestsAssumption
<1>3. CASE raw.op = "PATCH"
  <2>1. r \in Reductions(raw)
    BY <1>1, <1>3 DEF Decoded
  <2>2. PICK n \in NamesGiven(raw.ops), a \in StatesGiven(raw.ops), x \in ExtsGiven(raw.ops) :
          r = Reduced(raw, n, a, x)
    BY <2>1 DEF Reductions
  <2>3. raw.ops \in Seq(UserOp) /\ raw.uid # ""
    BY <1>2, <1>3, RequestsAssumption DEF RequestType
  <2>4. n \in Names \cup {""} /\ a \in {"yes", "no", ""} /\ x \in Exts \cup {""}
    BY <2>2, <2>3, PatchTyped
  <2>5. r.op = "PATCH" /\ r.uid = raw.uid /\ r \in RequestType
    BY <1>2, <1>3, <2>2, <2>4 DEF RequestType, Reduced
  <2> QED
    BY <2>3, <2>5
<1>4. CASE raw.op # "PATCH"
  <2>1. r = raw
    BY <1>1, <1>4 DEF Decoded
  <2>2. /\ raw.op = "POST" => raw.email # "" /\ raw.name # ""
        /\ raw.op = "PUT" => raw.uid # ""
        /\ raw.op = "DELETE" => raw.uid # ""
        /\ raw.op = "FIND" => raw.ext # ""
    BY RequestsAssumption
  <2> QED
    BY <1>2, <1>4, <2>1, <2>2
<1> QED
  BY <1>3, <1>4

DeletedStay == \A u \in UserIds : ustate[u] = "deleted" => ustate'[u] = "deleted"

(* A handler with the locals k is on track in the next state. *)
Tracked(k) ==
  k.pc # "idle" =>
    /\ k.req \in Received
    /\ k.pc \in StepsOf(k.req.op)
    /\ k.pc \notin {"invite", "adopt", "lookup"} => k.uid \in UserIds
    /\ k.pc = "forget" => ustate'[k.uid] = "deleted"

AccountsGood == AccountsTypeOK' /\ DeletedStay

HandlerGood(p) ==
  /\ \E k \in Frame : h' = [h EXCEPT ![p] = k] /\ Tracked(k)
  /\ status' \in [Procs -> Answers]

StoreGood ==
  /\ map' \in Store!Mapping /\ Store!OneToOne(map')
  /\ file' \in {file, map'}

-----------------------------------------------------------------------------
(* The pieces steps are made of *)

LEMMA ReplyGood ==
  ASSUME UserInv, NEW p \in Procs, NEW s \in Answers, Reply(p, s)
  PROVE  HandlerGood(p)
<1>1. Idle \in Frame /\ Tracked(Idle)
  BY DEF Idle, Frame, Steps, Tracked
<1>2. status' \in [Procs -> Answers]
  BY DEF Reply, UserInv, TypeOK
<1> QED
  BY <1>1, <1>2 DEF Reply, HandlerGood

LEMMA AnswerGood ==
  ASSUME UserInv, NEW p \in Procs, NEW s \in Answers, Answer(p, s)
  PROVE  HandlerGood(p) /\ StoreGood
  BY ReplyGood DEF Answer, storeVars, StoreGood, UserInv, TypeOK

LEMMA GoesGood ==
  ASSUME UserInv, NEW p \in Procs, NEW k \in Frame, Tracked(k), Goes(p, k)
  PROVE  HandlerGood(p)
  BY DEF Goes, HandlerGood, UserInv, TypeOK

LEMMA ContinueGood ==
  ASSUME UserInv, NEW p \in Procs, NEW k \in Frame, Tracked(k), Continue(p, k)
  PROVE  HandlerGood(p) /\ StoreGood
  BY GoesGood DEF Continue, storeVars, StoreGood, UserInv, TypeOK

LEMMA AssignedOneToOne ==
  ASSUME NEW m \in Store!Mapping, Store!OneToOne(m), NEW u \in UserIds, NEW x \in Exts
  PROVE  Store!Assigned(m, u, x) \in Store!Mapping /\ Store!OneToOne(Store!Assigned(m, u, x))
  BY DEF Store!Mapping, Store!OneToOne, Store!Assigned

LEMMA DroppedOneToOne ==
  ASSUME NEW m \in Store!Mapping, Store!OneToOne(m), NEW u \in UserIds
  PROVE  Store!Dropped(m, u) \in Store!Mapping /\ Store!OneToOne(Store!Dropped(m, u))
  BY DEF Store!Mapping, Store!OneToOne, Store!Dropped

LEMMA StoredGood ==
  ASSUME UserInv, NEW m \in Store!Mapping, Store!OneToOne(m), Stored(m) \/ NotStored(m)
  PROVE  StoreGood
  BY DEF Stored, NotStored, storeVars, StoreGood, UserInv, TypeOK

LEMMA DropGood ==
  ASSUME UserInv, NEW p \in Procs, h[p].uid \in UserIds, NEW s \in Answers, DropEntry(p, s)
  PROVE  HandlerGood(p) /\ StoreGood
<1>1. map \in Store!Mapping /\ Store!OneToOne(map)
  BY DEF UserInv, TypeOK
<1>2. /\ Store!Dropped(map, h[p].uid) \in Store!Mapping
      /\ Store!OneToOne(Store!Dropped(map, h[p].uid))
  BY <1>1, DroppedOneToOne
<1> QED
  BY <1>2, ReplyGood, StoredGood DEF DropEntry

(* What a store call has done to the mapping in memory. *)
LEMMA StoreFacts ==
  /\ \A m : Stored(m) => map' = m
  /\ \A m : NotStored(m) => map' = m
  /\ \A p, s : DropEntry(p, s) => Reply(p, s) /\ map' = Store!Dropped(map, h[p].uid)
  BY DEF Stored, NotStored, DropEntry, storeVars

LEMMA AccountsUnchanged ==
  ASSUME UserInv, UNCHANGED accountVars
  PROVE  AccountsGood
  BY DEF accountVars, AccountsGood, AccountsTypeOK, DeletedStay, UserInv, TypeOK

LEMMA AccountsChanged ==
  ASSUME UserInv, NEW u \in UserIds
  PROVE  /\ \A e \in Emails, n \in Names : InviteUser(u, e, n) => AccountsGood
         /\ \A n \in Names \cup {""} : UpdateUserName(u, n) => AccountsGood
         /\ HasUser(u) /\ SuspendUser(u) => AccountsGood
         /\ HasUser(u) /\ ActivateUser(u) => AccountsGood
         /\ DeleteUser(u) => AccountsGood
  BY DEF InviteUser, UpdateUserName, SuspendUser, ActivateUser, DeleteUser, SetState,
         HasUser, AccountsGood, AccountsTypeOK, DeletedStay, UserInv, TypeOK

(* The locals after a reply about an account. *)
LEMMA KnownFrame ==
  ASSUME AccountsTypeOK', NEW f \in Frame, NEW u \in UserIds, NEW step \in Steps
  PROVE  /\ [Known(f, u) EXCEPT !.pc = step] \in Frame
         /\ [Known(f, u) EXCEPT !.pc = step].pc = step
         /\ [Known(f, u) EXCEPT !.pc = step].req = f.req
         /\ [Known(f, u) EXCEPT !.pc = step].uid = u
         /\ Known(f, u).req = f.req
  BY DEF Known, Reported, Frame, AccountsTypeOK

(* Which step follows a reply about an account. *)
LEMMA NextSteps ==
  ASSUME NEW f, NEW op \in {"POST", "PUT", "PATCH"}, f.req.op = op
  PROVE  /\ AfterRename(f) \in StepsOf(op) \cap {"suspend", "activate", "store"}
         /\ AfterGet(f) \in StepsOf(op) \cap {"rename", "suspend", "activate", "store"}
  BY DEF AfterRename, AfterGet, StepsOf

LEMMA RequestFacts ==
  ASSUME UserInv, NEW p \in Procs, h[p].pc # "idle"
  PROVE  /\ h[p] \in Frame /\ h[p].req \in Received /\ h[p].req \in RequestType
         /\ h[p].pc \in StepsOf(h[p].req.op)
         /\ h[p].pc \notin {"invite", "adopt", "lookup"} => h[p].uid \in UserIds
         /\ h[p].req.op = "POST" => h[p].req.email \in Emails /\ h[p].req.name \in Names
         /\ h[p].req.name # "" => h[p].req.name \in Names
         /\ h[p].req.ext # "" => h[p].req.ext \in Exts
<1>1. h[p] \in Frame /\ h[p].req \in Received /\ h[p].pc \in StepsOf(h[p].req.op)
      /\ (h[p].pc \notin {"invite", "adopt", "lookup"} => h[p].uid \in UserIds)
  BY DEF UserInv, TypeOK, OnTrack
<1>2. h[p].req \in RequestType
  BY <1>1, ReceivedFacts
<1>3. h[p].req.op = "POST" => h[p].req.email # "" /\ h[p].req.name # ""
  BY <1>1, ReceivedFacts
<1> QED
  BY <1>1, <1>2, <1>3 DEF RequestType

-----------------------------------------------------------------------------
(* A step of a handler leaves accounts, handlers and the store well formed. *)
LEMMA StepGood ==
  ASSUME UserInv, NEW p \in Procs, Step(p)
  PROVE  AccountsGood /\ HandlerGood(p) /\ StoreGood
<1> DEFINE f == h[p]
           Good == AccountsGood /\ HandlerGood(p) /\ StoreGood
<1> SUFFICES Good
  OBVIOUS
<1>1. f.pc # "idle"
  BY DEF Step, Invite, Adopt, Get, Rename, Suspend, Activate, StoreExternalId,
         Represent, DeleteUserCall, Forget, Lookup, Resolve
<1>2. /\ f \in Frame /\ f.req \in Received /\ f.req \in RequestType
      /\ f.pc \in StepsOf(f.req.op)
      /\ f.pc \notin {"invite", "adopt", "lookup"} => f.uid \in UserIds
      /\ f.req.op = "POST" => f.req.email \in Emails /\ f.req.name \in Names
      /\ f.req.name # "" => f.req.name \in Names
      /\ f.req.ext # "" => f.req.ext \in Exts
  BY <1>1, RequestFacts
<1>3. ASSUME NEW s \in Answers, AccountsGood, Answer(p, s)
      PROVE  Good
  BY <1>3, AnswerGood
<1>4. {"ok", "empty", "notFound", "conflict", "upstream", "storeError"} \subseteq Answers
  BY DEF Answers
<1>5. UNCHANGED accountVars => AccountsGood
  BY AccountsUnchanged
<1>6. f.req.op \in {"POST", "PUT", "PATCH", "DELETE", "FIND"}
  BY <1>2 DEF RequestType
(* The handler goes on to another step on its path, about an account. *)
<1>7. ASSUME NEW k \in Frame, k.req = f.req, k.pc \in StepsOf(f.req.op),
             k.pc # "forget", k.pc \notin {"invite", "adopt", "lookup"} => k.uid \in UserIds,
             AccountsGood, Continue(p, k)
      PROVE  Good
  <2>1. Tracked(k)
    BY <1>2, <1>7 DEF Tracked
  <2> QED
    BY <1>7, <2>1, ContinueGood
<1>8. ASSUME NEW u \in UserIds, NEW step \in StepsOf(f.req.op) \cap Steps,
             step # "forget", AccountsGood, GoOn(p, Known(f, u), step)
      PROVE  Good
  <2> DEFINE k == [Known(f, u) EXCEPT !.pc = step]
  <2>0. f \in Frame /\ step \in Steps /\ AccountsTypeOK'
    BY <1>2, <1>8 DEF AccountsGood
  <2>1. k \in Frame /\ k.pc = step /\ k.req = f.req /\ k.uid = u
    BY <2>0, KnownFrame
  <2>2. Continue(p, k)
    BY <1>8 DEF GoOn
  <2> HIDE DEF k
  <2> QED
    BY <1>7, <1>8, <2>1, <2>2
<1>9. {"rename", "suspend", "activate", "store", "adopt", "answer"} \subseteq Steps
  BY DEF Steps
<1> HIDE DEF f, Good
<1>10. CASE Invite(p)
  <2>1. f.pc = "invite" /\ f.req.op = "POST"
    BY <1>2, <1>6, <1>10 DEF Invite, StepsOf, f
  <2>2. ASSUME NEW u \in UserIds, InviteUser(u, f.req.email, f.req.name)
        PROVE  AccountsGood
    BY <1>2, <2>1, <2>2, AccountsChanged
  <2>3. ASSUME NEW u \in UserIds, AccountsGood,
               GoOn(p, Known(f, u), AfterRename(Known(f, u)))
        PROVE  Good
    <3>1. Known(f, u).req = f.req
      BY <1>2 DEF Known, Frame
    <3>2. AfterRename(Known(f, u)) \in StepsOf(f.req.op) \cap {"suspend", "activate", "store"}
      BY <2>1, <3>1, NextSteps
    <3> QED
      BY <1>8, <1>9, <2>3, <3>2
  <2>4. ASSUME AccountsGood, GoOn(p, f, "adopt")
        PROVE  Good
    <3>1. [f EXCEPT !.pc = "adopt"] \in Frame
      BY <1>2, <1>9 DEF Frame
    <3>2. [f EXCEPT !.pc = "adopt"].req = f.req /\ [f EXCEPT !.pc = "adopt"].pc = "adopt"
      BY <1>2 DEF Frame
    <3>3. "adopt" \in StepsOf(f.req.op)
      BY <2>1 DEF StepsOf
    <3> QED
      BY <1>7, <2>4, <3>1, <3>2, <3>3 DEF GoOn
  <2> QED
    BY <1>3, <1>4, <1>5, <1>10, <2>2, <2>3, <2>4 DEF Invite, Call, FreshIds, f
<1>11. CASE Adopt(p)
  <2>1. f.pc = "adopt" /\ f.req.op = "POST"
    BY <1>2, <1>6, <1>11 DEF Adopt, StepsOf, f
  <2>2. ASSUME NEW u \in UserIds, AccountsGood, GoOn(p, Known(f, u), AfterGet(Known(f, u)))
        PROVE  Good
    <3>1. Known(f, u).req = f.req
      BY <1>2 DEF Known, Frame
    <3>2. AfterGet(Known(f, u)) \in StepsOf(f.req.op) \cap {"rename", "suspend", "activate", "store"}
      BY <2>1, <3>1, NextSteps
    <3> QED
      BY <1>8, <1>9, <2>2, <3>2
  <2> QED
    BY <1>3, <1>4, <1>5, <1>11, <2>2 DEF Adopt, Call, WithEmail, f
<1>12. CASE Get(p)
  <2>1. f.pc = "get" /\ f.req.op \in {"PUT", "PATCH"} /\ f.uid \in UserIds
    BY <1>2, <1>6, <1>12 DEF Get, StepsOf, f
  <2>2. ASSUME AccountsGood, GoOn(p, Known(f, f.uid), AfterGet(Known(f, f.uid)))
        PROVE  Good
    <3>1. Known(f, f.uid).req = f.req
      BY <1>2 DEF Known, Frame
    <3>2. AfterGet(Known(f, f.uid)) \in StepsOf(f.req.op) \cap {"rename", "suspend", "activate", "store"}
      BY <2>1, <3>1, NextSteps
    <3> QED
      BY <1>8, <1>9, <2>1, <2>2, <3>2
  <2> QED
    BY <1>3, <1>4, <1>5, <1>12, <2>2 DEF Get, UserCall, Call, f
<1>13. CASE Rename(p)
  <2>1. f.pc = "rename" /\ f.req.op \in {"POST", "PUT", "PATCH"} /\ f.uid \in UserIds
    BY <1>2, <1>6, <1>13 DEF Rename, StepsOf, f
  <2>2. ASSUME AccountsGood, GoOn(p, Known(f, f.uid), AfterRename(Known(f, f.uid)))
        PROVE  Good
    <3>1. Known(f, f.uid).req = f.req
      BY <1>2 DEF Known, Frame
    <3>2. AfterRename(Known(f, f.uid)) \in StepsOf(f.req.op) \cap {"suspend", "activate", "store"}
      BY <2>1, <3>1, NextSteps
    <3> QED
      BY <1>8, <1>9, <2>1, <2>2, <3>2
  <2>3. ASSUME AccountsGood, GoOn(p, f, AfterRename(f))
        PROVE  Good
    <3> DEFINE k == [f EXCEPT !.pc = AfterRename(f)]
    <3>1. AfterRename(f) \in StepsOf(f.req.op) \cap {"suspend", "activate", "store"}
      BY <2>1, NextSteps
    <3>2. k \in Frame /\ k.req = f.req /\ k.pc = AfterRename(f) /\ k.uid = f.uid
      BY <1>2, <1>9, <3>1 DEF Frame
    <3>3. Continue(p, k)
      BY <2>3 DEF GoOn
    <3> HIDE DEF k
    <3> QED
      BY <1>7, <2>1, <2>3, <3>1, <3>2, <3>3
  <2>4. UpdateUserName(f.uid, f.req.name) => AccountsGood
    BY <1>2, <2>1, AccountsChanged
  <2> QED
    BY <1>3, <1>4, <1>5, <1>13, <2>2, <2>3, <2>4 DEF Rename, Call, f
<1>14. ASSUME f.req.op \in {"POST", "PUT", "PATCH"}, f.uid \in UserIds, AccountsGood,
              GoOn(p, Known(f, f.uid), "store")
       PROVE  Good
  <2>1. "store" \in StepsOf(f.req.op) \cap Steps
    BY <1>9, <1>14 DEF StepsOf
  <2> QED
    BY <1>8, <1>14, <2>1
<1>15. CASE Suspend(p)
  <2>1. f.pc = "suspend" /\ f.req.op \in {"POST", "PUT", "PATCH"} /\ f.uid \in UserIds
    BY <1>2, <1>6, <1>15 DEF Suspend, StepsOf, f
  <2>2. HasUser(f.uid) /\ SuspendUser(f.uid) => AccountsGood
    BY <2>1, AccountsChanged
  <2> QED
    BY <1>3, <1>4, <1>5, <1>14, <1>15, <2>1, <2>2 DEF Suspend, UserCall, Call, f
<1>16. CASE Activate(p)
  <2>1. f.pc = "activate" /\ f.req.op \in {"PUT", "PATCH"} /\ f.uid \in UserIds
    BY <1>2, <1>6, <1>16 DEF Activate, StepsOf, f
  <2>2. HasUser(f.uid) /\ ActivateUser(f.uid) => AccountsGood
    BY <2>1, AccountsChanged
  <2> QED
    BY <1>3, <1>4, <1>5, <1>14, <1>16, <2>1, <2>2 DEF Activate, UserCall, Call, f
<1>17. map \in Store!Mapping /\ Store!OneToOne(map)
  BY DEF UserInv, TypeOK
<1>18. ASSUME f.uid \in UserIds, NEW s \in Answers, AccountsGood, DropEntry(p, s)
       PROVE  Good
  BY <1>18, DropGood DEF Good, f
<1>20. CASE StoreExternalId(p)
  <2>1. f.pc = "store" /\ f.uid \in UserIds /\ AccountsGood
    BY <1>2, <1>5, <1>20 DEF StoreExternalId, f
  <2>2. f.req.op \in {"POST", "PUT", "PATCH"} /\ "answer" \in StepsOf(f.req.op)
    BY <1>2, <1>6, <2>1 DEF StepsOf
  <2>3. PICK k : k = [f EXCEPT !.pc = "answer"]
    OBVIOUS
  <2>4. k \in Frame /\ k.req = f.req /\ k.pc = "answer" /\ k.uid = f.uid
    BY <1>2, <1>9, <2>3 DEF Frame
  <2>5. PICK m : m = IF map[f.uid] = f.req.ext THEN map
                     ELSE Store!Assigned(map, f.uid, f.req.ext)
    OBVIOUS
  <2>6. CASE f.req.ext = "" /\ Continue(p, k)
    BY <1>7, <2>1, <2>2, <2>4, <2>6
  <2>7. CASE f.req.ext # "" /\ (Stored(m) \/ NotStored(m)) /\ (Goes(p, k) \/ Reply(p, "storeError"))
    <3>1. /\ Store!Assigned(map, f.uid, f.req.ext) \in Store!Mapping
          /\ Store!OneToOne(Store!Assigned(map, f.uid, f.req.ext))
      BY <1>2, <1>17, <2>1, <2>7, AssignedOneToOne
    <3>2. StoreGood
      BY <1>17, <2>5, <2>7, <3>1, StoredGood
    <3>3. Tracked(k)
      BY <1>2, <2>1, <2>2, <2>4 DEF Tracked
    <3>4. HandlerGood(p)
      BY <1>4, <2>4, <2>7, <3>3, GoesGood, ReplyGood
    <3> QED
      BY <2>1, <3>2, <3>4 DEF Good
  <2> QED
    BY <1>20, <2>3, <2>5, <2>6, <2>7 DEF StoreExternalId, GoOn, f
<1>19. CASE Represent(p)
  BY <1>3, <1>4, <1>5, <1>19 DEF Represent
<1>21. CASE DeleteUserCall(p)
  <2>1. f.pc = "delete" /\ f.req.op = "DELETE" /\ f.uid \in UserIds
    BY <1>2, <1>6, <1>21 DEF DeleteUserCall, StepsOf, f
  <2>2. (HasUser(f.uid) /\ SuspendUser(f.uid) => AccountsGood) /\ (DeleteUser(f.uid) => AccountsGood)
    BY <2>1, AccountsChanged
  <2>3. ASSUME DeleteUser(f.uid), GoOn(p, f, "forget")
        PROVE  Good
    <3> DEFINE k == [f EXCEPT !.pc = "forget"]
    <3>1. k \in Frame /\ k.req = f.req /\ k.pc = "forget" /\ k.uid = f.uid
      BY <1>2 DEF Frame, Steps
    <3>2. ustate'[f.uid] = "deleted"
      BY <2>1, <2>3 DEF DeleteUser, SetState, UserInv, TypeOK, AccountsTypeOK
    <3>3. Continue(p, k)
      BY <2>3 DEF GoOn
    <3> HIDE DEF k
    <3>4. Tracked(k)
      <4>1. "forget" \in StepsOf(f.req.op)
        BY <2>1 DEF StepsOf
      <4> QED
        BY <1>2, <2>1, <3>1, <3>2, <4>1 DEF Tracked
    <3> QED
      BY <2>2, <2>3, <3>1, <3>3, <3>4, ContinueGood DEF Good
  <2>4. CASE hardDelete
    BY <1>3, <1>4, <1>5, <1>21, <2>2, <2>3, <2>4 DEF DeleteUserCall, UserCall, Call, f
  <2>5. CASE ~ hardDelete
    BY <1>3, <1>4, <1>5, <1>21, <2>2, <2>5 DEF DeleteUserCall, UserCall, Call, f
  <2> QED
    BY <2>4, <2>5
<1>22. CASE Forget(p)
  <2>1. f.pc = "forget" /\ f.uid \in UserIds /\ AccountsGood
    BY <1>2, <1>5, <1>22 DEF Forget, f
  <2> QED
    BY <1>4, <1>18, <1>22, <2>1 DEF Forget
<1>23. CASE Lookup(p)
  <2>1. f.pc = "lookup" /\ f.req.op = "FIND" /\ AccountsGood
    BY <1>2, <1>5, <1>6, <1>23 DEF Lookup, StepsOf, f
  <2>2. ASSUME NEW u \in UserIds, Continue(p, [f EXCEPT !.pc = "resolve", !.uid = u])
        PROVE  Good
    <3> DEFINE k == [f EXCEPT !.pc = "resolve", !.uid = u]
    <3>1. k \in Frame /\ k.req = f.req /\ k.pc = "resolve" /\ k.uid = u
      BY <1>2 DEF Frame, Steps
    <3>2. "resolve" \in StepsOf(f.req.op)
      BY <2>1 DEF StepsOf
    <3> HIDE DEF k
    <3>3. Continue(p, k)
      BY <2>2 DEF k
    <3> QED
      BY <1>7, <2>1, <3>1, <3>2, <3>3
  <2> QED
    BY <1>3, <1>4, <1>23, <2>1, <2>2 DEF Lookup, f
<1>24. CASE Resolve(p)
  <2>1. f.pc = "resolve" /\ f.req.op = "FIND" /\ f.uid \in UserIds
    BY <1>2, <1>6, <1>24 DEF Resolve, StepsOf, f
  <2>2. "answer" \in StepsOf(f.req.op) \cap Steps
    BY <1>9, <2>1 DEF StepsOf
  <2>3. AccountsGood /\ ShowFound(p) => Good
    BY <1>8, <2>1, <2>2 DEF ShowFound, f
  <2> QED
    BY <1>3, <1>4, <1>5, <1>18, <1>24, <2>1, <2>3 DEF Resolve, Call, f
<1> QED
  BY <1>10, <1>11, <1>12, <1>13, <1>15, <1>16, <1>19, <1>20, <1>21, <1>22, <1>23, <1>24
  DEF Step, Good

-----------------------------------------------------------------------------
LEMMA UserInitInv == Init => UserInv
<1> SUFFICES ASSUME Init PROVE UserInv
  OBVIOUS
<1>1. Idle \in Frame /\ Idle.pc = "idle"
  BY DEF Idle, Frame, Steps
<1>2. TypeOK
  BY <1>1 DEF Init, TypeOK, AccountsTypeOK, Answers, Store!Mapping, Store!Empty
<1>3. OnTrack
  BY <1>1 DEF Init, OnTrack
<1>4. Store!OneToOne(map) /\ Store!OneToOne(file)
  BY DEF Init, Store!OneToOne, Store!Empty
<1> QED
  BY <1>2, <1>3, <1>4 DEF UserInv

(* What one handler does leaves the others on track. *)
LEMMA GoodKeepsInv ==
  ASSUME UserInv, NEW p \in Procs, AccountsGood, HandlerGood(p), StoreGood,
         UNCHANGED hardDelete
  PROVE  UserInv'
<1>1. AccountsGood /\ HandlerGood(p) /\ StoreGood
  OBVIOUS
<1>2. PICK k \in Frame : h' = [h EXCEPT ![p] = k] /\ Tracked(k)
  BY <1>1 DEF HandlerGood
<1>3. TypeOK'
  <2>1. h' \in [Procs -> Frame]
    BY <1>2 DEF UserInv, TypeOK
  <2>2. file' \in Store!Mapping
    BY <1>1 DEF StoreGood, UserInv, TypeOK
  <2> QED
    BY <1>1, <2>1, <2>2 DEF UserInv, TypeOK, AccountsGood, HandlerGood, StoreGood
<1>4. OnTrack'
  <2> SUFFICES ASSUME NEW q \in Procs, h'[q].pc # "idle"
               PROVE  /\ h'[q].req \in Received
                      /\ h'[q].pc \in StepsOf(h'[q].req.op)
                      /\ h'[q].pc \notin {"invite", "adopt", "lookup"} => h'[q].uid \in UserIds
                      /\ h'[q].pc = "forget" => ustate'[h'[q].uid] = "deleted"
    BY DEF OnTrack
  <2>1. CASE q = p
    <3>1. h'[q] = k
      BY <1>2, <2>1 DEF UserInv, TypeOK
    <3> QED
      BY <1>2, <3>1 DEF Tracked
  <2>2. CASE q # p
    <3>1. h'[q] = h[q]
      BY <1>2, <2>2 DEF UserInv, TypeOK
    <3> QED
      BY <1>1, <3>1 DEF UserInv, OnTrack, AccountsGood, DeletedStay
  <2> QED
    BY <2>1, <2>2
<1>5. Store!OneToOne(map') /\ Store!OneToOne(file')
  BY <1>1 DEF StoreGood, UserInv
<1> QED
  BY <1>3, <1>4, <1>5 DEF UserInv, Store!OneToOne

LEMMA StepKeepsInv ==
  ASSUME UserInv, NEW p \in Procs, Step(p), UNCHANGED hardDelete
  PROVE  UserInv'
  BY StepGood, GoodKeepsInv

LEMMA QuietKeepsInv ==
  ASSUME UserInv, AccountsGood, UNCHANGED <<h, status, hardDelete, map, file>>
  PROVE  UserInv'
<1>1. TypeOK'
  BY DEF UserInv, TypeOK, AccountsGood
<1>2. OnTrack'
  BY DEF UserInv, OnTrack, AccountsGood, DeletedStay
<1> QED
  BY <1>1, <1>2 DEF UserInv, Store!OneToOne

LEMMA NextKeepsInv ==
  ASSUME UserInv, [Next]_vars
  PROVE  UserInv'
<1>1. CASE (\E p \in Procs : Step(p)) /\ UNCHANGED hardDelete
  BY <1>1, StepKeepsInv
<1>2. ASSUME NEW p \in Procs, NEW r \in Received, Receive(p, r),
             UNCHANGED hardDelete
      PROVE  UserInv'
  <2> DEFINE k == [Idle EXCEPT !.pc = FirstStep(r.op), !.req = r, !.uid = r.uid]
  <2>1. r \in RequestType /\ (r.op \in {"PUT", "PATCH", "DELETE"} => r.uid # "")
    BY ReceivedFacts
  <2>2. r.op \in {"POST", "PUT", "PATCH", "DELETE", "FIND"} /\ r.uid \in UserIds \cup {""}
    BY <2>1 DEF RequestType
  <2>3. /\ FirstStep(r.op) \in StepsOf(r.op) \cap Steps /\ FirstStep(r.op) # "forget"
        /\ FirstStep(r.op) \notin {"invite", "adopt", "lookup"} => r.uid \in UserIds
    <3>1. CASE r.op = "POST"
      BY <3>1 DEF FirstStep, StepsOf, Steps
    <3>2. CASE r.op \in {"PUT", "PATCH"}
      BY <2>1, <2>2, <3>2 DEF FirstStep, StepsOf, Steps
    <3>3. CASE r.op = "DELETE"
      BY <2>1, <2>2, <3>3 DEF FirstStep, StepsOf, Steps
    <3>4. CASE r.op = "FIND"
      BY <3>4 DEF FirstStep, StepsOf, Steps
    <3> QED
      BY <2>2, <3>1, <3>2, <3>3, <3>4
  <2>4. /\ k \in Frame /\ k.req = r /\ k.uid = r.uid /\ k.pc = FirstStep(r.op)
    BY <2>2, <2>3 DEF Idle, Frame
  <2>5. Continue(p, k) /\ UNCHANGED accountVars
    BY <1>2 DEF Receive
  <2> HIDE DEF k
  <2>6. Tracked(k)
    BY <2>3, <2>4 DEF Tracked
  <2>7. AccountsGood /\ HandlerGood(p) /\ StoreGood
    BY <2>4, <2>5, <2>6, ContinueGood, AccountsUnchanged
  <2> QED
    BY <1>2, <2>7, GoodKeepsInv
<1>3. CASE DeleteInOutline /\ UNCHANGED hardDelete
  <2>1. AccountsGood
    BY <1>3, AccountsChanged DEF DeleteInOutline, HasUser, UserInv, TypeOK, AccountsTypeOK,
       DeleteUser, SetState, AccountsGood, DeletedStay
  <2>2. UNCHANGED <<h, status, hardDelete, map, file>>
    BY <1>3 DEF DeleteInOutline, storeVars
  <2> QED
    BY <2>1, <2>2, QuietKeepsInv
<1>4. CASE Restart
  <2>1. AccountsTypeOK'
    BY <1>4, AccountsUnchanged DEF Restart, AccountsGood
  <2>2. Idle \in Frame /\ Idle.pc = "idle"
    BY DEF Idle, Frame, Steps
  <2>3. TypeOK' /\ OnTrack'
    BY <1>4, <2>1, <2>2 DEF Restart, UserInv, TypeOK, OnTrack, Answers
  <2> QED
    BY <1>4, <2>3 DEF Restart, UserInv, Store!OneToOne
<1>5. CASE UNCHANGED vars
  <2>1. AccountsGood /\ UNCHANGED <<h, status, hardDelete, map, file>>
    BY <1>5, AccountsUnchanged DEF vars, storeVars
  <2> QED
    BY <2>1, QuietKeepsInv
<1>6. ASSUME NEW p \in Procs, Reject(p), UNCHANGED hardDelete
      PROVE  UserInv'
  <2>1. "badRequest" \in Answers
    BY DEF Answers
  <2>2. AccountsGood /\ HandlerGood(p) /\ StoreGood
    BY <1>6, <2>1, AnswerGood, AccountsUnchanged DEF Reject
  <2> QED
    BY <1>6, <2>2, GoodKeepsInv
<1> QED
  BY <1>1, <1>2, <1>3, <1>4, <1>5, <1>6 DEF Next

(* Whatever overlaps, fails or is killed, the handlers stay on track and no *)
(* externalId belongs to two accounts, in memory or in the file             *)
(* (store.go:16-18, users.go).                                              *)
THEOREM UsersWellFormed == Spec => []UserInv
<1>1. Init => UserInv
  BY UserInitInv
<1>2. UserInv /\ [Next]_vars => UserInv'
  BY NextKeepsInv
<1> QED
  BY <1>1, <1>2, PTL DEF Spec

-----------------------------------------------------------------------------
(* When no save fails, the file has what memory has between any two steps.  *)
FileCurrent == file = map

LEMMA FileStaysCurrent ==
  ASSUME "save" \notin Faults
  PROVE  /\ Init => FileCurrent
         /\ FileCurrent /\ [Next]_vars => FileCurrent'
<1>1. Init => FileCurrent
  BY DEF Init, FileCurrent
<1>2. ASSUME FileCurrent, NEW p \in Procs, Step(p)
      PROVE  FileCurrent'
  <2>1. \A s : Answer(p, s) => FileCurrent'
    BY <1>2 DEF Answer, storeVars, FileCurrent
  <2>2. \A k : Continue(p, k) => FileCurrent'
    BY <1>2 DEF Continue, storeVars, FileCurrent
  <2>3. \A m : ~ NotStored(m) /\ (Stored(m) => FileCurrent')
    BY <1>2 DEF Stored, NotStored, storeVars, FileCurrent
  <2> QED
    BY <1>2, <2>1, <2>2, <2>3
    DEF Step, Invite, Adopt, Get, Rename, Suspend, Activate, StoreExternalId, Represent,
        DeleteUserCall, Forget, Lookup, Resolve, DropEntry, ShowFound, UserCall, Call, GoOn
<1>3. ASSUME FileCurrent, NEW p \in Procs, NEW r \in Received, Receive(p, r)
      PROVE  FileCurrent'
  BY <1>3 DEF Receive, Continue, storeVars, FileCurrent
<1>4. ASSUME FileCurrent, NEW p \in Procs, Reject(p)
      PROVE  FileCurrent'
  BY <1>4 DEF Reject, Answer, storeVars, FileCurrent
<1>5. ASSUME FileCurrent, DeleteInOutline \/ Restart \/ UNCHANGED vars
      PROVE  FileCurrent'
  BY <1>5 DEF DeleteInOutline, Restart, vars, storeVars, FileCurrent
<1> QED
  BY <1>1, <1>2, <1>3, <1>4, <1>5 DEF Next

KeepsEntries ==
  \A u \in UserIds :
    Stays(u) /\ map[u] # "" /\ map'[u] = "" =>
      \E v \in UserIds \ {u} : map'[v] = map[u]

LEMMA StepKeepsEntries ==
  ASSUME UserInv, NEW p \in Procs, Step(p)
  PROVE  KeepsEntries
<1> DEFINE f == h[p]
<1> SUFFICES ASSUME NEW u \in UserIds, Stays(u), map[u] # "", map'[u] = ""
             PROVE  \E v \in UserIds \ {u} : map'[v] = map[u]
  BY DEF KeepsEntries
<1>1. map \in [UserIds -> Exts \cup {""}] /\ map' # map
  BY DEF UserInv, TypeOK, Store!Mapping
<1>2. \A s : ~ Answer(p, s)
  BY <1>1 DEF Answer, storeVars
<1>3. \A k : ~ Continue(p, k)
  BY <1>1 DEF Continue, storeVars
<1>5. ~ (Invite(p) \/ Adopt(p) \/ Get(p) \/ Rename(p) \/ Suspend(p) \/ Activate(p))
  BY <1>2, <1>3 DEF Invite, Adopt, Get, Rename, Suspend, Activate, UserCall, Call, GoOn
<1>6. ~ (DeleteUserCall(p) \/ Lookup(p) \/ Represent(p))
  BY <1>2, <1>3 DEF DeleteUserCall, Lookup, Represent, UserCall, Call, GoOn
<1>7. CASE StoreExternalId(p)
  <2>1. /\ f.uid \in UserIds /\ f.req.ext \in Exts /\ f.req.ext # ""
        /\ map' = Store!Assigned(map, f.uid, f.req.ext)
    <3>1. f.uid \in UserIds /\ (f.req.ext # "" => f.req.ext \in Exts)
      BY <1>7, RequestFacts DEF StoreExternalId
    <3>2. f.req.ext # ""
      BY <1>3, <1>7 DEF StoreExternalId, GoOn
    <3> QED
      BY <1>1, <1>7, <3>1, <3>2, StoreFacts DEF StoreExternalId
  <2>2. u # f.uid /\ map[u] = f.req.ext
    BY <1>1, <2>1 DEF Store!Assigned
  <2>3. map'[f.uid] = map[u]
    BY <2>1, <2>2 DEF Store!Assigned
  <2> QED
    BY <2>1, <2>2, <2>3
<1>8. ASSUME f.uid \in UserIds, map' = Store!Dropped(map, f.uid)
      PROVE  u = f.uid
  BY <1>1, <1>8 DEF Store!Dropped
<1>9. CASE Forget(p)
  <2>1. f.uid \in UserIds /\ ustate[f.uid] = "deleted"
    BY <1>9 DEF Forget, UserInv, OnTrack
  <2>2. map' = Store!Dropped(map, f.uid) /\ ustate' = ustate
    BY <1>9, StoreFacts DEF Forget, accountVars
  <2> QED
    BY <1>8, <2>1, <2>2 DEF Stays
<1>10. CASE Resolve(p)
  <2>1. f.uid \in UserIds
    BY <1>10, RequestFacts DEF Resolve
  <2>2. map' = Store!Dropped(map, f.uid) /\ ustate' = ustate /\ ~ HasUser(f.uid)
    BY <1>2, <1>3, <1>10, StoreFacts DEF Resolve, Call, ShowFound, GoOn, accountVars
  <2> QED
    BY <1>8, <2>1, <2>2 DEF Stays, HasUser
<1> QED
  BY <1>5, <1>6, <1>7, <1>9, <1>10 DEF Step

(* When no save fails, a live account loses its externalId only to another  *)
(* account that is given the same one, though the store is shared, entries  *)
(* are dropped calls after they were read, and the process may be killed    *)
(* (README.md:80-81, users.go:165-168).                                     *)
THEOREM EntriesKept ==
  ASSUME "save" \notin Faults
  PROVE  Spec => LiveEntriesKept
<1>1. Init => UserInv /\ FileCurrent
  BY UserInitInv, FileStaysCurrent
<1>2. UserInv /\ FileCurrent /\ [Next]_vars => UserInv' /\ FileCurrent'
  BY NextKeepsInv, FileStaysCurrent
<1>3. ASSUME UserInv, FileCurrent, [Next]_vars
      PROVE  KeepsEntries
  <2>1. ASSUME NEW p \in Procs, Step(p)
        PROVE  KeepsEntries
    BY <1>3, <2>1, StepKeepsEntries
  <2>2. ASSUME map' = map
        PROVE  KeepsEntries
    BY <2>2 DEF KeepsEntries
  <2> QED
    BY <1>3, <2>1, <2>2
    DEF Next, Receive, Reject, Answer, Continue, DeleteInOutline, Restart, vars, storeVars, FileCurrent
<1>4. UserInv /\ FileCurrent /\ [Next]_vars => [KeepsEntries]_vars
  BY <1>3
<1> QED
  BY <1>1, <1>2, <1>4, PTL DEF Spec, LiveEntriesKept, KeepsEntries

-----------------------------------------------------------------------------
(* Requests served one at a time: what is due at every step, and what the   *)
(* answer that ends a request says.                                         *)
(* Which step is taken tells what the account was reported to be.           *)
LEMMA StepTells ==
  ASSUME NEW f
  PROVE  /\ AfterRename(f) = "suspend" => f.req.active = "no"
         /\ AfterRename(f) = "activate" => f.req.active = "yes"
         /\ AfterRename(f) = "store" =>
              /\ f.req.active = "no" => f.cur.suspended
              /\ f.req.active = "yes" /\ f.req.op # "POST" => ~ f.cur.suspended
         /\ \/ AfterGet(f) = "rename"
            \/ AfterGet(f) = AfterRename(f) /\ f.req.name \in {"", f.cur.name}
         /\ AfterRename(f) \in {"suspend", "activate", "store"}
  BY DEF AfterRename, AfterGet

(* Nothing is due before the account is known.                              *)
LEMMA SomethingElseDue ==
  ASSUME NEW k, k.pc \in {"idle", "invite", "adopt", "get", "delete", "lookup"}
  PROVE  Due(k)'
  BY DEF Due, SeenDue, NameDue, StateDue, EntryDue

(* The step that a reply about the account leads to has what it is due.     *)
LEMMA KnownDue ==
  ASSUME AccountsTypeOK', NEW f \in Frame, NEW u \in UserIds,
         f.req.op = "POST" => email'[u] = f.req.email,
         NEW j, j = Known(f, u),
         NEW step, \/ step = AfterGet(j)
                   \/ step = AfterRename(j) /\ (f.req.op # "POST" /\ f.req.name # "" => name'[u] = f.req.name),
         NEW k, k = [j EXCEPT !.pc = step]
  PROVE  Due(k)'
<1>1. /\ j.req = f.req /\ j.uid = u
      /\ j.cur.name = name'[u] /\ (j.cur.suspended <=> ustate'[u] = "suspended")
      /\ k.pc = step /\ k.req = f.req /\ k.uid = u /\ k.cur = j.cur
  BY DEF Known, Reported, Frame
<1>2. /\ AfterRename(j) = "suspend" => f.req.active = "no"
      /\ AfterRename(j) = "activate" => f.req.active = "yes"
      /\ AfterRename(j) = "store" =>
           /\ f.req.active = "no" => j.cur.suspended
           /\ f.req.active = "yes" /\ f.req.op # "POST" => ~ j.cur.suspended
      /\ \/ AfterGet(j) = "rename"
         \/ AfterGet(j) = AfterRename(j) /\ f.req.name \in {"", j.cur.name}
      /\ AfterRename(j) \in {"suspend", "activate", "store"}
  BY <1>1 DEF AfterRename, AfterGet
<1>3. step \in {"rename", "suspend", "activate", "store"}
  BY <1>2
<1>4. SeenDue(k)' /\ EntryDue(k)'
  BY <1>1, <1>3 DEF SeenDue, EntryDue, HasUser
<1>5. NameDue(k)'
  BY <1>1, <1>2 DEF NameDue
<1>6. StateDue(k)'
  BY <1>1, <1>2, <1>3 DEF StateDue, HasUser
<1> QED
  BY <1>4, <1>5, <1>6 DEF Due

LEMMA HandlerDue ==
  ASSUME Serial, UserInv, NEW p \in Procs, NEW k, h' = [h EXCEPT ![p] = k], Due(k)'
  PROVE  AccountDue'
<1>1. \A q \in Procs : h'[q] = k
  BY DEF Serial, UserInv, TypeOK
<1> QED
  BY <1>1 DEF AccountDue

LEMMA ReplyDue ==
  ASSUME Serial, UserInv, NEW p \in Procs, NEW s, Reply(p, s)
  PROVE  AccountDue'
<1>1. Idle.pc = "idle"
  BY DEF Idle
<1>2. PICK k : k = Idle
  OBVIOUS
<1>3. Due(k)'
  BY <1>1, <1>2, SomethingElseDue
<1> QED
  BY <1>2, <1>3, HandlerDue DEF Reply

(* A step by the one handler there is leaves the next step what it is due.  *)
LEMMA StepKeepsDue ==
  ASSUME Serial, UserInv, AccountDue, NEW p \in Procs, Step(p), UNCHANGED hardDelete
  PROVE  AccountDue'
<1> PICK f : f = h[p]
  OBVIOUS
<1>1. f \in Frame /\ Due(f) /\ AccountsTypeOK
  BY DEF UserInv, TypeOK, AccountDue
<1>2. f.pc # "idle"
  BY DEF Step, Invite, Adopt, Get, Rename, Suspend, Activate, StoreExternalId,
         Represent, DeleteUserCall, Forget, Lookup, Resolve
<1>3. /\ f.req \in RequestType /\ f.pc \in StepsOf(f.req.op)
      /\ f.pc \notin {"invite", "adopt", "lookup"} => f.uid \in UserIds
  BY <1>2, RequestFacts
<1>4. f.req.op \in {"POST", "PUT", "PATCH", "DELETE", "FIND"}
  BY <1>3 DEF RequestType
<1>5. AccountsTypeOK'
  BY StepGood DEF AccountsGood
<1>6. \A s : Answer(p, s) => AccountDue'
  BY ReplyDue DEF Answer
<1>7. \A s : DropEntry(p, s) => AccountDue'
  BY ReplyDue, StoreFacts
<1>8. ASSUME NEW k, Goes(p, k), Due(k)'
      PROVE  AccountDue'
  BY <1>8, HandlerDue DEF Goes
<1>9. ASSUME NEW u \in UserIds, f.req.op = "POST" => email'[u] = f.req.email,
             NEW j, j = Known(f, u),
             NEW step, \/ step = AfterGet(j)
                       \/ step = AfterRename(j) /\ (f.req.op # "POST" /\ f.req.name # "" => name'[u] = f.req.name),
             GoOn(p, j, step)
      PROVE  AccountDue'
  <2>1. PICK k : k = [j EXCEPT !.pc = step]
    OBVIOUS
  <2>2. Due(k)'
    BY <1>1, <1>5, <1>9, <2>1, KnownDue
  <2> QED
    BY <1>8, <1>9, <2>1, <2>2 DEF GoOn, Continue
<1>10. CASE Invite(p)
  <2>1. f.pc = "invite" /\ f.req.op = "POST"
    BY <1>3, <1>4, <1>10 DEF Invite, StepsOf
  <2>2. ASSUME NEW u \in UserIds, InviteUser(u, f.req.email, f.req.name),
               GoOn(p, Known(f, u), AfterRename(Known(f, u)))
        PROVE  AccountDue'
    <3>1. email'[u] = f.req.email
      BY <1>1, <2>2 DEF InviteUser, AccountsTypeOK
    <3> QED
      BY <1>9, <2>1, <2>2, <3>1
  <2>3. GoOn(p, f, "adopt") => AccountDue'
    <3>1. PICK k : k = [f EXCEPT !.pc = "adopt"]
      OBVIOUS
    <3>2. k.pc = "adopt"
      BY <1>1, <3>1 DEF Frame
    <3>3. Due(k)'
      BY <3>2, SomethingElseDue
    <3> QED
      BY <1>8, <3>1, <3>3 DEF GoOn, Continue
  <2> QED
    BY <1>6, <1>10, <2>2, <2>3 DEF Invite, Call, FreshIds
<1>11. CASE Adopt(p)
  <2>1. f.pc = "adopt" /\ f.req.op = "POST"
    BY <1>3, <1>4, <1>11 DEF Adopt, StepsOf
  <2>2. ASSUME NEW u \in WithEmail(f.req.email), UNCHANGED accountVars,
               GoOn(p, Known(f, u), AfterGet(Known(f, u)))
        PROVE  AccountDue'
    <3>1. u \in UserIds /\ email'[u] = f.req.email
      BY <2>2 DEF WithEmail, accountVars
    <3> QED
      BY <1>9, <2>2, <3>1
  <2> QED
    BY <1>6, <1>11, <2>2 DEF Adopt, Call
<1>12. CASE Get(p)
  <2>1. f.pc = "get" /\ f.req.op # "POST" /\ f.uid \in UserIds
    BY <1>3, <1>4, <1>12 DEF Get, StepsOf
  <2>2. GoOn(p, Known(f, f.uid), AfterGet(Known(f, f.uid))) => AccountDue'
    BY <1>9, <2>1
  <2> QED
    BY <1>6, <1>12, <2>2 DEF Get, UserCall, Call
<1>13. CASE Rename(p)
  <2>1. f.pc = "rename" /\ f.uid \in UserIds /\ f.req.op \in {"POST", "PUT", "PATCH"}
    BY <1>3, <1>4, <1>13 DEF Rename, StepsOf
  <2>2. ASSUME UpdateUserName(f.uid, f.req.name), GoOn(p, Known(f, f.uid), AfterRename(Known(f, f.uid)))
        PROVE  AccountDue'
    <3>1. /\ name'[f.uid] = f.req.name
          /\ f.req.op = "POST" => email'[f.uid] = f.req.email
      BY <1>1, <2>1, <2>2 DEF UpdateUserName, AccountsTypeOK, Due, SeenDue
    <3> QED
      BY <1>9, <2>1, <2>2, <3>1
  (* The rename of a POST failed: the name is not due, the rest is as it was. *)
  <2>3. ASSUME f.req.op = "POST", UNCHANGED <<ustate, email>>, GoOn(p, f, AfterRename(f))
        PROVE  AccountDue'
    <3>1. PICK k : k = [f EXCEPT !.pc = AfterRename(f)]
      OBVIOUS
    <3>2. k.pc = AfterRename(f) /\ k.req = f.req /\ k.uid = f.uid /\ k.cur = f.cur
      BY <1>1, <3>1 DEF Frame
    <3>3. /\ AfterRename(f) = "suspend" => f.req.active = "no"
          /\ AfterRename(f) = "activate" => f.req.active = "yes"
          /\ AfterRename(f) = "store" => (f.req.active = "no" => f.cur.suspended)
          /\ AfterRename(f) \in {"suspend", "activate", "store"}
      BY StepTells
    <3>4. /\ email'[f.uid] = f.req.email
          /\ HasUser(f.uid)' => (f.cur.suspended <=> ustate'[f.uid] = "suspended")
      BY <1>1, <2>1, <2>3 DEF Due, SeenDue, HasUser
    <3>5. SeenDue(k)' /\ NameDue(k)' /\ EntryDue(k)'
      BY <2>3, <3>2, <3>3, <3>4 DEF SeenDue, NameDue, EntryDue, HasUser
    <3>6. StateDue(k)'
      BY <2>3, <3>2, <3>3, <3>4 DEF StateDue, HasUser
    <3>7. Due(k)'
      BY <3>5, <3>6 DEF Due
    <3> QED
      BY <1>8, <2>3, <3>1, <3>7 DEF GoOn, Continue
  <2> QED
    BY <1>6, <1>13, <2>2, <2>3 DEF Rename, Call, UpdateUserName, accountVars
(* The account has just been given the state the request asks for. *)
<1>14. ASSUME f.pc \in {"suspend", "activate"}, NEW state \in {"suspended", "active"},
              HasUser(f.uid), SetState(f.uid, state),
              f.req.active = "no" => state = "suspended",
              f.req.active = "yes" => state = "active",
              GoOn(p, Known(f, f.uid), "store")
       PROVE  AccountDue'
  <2>1. PICK j : j = Known(f, f.uid)
    OBVIOUS
  <2>2. PICK k : k = [j EXCEPT !.pc = "store"]
    OBVIOUS
  <2>3. /\ k.pc = "store" /\ k.req = f.req /\ k.uid = f.uid
        /\ k.cur.suspended <=> ustate'[f.uid] = "suspended"
        /\ k.cur.name = name'[f.uid]
    BY <1>1, <2>1, <2>2 DEF Known, Reported, Frame
  <2>4. f.uid \in UserIds /\ f.req.op \in {"POST", "PUT", "PATCH"}
    BY <1>3, <1>4, <1>14 DEF StepsOf
  <2>5. ustate'[f.uid] = state /\ email' = email /\ name' = name
    BY <1>1, <1>14, <2>4 DEF SetState, AccountsTypeOK
  <2>6. SeenDue(k)' /\ EntryDue(k)'
    BY <1>1, <1>14, <2>3, <2>5 DEF Due, SeenDue, EntryDue
  <2>7. NameDue(k)'
    BY <1>1, <1>14, <2>3, <2>5 DEF Due, NameDue, Writes
  <2>8. StateDue(k)'
    BY <1>14, <2>3, <2>5 DEF StateDue, HasUser, Writes
  <2>9. Due(k)'
    BY <2>6, <2>7, <2>8 DEF Due
  <2> QED
    BY <1>8, <1>14, <2>1, <2>2, <2>9 DEF GoOn, Continue
<1>15. CASE Suspend(p)
  <2>1. f.pc = "suspend" /\ f.req.active = "no"
    BY <1>1, <1>15 DEF Suspend, Due, StateDue
  <2> QED
    BY <1>6, <1>14, <1>15, <2>1 DEF Suspend, UserCall, Call, SuspendUser
<1>16. CASE Activate(p)
  <2>1. f.pc = "activate" /\ f.req.active = "yes"
    BY <1>1, <1>16 DEF Activate, Due, StateDue
  <2> QED
    BY <1>6, <1>14, <1>16, <2>1 DEF Activate, UserCall, Call, ActivateUser
(* Nothing but the entry changes on the way to the answer. *)
<1>17. CASE StoreExternalId(p)
  <2>1. f.pc = "store" /\ Writes(f) /\ f.uid \in UserIds /\ UNCHANGED accountVars
    BY <1>3, <1>4, <1>17 DEF StoreExternalId, StepsOf, Writes
  <2>2. PICK k : k = [f EXCEPT !.pc = "answer"]
    OBVIOUS
  <2>3. k.pc = "answer" /\ k.req = f.req /\ k.uid = f.uid /\ k.cur = f.cur
    BY <1>1, <2>2 DEF Frame
  <2>4. ASSUME Goes(p, k), f.req.ext # "" => map'[f.uid] = f.req.ext
        PROVE  AccountDue'
    <3>1. SeenDue(k)'
      BY <1>1, <2>1, <2>3 DEF Due, SeenDue, HasUser, accountVars
    <3>2. NameDue(k)'
      BY <1>1, <2>1, <2>3 DEF Due, NameDue, Writes, HasUser, accountVars
    <3>3. StateDue(k)'
      BY <1>1, <2>1, <2>3 DEF Due, StateDue, Writes, HasUser, accountVars
    <3>4. EntryDue(k)'
      BY <2>1, <2>3, <2>4 DEF EntryDue, Writes
    <3>5. Due(k)'
      BY <3>1, <3>2, <3>3, <3>4 DEF Due
    <3> QED
      BY <1>8, <2>4, <3>5
  <2>5. map \in [UserIds -> Exts \cup {""}]
    BY DEF UserInv, TypeOK, Store!Mapping
  <2>6. PICK m : m = IF map[f.uid] = f.req.ext THEN map
                     ELSE Store!Assigned(map, f.uid, f.req.ext)
    OBVIOUS
  <2>7. m[f.uid] = f.req.ext
    BY <2>1, <2>6 DEF Store!Assigned
  <2>8. \/ f.req.ext = "" /\ Goes(p, k)
        \/ f.req.ext # "" /\ Stored(m) /\ Goes(p, k)
        \/ Reply(p, "storeError")
    BY <1>17, <2>2, <2>6 DEF StoreExternalId, GoOn, Continue
  <2> QED
    BY <2>4, <2>7, <2>8, ReplyDue, StoreFacts
<1>22. CASE Represent(p)
  BY <1>6, <1>22 DEF Represent
<1>18. CASE DeleteUserCall(p)
  <2>1. f.pc = "delete"
    BY <1>18 DEF DeleteUserCall
  <2>2. ASSUME hardDelete, GoOn(p, f, "forget")
        PROVE  AccountDue'
    <3>1. PICK k : k = [f EXCEPT !.pc = "forget"]
      OBVIOUS
    <3>2. k.pc = "forget"
      BY <1>1, <3>1 DEF Frame
    <3>3. Due(k)'
      BY <2>2, <3>2 DEF Due, SeenDue, NameDue, StateDue, EntryDue
    <3> QED
      BY <1>8, <2>2, <3>1, <3>3 DEF GoOn, Continue
  <2> QED
    BY <1>6, <1>18, <2>2 DEF DeleteUserCall, UserCall, Call
<1>19. CASE Forget(p)
  BY <1>7, <1>19 DEF Forget
<1>20. CASE Lookup(p)
  <2>1. ASSUME NEW u \in UserIds, map[u] = f.req.ext, Continue(p, [f EXCEPT !.pc = "resolve", !.uid = u])
        PROVE  AccountDue'
    <3>1. PICK k : k = [f EXCEPT !.pc = "resolve", !.uid = u]
      OBVIOUS
    <3>2. k.pc = "resolve" /\ k.uid = u /\ k.req = f.req /\ map' = map
      BY <1>1, <2>1, <3>1 DEF Frame, Continue, storeVars
    <3>3. Due(k)'
      BY <2>1, <3>2 DEF Due, SeenDue, NameDue, StateDue, EntryDue
    <3> QED
      BY <1>8, <2>1, <3>1, <3>3 DEF Continue
  <2> QED
    BY <1>6, <1>20, <2>1 DEF Lookup
<1>21. CASE Resolve(p)
  <2>1. f.pc = "resolve" /\ f.req.op = "FIND" /\ f.uid \in UserIds
    BY <1>3, <1>4, <1>21 DEF Resolve, StepsOf
  <2>2. ASSUME HasUser(f.uid), UNCHANGED accountVars, ShowFound(p)
        PROVE  AccountDue'
    <3>1. PICK j : j = Known(f, f.uid)
      OBVIOUS
    <3>2. PICK k : k = [j EXCEPT !.pc = "answer"]
      OBVIOUS
    <3>3. /\ k.pc = "answer" /\ k.req = f.req /\ k.uid = f.uid
          /\ k.cur.suspended <=> ustate'[f.uid] = "suspended"
          /\ k.cur.name = name'[f.uid]
      BY <1>1, <3>1, <3>2 DEF Known, Reported, Frame
    <3>4. Goes(p, k) /\ map' = map
      BY <2>2, <3>1, <3>2 DEF ShowFound, GoOn, Continue, storeVars
    <3>5. SeenDue(k)' /\ NameDue(k)' /\ StateDue(k)'
      BY <2>1, <3>3 DEF SeenDue, NameDue, StateDue, Writes
    <3>6. EntryDue(k)'
      BY <1>1, <2>1, <2>2, <3>3, <3>4 DEF Due, EntryDue, HasUser, accountVars
    <3>7. Due(k)'
      BY <3>5, <3>6 DEF Due
    <3> QED
      BY <1>8, <3>4, <3>7
  <2> QED
    BY <1>6, <1>7, <1>21, <2>2 DEF Resolve, Call
<1> QED
  BY <1>10, <1>11, <1>12, <1>13, <1>15, <1>16, <1>17, <1>18, <1>19, <1>20, <1>21, <1>22 DEF Step

LEMMA AccountDueInit == Serial /\ Init => AccountDue
<1>1. Idle.pc = "idle"
  BY DEF Idle
<1> QED
  BY <1>1 DEF Init, AccountDue, Due, SeenDue, NameDue, StateDue, EntryDue

LEMMA AccountDueNext ==
  ASSUME Serial, UserInv, AccountDue, [Next]_vars
  PROVE  AccountDue'
<1>1. ASSUME NEW p \in Procs, Step(p), UNCHANGED hardDelete
      PROVE  AccountDue'
  BY <1>1, StepKeepsDue
<1>2. ASSUME NEW p \in Procs, NEW r \in Received, Receive(p, r)
      PROVE  AccountDue'
  <2>1. PICK k : k = [Idle EXCEPT !.pc = FirstStep(r.op), !.req = r, !.uid = r.uid]
    OBVIOUS
  <2>2. r.op \in {"POST", "PUT", "PATCH", "DELETE", "FIND"}
    BY ReceivedFacts DEF RequestType
  <2>3. k.pc = FirstStep(r.op)
    BY <2>1 DEF Idle
  <2>4. FirstStep(r.op) \in {"invite", "get", "delete", "lookup"}
    BY <2>2 DEF FirstStep
  <2>5. Due(k)'
    BY <2>3, <2>4, SomethingElseDue
  <2> QED
    BY <1>2, <2>1, <2>5, HandlerDue DEF Receive, Continue, Goes
<1>3. ASSUME NEW p \in Procs, Reject(p)
      PROVE  AccountDue'
  BY <1>3, ReplyDue DEF Reject, Answer
(* An account deleted in Outline is not there: nothing is due of it.        *)
<1>4. CASE DeleteInOutline /\ UNCHANGED hardDelete
  <2>1. PICK u \in DeletedInOutline : DeleteUser(u)
    BY <1>4 DEF DeleteInOutline
  <2>2. /\ UNCHANGED <<email, name, h, map, hardDelete>>
        /\ \A v \in UserIds : HasUser(v)' => HasUser(v) /\ ustate'[v] = ustate[v]
        /\ \A v \in UserIds \ DeletedInOutline : HasUser(v) => HasUser(v)'
    BY <1>4, <2>1 DEF DeleteInOutline, DeleteUser, SetState, HasUser, storeVars,
       UserInv, TypeOK, AccountsTypeOK
  <2> SUFFICES ASSUME NEW p \in Procs PROVE Due(h[p])'
    BY DEF AccountDue
  <2> PICK f : f = h[p]
    OBVIOUS
  <2>3. Due(f) /\ h'[p] = f /\ f \in Frame
    BY <2>2 DEF AccountDue, UserInv, TypeOK
  <2>4. f.pc \in {"rename", "suspend", "activate", "store", "answer"} => f.uid \in UserIds
    BY RequestFacts
  <2>5. Due(f)'
    <3>1. SeenDue(f)'
      BY <2>2, <2>3, <2>4 DEF Due, SeenDue
    <3>2. NameDue(f)'
      BY <2>2, <2>3, <2>4 DEF Due, NameDue
    <3>3. StateDue(f)'
      BY <2>2, <2>3, <2>4 DEF Due, StateDue
    <3>4. EntryDue(f)'
      BY <2>2, <2>3, <2>4 DEF Due, EntryDue
    <3> QED
      BY <3>1, <3>2, <3>3, <3>4 DEF Due
  <2> QED
    BY <2>3, <2>5
<1>5. CASE Restart
  <2>1. PICK k : k = Idle
    OBVIOUS
  <2>2. Due(k)'
    <3>1. k.pc = "idle"
      BY <2>1 DEF Idle
    <3> QED
      BY <3>1, SomethingElseDue
  <2>3. \A p \in Procs : h'[p] = k
    BY <1>5, <2>1 DEF Restart
  <2> QED
    BY <2>2, <2>3 DEF AccountDue
<1>6. CASE UNCHANGED vars
  BY <1>6 DEF vars, accountVars, storeVars, AccountDue, Due, SeenDue, NameDue, StateDue,
     EntryDue, Writes, HasUser
<1> QED
  BY <1>1, <1>2, <1>3, <1>4, <1>5, <1>6 DEF Next

(* Requests served one at a time: whatever way the handler has come, what   *)
(* its earlier steps owe the request is so (users.go:95-125, 214-233,       *)
(* 256-277).                                                                *)
THEOREM AccountIsDue ==
  ASSUME Serial
  PROVE  Spec => []AccountDue
<1>1. Init => UserInv /\ AccountDue
  BY UserInitInv, AccountDueInit
<1>2. UserInv /\ AccountDue /\ [Next]_vars => UserInv' /\ AccountDue'
  BY NextKeepsInv, AccountDueNext
<1> QED
  BY <1>1, <1>2, PTL DEF Spec

-----------------------------------------------------------------------------
(* The answers *)

LEMMA NoSuccess ==
  ASSUME UserInv, NEW p \in Procs
  PROVE  /\ \A s : Answer(p, s) /\ s \notin {"ok", "empty"} => ~ Succeeds(p)
         /\ \A k : Continue(p, k) /\ k.pc # "idle" => ~ Succeeds(p)
         /\ \A k : Goes(p, k) /\ k.pc # "idle" => ~ Succeeds(p)
         /\ \A s : Reply(p, s) /\ s \notin {"ok", "empty"} => ~ Succeeds(p)
  BY DEF UserInv, TypeOK, Answer, Reply, Goes, Continue, Succeeds

(* Only the last step of a request can succeed, and says what is then so.   *)
LEMMA StepAnswers ==
  ASSUME UserInv, AccountDue, NEW p \in Procs, Step(p), Succeeds(p)
  PROVE  Promise(h[p], status'[p])
<1> PICK f : f = h[p]
  OBVIOUS
<1>1. f \in Frame /\ Due(f) /\ f.pc # "idle"
  BY DEF UserInv, TypeOK, AccountDue, Succeeds
<1>2. /\ f.req \in Received /\ f.pc \in StepsOf(f.req.op)
      /\ f.pc \notin {"invite", "adopt", "lookup"} => f.uid \in UserIds
  BY <1>1, RequestFacts
<1>3. f.req.op \in {"POST", "PUT", "PATCH", "DELETE", "FIND"}
  BY <1>2, ReceivedFacts DEF RequestType
<1>4. /\ ~ Answer(p, "notFound") /\ ~ Answer(p, "upstream") /\ ~ Answer(p, "conflict")
  BY NoSuccess
<1>5. /\ \A s : Reply(p, s) => status'[p] = s
      /\ status'[p] \in {"ok", "empty"}
  BY DEF Reply, UserInv, TypeOK, Succeeds
(* The steps that are not the last *)
<1>6. ASSUME NEW g \in {f} \cup {Known(f, u) : u \in UserIds}, NEW step, step # "idle",
             GoOn(p, g, step)
      PROVE  FALSE
  <2>1. PICK k : k = [g EXCEPT !.pc = step]
    OBVIOUS
  <2>2. k.pc = step
    BY <1>1, <1>6, <2>1 DEF Known, Frame
  <2> QED
    BY <1>6, <2>1, <2>2, NoSuccess DEF GoOn
<1>7. \A g : AfterGet(g) # "idle" /\ AfterRename(g) # "idle"
  BY DEF AfterGet, AfterRename
<1>8. ~ Invite(p) /\ ~ Adopt(p)
  BY <1>4, <1>6, <1>7 DEF Invite, Adopt, Call, FreshIds, WithEmail
<1>9. ~ Get(p) /\ ~ Rename(p)
  <2>1. f.pc \in {"get", "rename"} => f.uid \in UserIds
    BY <1>2
  <2> QED
    BY <1>4, <1>6, <1>7, <2>1 DEF Get, Rename, UserCall, Call
<1>10. ~ Suspend(p) /\ ~ Activate(p)
  <2>1. f.pc \in {"suspend", "activate"} => f.uid \in UserIds
    BY <1>2
  <2> QED
    BY <1>4, <1>6, <2>1 DEF Suspend, Activate, UserCall, Call
<1>17. ~ StoreExternalId(p)
  <2>1. PICK k : k = [f EXCEPT !.pc = "answer"]
    OBVIOUS
  <2>2. k.pc = "answer"
    BY <1>1, <2>1 DEF Frame
  <2> QED
    BY <2>1, <2>2, NoSuccess DEF StoreExternalId, GoOn, Continue
(* The steps that may be *)
<1>11. CASE Represent(p)
  <2>1. /\ f.pc = "answer" /\ f.req.op \in {"POST", "PUT", "PATCH", "FIND"} /\ f.uid \in UserIds
        /\ status'[p] = "ok" /\ map' = map /\ UNCHANGED accountVars
    BY <1>2, <1>3, <1>5, <1>11 DEF Represent, Answer, storeVars, StepsOf
  <2>2. f.req.ext # "" => map'[f.uid] = f.req.ext
    BY <1>1, <2>1 DEF Due, EntryDue
  <2>3. /\ Shown(f)
        /\ f.req.op = "POST" => email'[f.uid] = f.req.email
    BY <1>1, <2>1 DEF Due, SeenDue, Shown, Stays, HasUser, accountVars
  <2>4. CASE Writes(f)
    <3>1. /\ Stays(f.uid) /\ f.req.name # "" /\ f.req.op # "POST" => name'[f.uid] = f.req.name
          /\ Stays(f.uid) /\ f.req.active = "no" => ustate'[f.uid] = "suspended"
          /\ Stays(f.uid) /\ f.req.active = "yes" /\ f.req.op # "POST" => ustate'[f.uid] = "active"
      BY <1>1, <2>1, <2>4 DEF accountVars, Stays, HasUser, Due, NameDue, StateDue
    <3> QED
      BY <2>2, <2>3, <2>4, <3>1 DEF Promise, Asked, Writes
  <2>5. CASE f.req.op = "FIND"
    <3>1. f.req.ext # ""
      BY <1>2, <2>5, ReceivedFacts
    <3>2. f.uid \notin DeletedInOutline => Stays(f.uid)
      BY <1>1, <2>1, <2>5 DEF Due, EntryDue, Stays, HasUser, accountVars
    <3> QED
      BY <2>1, <2>2, <2>3, <2>5, <3>1, <3>2 DEF Promise, Found
  <2> QED
    BY <2>1, <2>4, <2>5 DEF Writes
<1>12. CASE DeleteUserCall(p)
  <2>1. f.pc = "delete" /\ f.req.op = "DELETE" /\ f.uid \in UserIds
    BY <1>2, <1>3, <1>12 DEF DeleteUserCall, StepsOf
  <2>2. ~ hardDelete /\ SuspendUser(f.uid) /\ map' = map
    BY <1>4, <1>6, <1>12 DEF DeleteUserCall, UserCall, Call, Answer, storeVars
  <2>3. Gone(f.uid)
    BY <2>1, <2>2 DEF Gone, SuspendUser, SetState, UserInv, TypeOK, AccountsTypeOK
  <2> QED
    BY <2>1, <2>3 DEF Promise
<1>13. map \in [UserIds -> Exts \cup {""}] /\ Store!OneToOne(map)
  BY DEF UserInv, TypeOK, Store!Mapping
<1>14. CASE Forget(p)
  <2>1. /\ f.pc = "forget" /\ f.req.op = "DELETE" /\ f.uid \in UserIds
        /\ hardDelete /\ ustate'[f.uid] = "deleted"
    BY <1>1, <1>2, <1>3, <1>14 DEF Forget, StepsOf, Due, EntryDue, accountVars, UserInv, OnTrack
  <2>2. map' = Store!Dropped(map, f.uid)
    BY <1>14, StoreFacts DEF Forget
  <2>3. map'[f.uid] = ""
    BY <1>13, <2>1, <2>2 DEF Store!Dropped
  <2> QED
    BY <2>1, <2>3 DEF Promise, Gone
<1>15. CASE Lookup(p)
  <2>1. f.pc = "lookup" /\ f.req.op = "FIND"
    BY <1>2, <1>3, <1>15 DEF Lookup, StepsOf
  <2>2. ASSUME NEW u \in UserIds, Continue(p, [f EXCEPT !.pc = "resolve", !.uid = u])
        PROVE  FALSE
    <3>1. [f EXCEPT !.pc = "resolve", !.uid = u].pc = "resolve"
      BY <1>1 DEF Frame
    <3> QED
      BY <2>2, <3>1, NoSuccess
  <2>3. /\ {u \in UserIds : map[u] = f.req.ext} = {}
        /\ Answer(p, "empty")
    BY <1>15, <2>2 DEF Lookup
  <2>4. status'[p] = "empty" /\ map' = map
    BY <1>5, <2>3 DEF Answer, storeVars
  <2> QED
    BY <2>1, <2>3, <2>4 DEF Promise, Found
<1>16. CASE Resolve(p)
  <2>1. /\ f.pc = "resolve" /\ f.req.op = "FIND" /\ f.uid \in UserIds
        /\ map[f.uid] = f.req.ext /\ f.req.ext # ""
    BY <1>1, <1>2, <1>3, <1>16, ReceivedFacts DEF Resolve, StepsOf, Due, EntryDue
  <2>2. ~ ShowFound(p)
    BY <1>6, <2>1 DEF ShowFound
  <2>3. CASE DropEntry(p, "empty")
    <3>1. status'[p] = "empty" /\ map' = Store!Dropped(map, f.uid)
      BY <1>5, <2>3, StoreFacts
    <3>2. \A v \in UserIds : map'[v] # f.req.ext
      BY <1>13, <2>1, <3>1 DEF Store!Dropped, Store!OneToOne
    <3> QED
      BY <2>1, <3>1, <3>2 DEF Promise, Found
  <2> QED
    BY <1>4, <1>16, <2>2, <2>3 DEF Resolve, Call
<1> QED
  BY <1>8, <1>9, <1>10, <1>11, <1>12, <1>14, <1>15, <1>16, <1>17 DEF Step

(* Requests served one at a time, with calls refused or lost, saves that    *)
(* fail, restarts, and accounts that administrators delete between any two  *)
(* steps: a 2xx answer means the account and the mapping are what the       *)
(* request asked for (README.md:75-81 and 110-112, users.go).               *)
THEOREM UserAnswersAreTrue ==
  ASSUME Serial
  PROVE  Spec => UserAnswerHolds
<1> DEFINE Truthful == \A p \in Procs : Succeeds(p) => Promise(h[p], status'[p])
<1>1. Init => UserInv /\ AccountDue
  BY UserInitInv, AccountDueInit
<1>2. UserInv /\ AccountDue /\ [Next]_vars => UserInv' /\ AccountDue'
  BY NextKeepsInv, AccountDueNext
<1>3. ASSUME UserInv, AccountDue, Next
      PROVE  Truthful
  <2> SUFFICES ASSUME NEW p \in Procs, Succeeds(p)
               PROVE  Promise(h[p], status'[p])
    OBVIOUS
  <2>1. ASSUME NEW q \in Procs, Step(q)
        PROVE  Promise(h[p], status'[p])
    BY <1>3, <2>1, StepAnswers DEF Serial
  <2>2. ASSUME NEW q \in Procs, NEW r \in Received, Receive(q, r)
        PROVE  FALSE
    BY <2>2 DEF Receive, Succeeds, Serial
  <2>3. ~ \E q \in Procs : Reject(q)
    BY DEF Reject, Succeeds, Serial
  <2>4. ~ DeleteInOutline /\ ~ Restart
    BY DEF DeleteInOutline, Restart, Succeeds
  <2> QED
    BY <1>3, <2>1, <2>2, <2>3, <2>4 DEF Next
<1>4. UserInv /\ AccountDue /\ [Next]_vars => [Truthful]_vars
  BY <1>3
<1> QED
  BY <1>1, <1>2, <1>4, PTL DEF Spec, UserAnswerHolds

-----------------------------------------------------------------------------
(* Deleted accounts *)

(* Before a deleted account's entry is gone, its handler is about to drop   *)
(* it; a handler that may write an entry works on an account that is there. *)
GoneForgotten ==
  \A u \in UserIds :
    ustate[u] = "deleted" =>
      map[u] = "" \/ \E p \in Procs : h[p].pc = "forget" /\ h[p].uid = u

AtWork == {"rename", "suspend", "activate", "store"}

WorkedOnLive == \A p \in Procs : h[p].pc \in AtWork => HasUser(h[p].uid)

(* One step of the handler of p, as far as deleted accounts are concerned.  *)
GoneFacts(p) ==
  /\ \A u \in UserIds :
       ustate'[u] = "deleted" =>
         \/ ustate[u] = "deleted"
         \/ h'[p].pc = "forget" /\ h'[p].uid = u
  /\ \A u \in UserIds : map'[u] # "" => map[u] # "" \/ HasUser(u)'
  /\ h[p].pc = "forget" => map'[h[p].uid] = ""
  /\ (h[p].pc \in AtWork => HasUser(h[p].uid))'

LEMMA StepGoneFacts ==
  ASSUME "lost" \notin Faults, UserInv, WorkedOnLive, NEW p \in Procs, Step(p)
  PROVE  GoneFacts(p)
<1> PICK f : f = h[p]
  OBVIOUS
<1>1. /\ f \in Frame /\ AccountsTypeOK /\ h \in [Procs -> Frame]
      /\ map \in [UserIds -> Exts \cup {""}]
      /\ f.pc \in AtWork => HasUser(f.uid)
  BY DEF UserInv, TypeOK, WorkedOnLive, Store!Mapping
<1>2. f.pc # "idle"
  BY DEF Step, Invite, Adopt, Get, Rename, Suspend, Activate, StoreExternalId,
         Represent, DeleteUserCall, Forget, Lookup, Resolve
<1>3. /\ f.req \in RequestType
      /\ f.pc \notin {"invite", "adopt", "lookup"} => f.uid \in UserIds
  BY <1>2, RequestFacts
<1>4. Idle.pc = "idle"
  BY DEF Idle
<1>5. /\ \A k : Continue(p, k) => h'[p] = k /\ map' = map
      /\ \A s : Reply(p, s) => h'[p].pc = "idle"
      /\ \A s : Answer(p, s) => h'[p].pc = "idle" /\ map' = map
      /\ \A k : Goes(p, k) => h'[p] = k
      /\ \A s : DropEntry(p, s) => h'[p].pc = "idle" /\ map' = Store!Dropped(map, f.uid)
  BY <1>1, <1>4, StoreFacts DEF Goes, Continue, Reply, Answer, storeVars
(* A failed call, whatever it was for, and a step that only reads.          *)
<1>6. ASSUME UNCHANGED ustate, map' = map, h'[p].pc \notin AtWork, f.pc # "forget"
      PROVE  GoneFacts(p)
  BY <1>6 DEF GoneFacts
(* A step that goes on with an account that is there.                       *)
<1>7. ASSUME NEW u \in UserIds, HasUser(u)',
             \A v \in UserIds : ustate'[v] = "deleted" => ustate[v] = "deleted",
             NEW g \in {f, Known(f, u)}, g.uid = u, NEW step, GoOn(p, g, step), f.pc # "forget"
      PROVE  GoneFacts(p)
  <2>1. PICK k : k = [g EXCEPT !.pc = step]
    OBVIOUS
  <2>2. k.uid = u
    BY <1>1, <1>7, <2>1 DEF Known, Frame
  <2>3. h'[p] = k /\ map' = map
    BY <1>5, <1>7, <2>1 DEF GoOn
  <2> QED
    BY <1>7, <2>2, <2>3 DEF GoneFacts
<1>8. /\ \A s : Answer(p, s) => h'[p].pc \notin AtWork /\ map' = map
      /\ UNCHANGED accountVars => UNCHANGED ustate
  BY <1>5 DEF AtWork, accountVars
<1>9. \A u : Known(f, u).uid = u
  BY <1>1 DEF Known, Frame
<1>10. CASE Invite(p)
  <2>1. f.pc = "invite"
    BY <1>10 DEF Invite
  <2>2. ASSUME NEW u \in UserIds, InviteUser(u, f.req.email, f.req.name),
               GoOn(p, Known(f, u), AfterRename(Known(f, u)))
        PROVE  GoneFacts(p)
    <3>1. HasUser(u)' /\ \A v \in UserIds : ustate'[v] = "deleted" => ustate[v] = "deleted"
      BY <1>1, <2>2 DEF InviteUser, HasUser, AccountsTypeOK
    <3> QED
      BY <1>7, <1>9, <2>1, <2>2, <3>1
  <2>3. UNCHANGED accountVars /\ GoOn(p, f, "adopt") => GoneFacts(p)
    <3>1. PICK k : k = [f EXCEPT !.pc = "adopt"]
      OBVIOUS
    <3>2. k.pc = "adopt"
      BY <1>1, <3>1 DEF Frame
    <3> QED
      BY <1>5, <1>6, <1>8, <2>1, <3>1, <3>2 DEF GoOn, AtWork
  <2> QED
    BY <1>6, <1>8, <1>10, <2>1, <2>2, <2>3 DEF Invite, Call, FreshIds
<1>11. CASE Adopt(p)
  <2>1. f.pc = "adopt" /\ UNCHANGED accountVars
    BY <1>11 DEF Adopt, Call
  <2>2. ASSUME NEW u \in WithEmail(f.req.email), GoOn(p, Known(f, u), AfterGet(Known(f, u)))
        PROVE  GoneFacts(p)
    <3>1. u \in UserIds /\ HasUser(u)' /\ ustate' = ustate
      BY <2>1, <2>2 DEF WithEmail, HasUser, accountVars
    <3> QED
      BY <1>7, <1>9, <2>1, <2>2, <3>1
  <2> QED
    BY <1>6, <1>8, <1>11, <2>1, <2>2 DEF Adopt, Call
<1>12. CASE Get(p)
  <2>1. f.pc = "get" /\ UNCHANGED accountVars /\ f.uid \in UserIds
    BY <1>3, <1>12 DEF Get, UserCall, Call
  <2>2. ASSUME HasUser(f.uid), GoOn(p, Known(f, f.uid), AfterGet(Known(f, f.uid)))
        PROVE  GoneFacts(p)
    <3>1. HasUser(f.uid)' /\ ustate' = ustate
      BY <2>1, <2>2 DEF HasUser, accountVars
    <3> QED
      BY <1>7, <1>9, <2>1, <2>2, <3>1
  <2> QED
    BY <1>6, <1>8, <1>12, <2>1, <2>2 DEF Get, UserCall, Call
<1>13. CASE Rename(p)
  <2>1. f.pc = "rename" /\ ustate' = ustate /\ f.uid \in UserIds /\ HasUser(f.uid)
    BY <1>1, <1>3, <1>13 DEF Rename, Call, UpdateUserName, accountVars, AtWork
  <2>2. HasUser(f.uid)'
    BY <2>1 DEF HasUser
  <2>3. \/ GoOn(p, Known(f, f.uid), AfterRename(Known(f, f.uid)))
        \/ GoOn(p, f, AfterRename(f))
        \/ \E s : Answer(p, s)
    BY <1>13 DEF Rename, Call
  <2> QED
    BY <1>6, <1>7, <1>8, <1>9, <2>1, <2>2, <2>3
<1>14. CASE Suspend(p) \/ Activate(p)
  <2>1. f.pc \in {"suspend", "activate"} /\ f.uid \in UserIds
    BY <1>3, <1>14 DEF Suspend, Activate
  <2>2. ASSUME SuspendUser(f.uid) \/ ActivateUser(f.uid), GoOn(p, Known(f, f.uid), "store")
        PROVE  GoneFacts(p)
    <3>1. HasUser(f.uid)' /\ \A v \in UserIds : ustate'[v] = "deleted" => ustate[v] = "deleted"
      BY <1>1, <2>1, <2>2 DEF SuspendUser, ActivateUser, SetState, HasUser, AccountsTypeOK
    <3> QED
      BY <1>7, <1>9, <2>1, <2>2, <3>1
  <2> QED
    BY <1>6, <1>8, <1>14, <2>1, <2>2 DEF Suspend, Activate, UserCall, Call
<1>15. CASE StoreExternalId(p)
  <2>1. f.pc = "store" /\ ustate' = ustate /\ f.uid \in UserIds /\ HasUser(f.uid)
    BY <1>1, <1>3, <1>15 DEF StoreExternalId, accountVars, AtWork
  <2>2. map' = map \/ map' = Store!Assigned(map, f.uid, f.req.ext)
    BY <1>5, <1>15, StoreFacts DEF StoreExternalId, GoOn
  <2>3. \A u \in UserIds : map'[u] # "" => map[u] # "" \/ u = f.uid
    BY <2>2 DEF Store!Assigned
  <2>4. h'[p].pc \notin AtWork /\ HasUser(f.uid)'
    <3>1. PICK k : k = [f EXCEPT !.pc = "answer"]
      OBVIOUS
    <3>2. k.pc = "answer"
      BY <1>1, <3>1 DEF Frame
    <3> QED
      BY <1>5, <1>15, <2>1, <3>1, <3>2 DEF StoreExternalId, GoOn, HasUser, AtWork
  <2> QED
    BY <2>1, <2>3, <2>4 DEF GoneFacts
<1>20. CASE Represent(p)
  BY <1>6, <1>8, <1>20 DEF Represent
<1>16. CASE DeleteUserCall(p)
  <2>1. f.pc = "delete" /\ f.uid \in UserIds
    BY <1>3, <1>16 DEF DeleteUserCall
  <2>2. ASSUME DeleteUser(f.uid), GoOn(p, f, "forget")
        PROVE  GoneFacts(p)
    <3>1. PICK k : k = [f EXCEPT !.pc = "forget"]
      OBVIOUS
    <3>2. k.pc = "forget" /\ k.uid = f.uid
      BY <1>1, <3>1 DEF Frame
    <3>3. h'[p] = k /\ map' = map
      BY <1>5, <2>2, <3>1 DEF GoOn
    <3>4. \A u \in UserIds : ustate'[u] = "deleted" => ustate[u] = "deleted" \/ u = f.uid
      BY <1>1, <2>2 DEF DeleteUser, SetState, AccountsTypeOK
    <3> QED
      BY <2>1, <3>2, <3>3, <3>4 DEF GoneFacts, AtWork
  <2>3. ASSUME SuspendUser(f.uid), NEW s, Answer(p, s)
        PROVE  GoneFacts(p)
    <3>1. \A u \in UserIds : ustate'[u] = "deleted" => ustate[u] = "deleted"
      BY <1>1, <2>3 DEF SuspendUser, SetState, AccountsTypeOK
    <3> QED
      BY <1>8, <2>1, <2>3, <3>1 DEF GoneFacts
  <2> QED
    BY <1>6, <1>8, <1>16, <2>1, <2>2, <2>3 DEF DeleteUserCall, UserCall, Call
<1>17. CASE Forget(p)
  <2>1. f.uid \in UserIds /\ ustate' = ustate
    BY <1>3, <1>17 DEF Forget, accountVars
  <2>2. map' = Store!Dropped(map, f.uid) /\ h'[p].pc = "idle"
    BY <1>5, <1>17 DEF Forget
  <2> QED
    BY <1>1, <2>1, <2>2 DEF GoneFacts, AtWork, Store!Dropped
<1>18. CASE Lookup(p)
  <2>1. f.pc = "lookup" /\ ustate' = ustate
    BY <1>18 DEF Lookup, accountVars
  <2>2. ASSUME NEW u, Continue(p, [f EXCEPT !.pc = "resolve", !.uid = u])
        PROVE  GoneFacts(p)
    <3>1. [f EXCEPT !.pc = "resolve", !.uid = u].pc = "resolve"
      BY <1>1 DEF Frame
    <3> QED
      BY <1>5, <1>6, <2>1, <2>2, <3>1 DEF AtWork
  <2> QED
    BY <1>6, <1>8, <1>18, <2>1, <2>2 DEF Lookup
<1>19. CASE Resolve(p)
  <2>1. f.pc = "resolve" /\ f.uid \in UserIds /\ ustate' = ustate
    BY <1>3, <1>19 DEF Resolve, Call, accountVars
  <2>2. h'[p].pc \notin AtWork /\ (map' = map \/ map' = Store!Dropped(map, f.uid))
    <3>1. PICK k : k = [Known(f, f.uid) EXCEPT !.pc = "answer"]
      OBVIOUS
    <3>2. k.pc = "answer"
      BY <1>1, <3>1 DEF Known, Frame
    <3> QED
      BY <1>5, <1>19, <3>1, <3>2 DEF Resolve, Call, ShowFound, GoOn, AtWork
  <2> QED
    BY <1>1, <2>1, <2>2 DEF GoneFacts, AtWork, Store!Dropped
<1> QED
  BY <1>10, <1>11, <1>12, <1>13, <1>14, <1>15, <1>16, <1>17, <1>18, <1>19, <1>20 DEF Step

LEMMA GoneNext ==
  ASSUME Serial, "lost" \notin Faults, "kill" \notin Faults, DeletedInOutline = {},
         UserInv, GoneForgotten, WorkedOnLive, [Next]_vars
  PROVE  GoneForgotten' /\ WorkedOnLive'
<1>1. ASSUME NEW p \in Procs, Step(p)
      PROVE  GoneForgotten' /\ WorkedOnLive'
  <2>1. GoneFacts(p) /\ \A q \in Procs : q = p
    BY <1>1, StepGoneFacts DEF Serial
  <2>2. GoneForgotten'
    <3> SUFFICES ASSUME NEW u \in UserIds, ustate'[u] = "deleted", map'[u] # "",
                        ~ (h'[p].pc = "forget" /\ h'[p].uid = u)
                 PROVE  FALSE
      BY DEF GoneForgotten
    <3>1. ustate[u] = "deleted" /\ ~ HasUser(u)'
      BY <2>1 DEF GoneFacts, HasUser
    <3>2. map[u] # ""
      BY <2>1, <3>1 DEF GoneFacts
    <3>3. h[p].pc = "forget" /\ h[p].uid = u
      BY <2>1, <3>1, <3>2 DEF GoneForgotten
    <3> QED
      BY <2>1, <3>3 DEF GoneFacts
  <2>3. WorkedOnLive'
    BY <2>1 DEF GoneFacts, WorkedOnLive
  <2> QED
    BY <2>2, <2>3
(* No handler is at work on an account before, and none after.              *)
<1>2. ASSUME NEW p \in Procs, h[p].pc = "idle", h'[p].pc \notin AtWork, UNCHANGED ustate, map' = map
      PROVE  GoneForgotten' /\ WorkedOnLive'
  BY <1>2 DEF GoneForgotten, WorkedOnLive, Serial
<1>3. h \in [Procs -> Frame]
  BY DEF UserInv, TypeOK
<1>4. ASSUME NEW p \in Procs, NEW r \in Received, Receive(p, r)
      PROVE  GoneForgotten' /\ WorkedOnLive'
  <2>1. PICK k : k = [Idle EXCEPT !.pc = FirstStep(r.op), !.req = r, !.uid = r.uid]
    OBVIOUS
  <2>2. r.op \in {"POST", "PUT", "PATCH", "DELETE", "FIND"}
    BY ReceivedFacts DEF RequestType
  <2>3. k.pc = FirstStep(r.op)
    BY <2>1 DEF Idle
  <2>4. FirstStep(r.op) \in {"invite", "get", "delete", "lookup"}
    BY <2>2 DEF FirstStep
  <2>5. h'[p] = k /\ h[p].pc = "idle" /\ ustate' = ustate /\ map' = map
    BY <1>3, <1>4, <2>1 DEF Receive, Continue, Goes, storeVars, accountVars
  <2> QED
    BY <1>2, <2>3, <2>4, <2>5 DEF AtWork
<1>5. ASSUME NEW p \in Procs, Reject(p)
      PROVE  GoneForgotten' /\ WorkedOnLive'
  <2>1. h'[p].pc = "idle" /\ h[p].pc = "idle" /\ ustate' = ustate /\ map' = map
    BY <1>3, <1>5 DEF Reject, Answer, Reply, Idle, storeVars, accountVars
  <2> QED
    BY <1>2, <2>1 DEF AtWork
<1>6. CASE UNCHANGED vars
  BY <1>6 DEF vars, accountVars, storeVars, GoneForgotten, WorkedOnLive, HasUser
<1>7. ~ DeleteInOutline /\ ~ Restart
  BY DEF DeleteInOutline, Restart
<1> QED
  BY <1>1, <1>4, <1>5, <1>6, <1>7 DEF Next

(* Without requests that overlap a hard delete, the externalId of a deleted *)
(* account does not resolve (users.go:295-296): provided that no reply to   *)
(* the deletion is lost, the process is not killed before the entry is      *)
(* dropped, and the account is not deleted in Outline itself.               *)
THEOREM GoneUnresolvedAlone ==
  ASSUME Serial, "lost" \notin Faults, "kill" \notin Faults, DeletedInOutline = {}
  PROVE  Spec => []GoneUnresolved
<1>1. Init => UserInv /\ GoneForgotten /\ WorkedOnLive
  <2> SUFFICES ASSUME Init PROVE GoneForgotten /\ WorkedOnLive
    BY UserInitInv
  <2>1. \A p \in Procs : h[p].pc = "idle"
    BY DEF Init, Idle
  <2> QED
    BY <2>1 DEF Init, GoneForgotten, WorkedOnLive, AtWork
<1>2. UserInv /\ GoneForgotten /\ WorkedOnLive /\ [Next]_vars
        => UserInv' /\ GoneForgotten' /\ WorkedOnLive'
  BY NextKeepsInv, GoneNext
<1>3. GoneForgotten => GoneUnresolved
  BY DEF GoneForgotten, GoneUnresolved
<1> QED
  BY <1>1, <1>2, <1>3, PTL DEF Spec
=============================================================================
