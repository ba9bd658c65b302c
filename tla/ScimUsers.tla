------------------------------ MODULE ScimUsers ------------------------------
(***************************************************************************)
(* The /Users handlers of internal/scim/users.go, with the externalId      *)
(* store they share.  A handler is a goroutine; each Outline call and each *)
(* store call is one step, so requests interleave between any two of them. *)
(* The store is the mapping that ExtIdMap specifies and ExtIdStore         *)
(* implements: map in memory, file as a restart will read it.  GET by id   *)
(* and lists without an externalId filter change nothing and are left out. *)
(***************************************************************************)
EXTENDS OutlineAccounts, ScimPatch

CONSTANTS
  Exts,             \* SCIM externalIds
  Procs,            \* requests served at the same time
  Requests,         \* the requests clients may send
  DeleteModes,      \* the values HARD_DELETE_USERS may be given
  Faults,           \* subset of {"refused", "lost", "save", "kill"}
  DeletedInOutline  \* accounts that administrators may delete in Outline

ASSUME NoNameAssumption == "" \notin UserIds \cup Emails \cup Names \cup Exts

ASSUME ModeAssumption == DeleteModes \subseteq BOOLEAN

UserOp ==
  [op : OpNames, name : SUBSET Names, active : SUBSET {"yes", "no"}, ext : SUBSET Exts]

RequestType ==
  [op : {"POST", "PUT", "PATCH", "DELETE", "FIND"},
   uid : UserIds \cup {""},
   email : Emails \cup {""},
   name : Names \cup {""},
   active : {"yes", "no", ""},
   ext : Exts \cup {""},
   ops : Seq(UserOp)]

\* A POST without a name gets its address for a name; PUT defaults active.
ASSUME RequestsAssumption ==
  /\ Requests \subseteq RequestType
  /\ \A r \in Requests :
       CASE r.op = "POST" -> r.email # "" /\ r.name # ""
         [] r.op = "FIND" -> r.ext # ""
         [] r.op = "PUT" -> r.uid # "" /\ r.active # ""
         [] OTHER -> r.uid # ""

(* A PATCH comes as operations, and is worked on as what they reduce to;    *)
(* none is carried out when one of them is refused.                         *)
Reduced(r, n, a, x) == [r EXCEPT !.name = n, !.active = a, !.ext = x]

Reductions(r) ==
  {Reduced(r, n, a, x) :
     n \in NamesGiven(r.ops), a \in StatesGiven(r.ops), x \in ExtsGiven(r.ops)}

Rejected(r) == r.op = "PATCH" /\ Refused(r.ops)

Decoded(r) == IF r.op = "PATCH" THEN Reductions(r) ELSE {r}

Received == UNION {Decoded(r) : r \in {q \in Requests : ~ Rejected(q)}}

VARIABLES
  h,            \* h[p]: the locals of the handler running in p
  status,       \* status[p]: the last answer p gave
  hardDelete,   \* HARD_DELETE_USERS of the running process
  map,          \* map[u]: the externalId of u in memory, or ""
  file          \* the mapping a restart reads

storeVars == <<map, file>>
vars == <<accountVars, h, status, hardDelete, storeVars>>

Store == INSTANCE ExtIdMap WITH Ids <- UserIds, saved <- {file}

Steps == {"idle", "invite", "adopt", "get", "rename", "suspend", "activate", "store",
          "answer", "delete", "forget", "lookup", "resolve"}

NoRequest == [op |-> "", uid |-> "", email |-> "", name |-> "", active |-> "", ext |-> "",
              ops |-> <<>>]

Idle == [pc |-> "idle", req |-> NoRequest, uid |-> "",
         cur |-> [name |-> "", suspended |-> FALSE]]

Frame == [pc : Steps, req : Received \cup {NoRequest}, uid : UserIds \cup {""},
          cur : [name : Names \cup {""}, suspended : BOOLEAN]]

Answers == {"none", "ok", "empty", "badRequest", "notFound", "conflict", "upstream", "storeError"}

(* Accounts, handlers, answers and the two copies of the mapping have their *)
(* types.                                                                   *)
TypeOK ==
  /\ AccountsTypeOK
  /\ h \in [Procs -> Frame]
  /\ status \in [Procs -> Answers]
  /\ hardDelete \in DeleteModes
  /\ map \in Store!Mapping /\ file \in Store!Mapping

Init ==
  /\ ustate = [u \in UserIds |-> "absent"]
  /\ email = [u \in UserIds |-> ""] /\ name = [u \in UserIds |-> ""]
  /\ h = [p \in Procs |-> Idle]
  /\ status = [p \in Procs |-> "none"]
  /\ hardDelete \in DeleteModes
  /\ map = Store!Empty /\ file = Store!Empty

-----------------------------------------------------------------------------
(* Answers and calls *)

Reply(p, s) ==
  /\ h' = [h EXCEPT ![p] = Idle]
  /\ status' = [status EXCEPT ![p] = s]

Answer(p, s) == Reply(p, s) /\ UNCHANGED storeVars

Goes(p, f) ==
  /\ h' = [h EXCEPT ![p] = f]
  /\ UNCHANGED status

Continue(p, f) == Goes(p, f) /\ UNCHANGED storeVars

(* A call to Outline: carried out; on an account that is not there; refused *)
(* or lost on its way; or carried out with its reply lost.                  *)
Call(p, found, effect, after, missing, failed) ==
  \/ found /\ effect /\ after
  \/ ~ found /\ UNCHANGED accountVars /\ missing
  \/ "refused" \in Faults /\ UNCHANGED accountVars /\ failed
  \/ "lost" \in Faults /\ found /\ effect /\ failed

\* The call almost every step makes: about a user, any failure ends the request.
UserCall(p, effect, after) ==
  Call(p, HasUser(h[p].uid), effect, after, Answer(p, "notFound"), Answer(p, "upstream"))

FirstStep(op) ==
  CASE op = "POST" -> "invite"
    [] op \in {"PUT", "PATCH"} -> "get"
    [] op = "DELETE" -> "delete"
    [] op = "FIND" -> "lookup"

Receive(p, r) ==
  /\ h[p].pc = "idle"
  /\ Continue(p, [Idle EXCEPT !.pc = FirstStep(r.op), !.req = r, !.uid = r.uid])
  /\ UNCHANGED accountVars

Reject(p) ==
  /\ h[p].pc = "idle"
  /\ \E r \in Requests : Rejected(r)
  /\ Answer(p, "badRequest")
  /\ UNCHANGED accountVars

-----------------------------------------------------------------------------
(* The way through POST, PUT and PATCH once the account is known *)

\* A mutant of AfterRename: a PUT or PATCH takes the account for active.
AfterRenameActive(f) ==
  IF f.req.active = "no" THEN "suspend" ELSE "store"

(* A POST suspends but never activates.                                     *)
AfterRename(f) ==
  CASE f.req.active = "no" /\ ~ f.cur.suspended -> "suspend"
    [] f.req.active = "yes" /\ f.cur.suspended /\ f.req.op # "POST" -> "activate"
    [] OTHER -> "store"

\* A mutant of AfterGet: nothing but the name is looked at.
AfterGetName(f) == IF f.req.name \notin {"", f.cur.name} THEN "rename" ELSE "store"

AfterGet(f) ==
  IF f.req.name \notin {"", f.cur.name} THEN "rename" ELSE AfterRename(f)

\* The locals of f after a reply about user u.
Known(f, u) == [f EXCEPT !.uid = u, !.cur = Reported(u)]

GoOn(p, f, step) == Continue(p, [f EXCEPT !.pc = step])

-----------------------------------------------------------------------------
(* POST /Users: invite, or adopt the account that has the address *)

Invite(p) ==
  LET r == h[p].req
  IN /\ h[p].pc = "invite"
     /\ \/ WithEmail(r.email) = {} /\ \E u \in FreshIds :
             Call(p, TRUE, InviteUser(u, r.email, r.name),
                  LET f == Known(h[p], u) IN GoOn(p, f, AfterRename(f)),
                  FALSE, Answer(p, "upstream"))
        \/ WithEmail(r.email) # {} /\
             Call(p, TRUE, UNCHANGED accountVars, GoOn(p, h[p], "adopt"),
                  FALSE, Answer(p, "upstream"))

Adopt(p) ==
  LET known == WithEmail(h[p].req.email)
  IN /\ h[p].pc = "adopt"
     /\ Call(p, known # {}, UNCHANGED accountVars,
             \E u \in known : LET f == Known(h[p], u) IN GoOn(p, f, AfterGet(f)),
             Answer(p, "conflict"), Answer(p, "upstream"))

-----------------------------------------------------------------------------
(* PUT and PATCH /Users/{id} *)

Get(p) ==
  /\ h[p].pc = "get"
  /\ UserCall(p, UNCHANGED accountVars,
              LET f == Known(h[p], h[p].uid) IN GoOn(p, f, AfterGet(f)))

(* A POST goes on when the new name is not taken: provisioning matters more.*)
Rename(p) ==
  LET f == h[p]
      g == Known(f, f.uid)
      onError(s) == IF f.req.op = "POST" THEN GoOn(p, f, AfterRename(f)) ELSE Answer(p, s)
  IN /\ f.pc = "rename"
     /\ Call(p, HasUser(f.uid), UpdateUserName(f.uid, f.req.name),
             GoOn(p, g, AfterRename(g)), onError("notFound"), onError("upstream"))

Suspend(p) ==
  /\ h[p].pc = "suspend"
  /\ UserCall(p, SuspendUser(h[p].uid), GoOn(p, Known(h[p], h[p].uid), "store"))

Activate(p) ==
  /\ h[p].pc = "activate"
  /\ UserCall(p, ActivateUser(h[p].uid), GoOn(p, Known(h[p], h[p].uid), "store"))

-----------------------------------------------------------------------------
(* The store.  A call that changes nothing does not save; one whose save    *)
(* fails has changed the memory all the same.                               *)

Stored(m) ==
  \/ m = map /\ UNCHANGED storeVars
  \/ m # map /\ map' = m /\ file' = m

NotStored(m) == m # map /\ "save" \in Faults /\ map' = m /\ UNCHANGED file

StoreExternalId(p) ==
  LET f == h[p]
      m == IF map[f.uid] = f.req.ext THEN map ELSE Store!Assigned(map, f.uid, f.req.ext)
  IN /\ f.pc = "store"
     /\ UNCHANGED accountVars
     /\ \/ f.req.ext = "" /\ GoOn(p, f, "answer")
        \/ f.req.ext # "" /\ Stored(m) /\ Goes(p, [f EXCEPT !.pc = "answer"])
        \/ f.req.ext # "" /\ NotStored(m) /\ Reply(p, "storeError")

(* The answer shows the account as it was last reported, cur, and the       *)
(* externalId it has by now: the store is read once more.                   *)
Represent(p) ==
  /\ h[p].pc = "answer"
  /\ UNCHANGED accountVars
  /\ Answer(p, "ok")

(* The entry goes; a save that fails is only logged, if that.               *)
DropEntry(p, s) ==
  LET m == Store!Dropped(map, h[p].uid)
  IN (Stored(m) \/ NotStored(m)) /\ Reply(p, s)

-----------------------------------------------------------------------------
(* DELETE /Users/{id} *)

\* A mutant of DeleteUserCall: the entry is dropped after a suspension, too.
DeleteAlwaysForgets(p) ==
  /\ h[p].pc = "delete"
  /\ UserCall(p, IF hardDelete THEN DeleteUser(h[p].uid) ELSE SuspendUser(h[p].uid),
              GoOn(p, h[p], "forget"))

DeleteUserCall(p) ==
  /\ h[p].pc = "delete"
  /\ IF hardDelete
     THEN UserCall(p, DeleteUser(h[p].uid), GoOn(p, h[p], "forget"))
     ELSE UserCall(p, SuspendUser(h[p].uid), Answer(p, "ok"))

Forget(p) ==
  /\ h[p].pc = "forget"
  /\ UNCHANGED accountVars
  /\ DropEntry(p, "ok")

-----------------------------------------------------------------------------
(* GET /Users?filter=externalId eq *)

Lookup(p) ==
  LET known == {u \in UserIds : map[u] = h[p].req.ext}
  IN /\ h[p].pc = "lookup"
     /\ UNCHANGED accountVars
     /\ \/ known = {} /\ Answer(p, "empty")
        \/ \E u \in known : Continue(p, [h[p] EXCEPT !.pc = "resolve", !.uid = u])

ShowFound(p) == GoOn(p, Known(h[p], h[p].uid), "answer")

\* A mutant of Resolve: the entry of a deleted account stays.
ResolveKeepsEntry(p) ==
  /\ h[p].pc = "resolve"
  /\ Call(p, HasUser(h[p].uid), UNCHANGED accountVars, ShowFound(p),
          Answer(p, "empty"), Answer(p, "upstream"))

\* A mutant of Resolve: any failure counts as "deleted in Outline".
ResolveDropsOnError(p) ==
  /\ h[p].pc = "resolve"
  /\ Call(p, HasUser(h[p].uid), UNCHANGED accountVars, ShowFound(p),
          DropEntry(p, "empty"), DropEntry(p, "empty"))

(* An entry whose account is gone is dropped on the way. *)
Resolve(p) ==
  /\ h[p].pc = "resolve"
  /\ Call(p, HasUser(h[p].uid), UNCHANGED accountVars, ShowFound(p),
          DropEntry(p, "empty"), Answer(p, "upstream"))

-----------------------------------------------------------------------------
(* Administrators and restarts *)

DeleteInOutline ==
  /\ \E u \in DeletedInOutline : HasUser(u) /\ DeleteUser(u)
  /\ UNCHANGED <<h, status, storeVars>>

(* The configuration is read again. *)
Restart ==
  /\ "kill" \in Faults
  /\ map' = file /\ hardDelete' \in DeleteModes
  /\ h' = [p \in Procs |-> Idle] /\ status' = [p \in Procs |-> "none"]
  /\ UNCHANGED <<accountVars, file>>

Step(p) ==
  \/ Invite(p)   \/ Adopt(p)    \/ Get(p)              \/ Rename(p)
  \/ Suspend(p)  \/ Activate(p) \/ StoreExternalId(p)    \/ Represent(p)
  \/ DeleteUserCall(p)          \/ Forget(p)
  \/ Lookup(p)   \/ Resolve(p)

Next ==
  \/ /\ \/ \E p \in Procs : Step(p)
        \/ \E p \in Procs, r \in Received : Receive(p, r)
        \/ \E p \in Procs : Reject(p)
        \/ DeleteInOutline
     /\ UNCHANGED hardDelete
  \/ Restart

Spec == Init /\ [][Next]_vars

-----------------------------------------------------------------------------
(* Properties *)

\* Requests are served one at a time.
Serial == \A p, q \in Procs : p = q

Writes(f) == f.req.op \in {"POST", "PUT", "PATCH"}

Succeeds(p) == h[p].pc # "idle" /\ h'[p].pc = "idle" /\ status'[p] \in {"ok", "empty"}

Stays(u) == ustate'[u] \in {"active", "suspended"}

Asked(r, u) ==
  /\ Stays(u) /\ r.name # "" /\ r.op # "POST" => name'[u] = r.name
  /\ Stays(u) /\ r.active = "no" => ustate'[u] = "suspended"
  /\ Stays(u) /\ r.active = "yes" /\ r.op # "POST" => ustate'[u] = "active"
  /\ r.ext # "" => map'[u] = r.ext

StepsOf(op) ==
  CASE op = "POST" -> {"invite", "adopt", "rename", "suspend", "store", "answer"}
    [] op \in {"PUT", "PATCH"} -> {"get", "rename", "suspend", "activate", "store", "answer"}
    [] op = "DELETE" -> {"delete", "forget"}
    [] op = "FIND" -> {"lookup", "resolve", "answer"}

(* A handler stays on the path of its own operation, knows its account from *)
(* the step on that needs it, and drops an entry as that of a deleted       *)
(* account only when the account is.                                        *)
OnTrack ==
  \A p \in Procs :
    h[p].pc # "idle" =>
      /\ h[p].req \in Received
      /\ h[p].pc \in StepsOf(h[p].req.op)
      /\ h[p].pc \notin {"invite", "adopt", "lookup"} => h[p].uid \in UserIds
      /\ h[p].pc = "forget" => ustate[h[p].uid] = "deleted"

(* Whatever overlaps, fails or is killed, the handlers have their types and *)
(* stay on track, and no externalId is that of two accounts, in memory or   *)
(* in the file (store.go:16-18).                                            *)
UserInv ==
  /\ TypeOK
  /\ OnTrack
  /\ Store!OneToOne(map) /\ Store!OneToOne(file)

Gone(u) == IF hardDelete THEN ustate'[u] = "deleted" /\ map'[u] = ""
                         ELSE ~ (ustate'[u] = "active") /\ map'[u] = map[u]

\* The answer shows the account as it is, unless it was deleted in Outline.
\* A POST whose rename failed may show the old name of an account it renamed.
Shown(f) ==
  Stays(f.uid) =>
    /\ f.cur.suspended <=> ustate'[f.uid] = "suspended"
    /\ f.req.op # "POST" => f.cur.name = name'[f.uid]

\* FIND: what it names is there; what it does not name is not, and stays gone.
Found(f, s) ==
  IF s = "ok" THEN /\ f.uid \notin DeletedInOutline => Stays(f.uid)
                   /\ map'[f.uid] = f.req.ext
                   /\ Shown(f)
  ELSE \A v \in UserIds : map'[v] # f.req.ext

Promise(f, s) ==
  CASE f.req.op = "DELETE" -> Gone(f.uid)
    [] f.req.op = "FIND" -> Found(f, s)
    [] f.req.op = "POST" -> email'[f.uid] = f.req.email /\ Asked(f.req, f.uid) /\ Shown(f)
    [] OTHER -> Asked(f.req, f.uid) /\ Shown(f)

\* What the handler was told of its account is still so.
SeenDue(f) ==
  f.pc \in {"rename", "suspend", "activate", "store", "answer"} =>
    /\ f.req.op = "POST" => email[f.uid] = f.req.email
    /\ HasUser(f.uid) =>
         /\ f.cur.suspended <=> ustate[f.uid] = "suspended"
         /\ f.req.op # "POST" => f.cur.name = name[f.uid]

NameDue(f) ==
  Writes(f) /\ f.pc \in {"suspend", "activate", "store", "answer"} =>
    (f.req.op # "POST" /\ f.req.name # "" /\ HasUser(f.uid) => name[f.uid] = f.req.name)

StateDue(f) ==
  /\ f.pc = "suspend" => f.req.active = "no"
  /\ f.pc = "activate" => f.req.active = "yes"
  /\ Writes(f) /\ f.pc \in {"store", "answer"} /\ HasUser(f.uid) =>
       /\ f.req.active = "no" => ustate[f.uid] = "suspended"
       /\ f.req.active = "yes" /\ f.req.op # "POST" => ustate[f.uid] = "active"

EntryDue(f) ==
  /\ f.pc = "forget" => hardDelete
  /\ f.pc \in {"resolve", "answer"} /\ f.req.ext # "" => map[f.uid] = f.req.ext
  /\ f.req.op = "FIND" /\ f.pc = "answer" =>
       (f.uid \notin DeletedInOutline => HasUser(f.uid))

Due(f) == SeenDue(f) /\ NameDue(f) /\ StateDue(f) /\ EntryDue(f)

(* Requests served one at a time: on whatever way a handler came to a step, *)
(* with calls lost or refused and accounts deleted in Outline meanwhile,    *)
(* all the earlier steps owe the request is already so: the account is the  *)
(* one with the address, it has the name by the time its state is changed   *)
(* and the state by the time its externalId is stored, and what the answer  *)
(* will show of it is so (users.go:95-125, 214-233, 256-277).               *)
AccountDue == \A p \in Procs : Due(h[p])

(* Requests served one at a time: a 2xx answer means the account and the    *)
(* mapping are what the request asked for and what the answer shows,        *)
(* whatever earlier requests left half done: an invite whose reply was lost *)
(* is adopted, a stale entry is healed (README.md:75-81 and 110-112).       *)
UserAnswerHolds ==
  [][\A p \in Procs : Succeeds(p) => Promise(h[p], status'[p])]_vars

(* An account in Outline keeps its externalId, suspended or not, unless     *)
(* another account is given the same one: no other request, no failed call  *)
(* and no restart removes the entry of a live account (README.md:80-81,     *)
(* users.go:165-168), though the entry is dropped calls after it was read.  *)
LiveEntriesKept ==
  [][\A u \in UserIds :
       Stays(u) /\ map[u] # "" /\ map'[u] = "" =>
         \E v \in UserIds \ {u} : map'[v] = map[u]]_vars

(* The externalId of an account that was deleted must not resolve anymore   *)
(* (users.go:295-296).                                                      *)
GoneUnresolved ==
  (\A p \in Procs : h[p].pc = "idle") =>
    \A u \in UserIds : ustate[u] = "deleted" => map[u] = ""
=============================================================================
