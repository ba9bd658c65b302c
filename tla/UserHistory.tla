----------------------------- MODULE UserHistory -----------------------------
(***************************************************************************)
(* What a 2xx answer about a user is worth when requests overlap: the      *)
(* handlers of ScimUsers run unchanged next to a history of which of the   *)
(* attributes a request asks for its account has had since the request was *)
(* received.  The handlers decide what to change from replies that may be  *)
(* several calls old (users.go:215-232).                                   *)
(***************************************************************************)
EXTENDS ScimUsers

VARIABLE held     \* held[p]: the attributes the account of p has had as asked

hvars == <<vars, held>>

Attributes == {"name", "state", "ext"}

\* A POST neither renames for certain nor activates.
Wanted(r) ==
  {a \in Attributes :
     \/ a = "name" /\ r.name # "" /\ r.op # "POST"
     \/ a = "state" /\ r.active = "no"
     \/ a = "state" /\ r.active = "yes" /\ r.op # "POST"
     \/ a = "ext" /\ r.ext # ""}

Holds(a, r, u) ==
  \/ a = "name" /\ name[u] = r.name
  \/ a = "state" /\ r.active = "no" /\ ustate[u] = "suspended"
  \/ a = "state" /\ r.active = "yes" /\ ustate[u] = "active"
  \/ a = "ext" /\ map[u] = r.ext

\* The attributes the account of a handler has as its request asks for them.
Had(f) == IF f.uid = "" THEN {} ELSE {a \in Attributes : Holds(a, f.req, f.uid)}

HInit == Init /\ held = [p \in Procs |-> {}]

Record ==
  held' = [p \in Procs |-> IF h'[p].pc = "idle" THEN {}
                           ELSE held[p] \cup Had(h[p])']

HNext == Next /\ Record

HSpec == HInit /\ [][HNext]_hvars

-----------------------------------------------------------------------------
(* A POST, PUT or PATCH of a user that is answered with success: whatever   *)
(* overlapped it, each attribute it asks for, the externalId in the mapping *)
(* included, was the account's at some moment since the request was         *)
(* received.  An overlapping request may have taken it back since, even     *)
(* between the store call and the read of the store for the answer, and     *)
(* they need not all have been its own at once (users.go:39-51, 103-129,    *)
(* 215-235 and 256-278).                                                    *)
EachHeld ==
  [][\A p \in Procs :
       Succeeds(p) /\ Writes(h[p]) => Wanted(h[p].req) \subseteq held[p]]_hvars

(* What makes it so: past its last reply about the name such a handler has  *)
(* seen the name, what it last saw of the account's state was so since the  *)
(* request was received, and past its store call it has seen the entry.     *)
CurSeen(f, seen) ==
  f.req.active = (IF f.cur.suspended THEN "no" ELSE "yes") => "state" \in seen

Seen(f, seen) ==
  Writes(f) =>
    /\ f.pc \in {"suspend", "activate", "store", "answer"} =>
         ("name" \in Wanted(f.req) => "name" \in seen)
    /\ f.pc = "rename" => CurSeen(f, seen)
    /\ f.pc = "suspend" => f.req.active = "no"
    /\ f.pc = "activate" => f.req.active = "yes"
    /\ f.pc \in {"store", "answer"} => ("state" \in Wanted(f.req) => "state" \in seen)
    /\ f.pc = "answer" => ("ext" \in Wanted(f.req) => "ext" \in seen)

HeldInv == UserInv /\ \A p \in Procs : Seen(h[p], held[p])
=============================================================================
