------------------------------ MODULE ScimPatch ------------------------------
(***************************************************************************)
(* internal/scim/patch.go and groupAttrPatch of groups.go: what a PATCH    *)
(* asks for, reduced from its list of operations before any of them is     *)
(* carried out.  An operation is a record: op names the operation, path    *)
(* says whether it is about the members, ids are the members its value or  *)
(* its value filter lists, and every attribute has the set of the values   *)
(* given to it, more than one when a path-less value has two keys for one  *)
(* attribute.  "other" is every operation that is refused: an op that is   *)
(* not supported, a value or a filter that cannot be decoded.              *)
(***************************************************************************)
EXTENDS Naturals, Sequences

OpNames == {"add", "replace", "remove", "other"}

Paths == {"members", ""}

-----------------------------------------------------------------------------
(* Attributes: the last operation that gives one wins *)

Latest(I) == {i \in I : \A j \in I : j <= i}

(* Go visits the keys of a path-less value in any order, so that each of    *)
(* the values such an operation gives may be the one that stays.            *)
LastGiven(given) ==
  LET I == {i \in DOMAIN given : given[i] # {}}
  IN IF I = {} THEN {""} ELSE UNION {given[i] : i \in Latest(I)}

Assigns(op) == op.op \in {"add", "replace"}

NamesGiven(ops) == LastGiven([i \in DOMAIN ops |-> IF Assigns(ops[i]) THEN ops[i].name ELSE {}])
ExtsGiven(ops) == LastGiven([i \in DOMAIN ops |-> IF Assigns(ops[i]) THEN ops[i].ext ELSE {}])
StatesGiven(ops) == LastGiven([i \in DOMAIN ops |-> IF Assigns(ops[i]) THEN ops[i].active ELSE {}])

Refused(ops) == \E i \in DOMAIN ops : ops[i].op = "other"

-----------------------------------------------------------------------------
(* Members: one replacement makes the additions and removals void *)

MemberOps(ops) == {i \in DOMAIN ops : ops[i].path = "members"}

\* A remove that lists nobody removes everybody.
Replaces(op) == op.op = "replace" \/ (op.op = "remove" /\ op.ids = {})

Replacements(ops) == {i \in MemberOps(ops) : Replaces(ops[i])}

\* A mutant of Edit: additions and removals are kept beside a replacement.
EditDeltas(ops) == IF \E i \in MemberOps(ops) : ops[i].op = "other" THEN "invalid" ELSE "delta"

Edit(ops) ==
  CASE \E i \in MemberOps(ops) : ops[i].op = "other" -> "invalid"
    [] ~ (\E i \in MemberOps(ops) : ops[i].op = "other") /\ Replacements(ops) # {} -> "replace"
    [] OTHER -> "delta"

Listed(ops, op) == UNION {ops[i].ids : i \in {j \in MemberOps(ops) : ops[j].op = op}}

\* A mutant of MembersWanted: the first replacement counts.
MembersWantedFirst(ops) ==
  IF Replacements(ops) = {} THEN Listed(ops, "add")
  ELSE UNION {ops[i].ids : i \in {j \in Replacements(ops) : \A k \in Replacements(ops) : j <= k}}

MembersWanted(ops) ==
  IF Replacements(ops) = {} THEN Listed(ops, "add")
  ELSE UNION {ops[i].ids : i \in Latest(Replacements(ops))}

-----------------------------------------------------------------------------
(* The operations one after another (RFC 7644, 3.5.2), as a reference: what *)
(* the last operation that concerns a user makes of that user.              *)

Gives(op, u) == Assigns(op) /\ u \in op.ids
Takes(op, u) == \/ op.op = "remove" /\ (op.ids = {} \/ u \in op.ids)
                \/ op.op = "replace" /\ u \notin op.ids

MadeMember(ops, u) ==
  \E i \in MemberOps(ops) :
    Gives(ops[i], u) /\ \A j \in MemberOps(ops) : j > i => ~ Takes(ops[j], u)

MadeStranger(ops, u) ==
  \E i \in MemberOps(ops) :
    Takes(ops[i], u) /\ \A j \in MemberOps(ops) : j > i => ~ Gives(ops[j], u)

(* Nothing is added to or removed from a replacement, nobody is removed and *)
(* then added: elsewhere the reduction is not the operations in order.      *)
InOrder(ops) ==
  \A i, j \in MemberOps(ops) : i < j =>
    /\ Replaces(ops[i]) => Replaces(ops[j])
    /\ ops[i].op = "remove" /\ ops[j].op = "add" => ops[i].ids \cap ops[j].ids = {}
=============================================================================
