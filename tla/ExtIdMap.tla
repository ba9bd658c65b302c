------------------------------- MODULE ExtIdMap -------------------------------
(***************************************************************************)
(* What internal/extid promises the handlers: a 1:1 mapping from Outline   *)
(* user ids to SCIM externalIds that survives a restart, up to the changes *)
(* that had not reached the disk.                                          *)
(***************************************************************************)
CONSTANTS
  Ids,    \* Outline user ids
  Exts    \* SCIM externalIds; "" is none of them: "no externalId"

VARIABLES
  map,    \* map[i]: the externalId of i, or ""
  saved   \* the mappings a restart may come back with

mvars == <<map, saved>>

Mapping == [Ids -> Exts \cup {""}]
Empty == [i \in Ids |-> ""]

OneToOne(m) == \A i, j \in Ids : m[i] = m[j] /\ m[i] # "" => i = j

\* A mutant of Assigned: two users may have the same externalId.
AssignedToBoth(m, id, ext) == [m EXCEPT ![id] = ext]

(* Assigning an externalId to a user takes it from any other user. *)
Assigned(m, id, ext) ==
  [i \in Ids |-> CASE i = id -> ext
                   [] i # id /\ m[i] = ext -> ""
                   [] OTHER -> m[i]]

Dropped(m, id) == [m EXCEPT ![id] = ""]

MInit == map = Empty /\ saved = {Empty}

Assign(id, ext) == map' = Assigned(map, id, ext) /\ UNCHANGED saved

Drop(id) == map' = Dropped(map, id) /\ UNCHANGED saved

(* The present mapping reaches the file. *)
Save == saved' = saved \cup {map} /\ UNCHANGED map

(* The disk commits to some of the mappings it has been given. *)
Commit == saved' \in (SUBSET saved) \ {{}} /\ UNCHANGED map

Restart == saved' \in SUBSET saved /\ map' \in saved'

MNext ==
  \/ \E id \in Ids, ext \in Exts : Assign(id, ext)
  \/ \E id \in Ids : Drop(id)
  \/ Save
  \/ Commit
  \/ Restart

MSpec == MInit /\ [][MNext]_mvars

(* The mapping, and every mapping a restart may bring back, is 1:1. *)
AlwaysOneToOne == OneToOne(map) /\ \A m \in saved : OneToOne(m)
=============================================================================
