------------------------------ MODULE ExtIdSaved ------------------------------
(***************************************************************************)
(* What an ok of the store is worth: FileStore runs unchanged next to a    *)
(* history of failed saves.  A save that fails leaves the new mapping in   *)
(* memory (store.go:81-89), and the file behind it until a later save or a *)
(* restart brings the two together again.                                  *)
(***************************************************************************)
EXTENDS ExtIdStore

VARIABLE stale      \* a caller's save has failed, and none has succeeded since

svars == <<vars, stale>>

SInit == Init /\ stale = FALSE

CallerFails == \E p \in Procs : pc[p] # "idle" /\ result'[p] = "error"
CallerSaves == \E p \in Procs : pc[p] # "idle" /\ result'[p] = "ok"

SNext ==
  /\ Next
  /\ stale' = (CallerFails \/ (stale /\ ~ CallerSaves /\ server' = "up"))

SSpec == SInit /\ [][SNext]_svars

-----------------------------------------------------------------------------
(* What is in memory is in the file whenever nobody saves, unless a save    *)
(* has failed and none has succeeded since; and what a saver was called for *)
(* is in memory (store.go:73-103).                                          *)
MemoryIsSaved ==
  /\ server = "up" /\ lock = "" /\ ~ stale => file = byID
  /\ \A p \in Procs : pc[p] # "idle" =>
       req[p] \in Calls /\ byID[req[p].id] = req[p].ext

(* A handler that is told ok has its mapping in the file (store.go:73-76),  *)
(* wherever process and machine stop, except while an earlier save has      *)
(* failed and none has succeeded since.  A call that saves, itself, is      *)
(* never excepted.                                                          *)
OkUnlessStale ==
  [][\A p \in Procs :
       result'[p] = "ok" /\ (result[p] # "ok" \/ req'[p] # req[p]) =>
         stale' \/ (file' \in Mapping /\ file'[req'[p].id] = req'[p].ext)]_svars
=============================================================================
