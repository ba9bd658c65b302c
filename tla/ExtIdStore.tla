------------------------------ MODULE ExtIdStore ------------------------------
(***************************************************************************)
(* internal/extid/store.go: the FileStore with its two maps, its lock and  *)
(* the temp file, fsync and rename of every save.  Handlers call Set and   *)
(* Delete at the same time; the process may be killed and the machine may  *)
(* lose power between any two steps, and any step of a save may fail.      *)
(* Get and Lookup only read, under the read lock, and are left out.        *)
(***************************************************************************)
CONSTANTS
  Ids,        \* Outline user ids
  Exts,       \* SCIM externalIds
  Procs,      \* the goroutines that call the store
  NoFile,     \* what a path names that nothing was written to
  Torn,       \* the content of a file that was cut short
  Failures    \* what may go wrong: subset of {"error", "kill", "power"}

ASSUME NamesAssumption ==
  "" \notin Ids \cup Exts \cup Procs /\ "main" \notin Procs

Mapping == [Ids -> Exts \cup {""}]

ASSUME ContentsAssumption ==
  NoFile \notin Mapping /\ Torn \notin Mapping /\ NoFile # Torn

VARIABLES
  server,     \* "down", "opening" or "up"
  lock,       \* who holds mu for writing, "" for nobody; main while it opens
  byID,       \* byID[i]: the externalId of i, or ""
  byExt,      \* byExt[e]: the id with externalId e, or ""
  pc,         \* pc[s]: where in save the caller s is
  temp,       \* temp[s]: the temp file of s
  file,       \* what the path names
  disk,       \* what the path may name after a power loss
  req,        \* req[p]: the last call of p
  result      \* result[p]: what that call returned

vars == <<server, lock, byID, byExt, pc, temp, file, disk, req, result>>

Empty == [i \in Ids |-> ""]

Savers == Procs \cup {"main"}
Temp == [content : Mapping, synced : BOOLEAN]
NoTemp == [content |-> Empty, synced |-> FALSE]

Calls == [op : {"set", "delete"}, id : Ids, ext : Exts \cup {""}]
NoCall == [op |-> "none", id |-> "", ext |-> ""]

(* The maps, the files and the callers have their types. *)
TypeOK ==
  /\ server \in {"down", "opening", "up"}
  /\ lock \in Savers \cup {""}
  /\ byID \in Mapping
  /\ byExt \in [Exts -> Ids \cup {""}]
  /\ pc \in [Savers -> {"idle", "write", "sync", "rename"}]
  /\ temp \in [Savers -> Temp]
  /\ file \in Mapping \cup {NoFile, Torn}
  /\ disk \subseteq Mapping \cup {NoFile, Torn}
  /\ req \in [Procs -> Calls \cup {NoCall}]
  /\ result \in [Procs -> {"none", "ok", "error"}]

Init ==
  /\ server = "down" /\ lock = ""
  /\ byID = Empty /\ byExt = [e \in Exts |-> ""]
  /\ pc = [s \in Savers |-> "idle"]
  /\ temp = [s \in Savers |-> NoTemp]
  /\ file = NoFile /\ disk = {NoFile}
  /\ req = [p \in Procs |-> NoCall]
  /\ result = [p \in Procs |-> "none"]

callVars == <<req, result>>
mapVars == <<byID, byExt>>
fileVars == <<file, disk>>

-----------------------------------------------------------------------------
(* Open *)

(* The loop over byID: any of the ids with externalId e may be the last. *)
Holders(m, e) == {i \in Ids : m[i] = e}

\* A mutant of Load: byExt is not rebuilt from the file.
LoadForward ==
  /\ server = "down" /\ file \notin {NoFile, Torn}
  /\ server' = "up"
  /\ byID' = file
  /\ UNCHANGED <<byExt, lock, pc, temp, fileVars, callVars>>

Load ==
  /\ server = "down" /\ file \notin {NoFile, Torn}
  /\ server' = "up"
  /\ byID' = file
  /\ byExt' \in [Exts -> Ids \cup {""}]
  /\ \A e \in Exts : byExt'[e] \in IF Holders(file, e) = {} THEN {""} ELSE Holders(file, e)
  /\ UNCHANGED <<lock, pc, temp, fileVars, callVars>>

(* No file yet: main writes an empty one before anybody else is served. *)
OpenNew ==
  /\ server = "down" /\ file = NoFile
  /\ server' = "opening" /\ lock' = "main"
  /\ pc' = [pc EXCEPT !["main"] = "write"]
  /\ UNCHANGED <<mapVars, temp, fileVars, callVars>>

-----------------------------------------------------------------------------
(* Set and Delete, up to the call of save *)

Enter(p, call) ==
  /\ server = "up" /\ lock = "" /\ pc[p] = "idle"
  /\ req' = [req EXCEPT ![p] = call]
  /\ UNCHANGED <<server, temp, fileVars>>

GoSave(p) ==
  /\ lock' = p
  /\ pc' = [pc EXCEPT ![p] = "write"]
  /\ result' = [result EXCEPT ![p] = "none"]

NothingToDo(p) ==
  /\ result' = [result EXCEPT ![p] = "ok"]
  /\ UNCHANGED <<lock, pc, mapVars>>

SetCall(id, ext) == [op |-> "set", id |-> id, ext |-> ext]
DeleteCall(id) == [op |-> "delete", id |-> id, ext |-> ""]

\* A mutant of Set: the old holder of the externalId keeps its entry.
SetKeepsHolder(p, id, ext) ==
  /\ Enter(p, SetCall(id, ext))
  /\ \/ byID[id] = ext /\ NothingToDo(p)
     \/ /\ byID[id] # ext
        /\ byID' = [byID EXCEPT ![id] = ext]
        /\ byExt' = [e \in Exts |-> IF e = ext THEN id
                                    ELSE IF e = byID[id] THEN "" ELSE byExt[e]]
        /\ GoSave(p)

\* A mutant of Set: the "already present" test is made without the lock.
SetTestsUnlocked(p, id, ext) ==
  \/ /\ server = "up" /\ pc[p] = "idle" /\ byID[id] = ext
     /\ req' = [req EXCEPT ![p] = SetCall(id, ext)]
     /\ NothingToDo(p)
     /\ UNCHANGED <<server, temp, fileVars>>
  \/ /\ Enter(p, SetCall(id, ext)) /\ byID[id] # ext
     /\ byID' = [i \in Ids |-> CASE i = id -> ext
                                 [] i # id /\ i = byExt[ext] -> ""
                                 [] OTHER -> byID[i]]
     /\ byExt' = [e \in Exts |-> CASE e = ext -> id
                                   [] e # ext /\ e = byID[id] -> ""
                                   [] OTHER -> byExt[e]]
     /\ GoSave(p)

Set(p, id, ext) ==
  /\ Enter(p, SetCall(id, ext))
  /\ \/ byID[id] = ext /\ NothingToDo(p)
     \/ /\ byID[id] # ext
        /\ byID' = [i \in Ids |-> CASE i = id -> ext
                                    [] i # id /\ i = byExt[ext] -> ""
                                    [] OTHER -> byID[i]]
        /\ byExt' = [e \in Exts |-> CASE e = ext -> id
                                      [] e # ext /\ e = byID[id] -> ""
                                      [] OTHER -> byExt[e]]
        /\ GoSave(p)

\* A mutant of Delete: the file is left as it is.
DeleteUnsaved(p, id) ==
  /\ Enter(p, DeleteCall(id))
  /\ byID' = [byID EXCEPT ![id] = ""]
  /\ byExt' = [e \in Exts |-> IF byExt[e] = id THEN "" ELSE byExt[e]]
  /\ result' = [result EXCEPT ![p] = "ok"]
  /\ UNCHANGED <<lock, pc>>

Delete(p, id) ==
  /\ Enter(p, DeleteCall(id))
  /\ \/ byID[id] = "" /\ NothingToDo(p)
     \/ /\ byID[id] # ""
        /\ byID' = [byID EXCEPT ![id] = ""]
        /\ byExt' = [byExt EXCEPT ![byID[id]] = ""]
        /\ GoSave(p)

-----------------------------------------------------------------------------
(* save *)

WriteTemp(s) ==
  /\ pc[s] = "write"
  /\ temp' = [temp EXCEPT ![s] = [content |-> byID, synced |-> FALSE]]
  /\ pc' = [pc EXCEPT ![s] = "sync"]
  /\ UNCHANGED <<server, lock, mapVars, fileVars, callVars>>

\* A mutant of SyncTemp: the temp file is closed without an fsync.
CloseUnsynced(s) ==
  /\ pc[s] = "sync"
  /\ pc' = [pc EXCEPT ![s] = "rename"]
  /\ UNCHANGED <<server, lock, temp, mapVars, fileVars, callVars>>

SyncTemp(s) ==
  /\ pc[s] = "sync"
  /\ temp' = [temp EXCEPT ![s].synced = TRUE]
  /\ pc' = [pc EXCEPT ![s] = "rename"]
  /\ UNCHANGED <<server, lock, mapVars, fileVars, callVars>>

(* save is over: the deferred calls remove the temp file and unlock. *)
Return(s, r) ==
  /\ pc' = [pc EXCEPT ![s] = "idle"]
  /\ temp' = [temp EXCEPT ![s] = NoTemp]
  /\ lock' = ""
  /\ server' = CASE s # "main" -> server
                 [] s = "main" /\ r = "ok" -> "up"
                 [] OTHER -> "down"
  /\ result' = [p \in Procs |-> IF p = s THEN r ELSE result[p]]
  /\ UNCHANGED <<mapVars, req>>

(* What a power loss may leave of a file under its new name.  The directory *)
(* is not synced, so the old file may come back too.                        *)
Survivors(t) == {t.content} \cup IF t.synced THEN {} ELSE {Torn}

RenameTemp(s) ==
  /\ pc[s] = "rename"
  /\ file' = temp[s].content
  /\ disk' = disk \cup Survivors(temp[s])
  /\ Return(s, "ok")

(* A full disk, a missing permission, an I/O error. *)
SaveFails(s) ==
  /\ "error" \in Failures
  /\ pc[s] \in {"write", "sync", "rename"}
  /\ Return(s, "error")
  /\ UNCHANGED fileVars

-----------------------------------------------------------------------------
(* The machine *)

Flush ==
  /\ disk # {file} /\ file \in disk
  /\ disk' = {file}
  /\ UNCHANGED <<server, lock, mapVars, pc, temp, file, callVars>>

ProcessGone ==
  /\ server' = "down" /\ lock' = ""
  /\ byID' = Empty /\ byExt' = [e \in Exts |-> ""]
  /\ pc' = [s \in Savers |-> "idle"]
  /\ temp' = [s \in Savers |-> NoTemp]
  /\ req' = [p \in Procs |-> NoCall]
  /\ result' = [p \in Procs |-> "none"]

Kill ==
  /\ "kill" \in Failures /\ server # "down"
  /\ ProcessGone
  /\ UNCHANGED fileVars

PowerLoss ==
  /\ "power" \in Failures
  /\ ProcessGone
  /\ file' \in disk /\ disk' = {file'}

Next ==
  \/ Load \/ OpenNew
  \/ \E p \in Procs, id \in Ids, ext \in Exts : Set(p, id, ext)
  \/ \E p \in Procs, id \in Ids : Delete(p, id)
  \/ \E s \in Savers : WriteTemp(s) \/ SyncTemp(s) \/ RenameTemp(s) \/ SaveFails(s)
  \/ Flush \/ Kill \/ PowerLoss

Spec == Init /\ [][Next]_vars

-----------------------------------------------------------------------------
(* Properties *)

Inverse == \A i \in Ids, e \in Exts : byID[i] = e <=> byExt[e] = i

OneToOne(m) == \A i, j \in Ids : m[i] = m[j] /\ m[i] # "" => i = j

(* The mapping is 1:1 (store.go:16-18) in memory, where byExt is the        *)
(* inverse of byID between any two calls, and in every file a restart could *)
(* load, whatever was interrupted.                                          *)
MappingOneToOne ==
  /\ Inverse
  /\ \A m \in (disk \cup {file}) \ {NoFile, Torn} : OneToOne(m)

(* One caller at a time is inside the store, main while it opens; the temp  *)
(* file of a saver holds what is in memory, and reaches the disk before it  *)
(* is given the path's name.  With TypeOK, what makes the rest inductive.   *)
SaveDiscipline ==
  /\ \A s \in Savers : pc[s] # "idle" <=> lock = s
  /\ server = "opening" <=> lock = "main"
  /\ server = "down" => lock = ""
  /\ server # "up" => byID = Empty /\ byExt = [e \in Exts |-> ""]
  /\ server = "opening" => file = NoFile
  /\ file \in disk
  /\ \A s \in Savers :
       /\ pc[s] \in {"sync", "rename"} => temp[s].content = byID
       /\ pc[s] = "rename" => temp[s].synced

(* A crash mid-write never leaves a truncated file (store.go:105-106): the  *)
(* path always names a complete mapping that was once in memory, so the     *)
(* next start can load it.                                                  *)
NeverTorn == Torn \notin disk \cup {file}

StoreInv == TypeOK /\ SaveDiscipline /\ MappingOneToOne /\ NeverTorn

(* A handler is told that its mapping is stored (store.go:73-76) only when  *)
(* it is in the file, not merely in memory.                                 *)
OkIsSaved ==
  [][\A p \in Procs :
       result'[p] = "ok" /\ (result[p] # "ok" \/ req'[p] # req[p]) =>
         file' \in Mapping /\ file'[req'[p].id] = req'[p].ext]_vars

(* The store implements the mapping the handlers rely on: while the process *)
(* is down, the mapping is what the file will bring back.                   *)
AsMapping(f) == IF f = NoFile THEN Empty ELSE f

Abstract ==
  INSTANCE ExtIdMap WITH
    map <- IF server = "up" THEN byID ELSE AsMapping(file),
    saved <- {AsMapping(f) : f \in disk}

ImplementsMap == Abstract!MSpec
=============================================================================
