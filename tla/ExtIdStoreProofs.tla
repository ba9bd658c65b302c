-------------------------- MODULE ExtIdStoreProofs --------------------------
(***************************************************************************)
(* Proofs about the FileStore of ExtIdStore: StoreInv is inductive, the    *)
(* store implements ExtIdMap, and a call that returns ok has its mapping   *)
(* in the file, unless a failed save has not been made up for.             *)
(***************************************************************************)
EXTENDS ExtIdSaved, TLAPS

-----------------------------------------------------------------------------
(* What the operations do to the two maps *)

LEMMA EmptyFacts ==
  /\ Empty \in Mapping /\ OneToOne(Empty)
  /\ \A i \in Ids, e \in Exts :
       Empty[i] = e <=> [x \in Exts |-> ""][e] = i
BY NamesAssumption DEF Empty, Mapping, OneToOne

LEMMA InverseIsOneToOne ==
  ASSUME byID \in Mapping, byExt \in [Exts -> Ids \cup {""}], Inverse
  PROVE  OneToOne(byID)
<1>1. ASSUME NEW i \in Ids, NEW j \in Ids, byID[i] = byID[j], byID[i] # ""
      PROVE  i = j
  <2>1. byID[i] \in Exts
    BY <1>1 DEF Mapping
  <2>2. byExt[byID[i]] = i /\ byExt[byID[i]] = j
    BY <1>1, <2>1 DEF Inverse
  <2> QED
    BY <2>2
<1> QED
  BY <1>1 DEF OneToOne

\* The two maps after Set(id, ext) has changed them.
SetByID(id, ext) == [i \in Ids |-> CASE i = id -> ext
                                     [] i # id /\ i = byExt[ext] -> ""
                                     [] OTHER -> byID[i]]
SetByExt(id, ext) == [e \in Exts |-> CASE e = ext -> id
                                       [] e # ext /\ e = byID[id] -> ""
                                       [] OTHER -> byExt[e]]

LEMMA SetKeepsInverse ==
  ASSUME byID \in Mapping, byExt \in [Exts -> Ids \cup {""}], Inverse,
         NEW id \in Ids, NEW ext \in Exts,
         byID' = SetByID(id, ext), byExt' = SetByExt(id, ext)
  PROVE  /\ byID' \in Mapping /\ byExt' \in [Exts -> Ids \cup {""}]
         /\ Inverse'
         /\ byID'[id] = ext
<1>1. byID' \in Mapping /\ byExt' \in [Exts -> Ids \cup {""}] /\ byID'[id] = ext
  BY DEF SetByID, SetByExt, Mapping
<1>2. ASSUME NEW i \in Ids, NEW e \in Exts PROVE byID'[i] = e <=> byExt'[e] = i
  <2>1. byID[i] = e <=> byExt[e] = i
    BY DEF Inverse
  <2>2. byID[i] = ext <=> byExt[ext] = i
    BY DEF Inverse
  <2>3. byID[id] = e <=> byExt[e] = id
    BY DEF Inverse
  <2>4. i # "" /\ e # "" /\ id # ""
    BY NamesAssumption
  <2> QED
    BY <2>1, <2>2, <2>3, <2>4 DEF SetByID, SetByExt, Mapping
<1> QED
  BY <1>1, <1>2 DEF Inverse

LEMMA DeleteKeepsInverse ==
  ASSUME byID \in Mapping, byExt \in [Exts -> Ids \cup {""}], Inverse,
         NEW id \in Ids, byID[id] # "",
         byID' = [byID EXCEPT ![id] = ""], byExt' = [byExt EXCEPT ![byID[id]] = ""]
  PROVE  /\ byID' \in Mapping /\ byExt' \in [Exts -> Ids \cup {""}]
         /\ Inverse'
         /\ byID'[id] = ""
<1>1. byID' \in Mapping /\ byExt' \in [Exts -> Ids \cup {""}] /\ byID'[id] = ""
  BY DEF Mapping
<1>2. ASSUME NEW i \in Ids, NEW e \in Exts PROVE byID'[i] = e <=> byExt'[e] = i
  <2>1. byID[id] \in Exts /\ e # "" /\ i # ""
    BY NamesAssumption DEF Mapping
  <2>2. /\ byID[i] = e <=> byExt[e] = i
        /\ byID[id] = e <=> byExt[e] = id
        /\ byID[i] = byID[id] <=> byExt[byID[id]] = i
        /\ byExt[byID[id]] = id
    BY <2>1 DEF Inverse
  <2>3. CASE i = id
    BY <2>1, <2>2, <2>3 DEF Mapping
  <2>4. CASE i # id
    BY <2>1, <2>2, <2>4 DEF Mapping
  <2> QED
    BY <2>3, <2>4
<1> QED
  BY <1>1, <1>2 DEF Inverse

LEMMA LoadGivesInverse ==
  ASSUME NEW m \in Mapping, OneToOne(m), byID' = m,
         byExt' \in [Exts -> Ids \cup {""}],
         \A e \in Exts : byExt'[e] \in IF Holders(m, e) = {} THEN {""} ELSE Holders(m, e)
  PROVE  Inverse'
<1>1. ASSUME NEW i \in Ids, NEW e \in Exts PROVE byID'[i] = e <=> byExt'[e] = i
  <2>1. CASE m[i] = e
    <3>1. i \in Holders(m, e)
      BY <2>1 DEF Holders
    <3>2. byExt'[e] \in Holders(m, e)
      BY <3>1
    <3> QED
      BY <2>1, <3>2, NamesAssumption DEF Holders, OneToOne
  <2>2. CASE m[i] # e
    <3>1. i \notin Holders(m, e) /\ i # ""
      BY <2>2, NamesAssumption DEF Holders
    <3> QED
      BY <2>2, <3>1
  <2> QED
    BY <2>1, <2>2
<1> QED
  BY <1>1 DEF Inverse

-----------------------------------------------------------------------------
(* StoreInv is inductive *)

MapsTyped == byID \in Mapping /\ byExt \in [Exts -> Ids \cup {""}]

LEMMA StoreInvInit == Init => StoreInv
<1> SUFFICES ASSUME Init PROVE StoreInv
  OBVIOUS
<1>1. NoTemp \in Temp /\ Empty \in Mapping
  BY EmptyFacts DEF NoTemp, Temp
<1>2. \A s \in Savers : s # ""
  BY NamesAssumption DEF Savers
<1>3. TypeOK
  BY <1>1 DEF Init, TypeOK
<1>4. SaveDiscipline
  BY <1>2 DEF Init, SaveDiscipline
<1>5. Inverse
  BY EmptyFacts DEF Init, Inverse
<1>6. MappingOneToOne /\ NeverTorn
  BY <1>5, ContentsAssumption DEF Init, MappingOneToOne, NeverTorn
<1> QED
  BY <1>3, <1>4, <1>6 DEF StoreInv

(* A caller that found the lock free and changed the maps goes on to save. *)
LEMMA EnterAndSave ==
  ASSUME StoreInv, NEW p \in Procs, NEW call \in Calls, Enter(p, call), GoSave(p),
         MapsTyped', Inverse'
  PROVE  StoreInv'
<1> USE DEF StoreInv
<1>1. p \in Savers /\ p # "main" /\ p # "" /\ \A s \in Savers : pc[s] = "idle"
  BY NamesAssumption DEF Savers, Enter, SaveDiscipline
<1>2. TypeOK'
  <2>1. req' \in [Procs -> Calls \cup {NoCall}]
    BY DEF TypeOK, Enter
  <2>2. pc' \in [Savers -> {"idle", "write", "sync", "rename"}]
    BY DEF TypeOK, GoSave
  <2>3. result' \in [Procs -> {"none", "ok", "error"}]
    BY DEF TypeOK, GoSave
  <2>4. lock' \in Savers \cup {""}
    BY <1>1 DEF GoSave
  <2> QED
    BY <2>1, <2>2, <2>3, <2>4 DEF TypeOK, Enter, MapsTyped, fileVars
<1>3. SaveDiscipline'
  <2>1. pc' = [s \in Savers |-> IF s = p THEN "write" ELSE "idle"]
    BY <1>1 DEF TypeOK, GoSave
  <2>2. server' = "up" /\ lock' = p /\ UNCHANGED <<temp, file, disk>>
    BY DEF Enter, GoSave, fileVars
  <2> QED
    BY <1>1, <2>1, <2>2 DEF SaveDiscipline
<1>4. MappingOneToOne' /\ NeverTorn'
  BY DEF MappingOneToOne, NeverTorn, Enter, fileVars
<1> QED
  BY <1>2, <1>3, <1>4

LEMMA EnterAndReturn ==
  ASSUME StoreInv, NEW p \in Procs, NEW call \in Calls, Enter(p, call), NothingToDo(p)
  PROVE  StoreInv'
<1>1. UNCHANGED <<server, lock, byID, byExt, pc, temp, file, disk>>
  BY DEF Enter, NothingToDo, mapVars, fileVars
<1>2. /\ req' \in [Procs -> Calls \cup {NoCall}]
      /\ result' \in [Procs -> {"none", "ok", "error"}]
  BY DEF StoreInv, TypeOK, Enter, NothingToDo
<1>3. TypeOK'
  BY <1>1, <1>2 DEF StoreInv, TypeOK
<1>4. SaveDiscipline' /\ MappingOneToOne' /\ NeverTorn'
  BY <1>1 DEF StoreInv, SaveDiscipline, MappingOneToOne, Inverse, NeverTorn
<1> QED
  BY <1>3, <1>4 DEF StoreInv

LEMMA SetKeepsInv ==
  ASSUME StoreInv, NEW p \in Procs, NEW id \in Ids, NEW ext \in Exts, Set(p, id, ext)
  PROVE  StoreInv'
<1>1. SetCall(id, ext) \in Calls
  BY DEF SetCall, Calls
<1>2. CASE byID[id] = ext /\ NothingToDo(p)
  BY <1>1, <1>2, EnterAndReturn DEF Set
<1>3. CASE byID' = SetByID(id, ext) /\ byExt' = SetByExt(id, ext) /\ GoSave(p)
  <2>1. MapsTyped' /\ Inverse'
    BY <1>3, SetKeepsInverse DEF MapsTyped, StoreInv, TypeOK, MappingOneToOne
  <2> QED
    BY <1>1, <1>3, <2>1, EnterAndSave DEF Set
<1> QED
  BY <1>2, <1>3 DEF Set, SetByID, SetByExt

LEMMA DeleteKeepsInv ==
  ASSUME StoreInv, NEW p \in Procs, NEW id \in Ids, Delete(p, id)
  PROVE  StoreInv'
<1>1. DeleteCall(id) \in Calls
  BY DEF DeleteCall, Calls
<1>2. CASE NothingToDo(p)
  BY <1>1, <1>2, EnterAndReturn DEF Delete
<1>3. CASE /\ byID[id] # ""
           /\ byID' = [byID EXCEPT ![id] = ""]
           /\ byExt' = [byExt EXCEPT ![byID[id]] = ""]
           /\ GoSave(p)
  <2>1. MapsTyped' /\ Inverse'
    BY <1>3, DeleteKeepsInverse DEF MapsTyped, StoreInv, TypeOK, MappingOneToOne
  <2> QED
    BY <1>1, <1>3, <2>1, EnterAndSave DEF Delete
<1> QED
  BY <1>2, <1>3 DEF Delete

LEMMA LoadKeepsInv == StoreInv /\ Load => StoreInv'
<1> SUFFICES ASSUME StoreInv, Load PROVE StoreInv'
  OBVIOUS
<1>1. file \in Mapping /\ OneToOne(file)
  BY DEF Load, StoreInv, TypeOK, MappingOneToOne
<1>2. Inverse'
  BY <1>1, LoadGivesInverse DEF Load
<1>3. TypeOK'
  BY <1>1 DEF Load, StoreInv, TypeOK, fileVars, callVars
<1>4. SaveDiscipline'
  <2>3. \A s \in Savers : s # ""
    BY NamesAssumption DEF Savers
  <2>4. server = "down" /\ server' = "up"
    BY DEF Load
  <2>1. server' = "up" /\ lock = "" /\ \A s \in Savers : pc[s] = "idle"
    BY <2>3, <2>4 DEF StoreInv, SaveDiscipline
  <2>2. UNCHANGED <<lock, pc, temp, file, disk>>
    BY DEF Load, fileVars
  <2> QED
    BY <2>1, <2>2, <2>3 DEF StoreInv, SaveDiscipline
<1> QED
  BY <1>2, <1>3, <1>4 DEF Load, StoreInv, MappingOneToOne, NeverTorn, fileVars

LEMMA OpenNewKeepsInv == StoreInv /\ OpenNew => StoreInv'
<1> SUFFICES ASSUME StoreInv, OpenNew PROVE StoreInv'
  OBVIOUS
<1>1. "main" \in Savers /\ "main" # ""
  BY DEF Savers
<1>2. TypeOK'
  BY <1>1 DEF OpenNew, StoreInv, TypeOK, mapVars, fileVars, callVars
<1>3. SaveDiscipline'
  <2>1. file = NoFile /\ lock = "" /\ \A s \in Savers : pc[s] = "idle"
    BY NamesAssumption DEF OpenNew, StoreInv, SaveDiscipline, Savers
  <2>2. pc' = [s \in Savers |-> IF s = "main" THEN "write" ELSE "idle"]
    BY <2>1 DEF OpenNew, StoreInv, TypeOK
  <2>3. server' = "opening" /\ lock' = "main" /\ UNCHANGED <<byID, byExt, temp, file, disk>>
    BY DEF OpenNew, mapVars, fileVars
  <2>4. byID = Empty /\ byExt = [e \in Exts |-> ""] /\ file \in disk
    BY DEF OpenNew, StoreInv, SaveDiscipline
  <2> QED
    BY <1>1, <2>1, <2>2, <2>3, <2>4 DEF SaveDiscipline
<1> QED
  BY <1>2, <1>3
  DEF OpenNew, StoreInv, MappingOneToOne, Inverse, NeverTorn, mapVars, fileVars

LEMMA WriteTempKeepsInv ==
  ASSUME StoreInv, NEW s \in Savers, WriteTemp(s)
  PROVE  StoreInv'
<1>1. TypeOK'
  BY DEF WriteTemp, StoreInv, TypeOK, Temp, mapVars, fileVars, callVars
<1>2. SaveDiscipline'
  <2>1. /\ UNCHANGED <<server, lock, byID, byExt, file, disk>>
        /\ \A t \in Savers : pc'[t] = IF t = s THEN "sync" ELSE pc[t]
    BY DEF WriteTemp, StoreInv, TypeOK, mapVars, fileVars
  <2>2. pc[s] = "write"
    BY DEF WriteTemp
  <2>3. /\ temp'[s].content = byID
        /\ \A t \in Savers : t # s => temp'[t] = temp[t]
    BY DEF WriteTemp, StoreInv, TypeOK
  <2>4. \A t \in Savers : pc'[t] # "idle" <=> lock' = t
    BY <2>1, <2>2 DEF StoreInv, SaveDiscipline
  <2>5. \A t \in Savers : /\ pc'[t] \in {"sync", "rename"} => temp'[t].content = byID'
                          /\ pc'[t] = "rename" => temp'[t].synced
    BY <2>1, <2>3 DEF StoreInv, SaveDiscipline
  <2> QED
    BY <2>1, <2>4, <2>5 DEF StoreInv, SaveDiscipline
<1> QED
  BY <1>1, <1>2
  DEF WriteTemp, StoreInv, MappingOneToOne, Inverse, NeverTorn, mapVars, fileVars

LEMMA SyncTempKeepsInv ==
  ASSUME StoreInv, NEW s \in Savers, SyncTemp(s)
  PROVE  StoreInv'
<1>1. TypeOK'
  BY DEF SyncTemp, StoreInv, TypeOK, Temp, mapVars, fileVars, callVars
<1>2. SaveDiscipline'
  <2>1. /\ UNCHANGED <<server, lock, byID, byExt, file, disk>>
        /\ \A t \in Savers : pc'[t] = IF t = s THEN "rename" ELSE pc[t]
    BY DEF SyncTemp, StoreInv, TypeOK, mapVars, fileVars
  <2>2. pc[s] = "sync" /\ temp[s] \in Temp
    BY DEF SyncTemp, StoreInv, TypeOK
  <2>3. /\ temp'[s] = [temp[s] EXCEPT !.synced = TRUE]
        /\ \A t \in Savers : t # s => temp'[t] = temp[t]
    BY DEF SyncTemp, StoreInv, TypeOK
  <2>4. temp'[s].synced /\ temp'[s].content = temp[s].content
    BY <2>2, <2>3 DEF Temp
  <2>5. \A t \in Savers : pc'[t] # "idle" <=> lock' = t
    BY <2>1, <2>2 DEF StoreInv, SaveDiscipline
  <2>6. \A t \in Savers : /\ pc'[t] \in {"sync", "rename"} => temp'[t].content = byID'
                          /\ pc'[t] = "rename" => temp'[t].synced
    BY <2>1, <2>2, <2>3, <2>4 DEF StoreInv, SaveDiscipline
  <2> QED
    BY <2>1, <2>5, <2>6 DEF StoreInv, SaveDiscipline
<1> QED
  BY <1>1, <1>2
  DEF SyncTemp, StoreInv, MappingOneToOne, Inverse, NeverTorn, mapVars, fileVars

(* Who returns held the lock, and nobody holds it then. *)
LEMMA ReturnKeepsOrder ==
  ASSUME StoreInv, NEW s \in Savers, pc[s] # "idle", NEW r \in {"ok", "error"},
         Return(s, r), file' \in disk', s = "main" /\ r # "ok" => file' = file
  PROVE  SaveDiscipline'
<1>1. lock = s /\ \A t \in Savers : t # s => pc[t] = "idle"
  BY DEF StoreInv, SaveDiscipline
<1>2. \A t \in Savers : pc'[t] = "idle"
  BY <1>1 DEF StoreInv, TypeOK, Return
<1>3. lock' = "" /\ \A t \in Savers : t # ""
  BY NamesAssumption DEF Return, Savers
<1>4. server' \in {"up", "down"}
  BY <1>1 DEF StoreInv, TypeOK, SaveDiscipline, Return
<1>5. server' # "up" => byID' = Empty /\ byExt' = [e \in Exts |-> ""]
  BY <1>1 DEF StoreInv, TypeOK, SaveDiscipline, Return, mapVars
<1> QED
  BY <1>2, <1>3, <1>4, <1>5 DEF SaveDiscipline

LEMMA ReturnTyped ==
  ASSUME StoreInv, NEW s \in Savers, pc[s] # "idle", NEW r \in {"ok", "error"}, Return(s, r),
         file' \in Mapping \cup {NoFile, Torn}, disk' \subseteq Mapping \cup {NoFile, Torn}
  PROVE  TypeOK' /\ Inverse'
<1>1. NoTemp \in Temp
  BY EmptyFacts DEF NoTemp, Temp
<1>2. server' \in {"down", "opening", "up"}
  BY DEF StoreInv, TypeOK, Return
<1>3. /\ pc' \in [Savers -> {"idle", "write", "sync", "rename"}]
      /\ temp' \in [Savers -> Temp]
      /\ result' \in [Procs -> {"none", "ok", "error"}]
  BY <1>1 DEF StoreInv, TypeOK, Return
<1>4. lock' = "" /\ UNCHANGED <<byID, byExt, req>>
  BY DEF Return, mapVars
<1>5. Inverse'
  BY <1>4 DEF StoreInv, MappingOneToOne, Inverse
<1>6. TypeOK'
  BY <1>2, <1>3, <1>4 DEF StoreInv, TypeOK
<1> QED
  BY <1>5, <1>6

LEMMA RenameTempKeepsInv ==
  ASSUME StoreInv, NEW s \in Savers, RenameTemp(s)
  PROVE  StoreInv'
<1>1. temp[s] \in Temp /\ temp[s].content = byID /\ temp[s].synced /\ byID \in Mapping
  BY DEF RenameTemp, StoreInv, TypeOK, SaveDiscipline
<1>2. file' = byID /\ disk' = disk \cup {byID}
  BY <1>1 DEF RenameTemp, Survivors
<1>3. TypeOK' /\ Inverse'
  <2>1. pc[s] # "idle" /\ Return(s, "ok")
    BY DEF RenameTemp
  <2>2. /\ file' \in Mapping \cup {NoFile, Torn}
        /\ disk' \subseteq Mapping \cup {NoFile, Torn}
    BY <1>1, <1>2 DEF StoreInv, TypeOK
  <2> QED
    BY <2>1, <2>2, ReturnTyped
<1>4. SaveDiscipline'
  BY <1>2, ReturnKeepsOrder DEF RenameTemp
<1>5. OneToOne(byID)
  BY InverseIsOneToOne DEF StoreInv, TypeOK, MappingOneToOne
<1>6. MappingOneToOne' /\ NeverTorn'
  BY <1>1, <1>2, <1>3, <1>5, ContentsAssumption DEF StoreInv, MappingOneToOne, NeverTorn
<1> QED
  BY <1>3, <1>4, <1>6 DEF StoreInv

LEMMA SaveFailsKeepsInv ==
  ASSUME StoreInv, NEW s \in Savers, SaveFails(s)
  PROVE  StoreInv'
<1>0. pc[s] # "idle" /\ Return(s, "error") /\ file' = file /\ disk' = disk
  BY DEF SaveFails, fileVars
<1>1. TypeOK' /\ Inverse'
  BY <1>0, ReturnTyped DEF StoreInv, TypeOK
<1>2. SaveDiscipline'
  BY ReturnKeepsOrder DEF SaveFails, StoreInv, SaveDiscipline, fileVars
<1> QED
  BY <1>1, <1>2 DEF StoreInv, SaveFails, MappingOneToOne, NeverTorn, fileVars

LEMMA ProcessGoneKeepsInv ==
  ASSUME StoreInv, ProcessGone, file' \in disk', disk' \subseteq disk
  PROVE  StoreInv'
<1>1. byID' \in Mapping /\ byExt' \in [Exts -> Ids \cup {""}] /\ Inverse'
  BY EmptyFacts DEF ProcessGone, Inverse
<1>2. NoTemp \in Temp /\ \A s \in Savers : s # ""
  BY EmptyFacts, NamesAssumption DEF NoTemp, Temp, Savers
<1>3. TypeOK'
  BY <1>1, <1>2 DEF ProcessGone, StoreInv, TypeOK
<1>4. SaveDiscipline'
  BY <1>2 DEF ProcessGone, SaveDiscipline
<1> QED
  BY <1>1, <1>3, <1>4 DEF StoreInv, MappingOneToOne, NeverTorn

LEMMA StoreInvNext == StoreInv /\ [Next]_vars => StoreInv'
<1> SUFFICES ASSUME StoreInv, [Next]_vars PROVE StoreInv'
  OBVIOUS
<1>1. CASE Load \/ OpenNew
  BY <1>1, LoadKeepsInv, OpenNewKeepsInv
<1>2. ASSUME NEW p \in Procs, NEW id \in Ids, NEW ext \in Exts, Set(p, id, ext)
      PROVE  StoreInv'
  BY <1>2, SetKeepsInv
<1>3. ASSUME NEW p \in Procs, NEW id \in Ids, Delete(p, id)
      PROVE  StoreInv'
  BY <1>3, DeleteKeepsInv
<1>4. ASSUME NEW s \in Savers,
             WriteTemp(s) \/ SyncTemp(s) \/ RenameTemp(s) \/ SaveFails(s)
      PROVE  StoreInv'
  BY <1>4, WriteTempKeepsInv, SyncTempKeepsInv, RenameTempKeepsInv, SaveFailsKeepsInv
<1>5. CASE Flush
  <2>1. UNCHANGED <<server, lock, byID, byExt, pc, temp, file, req, result>>
    BY <1>5 DEF Flush, mapVars, callVars
  <2>2. disk' = {file} /\ {file} \subseteq disk
    BY <1>5 DEF Flush
  <2>3. TypeOK'
    BY <2>1, <2>2 DEF StoreInv, TypeOK
  <2>4. SaveDiscipline' /\ MappingOneToOne' /\ NeverTorn'
    BY <2>1, <2>2 DEF StoreInv, SaveDiscipline, MappingOneToOne, Inverse, NeverTorn
  <2> QED
    BY <2>3, <2>4 DEF StoreInv
<1>6. CASE Kill
  BY <1>6, ProcessGoneKeepsInv DEF Kill, StoreInv, SaveDiscipline, fileVars
<1>7. CASE PowerLoss
  BY <1>7, ProcessGoneKeepsInv DEF PowerLoss
<1>8. CASE UNCHANGED vars
  <2>1. TypeOK'
    BY <1>8 DEF vars, fileVars, mapVars, callVars, StoreInv, TypeOK
  <2>2. SaveDiscipline' /\ MappingOneToOne' /\ NeverTorn'
    BY <1>8 DEF vars, StoreInv, SaveDiscipline, MappingOneToOne, Inverse, NeverTorn,
            fileVars, mapVars, callVars
  <2> QED
    BY <2>1, <2>2 DEF StoreInv
<1> QED
  BY <1>1, <1>2, <1>3, <1>4, <1>5, <1>6, <1>7, <1>8 DEF Next

(* Lock, temp files, maps and files are in order at every moment. *)
THEOREM StoreInvariant == Spec => []StoreInv
  BY StoreInvInit, StoreInvNext, PTL DEF Spec

(* The mapping is 1:1 in memory and in every file a restart could load. *)
THEOREM StoreOneToOne == Spec => []MappingOneToOne
<1>1. StoreInv => MappingOneToOne
  BY DEF StoreInv
<1> QED
  BY <1>1, StoreInvariant, PTL

(* No crash, however placed, leaves a truncated file under the path. *)
THEOREM StoreNeverTorn == Spec => []NeverTorn
<1>1. StoreInv => NeverTorn
  BY DEF StoreInv
<1> QED
  BY <1>1, StoreInvariant, PTL
-----------------------------------------------------------------------------
(* Refinement *)

\* The mapping and the restart points of ExtIdMap, as Abstract maps them.
AbsMap == IF server = "up" THEN byID ELSE AsMapping(file)
AbsSaved == {AsMapping(f) : f \in disk}

LEMMA AbsEmpty == Abstract!Empty = Empty
BY DEF Abstract!Empty, Empty

LEMMA SetIsAssign ==
  ASSUME StoreInv, NEW p \in Procs, NEW id \in Ids, NEW ext \in Exts, Set(p, id, ext)
  PROVE  Abstract!Assign(id, ext) \/ UNCHANGED <<AbsMap, AbsSaved>>
<1>1. server = "up" /\ server' = "up" /\ UNCHANGED <<file, disk>>
  BY DEF Set, Enter, fileVars
<1>2. CASE NothingToDo(p)
  BY <1>1, <1>2 DEF NothingToDo, mapVars, AbsMap, AbsSaved, AsMapping
<1>3. CASE byID' = SetByID(id, ext)
  <2>1. \A i \in Ids : i = byExt[ext] <=> byID[i] = ext
    BY DEF StoreInv, MappingOneToOne, Inverse
  <2>2. byID' = Abstract!Assigned(byID, id, ext)
    BY <1>3, <2>1 DEF SetByID, Abstract!Assigned
  <2> QED
    BY <1>1, <2>2 DEF Abstract!Assign, AsMapping
<1> QED
  BY <1>2, <1>3 DEF Set, SetByID

LEMMA DeleteIsDrop ==
  ASSUME NEW p \in Procs, NEW id \in Ids, Delete(p, id)
  PROVE  Abstract!Drop(id) \/ UNCHANGED <<AbsMap, AbsSaved>>
<1>1. server = "up" /\ server' = "up" /\ UNCHANGED <<file, disk>>
  BY DEF Delete, Enter, fileVars
<1>2. CASE NothingToDo(p)
  BY <1>1, <1>2 DEF NothingToDo, mapVars, AbsMap, AbsSaved, AsMapping
<1>3. CASE byID' = [byID EXCEPT ![id] = ""]
  BY <1>1, <1>3 DEF Abstract!Drop, Abstract!Dropped, AsMapping
<1> QED
  BY <1>2, <1>3 DEF Delete

LEMMA RenameIsSave ==
  ASSUME StoreInv, NEW s \in Savers, RenameTemp(s)
  PROVE  Abstract!Save
<1>1. temp[s] \in Temp /\ temp[s].content = byID /\ temp[s].synced /\ byID \in Mapping
  BY DEF RenameTemp, StoreInv, TypeOK, SaveDiscipline
<1>2. file' = byID /\ disk' = disk \cup {byID} /\ byID' = byID
  BY <1>1 DEF RenameTemp, Survivors, Return, mapVars
<1>3. AsMapping(byID) = byID
  BY <1>1, ContentsAssumption DEF AsMapping
<1>4. lock = s /\ server # "down"
  BY NamesAssumption DEF RenameTemp, StoreInv, SaveDiscipline, Savers
<1>5. CASE s = "main"
  <2>1. server = "opening" /\ server' = "up" /\ AsMapping(file) = byID
    BY <1>4, <1>5 DEF StoreInv, SaveDiscipline, RenameTemp, Return, AsMapping
  <2> QED
    BY <1>2, <1>3, <2>1 DEF Abstract!Save
<1>6. CASE s # "main"
  <2>1. server = "up" /\ server' = "up"
    BY <1>4, <1>6 DEF StoreInv, TypeOK, SaveDiscipline, RenameTemp, Return
  <2> QED
    BY <1>2, <1>3, <2>1 DEF Abstract!Save
<1> QED
  BY <1>5, <1>6

LEMMA SaveFailsIsNothing ==
  ASSUME StoreInv, NEW s \in Savers, SaveFails(s)
  PROVE  UNCHANGED <<AbsMap, AbsSaved>>
<1>1. lock = s /\ server # "down" /\ UNCHANGED <<file, disk, byID>>
  BY NamesAssumption
  DEF SaveFails, StoreInv, SaveDiscipline, Savers, Return, mapVars, fileVars
<1>2. server' = "up" <=> server = "up"
  BY <1>1 DEF StoreInv, TypeOK, SaveDiscipline, SaveFails, Return
<1> QED
  BY <1>1, <1>2 DEF AbsMap, AbsSaved, AsMapping

LEMMA GoneIsRestart ==
  ASSUME StoreInv, ProcessGone, file' \in disk', disk' \subseteq disk
  PROVE  Abstract!Restart
BY DEF ProcessGone, Abstract!Restart, AsMapping

LEMMA StepsAreAbstract == StoreInv /\ [Next]_vars => [Abstract!MNext]_(Abstract!mvars)
<1> SUFFICES ASSUME StoreInv, [Next]_vars
             PROVE  Abstract!MNext \/ UNCHANGED <<AbsMap, AbsSaved>>
  BY DEF Abstract!mvars, AbsMap, AbsSaved
<1>1. CASE Load
  BY <1>1, ContentsAssumption DEF Load, fileVars, AbsMap, AbsSaved, AsMapping
<1>2. CASE OpenNew
  BY <1>2 DEF OpenNew, fileVars, AbsMap, AbsSaved, AsMapping
<1>3. ASSUME NEW p \in Procs, NEW id \in Ids, NEW ext \in Exts, Set(p, id, ext)
      PROVE  Abstract!MNext \/ UNCHANGED <<AbsMap, AbsSaved>>
  BY <1>3, SetIsAssign DEF Abstract!MNext
<1>4. ASSUME NEW p \in Procs, NEW id \in Ids, Delete(p, id)
      PROVE  Abstract!MNext \/ UNCHANGED <<AbsMap, AbsSaved>>
  BY <1>4, DeleteIsDrop DEF Abstract!MNext
<1>5. ASSUME NEW s \in Savers, WriteTemp(s) \/ SyncTemp(s)
      PROVE  UNCHANGED <<AbsMap, AbsSaved>>
  BY <1>5 DEF WriteTemp, SyncTemp, mapVars, fileVars, AbsMap, AbsSaved, AsMapping
<1>6. ASSUME NEW s \in Savers, RenameTemp(s) \/ SaveFails(s)
      PROVE  Abstract!MNext \/ UNCHANGED <<AbsMap, AbsSaved>>
  BY <1>6, RenameIsSave, SaveFailsIsNothing DEF Abstract!MNext
<1>7. CASE Flush
  <2>1. UNCHANGED <<server, byID, file>> /\ disk' = {file} /\ file \in disk
    BY <1>7 DEF Flush, mapVars
  <2>2. AbsSaved' = {AsMapping(file)} /\ AsMapping(file) \in AbsSaved
    BY <2>1 DEF AbsSaved, AsMapping
  <2>3. AbsMap' = AbsMap
    BY <2>1 DEF AbsMap, AsMapping
  <2>4. AbsSaved' \in (SUBSET AbsSaved) \ {{}}
    BY <2>2
  <2>5. Abstract!Commit
    BY <2>3, <2>4 DEF Abstract!Commit, AbsMap, AbsSaved
  <2> QED
    BY <2>5 DEF Abstract!MNext
<1>8. CASE Kill
  <2>1. Abstract!Restart
    BY <1>8, GoneIsRestart DEF Kill, StoreInv, SaveDiscipline, fileVars
  <2> QED
    BY <2>1 DEF Abstract!MNext
<1>9. CASE PowerLoss
  <2>1. Abstract!Restart
    BY <1>9, GoneIsRestart DEF PowerLoss
  <2> QED
    BY <2>1 DEF Abstract!MNext
<1>10. CASE UNCHANGED vars
  BY <1>10 DEF vars, mapVars, fileVars, AbsMap, AbsSaved, AsMapping
<1> QED
  BY <1>1, <1>2, <1>3, <1>4, <1>5, <1>6, <1>7, <1>8, <1>9, <1>10 DEF Next

(* Every behaviour of the FileStore, with its crashes and failed saves, is  *)
(* one of the abstract mapping of ExtIdMap.                                 *)
THEOREM StoreImplementsMap == Spec => ImplementsMap
<1>1. Init => Abstract!MInit
  BY AbsEmpty DEF Init, Abstract!MInit, AsMapping
<1> QED
  BY <1>1, StoreInvariant, StepsAreAbstract, PTL DEF Spec, ImplementsMap, Abstract!MSpec

-----------------------------------------------------------------------------
(* What ExtIdMap promises of itself *)

LEMMA AssignedOneToOne ==
  ASSUME NEW m \in Abstract!Mapping, Abstract!OneToOne(m), NEW id \in Ids, NEW ext \in Exts
  PROVE  /\ Abstract!Assigned(m, id, ext) \in Abstract!Mapping
         /\ Abstract!OneToOne(Abstract!Assigned(m, id, ext))
BY DEF Abstract!Mapping, Abstract!OneToOne, Abstract!Assigned

LEMMA DroppedOneToOne ==
  ASSUME NEW m \in Abstract!Mapping, Abstract!OneToOne(m), NEW id \in Ids
  PROVE  /\ Abstract!Dropped(m, id) \in Abstract!Mapping
         /\ Abstract!OneToOne(Abstract!Dropped(m, id))
BY DEF Abstract!Mapping, Abstract!OneToOne, Abstract!Dropped

\* A mapping that is 1:1, of a state of ExtIdMap.
Good(m) == m \in Abstract!Mapping /\ Abstract!OneToOne(m)

AbstractInv == Good(AbsMap) /\ \A m \in AbsSaved : Good(m)

LEMMA AbstractInvInit == Abstract!MInit => AbstractInv
<1>1. Good(Abstract!Empty)
  BY DEF Good, Abstract!Empty, Abstract!Mapping, Abstract!OneToOne
<1> QED
  BY <1>1 DEF Abstract!MInit, AbstractInv, AbsMap, AbsSaved

LEMMA AbstractInvNext ==
  AbstractInv /\ [Abstract!MNext]_(Abstract!mvars) => AbstractInv'
<1> SUFFICES ASSUME AbstractInv, [Abstract!MNext]_(Abstract!mvars) PROVE AbstractInv'
  OBVIOUS
<1>1. ASSUME NEW m, AbsMap' = m, Good(m), AbsSaved' \subseteq AbsSaved
      PROVE  AbstractInv'
  BY <1>1 DEF AbstractInv, Good
<1>2. ASSUME NEW id \in Ids, NEW ext \in Exts, Abstract!Assign(id, ext) PROVE AbstractInv'
  <2>1. AbsMap' = Abstract!Assigned(AbsMap, id, ext) /\ AbsSaved' = AbsSaved
    BY <1>2 DEF Abstract!Assign, AbsMap, AbsSaved
  <2>2. Good(Abstract!Assigned(AbsMap, id, ext))
    BY AssignedOneToOne DEF AbstractInv, Good
  <2> QED
    BY <1>1, <2>1, <2>2
<1>3. ASSUME NEW id \in Ids, Abstract!Drop(id) PROVE AbstractInv'
  <2>1. AbsMap' = Abstract!Dropped(AbsMap, id) /\ AbsSaved' = AbsSaved
    BY <1>3 DEF Abstract!Drop, AbsMap, AbsSaved
  <2>2. Good(Abstract!Dropped(AbsMap, id))
    BY DroppedOneToOne DEF AbstractInv, Good
  <2> QED
    BY <1>1, <2>1, <2>2
<1>4. CASE Abstract!Save
  <2>1. AbsSaved' = AbsSaved \cup {AbsMap} /\ AbsMap' = AbsMap
    BY <1>4 DEF Abstract!Save, AbsMap, AbsSaved
  <2> QED
    BY <2>1 DEF AbstractInv, Good
<1>5. CASE Abstract!Commit
  <2>1. AbsSaved' \subseteq AbsSaved /\ AbsMap' = AbsMap
    BY <1>5 DEF Abstract!Commit, AbsMap, AbsSaved
  <2> QED
    BY <1>1, <2>1 DEF AbstractInv
<1>6. CASE Abstract!Restart
  <2>1. AbsSaved' \subseteq AbsSaved /\ AbsMap' \in AbsSaved'
    BY <1>6 DEF Abstract!Restart, AbsMap, AbsSaved
  <2> QED
    BY <1>1, <2>1 DEF AbstractInv
<1>7. CASE UNCHANGED Abstract!mvars
  <2>1. AbsSaved' = AbsSaved /\ AbsMap' = AbsMap
    BY <1>7 DEF Abstract!mvars, AbsMap, AbsSaved
  <2> QED
    BY <1>1, <2>1 DEF AbstractInv
<1> QED
  BY <1>2, <1>3, <1>4, <1>5, <1>6, <1>7 DEF Abstract!MNext

(* The abstract mapping, and every mapping a restart may bring back, is 1:1.*)
THEOREM MapOneToOne == Abstract!MSpec => []Abstract!AlwaysOneToOne
<1>1. AbstractInv => Abstract!AlwaysOneToOne
  BY DEF AbstractInv, Good, Abstract!AlwaysOneToOne, AbsMap, AbsSaved
<1> QED
  BY <1>1, AbstractInvInit, AbstractInvNext, PTL DEF Abstract!MSpec

(* So, as the store implements it, is what the handlers see of the store,   *)
(* also over the time the process is down (store.go:16-18).                 *)
THEOREM StoreAlwaysOneToOne == Spec => []Abstract!AlwaysOneToOne
BY StoreImplementsMap, MapOneToOne, PTL DEF ImplementsMap

-----------------------------------------------------------------------------
(* What an ok means *)

LEMMA SaversFacts ==
  /\ Procs \subseteq Savers /\ "main" \notin Procs
  /\ \A s \in Savers : s # ""
BY NamesAssumption DEF Savers

LEMMA SavedInit == SInit => MemoryIsSaved
BY SaversFacts DEF SInit, Init, MemoryIsSaved

LEMMA FreeMeansIdle ==
  ASSUME StoreInv, lock = ""
  PROVE  \A p \in Procs : pc[p] = "idle"
<1>1. \A s \in Savers : pc[s] # "idle" <=> lock = s
  BY DEF StoreInv, SaveDiscipline
<1> QED
  BY <1>1, SaversFacts

(* A step that nobody ends a save in leaves the file as far behind as it is.*)
LEMMA StaleStays ==
  ASSUME StoreInv, SNext, lock = "", server' = "up", stale
  PROVE  stale'
BY FreeMeansIdle DEF SNext, CallerSaves

(* A caller that goes on to save has its mapping in memory, and is alone.   *)
LEMMA EnteredIsSaved ==
  ASSUME StoreInv, NEW p \in Procs, NEW call \in Calls, Enter(p, call), GoSave(p),
         byID'[call.id] = call.ext
  PROVE  MemoryIsSaved'
<1>1. \A q \in Procs : pc[q] = "idle"
  BY FreeMeansIdle DEF Enter
<1>2. lock' # "" /\ req'[p] = call /\ \A q \in Procs : q # p => pc'[q] = "idle"
  BY <1>1, SaversFacts DEF Enter, GoSave, StoreInv, TypeOK
<1> QED
  BY <1>2 DEF MemoryIsSaved

LEMMA IdleIsSaved ==
  ASSUME StoreInv, MemoryIsSaved, SNext, NEW p \in Procs, NEW call \in Calls,
         Enter(p, call), NothingToDo(p)
  PROVE  MemoryIsSaved'
<1>1. lock = "" /\ server' = "up" /\ UNCHANGED <<server, lock, pc, byID, file>>
  BY DEF Enter, NothingToDo, mapVars, fileVars
<1>2. \A q \in Procs : pc[q] = "idle"
  BY <1>1, FreeMeansIdle
<1> QED
  BY <1>1, <1>2, StaleStays DEF MemoryIsSaved

(* Memory does not run ahead of the file once the lock is free, unless a    *)
(* save has failed.                                                         *)
LEMMA SavedNext ==
  ASSUME StoreInv, MemoryIsSaved, [SNext]_svars
  PROVE  MemoryIsSaved'
<1>a. CASE UNCHANGED svars
  BY <1>a DEF svars, vars, mapVars, fileVars, callVars, MemoryIsSaved
<1>b. SUFFICES ASSUME SNext PROVE MemoryIsSaved'
  BY <1>a
<1>1. CASE Load
  <2>1. \A p \in Procs : pc[p] = "idle"
    BY <1>1, SaversFacts DEF Load, StoreInv, SaveDiscipline
  <2> QED
    BY <1>1, <2>1 DEF Load, MemoryIsSaved, fileVars
<1>2. CASE OpenNew
  <2>1. \A p \in Procs : pc[p] = "idle" /\ pc'[p] = pc[p]
    BY <1>2, SaversFacts DEF OpenNew, StoreInv, TypeOK, SaveDiscipline
  <2> QED
    BY <1>2, <2>1 DEF OpenNew, MemoryIsSaved
<1>3. ASSUME NEW p \in Procs, NEW id \in Ids, NEW ext \in Exts, Set(p, id, ext)
      PROVE  MemoryIsSaved'
  <2>1. SetCall(id, ext) \in Calls
    BY DEF SetCall, Calls
  <2>2. CASE byID[id] = ext /\ NothingToDo(p)
    BY <1>b, <1>3, <2>1, <2>2, IdleIsSaved DEF Set
  <2>3. CASE byID' = SetByID(id, ext) /\ GoSave(p)
    <3>1. byID'[SetCall(id, ext).id] = SetCall(id, ext).ext
      BY <2>3 DEF SetByID, SetCall
    <3> QED
      BY <1>3, <2>1, <2>3, <3>1, EnteredIsSaved DEF Set
  <2> QED
    BY <1>3, <2>2, <2>3 DEF Set, SetByID
<1>4. ASSUME NEW p \in Procs, NEW id \in Ids, Delete(p, id)
      PROVE  MemoryIsSaved'
  <2>1. DeleteCall(id) \in Calls
    BY DEF DeleteCall, Calls
  <2>2. CASE NothingToDo(p)
    BY <1>b, <1>4, <2>1, <2>2, IdleIsSaved DEF Delete
  <2>3. CASE byID' = [byID EXCEPT ![id] = ""] /\ GoSave(p)
    <3>1. byID'[DeleteCall(id).id] = DeleteCall(id).ext
      BY <2>3 DEF DeleteCall, StoreInv, TypeOK, Mapping
    <3> QED
      BY <1>4, <2>1, <2>3, <3>1, EnteredIsSaved DEF Delete
  <2> QED
    BY <1>4, <2>2, <2>3 DEF Delete
<1>5. ASSUME NEW s \in Savers, WriteTemp(s) \/ SyncTemp(s)
      PROVE  MemoryIsSaved'
  <2>1. UNCHANGED <<server, lock, byID, byExt, file, req>>
    BY <1>5 DEF WriteTemp, SyncTemp, mapVars, fileVars, callVars
  <2>2. \A p \in Procs : pc'[p] # "idle" => pc[p] # "idle"
    BY <1>5, SaversFacts DEF WriteTemp, SyncTemp, StoreInv, TypeOK
  <2>3. lock # ""
    BY <1>5, SaversFacts DEF WriteTemp, SyncTemp, StoreInv, SaveDiscipline
  <2> QED
    BY <2>1, <2>2, <2>3 DEF MemoryIsSaved
<1>6. ASSUME NEW s \in Savers, RenameTemp(s)
      PROVE  MemoryIsSaved'
  <2>1. UNCHANGED <<byID, req>> /\ file' = byID
    BY <1>6 DEF RenameTemp, Return, mapVars, StoreInv, SaveDiscipline
  <2>2. \A p \in Procs : pc'[p] = "idle"
    BY <1>6, SaversFacts DEF RenameTemp, Return, StoreInv, TypeOK, SaveDiscipline
  <2> QED
    BY <2>1, <2>2 DEF MemoryIsSaved
<1>7. ASSUME NEW s \in Savers, SaveFails(s)
      PROVE  MemoryIsSaved'
  <2>1. \A p \in Procs : pc'[p] = "idle"
    BY <1>7, SaversFacts DEF SaveFails, Return, StoreInv, TypeOK, SaveDiscipline
  <2>2. CASE s = "main"
    BY <1>7, <2>1, <2>2 DEF SaveFails, Return, MemoryIsSaved
  <2>3. CASE s \in Procs
    <3>1. result'[s] = "error" /\ pc[s] # "idle"
      BY <1>7, <2>3 DEF SaveFails, Return
    <3>2. stale'
      BY <1>b, <2>3, <3>1 DEF SNext, CallerFails
    <3> QED
      BY <2>1, <3>2 DEF MemoryIsSaved
  <2> QED
    BY <2>2, <2>3 DEF Savers
<1>8. CASE Flush
  <2>1. UNCHANGED <<server, lock, pc, byID, file, req>>
    BY <1>8 DEF Flush, mapVars, callVars
  <2> QED
    BY <1>b, <2>1, StaleStays DEF MemoryIsSaved
<1>9. CASE Kill \/ PowerLoss
  BY <1>9, SaversFacts DEF Kill, PowerLoss, ProcessGone, MemoryIsSaved
<1> QED
  BY <1>b, <1>1, <1>2, <1>3, <1>4, <1>5, <1>6, <1>7, <1>8, <1>9 DEF SNext, Next

LEMMA StepOfStore == [SNext]_svars => [Next]_vars
BY DEF SNext, svars

LEMMA SavedInvariant == SSpec => [](StoreInv /\ MemoryIsSaved)
<1>1. StoreInv /\ MemoryIsSaved /\ [SNext]_svars => (StoreInv /\ MemoryIsSaved)'
  BY SavedNext, StoreInvNext, StepOfStore
<1>2. SInit => StoreInv /\ MemoryIsSaved
  BY StoreInvInit, SavedInit DEF SInit
<1> QED
  BY <1>1, <1>2, PTL DEF SSpec

(* Memory and file agree whenever nobody saves, except after a failed save. *)
THEOREM MemorySaved == SSpec => []MemoryIsSaved
  BY SavedInvariant, PTL

(* A call that starts, or that returns, with ok leaves its mapping in the   *)
(* file, if memory and file agree then.                                     *)
LEMMA OkStep ==
  ASSUME StoreInv, MemoryIsSaved, SNext, NEW p \in Procs, ~ stale',
         result'[p] = "ok", result[p] # "ok" \/ req'[p] # req[p]
  PROVE  file' \in Mapping /\ file'[req'[p].id] = req'[p].ext
<1>1. CASE Load \/ OpenNew \/ Flush
  BY <1>1 DEF Load, OpenNew, Flush, callVars
<1>2. CASE Kill \/ PowerLoss
  BY <1>2 DEF Kill, PowerLoss, ProcessGone
<1>3. ASSUME NEW s \in Savers, WriteTemp(s) \/ SyncTemp(s)
      PROVE  FALSE
  BY <1>3 DEF WriteTemp, SyncTemp, callVars
<1>4. ASSUME NEW s \in Savers, SaveFails(s)
      PROVE  FALSE
  <2>1. req' = req /\ p # s
    BY <1>4 DEF SaveFails, Return
  <2> QED
    BY <1>4, <2>1 DEF SaveFails, Return
<1>5. ASSUME NEW s \in Savers, RenameTemp(s)
      PROVE  file' \in Mapping /\ file'[req'[p].id] = req'[p].ext
  <2>1. p = s /\ pc[p] # "idle"
    BY <1>5 DEF RenameTemp, Return
  <2>2. file' = byID /\ req' = req /\ byID \in Mapping
    BY <1>5 DEF RenameTemp, Return, StoreInv, TypeOK, SaveDiscipline
  <2> QED
    BY <2>1, <2>2 DEF MemoryIsSaved
<1>6. ASSUME NEW q \in Procs, NEW call \in Calls, Enter(q, call), NothingToDo(q),
             byID[call.id] = call.ext
      PROVE  file' \in Mapping /\ file'[req'[p].id] = req'[p].ext
  <2>1. p = q /\ req'[p] = call
    BY <1>6 DEF Enter, NothingToDo, StoreInv, TypeOK
  <2>2. file' = file /\ server' = "up" /\ server = "up" /\ lock = ""
    BY <1>6 DEF Enter, fileVars
  <2>3. ~ stale
    BY <2>2, StaleStays
  <2>4. file' = byID /\ byID \in Mapping
    BY <2>2, <2>3 DEF StoreInv, TypeOK, MemoryIsSaved
  <2> QED
    BY <1>6, <2>1, <2>4
<1>7. ASSUME NEW q \in Procs, NEW call \in Calls, Enter(q, call), GoSave(q)
      PROVE  FALSE
  BY <1>7 DEF Enter, GoSave, StoreInv, TypeOK
<1>8. ASSUME NEW q \in Procs, NEW id \in Ids, NEW ext \in Exts, Set(q, id, ext)
      PROVE  file' \in Mapping /\ file'[req'[p].id] = req'[p].ext
  <2>1. /\ SetCall(id, ext) \in Calls
        /\ SetCall(id, ext).id = id /\ SetCall(id, ext).ext = ext
    BY DEF SetCall, Calls
  <2> QED
    BY <1>6, <1>7, <1>8, <2>1 DEF Set
<1>9. ASSUME NEW q \in Procs, NEW id \in Ids, Delete(q, id)
      PROVE  file' \in Mapping /\ file'[req'[p].id] = req'[p].ext
  <2>1. /\ DeleteCall(id) \in Calls
        /\ DeleteCall(id).id = id /\ DeleteCall(id).ext = ""
    BY DEF DeleteCall, Calls
  <2> QED
    BY <1>6, <1>7, <1>9, <2>1 DEF Delete
<1> QED
  BY <1>1, <1>2, <1>3, <1>4, <1>5, <1>8, <1>9 DEF SNext, Next

(* A handler that is told ok has its mapping in the file, wherever the      *)
(* process is killed or the machine loses power, except while a failed save *)
(* has not been made up for.                                                *)
THEOREM OkMeansSaved == SSpec => OkUnlessStale
<1>1. ASSUME StoreInv, MemoryIsSaved, [SNext]_svars
      PROVE  [\A p \in Procs :
                result'[p] = "ok" /\ (result[p] # "ok" \/ req'[p] # req[p]) =>
                  stale' \/ (file' \in Mapping /\ file'[req'[p].id] = req'[p].ext)]_svars
  BY <1>1, OkStep
<1> QED
  BY <1>1, SavedInvariant, PTL DEF SSpec, OkUnlessStale
=============================================================================
