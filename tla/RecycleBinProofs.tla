-------------------------- MODULE RecycleBinProofs --------------------------
(***************************************************************************)
(* Proofs about RecycleBin, for every number of files, entries, exits and  *)
(* faults: the invariants, what a purge may take, and the refinement of    *)
(* FileCustody.                                                            *)
(***************************************************************************)
EXTENDS RecycleBin, TLAPS

(* Which process may be where, and what its locals say there.              *)
Calls ==
    /\ at["gc"] \in {"idle", "move", "insert", "files", "rows"}
    /\ at["loop"] \in {"idle", "move", "insert", "unlink", "replace", "stamp"}
    /\ \A w \in Procs :
          /\ id[w] <= begun
          /\ at[w] \in {"move", "insert", "unlink", "replace", "stamp"} =>
                id[w] \in Ids /\ dest[w] \in Paths
          /\ at[w] \in {"move", "insert"} => row[id[w]].state = "none"
          /\ at[w] = "move" => slot[id[w]] = Nothing
          /\ at[w] = "insert" => slot[id[w]] # Nothing
    /\ at["gc"] \in {"move", "insert"} /\ at["loop"] # "idle" =>
          id["gc"] # id["loop"]
    /\ at["loop"] \in {"unlink", "replace"} /\ slot[id["loop"]] # Nothing =>
          Live(id["loop"])
    /\ at["loop"] = "stamp" => slot[id["loop"]] = Nothing

(* Entries and contents come from the counters, and a restored entry has   *)
(* no file.                                                                *)
Fresh ==
    /\ \A i \in Ids :
          /\ slot[i] # Nothing \/ row[i].state # "none" => i <= begun
          /\ slot[i] <= written
          /\ row[i].state = "restored" => slot[i] = Nothing
    /\ \A p \in Paths : disk[p] <= written

(* What the purge under way knows of its entries.                          *)
DoomedOK ==
    /\ at["gc"] \notin {"files", "rows"} => doomed = {}
    /\ at["gc"] = "rows" => left = {}
    /\ \A i \in doomed : row[i].state # "none"
    /\ \A i \in doomed \ left : slot[i] = Nothing

(* The reason for which the purge selected its entries still stands.       *)
Due ==
    /\ mode = "expired" => \A i \in doomed : row[i].age = Expired
    /\ mode = "emergency" => \A i \in doomed : row[i].age >= Week
    /\ mode = "size" =>
          \A i \in doomed, k \in LiveIds \ doomed : row[k].age <= row[i].age

Inv ==
    /\ TypeOK /\ Calls /\ Fresh /\ DoomedOK
    /\ OnePlace /\ RowsTellTheTruth /\ Due

USE BoundsAssumption
USE DEF Files, Ids, Nothing, Procs, Week, Expired, NoRow, Rows,
        store, purge, failing

-----------------------------------------------------------------------------
(* A new file at a free path.                                              *)
LEMMA WriteKeepsInv ==
    ASSUME Inv, NEW p \in Paths, Write(p)
    PROVE  Inv'
<1>1. TypeOK'
    BY DEF Inv, TypeOK, Calls, Write
<1>2. Calls'
    BY DEF Inv, TypeOK, Calls, Fresh, DoomedOK, Live, Write
<1>3. Fresh'
    BY SMTT(30) DEF Inv, TypeOK, Calls, Fresh, Write
<1>4. DoomedOK'
    BY DEF Inv, TypeOK, Calls, DoomedOK, LiveIds, Live, Write
<1>5. OnePlace'
    BY DEF Inv, TypeOK, Calls, OnePlace, Fresh, Write
<1>6. RowsTellTheTruth'
    BY DEF Inv, TypeOK, Calls, Fresh, DoomedOK, RowsTellTheTruth, Live, Write
<1>7. Due'
    BY DEF Inv, TypeOK, Calls, DoomedOK, Due, LiveIds, Live, Write
<1> QED
    BY <1>1, <1>2, <1>3, <1>4, <1>5, <1>6, <1>7 DEF Inv

(* A day passes.                                                           *)
LEMMA TickKeepsInv ==
    ASSUME Inv, Tick
    PROVE  Inv'
<1>1. TypeOK'
    BY SMTT(30) DEF Inv, TypeOK, Calls, Tick
<1>2. Calls'
    BY DEF Inv, TypeOK, Calls, Fresh, DoomedOK, Live, Tick
<1>3. Fresh'
    BY DEF Inv, TypeOK, Calls, Fresh, Tick
<1>4. DoomedOK'
    BY DEF Inv, TypeOK, Calls, DoomedOK, LiveIds, Live, Tick
<1>5. OnePlace'
    BY DEF Inv, TypeOK, Calls, OnePlace, Fresh, Tick
<1>6. RowsTellTheTruth'
    BY DEF Inv, TypeOK, Calls, Fresh, DoomedOK, RowsTellTheTruth, Live, Tick
<1>7. Due'
    <2>1. ASSUME NEW i \in Ids
          PROVE  /\ row'[i].state = row[i].state
                 /\ row[i].age \in 0 .. Expired
                 /\ row'[i].age = IF row[i].state # "none" /\ row[i].age < Expired
                                 THEN row[i].age + 1 ELSE row[i].age
        <3>1. row[i] \in Rows \union {NoRow}
            BY DEF Inv, TypeOK
        <3>2. row'[i] = IF row[i].state # "none" /\ row[i].age < Expired
                       THEN [row[i] EXCEPT !.age = @ + 1] ELSE row[i]
            BY DEF Inv, TypeOK, Tick
        <3> QED
            BY <3>1, <3>2
    <2>2. doomed \subseteq Ids /\ LiveIds' = LiveIds /\ LiveIds \subseteq Ids
        BY <2>1 DEF Inv, TypeOK, LiveIds, Live
    <2>3. mode' = mode /\ doomed' = doomed
        BY DEF Tick
    <2>4. \A i \in doomed : row[i].state # "none"
        BY DEF Inv, DoomedOK
    <2> QED
        BY <2>1, <2>2, <2>3, <2>4 DEF Inv, Due
<1> QED
    BY <1>1, <1>2, <1>3, <1>4, <1>5, <1>6, <1>7 DEF Inv

(* The steps of safe_delete.                                               *)
LEMMA DeleteBeginKeepsInv ==
    ASSUME Inv, NEW w \in Procs, NEW p \in Paths, DeleteBegin(w, p)
    PROVE  Inv'
<1>1. TypeOK'
    BY DEF Inv, TypeOK, Calls, DeleteBegin, Idle, Goto
<1>2. Calls'
    BY DEF Inv, TypeOK, Calls, Fresh, DoomedOK, Live, DeleteBegin, Idle, Goto
<1>3. Fresh'
    BY DEF Inv, TypeOK, Calls, Fresh, DeleteBegin, Idle, Goto
<1>4. DoomedOK'
    BY DEF Inv, TypeOK, Calls, DoomedOK, LiveIds, Live, DeleteBegin, Idle, Goto
<1>5. OnePlace'
    BY DEF Inv, TypeOK, Calls, OnePlace, Fresh, DeleteBegin, Idle, Goto
<1>6. RowsTellTheTruth'
    BY DEF Inv, TypeOK, Calls, Fresh, DoomedOK, RowsTellTheTruth, Live, DeleteBegin, Idle, Goto
<1>7. Due'
    BY DEF Inv, TypeOK, Calls, DoomedOK, Due, LiveIds, Live, DeleteBegin, Idle, Goto
<1> QED
    BY <1>1, <1>2, <1>3, <1>4, <1>5, <1>6, <1>7 DEF Inv

LEMMA DeleteMoveKeepsInv ==
    ASSUME Inv, NEW w \in Procs, DeleteMove(w)
    PROVE  Inv'
<1>1. TypeOK'
    BY DEF Inv, TypeOK, Calls, DeleteMove, Goto
<1>2. Calls'
    BY DEF Inv, TypeOK, Calls, Fresh, DoomedOK, Live, DeleteMove, Goto
<1>3. Fresh'
    BY DEF Inv, TypeOK, Calls, Fresh, DeleteMove, Goto
<1>4. DoomedOK'
    BY DEF Inv, TypeOK, Calls, DoomedOK, LiveIds, Live, DeleteMove, Goto
<1>5. OnePlace'
    BY DEF Inv, TypeOK, Calls, OnePlace, Fresh, DeleteMove, Goto
<1>6. RowsTellTheTruth'
    BY DEF Inv, TypeOK, Calls, Fresh, DoomedOK, RowsTellTheTruth, Live, DeleteMove, Goto
<1>7. Due'
    BY DEF Inv, TypeOK, Calls, DoomedOK, Due, LiveIds, Live, DeleteMove, Goto
<1> QED
    BY <1>1, <1>2, <1>3, <1>4, <1>5, <1>6, <1>7 DEF Inv

LEMMA DeleteMissedKeepsInv ==
    ASSUME Inv, NEW w \in Procs, DeleteMissed(w)
    PROVE  Inv'
<1>1. TypeOK'
    BY DEF Inv, TypeOK, Calls, DeleteMissed, Return
<1>2. Calls'
    BY DEF Inv, TypeOK, Calls, Fresh, DoomedOK, Live, DeleteMissed, Return
<1>3. Fresh'
    BY DEF Inv, TypeOK, Calls, Fresh, DeleteMissed, Return
<1>4. DoomedOK'
    BY DEF Inv, TypeOK, Calls, DoomedOK, LiveIds, Live, DeleteMissed, Return
<1>5. OnePlace'
    BY DEF Inv, TypeOK, Calls, OnePlace, Fresh, DeleteMissed, Return
<1>6. RowsTellTheTruth'
    BY DEF Inv, TypeOK, Calls, Fresh, DoomedOK, RowsTellTheTruth, Live, DeleteMissed, Return
<1>7. Due'
    BY DEF Inv, TypeOK, Calls, DoomedOK, Due, LiveIds, Live, DeleteMissed, Return
<1> QED
    BY <1>1, <1>2, <1>3, <1>4, <1>5, <1>6, <1>7 DEF Inv

LEMMA DeleteInsertKeepsInv ==
    ASSUME Inv, NEW w \in Procs, DeleteInsert(w)
    PROVE  Inv'
<1>1. TypeOK'
    BY DEF Inv, TypeOK, Calls, DeleteInsert, Return
<1>2. Calls'
    BY DEF Inv, TypeOK, Calls, Fresh, DoomedOK, Live, DeleteInsert, Return
<1>3. Fresh'
    BY DEF Inv, TypeOK, Calls, Fresh, DeleteInsert, Return
<1>4. DoomedOK'
    BY DEF Inv, TypeOK, Calls, DoomedOK, LiveIds, Live, DeleteInsert, Return
<1>5. OnePlace'
    BY DEF Inv, TypeOK, Calls, OnePlace, Fresh, DeleteInsert, Return
<1>6. RowsTellTheTruth'
    BY DEF Inv, TypeOK, Calls, Fresh, DoomedOK, RowsTellTheTruth, Live, DeleteInsert, Return
<1>7. Due'
    <2>1. id[w] \in Ids /\ row[id[w]].state = "none" /\ id[w] \notin doomed
        BY DEF Inv, Calls, DoomedOK, DeleteInsert
    <2>2. row'[id[w]].age = 0
          /\ \A i \in Ids \ {id[w]} : row'[i] = row[i]
        BY <2>1 DEF Inv, TypeOK, DeleteInsert
    <2>3. /\ doomed \subseteq Ids /\ LiveIds' \subseteq LiveIds \union {id[w]}
          /\ \A i \in Ids : row[i].age \in 0 .. Expired
        BY <2>1, <2>2 DEF Inv, TypeOK, LiveIds, Live
    <2>4. mode' = mode /\ doomed' = doomed
        BY DEF DeleteInsert
    <2>5. ASSUME NEW i \in doomed
          PROVE  i \in Ids /\ row'[i] = row[i] /\ row[i].age >= 0
        <3>1. i \in Ids /\ i # id[w]
            BY <2>1, <2>3
        <3> QED
            BY <3>1, <2>2, <2>3
    <2>6. ASSUME mode = "size", NEW i \in doomed, NEW k \in LiveIds' \ doomed
          PROVE  row'[k].age <= row'[i].age
        <3>1. CASE k = id[w]
            BY <3>1, <2>2, <2>5
        <3>2. CASE k # id[w]
            <4>1. k \in LiveIds \ doomed /\ k \in Ids \ {id[w]}
                BY <3>2, <2>3 DEF LiveIds
            <4> QED
                BY <4>1, <2>2, <2>5, <2>6 DEF Inv, Due
        <3> QED
            BY <3>1, <3>2
    <2> QED
        BY <2>4, <2>5, <2>6 DEF Inv, Due
<1> QED
    BY <1>1, <1>2, <1>3, <1>4, <1>5, <1>6, <1>7 DEF Inv

(* The steps of restore.                                                   *)
LEMMA RestoreBeginKeepsInv ==
    ASSUME Inv, NEW i \in Ids, NEW p \in Paths, NEW force \in BOOLEAN, RestoreBegin(i, p, force)
    PROVE  Inv'
<1>1. TypeOK'
    BY DEF Inv, TypeOK, Calls, RestoreBegin, Idle, Goto
<1>2. Calls'
    BY DEF Inv, TypeOK, Calls, Fresh, DoomedOK, Live, RestoreBegin, Idle, Goto
<1>3. Fresh'
    BY DEF Inv, TypeOK, Calls, Fresh, RestoreBegin, Idle, Goto
<1>4. DoomedOK'
    BY DEF Inv, TypeOK, Calls, DoomedOK, LiveIds, Live, RestoreBegin, Idle, Goto
<1>5. OnePlace'
    BY DEF Inv, TypeOK, Calls, OnePlace, Fresh, RestoreBegin, Idle, Goto
<1>6. RowsTellTheTruth'
    BY DEF Inv, TypeOK, Calls, Fresh, DoomedOK, RowsTellTheTruth, Live, RestoreBegin, Idle, Goto
<1>7. Due'
    BY DEF Inv, TypeOK, Calls, DoomedOK, Due, LiveIds, Live, RestoreBegin, Idle, Goto
<1> QED
    BY <1>1, <1>2, <1>3, <1>4, <1>5, <1>6, <1>7 DEF Inv

LEMMA RestoreUnlinkKeepsInv ==
    ASSUME Inv, RestoreUnlink
    PROVE  Inv'
<1>1. TypeOK'
    BY DEF Inv, TypeOK, Calls, RestoreUnlink, Goto
<1>2. Calls'
    BY DEF Inv, TypeOK, Calls, Fresh, DoomedOK, Live, RestoreUnlink, Goto
<1>3. Fresh'
    BY DEF Inv, TypeOK, Calls, Fresh, RestoreUnlink, Goto
<1>4. DoomedOK'
    BY DEF Inv, TypeOK, Calls, DoomedOK, LiveIds, Live, RestoreUnlink, Goto
<1>5. OnePlace'
    BY DEF Inv, TypeOK, Calls, OnePlace, Fresh, RestoreUnlink, Goto
<1>6. RowsTellTheTruth'
    BY DEF Inv, TypeOK, Calls, Fresh, DoomedOK, RowsTellTheTruth, Live, RestoreUnlink, Goto
<1>7. Due'
    BY DEF Inv, TypeOK, Calls, DoomedOK, Due, LiveIds, Live, RestoreUnlink, Goto
<1> QED
    BY <1>1, <1>2, <1>3, <1>4, <1>5, <1>6, <1>7 DEF Inv

LEMMA RestoreReplaceKeepsInv ==
    ASSUME Inv, RestoreReplace
    PROVE  Inv'
<1>1. TypeOK'
    BY DEF Inv, TypeOK, Calls, RestoreReplace, Goto
<1>2. Calls'
    BY DEF Inv, TypeOK, Calls, Fresh, DoomedOK, Live, RestoreReplace, Goto
<1>3. Fresh'
    BY DEF Inv, TypeOK, Calls, Fresh, RestoreReplace, Goto
<1>4. DoomedOK'
    BY DEF Inv, TypeOK, Calls, DoomedOK, LiveIds, Live, RestoreReplace, Goto
<1>5. OnePlace'
    BY DEF Inv, TypeOK, Calls, OnePlace, Fresh, RestoreReplace, Goto
<1>6. RowsTellTheTruth'
    BY DEF Inv, TypeOK, Calls, Fresh, DoomedOK, RowsTellTheTruth, Live, RestoreReplace, Goto
<1>7. Due'
    BY DEF Inv, TypeOK, Calls, DoomedOK, Due, LiveIds, Live, RestoreReplace, Goto
<1> QED
    BY <1>1, <1>2, <1>3, <1>4, <1>5, <1>6, <1>7 DEF Inv

LEMMA RestoreMissedKeepsInv ==
    ASSUME Inv, RestoreMissed
    PROVE  Inv'
<1>1. TypeOK'
    BY DEF Inv, TypeOK, Calls, RestoreMissed, Return
<1>2. Calls'
    BY DEF Inv, TypeOK, Calls, Fresh, DoomedOK, Live, RestoreMissed, Return
<1>3. Fresh'
    BY DEF Inv, TypeOK, Calls, Fresh, RestoreMissed, Return
<1>4. DoomedOK'
    BY DEF Inv, TypeOK, Calls, DoomedOK, LiveIds, Live, RestoreMissed, Return
<1>5. OnePlace'
    BY DEF Inv, TypeOK, Calls, OnePlace, Fresh, RestoreMissed, Return
<1>6. RowsTellTheTruth'
    BY DEF Inv, TypeOK, Calls, Fresh, DoomedOK, RowsTellTheTruth, Live, RestoreMissed, Return
<1>7. Due'
    BY DEF Inv, TypeOK, Calls, DoomedOK, Due, LiveIds, Live, RestoreMissed, Return
<1> QED
    BY <1>1, <1>2, <1>3, <1>4, <1>5, <1>6, <1>7 DEF Inv

LEMMA RestoreStampKeepsInv ==
    ASSUME Inv, RestoreStamp
    PROVE  Inv'
<1>1. TypeOK'
    BY SMTT(30) DEF Inv, TypeOK, Calls, RestoreStamp, Return
<1>2. Calls'
    BY DEF Inv, TypeOK, Calls, Fresh, DoomedOK, Live, RestoreStamp, Return
<1>3. Fresh'
    BY DEF Inv, TypeOK, Calls, Fresh, RestoreStamp, Return
<1>4. DoomedOK'
    BY DEF Inv, TypeOK, Calls, DoomedOK, LiveIds, Live, RestoreStamp, Return
<1>5. OnePlace'
    BY DEF Inv, TypeOK, Calls, OnePlace, Fresh, RestoreStamp, Return
<1>6. RowsTellTheTruth'
    BY DEF Inv, TypeOK, Calls, Fresh, DoomedOK, RowsTellTheTruth, Live, RestoreStamp, Return
<1>7. Due'
    BY SMTT(30) DEF Inv, TypeOK, Calls, DoomedOK, Due, LiveIds, Live, RestoreStamp, Return
<1> QED
    BY <1>1, <1>2, <1>3, <1>4, <1>5, <1>6, <1>7 DEF Inv

(* The steps of a purge.                                                   *)
LEMMA PurgeSelectKeepsInv ==
    ASSUME Inv, NEW kind \in {"expired", "size", "emergency"},
           NEW ids \in SUBSET LiveIds, PurgeSelect(kind, ids),
           kind = "expired" => \A i \in ids : row[i].age = Expired,
           kind = "emergency" => \A i \in ids : row[i].age >= Week,
           kind = "size" =>
              \A i \in ids, k \in LiveIds \ ids : row[k].age <= row[i].age
    PROVE  Inv'
<1>1. TypeOK'
    BY DEF Inv, TypeOK, Calls, LiveIds, PurgeSelect, Idle, Goto
<1>2. Calls'
    BY DEF Inv, TypeOK, Calls, Fresh, DoomedOK, Live, PurgeSelect, Idle, Goto
<1>3. Fresh'
    BY DEF Inv, TypeOK, Calls, Fresh, PurgeSelect, Idle, Goto
<1>4. DoomedOK'
    BY DEF Inv, TypeOK, Calls, DoomedOK, LiveIds, Live, PurgeSelect, Idle, Goto
<1>5. OnePlace'
    BY DEF Inv, TypeOK, Calls, OnePlace, Fresh, PurgeSelect, Idle, Goto
<1>6. RowsTellTheTruth'
    BY DEF Inv, TypeOK, Calls, Fresh, DoomedOK, RowsTellTheTruth, Live, PurgeSelect, Idle, Goto
<1>7. Due'
    BY DEF Inv, TypeOK, Calls, DoomedOK, Due, LiveIds, Live, PurgeSelect, Idle, Goto
<1> QED
    BY <1>1, <1>2, <1>3, <1>4, <1>5, <1>6, <1>7 DEF Inv

LEMMA PurgeFilesKeepsInv ==
    ASSUME Inv, NEW i \in Ids, PurgeFiles(i)
    PROVE  Inv'
<1>1. TypeOK'
    BY DEF Inv, TypeOK, Calls, PurgeFiles
<1>2. Calls'
    BY DEF Inv, TypeOK, Calls, Fresh, DoomedOK, Live, PurgeFiles
<1>3. Fresh'
    BY DEF Inv, TypeOK, Calls, Fresh, PurgeFiles
<1>4. DoomedOK'
    BY DEF Inv, TypeOK, Calls, DoomedOK, LiveIds, Live, PurgeFiles
<1>5. OnePlace'
    BY DEF Inv, TypeOK, Calls, OnePlace, Fresh, PurgeFiles
<1>6. RowsTellTheTruth'
    BY DEF Inv, TypeOK, Calls, Fresh, DoomedOK, RowsTellTheTruth, Live, PurgeFiles
<1>7. Due'
    BY DEF Inv, TypeOK, Calls, DoomedOK, Due, LiveIds, Live, PurgeFiles
<1> QED
    BY <1>1, <1>2, <1>3, <1>4, <1>5, <1>6, <1>7 DEF Inv

LEMMA PurgeRowsKeepsInv ==
    ASSUME Inv, PurgeRows
    PROVE  Inv'
<1>1. TypeOK'
    BY DEF Inv, TypeOK, Calls, PurgeRows, Return, EndPurge
<1>2. Calls'
    BY DEF Inv, TypeOK, Calls, Fresh, DoomedOK, Live, PurgeRows, Return, EndPurge
<1>3. Fresh'
    BY DEF Inv, TypeOK, Calls, Fresh, PurgeRows, Return, EndPurge
<1>4. DoomedOK'
    BY DEF Inv, TypeOK, Calls, DoomedOK, LiveIds, Live, PurgeRows, Return, EndPurge
<1>5. OnePlace'
    BY DEF Inv, TypeOK, Calls, OnePlace, Fresh, PurgeRows, Return, EndPurge
<1>6. RowsTellTheTruth'
    BY DEF Inv, TypeOK, Calls, Fresh, DoomedOK, RowsTellTheTruth, Live, PurgeRows, Return, EndPurge
<1>7. Due'
    BY DEF Inv, TypeOK, Calls, DoomedOK, Due, LiveIds, Live, PurgeRows, Return, EndPurge
<1> QED
    BY <1>1, <1>2, <1>3, <1>4, <1>5, <1>6, <1>7 DEF Inv

(* What cuts a call short.                                                 *)
LEMMA FaultKeepsInv ==
    ASSUME Inv, NEW w \in Procs, Fault(w)
    PROVE  Inv'
<1>1. TypeOK'
    <2>1. faults' \in 0 .. MaxFaults
        BY DEF Inv, TypeOK, Fault
    <2>2. Open(w) \subseteq Ids
        BY DEF Inv, TypeOK, Calls, Open
    <2>3. /\ doomed' \subseteq Ids /\ left' \subseteq doomed'
          /\ mode' \in {"none", "expired", "size", "emergency"}
        BY DEF Inv, TypeOK, Fault, EndPurge
    <2>4. /\ at' \in [Procs -> {"idle", "move", "insert", "unlink", "replace",
                               "stamp", "files", "rows"}]
          /\ id' \in [Procs -> 0 .. MaxEntries]
          /\ dest' \in [Procs -> Paths \union {NoPath}]
        BY DEF Inv, TypeOK, Fault, Return
    <2>5. torn' \subseteq Ids
        BY <2>2 DEF Inv, TypeOK, Fault
    <2> QED
        BY <2>1, <2>3, <2>4, <2>5 DEF Inv, TypeOK, Fault
<1>2. Calls'
    BY DEF Inv, TypeOK, Calls, Fresh, DoomedOK, Live, Fault, Return, EndPurge, Open
<1>3. Fresh'
    BY DEF Inv, TypeOK, Calls, Fresh, Fault, Return, EndPurge, Open
<1>4. DoomedOK'
    BY DEF Inv, TypeOK, Calls, DoomedOK, LiveIds, Live, Fault, Return, EndPurge, Open
<1>5. OnePlace'
    BY DEF Inv, TypeOK, Calls, OnePlace, Fresh, Fault, Return, EndPurge, Open
<1>6. RowsTellTheTruth'
    BY DEF Inv, TypeOK, Calls, Fresh, DoomedOK, RowsTellTheTruth, Live, Fault, Return, EndPurge, Open
<1>7. Due'
    BY DEF Inv, TypeOK, Calls, DoomedOK, Due, LiveIds, Live, Fault, Return, EndPurge, Open
<1> QED
    BY <1>1, <1>2, <1>3, <1>4, <1>5, <1>6, <1>7 DEF Inv

LEMMA GCDiesKeepsInv ==
    ASSUME Inv, GCDies
    PROVE  Inv'
<1>1. TypeOK'
    <2>1. faults' \in 0 .. MaxFaults
        BY DEF Inv, TypeOK, GCDies
    <2> QED
        BY <2>1 DEF Inv, TypeOK, GCDies
<1>2. Calls'
    BY DEF Inv, TypeOK, Calls, Fresh, DoomedOK, Live, GCDies, Idle
<1>3. Fresh'
    BY DEF Inv, TypeOK, Calls, Fresh, GCDies, Idle
<1>4. DoomedOK'
    BY DEF Inv, TypeOK, Calls, DoomedOK, LiveIds, Live, GCDies, Idle
<1>5. OnePlace'
    BY DEF Inv, TypeOK, Calls, OnePlace, Fresh, GCDies, Idle
<1>6. RowsTellTheTruth'
    BY DEF Inv, TypeOK, Calls, Fresh, DoomedOK, RowsTellTheTruth, Live, GCDies, Idle
<1>7. Due'
    BY DEF Inv, TypeOK, Calls, DoomedOK, Due, LiveIds, Live, GCDies, Idle
<1> QED
    BY <1>1, <1>2, <1>3, <1>4, <1>5, <1>6, <1>7 DEF Inv

LEMMA ExitKeepsInv ==
    ASSUME Inv, Exit
    PROVE  Inv'
<1>1. TypeOK'
    <2>1. exits' \in 0 .. MaxExits
        BY DEF Inv, TypeOK, Exit
    <2>2. Open("gc") \subseteq Ids /\ Open("loop") \subseteq Ids
        BY DEF Inv, TypeOK, Calls, Open
    <2>3. torn' \subseteq Ids
        BY <2>2 DEF Inv, TypeOK, Exit
    <2>4. /\ at' \in [Procs -> {"idle", "move", "insert", "unlink", "replace",
                               "stamp", "files", "rows"}]
          /\ id' \in [Procs -> 0 .. MaxEntries]
          /\ dest' \in [Procs -> Paths \union {NoPath}]
        BY DEF Exit
    <2> QED
        BY <2>1, <2>3, <2>4 DEF Inv, TypeOK, Exit, EndPurge
<1>2. Calls'
    BY DEF Inv, TypeOK, Calls, Fresh, DoomedOK, Live, Exit, EndPurge, Open
<1>3. Fresh'
    BY DEF Inv, TypeOK, Calls, Fresh, Exit, EndPurge, Open
<1>4. DoomedOK'
    BY DEF Inv, TypeOK, Calls, DoomedOK, LiveIds, Live, Exit, EndPurge, Open
<1>5. OnePlace'
    BY DEF Inv, TypeOK, Calls, OnePlace, Fresh, Exit, EndPurge, Open
<1>6. RowsTellTheTruth'
    BY DEF Inv, TypeOK, Calls, Fresh, DoomedOK, RowsTellTheTruth, Live, Exit, EndPurge, Open
<1>7. Due'
    BY DEF Inv, TypeOK, Calls, DoomedOK, Due, LiveIds, Live, Exit, EndPurge, Open
<1> QED
    BY <1>1, <1>2, <1>3, <1>4, <1>5, <1>6, <1>7 DEF Inv

-----------------------------------------------------------------------------
LEMMA PurgeKeepsInv ==
    ASSUME Inv, Purge PROVE Inv'
<1>1. CASE PurgeExpired
    <2>1. {i \in LiveIds : row[i].age = Expired} \in SUBSET LiveIds
        OBVIOUS
    <2> QED
        BY <1>1, <2>1, PurgeSelectKeepsInv DEF PurgeExpired
<1>2. CASE PurgeBySize
    <2>1. PICK ids \in SUBSET LiveIds :
              /\ \A i \in ids, k \in LiveIds \ ids : row[i].age >= row[k].age
              /\ PurgeSelect("size", ids)
        BY <1>2 DEF PurgeBySize
    <2>2. \A i \in Ids : row[i].age \in 0 .. Expired
        BY DEF Inv, TypeOK
    <2>3. \A i \in ids, k \in LiveIds \ ids : row[k].age <= row[i].age
        BY <2>1, <2>2 DEF LiveIds
    <2> QED
        BY <2>1, <2>3, PurgeSelectKeepsInv
<1>3. CASE PurgeEmergency
    <2>1. {i \in LiveIds : row[i].age >= Week} \in SUBSET LiveIds
        OBVIOUS
    <2> QED
        BY <1>3, <2>1, PurgeSelectKeepsInv DEF PurgeEmergency
<1>4. CASE PurgeSteps
    BY <1>4, PurgeFilesKeepsInv, PurgeRowsKeepsInv DEF PurgeSteps
<1> QED
    BY <1>1, <1>2, <1>3, <1>4 DEF Purge

LEMMA InitInv == Init => Inv
<1> SUFFICES ASSUME Init PROVE Inv
    OBVIOUS
<1>1. TypeOK
    BY DEF Init, TypeOK
<1>2. Calls
    BY DEF Init, Calls
<1>3. Fresh /\ DoomedOK /\ OnePlace /\ Due
    BY DEF Init, Fresh, DoomedOK, OnePlace, Due
<1>4. RowsTellTheTruth
    BY DEF Init, RowsTellTheTruth, Live
<1> QED
    BY <1>1, <1>2, <1>3, <1>4 DEF Inv

LEMMA NextKeepsInv ==
    ASSUME Inv, [Next]_vars PROVE Inv'
<1>1. CASE \E p \in Paths : Write(p)
    BY <1>1, WriteKeepsInv
<1>2. CASE Tick
    BY <1>2, TickKeepsInv
<1>3. CASE Delete
    BY <1>3, DeleteBeginKeepsInv, DeleteMoveKeepsInv, DeleteMissedKeepsInv,
       DeleteInsertKeepsInv DEF Delete
<1>4. CASE Restore
    BY <1>4, RestoreBeginKeepsInv, RestoreUnlinkKeepsInv,
       RestoreReplaceKeepsInv, RestoreMissedKeepsInv, RestoreStampKeepsInv
       DEF Restore
<1>5. CASE Purge
    BY <1>5, PurgeKeepsInv
<1>6. CASE (\E w \in Procs : Fault(w)) \/ GCDies \/ Exit
    BY <1>6, FaultKeepsInv, GCDiesKeepsInv, ExitKeepsInv
<1>7. CASE UNCHANGED vars
    <2>1. /\ TypeOK' /\ Calls' /\ Fresh' /\ DoomedOK'
          /\ OnePlace' /\ RowsTellTheTruth' /\ Due'
        BY <1>7 DEF vars, Inv, TypeOK, Calls, Fresh, DoomedOK, OnePlace,
           RowsTellTheTruth, Due, LiveIds, Live
    <2> QED
        BY <2>1 DEF Inv
<1> QED
    BY <1>1, <1>2, <1>3, <1>4, <1>5, <1>6, <1>7 DEF Next

LEMMA SpecInv == Spec => []Inv
<1>1. Inv /\ [Next]_vars => Inv'
    BY NextKeepsInv
<1> QED
    BY InitInv, <1>1, PTL DEF Spec

(* Every variable keeps its type.                                          *)
THEOREM BinTyped == Spec => []TypeOK
<1>1. Inv => TypeOK
    BY DEF Inv
<1> QED
    BY <1>1, SpecInv, PTL

(* No interleaving of deletions, restores and purges, and no exit or fault *)
(* in the middle of one, leaves a content in two places.                   *)
THEOREM OnePlaceAlways == Spec => []OnePlace
<1>1. Inv => OnePlace
    BY DEF Inv
<1> QED
    BY <1>1, SpecInv, PTL

(* Rows and files of the bin agree, but for a call under way and for what  *)
(* an exit or a fault tore.                                                *)
THEOREM RowsTruthful == Spec => []RowsTellTheTruth
<1>1. Inv => RowsTellTheTruth
    BY DEF Inv
<1> QED
    BY <1>1, SpecInv, PTL

-----------------------------------------------------------------------------
(* What a step takes out of the bin for good.  Only two steps empty a      *)
(* slot, and a restore puts what it takes on a path.                       *)
LEMMA TakesOnlyWhatIsDue ==
    ASSUME Inv, Next PROVE PurgeJustifiedStep
<1> SUFFICES ASSUME NEW i \in Ids, slot[i] # Nothing, slot'[i] = Nothing,
                    \A p \in Paths : disk'[p] # slot[i]
             PROVE  /\ Live(i) /\ i \in doomed
                    /\ mode = "expired" => row[i].age = Expired
                    /\ mode = "emergency" => row[i].age >= Week
                    /\ mode = "size" =>
                          \A k \in LiveIds \ doomed : row[k].age <= row[i].age
    BY DEF PurgeJustifiedStep
<1>1. slot' # slot
    OBVIOUS
<1>2. CASE PurgeFiles(i)
    <2>1. i \in doomed
        BY <1>2 DEF PurgeFiles, Inv, TypeOK
    <2>2. Live(i)
        BY <2>1 DEF Inv, TypeOK, DoomedOK, Fresh, Live
    <2> QED
        BY <2>1, <2>2 DEF Inv, Due
<1>3. CASE \E k \in Ids \ {i} : PurgeFiles(k)
    BY <1>3 DEF PurgeFiles, Inv, TypeOK
<1>4. CASE RestoreReplace
    <2>1. id["loop"] \in Ids /\ dest["loop"] \in Paths
        BY <1>4 DEF RestoreReplace, Inv, Calls
    <2>2. i = id["loop"]
        BY <1>4, <2>1 DEF RestoreReplace, Inv, TypeOK
    <2>3. disk'[dest["loop"]] = slot[i]
        BY <1>4, <2>1, <2>2 DEF RestoreReplace, Inv, TypeOK
    <2> QED
        BY <2>1, <2>3
<1>5. CASE \E w \in Procs : DeleteMove(w)
    <2>1. PICK w \in Procs : DeleteMove(w)
        BY <1>5
    <2>2. id[w] \in Ids /\ slot[id[w]] = Nothing
        BY <2>1 DEF DeleteMove, Inv, Calls
    <2> QED
        BY <2>1, <2>2 DEF DeleteMove, Inv, TypeOK
<1> QED
    BY <1>1, <1>2, <1>3, <1>4, <1>5 DEF Next, Write, Tick, Delete, DeleteBegin,
       DeleteMissed, DeleteInsert, Restore, RestoreBegin, RestoreUnlink,
       RestoreMissed, RestoreStamp, Purge, PurgeSteps, PurgeExpired,
       PurgeBySize, PurgeEmergency, PurgeSelect, PurgeRows, Fault, GCDies, Exit

(* A purge takes only what is still due when it takes it.                  *)
THEOREM PurgesJustified == Spec => PurgeJustified
<1>1. Inv /\ [Next]_vars => [PurgeJustifiedStep]_vars
    BY TakesOnlyWhatIsDue
<1> QED
    BY <1>1, SpecInv, PTL DEF Spec, PurgeJustified

-----------------------------------------------------------------------------
(* The refinement of FileCustody.                                          *)
LEMMA WhereAt ==
    ASSUME NEW f \in Files
    PROVE  /\ Where[f] = IF f > written THEN "unborn"
                         ELSE IF OnPath(f) THEN "out"
                         ELSE IF InSlot(f) THEN "held" ELSE "gone"
           /\ Where'[f] = IF f > written' THEN "unborn"
                          ELSE IF OnPath(f)' THEN "out"
                          ELSE IF InSlot(f)' THEN "held" ELSE "gone"
    BY DEF Where

LEMMA WhereStays ==
    ASSUME UNCHANGED <<disk, slot, written>> PROVE Where' = Where
    BY DEF Where, OnPath, InSlot

(* A step that changes the place of one content is a Goes step.            *)
LEMMA OneGoes ==
    ASSUME NEW f \in Files, NEW from, NEW to,
           Where[f] = from, Where'[f] = to,
           \A g \in Files \ {f} : Where'[g] = Where[g]
    PROVE  Custody!Goes(f, from, to)
<1>1. Where' = [Where EXCEPT ![f] = to]
    BY DEF Where
<1> QED
    BY <1>1 DEF Custody!Goes

LEMMA WriteCreates ==
    ASSUME Inv, NEW p \in Paths, Write(p) PROVE Custody!CustodyNext
<1>1. PICK f \in Files : f = written + 1
    BY DEF Inv, TypeOK, Write
<1>2. /\ written' = f /\ slot' = slot /\ f > written /\ ~(f > written')
      /\ disk'[p] = f /\ \A q \in Paths \ {p} : disk'[q] = disk[q]
      /\ disk[p] = Nothing
      /\ \A g \in Files \ {f} : (g > written') = (g > written)
    BY <1>1 DEF Inv, TypeOK, Write
<1>3. OnPath(f)'
    BY <1>2 DEF OnPath
<1>4. ASSUME NEW g \in Files \ {f}
      PROVE  (OnPath(g))' = OnPath(g) /\ (InSlot(g))' = InSlot(g)
    <2>1. g # Nothing
        OBVIOUS
    <2> QED
        BY <1>2, <2>1 DEF OnPath, InSlot
<1>5. Where[f] = "unborn" /\ Where'[f] = "out"
    BY <1>2, <1>3, WhereAt
<1>6. \A g \in Files \ {f} : Where'[g] = Where[g]
    BY <1>2, <1>4, WhereAt
<1>7. Custody!Create(f)
    BY <1>5, <1>6, OneGoes DEF Custody!Create
<1> QED
    BY <1>7 DEF Custody!CustodyNext

LEMMA DeleteMoveBins ==
    ASSUME Inv, NEW w \in Procs, DeleteMove(w) PROVE Custody!CustodyNext
<1>1. PICK i \in Ids, x \in Paths, f \in Files :
          i = id[w] /\ x = dest[w] /\ f = disk[x]
    BY DEF Inv, TypeOK, Calls, DeleteMove
<1>2. /\ f <= written /\ written' = written /\ written \in Nat
      /\ slot[i] = Nothing /\ f # Nothing
    BY <1>1 DEF Inv, TypeOK, Calls, Fresh, DeleteMove
<1>3. /\ disk'[x] = Nothing /\ \A p \in Paths \ {x} : disk'[p] = disk[p]
      /\ slot'[i] = f /\ \A k \in Ids \ {i} : slot'[k] = slot[k]
    BY <1>1 DEF Inv, TypeOK, DeleteMove
<1>4. \A p \in Paths \ {x} : disk[p] # f
    BY <1>1, <1>2 DEF Inv, OnePlace
<1>5. OnPath(f) /\ ~OnPath(f)' /\ InSlot(f)'
    BY <1>1, <1>2, <1>3, <1>4 DEF OnPath, InSlot
<1>6. ASSUME NEW g \in Files \ {f}
      PROVE  (OnPath(g))' = OnPath(g) /\ (InSlot(g))' = InSlot(g)
    <2>1. g # Nothing
        OBVIOUS
    <2> QED
        BY <1>1, <1>2, <1>3, <2>1 DEF OnPath, InSlot
<1>7. ~(f > written)
    BY <1>2
<1>8. Where[f] = "out" /\ Where'[f] = "held"
    BY <1>2, <1>5, <1>7, WhereAt
<1>9. \A g \in Files \ {f} : Where'[g] = Where[g]
    BY <1>2, <1>6, WhereAt
<1>10. Custody!Bin(f)
    BY <1>8, <1>9, OneGoes DEF Custody!Bin
<1> QED
    BY <1>10 DEF Custody!CustodyNext

(* A step that only takes away the file at one path.                       *)
LEMMA RestoreUnlinkDisplaces ==
    ASSUME Inv, RestoreUnlink PROVE Custody!CustodyNext \/ Where' = Where
<1>1. PICK x \in Paths : x = dest["loop"]
    BY DEF Inv, Calls, RestoreUnlink
<1>2. /\ slot' = slot /\ written' = written /\ written \in Nat
      /\ disk'[x] = Nothing /\ \A p \in Paths \ {x} : disk'[p] = disk[p]
    BY <1>1 DEF Inv, TypeOK, RestoreUnlink
<1>3. CASE disk[x] = Nothing
    <2>1. disk' = disk
        BY <1>1, <1>3 DEF Inv, TypeOK, RestoreUnlink
    <2> QED
        BY <1>2, <2>1, WhereStays
<1>4. CASE disk[x] # Nothing
    <2>1. PICK f \in Files : f = disk[x]
        BY <1>4 DEF Inv, TypeOK
    <2>2. f <= written /\ f # Nothing
        BY <2>1 DEF Inv, Fresh
    <2>3. /\ \A p \in Paths \ {x} : disk[p] # f
          /\ \A i \in Ids : slot[i] # f
        BY <2>1, <2>2 DEF Inv, OnePlace
    <2>4. OnPath(f) /\ ~OnPath(f)' /\ ~InSlot(f)'
        BY <1>2, <2>1, <2>2, <2>3 DEF OnPath, InSlot
    <2>5. ASSUME NEW g \in Files \ {f}
          PROVE  (OnPath(g))' = OnPath(g) /\ (InSlot(g))' = InSlot(g)
        <3>1. g # Nothing
            OBVIOUS
        <3> QED
            BY <1>2, <2>1, <3>1 DEF OnPath, InSlot
    <2>6. ~(f > written)
        BY <1>2, <2>2
    <2>7. Where[f] = "out" /\ Where'[f] = "gone"
        BY <1>2, <2>4, <2>6, WhereAt
    <2>8. \A g \in Files \ {f} : Where'[g] = Where[g]
        BY <1>2, <2>5, WhereAt
    <2>9. Custody!Displace(f)
        BY <2>7, <2>8, OneGoes DEF Custody!Displace
    <2> QED
        BY <2>9 DEF Custody!CustodyNext
<1> QED
    BY <1>3, <1>4

LEMMA RestoreReplaceRestores ==
    ASSUME Inv, RestoreReplace PROVE Custody!CustodyNext
<1>1. PICK i \in Ids, x \in Paths, f \in Files :
          i = id["loop"] /\ x = dest["loop"] /\ f = slot[i]
    BY DEF Inv, TypeOK, Calls, RestoreReplace
<1>2. /\ f <= written /\ f # Nothing /\ written' = written /\ written \in Nat
      /\ disk'[x] = f /\ \A p \in Paths \ {x} : disk'[p] = disk[p]
      /\ slot'[i] = Nothing /\ \A k \in Ids \ {i} : slot'[k] = slot[k]
    BY <1>1 DEF Inv, TypeOK, Fresh, RestoreReplace
<1>3. /\ \A p \in Paths : disk[p] # f
      /\ \A k \in Ids \ {i} : slot[k] # f
    BY <1>1, <1>2 DEF Inv, OnePlace
<1>4. ~OnPath(f) /\ InSlot(f) /\ OnPath(f)' /\ ~InSlot(f)'
    BY <1>1, <1>2, <1>3 DEF OnPath, InSlot
<1>5. ~(f > written)
    BY <1>2
<1>6. Where[f] = "held" /\ Where'[f] = "out"
    BY <1>2, <1>4, <1>5, WhereAt
<1>7. ASSUME NEW h \in Files \ {f}, h # disk[x]
      PROVE  Where'[h] = Where[h]
    <2>1. h # Nothing
        OBVIOUS
    <2>2. (OnPath(h))' = OnPath(h) /\ (InSlot(h))' = InSlot(h)
        BY <1>1, <1>2, <1>7, <2>1 DEF OnPath, InSlot
    <2> QED
        BY <1>2, <2>2, WhereAt
<1>8. CASE disk[x] = Nothing
    <2>1. \A h \in Files \ {f} : Where'[h] = Where[h]
        BY <1>7, <1>8
    <2>2. Custody!Restore(f)
        BY <1>6, <2>1, OneGoes DEF Custody!Restore
    <2> QED
        BY <2>2 DEF Custody!CustodyNext
<1>9. CASE disk[x] # Nothing
    <2>1. PICK g \in Files : g = disk[x]
        BY <1>9 DEF Inv, TypeOK
    <2>2. g # f /\ g # Nothing /\ g <= written
        BY <1>3, <2>1 DEF Inv, Fresh
    <2>3. /\ \A p \in Paths \ {x} : disk[p] # g
          /\ \A k \in Ids : slot[k] # g
        BY <2>1, <2>2 DEF Inv, OnePlace
    <2>4. OnPath(g) /\ ~OnPath(g)' /\ ~InSlot(g)'
        BY <1>2, <2>1, <2>2, <2>3 DEF OnPath, InSlot
    <2>5. ~(g > written)
        BY <1>2, <2>2
    <2>6. Where[g] = "out" /\ Where'[g] = "gone"
        BY <1>2, <2>4, <2>5, WhereAt
    <2>7. \A h \in Files \ {f, g} : Where'[h] = Where[h]
        BY <1>7, <2>1
    <2>8. Where' = [Where EXCEPT ![f] = "out", ![g] = "gone"]
        BY <1>6, <2>2, <2>6, <2>7 DEF Where
    <2>9. Custody!RestoreOver(f, g)
        BY <1>6, <2>6, <2>8 DEF Custody!RestoreOver
    <2> QED
        BY <2>9 DEF Custody!CustodyNext
<1> QED
    BY <1>8, <1>9

LEMMA PurgeFilesPurges ==
    ASSUME Inv, NEW i \in Ids, PurgeFiles(i)
    PROVE  Custody!CustodyNext \/ Where' = Where
<1>1. /\ disk' = disk /\ written' = written /\ written \in Nat
      /\ slot'[i] = Nothing /\ \A k \in Ids \ {i} : slot'[k] = slot[k]
    BY DEF Inv, TypeOK, PurgeFiles
<1>2. CASE slot[i] = Nothing
    <2>1. slot' = slot
        BY <1>2 DEF Inv, TypeOK, PurgeFiles
    <2> QED
        BY <1>1, <2>1, WhereStays
<1>3. CASE slot[i] # Nothing
    <2>1. PICK f \in Files : f = slot[i]
        BY <1>3 DEF Inv, TypeOK
    <2>2. f <= written /\ f # Nothing
        BY <2>1 DEF Inv, Fresh
    <2>3. /\ \A p \in Paths : disk[p] # f
          /\ \A k \in Ids \ {i} : slot[k] # f
        BY <2>1, <2>2 DEF Inv, OnePlace
    <2>4. ~OnPath(f) /\ InSlot(f) /\ ~OnPath(f)' /\ ~InSlot(f)'
        BY <1>1, <2>1, <2>2, <2>3 DEF OnPath, InSlot
    <2>5. ASSUME NEW g \in Files \ {f}
          PROVE  (OnPath(g))' = OnPath(g) /\ (InSlot(g))' = InSlot(g)
        <3>1. g # Nothing
            OBVIOUS
        <3> QED
            BY <1>1, <2>1, <3>1 DEF OnPath, InSlot
    <2>6. ~(f > written)
        BY <1>1, <2>2
    <2>7. Where[f] = "held" /\ Where'[f] = "gone"
        BY <1>1, <2>4, <2>6, WhereAt
    <2>8. \A g \in Files \ {f} : Where'[g] = Where[g]
        BY <1>1, <2>5, WhereAt
    <2>9. Custody!Purge(f)
        BY <2>7, <2>8, OneGoes DEF Custody!Purge
    <2> QED
        BY <2>9 DEF Custody!CustodyNext
<1> QED
    BY <1>2, <1>3

(* Every other step leaves files and slots as they are.                    *)
LEMMA NextRefines ==
    ASSUME Inv, [Next]_vars PROVE [Custody!CustodyNext]_Where
<1>1. CASE \E p \in Paths : Write(p)
    BY <1>1, WriteCreates
<1>2. CASE \E w \in Procs : DeleteMove(w)
    BY <1>2, DeleteMoveBins
<1>3. CASE RestoreUnlink
    BY <1>3, RestoreUnlinkDisplaces
<1>4. CASE RestoreReplace
    BY <1>4, RestoreReplaceRestores
<1>5. CASE \E i \in Ids : PurgeFiles(i)
    BY <1>5, PurgeFilesPurges
<1>6. CASE UNCHANGED <<disk, slot, written>>
    BY <1>6, WhereStays
<1> QED
    BY <1>1, <1>2, <1>3, <1>4, <1>5, <1>6 DEF Next, Tick, Delete, DeleteBegin,
       DeleteMissed, DeleteInsert, Restore, RestoreBegin,
       RestoreMissed, RestoreStamp, Purge, PurgeSteps, PurgeExpired,
       PurgeBySize, PurgeEmergency, PurgeSelect, PurgeRows, Fault, GCDies,
       Exit, vars

(* The bin keeps the promise of FileCustody, whatever crosses or fails.    *)
THEOREM BinKeepsCustody == Spec => ImplementsCustody
<1>1. Init => Custody!CustodyInit
    BY DEF Init, Custody!CustodyInit, Where
<1>2. Inv /\ [Next]_vars => [Custody!CustodyNext]_Where
    BY NextRefines
<1> QED
    BY <1>1, <1>2, SpecInv, PTL DEF Spec, ImplementsCustody, Custody!CustodySpec
=============================================================================
