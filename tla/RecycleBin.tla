----------------------------- MODULE RecycleBin -----------------------------
(***************************************************************************)
(* The recycle bin (backend/security/recycle_bin.py) and the two tasks     *)
(* that fill and empty it: the garbage collector, whose every task runs in *)
(* a thread (backend/core/gc.py), and the code of the event loop, which    *)
(* deletes old job directories (backend/security/data_protection.py) and   *)
(* restores files.                                                         *)
(*                                                                         *)
(* Files and rows of recycle_bin change in separate steps, so a step of    *)
(* the model is one file operation or one committed statement.  `at' says  *)
(* between which two of them a process is.  Files and rows survive a       *)
(* crash; at, id, dest, doomed and left do not.                            *)
(***************************************************************************)
EXTENDS Integers, FiniteSets

CONSTANTS
    Paths,        \* places in the workspace where a file can be
    MaxFiles,     \* bound: contents ever written; numbered as they appear
    MaxEntries,   \* bound: entries ever begun; numbered likewise
    MaxKept,      \* MAX_SIZE_GB, in files
    MaxExits,     \* bound: exits of the process
    MaxFaults,    \* bound: failing file operations and statements
    NoPath        \* no member of Paths

ASSUME BoundsAssumption ==
    /\ MaxFiles \in Nat /\ MaxEntries \in Nat /\ MaxKept \in Nat
    /\ MaxExits \in Nat /\ MaxFaults \in Nat /\ NoPath \notin Paths

Files   == 1 .. MaxFiles
Ids     == 1 .. MaxEntries
Nothing == 0

VARIABLES
    disk,              \* disk[p]: the content at p, or Nothing
    slot,              \* slot[i]: the content in .recycle/i, or Nothing
    row,               \* row[i]: the row of entry i in recycle_bin
    written, begun,    \* contents written and entries begun so far
    at, id, dest,      \* per process: where it is, on which entry and path
    mode, doomed, left,\* the purge under way: its kind, its entries, and
                       \* those whose files are still to be removed
    gcUp,              \* GCWorker's loop runs
    torn,              \* history: entries that an exit or a fault left half done
    exits, faults

store   == <<disk, slot, row, written>>
purge   == <<mode, doomed, left>>
failing == <<torn, exits, faults, gcUp>>
vars    == <<store, begun, at, id, dest, purge, failing>>

Procs == {"gc", "loop"}

(* Age of an entry: fresh, past the week of the emergency purge, past      *)
(* RETENTION_DAYS.                                                         *)
Week    == 1
Expired == 2
NoRow   == [age |-> 0, state |-> "none"]
Rows    == [age : 0 .. Expired, state : {"live", "restored"}]

(* Types.                                                                  *)
TypeOK ==
    /\ disk \in [Paths -> Files \union {Nothing}]
    /\ slot \in [Ids -> Files \union {Nothing}]
    /\ row \in [Ids -> Rows \union {NoRow}]
    /\ written \in 0 .. MaxFiles /\ begun \in 0 .. MaxEntries
    /\ at \in [Procs -> {"idle", "move", "insert", "unlink", "replace",
                         "stamp", "files", "rows"}]
    /\ id \in [Procs -> 0 .. MaxEntries] /\ dest \in [Procs -> Paths \union {NoPath}]
    /\ mode \in {"none", "expired", "size", "emergency"}
    /\ doomed \subseteq Ids /\ left \subseteq doomed
    /\ gcUp \in BOOLEAN /\ torn \subseteq Ids
    /\ exits \in 0 .. MaxExits /\ faults \in 0 .. MaxFaults

Init ==
    /\ disk = [p \in Paths |-> Nothing]
    /\ slot = [i \in Ids |-> Nothing]
    /\ row = [i \in Ids |-> NoRow]
    /\ written = 0 /\ begun = 0
    /\ at = [w \in Procs |-> "idle"]
    /\ id = [w \in Procs |-> 0]
    /\ dest = [w \in Procs |-> NoPath]
    /\ mode = "none" /\ doomed = {} /\ left = {}
    /\ gcUp = TRUE /\ torn = {} /\ exits = 0 /\ faults = 0

-----------------------------------------------------------------------------
Live(i) == row[i].state = "live"
LiveIds == {i \in Ids : Live(i)}

Idle(w) == at[w] = "idle" /\ (w = "gc" => gcUp)
Goto(w, where) == at' = [at EXCEPT ![w] = where]

(* A call ends: its locals are gone.                                       *)
Return(w) ==
    /\ at' = [at EXCEPT ![w] = "idle"]
    /\ id' = [id EXCEPT ![w] = 0]
    /\ dest' = [dest EXCEPT ![w] = NoPath]
EndPurge == mode' = "none" /\ doomed' = {} /\ left' = {}

(* A job or one of its tools writes a new file.                            *)
Write(p) ==
    /\ written < MaxFiles /\ disk[p] = Nothing
    /\ written' = written + 1
    /\ disk' = [disk EXCEPT ![p] = written + 1]
    /\ UNCHANGED <<slot, row, begun, at, id, dest, purge, failing>>

MutantTick ==
    /\ LiveIds # {}
    /\ row' = [i \in Ids |->
                IF Live(i) THEN [row[i] EXCEPT !.age = @ + 1] ELSE row[i]]
    /\ UNCHANGED <<disk, slot, written, begun, at, id, dest, purge, failing>>
(* A day passes for every entry; ages saturate.                            *)
Tick ==
    /\ \E i \in LiveIds : row[i].age < Expired
    /\ row' = [i \in Ids |->
                IF row[i].state # "none" /\ row[i].age < Expired
                THEN [row[i] EXCEPT !.age = @ + 1] ELSE row[i]]
    /\ UNCHANGED <<disk, slot, written, begun, at, id, dest, purge, failing>>

-----------------------------------------------------------------------------
(* safe_delete.  The file exists; the slot of a new entry is made and the  *)
(* file is hashed.                                                         *)
MutantDeleteBegin(w, p) ==
    /\ Idle(w) /\ disk[p] # Nothing /\ begun < MaxEntries
    /\ begun' = begun + 1
    /\ Goto(w, "move")
    /\ id' = [id EXCEPT ![w] = 1]
    /\ dest' = [dest EXCEPT ![w] = p]
    /\ UNCHANGED <<store, purge, failing>>
DeleteBegin(w, p) ==
    /\ Idle(w) /\ disk[p] # Nothing /\ begun < MaxEntries
    /\ begun' = begun + 1
    /\ Goto(w, "move")
    /\ id' = [id EXCEPT ![w] = begun + 1]
    /\ dest' = [dest EXCEPT ![w] = p]
    /\ UNCHANGED <<store, purge, failing>>

MutantDeleteCopies(w) ==
    /\ at[w] = "move" /\ disk[dest[w]] # Nothing
    /\ slot' = [slot EXCEPT ![id[w]] = disk[dest[w]]]
    /\ Goto(w, "insert")
    /\ UNCHANGED <<disk, row, written, begun, id, dest, purge, failing>>
DeleteMove(w) ==
    /\ at[w] = "move" /\ disk[dest[w]] # Nothing
    /\ slot' = [slot EXCEPT ![id[w]] = disk[dest[w]]]
    /\ disk' = [disk EXCEPT ![dest[w]] = Nothing]
    /\ Goto(w, "insert")
    /\ UNCHANGED <<row, written, begun, id, dest, purge, failing>>

(* The other process took the file first: the move raises, and both        *)
(* callers log the error and go on with the next file.                     *)
DeleteMissed(w) ==
    /\ at[w] = "move" /\ disk[dest[w]] = Nothing
    /\ Return(w)
    /\ UNCHANGED <<store, begun, purge, failing>>

DeleteInsert(w) ==
    /\ at[w] = "insert"
    /\ row' = [row EXCEPT ![id[w]] = [age |-> 0, state |-> "live"]]
    /\ Return(w)
    /\ UNCHANGED <<disk, slot, written, begun, purge, failing>>

-----------------------------------------------------------------------------
(* restore, to the original path or to another one.  With force, a file    *)
(* that is seen at the destination is unlinked before the move.            *)
RestoreBegin(i, p, force) ==
    /\ Idle("loop") /\ Live(i) /\ slot[i] # Nothing
    /\ disk[p] # Nothing => force
    /\ Goto("loop", IF disk[p] # Nothing THEN "unlink" ELSE "replace")
    /\ id' = [id EXCEPT !["loop"] = i]
    /\ dest' = [dest EXCEPT !["loop"] = p]
    /\ UNCHANGED <<store, begun, purge, failing>>

RestoreUnlink ==
    /\ at["loop"] = "unlink" /\ disk[dest["loop"]] # Nothing
    /\ disk' = [disk EXCEPT ![dest["loop"]] = Nothing]
    /\ Goto("loop", "replace")
    /\ UNCHANGED <<slot, row, written, begun, id, dest, purge, failing>>

(* os.replace overwrites what appeared at the destination meanwhile.       *)
RestoreReplace ==
    /\ at["loop"] = "replace" /\ slot[id["loop"]] # Nothing
    /\ disk' = [disk EXCEPT ![dest["loop"]] = slot[id["loop"]]]
    /\ slot' = [slot EXCEPT ![id["loop"]] = Nothing]
    /\ Goto("loop", "stamp")
    /\ UNCHANGED <<row, written, begun, id, dest, purge, failing>>

(* A deletion took the file at the destination since it was seen: unlink   *)
(* raises.  A purge removed the slot since the check: both moves raise.    *)
RestoreMissed ==
    /\ \/ at["loop"] = "unlink" /\ disk[dest["loop"]] = Nothing
       \/ at["loop"] = "replace" /\ slot[id["loop"]] = Nothing
    /\ Return("loop")
    /\ UNCHANGED <<store, begun, purge, failing>>

(* The UPDATE matches no row when a purge deleted it meanwhile.            *)
RestoreStamp ==
    /\ at["loop"] = "stamp"
    /\ row' = IF Live(id["loop"])
              THEN [row EXCEPT ![id["loop"]].state = "restored"] ELSE row
    /\ Return("loop")
    /\ UNCHANGED <<disk, slot, written, begun, purge, failing>>

-----------------------------------------------------------------------------
(* The purges.  Each selects its entries first, ...                        *)
PurgeSelect(kind, ids) ==
    /\ Idle("gc") /\ ids # {}
    /\ mode' = kind /\ doomed' = ids /\ left' = ids
    /\ Goto("gc", "files")
    /\ UNCHANGED <<store, begun, id, dest, failing>>

MutantPurgeExpired ==
    PurgeSelect("expired", {i \in LiveIds : row[i].age >= Week})
MutantPurgeSkipsMissing ==
    PurgeSelect("expired",
                {i \in LiveIds : row[i].age = Expired /\ slot[i] # Nothing})
PurgeExpired ==
    PurgeSelect("expired", {i \in LiveIds : row[i].age = Expired})

(* ... the size limit from the oldest on, as few as are needed, ...        *)
PurgeBySize ==
    \E ids \in SUBSET LiveIds :
        /\ Cardinality(LiveIds \ ids) = MaxKept
        /\ \A i \in ids, k \in LiveIds \ ids : row[i].age >= row[k].age
        /\ PurgeSelect("size", ids)

PurgeEmergency ==
    PurgeSelect("emergency", {i \in LiveIds : row[i].age >= Week})

(* ... then removes their slots one by one, ...                            *)
PurgeFiles(i) ==
    /\ at["gc"] = "files" /\ i \in left
    /\ slot' = [slot EXCEPT ![i] = Nothing]
    /\ left' = left \ {i}
    /\ at' = [at EXCEPT !["gc"] = IF left = {i} THEN "rows" ELSE "files"]
    /\ UNCHANGED <<disk, row, written, begun, id, dest, mode, doomed, failing>>

MutantPurgeRows ==
    /\ at["gc"] = "rows"
    /\ EndPurge
    /\ Return("gc")
    /\ UNCHANGED <<store, begun, failing>>
(* ... and deletes their rows in one statement, whatever became of them.   *)
PurgeRows ==
    /\ at["gc"] = "rows"
    /\ row' = [i \in Ids |-> IF i \in doomed THEN NoRow ELSE row[i]]
    /\ EndPurge
    /\ Return("gc")
    /\ UNCHANGED <<disk, slot, written, begun, failing>>

-----------------------------------------------------------------------------
(* The entries a process is in the middle of.                              *)
Open(w) ==
    IF at[w] \in {"insert", "stamp"} THEN {id[w]}
    ELSE IF at[w] \in {"files", "rows"} THEN doomed
    ELSE {}

(* A statement finds the database locked or a file operation fails: the    *)
(* call raises and its caller logs the error.                              *)
Fault(w) ==
    /\ faults < MaxFaults
    /\ at[w] # "idle"
    /\ faults' = faults + 1
    /\ torn' = torn \union Open(w)
    /\ Return(w)
    /\ IF w = "gc" THEN EndPurge ELSE UNCHANGED purge
    /\ UNCHANGED <<store, begun, exits, gcUp>>

(* The queries of the cleanups are outside any handler: an error there     *)
(* leaves GCWorker.start, and nothing starts it again.                     *)
GCDies ==
    /\ faults < MaxFaults /\ Idle("gc")
    /\ faults' = faults + 1 /\ gcUp' = FALSE
    /\ UNCHANGED <<store, begun, at, id, dest, purge, torn, exits>>

(* The process exits in the middle of anything and is started again.       *)
Exit ==
    /\ exits < MaxExits
    /\ exits' = exits + 1 /\ gcUp' = TRUE
    /\ torn' = torn \union Open("gc") \union Open("loop")
    /\ at' = [w \in Procs |-> "idle"] /\ id' = [w \in Procs |-> 0]
    /\ dest' = [w \in Procs |-> NoPath] /\ EndPurge
    /\ UNCHANGED <<store, begun, faults>>

Delete ==
    \E w \in Procs :
        \/ \E p \in Paths : DeleteBegin(w, p)
        \/ DeleteMove(w) \/ DeleteMissed(w) \/ DeleteInsert(w)

Restore ==
    \/ \E i \in Ids, p \in Paths, force \in BOOLEAN : RestoreBegin(i, p, force)
    \/ RestoreUnlink \/ RestoreReplace \/ RestoreMissed \/ RestoreStamp

PurgeSteps ==
    \/ \E i \in Ids : PurgeFiles(i)
    \/ PurgeRows

Purge == PurgeExpired \/ PurgeBySize \/ PurgeEmergency \/ PurgeSteps

Next ==
    \/ \E p \in Paths : Write(p)
    \/ Tick \/ Delete \/ Restore \/ Purge
    \/ \E w \in Procs : Fault(w)
    \/ GCDies \/ Exit

(* Days pass, a deletion or purge that has begun goes on, and the daily    *)
(* run of the collector comes round as long as its loop runs.  Nobody has  *)
(* to delete, restore, fill the bin or fail.                               *)
Fairness ==
    /\ WF_vars(Tick)
    /\ WF_vars(\E w \in Procs : DeleteMove(w) \/ DeleteMissed(w) \/ DeleteInsert(w))
    /\ WF_vars(PurgeSteps)
    /\ WF_vars(PurgeExpired)

Spec == Init /\ [][Next]_vars /\ Fairness

-----------------------------------------------------------------------------
(* A content is never in two places: not after a restore and a deletion    *)
(* that cross, and not after an exit between two steps of either.          *)
OnePlace ==
    /\ \A p, q \in Paths : disk[p] = disk[q] /\ disk[p] # Nothing => p = q
    /\ \A i, k \in Ids : slot[i] = slot[k] /\ slot[i] # Nothing => i = k
    /\ \A p \in Paths, i \in Ids : disk[p] = slot[i] => slot[i] = Nothing

(* The table tells the truth about the bin: but for the entries that an    *)
(* exit or a fault tore, a live row lacks its file only while the purge or *)
(* the restore that took it has still to record it, and a file lacks its   *)
(* live row only while safe_delete has still to insert it.                 *)
RowsTellTheTruth ==
    \A i \in Ids \ torn :
        /\ Live(i) /\ slot[i] = Nothing =>
              i \in doomed \ left \/ (at["loop"] = "stamp" /\ id["loop"] = i)
        /\ slot[i] # Nothing /\ ~Live(i) =>
              \E w \in Procs : at[w] = "insert" /\ id[w] = i

OnPath(f) == \E p \in Paths : disk[p] = f

(* A content that leaves the bin without reaching a path was due when it   *)
(* was removed, however long ago the purge selected it: its retention was  *)
(* over, or the week of the emergency purge, or no entry that the size     *)
(* limit keeps is older.                                                   *)
PurgeJustifiedStep ==
    \A i \in Ids :
        /\ slot[i] # Nothing /\ slot'[i] = Nothing
        /\ \A p \in Paths : disk'[p] # slot[i]
        =>
        /\ Live(i) /\ i \in doomed
        /\ mode = "expired" => row[i].age = Expired
        /\ mode = "emergency" => row[i].age >= Week
        /\ mode = "size" =>
              \A k \in LiveIds \ doomed : row[k].age <= row[i].age
PurgeJustified == [][PurgeJustifiedStep]_vars

(* As long as the collector's loop runs, no entry stays for ever: not one  *)
(* whose row an exit or a fault left without its file either.              *)
BinEmpties ==
    <>[]gcUp => \A i \in Ids : Live(i) ~> ~Live(i)

InSlot(f) == \E i \in Ids : slot[i] = f

Where ==
    [f \in Files |->
        IF f > written THEN "unborn"
        ELSE IF OnPath(f) THEN "out"
        ELSE IF InSlot(f) THEN "held"
        ELSE "gone"]

Custody == INSTANCE FileCustody WITH where <- Where

(* Whatever crosses, the bin keeps the promise of FileCustody.             *)
ImplementsCustody == Custody!CustodySpec
=============================================================================
