--------------------------- MODULE EmbeddedStore ----------------------------
(***************************************************************************)
(* The embedded document store (internal/platform/store/store.go) of a     *)
(* service without a database: one collection in memory, a secondary index *)
(* on one field, and a file rewritten on every write or, debounced, by a   *)
(* timer.  Every operation holds the store's mutex, so it is one step; the *)
(* timer's flush and a crash come between any two.                         *)
(***************************************************************************)
EXTENDS Integers

CONSTANTS
  Ids,
  Values,      \* non-empty values of the indexed field
  None,        \* no document
  Blank,       \* a document whose field is missing, empty or no string
  MaxFaults    \* bound: failed file writes and crashes

VARIABLES
  data,        \* Store.data of the collection
  file,        \* what Open would read: the last file renamed into place
  registered,  \* the field is in idxFields
  idx, idxByID,\* value -> ids, and id -> its indexed value (or Blank)
  debounce,
  timer,       \* persistTimer is pending
  persistErr,  \* the sticky error of a failed timer flush
  reported,    \* history: the last write of the file failed, and the error was
               \* returned or is kept in persistErr
  faults

vars == <<data, file, registered, idx, idxByID, debounce, timer, persistErr, reported, faults>>

Docs == Values \cup {Blank}

TypeOK ==
  /\ data \in [Ids -> Docs \cup {None}] /\ file \in [Ids -> Docs \cup {None}]
  /\ idx \in [Values -> SUBSET Ids] /\ idxByID \in [Ids -> Docs]
  /\ {registered, debounce, timer, persistErr, reported} \subseteq BOOLEAN
  /\ faults \in 0..MaxFaults

Init ==
  /\ data = [i \in Ids |-> None] /\ file = data
  /\ idx = [v \in Values |-> {}] /\ idxByID = [i \in Ids |-> Blank]
  /\ registered = FALSE /\ debounce = FALSE /\ timer = FALSE
  /\ persistErr = FALSE /\ reported = FALSE /\ faults = 0

Fault == faults < MaxFaults /\ faults' = faults + 1

\* writeFileLocked: a temporary file renamed into place, whole or not at all.
WriteFile ==
  \/ file' = data' /\ reported' = FALSE /\ UNCHANGED faults
  \/ UNCHANGED file /\ reported' = TRUE /\ Fault

\* Mutant: a debounced write after the flush timer fired schedules nothing.
Schedule_Once == UNCHANGED <<timer, file, reported, faults>>

\* A flush that is pending picks the write up.
Schedule == timer' = TRUE /\ UNCHANGED <<file, reported, faults>>

\* persistLocked: refused while an asynchronous error sticks, else at once or
\* by the timer.
Persist ==
  /\ \/ persistErr /\ UNCHANGED <<file, timer, reported, faults>>
     \/ ~persistErr /\ ~debounce /\ WriteFile /\ UNCHANGED timer
     \/ ~persistErr /\ debounce /\ Schedule
  /\ UNCHANGED persistErr

\* deindexLocked, by what idxByID remembers of the document.
Deindexed(i) == [v \in Values |-> IF v = idxByID[i] THEN idx[v] \ {i} ELSE idx[v]]

\* reindexLocked after a write of d, and nothing for an unregistered field.
Reindex(i, d) ==
  /\ idx' = IF registered
            THEN [v \in Values |-> IF v = d THEN Deindexed(i)[v] \cup {i} ELSE Deindexed(i)[v]]
            ELSE idx
  /\ idxByID' = IF registered THEN [idxByID EXCEPT ![i] = d] ELSE idxByID

Put(i, d) ==
  /\ data' = [data EXCEPT ![i] = d]
  /\ Reindex(i, d) /\ Persist
  /\ UNCHANGED <<registered, debounce>>

\* PutIfAbsent returns false and writes nothing when the id is used.
PutIfAbsent(i, d) == data[i] = None /\ Put(i, d)

Delete(i) ==
  /\ data[i] # None
  /\ data' = [data EXCEPT ![i] = None]
  /\ idx' = Deindexed(i) /\ idxByID' = [idxByID EXCEPT ![i] = Blank]
  /\ Persist
  /\ UNCHANGED <<registered, debounce>>

\* RegisterIndex indexes the documents that are there; the second is a no-op.
RegisterIndex ==
  /\ ~registered
  /\ registered' = TRUE
  /\ idx' = [v \in Values |-> {i \in Ids : data[i] = v}]
  /\ idxByID' = [i \in Ids |-> IF data[i] \in Values THEN data[i] ELSE Blank]
  /\ UNCHANGED <<data, file, debounce, timer, persistErr, reported, faults>>

EnableDebouncedPersistence ==
  /\ debounce' = TRUE
  /\ UNCHANGED <<data, file, registered, idx, idxByID, timer, persistErr, reported, faults>>

\* The timer's function: an error sticks.
TimerFires ==
  /\ timer /\ timer' = FALSE
  /\ UNCHANGED data /\ WriteFile
  /\ persistErr' = (persistErr \/ reported')
  /\ UNCHANGED <<registered, idx, idxByID, debounce>>

\* Flush: the sticky error, or the file at once and no timer.
Flush ==
  /\ ~persistErr
  /\ timer' = FALSE
  /\ UNCHANGED data /\ WriteFile
  /\ UNCHANGED <<registered, idx, idxByID, debounce, persistErr>>

\* A crash and Open: memory is what the file holds, without indexes.
CrashAndOpen ==
  /\ Fault
  /\ data' = file
  /\ registered' = FALSE /\ idx' = [v \in Values |-> {}] /\ idxByID' = [i \in Ids |-> Blank]
  /\ debounce' = FALSE /\ timer' = FALSE /\ persistErr' = FALSE /\ reported' = FALSE
  /\ UNCHANGED file

Next ==
  \/ \E i \in Ids, d \in Docs : Put(i, d) \/ PutIfAbsent(i, d)
  \/ \E i \in Ids : Delete(i)
  \/ RegisterIndex \/ EnableDebouncedPersistence \/ TimerFires \/ Flush \/ CrashAndOpen

Spec == Init /\ [][Next]_vars

-----------------------------------------------------------------------------
\* The ids ListWhere answers with: from the index, or by a scan.
ListWhere(v) == IF registered THEN idx[v] ELSE {i \in Ids : data[i] = v}

\* The copies of a document agree: a lookup finds exactly the documents a scan
\* would, and the file is behind memory only while a flush is pending or after
\* an error the store has reported (Put, Flush) or keeps reporting (persistErr).
CopiesAgree ==
  /\ \A v \in Values : ListWhere(v) = {i \in Ids : data[i] = v}
  /\ file # data => timer \/ reported \/ persistErr
=============================================================================
