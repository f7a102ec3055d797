------------------------ MODULE ReplayCursorsProofs -------------------------
(* What holds of ReplayCursors for any number of cursors, queries, tables, *)
(* runs and calls, and any scrubbing.                                      *)
EXTENDS ReplayCursors, FiniteSetTheorems, TLAPS

(* What the steps of a call may count on.                                  *)
CallsInProgress ==
    /\ mode # NoMode => run \in 1 .. MaxRuns
    /\ \A c \in Cursors :
         /\ pc[c] # "idle" => call[c] \in Calls
         /\ pc[c] \in {"record", "sql", "arrow", "params"} => table[c] \in Tables
         /\ Writing(c) => index[c] \in Slots

TypeInv == TypeOK /\ CallsInProgress

LEMMA CountIsNat ==
    ASSUME NEW interactions
    PROVE  count_interactions(interactions) \in Nat
  <1>1. IsFiniteSet(Slots)
    BY FS_Interval, CassetteAssumption DEF Slots
  <1>2. IsFiniteSet(SqlFiles(interactions))
    BY <1>1, FS_Subset DEF SqlFiles
  <1>3. QED  BY <1>2, FS_CardinalityType DEF count_interactions

LEMMA ScrubbedQueryType ==
    ASSUME NEW q \in Queries
    PROVE  ScrubbedQuery(q) \in Queries
  BY CassetteAssumption DEF ScrubbedQuery, Queries

(* A cassette that can be loaded is a set of entries.                      *)
LEMMA LoadType ==
    ASSUME cassette \in [Slots -> Interactions], Loadable(cassette)
    PROVE  load_all_interactions(cassette) \in SUBSET Entries
  <1>. SUFFICES ASSUME NEW i \in SqlFiles(cassette)
                PROVE  [idx |-> i, query |-> KeyOf(cassette[i]),
                        table |-> cassette[i].arrow] \in Entries
    BY DEF load_all_interactions
  <1>1. i \in Slots /\ cassette[i] \in Interactions /\ cassette[i].sql \in Sqls
    BY DEF SqlFiles, Interactions
  <1>2. cassette[i].arrow \in Tables /\ cassette[i].params # Torn
    BY DEF Loadable
  <1>3. KeyOf(cassette[i]) \in Queries
    BY <1>1, <1>2, CassetteAssumption DEF KeyOf, Queries, Interactions
  <1>4. QED  BY <1>1, <1>2, <1>3 DEF Entries

LEMMA WrittenFile ==
    ASSUME cassette \in [Slots -> Interactions], NEW i \in Slots,
           NEW t \in Tables, NEW p \in Params
    PROVE  /\ [cassette EXCEPT ![i].arrow = t] \in [Slots -> Interactions]
           /\ [cassette EXCEPT ![i].params = p] \in [Slots -> Interactions]
  <1>1. [cassette[i] EXCEPT !.arrow = t] \in Interactions
    BY DEF Interactions
  <1>2. [cassette[i] EXCEPT !.params = p] \in Interactions
    BY DEF Interactions
  <1>3. QED  BY <1>1, <1>2

(* What the end of a run, however it ends, leaves of the variables.        *)
LEMMA ReleaseType ==
    ASSUME Release
    PROVE  /\ start' \in [Slots -> Interactions] /\ mode' = NoMode
           /\ wiped' \in BOOLEAN /\ loaded' \in BOOLEAN
           /\ once_replay' \in {"undecided", "replay", "record"}
           /\ replay_queue' \in SUBSET Entries
           /\ recorded_schemas' \in SUBSET [query : Queries, schema : Schemas]
           /\ write_lock' \in Cursors \union {NoCursor}
           /\ pc' = [c \in Cursors |-> "idle"]
           /\ call' \in [Cursors -> Calls \union {NoCall}]
           /\ calls' \in [Cursors -> 0 .. MaxCalls]
           /\ initialised' \in [Cursors -> BOOLEAN]
           /\ attached' \in [Cursors -> BOOLEAN]
           /\ table' \in [Cursors -> Tables \union {NoFile}]
           /\ index' \in [Cursors -> Nat]
           /\ result' \in [Cursors -> [query : Queries, table : Tables] \union {NoResult}]
           /\ outcome' \in [Cursors -> Outcomes]
           /\ served' \in [Slots -> Nat]
  <1>1. EmptyCassette \in [Slots -> Interactions]
    BY DEF EmptyCassette, NoInteraction, Interactions
  <1>2. /\ outcome' \in [Cursors -> Outcomes]
        /\ calls' \in [Cursors -> 0 .. MaxCalls]
    BY CursorsAssumption DEF Release, Outcomes
  <1>3. QED  BY <1>1, <1>2 DEF Release

LEMMA CutShortType ==
    ASSUME TypeInv, NEW c \in Cursors, Writing(c), NEW left \in CutShort(c)
    PROVE  /\ index[c] \in Slots
           /\ left \in Interactions
  BY DEF TypeInv, TypeOK, CallsInProgress, CutShort, Writing, Interactions, Calls,
         Queries, Query

LEMMA TypeInit == Init => TypeInv
  <1>. SUFFICES ASSUME Init PROVE TypeInv
    OBVIOUS
  <1>1. EmptyCassette \in [Slots -> Interactions]
    BY DEF EmptyCassette, NoInteraction, Interactions
  <1>2. /\ outcome \in [Cursors -> Outcomes]
        /\ run \in 0 .. MaxRuns /\ mode = NoMode
        /\ calls \in [Cursors -> 0 .. MaxCalls]
    BY CursorsAssumption DEF Init, Outcomes
  <1>3. CallsInProgress
    BY <1>2 DEF Init, CallsInProgress, Writing
  <1>4. QED  BY <1>1, <1>2, <1>3 DEF Init, TypeInv, TypeOK

LEMMA TypeStep == TypeInv /\ [Next]_vars => TypeInv'
  <1>. SUFFICES ASSUME TypeInv, [Next]_vars PROVE TypeInv'
    OBVIOUS
  <1>. USE DEF TypeInv, TypeOK, CallsInProgress, Writing
  <1>1. CASE UNCHANGED vars
    BY <1>1 DEF vars, disk, session, shared, history
  <1>2. ASSUME NEW m \in Modes, StartRun(m) PROVE TypeInv'
    BY <1>2, CursorsAssumption DEF StartRun, disk, shared, history
  <1>3. ASSUME EndRun PROVE TypeInv'
    BY <1>3, ReleaseType DEF EndRun, disk
  <1>4. ASSUME NEW c \in Cursors, NEW q \in Asked, Execute(c, q) PROVE TypeInv'
    BY <1>4, CursorsAssumption
    DEF Execute, Begin, AtStep, disk, session, shared, history, Calls, Outcomes
  <1>5. ASSUME NEW c \in Cursors, NEW q \in Asked, AskSchema(c, q) PROVE TypeInv'
    BY <1>5, CursorsAssumption
    DEF AskSchema, Begin, AtStep, disk, session, shared, history, Calls, Outcomes
  <1>6. ASSUME NEW c \in Cursors, Wipe(c) PROVE TypeInv'
    <2>1. EmptyCassette \in [Slots -> Interactions]
      BY DEF EmptyCassette, NoInteraction, Interactions
    <2>2. QED  BY <1>6, <2>1 DEF Wipe, Initialising, ToDispatch, Decision, AtStep, session
  <1>7. ASSUME NEW c \in Cursors, RecordOnly(c) PROVE TypeInv'
    BY <1>7 DEF RecordOnly, Initialising, ToDispatch, Decision, AtStep, session, disk
  <1>8. ASSUME NEW c \in Cursors, LoadQueue(c) PROVE TypeInv'
    <2>1. replay_queue' \in SUBSET Entries
      BY <1>8, LoadType DEF LoadQueue
    <2>2. recorded_schemas' \in SUBSET [query : Queries, schema : Schemas]
      BY <1>8, LoadType, CursorsAssumption DEF LoadQueue, Entries
    <2>3. QED
      BY <1>8, <2>1, <2>2 DEF LoadQueue, Initialising, ToDispatch, Decision, AtStep, session, disk
  <1>9. ASSUME NEW c \in Cursors, LoadFails(c) PROVE TypeInv'
    BY <1>9 DEF LoadFails, Return, Initialising, Decision, AtStep, session, disk, Outcomes
  <1>10. ASSUME NEW c \in Cursors, ShareQueue(c) PROVE TypeInv'
    BY <1>10 DEF ShareQueue, Initialising, ToDispatch, Decision, AtStep, session, disk
  <1>11. ASSUME NEW c \in Cursors, Replay(c) PROVE TypeInv'
    <2>1. PICK e \in Queue(c) :
            /\ IsFront(e, Queue(c), Query(c))
            /\ replay_queue' = replay_queue \ {e}
            /\ result' = [result EXCEPT ![c] = [query |-> Query(c), table |-> e.table]]
            /\ served' = [served EXCEPT ![e.idx] = @ + 1]
      BY <1>11 DEF Replay
    <2>2. e \in Entries
      BY <2>1 DEF Queue
    <2>3. call[c] \in Calls /\ Query(c) \in Queries
      BY <1>11 DEF Replay, Dispatching, AtStep, Calls, Query
    <2>4. e.idx \in Slots /\ e.table \in Tables
      BY <2>2 DEF Entries
    <2>5. served' \in [Slots -> Nat]
      BY <2>1, <2>4
    <2>6. result' \in [Cursors -> [query : Queries, table : Tables] \union {NoResult}]
      BY <2>1, <2>3, <2>4
    <2>7. QED
      BY <1>11, <2>1, <2>5, <2>6
      DEF Replay, Dispatching, Return, AtStep, session, disk, Outcomes
  <1>12. ASSUME NEW c \in Cursors, NothingQueued(c) PROVE TypeInv'
    BY <1>12 DEF NothingQueued, Dispatching, AtStep, session, disk, shared, history
  <1>13. ASSUME NEW c \in Cursors, AskReal(c) PROVE TypeInv'
    BY <1>13 DEF AskReal, Dispatching, AtStep, session, disk, shared, history
  <1>14. ASSUME NEW c \in Cursors, RaiseMiss(c) PROVE TypeInv'
    BY <1>14 DEF RaiseMiss, Return, AtStep, session, disk, shared, history, Outcomes, Misses
  <1>15. ASSUME NEW c \in Cursors, AnswerSchema(c) PROVE TypeInv'
    BY <1>15
    DEF AnswerSchema, QueueAfterPeek, Return, AtStep, session, disk, history, Outcomes
  <1>16. ASSUME NEW c \in Cursors, RealAnswers(c) PROVE TypeInv'
    BY <1>16 DEF RealAnswers, AtStep, session, disk, shared, history
  <1>17. ASSUME NEW c \in Cursors, RealFails(c) PROVE TypeInv'
    BY <1>17 DEF RealFails, Return, AtStep, session, disk, shared, history, Outcomes
  <1>18. ASSUME NEW c \in Cursors, BeginWrite(c) PROVE TypeInv'
    <2>1. count_interactions(cassette) < MaxInteractions
      BY <1>18 DEF BeginWrite
    <2>2. NextIndex \in Nat /\ NextIndex \in Slots
      <3>1. count_interactions(cassette) \in Nat /\ MaxInteractions \in Int
        BY CountIsNat, CassetteAssumption
      <3>2. QED  BY <2>1, <3>1 DEF NextIndex, Slots
    <2>3. QED
      BY <1>18, <2>2 DEF BeginWrite, AtStep, session, shared, history
  <1>19. ASSUME NEW c \in Cursors, WriteSql(c) PROVE TypeInv'
    <2>1. Query(c).sql \in Sqls
      BY <1>19 DEF WriteSql, AtStep, Query, Calls, Queries
    <2>2. cassette' \in [Slots -> Interactions]
      BY ZenonT(40), <1>19, <2>1 DEF WriteSql, AtStep, Interactions
    <2>3. QED
      BY <1>19, <2>2 DEF WriteSql, AtStep, session, shared, history
  <1>20. ASSUME NEW c \in Cursors, WriteArrow(c) PROVE TypeInv'
    <2>1. ScrubbedTable(c) \in Tables
      BY <1>20, CassetteAssumption DEF WriteArrow, AtStep, ScrubbedTable
    <2>2. cassette' \in [Slots -> Interactions]
      BY ZenonT(40), <1>20, <2>1, WrittenFile, CassetteAssumption DEF WriteArrow, AtStep
    <2>3. QED
      BY <1>20, <2>2 DEF WriteArrow, AtStep, session, shared, history
  <1>21. ASSUME NEW c \in Cursors, WriteParams(c) PROVE TypeInv'
    <2>1. ReturnedTable(c) \in Tables
      BY <1>21, CassetteAssumption DEF WriteParams, AtStep, ScrubbedTable, ReturnedTable
    <2>2. Query(c) \in Queries
      BY <1>21 DEF WriteParams, AtStep, Query, Calls
    <2>3. ScrubbedQuery(Query(c)) \in Queries
      BY <2>2, ScrubbedQueryType
    <2>4. ScrubbedQuery(Query(c)).params \in Params
      BY <2>3 DEF Queries
    <2>5. cassette' \in [Slots -> Interactions]
      BY <1>21, <2>4, WrittenFile DEF WriteParams, AtStep
    <2>6. told' \in SUBSET Told
      BY <1>21, <2>1, <2>2, <2>3 DEF WriteParams, AtStep, Told
    <2>7. result' \in [Cursors -> [query : Queries, table : Tables] \union {NoResult}]
      BY <1>21, <2>1, <2>2 DEF WriteParams
    <2>8. QED
      BY <1>21, <2>5, <2>6, <2>7
      DEF WriteParams, Return, Forget, AtStep, session, shared, Outcomes
  <1>22. ASSUME NEW c \in Cursors, WriteFails(c) PROVE TypeInv'
    <2>1. cassette' \in [Slots -> Interactions]
      BY <1>22, CutShortType DEF WriteFails
    <2>2. QED
      BY <1>22, <2>1
      DEF WriteFails, LockAfterFailure, Return, Forget, session, shared, history, Outcomes
  <1>23. ASSUME PartlyWipe
         PROVE  cassette' \in [Slots -> Interactions] /\ told' \in SUBSET Told
    BY <1>23 DEF PartlyWipe, Interactions
  <1>24. ASSUME NEW c \in Cursors, WipeFails(c) PROVE TypeInv'
    BY <1>23, <1>24
    DEF WipeFails, Initialising, Decision, Return, AtStep, session, Outcomes
  <1>25. ASSUME Crash PROVE TypeInv'
    <2>1. cassette' \in [Slots -> Interactions] /\ told' \in SUBSET Told
      BY <1>23, <1>25, CutShortType DEF Crash
    <2>2. Release /\ UNCHANGED <<dir, run>>
      BY <1>25 DEF Crash
    <2>3. QED  BY <2>1, <2>2, ReleaseType
  <1>26. ASSUME NEW c \in Cursors, Step(c) PROVE TypeInv'
    BY <1>26, <1>6, <1>7, <1>8, <1>9, <1>10, <1>11, <1>12, <1>13, <1>14, <1>15,
       <1>16, <1>17, <1>18, <1>19, <1>20, <1>21
    DEF Step
  <1>27. QED
    BY <1>1, <1>2, <1>3, <1>4, <1>5, <1>22, <1>24, <1>25, <1>26 DEF Next, Finished

(* Every variable keeps its type, and a call in progress has what its next *)
(* step needs: a query, an answer of the driver, an index to write to.     *)
THEOREM TypeCorrect == Spec => []TypeOK
  <1>1. TypeInv => TypeOK
    BY DEF TypeInv
  <1>2. QED  BY <1>1, TypeInit, TypeStep, PTL DEF Spec

-----------------------------------------------------------------------------
(* Why no recording is lost: the lock has one holder, who writes an index  *)
(* no recording has; and an 'all' run wipes before it records.             *)
OneWriter == \A c \in Cursors : Writing(c) <=> write_lock = c

Numbering == \E n \in Nat : SqlFiles(cassette) = 0 .. (n - 1)

WriterHasOwnIndex ==
    \A c \in Cursors :
        /\ pc[c] = "sql" => index[c] = count_interactions(cassette)
        /\ pc[c] \in {"arrow", "params"} => cassette[index[c]].sql = Query(c).sql
        /\ pc[c] = "params" => cassette[index[c]].arrow = ScrubbedTable(c)
        /\ Writing(c) => \A t \in told : t.idx # index[c]

WipeBeforeRecording ==
    /\ mode = NoMode => \A c \in Cursors : ~initialised[c]
    /\ \A c \in Cursors : pc[c] \notin {"idle", "initialise"} => initialised[c]
    /\ mode = "all" => \A c \in Cursors : initialised[c] => wiped
    /\ mode = "all" /\ ~wiped => \A t \in told : t.run # run
    /\ \A t \in told : t.run <= run

RecordingInv ==
    /\ TypeInv
    /\ OneWriter
    /\ Numbering
    /\ WriterHasOwnIndex
    /\ WipeBeforeRecording
    /\ RecordingsKept

LEMMA CountOfNumbering ==
    ASSUME NEW interactions, NEW n \in Nat, SqlFiles(interactions) = 0 .. (n - 1)
    PROVE  count_interactions(interactions) = n
  <1>1. Cardinality(0 .. (n - 1)) = n
    BY FS_Interval
  <1>2. QED  BY <1>1 DEF count_interactions

(* An empty cassette keeps the numbering.                                  *)
LEMMA NumberingOfEmpty == SqlFiles(EmptyCassette) = 0 .. (0 - 1)
  <1>1. SqlFiles(EmptyCassette) = {}
    BY DEF SqlFiles, EmptyCassette, NoInteraction
  <1>2. 0 .. (0 - 1) = {}
    OBVIOUS
  <1>3. QED  BY <1>1, <1>2

(* The index a writer was given follows the last one in use.               *)
LEMMA IndexIsNext ==
    ASSUME RecordingInv, NEW c \in Cursors, pc[c] = "sql"
    PROVE  /\ index[c] \in Slots
           /\ \E n \in Nat : index[c] = n /\ SqlFiles(cassette) = 0 .. (n - 1)
  <1>1. PICK n \in Nat : SqlFiles(cassette) = 0 .. (n - 1)
    BY DEF RecordingInv, Numbering
  <1>2. index[c] = n
    BY <1>1, CountOfNumbering DEF RecordingInv, WriterHasOwnIndex
  <1>3. QED  BY <1>1, <1>2 DEF RecordingInv, TypeInv, CallsInProgress, Writing

(* What may be written to the slot of a writer, by it or by a failure.     *)
LEMMA NumberingKept ==
    ASSUME RecordingInv, NEW c \in Cursors, Writing(c), NEW slot,
           cassette' = [cassette EXCEPT ![index[c]] = slot],
           pc[c] # "sql" => slot.sql = cassette[index[c]].sql
    PROVE  Numbering'
  <1>1. index[c] \in Slots /\ cassette \in [Slots -> Interactions]
    BY DEF RecordingInv, TypeInv, TypeOK, CallsInProgress
  <1>2. CASE pc[c] = "sql"
    <2>1. PICK n \in Nat : index[c] = n /\ SqlFiles(cassette) = 0 .. (n - 1)
      BY <1>2, IndexIsNext
    <2>2. CASE slot.sql = NoFile
      <3>1. SqlFiles(cassette)' = 0 .. (n - 1)
        BY <1>1, <2>1, <2>2 DEF SqlFiles
      <3>2. QED  BY <3>1 DEF Numbering
    <2>3. CASE slot.sql # NoFile
      <3>1. SqlFiles(cassette)' = (0 .. (n - 1)) \union {n}
        BY <1>1, <2>1, <2>3 DEF SqlFiles
      <3>2. (0 .. (n - 1)) \union {n} = 0 .. ((n + 1) - 1)
        BY <2>1
      <3>3. n + 1 \in Nat
        OBVIOUS
      <3>4. SqlFiles(cassette)' = 0 .. ((n + 1) - 1)
        BY <3>1, <3>2, Zenon
      <3>5. QED  BY <3>3, <3>4, Zenon DEF Numbering
    <2>4. QED  BY <2>2, <2>3
  <1>3. CASE pc[c] # "sql"
    <2>1. SqlFiles(cassette)' = SqlFiles(cassette)
      BY <1>1, <1>3 DEF SqlFiles
    <2>2. QED  BY <2>1 DEF RecordingInv, Numbering
  <1>4. QED  BY <1>2, <1>3

(* ... and it leaves every recording as it is.                             *)
LEMMA RecordingsSpared ==
    ASSUME RecordingInv, NEW c \in Cursors, Writing(c), NEW slot,
           cassette' = [cassette EXCEPT ![index[c]] = slot], told' = told
    PROVE  RecordingsKept'
  BY DEF RecordingInv, TypeInv, TypeOK, Told, WriterHasOwnIndex, RecordingsKept, OnDisk

(* A step that writes nothing and moves no cursor in or out of a write.    *)
LEMMA NothingWritten ==
    ASSUME RecordingInv, TypeInv',
           UNCHANGED <<cassette, told, write_lock, index>>,
           \A c \in Cursors : Writing(c)' <=> Writing(c),
           \A c \in Cursors : Writing(c) => UNCHANGED <<pc[c], call[c], table[c]>>,
           WipeBeforeRecording'
    PROVE  RecordingInv'
  <1>1. OneWriter'
    BY DEF RecordingInv, OneWriter, Writing
  <1>2. Numbering' /\ RecordingsKept'
    BY DEF RecordingInv, Numbering, RecordingsKept, OnDisk, SqlFiles
  <1>3. WriterHasOwnIndex'
    <2>. SUFFICES ASSUME NEW c \in Cursors, Writing(c)'
                  PROVE  /\ pc'[c] = "sql" => index'[c] = count_interactions(cassette)'
                         /\ pc'[c] \in {"arrow", "params"} =>
                               cassette'[index'[c]].sql = Query(c)'.sql
                         /\ pc'[c] = "params" =>
                               cassette'[index'[c]].arrow = ScrubbedTable(c)'
                         /\ \A t \in told' : t.idx # index'[c]
      BY DEF WriterHasOwnIndex, Writing
    <2>1. Writing(c) /\ UNCHANGED <<pc[c], call[c], table[c]>>
      BY DEF Writing
    <2>2. UNCHANGED <<Query(c), ScrubbedTable(c)>>
      BY <2>1 DEF Query, ScrubbedTable
    <2>3. count_interactions(cassette)' = count_interactions(cassette)
      BY DEF count_interactions, SqlFiles
    <2>4. QED  BY <2>1, <2>2, <2>3 DEF RecordingInv, WriterHasOwnIndex
  <1>4. QED  BY <1>1, <1>2, <1>3 DEF RecordingInv

LEMMA RecordingInit == Init => RecordingInv
  <1>. SUFFICES ASSUME Init PROVE RecordingInv
    OBVIOUS
  <1>1. Numbering
    BY NumberingOfEmpty DEF Init, Numbering
  <1>2. OneWriter /\ WriterHasOwnIndex /\ WipeBeforeRecording /\ RecordingsKept
    BY CursorsAssumption
    DEF Init, OneWriter, Writing, WriterHasOwnIndex, WipeBeforeRecording, RecordingsKept, OnDisk
  <1>3. QED  BY <1>1, <1>2, TypeInit DEF RecordingInv

LEMMA RecordingStep ==
    ASSUME "wipe" \notin Faults, RecordingInv, [Next]_vars
    PROVE  RecordingInv'
  <1>t. TypeInv /\ TypeInv'
    BY TypeStep DEF RecordingInv
  <1>i. /\ WipeBeforeRecording
        /\ pc \in [Cursors -> {"idle", "initialise", "dispatch", "miss", "real",
                               "record", "sql", "arrow", "params"}]
        /\ initialised \in [Cursors -> BOOLEAN]
    BY DEF RecordingInv, TypeInv, TypeOK
  <1>1. CASE UNCHANGED vars
    BY <1>1, <1>t, NothingWritten, <1>i
    DEF vars, disk, session, shared, history, Writing, WipeBeforeRecording
  <1>2. ASSUME NEW m \in Modes, StartRun(m) PROVE RecordingInv'
    <2>1. WipeBeforeRecording'
      BY <1>2, <1>i, <1>t, CursorsAssumption
      DEF StartRun, shared, history, WipeBeforeRecording, TypeInv, TypeOK, Told
    <2>2. QED
      BY <1>2, <2>1, <1>t, NothingWritten DEF StartRun, disk, history, Writing
  <1>3. ASSUME NEW c \in Cursors, NEW q \in Asked, Execute(c, q) PROVE RecordingInv'
    <2>1. WipeBeforeRecording'
      BY <1>3, <1>i DEF Execute, Begin, disk, session, shared, history, AtStep, WipeBeforeRecording
    <2>2. QED
      BY <1>3, <1>i, <1>t, <2>1, NothingWritten DEF Execute, Begin, disk, session, shared, history, AtStep, Writing
  <1>4. ASSUME NEW c \in Cursors, NEW q \in Asked, AskSchema(c, q) PROVE RecordingInv'
    <2>1. WipeBeforeRecording'
      BY <1>4, <1>i DEF AskSchema, Begin, disk, session, shared, history, AtStep, WipeBeforeRecording
    <2>2. QED
      BY <1>4, <1>i, <1>t, <2>1, NothingWritten DEF AskSchema, Begin, disk, session, shared, history, AtStep, Writing
  <1>5. ASSUME NEW c \in Cursors, RecordOnly(c) PROVE RecordingInv'
    <2>1. WipeBeforeRecording'
      BY <1>5, <1>i DEF RecordOnly, MustWipe, Initialising, ToDispatch, disk, session, shared, history, AtStep, WipeBeforeRecording
    <2>2. QED
      BY <1>5, <1>i, <1>t, <2>1, NothingWritten DEF RecordOnly, MustWipe, Initialising, ToDispatch, disk, session, shared, history, AtStep, Writing
  <1>6. ASSUME NEW c \in Cursors, LoadQueue(c) PROVE RecordingInv'
    <2>1. WipeBeforeRecording'
      BY <1>6, <1>i DEF LoadQueue, Loads, Initialising, ToDispatch, disk, session, shared, history, AtStep, WipeBeforeRecording
    <2>2. QED
      BY <1>6, <1>i, <1>t, <2>1, NothingWritten DEF LoadQueue, Loads, Initialising, ToDispatch, disk, session, shared, history, AtStep, Writing
  <1>7. ASSUME NEW c \in Cursors, LoadFails(c) PROVE RecordingInv'
    <2>1. WipeBeforeRecording'
      BY <1>7, <1>i DEF LoadFails, Loads, Return, Initialising, disk, session, shared, history, AtStep, WipeBeforeRecording
    <2>2. QED
      BY <1>7, <1>i, <1>t, <2>1, NothingWritten DEF LoadFails, Loads, Return, Initialising, disk, session, shared, history, AtStep, Writing
  <1>8. ASSUME NEW c \in Cursors, ShareQueue(c) PROVE RecordingInv'
    <2>1. WipeBeforeRecording'
      BY <1>8, <1>i DEF ShareQueue, Loads, Initialising, ToDispatch, disk, session, shared, history, AtStep, WipeBeforeRecording
    <2>2. QED
      BY <1>8, <1>i, <1>t, <2>1, NothingWritten DEF ShareQueue, Loads, Initialising, ToDispatch, disk, session, shared, history, AtStep, Writing
  <1>9. ASSUME NEW c \in Cursors, Replay(c) PROVE RecordingInv'
    <2>1. WipeBeforeRecording'
      BY <1>9, <1>i DEF Replay, Dispatching, Return, disk, session, shared, history, AtStep, WipeBeforeRecording
    <2>2. QED
      BY <1>9, <1>i, <1>t, <2>1, NothingWritten DEF Replay, Dispatching, Return, disk, session, shared, history, AtStep, Writing
  <1>10. ASSUME NEW c \in Cursors, NothingQueued(c) PROVE RecordingInv'
    <2>1. WipeBeforeRecording'
      BY <1>10, <1>i DEF NothingQueued, Dispatching, disk, session, shared, history, AtStep, WipeBeforeRecording
    <2>2. QED
      BY <1>10, <1>i, <1>t, <2>1, NothingWritten DEF NothingQueued, Dispatching, disk, session, shared, history, AtStep, Writing
  <1>11. ASSUME NEW c \in Cursors, AskReal(c) PROVE RecordingInv'
    <2>1. WipeBeforeRecording'
      BY <1>11, <1>i DEF AskReal, Dispatching, disk, session, shared, history, AtStep, WipeBeforeRecording
    <2>2. QED
      BY <1>11, <1>i, <1>t, <2>1, NothingWritten DEF AskReal, Dispatching, disk, session, shared, history, AtStep, Writing
  <1>12. ASSUME NEW c \in Cursors, RaiseMiss(c) PROVE RecordingInv'
    <2>1. WipeBeforeRecording'
      BY <1>12, <1>i DEF RaiseMiss, Return, disk, session, shared, history, AtStep, WipeBeforeRecording
    <2>2. QED
      BY <1>12, <1>i, <1>t, <2>1, NothingWritten DEF RaiseMiss, Return, disk, session, shared, history, AtStep, Writing
  <1>13. ASSUME NEW c \in Cursors, AnswerSchema(c) PROVE RecordingInv'
    <2>1. WipeBeforeRecording'
      BY <1>13, <1>i DEF AnswerSchema, Return, disk, session, shared, history, AtStep, WipeBeforeRecording
    <2>2. QED
      BY <1>13, <1>i, <1>t, <2>1, NothingWritten DEF AnswerSchema, Return, disk, session, shared, history, AtStep, Writing
  <1>14. ASSUME NEW c \in Cursors, RealAnswers(c) PROVE RecordingInv'
    <2>1. WipeBeforeRecording'
      BY <1>14, <1>i DEF RealAnswers, disk, session, shared, history, AtStep, WipeBeforeRecording
    <2>2. QED
      BY <1>14, <1>i, <1>t, <2>1, NothingWritten DEF RealAnswers, disk, session, shared, history, AtStep, Writing
  <1>15. ASSUME NEW c \in Cursors, RealFails(c) PROVE RecordingInv'
    <2>1. WipeBeforeRecording'
      BY <1>15, <1>i DEF RealFails, Return, disk, session, shared, history, AtStep, WipeBeforeRecording
    <2>2. QED
      BY <1>15, <1>i, <1>t, <2>1, NothingWritten DEF RealFails, Return, disk, session, shared, history, AtStep, Writing
  <1>16. ASSUME NEW c \in Cursors, Wipe(c) PROVE RecordingInv'
    <2>1. told' = {} /\ cassette' = EmptyCassette /\ UNCHANGED <<write_lock, mode, run>>
      BY <1>16, <1>i DEF Wipe, Initialising, MustWipe, WipeBeforeRecording, session
    <2>2. \A d \in Cursors : ~Writing(d) /\ ~Writing(d)'
      BY <1>16, <1>i, CursorsAssumption
      DEF Wipe, Initialising, ToDispatch, AtStep, RecordingInv, OneWriter, Writing
    <2>3. Numbering'
      BY <2>1, NumberingOfEmpty DEF Numbering
    <2>4. OneWriter' /\ WriterHasOwnIndex' /\ RecordingsKept'
      BY <1>16, <2>1, <2>2, CursorsAssumption
      DEF Wipe, Initialising, OneWriter, WriterHasOwnIndex, RecordingsKept, OnDisk, Writing
    <2>5. WipeBeforeRecording'
      BY <1>16, <1>i, <2>1
      DEF Wipe, Initialising, ToDispatch, AtStep, WipeBeforeRecording, session
    <2>6. QED  BY <1>t, <2>3, <2>4, <2>5 DEF RecordingInv
  <1>17. ASSUME NEW c \in Cursors, BeginWrite(c) PROVE RecordingInv'
    <2>1. \A d \in Cursors : ~Writing(d) /\ (Writing(d)' <=> d = c)
      BY <1>17, <1>i, CursorsAssumption
      DEF BeginWrite, MayWrite, AtStep, RecordingInv, OneWriter, Writing
    <2>2. OneWriter'
      BY <1>17, <2>1 DEF BeginWrite, OneWriter, Writing
    <2>3. Numbering' /\ RecordingsKept'
      BY <1>17 DEF BeginWrite, history, RecordingInv, Numbering, RecordingsKept, OnDisk, SqlFiles
    <2>4. WipeBeforeRecording'
      BY <1>17, <1>i DEF BeginWrite, AtStep, session, shared, history, WipeBeforeRecording
    <2>5. count_interactions(cassette) \notin SqlFiles(cassette)
      <3>1. PICK k \in Nat : SqlFiles(cassette) = 0 .. (k - 1)
        BY DEF RecordingInv, Numbering
      <3>2. count_interactions(cassette) = k
        BY <3>1, CountOfNumbering
      <3>3. QED  BY <3>1, <3>2
    <2>6. \A t \in told : t.idx \in SqlFiles(cassette)
      <3>1. NoFile \notin Sqls
        BY CassetteAssumption
      <3>2. ASSUME NEW t \in told
            PROVE  t.idx \in Slots /\ t.query.sql \in Sqls
        BY <1>t DEF TypeInv, TypeOK, Told, Queries
      <3>3. ASSUME NEW t \in told
            PROVE  cassette[t.idx].sql = t.query.sql
        <4>1. cassette[t.idx] = [sql |-> t.query.sql, arrow |-> t.table,
                                 params |-> t.query.params]
          BY <3>3 DEF RecordingInv, RecordingsKept, OnDisk
        <4>2. QED  BY <4>1
      <3>4. ASSUME NEW t \in told
            PROVE  t.idx \in SqlFiles(cassette)
        BY <3>1, <3>2, <3>3 DEF SqlFiles
      <3>5. QED  BY <3>4
    <2>7. index'[c] = count_interactions(cassette)' /\ pc'[c] = "sql"
      BY <1>17, <1>i, <1>t
      DEF BeginWrite, NextIndex, count_interactions, SqlFiles, TypeInv, TypeOK
    <2>8. \A t \in told' : t.idx # index'[c]
      BY <1>17, <2>5, <2>6, <2>7 DEF BeginWrite, history, count_interactions, SqlFiles
    <2>9. WriterHasOwnIndex'
      BY <2>1, <2>7, <2>8 DEF WriterHasOwnIndex, Writing
    <2>10. QED  BY <1>t, <2>2, <2>3, <2>4, <2>9 DEF RecordingInv
  <1>18. ASSUME NEW c \in Cursors, WriteSql(c) PROVE RecordingInv'
    <2>. DEFINE slot == [cassette[index[c]] EXCEPT !.sql = Query(c).sql]
    <2>1. /\ Writing(c) /\ write_lock = c
          /\ cassette' = [cassette EXCEPT ![index[c]] = slot]
          /\ index[c] \in Slots /\ cassette \in [Slots -> Interactions]
      BY <1>18, <1>t
      DEF WriteSql, AtStep, Writing, RecordingInv, OneWriter, TypeInv, TypeOK, CallsInProgress
    <2>2. \A d \in Cursors : Writing(d)' <=> d = c
      BY <1>18, <1>i, <2>1 DEF WriteSql, RecordingInv, OneWriter, Writing
    <2>3. OneWriter'
      BY <1>18, <2>1, <2>2 DEF WriteSql, OneWriter, Writing
    <2>4. Numbering'
      BY <1>18, <1>t, <2>1, NumberingKept DEF WriteSql, AtStep, TypeInv, TypeOK, Interactions
    <2>5. RecordingsKept'
      BY <1>18, <2>1, RecordingsSpared DEF WriteSql, history
    <2>6. WipeBeforeRecording'
      BY <1>18, <1>i DEF WriteSql, AtStep, session, shared, history, WipeBeforeRecording
    <2>7. WriterHasOwnIndex'
      BY <1>18, <1>i, <2>1, <2>2
      DEF WriteSql, AtStep, history, RecordingInv, WriterHasOwnIndex, Writing, Query,
          ScrubbedTable, Interactions
    <2>8. QED  BY <1>t, <2>3, <2>4, <2>5, <2>6, <2>7 DEF RecordingInv
  <1>19. ASSUME NEW c \in Cursors, WriteArrow(c) PROVE RecordingInv'
    <2>. DEFINE slot == [cassette[index[c]] EXCEPT !.arrow = ScrubbedTable(c)]
    <2>1. /\ Writing(c) /\ write_lock = c
          /\ cassette' = [cassette EXCEPT ![index[c]] = slot]
          /\ index[c] \in Slots /\ cassette \in [Slots -> Interactions]
      BY <1>19, <1>t
      DEF WriteArrow, AtStep, Writing, RecordingInv, OneWriter, TypeInv, TypeOK, CallsInProgress
    <2>2. \A d \in Cursors : Writing(d)' <=> d = c
      BY <1>19, <1>i, <2>1 DEF WriteArrow, RecordingInv, OneWriter, Writing
    <2>3. OneWriter'
      BY <1>19, <2>1, <2>2 DEF WriteArrow, OneWriter, Writing
    <2>4. Numbering'
      <3>1. slot.sql = cassette[index[c]].sql
        BY <2>1 DEF Interactions
      <3>2. QED  BY <2>1, <3>1, NumberingKept
    <2>5. RecordingsKept'
      BY <1>19, <2>1, RecordingsSpared DEF WriteArrow, history
    <2>6. WipeBeforeRecording'
      BY <1>19, <1>i DEF WriteArrow, AtStep, session, shared, history, WipeBeforeRecording
    <2>7. WriterHasOwnIndex'
      BY <1>19, <1>i, <2>1, <2>2
      DEF WriteArrow, AtStep, history, RecordingInv, WriterHasOwnIndex, Writing, Query,
          ScrubbedTable, Interactions
    <2>8. QED  BY <1>t, <2>3, <2>4, <2>5, <2>6, <2>7 DEF RecordingInv
  <1>20. ASSUME NEW c \in Cursors, WriteParams(c) PROVE RecordingInv'
    <2>. DEFINE q == Query(c)
                slot == [cassette[index[c]] EXCEPT !.params = ScrubbedQuery(q).params]
                new == [run |-> run, idx |-> index[c], asked |-> q,
                        query |-> ScrubbedQuery(q), table |-> ReturnedTable(c)]
    <2>1. /\ Writing(c) /\ write_lock = c
          /\ cassette' = [cassette EXCEPT ![index[c]] = slot]
          /\ told' = told \union {new}
          /\ index[c] \in Slots /\ cassette \in [Slots -> Interactions]
      BY <1>20, <1>t
      DEF WriteParams, AtStep, Writing, RecordingInv, OneWriter, TypeInv, TypeOK, CallsInProgress
    <2>2. \A d \in Cursors : ~Writing(d)'
      BY <1>20, <1>i, <2>1 DEF WriteParams, Return, RecordingInv, OneWriter, Writing
    <2>3. OneWriter' /\ WriterHasOwnIndex'
      BY <1>20, <2>2, CursorsAssumption
      DEF WriteParams, OneWriter, WriterHasOwnIndex, Writing
    <2>4. Numbering'
      <3>1. slot.sql = cassette[index[c]].sql
        BY <2>1 DEF Interactions
      <3>2. QED  BY <2>1, <3>1, NumberingKept
    <2>5. WipeBeforeRecording'
      <3>1. initialised[c] /\ UNCHANGED <<run, mode, wiped, initialised>>
        BY <1>20, <1>i DEF WriteParams, AtStep, session, shared, WipeBeforeRecording
      <3>2. \A d \in Cursors : pc'[d] \notin {"idle", "initialise"} => initialised[d]
        BY <1>20, <1>i DEF WriteParams, Return, WipeBeforeRecording
      <3>3. \A t \in told' : t.run <= run
        BY <1>i, <1>t, <2>1 DEF WipeBeforeRecording, TypeInv, TypeOK
      <3>4. mode = "all" => wiped
        BY <3>1, <1>i DEF WipeBeforeRecording
      <3>5. QED  BY <1>i, <3>1, <3>2, <3>3, <3>4 DEF WipeBeforeRecording
    <2>6. RecordingsKept'
      <3>1. cassette[index[c]] = [sql |-> q.sql, arrow |-> ReturnedTable(c),
                                  params |-> cassette[index[c]].params]
        BY <1>20, <2>1
        DEF WriteParams, AtStep, RecordingInv, WriterHasOwnIndex, ReturnedTable, Interactions
      <3>2. ScrubbedQuery(q).sql = q.sql
        BY <1>20, <1>t
        DEF WriteParams, AtStep, TypeInv, CallsInProgress, Calls, Query, Queries, ScrubbedQuery
      <3>3. slot = [sql |-> new.query.sql, arrow |-> new.table, params |-> new.query.params]
        BY <3>1, <3>2
      <3>4. cassette'[new.idx] = slot
        BY <2>1
      <3>5. ASSUME NEW t \in told
            PROVE  cassette'[t.idx] = [sql |-> t.query.sql, arrow |-> t.table,
                                       params |-> t.query.params]
        <4>1. t.idx # index[c]
          BY <2>1 DEF RecordingInv, WriterHasOwnIndex
        <4>2. t.idx \in Slots
          BY <1>t DEF TypeInv, TypeOK, Told
        <4>3. QED  BY <2>1, <4>1, <4>2 DEF RecordingInv, RecordingsKept, OnDisk
      <3>. HIDE DEF new, slot
      <3>6. QED  BY <2>1, <3>3, <3>4, <3>5 DEF RecordingsKept, OnDisk
    <2>7. QED  BY <1>t, <2>3, <2>4, <2>5, <2>6 DEF RecordingInv
  <1>21. ASSUME NEW c \in Cursors, Writing(c), NEW left \in CutShort(c),
            cassette' = [cassette EXCEPT ![index[c]] = left]
      PROVE  Numbering' /\ (told' = told => RecordingsKept')
    <2>1. pc[c] # "sql" => left.sql = cassette[index[c]].sql
      BY <1>21, <1>t DEF CutShort, Writing, TypeInv, TypeOK, CallsInProgress, Interactions
    <2>2. QED  BY <1>21, <2>1, NumberingKept, RecordingsSpared
  <1>22. ASSUME NEW c \in Cursors, WriteFails(c) PROVE RecordingInv'
    <2>1. Numbering' /\ RecordingsKept'
      BY <1>22, <1>21 DEF WriteFails, history
    <2>2. \A d \in Cursors : ~Writing(d)'
      BY <1>22, <1>i DEF WriteFails, Return, RecordingInv, OneWriter, Writing
    <2>3. OneWriter' /\ WriterHasOwnIndex'
      BY <1>22, <2>2, CursorsAssumption
      DEF WriteFails, LockAfterFailure, OneWriter, WriterHasOwnIndex, Writing
    <2>4. WipeBeforeRecording'
      BY <1>22, <1>i
      DEF WriteFails, Return, session, shared, history, WipeBeforeRecording
    <2>5. QED  BY <1>t, <2>1, <2>3, <2>4 DEF RecordingInv
  <1>23. ASSUME Release, UNCHANGED <<told, run>>, Numbering', RecordingsKept'
      PROVE  RecordingInv'
    <2>1. OneWriter' /\ WriterHasOwnIndex'
      BY <1>23, CursorsAssumption DEF Release, OneWriter, WriterHasOwnIndex, Writing
    <2>2. WipeBeforeRecording'
      BY <1>23, <1>i, CursorsAssumption DEF Release, WipeBeforeRecording
    <2>3. QED  BY <1>23, <1>t, <2>1, <2>2 DEF RecordingInv
  <1>24. ASSUME EndRun PROVE RecordingInv'
    <2>1. Numbering' /\ RecordingsKept'
      BY <1>24 DEF EndRun, disk, RecordingInv, Numbering, RecordingsKept, OnDisk, SqlFiles
    <2>2. QED  BY <1>24, <1>23, <2>1 DEF EndRun
  <1>25. ASSUME Crash PROVE RecordingInv'
    <2>1. Release /\ UNCHANGED <<told, run>>
      BY <1>25 DEF Crash, PartlyWipe
    <2>2. Numbering' /\ RecordingsKept'
      <3>1. CASE UNCHANGED cassette
        BY <2>1, <3>1 DEF RecordingInv, Numbering, RecordingsKept, OnDisk, SqlFiles
      <3>2. ASSUME NEW c \in Cursors, Writing(c), NEW left \in CutShort(c),
                   cassette' = [cassette EXCEPT ![index[c]] = left]
            PROVE  Numbering' /\ RecordingsKept'
        BY <2>1, <3>2, <1>21
      <3>3. QED  BY <1>25, <3>1, <3>2 DEF Crash, PartlyWipe
    <2>3. QED  BY <1>23, <2>1, <2>2
  <1>26. ASSUME NEW c \in Cursors, Step(c) PROVE RecordingInv'
    BY <1>26, <1>5, <1>6, <1>7, <1>8, <1>9, <1>10, <1>11, <1>12, <1>13, <1>14, <1>15, <1>16, <1>17, <1>18, <1>19, <1>20
    DEF Step
  <1>27. ASSUME NEW c \in Cursors, WipeFails(c) PROVE RecordingInv'
    BY <1>27 DEF WipeFails, PartlyWipe
  <1>28. QED
    BY <1>1, <1>2, <1>3, <1>4, <1>22, <1>24, <1>25, <1>26, <1>27
    DEF Next, Finished

(* Whatever cursors, write failures and crashes do, a recording a test was *)
(* told of stays on disk as told until a later 'all' run deletes it: as    *)
(* long as a deletion of the cassette, once begun, is carried out.         *)
THEOREM RecordingsAreKept ==
    ASSUME "wipe" \notin Faults
    PROVE  Spec => []RecordingsKept
  <1>1. RecordingInv /\ [Next]_vars => RecordingInv'
    BY RecordingStep
  <1>2. RecordingInv => RecordingsKept
    BY DEF RecordingInv
  <1>3. QED  BY <1>1, <1>2, RecordingInit, PTL DEF Spec

(* Under the same condition the numbering of a cassette has no gap.        *)
THEOREM NumberingHasNoGap ==
    ASSUME "wipe" \notin Faults
    PROVE  Spec => []NumberedWithoutGaps
  <1>1. RecordingInv /\ [Next]_vars => RecordingInv'
    BY RecordingStep
  <1>2. RecordingInv => NumberedWithoutGaps
    BY CassetteAssumption DEF RecordingInv, Numbering, NumberedWithoutGaps, Slots
  <1>3. QED  BY <1>1, <1>2, RecordingInit, PTL DEF Spec
=============================================================================
