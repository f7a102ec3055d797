--------------------- MODULE CursorsImplementTapeProofs ---------------------
(* Without faults the cursors implement ReplayTape, proved for any number  *)
(* of cursors, queries, runs and calls: every step of a cursor answers one *)
(* call, erases the tape, or is a stutter.                                 *)
EXTENDS ReplayCursorsImplementTape, ReplayQueueProofs, SequenceTheorems

(* A call under way has no outcome yet, and one that is over has.          *)
OutcomeAtEnd ==
    \A c \in Cursors :
        /\ pc[c] # "idle" => outcome[c] = "none"
        /\ pc[c] = "idle" /\ call[c] # NoCall => outcome[c] # "none"

(* What a run that replays only tells of a schema, the tape tells as well. *)
SchemasFromStart ==
    /\ \A s \in recorded_schemas : Recorded(s.query) /\ mode # NoMode
    /\ mode = "none" =>
         \A c \in Cursors : result[c] # NoResult => Recorded(result[c].query)

(* The interaction being written is the last, and its parameters come last.*)
WrittenInOrder ==
    /\ \A c \in Cursors :
         pc[c] \in {"arrow", "params"} => index[c] + 1 = count_interactions(cassette)
    /\ \A i \in Complete : i \in SqlFiles(cassette) /\ ~InWriting(i)

(* Until an 'all' run wipes, the cassette begins as the run found it.      *)
StartOnTape ==
    /\ wiped => mode = "all"
    /\ \E n \in Nat : SqlFiles(start) = 0 .. (n - 1)
    /\ ~wiped => \A i \in SqlFiles(start) : cassette[i] = start[i]

TapeInv == OutcomeAtEnd /\ SchemasFromStart /\ WrittenInOrder /\ StartOnTape

LEMMA EmptyTape ==
    ASSUME Complete = {}
    PROVE  Recordings = <<>>
  <1>1. Cardinality(Complete) = 0
    BY FS_EmptySet
  <1>2. 1 .. Cardinality(Complete) = {}
    BY <1>1
  <1>3. QED  BY <1>2 DEF Recordings

LEMMA NoneBefore == count_interactions(EmptyCassette) = 0
  BY FS_EmptySet DEF count_interactions, SqlFiles, EmptyCassette, NoInteraction

LEMMA TapeInvInit == Init => TapeInv
  <1>. SUFFICES ASSUME Init PROVE TapeInv
    OBVIOUS
  <1>1. SqlFiles(start) = 0 .. (0 - 1)
    BY NumberingOfEmpty DEF Init
  <1>2. QED
    BY <1>1
    DEF Init, TapeInv, OutcomeAtEnd, SchemasFromStart, WrittenInOrder, StartOnTape,
        Complete, EmptyCassette, NoInteraction, SqlFiles

LEMMA OutcomeStep ==
    ASSUME Faults = {}, RecordingInv, OutcomeAtEnd, [Next]_vars
    PROVE  OutcomeAtEnd'
  <1>. USE DEF OutcomeAtEnd
  <1>t. /\ pc \in [Cursors -> {"idle", "initialise", "dispatch", "miss", "real",
                               "record", "sql", "arrow", "params"}]
        /\ outcome \in [Cursors -> Outcomes]
        /\ call \in [Cursors -> Calls \union {NoCall}]
    BY DEF RecordingInv, TypeInv, TypeOK
  <1>a. ASSUME NEW c \in Cursors, call' = call, pc[c] # "idle",
               \/ Return(c, "ok") \/ Return(c, "error") \/ Return(c, "schema")
               \/ Return(c, "directory_missing") \/ Return(c, "cassette_empty")
               \/ Return(c, "interaction_missing")
        PROVE  OutcomeAtEnd'
    BY <1>a, <1>t DEF Return
  <1>b. ASSUME NEW c \in Cursors, call' = call, outcome' = outcome, pc[c] # "idle",
               NEW step, step # "idle", pc' = [pc EXCEPT ![c] = step]
        PROVE  OutcomeAtEnd'
    BY <1>b, <1>t
  <1>1. CASE UNCHANGED vars
    BY <1>1 DEF vars
  <1>2. ASSUME NEW c \in Cursors, NEW q \in Asked, Execute(c, q) \/ AskSchema(c, q)
        PROVE  OutcomeAtEnd'
    BY <1>2, <1>t DEF Execute, AskSchema, Begin
  <1>3. ASSUME NEW c \in Cursors, LoadFails(c) \/ Replay(c) \/ RaiseMiss(c)
                                  \/ RealFails(c) \/ WriteParams(c)
        PROVE  OutcomeAtEnd'
    <2>1. call' = call /\ pc[c] # "idle"
      BY <1>3 DEF LoadFails, Replay, RaiseMiss, RealFails, WriteParams, Initialising,
         Dispatching, AtStep
    <2>2. \/ Return(c, "ok") \/ Return(c, "error")
          \/ Return(c, "directory_missing") \/ Return(c, "cassette_empty")
          \/ Return(c, "interaction_missing")
      BY <1>3 DEF LoadFails, Replay, RaiseMiss, RealFails, WriteParams
    <2>3. QED  BY <2>1, <2>2, <1>a
  <1>4. ASSUME NEW c \in Cursors, AnswerSchema(c)
        PROVE  OutcomeAtEnd'
    BY <1>4, <1>a, <1>b DEF AnswerSchema, AtStep
  <1>5. ASSUME NEW c \in Cursors, Wipe(c) \/ RecordOnly(c) \/ LoadQueue(c) \/ ShareQueue(c)
        PROVE  OutcomeAtEnd'
    <2>1. /\ call' = call /\ pc[c] # "idle" /\ outcome' = outcome
          /\ pc' = [pc EXCEPT ![c] = "dispatch"]
      BY <1>5 DEF Wipe, RecordOnly, LoadQueue, ShareQueue, Initialising, ToDispatch, AtStep
    <2>2. QED  BY <2>1, <1>b
  <1>6. ASSUME NEW c \in Cursors, NothingQueued(c) \/ AskReal(c) \/ RealAnswers(c)
                                  \/ BeginWrite(c) \/ WriteSql(c) \/ WriteArrow(c)
        PROVE  OutcomeAtEnd'
    <2>1. call' = call /\ pc[c] # "idle" /\ outcome' = outcome
      BY <1>6 DEF NothingQueued, AskReal, RealAnswers, BeginWrite, WriteSql, WriteArrow,
         Dispatching, AtStep
    <2>2. \E step \in {"miss", "real", "record", "sql", "arrow", "params"} :
            pc' = [pc EXCEPT ![c] = step]
      BY <1>6 DEF NothingQueued, AskReal, RealAnswers, BeginWrite, WriteSql, WriteArrow
    <2>3. QED  BY <2>1, <2>2, <1>b
  <1>7. ASSUME Release PROVE OutcomeAtEnd'
    BY <1>7 DEF Release
  <1>8. ASSUME NEW m \in Modes, StartRun(m) PROVE OutcomeAtEnd'
    BY <1>8 DEF StartRun
  <1>9. ~Crash /\ \A c \in Cursors : ~WriteFails(c) /\ ~WipeFails(c)
    BY DEF Crash, WriteFails, WipeFails, PartlyWipe
  <1>10. QED
    BY <1>1, <1>2, <1>3, <1>4, <1>5, <1>6, <1>7, <1>8, <1>9 DEF Next, Step, Finished, EndRun

LEMMA SchemasStep ==
    ASSUME Faults = {}, SoundInv, SchemasFromStart, [Next]_vars
    PROVE  SchemasFromStart'
  <1>. USE DEF SchemasFromStart
  <1>t. /\ result \in [Cursors -> [query : Queries, table : Tables] \union {NoResult}]
        /\ CursorsDecided
    BY DEF SoundInv, RecordingInv, TypeInv, TypeOK, ModesInv
  <1>r. ASSUME start' = start PROVE \A q : Recorded(q)' = Recorded(q)
    BY <1>r DEF Recorded, SqlFiles
  <1>a. ASSUME UNCHANGED <<start, mode, recorded_schemas>>,
               \A c \in Cursors : result'[c] \in {result[c], NoResult} \/ mode # "none"
        PROVE  SchemasFromStart'
    BY <1>a, <1>r
  <1>1. CASE UNCHANGED vars
    BY <1>1, <1>a DEF vars, session, shared
  <1>2. ASSUME NEW c \in Cursors, NEW q \in Asked, Execute(c, q) \/ AskSchema(c, q)
        PROVE  SchemasFromStart'
    BY <1>2, <1>t, <1>a DEF Execute, AskSchema, Begin, session, shared
  <1>3. ASSUME NEW c \in Cursors, Wipe(c) \/ RecordOnly(c) \/ LoadFails(c) \/ ShareQueue(c)
        PROVE  SchemasFromStart'
    BY <1>3, <1>a DEF Wipe, RecordOnly, LoadFails, ShareQueue, Initialising, session
  <1>4. ASSUME NEW c \in Cursors, NothingQueued(c) \/ AskReal(c) \/ RaiseMiss(c)
                                  \/ AnswerSchema(c) \/ RealAnswers(c) \/ RealFails(c)
        PROVE  SchemasFromStart'
    BY <1>4, <1>a DEF NothingQueued, AskReal, RaiseMiss, AnswerSchema, RealAnswers,
       RealFails, session, shared
  <1>5. ASSUME NEW c \in Cursors, BeginWrite(c) \/ WriteSql(c) \/ WriteArrow(c)
        PROVE  SchemasFromStart'
    BY <1>5, <1>a DEF BeginWrite, WriteSql, WriteArrow, session, shared
  <1>6. ASSUME NEW c \in Cursors, WriteParams(c) PROVE SchemasFromStart'
    <2>1. mode # "none"
      BY <1>6, <1>t DEF WriteParams, AtStep, CursorsDecided, Recording, RecordingRun
    <2>2. QED  BY <1>6, <2>1, <1>a DEF WriteParams, session, shared
  <1>7. ASSUME NEW c \in Cursors, Replay(c) PROVE SchemasFromStart'
    <2>1. PICK e \in replay_queue :
             /\ e.query = Query(c)
             /\ result' = [result EXCEPT ![c] = [query |-> Query(c), table |-> e.table]]
      BY <1>7 DEF Replay, Queue, IsFront
    <2>2. e.idx \in SqlFiles(start) /\ e.query = KeyOf(start[e.idx])
      BY <2>1, EntriesByIndex DEF SoundInv, QueueInv, QueueIsUnserved, Unserved
    <2>3. Recorded(Query(c))
      BY <2>1, <2>2 DEF Recorded
    <2>4. UNCHANGED <<start, mode, recorded_schemas>>
      BY <1>7 DEF Replay, session
    <2>5. result'[c].query = Query(c) /\ \A d \in Cursors : d # c => result'[d] = result[d]
      BY <2>1, <1>t
    <2>6. QED  BY <2>3, <2>4, <2>5, <1>r
  <1>8. ASSUME NEW c \in Cursors, LoadQueue(c) PROVE SchemasFromStart'
    <2>1. /\ start' = start /\ cassette = start
      BY <1>8, LoadsStart DEF SoundInv
    <2>2. UNCHANGED <<mode, result>> /\ mode # NoMode
      BY <1>8 DEF LoadQueue, Initialising, session, AtStep
    <2>3. ASSUME NEW s \in recorded_schemas' PROVE Recorded(s.query)
      <3>1. PICK e \in load_all_interactions(start) : s.query = e.query
        BY <1>8, <2>1 DEF LoadQueue
      <3>2. QED  BY <3>1, EntriesByIndex DEF Recorded
    <2>4. QED  BY <2>1, <2>2, <2>3, <1>r
  <1>9. ASSUME Release PROVE SchemasFromStart'
    BY <1>9 DEF Release
  <1>10. ASSUME NEW m \in Modes, StartRun(m) PROVE SchemasFromStart'
    <2>1. /\ recorded_schemas = {} /\ \A c \in Cursors : result[c] = NoResult
      BY <1>10 DEF StartRun, SoundInv, ResultInv, ModesInv, CursorsDecided
    <2>2. QED  BY <1>10, <2>1 DEF StartRun, shared
  <1>11. ~Crash /\ \A c \in Cursors : ~WriteFails(c) /\ ~WipeFails(c)
    BY DEF Crash, WriteFails, WipeFails, PartlyWipe
  <1>12. QED
    BY <1>1, <1>2, <1>3, <1>4, <1>5, <1>6, <1>7, <1>8, <1>9, <1>10, <1>11
    DEF Next, Step, Finished, EndRun

LEMMA WrittenStep ==
    ASSUME Faults = {}, SoundInv, WrittenInOrder, [Next]_vars
    PROVE  WrittenInOrder'
  <1>. USE DEF WrittenInOrder
  <1>t. /\ pc \in [Cursors -> {"idle", "initialise", "dispatch", "miss", "real",
                               "record", "sql", "arrow", "params"}]
        /\ index \in [Cursors -> Nat]
        /\ cassette \in [Slots -> Interactions]
        /\ OneWriter /\ WriterHasOwnIndex /\ RecordingInv
        /\ Complete \subseteq Slots
    BY DEF SoundInv, RecordingInv, TypeInv, TypeOK, Complete
  <1>a. ASSUME UNCHANGED cassette,
               \A c \in Cursors : Writing(c)' =>
                 /\ index'[c] \notin Complete
                 /\ pc'[c] \in {"arrow", "params"} =>
                      pc[c] = pc'[c] /\ index[c] = index'[c]
        PROVE  WrittenInOrder'
    <2>1. \A c \in Cursors : pc'[c] \in {"arrow", "params"} =>
            pc[c] \in {"arrow", "params"} /\ index'[c] = index[c]
      BY <1>a DEF Writing
    <2>2. Complete' = Complete /\ SqlFiles(cassette)' = SqlFiles(cassette)
      BY <1>a DEF Complete, SqlFiles
    <2>3. \A i \in Complete : ~InWriting(i)'
      BY <1>a DEF InWriting
    <2>4. QED  BY <2>1, <2>2, <2>3 DEF count_interactions
  <1>b. \A c \in Cursors : Writing(c) => index[c] \notin Complete
    BY DEF InWriting
  <1>1. CASE UNCHANGED vars
    BY <1>1, <1>a, <1>b DEF vars, disk, Writing
  <1>2. ASSUME NEW c \in Cursors, NEW q \in Asked, Execute(c, q) \/ AskSchema(c, q)
        PROVE  WrittenInOrder'
    BY <1>2, <1>t, <1>a, <1>b DEF Execute, AskSchema, Begin, AtStep, disk, Writing
  <1>3. ASSUME NEW c \in Cursors, RecordOnly(c) \/ LoadQueue(c) \/ LoadFails(c)
                                  \/ ShareQueue(c)
        PROVE  WrittenInOrder'
    BY <1>3, <1>t, <1>a, <1>b
    DEF RecordOnly, LoadQueue, LoadFails, ShareQueue, Initialising, ToDispatch, Return,
        disk, Writing
  <1>4. ASSUME NEW c \in Cursors, Replay(c) \/ NothingQueued(c) \/ AskReal(c)
                                  \/ RaiseMiss(c) \/ AnswerSchema(c)
        PROVE  WrittenInOrder'
    BY <1>4, <1>t, <1>a, <1>b
    DEF Replay, NothingQueued, AskReal, RaiseMiss, AnswerSchema, Return, disk, Writing
  <1>5. ASSUME NEW c \in Cursors, RealAnswers(c) \/ RealFails(c)
        PROVE  WrittenInOrder'
    BY <1>5, <1>t, <1>a, <1>b DEF RealAnswers, RealFails, Return, disk, Writing
  <1>6. ASSUME NEW c \in Cursors, BeginWrite(c) PROVE WrittenInOrder'
    <2>1. PICK n \in Nat : SqlFiles(cassette) = 0 .. (n - 1)
      BY <1>t DEF RecordingInv, Numbering
    <2>2. n = count_interactions(cassette) /\ n \notin Complete
      BY <2>1, CountOfNumbering
    <2>3. /\ index' = [index EXCEPT ![c] = n] /\ pc' = [pc EXCEPT ![c] = "sql"]
          /\ UNCHANGED cassette
      BY <1>6, <2>2 DEF BeginWrite, NextIndex
    <2>4. QED  BY <2>2, <2>3, <1>t, <1>a, <1>b DEF Writing
  <1>7. ASSUME NEW c \in Cursors, WriteSql(c) PROVE WrittenInOrder'
    <2>1. /\ Writing(c) /\ \A d \in Cursors : d # c => ~Writing(d)
          /\ pc' = [pc EXCEPT ![c] = "arrow"] /\ index' = index
          /\ cassette' = [cassette EXCEPT ![index[c]] =
                            [cassette[index[c]] EXCEPT !.sql = Query(c).sql]]
      BY <1>7, <1>t DEF WriteSql, AtStep, Writing, OneWriter
    <2>2. PICK n \in Nat : index[c] = n /\ SqlFiles(cassette) = 0 .. (n - 1) /\ n \in Slots
      BY <1>7, <1>t, IndexIsNext DEF WriteSql, AtStep
    <2>3. Query(c).sql # NoFile
      BY <1>7, <1>t, CassetteAssumption
      DEF WriteSql, AtStep, RecordingInv, TypeInv, CallsInProgress, Calls, Query, Queries
    <2>4. SqlFiles(cassette)' = 0 .. n
      <3>1. \A i \in Slots : cassette'[i].sql # NoFile <=> cassette[i].sql # NoFile \/ i = n
        BY <2>1, <2>2, <2>3, <1>t DEF Interactions
      <3>2. SqlFiles(cassette)' = SqlFiles(cassette) \union {n}
        BY <2>2, <3>1 DEF SqlFiles
      <3>3. QED  BY <3>2, <2>2
    <2>5. count_interactions(cassette)' = n + 1
      <3>1. n + 1 \in Nat /\ SqlFiles(cassette') = 0 .. ((n + 1) - 1)
        BY <2>4 DEF SqlFiles
      <3>2. count_interactions(cassette') = n + 1
        BY ONLY <3>1, CountOfNumbering
      <3>3. QED  BY <3>2 DEF count_interactions, SqlFiles
    <2>6. Complete' = Complete
      <3>1. \A i \in Slots : cassette'[i].params = cassette[i].params
        BY <2>1, <1>t DEF Interactions
      <3>2. QED  BY <3>1 DEF Complete
    <2>7. \A i : InWriting(i)' => i = n
      BY <2>1, <2>2, <1>t DEF InWriting, Writing
    <2>8. n \notin Complete
      BY <2>1, <2>2, <1>b
    <2>9. \A i \in Complete : i \in SqlFiles(cassette)'
      BY <2>2, <2>4
    <2>10. \A d \in Cursors : pc'[d] \in {"arrow", "params"} => d = c
      BY <2>1, <1>t DEF Writing
    <2>11. QED  BY <2>1, <2>2, <2>5, <2>6, <2>7, <2>8, <2>9, <2>10
  <1>8. ASSUME NEW c \in Cursors, WriteArrow(c) PROVE WrittenInOrder'
    <2>1. /\ Writing(c) /\ pc[c] = "arrow" /\ pc' = [pc EXCEPT ![c] = "params"]
          /\ index' = index
          /\ cassette' = [cassette EXCEPT ![index[c]] =
                            [cassette[index[c]] EXCEPT !.arrow = ScrubbedTable(c)]]
      BY <1>8 DEF WriteArrow, AtStep, Writing
    <2>2. \A i \in Slots : cassette'[i].params = cassette[i].params
                           /\ cassette'[i].sql = cassette[i].sql
      BY <2>1, <1>t DEF Interactions
    <2>3. Complete' = Complete /\ SqlFiles(cassette)' = SqlFiles(cassette)
      BY <2>2 DEF Complete, SqlFiles
    <2>4. \A d \in Cursors : Writing(d)' <=> Writing(d)
      BY <2>1, <1>t DEF Writing
    <2>5. \A d \in Cursors : pc'[d] \in {"arrow", "params"} => pc[d] \in {"arrow", "params"}
      BY <2>1, <1>t
    <2>6. QED  BY <2>1, <2>3, <2>4, <2>5 DEF InWriting, count_interactions
  <1>9. ASSUME NEW c \in Cursors, WriteParams(c) PROVE WrittenInOrder'
    <2>1. /\ Writing(c) /\ \A d \in Cursors : d # c => ~Writing(d)
          /\ pc' = [pc EXCEPT ![c] = "idle"]
          /\ cassette' = [cassette EXCEPT ![index[c]] =
                 [cassette[index[c]] EXCEPT !.params = ScrubbedQuery(Query(c)).params]]
          /\ index[c] \in SqlFiles(cassette)
      <3>1. /\ pc[c] = "params" /\ index[c] \in Slots /\ Query(c).sql # NoFile
            /\ cassette[index[c]].sql = Query(c).sql
        BY <1>9, <1>t, CassetteAssumption
        DEF WriteParams, AtStep, WriterHasOwnIndex, RecordingInv, TypeInv,
            CallsInProgress, Calls, Query, Queries, Writing
      <3>2. QED  BY <1>9, <1>t, <3>1 DEF WriteParams, Return, Writing, OneWriter, SqlFiles
    <2>2. \A i \in Slots : /\ cassette'[i].sql = cassette[i].sql
                           /\ i # index[c] => cassette'[i].params = cassette[i].params
      BY <2>1, <1>t DEF Interactions
    <2>3. SqlFiles(cassette)' = SqlFiles(cassette) /\ Complete' \subseteq Complete \union {index[c]}
      BY <2>2 DEF Complete, SqlFiles
    <2>4. \A d \in Cursors : ~Writing(d)'
      BY <2>1, <1>t DEF Writing
    <2>5. QED  BY <2>1, <2>3, <2>4 DEF InWriting, Writing
  <1>10. ASSUME NEW c \in Cursors, Wipe(c) PROVE WrittenInOrder'
    <2>1. \A d \in Cursors : ~Writing(d) /\ ~Writing(d)'
      BY <1>10, <1>t, CursorsAssumption
      DEF Wipe, Initialising, ToDispatch, Writing, OneWriter
    <2>2. Complete' = {}
      BY <1>10 DEF Wipe, Complete, EmptyCassette, NoInteraction
    <2>3. QED  BY <2>1, <2>2 DEF Writing
  <1>11. ASSUME Release, UNCHANGED cassette PROVE WrittenInOrder'
    BY <1>11, <1>a DEF Release, Writing
  <1>12. ASSUME NEW m \in Modes, StartRun(m) PROVE WrittenInOrder'
    BY <1>12, <1>a, <1>b DEF StartRun, disk, Writing
  <1>13. ~Crash /\ \A c \in Cursors : ~WriteFails(c) /\ ~WipeFails(c)
    BY DEF Crash, WriteFails, WipeFails, PartlyWipe
  <1>14. QED
    BY <1>1, <1>2, <1>3, <1>4, <1>5, <1>6, <1>7, <1>8, <1>9, <1>10, <1>11, <1>12, <1>13
    DEF Next, Step, Finished, EndRun, disk

(* The steps that touch the cassette, or what the run found of it.         *)
TapeTouched ==
    \/ Release
    \/ \E m \in Modes : StartRun(m)
    \/ \E c \in Cursors : Wipe(c) \/ WriteSql(c) \/ WriteArrow(c) \/ WriteParams(c)

LEMMA OtherSteps ==
    ASSUME Faults = {}, [Next]_vars, ~TapeTouched
    PROVE  UNCHANGED <<cassette, start, mode, wiped>>
  <1>. DEFINE Goal == UNCHANGED <<cassette, start, mode, wiped>>
  <1>1. CASE UNCHANGED vars
    BY <1>1 DEF vars, disk, session, shared
  <1>2. ASSUME NEW c \in Cursors, NEW q \in Asked, Execute(c, q) \/ AskSchema(c, q)
        PROVE  Goal
    BY <1>2 DEF Execute, AskSchema, Begin, disk, session, shared
  <1>3. ASSUME NEW c \in Cursors, RecordOnly(c) \/ LoadQueue(c) \/ LoadFails(c)
                                  \/ ShareQueue(c)
        PROVE  Goal
    BY <1>3 DEF RecordOnly, LoadQueue, LoadFails, ShareQueue, Initialising, disk, session
  <1>4. ASSUME NEW c \in Cursors, Replay(c) \/ NothingQueued(c) \/ AskReal(c)
                                  \/ RaiseMiss(c) \/ AnswerSchema(c)
        PROVE  Goal
    BY <1>4 DEF Replay, NothingQueued, AskReal, RaiseMiss, AnswerSchema, disk, session,
       shared
  <1>5. ASSUME NEW c \in Cursors, RealAnswers(c) \/ RealFails(c) \/ BeginWrite(c)
        PROVE  Goal
    BY <1>5 DEF RealAnswers, RealFails, BeginWrite, disk, session, shared
  <1>6. ~EndRun /\ ~Crash /\ \A c \in Cursors : ~WriteFails(c) /\ ~WipeFails(c)
    BY DEF Crash, WriteFails, WipeFails, PartlyWipe, EndRun, TapeTouched
  <1>7. QED
    BY <1>1, <1>2, <1>3, <1>4, <1>5, <1>6 DEF Next, Step, Finished, TapeTouched

(* What the run found is whole, and is not what is being written.          *)
LEMMA StartIsComplete ==
    ASSUME SoundInv, WrittenInOrder, StartOnTape, ~wiped, NEW i \in SqlFiles(start)
    PROVE  /\ i \in Complete /\ i \in Slots /\ cassette[i] = start[i]
           /\ ~InWriting(i)
  <1>1. cassette[i] = start[i] /\ i \in Slots
    BY DEF StartOnTape, SqlFiles
  <1>2. start[i].params # NoFile
    BY CassetteAssumption DEF SoundInv, WholeInv
  <1>3. i \in Complete
    BY <1>1, <1>2 DEF Complete
  <1>4. QED  BY <1>1, <1>3 DEF WrittenInOrder

LEMMA StartStep ==
    ASSUME Faults = {}, SoundInv, WrittenInOrder, StartOnTape, [Next]_vars
    PROVE  StartOnTape'
  <1>t. /\ cassette \in [Slots -> Interactions] /\ Numbering
        /\ mode = NoMode => ~wiped
    BY CursorsAssumption DEF SoundInv, RecordingInv, TypeInv, TypeOK, StartOnTape
  <1>1. CASE ~TapeTouched
    BY <1>1, OtherSteps DEF StartOnTape, SqlFiles
  <1>2. ASSUME Release PROVE StartOnTape'
    <2>1. start' = EmptyCassette /\ ~wiped'
      BY <1>2 DEF Release
    <2>2. SqlFiles(start)' = 0 .. (0 - 1)
      BY <2>1, NumberingOfEmpty DEF SqlFiles
    <2>3. \A i \in SqlFiles(start)' : cassette'[i] = start'[i]
      BY <2>2
    <2>4. QED  BY <2>1, <2>2, <2>3 DEF StartOnTape
  <1>3. ASSUME NEW m \in Modes, StartRun(m) PROVE StartOnTape'
    BY <1>3, <1>t DEF StartRun, StartOnTape, disk, shared, Numbering, SqlFiles
  <1>4. ASSUME NEW c \in Cursors, Wipe(c) PROVE StartOnTape'
    BY <1>4 DEF Wipe, Initialising, MustWipe, StartOnTape, session, SqlFiles
  <1>5. ASSUME NEW c \in Cursors, WriteSql(c) \/ WriteArrow(c) \/ WriteParams(c)
        PROVE  StartOnTape'
    <2>1. /\ UNCHANGED <<start, wiped, mode>> /\ Writing(c)
          /\ \A i \in Slots : i # index[c] => cassette'[i] = cassette[i]
      BY <1>5, <1>t
      DEF WriteSql, WriteArrow, WriteParams, AtStep, Writing, session, shared
    <2>2. ASSUME ~wiped, NEW i \in SqlFiles(start) PROVE cassette'[i] = start'[i]
      <3>1. i \in Slots /\ cassette[i] = start[i] /\ ~InWriting(i)
        BY <2>2, StartIsComplete
      <3>2. QED  BY <2>1, <3>1 DEF InWriting
    <2>3. QED  BY <2>1, <2>2 DEF StartOnTape, SqlFiles
  <1>6. QED  BY <1>1, <1>2, <1>3, <1>4, <1>5 DEF TapeTouched

LEMMA TapeInvStep ==
    ASSUME Faults = {}, SoundInv, TapeInv, [Next]_vars
    PROVE  TapeInv'
  BY OutcomeStep, SchemasStep, WrittenStep, StartStep DEF TapeInv, SoundInv
-----------------------------------------------------------------------------
(* The tape as the interactions show it.                                   *)
LEMMA TapeShape ==
    ASSUME SoundInv, TapeInv
    PROVE  \E m \in Nat :
             /\ Complete = 0 .. (m - 1) /\ Cardinality(Complete) = m
             /\ \A c \in Cursors : Writing(c) => index[c] = m
             /\ \A i \in Complete : i \in Slots /\ i + 1 \in 1 .. m
  <1>. DEFINE n == count_interactions(cassette)
  <1>1. n \in Nat /\ SqlFiles(cassette) = 0 .. (n - 1)
    BY CountOfNumbering DEF SoundInv, RecordingInv, Numbering
  <1>2. \A i \in SqlFiles(cassette) : i \in Complete \/ InWriting(i)
    BY CassetteAssumption DEF SoundInv, WholeInv, Complete, SqlFiles
  <1>3. \A i \in Complete : i \in SqlFiles(cassette) /\ ~InWriting(i) /\ i \in Slots
    BY DEF TapeInv, WrittenInOrder, Complete
  <1>4. \A c \in Cursors : Writing(c) =>
          \/ pc[c] = "sql" /\ index[c] = n
          \/ index[c] = n - 1 /\ index[c] \in Nat /\ n > 0
    BY <1>1
    DEF TapeInv, WrittenInOrder, SoundInv, RecordingInv, WriterHasOwnIndex, Writing,
        TypeInv, TypeOK
  <1>5. \A c, d \in Cursors : Writing(c) /\ Writing(d) => c = d
    BY DEF SoundInv, RecordingInv, OneWriter
  <1>6. \E m \in Nat : Complete = 0 .. (m - 1)
                       /\ \A c \in Cursors : Writing(c) => index[c] = m
    <2>. HIDE DEF n
    <2>1. CASE \E c \in Cursors : Writing(c) /\ index[c] # n
      <3>1. PICK c \in Cursors : Writing(c) /\ index[c] # n
        BY <2>1
      <3>2. index[c] = n - 1 /\ n - 1 \in Nat
        BY <1>4, <3>1
      <3>3. \A i \in Complete : i \in 0 .. (n - 1) /\ i # n - 1
        BY <1>1, <1>3, <3>1, <3>2 DEF InWriting
      <3>4. \A i \in 0 .. (n - 1) : i # n - 1 => i \in Complete
        BY <1>1, <1>2, <1>5, <3>1, <3>2 DEF InWriting
      <3>5. Complete = 0 .. ((n - 1) - 1)
        <4>1. \A i \in 0 .. (n - 1) : i # n - 1 <=> i \in 0 .. ((n - 1) - 1)
          BY <1>1
        <4>2. 0 .. ((n - 1) - 1) \subseteq 0 .. (n - 1)
          BY <1>1
        <4>3. QED  BY <3>3, <3>4, <4>1, <4>2
      <3>6. QED  BY <1>5, <3>1, <3>2, <3>5
    <2>2. CASE \A c \in Cursors : Writing(c) => index[c] = n
      <3>1. \A i \in SqlFiles(cassette) : ~InWriting(i)
        BY <1>1, <2>2 DEF InWriting
      <3>2. Complete = 0 .. (n - 1)
        BY <1>1, <1>2, <1>3, <3>1
      <3>3. QED  BY <1>1, <2>2, <3>2
    <2>3. QED  BY <2>1, <2>2
  <1>7. PICK m \in Nat : Complete = 0 .. (m - 1)
                         /\ \A c \in Cursors : Writing(c) => index[c] = m
    BY <1>6
  <1>8. Cardinality(Complete) = m
    BY <1>7, FS_Interval
  <1>9. \A i \in Complete : i \in Slots /\ i + 1 \in 1 .. m
    BY <1>3, <1>7
  <1>10. QED  BY <1>7, <1>8, <1>9

LEMMA TapeSame ==
    ASSUME SoundInv, TapeInv, Complete' = Complete,
           \A i \in Complete : cassette'[i] = cassette[i]
    PROVE  Recordings' = Recordings
  <1>1. PICK m \in Nat : Complete = 0 .. (m - 1) /\ Cardinality(Complete) = m
    BY TapeShape
  <1>2. \A n \in 1 .. m : n - 1 \in Complete
    BY <1>1
  <1>3. Cardinality(Complete') = m
    BY <1>1
  <1>4. QED  BY <1>1, <1>2, <1>3 DEF Recordings, KeyOf

(* What the run may play is what it found.                                 *)
LEMMA StartRecordings ==
    ASSUME SoundInv, TapeInv, ~wiped
    PROVE  /\ count_interactions(start) \in Nat
           /\ \A n \in 1 .. count_interactions(start) :
                /\ n - 1 \in SqlFiles(start) /\ n - 1 \in Slots
                /\ n \in 1 .. MaxInteractions /\ n \in Nat
                /\ Recordings[n].query = KeyOf(start[n - 1])
                /\ Recordings[n].table = start[n - 1].arrow
           /\ \A i \in SqlFiles(start) : i \in Nat /\ i + 1 \in 1 .. count_interactions(start)
  <1>1. PICK k \in Nat : SqlFiles(start) = 0 .. (k - 1)
    BY DEF TapeInv, StartOnTape
  <1>2. count_interactions(start) = k
    BY <1>1, CountOfNumbering
  <1>3. PICK m \in Nat : /\ Complete = 0 .. (m - 1) /\ Cardinality(Complete) = m
                         /\ \A i \in Complete : i \in Slots /\ i + 1 \in 1 .. m
    BY TapeShape
  <1>4. ASSUME NEW n \in 1 .. k
        PROVE  /\ n - 1 \in SqlFiles(start) /\ n - 1 \in Slots
               /\ n \in 1 .. MaxInteractions /\ n \in Nat
               /\ Recordings[n].query = KeyOf(start[n - 1])
               /\ Recordings[n].table = start[n - 1].arrow
    <2>1. n - 1 \in SqlFiles(start)
      BY <1>1
    <2>2. n - 1 \in Complete /\ n - 1 \in Slots /\ cassette[n - 1] = start[n - 1]
      BY <2>1, StartIsComplete DEF TapeInv
    <2>3. n \in 1 .. m
      BY <2>2, <1>3
    <2>4. Recordings[n] = [query |-> KeyOf(cassette[n - 1]), table |-> cassette[n - 1].arrow]
      BY <2>3, <1>3 DEF Recordings
    <2>5. n \in 1 .. MaxInteractions
      BY <2>2, CassetteAssumption DEF Slots
    <2>6. QED  BY <2>1, <2>2, <2>4, <2>5
  <1>5. \A i \in SqlFiles(start) : i \in Nat /\ i + 1 \in 1 .. k
    BY <1>1
  <1>6. QED  BY <1>2, <1>4, <1>5

Played == {n \in 1 .. MaxInteractions : served[n - 1] > 0}

Base == IF wiped THEN 0 ELSE count_interactions(start)

LEMMA Stutters ==
    ASSUME Recordings' = Recordings,
           UNCHANGED <<mode, start, wiped, served, call, result, outcome>>
    PROVE  UNCHANGED Tape!vars
  <1>1. count_interactions(start)' = count_interactions(start)
    BY DEF count_interactions, SqlFiles
  <1>2. [c \in Cursors |-> Verdict(c)]' = [c \in Cursors |-> Verdict(c)]
    BY DEF Verdict
  <1>3. Played' = Played
    BY DEF Played
  <1>4. QED  BY <1>1, <1>2, <1>3 DEF Tape!vars, Played

LEMMA Waits ==
    ASSUME SoundInv, TapeInv, NEW c \in Cursors, pc[c] # "idle", NEW op, call[c].op = op
    PROVE  Tape!Waiting(c, op)
  <1>1. outcome[c] = "none" /\ call[c] \in Calls
    BY DEF TapeInv, OutcomeAtEnd, SoundInv, RecordingInv, TypeInv, CallsInProgress
  <1>2. call[c] # NoCall
    BY <1>1, CursorsAssumption DEF Calls
  <1>3. QED  BY <1>1, <1>2 DEF Tape!Waiting, Verdict, Misses

LEMMA NoneWaits ==
    ASSUME SoundInv, TapeInv, NEW c \in Cursors, pc[c] = "idle", NEW op
    PROVE  ~Tape!Waiting(c, op)
  <1>1. call[c] # NoCall => outcome[c] # "none"
    BY DEF TapeInv, OutcomeAtEnd
  <1>2. QED  BY <1>1 DEF Tape!Waiting, Verdict

(* The recordings of a query that are left, as the tape has them.          *)
LEMMA UnplayedIsLeft ==
    ASSUME SoundInv, TapeInv, ~wiped, NEW c \in Cursors
    PROVE  \A n : n \in Tape!Unplayed(c) <=> n \in Int /\ n - 1 \in Left(Query(c))
  <1>1. served \in [Slots -> Nat]
    BY DEF SoundInv, RecordingInv, TypeInv, TypeOK
  <1>2. Tape!Unplayed(c) = {n \in (1 .. count_interactions(start)) \ Played :
                              Recordings[n].query = Query(c)}
    BY DEF Tape!Unplayed, Played, Query
  <1>3. ASSUME NEW n, n \in Tape!Unplayed(c)
        PROVE  n \in Int /\ n - 1 \in Left(Query(c))
    BY <1>1, <1>2, <1>3, StartRecordings DEF Left, Played
  <1>4. ASSUME NEW n \in Int, n - 1 \in Left(Query(c))
        PROVE  n \in Tape!Unplayed(c)
    <2>1. n - 1 \in SqlFiles(start) /\ KeyOf(start[n - 1]) = Query(c) /\ served[n - 1] = 0
      BY <1>4 DEF Left
    <2>2. n \in 1 .. count_interactions(start)
      <3>1. (n - 1) + 1 \in 1 .. count_interactions(start)
        BY <2>1, StartRecordings
      <3>2. QED  BY <3>1
    <2>3. QED  BY <1>2, <2>1, <2>2, StartRecordings DEF Played
  <1>5. QED  BY <1>3, <1>4

LEMMA VerdictGiven ==
    ASSUME NEW c \in Cursors, NEW how, outcome \in [Cursors -> Outcomes], Return(c, how)
    PROVE  [d \in Cursors |-> Verdict(d)]' =
             [[d \in Cursors |-> Verdict(d)] EXCEPT ![c] =
                IF how \in Misses THEN "miss" ELSE how]
  BY DEF Return, Verdict
-----------------------------------------------------------------------------
(* What each step of the cursors is on the tape.                           *)
LEMMA TapeStarts ==
    ASSUME SoundInv, TapeInv, NEW m \in Modes, StartRun(m)
    PROVE  Tape!StartRun(m)
  <1>1. /\ mode = NoMode /\ mode' = m /\ start' = cassette /\ cassette' = cassette
        /\ wiped' = wiped /\ ~wiped
        /\ UNCHANGED <<served, call, outcome, result>>
    BY CursorsAssumption DEF StartRun, TapeInv, StartOnTape, disk, shared, history
  <1>2. \A c \in Cursors : ~Writing(c)
    BY <1>1 DEF SoundInv, ModesInv, CursorsDecided, Writing
  <1>3. Complete = SqlFiles(cassette)
    BY <1>2, CassetteAssumption
    DEF SoundInv, WholeInv, InWriting, Complete, SqlFiles, TapeInv, WrittenInOrder
  <1>4. count_interactions(start)' = Cardinality(Complete)
    BY <1>1, <1>3 DEF count_interactions, SqlFiles
  <1>5. Cardinality(Complete) \in Nat
    BY TapeShape
  <1>6. Len(Recordings) = Cardinality(Complete)
    BY <1>5 DEF Recordings
  <1>7. Recordings' = Recordings
    BY <1>1, TapeSame DEF Complete
  <1>8. Played' = Played /\ [c \in Cursors |-> Verdict(c)]' = [c \in Cursors |-> Verdict(c)]
    BY <1>1 DEF Played, Verdict
  <1>9. QED  BY <1>1, <1>4, <1>6, <1>7, <1>8 DEF Tape!StartRun, Played

LEMMA TapeEnds ==
    ASSUME SoundInv, TapeInv, EndRun
    PROVE  Tape!EndRun
  <1>1. /\ mode # NoMode /\ mode' = NoMode /\ start' = EmptyCassette /\ cassette' = cassette
        /\ ~wiped' /\ served' = [i \in Slots |-> 0]
        /\ call' = [c \in Cursors |-> NoCall] /\ result' = [c \in Cursors |-> NoResult]
        /\ outcome' = [c \in Cursors |-> "none"]
        /\ \A c \in Cursors : pc[c] = "idle"
    BY DEF EndRun, Release, disk
  <1>2. Recordings' = Recordings
    BY <1>1, TapeSame DEF Complete
  <1>3. count_interactions(start)' = 0
    BY <1>1, NoneBefore DEF count_interactions, SqlFiles
  <1>4. Played' = {}
    BY <1>1, CassetteAssumption DEF Played, Slots
  <1>5. [c \in Cursors |-> Verdict(c)]' = [c \in Cursors |-> "none"]
    BY <1>1 DEF Verdict, Misses
  <1>6. \A c \in Cursors : ~Tape!Waiting(c, "execute") /\ ~Tape!Waiting(c, "schema")
    BY <1>1, NoneWaits
  <1>7. QED  BY <1>1, <1>2, <1>3, <1>4, <1>5, <1>6 DEF Tape!EndRun, Played

LEMMA TapeAsks ==
    ASSUME SoundInv, TapeInv, NEW c \in Cursors, NEW q \in Asked,
           Execute(c, q) \/ AskSchema(c, q)
    PROVE  \E asking \in Tape!Calls : Tape!Ask(c, asking)
  <1>1. PICK asking \in Calls :
          /\ call' = [call EXCEPT ![c] = asking]
          /\ \/ /\ asking.op = "execute" /\ result' = [result EXCEPT ![c] = NoResult]
             \/ /\ asking.op # "execute" /\ result' = result
    <2>1. CASE Execute(c, q)
      <3>1. [op |-> "execute", query |-> q] \in Calls
        BY CursorsAssumption DEF Calls
      <3>2. QED  BY <2>1, <3>1 DEF Execute, Begin
    <2>2. CASE AskSchema(c, q)
      <3>1. [op |-> "schema", query |-> q] \in Calls
        BY CursorsAssumption DEF Calls
      <3>2. QED  BY <2>2, <3>1 DEF AskSchema, Begin
    <2>3. QED  BY <2>1, <2>2
  <1>2. /\ mode # NoMode /\ pc[c] = "idle"
        /\ UNCHANGED <<cassette, start, mode, wiped, served>>
        /\ outcome' = [outcome EXCEPT ![c] = "none"]
    BY DEF Execute, AskSchema, Begin, AtStep, disk, session, shared, history
  <1>3. Recordings' = Recordings
    BY <1>2, TapeSame DEF Complete
  <1>4. count_interactions(start)' = count_interactions(start) /\ Played' = Played
    BY <1>2 DEF count_interactions, SqlFiles, Played
  <1>5. [d \in Cursors |-> Verdict(d)]' = [[d \in Cursors |-> Verdict(d)] EXCEPT ![c] = "none"]
    BY <1>2 DEF Verdict, Misses, SoundInv, RecordingInv, TypeInv, TypeOK
  <1>6. ~Tape!Waiting(c, "execute") /\ ~Tape!Waiting(c, "schema")
    BY <1>2, NoneWaits
  <1>7. Tape!Ask(c, asking)
    BY <1>1, <1>2, <1>3, <1>4, <1>5, <1>6 DEF Tape!Ask, Played
  <1>8. asking \in Tape!Calls
    BY <1>1 DEF Calls, Tape!Calls
  <1>9. QED  BY <1>7, <1>8

LEMMA TapeErased ==
    ASSUME SoundInv, TapeInv, NEW c \in Cursors, Wipe(c)
    PROVE  Tape!Erase
  <1>1. /\ mode = "all" /\ ~wiped /\ wiped' = TRUE /\ pc[c] # "idle"
        /\ cassette' = EmptyCassette
        /\ UNCHANGED <<mode, served, call, result, outcome>>
    BY DEF Wipe, Initialising, MustWipe, ToDispatch, AtStep, session
  <1>2. call[c].op = "execute"
    BY <1>1
    DEF SoundInv, ModesInv, CursorsDecided, RecordingInv, TypeInv, CallsInProgress, Calls
  <1>3. Tape!Waiting(c, "execute")
    BY <1>1, <1>2, Waits
  <1>4. Recordings' = <<>>
    <2>1. Complete' = {}
      BY <1>1 DEF Complete, EmptyCassette, NoInteraction
    <2>2. Cardinality(Complete') = 0
      BY <2>1, FS_EmptySet
    <2>3. 1 .. Cardinality(Complete') = {}
      BY <2>2
    <2>4. QED  BY <2>3 DEF Recordings
  <1>5. Played' = Played /\ [d \in Cursors |-> Verdict(d)]' = [d \in Cursors |-> Verdict(d)]
    BY <1>1 DEF Played, Verdict
  <1>6. QED  BY <1>1, <1>3, <1>4, <1>5 DEF Tape!Erase, Played

LEMMA TapePlays ==
    ASSUME SoundInv, TapeInv, NEW c \in Cursors, Replay(c)
    PROVE  Tape!Play(c)
  <1>1. PICK e \in replay_queue :
           /\ IsFront(e, replay_queue, Query(c))
           /\ result' = [result EXCEPT ![c] = [query |-> Query(c), table |-> e.table]]
           /\ served' = [served EXCEPT ![e.idx] = @ + 1]
    BY DEF Replay, Queue
  <1>2. /\ pc[c] # "idle" /\ call[c].op = "execute" /\ mode # "all" /\ ~wiped
        /\ UNCHANGED <<cassette, start, mode, wiped, call>>
        /\ Return(c, "ok")
    BY DEF Replay, Dispatching, AtStep, Replaying, TapeInv, StartOnTape, disk, session
  <1>3. /\ replay_queue = Unserved
        /\ outcome \in [Cursors -> Outcomes] /\ served \in [Slots -> Nat]
    BY <1>1 DEF SoundInv, QueueInv, QueueIsUnserved, RecordingInv, TypeInv, TypeOK
  <1>4. /\ e.idx \in SqlFiles(start) /\ e.idx \in Slots /\ served[e.idx] = 0
        /\ e.query = KeyOf(start[e.idx]) /\ e.table = start[e.idx].arrow
        /\ e.query = Query(c)
    BY <1>1, <1>3, EntriesByIndex DEF Unserved, IsFront
  <1>. DEFINE i == e.idx + 1
  <1>5. /\ i \in Int /\ i - 1 = e.idx /\ i \in 1 .. count_interactions(start)
        /\ i \in 1 .. MaxInteractions
    <2>1. e.idx \in Nat /\ i \in 1 .. count_interactions(start)
      BY <1>2, <1>4, StartRecordings
    <2>2. QED  BY <2>1, <1>2, StartRecordings
  <1>. HIDE DEF i
  <1>6. i \in Tape!Unplayed(c)
    BY <1>2, <1>4, <1>5, UnplayedIsLeft DEF Left
  <1>7. ASSUME NEW j \in Tape!Unplayed(c) PROVE i <= j
    <2>1. j \in Int /\ j - 1 \in Left(Query(c))
      BY <1>2, UnplayedIsLeft
    <2>2. PICK f \in load_all_interactions(start) :
             f.idx = j - 1 /\ f.query = KeyOf(start[j - 1])
      BY <2>1, EntryOf DEF Left
    <2>3. f \in replay_queue /\ f.query = Query(c)
      BY <1>3, <2>1, <2>2 DEF Unserved, Left
    <2>4. e.idx <= j - 1
      BY <1>1, <2>2, <2>3 DEF IsFront
    <2>5. QED  BY <2>1, <2>4, <1>4, <1>5 DEF Slots
  <1>8. Played' = Played \union {i}
    <2>1. \A n \in 1 .. MaxInteractions : n - 1 \in Slots /\ n \in Int
      BY CassetteAssumption DEF Slots
    <2>2. \A n \in 1 .. MaxInteractions : n - 1 = e.idx <=> n = i
      BY <1>5
    <2>3. \A n \in 1 .. MaxInteractions : served'[n - 1] > 0 <=> served[n - 1] > 0 \/ n = i
      BY <1>1, <1>3, <1>4, <2>1, <2>2
    <2>4. QED  BY <1>5, <2>3 DEF Played
  <1>9. Recordings[i].table = e.table
    BY <1>2, <1>4, <1>5, StartRecordings
  <1>10. Recordings' = Recordings
    BY <1>2, TapeSame DEF Complete
  <1>11. count_interactions(start)' = count_interactions(start)
    BY <1>2 DEF count_interactions, SqlFiles
  <1>12. [d \in Cursors |-> Verdict(d)]' = [[d \in Cursors |-> Verdict(d)] EXCEPT ![c] = "ok"]
    BY <1>2, <1>3, VerdictGiven DEF Misses
  <1>13. Tape!Waiting(c, "execute")
    BY <1>2, Waits
  <1>14. Tape!Answer(c, Recordings[i])
    BY <1>1, <1>2, <1>9, <1>11, <1>12 DEF Tape!Answer, Query
  <1>15. QED
    BY <1>2, <1>6, <1>7, <1>8, <1>10, <1>13, <1>14 DEF Tape!Play, Played

(* What allows a cursor to record lets the tape grow.                      *)
LEMMA MayGrow ==
    ASSUME SoundInv, TapeInv, NEW c \in Cursors, Recording(c), mode # NoMode
    PROVE  \/ mode = "all" /\ wiped
           \/ mode = "once" /\ Base = 0
           \/ mode = "new_episodes" /\ Tape!Unplayed(c) = {}
  <1>1. RecordingRun /\ initialised[c]
    BY DEF SoundInv, ModesInv, CursorsDecided, Recording
  <1>2. CASE mode = "all"
    BY <1>1, <1>2 DEF SoundInv, RecordingInv, WipeBeforeRecording
  <1>3. CASE mode = "once"
    <2>1. ~wiped /\ SqlFiles(start) = {}
      BY <1>1, <1>3
      DEF RecordingRun, SoundInv, ModesInv, DecisionKept, cassette_has_interactions,
          TapeInv, StartOnTape
    <2>2. QED  BY <1>3, <2>1, FS_EmptySet DEF Base, count_interactions
  <1>4. CASE mode = "new_episodes"
    <2>1. ~wiped /\ Left(Query(c)) = {}
      BY <1>4 DEF SoundInv, FoundOut, TapeInv, StartOnTape
    <2>2. QED  BY <1>4, <2>1, UnplayedIsLeft
  <1>5. QED  BY <1>1, <1>2, <1>3, <1>4 DEF RecordingRun

LEMMA TapeRecords ==
    ASSUME SoundInv, TapeInv, NEW c \in Cursors, WriteParams(c)
    PROVE  \E t \in Tables : Tape!Record(c, t)
  <1>. DEFINE slot == [cassette[index[c]] EXCEPT !.params = ScrubbedQuery(Query(c)).params]
              new == [query |-> ScrubbedQuery(Query(c)), table |-> ScrubTable[table[c]]]
  <1>1. /\ pc[c] = "params" /\ mode # NoMode
        /\ cassette' = [cassette EXCEPT ![index[c]] = slot]
        /\ result' = [result EXCEPT ![c] = [query |-> Query(c), table |-> ScrubTable[table[c]]]]
        /\ Return(c, "ok")
        /\ UNCHANGED <<start, mode, wiped, call, served>>
    BY DEF WriteParams, AtStep, session, shared, ReturnedTable, ScrubbedTable
  <1>2. /\ cassette[index[c]].sql = Query(c).sql
        /\ cassette[index[c]].arrow = ScrubTable[table[c]]
        /\ index[c] \in Slots /\ table[c] \in Tables
        /\ Query(c) \in Queries /\ Writing(c) /\ Recording(c) /\ call[c].op = "execute"
        /\ cassette \in [Slots -> Interactions] /\ outcome \in [Cursors -> Outcomes]
    <2>1. Writing(c) /\ Recording(c) /\ mode # "none"
      BY <1>1 DEF Writing, Recording, SoundInv, ModesInv, CursorsDecided, RecordingRun
    <2>2. QED
      BY <1>1, <2>1
      DEF SoundInv, RecordingInv, WriterHasOwnIndex, ScrubbedTable, TypeInv, TypeOK,
          CallsInProgress, Calls, Query, ModesInv, CursorsDecided
  <1>3. ScrubbedQuery(Query(c)).params \in Params /\ ScrubbedQuery(Query(c)).sql = Query(c).sql
    BY <1>2, CassetteAssumption DEF ScrubbedQuery, Queries
  <1>4. PICK m \in Nat :
          /\ Complete = 0 .. (m - 1) /\ Cardinality(Complete) = m /\ index[c] = m
    BY <1>2, TapeShape
  <1>5. /\ cassette'[m].params # NoFile /\ KeyOf(cassette'[m]) = ScrubbedQuery(Query(c))
        /\ cassette'[m].arrow = ScrubTable[table[c]]
    <2>1. cassette'[m] = slot /\ cassette[index[c]] \in Interactions
      BY <1>1, <1>2, <1>4
    <2>2. /\ cassette'[m].params = ScrubbedQuery(Query(c)).params
          /\ cassette'[m].sql = Query(c).sql /\ cassette'[m].arrow = ScrubTable[table[c]]
      BY <1>2, <2>1 DEF Interactions
    <2>3. cassette'[m].params # NoFile
      BY <1>3, <2>2, CassetteAssumption
    <2>4. KeyOf(cassette'[m]) = [sql |-> Query(c).sql, params |-> ScrubbedQuery(Query(c)).params]
      BY <2>2, <2>3 DEF KeyOf
    <2>5. QED  BY <1>2, <2>2, <2>3, <2>4 DEF ScrubbedQuery, Queries
  <1>6. \A i \in Slots : i # m => cassette'[i] = cassette[i]
    BY <1>1, <1>2, <1>4
  <1>7. Complete' = 0 .. m
    <2>1. Complete' = Complete \union {m}
      BY <1>2, <1>4, <1>5, <1>6 DEF Complete
    <2>2. QED  BY <2>1, <1>4
  <1>8. Cardinality(Complete') = m + 1
    BY <1>7, FS_Interval
  <1>9. Recordings' = Append(Recordings, new)
    <2>. HIDE DEF slot
    <2>1. /\ Recordings' = [n \in 1 .. (m + 1) |->
                [query |-> KeyOf(cassette'[n - 1]), table |-> cassette'[n - 1].arrow]]
          /\ Recordings = [n \in 1 .. m |->
                [query |-> KeyOf(cassette[n - 1]), table |-> cassette[n - 1].arrow]]
      BY <1>4, <1>8 DEF Recordings, KeyOf
    <2>2. \A n \in 1 .. m : n - 1 \in Slots /\ n - 1 # m
      <3>1. \A n \in 1 .. m : n - 1 \in Complete /\ n - 1 # m
        BY <1>4
      <3>2. QED  BY <3>1 DEF Complete
    <2>3. Len(Recordings) = m /\ Append(Recordings, new) = [n \in 1 .. (m + 1) |->
            IF n = m + 1 THEN new ELSE Recordings[n]]
      BY <2>1
    <2>4. ASSUME NEW n \in 1 .. (m + 1)
          PROVE  Recordings'[n] = IF n = m + 1 THEN new ELSE Recordings[n]
      <3>1. CASE n = m + 1
        <4>1. n - 1 = m
          BY <3>1
        <4>2. QED  BY <2>1, <3>1, <4>1, <1>5
      <3>2. CASE n \in 1 .. m
        BY SMTT(30), <2>1, <2>2, <3>2, <1>6
      <3>3. QED  BY <3>1, <3>2
    <2>. HIDE DEF new
    <2>5. QED  BY <2>1, <2>3, <2>4
  <1>10. /\ count_interactions(start)' = count_interactions(start) /\ Played' = Played
    BY <1>1 DEF count_interactions, SqlFiles, Played
  <1>11. [d \in Cursors |-> Verdict(d)]' = [[d \in Cursors |-> Verdict(d)] EXCEPT ![c] = "ok"]
    BY <1>1, <1>2, VerdictGiven DEF Misses
  <1>12. Tape!Waiting(c, "execute")
    BY <1>1, <1>2, Waits
  <1>13. Tape!Answer(c, new)
    BY <1>1, <1>10, <1>11 DEF Tape!Answer, Query
  <1>14. \/ mode = "all" /\ wiped
         \/ mode = "once" /\ Base = 0
         \/ mode = "new_episodes" /\ Tape!Unplayed(c) = {}
    BY <1>1, <1>2, MayGrow
  <1>15. Tape!Record(c, table[c])
    BY <1>9, <1>10, <1>12, <1>13, <1>14 DEF Tape!Record, Played, Base, Query
  <1>16. QED  BY <1>2, <1>15

(* A call that ends without a table.                                       *)
LEMMA TapeAnswers ==
    ASSUME SoundInv, TapeInv, NEW c \in Cursors, NEW how \in Outcomes, Return(c, how),
           UNCHANGED <<cassette, start, mode, wiped, call, served, result>>
    PROVE  Tape!NoAnswer(c, IF how \in Misses THEN "miss" ELSE how)
  <1>1. Recordings' = Recordings
    BY TapeSame DEF Complete
  <1>2. count_interactions(start)' = count_interactions(start) /\ Played' = Played
    BY DEF count_interactions, SqlFiles, Played
  <1>3. [d \in Cursors |-> Verdict(d)]' =
          [[d \in Cursors |-> Verdict(d)] EXCEPT ![c] = IF how \in Misses THEN "miss" ELSE how]
    BY VerdictGiven DEF SoundInv, RecordingInv, TypeInv, TypeOK
  <1>4. QED  BY <1>1, <1>2, <1>3 DEF Tape!NoAnswer, Played

LEMMA TapeFails ==
    ASSUME SoundInv, TapeInv, NEW c \in Cursors, RealFails(c)
    PROVE  Tape!Fail(c)
  <1>1. /\ pc[c] = "real" /\ mode # NoMode /\ Return(c, "error") /\ Recording(c)
        /\ UNCHANGED <<cassette, start, mode, wiped, call, served, result>>
    BY DEF RealFails, AtStep, Recording, disk, session, shared, history
  <1>2. call[c].op = "execute"
    BY <1>1
    DEF SoundInv, ModesInv, CursorsDecided, RecordingRun, RecordingInv, TypeInv,
        CallsInProgress, Calls
  <1>3. Tape!NoAnswer(c, "error")
    BY <1>1, TapeAnswers DEF Misses, Outcomes
  <1>4. Tape!Waiting(c, "execute")
    BY <1>1, <1>2, Waits
  <1>5. QED  BY <1>1, <1>3, <1>4, MayGrow DEF Tape!Fail, Base

(* The tape knows a query if the cassette did at the start of the run.     *)
LEMMA Describable ==
    ASSUME SoundInv, TapeInv, ~wiped, NEW q
    PROVE  (\E i \in 1 .. count_interactions(start) : Recordings[i].query = q) <=> Recorded(q)
  <1>1. ASSUME NEW i \in SqlFiles(start), KeyOf(start[i]) = q
        PROVE  \E n \in 1 .. count_interactions(start) : Recordings[n].query = q
    <2>1. i \in Nat /\ i + 1 \in 1 .. count_interactions(start)
      BY StartRecordings
    <2>2. (i + 1) - 1 = i
      BY <2>1
    <2>3. Recordings[i + 1].query = q
      BY <1>1, <2>1, <2>2, StartRecordings
    <2>4. QED  BY <2>1, <2>3
  <1>2. ASSUME NEW n \in 1 .. count_interactions(start), Recordings[n].query = q
        PROVE  Recorded(q)
    BY <1>2, StartRecordings DEF Recorded
  <1>3. QED  BY <1>1, <1>2 DEF Recorded

LEMMA TapeDescribes ==
    ASSUME SoundInv, TapeInv, NEW c \in Cursors, NEW how \in Outcomes, Return(c, how),
           pc[c] # "idle", call[c].op = "schema",
           \/ how = "schema" /\ Recorded(Query(c))
           \/ how \in Misses /\ ~Recorded(Query(c)),
           UNCHANGED <<cassette, start, mode, wiped, call, served, result>>
    PROVE  Tape!Describe(c)
  <1>1. mode = "none" /\ ~wiped
    BY DEF SoundInv, ModesInv, CursorsDecided, TapeInv, StartOnTape
  <1>2. Tape!Waiting(c, "schema")
    BY Waits
  <1>3. Tape!NoAnswer(c, IF how \in Misses THEN "miss" ELSE how)
    BY TapeAnswers
  <1>4. (IF how \in Misses THEN "miss" ELSE how) =
          IF \E i \in 1 .. count_interactions(start) : Recordings[i].query = call[c].query
          THEN "schema" ELSE "miss"
    BY <1>1, Describable DEF Query, Misses
  <1>5. QED  BY <1>1, <1>2, <1>3, <1>4 DEF Tape!Describe

LEMMA TapeMisses ==
    ASSUME SoundInv, TapeInv, NEW c \in Cursors, RaiseMiss(c)
    PROVE  Tape!Miss(c) \/ Tape!Describe(c)
  <1>1. PICK how \in Misses : Return(c, how)
    BY DEF RaiseMiss, Misses
  <1>2. /\ pc[c] = "miss" /\ how \in Outcomes
        /\ UNCHANGED <<cassette, start, mode, wiped, call, served, result>>
    BY DEF RaiseMiss, AtStep, disk, session, shared, history, Outcomes
  <1>3. /\ call[c].op = "execute" => Left(Query(c)) = {}
        /\ call[c].op = "schema" => ~Recorded(Query(c))
        /\ Replaying /\ call[c].op \in {"execute", "schema"}
    BY <1>2
    DEF SoundInv, FoundOut, ModesInv, CursorsDecided, RecordingInv, TypeInv,
        CallsInProgress, Calls
  <1>4. CASE call[c].op = "schema"
    BY <1>1, <1>2, <1>3, <1>4, TapeDescribes
  <1>5. CASE call[c].op = "execute"
    <2>1. Tape!NoAnswer(c, "miss")
      BY <1>1, <1>2, TapeAnswers
    <2>2. Tape!Waiting(c, "execute")
      BY <1>2, <1>5, Waits
    <2>3. ~wiped
      BY <1>3 DEF Replaying, TapeInv, StartOnTape
    <2>4. Tape!Unplayed(c) = {}
      BY <1>3, <1>5, <2>3, UnplayedIsLeft
    <2>5. mode = "once" => count_interactions(start) > 0
      <3>1. mode = "once" => SqlFiles(start) # {}
        BY <1>3 DEF Replaying, SoundInv, ModesInv, DecisionKept, cassette_has_interactions
      <3>2. QED  BY <2>3, <3>1, StartRecordings
    <2>6. mode \in {"none", "once"}
      BY <1>3 DEF Replaying
    <2>7. QED  BY <2>1, <2>2, <2>3, <2>4, <2>5, <2>6 DEF Tape!Miss
  <1>6. QED  BY <1>3, <1>4, <1>5

LEMMA TapeSchemas ==
    ASSUME SoundInv, TapeInv, NEW c \in Cursors, AnswerSchema(c)
    PROVE  Tape!Describe(c) \/ UNCHANGED Tape!vars
  <1>1. /\ pc[c] = "dispatch" /\ call[c].op = "schema" /\ mode # NoMode
        /\ UNCHANGED <<cassette, start, mode, wiped, call, served, result>>
    BY DEF AnswerSchema, AtStep, disk, session, history
  <1>2. mode = "none"
    BY <1>1 DEF SoundInv, ModesInv, CursorsDecided
  <1>3. CASE SchemasFor(c) # {}
    <2>1. Recorded(Query(c))
      <3>1. CASE Queued(c)
        <4>1. PICK e \in replay_queue : e.query = Query(c)
          BY <3>1 DEF Queued, Queue
        <4>2. e \in load_all_interactions(start)
          BY <4>1 DEF SoundInv, QueueInv, QueueIsUnserved, Unserved
        <4>3. QED  BY <4>1, <4>2, EntriesByIndex DEF Recorded
      <3>2. CASE ~Queued(c) /\ result[c] # NoResult /\ result[c].query = Query(c)
        BY <1>2, <3>2 DEF TapeInv, SchemasFromStart
      <3>3. CASE ~Queued(c) /\ ~(result[c] # NoResult /\ result[c].query = Query(c))
        <4>1. \E s \in recorded_schemas : s.query = Query(c)
          BY <1>3, <3>3 DEF SchemasFor
        <4>2. QED  BY <4>1 DEF TapeInv, SchemasFromStart
      <3>4. QED  BY <3>1, <3>2, <3>3
    <2>2. Return(c, "schema")
      BY <1>3 DEF AnswerSchema
    <2>3. QED  BY <1>1, <2>1, <2>2, TapeDescribes DEF Outcomes
  <1>4. CASE SchemasFor(c) = {}
    <2>1. outcome' = outcome
      BY <1>4 DEF AnswerSchema
    <2>2. Recordings' = Recordings
      BY <1>1, TapeSame DEF Complete
    <2>3. QED  BY <1>1, <2>1, <2>2, Stutters
  <1>5. QED  BY <1>3, <1>4

(* The steps between the first and the last of a call.                     *)
LEMMA TapeStutters ==
    ASSUME SoundInv, TapeInv, NEW c \in Cursors,
           \/ RecordOnly(c) \/ LoadQueue(c) \/ ShareQueue(c)
           \/ NothingQueued(c) \/ AskReal(c) \/ RealAnswers(c)
           \/ BeginWrite(c) \/ WriteSql(c) \/ WriteArrow(c)
    PROVE  UNCHANGED Tape!vars
  <1>1. UNCHANGED <<mode, start, wiped, served, call, result, outcome>>
    BY DEF RecordOnly, LoadQueue, ShareQueue, Initialising, ToDispatch, NothingQueued,
       AskReal, RealAnswers, BeginWrite, WriteSql, WriteArrow, session, shared, history
  <1>2. CASE WriteSql(c) \/ WriteArrow(c)
    <2>1. Writing(c) /\ index[c] \in Slots /\ cassette \in [Slots -> Interactions]
      BY <1>2
      DEF WriteSql, WriteArrow, AtStep, Writing, SoundInv, RecordingInv, TypeInv, TypeOK,
          CallsInProgress
    <2>2. index[c] \notin Complete
      BY <2>1 DEF TapeInv, WrittenInOrder, InWriting
    <2>3. \A i \in Slots : /\ cassette'[i].params = cassette[i].params
                           /\ i # index[c] => cassette'[i] = cassette[i]
      BY <1>2, <2>1 DEF WriteSql, WriteArrow, Interactions
    <2>4. Complete' = Complete /\ \A i \in Complete : cassette'[i] = cassette[i]
      BY <2>2, <2>3 DEF Complete
    <2>5. QED  BY <1>1, <2>4, TapeSame, Stutters
  <1>3. CASE ~(WriteSql(c) \/ WriteArrow(c))
    <2>1. cassette' = cassette
      BY <1>3 DEF RecordOnly, LoadQueue, ShareQueue, NothingQueued, AskReal, RealAnswers,
         BeginWrite, disk
    <2>2. Recordings' = Recordings
      BY <2>1, TapeSame DEF Complete
    <2>3. QED  BY <1>1, <2>2, Stutters
  <1>4. QED  BY <1>2, <1>3

LEMMA TapeInit == Init => Tape!Init
  <1>. SUFFICES ASSUME Init PROVE Tape!Init
    OBVIOUS
  <1>1. Complete = {}
    BY DEF Init, Complete, EmptyCassette, NoInteraction
  <1>2. {n \in 1 .. MaxInteractions : served[n - 1] > 0} = {}
    BY CassetteAssumption DEF Init, Slots
  <1>3. Recordings = <<>>
    BY <1>1, EmptyTape
  <1>4. [c \in Cursors |-> Verdict(c)] = [c \in Cursors |-> "none"]
    BY DEF Init, Verdict, Misses
  <1>5. QED  BY <1>2, <1>3, <1>4, NoneBefore DEF Tape!Init, Init

LEMMA TapeStep ==
    ASSUME Faults = {}, SoundInv, TapeInv, [Next]_vars
    PROVE  [Tape!Next]_(Tape!vars)
  <1>1. CASE UNCHANGED vars
    <2>1. UNCHANGED <<cassette, mode, start, wiped, served, call, result, outcome>>
      BY <1>1 DEF vars, disk, session, shared, history
    <2>2. Recordings' = Recordings
      BY <2>1, TapeSame DEF Complete
    <2>3. QED  BY <2>1, <2>2, Stutters
  <1>2. ASSUME NEW m \in Modes, StartRun(m) PROVE Tape!Next
    BY <1>2, TapeStarts DEF Tape!Next
  <1>3. CASE EndRun
    BY <1>3, TapeEnds DEF Tape!Next
  <1>4. ASSUME NEW c \in Cursors, NEW q \in Asked, Execute(c, q) \/ AskSchema(c, q)
        PROVE  Tape!Next
    BY <1>4, TapeAsks DEF Tape!Next
  <1>5. ASSUME NEW c \in Cursors, Wipe(c) PROVE Tape!Next
    BY <1>5, TapeErased DEF Tape!Next
  <1>6. ASSUME NEW c \in Cursors, Replay(c) \/ RaiseMiss(c) \/ RealFails(c)
        PROVE  Tape!Next
    BY <1>6, TapePlays, TapeMisses, TapeFails DEF Tape!Next
  <1>7. ASSUME NEW c \in Cursors, WriteParams(c) PROVE Tape!Next
    BY <1>7, TapeRecords DEF Tape!Next
  <1>8. ASSUME NEW c \in Cursors, AnswerSchema(c) PROVE [Tape!Next]_(Tape!vars)
    BY <1>8, TapeSchemas DEF Tape!Next
  <1>9. ASSUME NEW c \in Cursors,
               \/ RecordOnly(c) \/ LoadQueue(c) \/ ShareQueue(c)
               \/ NothingQueued(c) \/ AskReal(c) \/ RealAnswers(c)
               \/ BeginWrite(c) \/ WriteSql(c) \/ WriteArrow(c)
        PROVE  UNCHANGED Tape!vars
    BY <1>9, TapeStutters
  <1>10. ~Crash /\ \A c \in Cursors : ~WriteFails(c) /\ ~WipeFails(c) /\ ~LoadFails(c)
    BY WholeLoads
    DEF Crash, WriteFails, WipeFails, PartlyWipe, LoadFails, Initialising, SoundInv
  <1>11. QED
    BY <1>1, <1>2, <1>3, <1>4, <1>5, <1>6, <1>7, <1>8, <1>9, <1>10 DEF Next, Step, Finished

(* Without failures the locks, the shared queue and the three files of an  *)
(* interaction cannot be told from a tape on which each call is answered   *)
(* in one step, with any number of cursors (_cursor.py:181-444).           *)
THEOREM CursorsImplementTape ==
    ASSUME Faults = {}
    PROVE  Spec => ImplementsTape
  <1>1. SoundInv /\ TapeInv /\ [Next]_vars => TapeInv'
    BY TapeInvStep
  <1>2. SoundInv /\ TapeInv /\ [Next]_vars => [Tape!Next]_(Tape!vars)
    BY TapeStep
  <1>3. QED
    BY <1>1, <1>2, TapeInit, TapeInvInit, SoundInvariant, PTL DEF Spec, ImplementsTape, Tape!Spec
=============================================================================
