------------------------- MODULE ReplayQueueProofs --------------------------
(* What is replayed, missed and recorded anew, proved for any number of    *)
(* cursors, queries, runs and calls: the queue that the cursors share is   *)
(* always what the cassette held at the start less what was served, so a   *)
(* lookup that finds nothing means that nothing is left.                   *)
EXTENDS RecordModesProofs, WellFoundedInduction

LEMMA LeastElement ==
    ASSUME NEW S \in SUBSET Nat, S # {}
    PROVE  \E m \in S : \A k \in S : m <= k
  <1>. DEFINE R == {ss \in Nat \X Nat : ss[1] < ss[2]}
  <1>1. IsWellFoundedOn(R, Nat)
    BY NatLessThanWellFounded DEF OpToRel
  <1>2. PICK m \in S : \A k \in S : ~ (<<k, m>> \in R)
    <2>. HIDE DEF R
    <2>1. QED  BY <1>1, WFMin
  <1>3. \A k \in S : ~ (k < m)
    BY <1>2
  <1>4. QED  BY <1>3

(* The entries of the cassette as the run found it, not replayed yet.      *)
Unserved == {e \in load_all_interactions(start) : served[e.idx] = 0}

(* After a load that failed the queue is empty for the rest of the run.    *)
QueueIsUnserved == replay_queue = {} \/ replay_queue = Unserved

ServedInOrder ==
    \A i, j \in SqlFiles(start) :
        i < j /\ KeyOf(start[i]) = KeyOf(start[j]) => served[j] <= served[i]

QueueInv == QueueIsUnserved /\ ServedInOrder

(* The steps that touch the queue or what it is compared with.             *)
QueueTouched ==
    \/ Release
    \/ \E m \in Modes : StartRun(m)
    \/ \E c \in Cursors : LoadQueue(c) \/ Replay(c)

LEMMA QueueSteps ==
    ASSUME [Next]_vars, ~QueueTouched
    PROVE  /\ start' = start /\ served' = served /\ replay_queue' = replay_queue
           /\ mode' = mode /\ run' = run /\ recorded_schemas' = recorded_schemas
  <1>. DEFINE Goal ==
         /\ start' = start /\ served' = served /\ replay_queue' = replay_queue
         /\ mode' = mode /\ run' = run /\ recorded_schemas' = recorded_schemas
  <1>1. CASE UNCHANGED vars
    BY <1>1 DEF vars, session, shared, history
  <1>2. ASSUME NEW c \in Cursors, NEW q \in Asked, Execute(c, q) \/ AskSchema(c, q)
        PROVE  Goal
    BY <1>2 DEF Execute, AskSchema, Begin, session, shared, history
  <1>3. ASSUME NEW c \in Cursors, Wipe(c) \/ RecordOnly(c) \/ LoadFails(c)
                                  \/ ShareQueue(c) \/ WipeFails(c)
        PROVE  Goal
    BY <1>3 DEF Wipe, RecordOnly, LoadFails, ShareQueue, WipeFails, Initialising, session
  <1>4. ASSUME NEW c \in Cursors, NothingQueued(c) \/ AskReal(c) \/ RaiseMiss(c)
                                  \/ AnswerSchema(c) \/ RealAnswers(c) \/ RealFails(c)
        PROVE  Goal
    BY <1>4 DEF NothingQueued, AskReal, RaiseMiss, AnswerSchema, QueueAfterPeek,
       RealAnswers, RealFails, session, shared, history
  <1>5. ASSUME NEW c \in Cursors, BeginWrite(c) \/ WriteSql(c) \/ WriteArrow(c)
                                  \/ WriteParams(c) \/ WriteFails(c)
        PROVE  Goal
    BY <1>5 DEF BeginWrite, WriteSql, WriteArrow, WriteParams, WriteFails, session,
       shared, history
  <1>6. ~EndRun /\ ~Crash
    BY DEF EndRun, Crash, QueueTouched
  <1>7. QED
    BY <1>1, <1>2, <1>3, <1>4, <1>5, <1>6 DEF Next, Step, Finished, QueueTouched

LEMMA QueueInit == Init => QueueInv
  BY DEF Init, QueueInv, QueueIsUnserved, ServedInOrder, SqlFiles, EmptyCassette

(* An entry is known by its index.                                         *)
LEMMA EntryOf ==
    ASSUME NEW i \in SqlFiles(start)
    PROVE  \E e \in load_all_interactions(start) :
              e.idx = i /\ e.query = KeyOf(start[i]) /\ e.table = start[i].arrow
  <1>. DEFINE e == [idx |-> i, query |-> KeyOf(start[i]), table |-> start[i].arrow]
  <1>1. e \in load_all_interactions(start)
    BY DEF load_all_interactions
  <1>2. e.idx = i /\ e.query = KeyOf(start[i]) /\ e.table = start[i].arrow
    OBVIOUS
  <1>3. QED  BY <1>1, <1>2

LEMMA EntriesByIndex ==
    \A e \in load_all_interactions(start) :
       /\ e.idx \in SqlFiles(start) /\ e.idx \in Slots
       /\ e = [idx |-> e.idx, query |-> KeyOf(start[e.idx]), table |-> start[e.idx].arrow]
  <1>. TAKE e \in load_all_interactions(start)
  <1>1. PICK i \in SqlFiles(start) :
           e = [idx |-> i, query |-> KeyOf(start[i]), table |-> start[i].arrow]
    BY DEF load_all_interactions
  <1>2. e.idx = i
    BY <1>1
  <1>3. QED  BY <1>1, <1>2 DEF SqlFiles

(* At the time of a load the run has not changed the cassette.             *)
LEMMA LoadsStart ==
    ASSUME ModesInv, NEW c \in Cursors, LoadQueue(c)
    PROVE  /\ cassette = start /\ start' = start /\ served' = served
           /\ replay_queue' = load_all_interactions(start)
           /\ \A i \in Slots : served[i] = 0
  <1>1. ~RecordingRun /\ mode # NoMode
    BY DEF ModesInv, CursorsDecided, LoadQueue, Initialising, AtStep, Decision, Loads,
       MustLoad, RecordingRun
  <1>2. cassette = start
    BY <1>1 DEF ModesInv, AsFound
  <1>3. QED
    BY <1>2 DEF LoadQueue, Initialising, MustLoad, session, ModesInv, QueueFromStart

LEMMA QueueStep ==
    ASSUME ModesInv, QueueInv, [Next]_vars
    PROVE  QueueInv'
  <1>1. CASE ~QueueTouched
    <2>1. start' = start /\ served' = served /\ replay_queue' = replay_queue
      BY <1>1, QueueSteps
    <2>2. QED
      BY <2>1 DEF QueueInv, QueueIsUnserved, Unserved, ServedInOrder
  <1>2. ASSUME Release PROVE QueueInv'
    BY <1>2 DEF Release, QueueInv, QueueIsUnserved, ServedInOrder, SqlFiles, EmptyCassette
  <1>3. ASSUME NEW m \in Modes, StartRun(m) PROVE QueueInv'
    <2>1. /\ replay_queue' = {} /\ \A i \in Slots : served'[i] = 0
      BY <1>3 DEF StartRun, shared, history, ModesInv, CursorsDecided, QueueFromStart
    <2>2. QED  BY <2>1 DEF QueueInv, QueueIsUnserved, ServedInOrder, SqlFiles
  <1>4. ASSUME NEW c \in Cursors, LoadQueue(c) PROVE QueueInv'
    <2>1. /\ start' = start /\ served' = served
          /\ replay_queue' = load_all_interactions(start)
          /\ \A i \in Slots : served[i] = 0
      BY <1>4, LoadsStart
    <2>2. replay_queue' = Unserved'
      BY <2>1, EntriesByIndex DEF Unserved
    <2>3. QED  BY <2>1, <2>2 DEF QueueInv, QueueIsUnserved, ServedInOrder, SqlFiles
  <1>5. ASSUME NEW c \in Cursors, Replay(c) PROVE QueueInv'
    <2>1. PICK e \in replay_queue :
             /\ IsFront(e, replay_queue, Query(c))
             /\ replay_queue' = replay_queue \ {e}
             /\ served' = [served EXCEPT ![e.idx] = @ + 1]
      BY <1>5 DEF Replay, Queue
    <2>2. /\ replay_queue = Unserved /\ start' = start
          /\ served \in [Slots -> Nat]
          /\ \A i \in Slots : served[i] <= 1
      BY <1>5, <2>1 DEF QueueInv, QueueIsUnserved, Replay, session, ModesInv, TypeInv,
         TypeOK, QueueFromStart
    <2>3. /\ e \in load_all_interactions(start) /\ served[e.idx] = 0
          /\ e.idx \in Slots /\ e.idx \in SqlFiles(start)
          /\ e.query = KeyOf(start[e.idx])
      BY <2>1, <2>2, EntriesByIndex DEF Unserved
    <2>4. served'[e.idx] = 1 /\ \A i \in Slots : i # e.idx => served'[i] = served[i]
      BY <2>1, <2>2, <2>3
    <2>5. replay_queue' = Unserved'
      <3>1. ASSUME NEW f \in load_all_interactions(start)
            PROVE  served'[f.idx] = 0 <=> served[f.idx] = 0 /\ f # e
        BY <2>3, <2>4, EntriesByIndex
      <3>2. QED  BY <2>1, <2>2, <3>1 DEF Unserved
    <2>6. ServedInOrder'
      <3>. SUFFICES ASSUME NEW i \in SqlFiles(start), NEW j \in SqlFiles(start),
                           i < j, KeyOf(start[i]) = KeyOf(start[j])
                    PROVE  served'[j] <= served'[i]
        BY <2>2 DEF ServedInOrder
      <3>1. i \in Slots /\ j \in Slots /\ served[j] <= served[i]
        BY DEF SqlFiles, QueueInv, ServedInOrder
      <3>2. CASE j = e.idx
        <4>1. PICK f \in load_all_interactions(start) :
                 f.idx = i /\ f.query = KeyOf(start[i])
          BY EntryOf
        <4>2. e.query = Query(c)
          BY <2>1 DEF IsFront
        <4>3. f \notin replay_queue
          BY <2>1, <2>3, <3>1, <3>2, <4>1, <4>2 DEF IsFront, Slots
        <4>4. served[i] # 0
          BY <2>2, <4>1, <4>3 DEF Unserved
        <4>5. QED  BY <2>2, <2>4, <3>1, <3>2, <4>4 DEF Slots
      <3>3. CASE j # e.idx
        BY <2>2, <2>4, <3>1, <3>3 DEF Slots
      <3>4. QED  BY <3>2, <3>3
    <2>7. QED  BY <2>5, <2>6 DEF QueueInv, QueueIsUnserved
  <1>6. QED  BY <1>1, <1>2, <1>3, <1>4, <1>5 DEF QueueTouched

(* The recordings of a query are replayed in the order in which they were  *)
(* made, whichever cursors ask, and with every fault.                      *)
THEOREM ReplayedInOrderAlways == Spec => []ReplayedInOrder
  <1>1. QueueInv => ReplayedInOrder
    BY DEF QueueInv, ServedInOrder, ReplayedInOrder
  <1>2. ModesInv /\ QueueInv /\ [Next]_vars => QueueInv'
    BY QueueStep
  <1>3. QED  BY <1>1, <1>2, QueueInit, ModesInvariant, PTL DEF Spec
-----------------------------------------------------------------------------
(* Without failures: no interaction is torn, so no load fails, and nothing *)
(* is on disk that no test was told of.                                    *)
InWriting(i) == \E c \in Cursors : Writing(c) /\ index[c] = i

WholeInv ==
    /\ \A i \in SqlFiles(cassette) : ~InWriting(i) =>
         /\ cassette[i].arrow \in Tables /\ cassette[i].params \in Params
         /\ \E t \in told : t.idx = i
    /\ \A i \in SqlFiles(start) :
         /\ start[i].arrow \in Tables /\ start[i].params \in Params
         /\ mode # "all" => \E t \in told : t.query = KeyOf(start[i])
                                            /\ t.table = start[i].arrow

LEMMA WholeInit == Init => WholeInv
  BY DEF Init, WholeInv, SqlFiles, EmptyCassette, NoInteraction

(* What a step does that writes no file and begins no run.                 *)
LEMMA WholeFrame ==
    ASSUME WholeInv,
           UNCHANGED <<cassette, start, mode, told>>,
           \A c \in Cursors : Writing(c) => Writing(c)' /\ index'[c] = index[c]
    PROVE  WholeInv'
  <1>1. \A i : InWriting(i) => InWriting(i)'
    BY DEF InWriting
  <1>2. SqlFiles(cassette)' = SqlFiles(cassette) /\ SqlFiles(start)' = SqlFiles(start)
    BY DEF SqlFiles
  <1>3. QED  BY <1>1, <1>2 DEF WholeInv

(* ... and one that writes a file of its own interaction, not the last.    *)
LEMMA WholeWrite ==
    ASSUME WholeInv, TypeInv, NEW c \in Cursors, Writing(c), Writing(c)',
           NEW slot, cassette' = [cassette EXCEPT ![index[c]] = slot],
           UNCHANGED <<start, mode, told, index>>,
           \A d \in Cursors : Writing(d) => Writing(d)'
    PROVE  WholeInv'
  <1>1. /\ \A i : InWriting(i) => InWriting(i)'
        /\ InWriting(index[c])'
    BY DEF InWriting
  <1>2. \A i \in SqlFiles(cassette)' : i # index[c] =>
           i \in SqlFiles(cassette) /\ cassette'[i] = cassette[i]
    BY DEF SqlFiles, TypeInv, TypeOK
  <1>3. QED  BY <1>1, <1>2 DEF WholeInv, SqlFiles

LEMMA WholeStep ==
    ASSUME Faults = {}, RecordingInv, ModesInv, WholeInv, [Next]_vars
    PROVE  WholeInv'
  <1>t. /\ TypeInv
        /\ cassette \in [Slots -> Interactions]
        /\ pc \in [Cursors -> {"idle", "initialise", "dispatch", "miss", "real",
                               "record", "sql", "arrow", "params"}]
        /\ index \in [Cursors -> Nat]
    BY DEF RecordingInv, TypeInv, TypeOK
  <1>1. CASE UNCHANGED vars
    BY <1>1, WholeFrame DEF vars, disk, session, history, Writing
  <1>2. ASSUME NEW c \in Cursors, NEW q \in Asked, Execute(c, q) \/ AskSchema(c, q)
        PROVE  WholeInv'
    BY <1>2, <1>t, WholeFrame
    DEF Execute, AskSchema, Begin, AtStep, disk, session, history, Writing
  <1>3. ASSUME NEW c \in Cursors, RecordOnly(c) \/ LoadQueue(c) \/ LoadFails(c)
                                  \/ ShareQueue(c)
        PROVE  WholeInv'
    BY <1>3, <1>t, WholeFrame
    DEF RecordOnly, LoadQueue, LoadFails, ShareQueue, Initialising, ToDispatch, Return,
        AtStep, disk, session, Writing
  <1>4. ASSUME NEW c \in Cursors, Replay(c) \/ NothingQueued(c) \/ AskReal(c)
                                  \/ RaiseMiss(c) \/ AnswerSchema(c)
        PROVE  WholeInv'
    BY <1>4, <1>t, WholeFrame
    DEF Replay, NothingQueued, AskReal, RaiseMiss, AnswerSchema, Dispatching, Return,
        AtStep, disk, session, history, Writing
  <1>5. ASSUME NEW c \in Cursors, RealAnswers(c) \/ RealFails(c)
        PROVE  WholeInv'
    BY <1>5, <1>t, WholeFrame
    DEF RealAnswers, RealFails, Return, AtStep, disk, session, history, Writing
  <1>6. ASSUME NEW c \in Cursors, BeginWrite(c) PROVE WholeInv'
    BY <1>6, <1>t, WholeFrame DEF BeginWrite, AtStep, session, history, Writing
  <1>7. ASSUME NEW c \in Cursors, WriteSql(c) PROVE WholeInv'
    <2>1. /\ Writing(c) /\ Writing(c)'
          /\ \A d \in Cursors : Writing(d) => Writing(d)'
          /\ cassette' = [cassette EXCEPT ![index[c]] =
                            [cassette[index[c]] EXCEPT !.sql = Query(c).sql]]
          /\ UNCHANGED <<start, mode, told, index>>
      BY <1>7, <1>t DEF WriteSql, AtStep, session, history, Writing
    <2>2. QED  BY <2>1, <1>t, WholeWrite
  <1>8. ASSUME NEW c \in Cursors, WriteArrow(c) PROVE WholeInv'
    <2>1. /\ Writing(c) /\ Writing(c)'
          /\ \A d \in Cursors : Writing(d) => Writing(d)'
          /\ cassette' = [cassette EXCEPT ![index[c]] =
                            [cassette[index[c]] EXCEPT !.arrow = ScrubbedTable(c)]]
          /\ UNCHANGED <<start, mode, told, index>>
      BY <1>8, <1>t DEF WriteArrow, AtStep, session, history, Writing
    <2>2. QED  BY <2>1, <1>t, WholeWrite
  <1>9. ASSUME NEW c \in Cursors, WriteParams(c) PROVE WholeInv'
    <2>. DEFINE i == index[c]
                p == ScrubbedQuery(Query(c)).params
                new == [run |-> run, idx |-> i, asked |-> Query(c),
                        query |-> ScrubbedQuery(Query(c)), table |-> ReturnedTable(c)]
    <2>1. /\ pc[c] = "params" /\ i \in Slots
          /\ cassette[i].arrow = ScrubbedTable(c) /\ table[c] \in Tables
          /\ Query(c) \in Queries
      BY <1>9, <1>t DEF WriteParams, AtStep, RecordingInv, WriterHasOwnIndex, TypeInv,
         CallsInProgress, Writing, Query, Calls
    <2>2. p \in Params /\ ScrubbedTable(c) \in Tables
      BY <2>1, ScrubbedQueryType, CassetteAssumption DEF ScrubbedTable, Queries
    <2>3. /\ cassette' = [cassette EXCEPT ![i] = [cassette[i] EXCEPT !.params = p]]
          /\ told' = told \union {new} /\ start' = start /\ mode' = mode
      BY <1>9 DEF WriteParams, session
    <2>4. /\ cassette'[i].arrow \in Tables /\ cassette'[i].params \in Params
          /\ new \in told' /\ new.idx = i
      BY <1>t, <2>1, <2>2, <2>3 DEF Interactions
    <2>5. ASSUME NEW j \in SqlFiles(cassette)', j # i
          PROVE  j \in SqlFiles(cassette) /\ cassette'[j] = cassette[j]
      BY <1>t, <2>3, <2>5 DEF SqlFiles
    <2>6. \A j : InWriting(j) /\ j # i => InWriting(j)'
      <3>1. \A d \in Cursors : Writing(d) => d = c
        BY <2>1 DEF RecordingInv, OneWriter, Writing
      <3>2. QED  BY <3>1 DEF InWriting
    <2>7. ASSUME NEW j \in SqlFiles(cassette)', ~InWriting(j)'
          PROVE  /\ cassette'[j].arrow \in Tables /\ cassette'[j].params \in Params
                 /\ \E t \in told' : t.idx = j
      <3>. HIDE DEF i, new, p
      <3>1. CASE j = i
        BY <2>4, <3>1
      <3>2. CASE j # i
        BY <2>3, <2>5, <2>6, <2>7, <3>2 DEF WholeInv
      <3>3. QED  BY <3>1, <3>2
    <2>8. QED  BY <2>3, <2>7 DEF WholeInv, SqlFiles
  <1>10. ASSUME NEW c \in Cursors, Wipe(c) PROVE WholeInv'
    BY <1>10 DEF Wipe, Initialising, MustWipe, session, WholeInv, SqlFiles, EmptyCassette,
       NoInteraction
  <1>11. ASSUME NEW m \in Modes, StartRun(m) PROVE WholeInv'
    <2>1. \A c \in Cursors : ~Writing(c)
      BY <1>11 DEF StartRun, ModesInv, CursorsDecided, Writing
    <2>2. \A i \in SqlFiles(cassette) :
            /\ cassette[i].arrow \in Tables /\ cassette[i].params \in Params
            /\ \E t \in told : t.idx = i
      BY <2>1 DEF WholeInv, InWriting
    <2>3. ASSUME NEW i \in SqlFiles(cassette)
          PROVE  \E t \in told : t.query = KeyOf(cassette[i]) /\ t.table = cassette[i].arrow
      <3>1. PICK t \in told : t.idx = i
        BY <2>2
      <3>2. /\ t.query \in Queries
            /\ cassette[i] = [sql |-> t.query.sql, arrow |-> t.table,
                              params |-> t.query.params]
        BY <1>t, <3>1 DEF RecordingInv, RecordingsKept, OnDisk, TypeInv, TypeOK, Told
      <3>3. KeyOf(cassette[i]) = t.query
        BY <3>2, CassetteAssumption DEF KeyOf, Queries
      <3>4. QED  BY <3>2, <3>3
    <2>4. /\ cassette' = cassette /\ start' = cassette /\ told' = told
          /\ \A c \in Cursors : ~Writing(c)'
      BY <1>11, <2>1 DEF StartRun, disk, history, Writing
    <2>5. QED  BY <2>2, <2>3, <2>4 DEF WholeInv, SqlFiles
  <1>12. ASSUME EndRun PROVE WholeInv'
    <2>1. \A c \in Cursors : ~Writing(c)
      BY <1>12 DEF EndRun, Writing
    <2>2. /\ cassette' = cassette /\ start' = EmptyCassette /\ told' = told
      BY <1>12 DEF EndRun, Release, disk
    <2>3. QED  BY <2>1, <2>2 DEF WholeInv, InWriting, SqlFiles, EmptyCassette, NoInteraction
  <1>13. /\ ~Crash
         /\ \A c \in Cursors : ~WriteFails(c) /\ ~WipeFails(c)
    BY DEF Crash, WriteFails, WipeFails, PartlyWipe
  <1>14. QED
    BY <1>1, <1>2, <1>3, <1>4, <1>5, <1>6, <1>7, <1>8, <1>9, <1>10, <1>11, <1>12, <1>13
    DEF Next, Step, Finished

(* Interactions that are whole can be loaded, whoever reads them.          *)
LEMMA WholeLoads ==
    ASSUME RecordingInv, WholeInv, write_lock = NoCursor
    PROVE  /\ \A i \in SqlFiles(cassette) :
                cassette[i].arrow \in Tables /\ cassette[i].params \in Params
           /\ Loadable(cassette)
  <1>1. \A c \in Cursors : ~Writing(c)
    BY CursorsAssumption DEF RecordingInv, OneWriter
  <1>2. \A i : ~InWriting(i)
    BY <1>1 DEF InWriting
  <1>3. QED  BY <1>2, CassetteAssumption DEF WholeInv, Loadable
-----------------------------------------------------------------------------
(* Whoever reads the cassette looks in one queue, which lacks only what    *)
(* was served; the schemas of all recordings are remembered.               *)
ReadsCassette ==
    \/ mode \in {"none", "new_episodes"}
    \/ mode = "once" /\ once_replay = "replay"

CompleteQueue ==
    /\ \A c \in Cursors : initialised[c] /\ ReadsCassette => attached[c] /\ loaded
    /\ loaded =>
         /\ replay_queue = Unserved
         /\ \A i \in SqlFiles(start) :
              \E s \in recorded_schemas : s.query = KeyOf(start[i])

(* There is a front where there is anything.                               *)
LEMMA FrontExists ==
    ASSUME NEW queue, \A e \in queue : e.idx \in Nat,
           NEW q, \E e \in queue : e.query = q
    PROVE  \E e \in queue : IsFront(e, queue, q)
  <1>. DEFINE I == {e.idx : e \in {f \in queue : f.query = q}}
  <1>1. I \in SUBSET Nat /\ I # {}
    OBVIOUS
  <1>2. PICK m \in I : \A k \in I : m <= k
    <2>. HIDE DEF I
    <2>1. QED  BY <1>1, LeastElement
  <1>3. PICK e \in queue : e.query = q /\ e.idx = m
    OBVIOUS
  <1>4. QED  BY <1>2, <1>3 DEF IsFront

LEMMA CompleteInit == Init => CompleteQueue
  BY DEF Init, CompleteQueue

LEMMA CompleteStep ==
    ASSUME Faults = {}, RecordingInv, ModesInv, QueueInv, WholeInv, CompleteQueue,
           [Next]_vars
    PROVE  CompleteQueue'
  <1>t. /\ TypeInv /\ CursorsDecided
        /\ initialised \in [Cursors -> BOOLEAN] /\ attached \in [Cursors -> BOOLEAN]
    BY DEF RecordingInv, TypeInv, TypeOK, ModesInv
  <1>. DEFINE Same ==
         /\ UNCHANGED <<mode, once_replay, attached, initialised, loaded>>
         /\ UNCHANGED <<replay_queue, start, served, recorded_schemas>>
  <1>0. ASSUME Same PROVE CompleteQueue'
    BY <1>0 DEF CompleteQueue, ReadsCassette, Unserved
  <1>1. CASE UNCHANGED vars
    BY <1>0, <1>1 DEF vars, session, shared, history
  <1>2. ASSUME NEW c \in Cursors, NEW q \in Asked, Execute(c, q) \/ AskSchema(c, q)
        PROVE  CompleteQueue'
    BY <1>0, <1>2 DEF Execute, AskSchema, Begin, session, shared, history
  <1>3. ASSUME NEW c \in Cursors, NothingQueued(c) \/ AskReal(c) \/ RaiseMiss(c)
                                  \/ AnswerSchema(c) \/ RealAnswers(c) \/ RealFails(c)
        PROVE  CompleteQueue'
    BY <1>0, <1>3 DEF NothingQueued, AskReal, RaiseMiss, AnswerSchema, QueueAfterPeek,
       RealAnswers, RealFails, session, shared, history
  <1>4. ASSUME NEW c \in Cursors, BeginWrite(c) \/ WriteSql(c) \/ WriteArrow(c)
                                  \/ WriteParams(c)
        PROVE  CompleteQueue'
    BY <1>0, <1>4 DEF BeginWrite, WriteSql, WriteArrow, WriteParams, session, shared,
       history
  <1>5. ASSUME Release PROVE CompleteQueue'
    BY <1>5 DEF Release, CompleteQueue
  <1>6. ASSUME NEW m \in Modes, StartRun(m) PROVE CompleteQueue'
    BY <1>6, <1>t DEF StartRun, shared, CursorsDecided, CompleteQueue
  <1>7. ASSUME NEW c \in Cursors, Wipe(c) \/ RecordOnly(c) PROVE CompleteQueue'
    BY <1>7, <1>t, CursorsAssumption
    DEF Wipe, RecordOnly, Initialising, AtStep, MustWipe, Decision, session,
        CompleteQueue, ReadsCassette, Unserved, CursorsDecided
  <1>8. ASSUME NEW c \in Cursors, LoadQueue(c) PROVE CompleteQueue'
    <2>. DEFINE entries == load_all_interactions(start)
    <2>1. /\ cassette = start /\ start' = start /\ served' = served
          /\ replay_queue' = entries
          /\ \A i \in Slots : served[i] = 0
      BY <1>8, LoadsStart
    <2>2. replay_queue' = Unserved'
      BY <2>1, EntriesByIndex DEF Unserved
    <2>3. ASSUME NEW i \in SqlFiles(start)
          PROVE  \E s \in recorded_schemas' : s.query = KeyOf(start[i])
      <3>1. \E e \in entries : e.query = KeyOf(start[i])
        BY EntryOf
      <3>2. \A e \in entries : e.idx \in Nat
        BY EntriesByIndex DEF Slots
      <3>3. PICK e \in entries : IsFront(e, entries, KeyOf(start[i]))
        <4>. HIDE DEF entries
        <4>1. QED  BY <3>1, <3>2, FrontExists
      <3>4. e.query = KeyOf(start[i])
        BY <3>3 DEF IsFront
      <3>5. recorded_schemas' = {[query |-> f.query, schema |-> SchemaOf[f.table]] :
                                   f \in {g \in entries : IsFront(g, entries, g.query)}}
        BY <1>8, <2>1 DEF LoadQueue
      <3>6. [query |-> e.query, schema |-> SchemaOf[e.table]] \in recorded_schemas'
        <4>. HIDE DEF entries
        <4>1. QED  BY <3>3, <3>4, <3>5
      <3>7. QED  BY <3>4, <3>6
    <2>4. \A d \in Cursors : initialised'[d] /\ ReadsCassette' => attached'[d] /\ loaded'
      BY <1>8, <1>t
      DEF LoadQueue, Initialising, MustLoad, Loads, AtStep, Decision, CompleteQueue,
          ReadsCassette, CursorsDecided, session
    <2>5. QED  BY <2>1, <2>2, <2>3, <2>4 DEF CompleteQueue, SqlFiles
  <1>9. ASSUME NEW c \in Cursors, ShareQueue(c) PROVE CompleteQueue'
    BY <1>9, <1>t
    DEF ShareQueue, Initialising, MustLoad, Loads, AtStep, Decision, CompleteQueue,
        ReadsCassette, CursorsDecided, Unserved, session
  <1>10. ASSUME NEW c \in Cursors, Replay(c) PROVE CompleteQueue'
    <2>1. /\ QueueInv' /\ loaded' = loaded /\ start' = start
          /\ UNCHANGED <<mode, once_replay, attached, initialised, recorded_schemas>>
      BY <1>10, QueueStep DEF Replay, session
    <2>2. /\ replay_queue # {} /\ replay_queue = Unserved
          /\ \E e \in replay_queue : replay_queue' = replay_queue \ {e}
                                     /\ served' = [served EXCEPT ![e.idx] = @ + 1]
      BY <1>10 DEF Replay, Queue, QueueInv, QueueIsUnserved
    <2>3. replay_queue' = Unserved'
      <3>1. PICK e \in replay_queue : replay_queue' = replay_queue \ {e}
                                     /\ served' = [served EXCEPT ![e.idx] = @ + 1]
        BY <2>2
      <3>2. served \in [Slots -> Nat] /\ e.idx \in Slots /\ e \in load_all_interactions(start)
            /\ served[e.idx] = 0
        BY <1>t, <2>2, <3>1, EntriesByIndex DEF TypeInv, TypeOK, Unserved
      <3>3. ASSUME NEW f \in load_all_interactions(start)
            PROVE  served'[f.idx] = 0 <=> served[f.idx] = 0 /\ f # e
        BY <3>1, <3>2, EntriesByIndex
      <3>4. QED  BY <2>1, <2>2, <3>1, <3>3 DEF Unserved
    <2>4. QED  BY <2>1, <2>3 DEF CompleteQueue, ReadsCassette
  <1>11. /\ ~Crash
         /\ \A c \in Cursors : ~WriteFails(c) /\ ~WipeFails(c) /\ ~LoadFails(c)
    BY WholeLoads DEF Crash, WriteFails, WipeFails, PartlyWipe, LoadFails, Initialising
  <1>12. QED
    BY <1>1, <1>2, <1>3, <1>4, <1>5, <1>6, <1>7, <1>8, <1>9, <1>10, <1>11
    DEF Next, Step, Finished, EndRun
-----------------------------------------------------------------------------
(* What a cursor has found out about its query stays true to the end of    *)
(* the run.                                                                *)
Recorded(q) == \E i \in SqlFiles(start) : KeyOf(start[i]) = q

FoundOut ==
    /\ \A c \in Cursors :
         /\ pc[c] = "miss" \/ outcome[c] \in Misses =>
              /\ call[c].op = "execute" => Left(Query(c)) = {}
              /\ call[c].op = "schema" => ~Recorded(Query(c))
         /\ mode = "new_episodes" /\ Recording(c) => Left(Query(c)) = {}
    /\ mode = "new_episodes" => \A t \in told : t.run = run => Left(t.asked) = {}

LEMMA FoundOutInit == Init => FoundOut
  BY CursorsAssumption DEF Init, FoundOut, Misses, Recording

(* Nothing in the queue, nothing left.                                     *)
LEMMA NothingLeft ==
    ASSUME ModesInv, CompleteQueue, NEW c \in Cursors,
           initialised[c], ReadsCassette, ~Queued(c)
    PROVE  Left(Query(c)) = {}
  <1>1. Queue(c) = Unserved
    BY DEF CompleteQueue, Queue
  <1>2. ASSUME NEW i \in Left(Query(c)) PROVE FALSE
    <2>1. i \in SqlFiles(start) /\ KeyOf(start[i]) = Query(c) /\ served[i] = 0
      BY <1>2 DEF Left
    <2>2. PICK e \in load_all_interactions(start) : e.idx = i /\ e.query = KeyOf(start[i])
      BY <2>1, EntryOf
    <2>3. QED  BY <1>1, <2>1, <2>2 DEF Unserved, Queued
  <1>3. QED  BY <1>2

(* Within a run what is left can only become less.                         *)
LEMMA LeftShrinks ==
    ASSUME ModesInv, [Next]_vars, mode' = mode, mode # NoMode
    PROVE  /\ start' = start /\ run' = run
           /\ \A q : Left(q)' \subseteq Left(q)
           /\ \A q : Recorded(q)' <=> Recorded(q)
  <1>1. /\ start' = start /\ run' = run
        /\ \A i \in Slots : served[i] # 0 => served'[i] # 0
    <2>1. CASE ~QueueTouched
      BY <2>1, QueueSteps
    <2>2. CASE Release
      BY <2>2 DEF Release
    <2>3. ASSUME NEW m \in Modes, StartRun(m) PROVE FALSE
      BY <2>3 DEF StartRun
    <2>4. ASSUME NEW c \in Cursors, LoadQueue(c)
          PROVE  start' = start /\ run' = run /\ served' = served
      BY <2>4 DEF LoadQueue, Initialising, session
    <2>5. ASSUME NEW c \in Cursors, Replay(c)
          PROVE  /\ start' = start /\ run' = run
                 /\ \A i \in Slots : served[i] # 0 => served'[i] # 0
      <3>1. served \in [Slots -> Nat]
        BY DEF ModesInv, TypeInv, TypeOK
      <3>2. QED  BY <2>5, <3>1 DEF Replay, session
    <2>6. QED  BY <2>1, <2>2, <2>3, <2>4, <2>5 DEF QueueTouched
  <1>2. QED  BY <1>1 DEF Left, Recorded, SqlFiles

LEMMA FoundOutStep ==
    ASSUME Faults = {}, RecordingInv, ModesInv, QueueInv, WholeInv, CompleteQueue,
           FoundOut, [Next]_vars
    PROVE  FoundOut'
  <1>t. /\ TypeInv /\ CursorsDecided
        /\ pc \in [Cursors -> {"idle", "initialise", "dispatch", "miss", "real",
                               "record", "sql", "arrow", "params"}]
        /\ call \in [Cursors -> Calls \union {NoCall}]
        /\ outcome \in [Cursors -> Outcomes]
    BY DEF RecordingInv, TypeInv, TypeOK, ModesInv
  <1>1. ASSUME Release PROVE FoundOut'
    BY <1>1, CursorsAssumption DEF Release, FoundOut, Misses, Recording
  <1>2. ASSUME NEW m \in Modes, StartRun(m) PROVE FoundOut'
    <2>1. /\ \A c \in Cursors : pc'[c] = "idle" /\ outcome'[c] \notin Misses
          /\ \A t \in told' : t.run # run'
      <3>1. ~Replaying
        BY <1>2, CursorsAssumption DEF StartRun, Replaying
      <3>2. \A c \in Cursors : outcome[c] \notin Misses /\ pc[c] = "idle"
        BY <1>2, <1>t, <3>1 DEF StartRun, CursorsDecided
      <3>3. \A t \in told : t.run <= run /\ t.run \in Int
        BY <1>t DEF ModesInv, ToldByRecordingRun, TypeInv, TypeOK, Told
      <3>4. run \in Int /\ run' = run + 1 /\ told' = told /\ outcome' = outcome /\ pc' = pc
        BY <1>2, <1>t DEF StartRun, history, TypeInv, TypeOK
      <3>5. QED  BY <3>2, <3>3, <3>4
    <2>2. QED  BY <2>1 DEF FoundOut, Recording
  <1>3. CASE mode = NoMode /\ UNCHANGED vars
    BY <1>3 DEF FoundOut, vars, session, history, disk, shared, Left, Recorded, Recording, Query, SqlFiles
  <1>4. CASE mode # NoMode /\ mode' = mode
    <2>s. /\ start' = start /\ run' = run
          /\ \A q : Left(q)' \subseteq Left(q)
          /\ \A q : Recorded(q)' <=> Recorded(q)
      BY <1>4, LeftShrinks
    <2>l. \A q : Left(q) = {} => Left(q)' = {}
      BY <2>s
    <2>. HIDE DEF Left, Recorded
    <2>. USE DEF FoundOut, Query
    <2>1. CASE UNCHANGED vars
      BY <2>1, <2>s, <2>l DEF vars, session, history, Recording
    <2>2. ASSUME NEW c \in Cursors, NEW q \in Asked, Execute(c, q) \/ AskSchema(c, q)
          PROVE  FoundOut'
      <3>1. /\ told' = told /\ pc'[c] \in {"dispatch", "initialise"} /\ outcome'[c] = "none"
            /\ \A d \in Cursors : d # c => UNCHANGED <<pc[d], call[d], outcome[d]>>
        BY <2>2, <1>t DEF Execute, AskSchema, Begin, history
      <3>2. QED  BY <2>s, <2>l, <3>1, <1>4 DEF Recording, Misses
    <2>3. ASSUME NEW c \in Cursors, RecordOnly(c) \/ LoadQueue(c) \/ ShareQueue(c)
          PROVE  FoundOut'
      BY <2>3, <2>s, <2>l, <1>t
      DEF RecordOnly, LoadQueue, ShareQueue, Initialising, ToDispatch, AtStep,
          session, Recording
    <2>4. ASSUME NEW c \in Cursors, Wipe(c) PROVE FoundOut'
      BY <2>4, <2>s, <2>l, <1>t
      DEF Wipe, MustWipe, Initialising, ToDispatch, AtStep, session, Recording
    <2>5. ASSUME NEW c \in Cursors, Replay(c) PROVE FoundOut'
      BY <2>5, <2>s, <2>l, <1>t
      DEF Replay, Dispatching, Return, AtStep, session, Recording, Misses
    <2>6. ASSUME NEW c \in Cursors, NothingQueued(c) PROVE FoundOut'
      <3>1. Left(Query(c)) = {}
        <4>1. initialised[c] /\ ReadsCassette /\ ~Queued(c)
          BY <2>6, <1>t
          DEF NothingQueued, Dispatching, AtStep, CursorsDecided, ReadsCassette, Replaying
        <4>2. QED  BY <4>1, NothingLeft
      <3>2. QED
        BY <2>6, <2>s, <2>l, <3>1, <1>t
        DEF NothingQueued, Dispatching, AtStep, session, history, Recording, Misses
    <2>7. ASSUME NEW c \in Cursors, AskReal(c) PROVE FoundOut'
      <3>1. mode = "new_episodes" => Left(Query(c)) = {}
        <4>1. ASSUME mode = "new_episodes" PROVE initialised[c] /\ ReadsCassette /\ ~Queued(c)
          BY <2>7, <1>t, <4>1
          DEF AskReal, MayRecord, Dispatching, AtStep, CursorsDecided, ReadsCassette
        <4>2. QED  BY <4>1, NothingLeft
      <3>2. QED
        BY <2>7, <2>s, <2>l, <3>1, <1>t
        DEF AskReal, Dispatching, AtStep, session, history, Recording
    <2>8. ASSUME NEW c \in Cursors, RaiseMiss(c) PROVE FoundOut'
      BY <2>8, <2>s, <2>l, <1>t DEF RaiseMiss, Return, AtStep, session, history, Recording
    <2>9. ASSUME NEW c \in Cursors, AnswerSchema(c) PROVE FoundOut'
      <3>1. SchemasFor(c) = {} => ~Recorded(Query(c))
        <4>. SUFFICES ASSUME SchemasFor(c) = {}, NEW i \in SqlFiles(start),
                             KeyOf(start[i]) = Query(c)
                      PROVE  FALSE
          BY DEF Recorded
        <4>1. /\ initialised[c] /\ mode = "none"
          BY <2>9, <1>t DEF AnswerSchema, AtStep, CursorsDecided
        <4>2. /\ loaded /\ Queue(c) = replay_queue /\ replay_queue = Unserved
          BY <4>1 DEF CompleteQueue, ReadsCassette, Queue
        <4>3. \A e \in Queue(c) : e.idx \in Nat
          BY <4>2, EntriesByIndex DEF Unserved, Slots
        <4>4. ~Queued(c)
          <5>1. ASSUME Queued(c) PROVE FALSE
            <6>1. PICK e \in Queue(c) : IsFront(e, Queue(c), Query(c))
              <7>1. \E e \in Queue(c) : e.query = Query(c)
                BY <5>1 DEF Queued
              <7>2. QED  BY <4>3, <7>1, FrontExists
            <6>2. SchemaOf[e.table] \in SchemasFor(c)
              BY <5>1, <6>1 DEF SchemasFor
            <6>3. QED  BY <6>2
          <5>2. QED  BY <5>1
        <4>5. PICK s \in recorded_schemas : s.query = Query(c)
          BY <4>2 DEF CompleteQueue
        <4>6. SchemasFor(c) # {}
          BY <4>4, <4>5 DEF SchemasFor
        <4>7. QED  BY <4>6
      <3>2. QED
        BY <2>9, <2>s, <2>l, <3>1, <1>t
        DEF AnswerSchema, Return, AtStep, session, history, Recording, Misses
    <2>10. ASSUME NEW c \in Cursors, RealAnswers(c) \/ RealFails(c) PROVE FoundOut'
      BY <2>10, <2>s, <2>l, <1>t
      DEF RealAnswers, RealFails, Return, AtStep, session, history, Recording, Misses
    <2>11. ASSUME NEW c \in Cursors, BeginWrite(c) \/ WriteSql(c) \/ WriteArrow(c)
           PROVE  FoundOut'
      BY <2>11, <2>s, <2>l, <1>t
      DEF BeginWrite, WriteSql, WriteArrow, AtStep, session, history, Recording
    <2>12. ASSUME NEW c \in Cursors, WriteParams(c) PROVE FoundOut'
      <3>1. /\ pc[c] = "params" /\ pc' = [pc EXCEPT ![c] = "idle"]
            /\ outcome' = [outcome EXCEPT ![c] = "ok"]
            /\ call' = call /\ mode' = mode
        BY <2>12 DEF WriteParams, Return, AtStep, session
      <3>2. \A t \in told' : t \in told \/ t.asked = call[c].query
        BY <2>12 DEF WriteParams
      <3>3. mode = "new_episodes" => Left(call[c].query)' = {}
        BY <2>l, <3>1 DEF Recording
      <3>4. ASSUME mode = "new_episodes", NEW t \in told', t.run = run
            PROVE  Left(t.asked)' = {}
        BY <2>l, <3>1, <3>2, <3>3, <3>4
      <3>5. ASSUME NEW d \in Cursors
            PROVE  /\ pc'[d] = "miss" \/ outcome'[d] \in Misses =>
                        /\ call[d].op = "execute" => Left(call[d].query)' = {}
                        /\ call[d].op = "schema" => ~Recorded(call[d].query)'
                   /\ mode = "new_episodes" /\ Recording(d)' => Left(call[d].query)' = {}
        <4>1. CASE d = c
          BY <1>t, <3>1, <4>1 DEF Misses, Recording
        <4>2. CASE d # c
          BY <1>t, <2>s, <2>l, <3>1, <4>2 DEF Recording
        <4>3. QED  BY <4>1, <4>2
      <3>6. QED  BY <2>s, <3>1, <3>4, <3>5
    <2>13. /\ ~Crash /\ ~EndRun /\ \A m \in Modes : ~StartRun(m)
           /\ \A c \in Cursors : ~WriteFails(c) /\ ~WipeFails(c) /\ ~LoadFails(c)
      <3>1. \A c \in Cursors : ~LoadFails(c)
        BY WholeLoads DEF LoadFails, Initialising
      <3>2. ~EndRun /\ \A m \in Modes : ~StartRun(m)
        BY <1>4 DEF EndRun, Release, StartRun
      <3>3. QED  BY <3>1, <3>2 DEF Crash, WriteFails, WipeFails, PartlyWipe
    <2>14. QED
      BY <2>1, <2>2, <2>3, <2>4, <2>5, <2>6, <2>7, <2>8, <2>9, <2>10, <2>11, <2>12, <2>13
      DEF Next, Step, Finished
  <1>5. \/ Release \/ \E m \in Modes : StartRun(m)
        \/ mode = NoMode /\ UNCHANGED vars
        \/ mode # NoMode /\ mode' = mode
    <2>1. CASE QueueTouched
      BY <2>1 DEF QueueTouched, LoadQueue, Replay, Initialising, AtStep, Dispatching, session
    <2>2. CASE ~QueueTouched
      <3>1. mode' = mode
        BY <2>2, QueueSteps
      <3>2. CASE mode = NoMode
        BY <2>2, <3>2
        DEF QueueTouched, Next, Step, Execute, AskSchema, Begin, AtStep, Wipe, RecordOnly,
            LoadFails, ShareQueue, Initialising, NothingQueued, AskReal, Dispatching,
            RaiseMiss, AnswerSchema, RealAnswers, RealFails, BeginWrite, WriteSql,
            WriteArrow, WriteParams, WriteFails, WipeFails, EndRun, Crash, Finished
      <3>3. QED  BY <3>1, <3>2
    <2>3. QED  BY <2>1, <2>2
  <1>6. QED  BY <1>1, <1>2, <1>3, <1>4, <1>5
-----------------------------------------------------------------------------
(* What a cursor holds as its result some test was told when it recorded.  *)
ResultInv ==
    \A c \in Cursors : result[c] # NoResult =>
        /\ initialised[c]
        /\ \E t \in told : /\ t.table = result[c].table
                           /\ result[c].query \in {t.asked, t.query}

LEMMA ResultInit == Init => ResultInv
  BY DEF Init, ResultInv

LEMMA ResultStep ==
    ASSUME Faults = {}, RecordingInv, ModesInv, QueueInv, WholeInv, ResultInv, [Next]_vars
    PROVE  ResultInv'
  <1>t. /\ initialised \in [Cursors -> BOOLEAN]
        /\ result \in [Cursors -> [query : Queries, table : Tables] \union {NoResult}]
        /\ WipeBeforeRecording /\ CursorsDecided
    BY DEF RecordingInv, TypeInv, TypeOK, ModesInv
  <1>0. ASSUME /\ \A c \in Cursors : result'[c] = result[c] \/ result'[c] = NoResult
               /\ \A c \in Cursors : initialised[c] => initialised'[c]
               /\ told' = told
        PROVE  ResultInv'
    BY <1>0 DEF ResultInv
  <1>1. CASE UNCHANGED vars
    BY <1>0, <1>1 DEF vars, history
  <1>2. ASSUME NEW c \in Cursors, NEW q \in Asked, Execute(c, q) \/ AskSchema(c, q)
        PROVE  ResultInv'
    BY <1>0, <1>2, <1>t DEF Execute, AskSchema, Begin, history
  <1>3. ASSUME NEW c \in Cursors, RecordOnly(c) \/ LoadQueue(c) \/ LoadFails(c)
                                  \/ ShareQueue(c)
        PROVE  ResultInv'
    BY <1>0, <1>3, <1>t DEF RecordOnly, LoadQueue, LoadFails, ShareQueue, Initialising
  <1>4. ASSUME NEW c \in Cursors, NothingQueued(c) \/ AskReal(c) \/ RaiseMiss(c)
                                  \/ AnswerSchema(c) \/ RealAnswers(c) \/ RealFails(c)
        PROVE  ResultInv'
    BY <1>0, <1>4 DEF NothingQueued, AskReal, RaiseMiss, AnswerSchema, RealAnswers,
       RealFails, history
  <1>5. ASSUME NEW c \in Cursors, BeginWrite(c) \/ WriteSql(c) \/ WriteArrow(c)
        PROVE  ResultInv'
    BY <1>0, <1>5 DEF BeginWrite, WriteSql, WriteArrow, history
  <1>6. ASSUME NEW c \in Cursors, Wipe(c) PROVE ResultInv'
    <2>1. \A d \in Cursors : result[d] = NoResult
      BY <1>6, <1>t DEF Wipe, MustWipe, WipeBeforeRecording, ResultInv
    <2>2. result' = result
      BY <1>6 DEF Wipe, Initialising
    <2>3. QED  BY <2>1, <2>2 DEF ResultInv
  <1>7. ASSUME NEW c \in Cursors, Replay(c) PROVE ResultInv'
    <2>1. PICK e \in replay_queue :
             /\ e.query = Query(c)
             /\ result' = [result EXCEPT ![c] = [query |-> Query(c), table |-> e.table]]
      BY <1>7 DEF Replay, Queue, IsFront
    <2>2. /\ e.idx \in SqlFiles(start)
          /\ e.query = KeyOf(start[e.idx]) /\ e.table = start[e.idx].arrow
      <3>1. e \in load_all_interactions(start)
        BY <2>1 DEF QueueInv, QueueIsUnserved, Unserved
      <3>2. QED  BY <3>1, EntriesByIndex
    <2>3. mode # "all" /\ initialised[c] /\ initialised' = initialised /\ told' = told
      BY <1>7, <1>t DEF Replay, Dispatching, AtStep, Replaying, CursorsDecided
    <2>4. PICK t \in told : t.query = Query(c) /\ t.table = e.table
      BY <2>1, <2>2, <2>3 DEF WholeInv
    <2>5. QED  BY <1>t, <2>1, <2>3, <2>4 DEF ResultInv
  <1>8. ASSUME NEW c \in Cursors, WriteParams(c) PROVE ResultInv'
    <2>. DEFINE new == [run |-> run, idx |-> index[c], asked |-> Query(c),
                        query |-> ScrubbedQuery(Query(c)), table |-> ReturnedTable(c)]
    <2>1. /\ told' = told \union {new} /\ initialised' = initialised
          /\ result' = [result EXCEPT ![c] = [query |-> Query(c), table |-> ReturnedTable(c)]]
      BY <1>8 DEF WriteParams
    <2>2. new.asked = Query(c) /\ new.table = ReturnedTable(c) /\ initialised[c]
      BY <1>8, <1>t DEF WriteParams, AtStep, CursorsDecided
    <2>3. QED
      <3>. HIDE DEF new
      <3>1. QED  BY <1>t, <2>1, <2>2 DEF ResultInv
  <1>9. ASSUME Release PROVE ResultInv'
    BY <1>9 DEF Release, ResultInv
  <1>10. ASSUME NEW m \in Modes, StartRun(m) PROVE ResultInv'
    BY <1>0, <1>10 DEF StartRun, history
  <1>11. /\ ~Crash
         /\ \A c \in Cursors : ~WriteFails(c) /\ ~WipeFails(c)
    BY DEF Crash, WriteFails, WipeFails, PartlyWipe
  <1>12. QED
    BY <1>1, <1>2, <1>3, <1>4, <1>5, <1>6, <1>7, <1>8, <1>9, <1>10, <1>11
    DEF Next, Step, Finished, EndRun
-----------------------------------------------------------------------------
(* The inductive invariant of runs without failures.                       *)
SoundInv ==
    /\ RecordingInv /\ ModesInv /\ QueueInv
    /\ WholeInv /\ CompleteQueue /\ FoundOut /\ ResultInv

LEMMA SoundInvariant ==
    ASSUME Faults = {}
    PROVE  Spec => []SoundInv
  <1>1. Init => SoundInv
    BY RecordingInit, ModesInit, QueueInit, WholeInit, CompleteInit, FoundOutInit,
       ResultInit DEF SoundInv
  <1>2. SoundInv /\ [Next]_vars => SoundInv'
    BY RecordingStep, ModesStep, QueueStep, WholeStep, CompleteStep, FoundOutStep,
       ResultStep DEF SoundInv
  <1>3. QED  BY <1>1, <1>2, PTL DEF Spec

(* Without failures no reader meets half an interaction: whoever finds the *)
(* lock free finds the three files of each, readable.                      *)
THEOREM InteractionsAreWhole ==
    ASSUME Faults = {}
    PROVE  Spec => []WholeUnlessWriting
  <1>1. SoundInv => WholeUnlessWriting
    BY WholeLoads DEF SoundInv, WholeUnlessWriting
  <1>2. QED  BY <1>1, SoundInvariant, PTL

(* Without failures a replay returns only what some recording returned for *)
(* that query.                                                             *)
THEOREM ResultsWereRecorded ==
    ASSUME Faults = {}
    PROVE  Spec => []ResultsAreRecordings
  <1>1. SoundInv => ResultsAreRecordings
    BY DEF SoundInv, ResultInv, ResultsAreRecordings
  <1>2. QED  BY <1>1, SoundInvariant, PTL

(* Without failures CassetteMissError means that each recording of the     *)
(* query was replayed already.                                             *)
THEOREM MissMeansUsedUp ==
    ASSUME Faults = {}
    PROVE  Spec => []MissOnlyWhenUsedUp
  <1>1. SoundInv => MissOnlyWhenUsedUp
    BY DEF SoundInv, FoundOut, MissOnlyWhenUsedUp, Missed
  <1>2. QED  BY <1>1, SoundInvariant, PTL

(* Without failures 'new_episodes' records a query only once its           *)
(* recordings are used up.                                                 *)
THEOREM RecordsOnlyNew ==
    ASSUME Faults = {}
    PROVE  Spec => []NewEpisodesRecordsOnlyNew
  <1>1. SoundInv => NewEpisodesRecordsOnlyNew
    BY DEF SoundInv, FoundOut, NewEpisodesRecordsOnlyNew
  <1>2. QED  BY <1>1, SoundInvariant, PTL

(* Without failures a schema is missing only if the query was never        *)
(* recorded, although replaying drains the queue.                          *)
THEOREM SchemaMissMeansNeverRecorded ==
    ASSUME Faults = {}
    PROVE  Spec => []SchemaMissOnlyWhenNeverRecorded
  <1>1. SoundInv => SchemaMissOnlyWhenNeverRecorded
    BY DEF SoundInv, FoundOut, Recorded, SchemaMissOnlyWhenNeverRecorded, Missed
  <1>2. QED  BY <1>1, SoundInvariant, PTL
=============================================================================
