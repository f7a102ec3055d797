------------------------- MODULE RecordModesProofs --------------------------
(* What each record mode guarantees, proved for any number of cursors,     *)
(* queries, runs and calls and with every fault: a decision is made once,  *)
(* before the run has changed the cassette, and holds to its end.          *)
EXTENDS ReplayCursorsProofs

(* The run records, or may by now: it has left the point at which the      *)
(* cassette is looked at behind.                                           *)
RecordingRun ==
    \/ mode = "all"
    \/ mode = "once" /\ once_replay = "record"
    \/ mode = "new_episodes" /\ loaded

Recording(c) == pc[c] \in {"real", "record", "sql", "arrow", "params"}

(* Where each cursor can be.                                               *)
CursorsDecided ==
    /\ mode = NoMode => /\ \A c \in Cursors : ~initialised[c] /\ pc[c] = "idle"
                        /\ ~loaded /\ once_replay = "undecided"
    /\ \A c \in Cursors :
         /\ pc[c] \notin {"idle", "initialise"} => initialised[c]
         /\ initialised[c] /\ mode = "once" => once_replay # "undecided"
         /\ initialised[c] /\ mode = "new_episodes" => loaded
         /\ Recording(c) => RecordingRun
         /\ pc[c] # "idle" /\ call[c].op = "schema" => mode = "none"
         /\ pc[c] = "miss" \/ outcome[c] \in Misses => Replaying

(* The decision of 'once' is what the cassette was like at the start.      *)
DecisionKept ==
    mode = "once" =>
        /\ once_replay = "replay" => cassette_has_interactions(start)
        /\ once_replay = "record" => ~cassette_has_interactions(start)

(* Until a run may record, the cassette is as it was found.                *)
AsFound == mode # NoMode /\ ~RecordingRun => cassette = start

ToldByRecordingRun ==
    \A t \in told : t.run <= run /\ (mode # NoMode /\ t.run = run => RecordingRun)

(* What is queued was there at the start and has not been served.          *)
QueueFromStart ==
    /\ ~loaded => replay_queue = {} /\ \A i \in Slots : served[i] = 0
    /\ \A e \in replay_queue : e.idx \in SqlFiles(start) /\ served[e.idx] = 0
    /\ \A e, f \in replay_queue : e.idx = f.idx => e = f
    /\ \A i \in Slots : served[i] <= 1 /\ (served[i] > 0 => i \in SqlFiles(start))

ModesInv ==
    /\ TypeInv
    /\ CursorsDecided
    /\ DecisionKept
    /\ AsFound
    /\ ToldByRecordingRun
    /\ QueueFromStart

LEMMA ModesInit == Init => ModesInv
  <1>. SUFFICES ASSUME Init PROVE ModesInv
    OBVIOUS
  <1>1. CursorsDecided
    BY DEF Init, CursorsDecided, Recording, Misses
  <1>2. DecisionKept /\ AsFound /\ ToldByRecordingRun /\ QueueFromStart
    BY CursorsAssumption
    DEF Init, DecisionKept, AsFound, ToldByRecordingRun, QueueFromStart
  <1>3. QED  BY <1>1, <1>2, TypeInit DEF ModesInv

LEMMA ModesStep ==
    ASSUME ModesInv, [Next]_vars
    PROVE  ModesInv'
  <1>t. /\ TypeInv' /\ TypeInv /\ TypeOK /\ CallsInProgress
        /\ CursorsDecided /\ DecisionKept /\ AsFound /\ ToldByRecordingRun
        /\ QueueFromStart
        /\ pc \in [Cursors -> {"idle", "initialise", "dispatch", "miss", "real",
                               "record", "sql", "arrow", "params"}]
        /\ call \in [Cursors -> Calls \union {NoCall}]
        /\ initialised \in [Cursors -> BOOLEAN]
        /\ outcome \in [Cursors -> Outcomes]
        /\ once_replay \in {"undecided", "replay", "record"}
    BY TypeStep DEF ModesInv, TypeInv, TypeOK
  <1>1. ASSUME NEW c \in Cursors, NEW q \in Asked, Execute(c, q) PROVE ModesInv'
    <2>1. CursorsDecided'
      BY <1>1, <1>t
      DEF Execute, Begin, AtStep, session, shared, history, CursorsDecided,
          Recording, RecordingRun, Replaying, Misses
    <2>2. DecisionKept' /\ AsFound' /\ ToldByRecordingRun' /\ QueueFromStart'
      BY <1>1, <1>t
      DEF Execute, Begin, AtStep, disk, session, shared, history, DecisionKept,
          AsFound, ToldByRecordingRun, QueueFromStart, RecordingRun
    <2>3. QED  BY <1>t, <2>1, <2>2 DEF ModesInv
  <1>2. ASSUME NEW c \in Cursors, NEW q \in Asked, AskSchema(c, q) PROVE ModesInv'
    <2>1. CursorsDecided'
      BY <1>2, <1>t
      DEF AskSchema, Begin, AtStep, session, shared, history, CursorsDecided,
          Recording, RecordingRun, Replaying, Misses
    <2>2. DecisionKept' /\ AsFound' /\ ToldByRecordingRun' /\ QueueFromStart'
      BY <1>2, <1>t
      DEF AskSchema, Begin, AtStep, disk, session, shared, history, DecisionKept,
          AsFound, ToldByRecordingRun, QueueFromStart, RecordingRun
    <2>3. QED  BY <1>t, <2>1, <2>2 DEF ModesInv
  <1>3. ASSUME NEW c \in Cursors, NothingQueued(c) PROVE ModesInv'
    <2>1. CursorsDecided'
      BY <1>3, <1>t
      DEF NothingQueued, Dispatching, AtStep, session, shared, history, CursorsDecided,
          Recording, RecordingRun, Replaying, Misses
    <2>2. DecisionKept' /\ AsFound' /\ ToldByRecordingRun' /\ QueueFromStart'
      BY <1>3, <1>t
      DEF NothingQueued, Dispatching, AtStep, disk, session, shared, history,
          DecisionKept,
          AsFound, ToldByRecordingRun, QueueFromStart, RecordingRun
    <2>3. QED  BY <1>t, <2>1, <2>2 DEF ModesInv
  <1>4. ASSUME NEW c \in Cursors, AskReal(c) PROVE ModesInv'
    <2>1. CursorsDecided'
      BY <1>4, <1>t
      DEF AskReal, Dispatching, MayRecord, AtStep, session, shared, history,
          CursorsDecided,
          Recording, RecordingRun, Replaying, Misses
    <2>2. DecisionKept' /\ AsFound' /\ ToldByRecordingRun' /\ QueueFromStart'
      BY <1>4, <1>t
      DEF AskReal, Dispatching, MayRecord, AtStep, disk, session, shared, history,
          DecisionKept,
          AsFound, ToldByRecordingRun, QueueFromStart, RecordingRun
    <2>3. QED  BY <1>t, <2>1, <2>2 DEF ModesInv
  <1>5. ASSUME NEW c \in Cursors, RaiseMiss(c) PROVE ModesInv'
    <2>1. CursorsDecided'
      BY <1>5, <1>t
      DEF RaiseMiss, Return, AtStep, session, shared, history, CursorsDecided,
          Recording, RecordingRun, Replaying, Misses
    <2>2. DecisionKept' /\ AsFound' /\ ToldByRecordingRun' /\ QueueFromStart'
      BY <1>5, <1>t
      DEF RaiseMiss, Return, AtStep, disk, session, shared, history, DecisionKept,
          AsFound, ToldByRecordingRun, QueueFromStart, RecordingRun
    <2>3. QED  BY <1>t, <2>1, <2>2 DEF ModesInv
  <1>6. ASSUME NEW c \in Cursors, AnswerSchema(c) PROVE ModesInv'
    <2>1. CursorsDecided'
      BY <1>6, <1>t
      DEF AnswerSchema, QueueAfterPeek, Return, AtStep, session, shared, history,
          CursorsDecided,
          Recording, RecordingRun, Replaying, Misses
    <2>2. DecisionKept' /\ AsFound' /\ ToldByRecordingRun' /\ QueueFromStart'
      BY <1>6, <1>t
      DEF AnswerSchema, QueueAfterPeek, Return, AtStep, disk, session, shared,
          history, DecisionKept,
          AsFound, ToldByRecordingRun, QueueFromStart, RecordingRun
    <2>3. QED  BY <1>t, <2>1, <2>2 DEF ModesInv
  <1>7. ASSUME NEW c \in Cursors, RealAnswers(c) PROVE ModesInv'
    <2>1. CursorsDecided'
      BY <1>7, <1>t
      DEF RealAnswers, Return, AtStep, session, shared, history, CursorsDecided,
          Recording, RecordingRun, Replaying, Misses
    <2>2. DecisionKept' /\ AsFound' /\ ToldByRecordingRun' /\ QueueFromStart'
      BY <1>7, <1>t
      DEF RealAnswers, Return, AtStep, disk, session, shared, history, DecisionKept,
          AsFound, ToldByRecordingRun, QueueFromStart, RecordingRun
    <2>3. QED  BY <1>t, <2>1, <2>2 DEF ModesInv
  <1>8. ASSUME NEW c \in Cursors, RealFails(c) PROVE ModesInv'
    <2>1. CursorsDecided'
      BY <1>8, <1>t
      DEF RealFails, Return, AtStep, session, shared, history, CursorsDecided,
          Recording, RecordingRun, Replaying, Misses
    <2>2. DecisionKept' /\ AsFound' /\ ToldByRecordingRun' /\ QueueFromStart'
      BY <1>8, <1>t
      DEF RealFails, Return, AtStep, disk, session, shared, history, DecisionKept,
          AsFound, ToldByRecordingRun, QueueFromStart, RecordingRun
    <2>3. QED  BY <1>t, <2>1, <2>2 DEF ModesInv
  <1>9. CASE UNCHANGED vars
    BY <1>9, <1>t
    DEF vars, disk, session, shared, history, ModesInv, CursorsDecided, DecisionKept,
        AsFound, ToldByRecordingRun, QueueFromStart, RecordingRun, Recording, Replaying
  <1>10. ASSUME NEW m \in Modes, StartRun(m) PROVE ModesInv'
    <2>0. \A t \in told : t.run \in Int
      BY <1>t DEF TypeOK, Told
    <2>1. CursorsDecided'
      BY <1>10, <1>t, CursorsAssumption
      DEF StartRun, disk, shared, history, CursorsDecided,
          Recording, RecordingRun, Replaying, Misses
    <2>2. DecisionKept' /\ AsFound' /\ ToldByRecordingRun' /\ QueueFromStart'
      <3>1. /\ ~loaded' /\ once_replay' = "undecided" /\ start' = cassette'
            /\ mode' # NoMode
        BY <1>10, <1>t, CursorsAssumption DEF StartRun, disk, shared, CursorsDecided
      <3>2. DecisionKept' /\ AsFound'
        BY <3>1 DEF DecisionKept, AsFound
      <3>3. \A t \in told' : t.run <= run' /\ t.run # run'
        BY <1>10, <1>t, <2>0 DEF StartRun, history, ToldByRecordingRun, TypeOK
      <3>4. QueueFromStart'
        BY <1>10, <1>t, <3>1 DEF StartRun, shared, history, QueueFromStart,
           CursorsDecided
      <3>5. QED  BY <3>2, <3>3, <3>4 DEF ToldByRecordingRun
    <2>3. QED  BY <1>t, <2>1, <2>2 DEF ModesInv
  <1>11. ASSUME EndRun PROVE ModesInv'
    <2>1. CursorsDecided'
      BY <1>11, <1>t, CursorsAssumption
      DEF EndRun, Release, disk, CursorsDecided,
          Recording, RecordingRun, Replaying, Misses
    <2>2. DecisionKept' /\ AsFound' /\ ToldByRecordingRun' /\ QueueFromStart'
      BY <1>11, <1>t, CursorsAssumption
      DEF EndRun, Release, disk, DecisionKept,
          AsFound, ToldByRecordingRun, QueueFromStart, RecordingRun
    <2>3. QED  BY <1>t, <2>1, <2>2 DEF ModesInv
  <1>12. ASSUME NEW c \in Cursors, Wipe(c) PROVE ModesInv'
    <2>1. CursorsDecided'
      BY <1>12, <1>t
      DEF Wipe, Initialising, ToDispatch, Decision, MustWipe, AtStep, disk, session,
          CursorsDecided,
          Recording, RecordingRun, Replaying, Misses
    <2>2. DecisionKept' /\ AsFound' /\ ToldByRecordingRun' /\ QueueFromStart'
      BY <1>12, <1>t
      DEF Wipe, Initialising, ToDispatch, Decision, MustWipe, AtStep, disk, session,
          DecisionKept,
          AsFound, ToldByRecordingRun, QueueFromStart, RecordingRun
    <2>3. QED  BY <1>t, <2>1, <2>2 DEF ModesInv
  <1>13. ASSUME NEW c \in Cursors, RecordOnly(c) PROVE ModesInv'
    <2>1. CursorsDecided'
      BY <1>13, <1>t
      DEF RecordOnly, Initialising, ToDispatch, Decision, MustWipe, AtStep, disk,
          session, CursorsDecided,
          Recording, RecordingRun, Replaying, Misses
    <2>2. DecisionKept' /\ AsFound' /\ ToldByRecordingRun' /\ QueueFromStart'
      BY <1>13, <1>t
      DEF RecordOnly, Initialising, ToDispatch, Decision, MustWipe, AtStep, disk,
          session, DecisionKept,
          AsFound, ToldByRecordingRun, QueueFromStart, RecordingRun
    <2>3. QED  BY <1>t, <2>1, <2>2 DEF ModesInv
  <1>14. ASSUME NEW c \in Cursors, LoadQueue(c) PROVE ModesInv'
    <2>1. CursorsDecided'
      BY <1>14, <1>t
      DEF LoadQueue, Initialising, ToDispatch, Decision, MustWipe, AtStep, disk,
          session, Loads, MustLoad, load_all_interactions, CursorsDecided,
          Recording, RecordingRun, Replaying, Misses
    <2>2. ~RecordingRun /\ cassette = start
      BY <1>14, <1>t
      DEF LoadQueue, Initialising, Decision, AtStep, Loads, MustLoad, RecordingRun,
          AsFound,
          CursorsDecided
    <2>3. /\ start' = start /\ loaded' /\ served' = served
          /\ \A i \in Slots : served[i] = 0
          /\ replay_queue' = load_all_interactions(start)
      BY <1>14, <1>t, <2>2 DEF LoadQueue, Initialising, MustLoad, session,
         QueueFromStart
    <2>4. QueueFromStart'
      BY <2>3 DEF QueueFromStart, load_all_interactions, SqlFiles
    <2>5. DecisionKept' /\ AsFound' /\ ToldByRecordingRun'
      BY <1>14, <1>t, <2>2
      DEF LoadQueue, Initialising, Decision, AtStep, Loads, disk, session, DecisionKept,
          AsFound, ToldByRecordingRun, RecordingRun
    <2>6. QED  BY <1>t, <2>1, <2>4, <2>5 DEF ModesInv
  <1>15. ASSUME NEW c \in Cursors, LoadFails(c) PROVE ModesInv'
    <2>1. CursorsDecided'
      BY <1>15, <1>t
      DEF LoadFails, Initialising, ToDispatch, Decision, MustWipe, AtStep, disk,
          session, Loads, MustLoad, Return, CursorsDecided,
          Recording, RecordingRun, Replaying, Misses
    <2>2. DecisionKept' /\ AsFound' /\ ToldByRecordingRun' /\ QueueFromStart'
      BY <1>15, <1>t
      DEF LoadFails, Initialising, ToDispatch, Decision, MustWipe, AtStep, disk,
          session, Loads, MustLoad, Return, DecisionKept,
          AsFound, ToldByRecordingRun, QueueFromStart, RecordingRun
    <2>3. QED  BY <1>t, <2>1, <2>2 DEF ModesInv
  <1>16. ASSUME NEW c \in Cursors, ShareQueue(c) PROVE ModesInv'
    <2>1. CursorsDecided'
      BY <1>16, <1>t
      DEF ShareQueue, Initialising, ToDispatch, Decision, MustWipe, AtStep, disk,
          session, Loads, MustLoad, CursorsDecided,
          Recording, RecordingRun, Replaying, Misses
    <2>2. DecisionKept' /\ AsFound' /\ ToldByRecordingRun' /\ QueueFromStart'
      BY <1>16, <1>t
      DEF ShareQueue, Initialising, ToDispatch, Decision, MustWipe, AtStep, disk,
          session, Loads, MustLoad, DecisionKept,
          AsFound, ToldByRecordingRun, QueueFromStart, RecordingRun
    <2>3. QED  BY <1>t, <2>1, <2>2 DEF ModesInv
  <1>17. ASSUME NEW c \in Cursors, Replay(c) PROVE ModesInv'
    <2>1. CursorsDecided'
      BY <1>17, <1>t
      DEF Replay, Dispatching, Return, AtStep, disk, session, Queue, CursorsDecided,
          Recording, RecordingRun, Replaying, Misses
    <2>2. DecisionKept' /\ AsFound' /\ ToldByRecordingRun' /\ QueueFromStart'
      BY <1>17, <1>t
      DEF Replay, Dispatching, Return, AtStep, disk, session, Queue, DecisionKept,
          AsFound, ToldByRecordingRun, QueueFromStart, RecordingRun
    <2>3. QED  BY <1>t, <2>1, <2>2 DEF ModesInv
  <1>18. ASSUME NEW c \in Cursors, BeginWrite(c) PROVE ModesInv'
    <2>1. CursorsDecided'
      BY <1>18, <1>t
      DEF BeginWrite, AtStep, session, shared, history, CursorsDecided,
          Recording, RecordingRun, Replaying, Misses
    <2>2. DecisionKept' /\ AsFound' /\ ToldByRecordingRun' /\ QueueFromStart'
      BY <1>18, <1>t
      DEF BeginWrite, AtStep, session, shared, history, DecisionKept,
          AsFound, ToldByRecordingRun, QueueFromStart, RecordingRun
    <2>3. QED  BY <1>t, <2>1, <2>2 DEF ModesInv
  <1>19. ASSUME NEW c \in Cursors, WriteSql(c) PROVE ModesInv'
    <2>0. /\ RecordingRun /\ RecordingRun'
          /\ UNCHANGED <<mode, run, start, once_replay, loaded, replay_queue, served>>
      BY <1>19, <1>t DEF WriteSql, AtStep, session, shared, history, CursorsDecided,
         Recording, RecordingRun
    <2>1. CursorsDecided'
      BY <1>19, <1>t
      DEF WriteSql, AtStep, session, shared, history, CursorsDecided,
          Recording, RecordingRun, Replaying, Misses
    <2>2. DecisionKept' /\ AsFound' /\ ToldByRecordingRun' /\ QueueFromStart'
      <3>1. DecisionKept' /\ AsFound'
        BY <1>t, <2>0 DEF DecisionKept, AsFound
      <3>2. \A t \in told' : t.run <= run
        BY <1>19, <1>t DEF WriteSql, AtStep, session, shared, history,
           ToldByRecordingRun
      <3>3. ToldByRecordingRun'
        BY <2>0, <3>2 DEF ToldByRecordingRun
      <3>4. QueueFromStart'
        BY <1>t, <2>0 DEF QueueFromStart
      <3>5. QED  BY <3>1, <3>3, <3>4
    <2>3. QED  BY <1>t, <2>1, <2>2 DEF ModesInv
  <1>20. ASSUME NEW c \in Cursors, WriteArrow(c) PROVE ModesInv'
    <2>0. /\ RecordingRun /\ RecordingRun'
          /\ UNCHANGED <<mode, run, start, once_replay, loaded, replay_queue, served>>
      BY <1>20, <1>t DEF WriteArrow, AtStep, session, shared, history,
         CursorsDecided, Recording, RecordingRun
    <2>1. CursorsDecided'
      BY <1>20, <1>t
      DEF WriteArrow, AtStep, session, shared, history, CursorsDecided,
          Recording, RecordingRun, Replaying, Misses
    <2>2. DecisionKept' /\ AsFound' /\ ToldByRecordingRun' /\ QueueFromStart'
      <3>1. DecisionKept' /\ AsFound'
        BY <1>t, <2>0 DEF DecisionKept, AsFound
      <3>2. \A t \in told' : t.run <= run
        BY <1>20, <1>t DEF WriteArrow, AtStep, session, shared, history,
           ToldByRecordingRun
      <3>3. ToldByRecordingRun'
        BY <2>0, <3>2 DEF ToldByRecordingRun
      <3>4. QueueFromStart'
        BY <1>t, <2>0 DEF QueueFromStart
      <3>5. QED  BY <3>1, <3>3, <3>4
    <2>3. QED  BY <1>t, <2>1, <2>2 DEF ModesInv
  <1>21. ASSUME NEW c \in Cursors, WriteParams(c) PROVE ModesInv'
    <2>0. /\ RecordingRun /\ RecordingRun'
          /\ UNCHANGED <<mode, run, start, once_replay, loaded, replay_queue, served>>
      BY <1>21, <1>t DEF WriteParams, AtStep, session, shared, CursorsDecided,
         Recording, RecordingRun
    <2>1. CursorsDecided'
      BY <1>21, <1>t
      DEF WriteParams, Return, Forget, AtStep, session, shared, CursorsDecided,
          Recording, RecordingRun, Replaying, Misses
    <2>2. DecisionKept' /\ AsFound' /\ ToldByRecordingRun' /\ QueueFromStart'
      <3>1. DecisionKept' /\ AsFound'
        BY <1>t, <2>0 DEF DecisionKept, AsFound
      <3>2. \A t \in told' : t.run <= run
        BY <1>21, <1>t DEF WriteParams, ToldByRecordingRun, TypeOK
      <3>3. ToldByRecordingRun'
        BY <2>0, <3>2 DEF ToldByRecordingRun
      <3>4. QueueFromStart'
        BY <1>t, <2>0 DEF QueueFromStart
      <3>5. QED  BY <3>1, <3>3, <3>4
    <2>3. QED  BY <1>t, <2>1, <2>2 DEF ModesInv
  <1>22. ASSUME NEW c \in Cursors, WriteFails(c) PROVE ModesInv'
    <2>0. /\ RecordingRun /\ RecordingRun'
          /\ UNCHANGED <<mode, run, start, once_replay, loaded, replay_queue, served>>
      BY <1>22, <1>t DEF WriteFails, Writing, session, shared, history,
         CursorsDecided, Recording, RecordingRun
    <2>1. CursorsDecided'
      BY <1>22, <1>t
      DEF WriteFails, Writing, Return, Forget, session, shared, history, CursorsDecided,
          Recording, RecordingRun, Replaying, Misses
    <2>2. DecisionKept' /\ AsFound' /\ ToldByRecordingRun' /\ QueueFromStart'
      <3>1. DecisionKept' /\ AsFound'
        BY <1>t, <2>0 DEF DecisionKept, AsFound
      <3>2. \A t \in told' : t.run <= run
        BY <1>22, <1>t DEF WriteFails, Writing, session, shared, history,
           ToldByRecordingRun
      <3>3. ToldByRecordingRun'
        BY <2>0, <3>2 DEF ToldByRecordingRun
      <3>4. QueueFromStart'
        BY <1>t, <2>0 DEF QueueFromStart
      <3>5. QED  BY <3>1, <3>3, <3>4
    <2>3. QED  BY <1>t, <2>1, <2>2 DEF ModesInv
  <1>23. ASSUME NEW c \in Cursors, WipeFails(c) PROVE ModesInv'
    <2>1. CursorsDecided'
      BY <1>23, <1>t
      DEF WipeFails, Initialising, ToDispatch, Decision, MustWipe, AtStep, disk,
          session, PartlyWipe, Return, CursorsDecided,
          Recording, RecordingRun, Replaying, Misses
    <2>2. DecisionKept' /\ AsFound' /\ ToldByRecordingRun' /\ QueueFromStart'
      BY <1>23, <1>t
      DEF WipeFails, Initialising, ToDispatch, Decision, MustWipe, AtStep, disk,
          session, PartlyWipe, Return, DecisionKept,
          AsFound, ToldByRecordingRun, QueueFromStart, RecordingRun
    <2>3. QED  BY <1>t, <2>1, <2>2 DEF ModesInv
  <1>24. ASSUME Crash PROVE ModesInv'
    <2>1. CursorsDecided'
      BY <1>24, <1>t, CursorsAssumption
      DEF Crash, Release, PartlyWipe, CursorsDecided,
          Recording, RecordingRun, Replaying, Misses
    <2>2. DecisionKept' /\ AsFound' /\ ToldByRecordingRun' /\ QueueFromStart'
      BY <1>24, <1>t, CursorsAssumption
      DEF Crash, Release, PartlyWipe, DecisionKept,
          AsFound, ToldByRecordingRun, QueueFromStart, RecordingRun
    <2>3. QED  BY <1>t, <2>1, <2>2 DEF ModesInv
  <1>25. ASSUME NEW c \in Cursors, Step(c) PROVE ModesInv'
    BY <1>25, <1>3, <1>4, <1>5, <1>6, <1>7, <1>8, <1>12, <1>13, <1>14, <1>15, <1>16,
       <1>17, <1>18, <1>19, <1>20, <1>21
    DEF Step
  <1>26. QED
    BY <1>1, <1>2, <1>9, <1>10, <1>11, <1>22, <1>23, <1>24, <1>25 DEF Next, Finished

LEMMA ModesInvariant == Spec => []ModesInv
  <1>1. ModesInv /\ [Next]_vars => ModesInv'
    BY ModesStep
  <1>2. QED  BY ModesInit, <1>1, PTL DEF Spec

(* However many cursors share a cassette, each recording is replayed at    *)
(* most once in a run, and none that the run itself made: the queue is     *)
(* filled once, while the cassette is as the run found it, and an entry    *)
(* popped by one cursor is gone for all.                                   *)
THEOREM ReplayedOnce == Spec => []ReplayedAtMostOnce
  <1>1. ModesInv => ReplayedAtMostOnce
    <2>. SUFFICES ASSUME ModesInv PROVE ReplayedAtMostOnce
      OBVIOUS
    <2>1. TypeOK /\ QueueFromStart
      BY DEF ModesInv, TypeInv
    <2>2. ASSUME NEW i \in Slots
          PROVE  served[i] <= IF i \in SqlFiles(start) THEN 1 ELSE 0
      BY <2>1 DEF QueueFromStart, TypeOK
    <2>3. QED  BY <2>2 DEF ReplayedAtMostOnce
  <1>2. QED  BY <1>1, ModesInvariant, PTL

(* A 'once' test records every query or replays every query, according to  *)
(* the cassette it began with: what its cursors have recorded by the time  *)
(* another of them decides does not change the decision.                   *)
THEOREM OnceDecides == Spec => []OnceIsAllOrNothing
  <1>1. ModesInv => OnceIsAllOrNothing
    <2>. SUFFICES ASSUME ModesInv PROVE OnceIsAllOrNothing
      OBVIOUS
    <2>1. SUFFICES ASSUME mode = "once"
          PROVE  IF cassette_has_interactions(start)
                 THEN \A t \in told : t.run # run
                 ELSE \A c \in Cursors : ~Missed(c)
      BY DEF OnceIsAllOrNothing
    <2>2. mode # NoMode
      BY <2>1, CursorsAssumption
    <2>3. CASE cassette_has_interactions(start)
      BY <2>1, <2>2, <2>3
      DEF ModesInv, DecisionKept, ToldByRecordingRun, RecordingRun
    <2>4. CASE ~cassette_has_interactions(start)
      BY <2>1, <2>4
      DEF ModesInv, DecisionKept, CursorsDecided, Missed, Replaying
    <2>5. QED  BY <2>3, <2>4
  <1>2. QED  BY <1>1, ModesInvariant, PTL

(* A run that replays changes no file of the cassette, whatever the other  *)
(* cursors do, whatever fails and wherever the process dies: a cursor that *)
(* writes or wipes has passed a decision of the whole run to record.       *)
THEOREM ReplayingLeavesCassette == Spec => ReplayLeavesCassette
  <1>1. ASSUME ModesInv, [Next]_vars,
               mode = "none" \/ (mode = "once" /\ cassette_has_interactions(start))
        PROVE  UNCHANGED disk
    <2>1. ~RecordingRun /\ mode # "all"
      BY <1>1 DEF ModesInv, DecisionKept, RecordingRun
    <2>2. /\ \A c \in Cursors : ~Recording(c)
          /\ pc \in [Cursors -> {"idle", "initialise", "dispatch", "miss", "real",
                                 "record", "sql", "arrow", "params"}]
      BY <1>1, <2>1 DEF ModesInv, TypeInv, TypeOK, CursorsDecided
    <2>3. \A c \in Cursors :
            ~BeginWrite(c) /\ ~WriteSql(c) /\ ~WriteArrow(c) /\ ~WriteParams(c)
      BY <2>2 DEF BeginWrite, WriteSql, WriteArrow, WriteParams, AtStep, Recording
    <2>4. \A c \in Cursors : ~Writing(c)
      BY <2>2 DEF Writing, Recording
    <2>5. ~PartlyWipe /\ \A c \in Cursors : ~Wipe(c)
      BY <2>1 DEF PartlyWipe, Wipe, MustWipe
    <2>6. ASSUME NEW c \in Cursors, Step(c) PROVE UNCHANGED disk
      BY <2>3, <2>5, <2>6
      DEF Step, RecordOnly, LoadQueue, LoadFails, ShareQueue, Replay, NothingQueued,
          AskReal, RaiseMiss, AnswerSchema, RealAnswers, RealFails, disk
    <2>7. ASSUME Crash PROVE UNCHANGED disk
      BY <2>4, <2>5, <2>7 DEF Crash, disk
    <2>8. ASSUME NEW c \in Cursors, WriteFails(c) \/ WipeFails(c) PROVE UNCHANGED disk
      BY <2>4, <2>5, <2>8 DEF WriteFails, WipeFails
    <2>9. ASSUME NEW c \in Cursors, NEW q \in Asked, Execute(c, q) \/ AskSchema(c, q)
          PROVE  UNCHANGED disk
      BY <2>9 DEF Execute, AskSchema, Begin
    <2>10. ASSUME NEW m \in Modes, StartRun(m) PROVE UNCHANGED disk
      BY <2>10 DEF StartRun
    <2>11. ASSUME EndRun PROVE UNCHANGED disk
      BY <2>11 DEF EndRun
    <2>12. CASE UNCHANGED vars
      BY <2>12 DEF vars
    <2>13. QED
      BY <1>1, <2>6, <2>7, <2>8, <2>9, <2>10, <2>11, <2>12 DEF Next, Finished
  <1>2. ModesInv /\ [Next]_vars =>
          [mode = "none" \/ (mode = "once" /\ cassette_has_interactions(start))
             => UNCHANGED disk]_vars
    BY <1>1
  <1>3. QED  BY <1>2, ModesInvariant, PTL DEF Spec, ReplayLeavesCassette
=============================================================================
