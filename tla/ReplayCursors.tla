--------------------------- MODULE ReplayCursors ----------------------------
(***************************************************************************)
(* The cursors of one test that share a cassette (ReplayCursor and the     *)
(* CassetteState behind its write_lock), each used by a thread of its own, *)
(* over successive runs of the test on the cassette the last run left.     *)
(*                                                                         *)
(* What runs under write_lock in one go is one action; the three file      *)
(* writes of _record_interaction are three actions of a cursor that holds  *)
(* the lock, since a failure or a crash can come between them.  What the   *)
(* code does without the lock (the real driver's answer, the look at the   *)
(* directory that words a CassetteMissError) is an action of its own.      *)
(***************************************************************************)
EXTENDS Cassette

CONSTANTS
    Cursors,      \* cursors of the test
    Asked,        \* the queries the test asks
    Modes,        \* the record modes a run may be started in
    Faults,       \* "write", "wipe", "crash": what may go wrong, if anything
    Schemas, SchemaOf,            \* the schema of a table
    NoCursor, NoCall, NoResult, NoMode,
    MaxRuns,      \* bound: runs of the test
    MaxCalls      \* bound: calls of one cursor in a run

ASSUME CursorsAssumption ==
    /\ Asked \subseteq Queries
    /\ Modes \subseteq {"none", "once", "new_episodes", "all"}
    /\ NoMode \notin {"none", "once", "new_episodes", "all"}
    /\ Faults \subseteq {"write", "wipe", "crash"}
    /\ SchemaOf \in [Tables -> Schemas]
    /\ NoCursor \notin Cursors
    /\ NoCall \notin [op : {"execute", "schema"}, query : Queries]
    /\ NoResult \notin [query : Queries, table : Tables]
    /\ MaxRuns \in Nat /\ MaxCalls \in Nat

VARIABLES
    (* the cassette directory *)
    cassette,         \* its interactions, by index
    dir,              \* whether it exists
    (* the run *)
    run,              \* which run of the test this is
    mode,             \* its record mode; NoMode between runs
    start,            \* history: the cassette when the run started
    (* the CassetteState the test's cursors share *)
    wiped,
    once_replay,
    loaded,           \* replay_queue is no longer None
    replay_queue,     \* the entries not yet popped
    recorded_schemas,
    write_lock,       \* who holds it
    (* each cursor *)
    pc,
    call,             \* its last call, under way unless pc is "idle"
    calls,            \* calls made in this run
    initialised,
    attached,         \* _replay_queue is the shared queue, not its own empty one
    table,            \* what the real cursor answered
    index,            \* the index its recording takes
    result,           \* _pending, with _last_executed_key; NoResult if not _executed
    outcome,          \* how its last call ended; "none" while it runs
    (* history *)
    told,             \* recordings execute() has returned to a test, and when
    served            \* how often each entry was replayed in this run

disk    == <<cassette, dir>>
session == <<run, mode, start>>
shared  == <<wiped, once_replay, loaded, replay_queue, recorded_schemas>>
history == <<told, served>>
vars == <<disk, session, shared, write_lock, pc, call, calls, initialised,
          attached, table, index, result, outcome, history>>

Calls    == [op : {"execute", "schema"}, query : Queries]
Misses   == {"directory_missing", "cassette_empty", "interaction_missing"}
Outcomes == {"none", "ok", "schema", "error"} \union Misses
Told     == [run : 1 .. MaxRuns, idx : Slots, asked : Queries,
             query : Queries, table : Tables]
-----------------------------------------------------------------------------
Query(c) == call[c].query

(* A mutation: the cursor keeps the queue its constructor made.            *)
QueueAtConstruction(c) == {}

(* The replay queue as this cursor sees it.                                *)
Queue(c) == IF attached[c] THEN replay_queue ELSE {}

Queued(c) == \E e \in Queue(c) : e.query = Query(c)

(* A mutation: each cursor decides anew, from what is on disk by then.     *)
DecisionOfEachCursor ==
    IF mode = "once"
    THEN IF cassette_has_interactions(cassette) THEN "replay" ELSE "record"
    ELSE once_replay

(* 'once' decides on the test's first execute() and never again.           *)
Decision == IF mode = "once" /\ once_replay = "undecided"
            THEN IF cassette_has_interactions(cassette) THEN "replay" ELSE "record"
            ELSE once_replay

(* A mutation: every cursor of an 'all' test wipes.                        *)
MustWipeForEachCursor == mode = "all"

(* The first cursor of an 'all' test deletes the cassette.                 *)
MustWipe == mode = "all" /\ ~wiped

(* A mutation: every cursor loads the cassette for itself.                 *)
MustLoadForEachCursor == TRUE

(* One load fills the queue the test's cursors share.                      *)
MustLoad == ~loaded

(* The modes whose cursors read the cassette: all but the recording ones.  *)
Loads == \/ mode \in {"none", "new_episodes"}
         \/ mode = "once" /\ Decision = "replay"

(* Once decided: an execute() replays or misses, and never records.        *)
Replaying == \/ mode = "none"
             \/ mode = "once" /\ once_replay = "replay"

AtStep(c, step) == mode # NoMode /\ pc[c] = step

(* How a call ends: the cursor is idle again, with this outcome.           *)
Return(c, how) ==
    /\ pc' = [pc EXCEPT ![c] = "idle"]
    /\ outcome' = [outcome EXCEPT ![c] = how]

(* ... and its locals with it.                                             *)
Forget(c) ==
    /\ table' = [table EXCEPT ![c] = NoFile]
    /\ index' = [index EXCEPT ![c] = 0]
-----------------------------------------------------------------------------
(* A cassette directory that does not exist yet, or that exists and is     *)
(* empty: every recording in it will have been made by these runs.         *)
Init ==
    /\ cassette = EmptyCassette
    /\ dir \in BOOLEAN
    /\ run = 0
    /\ mode = NoMode
    /\ start = EmptyCassette
    /\ pc = [c \in Cursors |-> "idle"]
    /\ call = [c \in Cursors |-> NoCall]
    /\ calls = [c \in Cursors |-> 0]
    /\ initialised = [c \in Cursors |-> FALSE]
    /\ attached = [c \in Cursors |-> FALSE]
    /\ table = [c \in Cursors |-> NoFile]
    /\ index = [c \in Cursors |-> 0]
    /\ result = [c \in Cursors |-> NoResult]
    /\ outcome = [c \in Cursors |-> "none"]
    /\ wiped = FALSE
    /\ once_replay = "undecided"
    /\ loaded = FALSE
    /\ replay_queue = {}
    /\ recorded_schemas = {}
    /\ write_lock = NoCursor
    /\ told = {}
    /\ served = [i \in Slots |-> 0]

(* The test starts: its CassetteState and its cursors are new.             *)
StartRun(m) ==
    /\ mode = NoMode /\ run < MaxRuns
    /\ run' = run + 1
    /\ mode' = m
    /\ start' = cassette
    /\ UNCHANGED <<disk, shared, write_lock, pc, call, calls, initialised,
                   attached, table, index, result, outcome, history>>

(* What the process held of a test is gone.                                *)
Release ==
    /\ mode' = NoMode
    /\ start' = EmptyCassette
    /\ pc' = [c \in Cursors |-> "idle"]
    /\ call' = [c \in Cursors |-> NoCall]
    /\ calls' = [c \in Cursors |-> 0]
    /\ initialised' = [c \in Cursors |-> FALSE]
    /\ attached' = [c \in Cursors |-> FALSE]
    /\ table' = [c \in Cursors |-> NoFile]
    /\ index' = [c \in Cursors |-> 0]
    /\ result' = [c \in Cursors |-> NoResult]
    /\ outcome' = [c \in Cursors |-> "none"]
    /\ wiped' = FALSE
    /\ once_replay' = "undecided"
    /\ loaded' = FALSE
    /\ replay_queue' = {}
    /\ recorded_schemas' = {}
    /\ write_lock' = NoCursor
    /\ served' = [i \in Slots |-> 0]

(* The test is over and the state its cursors shared is released.          *)
EndRun ==
    /\ mode # NoMode
    /\ \A c \in Cursors : pc[c] = "idle"
    /\ Release
    /\ UNCHANGED <<disk, run, told>>
-----------------------------------------------------------------------------
(* A call begins.  Room keeps a recording mode within MaxInteractions.     *)
Room ==
    \/ mode = "none"
    \/ count_interactions(cassette) + Cardinality({c \in Cursors : pc[c] # "idle"})
         < MaxInteractions

Begin(c, o, q) ==
    /\ AtStep(c, "idle") /\ calls[c] < MaxCalls
    /\ call' = [call EXCEPT ![c] = [op |-> o, query |-> q]]
    /\ calls' = [calls EXCEPT ![c] = @ + 1]
    /\ outcome' = [outcome EXCEPT ![c] = "none"]
    /\ pc' = [pc EXCEPT ![c] = IF initialised[c] THEN "dispatch" ELSE "initialise"]
    /\ UNCHANGED <<disk, session, shared, write_lock, initialised, attached,
                   table, index, history>>

(* execute() first forgets the last result, whatever becomes of the call.  *)
Execute(c, q) ==
    /\ Room
    /\ Begin(c, "execute", q)
    /\ result' = [result EXCEPT ![c] = NoResult]

(* adbc_execute_schema() in 'none'; in the other modes it only asks the    *)
(* real cursor and touches nothing here.                                   *)
AskSchema(c, q) ==
    /\ mode = "none"
    /\ Begin(c, "schema", q)
    /\ UNCHANGED result
-----------------------------------------------------------------------------
(* _ensure_initialised: one critical section.                              *)
Initialising(c) ==
    /\ AtStep(c, "initialise")
    /\ write_lock = NoCursor
    /\ initialised' = [initialised EXCEPT ![c] = TRUE]
    /\ once_replay' = Decision
    /\ UNCHANGED <<session, write_lock, call, calls, table, index, result, served>>

ToDispatch(c) == /\ pc' = [pc EXCEPT ![c] = "dispatch"]
                 /\ UNCHANGED outcome

(* shutil.rmtree.                                                          *)
Wipe(c) ==
    /\ Initialising(c)
    /\ MustWipe
    /\ cassette' = EmptyCassette
    /\ dir' = FALSE
    /\ wiped' = TRUE
    /\ ToDispatch(c)
    /\ told' = {t \in told : t.run = run}
    /\ UNCHANGED <<loaded, replay_queue, recorded_schemas, attached>>

RecordOnly(c) ==
    /\ Initialising(c)
    /\ \/ mode = "all" /\ ~MustWipe
       \/ mode = "once" /\ Decision = "record"
    /\ ToDispatch(c)
    /\ UNCHANGED <<disk, wiped, loaded, replay_queue, recorded_schemas, attached, told>>

LoadQueue(c) ==
    /\ Initialising(c)
    /\ Loads /\ MustLoad
    /\ Loadable(cassette)
    /\ LET entries == load_all_interactions(cassette) IN
         /\ loaded' = TRUE
         /\ replay_queue' = entries
         /\ recorded_schemas' = {[query |-> e.query, schema |-> SchemaOf[e.table]] :
                                   e \in {f \in entries : IsFront(f, entries, f.query)}}
    /\ attached' = [attached EXCEPT ![c] = TRUE]
    /\ ToDispatch(c)
    /\ UNCHANGED <<disk, wiped, told>>

(* A file that cannot be read: the exception leaves the shared queue made, *)
(* and empty, and this cursor with a queue of its own.                     *)
LoadFails(c) ==
    /\ Initialising(c)
    /\ Loads /\ MustLoad
    /\ ~Loadable(cassette)
    /\ loaded' = TRUE
    /\ Return(c, "error")
    /\ UNCHANGED <<disk, wiped, replay_queue, recorded_schemas, attached, told>>

ShareQueue(c) ==
    /\ Initialising(c)
    /\ Loads /\ ~MustLoad
    /\ attached' = [attached EXCEPT ![c] = TRUE]
    /\ ToDispatch(c)
    /\ UNCHANGED <<disk, wiped, loaded, replay_queue, recorded_schemas, told>>
-----------------------------------------------------------------------------
(* The branches of execute(): popping the replay queue is under the lock.  *)
Dispatching(c) == AtStep(c, "dispatch") /\ call[c].op = "execute"

Replay(c) ==
    /\ Dispatching(c)
    /\ Replaying \/ mode = "new_episodes"
    /\ write_lock = NoCursor
    /\ \E e \in Queue(c) :
         /\ IsFront(e, Queue(c), Query(c))
         /\ replay_queue' = replay_queue \ {e}
         /\ result' = [result EXCEPT ![c] = [query |-> Query(c), table |-> e.table]]
         /\ served' = [served EXCEPT ![e.idx] = @ + 1]
    /\ Return(c, "ok")
    /\ UNCHANGED <<disk, session, wiped, once_replay, loaded, recorded_schemas,
                   write_lock, call, calls, initialised, attached, table, index, told>>

NothingQueued(c) ==
    /\ Dispatching(c)
    /\ Replaying
    /\ write_lock = NoCursor
    /\ ~Queued(c)
    /\ pc' = [pc EXCEPT ![c] = "miss"]
    /\ UNCHANGED <<disk, session, shared, write_lock, call, calls, initialised,
                   attached, table, index, result, outcome, history>>

(* A mutation: a 'once' test records what its cassette lacks.              *)
MayRecordWhatIsMissing(c) ==
    \/ mode = "all"
    \/ mode = "once" /\ once_replay # "replay"
    \/ mode \in {"once", "new_episodes"} /\ write_lock = NoCursor /\ ~Queued(c)

MayRecord(c) ==
    \/ mode = "all"
    \/ mode = "once" /\ once_replay # "replay"
    \/ mode = "new_episodes" /\ write_lock = NoCursor /\ ~Queued(c)

AskReal(c) ==
    /\ Dispatching(c)
    /\ MayRecord(c)
    /\ pc' = [pc EXCEPT ![c] = "real"]
    /\ UNCHANGED <<disk, session, shared, write_lock, call, calls, initialised,
                   attached, table, index, result, outcome, history>>

(* _raise_cassette_miss looks at the directory without the lock.           *)
RaiseMiss(c) ==
    /\ AtStep(c, "miss")
    /\ Return(c, IF ~dir THEN "directory_missing"
                 ELSE IF ~cassette_has_interactions(cassette) THEN "cassette_empty"
                 ELSE "interaction_missing")
    /\ UNCHANGED <<disk, session, shared, write_lock, call, calls, initialised,
                   attached, table, index, result, history>>

(* A mutation: no memory of the schemas of recordings already popped.      *)
SchemasOfQueue(c) ==
    IF Queued(c)
    THEN {SchemaOf[e.table] : e \in {f \in Queue(c) : IsFront(f, Queue(c), Query(c))}}
    ELSE IF result[c] # NoResult /\ result[c].query = Query(c)
    THEN {SchemaOf[result[c].table]}
    ELSE {}

(* adbc_execute_schema: the front of the queue, else the query just        *)
(* executed, else the first recording of the query.                        *)
SchemasFor(c) ==
    IF Queued(c)
    THEN {SchemaOf[e.table] : e \in {f \in Queue(c) : IsFront(f, Queue(c), Query(c))}}
    ELSE IF result[c] # NoResult /\ result[c].query = Query(c)
    THEN {SchemaOf[result[c].table]}
    ELSE {r.schema : r \in {s \in recorded_schemas : s.query = Query(c)}}

(* A mutation: the recording whose schema is told is popped.               *)
QueueAfterPop(c) == replay_queue \ {e \in Queue(c) : IsFront(e, Queue(c), Query(c))}

(* Looking at the front of the queue pops nothing.                         *)
QueueAfterPeek(c) == replay_queue

AnswerSchema(c) ==
    /\ AtStep(c, "dispatch") /\ call[c].op = "schema"
    /\ write_lock = NoCursor
    /\ IF SchemasFor(c) # {}
       THEN Return(c, "schema")
       ELSE pc' = [pc EXCEPT ![c] = "miss"] /\ UNCHANGED outcome
    /\ replay_queue' = QueueAfterPeek(c)
    /\ UNCHANGED <<disk, session, wiped, once_replay, loaded, recorded_schemas,
                   write_lock, call, calls, initialised,
                   attached, table, index, result, history>>
-----------------------------------------------------------------------------
(* The real driver, without the lock.                                      *)
RealAnswers(c) ==
    /\ AtStep(c, "real")
    /\ \E t \in Tables : table' = [table EXCEPT ![c] = t]
    /\ pc' = [pc EXCEPT ![c] = "record"]
    /\ UNCHANGED <<disk, session, shared, write_lock, call, calls, initialised,
                   attached, index, result, outcome, history>>

(* The driver raises, or scrubbing what it answered does.                  *)
RealFails(c) ==
    /\ AtStep(c, "real")
    /\ Return(c, "error")
    /\ UNCHANGED <<disk, session, shared, write_lock, call, calls, initialised,
                   attached, table, index, result, history>>

(* _record_interaction: from here to the last file under the lock.         *)
ScrubbedTable(c) == ScrubTable[table[c]]

(* A mutation: the test gets the table as the driver answered it.          *)
UnscrubbedTable(c) == table[c]

(* What _record_interaction returns to execute().                          *)
ReturnedTable(c) == ScrubbedTable(c)

(* Mutations: the index is one off.                                        *)
NextIndexTooLow == count_interactions(cassette) - 1
NextIndexTooHigh == count_interactions(cassette) + 1

NextIndex == count_interactions(cassette)

(* A mutation: the lock is not taken to write.                             *)
MayWriteUnlocked == TRUE

MayWrite == write_lock = NoCursor

BeginWrite(c) ==
    /\ AtStep(c, "record")
    /\ MayWrite
    /\ count_interactions(cassette) < MaxInteractions
    /\ write_lock' = c
    /\ index' = [index EXCEPT ![c] = NextIndex]
    /\ dir' = TRUE
    /\ pc' = [pc EXCEPT ![c] = "sql"]
    /\ UNCHANGED <<cassette, session, shared, call, calls, initialised,
                   attached, table, result, outcome, history>>

WriteSql(c) ==
    /\ AtStep(c, "sql")
    /\ cassette' = [cassette EXCEPT ![index[c]].sql = Query(c).sql]
    /\ pc' = [pc EXCEPT ![c] = "arrow"]
    /\ UNCHANGED <<dir, session, shared, write_lock, call, calls, initialised,
                   attached, table, index, result, outcome, history>>

WriteArrow(c) ==
    /\ AtStep(c, "arrow")
    /\ cassette' = [cassette EXCEPT ![index[c]].arrow = ScrubbedTable(c)]
    /\ pc' = [pc EXCEPT ![c] = "params"]
    /\ UNCHANGED <<dir, session, shared, write_lock, call, calls, initialised,
                   attached, table, index, result, outcome, history>>

WriteParams(c) ==
    /\ AtStep(c, "params")
    /\ cassette' = [cassette EXCEPT ![index[c]].params = ScrubbedQuery(Query(c)).params]
    /\ write_lock' = NoCursor
    /\ result' = [result EXCEPT ![c] = [query |-> Query(c), table |-> ReturnedTable(c)]]
    /\ told' = told \union {[run |-> run, idx |-> index[c], asked |-> Query(c),
                             query |-> ScrubbedQuery(Query(c)),
                             table |-> ReturnedTable(c)]}
    /\ Return(c, "ok")
    /\ Forget(c)
    /\ UNCHANGED <<dir, session, shared, call, calls, initialised, attached,
                   served>>
-----------------------------------------------------------------------------
(* What a write cut short can leave of the file it was writing.            *)
CutShort(c) ==
    LET slot == cassette[index[c]] IN
      {slot} \union CASE pc[c] = "sql"    -> {[slot EXCEPT !.sql = Query(c).sql]}
                      [] pc[c] = "arrow"  -> {[slot EXCEPT !.arrow = Torn]}
                      [] pc[c] = "params" -> {[slot EXCEPT !.params = Torn]}

Writing(c) == pc[c] \in {"sql", "arrow", "params"}

(* A mutation: the lock is not released when a write raises.               *)
LockLeaked(c) == c

(* The with statement releases the lock.                                   *)
LockAfterFailure(c) == NoCursor

(* A file write raises: the disk is full, the parameters have no JSON.     *)
WriteFails(c) ==
    /\ "write" \in Faults
    /\ mode # NoMode /\ Writing(c)
    /\ \E left \in CutShort(c) : cassette' = [cassette EXCEPT ![index[c]] = left]
    /\ write_lock' = LockAfterFailure(c)
    /\ Return(c, "error")
    /\ Forget(c)
    /\ UNCHANGED <<dir, session, shared, call, calls, initialised, attached,
                   result, history>>

(* shutil.rmtree deletes file after file: it can end with any of them gone *)
(* and the directory still there.                                          *)
PartlyWipe ==
    /\ "wipe" \in Faults
    /\ MustWipe /\ dir
    /\ \E sqls, arrows, params \in SUBSET Slots :
         cassette' = [i \in Slots |->
             [sql    |-> IF i \in sqls   THEN NoFile ELSE cassette[i].sql,
              arrow  |-> IF i \in arrows THEN NoFile ELSE cassette[i].arrow,
              params |-> IF i \in params THEN NoFile ELSE cassette[i].params]]
    /\ told' = {t \in told : t.run = run}

(* shutil.rmtree raises part way: the cursor counts as initialised, the    *)
(* test's cassette as not yet wiped.                                       *)
WipeFails(c) ==
    /\ Initialising(c)
    /\ PartlyWipe
    /\ Return(c, "error")
    /\ UNCHANGED <<dir, wiped, loaded, replay_queue, recorded_schemas, attached>>

(* The process dies in the middle of a run.                                *)
Crash ==
    /\ "crash" \in Faults
    /\ mode # NoMode
    /\ \/ /\ \A c \in Cursors : ~Writing(c)
          /\ UNCHANGED <<cassette, told>>
       \/ \E c \in Cursors :
            /\ Writing(c)
            /\ \E left \in CutShort(c) : cassette' = [cassette EXCEPT ![index[c]] = left]
            /\ UNCHANGED told
       \/ /\ write_lock = NoCursor
          /\ \E c \in Cursors : pc[c] = "initialise"
          /\ PartlyWipe
    /\ Release
    /\ UNCHANGED <<dir, run>>
-----------------------------------------------------------------------------
Step(c) ==
    \/ Wipe(c) \/ RecordOnly(c) \/ LoadQueue(c) \/ LoadFails(c) \/ ShareQueue(c)
    \/ Replay(c) \/ NothingQueued(c) \/ AskReal(c) \/ RaiseMiss(c)
    \/ AnswerSchema(c)
    \/ RealAnswers(c) \/ RealFails(c)
    \/ BeginWrite(c) \/ WriteSql(c) \/ WriteArrow(c) \/ WriteParams(c)

Finished == mode = NoMode /\ run = MaxRuns /\ UNCHANGED vars

Next ==
    \/ \E m \in Modes : StartRun(m)
    \/ EndRun
    \/ \E c \in Cursors, q \in Asked : Execute(c, q) \/ AskSchema(c, q)
    \/ \E c \in Cursors : Step(c) \/ WriteFails(c) \/ WipeFails(c)
    \/ Crash
    \/ Finished

Spec == Init /\ [][Next]_vars

(* A thread inside a call goes on: the calls end, whoever holds the lock.  *)
FairSpec == Spec /\ \A c \in Cursors : WF_vars(Step(c))
-----------------------------------------------------------------------------
TypeOK ==
    /\ cassette \in [Slots -> Interactions] /\ dir \in BOOLEAN
    /\ run \in 0 .. MaxRuns /\ mode \in Modes \union {NoMode}
    /\ start \in [Slots -> Interactions]
    /\ wiped \in BOOLEAN
    /\ once_replay \in {"undecided", "replay", "record"}
    /\ loaded \in BOOLEAN /\ replay_queue \in SUBSET Entries
    /\ recorded_schemas \in SUBSET [query : Queries, schema : Schemas]
    /\ write_lock \in Cursors \union {NoCursor}
    /\ pc \in [Cursors -> {"idle", "initialise", "dispatch", "miss", "real",
                           "record", "sql", "arrow", "params"}]
    /\ call \in [Cursors -> Calls \union {NoCall}]
    /\ calls \in [Cursors -> 0 .. MaxCalls]
    /\ initialised \in [Cursors -> BOOLEAN]
    /\ attached \in [Cursors -> BOOLEAN]
    /\ table \in [Cursors -> Tables \union {NoFile}]
    /\ index \in [Cursors -> Nat]
    /\ result \in [Cursors -> [query : Queries, table : Tables] \union {NoResult}]
    /\ outcome \in [Cursors -> Outcomes]
    /\ told \in SUBSET Told
    /\ served \in [Slots -> Nat]

OnDisk(t, directory) ==
    directory[t.idx] = [sql    |-> t.query.sql,
                        arrow  |-> t.table,
                        params |-> t.query.params]

(* What execute() returned from a recording is on disk, as returned, until *)
(* a later 'all' run deletes the cassette: no other cursor overwrites it,  *)
(* and the wipe of its own run comes before it, never after.               *)
RecordingsKept == \A t \in told : OnDisk(t, cassette)

(* Indexes are used without gaps, whatever the interleaving of cursors.    *)
NumberedWithoutGaps ==
    \A i \in SqlFiles(cassette) : \A j \in Slots : j < i => j \in SqlFiles(cassette)

(* When a deletion may stop part way, too: after one the test's cassette   *)
(* is still to be wiped, or its numbering has a gap.  Unless it is so, no  *)
(* step loses a recording that this run has made or found.                 *)
KeptWhileNumbered ==
    [][(mode = "all" => wiped) /\ NumberedWithoutGaps =>
         \A t \in told : /\ OnDisk(t, cassette)
                         /\ t.run = run \/ OnDisk(t, start)
                         => OnDisk(t, cassette')]_vars

(* Unless a cursor is writing, every interaction has its three files.      *)
WholeUnlessWriting ==
    write_lock = NoCursor =>
        \A i \in SqlFiles(cassette) : /\ cassette[i].arrow \in Tables
                                      /\ cassette[i].params \in Params

(* However many cursors share the cassette, a recording is replayed to one *)
(* of them, once, and only if it was there when the test began: a test     *)
(* never replays what it has itself recorded.                              *)
ReplayedAtMostOnce ==
    \A i \in Slots : served[i] <= IF i \in SqlFiles(start) THEN 1 ELSE 0

(* The recordings of a query are replayed in the order they were made.     *)
ReplayedInOrder ==
    \A i, j \in SqlFiles(start) :
        i < j /\ KeyOf(start[i]) = KeyOf(start[j]) => served[j] <= served[i]

(* A result is a table some test was told when it recorded that query: a   *)
(* replay returns just what the recording returned, scrubbed alike.        *)
ResultsAreRecordings ==
    \A c \in Cursors : result[c] # NoResult =>
        \E t \in told : /\ t.table = result[c].table
                        /\ result[c].query \in {t.asked, t.query}

(* The recordings of a query not replayed in this run.                     *)
Left(q) == {i \in SqlFiles(start) : KeyOf(start[i]) = q /\ served[i] = 0}

Missed(c) == outcome[c] \in Misses /\ call[c] # NoCall

(* execute() raises CassetteMissError only if every recording of the query *)
(* has been replayed already, to this cursor or another.                   *)
MissOnlyWhenUsedUp ==
    \A c \in Cursors :
        Missed(c) /\ call[c].op = "execute" => Left(Query(c)) = {}

(* 'new_episodes' records a query only when its recordings are used up.    *)
NewEpisodesRecordsOnlyNew ==
    mode = "new_episodes" =>
        \A t \in told : t.run = run => Left(t.asked) = {}

(* A query whose recording an earlier run was told of, and which this run  *)
(* has not replayed yet, is replayed by 'new_episodes' and not recorded    *)
(* again.  (The code does not keep this: see the runs that violate it.)    *)
PresentIsReplayed ==
    mode = "new_episodes" =>
        \A t, u \in told :
            t.run = run /\ u.run < run /\ u.asked = t.asked => served[u.idx] > 0

(* A 'once' test records every query or replays every query, according to  *)
(* the cassette it began with, although its own recordings change that.    *)
OnceIsAllOrNothing ==
    mode = "once" =>
        IF cassette_has_interactions(start)
        THEN \A t \in told : t.run # run
        ELSE \A c \in Cursors : ~Missed(c)

(* adbc_execute_schema() misses only on a query that was never recorded,   *)
(* although the queue it reads is drained by every cursor.                 *)
SchemaMissOnlyWhenNeverRecorded ==
    \A c \in Cursors :
        Missed(c) /\ call[c].op = "schema" =>
            \A i \in SqlFiles(start) : KeyOf(start[i]) # Query(c)

(* A run that replays, in 'none' or in 'once' over a cassette, changes no  *)
(* file of the cassette and makes no directory.                            *)
ReplayLeavesCassette ==
    [][mode = "none" \/ (mode = "once" /\ cassette_has_interactions(start))
         => UNCHANGED disk]_vars

(* Every call returns or raises, a failing write or wipe included: no      *)
(* cursor waits for the lock for ever.                                     *)
EveryCallReturns ==
    \A c \in Cursors : pc[c] # "idle" ~> pc[c] = "idle"
=============================================================================
