--------------------------- MODULE PluginSession ----------------------------
(***************************************************************************)
(* The pytest plugin around the cursors (plugin.py, _session.py): tests    *)
(* run one after another, and again; connect() of some drivers is patched  *)
(* and may be called by any thread of the running test; the adbc_replay    *)
(* fixture, when a test first requests it, replaces the ReplaySession that *)
(* patched calls use; each session hands a test's connections the          *)
(* CassetteState of their cassette, which teardown releases.               *)
(*                                                                         *)
(* A query is one step here (ReplayCursors has its interleavings), and all *)
(* queries are alike.  A call of connect() outside a test, or in a test    *)
(* without the adbc_cassette marker, goes to the driver and changes        *)
(* nothing below.  A thread that outlives its test finishes the connect()  *)
(* that it is in, and asks no queries.                                     *)
(***************************************************************************)
EXTENDS Integers, FiniteSets, Sequences

CONSTANTS
    Tests, NoTest,
    CassetteName,     \* the cassette each test's marker names
    Drivers,
    Patched,          \* the drivers listed in adbc_auto_patch
    Explicit,         \* the drivers that tests open with adbc_connect
    Threads, Main,    \* those of a test; the fixtures run in Main
    Modes,            \* the record modes a session may be started in
    FixtureFirst,     \* adbc_replay is requested before the test connects
    MaxRuns,          \* bound: test runs
    MaxConnections,   \* bound: connections in all of them
    MaxQueries        \* bound: queries in one test run

ASSUME PluginAssumption ==
    /\ NoTest \notin Tests
    /\ Patched \subseteq Drivers /\ Explicit \subseteq Drivers
    /\ Main \in Threads
    /\ Modes \subseteq {"none", "once", "new_episodes", "all"}
    /\ FixtureFirst \in BOOLEAN
    /\ MaxRuns \in Nat /\ MaxConnections \in Nat /\ MaxQueries \in Nat

VARIABLES
    mode,                \* of the pytest session
    cassettes,           \* each cassette's recordings: by which run, which session
    (* pytest *)
    run,                 \* how many tests have been started
    running,             \* the test that runs, until its teardown is over
    phase,               \* how far it is
    closing,             \* what the teardown hook still has to close
    queries,             \* history: queries this run has asked
    recorded,            \* history: on each cassette, those it had to record
    (* the plugin's globals *)
    current_item,
    session_state,
    open_connections,    \* by test
    (* the sessions *)
    cassette_states,     \* each one's keys, with the CassetteState they lead to
    states,              \* all CassetteStates made: a sequence
    connections,         \* all ReplayConnections made: a sequence
    (* each thread in a patched connect() *)
    pc, item, called,    \* the test it has found, and in which of the runs
    session_obj, conn

pytest  == <<run, running, phase, closing>>
history == <<queries, recorded>>
globals == <<current_item, session_state, open_connections>>
locals  == <<pc, item, called, session_obj, conn>>
vars == <<mode, cassettes, pytest, history, globals, cassette_states, states,
          connections, locals>>

(* The session made at pytest_sessionstart and that of the fixture.        *)
Sessions == {"eager", "full"}

NoSession == "none"

Cassettes == {CassetteName[t] : t \in Tests} \X Drivers

CassettePath(t, d) == <<CassetteName[t], d>>

States == [wiped : BOOLEAN, once_replay : {"undecided", "replay", "record"},
           loaded : BOOLEAN, queued : Nat]

(* What an earlier pytest session has recorded.                            *)
Earlier == [run |-> 0, session |-> "full"]

NewState == [wiped |-> FALSE, once_replay |-> "undecided", loaded |-> FALSE, queued |-> 0]

Init ==
    /\ mode \in Modes
    /\ cassettes \in {[p \in Cassettes |-> held] : held \in {<<>>, <<Earlier>>}}
    /\ run = 0 /\ running = NoTest /\ phase = "between" /\ closing = {}
    /\ queries = 0 /\ recorded = [p \in Cassettes |-> 0]
    /\ current_item = NoTest
    /\ session_state = "eager"
    /\ open_connections = [t \in Tests |-> {}]
    /\ cassette_states = [s \in Sessions |-> {}]
    /\ states = <<>>
    /\ connections = <<>>
    /\ pc = [th \in Threads |-> "idle"]
    /\ item = [th \in Threads |-> NoTest]
    /\ called = [th \in Threads |-> 0]
    /\ session_obj = [th \in Threads |-> NoSession]
    /\ conn = [th \in Threads |-> 0]
-----------------------------------------------------------------------------
(* pytest_runtest_setup, before any fixture of the test.                   *)
StartTest(t) ==
    /\ phase = "between" /\ run < MaxRuns
    /\ run' = run + 1
    /\ running' = t
    /\ phase' = "running"
    /\ current_item' = t
    /\ queries' = 0
    /\ recorded' = [p \in Cassettes |-> 0]
    /\ UNCHANGED <<mode, cassettes, closing, session_state, open_connections,
                   cassette_states, states, connections, locals>>

InThisRun == {k \in 1 .. Len(connections) : connections[k].run = run}

NoneConnects == \A th \in Threads : called[th] # run

(* The adbc_replay fixture is made, once, when a test first requests it.   *)
RequestFixture ==
    /\ phase = "running" /\ pc[Main] = "idle"
    /\ session_state = "eager"
    /\ FixtureFirst => InThisRun = {} /\ NoneConnects
    /\ session_state' = "full"
    /\ UNCHANGED <<mode, cassettes, pytest, history, current_item, open_connections,
                   cassette_states, states, connections, locals>>
-----------------------------------------------------------------------------
(* ReplaySession.cassette_state: the CassetteState of a key, made if new.  *)
Known(s, t, d) == {e \in cassette_states[s] : e.test = t /\ e.driver = d}

(* A mutation: every connection gets a state of its own.                   *)
SharesNoState(s, t, d) == {}

SharedState(s, t, d) == Known(s, t, d)

TakeState(s, t, d) ==
    IF SharedState(s, t, d) # {}
    THEN UNCHANGED <<cassette_states, states>>
    ELSE /\ states' = Append(states, NewState)
         /\ cassette_states' =
              [cassette_states EXCEPT ![s] =
                 (@ \ Known(s, t, d)) \union
                     {[test |-> t, driver |-> d, state |-> Len(states) + 1]}]

(* The connection that wrap_from_item makes of it in run r; inner is the   *)
(* connection it has got for a real one, or 0; it is late if the state of  *)
(* that run has been released.                                             *)
Connection(r, s, t, d, inner) ==
    [run |-> r, test |-> t, driver |-> d, session |-> s, inner |-> inner,
     late |-> r # run \/ phase = "between", clone |-> FALSE,
     state |-> IF SharedState(s, t, d) # {}
               THEN (CHOOSE e \in SharedState(s, t, d) : TRUE).state
               ELSE Len(states) + 1,
     closed |-> FALSE]

(* A patched connect() reads the current item under _ITEM_LOCK ...         *)
CallConnect(th) ==
    /\ pc[th] = "idle" /\ phase = "running"
    /\ current_item # NoTest /\ Patched # {}
    /\ Len(connections) + Cardinality({u \in Threads : pc[u] \in {"item", "session"}})
         < MaxConnections
    /\ pc' = [pc EXCEPT ![th] = "item"]
    /\ item' = [item EXCEPT ![th] = current_item]
    /\ called' = [called EXCEPT ![th] = run]
    /\ UNCHANGED <<mode, cassettes, pytest, history, globals, cassette_states,
                   states, connections, session_obj, conn>>

(* The locals of a call are gone with it.                                  *)
Leave(th) ==
    /\ pc' = [pc EXCEPT ![th] = "idle"]
    /\ item' = [item EXCEPT ![th] = NoTest]
    /\ called' = [called EXCEPT ![th] = 0]
    /\ session_obj' = [session_obj EXCEPT ![th] = NoSession]
    /\ conn' = [conn EXCEPT ![th] = 0]

(* ... then, without it, the session ...                                   *)
ReadSession(th) ==
    /\ pc[th] = "item"
    /\ pc' = [pc EXCEPT ![th] = "session"]
    /\ session_obj' = [session_obj EXCEPT ![th] = session_state]
    /\ UNCHANGED <<mode, cassettes, pytest, history, globals, cassette_states,
                   states, connections, item, called, conn>>

(* ... opens the connection ...                                            *)
Wrap(th, d) ==
    /\ pc[th] = "session" /\ d \in Patched
    /\ TakeState(session_obj[th], item[th], d)
    /\ connections' =
         Append(connections, Connection(called[th], session_obj[th], item[th], d, 0))
    /\ conn' = [conn EXCEPT ![th] = Len(connections) + 1]
    /\ pc' = [pc EXCEPT ![th] = "wrapped"]
    /\ UNCHANGED <<mode, cassettes, pytest, history, globals, item, called, session_obj>>

(* ... unless the driver refuses, when its state stays behind ...          *)
ConnectFails(th, d) ==
    /\ mode # "none"
    /\ pc[th] = "session" /\ d \in Patched
    /\ TakeState(session_obj[th], item[th], d)
    /\ Leave(th)
    /\ UNCHANGED <<mode, cassettes, pytest, history, globals, connections>>

(* ... and keeps it for the teardown, under _ITEM_LOCK again.              *)
Register(th) ==
    /\ pc[th] = "wrapped"
    /\ open_connections' = [open_connections EXCEPT ![item[th]] = @ \union {conn[th]}]
    /\ Leave(th)
    /\ UNCHANGED <<mode, cassettes, pytest, history, current_item, session_state,
                   cassette_states, states, connections>>

(* adbc_connect has no connect_fn: a record mode calls the driver's own    *)
(* connect(), and if that is patched, the real connection it gets is a     *)
(* ReplayConnection on the same cassette.                                  *)
AdbcConnect(d) ==
    /\ phase = "running" /\ pc[Main] = "idle"
    /\ session_state = "full" /\ d \in Explicit
    /\ LET nested == mode # "none" /\ d \in Patched
           first  == Len(connections) + 1
       IN
         /\ Len(connections) + Cardinality({u \in Threads : pc[u] \in {"item", "session"}})
              + (IF nested THEN 2 ELSE 1) <= MaxConnections
         /\ TakeState("full", running, d)
         /\ IF nested
            THEN /\ connections' = connections \o
                        <<Connection(run, "full", running, d, 0),
                          Connection(run, "full", running, d, first)>>
                 /\ open_connections' =
                      [open_connections EXCEPT ![running] = @ \union {first}]
            ELSE /\ connections' = Append(connections,
                                          Connection(run, "full", running, d, 0))
                 /\ UNCHANGED open_connections
    /\ UNCHANGED <<mode, cassettes, pytest, history, current_item, session_state, locals>>
-----------------------------------------------------------------------------
(* _ensure_initialised: what a query makes of its cassette and its state.  *)
(* A mutation: whether the test has wiped is not remembered.               *)
WipesAgain(st) == mode = "all"

MustWipe(st) == mode = "all" /\ ~st.wiped

Remaining(st, recordings) == IF MustWipe(st) THEN <<>> ELSE recordings

Decision(st, recordings) ==
    IF mode = "once" /\ st.once_replay = "undecided"
    THEN IF recordings # <<>> THEN "replay" ELSE "record"
    ELSE st.once_replay

Loads(st, recordings) ==
    /\ ~st.loaded
    /\ mode \in {"none", "new_episodes"} \/ Decision(st, recordings) = "replay"

Initialised(st, recordings) ==
    [wiped       |-> st.wiped \/ mode = "all",
     once_replay |-> Decision(st, recordings),
     loaded      |-> st.loaded \/ Loads(st, recordings),
     queued      |-> IF Loads(st, recordings) THEN Len(recordings) ELSE st.queued]

(* The connections a test has in hand.                                     *)
InHand == {k \in InThisRun :
             /\ \A th \in Threads : ~(pc[th] = "wrapped" /\ conn[th] = k)
             /\ \A j \in InThisRun : connections[j].inner # k}

(* adbc_clone: another connection with the state of this one and a clone   *)
(* of what is inside it; the plugin does not keep it for the teardown.     *)
Clone(k) ==
    /\ phase = "running" /\ ~connections[k].closed
    /\ Len(connections) + Cardinality({u \in Threads : pc[u] \in {"item", "session"}})
         < MaxConnections
    /\ connections' = Append(connections, [connections[k] EXCEPT !.clone = TRUE])
    /\ UNCHANGED <<mode, cassettes, pytest, history, globals, cassette_states, states,
                   locals>>

(* A mutation: an empty queue is popped.                                   *)
PopsUnchecked(st) == TRUE

Available(st) == st.queued > 0

(* How many connections, one inside another, record a query of k.          *)
Layers(k) == IF connections[k].inner = 0 THEN 1 ELSE 2

Query(k) ==
    /\ phase = "running" /\ queries < MaxQueries /\ ~connections[k].closed
    /\ queries' = queries + 1
    /\ LET id   == connections[k].state
           path == CassettePath(connections[k].test, connections[k].driver)
           kept == Remaining(states[id], cassettes[path])
           st   == Initialised(states[id], cassettes[path])
           new  == [run |-> run, session |-> connections[k].session]
       IN \/ /\ Available(st)                                   \* replayed
             /\ states' = [states EXCEPT ![id] = [st EXCEPT !.queued = @ - 1]]
             /\ UNCHANGED <<cassettes, recorded>>
          \/ /\ ~Available(st)                                  \* missed
             /\ mode = "none" \/ st.once_replay = "replay"
             /\ states' = [states EXCEPT ![id] = st]
             /\ UNCHANGED <<cassettes, recorded>>
          \/ /\ ~Available(st)                                  \* recorded
             /\ mode # "none" /\ st.once_replay # "replay"
             /\ states' = [states EXCEPT ![id] = st]
             /\ cassettes' = [cassettes EXCEPT ![path] =
                                kept \o [n \in 1 .. Layers(k) |-> new]]
             /\ recorded' = [recorded EXCEPT ![path] = @ + 1]
    /\ UNCHANGED <<mode, pytest, globals, cassette_states, connections, locals>>
-----------------------------------------------------------------------------
Closed(ks) ==
    [k \in 1 .. Len(connections) |->
        [connections[k] EXCEPT !.closed = @ \/ k \in ks
             \/ \E j \in ks : connections[j].inner = k /\ ~connections[j].clone]]

(* close(), in the test.                                                   *)
CloseInTest(k) ==
    /\ phase = "running" /\ ~connections[k].closed
    /\ connections' = Closed({k})
    /\ UNCHANGED <<mode, cassettes, pytest, history, globals, cassette_states, states,
                   locals>>

(* The finalizers: adbc_connect closes what it opened.                     *)
TeardownFixtures ==
    /\ phase = "running" /\ pc[Main] = "idle"
    /\ phase' = "finalised"
    /\ connections' = Closed({k \in InHand : ~connections[k].clone /\ k \notin open_connections[running]})
    /\ UNCHANGED <<mode, cassettes, run, running, closing, history, globals,
                   cassette_states, states, locals>>

(* pytest_runtest_teardown.                                                *)
ClearItem ==
    /\ phase = "finalised"
    /\ phase' = "cleared"
    /\ current_item' = NoTest
    /\ UNCHANGED <<mode, cassettes, run, running, closing, history, session_state,
                   open_connections, cassette_states, states, connections, locals>>

PopConnections ==
    /\ phase = "cleared"
    /\ phase' = "closing"
    /\ closing' = open_connections[running]
    /\ open_connections' = [open_connections EXCEPT ![running] = {}]
    /\ UNCHANGED <<mode, cassettes, run, running, history, current_item,
                   session_state, cassette_states, states, connections, locals>>

(* A mutation: an exception from close() ends the hook.                    *)
HookEnded(raises) == raises

(* contextlib.suppress: the hook goes on.                                  *)
EndsHook(raises) == FALSE

CloseConnection(k, raises) ==
    /\ phase = "closing" /\ k \in closing
    /\ connections' = Closed({k})
    /\ IF EndsHook(raises)
       THEN phase' = "between" /\ running' = NoTest /\ closing' = {}
       ELSE closing' = closing \ {k} /\ UNCHANGED <<phase, running>>
    /\ UNCHANGED <<mode, cassettes, run, history, globals, cassette_states, states,
                   locals>>

(* A mutation: nothing is released.                                        *)
KeysKept(t) == cassette_states[session_state]

KeysAfterRelease(t) == {e \in cassette_states[session_state] : e.test # t}

(* session_obj.release_test, of the session patched calls use by now.      *)
ReleaseTest ==
    /\ phase = "closing" /\ closing = {}
    /\ phase' = "between"
    /\ running' = NoTest
    /\ cassette_states' =
         [cassette_states EXCEPT ![session_state] = KeysAfterRelease(running)]
    /\ UNCHANGED <<mode, cassettes, run, closing, history, globals, states,
                   connections, locals>>
-----------------------------------------------------------------------------
Finished == phase = "between" /\ run = MaxRuns /\ UNCHANGED vars

Next ==
    \/ \E t \in Tests : StartTest(t)
    \/ RequestFixture
    \/ \E th \in Threads : CallConnect(th) \/ ReadSession(th) \/ Register(th)
    \/ \E th \in Threads, d \in Patched : Wrap(th, d) \/ ConnectFails(th, d)
    \/ \E d \in Explicit : AdbcConnect(d)
    \/ \E k \in InHand : Query(k) \/ Clone(k) \/ CloseInTest(k)
    \/ TeardownFixtures
    \/ ClearItem \/ PopConnections \/ ReleaseTest
    \/ \E k \in closing, raises \in BOOLEAN : CloseConnection(k, raises)
    \/ Finished

Spec == Init /\ [][Next]_vars
-----------------------------------------------------------------------------
TypeOK ==
    /\ mode \in Modes
    /\ DOMAIN cassettes = Cassettes
    /\ \A p \in Cassettes : cassettes[p] \in Seq([run : 0 .. run, session : Sessions])
    /\ run \in 0 .. MaxRuns /\ running \in Tests \union {NoTest}
    /\ phase \in {"between", "running", "finalised", "cleared", "closing"}
    /\ queries \in 0 .. MaxQueries /\ recorded \in [Cassettes -> 0 .. MaxQueries]
    /\ current_item \in {NoTest, running}
    /\ session_state \in Sessions
    /\ connections \in Seq([run : 1 .. run, test : Tests, driver : Drivers,
                            session : Sessions, inner : 0 .. Len(connections),
                            late : BOOLEAN, clone : BOOLEAN,
                            state : 1 .. Len(states), closed : BOOLEAN])
    /\ closing \subseteq 1 .. Len(connections)
    /\ open_connections \in [Tests -> SUBSET (1 .. Len(connections))]
    /\ cassette_states \in [Sessions -> SUBSET [test : Tests, driver : Drivers,
                                                state : 1 .. Len(states)]]
    /\ states \in Seq(States)
    /\ pc \in [Threads -> {"idle", "item", "session", "wrapped"}]
    /\ item \in [Threads -> Tests \union {NoTest}]
    /\ called \in [Threads -> 0 .. run]
    /\ session_obj \in [Threads -> Sessions \union {NoSession}]
    /\ conn \in [Threads -> 0 .. Len(connections)]

(* All the connections a test opens on one cassette, from any thread and   *)
(* by either way, share one CassetteState, but for those of a thread that  *)
(* has not found the session before the test's state was released.         *)
OneStatePerCassette ==
    \A j, k \in 1 .. Len(connections) :
        /\ connections[j].run = connections[k].run
        /\ connections[j].driver = connections[k].driver
        /\ ~connections[j].late /\ ~connections[k].late
        => connections[j].state = connections[k].state

(* No CassetteState outlives its test: the next test, or a rerun of the    *)
(* same one, decides afresh, even after a connect() that failed.  The only *)
(* states that are left behind are those of such late threads.             *)
RerunDecidesAfresh ==
    \A j, k \in 1 .. Len(connections) :
        /\ connections[j].run # connections[k].run
        /\ ~connections[j].late /\ ~connections[k].late
        => connections[j].state # connections[k].state

(* Between tests every connection that connect() or adbc_connect made has  *)
(* had its close() called, the ones after one whose close() raises         *)
(* included, or is still kept for a teardown of its test, or will be, by a *)
(* thread that is not yet out of connect().                                *)
ClosedAfterTest ==
    phase = "between" => \A k \in 1 .. Len(connections) :
        \/ connections[k].closed \/ connections[k].clone
        \/ \E t \in Tests : k \in open_connections[t]
        \/ \E th \in Threads : conn[th] = k

(* On each cassette there is one recording for each query that the test    *)
(* now running has had to record: none is deleted again, none is doubled.  *)
RecordsWhatItAsks ==
    \A p \in Cassettes :
        Cardinality({n \in 1 .. Len(cassettes[p]) : cassettes[p][n].run = run /\ run > 0})
            = recorded[p]

(* Recordings are made with the suite's adbc_scrubber and                  *)
(* adbc_param_serialisers, which only the fixture's session knows.  (The   *)
(* code does not keep this: see the run that violates it.)                 *)
RecordedByConfiguredSession ==
    \A p \in Cassettes : \A n \in 1 .. Len(cassettes[p]) :
        cassettes[p][n].session = "full"
=============================================================================
