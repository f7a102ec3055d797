# pytest-adbc-replay in TLA+

This directory holds the specifications of pytest-adbc-replay: TLA+ modules
that model the plugin, the TLC configurations that check them on small
instances, and theorems whose proofs the TLA+ proof system (TLAPS) checks.
Paths are relative to the repository; `_cursor.py` and the like are in
`src/pytest_adbc_replay/`.

## The system

The plugin puts itself between a test and an ADBC driver. In a record mode it
asks the driver and writes what it answers to a *cassette*, a directory of
numbered interactions of three files each; in a replay mode it answers from the
cassette. The record mode (`none`, `once`, `new_episodes`, `all`) holds for the
whole pytest session.

| Component | State it keeps | Operations |
|---|---|---|
| Cassette files (`_cassette_io.py`) | the directory: `NNN_query.sql`, `NNN_result.arrow`, `NNN_params.json` | count, test for emptiness, load all, write one file |
| Shared cassette state (`_cassette_state.py`) | `wiped`, `once_replay`, `replay_queue`, `recorded_schemas`, `write_lock` | none of its own: the cursors read and write it |
| Cursor (`_cursor.py`) | whether it is initialised, its queue, the result in hand (`_pending`, `_executed`, `_last_executed_key`, `_fetch_offset`, two consumption flags), `arraysize` | `execute`, `adbc_execute_schema`, the fetch methods, `close`, delegation |
| Connection (`_connection.py`) | the real connection, the cassette path and state | `cursor`, `adbc_clone`, `close` |
| Session (`_session.py`) | configuration; `_cassette_states`, a CassetteState for each (test, cassette) | `wrap`, `wrap_from_item`, `cassette_state`, `release_test` |
| Plugin (`plugin.py`) | `current_item`, `session_state`, `_OPEN_CONNECTIONS` | pytest hooks, patched `connect()`, the fixtures `adbc_replay` and `adbc_connect` |
| Pure functions (`_normaliser.py`, `_params.py`, `_result_scrubbing.py`, `_cassette_path.py`) | none | normalise SQL, serialise and scrub parameters, scrub results, name cassettes |

How they interact. A patched `connect()` looks up the running test and the
current session and asks it for a connection; the session gives the connection
the CassetteState of its cassette; the connection gives it to every clone and
cursor. Cursors of one test, often one for each thread of a pool, share that
state and take turns through its lock. Teardown closes the connections and
releases the state; the cassette stays for the next run.

What is hard in it:

- *Concurrency.* Cursors record and replay on one cassette at once. The lock
  covers initialisation, pops and the three writes; the driver's answer and the
  look at the directory that words an error come without it.
- *Decisions made once.* The wipe of `all` and the decision of `once` belong to
  the test, yet the test's own recordings change what they were made from.
- *Partial failure.* Three files are written one after another, a directory is
  deleted file by file, a load may raise half-way, the process may die.
- *Global state.* `current_item` and `session_state` are read and replaced at
  different times by hooks, fixtures and threads, some of which outlive a test.
- *Directories.* Paths are put together in three places, cassettes may lie in
  one another, and a wipe deletes a directory with all below it.
- *Keys.* What is looked up is normalised SQL with serialised parameters; what
  is stored has been scrubbed. sqlglot loses parts of some statements.
- *Boundaries.* Indexes are the number of files; names sort as text; fetches of
  any size meet the end of a result.

`PROJECT.json` lists these hazards with the line where each bites and the
properties that would catch it.

## The modules

| Module | What it is |
|---|---|
| `Cassette`, `ReplayCursors` | the core: cursors that share a cassette |
| `ReplayTape`, `ReplayCursorsImplementTape` | what the core promises, and the refinement mapping |
| `PluginSession` | tests, threads, sessions, connections |
| `CassettePaths` | which cassette a connection gets, and cassettes inside one another |
| `RecordedInteractions` | what is in the files and what is found again |
| `Normalisation`, `Parameters`, `Scrubbing`, `Configuration`, `CassetteNames` | the functions that `RecordedInteractions` and `CassettePaths` are made of |
| `CursorSurface` | one cursor as a DBAPI object |
| `MC…` | values of the constants for TLC |
| `…Proofs` | theorems |

### Cassette and ReplayCursors: the core

`Cassette` defines a cassette as a function from indexes to triples of files,
any of which may be absent and two of which may be torn, and the functions that
read it. SQL texts, parameters and tables are model values; scrubbing is a pair
of constant functions on them. A replay queue is a set of entries with an index:
the front of the deque of a key is its entry with the least index.

`ReplayCursors` is the machine of one test's cursors over successive runs of the
test. Its variables have the names of the code's. Everything the code does
inside one `with write_lock` block is one action, with the exception of
`_record_interaction`, where a failure or a crash between two writes matters:

| Code | Actions |
|---|---|
| `ReplayCursor.__init__`, a new `CassetteState`; teardown | `StartRun`; `EndRun` |
| `execute`, up to the mode's branch | `Execute`, then one of `Wipe`, `RecordOnly`, `LoadQueue`, `LoadFails`, `ShareQueue` if the cursor is new |
| the replay branches | `Replay`, or `NothingQueued` and `RaiseMiss` |
| the record branches | `AskReal`, `RealAnswers` or `RealFails`, `BeginWrite`, `WriteSql`, `WriteArrow`, `WriteParams` |
| `adbc_execute_schema` in `none` | `AskSchema`, `AnswerSchema`, `RaiseMiss` |
| exceptions and the end of the process | `WriteFails`, `WipeFails`, `Crash` |

The constant `Faults` says which of the last row may happen. Three variables are
history: `start` (the cassette when the run began), `told` (each recording whose
`execute()` has returned) and `served` (how often each entry was replayed).

`execute()` in a mode with no real cursor is not modelled: record modes always
have one (`_connection.py:67-78`). Record modes pass `adbc_execute_schema` on to
the driver, which touches nothing here.

### ReplayTape and ReplayCursorsImplementTape: the promise

`ReplayTape` states what the record modes promise, with no lock, queue, file or
initialisation in it: a tape of recordings, of which a run may play those that
were there when it began, each once and those of one query in order, and at the
end of which it records. Every call is answered in one step.
`ReplayCursorsImplementTape` maps the cursors to it: the tape is the
interactions whose third file is written, what has been played is `served`.

### PluginSession: tests, sessions, connections

`PluginSession` is the plugin around the cursors. A patched `connect()` is four
steps of a thread (`CallConnect`, `ReadSession`, `Wrap` or `ConnectFails`,
`Register`), since item, session and list of open connections are read at
different times. `StartTest` is `pytest_runtest_setup`; `TeardownFixtures`,
`ClearItem`, `PopConnections`, `CloseConnection` and `ReleaseTest` are the end of
a test in the order of the code; `RequestFixture` is the moment pytest first
makes `adbc_replay`; `AdbcConnect` is the factory of `adbc_connect`; `Clone` is
`adbc_clone`, whose connection shares the state and is not in the plugin's list;
`CloseInTest` is a `close()` by the test. A query is one step, with what
`_ensure_initialised` makes of wipe, decision and queue.

No thread waits for the teardown: one that is inside `connect()` when its test
ends goes on through any of the teardown's steps, through the next test and
through a rerun of its own. It asks no queries afterwards. A connection made
after its test's state was released is marked `late`; the properties say what
it may and may not share.

The constant `FixtureFirst` is an assumption about the suite: `adbc_replay` is
requested before the test connects.

### CassettePaths: where recordings go

A path is the sequence of its segments below the cassette directory. `ItemPath`
is `wrap_from_item`, `WrapPath` is `wrap()`, `Arguments` is what a patched
`connect()` recovers of positional arguments. `WrapDialect` and `ItemDialect` are
how `wrap()` and `wrap_from_item` resolve the dialect, each in its own way. The
machine opens connections by any of the calls of a suite and lets
them query in `once` or `all`, each query in one step, so that what a wipe
deletes is seen: every file whose cassette lies within the connection's.
`_slugify` and `Path.stem` are given, as functions on the names that occur.

### RecordedInteractions and its functions

One connection records queries under some configuration, and a later run loads
the cassette and asks any queries, recorded or not. It is sequential; the concurrency is in
`ReplayCursors`. Its parts have a module each:

- `Normalisation`: which rendering of a statement stands for it. The tree and
  the renderings are sqlglot's, and given as constants; that one of them may be
  empty or without the kind of a `DESCRIBE` is what the code is about.
- `Parameters`: the registry of serialisers, its order and its merge with the
  suite's, serialising and reading back. A value is a type and a text; types are
  matched as `isinstance` does, the native ones before any handler.
- `Scrubbing`: redaction of parameters by keys and by the suite's callback, of
  columns by name and of JSON cells by key, at any depth. A JSON cell is an opaque
  text. What `json.loads` reads of it and `json.dumps` writes are given as
  constants, for a cell that is written anew need not say all that it said: digits
  beyond double precision and all but the last of equal keys are gone. The
  properties speak of what `json.loads` reads.
- `Configuration`: the `linelist` keys of the ini file, per driver or for all.
- `CassetteNames`: the file names, of three digits or, from 1000 on, four, and
  their order as text. It has no machine; it is what `RecordedInteractions` loads by, and what justifies that `Cassette`
  takes load order for index order (whence `MaxInteractions` at most 1000).

### CursorSurface: fetching

`CursorSurface` is one cursor as a DBAPI object: `execute()` that succeeds or
fails, every fetch, `arraysize`, `close()` and the methods that only delegate.
Two history variables hold the rows handed out one by one and the fetches that
answered.

## The runs

A mutation of the code, an operator whose comment says so, stands before the
definition it would replace.

| Run | What it asks | Bounds |
|---|---|---|
| `cursors` | the thirteen properties of the core, with the refinement | two cursors, two runs, two calls of each cursor in a run, four modes, two queries of one SQL text, a table and a parameter that get scrubbed, three interactions |
| `cursors_faults` | what must survive failing and torn writes, a wipe that stops part way and crashes; and whether every call returns | the same, one SQL text, nothing scrubbed, two interactions, fair threads |
| `plugin_session` | sharing, release, closing and counting | two test runs of two tests, two threads, three connections, two queries in a run, two drivers |
| `cassette_paths` | which recordings share a cassette, and what a wipe deletes | a suite of four tests and fifteen calls to three drivers, two test runs, three connections and two queries in each |
| `recorded_interactions` | secrets, fidelity, order, lookup | fifteen queries, five configurations, cassettes that hold 0, 99 or 998 interactions before; two queries recorded, two replayed, which may be others |
| `cursor_surface` | fetching | two results of up to three rows, four answered fetches of a result, sizes -1 to 2 |

Two cursors and two runs are enough for what is asked: every property relates
two cursors, two calls or two runs, and a third has no other code to run. Two
calls of a cursor let it meet its own recording and the other's; three
interactions are what it takes for a first run to record a query twice and a
second run to replay one and record another. With faults two do: a torn
interaction and a whole one, or a gap and what is numbered after it. In `plugin_session` three
connections are two of one run, and one of the other, or one that is late. In
`cassette_paths` two connections on one cassette and a third inside or beside it
fit in one test, and the second run is another test or a rerun. The suites of
`recorded_interactions` have keys for all drivers, for theirs and for another,
with and without a callback and handlers; 99 and 998 put the two recordings on
both sides of the changes of width that names below 1000 have or come near to.
Symmetry is used for the cursors and tests, which are alike, and never with
liveness.

The properties of the core, in the order of the hazards: `RecordingsKept` and
`NumberedWithoutGaps` (nobody writes over anybody's files),
`KeptWhileNumbered` (with every fault, the deletion of a cassette part way
included, nothing else than what that leaves behind loses a recording),
`WholeUnlessWriting` (without faults nobody can load half an interaction),
`ReplayedAtMostOnce` and `ReplayedInOrder` (one queue for all cursors),
`ResultsAreRecordings` (what is replayed is what a recording test was given),
`MissOnlyWhenUsedUp`, `NewEpisodesRecordsOnlyNew`, `OnceIsAllOrNothing` and
`ReplayLeavesCassette` (the record modes), `SchemaMissOnlyWhenNeverRecorded`,
`ImplementsTape` (all of it at once, as seen from the test) and
`EveryCallReturns`.

Those of the plugin: `OneStatePerCassette`, `RerunDecidesAfresh` (states are
shared within a test and never beyond it), `ClosedAfterTest`,
`RecordsWhatItAsks` (a query that had to be recorded is recorded once and stays
to the end of the test). Those of paths: `StoredSeparately` (what
tells cassettes apart under one name: the driver and the stems of the
differentiators, and nothing else),
`HoweverPassed` (by position or by name, patched or explicit: one database, one
cassette, one state), `OneDialectPerCassette` (the dialect is found by driver, the
cassette by path: who shares a cassette shares the keys), `RecordedStays` and
`WipesOwnOnly` (what a wipe takes along). Those of the contents: `SecretsStayOut` and
`OthersAreKept` (each is easily had without the other; the latter leaf by leaf as
`json.loads` reads a cell, and to the letter for a cell in which no key is named), `ReplaysWhatWasAsked`,
`FoundUnlessScrubbed`, `LoadedInIndexOrder`, `ParamsAreRestored`.

`FairSpec` assumes weak fairness of each cursor's own steps only: an operating
system thread inside a call goes on running. Nothing makes the test start a
call. The lock is not fair in CPython, and the model needs no more: with
`MaxCalls` calls in a run no cursor can be passed over for ever. Failures and
crashes have no fairness.

### Where code and documentation differ

Six runs each refute one property that a sentence of the repository implies;
`PROJECT.json` quotes it.

| Run | What happens | Instance |
|---|---|---|
| `scrubbed_params` | Lookup keys are made of raw parameters, stored ones of scrubbed parameters. `new_episodes` records such a query again on every run. | no faults |
| `load_fails` | The shared queue is published before it is filled (`_cursor.py:207-212`). After a load that raises, the test's other cursors see an empty cassette. | two cursors, nothing scrubbed; a write cut short in the first run |
| `wipe_fails` | After a deletion that stops part way the count of files is no longer a free index (`_cursor.py:250`), and a recording is written over. | one cursor, three calls |
| `fixture_late` | `adbc_replay`, first requested after a patched `connect()`, brings a new state for the same cassette (`plugin.py:514`). | one test, one thread, two connections |
| `nested` | `adbc_connect` on a patched driver records each query twice. | one driver opened both ways |
| `nested_cassettes` | A `connect()` without the differentiating argument has its cassette around those with it; its wipe in `all` deletes what the same test has just recorded in them. | two calls |

Two of them have more to them than the run shows. In `wipe_fails` one cursor
suffices; with two, `wiped` has stayed `FALSE` and the other cursor's first call
wipes what this one has recorded since. In `fixture_late`, `RecordsWhatItAsks`
fails too: the second state wipes again in `all`.

Five more configurations are kept beside these and belong to no run. TLC, started
by hand, finds the one property of each violated.

| Configuration | Property | What happens |
|---|---|---|
| `FixtureNeverRequested.cfg` (`MCPluginSession`) | `RecordedByConfiguredSession` | Patched calls alone never use the suite's `adbc_scrubber` (`plugin.py:260-261`). `docs/src/reference/fixtures.md:87` calls it active at record time. |
| `WrapTwoDrivers.cfg` (`MCCassettePaths`) | `DriversApart` | `wrap()` has no driver segment (`_session.py:170-181`), and two drivers of a test share a cassette. `docs/src/reference/fixtures.md:76` says each connection records and replays independently. |
| `ExplicitDialect.cfg` (`MCCassettePaths`) | `ExplicitDialectWins` | The marker's dialect wins over the one `wrap()` is given (`_session.py:160-161`). `docs/src/reference/configuration.md:67` ranks them the other way. |
| `RegisteredSubclass.cfg` (`MCRecordedInteractions`) | `RegisteredIsUsed` | A serialiser for a subclass of `date` or `datetime` is never called (`_params.py:136`, `149-152`). `docs/src/how-to/custom-param-serialisers.md:3` says to register one. |
| `Thousandth.cfg` (`MCRecordedInteractions`) | `LoadedInIndexOrder` | From the thousand and first interaction on, names do not sort as indexes do (`_cassette_io.py:22`, `189`). `_cassette_io.py:173` says they are loaded in index order. |

## What is proved

`ReplayCursorsProofs`, for any number of cursors, queries, runs and calls, from
`CassetteAssumption` and `CursorsAssumption`:

- `TypeCorrect`: `Spec => []TypeOK`, with any faults.
- `RecordingsAreKept` and `NumberingHasNoGap`: `Spec => []RecordingsKept` and
  `Spec => []NumberedWithoutGaps`, assuming `"wipe" \notin Faults`.

Neither of the last two is inductive. A recording is kept because the index of
the next one is free; that is so because the indexes in use are an initial
segment, so that their number is the next; and that stays so only because a
single cursor writes at a time, at the index it took, and because nobody wipes
once something was recorded. The inductive invariant `RecordingInv` is the
conjunction of exactly these: `OneWriter` (who is past `BeginWrite` holds the
lock), `Numbering` (the indexes in use are those below the count),
`WriterHasOwnIndex` (the index of a writer is the count, or, when its `.sql` is
written, the last), `WipeBeforeRecording` (a cursor that still may wipe has
nothing of this run to lose) and `RecordingsKept`. The proviso is needed: the
run `wipe_fails` refutes the first without it.

`RecordModesProofs`, from the same assumptions and with any faults:

- `ReplayedOnce`: `Spec => []ReplayedAtMostOnce`.
- `OnceDecides`: `Spec => []OnceIsAllOrNothing`.
- `ReplayingLeavesCassette`: `Spec => ReplayLeavesCassette`.

The inductive invariant is `ModesInv`. Its heart is `RecordingRun`: the run is in
`all`, or has decided to record in `once`, or has loaded in `new_episodes`. Before
that the cassette is as the run found it (`AsFound`), so that the decision of
`once`, taken by whichever cursor comes first, is about `start` (`DecisionKept`),
and what is loaded was there at the start (`QueueFromStart`); nobody writes, and
no recording of this run is told, before it (`CursorsDecided`,
`ToldByRecordingRun`). An entry in the queue has been served to nobody, and
there is one entry for an index, whence at most one replay.

`ReplayQueueProofs`: what is replayed, missed and recorded anew.

- `ReplayedInOrderAlways`: `Spec => []ReplayedInOrder`, with any faults. The
  queue is empty or the cassette as found less what was served
  (`QueueIsUnserved`); as only the least index of a key is served, of two
  recordings of a key the later is never served before the earlier
  (`ServedInOrder`).
- With `Faults = {}`, and from the invariant `SoundInv`, which has the two above
  in it: `InteractionsAreWhole`, `ResultsWereRecorded`, `MissMeansUsedUp`,
  `RecordsOnlyNew`, `SchemaMissMeansNeverRecorded`.

The heart of `SoundInv` is that a queue once loaded is the whole of what is left
(`CompleteQueue`), which needs every interaction to be loadable, which is that
only a cursor holding the lock has part of one on disk (`WholeInv`). A cursor
that looks and finds nothing goes on outside the lock; that nothing is left of
its query stays true meanwhile, since what is left only shrinks (`FoundOut`,
`LeftShrinks`). That is why `new_episodes` may decide under the lock and record
without it. A result in hand is a whole interaction of the cassette
(`ResultInv`), for a recording test as for a replaying one.

`CursorsImplementTapeProofs`: `CursorsImplementTape`, that is
`Spec => ImplementsTape`, with `Faults = {}`. Every step of a cursor answers one
call on the tape, erases it, or is a stutter; there is a lemma for each kind of
step (`TapePlays`, `TapeRecords`, `TapeMisses`, `TapeStutters` and so on). The
tape is the interactions whose third file is written. That these are an initial
segment of the indexes, and that the one being written is the next (`TapeShape`),
needs `SoundInv` and `WrittenInOrder`. What the run found stays at the beginning
of the tape until an `all` run wipes it (`StartOnTape`), so that the queue, an
index set in the cassette, and what the tape has left to play are the same
recordings; a schema is answered from those too (`SchemasFromStart`). With faults
the cursors do not implement the tape: a call may end in an error that no call on
the tape has.

`PluginSessionProofs`, for any number of tests, reruns, threads, connections and
databases, from `PluginAssumption`:

- `SessionTypes`: `Spec => []TypeOK`, from the invariant `TypesInv`.
- `NoneLeftOpen`: `Spec => []ClosedAfterTest`, with any `close()` raising and any
  thread outliving its test. While a test runs, a connection is closed, kept for
  a teardown, in the hands of a thread that will keep it or of the teardown that
  is closing it (`Accounted`), or waits for the finalizer of `adbc_connect`
  (`HeldByFixture`), and no connection gets from the last of these to the next
  test.
- `OneStateEach` and `RerunsDecide`: `Spec => []OneStatePerCassette` and
  `Spec => []RerunDecidesAfresh`, assuming `FixtureFirst`, without which the first
  is false (run `fixture_late`). In every session a key leads to one state and a state to
  one key (`KeysUnique`, `StatesDistinct`); a connection of the running test that
  is not late has the state of its key in the session that patched calls use by
  now (`KeyOfState`, `HeldByTest`). That is why the order of the teardown matters:
  the state is released from the session that made it, and after that no new
  connection of the run is on time. `ThreadsOfTest` says which session a thread
  in `connect()` has read.
- `QueriesAreRecorded`: `Spec => []RecordsWhatItAsks`, assuming `FixtureFirst` and
  that no driver is both patched and opened explicitly; without the latter the run
  `nested` refutes it. A cassette on which the running test has recorded belongs
  to a connection whose state remembers the wipe (`WipeRemembered`), and by
  `OneStatePerCassette` that is the state of the connection that asks next, which
  therefore does not wipe again. For this no connection of the running test may
  be late (`LateIsOver`).

`CursorSurfaceProofs`, for results of any length, any sizes and any sequence of
calls, from `SurfaceAssumption`: `RowsInOrder` (`Spec => []EachRowOnceInOrder`),
`StreamIsFirst`, `RowsAreOfTheLastExecute`, `EndMeansAllHanded`, and the types
(`SurfaceTypes`). The invariant adds to these that a result in hand is that of
the last `execute()` and that there is none after one that failed
(`ResultInHand`), and that a fetch that answered has set `result_consumed`
(`StreamBarred`). The one fact about data is `RowsFollow`: the rows before the
offset and those of the next batch are together the rows before the new offset.

`CassettePathsProofs`, for any suite of calls, markers, signatures and names, and
any number of runs and connections, from `NamesAssumption` (names are strings, and
a slug is one). Always: `PathTypes` (`Spec => []TypeOK`), `StoredApart`
(`Spec => []StoredSeparately`: calls that share an owner share the `TestPath` with
which their paths begin, so that the rest, driver and stems, can be told) and `OneDialect`
(`Spec => []OneDialectPerCassette`: the segment after it is the driver, by which the
ini file's dialect is found). The others need something of the suite, named
before the properties in `CassettePaths`; `MCCassettePaths` asserts that the suite
of the run has all of it.

| Theorem | Property | Assumes |
|---|---|---|
| `PassedEitherWay` | `HoweverPassed` | `PositionsHaveNames`: positional arguments only where the signature names them |
| `WipesItsOwn` | `WipesOwnOnly` | `OwnersApart`: directories inside one another have one owner |
| `RecordingsStay` | `RecordedStays` | `PositionsHaveNames`, `SameKeysGiven` (a driver is given the same differentiators throughout), `WrapsApart` (a `wrap()` shares its directory only with calls for its own cassette) |

They are what a suite has to do, not what the code sees to: without
`SameKeysGiven` the run `nested_cassettes` refutes `RecordedStays`, and that
suite has everything else that is assumed. The invariants are `PathsInv` (a connection and a file are where the
call that made them puts them, and of the running test) and, with the states,
`StatesInv`: a path has one state (`KeysUnique`), the connections of a test have
that of their path (`StateOfPath`), and in `all` a path with recordings of this
test has a state that remembers its wipe (`WipedWhereRecorded`). So a wipe that
comes later is of another path; that no path lies inside another
(`SameKeysGiven`) does the rest, by lemmas on prefixes of sequences.

`RecordedInteractionsProofs`, for any statements and answers of sqlglot, any
parameters, tables and configurations, any order of replays and any number of
recordings with indexes below 10000, from `InteractionsAssumption`,
`SubclassesAssumption` (of the built-in types only `datetime` inherits from
another, and none from a native type), `TreesAssumption` (a JSON value is nested
finitely deep) and `JsonAssumption` (what `json.dumps` writes of a value,
`json.loads` reads as that value). A hypothesis that a theorem has besides is named
in it.

- `LoadOrderIsIndexOrder`, the textual order of the names of any two indexes below
  1000 is that of the indexes, and from it `LoadedAsRecorded`
  (`Spec => []LoadedInIndexOrder`), assuming `BelowAThousand`: `Thousandth.cfg`
  refutes it beyond.
- `InteractionTypes` and `FoundAgain`: `Spec => []TypeOK`,
  `Spec => []FoundUnlessScrubbed`, assuming `BelowAThousand`.
- `AnswersWhatWasAsked`: `Spec => []ReplaysWhatWasAsked`, assuming
  `BelowAThousand`, `TextsTell`
  (two statements that may get one normalised text ask the same), `TagsTell`
  (values of two types that are written under one tag, or as one native type, have
  different texts) and
  `NonePassesRedacted` (no test passes the very text `REDACTED`: such a query does
  find a recording whose parameter was redacted).
- `ParamsComeBack`: `Spec => []ParamsAreRestored`, assuming nothing more. It is about
  elements of native and built-in types; an instance of a subclass comes back as
  the class whose handler wrote it.
- `SecretsAreOut` and `OthersStay`: `Spec => []SecretsStayOut` and
  `Spec => []OthersAreKept`, assuming only that the set of JSON values considered is
  closed under redaction (`RedactedIsJson`).

`MCRecordedInteractions` asserts that the queries and suites of the run have all
that is assumed. Each of `TagsTell` and `NonePassesRedacted` is needed: with the
parameters `token = "a"` and `token = "REDACTED"` under a key `token`, or with a
`date` and an instance of a subclass of it of one text, TLC finds
`ReplaysWhatWasAsked` violated.

The inductive invariant `InteractionsInv` has three parts. `FilesInv`: the files
are, query by query, what `Record` makes of it under the suite, at the next index;
`ParamsAreRestored`, `SecretsStayOut` and `OthersAreKept` follow from this and from
the functions alone, whatever the number of files.
`QueueInv`: the queue is made of those files and in their order. `ServedInv`: a
replay got a recording whose key is its own (`AsStored`), of which the queue holds
no earlier one (`LaterOnesLeft`), whence those of a key go in order (`InOrder`);
and a recording is in the queue or has been served (`NothingLost`), without which
`FoundUnlessScrubbed` is not inductive.

A stored key leads back to what was asked since tag and text of a stored value
determine the value that was given, unless it was redacted (`SameParams`,
`NothingRedacted`); `OwnHandler` says that each built-in type has its handler as
the first that accepts it, for all that a `datetime` is a `date`.

`_redact_json` calls itself on the parts of a JSON value, and so does `Leaves`,
which says what a value contains. Both are recursive functions on the values
considered (`Trees`), and what a recursive function is has to be proved here: that
a function that satisfies the recursion exists for values less deep than n
(`SolutionBelow`), that two such agree (`OneSolution`), and therefore that each of
the two unfolds (`RedactUnfolds`, `LeavesUnfold`). The arguments about all values are by
the least depth of a counterexample (`TreeInduction`, stated for a set of trees).
With these, `SecretUnder` says where the secrets of a value lie among those of its
parts, and `RedactsByKey` that redaction overwrites these leaves and no others.

Only model-checked: liveness (`EveryCallReturns`), for which the prover has no
rule for fairness and `ENABLED`, and `KeptWhileNumbered`, of which
`RecordingsAreKept` proves the part without `"wipe"`. Every other property of a
passing run is a theorem. What is given rather than modelled, sqlglot's answers above all, enters
by the assumptions, which TLC evaluates on the constants of the runs.

## What is not modelled

Registration of options and of the marker, the command line over the ini file
for the record mode, the report header, the wording of errors, the exports, the
documentation scripts: none of them keeps a state or is read again. Two pytest
processes on one cassette: `write_lock` is a thread lock, and the documentation
promises nothing across processes.

Abstractions, and what they leave out:

- SQL texts in `ReplayCursors` stand for normalised ones, its parameters and
  tables for serialised ones; the other way from text to key is in
  `RecordedInteractions`. sqlglot itself is not modelled. The normaliser's cache
  is a function of the same arguments and left out.
- A connection is used in the test that opened it; session-scoped ones, whose
  states are released under them, are not modelled. A thread that outlives its
  test finishes `connect()` and asks nothing.
- In `CassettePaths` the slugs of a suite are distinct; two parameters such as
  `[1-2]` and `[1_2]` do collide in the code. File names come without `.py`.
- `wrap()`'s own `param_serialisers` replace the session's, and
  `RecordedInteractions` is given the outcome.
- File names of five digits, from interaction 10000 on.
- A tuple of parameters is a list, as which it comes back. Keys of a parameter dict are their text. A dict that has a key `__type__`
  itself, which reads back as something else, is not among the queries.
- An adbc_dialect line with several words is taken as one. An `adbc_scrubber`
  that answers with something other than redacted parameters is not modelled.

## Plan

1. *Proofs.* Every safety property that a run checks is a theorem; what is left is
   how far its assumptions can be weakened: `ImplementsTape` under failing writes,
   with a tape on which a call may end in an error.
2. *Together.* `PluginSession`'s query replaced by the actions of
   `ReplayCursors` for two tests on one named cassette, and an abstract
   specification of a test session that `PluginSession` implements.
3. *Wider.* Session-scoped connections; a plugin option for each worker of a
   parallel run, should the code come to support one.
