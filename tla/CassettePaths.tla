--------------------------- MODULE CassettePaths ----------------------------
(***************************************************************************)
(* Which cassette a connection gets (_cassette_path.py; wrap() and         *)
(* wrap_from_item() of _session.py; the argument names that a patched      *)
(* connect() recovers), and what becomes of the cassettes of a suite when  *)
(* one lies inside another.                                                *)
(*                                                                         *)
(* A path is the sequence of its segments below the cassette directory.    *)
(* Connections are used in the test that opens them; a query is one step.  *)
(***************************************************************************)
EXTENDS Integers, Configuration

CONSTANTS
    Tests, NoTest,
    ModulePath,     \* of a test: its file's segments, the last without .py
    NodeNames,      \* of a test: its class and its function, params included
    Marker,         \* its adbc_cassette marker: present, name, dialect
    Slug,           \* _slugify, of the names that occur
    Stem,           \* Path(value).stem, of the values that occur
    Signature,      \* of a driver's connect(): the parameters it can take by position
    Inspectable,    \* the drivers for which inspect.signature() knows them
    DialectLines, KeyLines,   \* the ini file's adbc_dialect and
                              \* adbc_cassette_differentiator_keys
    Calls,          \* the calls that the tests of the suite make
    Modes,
    MaxRuns,        \* bound: test runs
    MaxConnections, \* bound: connections of one test run
    MaxQueries      \* bound: queries of one test run

(* A marker without a name, one that says nothing of the dialect.          *)
NoName == <<>>
Unsaid == "unsaid"

(* Keys of a call: style, test, driver, positional, keywords; and for      *)
(* wrap(): request, name, dialect, and whether it overrides the            *)
(* differentiator keys (with none, maybe) and with which keys.             *)
Styles == {"patched", "adbc_connect", "wrap"}

ASSUME PathsAssumption ==
    /\ NoTest \notin Tests
    /\ \A t \in Tests : Marker[t].present \in BOOLEAN
    /\ \A c \in Calls : c.style \in Styles /\ c.test \in Tests
    /\ \A c \in Calls : c.request \in BOOLEAN /\ c.overrides \in BOOLEAN
    /\ \A c \in Calls : c.style # "patched" => c.positional = <<>>
    /\ Modes \subseteq {"once", "all"}
    /\ MaxRuns \in Nat /\ MaxConnections \in Nat /\ MaxQueries \in Nat

(* Names are strings, and paths and argument lists are sequences.          *)
ASSUME NamesAssumption ==
    /\ Slug \in [DOMAIN Slug -> STRING] /\ Stem \in [DOMAIN Stem -> STRING]
    /\ \A t \in Tests : /\ {ModulePath[t], NodeNames[t]} \subseteq Seq(DOMAIN Slug)
                        /\ Marker[t].name \in Seq(STRING)
    /\ \A d \in Inspectable : Signature[d] \in Seq(STRING)
    /\ DifferentiatorKeys(KeyLines) \in Seq(STRING)
    /\ \A c \in Calls :
         /\ c.driver \in STRING /\ c.name \in Seq(STRING) /\ c.keys \in Seq(STRING)
         /\ c.positional \in Seq(DOMAIN Stem)
         /\ c.keywords \in [DOMAIN c.keywords -> DOMAIN Stem]
-----------------------------------------------------------------------------
Slugged(names) == [i \in DOMAIN names |-> Slug[names[i]]]

WithoutTests(module) ==
    IF Len(module) > 1 /\ Head(module) = "tests" THEN Tail(module) ELSE module

(* node_id_to_cassette_path, up to the driver.                             *)
NodePath(t) == Slugged(WithoutTests(ModulePath[t])) \o Slugged(NodeNames[t])

(* A mutation: positional arguments have no name.                          *)
NeverBinds(c) == FALSE

(* A patched connect() binds the positional arguments if it can ...        *)
Binds(c) == c.driver \in Inspectable /\ Len(c.positional) <= Len(Signature[c.driver])

(* ... and keywords win.                                                   *)
Arguments(c) ==
    LET bound == IF Binds(c) THEN DOMAIN c.positional ELSE {}
        named == {Signature[c.driver][i] : i \in bound}
    IN [k \in named \union DOMAIN c.keywords |->
          IF k \in DOMAIN c.keywords THEN c.keywords[k]
          ELSE c.positional[CHOOSE i \in bound : Signature[c.driver][i] = k]]

(* The n-th of a set of positions.                                         *)
Nth(n, positions) == CHOOSE i \in positions : Cardinality({j \in positions : j <= i}) = n

(* _extract_differentiator_segments: of the keys that are given.           *)
Segments(arguments, keys) ==
    LET present == {i \in DOMAIN keys : keys[i] \in DOMAIN arguments}
    IN [n \in 1 .. Cardinality(present) |-> Stem[arguments[keys[Nth(n, present)]]]]

DefaultKeys == DifferentiatorKeys(KeyLines)

NamedByMarker(t) == Marker[t].present /\ Marker[t].name # NoName

TestPath(t) == IF NamedByMarker(t) THEN Marker[t].name ELSE NodePath(t)

(* A mutation: no subdirectory for the driver.                             *)
ItemPathWithoutDriver(c) == TestPath(c.test) \o Segments(Arguments(c), DefaultKeys)

(* wrap_from_item, for a patched connect() and adbc_connect.               *)
ItemPath(c) == TestPath(c.test) \o <<c.driver>> \o Segments(Arguments(c), DefaultKeys)

(* wrap(), with a request or without: the directory that a name gives ...  *)
WrapDirectory(c) ==
    IF c.request /\ NamedByMarker(c.test) THEN Marker[c.test].name
    ELSE IF c.name # NoName THEN c.name
    ELSE IF c.request THEN NodePath(c.test)
    ELSE <<"unknown">>

(* ... and the cassette below it, with no segment for the driver.          *)
WrapPath(c) ==
    WrapDirectory(c) \o Segments(c.keywords, IF c.overrides THEN c.keys ELSE DefaultKeys)

CassettePath(c) == IF c.style = "wrap" THEN WrapPath(c) ELSE ItemPath(c)

DialectByMarker(t) == Marker[t].present /\ Marker[t].dialect # Unsaid

(* wrap(): marker, if it sees one, then argument, then ini file.           *)
WrapDialect(c) ==
    IF c.request /\ DialectByMarker(c.test) THEN Marker[c.test].dialect
    ELSE IF c.dialect # NoDialect THEN c.dialect
    ELSE ConfiguredDialect(DialectLines, c.driver)

(* wrap_from_item: marker, then ini file.                                  *)
ItemDialect(c) ==
    IF DialectByMarker(c.test) THEN Marker[c.test].dialect
    ELSE ConfiguredDialect(DialectLines, c.driver)

Dialect(c) == IF c.style = "wrap" THEN WrapDialect(c) ELSE ItemDialect(c)

(* A directory lies in another, or is it.                                  *)
Within(inner, outer) ==
    Len(outer) <= Len(inner) /\ SubSeq(inner, 1, Len(outer)) = outer
-----------------------------------------------------------------------------
VARIABLES
    mode,
    run, running,       \* how many tests have been started; the one that runs
    cassette_states,    \* of ReplaySession: keys and the states they lead to
    states,             \* the CassetteStates made in this run: a sequence
    connections,        \* its connections: a sequence
    files,              \* the interactions on disk, each in a cassette
    queries, recorded   \* history: of this run, how many, and those it recorded

vars == <<mode, run, running, cassette_states, states, connections, files,
          queries, recorded>>

Init ==
    /\ mode \in Modes
    /\ run = 0 /\ running = NoTest
    /\ cassette_states = {} /\ states = <<>> /\ connections = <<>>
    /\ files = {}
    /\ queries = 0 /\ recorded = {}

StartTest(t) ==
    /\ running = NoTest /\ run < MaxRuns
    /\ run' = run + 1 /\ running' = t
    /\ queries' = 0 /\ recorded' = {}
    /\ UNCHANGED <<mode, cassette_states, states, connections, files>>

(* A mutation: nothing is released.                                        *)
NothingReleased(t) == cassette_states

KeysAfterRelease(t) == {k \in cassette_states : k.test # t}

(* release_test; its connections are gone with it.                         *)
EndTest ==
    /\ running # NoTest
    /\ running' = NoTest
    /\ cassette_states' = KeysAfterRelease(running)
    /\ states' = <<>> /\ connections' = <<>>
    /\ UNCHANGED <<mode, run, files, queries, recorded>>

(* A patched connect() is the driver's own where the test has no marker.   *)
Intercepts(c) == c.style = "patched" => Marker[c.test].present

(* No node ID, no key.                                                     *)
KeepsState(c) == c.style = "wrap" => c.request

(* A mutation: each connection gets a state of its own.                    *)
NothingKnown(c) == {}

Known(c) ==
    {k \in cassette_states : KeepsState(c) /\ k.test = c.test /\ k.path = CassettePath(c)}

Open(c) ==
    /\ running = c.test /\ Intercepts(c) /\ Len(connections) < MaxConnections
    /\ LET new == Known(c) = {}
           id  == IF new THEN Len(states) + 1 ELSE (CHOOSE k \in Known(c) : TRUE).state
       IN /\ states' = IF new THEN Append(states, [wiped |-> FALSE, once_replay |-> "undecided"])
                       ELSE states
          /\ cassette_states' =
               IF new /\ KeepsState(c)
               THEN cassette_states \union
                      {[test |-> c.test, path |-> CassettePath(c), state |-> id]}
               ELSE cassette_states
          /\ connections' = Append(connections,
               [call |-> c, path |-> CassettePath(c), dialect |-> Dialect(c), state |-> id])
    /\ UNCHANGED <<mode, run, running, files, queries, recorded>>

In(path) == {f \in files : f.path = path}

(* A mutation: the directory above is deleted.                             *)
WipedFromAbove(k) ==
    IF mode = "all" /\ ~states[connections[k].state].wiped
    THEN {f \in files : Within(f.path, Front(connections[k].path))}
    ELSE {}

(* shutil.rmtree.                                                          *)
Wiped(k) ==
    IF mode = "all" /\ ~states[connections[k].state].wiped
    THEN {f \in files : Within(f.path, connections[k].path)}
    ELSE {}

Decision(k) ==
    IF mode = "once" /\ states[connections[k].state].once_replay = "undecided"
    THEN IF In(connections[k].path) # {} THEN "replay" ELSE "record"
    ELSE states[connections[k].state].once_replay

Query(k) ==
    /\ queries < MaxQueries
    /\ queries' = queries + 1
    /\ states' = [states EXCEPT ![connections[k].state] =
                    [wiped |-> mode = "all", once_replay |-> Decision(k)]]
    /\ IF Decision(k) = "replay"
       THEN UNCHANGED <<files, recorded>>
       ELSE LET path == connections[k].path
                new  == [path |-> path, index |-> Cardinality(In(path) \ Wiped(k)),
                         run |-> run, call |-> connections[k].call]
            IN /\ files' = (files \ Wiped(k)) \union {new}
               /\ recorded' = recorded \union {new}
    /\ UNCHANGED <<mode, run, running, cassette_states, connections>>

Finished == running = NoTest /\ run = MaxRuns /\ UNCHANGED vars

Next ==
    \/ \E t \in Tests : StartTest(t)
    \/ EndTest
    \/ \E c \in Calls : Open(c)
    \/ \E k \in DOMAIN connections : Query(k)
    \/ Finished

Spec == Init /\ [][Next]_vars
-----------------------------------------------------------------------------
(* The arguments as the driver gets them.                                  *)
Given(c) ==
    [k \in {Signature[c.driver][i] : i \in DOMAIN c.positional} \union DOMAIN c.keywords |->
       IF k \in DOMAIN c.keywords THEN c.keywords[k]
       ELSE c.positional[CHOOSE i \in DOMAIN c.positional : Signature[c.driver][i] = k]]

(* The differentiators among them.                                         *)
KeysGiven(c) == DOMAIN Given(c) \intersect ToSet(DefaultKeys)

(* What tells two databases apart: the driver and what the differentiators *)
(* are given.                                                              *)
Database(c) == <<c.driver, [k \in KeysGiven(c) |-> Given(c)[k]]>>

(* The differentiators that the code can see, and what is left of them in  *)
(* a path: the stems of their values.                                      *)
KeysSeen(c) == DOMAIN Arguments(c) \intersect ToSet(DefaultKeys)

StemsSeen(c) == [k \in KeysSeen(c) |-> Stem[Arguments(c)[k]]]

(* The tests that share cassettes: those whose markers name the same.      *)
Owner(c) == IF NamedByMarker(c.test) THEN <<"named", Marker[c.test].name>>
                                     ELSE <<"test", <<c.test>> >>

(* What the properties below ask of a suite, where the code leaves it to   *)
(* the suite.  Calls that a patched connect() lets through do not count.   *)
Connecting(calls) == {c \in calls : Intercepts(c)}

(* The directory that a call's test or name stands for.                    *)
Directory(c) == IF c.style = "wrap" THEN WrapDirectory(c) ELSE TestPath(c.test)

Nested(p, q) == Within(p, q) \/ Within(q, p)

(* Arguments by position are given only to drivers that can be inspected.  *)
PositionsHaveNames(calls) ==
    \A c \in Connecting(calls) : c.positional # <<>> =>
        c.driver \in Inspectable /\ Len(c.positional) <= Len(Signature[c.driver])

(* Tests with directories inside one another share them by name.           *)
OwnersApart(calls) ==
    \A c, d \in Connecting(calls) : Nested(Directory(c), Directory(d)) => Owner(c) = Owner(d)

(* Whoever shares cassettes gives a driver the same differentiators.       *)
SameKeysGiven(calls) ==
    \A c, d \in Connecting(calls) :
        c.style # "wrap" /\ d.style # "wrap" /\ Owner(c) = Owner(d) /\ c.driver = d.driver
        => KeysGiven(c) = KeysGiven(d)

(* A wrap() shares its directory only with calls for its own cassette, and *)
(* all of them have a request, or none.                                    *)
WrapsApart(calls) ==
    \A c, d \in Connecting(calls) : c.style = "wrap" /\ Nested(Directory(c), Directory(d)) =>
        CassettePath(c) = CassettePath(d) /\ KeepsState(c) = KeepsState(d)
-----------------------------------------------------------------------------
TypeOK ==
    /\ mode \in Modes
    /\ run \in 0 .. MaxRuns /\ running \in Tests \union {NoTest}
    /\ states \in Seq([wiped : BOOLEAN, once_replay : {"undecided", "replay", "record"}])
    /\ \A k \in cassette_states : k.test = running /\ k.state \in DOMAIN states
    /\ \A k \in DOMAIN connections :
         /\ connections[k].call \in Calls
         /\ connections[k].path = CassettePath(connections[k].call)
         /\ connections[k].state \in DOMAIN states
    /\ \A f \in files : f.call \in Calls /\ f.run \in 1 .. run /\ f.index \in Nat
    /\ queries \in 0 .. MaxQueries

(* What a test has recorded is there until the test ends, whichever of its *)
(* connections queries next: no wipe takes it along.  (wrap() without a    *)
(* request keeps a state for each connection, and its recordings do go.)   *)
RecordedStays == running # NoTest => {f \in recorded : KeepsState(f.call)} \subseteq files

(* Recordings of a test, or of tests that name one cassette, that patched  *)
(* connects and adbc_connect make for the same differentiator keys are in  *)
(* one cassette if, and only if, they are of one driver and the values of  *)
(* these keys have the same stems: a database is kept apart from another   *)
(* as far as stems go, and no further.  (Values as different as            *)
(* /opt/lib/pg.so and /usr/lib/pg.so do share a cassette.)                 *)
StoredSeparately ==
    \A f, g \in files :
        LET c == f.call
            d == g.call
        IN c.style # "wrap" /\ d.style # "wrap" /\ Owner(c) = Owner(d) /\ KeysSeen(c) = KeysSeen(d)
           => (f.path = g.path <=> c.driver = d.driver /\ StemsSeen(c) = StemsSeen(d))

(* Connections that a test makes for two driver modules record and replay  *)
(* independently, as the documentation of wrap() has it: what they record  *)
(* is not in one cassette.                                                 *)
DriversApart ==
    \A f, g \in files :
        f.call.test = g.call.test /\ f.path = g.path => f.call.driver = g.call.driver

(* Two connections of a test to one database share one cassette and one    *)
(* state, whether an argument comes by position or by name, through a      *)
(* patched connect() or through adbc_connect.                              *)
HoweverPassed ==
    \A j, k \in DOMAIN connections :
        LET c == connections[j].call
            d == connections[k].call
        IN /\ c.style # "wrap" /\ d.style # "wrap" /\ Database(c) = Database(d)
           => /\ connections[j].path = connections[k].path
              /\ connections[j].state = connections[k].state

(* Patched connects and adbc_connect of a test that share a cassette       *)
(* normalise statements with one dialect, although the dialect is found by *)
(* driver and the cassette by path: what one of them records under a key   *)
(* another looks up under the same key.                                    *)
OneDialectPerCassette ==
    \A j, k \in DOMAIN connections :
        LET c == connections[j]
            d == connections[k]
        IN c.call.style # "wrap" /\ d.call.style # "wrap" /\ c.path = d.path
           => c.dialect = d.dialect

(* A dialect that a call names is the one that its connection uses, as the *)
(* documentation ranks it above the marker's and the ini file's.           *)
ExplicitDialectWins ==
    \A k \in DOMAIN connections :
        connections[k].call.dialect # NoDialect =>
            connections[k].dialect = connections[k].call.dialect

(* A test deletes no recordings but its own and those of tests whose       *)
(* markers name the same cassette.                                         *)
WipesOwnOnly ==
    [][\A f \in files \ files' : Owner(f.call) = Owner([test |-> running])]_vars
=============================================================================
