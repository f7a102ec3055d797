------------------------ MODULE RecordedInteractions ------------------------
(***************************************************************************)
(* What is in the files of a cassette: one connection records queries with *)
(* their parameters and results, scrubbed and under numbered names, and a  *)
(* later run loads the cassette and looks the same queries up.             *)
(*                                                                         *)
(* It composes the functions of Normalisation, Parameters, Scrubbing,      *)
(* Configuration and CassetteNames; ReplayCursors has the concurrency and  *)
(* the failures that are left out here.                                    *)
(***************************************************************************)
EXTENDS Integers, Normalisation, Parameters, Scrubbing, Configuration, CassetteNames

CONSTANTS
    Queries,        \* what tests ask and the driver answers: sql, params, table
    Meaning,        \* of a statement: what it asks, however it is laid out
    Suites,         \* configurations: driver, dialect, lines and fixtures
    FirstIndexes,   \* how many interactions of other queries it may hold already
    MaxQueries      \* bound: queries of the recording run, and of the replaying one

ASSUME InteractionsAssumption ==
    /\ FirstIndexes \subseteq Nat /\ MaxQueries \in Nat
    /\ \A n \in FirstIndexes : n + MaxQueries <= 10000   \* names of four digits
    /\ \A q \in Queries :
         /\ q.params \in [kind : {"none", "value", "list", "dict"},
                         items : [DOMAIN q.params.items -> [type : STRING, text : STRING]]]
         /\ q.table \in Seq(Columns)
    /\ \A s \in Suites : s.driver # NoDriver

VARIABLES
    suite,      \* the configuration
    first,      \* index of the first interaction recorded here
    files,      \* those recorded here: index, sql, params, table
    phase,      \* "recording" or "replaying"
    queue,      \* the interactions loaded, in order, less those replayed
    asked,      \* history: the queries recorded, in order
    served      \* history: for each replay, the query and its recording, or 0

vars == <<suite, first, files, phase, queue, asked, served>>

Registry == build_registry(suite.serialisers)

ParamKeys == ScrubKeys(suite.scrub_lines, suite.driver)

ResultKeys == ScrubKeys(suite.result_lines, suite.driver)

Init ==
    /\ suite \in Suites /\ first \in FirstIndexes
    /\ files = <<>> /\ phase = "recording" /\ queue = <<>>
    /\ asked = <<>> /\ served = <<>>

RecordedTable(q) == scrub_result_table(q.table, ResultKeys)

(* A mutation: the first index is 1.                                       *)
NextIndexTooHigh == first + Len(files) + 1

NextIndex == first + Len(files)

(* execute() in a record mode: _record_interaction.                        *)
Record(q) ==
    /\ phase = "recording" /\ Len(asked) < MaxQueries
    /\ Serialisable(q.params, Registry)
    /\ files' = Append(files,
         [index  |-> NextIndex,
          sql    |-> normalise_sql(q.sql, suite.dialect),
          params |-> apply_scrubbing(serialise_params(q.params, Registry),
                                     ParamKeys, suite.scrubber),
          table  |-> RecordedTable(q)])
    /\ asked' = Append(asked, q)
    /\ UNCHANGED <<suite, first, phase, queue, served>>

(* ... which raises a TypeError, before it asks the driver, for a value    *)
(* that nothing serialises.                                                *)
Refuse(q) ==
    /\ phase = "recording" /\ ~Serialisable(q.params, Registry)
    /\ UNCHANGED vars

(* The order in which the files are listed: by name.                       *)
Listing(fs) ==
    CHOOSE order \in Bijection(DOMAIN fs, DOMAIN fs) :
        \A k, l \in DOMAIN fs :
            k < l => LoadedBefore(fs[order[k]].index, fs[order[l]].index)

(* load_all_interactions, in a later run.                                  *)
Reload ==
    /\ phase = "recording" /\ files # <<>>
    /\ phase' = "replaying"
    /\ queue' = [k \in DOMAIN files |-> files[Listing(files)[k]]]
    /\ UNCHANGED <<suite, first, files, asked, served>>

(* execute() in a replay mode: _load_from_queue.  A recording is found by  *)
(* its statement and its parameters as they are stored.                    *)
Matches(q) ==
    {k \in DOMAIN queue :
       /\ queue[k].sql = normalise_sql(q.sql, suite.dialect)
       /\ queue[k].params = serialise_params(q.params, Registry)}

(* A mutation: only the front of the whole queue is looked at.             *)
FoundInFront(q) == Matches(q) \intersect {1}

(* Pop the first.                                                          *)
Found(q) == {k \in Matches(q) : \A l \in Matches(q) : k <= l}

Replay(q) ==
    /\ phase = "replaying" /\ Len(served) < MaxQueries
    /\ Serialisable(q.params, Registry)
    /\ IF Found(q) = {}
       THEN queue' = queue /\ served' = Append(served, [query |-> q, recording |-> 0])
       ELSE \E k \in Found(q) :
              /\ queue' = RemoveAt(queue, k)
              /\ served' = Append(served,
                   [query |-> q, recording |-> queue[k].index - first + 1])
    /\ UNCHANGED <<suite, first, files, phase, asked>>

Finished ==
    phase = "replaying" /\ Len(served) = MaxQueries /\ UNCHANGED vars

Next ==
    \/ \E q \in Queries : Record(q) \/ Refuse(q)
    \/ Reload
    \/ \E q \in Queries : Replay(q)
    \/ Finished

Spec == Init /\ [][Next]_vars
-----------------------------------------------------------------------------
(* What properties below need of the suites, of the values they use and of *)
(* what sqlglot answers.                                                   *)

(* The texts that can stand for a statement: renderings that are whole,    *)
(* and the statement itself.                                               *)
TextsOf(sql, dialect) ==
    LET tree == parse_one[<<sql, dialect>>]
    IN {collapsed[sql]} \union
         (IF tree = Unparsable THEN {}
          ELSE {text \in {rendering[<<tree, NoSqlDialect>>], rendering[<<tree, dialect>>]} :
                  Whole(tree, text)})

(* Statements with a text in common ask the same.                          *)
TextsTell ==
    \A q, r \in Queries : \A s \in Suites :
        TextsOf(q.sql, s.dialect) \intersect TextsOf(r.sql, s.dialect) # {}
          => Meaning[q.sql] = Meaning[r.sql]

Values == UNION {{q.params.items[k] : k \in DOMAIN q.params.items} : q \in Queries}

Natives == {v \in Values : IsNative(v)}

Custom(registry) == {v \in Values : ~IsNative(v) /\ Accepting(v, registry) # {}}

(* What is written under one tag, or as one native type, as one text was   *)
(* of one type.                                                            *)
TagsTell ==
    /\ \A v, w \in Natives :
          NativeClass(v) = NativeClass(w) /\ v.text = w.text => v.type = w.type
    /\ \A s \in Suites : LET registry == build_registry(s.serialisers) IN
          \A v, w \in Custom(registry) :
              /\ HandlerOf(v, registry).tag = HandlerOf(w, registry).tag
              /\ v.text = w.text
              => v.type = w.type

(* No test passes the text "REDACTED".                                     *)
NonePassesRedacted ==
    \A v \in Natives : [type |-> NativeClass(v), text |-> v.text] # REDACTED

(* Every index has three digits.                                           *)
BelowAThousand == \A n \in FirstIndexes : n + MaxQueries <= 1000

(* Redacted JSON is among the values that may occur.                       *)
RedactedIsJson ==
    \A s \in Suites : \A t \in Trees :
        _redact_json(t, ScrubKeys(s.result_lines, s.driver)) \in Trees
-----------------------------------------------------------------------------
TypeOK ==
    /\ suite \in Suites /\ first \in FirstIndexes
    /\ phase \in {"recording", "replaying"}
    /\ Len(files) = Len(asked)
    /\ \A i \in DOMAIN files : files[i].index \in first .. first + MaxQueries - 1
    /\ \A i \in DOMAIN served : served[i].recording \in 0 .. Len(files)

(* The ways into a tree, with what is found at the end of each.            *)
Under(kind, key, leaves) ==
    {[path |-> <<[kind |-> kind, key |-> key]>> \o l.path, value |-> l.value] : l \in leaves}

Leaves(tree) ==
    LET leaves[t \in Trees] ==
          IF DOMAIN t.parts = {} THEN {[path |-> <<>>, value |-> t]}
          ELSE UNION {Under(t.kind, k, leaves[t.parts[k]]) : k \in DOMAIN t.parts}
    IN leaves[tree]

(* Keys are object keys: the positions in an array match nothing.          *)
Secret(path, keys) ==
    \E i \in DOMAIN path : path[i].kind = "object" /\ path[i].key \in keys

(* The keys that lines name for all drivers or for the suite's.            *)
NamedIn(lines) ==
    UNION {ToSet(line.words) : line \in
             {l \in ToSet(lines) : l.colon => l.driver = suite.driver}}

(* No value that an ini key names for this driver, or that the callback    *)
(* redacts, is read from what is on disk, at whatever depth of a JSON      *)
(* cell.                                                                   *)
SecretsStayOut ==
    \A i \in DOMAIN files :
      /\ LET p == files[i].params
             named == NamedIn(suite.scrub_lines) \union (IF suite.scrubber.answers THEN suite.scrubber.redacts ELSE {})
         IN p.kind = "dict" => \A k \in DOMAIN p.items \intersect named : p.items[k] = REDACTED
      /\ \A c \in DOMAIN files[i].table :
           LET column == files[i].table[c]
               secret == NamedIn(suite.result_lines)
           IN column.strings => \A r \in DOMAIN column.cells :
                LET cell == column.cells[r]
                IN /\ column.name \in secret => cell \in {Null, Text("REDACTED")}
                   /\ cell.kind = "json" => \A l \in Leaves(loads[cell.json]) :
                        Secret(l.path, secret) => l.value = RedactedLeaf

(* The cassette is loaded in the order in which it was recorded, though    *)
(* its files are listed by name.  (From the thousandth on it is not.)      *)
LoadedInIndexOrder ==
    \A k, l \in DOMAIN queue : k < l => queue[k].index < queue[l].index

(* What no key names is kept, other drivers' keys or not: of a JSON cell   *)
(* every leaf that json.loads reads in it, at its place, and of a cell in  *)
(* which it reads no secret the very text, with what json.loads does not   *)
(* read.                                                                   *)
OthersAreKept ==
    \A i \in DOMAIN files : \A c \in DOMAIN files[i].table :
        LET before == asked[i].table[c]
            after  == files[i].table[c]
        IN \A r \in DOMAIN before.cells :
             LET secret == NamedIn(suite.result_lines)
                 open(cell) == {l \in Leaves(loads[cell.json]) : ~Secret(l.path, secret)}
                 cell == before.cells[r]
             IN ~(before.strings /\ before.name \in secret) =>
                  IF cell.kind # "json" \/ ~before.strings THEN after.cells[r] = cell
                  ELSE /\ after.cells[r].kind = "json"
                       /\ open(after.cells[r]) = open(cell)
                       /\ open(cell) = Leaves(loads[cell.json]) => after.cells[r] = cell

(* A replay answers with a recording of a query that asked the same, with  *)
(* the same parameters, and recordings of one query are replayed in the    *)
(* order in which they were made.                                          *)
ReplaysWhatWasAsked ==
    /\ \A i \in DOMAIN served : served[i].recording # 0 =>
         LET n == served[i].recording
         IN /\ Meaning[asked[n].sql] = Meaning[served[i].query.sql]
            /\ asked[n].params = served[i].query.params
    /\ \A i, j \in DOMAIN served :
         i < j /\ served[i].query = served[j].query /\ served[j].recording # 0
           => served[i].recording < served[j].recording

(* A query that was recorded with parameters in which nothing is redacted  *)
(* is found, unless its recordings are used up.                            *)
FoundUnlessScrubbed ==
    \A i \in DOMAIN served : served[i].recording = 0 =>
        \A n \in DOMAIN asked :
            asked[n] = served[i].query =>
              \/ files[n].params # serialise_params(asked[n].params, Registry)
              \/ \E j \in 1 .. i : served[j].recording = n

(* A stored parameter of a native or built-in type that is not redacted is *)
(* read back as the value it was, of its very type, where the suite has no *)
(* handlers of its own.  (An instance of a subclass comes back as one of   *)
(* the class that wrote it.)                                               *)
ParamsAreRestored ==
    \A i \in DOMAIN files : ~suite.serialisers.given =>
        \A k \in DOMAIN asked[i].params.items :
            LET v == asked[i].params.items[k]
            IN /\ v.type \in NativeTypes \union Classes(_BUILTIN_SERIALISERS)
               /\ files[i].params.items[k] = _serialise_value(v, Registry)
               => deserialise_params(files[i].params).items[k] = v

(* The suite's handler for a class writes the values of that class.  (The  *)
(* code does not keep this for a subclass: see the run that violates it.)  *)
RegisteredIsUsed ==
    \A i \in DOMAIN files : \A k \in DOMAIN asked[i].params.items :
        LET v == asked[i].params.items[k]
            registered == {h \in ToSet(suite.serialisers.handlers) : h.class = v.type}
        IN registered # {} /\ files[i].params.kind # "dict" =>
             files[i].params.items[k].tag \in {h.tag : h \in registered}
=============================================================================
