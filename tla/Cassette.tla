------------------------------ MODULE Cassette ------------------------------
(***************************************************************************)
(* The cassette directory of pytest-adbc-replay and the functions of       *)
(* _cassette_io.py that read it.  An interaction with index i is a triple  *)
(* of files, NNN_query.sql, NNN_result.arrow and NNN_params.json; a slot   *)
(* below is that triple, any file of which may be absent, and the last two *)
(* of which may be there but unreadable (a write that was cut short).      *)
(* The SQL text, the JSON of the parameters and the Arrow table are model  *)
(* values: only their equality matters to replay.                          *)
(***************************************************************************)
EXTENDS Integers, FiniteSets

CONSTANTS
    Sqls,             \* normalised SQL texts
    Params,           \* serialised parameters
    NullParams,       \* the JSON null: no parameters
    Tables,           \* result tables
    ScrubParams,      \* what adbc_scrub_keys and adbc_scrubber make of Params
    ScrubTable,       \* what adbc_scrub_result_keys makes of Tables
    NoFile,           \* the file does not exist
    Torn,             \* the file exists and cannot be read
    MaxInteractions   \* bound: the most interactions a cassette may hold

ASSUME CassetteAssumption ==
    /\ NullParams \in Params
    /\ ScrubParams \in [Params -> Params]
    /\ ScrubParams[NullParams] = NullParams
    /\ ScrubTable \in [Tables -> Tables]
    /\ NoFile # Torn
    /\ {NoFile, Torn} \intersect (Sqls \union Params \union Tables) = {}
    /\ MaxInteractions \in 0 .. 1000

(* The key of an interaction: canonical SQL and serialised parameters.     *)
Queries == [sql : Sqls, params : Params]

(* The key an execute() leaves on disk: its parameters scrubbed.           *)
ScrubbedQuery(q) == [q EXCEPT !.params = ScrubParams[q.params]]

Slots == 0 .. (MaxInteractions - 1)

Interactions == [sql    : Sqls \union {NoFile},
                 arrow  : Tables \union {NoFile, Torn},
                 params : Params \union {NoFile, Torn}]

NoInteraction == [sql |-> NoFile, arrow |-> NoFile, params |-> NoFile]

EmptyCassette == [i \in Slots |-> NoInteraction]

(* The *_query.sql files, and only they, tell which interactions exist.    *)
SqlFiles(cassette) == {i \in Slots : cassette[i].sql # NoFile}

count_interactions(cassette) == Cardinality(SqlFiles(cassette))

cassette_has_interactions(cassette) == SqlFiles(cassette) # {}

(* load_all_interactions raises at the first .sql file whose .arrow is     *)
(* missing or unreadable, or whose .json is there but unreadable.          *)
Loadable(cassette) ==
    \A i \in SqlFiles(cassette) : /\ cassette[i].arrow \in Tables
                                  /\ cassette[i].params # Torn

(* An absent params file reads as no parameters.                           *)
KeyOf(interaction) ==
    [sql    |-> interaction.sql,
     params |-> IF interaction.params = NoFile THEN NullParams
                                               ELSE interaction.params]

Entries == [idx : Slots, query : Queries, table : Tables]

load_all_interactions(cassette) ==
    {[idx   |-> i,
      query |-> KeyOf(cassette[i]),
      table |-> cassette[i].arrow] : i \in SqlFiles(cassette)}

(* A mutation: the queue is popped at the wrong end.                       *)
IsBack(e, queue, q) ==
    /\ e \in queue
    /\ e.query = q
    /\ \A f \in queue : f.query = q => e.idx >= f.idx

(* The oldest of some entries with a given key: the front of the deque     *)
(* that key has in a replay queue.  Entries are loaded in the order of     *)
(* their indexes, as MaxInteractions allows (LoadOrderIsIndexOrder).       *)
IsFront(e, queue, q) ==
    /\ e \in queue
    /\ e.query = q
    /\ \A f \in queue : f.query = q => e.idx <= f.idx
=============================================================================
