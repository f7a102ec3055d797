----------------------------- MODULE ReplayTape -----------------------------
(***************************************************************************)
(* What the record modes promise a test, without locks, queues or files:   *)
(* the cassette is a tape, a sequence of recordings.  A run of the test    *)
(* may play the part of the tape that was there when it began, each        *)
(* recording once and those of one query in order; what it records goes to *)
(* the end.  Every call is answered in one step.                           *)
(***************************************************************************)
EXTENDS Integers, Sequences

CONSTANTS
    Callers,              \* who calls: the cursors of the test
    Queries, Tables,
    ScrubQuery(_),        \* the query a recording is stored under
    ScrubTable,           \* the table a recording stores
    Modes, NoMode, NoCall, NoResult

VARIABLES
    tape,       \* the recordings: a sequence of [query, table]
    mode,       \* the run's record mode, or NoMode between runs
    base,       \* how much of the tape this run may play
    played,     \* the positions it has played
    erased,     \* 'all': the old tape is gone
    asked,      \* each caller's last call
    verdict,    \* how it ended; "none" while it has no answer
    result      \* the table each caller's last execute() left to fetch

vars == <<tape, mode, base, played, erased, asked, verdict, result>>

Recordings == [query : Queries, table : Tables]
Calls == [op : {"execute", "schema"}, query : Queries]

Init ==
    /\ tape = <<>>
    /\ mode = NoMode
    /\ base = 0
    /\ played = {}
    /\ erased = FALSE
    /\ asked = [c \in Callers |-> NoCall]
    /\ verdict = [c \in Callers |-> "none"]
    /\ result = [c \in Callers |-> NoResult]

Waiting(c, op) ==
    asked[c] # NoCall /\ verdict[c] = "none" /\ asked[c].op = op

(* The recordings of c's query that this run has not played.               *)
Unplayed(c) == {i \in (1 .. base) \ played : tape[i].query = asked[c].query}

StartRun(m) ==
    /\ mode = NoMode
    /\ mode' = m
    /\ base' = Len(tape)
    /\ UNCHANGED <<tape, played, erased, asked, verdict, result>>

EndRun ==
    /\ mode # NoMode
    /\ \A c \in Callers : ~Waiting(c, "execute") /\ ~Waiting(c, "schema")
    /\ mode' = NoMode
    /\ base' = 0
    /\ played' = {}
    /\ erased' = FALSE
    /\ asked' = [c \in Callers |-> NoCall]
    /\ verdict' = [c \in Callers |-> "none"]
    /\ result' = [c \in Callers |-> NoResult]
    /\ UNCHANGED tape

Ask(c, call) ==
    /\ mode # NoMode
    /\ ~Waiting(c, "execute") /\ ~Waiting(c, "schema")
    /\ asked' = [asked EXCEPT ![c] = call]
    /\ verdict' = [verdict EXCEPT ![c] = "none"]
    /\ result' = IF call.op = "execute" THEN [result EXCEPT ![c] = NoResult] ELSE result
    /\ UNCHANGED <<tape, mode, base, played, erased>>

(* 'all' starts over, once, before anything is recorded.                   *)
Erase ==
    /\ mode = "all" /\ ~erased
    /\ \E c \in Callers : Waiting(c, "execute")
    /\ tape' = <<>>
    /\ base' = 0
    /\ erased' = TRUE
    /\ UNCHANGED <<mode, played, asked, verdict, result>>

Answer(c, recording) ==
    /\ verdict' = [verdict EXCEPT ![c] = "ok"]
    /\ result' = [result EXCEPT ![c] = [query |-> asked[c].query,
                                        table |-> recording.table]]
    /\ UNCHANGED <<mode, base, erased, asked>>

(* A run that was to replay plays the oldest recording not yet played.     *)
Play(c) ==
    /\ Waiting(c, "execute") /\ mode # "all"
    /\ \E i \in Unplayed(c) :
         /\ \A j \in Unplayed(c) : i <= j
         /\ played' = played \union {i}
         /\ Answer(c, tape[i])
    /\ UNCHANGED tape

(* Only a run that may record, and has nothing left to play, records.      *)
Record(c, t) ==
    /\ Waiting(c, "execute")
    /\ \/ mode = "all" /\ erased
       \/ mode = "once" /\ base = 0
       \/ mode = "new_episodes" /\ Unplayed(c) = {}
    /\ LET new == [query |-> ScrubQuery(asked[c].query), table |-> ScrubTable[t]] IN
         tape' = Append(tape, new) /\ Answer(c, new)
    /\ UNCHANGED played

(* Without an answer: the query has no recording left, or the driver,      *)
(* which only a recording run asks, fails.                                 *)
NoAnswer(c, how) ==
    /\ verdict' = [verdict EXCEPT ![c] = how]
    /\ UNCHANGED <<tape, mode, base, played, erased, asked, result>>

Miss(c) ==
    /\ Waiting(c, "execute") /\ Unplayed(c) = {}
    /\ mode = "none" \/ (mode = "once" /\ base > 0)
    /\ NoAnswer(c, "miss")

Fail(c) ==
    /\ Waiting(c, "execute")
    /\ mode \in {"all", "new_episodes"} \/ (mode = "once" /\ base = 0)
    /\ NoAnswer(c, "error")

(* The schema of a query is known as long as the query is on the tape.     *)
Describe(c) ==
    /\ Waiting(c, "schema") /\ mode = "none"
    /\ NoAnswer(c, IF \E i \in 1 .. base : tape[i].query = asked[c].query
                   THEN "schema" ELSE "miss")

Next ==
    \/ \E m \in Modes : StartRun(m)
    \/ EndRun
    \/ Erase
    \/ \E c \in Callers :
         \/ \E call \in Calls : Ask(c, call)
         \/ Play(c) \/ Miss(c) \/ Fail(c) \/ Describe(c)
         \/ \E t \in Tables : Record(c, t)

Spec == Init /\ [][Next]_vars
=============================================================================
