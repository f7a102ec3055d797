--------------------------- MODULE CursorSurface ----------------------------
(***************************************************************************)
(* One ReplayCursor seen from the test: execute(), the fetch methods over  *)
(* the result it left, close(), and the methods that only delegate.  How   *)
(* execute() comes by its result is ReplayCursors' matter; here it         *)
(* succeeds with some rows or fails.  A result is known by the number of   *)
(* the execute() that made it, a row by its result and its place in it.    *)
(***************************************************************************)
EXTENDS Integers, Sequences

CONSTANTS
    Modes,            \* the record modes the cursor may be in
    MaxRows,          \* bound: rows of a result
    Sizes,            \* sizes given to fetchmany() and arraysize
    MaxExecutions,    \* bound: calls of execute()
    MaxFetches        \* bound: fetches that answer, of one result

ASSUME SurfaceAssumption ==
    /\ Modes \subseteq {"none", "once", "new_episodes", "all"}
    /\ MaxRows \in Nat /\ MaxExecutions \in Nat /\ MaxFetches \in Nat
    /\ Sizes \subseteq Int

VARIABLES
    mode,
    executed,
    pending,
    fetch_offset,
    arrow_consumed,
    result_consumed,
    arraysize,
    answer,           \* what the last call came to
    executions,       \* history: calls of execute() so far
    handed,           \* history: rows handed out one by one since execute()
    fetches           \* history: the fetches that have answered since

result  == <<executed, pending, fetch_offset, arrow_consumed, result_consumed>>
history == <<executions, handed, fetches>>
vars == <<mode, result, arraysize, answer, history>>

(* pa.table({}): no rows and no columns.                                   *)
EmptyTable == [of |-> 0, rows |-> 0]

Row(n) == [of |-> pending.of, at |-> n]

Rows(from, count) == [n \in 1 .. count |-> Row(from + n)]

Ok == [kind |-> "ok", rows |-> <<>>]
Raised == [kind |-> "raised", rows |-> <<>>]
End == [kind |-> "end", rows |-> <<>>]
Got(rows) == [kind |-> "rows", rows |-> rows]

Init ==
    /\ mode \in Modes
    /\ executed = FALSE
    /\ pending = EmptyTable
    /\ fetch_offset = 0
    /\ arrow_consumed = FALSE
    /\ result_consumed = FALSE
    /\ arraysize = 1
    /\ answer = Ok
    /\ executions = 0
    /\ handed = <<>>
    /\ fetches = <<>>
-----------------------------------------------------------------------------
(* A mutation: execute() does not go back to the first row.                *)
OffsetKept == fetch_offset

OffsetAfterExecute == 0

(* A mutation: a failing execute() leaves the cursor as it was.            *)
ExecutedBefore == executed

ExecutedAfterFailure == FALSE

Execute ==
    /\ executions < MaxExecutions
    /\ executions' = executions + 1
    /\ fetch_offset' = OffsetAfterExecute
    /\ arrow_consumed' = FALSE
    /\ result_consumed' = FALSE
    /\ handed' = <<>>
    /\ fetches' = <<>>
    /\ UNCHANGED <<mode, arraysize>>

ExecuteSucceeds(rows) ==
    /\ Execute
    /\ executed' = TRUE
    /\ pending' = [of |-> executions + 1, rows |-> rows]
    /\ answer' = Ok

(* A miss, an error of the driver, a write that fails.                     *)
ExecuteFails ==
    /\ Execute
    /\ executed' = ExecutedAfterFailure
    /\ pending' = EmptyTable
    /\ answer' = Raised
-----------------------------------------------------------------------------
(* _require_executed.                                                      *)
FetchBeforeExecute ==
    /\ ~executed
    /\ answer' = Raised
    /\ UNCHANGED <<mode, result, arraysize, history>>

MayFetch == executed /\ Len(fetches) < MaxFetches

(* A mutation: a fetch by rows leaves the stream to be fetched.            *)
LeftByRows == result_consumed

ConsumedByRows == TRUE

FetchesRows(rows, offset) ==
    /\ result_consumed' = ConsumedByRows
    /\ fetch_offset' = offset
    /\ answer' = rows
    /\ handed' = handed \o rows.rows
    /\ fetches' = Append(fetches, "rows")
    /\ UNCHANGED <<mode, executed, pending, arrow_consumed, arraysize, executions>>

(* fetch_arrow_table, fetchallarrow, fetch_record_batch, fetch_df,         *)
(* fetch_polars and fetchall: all rows, again and again.                   *)
FetchTable ==
    /\ MayFetch
    /\ result_consumed' = TRUE
    /\ answer' = Got(Rows(0, pending.rows))
    /\ fetches' = Append(fetches, "table")
    /\ UNCHANGED <<mode, executed, pending, fetch_offset, arrow_consumed, arraysize,
                   executions, handed>>

(* fetch_df and fetch_polars without pandas or polars.                     *)
NoDataFrames ==
    /\ executed
    /\ answer' = Raised
    /\ UNCHANGED <<mode, result, arraysize, history>>

(* fetch_arrow: the stream, once and before anything else.                 *)
FetchArrow ==
    /\ MayFetch
    /\ IF arrow_consumed \/ result_consumed
       THEN answer' = Raised /\ UNCHANGED <<arrow_consumed, result_consumed, fetches>>
       ELSE /\ arrow_consumed' = TRUE
            /\ result_consumed' = TRUE
            /\ answer' = Got(Rows(0, pending.rows))
            /\ fetches' = Append(fetches, "arrow")
    /\ UNCHANGED <<mode, executed, pending, fetch_offset, arraysize, executions, handed>>

(* fetchone, and next(), which raises StopIteration for None.              *)
FetchOne ==
    /\ MayFetch
    /\ IF fetch_offset >= pending.rows
       THEN FetchesRows(End, fetch_offset)
       ELSE FetchesRows(Got(Rows(fetch_offset, 1)), fetch_offset + 1)

(* Mutations: the offset goes by the size asked for; it stays.             *)
OffsetAfterAsked(size, batch) == fetch_offset + size
OffsetUnmoved(size, batch) == fetch_offset

OffsetAfterBatch(size, batch) == fetch_offset + batch

(* No rows, though some were asked for, mean the end to who asked.         *)
FetchMany(size) ==
    LET remaining == pending.rows - fetch_offset
        batch     == IF size < remaining THEN size ELSE remaining
    IN
      /\ MayFetch
      /\ IF batch <= 0
         THEN FetchesRows(IF size > 0 THEN End ELSE Got(<<>>), fetch_offset)
         ELSE FetchesRows(Got(Rows(fetch_offset, batch)), OffsetAfterBatch(size, batch))

SetArraysize(size) ==
    /\ arraysize' = size
    /\ answer' = Ok
    /\ UNCHANGED <<mode, result, history>>
-----------------------------------------------------------------------------
(* executemany, executescript, adbc_prepare, adbc_cancel, setinputsizes    *)
(* and the like: nothing in replay, the driver's business otherwise, and   *)
(* the result in hand stays.  Some are refused in replay, some always.     *)
Delegate ==
    /\ \/ answer' = Ok
       \/ answer' = Raised
    /\ UNCHANGED <<mode, result, arraysize, history>>

Close ==
    /\ executed' = FALSE
    /\ pending' = EmptyTable
    /\ fetch_offset' = 0
    /\ arrow_consumed' = FALSE
    /\ result_consumed' = FALSE
    /\ answer' = Ok
    /\ handed' = <<>>
    /\ fetches' = <<>>
    /\ UNCHANGED <<mode, arraysize, executions>>

(* The real cursor's close() raises before the result is let go.           *)
CloseFails ==
    /\ mode # "none"
    /\ answer' = Raised
    /\ UNCHANGED <<mode, result, arraysize, history>>

Next ==
    \/ \E rows \in 0 .. MaxRows : ExecuteSucceeds(rows)
    \/ ExecuteFails
    \/ FetchBeforeExecute
    \/ FetchTable \/ NoDataFrames \/ FetchArrow \/ FetchOne
    \/ \E size \in Sizes \union {arraysize} : FetchMany(size)
    \/ \E size \in Sizes : SetArraysize(size)
    \/ Delegate
    \/ Close \/ CloseFails

Spec == Init /\ [][Next]_vars
-----------------------------------------------------------------------------
TypeOK ==
    /\ mode \in Modes
    /\ executed \in BOOLEAN /\ arrow_consumed \in BOOLEAN /\ result_consumed \in BOOLEAN
    /\ pending \in [of : 0 .. MaxExecutions, rows : 0 .. MaxRows]
    /\ fetch_offset \in 0 .. pending.rows
    /\ arraysize \in Sizes \union {1}
    /\ answer \in [kind : {"ok", "raised", "end", "rows"},
                   rows : Seq([of : 1 .. MaxExecutions, at : 1 .. MaxRows])]
    /\ executions \in 0 .. MaxExecutions
    /\ handed \in Seq([of : 1 .. MaxExecutions, at : 1 .. MaxRows])
    /\ fetches \in Seq({"rows", "table", "arrow"})

(* The rows a fetch answers are those of the last execute(), if that       *)
(* succeeded: no failure leaves the rows of an earlier query to be fetched.*)
RowsOfTheLastExecute ==
    answer.kind \in {"rows", "end"} =>
        /\ pending.of = executions
        /\ \A n \in 1 .. Len(answer.rows) : answer.rows[n].of = executions

(* fetchone, fetchmany and next, mixed in any way and with any size, hand  *)
(* out each row once and in order, whatever else is fetched in between.    *)
EachRowOnceInOrder == handed = Rows(0, fetch_offset)

(* They report the end of the result only when every row has been handed.  *)
EndOnlyWhenAllHanded ==
    answer.kind = "end" => Len(handed) = pending.rows

(* fetch_arrow() answers only as the first fetch of a result.              *)
StreamFirstAndOnce ==
    \A n \in 1 .. Len(fetches) : fetches[n] = "arrow" => n = 1
=============================================================================
