------------------------ MODULE CursorSurfaceProofs -------------------------
(* What a test gets from one cursor's fetch methods, proved for results of *)
(* any length, any sizes and any number of calls in any order.             *)
EXTENDS CursorSurface, SequenceTheorems, TLAPS

RowsOfResults == [of : 1 .. MaxExecutions, at : 1 .. MaxRows]

Answers == [kind : {"ok", "raised", "end", "rows"}, rows : Seq(RowsOfResults)]

(* A result in hand is that of the last execute(); there is none otherwise.*)
ResultInHand ==
    IF executed THEN pending.of = executions /\ executions > 0
                ELSE pending = EmptyTable

(* A fetch that answers bars the stream from then on.                      *)
StreamBarred == fetches # <<>> => result_consumed

LEMMA AnswersWithoutRows ==
    /\ <<>> \in Seq(RowsOfResults) /\ <<>> \in Seq({"rows", "table", "arrow"})
    /\ Ok \in Answers /\ Raised \in Answers /\ End \in Answers /\ Got(<<>>) \in Answers
    /\ Len(<<>>) = 0
  <1>1. /\ <<>> \in Seq(RowsOfResults) /\ <<>> \in Seq({"rows", "table", "arrow"})
        /\ Len(<<>>) = 0
    BY EmptySeq
  <1>2. QED  BY <1>1 DEF Answers, Ok, Raised, End, Got

LEMMA EmptyTableType ==
    /\ EmptyTable \in [of : 0 .. MaxExecutions, rows : 0 .. MaxRows]
    /\ 0 \in 0 .. EmptyTable.rows /\ 0 \in 0 .. MaxExecutions
  BY SurfaceAssumption DEF EmptyTable

LEMMA NoRows == \A from : Rows(from, 0) = <<>>
  BY DEF Rows

(* The type invariant, with its sets by name.                              *)
TypesByName ==
    /\ mode \in Modes
    /\ executed \in BOOLEAN /\ arrow_consumed \in BOOLEAN /\ result_consumed \in BOOLEAN
    /\ pending \in [of : 0 .. MaxExecutions, rows : 0 .. MaxRows]
    /\ fetch_offset \in 0 .. pending.rows
    /\ arraysize \in Sizes \union {1}
    /\ answer \in Answers
    /\ executions \in 0 .. MaxExecutions
    /\ handed \in Seq(RowsOfResults)
    /\ fetches \in Seq({"rows", "table", "arrow"})

SurfaceInv ==
    /\ TypesByName
    /\ ResultInHand
    /\ StreamBarred
    /\ EachRowOnceInOrder
    /\ StreamFirstAndOnce

LEMMA RowsType ==
    ASSUME NEW from \in Nat, NEW count \in Nat, from + count <= pending.rows,
           pending \in [of : 1 .. MaxExecutions, rows : 0 .. MaxRows]
    PROVE  /\ Rows(from, count) \in Seq(RowsOfResults)
           /\ Len(Rows(from, count)) = count
           /\ Got(Rows(from, count)) \in
                Answers
  <1>1. \A n \in 1 .. count : Row(from + n) \in RowsOfResults
    BY SurfaceAssumption DEF Row, RowsOfResults
  <1>2. /\ Rows(from, count) \in Seq(RowsOfResults)
        /\ Len(Rows(from, count)) = count
    BY <1>1 DEF Rows
  <1>3. QED  BY <1>2 DEF Got, Answers

(* What is handed out next follows what was.                               *)
LEMMA RowsFollow ==
    ASSUME NEW from \in Nat, NEW count \in Nat
    PROVE  Rows(0, from) \o Rows(from, count) = Rows(0, from + count)
  <1>. DEFINE All == {Row(n) : n \in Nat}
              before == Rows(0, from)
              after == Rows(from, count)
  <1>1. /\ before \in Seq(All) /\ Len(before) = from
        /\ after \in Seq(All) /\ Len(after) = count
        /\ Rows(0, from + count) \in Seq(All)
        /\ Len(Rows(0, from + count)) = from + count
    BY DEF Rows
  <1>2. /\ \A n \in 1 .. from : before[n] = Row(n)
        /\ \A n \in 1 .. count : after[n] = Row(from + n)
        /\ \A n \in 1 .. (from + count) : Rows(0, from + count)[n] = Row(n)
    BY DEF Rows
  <1>. HIDE DEF All, before, after
  <1>3. /\ before \o after \in Seq(All)
        /\ Len(before \o after) = Len(before) + Len(after)
        /\ \A n \in 1 .. Len(before) + Len(after) :
              (before \o after)[n] =
                 IF n <= Len(before) THEN before[n] ELSE after[n - Len(before)]
    BY <1>1, ConcatProperties
  <1>4. ASSUME NEW n \in 1 .. (from + count)
        PROVE  (before \o after)[n] = Rows(0, from + count)[n]
    <2>1. CASE n <= from
      BY <1>1, <1>2, <1>3, <2>1
    <2>2. CASE ~(n <= from)
      <3>1. n - from \in 1 .. count /\ from + (n - from) = n
        BY <2>2
      <3>2. QED  BY <1>1, <1>2, <1>3, <2>2, <3>1
    <2>3. QED  BY <2>1, <2>2
  <1>5. before \o after = Rows(0, from + count)
    BY <1>1, <1>3, <1>4, SeqEqual
  <1>6. QED  BY <1>5 DEF before, after

LEMMA SurfaceInit == Init => SurfaceInv
  <1>. SUFFICES ASSUME Init PROVE SurfaceInv
    OBVIOUS
  <1>1. TypesByName
    BY EmptyTableType, AnswersWithoutRows DEF TypesByName, Init
  <1>2. ResultInHand /\ StreamBarred /\ StreamFirstAndOnce
    BY DEF Init, ResultInHand, StreamBarred, StreamFirstAndOnce
  <1>3. EachRowOnceInOrder
    BY DEF Init, EachRowOnceInOrder, Rows
  <1>4. QED  BY <1>1, <1>2, <1>3 DEF SurfaceInv

(* A fetch by rows that answers the next count rows, or with none left.    *)
LEMMA FetchingRows ==
    ASSUME SurfaceInv, executed, NEW count \in Nat,
           fetch_offset + count <= pending.rows, NEW rows,
           \/ rows = Got(Rows(fetch_offset, count))
           \/ count = 0 /\ rows \in {End, Got(<<>>)},
           FetchesRows(rows, fetch_offset + count)
    PROVE  SurfaceInv'
  <1>1. /\ TypesByName /\ ResultInHand /\ StreamBarred /\ EachRowOnceInOrder
        /\ StreamFirstAndOnce
        /\ pending \in [of : 1 .. MaxExecutions, rows : 0 .. MaxRows]
        /\ fetch_offset \in Nat
    BY SurfaceAssumption DEF SurfaceInv, TypesByName, ResultInHand
  <1>2. /\ Rows(fetch_offset, count) \in Seq(RowsOfResults)
        /\ Got(Rows(fetch_offset, count)) \in
             Answers
    BY <1>1, RowsType
  <1>3. count = 0 => Rows(fetch_offset, count) = <<>>
    BY DEF Rows
  <1>4. rows.rows = Rows(fetch_offset, count)
    BY <1>3 DEF Got, End
  <1>5. rows \in Answers
    BY <1>2, AnswersWithoutRows
  <1>6. handed' = Rows(0, fetch_offset + count)
    BY <1>1, <1>4, RowsFollow DEF FetchesRows, EachRowOnceInOrder
  <1>7. handed' \in Seq(RowsOfResults)
    BY <1>1, <1>6, RowsType
  <1>8. TypesByName'
    BY <1>1, <1>5, <1>7 DEF TypesByName, FetchesRows, ConsumedByRows
  <1>9. EachRowOnceInOrder'
    BY <1>6 DEF FetchesRows, EachRowOnceInOrder, Rows, Row
  <1>10. ResultInHand' /\ StreamBarred'
    BY <1>1 DEF FetchesRows, ResultInHand, StreamBarred, ConsumedByRows
  <1>11. StreamFirstAndOnce'
    BY <1>1 DEF FetchesRows, StreamFirstAndOnce, TypesByName
  <1>12. QED  BY <1>8, <1>9, <1>10, <1>11 DEF SurfaceInv

LEMMA SurfaceStep == SurfaceInv /\ [Next]_vars => SurfaceInv'
  <1>. SUFFICES ASSUME SurfaceInv, [Next]_vars PROVE SurfaceInv'
    OBVIOUS
  <1>1. /\ TypesByName /\ ResultInHand /\ StreamBarred /\ EachRowOnceInOrder
        /\ StreamFirstAndOnce
        /\ fetch_offset \in Nat /\ executions \in Nat
        /\ pending.rows \in Nat
    BY SurfaceAssumption DEF SurfaceInv, TypesByName
  <1>2. ASSUME UNCHANGED <<mode, result, history>>,
               arraysize' \in Sizes \union {1}, answer' \in {answer, Ok, Raised}
        PROVE  SurfaceInv'
    <2>1. TypesByName'
      BY <1>1, <1>2, AnswersWithoutRows DEF TypesByName, result, history
    <2>2. QED
      BY <1>1, <1>2, <2>1
      DEF result, history, SurfaceInv, ResultInHand, StreamBarred, EachRowOnceInOrder,
          StreamFirstAndOnce, Rows, Row
  <1>3. ASSUME fetch_offset' = 0, handed' = <<>>, fetches' = <<>>,
               UNCHANGED <<mode, arraysize>>, answer' \in {Ok, Raised},
               arrow_consumed' = FALSE, result_consumed' = FALSE
        PROVE  /\ StreamBarred' /\ EachRowOnceInOrder' /\ StreamFirstAndOnce'
               /\ handed' \in Seq(RowsOfResults)
               /\ fetches' \in Seq({"rows", "table", "arrow"})
               /\ answer' \in Answers
    <2>1. handed' = Rows(0, fetch_offset)'
      BY <1>3, NoRows DEF Rows
    <2>2. QED
      BY <1>3, <2>1, AnswersWithoutRows
      DEF StreamBarred, EachRowOnceInOrder, StreamFirstAndOnce
  <1>4. ASSUME NEW rows \in 0 .. MaxRows, ExecuteSucceeds(rows) PROVE SurfaceInv'
    <2>1. /\ executions + 1 \in 1 .. MaxExecutions
          /\ executions' = executions + 1 /\ executed' = TRUE
          /\ pending' = [of |-> executions + 1, rows |-> rows]
      BY <1>1, <1>4, SurfaceAssumption DEF ExecuteSucceeds, Execute
    <2>2. ResultInHand'
      BY <1>1, <2>1 DEF ResultInHand
    <2>3. /\ fetch_offset' = 0 /\ arrow_consumed' = FALSE /\ result_consumed' = FALSE
          /\ handed' = <<>> /\ fetches' = <<>> /\ answer' = Ok
          /\ UNCHANGED <<mode, arraysize>>
      BY <1>4 DEF ExecuteSucceeds, Execute, OffsetAfterExecute
    <2>4. /\ pending' \in [of : 0 .. MaxExecutions, rows : 0 .. MaxRows]
          /\ 0 \in 0 .. pending'.rows
      BY <2>1
    <2>5. TypesByName'
      BY <1>1, <2>1, <2>3, <2>4, AnswersWithoutRows DEF TypesByName
    <2>6. QED  BY <1>3, <2>2, <2>3, <2>5 DEF SurfaceInv
  <1>5. ASSUME ExecuteFails PROVE SurfaceInv'
    <2>1. /\ executions + 1 \in 0 .. MaxExecutions
          /\ executions' = executions + 1 /\ executed' = FALSE /\ pending' = EmptyTable
      BY <1>1, <1>5, SurfaceAssumption DEF ExecuteFails, ExecutedAfterFailure, Execute
    <2>2. /\ fetch_offset' = 0 /\ arrow_consumed' = FALSE /\ result_consumed' = FALSE
          /\ handed' = <<>> /\ fetches' = <<>> /\ answer' = Raised
          /\ UNCHANGED <<mode, arraysize>>
      BY <1>5 DEF ExecuteFails, Execute, OffsetAfterExecute
    <2>3. TypesByName'
      BY <1>1, <2>1, <2>2, EmptyTableType, AnswersWithoutRows DEF TypesByName
    <2>4. QED  BY <1>3, <2>1, <2>2, <2>3 DEF ResultInHand, SurfaceInv
  <1>6. ASSUME FetchTable PROVE SurfaceInv'
    <2>1. /\ pending \in [of : 1 .. MaxExecutions, rows : 0 .. MaxRows]
      BY <1>1, <1>6, SurfaceAssumption DEF FetchTable, MayFetch, ResultInHand, TypesByName
    <2>2. Got(Rows(0, pending.rows)) \in Answers
      BY <1>1, <2>1, RowsType
    <2>3. TypesByName'
      BY <1>1, <1>6, <2>2 DEF TypesByName, FetchTable
    <2>4. QED
      BY <1>1, <1>6, <2>3
      DEF FetchTable, SurfaceInv, TypesByName, ResultInHand, StreamBarred, EachRowOnceInOrder,
          StreamFirstAndOnce, Rows, Row
  <1>7. ASSUME FetchArrow PROVE SurfaceInv'
    <2>1. CASE arrow_consumed \/ result_consumed
      BY <1>1, <1>2, <1>7, <2>1 DEF FetchArrow, result, history, TypesByName
    <2>2. CASE ~(arrow_consumed \/ result_consumed)
      <3>1. pending \in [of : 1 .. MaxExecutions, rows : 0 .. MaxRows]
        BY <1>1, <1>7, SurfaceAssumption DEF FetchArrow, MayFetch, ResultInHand, TypesByName
      <3>2. Got(Rows(0, pending.rows)) \in Answers
        BY <1>1, <3>1, RowsType
      <3>3. TypesByName'
        BY <1>1, <1>7, <2>2, <3>2, AppendProperties DEF TypesByName, FetchArrow
      <3>4. fetches = <<>> /\ Len(fetches') = 1
        BY <1>1, <1>7, <2>2 DEF FetchArrow, StreamBarred, TypesByName
      <3>5. StreamFirstAndOnce'
        BY <3>4 DEF StreamFirstAndOnce
      <3>6. QED
        BY <1>1, <1>7, <2>2, <3>3, <3>5
        DEF FetchArrow, SurfaceInv, ResultInHand, StreamBarred, EachRowOnceInOrder, Rows, Row
    <2>3. QED  BY <2>1, <2>2
  <1>8. ASSUME FetchOne PROVE SurfaceInv'
    <2>1. CASE fetch_offset >= pending.rows
      <3>1. FetchesRows(End, fetch_offset + 0) /\ fetch_offset + 0 <= pending.rows
        BY <1>1, <1>8, <2>1 DEF FetchOne, TypesByName
      <3>2. QED  BY <1>8, <3>1, FetchingRows DEF FetchOne, MayFetch
    <2>2. CASE ~(fetch_offset >= pending.rows)
      <3>1. /\ FetchesRows(Got(Rows(fetch_offset, 1)), fetch_offset + 1)
            /\ fetch_offset + 1 <= pending.rows
        BY <1>1, <1>8, <2>2 DEF FetchOne
      <3>2. QED  BY <1>8, <3>1, FetchingRows DEF FetchOne, MayFetch
    <2>3. QED  BY <2>1, <2>2
  <1>9. ASSUME NEW size \in Sizes \union {arraysize}, FetchMany(size) PROVE SurfaceInv'
    <2>. DEFINE remaining == pending.rows - fetch_offset
                batch == IF size < remaining THEN size ELSE remaining
    <2>1. batch \in Int /\ batch <= remaining
      BY <1>1, SurfaceAssumption DEF TypesByName
    <2>2. CASE batch <= 0
      <3>1. /\ \E rows \in {End, Got(<<>>)} : FetchesRows(rows, fetch_offset + 0)
            /\ fetch_offset + 0 <= pending.rows
        BY <1>1, <1>9, <2>2 DEF FetchMany, TypesByName
      <3>2. QED  BY <1>9, <3>1, FetchingRows DEF FetchMany, MayFetch
    <2>3. CASE ~(batch <= 0)
      <3>1. /\ FetchesRows(Got(Rows(fetch_offset, batch)), fetch_offset + batch)
            /\ fetch_offset + batch <= pending.rows /\ batch \in Nat
        BY <1>1, <1>9, <2>1, <2>3 DEF FetchMany, OffsetAfterBatch
      <3>. HIDE DEF batch
      <3>2. QED  BY <1>9, <3>1, FetchingRows DEF FetchMany, MayFetch
    <2>4. QED  BY <2>2, <2>3
  <1>10. ASSUME Close PROVE SurfaceInv'
    <2>1. TypesByName'
      BY <1>1, <1>3, <1>10, EmptyTableType, AnswersWithoutRows DEF TypesByName, Close
    <2>2. QED  BY <1>3, <1>10, <2>1 DEF Close, ResultInHand, SurfaceInv
  <1>11. ASSUME NEW size \in Sizes, SetArraysize(size) PROVE SurfaceInv'
    BY <1>2, <1>11 DEF SetArraysize
  <1>12. ASSUME FetchBeforeExecute \/ NoDataFrames \/ Delegate \/ CloseFails
         PROVE  SurfaceInv'
    BY <1>1, <1>2, <1>12 DEF FetchBeforeExecute, NoDataFrames, Delegate, CloseFails, TypesByName
  <1>13. CASE UNCHANGED vars
    BY <1>1, <1>2, <1>13 DEF vars, TypesByName
  <1>14. QED
    BY <1>4, <1>5, <1>6, <1>7, <1>8, <1>9, <1>10, <1>11, <1>12, <1>13 DEF Next

LEMMA SurfaceInvariant == Spec => []SurfaceInv
  BY SurfaceInit, SurfaceStep, PTL DEF Spec

(* Every variable of the cursor keeps its type; the offset stays within    *)
(* the result, whatever sizes fetchmany() is given.                        *)
THEOREM SurfaceTypes == Spec => []TypeOK
  <1>1. SurfaceInv => TypeOK
    BY DEF SurfaceInv, TypesByName, Answers, RowsOfResults, TypeOK
  <1>2. QED  BY <1>1, SurfaceInvariant, PTL

(* However fetchone, fetchmany and next are mixed, with any sizes, and     *)
(* whatever is fetched between them, they hand out each row of the result  *)
(* once and in order.                                                      *)
THEOREM RowsInOrder == Spec => []EachRowOnceInOrder
  <1>1. SurfaceInv => EachRowOnceInOrder
    BY DEF SurfaceInv
  <1>2. QED  BY <1>1, SurfaceInvariant, PTL

(* fetch_arrow() answers only as the first fetch of a result, so that none *)
(* of its rows are handed out twice: every fetch that answers leaves       *)
(* result_consumed set until the next execute() or close().                *)
THEOREM StreamIsFirst == Spec => []StreamFirstAndOnce
  <1>1. SurfaceInv => StreamFirstAndOnce
    BY DEF SurfaceInv
  <1>2. QED  BY <1>1, SurfaceInvariant, PTL

-----------------------------------------------------------------------------
(* What the last call came to.                                             *)
AnswerRight == RowsOfTheLastExecute /\ EndOnlyWhenAllHanded

LEMMA AnswerInit == Init => AnswerRight
  BY DEF Init, AnswerRight, RowsOfTheLastExecute, EndOnlyWhenAllHanded, Ok

(* Rows of the result in hand are an answer the last execute() gives.      *)
LEMMA RowsAnswer ==
    ASSUME SurfaceInv, executed, NEW from, NEW count \in Nat,
           answer' = Got(Rows(from, count)), UNCHANGED <<pending, executions>>
    PROVE  AnswerRight'
  <1>1. pending.of = executions
    BY DEF SurfaceInv, ResultInHand
  <1>2. Len(Rows(from, count)) = count
    BY DEF Rows
  <1>3. \A n \in 1 .. count : Rows(from, count)[n].of = executions
    BY <1>1 DEF Rows, Row
  <1>4. QED
    BY <1>1, <1>2, <1>3 DEF AnswerRight, RowsOfTheLastExecute, EndOnlyWhenAllHanded, Got

LEMMA AnswerStep == SurfaceInv /\ AnswerRight /\ [Next]_vars => AnswerRight'
  <1>. SUFFICES ASSUME SurfaceInv, AnswerRight, [Next]_vars PROVE AnswerRight'
    OBVIOUS
  <1>1. /\ fetch_offset \in Nat /\ pending.rows \in Nat /\ fetch_offset <= pending.rows
        /\ handed = Rows(0, fetch_offset) /\ handed \in Seq(RowsOfResults)
        /\ executed => pending.of = executions
    BY DEF SurfaceInv, TypesByName, EachRowOnceInOrder, ResultInHand
  <1>2. ASSUME answer' \in {Ok, Raised} PROVE AnswerRight'
    BY <1>2 DEF AnswerRight, RowsOfTheLastExecute, EndOnlyWhenAllHanded, Ok, Raised
  <1>3. ASSUME FetchTable PROVE AnswerRight'
    BY <1>1, <1>3, RowsAnswer DEF FetchTable, MayFetch
  <1>4. ASSUME FetchArrow PROVE AnswerRight'
    BY <1>1, <1>2, <1>4, RowsAnswer DEF FetchArrow, MayFetch
  <1>5. ASSUME executed, fetch_offset = pending.rows, FetchesRows(End, fetch_offset)
        PROVE  AnswerRight'
    <2>1. handed' = handed /\ answer' = End
      BY <1>1, <1>5, ConcatEmptySeq DEF FetchesRows, End
    <2>2. Len(handed) = fetch_offset
      BY <1>1 DEF Rows
    <2>3. UNCHANGED <<pending, executions>>
      BY <1>5 DEF FetchesRows
    <2>4. QED
      BY <1>1, <1>5, <2>1, <2>2, <2>3
      DEF AnswerRight, RowsOfTheLastExecute, EndOnlyWhenAllHanded, End
  <1>6. ASSUME FetchOne PROVE AnswerRight'
    <2>1. CASE fetch_offset >= pending.rows
      BY <1>1, <1>5, <1>6, <2>1 DEF FetchOne, MayFetch
    <2>2. CASE ~(fetch_offset >= pending.rows)
      BY <1>6, <2>2, RowsAnswer DEF FetchOne, MayFetch, FetchesRows
    <2>3. QED  BY <2>1, <2>2
  <1>7. ASSUME NEW size \in Sizes \union {arraysize}, FetchMany(size) PROVE AnswerRight'
    <2>. DEFINE remaining == pending.rows - fetch_offset
                batch == IF size < remaining THEN size ELSE remaining
    <2>1. size \in Int
      BY SurfaceAssumption DEF SurfaceInv, TypesByName
    <2>2. CASE batch <= 0 /\ size > 0
      <3>1. fetch_offset = pending.rows
        BY <1>1, <2>1, <2>2
      <3>2. QED  BY <1>5, <1>7, <2>2, <3>1 DEF FetchMany, MayFetch
    <2>3. CASE batch <= 0 /\ ~(size > 0)
      <3>1. answer' = Got(Rows(0, 0))
        BY <1>7, <2>3, NoRows DEF FetchMany, FetchesRows
      <3>2. QED  BY <1>7, <3>1, RowsAnswer DEF FetchMany, MayFetch, FetchesRows
    <2>4. CASE ~(batch <= 0)
      <3>1. batch \in Nat
        BY <1>1, <2>1, <2>4
      <3>2. answer' = Got(Rows(fetch_offset, batch))
        BY <1>7, <2>4 DEF FetchMany, FetchesRows
      <3>. HIDE DEF batch
      <3>3. QED  BY <1>7, <3>1, <3>2, RowsAnswer DEF FetchMany, MayFetch, FetchesRows
    <2>5. QED  BY <2>2, <2>3, <2>4
  <1>8. CASE UNCHANGED vars
    BY <1>8 DEF vars, result, history, AnswerRight, RowsOfTheLastExecute, EndOnlyWhenAllHanded
  <1>9. QED
    BY <1>2, <1>3, <1>4, <1>6, <1>7, <1>8
    DEF Next, ExecuteSucceeds, ExecuteFails, FetchBeforeExecute, NoDataFrames,
        SetArraysize, Delegate, Close, CloseFails

LEMMA AnswerInvariant == Spec => []AnswerRight
  BY AnswerInit, AnswerStep, SurfaceInvariant, PTL DEF Spec

(* No execute() that fails leaves rows of an earlier query to be fetched:  *)
(* what a fetch answers is the result of the last execute().               *)
THEOREM RowsAreOfTheLastExecute == Spec => []RowsOfTheLastExecute
  <1>1. AnswerRight => RowsOfTheLastExecute
    BY DEF AnswerRight
  <1>2. QED  BY <1>1, AnswerInvariant, PTL

(* fetchone, fetchmany and next report the end of a result only when every *)
(* row of it has been handed out.                                          *)
THEOREM EndMeansAllHanded == Spec => []EndOnlyWhenAllHanded
  <1>1. AnswerRight => EndOnlyWhenAllHanded
    BY DEF AnswerRight
  <1>2. QED  BY <1>1, AnswerInvariant, PTL
=============================================================================
