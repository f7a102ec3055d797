----------------------- MODULE MCRecordedInteractions -----------------------
(* Queries, configurations and what sqlglot makes of the statements.       *)
EXTENDS RecordedInteractions

NoneSql == "no dialect"
CannotParse == "unparsable"

(* Statements in two layouts; the tree of each, and what trees render to.  *)
TreeOf ==
    [s \in {"SELECT 1", "select  1", "DESCRIBE VIEW v", "DESCRIBE TABLE v",
            "SHOW TABLES", "SHOW VIEWS", "vendor  stmt"} |->
       CASE s \in {"SELECT 1", "select  1"} -> "select"
         [] s = "DESCRIBE VIEW v"           -> "describe view"
         [] s = "DESCRIBE TABLE v"          -> "describe table"
         [] s = "SHOW TABLES"               -> "show tables"
         [] s = "SHOW VIEWS"                -> "show views"
         [] OTHER                           -> CannotParse]

(* Without a dialect, SHOW does not parse.                                 *)
Parses ==
    [s \in DOMAIN TreeOf, d \in {NoneSql, "snowflake"} |->
       IF d = NoneSql /\ s \in {"SHOW TABLES", "SHOW VIEWS"} THEN CannotParse ELSE TreeOf[s]]

SqlTrees == {"select", "describe view", "describe table", "show tables", "show views"}

(* The generic generator forgets what is described, and shows nothing.     *)
Renders ==
    [t \in SqlTrees, d \in {NoneSql, "snowflake"} |->
       CASE d = NoneSql /\ t \in {"describe view", "describe table"} -> "DESCRIBE v"
         [] d = NoneSql /\ t \in {"show tables", "show views"}       -> ""
         [] OTHER -> t]

Describes ==
    [t \in SqlTrees |-> CASE t = "describe view"  -> "VIEW"
                       [] t = "describe table" -> "TABLE"
                       [] OTHER                -> ""]

NamesKinds ==
    [t \in SqlTrees \union {"DESCRIBE v", ""} |-> IF t = "describe view" THEN {"VIEW"} ELSE {}]

Collapses == [s \in DOMAIN TreeOf |-> IF s = "select  1" THEN "select 1" ELSE s]

Means == [s \in DOMAIN TreeOf |-> IF s = "select  1" THEN "SELECT 1" ELSE s]
-----------------------------------------------------------------------------
Inherits == {<<"bool", "int">>, <<"Level", "int">>, <<"datetime", "date">>,
             <<"Timestamp", "datetime">>, <<"Timestamp", "date">>}

V(type, text) == [type |-> type, text |-> text]

NoParams == [kind |-> "none", items |-> <<>>]
Listed(v) == [kind |-> "list", items |-> <<v>>]
Named == [kind |-> "dict",
          items |-> [k \in {"token", "pin", "session", "limit"} |->
                       IF k = "limit" THEN V("int", "1") ELSE V("str", k)]]

Column(name, strings, cells) == [name |-> name, strings |-> strings, cells |-> cells]

Number == <<Column("n", FALSE, <<Text("1")>>)>>

Owners == <<Column("owner", TRUE, <<Null, Text("ann")>>),
            Column("size", TRUE, <<Text("ten")>>)>>

(* Texts: how one is written, and what json.loads reads of it.             *)
JsonText(written, reads) == [written |-> written, reads |-> reads]

(* A document, the parts of it, and what redaction can make of each.       *)
Small == {Leaf(v) : v \in {"ann", "size", "x", "1", "REDACTED"}}
Ann == {Leaf("ann"), RedactedLeaf}
Inner == {Object([k \in {"owner", "size"} |-> IF k = "owner" THEN o ELSE z]) :
            o \in Ann, z \in {Leaf("size"), RedactedLeaf}}
Lists == {Array(<<Leaf("1")>>)} \union {Array(<<Leaf("x"), t>>) : t \in Inner}
Documents == {Object([k \in {"owner", "parts"} |-> IF k = "owner" THEN o ELSE p]) :
                o \in Ann, p \in Lists}

Depth ==
    [t \in Small \union Inner \union Lists \union Documents |->
       CASE t \in Small -> 0 [] t \in Inner -> 1 [] t \in Lists -> 2 [] OTHER -> 3]

ListOfOne == Array(<<Leaf("1")>>)

Annes ==
    LET inner == Object([k \in {"owner", "size"} |-> Leaf(IF k = "owner" THEN "ann" ELSE k)])
    IN Object([k \in {"owner", "parts"} |->
                 IF k = "owner" THEN Leaf("ann") ELSE Array(<<Leaf("x"), inner>>)])

(* Two texts that are read alike: "1" is a long number in one of them, or  *)
(* a key comes twice.                                                      *)
Given_ == {JsonText("spaced", Annes), JsonText("spaced", ListOfOne),
           JsonText("longer", Annes), JsonText("longer", ListOfOne)}

Writes == [t \in DOMAIN Depth |-> JsonText("compact", t)]

Reads == [t \in Given_ \union {Writes[u] : u \in DOMAIN Depth} |-> t.reads]

Document == <<Column("info", TRUE, <<Json(JsonText("spaced", Annes)), Json(JsonText("spaced", ListOfOne))>>),
              Column("owner", FALSE, <<Text("1")>>)>>

Longer == <<Column("info", TRUE, <<Json(JsonText("longer", Annes)), Json(JsonText("longer", ListOfOne))>>)>>

Ask(sql, params, table) == [sql |-> sql, params |-> params, table |-> table]

AllQueries ==
    {Ask("SELECT 1", NoParams, Number), Ask("select  1", NoParams, Owners),
     Ask("DESCRIBE VIEW v", NoParams, Longer), Ask("DESCRIBE TABLE v", NoParams, Owners),
     Ask("SHOW TABLES", NoParams, Number), Ask("SHOW VIEWS", NoParams, Owners),
     Ask("vendor  stmt", NoParams, Document), Ask("SELECT 1", Named, Document)}
      \union {Ask("SELECT 1", Listed(v), Number) :
                v \in {V(type, "2024") : type \in {"str", "date", "bytes", "Shares"}}
                        \union {V("datetime", "2024T00"), V("Timestamp", "2024T01"),
                                V("Level", "2")}}

Suite(dialect, scrubs, results, scrubber, serialisers) ==
    [driver |-> "duckdb", dialect |-> dialect, scrub_lines |-> scrubs,
     result_lines |-> results, scrubber |-> scrubber, serialisers |-> serialisers]

NoCallback == [answers |-> FALSE, redacts |-> {}]
Callback == [answers |-> TRUE, redacts |-> {"session"}]

(* Keys for all drivers, for this one and for another.                     *)
Keys == <<Bare(<<"token">>), Line("duckdb", <<"pin">>), Line("snowflake", <<"limit">>)>>
Owned == <<Bare(<<>>), Line("duckdb", <<"owner">>), Line("snowflake", <<"size", "info">>)>>

AllSuites ==
    {Suite(NoneSql, <<>>, <<>>, NoCallback, NoneGiven),
     Suite("snowflake", Keys, Owned, NoCallback, NoneGiven),
     Suite("snowflake", Keys, <<Bare(<<"size">>)>>, Callback,
           Given(<<Handler("Shares", "Shares"), Handler("date", "day")>>, FALSE)),
     Suite(NoneSql, <<>>, Owned, Callback,
           Given(<<Handler("Shares", "Shares"), Handler("Level", "Level")>>, TRUE)),
     Suite(NoneSql, <<>>, Owned, Callback, Given(<<>>, FALSE))}

(* What the theorems assume of queries and suites holds of these.          *)
ASSUME AllAssumption ==
    Queries = AllQueries =>
      TextsTell /\ TagsTell /\ NonePassesRedacted /\ RedactedIsJson /\ BelowAThousand

(* A suite with a handler for a subclass of datetime.                      *)
Timestamps == {Suite(NoneSql, <<>>, <<>>, NoCallback,
                     Given(<<Handler("Timestamp", "Timestamp")>>, FALSE))}

OneNumber == {Ask("SELECT 1", NoParams, Number)}

OneTimestamp == {Ask("SELECT 1", Listed(V("Timestamp", "2024")), Number)}
=============================================================================
