-------------------------- MODULE MCCassettePaths ---------------------------
(* Suites for CassettePaths.                                               *)
EXTENDS CassettePaths

(* Driver modules; every Foundry driver is loaded through one of them.     *)
Foundry == "adbc_driver_manager.dbapi"
Duckdb == "adbc_driver_duckdb.dbapi"
Snowflake == "adbc_driver_snowflake.dbapi"

TestNames == {"orders", "refunds", "param1", "param2"}

Files == [t \in TestNames |-> IF t \in {"orders", "refunds"} THEN <<"tests", "test_db">>
                                              ELSE <<"tests", "shop", "test_db">>]

Functions_ == [t \in TestNames |-> CASE t = "orders" -> <<"TestOrders", "test_a">>
                                     [] t = "refunds" -> <<"test_a">>
                                     [] t = "param1" -> <<"test_b[1]">>
                                     [] t = "param2" -> <<"test_b[2]">>]

Markers ==
    [t \in TestNames |->
       CASE t \in {"orders", "refunds"} -> [present |-> TRUE, name |-> <<"orders">>, dialect |-> Unsaid]
         [] t = "param1" -> [present |-> TRUE, name |-> NoName, dialect |-> "postgres"]
         [] t = "param2" -> [present |-> FALSE, name |-> NoName, dialect |-> Unsaid]]

Words_ == {"tests", "test_db", "shop", "TestOrders", "test_a"}

Slugs == [n \in Words_ \union {"test_b[1]", "test_b[2]"} |->
            CASE n = "test_b[1]" -> "test_b_1_"
              [] n = "test_b[2]" -> "test_b_2_"
              [] OTHER           -> n]

Stems == [v \in {"mysql", "/opt/lib/pg.so", "/usr/lib/pg.so", "file.db"} |->
            CASE v = "mysql"   -> "mysql"
              [] v = "file.db" -> "file"
              [] OTHER         -> "pg"]

Signatures == [d \in {Foundry, Duckdb, Snowflake} |->
                 IF d = Foundry THEN <<"driver", "uri">> ELSE <<"uri">>]

AllInspectable == {Foundry, Duckdb, Snowflake}

Dialects == <<Bare(<<"ansi">>), Line(Duckdb, <<"duckdb">>), Line(NoDriver, <<"lost">>)>>

DefaultKeyLines == <<Bare(<<"driver">>)>>

Keywords(k, v) == [x \in {k} |-> v]

Call(style, t, d, positional, keywords) ==
    [style |-> style, test |-> t, driver |-> d,
     positional |-> positional, keywords |-> keywords,
     request |-> TRUE, name |-> NoName, dialect |-> NoDialect,
     overrides |-> FALSE, keys |-> <<>>]

None == <<>>

(* Two tests of several drivers, one of them run by wrap() too.            *)
Suite ==
    LET mysql == Keywords("driver", "mysql")
        pg    == Keywords("driver", "/opt/lib/pg.so")
        file  == Keywords("uri", "file.db")
    IN {Call("patched", "orders", Foundry, <<"mysql">>, None),
        Call("patched", "orders", Foundry, None, mysql),
        Call("adbc_connect", "orders", Foundry, None, pg),
        Call("patched", "orders", Foundry, None, Keywords("driver", "/usr/lib/pg.so")),
        Call("patched", "orders", Duckdb, <<"file.db">>, None),
        Call("adbc_connect", "orders", Snowflake, None, file),
        Call("patched", "refunds", Foundry, None, mysql),
        Call("patched", "param1", Duckdb, None, file),
        Call("adbc_connect", "param1", Foundry, None, mysql),
        [Call("wrap", "param1", Duckdb, None, file) EXCEPT !.name = <<"extra">>],
        [Call("wrap", "param1", Foundry, None, pg) EXCEPT
             !.name = <<"other">>, !.dialect = "mysql"],
        Call("wrap", "param2", Duckdb, None, file),
        Call("patched", "param2", Duckdb, None, file),
        [Call("wrap", "param2", Snowflake, None, file) EXCEPT
             !.request = FALSE, !.overrides = TRUE, !.keys = <<"uri">>],
        [Call("wrap", "param1", Foundry, None, pg) EXCEPT
             !.name = <<"plain">>, !.overrides = TRUE]}

(* wrap() of two drivers in one test.                                      *)
WrapTwoDrivers ==
    {Call("wrap", "param1", Duckdb, None, None), Call("wrap", "param1", Snowflake, None, None)}

(* A patched driver with and without the differentiating argument.         *)
WithAndWithoutDriver ==
    {Call("patched", "param1", Foundry, <<"mysql">>, None),
     Call("patched", "param1", Foundry, None, Keywords("uri", "file.db"))}

(* The first two are as the theorems ask, the third but for one thing.     *)
ASSUME SuiteAssumption ==
    /\ \A s \in {Suite, WrapTwoDrivers, WithAndWithoutDriver} :
         PositionsHaveNames(s) /\ OwnersApart(s) /\ WrapsApart(s)
    /\ SameKeysGiven(Suite) /\ SameKeysGiven(WrapTwoDrivers)
    /\ ~SameKeysGiven(WithAndWithoutDriver)
=============================================================================
