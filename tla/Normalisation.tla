--------------------------- MODULE Normalisation ----------------------------
(***************************************************************************)
(* The text that stands for an SQL statement in a cassette key             *)
(* (_normaliser.py).  What sqlglot makes of a statement is given: it is    *)
(* another program, which refuses some statements and renders some with a  *)
(* part missing.  The cache changes no answer, and is left out.            *)
(***************************************************************************)
CONSTANTS
    NoSqlDialect, Unparsable,
    parse_one,      \* of statement and dialect: a syntax tree, or Unparsable
    rendering,      \* of tree and target dialect, "" if there is none
    described,      \* of a tree: the kind that a DESCRIBE names, or ""
    kinds_in,       \* the kinds of object a rendering names
    collapsed       \* a statement with its white space collapsed

(* TABLE is what DESCRIBE means without a kind.                            *)
_drops_describe_kind(tree, text) ==
    described[tree] \notin {"", "TABLE"} /\ described[tree] \notin kinds_in[text]

Whole(tree, text) == text # "" /\ ~_drops_describe_kind(tree, text)

(* A mutation: any rendering will do that is not empty.                    *)
AnyRendering(tree, dialect) ==
    {text \in {rendering[<<tree, NoSqlDialect>>]} : text # ""}

(* _render: the generic rendering if it is whole, else the dialect's.      *)
Renderings(tree, dialect) ==
    IF Whole(tree, rendering[<<tree, NoSqlDialect>>])
    THEN {rendering[<<tree, NoSqlDialect>>]}
    ELSE {text \in {rendering[<<tree, dialect>>]} : Whole(tree, text)}

normalise_sql(sql, dialect) ==
    LET tree == parse_one[<<sql, dialect>>]
    IN IF tree = Unparsable \/ Renderings(tree, dialect) = {}
       THEN collapsed[sql]
       ELSE CHOOSE text \in Renderings(tree, dialect) : TRUE
=============================================================================
