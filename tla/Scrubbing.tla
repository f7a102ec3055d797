----------------------------- MODULE Scrubbing ------------------------------
(***************************************************************************)
(* What is redacted before an interaction is written: serialised           *)
(* parameters (_cursor.py) and result tables (_result_scrubbing.py), by    *)
(* the keys the ini file gives a driver and by the suite's adbc_scrubber.  *)
(*                                                                         *)
(* A table is a sequence of columns; a cell is null, plain text, or the    *)
(* text of a JSON object or array.  What json.loads reads of such a text   *)
(* is a tree.                                                              *)
(***************************************************************************)
EXTENDS Integers, SequencesExt

CONSTANTS
    depth,  \* of the JSON values that occur: how deeply each is nested
    loads,  \* json.loads: what is read of a text; of digits beyond a double's
            \* and of a key that comes twice, less than is there
    dumps   \* json.dumps, compact: the text that is written for a tree

REDACTED == [type |-> "str", text |-> "REDACTED"]

_apply_config_scrubbing(p, keys) ==
    IF p.kind # "dict" THEN p
    ELSE [p EXCEPT !.items = [k \in DOMAIN @ |-> IF k \in keys THEN REDACTED ELSE @[k]]]

(* The callback gets what the keys have left; it answers with a dict in    *)
(* which it has redacted some keys of its own, or with None.               *)
apply_scrubbing(p, keys, scrubber) ==
    LET configured == _apply_config_scrubbing(p, keys)
    IN IF scrubber.answers
       THEN _apply_config_scrubbing(configured, scrubber.redacts)
       ELSE configured
-----------------------------------------------------------------------------
(* Trees: an object's or an array's parts, by key or by position, or a     *)
(* leaf, which has none.                                                   *)
Leaf(value) == [kind |-> "leaf", value |-> value, parts |-> <<>>]
Object(parts) == [kind |-> "object", value |-> "", parts |-> parts]
Array(parts) == [kind |-> "array", value |-> "", parts |-> parts]

RedactedLeaf == Leaf("REDACTED")

Trees == DOMAIN depth

ASSUME TreesAssumption ==
    /\ RedactedLeaf \in Trees
    /\ \A t \in Trees :
         /\ t \in [kind : {"leaf", "object", "array"}, value : {t.value},
                  parts : [DOMAIN t.parts -> Trees]]
         /\ depth[t] \in Nat
         /\ \A k \in DOMAIN t.parts : depth[t.parts[k]] < depth[t]

(* What is written is read back.  (The converse is not so: of two texts    *)
(* that are read alike at least one is not what would be written.)         *)
ASSUME JsonAssumption ==
    /\ loads \in [DOMAIN loads -> Trees]
    /\ dumps \in [Trees -> DOMAIN loads]
    /\ \A t \in Trees : loads[dumps[t]] = t

(* A mutation: the keys of the outermost object only.                      *)
_redact_outermost(tree, keys) ==
    [tree EXCEPT !.parts =
       [k \in DOMAIN @ |-> IF tree.kind = "object" /\ k \in keys THEN RedactedLeaf ELSE @[k]]]

_redact_json(tree, keys) ==
    LET redact[t \in Trees] ==
          [t EXCEPT !.parts =
             [k \in DOMAIN @ |->
                IF t.kind = "object" /\ k \in keys THEN RedactedLeaf ELSE redact[@[k]]]]
    IN redact[tree]

Null == [kind |-> "null"]
Text(t) == [kind |-> "text", text |-> t]
Json(t) == [kind |-> "json", json |-> t]

Cells == [kind : {"null"}] \union [kind : {"text"}, text : STRING]
           \union [kind : {"json"}, json : DOMAIN loads]

Columns == [name : STRING, strings : BOOLEAN, cells : Seq(Cells)]

(* A mutation: a text is written anew whether or not something changed.    *)
WrittenAnew(cell, keys) ==
    IF cell.kind = "json" THEN Json(dumps[_redact_json(loads[cell.json], keys)]) ELSE cell

(* _redact_json_text: a text in which nothing is redacted stays as it is.  *)
RedactedText(cell, keys) ==
    IF cell.kind = "json" /\ _redact_json(loads[cell.json], keys) # loads[cell.json]
    THEN Json(dumps[_redact_json(loads[cell.json], keys)])
    ELSE cell

(* A column of strings, plain or dictionary-encoded, or of something else. *)
ScrubbedColumn(column, keys) ==
    IF ~column.strings THEN column
    ELSE [column EXCEPT !.cells =
            [i \in DOMAIN @ |->
               IF column.name \in keys
               THEN IF @[i] = Null THEN Null ELSE Text("REDACTED")
               ELSE RedactedText(@[i], keys)]]

scrub_result_table(table, keys) == [i \in DOMAIN table |-> ScrubbedColumn(table[i], keys)]
=============================================================================
