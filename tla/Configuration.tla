--------------------------- MODULE Configuration ----------------------------
(***************************************************************************)
(* The linelist keys of the ini file, as plugin.py parses them.  A line is *)
(* its words, and the driver before its colon if it has one.  A blank line *)
(* has no words and no colon; a dialect is one word.  What a parsed key    *)
(* gives one driver is a function of the lines.                            *)
(***************************************************************************)
EXTENDS SequencesExt

NoDriver == ""

Line(driver, words) == [colon |-> TRUE, driver |-> driver, words |-> words]

Bare(words) == [colon |-> FALSE, driver |-> NoDriver, words |-> words]

(* A line ": key" names no driver, and is ignored.                         *)
IsFor(line, driver) == line.colon /\ line.driver = driver /\ driver # NoDriver

LinesFor(lines, driver) == SelectSeq(lines, LAMBDA line : IsFor(line, driver))

BareLines(lines) == SelectSeq(lines, LAMBDA line : ~line.colon)

(* Of a set of lines.                                                      *)
Words(lines) == UNION {ToSet(line.words) : line \in lines}

(* _parse_scrub_keys: the keys to redact for a driver.                     *)
ScrubKeys(lines, driver) ==
    Words({line \in ToSet(lines) : ~line.colon \/ IsFor(line, driver)})

NoDialect == ""

(* The last line that says something wins.                                 *)
LastWord(lines) ==
    LET saying == SelectSeq(lines, LAMBDA line : line.words # <<>>)
    IN IF saying = <<>> THEN NoDialect ELSE Last(saying).words[1]

(* _parse_dialect, and how wrap() and wrap_from_item() look the result up. *)
ConfiguredDialect(lines, driver) ==
    IF LastWord(LinesFor(lines, driver)) # NoDialect
    THEN LastWord(LinesFor(lines, driver))
    ELSE LastWord(BareLines(lines))

(* _parse_differentiator_keys.                                             *)
DifferentiatorKeys(lines) == FlattenSeq([i \in DOMAIN lines |-> lines[i].words])
=============================================================================
