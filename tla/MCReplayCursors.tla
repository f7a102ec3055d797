-------------------------- MODULE MCReplayCursors ---------------------------
(* Small instances of ReplayCursors for TLC.                               *)
EXTENDS ReplayCursorsImplementTape, TLC

CONSTANTS c1, c2, raw, t1, t2, secret, redacted

(* The cursors are alike: any two behaviours that differ in their names    *)
(* only are one, for the properties without fairness.                      *)
CursorSymmetry == Permutations(Cursors)

(* One SQL text, with no parameters and with a secret in them.             *)
AskedWithAndWithoutSecret == [sql : Sqls, params : {NullParams, secret}]

AskedWithSecret == [sql : Sqls, params : {secret}]

(* Nothing is scrubbed of the parameters; or "secret" becomes "redacted".  *)
Unscrubbed == [p \in Params |-> p]
Scrubbed == [p \in Params |-> IF p = secret THEN redacted ELSE p]

(* Table raw holds a secret: scrubbed, it is t2.                           *)
Plain == [t \in Tables |-> t]
Redacting == [t \in Tables |-> IF t = raw THEN t2 ELSE t]

(* Scrubbing keeps the schema.                                             *)
SchemaOfTable == [t \in Tables |-> IF t = t1 THEN t1 ELSE t2]
=============================================================================
