--------------------- MODULE ReplayCursorsImplementTape ---------------------
(* Without faults, the cursors that share a cassette implement ReplayTape. *)
EXTENDS ReplayCursors

Complete == {i \in Slots : cassette[i].params # NoFile}

(* The recordings whose three files are written, in order of their index.  *)
Recordings ==
    [n \in 1 .. Cardinality(Complete) |->
        [query |-> KeyOf(cassette[n - 1]), table |-> cassette[n - 1].arrow]]

Verdict(c) == IF outcome[c] \in Misses THEN "miss" ELSE outcome[c]

Tape == INSTANCE ReplayTape WITH
            Callers    <- Cursors,
            ScrubQuery <- ScrubbedQuery,
            tape       <- Recordings,
            base       <- IF wiped THEN 0 ELSE count_interactions(start),
            played     <- {n \in 1 .. MaxInteractions : served[n - 1] > 0},
            erased     <- wiped,
            asked      <- call,
            verdict    <- [c \in Cursors |-> Verdict(c)],
            result     <- result

(* Every step of the cursors, their locks, queues and files, is a step a   *)
(* tape may take, or leaves the tape and the answers alone: calls of       *)
(* concurrent cursors are answered as if each had been answered at once.   *)
ImplementsTape == Tape!Spec
=============================================================================
