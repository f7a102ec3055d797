-------------------------- MODULE MCPluginSession ---------------------------
(* Small instances of PluginSession for TLC.                               *)
EXTENDS PluginSession, TLC

CONSTANTS testA, testB, main, worker

(* Two tests whose markers name the same cassette.                         *)
OneName == [t \in Tests |-> "shared"]

(* ... or each its own.                                                    *)
OwnName == [t \in Tests |-> t]

TestSymmetry == Permutations(Tests)
=============================================================================
