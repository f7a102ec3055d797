-------------------------- MODULE MCCursorSurface ---------------------------
(* A small instance of CursorSurface for TLC.                              *)
EXTENDS CursorSurface

(* A negative size, which fetchmany() takes for nothing asked.             *)
SizesWithNegative == -1 .. 2
=============================================================================
