-------------------------- MODULE MCInterruptGuard --------------------------
(* Model-checking instance of InterruptGuard.  Two scopes of a two-        *)
(* instruction body that may raise #DB or #GP at each instruction, with    *)
(* one NMI that may land anywhere (inside a scope, or between two register *)
(* writes of reset() or end()).  A scope then records at most three        *)
(* vectors, so a three-byte buffer stands for the 128-byte one: the trace  *)
(* never reaches its end here (overflow is the subject of Measurement).    *)
EXTENDS InterruptGuard

MCCap == 3
MCFaultVectors == {1, 13}
MCBodyLen == 2
MCMaxScopes == 2
MCMaxNmi == 1
=============================================================================
