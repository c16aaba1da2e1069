----------------------------- MODULE MCMpClock -----------------------------
(* Model-checking instance of MpClock: core 0 and two other cores (so one  *)
(* loses the race for clock_latch), two mp_clock windows per run_bench,    *)
(* and a timestamp that tells 0, 1 and "more" apart -- all that setup()    *)
(* and the windows distinguish.                                            *)
EXTENDS MpClock

CONSTANTS c0, c1, c2, NoAddress

MCWindows == 2
MCMaxTick == 2
MCOneCall == 1
MCTwoCalls == 2
=============================================================================
