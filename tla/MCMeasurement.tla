--------------------------- MODULE MCMeasurement ---------------------------
(* Model-checking instance of Measurement.  MCMetrics is a subsequence of  *)
(* run()'s eleven keys holding one key of every kind of setup() and        *)
(* fetch(): pmcTsc (a fixed counter; pmcCore is the same template), tsc    *)
(* (always; RDTSCP; tlb's setup is the same), mpc (the cross-core clock),  *)
(* mperf (has_mperf and the alias fall-through; aperf is the same), pperf  *)
(* (the has_pperf gate), hpet (mapping and tick wait) and poPkg (a bare    *)
(* RDMSR; poDram is the same).  Three measured iterations after one        *)
(* warm-up are the fewest for which a single outlier and a discarded       *)
(* warm-up can both be told apart, and two delta values let one sample be  *)
(* the outlier.  Cap = 9 bytes for 4 iterations is the code's ratio of 128 *)
(* bytes to 52 iterations.  In the pass run fn raises no fault: run_single records fn's   *)
(* faults and never consults them, so the properties checked do not       *)
(* depend on them.                                                         *)
EXTENDS Measurement

MCMetrics == <<"pmcTsc", "tsc", "mpc", "mperf", "pperf", "hpet", "poPkg">>
MCCap == 9
MCWarm == 1
MCTestCount == 3
MCDeltas == {1, 2}
MCFnFaults == {0}

(* For the trace's capacity: one key whose setup always succeeds, and an  *)
(* fn that faults three times a call (a fixed-duration wrapper calling a  *)
(* faulting operation for 1 ms faults far more often).                     *)
MCCapacityMetrics == <<"tsc">>
MCFaultingFn == {3}
=============================================================================
