------------------------- MODULE MCDetectionBattery -------------------------
(* Platforms with up to two deviations of every kind, and a client making  *)
(* two calls in any order.                                                 *)
EXTENDS DetectionBattery

MCCap == 128              \* sizeof(interrupt_counters::store)
MCDeviations == AllDeviations
MCMaxDeviations == 2
MCMaxCalls == 2
=============================================================================
