-------------------------- MODULE MCNvmeIdentify ---------------------------
(* One call of nvme::identify on a controller whose admin queues have     *)
(* three entries, the fewest with a phase flip strictly inside the ring,  *)
(* so that prev_c_head, prev_c_head + 1 and prev_c_head + 2 each wrap in  *)
(* some initial state.  One asynchronous event request may be             *)
(* outstanding.  aqc[-1].submit_head reads as 0 (a valid tail) or 3 (a     *)
(* tail the controller rejects).                                           *)
EXTENDS NvmeIdentify

MCL == 3
MCMaxAer == 1
MCGarbage == {0, 3}

(* DPC on core 0 enters nvme::identify.                                    *)
Call ==
  /\ npc = "idle" /\ npc' = "probe"
  /\ UNCHANGED <<ctrlVars, bar, prevS, prevC, idComplete, wrce, wrcePrev, nret>>

Init == ControllerInit /\ CallInit
Next == Call \/ IdentifyStep \/ ControllerNext
Spec == Init /\ [][Next]_nvmeVars
=============================================================================
