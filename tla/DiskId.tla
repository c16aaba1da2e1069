------------------------------- MODULE DiskId -------------------------------
(***************************************************************************)
(* hwid::get_disks (src/hwid/disk_id.cpp) identifies the disks behind one  *)
(* NVMe and one AHCI controller.  If either controller looks asleep it     *)
(* first forces the disks out of D3 with file I/O; then, up to four times, *)
(* it runs nvme::identify and ahci::identify in a DPC on core 0 (the other *)
(* cores run the same DPC and skip the body), ORs their "retry" results    *)
(* into one flag, stops when no call asked for a retry and otherwise       *)
(* forces the disks out of D3 again.  The flag is never cleared, so one    *)
(* failing call makes every later attempt run both controllers again.      *)
(*                                                                         *)
(* The controllers, their hardware and the operating system's drivers are *)
(* the modules NvmeIdentify and AhciIdentify; they run throughout.         *)
(***************************************************************************)
EXTENDS Naturals

CONSTANTS L, MaxAer, Garbage, Ports, N, MaxOsIssues,
  NvmeBars,  \* outcomes of nvme::identify's register checks considered
  AhciHbas   \* outcomes of ahci::identify's controller checks considered

VARIABLES
  sq, sqHead, sqTail, cq, cqTail, cqPh, cqHead, aer, ready, idData, dbError,
  os, bar, npc, prevS, prevC, idComplete, wrce, wrcePrev, nret,
  hba, sig, clOk, ci, hdr, osOut, osLive, aready, idata, osIssues,
  apc, todo, aport, aslot, afail, aret, afound,
  gpc,      \* get_disks' position
  n,        \* the attempt counter
  retry,    \* the retry flag the DPCs OR into
  inSleep,  \* some controller's command register lacks memory space or bus master
  nvFound   \* nvme::identify has inserted an identifier

Nv == INSTANCE NvmeIdentify
Ah == INSTANCE AhciIdentify

getVars == <<gpc, n, retry, inSleep, nvFound>>
nvCtrl == <<sq, sqHead, sqTail, cq, cqTail, cqPh, cqHead, aer, ready, idData,
            dbError, os>>
nvVars == <<nvCtrl, bar, npc, prevS, prevC, idComplete, wrce, wrcePrev, nret>>
ahPorts == <<ci, hdr, osOut, osLive, aready, idata, osIssues>>
ahLocals == <<apc, todo, aport, aslot, afail, aret>>
ahVars == <<ahPorts, hba, sig, clOk, ahLocals, afound>>
vars == <<nvVars, ahVars, getVars>>

(* The attempts of the loop of lines 96-128.                               *)
Attempts == 4

Init ==
  /\ Nv!ControllerInit /\ Nv!CallInit
  /\ Ah!PortInit /\ Ah!CallInit
  /\ bar \in NvmeBars /\ hba \in AhciHbas
  /\ gpc = "start" /\ n = 0 /\ retry = FALSE /\ inSleep \in BOOLEAN
  /\ nvFound = FALSE

(* force_out_of_d3 (lines 13-55): I/O to every volume makes the storage    *)
(* drivers power their devices up, which may bring a controller that read *)
(* as all ones or disabled back; it may also not.                          *)
ForceOutOfD3 ==
  /\ bar' \in IF bar \in {"allOnes", "disabled"} THEN {bar, "ok"} ELSE {bar}
  /\ hba' \in IF hba = "allOnes" THEN {hba, "ok"} ELSE {hba}

(* Lines 83-95: wake the controllers if one looks asleep, clear retry.     *)
Start ==
  /\ gpc = "start"
  /\ IF inSleep THEN ForceOutOfD3 ELSE UNCHANGED <<bar, hba>>
  /\ gpc' = "nvme" /\ retry' = FALSE
  /\ UNCHANGED <<nvCtrl, npc, prevS, prevC, idComplete, wrce, wrcePrev,
                 nret, ahPorts, sig, clOk, ahLocals, afound, n,
                 inSleep, nvFound>>

(* Lines 100-107: the DPC's body on core 0 calls nvme::identify with fresh *)
(* locals.                                                                  *)
DpcNvme ==
  /\ gpc = "nvme" /\ npc = "idle"
  /\ npc' = "probe"
  /\ prevS' = 0 /\ prevC' = 0 /\ idComplete' = FALSE /\ wrce' = 0
  /\ wrcePrev' = 0 /\ nret' = FALSE
  /\ UNCHANGED <<nvCtrl, bar, ahVars, getVars>>

(* Line 105: retry |= the call's result; call_dpc returns.                 *)
NvmeReturned ==
  /\ gpc = "nvme" /\ npc = "done"
  /\ retry' = (retry \/ nret) /\ nvFound' = (nvFound \/ idComplete)
  /\ npc' = "idle" /\ gpc' = "ahci"
  /\ UNCHANGED <<nvCtrl, bar, prevS, prevC, idComplete, wrce, wrcePrev,
                 nret, ahVars, n, inSleep>>

(* Lines 111-118: the same for ahci::identify.                             *)
DpcAhci ==
  /\ gpc = "ahci" /\ apc = "idle"
  /\ apc' = "probe"
  /\ UNCHANGED <<nvVars, ahPorts, hba, sig, clOk, todo, aport, aslot,
                 afail, aret, afound, getVars>>

AhciReturned ==
  /\ gpc = "ahci" /\ apc = "done"
  /\ retry' = (retry \/ aret)
  /\ apc' = "idle" /\ gpc' = "check"
  /\ UNCHANGED <<nvVars, ahPorts, hba, sig, clOk, todo, aport, aslot,
                 afail, aret, afound, n, inSleep, nvFound>>

(* Mutant: the loop bound tested before the increment (n <= 4).          *)
CheckOffByOne ==
  /\ gpc = "check"
  /\ IF ~retry
     THEN gpc' = "ret" /\ UNCHANGED <<n, bar, hba>>
     ELSE /\ ForceOutOfD3
          /\ n' = n + 1
          /\ gpc' = IF n = Attempts THEN "ret" ELSE "nvme"
  /\ UNCHANGED <<nvCtrl, npc, prevS, prevC, idComplete, wrce, wrcePrev,
                 nret, ahPorts, sig, clOk, ahLocals, afound, retry,
                 inSleep, nvFound>>

(* Mutant: the attempt counter never advanced.                            *)
CheckNoCount ==
  /\ gpc = "check"
  /\ IF ~retry
     THEN gpc' = "ret" /\ UNCHANGED <<n, bar, hba>>
     ELSE /\ ForceOutOfD3
          /\ n' = n
          /\ gpc' = IF n + 1 = Attempts THEN "ret" ELSE "nvme"
  /\ UNCHANGED <<nvCtrl, npc, prevS, prevC, idComplete, wrce, wrcePrev,
                 nret, ahPorts, sig, clOk, ahLocals, afound, retry,
                 inSleep, nvFound>>

(* Lines 96 and 122-127: stop when no call asked for a retry, else force   *)
(* the disks out of D3 and go round again, four attempts at most.          *)
Check ==
  /\ gpc = "check"
  /\ IF ~retry
     THEN gpc' = "ret" /\ UNCHANGED <<n, bar, hba>>
     ELSE /\ ForceOutOfD3
          /\ n' = n + 1
          /\ gpc' = IF n + 1 = Attempts THEN "ret" ELSE "nvme"
  /\ UNCHANGED <<nvCtrl, npc, prevS, prevC, idComplete, wrce, wrcePrev,
                 nret, ahPorts, sig, clOk, ahLocals, afound, retry,
                 inSleep, nvFound>>

GetDisksStep == Start \/ DpcNvme \/ NvmeReturned \/ DpcAhci \/ AhciReturned \/ Check

NvmeCode == Nv!IdentifyStep /\ UNCHANGED <<ahVars, getVars>>
AhciCode == Ah!AhciStep /\ UNCHANGED <<nvVars, getVars>>

(* The two controllers and the AHCI driver run all the time.  A step of   *)
(* one controller commutes with every step of get_disks and of the other   *)
(* controller's identify call, none of which touch its state, so its steps *)
(* are explored only while its own identify call can observe them: the     *)
(* NVMe controller's during nvme::identify and the check that follows it, *)
(* the AHCI side's during ahci::identify.  Steps before get_disks starts   *)
(* are covered by the initial states, and steps after it returns are the   *)
(* drivers' own business.                                                  *)
NvmeController ==
  gpc \in {"nvme", "check"} /\ Nv!ControllerNext /\ UNCHANGED <<ahVars, getVars>>
AhciPorts ==
  gpc = "ahci" /\ Ah!PortNext /\ UNCHANGED <<nvVars, getVars>>

Next == GetDisksStep \/ NvmeCode \/ NvmeController \/ AhciCode \/ AhciPorts

(* get_disks and the code it calls run on one core and are scheduled; the *)
(* controllers are hardware that makes progress.                           *)
Spec ==
  /\ Init /\ [][Next]_vars
  /\ WF_vars(GetDisksStep) /\ WF_vars(NvmeCode) /\ WF_vars(AhciCode)
  /\ WF_vars(NvmeController) /\ WF_vars(AhciPorts)

-----------------------------------------------------------------------------
TypeOK ==
  /\ Nv!TypeOK /\ Ah!TypeOK
  /\ gpc \in {"start", "nvme", "ahci", "check", "ret"}
  /\ n \in 0..Attempts /\ {retry, inSleep, nvFound} \subseteq BOOLEAN

(* get_disks returns: whatever the controllers do, every identify call     *)
(* ends (by its answer or its deadlines) and the attempt loop is bounded.  *)
GetDisksReturns == <>(gpc = "ret")

(* nvme::identify's guess of the driver's queue positions, and its         *)
(* restoring them, in every call get_disks makes (see NvmeIdentify).       *)
GuessRight == Nv!GuessRight
RestoredWhenGuessRight == Nv!RestoredWhenGuessRight

(* When get_disks returns, the NVMe driver's admin queues are as it left   *)
(* them (see NvmeIdentify!HandedBack).                                     *)
QueuesHandedBack == gpc = "ret" => Nv!HandedBack

(* Every command the AHCI controller runs while get_disks runs is the one  *)
(* its issuer put in that slot (see AhciIdentify!OsCommandsIntact).       *)
OsCommandsIntact == Ah!OsCommandsIntact
=============================================================================
