--------------------------- MODULE DetectionBattery ---------------------------
(***************************************************************************)
(* The detection battery of src/hypervisor_detection.cpp on core 0:        *)
(* hvDetectBasic (vm.vmxe; the first DPC with northbridge::test_smi and    *)
(* test_vmw; the second with processor::collect_info, test_int, test_po,   *)
(* test_pm, test_dbg, test_id, test_clk; the third runs run_bench, the     *)
(* subject of Measurement and MpClock) and hvDetectAdvanced (test_cr,      *)
(* test_msr, test_nx), called by the driver's client in any order.         *)
(*                                                                         *)
(* The platform is a bare-metal processor of either vendor (Init chooses)  *)
(* with a set of deviations: the ways a hypervisor may behave differently  *)
(* that the probes are written to notice, and a few they meet on the way.  *)
(* A guarded region is modelled by the vectors its instructions raise,     *)
(* recorded into the probe's interrupt_counters and judged with            *)
(* FaultTrace's has_exception / count_exceptions (the guard protocol is    *)
(* InterruptGuard's subject).  A faulting RDMSR / RDPMC inside a guard is  *)
(* skipped and leaves its destination register unwritten: a value read    *)
(* that way is garbage, any value.  A fault outside a guard is taken by    *)
(* the kernel: a bugcheck.  Counter values and timings are abstracted to   *)
(* the comparisons the probes make of them.                                *)
(***************************************************************************)
EXTENDS Naturals, Sequences, FiniteSets, TLC, FaultTrace

CONSTANTS
  Deviations,     \* the deviations a platform may have (a subset of AllDeviations)
  MaxDeviations,  \* how many of them one platform combines
  MaxCalls        \* calls of hvDetectBasic / hvDetectAdvanced

GP == 13
PF == 14
DB == 1

(* The MSRs the battery touches.  Aliases are the | 0xC0000000 addresses   *)
(* collect_info reads (IA32_IRPERF already is one: its alias is itself).   *)
MsrIds == {"mperf", "mperfAlias", "aperf", "aperfAlias", "pperf", "pperfAlias",
           "irperf", "miscEnable", "pebsEnable", "debugctl", "rtitCtl",
           "tscAdjust", "smiCount", "msr10", "efer", "kvmMsr", "hvMsr"}
AliasMsr == [mperf |-> "mperfAlias", aperf |-> "aperfAlias",
             pperf |-> "pperfAlias", irperf |-> "irperf"]
PerfMsrs == <<"mperf", "aperf", "pperf", "irperf">>   \* collect_info's msr_list

(* MSRs a bare-metal processor implements: the read-only MPERF/APERF       *)
(* aliases and IRPERF are AMD's; PPERF, the turbo, PEBS, PT, TSC_ADJUST    *)
(* and SMI-count MSRs are Intel's.                                         *)
Implemented(id, intel) ==
  \/ id \in {"mperf", "aperf", "debugctl", "msr10", "efer"}
  \/ intel /\ id \in {"pperf", "miscEnable", "pebsEnable", "rtitCtl", "tscAdjust", "smiCount"}
  \/ ~intel /\ id \in {"mperfAlias", "aperfAlias", "irperf"}

(* Deviations that change what reading one MSR does.                       *)
MsrOverride ==
  [mperfHidden |-> [msr |-> "mperf", as |-> "gp"],
   mperfZero |-> [msr |-> "mperf", as |-> "zero"],
   aperfHidden |-> [msr |-> "aperf", as |-> "gp"],
   miscEnableFaults |-> [msr |-> "miscEnable", as |-> "gp"],
   pebsFaults |-> [msr |-> "pebsEnable", as |-> "gp"],
   debugctlFaults |-> [msr |-> "debugctl", as |-> "gp"],
   rtitFaults |-> [msr |-> "rtitCtl", as |-> "gp"],
   tscAdjustFaults |-> [msr |-> "tscAdjust", as |-> "gp"],
   smiMsrFaults |-> [msr |-> "smiCount", as |-> "gp"],
   msr10Faults |-> [msr |-> "msr10", as |-> "gp"],
   hvMsrRange |-> [msr |-> "hvMsr", as |-> "value"]]

(* Deviations of other instructions and devices, by the probe that meets   *)
(* them.                                                                   *)
OtherDeviations ==
  {"vmxeSet", "backdoor", "hvBit",                       \* CR4, VMware port, CPUID
   "unknownMsrZero", "unknownMsrValue",                  \* unimplemented MSRs do not #GP
   "smiPmcAbsent", "smiSwallowed",                       \* test_smi
   "strEmul", "sldtEmul", "dbLost",                      \* test_int
   "turboIgnored",                                       \* test_po
   "pmcDisableFails", "pmcWriteFails", "pmcValueLost", "rdpmcFaults", "pmcEventFails",
   "pmcFrozen", "pebsIgnored",                           \* test_pm
   "lbrIgnored", "btsIgnored", "btfIgnored", "ptIgnored", \* test_dbg
   "cpuidEcxIgnored",                                    \* test_id
   "tscAdjustIgnored",                                   \* test_clk
   "xgetbvFaults", "xsetbvLeafAccepted", "xsetbvFaults",
   "xsetbvValueAccepted", "smswMismatch",                \* test_cr
   "msr10Slow",                                          \* test_msr
   "nxeIgnored"}                                         \* test_nx

AllDeviations == DOMAIN MsrOverride \cup OtherDeviations

ASSUME Deviations \subseteq AllDeviations
ASSUME MaxDeviations \in Nat /\ MaxCalls \in Nat

(* The platforms: a vendor and at most MaxDeviations deviations.           *)
Platforms(k) ==
  {{}} \cup (IF k >= 1 THEN {{e} : e \in Deviations} ELSE {})
       \cup (IF k >= 2 THEN {{e1, e2} : e1, e2 \in Deviations} ELSE {})

(* The detections the battery writes.                                      *)
Flags == {"vmxe", "vmwareIo", "smiSuppressed", "hvFlagSet", "nullClock",
          "strEmulFail", "sldtEmulFail", "dbSuppressed", "turboSuppressed",
          "pmcMsrMismatch", "rdpmcMismatch", "rdpmcFaulted", "pmcDead",
          "pebsSuppressed", "lbrSuppressed", "btsOsFault", "btsOsSuppressed",
          "btfSuppressed", "ptSuppressed", "cpuidEcxSuppressed", "hiddenClocks",
          "tscWarped", "xgetbvEmulFail", "xsetbvLeafEmulFail",
          "xsetbvLeafEmulFail2", "xsetbvValueEmulFail", "smswEmulFail",
          "msrDefaultInvalid", "hvMsrs", "tscMsrEmulFail", "eferNxDiscard"}
(* Entries of the "data" object that report a probe giving up.             *)
Notes == {"failedSettingPmcs", "failedWritingPmcs", "failedEnablingPebs"}

VARIABLES
  intel, dev,      \* the platform: vendor, deviations
  has,             \* benchmark::has_mperf / has_aperf / has_pperf / has_irperf
  call, pc,        \* the exported function running, and where in it
  calls,           \* history: the functions called so far, in order
  det,             \* the call's "detections" object: the keys written, with their values
  notes,           \* the call's failure entries in "data"
  garbage,         \* history: detections computed from an unwritten register
  crashed          \* a fault was taken outside any guard

vars == <<intel, dev, has, call, pc, calls, det, notes, garbage, crashed>>

Init ==
  /\ intel \in BOOLEAN
  /\ dev \in Platforms(MaxDeviations)
  /\ has = [m \in DOMAIN AliasMsr |-> 0]
  /\ call = "none" /\ pc = "idle" /\ calls = << >>
  /\ det = << >> /\ notes = {}
  /\ garbage = {} /\ crashed = FALSE

(* What an RDMSR of id does on this platform: #GP, or reads zero or a      *)
(* nonzero value.                                                          *)
MsrBehaviour(id) ==
  LET over == {d \in dev \cap DOMAIN MsrOverride : MsrOverride[d].msr = id}
  IN  IF over # {} THEN MsrOverride[CHOOSE d \in over : TRUE].as
      ELSE IF Implemented(id, intel) THEN "value"
      ELSE IF "unknownMsrZero" \in dev THEN "zero"
      ELSE IF "unknownMsrValue" \in dev THEN "value"
      ELSE "gp"
MsrFaults(id) == MsrBehaviour(id) = "gp"
MsrGP(id) == IF MsrFaults(id) THEN <<GP>> ELSE << >>

(* interrupt_counters after a guarded region raising the vectors vs, and   *)
(* its clear().                                                            *)
Guarded(trace, vs) == trace \o [i \in 1..Len(vs) |-> HandlerVector(vs[i])]
(* Mutant: a clear() forgotten between two verdicts.                      *)
ClearedMissing(trace) == trace
Cleared(trace) == << >>

(* Write detections: upd is a function from some flags to values.          *)
SetFlags(upd) == det' = upd @@ det
Raised(f) == f \in DOMAIN det /\ det[f]

Goto(label) == pc' = label

Has(x) == x \in dev
Occurrences(trace, v) == Cardinality({i \in DOMAIN trace : trace[i] = v})

(* Garbage detections: a flag computed from a register the guarded RDMSR   *)
(* or RDPMC never wrote takes either value and is remembered as such.      *)
FromGarbage(flags) == garbage' = garbage \cup flags

(* A caller invokes an exported function: a fresh "detections" object.     *)
Call(fn) ==
  /\ pc = "idle" /\ Len(calls) < MaxCalls
  /\ call' = fn /\ calls' = Append(calls, fn)
  /\ pc' = IF fn = "basic" THEN "vmxe" ELSE "cr"
  /\ det' = << >> /\ notes' = {}
  /\ UNCHANGED <<intel, dev, has, garbage, crashed>>

(* hvDetectBasic: CR4.VMXE.                                                *)
Vmxe ==
  /\ pc = "vmxe" /\ Goto("smi")
  /\ SetFlags("vmxe" :> Has("vmxeSet"))
  /\ UNCHANGED <<intel, dev, has, call, calls, notes, garbage, crashed>>

(* northbridge::test_smi: the SMI counter is the PMU event when it can be  *)
(* programmed, else MSR_SMI_COUNT, probed under a guard; a #GP there       *)
(* returns.  SMIs written to port 0xB2 must all be counted.               *)
TestSmi ==
  /\ pc = "smi" /\ Goto("vmw")
  /\ LET counterSetup == ~Has("smiPmcAbsent")
         gaveUp == ~counterSetup /\ HasException(Guarded(<< >>, MsrGP("smiCount")))
     IN  SetFlags(IF ~intel \/ gaveUp THEN << >>
                  ELSE "smiSuppressed" :> Has("smiSwallowed"))
  /\ UNCHANGED <<intel, dev, has, call, calls, notes, garbage, crashed>>

(* northbridge::test_vmw: the VMware backdoor channel opens.               *)
TestVmw ==
  /\ pc = "vmw" /\ Goto("collect")
  /\ SetFlags("vmwareIo" :> Has("backdoor"))
  /\ UNCHANGED <<intel, dev, has, call, calls, notes, garbage, crashed>>

(* processor::collect_info: CPUID's hypervisor bit, and for each of        *)
(* msr_list's MSRs a guarded read: #GP -> 0; zero -> vm.nullClock, 0;      *)
(* else the | 0xC0000000 alias read in the same scope: #GP -> 1, else 2.  *)
HasOut(x) ==
  CASE MsrBehaviour(x) = "gp"   -> 0
    [] MsrBehaviour(x) = "zero" -> 0
    [] OTHER -> IF HasException(Guarded(<< >>, MsrGP(AliasMsr[x]))) THEN 1 ELSE 2
NullClock == \E i \in 1..Len(PerfMsrs) : MsrBehaviour(PerfMsrs[i]) = "zero"

CollectInfo ==
  /\ pc = "collect" /\ Goto("int")
  /\ has' = [x \in DOMAIN AliasMsr |-> HasOut(x)]
  /\ SetFlags(("hvFlagSet" :> Has("hvBit"))
              @@ (IF NullClock THEN "nullClock" :> TRUE ELSE << >>))
  /\ UNCHANGED <<intel, dev, call, calls, notes, garbage, crashed>>

(* processor::test_int: STR / SLDT widths, and the #DB of a data           *)
(* breakpoint on MOV SS, held over INT 2, counted once.                    *)
TestInt ==
  /\ pc = "int" /\ Goto("po")
  /\ LET ctr == Guarded(<< >>, IF Has("dbLost") THEN <<NMI>> ELSE <<DB, NMI>>)
     IN  SetFlags(("strEmulFail" :> Has("strEmul")) @@ ("sldtEmulFail" :> Has("sldtEmul"))
                  @@ ("dbSuppressed" :> (Occurrences(ctr, DB) # 1)))
  /\ UNCHANGED <<intel, dev, has, call, calls, notes, garbage, crashed>>

(* processor::test_po (Intel, turbo available): toggle MISC_ENABLE bit 38  *)
(* and read it back under one guard.                                      *)
TestPo ==
  /\ pc = "po" /\ Goto("pm")
  /\ LET ctrs == Guarded(<< >>, MsrGP("miscEnable") \o MsrGP("miscEnable")
                                \o MsrGP("miscEnable") \o MsrGP("miscEnable"))
     IN  IF ~intel THEN SetFlags(<< >>)
         ELSE IF HasException(ctrs) THEN SetFlags("turboSuppressed" :> TRUE)
         \* val and val2 were read: bit 38 differs unless the write was dropped
         ELSE SetFlags("turboSuppressed" :> Has("turboIgnored"))
  /\ UNCHANGED <<intel, dev, has, call, calls, notes, garbage, crashed>>

(* processor::test_pm: PMC 0 written with a random magic value, read back  *)
(* by RDMSR and (guarded) RDPMC, then counting retired instructions.       *)
(* A dropped write reads back zero and then counts a few instructions:     *)
(* whether that stays <= magic depends on the random magic, either way.    *)
TestPm ==
  /\ pc = "pm" /\ Goto("dbgLbr")
  /\ \E magicAboveCount \in BOOLEAN :
     LET rdpmcCtrs == Guarded(<< >>, IF Has("rdpmcFaults") THEN <<GP>> ELSE << >>)
         early == "pmcMsrMismatch" :> Has("pmcValueLost")
                  @@ "rdpmcMismatch" :> Has("pmcValueLost")
                  @@ "rdpmcFaulted" :> HasException(rdpmcCtrs)
         dead == Has("pmcFrozen") \/ (Has("pmcValueLost") /\ magicAboveCount)
         pebsCtrs == Guarded(<< >>, MsrGP("pebsEnable") \o MsrGP("pebsEnable")
                                    \o MsrGP("pebsEnable"))
         pebs == IF ~intel \/ HasException(pebsCtrs) THEN << >>
                 ELSE "pebsSuppressed" :> Has("pebsIgnored")
     IN  CASE Has("pmcDisableFails") ->
                SetFlags(<< >>) /\ notes' = notes \cup {"failedSettingPmcs"}
                /\ UNCHANGED garbage
           [] Has("pmcWriteFails") ->
                SetFlags(<< >>) /\ notes' = notes \cup {"failedWritingPmcs"}
                /\ UNCHANGED garbage
           [] OTHER ->
                \E g \in BOOLEAN :
                  LET early2 == IF HasException(rdpmcCtrs)
                                THEN [early EXCEPT !["rdpmcMismatch"] = g] ELSE early
                  IN  /\ FromGarbage(IF HasException(rdpmcCtrs) THEN {"rdpmcMismatch"} ELSE {})
                      /\ IF Has("pmcEventFails")
                         THEN SetFlags(early2) /\ notes' = notes \cup {"failedSettingPmcs"}
                         ELSE /\ SetFlags(early2 @@ ("pmcDead" :> dead) @@ pebs)
                              /\ notes' = notes \cup (IF intel /\ HasException(pebsCtrs)
                                                      THEN {"failedEnablingPebs"} ELSE {})
  /\ UNCHANGED <<intel, dev, has, call, calls, crashed>>


(* processor::test_dbg, first part: with no architectural LBRs, set       *)
(* DEBUGCTL.LBR and read it back; on Intel, set BTS_OFF_OS and read it     *)
(* back.  Both read into an uninitialised `state`.                         *)
TestDbgLbr ==
  /\ pc = "dbgLbr" /\ Goto("dbgBtf")
  /\ \E lbrState, btsState \in BOOLEAN :
     LET faults == MsrFaults("debugctl")
         lbr == "lbrSuppressed" :> (IF faults THEN lbrState ELSE Has("lbrIgnored"))
         btsCtrs == Guarded(<< >>, MsrGP("debugctl") \o MsrGP("debugctl"))
         bts == "btsOsFault" :> HasException(btsCtrs)
                @@ "btsOsSuppressed" :> (IF faults THEN btsState ELSE Has("btsIgnored"))
     IN  /\ SetFlags(lbr @@ (IF intel THEN bts ELSE << >>))
         /\ FromGarbage(IF ~faults THEN {}
                        ELSE {"lbrSuppressed"} \cup (IF intel THEN {"btsOsSuppressed"} ELSE {}))
  /\ UNCHANGED <<intel, dev, has, call, calls, notes, crashed>>

(* The unguarded WRMSR of DEBUGCTL.BTF: a #GP here is the kernel's.        *)
Bugcheck ==
  /\ pc' = "bugcheck" /\ crashed' = TRUE
  /\ UNCHANGED <<intel, dev, has, call, calls, det, notes, garbage>>

(* test_dbg, second part: BTF set, TF set over PAUSE and POPFQ (no         *)
(* branch, so no single-step #DB), DEBUGCTL cleared, under one guard.      *)
TestDbgBtf ==
  /\ pc = "dbgBtf"
  /\ IF MsrFaults("debugctl") THEN Bugcheck
     ELSE /\ Goto("dbgPt")
          /\ SetFlags("btfSuppressed" :>
                 HasException(Guarded(<< >>, IF Has("btfIgnored") THEN <<DB, DB>> ELSE << >>)))
          /\ UNCHANGED <<intel, dev, has, call, calls, notes, garbage, crashed>>

(* Mutant: the detection written under a misspelt key.                    *)
TestDbgPtMisspelt ==
  /\ pc = "dbgPt" /\ Goto("id")
  /\ \E active \in BOOLEAN :
     LET faults == MsrFaults("rtitCtl")
         traceEnabled == IF faults THEN active ELSE ~Has("ptIgnored")
     IN  /\ SetFlags(IF intel THEN "ptSupressed" :> ~traceEnabled ELSE << >>)
         /\ FromGarbage(IF intel /\ faults THEN {"ptSuppressed"} ELSE {})
  /\ UNCHANGED <<intel, dev, has, call, calls, notes, crashed>>

(* test_dbg, third part (Intel, Broadwell or later): enable PT tracing in  *)
(* RTIT_CTL, read it back, restore it; the guard's verdict is not looked   *)
(* at.                                                                     *)
TestDbgPt ==
  /\ pc = "dbgPt" /\ Goto("id")
  /\ \E active \in BOOLEAN :
     LET faults == MsrFaults("rtitCtl")
         traceEnabled == IF faults THEN active ELSE ~Has("ptIgnored")
     IN  /\ SetFlags(IF intel THEN "ptSuppressed" :> ~traceEnabled ELSE << >>)
         /\ FromGarbage(IF intel /\ faults THEN {"ptSuppressed"} ELSE {})
  /\ UNCHANGED <<intel, dev, has, call, calls, notes, crashed>>

(* processor::test_id: CPUID leaf 0xD subleaves 0 and 1 must differ.       *)
TestId ==
  /\ pc = "id" /\ Goto("clk")
  /\ SetFlags("cpuidEcxSuppressed" :> Has("cpuidEcxIgnored"))
  /\ UNCHANGED <<intel, dev, has, call, calls, notes, garbage, crashed>>

(* Mutant: hidden clocks flagged only when both are missing.              *)
TestClkBothHidden ==
  /\ pc = "clk"
  /\ IF intel /\ MsrFaults("tscAdjust") THEN Bugcheck
     ELSE /\ Goto("bench")
          /\ SetFlags(("hiddenClocks" :> (has["aperf"] = 0 /\ has["mperf"] = 0))
                      @@ (IF intel THEN "tscWarped" :> Has("tscAdjustIgnored") ELSE << >>))
          /\ UNCHANGED <<intel, dev, has, call, calls, notes, garbage, crashed>>

(* processor::test_clk: the clock MSRs collect_info found, then (Intel     *)
(* with TSC_ADJUST) an unguarded TSC_ADJUST read and write around RDTSCP.  *)
TestClk ==
  /\ pc = "clk"
  /\ IF intel /\ MsrFaults("tscAdjust") THEN Bugcheck
     ELSE /\ Goto("bench")
          /\ SetFlags(("hiddenClocks" :> (has["aperf"] = 0 \/ has["mperf"] = 0))
                      @@ (IF intel THEN "tscWarped" :> Has("tscAdjustIgnored") ELSE << >>))
          /\ UNCHANGED <<intel, dev, has, call, calls, notes, garbage, crashed>>

(* The third DPC (run_bench and the MP clock) writes no detection.         *)
Bench ==
  /\ pc = "bench" /\ Goto("returned")
  /\ UNCHANGED <<intel, dev, has, call, calls, det, notes, garbage, crashed>>

(* processor::test_cr: four guarded XGETBV / XSETBV scopes sharing one     *)
(* interrupt_counters, cleared after each verdict, and SMSW against CR0.   *)
TestCr ==
  /\ pc = "cr" /\ Goto("msr")
  /\ LET c1 == Guarded(<< >>, IF Has("xgetbvFaults") THEN <<GP>> ELSE << >>)
         c2 == Guarded(Cleared(c1), IF Has("xsetbvLeafAccepted") THEN << >> ELSE <<GP>>)
         c3 == Guarded(Cleared(c2), IF Has("xsetbvFaults") THEN <<GP>> ELSE << >>)
         c4 == Guarded(Cleared(c3), IF Has("xsetbvValueAccepted") THEN << >> ELSE <<GP>>)
     IN  SetFlags("xgetbvEmulFail" :> HasException(c1)
                  @@ "xsetbvLeafEmulFail" :> (~HasException(c2))
                  @@ "xsetbvLeafEmulFail2" :> HasException(c3)
                  @@ "xsetbvValueEmulFail" :> (~HasException(c4))
                  @@ "smswEmulFail" :> Has("smswMismatch"))
  /\ UNCHANGED <<intel, dev, has, call, calls, notes, garbage, crashed>>

(* processor::test_msr: collect_info's verdicts (Intel); the KVM and       *)
(* Hyper-V MSRs must both #GP; 16 guarded reads of MSR 0x10 must mostly    *)
(* neither fault nor lag RDTSC by 1500 cycles.                             *)
TestMsr ==
  /\ pc = "msr" /\ Goto("nx")
  /\ LET hv == Guarded(<< >>, MsrGP("kvmMsr") \o MsrGP("hvMsr"))
         tsc == Guarded(Cleared(hv), MsrGP("msr10"))
         failCount == IF HasException(tsc) \/ Has("msr10Slow") THEN 16 ELSE 0
     IN  SetFlags((IF intel THEN "msrDefaultInvalid" :> (has["mperf"] = 2 /\ has["irperf"] # 0)
                   ELSE << >>)
                  @@ "hvMsrs" :> (CountExceptions(hv) # 2)
                  @@ "tscMsrEmulFail" :> (failCount > 8))
  /\ UNCHANGED <<intel, dev, has, call, calls, notes, garbage, crashed>>

(* processor::test_nx: under one guard, clear EFER.NXE (and set            *)
(* MISC_ENABLE.XD_DISABLE on Intel), then write the execute-disabled page  *)
(* three times: its XD bit is now reserved, so each write must #PF.        *)
TestNx ==
  /\ pc = "nx" /\ Goto("returned")
  /\ LET disable == IF intel THEN MsrGP("miscEnable") \o MsrGP("miscEnable") ELSE << >>
         touch == IF Has("nxeIgnored") THEN << >> ELSE <<PF, PF, PF>>
         revert == IF intel THEN MsrGP("miscEnable") ELSE << >>
         ctrs == Guarded(<< >>, disable \o touch \o revert)
     IN  SetFlags("eferNxDiscard" :> ~HasException(ctrs))
  /\ UNCHANGED <<intel, dev, has, call, calls, notes, garbage, crashed>>

(* transport::serialize: the call returns its result.                      *)
Return ==
  /\ pc = "returned" /\ pc' = "idle" /\ call' = "none"
  /\ UNCHANGED <<intel, dev, has, calls, det, notes, garbage, crashed>>

(* Nothing runs after a bugcheck, nor after the client's last call.        *)
Halted ==
  /\ \/ pc = "bugcheck"
     \/ pc = "idle" /\ Len(calls) = MaxCalls
  /\ UNCHANGED vars

Next ==
  \/ \E fn \in {"basic", "advanced"} : Call(fn)
  \/ Vmxe \/ TestSmi \/ TestVmw \/ CollectInfo \/ TestInt \/ TestPo \/ TestPm
  \/ TestDbgLbr \/ TestDbgBtf \/ TestDbgPt \/ TestId \/ TestClk \/ Bench
  \/ TestCr \/ TestMsr \/ TestNx \/ Return \/ Halted

Spec == Init /\ [][Next]_vars

-----------------------------------------------------------------------------
(* What each probe's comment says it flags, by deviation.  A deviation     *)
(* the battery is not meant to notice has no targets.                      *)
Targets ==
  [d \in AllDeviations |->
     CASE d = "vmxeSet" -> {"vmxe"}
       [] d = "backdoor" -> {"vmwareIo"}
       [] d = "hvBit" -> {"hvFlagSet"}
       [] d = "smiSwallowed" -> {"smiSuppressed"}
       [] d \in {"mperfHidden", "aperfHidden"} -> {"hiddenClocks"}
       [] d = "mperfZero" -> {"nullClock", "hiddenClocks"}
       [] d = "unknownMsrZero" -> {"nullClock", "hvMsrs"}
       [] d = "unknownMsrValue" -> {"msrDefaultInvalid", "hvMsrs"}
       [] d = "hvMsrRange" -> {"hvMsrs"}
       [] d = "strEmul" -> {"strEmulFail"}
       [] d = "sldtEmul" -> {"sldtEmulFail"}
       [] d = "dbLost" -> {"dbSuppressed"}
       [] d \in {"turboIgnored", "miscEnableFaults"} -> {"turboSuppressed"}
       [] d = "pmcValueLost" -> {"pmcMsrMismatch", "rdpmcMismatch"}
       [] d = "rdpmcFaults" -> {"rdpmcFaulted"}
       [] d = "pmcFrozen" -> {"pmcDead"}
       [] d = "pebsIgnored" -> {"pebsSuppressed"}
       [] d = "lbrIgnored" -> {"lbrSuppressed"}
       [] d = "btsIgnored" -> {"btsOsSuppressed"}
       [] d = "debugctlFaults" -> {"btsOsFault"}
       [] d = "btfIgnored" -> {"btfSuppressed"}
       [] d = "ptIgnored" -> {"ptSuppressed"}
       [] d = "cpuidEcxIgnored" -> {"cpuidEcxSuppressed"}
       [] d = "tscAdjustIgnored" -> {"tscWarped"}
       [] d = "xgetbvFaults" -> {"xgetbvEmulFail"}
       [] d = "xsetbvLeafAccepted" -> {"xsetbvLeafEmulFail"}
       [] d = "xsetbvFaults" -> {"xsetbvLeafEmulFail2"}
       [] d = "xsetbvValueAccepted" -> {"xsetbvValueEmulFail"}
       [] d = "smswMismatch" -> {"smswEmulFail"}
       [] d \in {"msr10Faults", "msr10Slow"} -> {"tscMsrEmulFail"}
       [] d = "nxeIgnored" -> {"eferNxDiscard"}
       [] OTHER -> {}]

(* Flags a deviation may raise besides its targets: a dropped PMC write    *)
(* counts up from zero, past the random magic value or not.                *)
Incidental == [d \in AllDeviations |-> IF d = "pmcValueLost" THEN {"pmcDead"} ELSE {}]

(* The exported function each flag is written by.                          *)
AdvancedFlags == {"xgetbvEmulFail", "xsetbvLeafEmulFail", "xsetbvLeafEmulFail2",
                  "xsetbvValueEmulFail", "smswEmulFail", "msrDefaultInvalid",
                  "hvMsrs", "tscMsrEmulFail", "eferNxDiscard"}
CallOf(f) == IF f \in AdvancedFlags THEN "advanced" ELSE "basic"

(* Flags whose probe runs on Intel processors only.                        *)
IntelFlags == {"smiSuppressed", "turboSuppressed", "pebsSuppressed", "btsOsFault",
               "btsOsSuppressed", "ptSuppressed", "tscWarped", "msrDefaultInvalid"}

TypeOK ==
  /\ intel \in BOOLEAN /\ dev \subseteq AllDeviations
  /\ has \in [DOMAIN AliasMsr -> 0..2]
  /\ call \in {"none", "basic", "advanced"}
  /\ Len(calls) <= MaxCalls /\ calls \in [1..Len(calls) -> {"basic", "advanced"}]
  /\ DOMAIN det \subseteq Flags /\ \A f \in DOMAIN det : det[f] \in BOOLEAN
  /\ notes \subseteq Notes /\ garbage \subseteq Flags /\ crashed \in BOOLEAN

(* Soundness of the battery, over every order of the client's calls: a     *)
(* detection the code writes as true, from registers it did read, is one   *)
(* of those meant for a deviation the platform has; in particular a bare   *)
(* processor raises none.  It rests on the verdicts of guards whose        *)
(* interrupt_counters are shared and cleared (test_cr, test_msr), on #DB   *)
(* counting as an exception (test_dbg's BTF scope), and on collect_info's  *)
(* has_* values read by test_clk and a later call's test_msr.              *)
DetectionsSound ==
  \A f \in Flags \ garbage :
    Raised(f) => \E d \in dev : f \in Targets[d] \cup Incidental[d]

(* Completeness for a single deviation: when the call that runs its probe  *)
(* returns on a processor the probe applies to, every flag meant for it is *)
(* raised (vm.msrDefaultInvalid only once a hvDetectBasic call has read    *)
(* the clock MSRs, the order the advanced probes are documented to need). *)
SingleDeviationDetected ==
  (pc = "returned" /\ Cardinality(dev) = 1) =>
    \A d \in dev : \A f \in Targets[d] :
      (/\ CallOf(f) = call
       /\ intel \/ f \notin IntelFlags
       /\ f = "msrDefaultInvalid" => \E i \in 1..Len(calls) : calls[i] = "basic")
      => Raised(f)

(* The battery takes every fault it may meet under a guard: no probe       *)
(* bugchecks the machine (test_dbg's BTF write, test_clk's TSC_ADJUST).    *)
NoUnguardedFault == ~crashed

=============================================================================
