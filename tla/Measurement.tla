---------------------------- MODULE Measurement ----------------------------
(***************************************************************************)
(* The measurement protocol of src/benchmark.hpp on core 0:                *)
(* benchmark::run( fn ), which calls run_single<Metric>( fn ) for each      *)
(* metric in turn and keeps a key for each one that returned a value, and  *)
(* the metric descriptors' setup() / fetch( first ) / rundown().  The      *)
(* capability flags has_mperf, has_aperf and has_pperf are the ones        *)
(* processor::collect_info computes (src/hypervisor_detection.cpp), which  *)
(* runs before on the same core.                                           *)
(*                                                                         *)
(* run_single holds an interrupt_guard on its counters for its whole run,  *)
(* so every fault it raises is recorded (the guard's own register protocol *)
(* is the subject of InterruptGuard).  The platform -- what each MSR read  *)
(* does, whether RDTSCP and RDPMC are exposed, whether the fixed counters  *)
(* can be programmed, whether the HPET ticks, whether the cross-core       *)
(* clock runs, how many faults one call of fn raises -- is chosen in Init  *)
(* and never changes.  A read that faults is skipped by the trap routine   *)
(* and leaves EDX:EAX unwritten: its value is either outcome.  Counter     *)
(* deltas are values of the small set Deltas.  Metrics is a subsequence   *)
(* of run()'s keys in run()'s order; each run_single is independent of the *)
(* others, so a subsequence checks the same protocol for fewer keys.       *)
(***************************************************************************)
EXTENDS Integers, Sequences, FiniteSets, TLC, FaultTrace

CONSTANTS
  Metrics,     \* the evidence keys run() tries, in its order
  Warm,        \* discarded warm-up iterations (4 in the code)
  TestCount,   \* measured iterations, test_count (48 in the code)
  Deltas,      \* values m2 - m1 of one window
  FnFaults     \* numbers of faults one call of fn may raise

(* run()'s keys, in its order, and the descriptor behind each.            *)
RunOrder == <<"pmcTsc", "pmcCore", "tsc", "mpc", "mperf", "aperf", "pperf",
              "hpet", "tlb", "poDram", "poPkg">>
FixedPmcs == {"pmcTsc", "pmcCore"}      \* fixed_pmc<clock_tsc / clock_core>
PerfPairs == {"mperf", "aperf"}         \* switch on has_<x>, alias | 0xC0000000
EnergyMsr == [poPkg |-> "pkgEnergy", poDram |-> "dramEnergy"]
MsrMetrics == PerfPairs \cup {"pperf"} \cup DOMAIN EnergyMsr
PerfFlags == {"mperf", "aperf", "pperf"} \* has_mperf, has_aperf, has_pperf

Position(key) == CHOOSE j \in DOMAIN RunOrder : RunOrder[j] = key
ASSUME /\ \A i \in DOMAIN Metrics : \E j \in DOMAIN RunOrder : RunOrder[j] = Metrics[i]
       /\ \A i, j \in DOMAIN Metrics : i < j => Position(Metrics[i]) < Position(Metrics[j])
ASSUME Warm \in Nat /\ TestCount \in Nat \ {0}
ASSUME Deltas \subseteq Nat /\ Deltas # {} /\ FnFaults \subseteq Nat

GP == 13    \* #GP, raised by RDMSR of an unimplemented MSR, RDPMC and fn
UD == 6     \* #UD, raised by RDTSCP where the hypervisor hides it

Keys == {Metrics[i] : i \in DOMAIN Metrics}

(* The MSRs a key's descriptor (or collect_info, for its flag) reads.      *)
Alias(x) == x \o "Alias"
MsrsOf(key) ==
  IF key \in PerfFlags THEN {key, Alias(key)}
  ELSE IF key \in DOMAIN EnergyMsr THEN {EnergyMsr[key]} ELSE {}
MsrIds == UNION {MsrsOf(k) : k \in Keys}
MsrBehaviours == {"fault", "zero", "nonzero"}
Unset == "unset"           \* mperf::msr / aperf::msr before setup(): 0

(* A platform property chosen only where a key of Metrics depends on it.   *)
Choice(relevant, values, default) == IF relevant THEN values ELSE {default}

VARIABLES
  msr, rdtscpFaults, rdpmcFaults, fixedPmc, hpet, clockTicking, fnFaults,
  has,                                 \* benchmark::has_mperf / aperf / pperf
  perfMsr,                             \* mperf::msr, aperf::msr
  pc, mi,                              \* control: step, index into Metrics
  ctrs, n, results,                    \* run_single's locals
  evidence,                            \* run()'s cbor object
  samples, raised,                     \* history of the current run_single
  probeClean                           \* history per key

vars == <<msr, rdtscpFaults, rdpmcFaults, fixedPmc, hpet, clockTicking,
          fnFaults, has, perfMsr, pc, mi, ctrs, n, results, evidence, samples,
          raised, probeClean>>

Metric == Metrics[mi]     \* the key run_single is measuring

(* std::array<uint32_t, test_count> results = {}.                          *)
NoResults == [i \in 0..TestCount - 1 |-> 0]

platform == <<msr, rdtscpFaults, rdpmcFaults, fixedPmc, hpet, clockTicking, fnFaults>>

Init ==
  /\ msr \in [MsrIds -> MsrBehaviours]
  /\ rdtscpFaults \in Choice("tsc" \in Keys, BOOLEAN, FALSE)
  /\ rdpmcFaults \in Choice(Keys \cap FixedPmcs # {}, BOOLEAN, FALSE)
  /\ fixedPmc \in Choice(Keys \cap FixedPmcs # {}, BOOLEAN, TRUE)
  /\ hpet \in Choice("hpet" \in Keys, {"unmapped", "ticking", "stalled"}, "unmapped")
  /\ clockTicking \in Choice("mpc" \in Keys, BOOLEAN, FALSE)
  /\ fnFaults \in FnFaults
  /\ has = [x \in PerfFlags |-> 0] /\ perfMsr = [x \in PerfPairs |-> Unset]
  /\ pc = "collect" /\ mi = 1
  /\ ctrs = << >> /\ n = 0 /\ results = NoResults
  /\ evidence = << >>
  /\ samples = << >> /\ raised = << >>
  /\ probeClean = [k \in Keys |-> FALSE]

(* The values an RDMSR of id can leave in EDX:EAX, with whether it faulted. *)
ReadMsr(id) ==
  IF msr[id] = "fault"
    THEN {[value |-> v, fault |-> TRUE] : v \in {"zero", "nonzero"}}
    ELSE {[value |-> msr[id], fault |-> FALSE]}

(* The vectors recorded by k faults of vector v (the model keeps at most   *)
(* Cap + 1 entries of a trace).                                            *)
Bounded(trace) == IF Len(trace) > Cap + 1 THEN SubSeq(trace, 1, Cap + 1) ELSE trace
RecordAll(trace, vs) == Bounded(trace \o [i \in 1..Len(vs) |-> HandlerVector(vs[i])])
Faults(v, k) == [i \in 1..k |-> v]
IfFault(r) == IF r.fault THEN <<GP>> ELSE << >>

(* Mutant: the percentile taken of results without std::sort.            *)
PercentileUnsorted(r) == r[TestCount \div 2]

(* xstd::percentile( results, 0.5 ) of the sorted results: the element at  *)
(* index size * 0.5.                                                       *)
Percentile(r) ==
  LET sorted == SortSeq([i \in 1..TestCount |-> r[i - 1]], <)
  IN  sorted[(TestCount \div 2) + 1]

(* The MSR a metric's fetch() reads (mperf::msr and aperf::msr are chosen  *)
(* by setup()).                                                            *)
MsrOf(metric) ==
  IF metric \in PerfPairs THEN perfMsr[metric]
  ELSE IF metric = "pperf" THEN "pperf" ELSE EnergyMsr[metric]

(* The faults one Metric::fetch( first ) raises: RDMSR of a faulting MSR,  *)
(* RDTSCP for the second tsc sample, RDPMC of a fixed counter.  The HPET,  *)
(* the cross-core clock and the TLB probe read memory.                     *)
FetchFaults(first) ==
  CASE Metric \in MsrMetrics -> IF msr[MsrOf(Metric)] = "fault" THEN <<GP>> ELSE << >>
    [] Metric = "tsc"        -> IF ~first /\ rdtscpFaults THEN <<UD>> ELSE << >>
    [] Metric \in FixedPmcs  -> IF rdpmcFaults THEN <<GP>> ELSE << >>
    [] OTHER                 -> << >>

Goto(label) == pc' = label

-----------------------------------------------------------------------------
(* processor::collect_info, its msr_list loop over IA32_MPERF, IA32_APERF  *)
(* and IA32_PPERF: read the MSR in a guard; a fault or a zero gives 0,     *)
(* otherwise read the 0xC0000000 alias in the same guard: 1 if that        *)
(* faults, 2 if not.  (IA32_IRPERF feeds only test_msr.)                    *)
HasFlag(x) ==
  IF {x, Alias(x)} \subseteq MsrIds /\ msr[x] = "nonzero"
    THEN IF msr[Alias(x)] = "fault" THEN 1 ELSE 2
    ELSE 0

CollectInfo ==
  /\ pc = "collect"
  /\ has' = [x \in PerfFlags |-> HasFlag(x)]
  /\ Goto("setup")
  /\ UNCHANGED <<platform, perfMsr, mi, ctrs, n, results, evidence, samples,
                 raised, probeClean>>

(* run_single: interrupt_counters ctrs = {}; interrupt_guard _g{ &ctrs };  *)
(* if ( !Metric::setup() ) return std::nullopt;                            *)
SetupDone(ok, faults) ==
  /\ ctrs' = RecordAll(<< >>, faults) /\ raised' = faults
  /\ samples' = << >>
  /\ Goto(IF ok THEN "first" ELSE "next")

SetupUnchanged == UNCHANGED <<platform, has, mi, n, results, evidence,
                              probeClean>>

(* tsc::setup() and tlb_persistance::setup() return true.                  *)
SetupAlways ==
  /\ pc = "setup" /\ Metric \in {"tsc", "tlb"}
  /\ SetupDone(TRUE, << >>)
  /\ UNCHANGED perfMsr /\ SetupUnchanged

(* fixed_pmc::setup(): fixed_set_state( E, enable | supervisor, true )     *)
(* != UINT32_MAX.                                                          *)
SetupFixedPmc ==
  /\ pc = "setup" /\ Metric \in FixedPmcs
  /\ SetupDone(fixedPmc, << >>)
  /\ UNCHANGED perfMsr /\ SetupUnchanged

(* mp_clock::setup(): is_intel() && timestamp != 0.                        *)
SetupMpc ==
  /\ pc = "setup" /\ Metric = "mpc"
  /\ SetupDone(clockTicking, << >>)
  /\ UNCHANGED perfMsr /\ SetupUnchanged

(* mperf::setup() / aperf::setup(): switch ( has_x ), case 2 tries the     *)
(* alias and falls through to case 1, which tries the plain MSR and falls  *)
(* through to false.                                                       *)
SetupPerf ==
  /\ pc = "setup" /\ Metric \in PerfPairs
  /\ \E alias \in ReadMsr(Alias(Metric)), plain \in ReadMsr(Metric) :
       LET tryAlias == has[Metric] = 2
           aliasOk  == tryAlias /\ alias.value = "nonzero"
           tryPlain == has[Metric] \in {1, 2} /\ ~aliasOk
           plainOk  == tryPlain /\ plain.value = "nonzero"
       IN  /\ perfMsr' = [perfMsr EXCEPT ![Metric] =
                            IF tryPlain THEN Metric
                            ELSE IF tryAlias THEN Alias(Metric) ELSE @]
           /\ SetupDone(aliasOk \/ plainOk,
                        (IF tryAlias THEN IfFault(alias) ELSE << >>)
                        \o (IF tryPlain THEN IfFault(plain) ELSE << >>))
  /\ SetupUnchanged

(* pperf::setup(): if ( !has_pperf ) return false;                         *)
(* return read_msr( IA32_PPERF ) != 0;                                     *)
SetupPperf ==
  /\ pc = "setup" /\ Metric = "pperf"
  /\ \/ has["pperf"] = 0 /\ SetupDone(FALSE, << >>)
     \/ has["pperf"] # 0 /\ \E r \in ReadMsr("pperf") :
                              SetupDone(r.value = "nonzero", IfFault(r))
  /\ UNCHANGED perfMsr /\ SetupUnchanged

(* hpet::setup() returns base, HAL's HPET mapping.                         *)
SetupHpet ==
  /\ pc = "setup" /\ Metric = "hpet"
  /\ SetupDone(hpet # "unmapped", << >>)
  /\ UNCHANGED perfMsr /\ SetupUnchanged

(* pkg_energy::setup() / dram_energy::setup(): read_msr( .. ) != 0.        *)
SetupEnergy ==
  /\ pc = "setup" /\ Metric \in DOMAIN EnergyMsr
  /\ \E r \in ReadMsr(EnergyMsr[Metric]) : SetupDone(r.value = "nonzero", IfFault(r))
  /\ UNCHANGED perfMsr /\ SetupUnchanged

(* Mutant: the has_exception() check after the first fetch left out.     *)
FirstFetchUnchecked ==
  /\ pc = "first"
  /\ ~(Metric = "hpet" /\ hpet = "stalled")
  /\ LET fs == FetchFaults(TRUE)
     IN  /\ ctrs' = RecordAll(ctrs, fs)
         /\ raised' = raised \o fs
         /\ probeClean' = [probeClean EXCEPT ![Metric] = (raised' = << >>)]
         /\ Goto("loop")
  /\ n' = -Warm /\ results' = NoResults
  /\ UNCHANGED <<platform, has, perfMsr, mi, evidence, samples>>

(* Metric::fetch( true ); if ( ctrs.has_exception() ) return std::nullopt; *)
(* then wbinvd, flush_tlb and the loop from n = -4.  hpet::fetch( true )   *)
(* first spins until the counter moves.                                    *)
FirstFetch ==
  /\ pc = "first"
  /\ ~(Metric = "hpet" /\ hpet = "stalled")
  /\ LET fs == FetchFaults(TRUE)
     IN  /\ ctrs' = RecordAll(ctrs, fs)
         /\ raised' = raised \o fs
         /\ probeClean' = [probeClean EXCEPT ![Metric] = (raised' = << >>)]
         /\ Goto(IF HasException(ctrs') THEN "next" ELSE "loop")
  /\ n' = -Warm /\ results' = NoResults
  /\ UNCHANGED <<platform, has, perfMsr, mi, evidence, samples>>

(* hpet::fetch( true ): while ( value.compare_exchange_strong( v1, v1 ) )  *)
(* yield_cpu(); -- an HPET that does not count keeps it here.              *)
HpetSpin ==
  /\ pc = "first" /\ Metric = "hpet" /\ hpet = "stalled"
  /\ UNCHANGED vars

(* Mutant: the loop runs while n <= test_count.                          *)
IterateOffByOne ==
  /\ pc = "loop" /\ n <= TestCount
  /\ \E extra \in BOOLEAN, d \in Deltas :
       LET fs == (IF extra THEN Faults(GP, fnFaults) ELSE << >>)
                 \o FetchFaults(TRUE) \o Faults(GP, fnFaults) \o FetchFaults(FALSE)
       IN  /\ ctrs' = RecordAll(ctrs, fs)
           /\ raised' = Bounded(raised \o fs)
           /\ results' = [results EXCEPT ![IF n > 0 THEN n ELSE 0] = d]
           /\ samples' = IF n >= 0 THEN Append(samples, d) ELSE samples
  /\ n' = n + 1
  /\ UNCHANGED <<platform, has, perfMsr, pc, mi, evidence, probeClean>>

(* One iteration: the warm-up sub-loop (which calls fn when read_tsc() is  *)
(* a multiple of 0xDEADBEEF), then m1 = fetch( true ), fn(), m2 =          *)
(* fetch( false ), results[ max( n, 0 ) ] = uint32_t( m2 - m1 ).  Faults   *)
(* raised here are recorded and not looked at.                            *)
Iterate ==
  /\ pc = "loop" /\ n < TestCount
  /\ \E extra \in BOOLEAN, d \in Deltas :
       LET fs == (IF extra THEN Faults(GP, fnFaults) ELSE << >>)
                 \o FetchFaults(TRUE) \o Faults(GP, fnFaults) \o FetchFaults(FALSE)
       IN  /\ ctrs' = RecordAll(ctrs, fs)
           /\ raised' = Bounded(raised \o fs)
           /\ results' = [results EXCEPT ![IF n > 0 THEN n ELSE 0] = d]
           /\ samples' = IF n >= 0 THEN Append(samples, d) ELSE samples
  /\ n' = n + 1
  /\ UNCHANGED <<platform, has, perfMsr, pc, mi, evidence, probeClean>>

(* Metric::rundown(); std::sort; return xstd::percentile( results, 0.5 );  *)
(* and run() stores the value under the metric's key.                      *)
Finish ==
  /\ pc = "loop" /\ n = TestCount
  /\ evidence' = evidence @@ (Metric :> Percentile(results))
  /\ Goto("next")
  /\ UNCHANGED <<platform, has, perfMsr, mi, ctrs, n, results, samples, raised,
                 probeClean>>

(* run() goes on with the next metric, or returns its object; the locals   *)
(* of the run_single call that returned (ctrs, n, results) and its        *)
(* history are gone.                                                       *)
NextMetric ==
  /\ pc = "next"
  /\ \/ mi < Len(Metrics) /\ mi' = mi + 1 /\ Goto("setup")
     \/ mi = Len(Metrics) /\ Goto("done") /\ UNCHANGED mi
  /\ ctrs' = << >> /\ n' = 0 /\ results' = NoResults
  /\ samples' = << >> /\ raised' = << >>
  /\ UNCHANGED <<platform, has, perfMsr, evidence, probeClean>>

(* run() has returned.                                                     *)
Finished == pc = "done" /\ UNCHANGED vars

Step ==
  \/ CollectInfo \/ SetupAlways \/ SetupFixedPmc \/ SetupMpc \/ SetupPerf
  \/ SetupPperf \/ SetupHpet \/ SetupEnergy
  \/ FirstFetch \/ HpetSpin \/ Iterate \/ Finish \/ NextMetric

Next == Step \/ Finished

(* Core 0 runs the measurement without preemption (interrupts are off     *)
(* under the guard): weak fairness on its steps.                           *)
Spec == Init /\ [][Next]_vars /\ WF_vars(Step)

-----------------------------------------------------------------------------
TypeOK ==
  /\ msr \in [MsrIds -> MsrBehaviours]
  /\ {rdtscpFaults, rdpmcFaults, fixedPmc, clockTicking} \subseteq BOOLEAN
  /\ hpet \in {"unmapped", "ticking", "stalled"} /\ fnFaults \in FnFaults
  /\ has \in [PerfFlags -> 0..2]
  /\ perfMsr \in [PerfPairs -> {Unset} \cup {x : x \in PerfPairs} \cup {Alias(x) : x \in PerfPairs}]
  /\ mi \in DOMAIN Metrics /\ n \in -Warm..TestCount
  /\ results \in [0..TestCount - 1 -> Deltas \cup {0}]
  /\ DOMAIN evidence \subseteq Keys /\ \A k \in DOMAIN evidence : evidence[k] \in Deltas
  /\ samples \in Seq(Deltas) /\ Len(samples) <= TestCount
  /\ ctrs \in Seq(0..255) /\ raised \in Seq({GP, UD})

(* Median stability: the value run_single returns is a median of the       *)
(* TestCount measured deltas -- at most half of them lie on either side of *)
(* it -- and the warm-up deltas, written to results[ 0 ] and overwritten,  *)
(* have no influence on it.  Checked when run() stores the key.            *)
IsMedianOf(v, s) ==
  /\ \E i \in DOMAIN s : s[i] = v
  /\ Cardinality({i \in DOMAIN s : s[i] < v}) <= TestCount \div 2
  /\ Cardinality({i \in DOMAIN s : s[i] > v}) <= TestCount - 1 - TestCount \div 2
MedianOfMeasured ==
  (pc = "next" /\ Metric \in DOMAIN evidence) => IsMedianOf(evidence[Metric], samples)

(* Graceful degradation: a key is present only for a metric whose setup()  *)
(* and first fetch() raised no fault, even though a faulting RDMSR in      *)
(* setup() leaves a garbage value that may pass its != 0 test.             *)
KeyOnlyAfterCleanProbe == \A k \in DOMAIN evidence : probeClean[k]

(* Spec 3 (FaultTrace): the capacity of the trace is never exceeded.       *)
TraceWithinCapacity == ~Overflowed(ctrs)

=============================================================================
