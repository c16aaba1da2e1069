------------------------------ MODULE MpClock ------------------------------
(***************************************************************************)
(* The cross-core software clock of src/benchmark.hpp (struct mp_clock)    *)
(* and the third DPC of hvDetectBasic (src/hypervisor_detection.cpp),      *)
(* which ntpp::call_dpc runs on every core at once:                        *)
(*                                                                         *)
(*   core 0:  spin until mp_clock::jump_point is set; run_bench(), whose   *)
(*            run_single<mp_clock> reads mp_clock::timestamp; then patch   *)
(*            the byte at jump_point to 0xC3 (ret) and flush it.           *)
(*   others:  the first to flip clock_latch runs mp_clock::timer(): it     *)
(*            publishes the address of its `jmp x` in jump_point and loops *)
(*            storing an incrementing counter in timestamp; when the jmp   *)
(*            has become a ret it returns and writes 0xEB (jmp) back.      *)
(*                                                                         *)
(* clock_latch, jump_point, timestamp and the code byte are statics: they  *)
(* keep their values from one call of hvDetectBasic to the next.  Each of  *)
(* run_bench's measurements of mp_clock is one window: setup() (is_intel() *)
(* and timestamp != 0), a read of timestamp, the operation, a second read. *)
(***************************************************************************)
EXTENDS Naturals, FiniteSets

CONSTANTS
  Boot,       \* the core with nt::read_pcid() == 0
  Others,     \* the other cores
  Windows,    \* mp_clock measurements in one run_bench (one per operation)
  MaxCalls,   \* calls of hvDetectBasic
  MaxTick,    \* timestamp values told apart; a longer count saturates here
  Null

ASSUME Boot \notin Others /\ Null \notin Others \cup {Boot}
ASSUME Windows \in Nat \ {0} /\ MaxCalls \in Nat /\ MaxTick \in Nat \ {0}

Cores == {Boot} \cup Others
JumpTarget == "p"            \* the address of label p inside timer()

VARIABLES
  clock_latch,   \* static std::atomic<bool>
  jump_point,    \* mp_clock::jump_point: Null or the address of p
  code,          \* the instruction at p: "jmp" (0xEB) or "ret" (0xC3)
  timestamp,     \* mp_clock::timestamp
  rax,           \* the timekeeper's loop register
  pcs,           \* control state of each core's DPC
  win,           \* core 0: the run_bench window in progress
  calls,         \* hvDetectBasic calls made
  keys           \* history: <<call, window>> pairs that produced an "mpc" key

vars == <<clock_latch, jump_point, code, timestamp, rax, pcs, win, calls, keys>>

Init ==
  /\ clock_latch = FALSE /\ jump_point = Null /\ code = "jmp"
  /\ timestamp = 0 /\ rax = 0
  /\ pcs = [c \in Cores |-> "idle"]
  /\ win = 1 /\ calls = 0 /\ keys = {}

Move(c, from, to) == pcs[c] = from /\ pcs' = [pcs EXCEPT ![c] = to]

(* Some core is executing timer()'s loop.                                  *)
TimekeeperRunning == \E c \in Others : pcs[c] \in {"x", "p"}

-----------------------------------------------------------------------------
(* hvDetectBasic calls ntpp::call_dpc, which queues the DPC on every core. *)
StartCall ==
  /\ calls < MaxCalls
  /\ \A c \in Cores : pcs[c] = "idle"
  /\ pcs' = [c \in Cores |-> "start"]
  /\ calls' = calls + 1 /\ win' = 1
  /\ UNCHANGED <<clock_latch, jump_point, code, timestamp, rax, keys>>

(* call_dpc returns when the DPC has finished on every core.               *)
EndCall ==
  /\ \A c \in Cores : pcs[c] = "done"
  /\ pcs' = [c \in Cores |-> "idle"]
  /\ UNCHANGED <<clock_latch, jump_point, code, timestamp, rax, win, calls, keys>>

(* Core 0: disable the PMCs, then while ( !jump_point ) yield_cpu();       *)
BootStart ==
  /\ Move(Boot, "start", "spin")
  /\ UNCHANGED <<clock_latch, jump_point, code, timestamp, rax, win, calls, keys>>

BootSpin ==
  /\ pcs[Boot] = "spin" /\ jump_point = Null
  /\ UNCHANGED vars

BootSpinExit ==
  /\ jump_point # Null
  /\ Move(Boot, "spin", "setup")
  /\ UNCHANGED <<clock_latch, jump_point, code, timestamp, rax, win, calls, keys>>

(* mp_clock::setup(): is_intel() && timestamp != 0 (an Intel part is       *)
(* assumed); if it fails run_single returns nullopt and no key is stored.  *)
WindowSetup ==
  /\ pcs[Boot] = "setup"
  /\ pcs' = [pcs EXCEPT ![Boot] = IF timestamp # 0 THEN "sample" ELSE "skip"]
  /\ UNCHANGED <<clock_latch, jump_point, code, timestamp, rax, win, calls, keys>>

(* The window after the operation: the second timestamp.load().  The       *)
(* first read and the operation are a step of their own.                   *)
WindowFirst ==
  /\ Move(Boot, "sample", "sample2")
  /\ UNCHANGED <<clock_latch, jump_point, code, timestamp, rax, win, calls, keys>>

(* After a window, the next of run_bench's mp_clock measurements, or the   *)
(* patch once run_bench has returned.  run_bench is straight-line code,    *)
(* ten run() calls each measuring mp_clock once; win is its program        *)
(* counter over the first Windows of them.                                 *)
NextWindow ==
  IF win < Windows THEN pcs' = [pcs EXCEPT ![Boot] = "setup"] /\ win' = win + 1
                   ELSE pcs' = [pcs EXCEPT ![Boot] = "patch"] /\ UNCHANGED win

WindowSecond ==
  /\ pcs[Boot] = "sample2"
  /\ keys' = keys \cup {<<calls, win>>}
  /\ NextWindow
  /\ UNCHANGED <<clock_latch, jump_point, code, timestamp, rax, calls>>

WindowSkip ==
  /\ pcs[Boot] = "skip"
  /\ NextWindow
  /\ UNCHANGED <<clock_latch, jump_point, code, timestamp, rax, calls, keys>>

(* Mutant: core 0 finishes without patching the timekeeper's jmp.       *)
BootPatchMissing ==
  /\ Move(Boot, "patch", "done")
  /\ UNCHANGED <<clock_latch, jump_point, code, timestamp, rax, win, calls, keys>>

(* *jump_point = 0xC3; clflush( jump_point );                              *)
BootPatch ==
  /\ Move(Boot, "patch", "done")
  /\ code' = "ret"
  /\ UNCHANGED <<clock_latch, jump_point, timestamp, rax, win, calls, keys>>

(* Another core: else if ( !clock_latch.exchange( true ) ) { ... }         *)
LatchExchange(c) ==
  /\ pcs[c] = "start"
  /\ clock_latch' = TRUE
  /\ pcs' = [pcs EXCEPT ![c] = IF clock_latch THEN "done" ELSE "publish"]
  /\ UNCHANGED <<jump_point, code, timestamp, rax, win, calls, keys>>

(* Mutant: lea rax, [rip+x] -- the address of the inc, not of the jmp.   *)
PublishWrongLabel(c) ==
  /\ Move(c, "publish", "x")
  /\ jump_point' = "x" /\ rax' = 0
  /\ UNCHANGED <<clock_latch, code, timestamp, win, calls, keys>>

(* timer(): lea rax, [rip+p]; mov [jump_point], rax; xor eax, eax          *)
Publish(c) ==
  /\ Move(c, "publish", "x")
  /\ jump_point' = JumpTarget /\ rax' = 0
  /\ UNCHANGED <<clock_latch, code, timestamp, win, calls, keys>>

(* x: inc rax; mov [rcx], rax                                              *)
Tick(c) ==
  /\ Move(c, "x", "p")
  /\ rax' = IF rax < MaxTick THEN rax + 1 ELSE MaxTick
  /\ timestamp' = rax'
  /\ UNCHANGED <<clock_latch, jump_point, code, win, calls, keys>>

(* Mutant: the timekeeper leaves its loop while the byte is still jmp.   *)
AtPInverted(c) ==
  /\ pcs[c] = "p"
  /\ pcs' = [pcs EXCEPT ![c] = IF code = "jmp" THEN "restore" ELSE "x"]
  /\ UNCHANGED <<clock_latch, jump_point, code, timestamp, rax, win, calls, keys>>

(* p: the byte core 0 may have patched: jmp x, or ret out of timer().      *)
AtP(c) ==
  /\ pcs[c] = "p"
  /\ pcs' = [pcs EXCEPT ![c] = IF code = "ret" THEN "restore" ELSE "x"]
  /\ UNCHANGED <<clock_latch, jump_point, code, timestamp, rax, win, calls, keys>>

(* Mutant: the timekeeper returns without writing the jmp back.          *)
RestoreKeepsRet(c) ==
  /\ Move(c, "restore", "done")
  /\ UNCHANGED <<clock_latch, jump_point, code, timestamp, rax, win, calls, keys>>

(* *jump_point = 0xEB; set_irql( DISPATCH_LEVEL );                         *)
Restore(c) ==
  /\ Move(c, "restore", "done")
  /\ code' = "jmp"
  /\ UNCHANGED <<clock_latch, jump_point, timestamp, rax, win, calls, keys>>

(* hvDetectBasic has been called MaxCalls times.                           *)
Finished ==
  /\ calls = MaxCalls /\ \A c \in Cores : pcs[c] = "idle"
  /\ UNCHANGED vars

BootStep ==
  \/ BootStart \/ BootSpin \/ BootSpinExit \/ WindowSetup \/ WindowFirst
  \/ WindowSecond \/ WindowSkip \/ BootPatch

OtherStep(c) ==
  \/ LatchExchange(c) \/ Publish(c) \/ Tick(c) \/ AtP(c) \/ Restore(c)

Next ==
  \/ StartCall \/ EndCall \/ BootStep \/ \E c \in Others : OtherStep(c)
  \/ Finished

(* Each DPC runs at DISPATCH_LEVEL (the timekeeper at IPI_LEVEL - 1) on    *)
(* its own core and is not preempted: weak fairness per core.  call_dpc    *)
(* returns once all have finished.  Whether the caller calls again is not  *)
(* assumed.                                                                *)
Spec ==
  /\ Init /\ [][Next]_vars
  /\ WF_vars(BootStep) /\ \A c \in Others : WF_vars(OtherStep(c))
  /\ WF_vars(EndCall)

-----------------------------------------------------------------------------
(* Type invariant.  jump_point is null or the address of timer()'s jmp:    *)
(* the byte core 0 patches and the timekeeper restores is that jmp.        *)
TypeOK ==
  /\ clock_latch \in BOOLEAN /\ jump_point \in {Null, JumpTarget}
  /\ code \in {"jmp", "ret"} /\ timestamp \in 0..MaxTick /\ rax \in 0..MaxTick
  /\ pcs \in [Cores -> {"idle", "start", "spin", "setup", "sample", "sample2",
                        "skip", "patch", "publish", "x", "p", "restore", "done"}]
  /\ win \in 1..Windows /\ calls \in 0..MaxCalls
  /\ keys \subseteq (1..MaxCalls) \X (1..Windows)

(* Spec 4.2 / 5: the cross-core clock is a clock only while the timekeeper *)
(* core runs its loop; run_single<mp_clock> stores an "mpc" key only from  *)
(* a window whose second read happens while the loop is running.           *)
MpcOnlyWhileTimekeeperRuns ==
  [][keys' # keys => TimekeeperRunning]_vars

(* The rendezvous never hangs: every call of hvDetectBasic returns -- core *)
(* 0 leaves its spin, and the timekeeper leaves its loop once patched.     *)
CallCompletes ==
  (\E c \in Cores : pcs[c] # "idle") ~> (\A c \in Cores : pcs[c] = "idle")

(* When a call has returned, the instruction at p is the jmp again: core  *)
(* 0's patch to ret has been seen by the timekeeper and undone.           *)
TimerCodeRestored ==
  (\A c \in Cores : pcs[c] = "idle") => code = "jmp"

=============================================================================
