--------------------------- MODULE InterruptGuard ---------------------------
(***************************************************************************)
(* The fault sandbox of src/interrupt_guard.hpp on one core: the RAII      *)
(* struct interrupt_guard (reset(), end(), the destructor) used by a probe *)
(* scope the way src/hypervisor_detection.cpp uses it:                     *)
(*                                                                         *)
(*     interrupt_counters ctrs = {};        // or ctrs.clear()             *)
(*     { interrupt_guard g{ &ctrs };  <body>;  [g.end();] }                *)
(*     ... ctrs.has_exception() ...         // inside or after the scope   *)
(*                                                                         *)
(* reset() and end() are modelled one register write per step, because a  *)
(* non-maskable interrupt can arrive between any two of them: cli does not *)
(* mask it, and it is dispatched through whichever IDT is installed at     *)
(* that instant, and the trap routine writes through whatever GS base is   *)
(* loaded at that instant.                                                 *)
(***************************************************************************)
EXTENDS Naturals, Sequences, FiniteSets, FaultTrace

CONSTANTS
  FaultVectors,  \* vectors a guarded instruction may raise
  BodyLen,       \* instructions in a guarded body
  MaxScopes,     \* probe scopes one after another on the core
  MaxNmi         \* NMIs delivered in a behaviour

ASSUME FaultVectors \subseteq 0..255 /\ NMI \notin FaultVectors
ASSUME BodyLen \in Nat /\ MaxScopes \in Nat /\ MaxNmi \in Nat

(* Values of GSBASE and IDTR: the kernel's own (the KPCR and the system   *)
(* IDT) or the guard's (the interrupt_counters object and impl::idt).     *)
Kpcr == "kpcr"
Counters == "counters"
OsIdt == "osIdt"
GuardIdt == "guardIdt"
None == "none"             \* previous_gsbase == 0
NoFault == 256             \* a body instruction that completes

(* Architecture: #DB (data breakpoint), #BP and #OF are traps, the saved  *)
(* RIP already points after the instruction.                              *)
IsTrap(vector) == vector \in {1, 3, 4}

VARIABLES
  idt, gs, iflag,                 \* IDTR, GSBASE, RFLAGS.IF of the core
  previous_gsbase, prev_idtr, flags,   \* the guard's saved registers
  pgs,                            \* end()'s local: std::exchange result
  ctrs,                           \* the trace (interrupt_counters)
  kpcrWritten,                    \* a trap routine wrote via the KPCR's gs:[0]
  pc, pos, ends, readLate,        \* the probe's control state
  verdict, seen,                  \* has_exception() as read, faults behind it
  raised,                         \* history: vectors the body raised this scope
  callerIf,                       \* history: RFLAGS.IF of the probe's caller
  body,                           \* the vector each body instruction raises
  scopes, nmis

vars == <<idt, gs, iflag, previous_gsbase, prev_idtr, flags, pgs, ctrs,
          kpcrWritten, pc, pos, ends, readLate, verdict, seen, raised,
          callerIf, body, scopes, nmis>>

Init ==
  /\ idt = OsIdt /\ gs = Kpcr /\ iflag \in BOOLEAN
  /\ previous_gsbase = None /\ prev_idtr = OsIdt /\ flags = FALSE
  /\ pgs = None
  /\ ctrs = << >> /\ kpcrWritten = FALSE
  /\ pc = "idle" /\ pos = 0 /\ ends = 0 /\ readLate = FALSE
  /\ verdict = FALSE /\ seen = {} /\ raised = << >>
  /\ callerIf = iflag
  /\ body = [i \in 1..BodyLen |-> NoFault]
  /\ scopes = 0 /\ nmis = 0

Step(from, to) == pc = from /\ pc' = to

(* A trap routine counter_isr<vector> runs on the guard's IDT: it stores   *)
(* the vector at [gs:0] and increments gs:[0].  With the counters loaded   *)
(* that appends to the trace; with the kernel's GS loaded, gs:[0] is a     *)
(* field of the KPCR, which the routine dereferences and increments.       *)
IsrWrite(vector) ==
  IF gs = Counters
    THEN ctrs' = Record(ctrs, vector) /\ UNCHANGED kpcrWritten
    ELSE kpcrWritten' = TRUE /\ UNCHANGED ctrs

-----------------------------------------------------------------------------
(* Mutant: the scope reuses the counters without clearing them.          *)
BeginKeepsTrace ==
  /\ scopes < MaxScopes
  /\ Step("idle", "enter_flags")
  /\ body' \in [1..BodyLen -> FaultVectors \cup {NoFault}]
  /\ raised' = << >> /\ pos' = 0
  /\ scopes' = scopes + 1
  /\ UNCHANGED <<idt, gs, iflag, previous_gsbase, prev_idtr, flags, pgs, ctrs,
                 kpcrWritten, ends, readLate, verdict, seen, callerIf, nmis>>

(* The probe opens a scope on a fresh (or cleared) interrupt_counters.     *)
Begin ==
  /\ scopes < MaxScopes
  /\ Step("idle", "enter_flags")
  /\ ctrs' = << >>
  /\ body' \in [1..BodyLen -> FaultVectors \cup {NoFault}]
  /\ raised' = << >> /\ pos' = 0
  /\ scopes' = scopes + 1
  /\ UNCHANGED <<idt, gs, iflag, previous_gsbase, prev_idtr, flags, pgs,
                 kpcrWritten, ends, readLate, verdict, seen, callerIf, nmis>>

(* Mutant: reset() without disable().                                     *)
EnterFlagsNoDisable ==
  /\ Step("enter_flags", "enter_save")
  /\ previous_gsbase = None
  /\ flags' = iflag
  /\ UNCHANGED <<idt, gs, iflag, previous_gsbase, prev_idtr, pgs, ctrs, kpcrWritten,
                 pos, ends, readLate, verdict, seen, raised, callerIf, body, scopes, nmis>>

(* Mutant: disable() before read_flags(), which then saves IF = 0.        *)
EnterFlagsAfterDisable ==
  /\ Step("enter_flags", "enter_save")
  /\ previous_gsbase = None
  /\ flags' = FALSE /\ iflag' = FALSE
  /\ UNCHANGED <<idt, gs, previous_gsbase, prev_idtr, pgs, ctrs, kpcrWritten,
                 pos, ends, readLate, verdict, seen, raised, callerIf, body, scopes, nmis>>

(* reset(): flags = read_flags(); disable();                               *)
EnterFlags ==
  /\ Step("enter_flags", "enter_save")
  /\ previous_gsbase = None
  /\ flags' = iflag /\ iflag' = FALSE
  /\ UNCHANGED <<idt, gs, previous_gsbase, prev_idtr, pgs, ctrs, kpcrWritten,
                 pos, ends, readLate, verdict, seen, raised, callerIf, body, scopes, nmis>>

(* previous_gsbase = read_gsbase(); read_idtr( &prev_idtr );               *)
EnterSave ==
  /\ Step("enter_save", "enter_idt")
  /\ previous_gsbase' = gs /\ prev_idtr' = idt
  /\ UNCHANGED <<idt, gs, iflag, flags, pgs, ctrs, kpcrWritten, pos, ends,
                 readLate, verdict, seen, raised, callerIf, body, scopes, nmis>>

(* set_idt( impl::idt )                                                    *)
EnterIdt ==
  /\ Step("enter_idt", "enter_gs")
  /\ idt' = GuardIdt
  /\ UNCHANGED <<gs, iflag, previous_gsbase, prev_idtr, flags, pgs, ctrs,
                 kpcrWritten, pos, ends, readLate, verdict, seen, raised,
                 callerIf, body, scopes, nmis>>

(* write_gsbase( counters )                                                *)
EnterGs ==
  /\ Step("enter_gs", "body")
  /\ gs' = Counters
  /\ UNCHANGED <<idt, iflag, previous_gsbase, prev_idtr, flags, pgs, ctrs,
                 kpcrWritten, pos, ends, readLate, verdict, seen, raised,
                 callerIf, body, scopes, nmis>>

-----------------------------------------------------------------------------
(* One instruction of the guarded body.  It completes, or raises the      *)
(* vector Begin chose for it: the CPU enters counter_isr<vector> through the guard's IDT,     *)
(* which records the vector, advances RIP past a faulting instruction      *)
(* (skip_instruction) and returns with iretq.  If RIP is not advanced and  *)
(* the vector is a fault, the same instruction executes again.  The model  *)
(* keeps at most Cap + 1 entries of a trace (the first write past the      *)
(* buffer is what the properties need).                                    *)
Execute ==
  /\ pc = "body" /\ pos < BodyLen
  /\ LET v == body[pos + 1] IN
       IF v = NoFault
         THEN pos' = pos + 1 /\ UNCHANGED <<ctrs, raised, kpcrWritten>>
         ELSE /\ IF Overflowed(ctrs) THEN UNCHANGED <<ctrs, kpcrWritten>>
                                      ELSE IsrWrite(v)
              /\ raised' = IF Len(raised) <= Cap THEN Append(raised, v) ELSE raised
              /\ pos' = IF SkipsInstruction(HandlerVector(v)) \/ IsTrap(v)
                          THEN pos + 1 ELSE pos
  /\ UNCHANGED <<idt, gs, iflag, previous_gsbase, prev_idtr, flags, pgs, pc,
                 ends, readLate, verdict, seen, callerIf, body, scopes, nmis>>

(* An NMI: delivered whatever RFLAGS.IF is.  Through the system IDT the   *)
(* kernel's handler runs (no effect on this model); through the guard's   *)
(* IDT counter_isr<2> records it and returns without skipping.            *)
Nmi ==
  /\ nmis < MaxNmi
  /\ nmis' = nmis + 1
  /\ \/ idt = OsIdt /\ UNCHANGED <<ctrs, kpcrWritten>>
     \/ idt = GuardIdt /\ IsrWrite(NMI)
  /\ UNCHANGED <<idt, gs, iflag, previous_gsbase, prev_idtr, flags, pgs, pc,
                 pos, ends, readLate, verdict, seen, raised, callerIf, body, scopes>>

(* The body is done.  The probe reads has_exception() either inside the    *)
(* scope (run_single, collect_info) or after it, and calls end() once (the *)
(* destructor) or twice (an explicit g.end() as in test_msr, collect_info).*)
BodyDone ==
  /\ pc = "body" /\ pos = BodyLen
  /\ \E late \in BOOLEAN, calls \in {1, 2} :
       /\ readLate' = late /\ ends' = calls
       /\ pc' = IF late THEN "end" ELSE "read"
  /\ UNCHANGED <<idt, gs, iflag, previous_gsbase, prev_idtr, flags, pgs, ctrs,
                 kpcrWritten, pos, verdict, seen, raised, callerIf, body, scopes, nmis>>

(* ctrs.has_exception()                                                    *)
Read ==
  /\ pc = "read"
  /\ verdict' = HasException(ctrs)
  /\ seen' = {raised[i] : i \in DOMAIN raised}
  /\ pc' = IF readLate THEN "idle" ELSE "end"
  /\ UNCHANGED <<idt, gs, iflag, previous_gsbase, prev_idtr, flags, pgs, ctrs,
                 kpcrWritten, pos, ends, readLate, raised, callerIf, body, scopes, nmis>>

AfterEnd == IF ends > 1 THEN "end" ELSE IF readLate THEN "read" ELSE "idle"

(* end(): if ( auto pgs = std::exchange( previous_gsbase, 0 ) ) -- a call  *)
(* after the first finds 0 and does nothing.                               *)
EndNoop ==
  /\ pc = "end" /\ previous_gsbase = None
  /\ ends' = ends - 1 /\ pc' = AfterEnd
  /\ UNCHANGED <<idt, gs, iflag, previous_gsbase, prev_idtr, flags, pgs, ctrs,
                 kpcrWritten, pos, readLate, verdict, seen, raised, callerIf, body,
                 scopes, nmis>>

EndExchange ==
  /\ Step("end", "end_gs")
  /\ previous_gsbase # None
  /\ pgs' = previous_gsbase /\ previous_gsbase' = None
  /\ UNCHANGED <<idt, gs, iflag, prev_idtr, flags, ctrs, kpcrWritten, pos,
                 ends, readLate, verdict, seen, raised, callerIf, body, scopes, nmis>>

(* Mutant: the GS base restored from the member std::exchange has just   *)
(* zeroed, instead of from the local pgs.                                *)
EndGsAfterExchange ==
  /\ Step("end_gs", "end_idt")
  /\ gs' = previous_gsbase
  /\ UNCHANGED <<idt, iflag, previous_gsbase, prev_idtr, flags, pgs, ctrs,
                 kpcrWritten, pos, ends, readLate, verdict, seen, raised,
                 callerIf, body, scopes, nmis>>

(* write_gsbase( pgs );                                                    *)
EndGs ==
  /\ Step("end_gs", "end_idt")
  /\ gs' = pgs
  /\ UNCHANGED <<idt, iflag, previous_gsbase, prev_idtr, flags, pgs, ctrs,
                 kpcrWritten, pos, ends, readLate, verdict, seen, raised,
                 callerIf, body, scopes, nmis>>

(* write_idtr( &prev_idtr );                                               *)
EndIdt ==
  /\ Step("end_idt", "end_flags")
  /\ idt' = prev_idtr
  /\ UNCHANGED <<gs, iflag, previous_gsbase, prev_idtr, flags, pgs, ctrs,
                 kpcrWritten, pos, ends, readLate, verdict, seen, raised,
                 callerIf, body, scopes, nmis>>

(* Mutant: the flags saved by reset() are never written back.              *)
EndFlagsKept ==
  /\ pc = "end_flags"
  /\ ends' = ends - 1 /\ pc' = AfterEnd
  /\ UNCHANGED <<idt, gs, iflag, previous_gsbase, prev_idtr, flags, pgs, ctrs,
                 kpcrWritten, pos, readLate, verdict, seen, raised, callerIf, body,
                 scopes, nmis>>

(* write_flags( flags );                                                   *)
EndFlags ==
  /\ pc = "end_flags"
  /\ iflag' = flags
  /\ ends' = ends - 1 /\ pc' = AfterEnd
  /\ UNCHANGED <<idt, gs, previous_gsbase, prev_idtr, flags, pgs, ctrs,
                 kpcrWritten, pos, readLate, verdict, seen, raised, callerIf, body,
                 scopes, nmis>>

(* The probe has run all its scopes; the core goes on without them.        *)
Finished ==
  /\ pc = "idle" /\ scopes = MaxScopes
  /\ UNCHANGED vars

ProbeStep ==
  \/ Begin \/ EnterFlags \/ EnterSave \/ EnterIdt \/ EnterGs
  \/ Execute \/ BodyDone \/ Read
  \/ EndNoop \/ EndExchange \/ EndGs \/ EndIdt \/ EndFlags

Next == ProbeStep \/ Nmi \/ Finished

(* The probe's code runs on a core that keeps executing it: weak fairness  *)
(* on its steps.  NMIs are the platform's and need not happen.             *)
Spec == Init /\ [][Next]_vars /\ WF_vars(ProbeStep)

-----------------------------------------------------------------------------
TypeOK ==
  /\ idt \in {OsIdt, GuardIdt} /\ gs \in {Kpcr, Counters} /\ iflag \in BOOLEAN
  /\ previous_gsbase \in {None, Kpcr, Counters} /\ prev_idtr \in {OsIdt, GuardIdt}
  /\ flags \in BOOLEAN /\ pgs \in {None, Kpcr, Counters}
  /\ ctrs \in Seq(0..255) /\ raised \in Seq(FaultVectors)
  /\ kpcrWritten \in BOOLEAN /\ verdict \in BOOLEAN /\ seen \subseteq FaultVectors
  /\ pos \in 0..BodyLen /\ ends \in 0..2 /\ scopes \in 0..MaxScopes
  /\ nmis \in 0..MaxNmi /\ body \in [1..BodyLen -> FaultVectors \cup {NoFault}]

(* Handoff: while the registers are being swapped, an interrupt the kernel *)
(* handles always finds the kernel's GS base (reset() installs the IDT     *)
(* before the GS base, end() restores them the other way round), and a     *)
(* maskable interrupt can never be dispatched through the guard's IDT      *)
(* (reset() clears IF before the swap, end() restores it last).            *)
HandoffSafe ==
  /\ idt = OsIdt => gs = Kpcr
  /\ iflag => idt = OsIdt

(* Restore completeness: whenever the probe is between scopes, IDTR and    *)
(* GSBASE are the kernel's and RFLAGS.IF is what the caller had, whatever  *)
(* faults, NMIs and repeated end() calls happened in the scopes.           *)
RestoreOnExit ==
  pc = "idle" => idt = OsIdt /\ gs = Kpcr /\ iflag = callerIf

(* Fault isolation: the has_exception() a probe reads is true exactly when *)
(* its own guarded body raised an exception vector; NMIs recorded in the   *)
(* trace and faults of earlier scopes on the same counters do not count.   *)
ExceptionClass == {v \in 0..LastException : v # NMI}
VerdictReflectsScope ==
  verdict = (seen \cap ExceptionClass # {})

(* Every scope a probe opens is closed: each faulting instruction is       *)
(* skipped, so the body finishes and both end() calls return.              *)
ScopeCompletes == (pc # "idle") ~> (pc = "idle")

(* Refinement: the scope is open exactly while the counters are the GS     *)
(* base (the trap routine can append only then).  While reset() or end()   *)
(* is between register writes outside that window, the core's interrupt   *)
(* flag is taken to be the one the guard saved: reset() has not yet       *)
(* entered, end() has already left.                                        *)
SwapSteps == {"enter_save", "enter_idt", "enter_gs", "end_idt", "end_flags"}
ContractIf == IF pc \in SwapSteps /\ gs # Counters THEN flags ELSE iflag
Contract == INSTANCE SandboxContract
              WITH inScope <- gs = Counters, trace <- ctrs, ifl <- ContractIf,
                   saved <- IF gs = Counters THEN flags ELSE ContractIf

(* interrupt_guard implements the sandbox contract: its many-step register *)
(* swap is seen by the probe as one atomic enter and one atomic leave,     *)
(* with maskable interrupts off inside, the trace changed only inside or   *)
(* by clear(), and the caller's IF back after the last end().              *)
ImplementsContract == Contract!Spec

=============================================================================
