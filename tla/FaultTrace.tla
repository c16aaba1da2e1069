----------------------------- MODULE FaultTrace -----------------------------
(***************************************************************************)
(* The fault trace of src/interrupt_guard.hpp: struct interrupt_counters   *)
(* and the per-vector trap routine impl::counter_isr<vector>.              *)
(*                                                                         *)
(* A trace is the sequence of vector bytes the trap routines wrote through *)
(* the counters' iterator, in order.  The buffer has Cap bytes; the trap   *)
(* routine never compares the iterator with the end of the buffer, so a    *)
(* trace may grow past Cap, and its bytes beyond Cap are writes outside    *)
(* the buffer.  The iterating readers (begin()..end()) walk all of them.   *)
(***************************************************************************)
EXTENDS Naturals, Sequences, FiniteSets

CONSTANT Cap   \* sizeof(interrupt_counters::store), 128 in the code

ASSUME Cap \in Nat \ {0}

(* Vector numbers of the architecture that the code names.                 *)
NMI == 2
LastException == 30        \* 0x1E, the last vector the code treats as one
SpuriousSlot == 254        \* 0xFE, the one high vector with its own routine
SharedSlot == 204          \* 0xCC, the routine every other high vector uses

(* The routine the IDT installs for vector id: high vectors except 0xFE   *)
(* share counter_isr<0xCC>, which is the byte it records.                 *)
HandlerVector(id) == IF id > LastException /\ id # SpuriousSlot
                       THEN SharedSlot ELSE id

(* Mutant: the skip condition written the wrong way round, so a #GP is     *)
(* re-executed instead of skipped.                                          *)
SkipsInstructionInverted(vector) == vector \in {1, NMI, 3, 4}

(* counter_isr advances the saved RIP past the faulting instruction for   *)
(* every exception vector except #DB, NMI, #BP and #OF.                   *)
SkipsInstruction(vector) == vector \notin {1, NMI, 3, 4} /\ vector <= LastException

(* The byte counter_isr<vector> writes at [gs:0] when that is non-null.   *)
Record(trace, vector) == Append(trace, HandlerVector(vector))

(* The predicate shared by count_exceptions() and has_exception().        *)
IsException(vector) == vector # NMI /\ vector <= LastException

HasException(trace) == \E i \in DOMAIN trace : IsException(trace[i])

CountExceptions(trace) == Cardinality({i \in DOMAIN trace : IsException(trace[i])})

(* The trap routine has written outside interrupt_counters::store.        *)
Overflowed(trace) == Len(trace) > Cap

=============================================================================
