-------------------------- MODULE SandboxContract --------------------------
(***************************************************************************)
(* The fault sandbox as a probe relies on it (spec section 4.1): a scope   *)
(* is entered and left in one step; while it is open, maskable interrupts  *)
(* are off and every vector delivered on the core is appended to the       *)
(* scope's trace; outside it the trace changes only when the probe clears  *)
(* it; leaving restores the interrupt flag the caller had on entry.        *)
(***************************************************************************)
EXTENDS Naturals, Sequences

VARIABLES
  inScope,   \* a scope is open
  trace,     \* the bytes recorded in the scope's interrupt_counters
  ifl,       \* RFLAGS.IF of the core
  saved      \* the caller's RFLAGS.IF, kept while a scope is open

vars == <<inScope, trace, ifl, saved>>

Init == ~inScope /\ trace = << >> /\ ifl \in BOOLEAN /\ saved = ifl

Clear == ~inScope /\ trace' = << >> /\ UNCHANGED <<inScope, ifl, saved>>

Enter ==
  /\ ~inScope /\ inScope'
  /\ saved' = ifl /\ ifl' = FALSE
  /\ UNCHANGED trace

Record ==
  /\ inScope
  /\ \E v \in 0..255 : trace' = Append(trace, v)
  /\ UNCHANGED <<inScope, ifl, saved>>

Leave ==
  /\ inScope /\ ~inScope'
  /\ ifl' = saved
  /\ UNCHANGED <<trace, saved>>

Next == Clear \/ Enter \/ Record \/ Leave

Spec == Init /\ [][Next]_vars
=============================================================================
