--------------------------- MODULE MCDriverUnload ---------------------------
(* Three requested bases and four driver images: each base may start     *)
(* with a driver (with or without a driver object, with or without open   *)
(* handles) or empty, and an image not yet loaded can be loaded at a base  *)
(* freed during the passes.  Three entries let erase_if remove one from   *)
(* the middle of the list and go on with the entry that moved into place. *)
EXTENDS DriverUnload, TLC

CONSTANTS b1, b2, b3, d1, d2, d3, d4

MCBases == {b1, b2, b3}
MCDrivers == {d1, d2, d3, d4}
MCRequested == <<b1, b2, b3>>
MCSymmetry == Permutations(MCDrivers)
=============================================================================
