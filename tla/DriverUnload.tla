----------------------------- MODULE DriverUnload -----------------------------
(***************************************************************************)
(* envUnloadDriver (src/environment.cpp) takes a list of image bases and   *)
(* tries to unload the driver loaded at each.  It makes 21 passes over the *)
(* list (n = 0..20); in each, try_unload(base) succeeds only when no module *)
(* is loaded at the base any more, and the base is then erased from the    *)
(* list.  Otherwise it looks up the driver object whose driver_start is    *)
(* the base, closes the handles to its devices, asks ntpp::unload_driver   *)
(* to unload it, overwrites its dispatch routines with                     *)
(* invalid_device_request, and fails ("Unload pending." when the unload    *)
(* was started): the base is tried again in the next pass.  In the last    *)
(* pass every failure is appended to the returned error list.             *)
(*                                                                         *)
(* The kernel runs alongside: a started unload completes asynchronously    *)
(* once no handle is open, processes open and close handles, and a new     *)
(* driver may be loaded at a base that became free.                        *)
(***************************************************************************)
EXTENDS Naturals, Sequences, SequencesExt

CONSTANTS
  Bases,      \* image bases
  Drivers,    \* driver images (identities)
  Requested,  \* the input array: a sequence of bases
  NoDriver    \* no module loaded at a base / no driver object found

ASSUME /\ NoDriver \notin Drivers
       /\ Requested \in Seq(Bases)

VARIABLES
  at,          \* the loaded module list: the driver whose dll_base is b
  objs,        \* drivers with an object in \Driver (driver_start = their base)
  handles,     \* drivers some process holds a handle to a device of
  unloading,   \* drivers whose unload was started and is not complete
  killed,      \* drivers whose major functions were overwritten
  ran,         \* drivers ever loaded (a driver is not loaded twice)
  n, images, i, tpc, obj, error_list,
  target       \* history: the driver at each requested base at the call

osVars == <<at, objs, handles, unloading, killed, ran>>
codeVars == <<n, images, i, tpc, obj, error_list>>
vars == <<osVars, codeVars, target>>

Loaded == {at[b] : b \in Bases} \ {NoDriver}
BaseOf(d) == CHOOSE b \in Bases : at[b] = d

(* The last pass (line 236).                                               *)
LastAttempt == 20
last == n >= LastAttempt

-----------------------------------------------------------------------------
(* The kernel.                                                             *)

OsInit ==
  /\ at \in [Bases -> Drivers \cup {NoDriver}]
  /\ \A b, c \in Bases : b # c /\ at[b] # NoDriver => at[b] # at[c]
  /\ objs \in SUBSET Loaded
  /\ handles \in SUBSET objs
  /\ unloading = {} /\ killed = {} /\ ran = Loaded

(* A process opens a device of a loaded driver: IRP_MJ_CREATE must still  *)
(* be the driver's own, and an unloading driver accepts no new open.       *)
OsOpen(d) ==
  /\ d \in objs \ (killed \cup unloading \cup handles)
  /\ handles' = handles \cup {d}
  /\ UNCHANGED <<at, objs, unloading, killed, ran>>

OsClose(d) ==
  /\ d \in handles
  /\ handles' = handles \ {d}
  /\ UNCHANGED <<at, objs, unloading, killed, ran>>

(* A started unload completes once the last handle is gone: the module     *)
(* leaves the list and the object leaves \Driver.                           *)
OsFinishUnload(d) ==
  /\ d \in unloading \ handles
  /\ at' = [at EXCEPT ![BaseOf(d)] = NoDriver]
  /\ objs' = objs \ {d} /\ unloading' = unloading \ {d}
  /\ UNCHANGED <<handles, killed, ran>>

(* A driver never loaded before is loaded at a free base, with or without  *)
(* a driver object of its own.                                             *)
OsLoad(b, d) ==
  /\ at[b] = NoDriver /\ d \notin ran
  /\ at' = [at EXCEPT ![b] = d] /\ ran' = ran \cup {d}
  /\ objs' \in {objs, objs \cup {d}}
  /\ UNCHANGED <<handles, unloading, killed>>

OsNext ==
  /\ \E d \in Drivers :
       \/ OsOpen(d) \/ OsClose(d) \/ OsFinishUnload(d)
       \/ \E b \in Bases : OsLoad(b, d)
  /\ UNCHANGED <<codeVars, target>>

-----------------------------------------------------------------------------
(* envUnloadDriver.                                                        *)

CallInit ==
  /\ n = 0 /\ images = Requested /\ i = 1 /\ tpc = "check"
  /\ obj = NoDriver /\ error_list = << >>
  /\ target = [b \in ToSet(Requested) |-> at[b]]

img == images[i]

(* Lines 241-253: erase the base on success; on failure keep it, and in    *)
(* the last pass append it to error_list.                                  *)
Result(success) ==
  /\ IF success
     THEN images' = RemoveAt(images, i) /\ UNCHANGED <<i, error_list>>
     ELSE /\ images' = images /\ i' = i + 1
          /\ error_list' = IF last THEN Append(error_list, img) ELSE error_list
  /\ tpc' = "check" /\ obj' = NoDriver

(* Lines 175-182: a base with no module loaded has been unloaded.          *)
CheckLoaded ==
  /\ tpc = "check" /\ i <= Len(images)
  /\ \/ at[img] = NoDriver /\ Result(TRUE)
     \/ at[img] # NoDriver /\ tpc' = "find" /\ UNCHANGED <<images, i, error_list, obj>>
  /\ UNCHANGED <<osVars, n, target>>

(* Lines 186-197: the driver object whose driver_start is the base.        *)
FindObject ==
  /\ tpc = "find"
  /\ LET found == {d \in objs : BaseOf(d) = img}
     IN \/ found = {} /\ Result(FALSE)
        \/ \E d \in found : obj' = d /\ tpc' = "close"
                            /\ UNCHANGED <<images, i, error_list>>
  /\ UNCHANGED <<osVars, n, target>>

(* Lines 199-207: close every handle to a device of the driver.            *)
CloseHandles ==
  /\ tpc = "close"
  /\ handles' = handles \ {obj} /\ tpc' = "unload"
  /\ UNCHANGED <<at, objs, unloading, killed, ran, n, images, i, obj,
                 error_list, target>>

(* Mutant: a started unload taken for a success.                           *)
UnloadPendingOk ==
  /\ tpc = "unload"
  /\ \E started \in IF obj \in Loaded THEN BOOLEAN ELSE {FALSE} :
       /\ unloading' = IF started THEN unloading \cup {obj} ELSE unloading
       /\ Result(started)
  /\ killed' = killed \cup {obj}
  /\ UNCHANGED <<at, objs, handles, ran, n, target>>

(* Lines 209-229: unload_driver either starts the unload or refuses (its  *)
(* 'seriously' escalation from pass 15 is ntpp's, not modelled); an       *)
(* object whose image is already gone cannot be unloaded again.  The      *)
(* dispatch routines are overwritten either way, and the call fails       *)
(* either way: a started unload is "pending".                              *)
UnloadAndKill ==
  /\ tpc = "unload"
  /\ \E started \in IF obj \in Loaded THEN BOOLEAN ELSE {FALSE} :
       unloading' = IF started THEN unloading \cup {obj} ELSE unloading
  /\ killed' = killed \cup {obj}
  /\ Result(FALSE)
  /\ UNCHANGED <<at, objs, handles, ran, n, target>>

(* Mutant: the loop ends after pass 19, before any failure is reported.    *)
EndPassEarly ==
  /\ tpc = "check" /\ i > Len(images)
  /\ IF n >= LastAttempt - 1 THEN tpc' = "ret" /\ UNCHANGED <<n, i>>
     ELSE n' = n + 1 /\ i' = 1 /\ UNCHANGED tpc
  /\ UNCHANGED <<osVars, images, obj, error_list, target>>

(* Mutant: the loop bound tested as n > 20, one pass too many.            *)
EndPassPastLast ==
  /\ tpc = "check" /\ i > Len(images)
  /\ IF n > LastAttempt THEN tpc' = "ret" /\ UNCHANGED <<n, i>>
     ELSE n' = n + 1 /\ i' = 1 /\ UNCHANGED tpc
  /\ UNCHANGED <<osVars, images, obj, error_list, target>>

(* Lines 235-256: after the last pass return error_list, else go round.    *)
EndPass ==
  /\ tpc = "check" /\ i > Len(images)
  /\ IF last THEN tpc' = "ret" /\ UNCHANGED <<n, i>>
     ELSE n' = n + 1 /\ i' = 1 /\ UNCHANGED tpc
  /\ UNCHANGED <<osVars, images, obj, error_list, target>>

CodeNext ==
  CheckLoaded \/ FindObject \/ CloseHandles \/ UnloadAndKill \/ EndPass

Init == OsInit /\ CallInit
Next == CodeNext \/ OsNext
Spec == Init /\ [][Next]_vars

-----------------------------------------------------------------------------
TypeOK ==
  /\ at \in [Bases -> Drivers \cup {NoDriver}]
  /\ {objs, handles, unloading, killed, ran} \subseteq SUBSET Drivers
  /\ n \in 0..LastAttempt /\ images \in Seq(Bases) /\ i \in 1..Len(images) + 1
  /\ tpc \in {"check", "find", "close", "unload", "ret"}
  /\ obj \in Drivers \cup {NoDriver} /\ error_list \in Seq(Bases)

(* The returned list names every driver that was asked for and is still  *)
(* loaded: a base leaves the list only when no module is loaded there, so *)
(* a started unload that has not completed ("Unload pending.") is tried   *)
(* again and, in the last pass, reported.                                  *)
UnreportedAreGone ==
  tpc = "ret" =>
    \A b \in DOMAIN target :
      target[b] \in Loaded => b \in ToSet(error_list)

(* A driver whose dispatch routines envUnloadDriver overwrote, and which   *)
(* is still loaded when it returns, has its base in the returned list: no *)
(* driver is silently left loaded answering every IRP with an error.       *)
KilledAccountedFor ==
  tpc = "ret" => \A d \in killed \cap Loaded : BaseOf(d) \in ToSet(error_list)
=============================================================================
