---------------------------- MODULE AhciIdentify ----------------------------
(***************************************************************************)
(* ahci::identify (src/hwid/ahci.hpp) issues an ATA IDENTIFY on every      *)
(* implemented port of an AHCI controller whose command lists the          *)
(* operating system's storage driver owns.  For each port it reads PxCI,   *)
(* takes the lowest slot whose bit is clear, writes its command into the   *)
(* header of slot 0 of the port's command list, sets the chosen slot's bit *)
(* in PxCI and waits up to 100 ms for the bit to clear.                    *)
(*                                                                         *)
(* The HBA and the driver are the environment.  The HBA runs an issued     *)
(* slot by executing whatever header that slot holds when it gets to it,   *)
(* then clears the slot's PxCI bit; PxCI bits are set by writing 1 and a  *)
(* written 0 has no effect.  The driver, on other cores, issues commands  *)
(* on slots its own bookkeeping shows free (it does not read PxCI) and     *)
(* reaps those the HBA has finished.  A port's device may be slow to       *)
(* answer.  SActive is folded into PxCI: both mark slots in use.           *)
(***************************************************************************)
EXTENDS Naturals, FiniteSets

CONSTANTS
  Ports,        \* implemented ports (bits of ports_implemented)
  N,            \* command slots of a port
  MaxOsIssues   \* commands the driver issues while identify runs

ASSUME N \in 1..31 /\ MaxOsIssues \in Nat /\ Ports \subseteq Nat

Slots == 0..(N - 1)

(* The slots lsb(~(sata_active | command_issue)) can return: the word is  *)
(* 32 bits wide, so with fewer than 32 slots implemented a full port      *)
(* yields N, an unimplemented slot whose PxCI bit is reserved (reads 0,    *)
(* writes ignored), and slot == -1 never happens.                          *)
Picks == 0..N
MinOf(S) == CHOOSE x \in S : \A y \in S : x <= y

(* Outcomes of the controller checks of lines 27-47, all returning true.   *)
HbaStates == {"ok", "noAbar", "unmapped", "allOnes", "notAhci"}

VARIABLES
  hba,       \* outcome of the controller checks
  sig,       \* port signature is not 0xFFFFFFFF
  clOk,      \* port's command list base is non-null, aligned and mappable
  ci,        \* PxCI of each port
  hdr,       \* command headers: "os" (a driver command) or "id" (ours)
  osOut,     \* slots the driver has issued and not yet reaped
  osLive,    \* slots holding a driver command the HBA has not yet run
  aready,    \* the port's device answers
  idata,     \* id->identity: {} while zero, else {the port whose IDENTIFY filled it}
  osIssues,  \* driver commands issued so far
  apc, todo, aport, aslot, afail, aret, afound

ahciVars == <<hba, sig, clOk, ci, hdr, osOut, osLive, aready, idata, osIssues,
              apc, todo, aport, aslot, afail, aret, afound>>
portVars == <<ci, hdr, osOut, osLive, aready, idata, osIssues>>
ahciLocals == <<apc, todo, aport, aslot, afail, aret>>

PortInit ==
  /\ sig \in [Ports -> BOOLEAN] /\ clOk \in [Ports -> BOOLEAN]
  /\ osOut \in [Ports -> SUBSET Slots]
  /\ ci \in {c \in [Ports -> SUBSET Slots] : \A p \in Ports : c[p] \subseteq osOut[p]}
  /\ osLive = ci
  /\ hdr = [p \in Ports |-> [s \in Slots |-> "os"]]
  /\ aready \in [Ports -> BOOLEAN] /\ idata = {} /\ osIssues = 0

CallInit ==
  /\ hba \in HbaStates /\ apc = "idle" /\ todo = {} /\ aport = 0 /\ aslot = 0
  /\ afail = FALSE /\ aret = FALSE /\ afound = {}

-----------------------------------------------------------------------------
(* The HBA and the driver.                                                 *)

HbaRun(p, s) ==
  /\ aready[p] /\ s \in ci[p]
  /\ ci' = [ci EXCEPT ![p] = @ \ {s}]
  /\ osLive' = [osLive EXCEPT ![p] = @ \ {s}]
  /\ idata' = IF hdr[p][s] = "id" THEN {p} ELSE idata
  /\ UNCHANGED <<hdr, osOut, aready, osIssues>>

DeviceReady(p) ==
  /\ ~aready[p] /\ aready' = [aready EXCEPT ![p] = TRUE]
  /\ UNCHANGED <<ci, hdr, osOut, osLive, idata, osIssues>>

OsIssue(p, s) ==
  /\ osIssues < MaxOsIssues /\ s \notin osOut[p]
  /\ hdr' = [hdr EXCEPT ![p][s] = "os"]
  /\ ci' = [ci EXCEPT ![p] = @ \cup {s}]
  /\ osOut' = [osOut EXCEPT ![p] = @ \cup {s}]
  /\ osLive' = [osLive EXCEPT ![p] = @ \cup {s}]
  /\ osIssues' = osIssues + 1
  /\ UNCHANGED <<aready, idata>>

OsReap(p, s) ==
  /\ s \in osOut[p] /\ s \notin ci[p]
  /\ osOut' = [osOut EXCEPT ![p] = @ \ {s}]
  /\ UNCHANGED <<ci, hdr, osLive, aready, idata, osIssues>>

PortNext ==
  /\ \E p \in Ports :
       \/ DeviceReady(p)
       \/ \E s \in Slots : HbaRun(p, s) \/ OsIssue(p, s) \/ OsReap(p, s)
  /\ UNCHANGED <<hba, sig, clOk, ahciLocals, afound>>

-----------------------------------------------------------------------------
(* ahci::identify.                                                         *)

(* Lines 27-52: the controller checks, then bit_enum over the ports.       *)
AProbe ==
  /\ apc = "probe"
  /\ IF hba = "ok" THEN apc' = "port" /\ todo' = Ports /\ UNCHANGED aret
     ELSE apc' = "done" /\ aret' = TRUE /\ UNCHANGED todo
  /\ afail' = FALSE
  /\ UNCHANGED <<portVars, hba, sig, clOk, aport, aslot, afound>>

(* Lines 56-86 for the lowest remaining port: skip it on a bad signature, *)
(* else take the lowest clear bit and validate the command list; a bad    *)
(* list sets fail.                                                         *)
APick ==
  /\ apc = "port" /\ todo # {}
  /\ LET p == MinOf(todo) IN
     /\ aport' = p
     /\ todo' = todo \ {p}
     /\ IF sig[p] /\ clOk[p]
        THEN apc' = "issue" /\ aslot' = MinOf(Picks \ ci[p]) /\ UNCHANGED afail
        ELSE apc' = "port" /\ aslot' = aslot /\ afail' = (afail \/ sig[p])
  /\ UNCHANGED <<portVars, hba, sig, clOk, aret, afound>>

(* Lines 88-120: zero the request, write the IDENTIFY into the header of   *)
(* slot 0, set the chosen slot's bit (a reserved bit stays 0).             *)
AIssue ==
  /\ apc = "issue"
  /\ idata' = {}
  /\ hdr' = [hdr EXCEPT ![aport][0] = "id"]
  /\ ci' = [ci EXCEPT ![aport] = @ \cup ({aslot} \cap Slots)]
  /\ apc' = "wait"
  /\ UNCHANGED <<osOut, osLive, aready, osIssues, hba, sig, clOk, todo, aport, aslot,
                 afail, aret, afound>>

(* Lines 124-144: the bit cleared in time, or the deadline passed (the HBA *)
(* cannot run the slot) and the bit is written 0, which leaves it set.     *)
(* An identifier is inserted when model and serial are non-empty.          *)
AWait ==
  /\ apc = "wait"
  /\ aslot \notin ci[aport] \/ ~aready[aport]
  /\ afound' = IF aslot \notin ci[aport]
               THEN afound \cup {<<aport, d>> : d \in idata} ELSE afound
  /\ apc' = "port"
  /\ UNCHANGED <<portVars, hba, sig, clOk, todo, aport, aslot, afail, aret>>

(* Line 146: every port done, return fail.                                 *)
AReturn ==
  /\ apc = "port" /\ todo = {}
  /\ apc' = "done" /\ aret' = afail
  /\ UNCHANGED <<portVars, hba, sig, clOk, todo, aport, aslot, afail, afound>>

AhciStep == AProbe \/ APick \/ AIssue \/ AWait \/ AReturn

-----------------------------------------------------------------------------
TypeOK ==
  /\ hba \in HbaStates /\ sig \in [Ports -> BOOLEAN] /\ clOk \in [Ports -> BOOLEAN]
  /\ ci \in [Ports -> SUBSET Slots] /\ osOut \in [Ports -> SUBSET Slots]
  /\ osLive \in [Ports -> SUBSET Slots] /\ aready \in [Ports -> BOOLEAN]
  /\ hdr \in [Ports -> [Slots -> {"os", "id"}]]
  /\ idata \subseteq Ports /\ osIssues \in 0..MaxOsIssues
  /\ apc \in {"idle", "probe", "port", "issue", "wait", "done"}
  /\ todo \subseteq Ports /\ aslot \in Picks /\ afound \subseteq Ports \X Ports
  /\ {afail, aret} \subseteq BOOLEAN

(* Whenever the HBA runs a slot, the header it runs is a driver command   *)
(* exactly when the driver issued that slot and it has not run yet:       *)
(* identify neither replaces a driver command in flight nor makes the HBA *)
(* run an old driver command a second time.                               *)
OsCommandsIntact ==
  [][\A p \in Ports, s \in Slots :
       s \in ci[p] /\ s \notin ci'[p] => (hdr[p][s] = "os" <=> s \in osLive[p])]_ahciVars
=============================================================================
