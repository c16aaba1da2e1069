------------------------------- MODULE BiosId -------------------------------
(***************************************************************************)
(* hwid::get_bios_identifiers (src/hwid/bios.cpp) and its caller           *)
(* hwidCollectCpuBios (src/hwid.cpp).  get_bios_identifiers maps the BIOS  *)
(* space 0xE0000-0xFFFFF (and fails if it cannot), scans it for the first *)
(* VM vendor string, then looks for SMBIOS entry points: every paragraph  *)
(* of the F segment for the "_SM3_" anchor, then every paragraph for      *)
(* "_SM_".  An entry point that lies inside the space and has a good      *)
(* checksum is handed to parse_smbios, and so, last, is the table WMIp    *)
(* saved at boot.  parse_smbios folds the entries of a table into the     *)
(* result; its status is shared by all calls, and once a call succeeded   *)
(* the later ones return at once.  A table that cannot be mapped or       *)
(* parsed, or has no entries, sets a failure status.  The result is       *)
(* returned unless no table parsed and nothing else was detected.         *)
(*                                                                         *)
(* Positions are paragraph numbers 1..P of the F segment; sizes are in    *)
(* bytes.  A table is "fail" (too short, unmappable, unparsable), "empty" *)
(* or "good"; which identifiers a good table holds is not modelled.       *)
(* Characters stand for their case-folded value: make_ahash compares them *)
(* so, and two equal hashes are taken for equal strings.                  *)
(***************************************************************************)
EXTENDS Naturals, Sequences, SequencesExt

CONSTANTS
  P,         \* paragraphs of the F segment (0x1000 in the code)
  LongEp,    \* an ep_length larger than the entry point structure
  Alphabet,  \* characters of the BIOS space
  VmIds,     \* vm_ids, a sequence of strings
  SpaceLen   \* bios_space_length, for the VM string scan

ASSUME /\ P \in Nat \ {0} /\ LongEp \in Nat
       /\ VmIds \in Seq(Seq(Alphabet)) /\ SpaceLen \in Nat

Para == 16
Anchors == <<"_SM3_", "_SM_">>                  \* entry_points, in order
EpSize == ("_SM3_" :> 24) @@ ("_SM_" :> 31)    \* sizeof entry_point_v3 / _v2
LastScanned == P - 1                            \* n <= high - 0x10
Wmip == <<3, 0>>                                \* the WMIp source

Outcomes == {"fail", "empty", "good"}
NoAnchor == [anchor |-> "none", len |-> 0, sum |-> FALSE, table |-> "fail"]
(* What a paragraph can hold: no anchor, or an entry point with its        *)
(* ep_length, whether its checksum holds, and the table it points to.     *)
Entries ==
  {NoAnchor} \cup
  {e \in UNION {[anchor : {a}, len : {EpSize[a], LongEp}, sum : BOOLEAN,
                 table : Outcomes] : a \in {"_SM3_", "_SM_"}} :
     e.sum \/ e.table = "fail"}
Wmips == {[addr |-> "zero", table |-> "fail"]}
           \cup [addr : {"low", "high"}, table : Outcomes]

Spaces == [1..SpaceLen -> Alphabet]

VARIABLES
  para, wmip,     \* the firmware: the F segment's paragraphs, WMIp's table
  pc, ai, k,      \* control; the anchor and paragraph being scanned
  mapped,         \* bios_space was mapped
  status,         \* last_smbios_status
  tables,         \* the sources whose entries were folded into result
  isVm, tampered, \* result.is_vm, result.is_tampered
  ret,            \* what get_bios_identifiers returned
  flags, biosError \* hwidCollectCpuBios' packet

vars == <<para, wmip, pc, ai, k, mapped, status, tables, isVm, tampered, ret,
          flags, biosError>>

-----------------------------------------------------------------------------
(* The VM string scan of lines 157-170.                                    *)

(* Mutant: the bound check written with >=.                               *)
MatchAtPastEnd(s, n, id) ==
  n + Len(id) < Len(s) /\ SubSeq(s, n + 1, n + Len(id)) = id

(* Lines 162-164: skip an id that would run past the space, else compare. *)
MatchAt(s, n, id) ==
  n + Len(id) <= Len(s) /\ SubSeq(s, n + 1, n + Len(id)) = id

(* From offset n on, the first id (in vm_ids order) that matches at the    *)
(* lowest offset; the loop ends when one is found.                         *)
RECURSIVE ScanFrom(_, _)
ScanFrom(s, n) ==
  IF n = Len(s) THEN << >>
  ELSE LET j == SelectInSeq(VmIds, LAMBDA id : MatchAt(s, n, id))
       IN  IF j # 0 THEN VmIds[j] ELSE ScanFrom(s, n + 1)

ScanVm(s) == ScanFrom(s, 0)
VmResults == {ScanVm(s) : s \in Spaces}

-----------------------------------------------------------------------------
(* get_bios_identifiers.                                                   *)

Init ==
  /\ para \in [1..P -> Entries] /\ wmip \in Wmips
  /\ pc = "map" /\ ai = 1 /\ k = 1 /\ mapped = FALSE
  /\ status = "fail" /\ tables = << >>     \* xstd::result<> {} is no success
  /\ isVm = << >> /\ tampered = FALSE
  /\ ret = "none" /\ flags = {} /\ biosError = FALSE

(* Mutant: no "skip if already parsed".                                   *)
ParseSmbiosNoLatch(src, table) ==
  /\ status' = IF table = "good" THEN "ok" ELSE "fail"
  /\ tables' = IF table = "good" THEN Append(tables, src) ELSE tables

(* parse_smbios (lines 70-146): return if a table already parsed; a range  *)
(* too short, a failed mapping, a failed parse or an empty table sets a   *)
(* failure; a parsed table's entries go into result.                      *)
ParseSmbios(src, table) ==
  IF status = "ok" THEN UNCHANGED <<status, tables>>
  ELSE /\ status' = IF table = "good" THEN "ok" ELSE "fail"
       /\ tables' = IF table = "good" THEN Append(tables, src) ELSE tables

(* Lines 150-152: map the BIOS space or return an error.                  *)
MapSpace ==
  /\ pc = "map"
  /\ \E ok \in BOOLEAN :
       /\ mapped' = ok
       /\ IF ok THEN pc' = "vm" /\ UNCHANGED ret
                ELSE pc' = "collect" /\ ret' = "error"
  /\ UNCHANGED <<para, wmip, ai, k, status, tables, isVm, tampered, flags,
                 biosError>>

(* Lines 157-170, whatever the space holds.                               *)
VmScan ==
  /\ pc = "vm"
  /\ \E v \in VmResults : isVm' = v
  /\ pc' = "anchor"
  /\ UNCHANGED <<para, wmip, ai, k, mapped, status, tables, tampered, ret,
                 flags, biosError>>

(* Lines 185-186 and 195-196: the structure and ep_length bytes from the  *)
(* anchor lie inside the space.                                            *)
InSpace(n, e) ==
  /\ (n - 1) * Para + EpSize[e.anchor] <= P * Para
  /\ (n - 1) * Para + e.len <= P * Para

(* Mutant: the anchor loop runs to n <= high.                             *)
AnchorStepToHigh ==
  /\ pc = "anchor"
  /\ LET e == para[k] IN
       IF e.anchor = Anchors[ai] /\ InSpace(k, e) /\ e.sum
         THEN ParseSmbios(<<ai, k>>, e.table)
         ELSE UNCHANGED <<status, tables>>
  /\ IF k < P THEN k' = k + 1 /\ UNCHANGED <<ai, pc>>
     ELSE IF ai < Len(Anchors) THEN ai' = ai + 1 /\ k' = 1 /\ UNCHANGED pc
     ELSE pc' = "wmip" /\ UNCHANGED <<ai, k>>
  /\ UNCHANGED <<para, wmip, mapped, isVm, tampered, ret, flags, biosError>>

(* Lines 174-204, one paragraph n of one anchor: on a match whose entry    *)
(* point lies inside the space and passes its checksum, parse_smbios.      *)
AnchorStep ==
  /\ pc = "anchor"
  /\ LET e == para[k] IN
       IF e.anchor = Anchors[ai] /\ InSpace(k, e) /\ e.sum
         THEN ParseSmbios(<<ai, k>>, e.table)
         ELSE UNCHANGED <<status, tables>>
  /\ IF k < LastScanned THEN k' = k + 1 /\ UNCHANGED <<ai, pc>>
     ELSE IF ai < Len(Anchors) THEN ai' = ai + 1 /\ k' = 1 /\ UNCHANGED pc
     ELSE pc' = "wmip" /\ UNCHANGED <<ai, k>>
  /\ UNCHANGED <<para, wmip, mapped, isVm, tampered, ret, flags, biosError>>

(* Lines 209-216: a saved table above 4 GB marks the result tampered, and  *)
(* the table is parsed in any case.                                       *)
WmipParse ==
  /\ pc = "wmip"
  /\ IF wmip.addr = "zero" THEN UNCHANGED <<status, tables, tampered>>
     ELSE /\ tampered' = (wmip.addr = "high")
          /\ ParseSmbios(Wmip, wmip.table)
  /\ pc' = "return"
  /\ UNCHANGED <<para, wmip, ai, k, mapped, isVm, ret, flags, biosError>>

(* Lines 220-229: read the CMOS serial; return the last status if nothing  *)
(* parsed or was detected, else the result.                                *)
Return ==
  /\ pc = "return"
  /\ ret' = IF isVm = << >> /\ ~tampered /\ status = "fail"
              THEN "error" ELSE "result"
  /\ pc' = "collect"
  /\ UNCHANGED <<para, wmip, ai, k, mapped, status, tables, isVm, tampered,
                 flags, biosError>>

(* hwidCollectCpuBios, lines 321-352: on a result, the tamper and VM       *)
(* flags and the identifiers; on an error, "biosError".                    *)
CollectCpuBios ==
  /\ pc = "collect"
  /\ biosError' = (ret = "error")
  /\ flags' = IF ret = "error" THEN {}
              ELSE (IF tampered THEN {"spoofing.smbiosTampered"} ELSE {})
                   \cup (IF isVm # << >> THEN {"vm.smbiosType1"} ELSE {})
  /\ pc' = "done"
  /\ UNCHANGED <<para, wmip, ai, k, mapped, status, tables, isVm, tampered,
                 ret>>

Next ==
  MapSpace \/ VmScan \/ AnchorStep \/ WmipParse \/ Return \/ CollectCpuBios

Spec == Init /\ [][Next]_vars

-----------------------------------------------------------------------------
TypeOK ==
  /\ para \in [1..P -> Entries] /\ wmip \in Wmips
  /\ pc \in {"map", "vm", "anchor", "wmip", "return", "collect", "done"}
  /\ ai \in DOMAIN Anchors /\ k \in 1..LastScanned
  /\ mapped \in BOOLEAN /\ status \in {"fail", "ok"}
  /\ tables \in Seq(((DOMAIN Anchors) \X (1..P)) \cup {Wmip})
  /\ isVm \in Seq(Alphabet) /\ {tampered, biosError} \subseteq BOOLEAN
  /\ ret \in {"none", "error", "result"}

(* The sources that offer a parsable, non-empty table, and the order the  *)
(* code is meant to prefer them in: SMBIOS 3 anchors before SMBIOS 2      *)
(* ones, lower paragraphs first, the WMIp copy last.                      *)
GoodSources ==
  {<<j, n>> \in (DOMAIN Anchors) \X (1..P) :
     LET e == para[n] IN
       e.anchor = Anchors[j] /\ e.sum /\ e.table = "good"
       /\ (n - 1) * Para + EpSize[e.anchor] <= P * Para
       /\ (n - 1) * Para + e.len <= P * Para}
  \cup (IF wmip.addr # "zero" /\ wmip.table = "good" THEN {Wmip} ELSE {})
Before(s, t) == s[1] < t[1] \/ (s[1] = t[1] /\ s[2] < t[2])

(* One table, the preferred one: once the BIOS space is mapped, the        *)
(* identifiers hwidCollectCpuBios reports are those of exactly the first   *)
(* good source -- no later table's entries are merged in (the "already     *)
(* parsed" latch), an empty or broken earlier table does not stop the      *)
(* search, and the paragraph the anchor loop leaves out loses nothing --   *)
(* and none when no source offers one.                                     *)
FirstGoodTableUsed ==
  pc = "done" /\ mapped =>
    tables = IF GoodSources = {} THEN << >>
             ELSE <<CHOOSE s \in GoodSources :
                      \A t \in GoodSources \ {s} : Before(s, t)>>

(* Where id j of vm_ids occurs in s, character by character.               *)
Occurs(s, n, j) ==
  /\ n + Len(VmIds[j]) <= Len(s)
  /\ \A i \in 1..Len(VmIds[j]) : s[n + i] = VmIds[j][i]
FirstVmId(s) ==
  LET hits == {h \in (0..Len(s)) \X (DOMAIN VmIds) : Occurs(s, h[1], h[2])}
  IN  IF hits = {} THEN << >>
      ELSE VmIds[(CHOOSE h \in hits : \A g \in hits \ {h} : Before(h, g))[2]]
VmScanAgrees == \A s \in Spaces : ScanVm(s) = FirstVmId(s)

(* The VM string scan finds, in every BIOS space, the vendor string that   *)
(* occurs at the lowest offset (the first of vm_ids among those there),   *)
(* including one that ends at the last byte, and nothing where none       *)
(* occurs.  Checked when the scan is about to run.                         *)
VmScanCorrect == pc = "vm" => VmScanAgrees
=============================================================================
