---------------------------- MODULE NvmeIdentify ----------------------------
(***************************************************************************)
(* nvme::identify (src/hwid/nvme.hpp) borrows the admin queue pair of an   *)
(* NVMe controller that the operating system's driver owns.  With this     *)
(* core's interrupts off it guesses where the driver left the queues from  *)
(* the phase tags of the completion queue, fills the whole submission      *)
(* queue with Identify commands and rings the tail doorbell once (twice if *)
(* no answer came), then fills it with no-ops and rewinds the tail         *)
(* doorbell so that the controller runs around the ring back to where the  *)
(* driver left it, and rewinds the head doorbell.                          *)
(*                                                                         *)
(* The controller is the environment: it follows the NVMe base            *)
(* specification for one queue pair.  It executes the submission entry at  *)
(* its head while head # tail and the completion queue has room, posting a *)
(* completion carrying its phase tag (inverted on every pass through the   *)
(* ring) and its new submission head.  It may also complete one of the    *)
(* asynchronous event requests the driver keeps outstanding, and it may be *)
(* slow: not ready until some later step.  A doorbell value it cannot      *)
(* accept is ignored and reported as an error.                             *)
(*                                                                         *)
(* The initial state is the queue pair as the driver leaves it after any   *)
(* number of completed commands: the driver's tail, head and expected      *)
(* phase agree with the controller, and aer requests are outstanding,      *)
(* submitted before or after the latest completion was posted.            *)
(***************************************************************************)
EXTENDS Naturals, FiniteSets

CONSTANTS
  L,         \* aqs_len = aqc_len, the entries of the admin queues
  MaxAer,    \* asynchronous event requests the driver keeps outstanding
  Garbage    \* values aqc[-1].submit_head, read from outside the mapping, may have

ASSUME L \in Nat /\ L >= 2 /\ MaxAer \in Nat /\ Garbage \subseteq Nat

Slots == 0..(L - 1)

(* Outcomes of the register checks before the queues are touched (lines    *)
(* 22-65): the first four return true (retry), the others false.           *)
BarStates == {"ok", "noMbar", "unmapped", "allOnes", "disabled",
              "sizeMismatch", "queuesUnmapped"}
RetryBars == {"noMbar", "unmapped", "allOnes", "disabled"}

None == [ph |-> 0, sqhd |-> 0, cmd |-> "none"]

VARIABLES
  sq, sqHead, sqTail,        \* submission queue entries, controller head, tail doorbell
  cq, cqTail, cqPh, cqHead,  \* completion queue entries, controller tail and phase, head doorbell
  aer,                       \* asynchronous event requests outstanding
  ready,                     \* the controller processes commands
  idData,                    \* id_space[4] != 0: Identify data has been written
  dbError,                   \* the controller has rejected a doorbell write
  os,                        \* the driver's own tail, head, phase and outstanding requests,
                             \* and whether the controller answered when the call began
  bar, npc, prevS, prevC, idComplete, wrce, wrcePrev, nret

nvmeVars == <<sq, sqHead, sqTail, cq, cqTail, cqPh, cqHead, aer, ready,
              idData, dbError, os, bar, npc, prevS, prevC, idComplete, wrce,
              wrcePrev, nret>>
ctrlVars == <<sq, sqHead, sqTail, cq, cqTail, cqPh, cqHead, aer, ready,
              idData, dbError, os>>
localVars == <<bar, npc, prevS, prevC, idComplete, wrce, wrcePrev, nret>>

(* Phase tag of the j-th completion ever posted (the first pass writes 1). *)
PhaseOf(j) == IF (j \div L) % 2 = 0 THEN 1 ELSE 0

(* The completion queue after k completions, a requests outstanding.      *)
History(k, a, late) ==
  [i \in Slots |->
     IF i >= k THEN None
     ELSE LET j == k - 1 - ((k - 1 - i) % L)
          IN [ph |-> PhaseOf(j), sqhd |-> (j + 1 + (IF late THEN 0 ELSE a)) % L,
              cmd |-> "os"]]

ControllerInit ==
  \E k \in 0..(2 * L - 1), a \in 0..MaxAer, late \in BOOLEAN :
    /\ a < L /\ (late => a > 0 /\ k > 0)
    /\ sq = [i \in Slots |-> "os"]
    /\ sqHead = (k + a) % L /\ sqTail = (k + a) % L
    /\ cq = History(k, a, late) /\ cqTail = k % L /\ cqPh = PhaseOf(k)
    /\ cqHead = k % L
    /\ aer = a /\ ready \in BOOLEAN /\ idData = FALSE /\ dbError = FALSE
    /\ os = [sqTail |-> (k + a) % L, cqHead |-> k % L, ph |-> PhaseOf(k),
            aer |-> a, late |-> late, ready |-> ready]

CallInit ==
  /\ bar \in BarStates /\ npc = "idle"
  /\ prevS = 0 /\ prevC = 0 /\ idComplete = FALSE /\ wrce = 0 /\ wrcePrev = 0
  /\ nret = FALSE

-----------------------------------------------------------------------------
(* The controller.                                                         *)

CqFull == (cqTail + 1) % L = cqHead

Post(e) ==
  /\ cq' = [cq EXCEPT ![cqTail] = e]
  /\ cqTail' = (cqTail + 1) % L
  /\ cqPh' = IF cqTail = L - 1 THEN 1 - cqPh ELSE cqPh

CanExecute == ready /\ sqHead # sqTail /\ ~CqFull

Execute ==
  /\ CanExecute
  /\ Post([ph |-> cqPh, sqhd |-> (sqHead + 1) % L, cmd |-> sq[sqHead]])
  /\ sqHead' = (sqHead + 1) % L
  /\ idData' = (idData \/ sq[sqHead] = "id")
  /\ UNCHANGED <<sq, sqTail, cqHead, aer, ready, dbError, os>>

AsyncEvent ==
  /\ ready /\ aer > 0 /\ ~CqFull
  /\ Post([ph |-> cqPh, sqhd |-> sqHead, cmd |-> "aer"])
  /\ aer' = aer - 1
  /\ UNCHANGED <<sq, sqHead, sqTail, cqHead, ready, idData, dbError, os>>

BecomeReady ==
  /\ ~ready /\ ready' = TRUE
  /\ UNCHANGED <<sq, sqHead, sqTail, cq, cqTail, cqPh, cqHead, aer, idData,
                 dbError, os>>

ControllerNext == (Execute \/ AsyncEvent \/ BecomeReady) /\ UNCHANGED localVars

(* Doorbell writes: a tail must name a slot; a head may only release      *)
(* entries the controller has posted.                                      *)
TailDoorbell(v) ==
  IF v \in Slots THEN sqTail' = v /\ dbError' = dbError
  ELSE sqTail' = sqTail /\ dbError' = TRUE

HeadDoorbell(v) ==
  IF v \in Slots /\ (v + L - cqHead) % L <= (cqTail + L - cqHead) % L
  THEN cqHead' = v /\ dbError' = dbError
  ELSE cqHead' = cqHead /\ dbError' = TRUE

-----------------------------------------------------------------------------
(* nvme::identify.                                                         *)

(* The lambda queue_index: only aqc_len itself wraps to 0.                 *)
queue_index(x) == IF x = L THEN 0 ELSE x

(* The first entry whose phase differs from entry 0's, or 0 if none does.  *)
FlipPos ==
  LET d == {n \in 1..(L - 1) : cq[n].ph # cq[0].ph}
  IN IF d = {} THEN 0 ELSE CHOOSE n \in d : \A m \in d : n <= m

(* Lines 22-65: the register checks and their early returns.               *)
Probe ==
  /\ npc = "probe"
  /\ IF bar = "ok" THEN npc' = "issue" /\ UNCHANGED nret
     ELSE npc' = "done" /\ nret' = (bar \in RetryBars)
  /\ UNCHANGED <<ctrlVars, bar, prevS, prevC, idComplete, wrce, wrcePrev>>

(* Mutant: fill_command_queue writing one entry past the queue.           *)
IssueFillPastEnd ==
  /\ npc = "issue"
  /\ prevC' = FlipPos
  /\ \E s \in IF FlipPos = 0 THEN Garbage ELSE {cq[FlipPos - 1].sqhd} :
       /\ prevS' = s
       /\ TailDoorbell(queue_index(s + 1))
  /\ sq' = [i \in 0..L |-> "id"]
  /\ idData' = FALSE
  /\ npc' = "wait1"
  /\ UNCHANGED <<sqHead, cq, cqTail, cqPh, cqHead, aer, ready, os, bar,
                 idComplete, wrce, wrcePrev, nret>>

(* Mutant: prev_s_tail read from aqc[flip_pos] instead of aqc[flip_pos-1]. *)
IssueWrongEntry ==
  /\ npc = "issue"
  /\ prevC' = FlipPos
  /\ \E s \in {cq[FlipPos].sqhd} :
       /\ prevS' = s
       /\ TailDoorbell(queue_index(s + 1))
  /\ sq' = [i \in Slots |-> "id"]
  /\ idData' = FALSE
  /\ npc' = "wait1"
  /\ UNCHANGED <<sqHead, cq, cqTail, cqPh, cqHead, aer, ready, os, bar,
                 idComplete, wrce, wrcePrev, nret>>

(* Lines 72-124: zero id_space, guess prev_c_head and prev_s_tail, fill    *)
(* the queue with Identify and ring the tail doorbell.  With flip_pos = 0  *)
(* the submission head is read from aqc[-1].                               *)
Issue ==
  /\ npc = "issue"
  /\ prevC' = FlipPos
  /\ \E s \in IF FlipPos = 0 THEN Garbage ELSE {cq[FlipPos - 1].sqhd} :
       /\ prevS' = s
       /\ TailDoorbell(queue_index(s + 1))
  /\ sq' = [i \in Slots |-> "id"]
  /\ idData' = FALSE
  /\ npc' = "wait1"
  /\ UNCHANGED <<sqHead, cq, cqTail, cqPh, cqHead, aer, ready, os, bar,
                 idComplete, wrce, wrcePrev, nret>>

(* util::upause returns when its condition holds, or at its deadline; the *)
(* controller answers well inside 100 ms unless it cannot proceed.         *)
Upause(cond) == cond \/ ~CanExecute

(* Lines 129-134: wait for the data, acknowledge one completion.           *)
Wait1 ==
  /\ npc = "wait1" /\ Upause(idData)
  /\ idComplete' = idData
  /\ HeadDoorbell(queue_index(prevC + 1))
  /\ npc' = IF idData THEN "nop" ELSE "reissue"
  /\ UNCHANGED <<sq, sqHead, sqTail, cq, cqTail, cqPh, aer, ready, idData, os,
                 bar, prevS, prevC, wrce, wrcePrev, nret>>

(* Lines 138-141: ring the tail doorbell one further.                      *)
Reissue ==
  /\ npc = "reissue"
  /\ TailDoorbell(queue_index(prevS + 2))
  /\ npc' = "wait2"
  /\ UNCHANGED <<sq, sqHead, cq, cqTail, cqPh, cqHead, aer, ready, idData, os,
                 bar, prevS, prevC, idComplete, wrce, wrcePrev, nret>>

(* Lines 142-144: wait again, acknowledge a second completion.             *)
Wait2 ==
  /\ npc = "wait2" /\ Upause(idData)
  /\ idComplete' = idData
  /\ HeadDoorbell(queue_index(prevC + 2))
  /\ npc' = "nop"
  /\ UNCHANGED <<sq, sqHead, sqTail, cq, cqTail, cqPh, aer, ready, idData, os,
                 bar, prevS, prevC, wrce, wrcePrev, nret>>

(* Mutant: the tail doorbell rewound to prev_s_tail + 1, as on issue.     *)
NopFillTailOffByOne ==
  /\ npc = "nop"
  /\ sq' = [i \in Slots |-> "nop"]
  /\ wrce' = IF prevC # 0 THEN prevC - 1 ELSE L - 1
  /\ wrcePrev' = cq[IF prevC # 0 THEN prevC - 1 ELSE L - 1].ph
  /\ TailDoorbell(queue_index(prevS + 1))
  /\ npc' = "wrap"
  /\ UNCHANGED <<sqHead, cq, cqTail, cqPh, cqHead, aer, ready, idData, os,
                 bar, prevS, prevC, idComplete, nret>>

(* Lines 149-160: fill the queue with no-ops, note the phase of the entry  *)
(* before prev_c_head, rewind the tail doorbell to prev_s_tail.            *)
NopFill ==
  /\ npc = "nop"
  /\ sq' = [i \in Slots |-> "nop"]
  /\ wrce' = IF prevC # 0 THEN prevC - 1 ELSE L - 1
  /\ wrcePrev' = cq[IF prevC # 0 THEN prevC - 1 ELSE L - 1].ph
  /\ TailDoorbell(queue_index(prevS))
  /\ npc' = "wrap"
  /\ UNCHANGED <<sqHead, cq, cqTail, cqPh, cqHead, aer, ready, idData, os,
                 bar, prevS, prevC, idComplete, nret>>

(* Lines 164-188 and 198-210: wait for that entry's phase to flip, rewind  *)
(* the head doorbell, re-enable interrupts and return; an identifier is    *)
(* inserted when the Identify data arrived.                                *)
Wrap ==
  /\ npc = "wrap" /\ Upause(cq[wrce].ph # wrcePrev)
  /\ HeadDoorbell(queue_index(prevC))
  /\ nret' = ~idComplete
  /\ npc' = "done"
  /\ UNCHANGED <<sq, sqHead, sqTail, cq, cqTail, cqPh, aer, ready, idData, os,
                 bar, prevS, prevC, idComplete, wrce, wrcePrev>>

IdentifyStep == Probe \/ Issue \/ Wait1 \/ Reissue \/ Wait2 \/ NopFill \/ Wrap

-----------------------------------------------------------------------------
Commands == {"os", "id", "nop", "aer", "none"}
Entries == [ph : {0, 1}, sqhd : Slots, cmd : Commands]

TypeOK ==
  /\ sq \in [Slots -> Commands] /\ cq \in [Slots -> Entries]
  /\ {sqHead, sqTail, cqTail, cqHead} \subseteq Slots
  /\ cqPh \in {0, 1} /\ aer \in 0..MaxAer
  /\ {ready, idData, dbError, idComplete, nret} \subseteq BOOLEAN
  /\ npc \in {"idle", "probe", "issue", "wait1", "reissue", "wait2", "nop",
              "wrap", "done"}
  /\ prevC \in Slots /\ prevS \in Slots \cup Garbage /\ wrce \in Slots

(* The guess of lines 89-100 is right when the driver's head is not at    *)
(* slot 0 and no request completed since the driver last looked, its      *)
(* outstanding requests having been submitted before the latest          *)
(* completion: prev_c_head is then the driver's head and prev_s_tail its  *)
(* tail.                                                                   *)
GuessRight ==
  [][Issue /\ os.cqHead # 0 /\ ~os.late /\ aer = os.aer
       => prevC' = os.cqHead /\ prevS' = os.sqTail]_nvmeVars

(* When the guess was right, no request completed during the call and   *)
(* the controller was answering when it began, the arithmetic of lines    *)
(* 123-168 (queue_index, the acknowledgement, the no-op lap and the       *)
(* wrap-around entry) returns both doorbells to the driver's values and   *)
(* leaves the controller with nothing to run and its completion tail at   *)
(* the driver's head.  (A controller that answers only after the first    *)
(* deadline rejects the acknowledgement of line 133 and is left with a    *)
(* full completion queue.)                                                *)
RestoredWhenGuessRight ==
  npc = "done" /\ bar = "ok" /\ prevC # 0 /\ prevC = os.cqHead /\ prevS = os.sqTail
    /\ aer = os.aer /\ os.ready
    => /\ sqTail = os.sqTail /\ cqHead = os.cqHead
       /\ sqHead = sqTail /\ cqTail = os.cqHead

(* What the driver sees when it next looks at its completion queue: the    *)
(* entry at its head carries its expected phase, so it takes it as the     *)
(* completion of a command of its own.                                     *)
DriverSeesCompletion == cq[os.cqHead].ph = os.ph

(* The identify call leaves the queue pair as the driver left it: the      *)
(* doorbells hold the driver's tail and head, the controller has nothing  *)
(* left to run, and the driver finds no completion it did not submit (an   *)
(* event it was waiting for excepted).                                     *)
HandedBack ==
  /\ sqTail = os.sqTail /\ cqHead = os.cqHead /\ sqHead = sqTail
  /\ DriverSeesCompletion => cq[os.cqHead].cmd = "aer"
=============================================================================
