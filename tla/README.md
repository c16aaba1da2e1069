# TLA+ models of hvdetecc

hvdetecc is a Windows kernel-mode hypervisor detector. `hvDetectBasic` and
`hvDetectAdvanced` (src/hypervisor_detection.cpp) run a battery of probes on
core 0 in a DPC or IPI. The probes execute instructions a hypervisor may
emulate badly, time operations against several clocks, and write flags into
a CBOR result. This directory holds TLA+ modules for the parts of the code
whose correctness depends on ordering, concurrency and fault handling, with
the TLC configurations that check them.

## The system's parts and how they interact

| Part | Source | State | Operations |
|---|---|---|---|
| Fault Sandbox | `interrupt_guard.hpp` | IDTR, GSBASE, RFLAGS.IF of the core; the guard's saved copies; the trace `interrupt_counters` (iterator + 128-byte store) | `reset()` (ctor), `end()` (dtor or explicit), `counter_isr<v>` per vector, `has_exception`, `count_exceptions`, `clear` |
| Metric sources | `benchmark.hpp` 22–329 | `has_mperf/aperf/pperf/irperf`, `mperf::msr`, `mp_clock::timestamp/jump_point`, HPET mapping | `setup()`, `fetch(first)`, `rundown()` per metric |
| Measurement protocol | `benchmark.hpp` 331–410 | `run_single`'s counters, `results[48]`, loop index `n` | `run_single<Metric>(fn)`, `run(fn)` |
| Capability detection | `hypervisor_detection.cpp` 95–143 | writes `benchmark::has_*` | `collect_info` |
| Cross-core clock | `benchmark.hpp` 273–303, `hypervisor_detection.cpp` 728–793 | `clock_latch`, `jump_point`, the code byte at `p`, `timestamp` | third DPC of `hvDetectBasic` on every core |
| Detection battery | `hypervisor_detection.cpp` 16–675, 728–817 | the call's `detections` and `data` objects, `has_*` | `hvDetectBasic`, `hvDetectAdvanced`, their `test_*` probes |
| Driver unload | `environment.cpp` 159–258 | remaining images, pass number, error list; the kernel's module list, `\Driver` objects, handles and pending unloads | `envUnloadDriver`, its `try_unload` |
| Disk identification | `hwid/disk_id.cpp`, `hwid/nvme.hpp`, `hwid/ahci.hpp`, `upause.hpp` | `get_disks`' attempt counter and `retry` flag; the NVMe admin queue pair and its doorbells; the AHCI ports' PxCI and command headers; `identification_space` | `get_disks`, `force_out_of_d3`, `nvme::identify`, `ahci::identify` |
| BIOS identifiers | `hwid/bios.cpp`, `hwid.cpp` 305–355 | the mapped BIOS space, `last_smbios_status`, the result's tables, `is_vm`, `is_tampered`; the caller's flags and error | `get_bios_identifiers`, its `parse_smbios`, `hwidCollectCpuBios` |
| Other HW identification, env validation, OS glue | `hwid.cpp` (net, UEFI, PCI), `environment.cpp` 17–157, `os.cpp`, `main.cpp` | — | I/O only |

How they interact:

- Every probe wraps its risky instructions in an `interrupt_guard`. The guard
  routes every vector into `counter_isr`, which records the vector at
  `[gs:0]` and skips the faulting instruction.
- `run_single` holds one guard for a whole measurement. It trusts
  `has_exception()` after the first fetch to decide whether the metric
  exists.
- `collect_info` (second DPC) sets `has_mperf`, which `mperf::setup` reads
  later in `run_bench` (third DPC).
- In the third DPC, core 0 runs `run_bench`. Another core, the winner of
  `clock_latch`, runs `mp_clock::timer()` as a software clock. Core 0 stops
  that loop by patching its `jmp` into a `ret`.
- `get_disks` runs `nvme::identify` and `ahci::identify` in DPCs on core 0,
  up to four times. Both borrow queues that the OS's storage drivers own
  and keep using on other cores. NVMe guesses where the driver left its
  admin queues from the completion phase tags, runs an Identify, and then
  sends the controller round the ring with no-ops to put it back. AHCI
  issues an IDENTIFY in a free command slot of every port.
- `hwidCollectCpuBios` calls `get_bios_identifiers`, which scans the BIOS
  space for VM vendor strings and hands every SMBIOS table it finds to
  `parse_smbios`; a static status makes the first table that parsed win.
- `envUnloadDriver` runs beside the kernel's own unload machinery: a started
  unload completes asynchronously once no handle to the driver's devices is
  open, other processes open and close handles, and new drivers are loaded
  at whatever image base is free.

## Modules

| Module | Models | State ↔ code |
|---|---|---|
| `FaultTrace` | `interrupt_counters`, `counter_isr`'s recording and skip rule, `impl::idt`'s vector mapping | the trace is a sequence of recorded bytes; `Cap` = 128 bytes of store; entries past `Cap` are writes outside the buffer |
| `SandboxContract` | the sandbox as the spec (section 4.1) describes it to a probe: atomic enter and leave, IF off inside, every vector appended to the trace inside, the caller's IF back on leave | abstract: `inScope`, `trace`, `ifl`, `saved` |
| `InterruptGuard` | one probe scope on one core: `reset()` and `end()` one register write per action, the guarded body, NMIs, one or two `end()` calls, a read of `has_exception()` inside or after the scope | `idt`, `gs`, `iflag` = IDTR, GSBASE, RFLAGS.IF; `previous_gsbase`, `prev_idtr`, `flags` = the guard's members; `pgs` = `end()`'s local; `kpcrWritten` = the trap routine wrote via the KPCR |
| `Measurement` | `collect_info`'s `has_*` detection, then `run()` over a subsequence of its eleven keys with `run_single` for each (every descriptor `run()` uses: fixed PMCs, tsc, mp_clock, mperf/aperf with the alias fall-through, pperf, hpet, tlb_persistance, the energy MSRs); the guard is taken as atomic (it is `InterruptGuard`'s subject) | `pc` is the point in `run_single`/`run`; `ctrs`, `n`, `results` are `run_single`'s locals; `evidence` is `run()`'s object; the platform (`msr`, `rdtscpFaults`, `hpet`, `fnFaults`) is fixed in `Init` |
| `DetectionBattery` | every probe of `hvDetectBasic` and `hvDetectAdvanced` on core 0, one action each (`test_dbg` as three, split at its unguarded BTF write), over a platform: a bare-metal processor of either vendor plus up to two *deviations* (an MSR that faults or reads zero, a write that does not stick, an instruction emulated wrongly...); the client calls the two functions in any order | `det` = the call's `detections` object (keys written and values), `notes` = `data`'s failure entries, `has` = `benchmark::has_*`, `pc` = the probe running; a guarded region is the vector sequence it records, judged by `FaultTrace`'s `has_exception` / `count_exceptions`; a fault outside any guard moves to `bugcheck` |
| `MpClock` | the third DPC of `hvDetectBasic` on every core, repeated calls of `hvDetectBasic` | `clock_latch`, `jump_point`, `code` (byte at `p`), `timestamp`, `rax` = the statics and the timekeeper's register; `pcs` = each core's point in the DPC; `win` = the `run_bench` window in progress |
| `NvmeIdentify` | one `nvme::identify` call against an NVMe controller that follows the base specification for one queue pair: it executes while head ≠ tail and the completion queue has room, posts entries with a phase tag inverted on each pass, may complete an outstanding asynchronous event request at any time, may be slow to start, and rejects a doorbell value it cannot accept | `sq`, `sqHead`, `sqTail`, `cq`, `cqTail`, `cqPh`, `cqHead` = the queues, the controller's positions and the doorbells; `idData` = `id_space[4] != 0`; `os` = the driver's own tail, head and phase; `npc` = the point in `identify`; `prevS`, `prevC`, `wrce`, `wrcePrev`, `idComplete` = its locals. `Init` is the queue pair after any number of the driver's commands. `Upause` ends when its condition holds or when the controller cannot make progress (its deadline). |
| `AhciIdentify` | one `ahci::identify` call over the implemented ports, with the HBA running whatever header an issued slot holds and the OS driver issuing and reaping commands on slots it thinks free | `ci` = PxCI (SActive folded in), `hdr` = each slot's command header ("os" or "id"), `idata` = `id->identity`, `osOut`/`osLive` = the driver's outstanding commands and those not yet run; `apc`, `todo`, `aport`, `aslot`, `afail` = the call's locals; `afound` = the identifiers it inserted |
| `DriverUnload` | `envUnloadDriver` with every step of `try_unload`, against a kernel that completes started unloads once no handle is open, opens and closes handles (a killed or unloading driver accepts no new open) and loads new drivers at freed bases | `at` = the module list (driver at each base), `objs` = drivers with a `\Driver` object, `handles`, `unloading`, `killed` (major functions overwritten); `n`, `images`, `i`, `tpc`, `obj`, `error_list` = the loop's and `try_unload`'s state; `ntpp::unload_driver` starts the unload or refuses, freely |
| `BiosId` | `get_bios_identifiers` and `hwidCollectCpuBios`: the mapping of the BIOS space, the VM string scan (`ScanVm`, a recursive operator), the two anchor loops over the F segment's paragraphs with their bounds and checksum checks, the WMIp table, every `parse_smbios` call with its status latch, the return test and the caller's flags | `para` = what each paragraph holds (no anchor, or an entry point with its length, checksum and table outcome: fail, empty or good), `wmip` = the WMIp address and table; `pc`, `ai`, `k` = the loops; `status` = `last_smbios_status`, `tables` = the sources whose entries reached the result; `isVm`, `tampered`, `ret`, `flags`, `biosError` = the result and the caller's writes |
| `DiskId` | `get_disks`, composing `NvmeIdentify` and `AhciIdentify` by `INSTANCE` | `gpc` = the point in `get_disks`, `n` = the attempt, `retry` = the flag the DPCs OR into, `inSleep` = the command-register test; `force_out_of_d3` may bring a controller that read as all ones (or, for NVMe, disabled) back |

`MCInterruptGuard`, `MCMeasurement`, `MCDetectionBattery`, `MCMpClock`,
`MCNvmeIdentify`, `MCDriverUnload` and `MCBiosId` give the constants values for TLC; `DiskId`'s
configurations give them directly.

History variables record facts the code does not keep, so that properties
can compare the code's state with them:

- `raised` and `seen`: the faults the body really raised.
- `callerIf`: the caller's IF.
- `samples` and `probeClean`: the measured deltas, and
  whether the probe of a key was fault-free.
- `os` (NVMe): where the driver left its queues, and whether the controller
  was answering when the call began; `osLive` (AHCI): the driver's commands
  the HBA has not yet run.
- `keys`: the windows that stored an mpc value.
- `garbage`: detections computed from a register a skipped RDMSR/RDPMC never
  wrote; `crashed`: a fault was taken outside any guard; `calls`: the order
  of the client's calls.
- `target` (DriverUnload): the driver loaded at each requested base when
  the call began.

## Runs

| Run | Expect | What it shows |
|---|---|---|
| `guard_protocol` (InterruptGuard.cfg) | pass | The swap never lets a kernel handler see the counters' GS base, nor a maskable interrupt reach the private IDT (`HandoffSafe`). Between scopes IDTR, GSBASE and IF are the caller's (`RestoreOnExit`). The verdict is true exactly when the scope's own body raised an exception vector (`VerdictReflectsScope`). Every scope finishes (`ScopeCompletes`). The register-level guard implements `SandboxContract` (`ImplementsContract`): the scope is open exactly while the counters are the GS base, and while `reset()`/`end()` are between writes outside that window the core's IF is taken to be the saved one. |
| `measurement` (Measurement.cfg) | pass | For one key of every kind of setup: a stored value is a median of the 3 measured deltas, whatever the warm-up wrote (`MedianOfMeasured`). A key exists only if `setup()` and the first fetch raised no fault, even when a faulting RDMSR leaves garbage that passes `!= 0` (`KeyOnlyAfterCleanProbe`). |
| `detection_battery` (DetectionBattery.cfg) | pass | Over both vendors, all 904 platforms made of at most two of the 42 deviations and every order of two calls: every detection computed from registers the code read is one meant for a deviation the platform has, so bare metal raises none (`DetectionsSound`); a single deviation raises every flag meant for it in the call that probes it (`SingleDeviationDetected`). |
| `detection_battery_bugcheck` | violation | Where DEBUGCTL accesses #GP, `test_dbg`'s unguarded BTF write is taken by the kernel (`NoUnguardedFault`); `test_clk`'s TSC_ADJUST accesses are the same. |
| `measurement_capacity` (MeasurementCapacity.cfg) | violation | One key (tsc) and a body that faults three times a call: the trap routine fills the 9-byte store (the scaled 128 bytes) in the second measured iteration and writes past it (`TraceWithinCapacity`). |
| `mp_clock` (MpClock.cfg) | pass | On the first call (`MaxCalls` = 1) with other cores present: the rendezvous ends (`CallCompletes`); an mpc value is taken only while the timekeeper runs (`MpcOnlyWhileTimekeeperRuns`); the `jmp` is restored (`TimerCodeRestored`). |
| `nvme_identify` (NvmeIdentify.cfg) | pass | Over every position a driver can leave its three-entry queues in (an event request outstanding or not, submitted before or after the newest completion; the controller ready or slow), the phase-tag guess gives the driver's head and tail whenever the head is not at slot 0, every outstanding request was submitted before the newest completion, and none completes meanwhile (`GuessRight`). A request submitted after the newest completion makes the guess wrong (below, found but not run). When it does, and the controller was answering, the acknowledgement, the no-op lap and the rewinds leave both doorbells at the driver's values and the controller idle with its completion tail at the driver's head (`RestoredWhenGuessRight`). |
| `disk_identify` (DiskId.cfg) | pass | `get_disks` returns (`GetDisksReturns`): every wait ends by an answer or its deadline, and the four attempts bound the retries, whether the controllers pass their checks, fail for good, sleep or are woken by `force_out_of_d3`. |
| `nvme_handback` (DiskIdHandback.cfg) | violation | On the happy path, `get_disks` returns with the NVMe doorbells restored but the completion queue a pass ahead: the entry at the driver's head carries the phase it expects, so it takes the no-op completion as its own (`QueuesHandedBack`). |
| `driver_unload` (DriverUnload.cfg) | pass | With three requested bases: when `envUnloadDriver` returns, every requested driver that is still loaded has its base in the error list: a started unload ("Unload pending.") is retried until the module is gone and reported if it is not, even when a handle is reopened between `close_handle_if` and `unload_driver` or the kernel never completes it (`UnreportedAreGone`). Every driver whose dispatch routines were overwritten and that is still loaded, including one loaded later at a requested base, is reported too (`KilledAccountedFor`). |
| `bios_identifiers` (BiosId.cfg) | pass | Over every F segment of three paragraphs (each empty or an entry point of either anchor, genuine or too long, with a good or bad checksum and a table that fails, is empty or is good) and every WMIp table: the result holds exactly the entries of the first good table in the code's scan order (`_SM3_` paragraphs, then `_SM_` paragraphs, then WMIp), or none (`FirstGoodTableUsed`). The recursive scan finds the first occurrence of any vendor string in every 4-character space, as a direct definition states it (`VmScanCorrect`). Paragraph reads stay inside the mapped space (`TypeOK`). |
| `ahci_slot` (DiskIdAhciSlot.cfg) | violation | The driver has slot 0 in flight; `ahci::identify` picks slot 1 but writes its IDENTIFY into slot 0's header, and the HBA runs IDENTIFY in place of the driver's command (`OsCommandsIntact`). |

Each violation run comes with a finding in `PROJECT.json`.

Every property of a passing run has a mutant in `PROJECT.json`. A mutant is
an operator defined next to the code it mutates: a dropped `disable()`,
flags saved after `disable()`, a missed `clear()`, an inverted skip test, an
unsorted percentile, a missing `has_exception()` check, an inverted patch
test, a missing patch, a missing write-back, the timer publishing the address of `x` instead of `p`, an off-by-one loop, a `clear()`
forgotten in `test_cr`, `||` written as `&&` in `test_clk`, a misspelt
detection key, flags never written back by `end()`, a queue fill one entry
too long, `prev_s_tail` read from the wrong completion, the tail rewound to
`prev_s_tail + 1`, the loop bound tested before the increment, an attempt
counter never advanced, a started unload taken for a success, or the unload
loop ending one pass early or late, a `parse_smbios` without its success latch, an anchor loop that reads the last paragraph, or a string match that runs past the end of the space. TLC finds
the property violated under each of them.

## Bounds and why they are enough

- **InterruptGuard:** `Cap` = 3, a body of 2 instructions, vectors {#DB, #GP},
  2 scopes, 1 NMI.
  - Two scopes are what a missed `clear()` needs.
  - Two instructions give a trap and a fault in one body.
  - One NMI is enough to hit each register window.
- **Measurement:** `Cap` = 9, 1 warm-up and 3 measured iterations, deltas
  {1, 2}, fn raising no fault.
  - 9/4 keeps the code's ratio of 128 bytes to 52 iterations.
  - Three samples of two values are enough to tell a median from a
    mis-indexed or unsorted pick.
  - fn's faults are recorded and never consulted by `run_single`, so
    neither property depends on them; letting fn fault once per call takes
    the run past five minutes.
- **Measurement keys:** seven of run()'s eleven keys, one of every kind of
  `setup()` and `fetch()`: pmcTsc, tsc, mpc, mperf, pperf, hpet, poPkg.
  pmcCore, aperf, tlb and poDram are instances of the same templates
  (`fixed_pmc`, `mperf`'s, `tsc`'s always-true setup, the bare RDMSR), and
  each `run_single` is independent of the others. All eleven keys do not
  finish in minutes.
- **DetectionBattery:** both vendors, every deviation, every pair of them,
  and two calls in each order. Single deviations are what completeness is
  stated for; pairs are where one probe's deviation can disturb another's
  verdict (shared counters, `has_*`, MISC_ENABLE used by two probes). Counter
  values and timings are the comparisons the probes make of them; where one
  depends on a random value (test_pm's magic) both outcomes are allowed.
- **MpClock:** core 0 plus two others, so one loses the latch race.
  - 2 windows per `run_bench`: `run_bench` is ten straight-line `run()`
    calls, each measuring mp_clock once; `win` counts them, and two are
    enough for a value taken in one window and not in the next.
  - `timestamp` saturates at 2, which is enough to tell 0, 1 and "more"
    apart, as `setup()` does.
  - 1 call for the pass run (2 reproduce the stale latch, below).
- **NvmeIdentify:** queues of 3 entries: the fewest in which the phase
  flip can sit strictly inside the ring and `prev + 1` or `prev + 2` can
  each wrap. Every driver history of up to 2·L completions, so that both
  phases occur. At most 1 event request outstanding. `aqc[-1]` reads as a
  valid or an invalid tail.
- **DriverUnload:** three requested bases and four driver images, and the
  code's own 21 passes with the last at n = 20.
  - Any base may start empty or with a driver, with or without a `\Driver`
    object and open handles. So the lookup's failure, a base already free
    and a pending unload are all reached.
  - Three entries let `erase_if` remove one from the middle of the list.
  - An image not yet loaded is what a freed base can be reused by.
  - Drivers are interchangeable, so they are a symmetry set.
  - The run has about 2.3 million distinct states and takes about a minute.
- **DiskId:** the pass run has two-entry NVMe queues with no event
  requests, and one AHCI port with one slot (so a full port picks the
  unimplemented slot). Each controller may pass its checks, read as all
  ones, or fail for good. With three-entry queues and event requests, the
  four attempts reach more than 18 million states; those cases are
  `nvme_identify`'s. The violation runs give the controller they are not
  about a configuration in which it fails its checks or does little.
  The two controllers' own steps are explored only while their identify
  call (or the check after NVMe) runs. Each commutes with every step of the
  other call, and steps before `get_disks` starts are covered by the
  initial states.

- **BiosId:** an F segment of 3 paragraphs, of which the anchor loop
  scans the first 2 (`n <= high - 0x10`); a 40-byte `ep_length` that fits
  only at the first. With WMIp that is up to five sources, so a failing or
  empty table before a good one, and a good one before another, both occur.
  Vendor strings "ab" and "b" (one a suffix of the other) over 3
  characters, in every space of 4 characters: matches at either end,
  overlapping and side by side. About 960,000 distinct states in 11 s.
  Table contents are abstracted to fail/empty/good: which identifiers a
  table holds does not change the control.

## Fairness

- **InterruptGuard and Measurement:** weak fairness on the probe's own
  steps. Core 0 runs them with interrupts disabled, so nothing can take the
  core away. NMIs and the platform's choices are not fair.
- **DetectionBattery:** no fairness; its properties are invariants.
- **MpClock:**
  - Weak fairness per core: each DPC runs at DISPATCH_LEVEL, and the
    timekeeper at IPI_LEVEL−1, on its own core.
  - Weak fairness on `call_dpc` returning once all cores are done.
  - The caller calling `hvDetectBasic` again is not assumed.
- **DriverUnload:** none. Its loop is bounded (21 passes) and its
  properties are invariants about the state at return; the kernel's
  completion of an unload is deliberately not fair, since a handle held
  elsewhere keeps it pending for ever.
- **BiosId:** none; one sequential call that stops
  (`CHECK_DEADLOCK FALSE`), with invariants only.
- **DiskId:** weak fairness on `get_disks`' own steps and on each identify
  call's steps (a DPC on core 0), and on each controller's steps. The
  controllers are hardware that makes progress. The OS driver issues only
  a bounded number of commands.

## Not modelled, and the plan

- **Found but not run** (the project keeps one run per question):
  - Earlier runs showed an NMI in `reset()`'s or `end()`'s register window
    writing through the KPCR. They also showed detections computed from a
    register a faulting RDMSR/RDPMC left unwritten, faults in
    `run_single`'s measured loop ignored, and `hpet::fetch(true)` spinning
    forever on an HPET that does not tick. Their hazards stay in
    `PROJECT.json`; the runs made room for disk identification.
  - NVMe: an event request the driver submitted after the newest
    completion is not counted in that completion's submission head, so the
    guessed tail is one entry behind the driver's. Without `~os.late` in
    its antecedent, TLC finds `GuessRight` violated (1,399 states).
  - NVMe: with the driver's head at slot 0, `prev_s_tail` is read from
    `aqc[-1]`. A controller that answers only after the first deadline
    rejects the acknowledgement and is left with a full completion queue.
  - AHCI: the timeout path's `command_issue &= ~slot_flag` cannot clear a
    PxCI bit, so the command stays issued.
  - `has_exception()` counts #DB, which the spec's fault predicate excludes;
    `vm.btfSuppressed` depends on the code's behaviour.
  - `envUnloadDriver` identifies a driver only by its base. With
    `DriverUnload`'s bounds, TLC violates "only drivers that were at a
    requested base when the call began are killed" in 6 steps: a requested
    base is already empty, a new driver is loaded there, and the next pass
    finds it, overwrites its dispatch routines and unloads it.
  - `MpClock` on a second call of `hvDetectBasic` (`MaxCalls <- MCTwoCalls`
    in MpClock.cfg): the latch and `jump_point` left over from the first
    call mean no core starts the timer. Core 0 does not wait, and the frozen
    timestamp passes `setup()`, violating `MpcOnlyWhileTimekeeperRuns`.
    Core 0 then patches the `jmp` to `ret` and no timekeeper writes it
    back, violating `TimerCodeRestored`.
  - With no other core, `MpClock`'s core 0 spins on `jump_point` forever
    (`CallCompletes` with `Others = {}`).
- **Refinement of the other components:** `Measurement` against an abstract
  "median of the fault-free samples, or absent" evidence record is a
  candidate; its violation runs show where the code falls short of it.
- **Out of reach:**
  - Counter widths (64-bit TSC and MSR values, 32-bit deltas, the SMI
    counter wrapping in `test_smi`).
  - hde64 instruction lengths.
  - Page-table walks in `test_nx` (the model keeps their outcome: the write
    to the execute-disabled page faults or not), and its 4096-entry
    `revert_list`.
  - `dbgDetect` (one write to kernel debugger variables).
  - Hardware identification other than disks and BIOS (registry, PCI,
    network, UEFI), environment validation, OS mapping glue: one-pass
    filters and string formatting with no protocol state.
  - `BiosId` assumes a default-constructed `xstd::result` is not a
    success, so the first `parse_smbios` call is not skipped; the entries
    of an SMBIOS table and the identifier strings are not modelled.
  - `force_out_of_d3`'s file I/O (kept as its effect on the controllers),
    and the identifier strings (kept as "data arrived or not").
