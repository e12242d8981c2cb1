# SiliconV in TLA+

SiliconV is a virtual machine monitor for AArch64 guests: an Android machine
(GICv3, PL011, virtio-mmio devices) and an Apple machine (AIC, S5L UART, NVMe,
SEP, ...), run by KVM, HVF or a software CPU (TCG), and driven from a command
line, a Cocoa and a Qt front end.  This directory holds TLA+ modules translated
from that code, the TLC configurations that check them and proofs for TLAPS.
Paths below are relative to the repository's root.

## 1. Inventory

Status: **M** modelled, **P** partly, **–** not modelled (section 8 says why).
`PROJECT.json` lists the same parts with their files.

| Part | State it keeps | Operations | Modules |
|---|---|---|---|
| AIC, `devices/apple-aic` **M** | `irq[]` (state, enabled, masked), per CPU `ipi_pending`, `ipi_mask`, `pending_irq`, `active_irq` | raise, lower, send_ipi, acknowledge, eoi, register writes | AppleAIC, AppleSoC, AppleSoCProofs |
| GICv3, `core/irq` **M** | `irq[]` (state, enabled, priority, route), `gicd_ctlr`, redistributors | raise/lower SPI, raise SGI, acknowledge, eoi, GICD and GICR writes | Gic, GicGuest, GicProofs |
| PL011, `devices/uart` **M** | receive ring, `ris`, `imsc` | rx_put (user interface thread), DR/ICR/IMSC accesses (vCPU thread) | Pl011, Pl011Driver, Pl011Proofs |
| Cocoa engine, `frontend/cocoa/VMEngine.m` **M** | `state`, `_initialized`, `_machine`, blocks on `vmQueue` | start, stop, pause, resume, runVM | VMEngine, VMEngineProofs |
| Qt manager, `frontend/qt/VMManager.cpp` **M** | `m_state`, `m_initialized`, `m_machine`, queued events | start, stop, pause, resume, runVM, setState | VMManager, VMManagerProofs |
| Android machine, `core/vm/machine.c` **P** | RAM, `kernel_entry`, `dtb_addr`, `cmdline`, devices, `running` | init, load_kernel, load_dtb, generate_dtb, attach, run, stop, destroy | AndroidMachine, VMManager; `running` in VMEngine |
| Android boot image and tree, `bootimg.c`, `dtb.c` **P** | offsets of the parts | parse, generate | BootImage, AndroidMachine |
| virtio-mmio, `devices/transport` **M** | `status`, `queue_sel`, `queues[]`, `int_status`; rings in guest RAM | register writes, get_avail, get_desc, put_used, raise_interrupt | VirtioMmio, VirtioBlkProofs |
| virtio-blk **M** | backing file | queue notification | VirtioBlk, VirtioBlkDriver, RequestFifo, VirtioBlkProofs |
| Apple NVMe **P** | enable, admin and I/O queues | CC, doorbells, admin and I/O commands | AppleNvme, AppleNvmeDriver, AppleNvmeProofs |
| Apple peripherals **P** | UART FIFO and lines, SEP mailbox, watchdog and timer counters | MMIO, tick, host input | AppleUart, AppleSep, AppleClocks, AppleSoC, AppleSoCProofs |
| Apple machine, `core/vm/machine_apple.c` **P** | RAM, `running`, devices, wiring to the AIC | init, load, attach, run, stop, destroy | AppleMachine, AppleMachineProofs, AppleSoC |
| Apple boot chain, `core/boot/apple` **M** | kernel, device tree and boot arguments placed in RAM | IMG4, Mach-O, device tree, boot arguments, xnu_boot | DeviceTree, AppleBoot, AppleMachineProofs |
| Software CPU, `hypervisor/tcg` **M** | registers, flags, system registers, MMU | fetch, decode, execute, translate, run loop | A64, TcgCpu, AppleMachineProofs |
| hv registry, KVM, HVF **P** | VM and vCPUs | get_best, vm and vcpu create/destroy, set_reg, run | Hypervisor |
| CLI, `frontend/cli/main.c` **P** | machine, files | run_apple, SIGINT | AppleMachine |
| PSCI **–** | `cpu_state[]` | psci_handle_call (has no caller) | |
| virtio-net and TAP, virtio-console **–** | link status; back end | notify, poll_rx | |
| windows and consoles, initramfs, Android shims, scripts **–** | | | |

How they interact.  The front ends call `sv_machine_init`, `_load_*`, `_run`,
`_stop`, `_destroy` (or their `sv_machine_apple_*` counterparts).  The run
function takes the best registered back end, creates a VM and its vCPUs, sets
their registers and runs vCPU 0 in a loop; a guest access to device memory
leaves the CPU, the machine calls the device's handler, and that runs to its
end in the same thread before the vCPU continues.  Devices call
`gic_raise_spi` or `apple_aic_raise_irq` from there; the interrupt controller
calls `irq_callback`, which in both machines does nothing yet
(`core/vm/machine.c:43-50`, `core/vm/machine_apple.c:34-41`).  Nothing in the
repository calls `gic_acknowledge_irq`, `gic_eoi` or `psci_handle_call` either:
the first two are the interface a CPU model will use, and the modules'
processor actions are such calls.  The only state two threads share is what the
front ends touch while the main loop runs: `sv_machine_t.running`, the engine's
state, and the PL011 through `sendKey`.

What is hard here: interrupt state that one call computes and a later one uses;
interrupts raised, rerouted or reset while in service; two threads
without a lock (engine, PL011); set-up that fails half-way; addresses that
several files compute and that have to agree; parts of RAM written one after
the other; a run loop that ends only if told to; ring indices that wrap;
devices reset with work in flight; interrupts that must still be there after
the handler's EOI; an interpreter's flags, masks and page arithmetic at the
ends of their ranges.  The hazards with their lines are in `PROJECT.json`.

What makes each part correct:

* interrupt controllers: no wake-up is lost, nothing pending is dropped, every
  interrupt is eventually taken;
* PL011, Apple UART and enclave: accepted bytes are read once and in order,
  requests are answered, and a sleeping guest is woken;
* clocks: the count stays within stated bounds of the time that passed;
* engine and manager: no vCPU runs on a destroyed machine, at rest the machine
  is destroyed, vm_destroy was called for its VM and the state is final, stop
  ends the run, one run at a time;
* virtio: each request is served once, in order, returned with an interrupt,
  also across wraps and resets; reads return current data; a status byte goes
  where the request has room for it;
* NVMe: each command is answered once, completions are not overwritten;
* boot: the first fetch is the kernel's entry, what was placed in RAM is whole,
  the tree describes the machine and can be read, nothing freed is read,
  vm_destroy comes before the RAM is freed;
* software CPU: an instruction leaves the state the architecture says.

## 2. Modules

Operators keep the names of the C functions and fields where TLA+ allows it.
An operator whose name is that of the next one with a suffix (`EoiNoUpdate`
before `Eoi`) is a defective variant no specification uses; it serves to show
that a property can fail.  A *ghost* variable exists only for the properties.

### Interrupt controllers and the devices on them

**AppleAIC**.  `irq`, `cpu`, `pending_irq`, `active_irq` and `callback` are the
fields of `apple_aic_state_t`; one action per public function and register
write.  `AicUpdate` is `aic_update`, run on the state the caller has just
written, hence its primes: it latches the first deliverable interrupt of the
first CPU that has one and returns, leaving later CPUs' latches alone.
`target_cpu` and `level` are zeroed and written by nothing, so `TargetCpu(i)` is
0 and `Level(i)` is FALSE.  A register write reaches the interrupts `Reached(g,
S)`, counted from the start of the first group whatever the group `g` is, so
`MaskClr` reaches none and only rescans.  The ghost `signal` holds what
`irq_callback` announced.

**AppleUart**, **AppleSep** and **AppleClocks** are the peripherals that hold
state over time: UART (receive FIFO, `UINTP`, `UINTM`, the level of its line
after every register write), enclave mailbox (the answer is there when the write
of CTRL returns), watchdog and timer (each counts the whole units since the last
tick that counted and forgets the rest; the watchdog in 32 bits, and with the
time it was disabled).  The ghosts of `wdt` are when the guest enabled it
(`from`), how long after the last tick that was (`lead`), and whether a tick
came after more milliseconds than 32 bits hold (`late`).  **AppleSoC** composes
them with the AIC.  A behaviour has one workload: `any`, every call of the AIC
in every order; `signalled`, a guest that acknowledges what was announced;
`polling`, the same guest on the machine as it is built, whose callback does
nothing; `watchdog` and `timer`, the two clocks, which raise no interrupt,
alone.

**Gic**.  One action per function and register write; a write of several bits is
the sequence of the one-bit writes.  `ITARGETSR`, `ICFGR` and `SGIR` lie inside
the range `gicd_mmio_write` tests first for `IPRIORITYR`, so writes to them
never reach an interrupt and they are no actions.  **GicGuest** has two guests:
one makes any call in any order, the other (`kernel`) keeps the rules of the
architecture.

**Pl011** extends Gic, since `pl011_update_irq` calls it.  A call is a sequence
of steps, one per access to a shared field (`pc`), for the user interface's
thread and the vCPU's thread interleave; `rx_count++` and `ris |= x` are a load
and a store, and a count a call has loaded may be used again or loaded anew
(`Loads`): the unoptimised build reloads it, the optimised one keeps it.  The
calls into the GIC are single steps.  The ghost `serial` says that no two calls
have overlapped so far.  **Pl011Driver** adds the guest's driver.

**VirtioMmio** extends Gic: the transport's registers and rings; a ring address
is abstracted to whether it lies in RAM.  **VirtioBlk** is the request loop on
top of it, one request per step: `QueueNotify` enters the loop (`serving`),
`ServeRequest` is one turn of it up to `virtio_put_used`, with each way a
request can end, `StopServing` ends it and raises the interrupt.  A request has
any number of data segments; `Third` is what the device takes for its status
byte. **VirtioBlkDriver** adds the guest's driver, which does nothing while
`serving`: a notification is served before the vCPU continues.  **RequestFifo**
is the abstract specification of a virtqueue, which VirtioBlkDriver implements
under the mapping `todo <- Heads(0), done <- DoneWhenReady`.

**AppleNvme** is the controller, a command being served per step;
**AppleNvmeDriver** is a driver that follows the NVMe rules, passes over its
rings any number of times, expects the phase tag to change with each pass, and
writes the head doorbell after any completion it collected.  It issues the
commands that post a completion and an interrupt: those that create and delete
queues, identify and set features, reads and writes (`DriverConstants`).  The
ghost `early` says that since the last reset a head doorbell was written while
completions lay behind it, which moves the index the controller posts at back to
it.

### Front ends and machines

**VMEngine** has two processes: the user interface's thread (`ui`) and the
serial queue (`vmQueue`, `worker`), with one step per access to the state they
share. `vcpu_run` returns one of `Exits`.  The ghost `calm` says that the
threads have not overlapped in a method.

**BootImage** has `bootimg.c`: where it takes kernel, ramdisk, second stage and
tree to be in an image of version 0 to 4, and the layout such a file has.
**AndroidMachine** has what the calls of `machine.c` do to the machine and its
RAM, a function from cells to what lies there (`<<"kernel", 3>>` is the fourth
cell of the kernel), and the registers a vCPU is given.  **VMManager** drives
both in one thread, the main one: `events` are the queued invocations,
`clicked` the clicks not yet delivered, and `runVM` is a sequence of steps
(`InitMachine`, `LoadKernelFile`, `MakeTree`, `Attach`, `Announce`, `RunEntry`,
one `SetUpVcpu` per vCPU, `EnterLoop`, `Loop`, `Cleanup`), each with the ways it
can fail.  Which configuration a start finds is chosen anew every time.

**Hypervisor** has the choice of the back end, the register numbers each accepts
(KVM and TCG count `sp` as 31, HVF does not), the exits that end a run, and what
`vm_destroy` leaves: the handle is gone, but nothing destroys a vCPU, so once
there was one its back end `remains`.  The calls into the host are external and
may fail.

### The Apple machine's boot and its CPU

**DeviceTree**: parsing a blob, setting properties, filtering what the machine
lacks (by the first of its compatible names), building a default tree, and
`Serialized`, what is left of it in the blob.  A tree is a function from paths
to nodes, a path the places of the nodes on the way down from the root in the
lists of children; a node has a name and its properties in order.
**AppleBoot**: what `img4_load` takes from a file (a container with payloads, a
DER envelope, or raw data) and whether freeing it frees memory that is not its
own, which ends the program (`FreesPayload`), Mach-O commands, base, entry,
slide and the loading of segments with their BSS, boot arguments, and the set-up
that puts all of it into RAM, each with its failures.  **AppleMachine** is
`run_apple` of the command line over `machine_apple.c`, one action per call,
with SIGINT at any moment and the buffers of files (`live`) freed where the code
frees them.  It has two further clients: `loader` calls the boot chain alone in
the order `xnu_boot.h` gives, for only there a supplied tree reaches the set-up,
and `guest` starts in the main loop behind a guest's prologue.

**TcgCpu** is the interpreter: one operator per branch of `tcg_decode_exec`,
`Exec` being the branch the decoder sends an instruction class to (some branches
shadow others), `Insn` the instructions with the fields their encodings have
(bits 22 and 23 of a sum's immediate, bit 21 of its register form), the
translation of addresses, and the loop of `tcg_vcpu_run` with its exits.
**A64** has the same instructions from the architecture's definitions: integers
for the flags, bit positions for the masks.  A word is the set of its one bits,
`Width` of them instead of 64: 4, 8, 16, 32 or 64, so that a W half has half of
them and the lane of a move a quarter.  The `#if 0` of `tcg_decode.c:433` has no
`#endif`, so the file as it stands does not compile; the module reads it as
closed behind the trace block it opens (line 438).

**MC*** give the constants for TLC.  The ***Proofs** modules hold the proofs
(section 6).

## 3. Runs

| Run | Bounds | What it shows |
|---|---|---|
| soc | 2 CPUs, interrupts 0-2, one IPI on number 0; UART and enclave, FIFO of 2; 1 IPI, 3 bytes, 1 request, 2 register settings; clock of 13 instants, watchdog in base 3 | no lost wake-up, no stale or unannounced latch, nothing pending dropped, under every sequence of calls; under the guest every interrupt and IPI is taken, every byte read, the request answered, none stranded in service; the clocks' drift |
| gic | 2 CPUs, one SGI, one PPI, 2 SPIs, 3 priorities, 6 raises | a pending SPI is dropped only by its device, an explicit clear or its CPU; what a CPU may take was announced to it and is taken |
| pl011 | ring of 2, 4 bytes, 2 values, both threads | indices stay in the ring under every race; without overlap nothing is lost |
| engine | 5 calls, every exit and every failure | no loop on a destroyed machine; clean at rest; stop ends |
| manager | 4 clicks, 9 configurations, every exit and every failure | final state, no machine and no handle of a VM at rest; one run posted; the guest that executes is the chosen one |
| virtio_blk | queues of 1 and 2, indices modulo 4, one sector; no, one and two data segments | refinement of RequestFifo, interrupts, current reads, requests return, where the status byte lands |
| nvme | submission rings of 3 and completion rings of 4 entries, 2 identifiers, any number of commands | until `early`: each command answered once, completions kept and signalled |
| machine | 12 kernel files, 8 tree files, 4 sets of back ends, the options of the boot chain; words of 8 digits, RAM of 48 cells, registers 0, 1 and 30 | entry, image, the edited tree, live data, the VM's handle, and instructions against the architecture |
| engine_stop, manager_clicks, device_read, tree_readable | as above, the first three smaller | the four disagreements of section 5 |

The largest runs reach 162,666 states (soc), 355,026 (virtio_blk, depth 48),
223,545 (machine) and 1,651,247 (nvme, depth 73); each ends by itself.

Why the bounds are enough.  Two CPUs and two device interrupts are the least
where one CPU's latch can hide another's and one interrupt another of the same
CPU; the IPI shares a number with none of the device interrupts the properties
speak of.  A ring of two bytes wraps with the third; four bytes wrap it twice.
Three bytes fill the UART's FIFO and overflow it; two settings unmask its lines,
which a reset masks, and mask them again.  One request to the enclave is what
TLC reaches with the rest; a second one is only another turn of the register,
for the guest asks nothing before the answer came.  The clock runs long enough
for a watchdog to expire, to be disabled and enabled again, to lose remainders
several times, and for a tick to come after more milliseconds than base 3 holds.
Five calls are a run that is paused, resumed and stopped and the start of
another; four clicks are two runs, or a stop and a pause around one.  Indices
modulo 4 over a queue of two wrap the ring and the index.  Two identifiers keep
a command in flight while another is written; as the commands are not counted,
the rings wrap as often as the driver still sees its completions.

The configurations of the manager have a kernel shorter than, equal to and
longer than what a ramdisk boundary leaves, no ramdisk, trees supplied, embedded
and generated, a typed and an embedded command line, RAM that is too small for
each part in turn, and back ends none, software and hardware; 2 MB and a page
are four cells. The kernels of the machine run have segments out of order, BSS
beside data, an entry outside what is loaded, a segment too large for RAM or
running into the tree, none, truncated commands and a file set; the trees
duplicate properties, lack a root, are too large, end early or have the wrong
magic.  A word of eight digits has a sign, a W half of four digits and a page
offset, and every digit of a byte; the values of `MCTcg` are the ends of the
signed and unsigned ranges and addresses of RAM and devices; immediates come
plain, with bit 22 and with bit 23 set.  Every instruction form runs from every
start and is followed by each of a second set, which includes every memory
access and branch.  Kernels that are booted from files execute two instructions
of a smaller set, which load from and store to devices only, so that RAM stays
what the loader made it.

`MaxRaise`, `MaxPut`, `MaxCalls`, `MaxClicks`, `MaxIpis`, `MaxBytes`,
`MaxRequests`, `MaxSettings` and `LastInstant` bound how often the environment
acts, `MaxInsns` the instructions executed; the devices themselves are
unbounded.  `CtrlValues` of the soc run holds only the initial value: as every
interrupt targets CPU 0, `aic_find_target_cpu` never looks at `enabled` or
`mask_all`; the theorems hold for every value.  The runs that stop when the
environment is used up say `CHECK_DEADLOCK FALSE`.

Some properties are conditional, and the condition is part of the claim.

* The FIFO and interrupt properties of the PL011 hold while `serial`, the
  engine's `SettledIsClean`, `OneRunAtATime` and `StopEnds` while `calm`: the
  races are in the model, and after one these properties do fail.
  `Pl011TypeOK` and `LoopOnLiveMachine` hold under every race.
* `EligibleAnnounced` and `EventuallyTaken` of the GIC are about the kernel
  guest, `SpiPendingKept` about every guest.
* `ClocksDrift` bounds how far the watchdog is ahead only if it was enabled
  within a millisecond of a tick, and how far it is behind only while no tick
  came too late for 32 bits (section 5).  Expired, it has stopped counting.
* The three properties of the NVMe controller hold until a head doorbell is
  written with completions left behind it (`early`), and again after the next
  reset.  `CompletionSignalled` is about completions the driver sees: on a
  second pass it sees none, for the phase tag never changes (section 5).
* virtio_blk's reads and writes have at least one data segment.  `StatusLands`
  holds of all requests: it says which of them get their status.
* `HandleReleased` and `ManagerSettled` are about the VM's handle and the call
  of `vm_destroy`, not about what the back end keeps (section 5).
* `BootsChosenKernel` speaks of raw kernels and images of version 0, whose parts
  `bootimg.c` finds, with trees that end below the kernel; the other versions
  are in the model and are run.
* `FetchesKernelEntry` speaks of kernels linked into kernel space whose entry is
  in a segment that was loaded, below the tree, on the software CPU.
* Both it and `GuestImageIntact` speak of the addresses one segment fills
  (`Contents`): in a linked kernel no two overlap.
* `EditedTreeDescribes` is about the tree handed to the serializer; what the
  guest can read of it is the question of the run tree_readable, which answers
  it with no.  It speaks of the chosen node only when a supplied tree's is not
  itself a device the machine lacks (then the filter removes it), and of the
  command line only when there is one.
* `ExecutesA64` speaks of the forms listed in `Faithful`; section 5 says what
  the interpreter does with the others, which are in the model and are run.

## 4. Fairness

* AppleSoC: weak fairness of each CPU's next step in taking or handling an
  interrupt: a CPU keeps executing, and a handler terminates.  No fairness of
  the environment or of the clocks.
* GicGuest: weak fairness of taking a signalled interrupt and of ending it.
* Pl011Driver: weak fairness of both threads and the driver; strong fairness of
  taking the interrupt, since the guest may print in between and an interrupt
  preempts it.
* VMEngine: weak fairness of the queue's thread and of the rest of a method that
  was called: both are scheduled threads, and `vcpu_run` returns (exits to the
  host happen as long as the guest accesses devices).  No fairness of calls, nor
  of any particular exit: the guest may run for ever.
* VMManager: weak fairness of the main thread, strong fairness of dispatching a
  posted event, which Qt does not keep behind later clicks.
* VirtioBlkDriver: weak fairness of notifying, taking the interrupt and the rest
  of the handler.
* AppleNvmeDriver, AppleMachine, TcgCpu: none; their properties are invariants
  and action properties.

The guest's actions are assumptions about code outside the repository.  The
repository's own callbacks, which would wake a vCPU, are empty (section 1), so
what the liveness properties show of the code is that the controller's state and
its calls of `irq_callback` suffice for such a guest; the workload `polling` of
AppleSoC shows it for a guest that does not rely on them.

## 5. Where the code and its texts disagree

Four are checked, each by a run that TLC must find violated:

1. `engine_stop`: `VMEngine.h:63-64` says stop "waits for the main loop to
   exit". It returns at once, and a stop that comes while `runVM` is still
   setting up is lost: `sv_machine_run` sets `running` again (`machine.c:523`)
   and nothing reads `stopRequested`.
2. `manager_clicks`: `VMManager.h:4-5` says the manager runs `sv_machine_run` on
   a QThread.  The slot is queued to the manager's own thread, the main one
   (`VMManager.cpp:43`), so no click is delivered while the guest runs.
3. `device_read`: `hypervisor/tcg/README.md:131` says that the result of a
   device read is returned and execution continues.  The result is dropped
   (`tcg_decode.c:787-796`): the register keeps its old value.
4. `tree_readable`: `dtre.h:83` says that the tree is serialised into the format
   of an FDT.  `dt_node_serialize` copies each property's name to `buf +
   *str_off` (`dtre.c:343`), and `buf` is the structure block (396), so the
   names overwrite it from its first word on; the strings block is copied out
   (463) without ever having been written.  The blob begins with a name where
   the root's token belongs: `apple_dt_load` rejects it, and so will a guest.

Others met while modelling and described here only.

Interrupts and devices:

* AIC: IPI numbers alias device interrupts (`apple_aic.c:156-158`); `ipi_mask`
  only decides whether any IPI is taken, not which (151-155); a reset clears the
  callback (325, 19); writes to MASK_CLR, SW_SET and SW_CLR number their
  interrupts from the start of MASK_SET (352-354), beyond the last one, and
  reach none, so nothing a guest writes masks an interrupt; `target_cpu` 0 is
  "broadcast/any" in `apple_aic.h:73` and CPU 0 in the code (57-58).
* GIC: private interrupts share one state among the CPUs and the redistributors'
  enable bits are consulted by nothing (`gic.c:140-142`, 547-552); a raise while
  disabled is dropped although an SPI is level-triggered (91-92); priority 0xFF
  is never acknowledged (143).
* PL011: `IMSC` is used as a mask of interrupts to suppress (`pl011.c:57-58`),
  the inverse of the device's register.
* virtio-blk: the third descriptor is taken for the status byte
  (`virtio_blk.c:81-85`).  A flush (header, status) returns without one; of a
  request of several segments only the first transfers data, and the status is
  written over the second, even if that is one the device may only read;
  although FLUSH is offered, `seg_max` is set, and the comment at line 146 has
  the status written.
* NVMe: every completion carries phase 1 (`apple_nvme.c:284, 339, 531, 589`), so
  on the second pass over a completion queue a driver that keeps the rules sees
  nothing new and waits for ever; the head doorbell is stored into the index
  completions are posted at (286, 919, 930), so one written while completions
  lie behind it has them overwritten; the completion queue named when a
  submission queue is created indexes an array unchecked (314); GET_LOG_PAGE
  ("just succeed") and unknown opcodes post no completion (595-601, 639-641);
  ABORT posts one without an interrupt (580-594); an I/O submission queue uses
  the completion queue of its own number, not the one named when it was created
  (613-614).
* Enclave: the code that would lower the mailbox interrupt is never reached
  (`apple_sep.c:134`).  Timer: the tick ignores the frequency selected.
* Watchdog: `last_tick_ns` is kept while it is disabled, so the first tick after
  it is enabled takes the whole disabled period off the count just reloaded
  (`apple_wdt.c:27`); the milliseconds are cut to 32 bits before they are
  compared (29).  Nothing in the repository calls `apple_wdt_tick` or
  `apple_timer_tick`: when they run is the model's choice.

Front ends and the Android machine:

* Engine: a pause makes the loop exit, after which `runVM` destroys the machine
  and shows Idle (`VMEngine.m:239-256`); "the state is preserved" (280) does not
  hold, and the run posted by resume fails.  Engine and manager: nothing leads
  from Error back to Idle, so after a failed run every start is refused with "VM
  is already running".
* Boot images: from version 1 on the kernel is read from behind the header, not
  from the next page (`bootimg.c:69-75`; line 5 says segments are page-aligned);
  behind a recovery DTBO the second stage is skipped once more (90).
* RAM: a tree of more than 30 MB is loaded over the kernel (`machine.c:221`);
  the guest is never told where its ramdisk is.
* Trees: Qt replaces the tree of an image even when none was supplied, by a
  generated one; when the supplied one cannot be loaded, the typed command line
  is lost with it, and one that is read short stays half-written over the
  image's (`VMManager.cpp:83`).  A replaced command line leaks (`machine.c:168`,
  `VMManager.cpp:86`).  The generated tree names the UART and virtio interrupts
  as SPIs 32 and 40, the devices raise INTIDs 32 and 40, which are SPIs 0 and 8.
* Registers: HVF takes numbers 31 and 32 for PC and PSTATE and refuses 33, the
  machines write PC at 32 and PSTATE at 33: no guest starts on HVF.  On the
  Apple machine nothing sets PC for KVM (`machine_apple.c:462, 466`).  KVM's
  error path closes descriptor 0 when `/dev/kvm` cannot be opened (`kvm.c:201,
  240`).
* The end of a VM: the back ends have no call that destroys a vCPU, and the
  machines return without their handles (`machine.c:508-518`,
  `machine_apple.c:561-586`).  After `vm_destroy` the vCPUs' descriptors keep
  KVM's VM alive (`kvm.c:248-257`); `hv_vm_destroy` is called with vCPUs alive,
  refuses, and its answer is not read, so the next `hv_vm_create` of the process
  fails (`hvf.c:268`); on the software CPU the vCPUs leak and name a VM that was
  freed (`tcg.c:61-72`).

The Apple machine, its boot and its CPU:

* A device tree given on the command line (`main.c:76`) is read after the set-up
  has already used the default one, so it never reaches the guest.
* A kernel of the fileset form is parsed and never loaded, for nothing selects
  its core (`macho.c:133-148`); `img4.c:353` never ends on a chunk of size 0.
* Which nodes the filter keeps is decided by the first name of a compatible
  list, where `strstr` ends (`dtre.c:223`).  A tree beyond 4096 bytes fails
  without a message (`dtre.c:380`).
* Once a chunk of a container was decompressed, `owns_data` stays set
  (`img4.c:329`): if a later chunk that is not compressed gives the payload,
  `img4_free` frees the middle of the caller's buffer (430-431).  The model
  takes this for the end of the program.
* The early returns of `main.c:160-183` leave the machine initialized; SIGINT
  before the loop sets `running` (`machine_apple.c:589`) is forgotten; a guest
  that makes no exit cannot be stopped on the software CPU.
* The interpreter takes B.cond on the opposite of every condition but AL
  (`tcg_decode.c:879-889`; GE and GT compare the N and V bits in place besides).
  ADD and SUB shift their immediate by 12 on bit 23 instead of 22
  (`tcg_decode.c:504-511`), so LSL #12 is executed unshifted, and the tagged
  encodings of bit 23 as a shifted sum; the extended-register forms, bit 21, are
  executed as shifted-register ones (677-716). Other forms in which it differs
  from the architecture: S forms that subtract zero or the least number, W forms
  with a shift or flags, register 31 where zero and SP are confused, ANDS and
  TST, MOVN of register 31, bitfield moves, sign-extending loads, MSR immediate,
  LDP and STP with write-back or outside RAM.  ADR and ADRP of register 31 write
  `x[31]`, which is `pc` (`tcg.h:59-62`, `tcg_decode.c:456, 495`), where the
  architecture discards the result.  No MRS or MSR finds its register, for op0
  is looked for beyond the bits that are passed on, so ERET returns to address
  0; `timer_irq_pending` is read by nothing.

## 6. Proofs

Each theorem holds for every value of the constants under the assumptions named
in the modules.  Every safety proof has the same plan: an inductive invariant, a
lemma per action (or per group of actions that write the same fields) that it is
kept, a lemma that it holds initially, and the properties as its consequences.

### AIC and the Apple devices: `AppleSoCProofs`

First the controller alone, under arbitrary callers.  The only assumption is
`AicConstants`: at least one CPU, the IPIs' numbers among the interrupts, `None`
not a number.  `PendingIsLatched` is not inductive, so `AicInvariant` proves

    AicInv == TypeOK /\ AssertedIsEnabled /\ OnlyCpu0Latched
              /\ PendingIsLatched /\ LatchIsDeliverable

`AssertedIsEnabled` records that a raise enables the interrupt it makes pending;
`OnlyCpu0Latched` that no CPU but 0 ever holds a latch, because `aic_update`
takes the first CPU that can run and nothing gives CPU 0 work it keeps.
`ReadyIsCpu0` and `ScanResult` say whom the scan picks and what it gives it;
`UpdateLatches` that `aic_update` establishes the facts about latches in
whatever state its caller has written.  No register masks an interrupt, but the
proof does not rest on that: `MaskClr` rescans, whatever it reaches.  From it
follow `AicTypeCorrect`, `AicNoLostWakeup`, `AicLatchNeverStale` and the action
property `AicPendingOnlyTaken`.  `AicLatchAnnounced` (`LatchWasSignalled`) is
inductive relative to `AicInv`: an update that latches calls the callback
(`UpdateSignals`).

Then the machine around it.  `SoCImplementsAic` is `SoCSpec => Spec`: what the
UART, the enclave, the clocks and the CPUs do to the controller is, step for
step, one of the controller's actions or none (`ControllerStep`), so every
theorem about the AIC holds of the composition.  `SoCActiveIsHeld` needs more
than `ActiveIsHeld`: by `HeldByCpu0` the device interrupt in service is the one
CPU 0 acknowledged last and no other CPU holds one, which with `AicInv` is
inductive.  `SoCClocksDrift` rests on arithmetic: `WholeUnits` says that the
whole units counted at a tick are at most the time that passed and, as soon as
there is one, at least half of it, `WdtCounts` what 32 bits leave of them.  The
invariant counts the watchdog from the tick before it was enabled
(`CountsHold`), which is what the code does, disabled period included; the
property subtracts that `lead` again.

### GIC: `GicProofs`

`GicTypeCorrect` and the action property `GicSpiPendingKept`, for every number
of CPUs, SGIs, PPIs and SPIs and every set of register writes.  The types are
inductive by themselves.  For the action property the step that is not obvious
is the acknowledge: `SelectedIsEligible` shows that the scan for the best
priority ends at an interrupt the CPU may take, so it drops no SPI routed
elsewhere.  `GuestPendingKept` is the same under GicGuest, whose kernel makes
calls `GicNext` does not offer.

`GuestCorrect` proves `GuestInv == GicTypeOK /\ ServiceType /\ KernelInv`.  For
the kernel it adds why no announcement is lost: no SPI is enabled before
affinity routing is (`RoutedBeforeEnabled`), so one that becomes pending is
announced to the CPU it is routed to, and its route is not changed while it is
pending (`PendingAnnounced`, which also says that nothing is active and pending
at once).  `GuestAnnounces` (`EligibleAnnounced`) follows.

### PL011: `Pl011Proofs`

`RingStaysInBounds` holds for every depth, every number of bytes and every
interleaving, without `serial`.  `RingInv` adds to the types that while a put is
on its way both `rx_count` and the value the thread loaded are below the depth,
and while a read is both are above zero: the other thread's store can only make
more room, or more bytes.  This is what saves the unlocked counter from leaving
the array, and it does not hold for a third thread.

The rest is about calls that do not overlap, at every step of the one under way.
`SerialInvariant` proves `RingInv` with

    serial => OneCall /\ CountsCurrent /\ RingHolds /\ SeenCurrent /\ RxFollowsCount

a count or a `ris` that was loaded is still current; the ring holds the unread
bytes in order, one more than `rx_count` says after a byte was stored and one
less after one was taken; and the receive interrupt follows the count except
while a call is about to make it.  `FifoStaysIntact` and `BytesInterrupt` are
what this says between calls.  `InterruptIsDelivered` (`AssertedIsDelivered`)
adds `DeliveryInv`, from the UART to the CPU: the driver's set-up (`Wired`),
that nothing raised the interrupt while it was still disabled (`NothingSent`),
and that while the driver waits what is up is pending and announced
(`Delivered`).

### Engine: `VMEngineProofs`

`EngineTypeCorrect` and `EngineLoopOnLive` for every interleaving.  `EngineInv`
adds that the executing block is still in the queue and that a loaded machine is
an initialized one.

`CalmInvariant` is about behaviours in which the threads have not overlapped in
a method.  `CalmFacts` says that a method runs only while the guest executes,
that a run is the first block of the queue and those behind it were posted by
resume, that the state shown during a run is one of a run, and that outside of
one the machine is destroyed.  `EngineSettles` (`SettledIsClean`) and
`EngineRunsOnce` (`OneRunAtATime`) follow.

### Manager and Android machine: `VMManagerProofs`

For every set of configurations, size of RAM, back end and failure.
`ManagerCorrect` proves `ManagerInv == QueueInv /\ LifeInv /\ MachineInv`:
`QueueInv` pairs each place of `runVM` with what may be posted, `LifeInv` ties
the machine and its VM's handle to the steps between initialization and
clean-up, and `MachineInv` keeps RAM's size and the configuration the machine
was made from. `SettledManager` (`ManagerSettled`) and `OneStartIsPosted` are
its consequences.

`BootCorrect` adds what lies in RAM: `KernelInv` (kernel and ramdisk from the
moment they are loaded to the end of the loop), `TreeInv` (no tree yet, the one
supplied or a generated one) and `VcpuInv` (the addresses vCPU 0 is given).
`CopyPlaces` says what a copy changes, `CutsWholeParts` that the offsets of
`bootimg.c` cut a version 0 image into its parts, `LoadKernelPlaces` and
`LoadDtbPlaces` where the loaders put them, `CopyBelowKernel` that a tree that
ends below the kernel leaves it whole.  `ChosenKernelBoots` follows under
`Bootable`, the condition of the property: a raw kernel or an image of version
0, and a tree that ends below the kernel or is refused.

### NVMe: `AppleNvmeProofs`

For every size of the rings and every set of identifiers, queues created,
deleted and reset in any order, over any number of passes.  `ControllerCorrect`
proves

    IInv == StoppedInv /\ (~early => ControlInv)

`ControlInv` has types, `Mode` (what holds while the controller is disabled, or
serving), per queue `QueueInv` and `IndicesAgree`, `StageInv` and `SignalInv`.
The idea is one `Line` of commands per queue: the completions not collected,
oldest first, followed by the submission entries not served.  It has each
command in flight exactly once; serving one moves the boundary
(`ServingKeepsLine`), writing one appends, collecting one takes it off.
`IndicesAgree` says the controller's heads and tails are the driver's,
`CompletionInv` that the uncollected completions lie in the ring from the
driver's head on, wherever that is, and which entries carry which tag on the
first pass and behind it; `StageInv` that at most one command that creates or
deletes a queue is in flight and what it makes true.  A head doorbell keeps all
this if nothing is left behind it (`RingHeadKeeps`); otherwise only `StoppedInv`
survives, which says that a disabled controller is empty, and from which the
driver's `Clear` leads back to `ControlInv` (`ClearKeeps`).
`CommandsAnsweredOnce`, `CompletionsAreKept` and `CompletionIsSignalled` follow.
They assume `NvmeConstants`, among it that `None` is no number, and
`DriverConstants` (section 2).

### virtio-mmio and virtio-blk: `VirtioBlkProofs`

For every set of requests and every queue size that divides the range of the
ring indices (`DriverConstants`; in the code 2^16 and a power of two), with
`MaxSize < IndexLimit` (`VIRTQUEUE_MAX_SIZE` is 256) and the one queue the
device has.  `DeviceCorrect` proves

    BlkInv == BlkType /\ Mode /\ RingInv /\ IrqInv /\ SignalInv /\ DataInv

* `RingInv`: heads completed and not collected, and heads available and not
  served, are each in flight, none twice, and they are all there are
  (`InFlight`).  Both lists are a `Window` of a ring, the part between two
  indices.  `PlacesDiffer` shows that no two of them share a slot, also when the
  indices wrap, which needs the size to divide their range; the lemmas
  `WindowAppends` and `WindowAdvances` say what a step does to a window.
* `IrqInv` and `SignalInv`: a completion the driver has not collected has the
  interrupt pending, announced, and `VIRTIO_INT_VRING` set when the handler
  reads it, whichever of its steps the driver has reached.
* `DataInv`: the disk holds the last write completed, or one in flight, and each
  read may return what the disk may hold (`Contents`).

`InFlight` and `Contents` have one lemma each for submitting, serving and
collecting a request, the three steps that change them; every other action keeps
them by a frame argument.  `CompletionIsSignalled` and `ReadsReturnCurrentData`
are consequences.  `StatusByteLands` (`StatusLands`) adds `StatusInv`, which
says of every head in use what was written for it and where, and needs from
`InFlight` that no two requests share one.

`RingsImplementFifo` is the refinement, `Spec => ImplementsFifo`: under the
mapping of section 2 the initial state is an empty RequestFifo and by
`StepRefinesFifo` each step of driver and device is one of its actions or a
stutter, under `BlkInv`.

### Apple machine and boot chain: `AppleMachineProofs`

For every list of kernel and tree files, options, back ends and failures.  The
assumptions are what the code fixes or a file can be: the tree goes above the
arguments and both into RAM (`BootAssumption`), RAM lies below kernel space and
above the device window LDP looks for (`TcgAssumption`), there is a vCPU, a file
yields a Mach-O with any list of load commands, a blob with any list of cells,
or something else, and one taken for a container holds a payload
(`MachineAssumption`, `IsFile`).

* `HandleIsReleased` (`HandleReleased`), by `Lifetimes`: RAM exists from the
  initialization to the end, a VM's handle only inside the run.
* `SetupReadsWhatLives` (`SetupReadsLiveData`), by `BootState`, of which it is a
  conjunct: the buffers named in the boot state are those read last, and
  `TreeBuffers` shows that a payload in the container's own memory is copied.
* `GuestImageStaysIntact` (`GuestImageIntact`), by `BootImage`: `SetupPlaces`
  shows what one set-up leaves of the segments, in the order of the commands,
  the tree and the arguments; nothing writes there later.
* `FetchesTheEntry` (`FetchesKernelEntry`), by `FirstFetch`, which follows the
  entry through creation of the VM, mapping and registers to the loop;
  `EntryIsMapped` is the arithmetic of link address, slide and mapping.
* `EditedTreeIsRight` (`EditedTreeDescribes`), by `TreeGiven`.  `SetPropSets`
  and `RuntimeSays` say what setting properties leaves in a node, `AddChildAdds`
  what a new child leaves of the tree (`NewPathIsNew`: its path is free),
  `Populated` and `Filtered` what the two passes do, `TokenParsed` and
  `BlobParsed` that what `dt_parse_node` has made behind any cell is a tree.

Some facts here are about every list of commands, cells or properties, or every
number of digits: `MinIsLeast`, `MaxIsGreatest`, `BlobParsed` and `Induction`.
They are proved by the least counterexample, which the library's theorem on
well-founded orders gives, since its induction theorems cannot be instantiated;
what a recursive function does in one step is read from its definition.

### Software CPU: `AppleMachineProofs`

`ExecutesTheArchitecture` is the action property `ExecutesA64`, for every word
of 4 to 64 digits, every register file, every program of the instructions `Insn`
describes and every boot of the machine that leads to them.  It is about the
forms `Faithful` lists.  The two sides speak of different things, the code of
digits and the architecture of integers, and most of the proof is what ties
them:

* Words and integers.  `Induction` says that a set with 0 and every successor
  has every number; from it `Remainders` (the low digits of `n` add up to its
  remainder), `SameBelow` and `Values`: `Val` is one to one, stays below the
  modulus, and a word is zero, or negative, exactly if its integer is.
* `FlagsAgree`: the flags `tcg_decode.c:149-169` compute from signs and
  comparisons are those of the integer sum, its carry and its overflow, but for
  the two subtrahends `Faithful` leaves out; `HalfSumAgrees` the W forms.
* `ShiftAgrees` (each digit of a shifted or rotated word comes from its place),
  `MasksAgree` (a logical immediate, from the place of the leading bit of the
  element's size), `LogicAgrees` and `LanesAgree` (the moves).
* One lemma per class of instruction, `AddressesAgree` to `BranchAgrees`, which
  `FaithfulAgrees` gathers.

They need the vCPU to be one: `VcpuTyped`, which is inductive, says that its
registers are words, its flags flags and its level 0 or 1, after every
instruction, the forms outside `Faithful` included (`ExecTyped`), and that what
the image makes it start with is such a state (`BootCpuTyped`).

### Only model-checked

Liveness: `EventuallyTaken` (soc and gic), `DevicesServed`, `BytesAreRead`,
`StopEnds` and `RequestsReturn` need fairness and ENABLED, which the prover does
not have.

## 7. Plan

1. Done: the interrupt controllers and their guests, the devices on them, both
   front ends, the Android machine with its boot images, the Apple machine with
   its boot chain and back ends, the software CPU; the proofs of every safety
   invariant and every action property the runs check, and of the refinement of
   RequestFifo.
2. Open: the instruction forms outside `Faithful`, as the code comes to agree
   with the architecture on them; the parts of section 8 that gain callers.

## 8. Not modelled, and why

* PSCI: `psci_handle_call` has no caller, so there is no order of calls to speak
  of.
* virtio-net and virtio-console: transmitting is the loop of virtio-blk over the
  same transport without a status byte (the console writes a chain's first
  descriptor only); the network's receive path has no caller, the console's is
  not implemented.
* NVRAM, GPIO, I2C, SPMI and DART store what is written and raise nothing.
* The address ranges of the MMIO dispatch: an access to a device is an action of
  that device's module.
* `run_android` of the command line makes the Qt manager's calls in one thread;
  parsing arguments, the text of the generated tree, windows and consoles
  (presentation), the guest's init and the Android headers (they run in the
  guest or hold no code), the scripts, the Qt destructor.
* Inside modelled parts: register bits stored and consulted by nothing, the
  contents of commands, sectors, files and boot arguments beyond what the
  properties tell apart, logging.
