# A verification project for vmsh

vmsh attaches to a running virtual machine from outside. It takes hold of the
hypervisor process with ptrace, lets it execute system calls on vmsh's behalf,
puts memory, eventfds and two virtio devices into the VM, points a vCPU at code
it has loaded into the guest kernel, and serves the devices until it is told to
stop. Then it is supposed to leave the hypervisor and the guest as it found them.

This directory models the parts of that program in which several actors
interact, checks them with TLC and proves the central safety properties with
TLAPS. Paths below are relative to the repository's `src/`.

## The system

| Part | Source | State | Operations |
|---|---|---|---|
| attach orchestration | `attach.rs`, `signal_handler.rs`, `interrutable_thread.rs` | the step of `attach()`, a channel, `should_stop`, which objects exist | set-up, start, wait, terminate, join, take back, drop, resume; early returns |
| ptrace control | `tracer/ptrace.rs`, `tracer/inject_syscall.rs` | traced threads, owner, saved text and registers | attach, adopt, disown, inject, drop |
| KVM_RUN wrapper | `tracer/wrap_syscall.rs` | per thread `is_running`, `in_syscall` | stop_on_syscall, wait_for_ioctl, prepare_detach, conversions |
| tracee, hypervisor handle | `kvm/tracee.rs`, `kvm/hypervisor/hypervisor.rs` | `Option<Process>`, `Option<KvmRunWrapper>`, transfer sockets | stop, resume, thread transfer, kvmrun_wrapped, KVM ioctls |
| device threads | `devices/threads.rs` | `DriverNotifier.lock`, threads | notify, terminate, wait, event loops |
| stage1, host side | `stage1.rs` | status words, registers | spawn, watch the driver |
| stage1, guest side | `stage1/src/lib.rs` | registered devices, status words | register, run stage2, poll, unregister |
| remote memory | `kvm/hypervisor/memory.rs` | mappings in the hypervisor | read, write, drop |
| mmio dispatch | `devices/mmio.rs` | the bus | handle one access |
| virtio devices | `devices/virtio/**` | queues, interrupt status, handlers | activate, reset, process, notify |
| ioregionfd, ioeventfd | `kvm/hypervisor/ioregionfd.rs`, ... | fd pairs, registrations | read, respond, drop |
| guest memory | `kvm/allocator.rs`, `kvm/memslots.rs`, `guest_mem.rs`, `page_table.rs` | next address, slots, page tables | allocate, map, restore |
| loader | `loader.rs`, `kernel.rs`, `elf.rs` | the relocated binary | find symbols, relocate, upload |
| stage2 | `stage2/src/*` | namespaces and mounts of one process | set-up in sequence |

The hard behaviours are all at the seams. ptrace requests work only in the
thread that seized a tracee and only while it is stopped, so control is *handed*
between vmsh threads; the hypervisor's threads come, go, stop and die on their
own; every destructor injects system calls and so depends on who owns the tracee
at that moment; host and guest talk through two words of shared memory, each
side polling; and MMIO accesses are recognised by counting system call stops.

## Modules

| Module | Models | Role |
|---|---|---|
| `TraceControl` | `tracer/*`, `kvm/tracee.rs` | operations on the hypervisor's threads; no processes of its own |
| `Attach` (extends `TraceControl`) | `attach.rs`, thread starts, mmio thread, stage1 thread, signal handler, hypervisor | the composition: one run of `vmsh attach` |
| `Stage1Handshake` | `DriverNotifier`, `stage1_thread`, `spawn_stage2` | the two status words between host and guest |
| `KvmRunWrapper` | `wrap_syscall.rs`, `handle_mmio_exits`, `handle_mmio_rw` | what happens to each MMIO access |
| `MmioService` | – | the abstract promise: each access to vmsh's devices is served once |
| `VirtioTransport` | `devices/virtio/mod.rs`, `userspaceioeventfd.rs` | rings, kicks and interrupts of one queue, activation and reset of one device; no specification of its own |
| `VirtioBlock`, `VirtioConsole` (extend `VirtioTransport`) | `devices/virtio/block/*`, `devices/virtio/console/*` | the two devices' handlers |
| `VirtioDevices` (extends both) | `event_thread`, `ioregion_event_loop`, `DeviceSet` | the composition: two devices, one event thread, one bus, one interrupt line, one guest |
| `BlockIO` | – | the abstract promise: each request answered once, in order, as a disk does |
| `PhysAllocator` | `kvm/allocator.rs`, `kvm/memslots.rs`, `vm_add_mem`, `Drop for PhysMem` | addresses and memory slots |
| `PageTable` | `page_table.rs` | the tables, `map_memory()` page by page, and the processor's translation, as operators |
| `PageTableIterator` (extends `PageTable`) | `page_table.rs`, `guest_mem.rs` | the iterator over page tables and the search for the kernel's sections, as operators |
| `Loader` (extends `PageTable`) | `loader.rs`, `virt_alloc` | segments, relocation and upload, as operators |
| `GuestMemory` (extends these) | `Stage1::new`, `find_kernel`, the destructors | the composition: how stage1 gets into the guest and out again |
| `Stage2` | `stage2/src/*`, `ioutils/src/tmp.rs` | the process in the guest that starts the user's command |
| `SeqFold` | – | `FoldLeft`, a loop over a sequence, without the rest of `SequencesExt` |
| `MCAttach`, `MCStage1Handshake`, `MCKvmRunWrapper`, `MCVirtioDevices`, `MCGuestMemory`, `MCStage2` | – | instances for TLC |
| `AttachInvariant`, `AttachMainProofs`, `AttachProofs` | – | theorems about `Attach`: the inductive invariant, the types and the actions of main, the rest and the results |
| `MemoryProofs` | – | theorems about `PhysAllocator` and lemmas about `PageTable` |
| `GuestMemoryProofs` (extends `MemoryProofs`) | – | theorems about `GuestMemory` |
| `Stage1HandshakeProofs`, `KvmRunWrapperProofs`, `VirtioDevicesProofs`, `Stage2Proofs` | – | theorems about the module of that name |

### TraceControl and Attach

`life[t]` is the kernel's view of a hypervisor thread: unborn, running, in a
ptrace stop nobody has waited for (`"syscall"`, `"signal"`), in one that was
waited for (`"stopped"`), exited but not reaped (`"zombie"`), or gone.
`tracer[t]` is the vmsh thread that seized it. `proc` and `wrapper` are the two
`Option`s of the code, `walk` the seize loop in progress, `text` the word that
`init` overwrites and `deinit` writes back. Seizing a thread is two steps, so that
threads can be created, exit and die anywhere in it: `SeizeNext` is PTRACE_SEIZE;
then the thread stops and is kept (`SeizeStopped`), or it had ended before the
interrupt and is left out (`SeizeGivesUp`), or it ends between the interrupt and
`waitpid`, whose status nobody looks at, and is kept (`SeizeKeepsDead`). `deadKept`
records the last.

`mpc`, `ipc` and `s1` are the positions of main, the mmio thread and the stage1
thread. One action of main is one call of `attach()`; the `unwind` step stands
for every `?` and early return: Rust drops the locals in it, and the process
exits. `terminate()` is two steps: `MainTerminate` takes the lock and tells the
guest, `MainSpin` is the end of its loop over `driver_status`. In between the mmio
thread's `notify(Error)` (`MmioNotify`) has to wait, and the vCPU whose request
failed is held up (`GuestHeldUp`). `res` is what vmsh has put into the hypervisor,
`objs` the objects whose
destructors take it out; a destructor works only if its thread may inject
(`CanInject`) and the tracee lock is not poisoned.

The environment: threads are created (untraced: the code does not ask for
`PTRACE_O_TRACECLONE`) and exit, receive signals, make system calls; the
hypervisor may die at any step; constructors and `pthread_create` may fail; a
device request may fail. `Faults` selects which of these may happen.

### Stage1Handshake

`device_status` is written by the host and read by the guest, `driver_status`
the other way round, `lock` is the host's own copy. Every read and write of a
status word is a step of its own; the guest makes no steps while the hypervisor
is stopped by main. The model starts after `Stage1::spawn` has set the vCPU's
registers. Registering a device, writing the stage2 file and executing it are
steps that succeed or fail.

`mode` is the way accesses are served. With the wrapper, the mmio thread reports
Ready itself; with ioregionfd, main does before it starts the threads that serve
(`MainStart`, then `MainSpawned` or `MainSpawnFails`). A thread that serves ends
when it is told to (`MmioStop`) or when a request fails (`MmioFails`); the mmio
thread then reports it (`MmioReport`), which needs the lock that main has while it
waits in `terminate()` (`mpc = "check"`).

### KvmRunWrapper and MmioService

Per hypervisor thread: where it is (`pc`: user code, in the kernel, or at an
`"entry"`, `"exit"` or other stop), its system call, and the kvm_run page it
shares with KVM. `acc` is KVM's own note of the outstanding access, which is
what decides how the page is read when KVM_RUN is entered again. That is why
turning a read into a write in the page keeps the hypervisor from answering it
while KVM still takes the data as the read's result. `served` and `lost` are
history variables. vmsh's own addresses are those `handle_mmio_exits` tests for,
`first_mmio_addr` up to but without `last_mmio_addr`: the last byte of the
console's range counts as the hypervisor's.

`MmioService` knows only whether a vCPU's access to vmsh's devices is issued,
served, or ended, and whether vmsh is closing. The refinement mapping is
`Phase(t)` and `Closing`.

### VirtioTransport, VirtioBlock, VirtioConsole, VirtioDevices, BlockIO

A queue is `"blk"`, `"rx"` or `"tx"`. `avail`, `next`, `used` and `seen` count
the chains the driver has added, the handler has taken, the handler has
returned, and the driver has taken back; `availEvent` and `usedEvent` are the
two indices of the EVENT_IDX feature (negotiated by both ends). `efd[q]` is the
eventfd a kick writes, `listen` the descriptors the event manager polls.
`status[d]` is the interrupt status register, `line` the shared interrupt line,
`ripe` whether the block device's last interrupt is older than
`INTERRUPT_ACK_TIMEOUT`. `ev` and `evq` are the step of the event thread and the
queue it works on: taking a chain, returning it, deciding about the interrupt,
raising it, enabling notifications and looking again are steps of their own,
and the driver's test-and-kick and interrupt handler interleave with them.

`bus` is the thread that serves the register writes: it holds the bus while
`_activate` or `_reset` waits (`call`) for the event thread to add or remove a
handler. `activated`, `taken` and `sub` are `device_activated`, whether the
queues have left the device, and `sub_id`.

`VirtioBlock` keeps the bytes of the disk. `Offset` and `CheckAccess` are the
code's arithmetic in words of `Word` values; a write stores the number of its
request in each byte. A request's `reach` is how many bytes of its buffers
`process_vm_readv` or `process_vm_writev` can move: nothing at all is an error, a
part is not. `touched` is the highest byte reached. `VirtioConsole` has the
terminal: `typed` and `input` count chunks typed and not yet read, `hup` that it
was closed.

What may go wrong is chosen with the guest (`faults`): interrupts get lost and
drivers unbind as often as they like (`Often`); and one of a queue error at any
point of the handler, a refused activation, a closed terminal and the stop of
vmsh happens at most once (`Once`).

`BlockIO` is a disk of bytes over unbounded numbers, with a queue of issued and a
queue of done requests. Its variables are `reqs`, `answers` and `disk` of
`VirtioBlock`. It asks for whole sectors on the disk, and, as the code does,
answers "ok" also when only a part of a request could be moved; it then moves
that part and no other byte.

### PhysAllocator, PageTable, PageTableIterator, Loader, GuestMemory

`slots` are the VM's memory slots, `known` the snapshot the allocator took,
`next` is `next_allocation`, `held` the ranges handed out and not dropped.
`tables` is the memory that holds page tables, `own` the same as the guest alone
would have it; comparing the two says what vmsh did. `old` and `maps` are the
fields of `VirtMem`, `mem` the words uploaded. `failed` records errors that the
destructors only log.

`PageTable` keeps the structure of the code: tables are read on demand into
copies (`upsert_tables`), new ones are taken from behind the data, the copies are
written at the end. `walk` is the state of `map_memory()`: the copies, which of
them existed, the next free table, and where the loops are. `BeginMap` reads the
pml4, `MapOnePage` is one round of the innermost loop (with the way down to its
table, and on to the page that the four loops come to next), `EndMap` writes the
copies, or gives up. `Translate` is the processor's translation and the reference
against which all this is checked. `Loader` computes the image as a function
from physical words to what they hold: a word of the file, a relocated address,
a resolved symbol, a field of the arguments, or zero.

Between loading and detaching the guest runs: it may change an entry of one of
its tables, and the hypervisor may add memory slots.

### Stage2

One process; `pc` is the call of `run_stage2` it is at. `mounts` is what the
guest's own processes see mounted by stage2, `private` whether propagation is
cut, `ns`, `joined`, `root`, `groups`, `uid`, `bounding` and `label` are what
the process is, `dirs` and `node` its temporaries in the file system, `made` the
mount points (`/proc`, `/sys`, `/dev`, `/tmp`) that `mkdir_p` made because the
guest lacks them. A guest's `label` is what its target runs with, `exec` what
`attr/exec` of the target holds, which is what the code reads under SELinux. `helper` is
the process that `MountNamespace::cleanup` forks, `child` the command. Every
call can fail; `Fail` and `FailInside` are the ways out before and after the
`MountNamespace` exists.

## Runs

| Run | Result | Question |
|---|---|---|
| `Attach` | passes, 33,063 states | Can any interleaving and any fault leave patched text, a lost stop, a wrong `is_running`, an orphaned resource or an unclean exit? Does a message end vmsh? |
| `AttachSameGroup` | **violated** | Does SIGINT end a vmsh started in the hypervisor's process group? |
| `AttachThreadExit` | **violated** | Does it when a hypervisor thread exits just before the detach? |
| `AttachSignalStop` | **violated** | Does it when a hypervisor thread is sent a signal just before the detach? |
| `Stage1Handshake` | passes, 5,200 states | Do the status words tell the truth, and do both ends come to an end? |
| `Stage1Cleanup` | **violated** | Is the loaded code taken out only when nothing runs in it? |
| `KvmRunWrapper` | passes, 1,051,797 states | Is every access to vmsh's devices served once, before the hypervisor sees it, and every other left alone? |
| `VirtioDevices` | passes, 579,670 states | Can a kick or an interrupt be lost, the disk answer wrongly, or a device write to the rings after a reset? |
| `VirtioProgress` | passes, 138,741 states | Is everything the drivers submit served although interrupts get lost and drivers come and go? Do activation and reset return, also while vmsh stops? |
| `ConsoleHangup` | **violated** | Can the transmit descriptor always be removed, as `handle_error` expects? |
| `GuestMemory` | passes, 6,903 states | Is memory allocated without overlap, mapped as asked, loaded as linked, and all of it undone? Does the hypervisor keep its slots? |
| `Stage2` | passes, 2,531 states | Do stage2's mounts stay private, are the temporaries removed, is the command confined as the code says? |

What the five violated runs show is described under `findings` in
`PROJECT.json`. In short: the mmio thread can end without telling the
`DriverNotifier` that main waits on; `prepare_detach` can block for good, on a
pending signal stop or because it is run twice; `attach()` unmaps stage1 even if
`terminate()` has just reported that the driver did not terminate; and a terminal
that hangs up makes the console's handler remove the same descriptor twice, which
panics the event thread of both devices.
`EndsUnlessDeadlocked` is the positive side: a message ends vmsh *unless* it comes
to stay in one of the states of `Deadlocked`: the mmio thread is blocked in
`prepare_detach`; it has ended (refused, or panicked in `init` because no thread
could be seized) without a report while main waits for one; or `terminate()`
polls, with its lock taken, a guest that is held up, because the mmio thread waits
for that lock with the vCPU stopped, or because nobody serves the vCPU's access
any more. `MessageEndsVmsh` of `Stage1Handshake` says the same with the guest's
side in the model.

### Bounds

* `NThreads = 3`: a leader, a thread that misbehaves and a thread before it in
  the list. The order of two non-leader threads matters in `prepare_detach`
  (`AttachThreadExit` needs it). Threads are created during the run up to the
  bound. The proofs have no bound.
* `MaxRetries = 3` instead of 20: the guest's poll can be the first, one in the
  middle, or the last; nothing else depends on the number.
* Two devices: a registration that fails half way.
* Two threads in `KvmRunWrapper`: all interaction between threads goes through
  the wrapper, which serves one at a time. The proofs have no bound.
* Virtio: two block requests out of four kinds (a write that can be moved up to
  the middle of its second sector, a write that cannot be moved, a read whose last
  sector overflows a word, a read of the whole disk) in any order, one chain in
  each console queue, queues of 2. So a queue is empty, in use and full, a second
  chain can meet each step of the first, and a read can follow a write. `Word =
  256` and sectors of 4 make offsets wrap at sector 64. In the safety run the
  guest has a driver for one of the devices and every fault can happen. The run for
  progress has both drivers, with one request (a flush that `msync` refuses) each,
  because what they share is the event thread and the line; interrupts get lost
  and drivers unbind. It also has each driver alone with vmsh stopping.
* Guest memory: tables of 4 entries instead of 512 and pages of 4 words, so that
  an image of a few segments crosses from one table into the next; five sets of slots
  (room for all, for some, for none, a slot number in use), nine sets of page
  tables, six images, among them one that does not resolve, one that does not
  fit and one in which the arguments are in the only segment. One change of the
  guest, two slots of the hypervisor. The proofs have no bound.
* Stage2: seventeen guests that differ in what a step finds: missing pseudo file
  systems and directories, consoles that cannot be opened, file system types that do not mount,
  no device, security modules with and without a label to take over, user
  namespaces with and without a mapping for
  the target's owner, more mapping lines than are read, bind mounts of each kind.
  The proofs have no bound.
* Deadlock is checked in `GuestMemory` only: elsewhere the system may stop, and a
  stuck one is what the liveness properties are about.

### Fairness

Every vmsh thread is scheduled (weak fairness of its next step). A hypervisor
thread that is allowed to run makes a system call eventually (`HvTrap`): vCPU
threads return to KVM_RUN, the leader runs an event loop. The stage1 thread polls
every 100 ms and so sees `should_stop`, and a dead hypervisor. The guest kernel
runs its work item, unless its vCPU is held up (`GuestHeldUp`): then neither the
guest's steps nor the end of `terminate()`'s loop are forced. Faults, signals and
messages are never forced.

In `VirtioProgress` the event thread, the server, the guest's interrupt handler
and a driver that began to kick keep running, and time passes (weak fairness).
Two assumptions are strong fairness. An interrupt raised again and again is
delivered at some time: `handle_timeouts` repeats it, and if every repetition
were lost nothing could help. And the event manager, which polls all descriptors
at once, does not spend every round on a readable terminal. In `Stage2` the
process and its helper take their next step; the command need not end.

## Proofs

The theorems are of the form `Spec => []P` (two are action properties, two are
refinements), for every value of the constants, from the assumptions named in the
modules: `NThreads` and `MaxRetries` are positive numbers; main, mmio thread and
"nobody" differ; `Threads` and `Devices` are finite and not empty; the virtio
devices are the two that exist; the disk's size fits in the machine's word, and
requests have a known type, numbers for sector, length and reach (at most the
length), and no data in a flush; the address space is a multiple of the page size
and slots are whole
pages; tables have at least two entries; the KASLR range is inside what one
entry of a level-1 table spans; the page tables of a guest are well-formed, lie
below the end of its memory, and those around the KASLR range are linked once
(`TablesPrivate`); a guest has a finite number of slots, with different numbers;
the allocator and the page tables have the same page size; the segments of an
image have a page at least, start in the KASLR range or behind its start, and
follow each other without a gap; what vmsh asks the allocator for is among the
sizes considered; a guest of `Stage2` has well-formed fields.

`AttachProofs` (with `AttachInvariant` and `AttachMainProofs`) shows all six
invariants of run `Attach`. None is inductive.
`Inv` adds: where the threads can be relative to one another (`StepsInv`: the
mmio thread is active only while main is between starting and joining it; only
one seize loop at a time); that nothing is left of a dead hypervisor
(`DeadInv`); and, while it is alive, who holds it (`ProcInv`: which steps imply
an owner, and that an owner means patched text, the right saved word and all
threads of the `Process` stopped, but for one that ended while it was seized; and
what a `disown` that failed on such a thread leaves, `Lost`), what the seize loop
and the wrapper know
(`LoopInv`), that every trace relation has a reason (`TracerInv`), that the
leader cannot leave alone (`LeaderInv`) and what main still has to take out
(`ResInv`). There is one lemma per action, in it one step per conjunct; `InvStep`
combines them and each theorem follows from `Inv`.

`Stage1HandshakeProofs` shows the five invariants of run `Stage1Handshake`, for
any set of devices and any number of polls. The properties speak of the two
status words; what makes them inductive is where each side is when it holds them:
the host's copy equals what it told the guest, and only a main that has joined
stage1 says Terminating (`HostInv`); what the worker has seen of the device still
holds or the host is terminating (`SeenInv`); and which devices are registered
follows from the worker's step (`WorkerInv`).

`KvmRunWrapperProofs` shows the four invariants of run `KvmRunWrapper` and that
it implements `MmioService`. The inductive invariant ties the page to the access
(`PageInv`: an access not yet seen is in the page as KVM reported it, or
disguised and served) and the stop to be waited for to both (`CatchInv`: a
successful return of KVM_RUN with an unserved access of vmsh's has not been
waited for, or is being served). The refinement is proved action by action: a
step of a hypervisor thread maps to Issue, Complete, Abandon or a stutter,
serving to Serve, the detach to Close.

`VirtioDevicesProofs` shows the safety properties of run `VirtioDevices` other
than its type, for any set of the two devices, number of submissions, requests,
disk and word width. `Inv` says of each queue: the four counters are in order, and
a chain being returned was taken (`RingInv`); the event thread attends to it only
while its device is activated or about to be (`AttendInv`, with `CallInv` and
`OwnerInv` on what the server's calls and the interrupt handler may assume); a
driver that is not at work has nothing outstanding (`RestInv`). `NoLostKick` needs
`KickInv`: a queue that waits for its eventfd has published the very index it
stopped at (`availEvent = next`), and any chain beyond it comes with a kick on
its way; the look at the ring after enabling notifications is what re-establishes
it. `InterruptOwed` needs its mirror image `IrqInv`. `NoRingWriteAfterReset`
follows from who attends to what. The actions of both devices fall into a few
classes of steps (`Step`), so there is one lemma per class, not per action.

That the block device implements `BlockIO` rests on lemmas about the operators of
`VirtioBlock`: `CheckAccess` accepts exactly what lies on the disk, although the
shift of the sector number loses bits (`AcceptsIsMoves`, with `SectorsInside` and
`SectorOrder`); a write changes the bytes it could move and no other
(`ExecuteWrites`); a read copies what the disk holds there (`DataIsBytes`); so the
answer is the abstract disk's (`AnswerIsDisks`). `DataInv` ties the counters of the
ring to the two queues: the request being answered is the next one. `ProcessChain`
maps to `Complete`, `SubmitRequest` to `Issue`, every other step to a stutter.

`MemoryProofs` shows `Disjoint` from `AllocSpec`. `AllocInv` adds that everything
handed out lies above every known slot and at or above `next`, which is aligned.
`next_addr` compares with the last byte of the slots (ends are inclusive), one
less than it should; that this is harmless takes the lemmas about multiples of
the page size.

`GuestMemoryProofs` shows the type, `Disjoint`, `MappedAsAsked` and `NothingLeft`
of run `GuestMemory`, and the action property `HypervisorSlotsKept`: for tables of
any number of entries, any page size, any guest and image that meet the
assumptions above, and whatever fails.
`GuestInv` has five parts: `AllocInv`; `SlotsInv` (slots differ in their numbers,
and none of the hypervisor's is missing); `OursInv` (vmsh's slot lies above
everything the hypervisor had and has the size that `virt_alloc` asked for);
`TablesInv` (only tables in `old` can differ from what the guest alone would have,
and `old` has them as they were); `MapInv` (`MappedAsAsked`, and before it holds,
how far `map_memory()` is: `WalkInv`). The lemmas about `WalkInv` are the other
part of `MemoryProofs`.
Two kinds of changes are made to the copies. An empty table in an empty entry
changes no translation (`AddTranslate`). A page in an empty entry changes the
translation of that page only (`SetTranslate`, `SetTranslateOther`); that needs
the table of pages to be linked nowhere else, so that all tables around the KASLR
range are linked once is part of the invariant (`WalkOK`). The four nested loops
go from each page of a mapping to the one after it (`VisitsAll`, `NextPage`); that
needs the mapping to be inside one level-1 entry, as `get_start_idx` begins in the
wrong place behind it. And the tables needed are counted
(`Counted`): at most two, and one for each row of pages touched, which
`estimate_page_table_size` covers (`EstimateFits`). So nothing is written behind
vmsh's memory, and no page of the guest is translated differently.
`HypervisorSlotsKept` follows from `SlotsInv`: the destructor deletes by number,
and no other slot has the number of vmsh's (`DropKeepsOthers`).

`Stage2Proofs` shows the three invariants of run `Stage2`, each from an invariant
of its own. `MountInv`: past `MakePrivate` propagation is cut. `FileInv`: at which
steps a directory or the device file can exist, and how far the helper is; with
it `MadeInv`: which mount points have been made by each step.
`ChildInv`: what holds at each step on the way to `Spawn`, so that a command can
only be started confined; no step after it changes what it was given.

Only model-checked: the liveness properties (`EndsUnlessDeadlocked`,
`MessageEndsVmsh`, `WorkerEnds`, `BlockAnswered`, `ConsoleServed`, `CallsReturn`,
`EventuallyCleaned`), which are out of the prover's reach; the type invariant of
`VirtioDevices`; and `LoadedAsLinked` and `IteratorComplete`, which say what loops
over segments, relocations and table entries compute: that takes induction over
data, which the provers cannot instantiate. (The sums of
segment lengths are the exception: `MemoryProofs` reasons about them from the
theorem that a set of numbers has a least element, lemmas `Least` and `UpTo`.)

## Assumptions about what is outside

* The kernel detaches a dying tracer's tracees before the thread's join returns.
* `/proc/<pid>/task` lists threads in creation order, leader first.
* The hypervisor ignores a write to an address it has no device for and answers
  a read with a constant; it calls KVM_RUN again afterwards.
* KVM completes an outstanding access by its own note of the direction.
* A signal-delivery stop reported to vmsh is resumed without the signal
  (`PTRACE_SYSCALL` with none): the hypervisor loses it. The model allows the
  signal to be anything, so no property depends on it.
* The guest's kernel links the page tables of the KASLR range in one place only.
* KVM refuses a memory slot that overlaps another or whose number is in use; the
  slots the hypervisor had at first stay.
* A mount propagates to the guest's processes unless the tree was made private
  or the mount was made in a private tree (mount_namespaces(7)).
* exec() gives a command of root its bounding set and any other none.

## Limits

* Thread creation failures (`spawnFailed`). When `pthread_create` fails in vmsh
  after stage1 was spawned, the stage1 thread still holds the hypervisor handle
  and the text stays patched; after `disown` nothing can be taken out. The model
  has these paths; `PatchGuarded`, `NothingOrphaned` and `CleanExit` are claimed
  only while no thread creation has failed. With ioregionfd the device has been
  reported Ready before the threads that serve it are started: when that fails,
  the guest's worker polls for ever, and `WorkerEnds` names that state.
* A hypervisor thread that ends between PTRACE_INTERRUPT and `waitpid` is kept
  (`deadKept`). `disown` fails on it, the `Process` is lost, and nothing can be
  injected any more: `NothingOrphaned`, and the part of `CleanExit` about what vmsh
  put into the hypervisor, are claimed only while this has not happened. That the
  text is intact and no thread stays stopped is claimed in any case.
* `terminate()` and the mmio thread can wait for each other for good (`Deadlocked`,
  above).
* `DriversNeedDevice` allows a driver to be bound while the host is terminating:
  `terminate()` overwrites an Error the guest has not seen.
* Liveness of a single access is not claimed: which stopped thread `waitpid`
  reports is the kernel's choice.
* The vCPU's way into and out of the loaded code (the trampoline) is assembly
  and not modelled.
* The block properties exempt a queue whose descriptor the handler removed after
  an error: the code gives such a queue up for good. For the console it is not
  claimed that the driver learns of returned buffers: a lost interrupt of its is
  never repeated, as only the block device's `handle_timeouts` is called.
  `InterruptOwed` also exempts a queue that is not listened on: an error after a
  chain was returned leaves the chain there without an interrupt.
* A block request of which only a part could be moved is answered "ok"; `BlockIO`
  says so and does not claim more.
* `HypervisorSlotsKept` is about the slots the hypervisor has. When it later asks
  for the number vmsh took, KVM refuses; nothing is claimed about that.
* A device that was reset cannot be activated again (`device_activated` stays
  set); `ServerSurvives` depends on that.
* `NothingLeft` admits two things the code does: a change the guest made in a
  table that vmsh restores is undone, and tables written before a write failed
  stay.
* The mount points that `mkdir_p` made in a guest without them stay (the code has
  a `TODO we should not create /tmp`). `TemporariesRemoved` says which.
* Two parts of `ChildConfined` say what the code does, which is less than what the
  target is confined to. Under SELinux the label taken over is the one in the
  target's `attr/exec`, empty for most processes; the command then runs with
  stage2's own. And the loop that drops capabilities ends before the last one, so
  a command of root keeps it.
* The length in the used ring is not modelled, nor requests of 4 GiB and more.
* The search for the kernel's symbol table in its read-only section
  (`kernel.rs`) is abstracted to whether there is such a section.
* `get_start_idx` begins in the wrong place for a mapping that crosses a 1 GiB
  boundary. No such mapping is made: the loader starts at the beginning of the
  KASLR range, which is 1 GiB, and refuses what does not end inside it.

## Not modelled

* The command and response stream of ioregionfd: it belongs to a kernel
  extension that is not in the repository, and the error paths that matter (a
  command that gets no response) depend on what that does.
* The injected system calls one by one, registers, msrs, cpuid, irqfd
  registration: parameters without control.
* fd transfer and the discovery of KVM's descriptors, coredump and inspect, the
  command line, the pty on the host, the binary search for kernel symbols: I/O
  and layouts without concurrent state.
* `stage2/src/cgroup.rs`, which no module of stage2 includes.
