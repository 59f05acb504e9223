# TLA+ models of the SFC7120 CAPIO driver

The repository is a FreeBSD/CheriBSD kernel module for one function of a
Solarflare SFC7120 (EF10) network adapter, with a user library that drives the
card from user space through memory mappings guarded by CHERI capabilities
(CAPIO).  This directory holds models of its parts, TLC configurations that
check them on small instances, and TLAPS proofs of the results that matter most.
Paths are relative to the repository root, which `PROJECT.json` calls `src/`.

## 1. The system

| Component | Source | State | Operations | Model |
|---|---|---|---|---|
| CAPIO access framework | `capio.c` and the cdev methods of `sfc7120.c` | sealed token (`cap_state.original`), per region `mapped` and user address `offset`, `capio_softc.mapped`, `is_dying` | `set_cap_token`, `check_cap_token`, `revoke_cap_token`, `delete_mapping_from_user`, `capio_mmap_single_extra`, pager ctor/dtor, `capio_vaddr_callback`, `sfc7120_close`, `capio_destroy` | `Capio` |
| User library, session control | `userlib/sfc7120_user.c`; the forks of `userlib/test.c` | file descriptor, mapped regions | `sfc7120_init`, `map_region`, `sfc7120_destroy` | `CapioSession` (on top of `Capio`) |
| Data path, kernel | `sfc7120.c` | RX, TX and data event rings; `rx_head`, `tx_head`, `data_evq_read_ptr` | `SFC7120_TX`, `SFC7120_RX`, `GET_VI_INFO`, `SET_EVQ_RPTR`, `post_rx_buffers` | `DataPath` |
| Data path, user library | `userlib/sfc7120_user.c` | its own copy of the three pointers, `used_poll` | `sfc7120_poll`, `rx_recv`, `tx_post` | `DataPath` |
| Driver life cycle | `sfc7120.c`, `sfc7120_mcdi.c` | softc flags, host resources, firmware objects | `attach`, `hw_init`, failure labels, `detach`, `hw_teardown` | `Lifecycle` |
| Interrupt handler | `sfc7120.c` | `evq_read_ptr`, `link_up`, control event ring | `sfc7120_interrupt_handler`, `intr_setup`, `intr_teardown` | `Lifecycle` |
| MCDI transport | `sfc7120_mcdi.c` | mailbox, `mcdi_seq`, `mcdi_new_epoch`, `mcdi_initialized` | `mcdi_exec`, `send_locked`, `poll_response`, `xlate_err`, `mcdi_init`, `mcdi_fini` | `Mcdi` |
| Benchmark | `userlib/bench.c` | job, frame size, iteration, the frame in hand | `main`, `run_path_session`, `run_latency`, `run_throughput`, `run_throughput_kernel`, `wait_rx` | `Bench` |

How they interact.  `attach` brings the card up with MCDI commands, allocates
the rings, arms the interrupt and makes the cdev.  A process opens the cdev,
takes the token with `CAPIO_ATTACH`, maps the regions and then either uses the
TX/RX ioctls or works on the mapped rings itself.  It ends with `munmap`s, a
`GOODBYE` (which revokes the token) and `close`; a crash leaves the last `close`
and the pager destructors to clean up.  `sfctest sec` forks children that share
the mappings and the open file.  The kernel and the library each hold
ring pointers and pass them on at the start and the end of a session.  The
rings are set up once per load and outlive sessions; firmware objects may
outlive a load.

What is hard:

* `capio.c` drops `cap_mtx` between looking at the token or a flag and acting on
  it, and revocation is a walk over regions with the lock dropped in between;
* process exit, `GOODBYE`, last close, the next session's start and unload overlap;
* a forked child adds a map entry to every object, and a removal by the kernel may
  leave an object without any;
* one event queue serves TX and RX, and two owners of its pointers alternate;
* the NIC writes rings and mailbox at any time, the interrupt handler runs from
  the middle of `attach` to the middle of `detach`;
* the benchmark's two paths share the card: frames one job leaves under way reach
  the next, and what a poll or a TX ioctl consumes is gone;
* every step of the attach ladder, and every firmware command, may fail, be lost
  or be answered after its timeout.

`PROJECT.json` lists each of these at its line under `hazards`, with the
properties aimed at it.

## 2. Modules

### Capio

Every step is one critical section, or one unlocked access; a refused call that
changes nothing has no action.  `original` is the process whose capability ATTACH
sealed; `token[p]` is the copy of a sealed capability that `p` presents, its own or,
in a forked child, its parent's, and `check_cap_token` compares the two.  Two
processes that attach are assumed to seal different capabilities (the code compares
the bits of a pointer to a `malloc`ed page; two processes in which it happens to be the
same would each pass for the other, which is not modelled).  `object[o]` is the region of a live pager object; references to it are held
by a call (`held`) and by map entries (`vm`), several of them after a fork, and the
dtor runs when the last one goes (`LastRef`).

| Action | Code |
|---|---|
| `Open`, `Close`, `Exit` (through `Leave`) | the cdev's open and close; `sfc7120_close` runs only on the last close |
| `Attach` | `set_cap_token`, under `cap_mtx` |
| `Goodbye`, then `RevokeClear`, `RevokeRead`, `RevokeDelete`, `RevokeDeleteFails`, `RevokeZero` | `capio_ioctl_handler`'s check, then `revoke_cap_token` and `delete_mapping_from_user`, region by region |
| `MmapCheckToken`, `MmapIsDying`, `MmapLookup`, `MmapAlloc`, `MmapAllocFails`, `MmapRecheck` | `capio_mmap_single_extra`; `MmapAlloc` includes `capio_pager_ctor` |
| `MapEnter`, `MapEnterFails`, `Munmap`, `ExitUnmap`, `Fork` | external: the kernel's VM and fork(2) |
| `capio_vaddr_callback`, `capio_pager_dtor` | the functions of that name |
| `DetachDying`, `DetachUnregister`, `DetachDestroyDev`, `capio_destroy` | `sfc7120_fbsd_detach`, as far as it concerns capio |

Two constants stand for what is not decided in this code.  `RemoveDrops`: whether
the `vm_map_remove` of a revocation fires the dtor of an object it removes.  The
library's comment (`sfc7120_user.c:491`) says that it does not; the passing runs and
all theorems allow both, each time anew.  If it does not and no other entry is
left, the object is an `Orphan`: its region stays flagged until the module is reloaded.  `AfterMunmap`:
what the process may have at an address by the time the next step looks at it.

A forked child, as `sfctest sec` makes them, makes no capio call and exits or dies;
that is modelled, and a child that calls is not.

devfs does not keep a new `open` out while the last `sfc7120_close` runs, so that
close may clear the token of the next session.  The history variable `robbed` says
that this has happened; the properties that a token protects are claimed until then,
and `Session_late` is the run in which it happens.

### CapioSession

Extends `Capio` with a program counter `lib` that drives each process the way
the library does: open, attach, map the regions in order, run, unmap, GOODBYE,
close; any failure goes to destroy, which sends its GOODBYE also when the attach was
refused.  A running session may fork children and wait for each (`LibFork`,
`LibWait`: `run_one_violation` of `test.c`); a process may crash anywhere
(`MayCrash`); after it has exited, another run may begin (`LibAgain`).  `Unload` is
`kldunload`: its beginning depends on `Unloads` (never, with the device closed, or
also with no call or exit under way), and once begun it goes on while new processes
still open, attach and map until `is_dying` or `destroy_dev` stops them.
`KernelStep` is any step of a call that is inside the kernel, together with what
`map_region` makes of the result.

### DataPath and FrameFifo

The three rings with their NIC-side and host-side indices, all modulo the ring
size; a zero event slot is `None`.  An ioctl holds `sc_mtx` for its whole run,
so it interleaves with the NIC only.  Poll loops are one action per event
(`TxPoll`, `RxPoll`, `Poll`), and ending one (`TxEnd`, `RxTimeout`, `PollAck`)
is another.  The copy of a frame that the RX ioctl and `rx_recv` make, the
re-posting of its slot and the doorbell (rung with the index *before* its
increment) are one action, as nothing can come between that matters: the slot
is not the NIC's until the doorbell.  The NIC's actions are external.

`SessionCrash` is a session that ends without `SET_EVQ_RPTR` getting through,
because it died or because the ioctl failed.  If it used the direct path, the
kernel is left with old pointers ("a failure leaves the kernel stale (kldload
recovers)"): the history variable `stale` says so until `Kldload`, which sets up
queues and pointers anew.  The pointer properties are claimed outside the stale
time, so they also say that the reload repairs everything.  `StaleSessions` says
whether sessions may run before it.

RX events get lost in three ways that the code has: a TX ioctl consumes those it
meets while it polls (`TxPoll`), an RX ioctl whose copyout fails has consumed its
event (`RxCopyoutFails`), and a session may end with frames announced to it that it
did not receive, as `sfctest poll` does by design (`SessionDestroy`).  All three are
always possible.  The history variable `missed` counts them, and the properties say
what they cost, exactly: receives read from `missed` slots before the one their event
names (`ReadsMissedBehind`), and `missed` slots are neither the NIC's nor waiting
(`RingLacksMissed`).  So a missed event is never made up for before a reload, and
after `RxN - 1` of them the NIC has no slot left to receive into.

`FrameFifo` is the abstract receive path: a FIFO of `RxN - 1` frames that may fail,
losing what waits, and be reloaded.  `ReceiveIsFifo` is the refinement, with the
queue mapped to `WaitingFrames`: the frames the NIC has written to the slots from
the head in force (`rxHead`: the kernel's or the session's `rx_head`) up to its own
index, in that order.  It needs no condition on missed events: they delay frames.

Three constants are left: `Overruns` (a sender laps the TX ring; neither the ioctl nor
`tx_post` looks for room, and the runs have `Overruns = FALSE`, which is the guard
`TxRoom` of `PostTx`), `Crashes` (kinds of session that may end without destroy) and
`StaleSessions`.  A session uses one of the two paths: `bench.c:33` warns against
mixing them in one session, and the library does not hand pointers over within one.

### Lifecycle

The ladder of `attach` as a program counter, with three records of one thing:
what the host holds (`host`), what the softc's flags say (`flags`) and what the
firmware holds (`fw`).  A firmware command may be carried out, `refused`, or
`lost` (carried out, but the driver saw a timeout); `InitOutcomes` and
`FiniOutcomes` say which of these may happen.  `MayDeny` lets ENTITY_RESET answer
EACCES.  Allocation of all DMA memory is one step, which undoes itself on
failure.  The interrupt handler interleaves with all of it: `IsrEnter` (the
unlocked latch), `IsrBail`, `IsrEvent` (one event under `sc_mtx`), `IsrDone`.
`EarlyEvents` lets the link change between `GET_LINK` and `INIT_EVQ(1)`.  The
history variable `faults` remembers whether a command was not carried out as the
driver believes (`disobeyed`), ENTITY_RESET was `denied`, or the link changed
`early`; each property names the fault it cannot survive and is claimed under all
the others.

### Mcdi

`sfc7120_mcdi_exec` against a management controller (external) that reads the
mailbox some time after the doorbell, and answers in any order, late, or never.
A command is known by its number.  `SeqMod` is the number of sequence numbers.
`mcdi_fini` frees the mailbox whatever the controller still has to do; `mcdi_init`
of the next load starts from sequence number 0 and, at worst, with the same
memory, so a late answer lands in the new mailbox.  `owed` remembers that an unload
left the controller with a request, `base` how many commands came before this load.

### Bench

`userlib/bench.c` on two functions that are cabled to each other.  The rings of
`DataPath` appear as the queues they implement: per function an event queue (`evq`)
and the filled receive slots from `rx_head` on (`slots`).  A receive takes the slot
at `rx_head` whatever its event said, as the code does; so an event that is
consumed without a receive leaves its frame in front for good.

| Action | Code |
|---|---|
| `Start`, `OpenSession` | `main` with any choice of modes and paths; `run_path_session` |
| `Launch`, `Await`, `Echo`, `Collect`, `Again` | the window-of-one loop of `run_latency` and `run_throughput_kernel`, on either path |
| `LaunchPoll`, `EchoPoll` | the TX ioctl's loop, which consumes every event up to its own completion |
| `rx_kernel`, `wait_rx`, `rx_timeout` | the three ways a receive goes on; `wait_rx` forgets the rest of its batch |
| `Prime`, `Reflect`, `Relaunch` | `run_throughput` |
| `NicSend`, `NicComplete`, `NicReceive`, `Lose` | external: the NICs and the cable |

A TX ioctl here always finds its completion (its timeout is `TxEnd` of `DataPath`),
and the RX ioctl's limit of 100000 spins never ends a wait before the frame is lost;
statistics and the clock are left out, so a throughput loop may end after any
iteration.

## 3. Runs

Runs that pass:

| Run | What it shows |
|---|---|
| `Capio_single` | Two single-threaded processes, two regions, every order of calls, forks, exits, failures and an unload, removals that fire the dtor or do not: a flag always has an object whose dtor clears it (`FlagsBacked`); until a late close clears another session's token, a region never has two objects (`ExclusiveRegion`), flags are exact (`MappedFlagExact`) and the unlocked token check stays valid during mmap (`MmapHoldsToken`). |
| `Session_ends` | Sessions that fork, end with destroy or crash anywhere, one after the other or overlapping, and an unload begun when the device is idle: the next holder of the token meets a mapped region only for an object that an exiting process still has or that a revocation left behind (`ReattachFindsRegionsFree`); objects are left behind only by the revocation in a process's exit or by the unload (`OnlyCrashesLoseRegions`); eventually token and all other regions are free (`DeviceFreedAfterUse`); and when `capio_destroy` runs no call and no object is left that would take the lock (`NothingLeftAtDestroy`). |
| `Data_sessions` | Kernel and direct sessions in turn, some of which die, with crossing traffic, failing copyouts and frames left behind, over rings that wrap: what missed events cost, and no more (`ReadsMissedBehind`, `RingLacksMissed`); no slot in the NIC's hands that waits to be read; pointers handed over between sessions and again after a reload (`AlignedBetweenSessions`); the event queue is exact (`EvqExact`); confirmed frames were sent (`ConfirmedWasSent`); and the FIFO refinement. |
| `Life_load` | Load, unload, load, with the firmware refusing, losing and denying any command and the link changing at any time.  Always: the handler is safe (`IsrSafe`), the host side is unwound (`HostUnwound`), loads end (`LoadEnds`).  If no command was disobeyed: memory outlives the queues that use it, the firmware is unwound.  If no reset was denied: `ALLOC_VIS` starts clean.  If the link did not change early: changes arrive (`LinkFollows`), the handler reads where the NIC writes (`OnlyEarlyDesyncs`) and a run of it ends at an empty slot before it has gone round the ring (`IsrBounded`). |
| `Mcdi_late` | Lost and late answers with a wrapping sequence number, across a reload: exec never takes another command's answer and success means done, if the controller owed nothing at the unload; EPROTO, and a mailbox freed under the controller, only after a timeout. |
| `Bench_first` | One run of the benchmark with every choice of paths and modes over a cable that may lose a frame: each round trip that is timed is that of its own frame (`EchoIsOwn`), no RX event is eaten or forgotten (`NothingEaten`), the circulating frames are exactly those primed, for this size and all before it, less those lost (`FramesConserved`), the windows of all sizes fit the rings although `tx_post` does not look (`RingsSuffice`), a wait times out only after a loss (`NeverTimesOut`), and the program ends (`BenchEnds`). |

Runs that find the code to disagree with one of its own comments or messages
(the sentence is quoted, with its line, in `PROJECT.json` under `findings`):

| Run | What happens |
|---|---|
| `Capio_threads` | Two threads of the token holder pass the `mapped` test before either sets the flag: two objects for one region. |
| `Capio_unload` | The second `is_dying` test returns without releasing the object. |
| `Session_late` | The last close of one session revokes the token of the next, which has opened and attached meanwhile; its mmaps and its GOODBYE are refused. |
| `Data_match` | The RX ioctl does not compare the descriptor index of its event with `rx_head`; after one missed event it copies out of another slot than the event names. |
| `Bench_again` | `run_throughput` returns with its window circulating; when the program is run again the kernel path's TX ioctl eats RX events, and `rx_head` stays behind. |
| `Life_early` | INIT_EVQ(1) resets the control queue's read pointer behind the handler's back. |

### What the passing runs assume

Some properties hold only while a caller, the kernel or the firmware behaves.
The assumption is a constant of the run or a history variable in the property;
without it TLC has a counterexample:

| Without | Property lost | What happens then |
|---|---|---|
| one thread per process (`SingleThreaded`) in `Capio_single` | `ExclusiveRegion`, `MappedFlagExact`, `MmapHoldsToken` | See `Capio_threads`; a second thread may also send GOODBYE during an mmap. |
| `robbed` in the same properties and in `ReattachFindsRegionsFree` | themselves | See `Session_late`: a last close clears the token of a session in progress; another process then attaches and maps a region that the first one's mmap has already found free (`sfc7120.c:895`). |
| `Orphan` in `ReattachFindsRegionsFree` and `DeviceFreedAfterUse` | themselves | A process crashes, the `vm_map_remove` of its last close does not fire the dtor (`sfc7120_user.c:491`): the region is refused to every later session until the module is reloaded.  The exemption is for exactly these objects; `OnlyCrashesLoseRegions` says where they come from. |
| a parent that waits for its children (`LibWait`) in `Session_ends` | `ReattachFindsRegionsFree` | The child's map entries keep the objects alive after the parent's munmaps, and GOODBYE has freed the token. |
| `Unloads = "idle"` (but `"closed"`) in `Session_ends` | `NothingLeftAtDestroy` | An exiting process closes the device before it loses its address space; an unload in between runs to its end, and the pager destructor then takes a `cap_mtx` that `capio_destroy` has destroyed (`sfc7120.c:873`). |
| `missed` in the receive properties of `DataPath` | themselves | With "missed = 0" instead they fail in each of the three ways of losing an event (`sfc7120.c:1126`, `sfc7120.c:1282`, `userlib/test.c:318`); see `Data_match`. |
| `Overruns = FALSE` in `Data_sessions` | `ConfirmedWasSent` | After a whole ring of timed-out sends an old completion confirms a new frame (`sfc7120.c:1117`). |
| `~stale` in the properties of `DataPath` | all but `TypeOK` | A direct session that dies leaves the kernel reading and writing behind the NIC until the reload. |
| `Obeyed` in `QueueMemoryLive` | itself | `hw_teardown` ignores results, and a command that timed out but was carried out sets no flag: the rings are freed while the firmware has a queue (`sfc7120.c:861`). |
| not `denied` in `AllocVisStartsClean` | itself | VIs leaked by a failed `hw_init` survive a denied ENTITY_RESET. |
| not `early` in `LinkFollows` | itself | A link change between `GET_LINK` and `INIT_EVQ(0)` is neither polled nor reported (`sfc7120.c:506`). |
| not `early` in `OnlyEarlyDesyncs`, `IsrBounded` | themselves | See `Life_early`; INIT_EVQ(1) may also move the read pointer back under a running handler, which can then go round the whole ring in one run and meet the guard of `sfc7120.c:1439`. |
| `ShortErrors = FALSE` in `Mcdi_late` | `SuccessMeansDone` | An error response with less than four bytes of payload is given code 0, which `xlate_err` turns into success (`sfc7120_mcdi.c:699`). |
| `~owed` in `OwnResponse` | itself | A command times out, the module is reloaded, sequence numbers start from 0 again, and the late answer is taken for that of a new command (`sfc7120_mcdi.c:447`). |
| `MaxRuns = 1` in `Bench_first` | `NothingEaten`, `EchoIsOwn` | See `Bench_again`. |

Where the code disagrees with its own comments and no run of its own shows it:

* `sfc7120.c:357` "Each time the RX ioctl consumes a packet it will re-post that
  descriptor and advance rx_head so the ring stays topped up": not when the copyout
  fails (`sfc7120.c:1282`).  `RingLacksMissed` says what the ring lacks then.
* `sfc7120_user.c:511` the next run "starts from the right slot": not after a session
  that polled without receiving, as `run_poller` of `test.c` does.
  `AlignedBetweenSessions` says where it starts.
* `sfc7120_user.c:536` GOODBYE's "vm_map_remove fallback finds the ranges already
  unmapped and no-ops": `munmap` does not clear the recorded address, so if the process
  has mapped something there in between (`Anon`), `revoke_cap_token` removes that
  (`capio.c:249`).
* `bench.c:20`, `61` and `317` "keep ~W packets circulating": nothing drains the window
  of one size before the next size primes its own; the third runs with 3 W frames of
  all three sizes under way.  `FramesConserved` states the number.
* A GOODBYE, which clears the token before it walks the regions, can erase the address
  that the next holder has just recorded (`capio.c:256`).

Each property of a passing run has a mutant in `PROJECT.json`: a plausible slip
in the code (a dropped guard, a missing reset, an index that does not wrap)
under which TLC finds that property violated.  The mutated operators stand
before the definitions they vary, marked "Mutant".

### Bounds

* `Capio`: two processes are needed for every conflict over the token and two
  regions for the revocation walk to have a middle; a region whose
  object lingers gets no other, so two objects suffice until a token is cleared, and
  two addresses allow reuse.  `AfterMunmap` is `{NoObj}` in the
  passing runs (with `Anon` their state space does not fit the time of a run; the
  theorems have both).  What is shown here
  for exclusion is proved for all sizes.
* `CapioSession`: two regions, so that the order of munmaps and GOODBYE matters,
  and two processes, so that one can start, run or close while the other is in
  its GOODBYE, its last close or its exit, or be the other's child.
* `DataPath`: rings of 3 slots (2 usable) and an event ring of 4 wrap within 4
  frames received and 3 sent, and two missed events exhaust the RX ring;
  `MaxOther = 1` puts a foreign event between them.  No session runs on stale pointers
  (`StaleSessions = FALSE`) in the passing run: no property is claimed of one, and the
  reload, which the run has, erases whatever it did; the theorems have both.
  Indices meet only in equality and distance modulo the size; TX and RX sizes need not differ.
* `Lifecycle`: two loads, so that the second meets what the first left; five link
  events over a ring of 3 make it wrap, fill, and fill again behind a read pointer
  that was reset (with four, an `IsrBounded` without its condition would hold).
* `Mcdi`: 3 sequence numbers and 5 commands, so that numbers are used again, and
  answers up to two commands late, the most that three numbers can tell apart;
  two loads, so that numbers also start again.
* `Bench`: two frame sizes with a window of two and rings of five, so that the
  windows of all sizes just fit (the code: three sizes, 128 frames, rings of 512);
  batches of two, so that a batch can hold a second RX event; two samples; one lost
  frame.  The event ring of eight is never the limit.  `Bench_again` needs two runs
  and is otherwise as small as the counterexample allows.

Symmetry is used only in runs without liveness properties.  Deadlock is not
checked: every model has a legitimate end (the driver unloaded, the sessions
over, the bounds used up), and what must not get stuck is stated as liveness.

### Fairness

* `SessionSpec`: weak fairness of `KernelStep(t)`, the steps of a call that is
  inside the kernel.  The scheduler runs it on and it takes no lock that is held
  across a sleep.  A program's own steps have no fairness.
* `Lifecycle`: weak fairness of the handler while an interrupt is pending or a
  run has begun (the interrupt thread is scheduled, and an event raises an
  interrupt), and of a load or unload once begun (the bus code runs it to its
  end; MCDI polling is bounded by its timeout).  Beginning one has none.
* `Bench`: weak fairness of the program once it has been started (it spins and is
  scheduled; the TX and RX ioctls poll) and of the NICs and the cable.  Losing a
  frame and starting the program have none.
* The other specifications make safety statements only.

## 4. Proofs

Every invariant and action property of the passing runs, and the refinement, is
also a theorem that TLAPS checks for all values of the constants that satisfy the
`ASSUME`s of the modules (TLC evaluates those in every run) and the hypotheses
named here.  Each hypothesis is one the passing run has as well, and the table of
section 3 says what happens without it.

| Module | About | Hypotheses beyond the `ASSUME`s |
|---|---|---|
| `CapioProofs` | `Capio` | none for `TypeCorrect` and `FlagsAlwaysBacked`; `SingleThreaded` for the others |
| `CapioSessionProofs` | `CapioSession` | `DestroyTheorem`: unloads begin on an idle device; `ReattachTheorem` and `LostRegionsTheorem`: `SingleThreaded` |
| `McdiProofs` | `Mcdi` | none, but `~ShortErrors` for `SuccessTheorem` (`MaxLate < SeqMod` is an `ASSUME`) |
| `LifecycleProofs` | `Lifecycle` | none; the properties name the faults they cannot survive |
| `DataPathProofs`, `FifoProofs` | `DataPath`, and that it refines `FrameFifo` | none, but `~Overruns` for `ConfirmedTheorem` |
| `BenchProofs` | `Bench` | one run of the program, and windows of all sizes that fit the RX ring (`Window * NumSizes < RxN`; 384 < 512 in the code); `RingsTheorem` asks the same of the TX ring |
| `WrapLemmas` | arithmetic modulo a ring size, used by the modules above | |

`PROJECT.json` lists the theorems with the property each one states.  What makes
each proof go through is its inductive invariant.

**Capio.**  `FlagsAlwaysBacked` holds however many threads a process has: a set flag
has a live object whose dtor will clear it, and `capio_softc.mapped` is the
disjunction of the flags.  So even the double mapping of `Capio_threads` leaves no
region blocked without an object.  The argument is that only the constructor and
the destructor touch flags and objects (`FlagsFrame`).  It holds for removals that
fire the dtor and for those that do not, and with forked children.

The exclusion theorems rest on `ExclusionInv`.  `ExclusiveRegion` is not inductive:
between the `mapped` test and the pager constructor another call could set the same
flag.  That no other call is there follows from the token (`Owner`: a thread inside
mmap is a thread of the token's owner, unless `robbed`), from there being one thread per
process, and from `Chosen`: a thread between the test and the constructor still
finds its region unflagged.  `Live` (a live object's region is flagged) then rules
out a second object.

**CapioSession.**  A step of a session is a capio call, a fork or the library's own,
so the step lemmas of `CapioProofs` apply.  `DestroyTheorem`: when detach begins no
map and no call has an object, so one that is left is an orphan; after that `is_dying`
lets none be made (`Closed`), and `destroy_dev` waits for the calls that are inside
(`Left`).
`ReattachTheorem` needs to know in which phase of a session its thread may be in which
call (`LibInv`); who carries which token, that a session which is mapping or running
owns it unless `robbed`, and that a child's parent is waiting (`TokenInv`); and what a
session has mapped (`MapsInv`): nothing before it maps and after it has unmapped, and
in between the first regions in order, so that the number of mappings names the next
region; `Addrs` is assumed finite for that count.  `LostRegionsTheorem` is the one on
steps: `RefKinds` sorts them by what they do to references, a revocation outside an
exit finds no object of its process to remove, because the munmaps came before, and no
assumption on the tokens is needed.

**Mcdi.**  `SeqInv` says that `mcdi_seq` is the number of this load's finished
commands (those after `base`) modulo `SeqMod`, that every message carries its own
command's number, and that, if nothing is owed, what the controller still has is
of this load and the response in the mailbox less than a cycle old; the step from
equal sequence numbers to equal commands is a lemma on remainders.  `PromptInv`: as
long as nothing timed out, the controller has at most the one request that `exec`
is waiting for.  `DoneInv`: the controller gets each request once, so what it made
of an answered command is final, and mailbox and return value agree with it.

**Lifecycle.**  `HostLadder` gives, for each resource of the host, the positions of
attach and detach at which it is held; `HostUnwound` and `IsrSafe` are read off it.
`FwLadder` does the same for the firmware's resources and the softc's flags, under
the condition that the firmware does what the driver believes.  `CtlInv` with
`InStep` is about the control queue: unread events lie from the read pointer to the
NIC's index, and the doorbell lags behind by what the running handler has read;
until INIT_EVQ(1) has reset the read pointer the queue is empty, unless the link
changed early.

**DataPath.**  `ModeInv` says which calls a session of each kind can be in, `EvqInv`
that the unconsumed events lie from the read pointer in force to the NIC's index,
`TxPtr` and `SentInv` that a completion in the queue is for a slot whose frame was
sent and which is not about to be written again.  `RxInv` is the heart: the frames
written by the NIC lie from the head in force to `rxCons`.  The first `missed` of them
have lost their events; the events in hand name the next ones in order (`InHand`), the
events in the queue the rest (`InRing`), in the order of the queue (`InOrder`) and all
of them (`Covered`); the doorbell is one slot behind the head.  An event consumed
without a receive only moves the border between the first two groups.  `FifoTheorem`
then maps each step to a step of `FrameFifo` or to a stutter: the k-th waiting frame
lies k - 1 slots behind the head, the NIC's write appends, and both receives take the
first.

**Bench.**  `BenchInv` joins that every filled slot has its event (`Backed`), that
the streaming job comes last (`Ordered`), that the program is where its job says
(`Doing`), and what is under way at each point (`Under`): one frame in a
window-of-one loop, on the way the program waits for and equal to the frame launched;
`Window` frames for each size primed so far in `run_throughput`.  A lost frame counts.
That a TX ioctl and a wait find at most one RX event, which `NothingEaten` needs, is a
consequence of the count.

**Only model-checked.**  The liveness properties `DeviceFreedAfterUse`, `LinkFollows`,
`LoadEnds` and `BenchEnds`: reasoning about fairness and ENABLED is outside the
prover.  The runs that expect a violation are TLC's as well.

## 5. Not modelled

* `capio_pager_fault`, the slice tables, register accessors and dump routines:
  they compute addresses or log and change no state of the driver.
* `d_poll` and the RX task (nothing wakes or enqueues them), `grant_access`,
  `pcie_flr` and `reboot_after_assertion` (no caller).
* Probe, field encodings of MCDI commands, MCDI diagnostics.
* `test.c` beyond what its sessions add to the library's: the forks of `sec` and the
  polling without receiving of `poll` are modelled (`LibFork`, `LibWait`, `missed`); the
  accesses out of bounds that the children of `sec` attempt, and the printing, are not.
* Build scripts, and the vendored `ref_*` files.
* Forked children that make capio calls of their own with the token they inherited, and
  sessions that mix ioctls and the direct path, which `bench.c:33` warns of.
* In `Lifecycle`, an ENTITY_RESET that was carried out although it timed out: attach fails
  as it does on a refused one, and the firmware has less to clean up.
* Opens between `make_dev` and `init_capio_sc`: nothing in the code guards this
  window, so a property could only restate that.
* Whether this NIC holds events back when the event queue is full.  The comment at
  `sfc7120.c:1135` says so and both models assume it; the queue has 512 entries for
  up to 1022 descriptors.

How much of the source the models cover: of the 24,357 lines counted as
implementation, 17,908 are the vendored register header `ref_efx_regs_mcdi.h` and
374 the vendored `ref_sfxge_mcdi.c`, reference copies of another driver's files that
no build file names and that hold nothing this driver does.  The share of the total is
low for that reason.  Of the driver's and library's own lines (about 6,000, with
comments, headers and `test.c`) the map covers some 60%; what it leaves out
is listed above.

## 6. Plan

Done: `Capio`, `CapioSession`, `DataPath` with `FrameFifo`, `Lifecycle`, `Mcdi`,
`Bench`, with their runs, and the proofs of section 4.

Next, in this order:

1. What of `ReattachFindsRegionsFree` and `OnlyCrashesLoseRegions` holds for several
   threads per process, and for children that use their parent's token.
2. Compose `Mcdi` with `Lifecycle`: EPROTO as the after-effect of a lost command,
   met by a teardown that ignores results.
