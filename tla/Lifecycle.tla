------------------------------ MODULE Lifecycle ------------------------------
(***************************************************************************)
(* Loading and unloading the driver: the ladder of sfc7120_fbsd_attach and *)
(* sfc7120_hw_init, their failure paths, sfc7120_fbsd_detach, and the ISR  *)
(* that serves the control event queue from the middle of attach on.       *)
(*                                                                         *)
(* Three records of the same thing are kept apart: what the host holds     *)
(* (host), what the softc's flags say (flags) and what the firmware holds  *)
(* for this function (fw), which outlives an unload.                       *)
(***************************************************************************)
EXTENDS Integers, FiniteSets

CONSTANTS
  EvN,              \* size of the control event queue (SFC7120_NUM_EVQ_ENTRY)
  MaxLoads,         \* bound: loads of the module
  MaxEvents,        \* bound: link changes reported
  InitOutcomes,     \* what a command that acquires something may come to
  FiniOutcomes,     \* what a command that releases something may come to
  MayDeny,          \* may ENTITY_RESET be denied (EACCES)?
  EarlyEvents       \* may the link change between GET_LINK and INIT_EVQ(1)?

ASSUME LifecycleAssumption ==
  /\ EvN \in Nat \ {0, 1} /\ MaxLoads \in Nat /\ MaxEvents \in Nat
  \* "lost": the firmware did it, the driver saw a timeout.
  /\ InitOutcomes \subseteq {"ok", "refused", "lost"} /\ "ok" \in InitOutcomes
  /\ FiniOutcomes \subseteq {"ok", "refused", "lost"} /\ "ok" \in FiniOutcomes
  /\ MayDeny \in BOOLEAN /\ EarlyEvents \in BOOLEAN

Queues    == {"evq0", "evq1", "rxq", "txq"}
Resources == Queues \cup {"drv", "vis", "vadaptor", "filter"}
Host      == {"locks", "bar", "mcdi", "dma", "intr", "cdev", "capio"}
Links     == {"up", "down"}

VARIABLES
  pc,      \* where attach, its unwinding or detach stands
  host, flags, fw,
  dying,
  loads,
  ring, ctlW, ctlR,        \* control EVQ: slots, NIC's write index, doorbell
  evq_read_ptr, link_up,   \* the softc's view of it
  irq, isr, processed,     \* interrupt pending; interrupt thread
  nicLink, events,         \* the link itself; bound
  faults                   \* history: what the firmware and the link did to us

control == <<ring, ctlW, ctlR, evq_read_ptr, link_up, nicLink, events>>
ithread == <<irq, isr, processed>>
vars == <<pc, host, flags, fw, dying, loads, control, ithread, faults>>

\* disobeyed: an acquisition was lost or a release not executed and confirmed;
\* denied: ENTITY_RESET was; early: the link changed between GET_LINK and
\* INIT_EVQ(1).  The last two are about the current load.
Faults == {"disobeyed", "denied", "early"}

EmptyRing == [i \in 0..EvN-1 |-> "none"]
\* Mutant: an index that does not wrap.
inc_unmasked(i) == i + 1
inc(i) == (i + 1) % EvN
dist(from, to) == (to - from) % EvN

Init ==
  /\ pc = "unloaded" /\ host = {} /\ flags = {} /\ fw = {}
  /\ dying = FALSE /\ loads = 0
  /\ ring = EmptyRing /\ ctlW = 0 /\ ctlR = 0
  /\ evq_read_ptr = 0 /\ link_up = "down"
  /\ irq = FALSE /\ isr = "out" /\ processed = 0
  /\ nicLink = "down" /\ events = 0 /\ faults = {}

-----------------------------------------------------------------------------
(* Steps of the ladder.                                                    *)

At(here, there) == pc = here /\ pc' = there

\* Allocate or set up something on the host.
HostAcquire(here, x, next, fail) ==
  /\ \/ At(here, next) /\ host' = host \cup {x}
     \/ At(here, fail) /\ UNCHANGED host
  /\ UNCHANGED <<flags, fw, dying, loads, control, ithread, faults>>

HostRelease(here, x, next) ==
  /\ At(here, next) /\ host' = host \ {x}
  /\ UNCHANGED <<flags, fw, dying, loads, control, ithread, faults>>

\* A command that only reports or configures.
Query(here, next, fail) ==
  /\ At(here, next) \/ At(here, fail)
  /\ UNCHANGED <<host, flags, fw, dying, loads, control, ithread, faults>>

\* A command that makes the firmware hold x; it refuses what it holds already.
FwAcquire(here, x, next, fail) ==
  \/ /\ x = "drv" \/ x \notin fw
     /\ At(here, next)
     /\ fw' = fw \cup {x} /\ flags' = flags \cup {x} /\ UNCHANGED faults
  \/ /\ "refused" \in InitOutcomes \/ x \in fw
     /\ At(here, fail) /\ UNCHANGED <<fw, flags, faults>>
  \/ /\ "lost" \in InitOutcomes /\ At(here, fail)
     /\ fw' = fw \cup {x} /\ faults' = faults \cup {"disobeyed"}
     /\ UNCHANGED flags

\* Which flags a failed release leaves set: drv_detach and free_vis clear
\* theirs on success only.
Keeps == {"drv", "vis"}
\* RXQ and TXQ refer to EVQ 1: FINI_EVQ answers EBUSY and the flag stays.
Busy(x) == x = "evq1" /\ fw \cap {"rxq", "txq"} # {}

\* A command that releases x, skipped if the flag says there is nothing.
FwRelease(here, x, next) ==
  /\ At(here, next)
  /\ \/ x \notin flags /\ UNCHANGED <<fw, flags, faults>>
     \/ /\ x \in flags /\ ~Busy(x)
        /\ fw' = fw \ {x} /\ flags' = flags \ {x} /\ UNCHANGED faults
     \/ x \in flags /\ Busy(x) /\ UNCHANGED <<fw, flags, faults>>
     \/ /\ x \in flags /\ ~Busy(x)
        /\ \E out \in FiniOutcomes \ {"ok"} :
             fw' = IF out = "lost" THEN fw \ {x} ELSE fw
        /\ flags' = flags \ ({x} \ Keeps)
        /\ faults' = faults \cup {"disobeyed"}
  /\ UNCHANGED <<host, dying, loads, control, ithread>>

Quietly == UNCHANGED <<host, dying, loads, control, ithread>>

-----------------------------------------------------------------------------
(* sfc7120_fbsd_attach, first part, and sfc7120_hw_init.                   *)

\* A new softc, zeroed by the bus; the locks.
AttachStart ==
  /\ At("unloaded", "bar") /\ loads < MaxLoads
  /\ loads' = loads + 1
  /\ host' = {"locks"} /\ flags' = {} /\ dying' = FALSE
  /\ evq_read_ptr' = 0 /\ link_up' = "down"
  /\ faults' = faults \cap {"disobeyed"}
  /\ UNCHANGED <<fw, ring, ctlW, ctlR, nicLink, events, ithread>>

AllocBar == HostAcquire("bar", "bar", "mcdi_init", "fail_lock")

mcdi_init == HostAcquire("mcdi_init", "mcdi", "get_version", "fail_bar")
get_version == Query("get_version", "drv_attach", "fail_mcdi")
drv_attach ==
  FwAcquire("drv_attach", "drv", "clear_assertions", "fail_mcdi") /\ Quietly
\* drv_attached is set, but this failure does not detach.
clear_assertions == Query("clear_assertions", "entity_reset", "fail_mcdi")

\* Mutant: no reset.
entity_reset_skipped ==
  /\ At("entity_reset", "get_mac")
  /\ UNCHANGED <<fw, host, flags, dying, loads, control, ithread, faults>>

\* Drops what an earlier load left; EACCES is taken for success.
entity_reset ==
  /\ \/ At("entity_reset", "get_mac") /\ fw' = fw \cap {"drv"} /\ UNCHANGED faults
     \/ /\ MayDeny /\ At("entity_reset", "get_mac")
        /\ faults' = faults \cup {"denied"} /\ UNCHANGED fw
     \/ At("entity_reset", "fail_attach") /\ UNCHANGED <<fw, faults>>
  /\ UNCHANGED <<host, flags, dying, loads, control, ithread>>

get_mac == Query("get_mac", "alloc_vis", "fail_attach")
alloc_vis ==
  FwAcquire("alloc_vis", "vis", "vadaptor_alloc", "fail_attach") /\ Quietly
vadaptor_alloc ==
  FwAcquire("vadaptor_alloc", "vadaptor", "get_phy_cfg", "fail_attach")
    /\ Quietly
get_phy_cfg == Query("get_phy_cfg", "set_mac", "fail_attach")
set_mac == Query("set_mac", "set_link", "fail_attach")
set_link == Query("set_link", "get_link", "fail_attach")
\* Polled until the link is up or 3 s have passed; only an error is fatal.
get_link ==
  /\ \/ At("get_link", "alloc_dma") /\ link_up' = nicLink
     \/ At("get_link", "fail_attach") /\ UNCHANGED link_up
  /\ UNCHANGED <<host, flags, fw, dying, loads, ithread, faults,
                 ring, ctlW, ctlR, evq_read_ptr, nicLink, events>>

\* hw_init's own unwinding: VIs and vAdaptor are not given back here.
FailAttach == FwRelease("fail_attach", "drv", "fail_mcdi")
FailMcdi == HostRelease("fail_mcdi", "mcdi", "fail_bar")

-----------------------------------------------------------------------------
(* The rest of sfc7120_fbsd_attach.                                        *)

\* Mutant: a failure jumps to fail_bar, past hw_teardown.
alloc_dma_resources_failBar ==
  /\ \/ At("alloc_dma", "intr_setup") /\ host' = host \cup {"dma"}
        /\ ring' = EmptyRing
     \/ At("alloc_dma", "fail_bar") /\ UNCHANGED <<host, ring>>
  /\ UNCHANGED <<flags, fw, dying, loads, ithread, faults,
                 ctlW, ctlR, evq_read_ptr, link_up, nicLink, events>>

\* All six rings and buffers or none; the rings are primed empty.
alloc_dma_resources ==
  /\ \/ At("alloc_dma", "intr_setup") /\ host' = host \cup {"dma"}
        /\ ring' = EmptyRing
     \/ At("alloc_dma", "td_filter") /\ UNCHANGED <<host, ring>>
  /\ UNCHANGED <<flags, fw, dying, loads, ithread, faults,
                 ctlW, ctlR, evq_read_ptr, link_up, nicLink, events>>

intr_setup == HostAcquire("intr_setup", "intr", "init_evq0", "intr_teardown")

\* sfc7120_mcdi_init_evq: whichever the instance, success resets the control
\* queue's read pointer and arms the ISR, without sc_mtx.
init_evq(x, here, next) ==
  /\ FwAcquire(here, x, next, "intr_teardown")
  /\ evq_read_ptr' = IF pc' = next THEN 0 ELSE evq_read_ptr
  /\ IF x = "evq0" /\ x \in fw' \ fw
       THEN ctlW' = 0 /\ ctlR' = 0 ELSE UNCHANGED <<ctlW, ctlR>>
  /\ UNCHANGED <<host, dying, loads, ithread, ring, link_up, nicLink, events>>

init_evq0 == init_evq("evq0", "init_evq0", "init_evq1")
init_evq1 == init_evq("evq1", "init_evq1", "init_rxq")
init_rxq == FwAcquire("init_rxq", "rxq", "init_txq", "intr_teardown") /\ Quietly
init_txq ==
  FwAcquire("init_txq", "txq", "filter_insert", "intr_teardown") /\ Quietly
filter_insert ==
  FwAcquire("filter_insert", "filter", "make_dev", "intr_teardown") /\ Quietly
make_dev_capio == HostAcquire("make_dev", "cdev", "init_capio", "intr_teardown")
init_capio_sc ==
  /\ At("init_capio", "attached") /\ host' = host \cup {"capio"}
  /\ UNCHANGED <<flags, fw, dying, loads, control, ithread, faults>>

-----------------------------------------------------------------------------
(* Unwinding (fail_dma, fail_hw, fail_bar, fail_lock) and detach.          *)

DetachStart ==
  /\ At("attached", "destroy_dev") /\ dying' = TRUE
  /\ UNCHANGED <<host, flags, fw, loads, control, ithread, faults>>
DestroyDev == HostRelease("destroy_dev", "cdev", "intr_teardown")

\* Mutant: does not wait for the handler.
intr_teardown_nowait ==
  \/ /\ At("intr_teardown", "intr_wait") /\ irq' = FALSE
     /\ UNCHANGED <<host, flags, fw, dying, loads, control, isr, processed, faults>>
  \/ /\ At("intr_wait", "td_filter") /\ host' = host \ {"intr"}
     /\ UNCHANGED <<flags, fw, dying, loads, control, ithread, faults>>

\* bus_teardown_intr bars new runs of the handler and waits for the one that
\* is running; then the vector goes.  No one reads the control queue from here
\* on, and the model forgets it.
intr_teardown ==
  \/ /\ At("intr_teardown", "intr_wait") /\ irq' = FALSE
     /\ UNCHANGED <<host, flags, fw, dying, loads, control, isr, processed, faults>>
  \/ /\ At("intr_wait", "td_filter") /\ isr = "out"
     /\ host' = host \ {"intr"}
     /\ ring' = EmptyRing /\ ctlW' = 0 /\ ctlR' = 0
     /\ evq_read_ptr' = 0 /\ link_up' = "down"
     /\ UNCHANGED <<flags, fw, dying, loads, nicLink, events, ithread, faults>>

\* Mutants: FINI_EVQ without FINI_RXQ; one flag for both event queues.
fini_txq_thenEvq == FwRelease("td_txq", "txq", "td_evq1")
fini_evq1_sharedFlag ==
  /\ At("td_evq1", "td_evq0")
  /\ fw' = fw \ {"evq1"} /\ flags' = flags \ {"evq0", "evq1"}
  /\ UNCHANGED faults
  /\ Quietly

\* sfc7120_hw_teardown, in its order.
filter_remove == FwRelease("td_filter", "filter", "td_txq")
fini_txq == FwRelease("td_txq", "txq", "td_rxq")
fini_rxq == FwRelease("td_rxq", "rxq", "td_evq1")
fini_evq1 == FwRelease("td_evq1", "evq1", "td_evq0")
fini_evq0 == FwRelease("td_evq0", "evq0", "td_vadaptor")
vadaptor_free == FwRelease("td_vadaptor", "vadaptor", "td_vis")
free_vis == FwRelease("td_vis", "vis", "td_drv")
drv_detach == FwRelease("td_drv", "drv", "td_mcdi")
mcdi_fini == HostRelease("td_mcdi", "mcdi", "free_dma")

free_dma_resources == HostRelease("free_dma", "dma", "fail_bar")
ReleaseBar == HostRelease("fail_bar", "bar", "capio_destroy")
\* Nothing to do on the failure paths: capio was not set up yet.
CapioDestroy == HostRelease("capio_destroy", "capio", "fail_lock")
DestroyLocks == HostRelease("fail_lock", "locks", "unloaded")

-----------------------------------------------------------------------------
(* The control queue: NIC and sfc7120_interrupt_handler.                   *)

\* External: an event interrupts; so does a doorbell that leaves events behind.
Wired == "intr" \in host /\ pc # "intr_wait"

\* External: the link changes and the firmware reports it on EVQ 0, or nowhere
\* without one.  Times no one can tell apart are left out: a change that only
\* the next GET_LINK will see comes just before it, and none comes once the
\* handler is gone.
NicLinkChange(l) ==
  LET early == pc \in {"alloc_dma", "intr_setup", "init_evq0", "init_evq1"}
  IN  /\ pc = "get_link" \/ early \/ "intr" \in host
      /\ early => EarlyEvents
      /\ l # nicLink /\ nicLink' = l
      /\ events < MaxEvents /\ events' = events + 1
      /\ faults' = IF early THEN faults \cup {"early"} ELSE faults
      /\ IF "evq0" \in fw
           THEN /\ inc(ctlW) # ctlR
                /\ ring' = [ring EXCEPT ![ctlW] = l]
                /\ ctlW' = inc(ctlW)
                /\ irq' = Wired
           ELSE UNCHANGED <<ring, ctlW, irq>>
      /\ UNCHANGED <<pc, host, flags, fw, dying, loads, isr, processed,
                     ctlR, evq_read_ptr, link_up>>

\* The safe-to-run latch: three fields read without sc_mtx.
Latch == "dma" \in host /\ ~dying /\ "evq0" \in flags

\* The handler may also run for a spurious interrupt.
IsrEnter ==
  /\ isr = "out" /\ Wired /\ Latch
  /\ isr' = "in" /\ processed' = 0 /\ irq' = FALSE
  /\ UNCHANGED <<pc, host, flags, fw, dying, loads, control, faults>>

\* The early return: the interrupt is used up.
IsrBail ==
  /\ isr = "out" /\ Wired /\ ~Latch /\ irq
  /\ irq' = FALSE
  /\ UNCHANGED <<pc, host, flags, fw, dying, loads, control, isr, processed, faults>>

\* Mutants: the slot is not zeroed; only link-up is recognised; each event is
\* acknowledged at once.
event_with(slot, link, rptr) ==
  /\ isr = "in" /\ processed < EvN
  /\ ring[evq_read_ptr] # "none"
  /\ link_up' = link
  /\ ring' = [ring EXCEPT ![evq_read_ptr] = slot]
  /\ evq_read_ptr' = inc(evq_read_ptr)
  /\ ctlR' = rptr
  /\ processed' = processed + 1
  /\ UNCHANGED <<pc, host, flags, fw, dying, loads, irq, isr, faults,
                 ctlW, nicLink, events>>
IsrEvent_unzeroed == event_with(ring[evq_read_ptr], ring[evq_read_ptr], ctlR)
IsrEvent_upOnly == event_with("none", "up", ctlR)
IsrEvent_acksEach == event_with("none", ring[evq_read_ptr], inc(evq_read_ptr))

\* One event under sc_mtx: apply the link change, zero the slot, advance.
IsrEvent ==
  /\ isr = "in" /\ processed < EvN
  /\ ring[evq_read_ptr] # "none"
  /\ link_up' = ring[evq_read_ptr]
  /\ ring' = [ring EXCEPT ![evq_read_ptr] = "none"]
  /\ evq_read_ptr' = inc(evq_read_ptr)
  /\ processed' = processed + 1
  /\ UNCHANGED <<pc, host, flags, fw, dying, loads, irq, isr, faults,
                 ctlW, ctlR, nicLink, events>>

\* Mutant: intr_teardown is called with sc_mtx held, so the handler cannot end.
IsrDone_locked ==
  /\ isr = "in" /\ pc # "intr_wait"
  /\ ring[evq_read_ptr] = "none" \/ processed = EvN
  /\ ctlR' = IF processed > 0 THEN evq_read_ptr ELSE ctlR
  /\ irq' = (irq \/ (processed > 0 /\ Wired /\ evq_read_ptr # ctlW))
  /\ isr' = "out" /\ processed' = 0
  /\ UNCHANGED <<pc, host, flags, fw, dying, loads, faults,
                 ring, ctlW, evq_read_ptr, link_up, nicLink, events>>

\* Empty slot, or a whole ring's worth: acknowledge if anything was taken.
IsrDone ==
  /\ isr = "in"
  /\ ring[evq_read_ptr] = "none" \/ processed = EvN
  /\ ctlR' = IF processed > 0 THEN evq_read_ptr ELSE ctlR
  /\ irq' = (irq \/ (processed > 0 /\ Wired /\ evq_read_ptr # ctlW))
  /\ isr' = "out" /\ processed' = 0
  /\ UNCHANGED <<pc, host, flags, fw, dying, loads, faults,
                 ring, ctlW, evq_read_ptr, link_up, nicLink, events>>

-----------------------------------------------------------------------------

hw_init == \/ mcdi_init \/ get_version \/ drv_attach \/ clear_assertions
           \/ entity_reset \/ get_mac \/ alloc_vis \/ vadaptor_alloc
           \/ get_phy_cfg \/ set_mac \/ set_link \/ get_link
           \/ FailAttach \/ FailMcdi

attach == \/ AttachStart \/ AllocBar \/ hw_init \/ alloc_dma_resources
          \/ intr_setup \/ init_evq0 \/ init_evq1 \/ init_rxq \/ init_txq
          \/ filter_insert \/ make_dev_capio \/ init_capio_sc

hw_teardown == \/ filter_remove \/ fini_txq \/ fini_rxq \/ fini_evq1
               \/ fini_evq0 \/ vadaptor_free \/ free_vis \/ drv_detach
               \/ mcdi_fini

detach == \/ DetachStart \/ DestroyDev \/ intr_teardown \/ hw_teardown
          \/ free_dma_resources \/ ReleaseBar \/ CapioDestroy \/ DestroyLocks

Isr == IsrEnter \/ IsrBail \/ IsrEvent \/ IsrDone

Next == attach \/ detach \/ Isr \/ \E l \in Links : NicLinkChange(l)

\* A load or unload once begun runs on; a pending interrupt is delivered and a
\* handler that has begun is scheduled.
Spec == /\ Init /\ [][Next]_vars
        /\ WF_vars(Isr /\ (irq \/ isr = "in"))
        /\ WF_vars((attach \/ detach) /\ pc \notin {"unloaded", "attached"})

-----------------------------------------------------------------------------
(* Properties.                                                             *)

TypeOK ==
  /\ host \subseteq Host /\ flags \subseteq Resources /\ fw \subseteq Resources
  /\ dying \in BOOLEAN /\ loads \in 0..MaxLoads /\ events \in 0..MaxEvents
  /\ ring \in [0..EvN-1 -> Links \cup {"none"}]
  /\ {ctlW, ctlR, evq_read_ptr} \subseteq 0..EvN-1
  /\ {link_up, nicLink} \subseteq Links
  /\ faults \subseteq Faults
  /\ irq \in BOOLEAN /\ isr \in {"out", "in"} /\ processed \in 0..EvN

\* The firmware executed and confirmed everything it was told, so far.
Obeyed == "disobeyed" \notin faults

\* "Firmware teardown MUST happen before freeing the DMA rings": while the
\* firmware has a queue, the memory it writes that queue's events and
\* completions to is allocated, whichever steps of a load were refused.
QueueMemoryLive == Obeyed /\ fw \cap Queues # {} => "dma" \in host

\* The handler never runs on freed memory, a destroyed lock or after the
\* vector is gone: its unlocked latch and the order of both teardowns.
IsrSafe == isr = "in" => {"locks", "bar", "dma", "intr"} \subseteq host

\* Whatever step of attach or detach failed, on either side, the host gets
\* everything back: no failure label skips a release.
HostUnwound == pc = "unloaded" => host = {}

\* If the firmware executes what it is told to release, a failed load leaves it
\* no queue and no filter, and a detach leaves it nothing at all: "Order matters:
\* FINI_TXQ / FINI_RXQ must complete before FINI_EVQ", or that meets EBUSY.
FirmwareUnwound ==
  Obeyed /\ pc = "unloaded" =>
    /\ fw \cap (Queues \cup {"filter"}) = {}
    /\ dying => fw = {}

\* A load finds nothing that an earlier one left when it allocates its VIs, even
\* where the firmware refused to release it: "ENTITY_RESET ... already releases
\* any VIs the function held from a prior load".
AllocVisStartsClean ==
  "denied" \notin faults /\ pc = "alloc_vis" => fw \subseteq {"drv"}

ringTracks ==
  "evq0" \in fw /\ "evq0" \in flags =>
    \A i \in 0..EvN-1 :
      ring[i] # "none" <=> dist(evq_read_ptr, i) < dist(evq_read_ptr, ctlW)

\* "The handler only reads EVQ 0, so arming here - before EVQ 1 exists - is
\* safe": the control queue's unread events lie between the read pointer and
\* the NIC's write index, and nowhere else.
ControlQueueTracks == ringTracks

\* The same, unless the link changed while attach was between GET_LINK and
\* INIT_EVQ(1): no other order of events, interrupts, failures and reloads
\* puts the reader and the NIC out of step.
OnlyEarlyDesyncs == "early" \notin faults => ringTracks

\* The guard "processed full ring without empty marker" is needed only after an
\* early link change, when INIT_EVQ(1) moves the read pointer under a running
\* handler: the NIC gets room only from the acknowledgement at the end of a run.
IsrBounded == "early" \notin faults => processed < EvN

\* Every link change reaches the softc: the driver's link state becomes that
\* of the NIC, or it changes again, or the driver goes; or it had changed early,
\* neither polled nor reported.
LinkFollows ==
  \A l \in Links :
    pc = "attached" /\ nicLink = l /\ "early" \notin faults
      ~> link_up = l \/ nicLink # l \/ pc # "attached"

\* A load or unload comes to an end: no step waits for ever, in particular
\* intr_teardown for the handler.
LoadEnds == pc \notin {"unloaded", "attached"} ~> pc \in {"unloaded", "attached"}
=============================================================================
