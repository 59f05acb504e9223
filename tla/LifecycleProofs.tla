--------------------------- MODULE LifecycleProofs ---------------------------
(***************************************************************************)
(* The ladder of attach and detach gives everything back, and the control  *)
(* event queue stays in step, for every ring size, any number of loads and *)
(* link changes, and whatever the firmware refuses, loses or denies.       *)
(***************************************************************************)
EXTENDS Lifecycle, WrapLemmas

(* Where the ladder may stand.                                             *)

\* hw_init, from the first command on.
InHwInit == {"get_version", "drv_attach", "clear_assertions", "entity_reset",
             "get_mac", "alloc_vis", "vadaptor_alloc", "get_phy_cfg", "set_mac",
             "set_link", "get_link", "alloc_dma"}
\* attach with the queues' memory, then with the interrupt.
Rings    == {"init_evq1", "init_rxq", "init_txq", "filter_insert", "make_dev",
             "init_capio", "attached", "destroy_dev"}
Stopping == {"intr_teardown", "intr_wait"}
\* hw_teardown.
TearDown == {"td_filter", "td_txq", "td_rxq", "td_evq1", "td_evq0",
             "td_vadaptor", "td_vis", "td_drv", "td_mcdi"}
\* The labels of attach's failure paths, which detach shares.
Failing  == {"fail_attach", "fail_mcdi", "fail_bar", "capio_destroy", "fail_lock"}

\* What the host holds is what the position in the ladder says.
HostLadder ==
  /\ pc \in {"unloaded", "bar", "mcdi_init", "intr_setup", "init_evq0", "free_dma"}
            \cup InHwInit \cup Rings \cup Stopping \cup TearDown \cup Failing
  /\ host \subseteq Host
  /\ "locks" \in host <=> pc # "unloaded"
  /\ "bar" \in host <=> pc \notin {"unloaded", "bar", "capio_destroy", "fail_lock"}
  /\ "mcdi" \in host <=>
       pc \notin {"unloaded", "bar", "mcdi_init", "free_dma", "fail_bar",
                  "capio_destroy", "fail_lock"}
  /\ pc \in {"intr_setup", "init_evq0"} \cup Rings \cup Stopping => "dma" \in host
  /\ "dma" \in host => pc \in {"intr_setup", "init_evq0", "free_dma"}
                              \cup Rings \cup Stopping \cup TearDown
  /\ pc \in {"init_evq0"} \cup Rings => "intr" \in host
  /\ "intr" \in host => pc \in {"init_evq0"} \cup Rings \cup Stopping
  /\ "cdev" \in host <=> pc \in {"init_capio", "attached", "destroy_dev"}
  /\ "capio" \in host => pc \in {"attached", "destroy_dev", "free_dma", "fail_bar",
                                 "capio_destroy"} \cup Stopping \cup TearDown
  /\ isr \in {"out", "in"}
  /\ isr = "in" => "intr" \in host

\* The actions in terms of the steps they are.
USE DEF At

\* Every step keeps it.
LEMMA HostStep == HostLadder /\ [Next]_vars => HostLadder'
<1> SUFFICES ASSUME HostLadder, [Next]_vars PROVE HostLadder'
  OBVIOUS
<1> USE DEF HostLadder, InHwInit, Rings, Stopping, TearDown, Failing, Host
<1>1. CASE UNCHANGED vars
  BY <1>1 DEF vars, ithread
<1>2. CASE AttachStart \/ AllocBar
  BY <1>2 DEF AttachStart, AllocBar, HostAcquire, ithread
<1>3. CASE hw_init
  <2>1. CASE mcdi_init \/ get_version \/ clear_assertions \/ get_mac
    BY <2>1 DEF mcdi_init, get_version, clear_assertions, get_mac, HostAcquire,
                Query, ithread
  <2>2. CASE get_phy_cfg \/ set_mac \/ set_link \/ get_link \/ entity_reset
    BY <2>2 DEF get_phy_cfg, set_mac, set_link, get_link, entity_reset, Query, ithread
  <2>3. CASE drv_attach \/ alloc_vis \/ vadaptor_alloc
    BY <2>3 DEF drv_attach, alloc_vis, vadaptor_alloc, FwAcquire, Quietly, ithread
  <2>4. CASE FailAttach \/ FailMcdi
    BY <2>4 DEF FailAttach, FailMcdi, FwRelease, HostRelease, ithread
  <2>5. QED
    BY <1>3, <2>1, <2>2, <2>3, <2>4 DEF hw_init
<1>4. CASE alloc_dma_resources \/ intr_setup
  BY <1>4 DEF alloc_dma_resources, intr_setup, HostAcquire, ithread
<1>5. CASE init_evq0 \/ init_evq1
  BY <1>5 DEF init_evq0, init_evq1, init_evq, FwAcquire, ithread
<1>6. CASE init_rxq \/ init_txq \/ filter_insert
  BY <1>6 DEF init_rxq, init_txq, filter_insert, FwAcquire, Quietly, ithread
<1>7. CASE make_dev_capio \/ init_capio_sc
  BY <1>7 DEF make_dev_capio, init_capio_sc, HostAcquire, ithread
<1>8. CASE DetachStart \/ DestroyDev \/ intr_teardown
  BY <1>8 DEF DetachStart, DestroyDev, intr_teardown, HostRelease, ithread
<1>9. CASE hw_teardown
  <2>1. CASE filter_remove \/ fini_txq \/ fini_rxq \/ fini_evq1 \/ fini_evq0
    BY <2>1 DEF filter_remove, fini_txq, fini_rxq, fini_evq1, fini_evq0, FwRelease,
                ithread
  <2>2. CASE vadaptor_free \/ free_vis \/ drv_detach \/ mcdi_fini
    BY <2>2 DEF vadaptor_free, free_vis, drv_detach, mcdi_fini, FwRelease,
                HostRelease, ithread
  <2>3. QED
    BY <1>9, <2>1, <2>2 DEF hw_teardown
<1>10. CASE free_dma_resources \/ ReleaseBar \/ CapioDestroy \/ DestroyLocks
  BY <1>10 DEF free_dma_resources, ReleaseBar, CapioDestroy, DestroyLocks,
               HostRelease, ithread
<1>11. CASE Isr
  BY <1>11 DEF Isr, IsrEnter, IsrBail, IsrEvent, IsrDone, Wired
<1>12. ASSUME NEW l \in Links, NicLinkChange(l) PROVE HostLadder'
  BY <1>12 DEF NicLinkChange
<1>13. QED
  BY <1>1, <1>2, <1>3, <1>4, <1>5, <1>6, <1>7, <1>8, <1>9, <1>10, <1>11, <1>12
     DEF Next, attach, detach

\* The ladder holds throughout.
LEMMA HostInvariant == Spec => []HostLadder
<1>1. Init => HostLadder
  BY DEF Init, HostLadder, InHwInit, Rings, Stopping, TearDown, Failing, Host
<1>2. QED
  BY <1>1, HostStep, PTL DEF Spec

\* Whichever step of attach or detach fails, the host has everything back when
\* the driver is gone.
THEOREM HostTheorem == Spec => []HostUnwound
<1>1. HostLadder => HostUnwound
  BY DEF HostLadder, HostUnwound, InHwInit, Rings, Stopping, TearDown, Failing, Host
<1>2. QED
  BY <1>1, HostInvariant, PTL

\* The interrupt handler runs only on live memory, with its lock and its vector.
THEOREM IsrSafeTheorem == Spec => []IsrSafe
<1>1. HostLadder => IsrSafe
  BY DEF HostLadder, IsrSafe, InHwInit, Rings, Stopping, TearDown, Failing
<1>2. QED
  BY <1>1, HostInvariant, PTL

-----------------------------------------------------------------------------
(* What the firmware holds.                                                *)

Taken == Queues \cup {"filter"}

\* The positions at which attach may have acquired the resource and no release
\* of it has been tried.
Range(x) ==
  CASE x = "evq0"   -> Rings \cup Stopping
                       \cup {"td_filter", "td_txq", "td_rxq", "td_evq1", "td_evq0"}
    [] x = "evq1"   -> (Rings \ {"init_evq1"}) \cup Stopping
                       \cup {"td_filter", "td_txq", "td_rxq", "td_evq1"}
    [] x = "rxq"    -> (Rings \ {"init_evq1", "init_rxq"}) \cup Stopping
                       \cup {"td_filter", "td_txq", "td_rxq"}
    [] x = "txq"    -> (Rings \ {"init_evq1", "init_rxq", "init_txq"}) \cup Stopping
                       \cup {"td_filter", "td_txq"}
    [] x = "filter" -> {"make_dev", "init_capio", "attached", "destroy_dev",
                        "td_filter"} \cup Stopping

\* After destroy_dev only detach runs.
InDetach == {"destroy_dev", "free_dma", "fail_bar", "capio_destroy", "fail_lock",
             "unloaded"} \cup Stopping \cup TearDown

\* While the firmware does as it is told, the flags of the queues and the filter
\* are the truth; those of the driver, the VIs and the vAdaptor are from a
\* completed attach on.
FwLadder ==
  /\ flags \subseteq Resources /\ fw \subseteq Resources /\ dying \in BOOLEAN
  /\ \A x \in Taken \ {"evq1"} : x \in flags => pc \in Range(x)
  /\ Obeyed => /\ fw \cap Taken = flags \cap Taken
               /\ "evq1" \in flags => pc \in Range("evq1")
               /\ flags \cap Queues # {} => "dma" \in host
  /\ pc \in (InHwInit \ {"get_version", "drv_attach"})
            \cup {"intr_setup", "init_evq0"} \cup (Rings \ {"destroy_dev"})
       => "drv" \in flags
  /\ pc \in {"vadaptor_alloc", "get_phy_cfg", "set_mac", "set_link", "get_link",
             "alloc_dma", "intr_setup", "init_evq0"} \cup (Rings \ {"destroy_dev"})
       => "vis" \in flags
  /\ pc \in {"get_phy_cfg", "set_mac", "set_link", "get_link",
             "alloc_dma", "intr_setup", "init_evq0"} \cup (Rings \ {"destroy_dev"})
       => "vadaptor" \in flags
  /\ dying => pc \in InDetach
  /\ dying /\ Obeyed =>
       /\ fw \subseteq flags
       /\ "drv" \in flags => pc \in {"destroy_dev"} \cup Stopping
                                     \cup (TearDown \ {"td_mcdi"})
       /\ "vis" \in flags => pc \in {"destroy_dev"} \cup Stopping
                                     \cup (TearDown \ {"td_drv", "td_mcdi"})
       /\ "vadaptor" \in flags => pc \in {"destroy_dev"} \cup Stopping
                                     \cup (TearDown \ {"td_vis", "td_drv", "td_mcdi"})
  /\ "denied" \notin faults /\ pc \in {"get_mac", "alloc_vis"} => fw \subseteq {"drv"}

\* Every step keeps it.
LEMMA FwStep == HostLadder /\ FwLadder /\ [Next]_vars => FwLadder'
<1> SUFFICES ASSUME HostLadder, FwLadder, [Next]_vars PROVE FwLadder'
  OBVIOUS
<1> USE DEF FwLadder, Range, Taken, InDetach, InHwInit, Rings, Stopping, TearDown,
            Failing, Queues, Resources, Obeyed
<1>1. CASE UNCHANGED vars
  BY <1>1 DEF vars
<1>2. CASE AttachStart
  BY <1>2 DEF AttachStart
<1>3. CASE AllocBar \/ mcdi_init \/ get_version
  BY <1>3 DEF AllocBar, mcdi_init, get_version, HostAcquire, Query
<1>4. CASE clear_assertions \/ get_mac \/ get_phy_cfg \/ set_mac \/ set_link
           \/ get_link
  BY <1>4 DEF clear_assertions, get_mac, get_phy_cfg, set_mac, set_link, get_link,
              Query
<1>5. CASE entity_reset
  BY <1>5 DEF entity_reset
<1>6. CASE drv_attach
  BY <1>6 DEF drv_attach, FwAcquire, Quietly
<1>7. CASE alloc_vis
  BY <1>7 DEF alloc_vis, FwAcquire, Quietly
<1>8. CASE vadaptor_alloc
  BY <1>8 DEF vadaptor_alloc, FwAcquire, Quietly
<1>9. CASE FailAttach \/ FailMcdi
  BY <1>9 DEF FailAttach, FailMcdi, FwRelease, HostRelease, Busy, Keeps
<1>10. CASE alloc_dma_resources \/ intr_setup
  BY <1>10 DEF alloc_dma_resources, intr_setup, HostAcquire
<1>11. CASE init_evq0
  BY <1>11 DEF init_evq0, init_evq, FwAcquire, HostLadder
<1>12. CASE init_evq1
  BY <1>12 DEF init_evq1, init_evq, FwAcquire, HostLadder
<1>13. CASE init_rxq
  BY <1>13 DEF init_rxq, FwAcquire, Quietly, HostLadder
<1>14. CASE init_txq
  BY <1>14 DEF init_txq, FwAcquire, Quietly, HostLadder
<1>15. CASE filter_insert
  BY <1>15 DEF filter_insert, FwAcquire, Quietly
<1>16. CASE make_dev_capio \/ init_capio_sc
  BY <1>16 DEF make_dev_capio, init_capio_sc, HostAcquire
<1>17. CASE DetachStart
  BY <1>17 DEF DetachStart
<1>18. CASE DestroyDev \/ intr_teardown
  BY <1>18 DEF DestroyDev, intr_teardown, HostRelease
<1>19. CASE filter_remove
  BY <1>19 DEF filter_remove, FwRelease, Busy, Keeps
<1>20. CASE fini_txq
  BY <1>20 DEF fini_txq, FwRelease, Busy, Keeps
<1>21. CASE fini_rxq
  BY <1>21 DEF fini_rxq, FwRelease, Busy, Keeps
<1>22. CASE fini_evq1
  BY <1>22 DEF fini_evq1, FwRelease, Busy, Keeps
<1>23. CASE fini_evq0
  BY <1>23 DEF fini_evq0, FwRelease, Busy, Keeps
<1>24. CASE vadaptor_free
  BY <1>24 DEF vadaptor_free, FwRelease, Busy, Keeps
<1>25. CASE free_vis
  BY <1>25 DEF free_vis, FwRelease, Busy, Keeps
<1>26. CASE drv_detach
  BY <1>26 DEF drv_detach, FwRelease, Busy, Keeps
<1>27. CASE mcdi_fini \/ free_dma_resources
  BY <1>27 DEF mcdi_fini, free_dma_resources, HostRelease
<1>28. CASE ReleaseBar \/ CapioDestroy \/ DestroyLocks
  BY <1>28 DEF ReleaseBar, CapioDestroy, DestroyLocks, HostRelease
<1>29. CASE Isr
  BY <1>29 DEF Isr, IsrEnter, IsrBail, IsrEvent, IsrDone
<1>30. ASSUME NEW l \in Links, NicLinkChange(l) PROVE FwLadder'
  BY <1>30 DEF NicLinkChange
<1>31. CASE attach
  BY <1>31, <1>2, <1>3, <1>4, <1>5, <1>6, <1>7, <1>8, <1>9, <1>10, <1>11, <1>12,
     <1>13, <1>14, <1>15, <1>16, Zenon DEF attach, hw_init
<1>32. CASE detach
  BY <1>32, <1>17, <1>18, <1>19, <1>20, <1>21, <1>22, <1>23, <1>24, <1>25, <1>26,
     <1>27, <1>28, Zenon DEF detach, hw_teardown
<1>33. QED
  BY <1>1, <1>29, <1>30, <1>31, <1>32, Zenon DEF Next

\* The flags tell the truth throughout.
LEMMA FwInvariant == Spec => []FwLadder
<1>1. Init => FwLadder
  BY DEF Init, FwLadder, InHwInit, Rings, Stopping, TearDown, Taken, Queues
<1>2. QED
  BY <1>1, FwStep, HostInvariant, PTL DEF Spec

\* While the firmware has a queue, its memory is allocated.
THEOREM QueueMemoryTheorem == Spec => []QueueMemoryLive
<1>1. FwLadder => QueueMemoryLive
  BY DEF FwLadder, Taken, QueueMemoryLive
<1>2. QED
  BY <1>1, FwInvariant, PTL

\* After a failed load the firmware has no queue and no filter, after a detach
\* nothing, provided it executes the releases it is told.
THEOREM FirmwareTheorem == Spec => []FirmwareUnwound
<1>1. FwLadder => FirmwareUnwound
  BY DEF FwLadder, FirmwareUnwound, Range, Taken, Rings, Stopping, TearDown, InDetach,
         Queues, Resources
<1>2. QED
  BY <1>1, FwInvariant, PTL

\* ALLOC_VIS finds nothing of an earlier load, unless the reset was denied.
THEOREM AllocVisTheorem == Spec => []AllocVisStartsClean
<1>1. FwLadder => AllocVisStartsClean
  BY DEF FwLadder, AllocVisStartsClean
<1>2. QED
  BY <1>1, FwInvariant, PTL

-----------------------------------------------------------------------------
(* Types.                                                                  *)

\* The control queue's indices wrap at EvN.
LEMMA Wraps ==
  /\ EvN \in Nat \ {0}
  /\ \A i : inc(i) = After(EvN, i)
  /\ \A i, j : dist(i, j) = Gap(EvN, i, j)
  /\ \A i \in 0..EvN-1 : inc(i) \in 0..EvN-1
<1>1. EvN \in Nat \ {0} /\ \A i : inc(i) = After(EvN, i)
  BY LifecycleAssumption DEF LifecycleAssumption, inc, After
<1>2. \A i, j : dist(i, j) = Gap(EvN, i, j)
  BY DEF dist, Gap
<1>3. \A i \in 0..EvN-1 : inc(i) \in 0..EvN-1
  BY <1>1, AfterIs
<1>4. QED
  BY <1>1, <1>2, <1>3

\* The control queue.
CtlType ==
  /\ ring \in [0..EvN-1 -> Links \cup {"none"}]
  /\ ctlW \in 0..EvN-1 /\ ctlR \in 0..EvN-1 /\ evq_read_ptr \in 0..EvN-1
  /\ link_up \in Links /\ nicLink \in Links
  /\ isr \in {"out", "in"} /\ processed \in 0..EvN

\* The ladder's steps leave the control queue and the handler alone, or set up a
\* part of the queue.
LEMMA LadderFrame ==
  ASSUME attach \/ detach
  PROVE  /\ isr' = isr /\ processed' = processed /\ nicLink' = nicLink
         /\ events' = events /\ (intr_teardown \/ irq' = irq)
         /\ loads' = loads \/ (loads < MaxLoads /\ loads' = loads + 1)
         /\ faults' \subseteq faults \cup {"disobeyed", "denied"}
         /\ link_up' \in {link_up, nicLink, "down"}
         /\ ring' \in {ring, EmptyRing}
         /\ ctlW' \in {ctlW, 0} /\ ctlR' \in {ctlR, 0}
         /\ evq_read_ptr' \in {evq_read_ptr, 0}
<1> USE DEF control, ithread
<1>1. CASE AttachStart \/ AllocBar \/ mcdi_init \/ get_version \/ clear_assertions
  BY <1>1 DEF AttachStart, AllocBar, mcdi_init, get_version, clear_assertions,
              HostAcquire, Query
<1>2. CASE get_mac \/ get_phy_cfg \/ set_mac \/ set_link \/ get_link \/ entity_reset
  BY <1>2 DEF get_mac, get_phy_cfg, set_mac, set_link, get_link, entity_reset, Query
<1>3. CASE drv_attach \/ alloc_vis \/ vadaptor_alloc \/ FailAttach \/ FailMcdi
  BY <1>3 DEF drv_attach, alloc_vis, vadaptor_alloc, FailAttach, FailMcdi, Quietly,
              FwAcquire, FwRelease, HostRelease
<1>4. CASE alloc_dma_resources \/ intr_setup \/ make_dev_capio \/ init_capio_sc
  BY <1>4 DEF alloc_dma_resources, intr_setup, make_dev_capio, init_capio_sc,
              HostAcquire
<1>5. CASE init_evq0 \/ init_evq1
  BY <1>5 DEF init_evq0, init_evq1, init_evq, FwAcquire
<1>6. CASE init_rxq \/ init_txq \/ filter_insert
  BY <1>6 DEF init_rxq, init_txq, filter_insert, FwAcquire, Quietly
<1>7. CASE DetachStart \/ DestroyDev \/ intr_teardown
  BY <1>7 DEF DetachStart, DestroyDev, intr_teardown, HostRelease
<1>8. CASE hw_teardown
  BY <1>8 DEF hw_teardown, filter_remove, fini_txq, fini_rxq, fini_evq1, fini_evq0,
     vadaptor_free, free_vis, drv_detach, mcdi_fini, FwRelease, HostRelease
<1>9. CASE free_dma_resources \/ ReleaseBar \/ CapioDestroy \/ DestroyLocks
  BY <1>9 DEF free_dma_resources, ReleaseBar, CapioDestroy, DestroyLocks, HostRelease
<1>10. QED
  BY <1>1, <1>2, <1>3, <1>4, <1>5, <1>6, <1>7, <1>8, <1>9 DEF attach, detach, hw_init

\* Every step keeps the types of the control queue.
LEMMA CtlTypeStep == CtlType /\ [Next]_vars => CtlType'
<1> SUFFICES ASSUME CtlType, [Next]_vars PROVE CtlType'
  OBVIOUS
<1> USE LifecycleAssumption DEF LifecycleAssumption, Links
<1>1. CASE UNCHANGED vars
  BY <1>1 DEF vars, control, ithread, CtlType
<1>2. CASE attach \/ detach
  <2>1. EmptyRing \in [0..EvN-1 -> Links \cup {"none"}] /\ 0 \in 0..EvN-1
    BY DEF EmptyRing
  <2>2. QED
    BY <1>2, <2>1, LadderFrame DEF CtlType
<1>3. CASE IsrEnter \/ IsrBail
  BY <1>3 DEF IsrEnter, IsrBail, CtlType, control
<1>4. CASE IsrEvent
  <2>1. inc(evq_read_ptr) \in 0..EvN-1
    BY Wraps DEF CtlType
  <2>2. QED
    BY <1>4, <2>1 DEF IsrEvent, CtlType
<1>5. CASE IsrDone
  BY <1>5 DEF IsrDone, CtlType
<1>6. ASSUME NEW l \in Links, NicLinkChange(l) PROVE CtlType'
  <2>1. inc(ctlW) \in 0..EvN-1
    BY Wraps DEF CtlType
  <2>2. QED
    BY <1>6, <2>1 DEF NicLinkChange, CtlType
<1>7. QED
  BY <1>1, <1>2, <1>3, <1>4, <1>5, <1>6 DEF Next, Isr

\* The booleans and the history.
RestType ==
  /\ irq \in BOOLEAN /\ faults \subseteq Faults
  /\ loads \in 0..MaxLoads /\ events \in 0..MaxEvents

\* Every step keeps those.
LEMMA RestTypeStep == RestType /\ [Next]_vars => RestType'
<1> SUFFICES ASSUME RestType, [Next]_vars PROVE RestType'
  OBVIOUS
<1> USE LifecycleAssumption DEF LifecycleAssumption, Faults
<1>1. CASE UNCHANGED vars
  BY <1>1 DEF vars, control, ithread, RestType
<1>2. CASE attach \/ detach
  <2>1. irq' = irq \/ intr_teardown
    BY <1>2, LadderFrame
  <2>2. irq' \in BOOLEAN
    BY <2>1, Zenon DEF RestType, intr_teardown, ithread
  <2>3. faults' \subseteq faults \cup {"disobeyed", "denied"}
    BY <1>2, LadderFrame
  <2>4. events' = events /\ (loads' = loads \/ (loads < MaxLoads /\ loads' = loads + 1))
    BY <1>2, LadderFrame
  <2>5. faults' \subseteq Faults /\ loads' \in 0..MaxLoads /\ events' \in 0..MaxEvents
    BY <2>3, <2>4 DEF RestType
  <2>6. QED
    BY <2>2, <2>5, Zenon DEF RestType
<1>3. CASE Isr
  <2>1. irq' \in BOOLEAN
    BY <1>3, Zenon DEF Isr, IsrEnter, IsrBail, IsrEvent, IsrDone, RestType
  <2>2. QED
    BY <1>3, <2>1 DEF Isr, IsrEnter, IsrBail, IsrEvent, IsrDone, control, RestType
<1>4. ASSUME NEW l \in Links, NicLinkChange(l) PROVE RestType'
  <2>1. irq' \in BOOLEAN
    BY <1>4, Zenon DEF NicLinkChange, Wired, RestType
  <2>2. QED
    BY <1>4, <2>1 DEF NicLinkChange, RestType
<1>5. QED
  BY <1>1, <1>2, <1>3, <1>4 DEF Next

\* Both hold throughout.
LEMMA TypeInvariant == Spec => [](CtlType /\ RestType)
<1> USE LifecycleAssumption DEF LifecycleAssumption
<1>1. Init => CtlType
  BY DEF Init, CtlType, EmptyRing, Links
<1>2. Init => RestType
  <2>1. Init => irq \in BOOLEAN
    BY Zenon DEF Init
  <2>2. QED
    BY <2>1 DEF Init, RestType
<1>3. QED
  BY <1>1, <1>2, CtlTypeStep, RestTypeStep, PTL DEF Spec

\* Every variable keeps its type, the indices of the control queue their range.
THEOREM LifecycleTypeTheorem == Spec => []TypeOK
<1>1. HostLadder /\ FwLadder /\ CtlType /\ RestType => TypeOK
  <2> SUFFICES ASSUME HostLadder, FwLadder, CtlType, RestType PROVE TypeOK
    OBVIOUS
  <2>1. {ctlW, ctlR, evq_read_ptr} \subseteq 0..EvN-1 /\ {link_up, nicLink} \subseteq Links
    BY DEF CtlType
  <2>2. QED
    BY <2>1, Zenon DEF HostLadder, FwLadder, CtlType, RestType, TypeOK
<1>2. QED
  BY <1>1, HostInvariant, FwInvariant, TypeInvariant, PTL

-----------------------------------------------------------------------------
(* The control queue.                                                      *)

\* Unread events lie between the read pointer and the NIC's write index; the
\* doorbell lags behind by what the running handler has read.
InStep ==
  /\ \A i \in 0..EvN-1 :
       ring[i] # "none" <=> dist(evq_read_ptr, i) < dist(evq_read_ptr, ctlW)
  /\ dist(ctlR, evq_read_ptr) <= dist(ctlR, ctlW)
  /\ isr = "in" => processed = dist(ctlR, evq_read_ptr)
  /\ isr = "out" => ctlR = evq_read_ptr

Zeroed == ring = EmptyRing /\ ctlW = 0 /\ ctlR = 0 /\ evq_read_ptr = 0

\* The handler runs only on an armed queue; and unless the link changed early the
\* queue is empty until INIT_EVQ(1) has reset its read pointer, and in step
\* until the handler is gone.
CtlInv ==
  /\ isr = "out" => processed = 0
  /\ isr = "in" => "evq0" \in flags
  /\ "early" \notin faults =>
       /\ pc \in {"intr_setup", "init_evq0"} => ring = EmptyRing
       /\ pc = "init_evq1" => Zeroed
       /\ pc \in TearDown /\ "evq0" \in flags => Zeroed
       /\ pc \in Rings \cup Stopping /\ "evq0" \in flags => InStep

\* A queue that is all zeros is in step.
LEMMA ZeroedInStep == Zeroed /\ processed = 0 => InStep
<1> SUFFICES ASSUME Zeroed, processed = 0 PROVE InStep
  OBVIOUS
<1>1. 0 \in 0..EvN-1 /\ dist(0, 0) = 0
  BY Wraps, GapIs
<1>2. \A i \in 0..EvN-1 : ~(dist(0, i) < 0)
  BY <1>1, Wraps, GapIs
<1>3. QED
  BY <1>1, <1>2 DEF Zeroed, InStep, EmptyRing

\* The handler takes an event: the read pointer moves over it.
LEMMA TakeInStep ==
  ASSUME CtlType, InStep, IsrEvent
  PROVE  InStep'
<1> DEFINE r == evq_read_ptr
           a == After(EvN, r)
<1>1. /\ r \in 0..EvN-1 /\ ctlW \in 0..EvN-1 /\ ctlR \in 0..EvN-1
      /\ ctlW' = ctlW /\ ctlR' = ctlR
      /\ isr = "in" /\ isr' = "in" /\ processed' = processed + 1
      /\ evq_read_ptr' = a /\ ring[r] # "none"
      /\ ring' = [ring EXCEPT ![r] = "none"] /\ ring \in [0..EvN-1 -> Links \cup {"none"}]
      /\ EvN \in Nat \ {0}
  BY Wraps DEF CtlType, IsrEvent
<1>2. r # ctlW
  <2>1. Gap(EvN, r, r) < Gap(EvN, r, ctlW)
    BY <1>1, Wraps DEF InStep
  <2>2. Gap(EvN, r, r) \in Int
    BY <1>1, GapIs
  <2>3. QED
    BY <2>1, <2>2
<1>3. ASSUME NEW i \in 0..EvN-1
      PROVE  ring'[i] # "none" <=> Gap(EvN, a, i) < Gap(EvN, a, ctlW)
  <2>1. ring'[i] # "none" <=> i # r /\ Gap(EvN, r, i) < Gap(EvN, r, ctlW)
    BY <1>1, Wraps DEF InStep
  <2>2. QED
    BY <1>1, <1>2, <2>1, ReadShrinks
<1>4. /\ Gap(EvN, ctlR, a) = Gap(EvN, ctlR, r) + 1
      /\ Gap(EvN, ctlR, a) <= Gap(EvN, ctlR, ctlW)
  BY <1>1, <1>2, Wraps, ReadBetween DEF InStep
<1> HIDE DEF a
<1>5. QED
  BY <1>1, <1>3, <1>4, Wraps DEF InStep

\* The NIC writes an event where the doorbell leaves it room.
LEMMA WriteInStep ==
  ASSUME CtlType, InStep, NEW l \in Links, inc(ctlW) # ctlR,
         ring' = [ring EXCEPT ![ctlW] = l], ctlW' = inc(ctlW),
         UNCHANGED <<ctlR, evq_read_ptr, isr, processed>>
  PROVE  InStep'
<1> DEFINE r == evq_read_ptr
           w == ctlW
           a == After(EvN, w)
<1>1. /\ r \in 0..EvN-1 /\ w \in 0..EvN-1 /\ ctlR \in 0..EvN-1 /\ EvN \in Nat \ {0}
      /\ ring \in [0..EvN-1 -> Links \cup {"none"}] /\ ctlW' = a /\ a # ctlR
  BY Wraps DEF CtlType
<1>2. a # r /\ Gap(EvN, ctlR, r) <= Gap(EvN, ctlR, a)
  BY <1>1, Wraps, WriteBetween DEF InStep
<1>3. ASSUME NEW i \in 0..EvN-1
      PROVE  ring'[i] # "none" <=> Gap(EvN, r, i) < Gap(EvN, r, a)
  <2>1. ring'[i] # "none" <=> i = w \/ Gap(EvN, r, i) < Gap(EvN, r, w)
    BY <1>1, Wraps DEF InStep, Links
  <2>2. QED
    BY <1>1, <1>2, <2>1, WriteGrows
<1> HIDE DEF a
<1>4. QED
  BY <1>1, <1>2, <1>3, Wraps DEF InStep

\* Every step keeps the invariant.
LEMMA CtlStep ==
  ASSUME HostLadder, FwLadder, CtlType, CtlInv, [Next]_vars
  PROVE  CtlInv'
<1> USE DEF Range, Rings, Stopping, TearDown
<1>1. CASE UNCHANGED vars
  BY <1>1 DEF vars, control, ithread, CtlInv, InStep, Zeroed
<1>2. CASE AttachStart \/ AllocBar \/ hw_init
  <2>1. /\ pc' \notin {"intr_setup", "init_evq0"} \cup Rings \cup Stopping \cup TearDown
        /\ isr' = isr /\ processed' = processed /\ isr = "out"
    <3>1. pc \notin {"intr_setup", "init_evq0"} \cup Rings \cup Stopping \cup TearDown
      BY <1>2 DEF AttachStart, AllocBar, hw_init, mcdi_init, get_version, drv_attach,
         clear_assertions, entity_reset, get_mac, alloc_vis, vadaptor_alloc, get_phy_cfg,
         set_mac, set_link, get_link, FailAttach, FailMcdi, HostAcquire, HostRelease,
         Query, FwAcquire, FwRelease
    <3>2. pc' \notin {"intr_setup", "init_evq0"} \cup Rings \cup Stopping \cup TearDown
      BY <1>2 DEF AttachStart, AllocBar, hw_init, mcdi_init, get_version, drv_attach,
         clear_assertions, entity_reset, get_mac, alloc_vis, vadaptor_alloc, get_phy_cfg,
         set_mac, set_link, get_link, FailAttach, FailMcdi, HostAcquire, HostRelease,
         Query, FwAcquire, FwRelease
    <3>3. isr' = isr /\ processed' = processed
      BY <1>2, LadderFrame DEF attach
    <3>4. QED
      BY <3>1, <3>2, <3>3 DEF HostLadder
  <2>2. QED
    BY <2>1 DEF CtlInv
<1>3. CASE alloc_dma_resources \/ intr_setup
  <2>1. "evq0" \notin flags /\ isr = "out"
    BY <1>3 DEF alloc_dma_resources, intr_setup, HostAcquire, FwLadder, Taken, Queues,
                HostLadder
  <2>2. QED
    BY <1>3, <2>1 DEF alloc_dma_resources, intr_setup, HostAcquire, control, ithread, CtlInv
<1>4. CASE init_evq0
  <2>1. "evq0" \notin flags /\ isr = "out" /\ isr' = "out" /\ processed' = 0 /\ ring' = ring
        /\ pc = "init_evq0"
    BY <1>4 DEF init_evq0, init_evq, FwAcquire, FwLadder, Taken, Queues, CtlInv,
                HostLadder, ithread
  <2>2. CASE pc' = "init_evq1"
    <3>1. faults' = faults /\ evq_read_ptr' = 0 /\ ctlW' = 0 /\ ctlR' = 0
      BY <1>4, <2>2 DEF init_evq0, init_evq, FwAcquire
    <3>2. "early" \notin faults' => Zeroed'
      BY <2>1, <3>1 DEF CtlInv, Zeroed, EmptyRing
    <3>3. (Zeroed /\ processed = 0 => InStep)'
      BY ZeroedInStep, PTL
    <3>4. QED
      BY <2>1, <2>2, <3>2, <3>3 DEF CtlInv
  <2>3. CASE pc' # "init_evq1"
    <3>1. pc' = "intr_teardown" /\ flags' = flags
      BY <1>4, <2>3 DEF init_evq0, init_evq, FwAcquire
    <3>2. QED
      BY <2>1, <3>1 DEF CtlInv
  <2>4. QED
    BY <2>2, <2>3
<1>5. CASE init_evq1
  <2>1. /\ pc = "init_evq1" /\ pc' \in {"init_rxq", "intr_teardown"}
        /\ UNCHANGED <<isr, processed, ring, ctlW, ctlR>>
        /\ "evq0" \in flags' <=> "evq0" \in flags
        /\ "early" \in faults' <=> "early" \in faults
        /\ evq_read_ptr' \in {evq_read_ptr, 0}
    BY <1>5 DEF init_evq1, init_evq, FwAcquire, ithread
  <2>2. "early" \notin faults => evq_read_ptr' = evq_read_ptr
    BY <2>1 DEF CtlInv, Zeroed
  <2>3. QED
    BY <2>1, <2>2 DEF CtlInv, InStep
<1>6. CASE init_rxq \/ init_txq \/ filter_insert \/ make_dev_capio \/ init_capio_sc
           \/ DetachStart \/ DestroyDev
  <2>1. /\ pc \in Rings \ {"init_evq1"} /\ pc' \in (Rings \ {"init_evq1"}) \cup Stopping
        /\ UNCHANGED <<isr, processed, ring, ctlW, ctlR, evq_read_ptr>>
        /\ "evq0" \in flags' <=> "evq0" \in flags
        /\ "early" \in faults' <=> "early" \in faults
    BY <1>6 DEF init_rxq, init_txq, filter_insert, make_dev_capio, init_capio_sc,
       DetachStart, DestroyDev, FwAcquire, HostAcquire, HostRelease, Quietly, control,
       ithread
  <2>2. QED
    BY <2>1 DEF CtlInv, InStep
<1>7. CASE intr_teardown
  <2>1. CASE pc' = "intr_wait"
    BY <1>7, <2>1 DEF intr_teardown, control, CtlInv, InStep
  <2>2. CASE pc' = "td_filter"
    BY <1>7, <2>2 DEF intr_teardown, ithread, CtlInv, Zeroed, EmptyRing
  <2>3. QED
    BY <1>7, <2>1, <2>2 DEF intr_teardown
<1>8. CASE hw_teardown
  <2>1. /\ pc \in TearDown /\ pc' \in TearDown \cup {"free_dma"}
        /\ UNCHANGED <<isr, processed, ring, ctlW, ctlR, evq_read_ptr>>
        /\ flags' \subseteq flags /\ ("early" \in faults' <=> "early" \in faults)
    BY <1>8 DEF hw_teardown, filter_remove, fini_txq, fini_rxq, fini_evq1, fini_evq0,
       vadaptor_free, free_vis, drv_detach, mcdi_fini, FwRelease, HostRelease, control,
       ithread
  <2>2. isr = "out"
    BY <2>1 DEF HostLadder
  <2>3. QED
    BY <2>1, <2>2 DEF CtlInv, Zeroed
<1>9. CASE free_dma_resources \/ ReleaseBar \/ CapioDestroy \/ DestroyLocks
  <2>1. /\ pc \in {"free_dma", "fail_bar", "capio_destroy", "fail_lock"}
        /\ pc' \in {"fail_bar", "capio_destroy", "fail_lock", "unloaded"}
        /\ isr' = isr /\ processed' = processed
    BY <1>9 DEF free_dma_resources, ReleaseBar, CapioDestroy, DestroyLocks, HostRelease,
       ithread
  <2>2. isr = "out"
    BY <2>1 DEF HostLadder
  <2>3. QED
    BY <2>1, <2>2 DEF CtlInv
<1>10. CASE IsrEnter
  <2>1. /\ isr = "out" /\ isr' = "in" /\ processed' = 0 /\ "evq0" \in flags
        /\ UNCHANGED <<pc, flags, faults, ring, ctlW, ctlR, evq_read_ptr>>
    BY <1>10 DEF IsrEnter, Latch, control
  <2>2. InStep => InStep'
    <3>1. evq_read_ptr \in 0..EvN-1 => dist(evq_read_ptr, evq_read_ptr) = 0
      BY Wraps, GapIs
    <3>2. QED
      BY <2>1, <3>1 DEF InStep, CtlType
  <2>3. QED
    BY <2>1, <2>2 DEF CtlInv, Zeroed
<1>11. CASE IsrBail
  BY <1>11 DEF IsrBail, control, CtlInv, InStep, Zeroed
<1>12. CASE IsrEvent
  <2>1. /\ UNCHANGED <<pc, flags, faults>> /\ isr' = "in" /\ isr = "in"
        /\ ring[evq_read_ptr] # "none" /\ evq_read_ptr \in 0..EvN-1
    BY <1>12 DEF IsrEvent, CtlType
  <2>2. pc \in {"init_evq0"} \cup Rings \cup Stopping /\ "evq0" \in flags
    BY <2>1 DEF HostLadder, CtlInv
  <2>3. pc \in Rings \cup Stopping
    BY <2>2 DEF FwLadder, Taken, Queues
  <2>4. "early" \notin faults => InStep /\ ring # EmptyRing
    BY <2>1, <2>2, <2>3 DEF CtlInv, EmptyRing
  <2>5. "early" \notin faults => InStep'
    BY <1>12, <2>4, TakeInStep
  <2>6. QED
    BY <2>1, <2>2, <2>3, <2>4, <2>5 DEF CtlInv, Zeroed
<1>13. CASE IsrDone
  <2>1. /\ UNCHANGED <<pc, flags, faults, ring, ctlW, evq_read_ptr>> /\ isr = "in"
        /\ isr' = "out" /\ processed' = 0 /\ evq_read_ptr \in 0..EvN-1
        /\ ctlR \in 0..EvN-1 /\ ctlW \in 0..EvN-1
        /\ ctlR' = (IF processed > 0 THEN evq_read_ptr ELSE ctlR)
    BY <1>13 DEF IsrDone, CtlType
  <2>2. InStep => ctlR' = evq_read_ptr
    <3>1. Gap(EvN, ctlR, evq_read_ptr) = 0 => ctlR = evq_read_ptr
      BY <2>1, Wraps, GapZero
    <3>2. Gap(EvN, ctlR, evq_read_ptr) \in 0..EvN-1
      BY <2>1, Wraps, GapZero
    <3>3. QED
      BY <2>1, <3>1, <3>2, Wraps DEF InStep
  <2>3. InStep => InStep'
    <3>1. /\ Gap(EvN, evq_read_ptr, evq_read_ptr) = 0
          /\ Gap(EvN, evq_read_ptr, ctlW) \in 0..EvN-1
      BY <2>1, Wraps, GapZero
    <3>2. QED
      BY <2>1, <2>2, <3>1, Wraps DEF InStep
  <2>4. Zeroed => Zeroed'
    BY <2>1 DEF Zeroed, EmptyRing
  <2>5. pc \in {"init_evq0"} \cup Rings \cup Stopping
    BY <2>1 DEF HostLadder
  <2>6. QED
    BY <2>1, <2>3, <2>4, <2>5 DEF CtlInv, EmptyRing
<1>14. ASSUME NEW l \in Links, NicLinkChange(l) PROVE CtlInv'
  <2>1. UNCHANGED <<pc, flags, isr, processed, ctlR, evq_read_ptr>>
    BY <1>14 DEF NicLinkChange
  <2>2. CASE "early" \in faults'
    BY <2>1, <2>2 DEF CtlInv
  <2>3. CASE "early" \notin faults'
    <3>1. /\ "early" \notin faults /\ pc \notin {"intr_setup", "init_evq0", "init_evq1"}
          /\ pc = "get_link" \/ "intr" \in host
      BY <1>14, <2>3 DEF NicLinkChange
    <3>2. pc \notin TearDown
      BY <3>1 DEF HostLadder
    <3>3. InStep => InStep'
      <4>1. CASE "evq0" \in fw
        <5>1. inc(ctlW) # ctlR /\ ring' = [ring EXCEPT ![ctlW] = l] /\ ctlW' = inc(ctlW)
          BY <1>14, <4>1 DEF NicLinkChange
        <5>2. QED
          BY <2>1, <5>1, WriteInStep
      <4>2. CASE "evq0" \notin fw
        BY <1>14, <2>1, <4>2 DEF NicLinkChange, InStep
      <4>3. QED
        BY <4>1, <4>2
    <3>4. QED
      BY <2>1, <2>3, <3>1, <3>2, <3>3 DEF CtlInv
  <2>4. QED
    BY <2>2, <2>3
<1>15. QED
  BY <1>1, <1>2, <1>3, <1>4, <1>5, <1>6, <1>7, <1>8, <1>9, <1>10, <1>11, <1>12, <1>13,
     <1>14, Zenon DEF Next, attach, detach, Isr

\* It holds throughout.
LEMMA CtlInvariant == Spec => []CtlInv
<1>1. Init => CtlInv
  BY DEF Init, CtlInv, Rings, Stopping, TearDown
<1>2. HostLadder /\ FwLadder /\ CtlType /\ CtlInv /\ [Next]_vars => CtlInv'
  BY CtlStep
<1>3. QED
  BY <1>1, <1>2, HostInvariant, FwInvariant, TypeInvariant, PTL DEF Spec

\* The reader and the NIC stay in step for every ring size, whatever fails and
\* however often the driver is loaded, unless the link changed early.
THEOREM DesyncTheorem == Spec => []OnlyEarlyDesyncs
<1>1. FwLadder /\ HostLadder /\ CtlType /\ CtlInv => OnlyEarlyDesyncs
  <2> SUFFICES ASSUME FwLadder, HostLadder, CtlType, CtlInv, "early" \notin faults,
                      "evq0" \in flags
               PROVE  \A i \in 0..EvN-1 :
                        ring[i] # "none" <=> dist(evq_read_ptr, i) < dist(evq_read_ptr, ctlW)
    BY DEF OnlyEarlyDesyncs, ringTracks
  <2>1. pc \in Rings \cup Stopping \cup TearDown
    BY DEF FwLadder, Taken, Queues, Range, Rings, Stopping, TearDown
  <2>2. CASE pc \in TearDown
    <3>1. Zeroed
      BY <2>2 DEF CtlInv
    <3>2. 0 \in 0..EvN-1 /\ dist(0, 0) = 0 /\ \A i \in 0..EvN-1 : ~(dist(0, i) < 0)
      BY Wraps, GapIs
    <3>3. QED
      BY <3>1, <3>2 DEF Zeroed, EmptyRing
  <2>3. CASE pc \in Rings \cup Stopping
    BY <2>3 DEF CtlInv, InStep
  <2>4. QED
    BY <2>1, <2>2, <2>3
<1>2. QED
  BY <1>1, HostInvariant, FwInvariant, TypeInvariant, CtlInvariant, PTL

\* A run of the handler ends at an empty slot before it has gone round the ring,
\* for every ring size, unless the link changed early.
THEOREM IsrBoundedTheorem == Spec => []IsrBounded
<1>1. HostLadder /\ FwLadder /\ CtlType /\ CtlInv => IsrBounded
  <2> SUFFICES ASSUME HostLadder, FwLadder, CtlType, CtlInv, "early" \notin faults
               PROVE  processed < EvN
    BY DEF IsrBounded
  <2>1. CASE isr = "out"
    BY <2>1, Wraps DEF CtlInv
  <2>2. CASE isr = "in"
    <3>1. pc \in {"init_evq0"} \cup Rings \cup Stopping /\ "evq0" \in flags
      BY <2>2 DEF HostLadder, CtlInv
    <3>2. pc \in Rings \cup Stopping
      BY <3>1 DEF FwLadder, Taken, Queues, Range, Rings, Stopping
    <3>3. processed = Gap(EvN, ctlR, evq_read_ptr)
      BY <2>2, <3>1, <3>2, Wraps DEF CtlInv, InStep
    <3>4. Gap(EvN, ctlR, evq_read_ptr) \in 0..EvN-1
      BY Wraps, GapIs DEF CtlType
    <3>5. QED
      BY <3>3, <3>4, Wraps
  <2>3. QED
    BY <2>1, <2>2 DEF CtlType
<1>2. QED
  BY <1>1, HostInvariant, FwInvariant, TypeInvariant, CtlInvariant, PTL
=============================================================================
