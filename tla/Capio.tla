-------------------------------- MODULE Capio --------------------------------
(***************************************************************************)
(* The CAPIO access framework (capio.c) with the driver callbacks that     *)
(* drive it (sfc7120_close, sfc7120_fbsd_detach): one sealed token per     *)
(* device, one `mapped` flag and one recorded user address per region.     *)
(*                                                                         *)
(* Every step below is one critical section of cap_mtx or sc_mtx, or one   *)
(* unlocked access, so the interleavings of the model are those the code   *)
(* allows.  A call that fails without having changed anything is a         *)
(* stuttering step and has no action.                                      *)
(*                                                                         *)
(* The kernel's VM, devfs and the modmap module are external: an object is *)
(* referred to by the mmap call that made it, then by a map entry, and by  *)
(* one more entry in each child forked meanwhile; its dtor runs when the   *)
(* last reference goes.                                                    *)
(***************************************************************************)
EXTENDS Integers, FiniteSets

CONSTANTS
  Threads,      \* threads that make capio calls
  Procs,        \* processes; also the capability each of them has sealed
  ProcOf,       \* the process of a thread
  Objs,         \* identities of cdev pager VM objects (a bound for TLC)
  Addrs,        \* user virtual addresses (a bound for TLC)
  NumRegions,   \* SFC7120_REGION_COUNT
  NoProc, NoObj, Anon, NoAddr,
  RemoveDrops,  \* outcomes of vm_map_remove: does it drop the reference?
  AfterMunmap   \* what is next at an address: nothing, or the process's memory

Regions == 1..NumRegions

ASSUME ConstantsAssumption ==
  /\ ProcOf \in [Threads -> Procs]
  /\ NumRegions \in Nat \ {0}
  /\ NoProc \notin Procs
  /\ NoObj \notin Objs /\ Anon \notin Objs /\ NoObj # Anon
  /\ NoAddr \notin Addrs
  /\ RemoveDrops \subseteq BOOLEAN
  /\ AfterMunmap \subseteq {NoObj, Anon}

VARIABLES
  original,  \* cap_state: the sealed capability's owner, or NoProc
  mapped,    \* shared_mem_regs[r].mapped
  offset,    \* shared_mem_regs[r].offset: user address recorded for revocation
  scMapped,  \* capio_softc.mapped
  phase,     \* progress of sfc7120_fbsd_detach
  opens,     \* processes with the cdev open
  vm,        \* vm[p][a]: what process p has mapped at a
  object,    \* object[o]: region of a live VM object, or 0
  token,     \* token[p]: the sealed capability p presents, or NoProc
  robbed,    \* history: a close has cleared the token of a process in session
  pc, reg, held, addr, dret, exiting  \* per thread: program counter and locals

capState == <<original, mapped, offset, scMapped>>
people   == <<token, robbed>>
world    == <<phase, opens, vm, object, people>>
locals   == <<reg, held, addr, dret, exiting>>
vars     == <<capState, world, pc, locals>>

\* Program counters inside a method of the cdev: destroy_dev waits for these.
RevokePC == {"rev_clear", "rev_read", "rev_delete", "rev_zero"}
MmapPC   == {"mmap_dying", "mmap_lookup", "mmap_alloc", "mmap_recheck"}
PC == {"idle", "dtor", "mmap_enter", "mmap_vaddr", "exit_unmap"}
        \cup RevokePC \cup MmapPC

\* Mutant: detach sets `dying` only after modmap_unregister_vaddr_callback.
Dying_late == phase \notin {"up", "dying"}
Dying == phase # "up"
CdevUp == phase \in {"up", "dying"}
\* A forked child has its parent's sealed capability.  The ones of sfctest make
\* no call and exit or die (test.c, run_one_violation).
IsChild(p) == token[p] \notin {p, NoProc}
CanCall(t) ==
  pc[t] = "idle" /\ CdevUp /\ ProcOf[t] \in opens /\ ~IsChild(ProcOf[t])
Quiet(p) == \A t \in Threads : ProcOf[t] = p => pc[t] = "idle"
InMethod(t) == \/ pc[t] \in RevokePC \cup MmapPC
               \/ pc[t] = "dtor" /\ dret[t] = "rev_zero"

Goto(t, label) == pc' = [pc EXCEPT ![t] = label]
\* Return from a call that worked on a region: its locals are gone.
Done(t) == Goto(t, "idle") /\ reg' = [reg EXCEPT ![t] = 1]

Init ==
  /\ original = NoProc
  /\ mapped = [r \in Regions |-> FALSE]
  /\ offset = [r \in Regions |-> NoAddr]
  /\ scMapped = FALSE
  /\ phase = "up"
  /\ opens = {}
  /\ vm = [p \in Procs |-> [a \in Addrs |-> NoObj]]
  /\ object = [o \in Objs |-> 0]
  /\ token = [p \in Procs |-> NoProc]
  /\ robbed = FALSE
  /\ pc = [t \in Threads |-> "idle"]
  /\ reg = [t \in Threads |-> 1]
  /\ held = [t \in Threads |-> NoObj]
  /\ addr = [t \in Threads |-> NoAddr]
  /\ dret = [t \in Threads |-> "idle"]
  /\ exiting = [t \in Threads |-> FALSE]

-----------------------------------------------------------------------------
(* The token: open, CAPIO_ATTACH, CAPIO_GOODBYE and the last close.        *)

\* Mutant: any token will do, as long as the device has an owner.
check_cap_token_any(t) == original # NoProc

\* check_cap_token: an unlocked read.  What is presented must unseal to the
\* capability that ATTACH recorded, so it is the copy ATTACH returned.
check_cap_token(t) == original # NoProc /\ token[ProcOf[t]] = original

Open(t) ==
  /\ pc[t] = "idle" /\ CdevUp /\ ProcOf[t] \notin opens
  /\ ~IsChild(ProcOf[t])
  /\ opens' = opens \cup {ProcOf[t]}
  /\ UNCHANGED <<capState, phase, vm, object, people, pc, locals>>

\* set_cap_token, wholly under cap_mtx.
Attach(t) ==
  /\ CanCall(t)
  /\ original = NoProc
  /\ original' = ProcOf[t]
  /\ token' = [token EXCEPT ![ProcOf[t]] = ProcOf[t]]
  /\ UNCHANGED <<mapped, offset, scMapped, phase, opens, vm, object, robbed>>
  /\ UNCHANGED <<pc, locals>>

\* capio_ioctl_handler's check; the revocation itself follows unlocked.
Goodbye(t) ==
  /\ CanCall(t) /\ check_cap_token(t)
  /\ Goto(t, "rev_clear")
  /\ UNCHANGED <<capState, world, locals>>

\* Mutant: sfc7120_close does not revoke.
Leave_silently(t, exit) ==
  /\ Quiet(ProcOf[t])
  /\ opens' = opens \ {ProcOf[t]}
  /\ exiting' = [exiting EXCEPT ![t] = exit]
  /\ Goto(t, IF exit THEN "exit_unmap" ELSE "idle")
  /\ UNCHANGED <<capState, phase, vm, object, people, reg, held, addr, dret>>

\* close(2).  devfs calls sfc7120_close only when no other open is left.
Leave(t, exit) ==
  LET p == ProcOf[t]
      last == p \in opens /\ opens = {p} /\ CdevUp
  IN  /\ Quiet(p)
      /\ opens' = opens \ {p}
      /\ exiting' = [exiting EXCEPT ![t] = exit]
      /\ Goto(t, IF last THEN "rev_clear"
                 ELSE IF exit THEN "exit_unmap" ELSE "idle")
      /\ UNCHANGED <<capState, phase, vm, object, people, reg, held, addr, dret>>

Close(t) ==
  /\ pc[t] = "idle" /\ ProcOf[t] \in opens /\ ~IsChild(ProcOf[t])
  /\ Leave(t, FALSE)

\* Exit or crash: descriptors are closed first, then the address space goes.
Exit(t) == pc[t] = "idle" /\ Leave(t, TRUE)

\* External.  fork(2): the child shares the open file and, their entries being
\* MAP_SHARED, the regions; it has a copy of the sealed capability.
Fork(t, u) ==
  LET p == ProcOf[t]
      c == ProcOf[u]
  IN  /\ pc[t] = "idle" /\ p \in opens /\ token[p] = p
      /\ p # c /\ Quiet(c) /\ c \notin opens /\ token[c] = NoProc
      /\ \A a \in Addrs : vm[c][a] = NoObj
      /\ opens' = opens \cup {c}
      /\ vm' = [vm EXCEPT ![c] = vm[p]]
      /\ token' = [token EXCEPT ![c] = p]
      /\ UNCHANGED <<capState, phase, object, robbed, pc, locals>>

-----------------------------------------------------------------------------
(* revoke_cap_token: clear the token, then visit the regions one by one,   *)
(* dropping cap_mtx between the steps.                                     *)

\* It clears whatever token is set: in a last close that is still running when
\* the next process has opened and attached, that process's.
RevokeClear(t) ==
  /\ pc[t] = "rev_clear"
  /\ original' = NoProc
  /\ robbed' = (robbed \/ /\ original \notin {NoProc, ProcOf[t]}
                          /\ \E p \in opens : token[p] = original)
  /\ reg' = [reg EXCEPT ![t] = 1]
  /\ Goto(t, "rev_read")
  /\ UNCHANGED <<mapped, offset, scMapped, phase, opens, vm, object, token>>
  /\ UNCHANGED <<held, addr, dret, exiting>>

\* Mutant: the loop runs one region too far.
NextRegion_past(t) ==
  IF reg[t] <= NumRegions
    THEN reg' = [reg EXCEPT ![t] = @ + 1] /\ Goto(t, "rev_read")
    ELSE /\ reg' = [reg EXCEPT ![t] = 1]
         /\ Goto(t, IF exiting[t] THEN "exit_unmap" ELSE "idle")

NextRegion(t) ==
  IF reg[t] < NumRegions
    THEN reg' = [reg EXCEPT ![t] = @ + 1] /\ Goto(t, "rev_read")
    ELSE /\ reg' = [reg EXCEPT ![t] = 1]
         /\ Goto(t, IF exiting[t] THEN "exit_unmap" ELSE "idle")

RevokeRead(t) ==
  /\ pc[t] = "rev_read"
  /\ addr' = [addr EXCEPT ![t] = offset[reg[t]]]
  /\ IF offset[reg[t]] = NoAddr
       THEN NextRegion(t)
       ELSE Goto(t, "rev_delete") /\ UNCHANGED reg
  /\ UNCHANGED <<capState, world, held, dret, exiting>>

\* No other map entry refers to the object at p's address a.
LastRef(p, a) ==
  \A q \in Procs, b \in Addrs : vm[q][b] = vm[p][a] => q = p /\ b = a

\* delete_mapping_from_user: whatever the *caller's* map holds at the address
\* goes; nothing there, or a racing removal, counts as success.  The library
\* says of this removal that it "does NOT fire the dtor".
RevokeDelete(t) ==
  LET p == ProcOf[t]
      there == vm[p][addr[t]]
  IN  /\ pc[t] = "rev_delete"
      /\ vm' = [vm EXCEPT ![p][addr[t]] = NoObj]
      /\ \E drops \in RemoveDrops :
           IF there \in Objs /\ LastRef(p, addr[t]) /\ drops
             THEN /\ Goto(t, "dtor")
                  /\ held' = [held EXCEPT ![t] = there]
                  /\ dret' = [dret EXCEPT ![t] = "rev_zero"]
             ELSE Goto(t, "rev_zero") /\ UNCHANGED <<held, dret>>
      /\ UNCHANGED <<capState, phase, opens, object, people, reg, addr, exiting>>

\* vm_map_remove failed (EIO): the address stays recorded.
RevokeDeleteFails(t) ==
  /\ pc[t] = "rev_delete"
  /\ vm[ProcOf[t]][addr[t]] # NoObj
  /\ addr' = [addr EXCEPT ![t] = NoAddr]
  /\ NextRegion(t)
  /\ UNCHANGED <<capState, world, held, dret, exiting>>

RevokeZero(t) ==
  /\ pc[t] = "rev_zero"
  /\ offset' = [offset EXCEPT ![reg[t]] = NoAddr]
  /\ addr' = [addr EXCEPT ![t] = NoAddr]
  /\ NextRegion(t)
  /\ UNCHANGED <<original, mapped, scMapped, world, held, dret, exiting>>

-----------------------------------------------------------------------------
(* capio_mmap_single_extra and the pager.                                  *)

MmapCheckToken(t, r) ==
  /\ CanCall(t) /\ check_cap_token(t)
  /\ reg' = [reg EXCEPT ![t] = r]
  /\ Goto(t, "mmap_dying")
  /\ UNCHANGED <<capState, world, held, addr, dret, exiting>>

MmapIsDying(t) ==
  /\ pc[t] = "mmap_dying"
  /\ \/ Dying /\ Done(t)
     \/ ~Dying /\ Goto(t, "mmap_lookup") /\ UNCHANGED reg
  /\ UNCHANGED <<capState, world, held, addr, dret, exiting>>

\* Mutant: the `mapped` flag is not tested.
MmapLookup_blind(t) ==
  /\ pc[t] = "mmap_lookup"
  /\ Goto(t, "mmap_alloc")
  /\ UNCHANGED <<capState, world, locals>>

\* The `mapped` flag is tested here and set only in capio_pager_ctor.
MmapLookup(t) ==
  /\ pc[t] = "mmap_lookup"
  /\ \/ mapped[reg[t]] /\ Done(t)
     \/ ~mapped[reg[t]] /\ Goto(t, "mmap_alloc") /\ UNCHANGED reg
  /\ UNCHANGED <<capState, world, held, addr, dret, exiting>>

\* cdev_pager_allocate and, from it, capio_pager_ctor.
MmapAlloc(t, o) ==
  /\ pc[t] = "mmap_alloc"
  /\ object[o] = 0
  /\ object' = [object EXCEPT ![o] = reg[t]]
  /\ held' = [held EXCEPT ![t] = o]
  /\ mapped' = [mapped EXCEPT ![reg[t]] = TRUE]
  /\ scMapped' = TRUE
  /\ Goto(t, "mmap_recheck")
  /\ UNCHANGED <<original, offset, phase, opens, vm, people, reg, addr, dret, exiting>>

MmapAllocFails(t) ==
  /\ pc[t] = "mmap_alloc"
  /\ Done(t)
  /\ UNCHANGED <<capState, world, held, addr, dret, exiting>>

\* The second is_dying test returns ENXIO and keeps the object.
MmapRecheck(t) ==
  /\ pc[t] = "mmap_recheck"
  /\ \/ Dying /\ Done(t) /\ held' = [held EXCEPT ![t] = NoObj]
     \/ ~Dying /\ Goto(t, "mmap_enter") /\ UNCHANGED <<reg, held>>
  /\ UNCHANGED <<capState, world, addr, dret, exiting>>

\* External: the kernel enters the object in the caller's map ...
MapEnter(t, a) ==
  LET p == ProcOf[t]
  IN  /\ pc[t] = "mmap_enter"
      /\ vm[p][a] = NoObj
      /\ vm' = [vm EXCEPT ![p][a] = held[t]]
      /\ held' = [held EXCEPT ![t] = NoObj]
      /\ addr' = [addr EXCEPT ![t] = a]
      /\ Goto(t, "mmap_vaddr")
      /\ UNCHANGED <<capState, phase, opens, object, people, reg, dret, exiting>>

\* ... or cannot, and drops it.
MapEnterFails(t) ==
  /\ pc[t] = "mmap_enter"
  /\ Goto(t, "dtor")
  /\ reg' = [reg EXCEPT ![t] = 1]
  /\ UNCHANGED <<capState, world, held, addr, dret, exiting>>

\* modmap reports the address, unless detach has unregistered the callback.
capio_vaddr_callback(t) ==
  /\ pc[t] = "mmap_vaddr"
  /\ offset' = IF CdevUp THEN [offset EXCEPT ![reg[t]] = addr[t]] ELSE offset
  /\ Done(t)
  /\ addr' = [addr EXCEPT ![t] = NoAddr]
  /\ UNCHANGED <<original, mapped, scMapped, world, held, dret, exiting>>

\* munmap(2).  The address may be used again before a revocation visits it.
Munmap(t, a) ==
  LET p == ProcOf[t]
  IN  /\ pc[t] = "idle" /\ ~IsChild(p)
      /\ vm[p][a] \in Objs
      /\ \E next \in AfterMunmap : vm' = [vm EXCEPT ![p][a] = next]
      /\ IF LastRef(p, a)
           THEN held' = [held EXCEPT ![t] = vm[p][a]] /\ Goto(t, "dtor")
           ELSE UNCHANGED <<held, pc>>
      /\ UNCHANGED <<capState, phase, opens, object, people>>
      /\ UNCHANGED <<reg, addr, dret, exiting>>

\* Mutants: the dtor clears every flag, or forgets its own.
dtor_with(t, flags) ==
  /\ pc[t] = "dtor"
  /\ mapped' = flags
  /\ scMapped' = (scMapped /\ \E r \in Regions : mapped'[r])
  /\ object' = [object EXCEPT ![held[t]] = 0]
  /\ held' = [held EXCEPT ![t] = NoObj]
  /\ Goto(t, dret[t])
  /\ dret' = [dret EXCEPT ![t] = "idle"]
  /\ UNCHANGED <<original, offset, phase, opens, vm, people, reg, addr, exiting>>
capio_pager_dtor_all(t) == dtor_with(t, [r \in Regions |-> FALSE])
capio_pager_dtor_keeps(t) == dtor_with(t, mapped)

capio_pager_dtor(t) ==
  /\ pc[t] = "dtor"
  /\ mapped' = [mapped EXCEPT ![object[held[t]]] = FALSE]
  /\ scMapped' = (scMapped /\ \E r \in Regions : mapped'[r])
  /\ object' = [object EXCEPT ![held[t]] = 0]
  /\ held' = [held EXCEPT ![t] = NoObj]
  /\ Goto(t, dret[t])
  /\ dret' = [dret EXCEPT ![t] = "idle"]
  /\ UNCHANGED <<original, offset, phase, opens, vm, people, reg, addr, exiting>>

\* vmspace_exit: every remaining entry goes, the last one of an object through
\* its dtor; then the process is no more, and its copy of the token with it.
ExitUnmap(t) ==
  LET p == ProcOf[t]
      left == {a \in Addrs : vm[p][a] \in Objs}
  IN  /\ pc[t] = "exit_unmap"
      /\ \/ \E a \in left :
              /\ vm' = [vm EXCEPT ![p][a] = NoObj]
              /\ IF LastRef(p, a)
                   THEN /\ held' = [held EXCEPT ![t] = vm[p][a]]
                        /\ dret' = [dret EXCEPT ![t] = "exit_unmap"]
                        /\ Goto(t, "dtor")
                   ELSE UNCHANGED <<held, dret, pc>>
              /\ UNCHANGED <<exiting, token>>
         \/ /\ left = {}
            /\ vm' = [vm EXCEPT ![p] = [a \in Addrs |-> NoObj]]
            /\ token' = [token EXCEPT ![p] = NoProc]
            /\ exiting' = [exiting EXCEPT ![t] = FALSE]
            /\ Goto(t, "idle")
            /\ UNCHANGED <<held, dret>>
      /\ UNCHANGED <<capState, phase, opens, object, robbed, reg, addr>>

-----------------------------------------------------------------------------
(* sfc7120_fbsd_detach as capio sees it.                                   *)

DetachDying ==
  /\ phase = "up" /\ phase' = "dying"
  /\ UNCHANGED <<capState, opens, vm, object, people, pc, locals>>

\* modmap_unregister_vaddr_callback, then destroy_dev bars new calls ...
DetachUnregister ==
  /\ phase = "dying" /\ phase' = "destroying"
  /\ UNCHANGED <<capState, opens, vm, object, people, pc, locals>>

\* ... and waits for the ones inside.  Mappings are not looked at.
DetachDestroyDev ==
  /\ phase = "destroying" /\ phase' = "gone"
  /\ \A t \in Threads : ~InMethod(t)
  /\ UNCHANGED <<capState, opens, vm, object, people, pc, locals>>

\* capio_destroy: cap_mtx no longer exists.
capio_destroy ==
  /\ phase = "gone" /\ phase' = "freed"
  /\ UNCHANGED <<capState, opens, vm, object, people, pc, locals>>

-----------------------------------------------------------------------------

CapioCall(t) ==
  \/ Open(t) \/ Attach(t) \/ Goodbye(t) \/ Close(t) \/ Exit(t)
  \/ RevokeClear(t) \/ RevokeRead(t) \/ RevokeDelete(t)
  \/ RevokeDeleteFails(t) \/ RevokeZero(t)
  \/ \E r \in Regions : MmapCheckToken(t, r)
  \/ MmapIsDying(t) \/ MmapLookup(t)
  \/ \E o \in Objs : MmapAlloc(t, o)
  \/ MmapAllocFails(t) \/ MmapRecheck(t)
  \/ \E a \in Addrs : MapEnter(t, a)
  \/ MapEnterFails(t) \/ capio_vaddr_callback(t)
  \/ \E a \in Addrs : Munmap(t, a)
  \/ capio_pager_dtor(t)
  \/ ExitUnmap(t)

Detach == DetachDying \/ DetachUnregister \/ DetachDestroyDev \/ capio_destroy

Next ==
  \/ Detach
  \/ \E t \in Threads : CapioCall(t)
  \/ \E t, u \in Threads : Fork(t, u)

Spec == Init /\ [][Next]_vars
-----------------------------------------------------------------------------
(* Properties.                                                             *)

TypeOK ==
  /\ original \in Procs \cup {NoProc}
  /\ mapped \in [Regions -> BOOLEAN]
  /\ offset \in [Regions -> Addrs \cup {NoAddr}]
  /\ scMapped \in BOOLEAN
  /\ phase \in {"up", "dying", "destroying", "gone", "freed"}
  /\ opens \in SUBSET Procs
  /\ vm \in [Procs -> [Addrs -> Objs \cup {NoObj, Anon}]]
  /\ object \in [Objs -> Regions \cup {0}]
  /\ token \in [Procs -> Procs \cup {NoProc}]
  /\ robbed \in BOOLEAN
  /\ pc \in [Threads -> PC]
  /\ reg \in [Threads -> Regions]
  /\ held \in [Threads -> Objs \cup {NoObj}]
  /\ addr \in [Threads -> Addrs \cup {NoAddr}]
  /\ dret \in [Threads -> {"idle", "rev_zero", "exit_unmap"}]
  /\ exiting \in [Threads -> BOOLEAN]

\* A region never has two live VM objects: the `mapped` test of
\* capio_mmap_single_extra and the flag set in capio_pager_ctor, although in
\* separate critical sections, admit one mapping of a region at a time, unless
\* a close has cleared another session's token.
ExclusiveRegion ==
  robbed \/ \A o1, o2 \in Objs :
              object[o1] = object[o2] /\ object[o1] # 0 => o1 = o2

\* A region is flagged exactly while an object of it lives, so a region is
\* refused only for a cause and a live one is never offered again
\* (capio_pager_ctor, capio_pager_dtor), unless a close has cleared another
\* session's token.
MappedFlagExact ==
  robbed \/ \A r \in Regions : mapped[r] <=> \E o \in Objs : object[o] = r

\* Whatever the processes do, a flag is backed by an object whose dtor will
\* clear it, and capio_softc.mapped is the disjunction of the flags.
FlagsBacked ==
  /\ \A r \in Regions : mapped[r] => \E o \in Objs : object[o] = r
  /\ scMapped <=> \E r \in Regions : mapped[r]

\* An mmap past its token check still holds the token when it creates the
\* object (the check of capio_mmap_single_extra is made without the lock),
\* unless a close has cleared another session's token.
MmapHoldsToken ==
  robbed \/ \A t \in Threads : pc[t] \in MmapPC => original = ProcOf[t]

\* A live object that no call and no map refers to: its dtor will never run.
Orphan(o) ==
  /\ object[o] # 0
  /\ \A t \in Threads : held[t] # o
  /\ \A p \in Procs, a \in Addrs : vm[p][a] # o

\* "Just release the VM object and fail the mapping request": an object that
\* no map and no call refers to has been released.
FailedMmapReleasesObject == \A o \in Objs : ~Orphan(o)
=============================================================================
