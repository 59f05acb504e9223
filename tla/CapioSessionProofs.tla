------------------------- MODULE CapioSessionProofs --------------------------
(***************************************************************************)
(* Proofs about sessions: the steps of CapioSession are those of Capio, so *)
(* what CapioProofs shows of a step holds here too; the sessions add which *)
(* call is made when.                                                      *)
(***************************************************************************)
EXTENDS CapioSession, CapioProofs, FiniteSetTheorems

\* A process has finitely many mappings.
LEMMA MapsFinite ==
  ASSUME NEW p
  PROVE  IsFiniteSet(MapsOf(p)) /\ Cardinality(MapsOf(p)) \in Nat
<1>1. MapsOf(p) \subseteq Addrs /\ IsFiniteSet(Addrs)
  BY SessionAssumption DEF SessionAssumption, MapsOf
<1>2. QED
  BY <1>1, FS_Subset, FS_CardinalityType

\* A step of a session is a capio call or the library's own.
LEMMA StepKinds ==
  ASSUME NEW t \in Threads, SessionStep(t)
  PROVE  CapioCall(t) \/ UNCHANGED vars
<1>1. CASE LibOpen(t) \/ LibAttach(t) \/ LibMap(t) \/ LibDestroy(t)
  <2>1. CASE LibMap(t)
    <3>1. NumRegions \in Nat
      BY ConstantsAssumption DEF ConstantsAssumption
    <3> DEFINE k == Cardinality(MapsOf(ProcOf[t])) + 1
    <3>2. CASE UNCHANGED vars
      BY <3>2
    <3>3. CASE k <= NumRegions /\ MmapCheckToken(t, k)
      <4>1. Cardinality(MapsOf(ProcOf[t])) \in Nat
        BY MapsFinite
      <4>2. k \in Regions
        BY <3>1, <3>3, <4>1 DEF Regions
      <4>3. QED
        BY <3>3, <4>2 DEF CapioCall
    <3>4. QED
      BY <2>1, <3>2, <3>3 DEF LibMap
  <2>2. QED
    BY <1>1, <2>1 DEF LibOpen, LibAttach, LibDestroy, CapioCall
<1>2. CASE \/ LibUnmap(t) \/ LibGoodbye(t) \/ LibClose(t) \/ LibExit(t)
           \/ LibAgain(t) \/ LibWait(t)
  BY <1>2 DEF LibUnmap, LibGoodbye, LibClose, LibExit, LibAgain, LibWait, CapioCall
<1>3. CASE KernelStep(t)
  BY <1>3 DEF KernelStep, CapioCall
<1>4. QED
  BY <1>1, <1>2, <1>3 DEF SessionStep

\* So every step of the sessions is one of capio's.
LEMMA NextKinds ==
  ASSUME [SessionNext]_sessionVars
  PROVE  /\ [Next]_vars
         /\ \/ Detach \/ UNCHANGED vars
            \/ \E t \in Threads : CapioCall(t)
            \/ \E t, u \in Threads : Fork(t, u)
BY StepKinds DEF SessionNext, sessionVars, Unload, LibFork, Next

-----------------------------------------------------------------------------
(* What capio guarantees whoever calls.                                    *)

RefInv == TypeOK /\ FlagsBacked /\ Holder /\ Located /\ RefsLive

\* Every step of a session keeps what capio guarantees.
LEMMA RefStep ==
  ASSUME RefInv, [SessionNext]_sessionVars
  PROVE  RefInv'
<1>1. TypeOK' /\ FlagsBacked' /\ Holder' /\ Located'
  BY NextKinds, TypeStep, FlagsStep, HolderStep, LocatedStep DEF RefInv
<1>2. CASE Detach \/ UNCHANGED vars
  <2>1. UNCHANGED <<vm, object, held>>
    BY <1>2 DEF Detach, DetachDying, DetachUnregister, DetachDestroyDev,
       capio_destroy, vars, world, locals
  <2>2. RefsLive'
    BY <2>1 DEF RefInv, RefsLive
  <2>3. QED
    BY <1>1, <2>2 DEF RefInv
<1>3. CASE \E t \in Threads : CapioCall(t)
  BY <1>1, <1>3, RefKinds, RefsLiveStep DEF RefInv
<1>4. CASE \E t, u \in Threads : Fork(t, u)
  BY <1>1, <1>4, RefsLiveStep DEF RefInv
<1>5. QED
  BY <1>2, <1>3, <1>4, NextKinds

\* It holds throughout.
LEMMA RefInvariant == SessionSpec => []RefInv
<1>1. SessionInit => RefInv
  <2> SUFFICES ASSUME Init PROVE RefInv
    BY DEF SessionInit
  <2>1. FlagsBacked /\ Holder /\ Located /\ RefsLive
    BY ConstantsAssumption
       DEF ConstantsAssumption, Init, FlagsBacked, Holder, Located, RefsLive
  <2>2. QED
    BY <2>1, InitType DEF RefInv
<1>2. RefInv /\ [SessionNext]_sessionVars => RefInv'
  BY RefStep
<1>3. QED
  BY <1>1, <1>2, PTL DEF SessionSpec

-----------------------------------------------------------------------------
(* Unloading an idle device.  NothingLeftAtDestroy speaks of the end of    *)
(* detach; what makes it true is at its beginning, when no call and no map *)
(* has an object, and in is_dying, which lets no new one be made.          *)

\* Calls hold objects only where InHand says; once the module is not up nobody
\* has an object; at the end no call is inside.
HeldPc == \A t \in Threads : held[t] # NoObj => InHand(t)
Closed ==
  phase # "up" =>
    /\ \A p \in Procs, a \in Addrs : vm[p][a] \notin Objs
    /\ \A t \in Threads : pc[t] \notin {"mmap_lookup", "mmap_alloc"} /\ ~InHand(t)
Left == phase \in {"gone", "freed"} => \A t \in Threads : ~InMethod(t)

\* A call lets go of the object it holds where InHand ends.
LEMMA HeldPcStep ==
  ASSUME RefInv, HeldPc, [SessionNext]_sessionVars
  PROVE  HeldPc'
<1> USE ConstantsAssumption DEF ConstantsAssumption
<1>1. ASSUME UNCHANGED <<pc, held>> PROVE HeldPc'
  BY <1>1 DEF HeldPc, InHand
<1>2. ASSUME NEW t \in Threads, CapioCall(t) PROVE HeldPc'
  <2> USE DEF HeldPc, RefInv, TypeOK, Goto, Done, InHand
  <2>1. CASE Open(t) \/ Attach(t) \/ Goodbye(t) \/ Close(t) \/ Exit(t)
    BY <2>1 DEF Open, Attach, Goodbye, CanCall, Close, Exit, Leave, locals
  <2>2. CASE RevokeClear(t) \/ RevokeRead(t) \/ RevokeDeleteFails(t)
             \/ RevokeZero(t) \/ RevokeDelete(t)
    <3>1. ~InHand(t) /\ (held' = held \/ pc' = [pc EXCEPT ![t] = "dtor"])
      BY <2>2 DEF RevokeClear, RevokeRead, RevokeDeleteFails, RevokeZero, RevokeDelete
    <3>2. \A u \in Threads \ {t} : held'[u] = held[u] /\ pc'[u] = pc[u]
      BY <2>2 DEF RevokeClear, RevokeRead, RevokeDeleteFails, RevokeZero,
         RevokeDelete, NextRegion
    <3>3. held[t] = NoObj
      BY <3>1
    <3>4. held'[t] # NoObj => pc'[t] = "dtor"
      BY <3>1, <3>3
    <3>5. QED
      BY <3>2, <3>4
  <2>3. CASE \/ \E r \in Regions : MmapCheckToken(t, r)
             \/ MmapIsDying(t) \/ MmapLookup(t) \/ MmapAllocFails(t)
             \/ MmapRecheck(t) \/ \E o \in Objs : MmapAlloc(t, o)
    BY <2>3 DEF MmapCheckToken, CanCall, MmapIsDying, MmapLookup, MmapAllocFails,
       MmapRecheck, MmapAlloc
  <2>4. CASE \/ \E a \in Addrs : MapEnter(t, a)
             \/ MapEnterFails(t) \/ capio_vaddr_callback(t)
    <3>1. CASE \E a \in Addrs : MapEnter(t, a)
      <4>1. /\ held' = [held EXCEPT ![t] = NoObj]
            /\ pc' = [pc EXCEPT ![t] = "mmap_vaddr"]
        BY <3>1 DEF MapEnter
      <4>2. QED
        BY <4>1
    <3>2. CASE MapEnterFails(t)
      BY <3>2 DEF MapEnterFails
    <3>3. CASE capio_vaddr_callback(t)
      BY <3>3 DEF capio_vaddr_callback
    <3>4. QED
      BY <2>4, <3>1, <3>2, <3>3
  <2>5. CASE \/ \E a \in Addrs : Munmap(t, a)
             \/ ExitUnmap(t)
    <3>1. ~InHand(t)
      BY <2>5 DEF Munmap, ExitUnmap
    <3>2. /\ UNCHANGED held \/ pc'[t] = "dtor"
          /\ \A u \in Threads \ {t} : held'[u] = held[u] /\ pc'[u] = pc[u]
      BY <2>5 DEF Munmap, ExitUnmap
    <3>3. held[t] = NoObj
      BY <3>1
    <3>4. held'[t] # NoObj => pc'[t] = "dtor"
      BY <3>2, <3>3
    <3>5. QED
      BY <3>2, <3>4
  <2>6. CASE capio_pager_dtor(t)
    BY <2>6 DEF capio_pager_dtor
  <2>7. QED
    BY <1>2, <2>1, <2>2, <2>3, <2>4, <2>5, <2>6 DEF CapioCall
<1>3. CASE Detach \/ UNCHANGED vars \/ \E t, u \in Threads : Fork(t, u)
  BY <1>1, <1>3 DEF Detach, DetachDying, DetachUnregister, DetachDestroyDev,
     capio_destroy, Fork, vars, locals
<1>4. QED
  BY <1>2, <1>3, NextKinds

\* Calls leave the module's state alone.
LEMMA PhaseFrame ==
  ASSUME NEW t \in Threads, CapioCall(t)
  PROVE  phase' = phase
<1>1. CASE Open(t) \/ Attach(t) \/ Goodbye(t) \/ Close(t) \/ Exit(t)
  BY <1>1 DEF Open, Attach, Goodbye, Close, Exit, Leave, world
<1>2. CASE RevokeClear(t) \/ RevokeRead(t) \/ RevokeDelete(t) \/ RevokeDeleteFails(t)
           \/ RevokeZero(t)
  BY <1>2 DEF RevokeClear, RevokeRead, RevokeDelete, RevokeDeleteFails, RevokeZero, world
<1>3. CASE \/ \E r \in Regions : MmapCheckToken(t, r)
           \/ MmapIsDying(t) \/ MmapLookup(t) \/ MmapAllocFails(t)
           \/ MmapRecheck(t) \/ \E o \in Objs : MmapAlloc(t, o)
  BY <1>3 DEF MmapCheckToken, MmapIsDying, MmapLookup, MmapAllocFails, MmapRecheck,
     MmapAlloc, world
<1>4. CASE \/ \E a \in Addrs : MapEnter(t, a) \/ Munmap(t, a)
           \/ MapEnterFails(t) \/ capio_vaddr_callback(t)
           \/ capio_pager_dtor(t) \/ ExitUnmap(t)
  BY <1>4 DEF MapEnter, Munmap, MapEnterFails, capio_vaddr_callback, capio_pager_dtor,
     ExitUnmap, world
<1>5. QED
  BY <1>1, <1>2, <1>3, <1>4 DEF CapioCall

\* Detach begins when nobody has an object, and is_dying lets none be made.
LEMMA ClosedStep ==
  ASSUME Unloads # "closed", RefInv, HeldPc, Closed, [SessionNext]_sessionVars
  PROVE  Closed'
<1> USE ConstantsAssumption DEF ConstantsAssumption
<1>1. ASSUME UNCHANGED <<pc, vm>>, phase' = "up" <=> phase = "up" PROVE Closed'
  BY <1>1 DEF Closed, InHand
<1>2. CASE Unload /\ DetachDying
  <2>1. Idle /\ UNCHANGED <<pc, vm>> /\ phase = "up"
    BY <1>2 DEF Unload, DetachDying
  <2>2. \A t \in Threads : pc[t] = "idle"
    BY <2>1 DEF Idle
  <2>3. \A p \in Procs, a \in Addrs : vm[p][a] \notin Objs
    BY <2>1 DEF Idle, MapsOf
  <2>4. QED
    BY <2>1, <2>2, <2>3 DEF Closed, InHand
<1>3. CASE UNCHANGED vars \/ DetachUnregister \/ DetachDestroyDev \/ capio_destroy
  BY <1>1, <1>3 DEF DetachUnregister, DetachDestroyDev, capio_destroy, vars, world
<1>4. ASSUME NEW t \in Threads, NEW u \in Threads, Fork(t, u) PROVE Closed'
  <2>1. /\ pc' = pc /\ phase' = phase /\ ProcOf[t] \in Procs
        /\ vm' = [vm EXCEPT ![ProcOf[u]] = vm[ProcOf[t]]]
    BY <1>4 DEF Fork
  <2>2. \A q \in Procs, b \in Addrs :
          vm'[q][b] = vm[q][b] \/ vm'[q][b] = vm[ProcOf[t]][b]
    BY <2>1 DEF RefInv, TypeOK
  <2>3. QED
    BY <2>1, <2>2 DEF Closed, InHand
<1>5. ASSUME NEW t \in Threads, CapioCall(t) PROVE Closed'
  <2>1. phase' = phase
    BY <1>5, PhaseFrame
  <2> SUFFICES ASSUME phase # "up" PROVE Closed'
    BY <2>1 DEF Closed
  <2>2. /\ \A q \in Procs, a \in Addrs : vm[q][a] \notin Objs
        /\ \A u \in Threads : pc[u] \notin {"mmap_lookup", "mmap_alloc"} /\ ~InHand(u)
    BY DEF Closed
  <2>3. ~(\/ MmapLookup(t) \/ MmapAllocFails(t) \/ MmapRecheck(t)
          \/ (\E o \in Objs : MmapAlloc(t, o)) \/ (\E a \in Addrs : MapEnter(t, a))
          \/ MapEnterFails(t) \/ capio_pager_dtor(t))
    BY <2>2 DEF MmapLookup, MmapAllocFails, MmapRecheck, MmapAlloc, MapEnter,
       MapEnterFails, capio_pager_dtor, InHand
  <2>4. ~(\E a \in Addrs : Munmap(t, a)) /\ ~(\E a \in Addrs : Takes(t, a))
    BY <2>2 DEF Munmap, Takes
  <2>5. \A q \in Procs, a \in Addrs : vm'[q][a] \notin Objs
    <3>1. Loses(t)
      BY <1>5, <2>3, <2>4, RefKinds DEF RefInv
    <3>2. QED
      BY <2>2, <3>1 DEF Loses
  <2> USE DEF RefInv, TypeOK, Goto, Done, InHand
  <2>6. ASSUME NEW x, pc' = [pc EXCEPT ![t] = x],
               x \notin {"mmap_lookup", "mmap_alloc", "dtor", "mmap_recheck", "mmap_enter"}
        PROVE  Closed'
    BY <2>1, <2>2, <2>5, <2>6 DEF Closed
  <2>7. CASE Open(t) \/ Attach(t)
    BY <1>1, <2>1, <2>7 DEF Open, Attach
  <2>8. CASE Goodbye(t) \/ Close(t) \/ Exit(t)
    BY <2>6, <2>8 DEF Goodbye, Close, Exit, Leave
  <2>9. CASE RevokeClear(t) \/ RevokeRead(t) \/ RevokeDeleteFails(t) \/ RevokeZero(t)
    BY <2>6, <2>9 DEF RevokeClear, RevokeRead, RevokeDeleteFails, RevokeZero, NextRegion
  <2>10. CASE RevokeDelete(t)
    <3>1. vm[ProcOf[t]][addr[t]] \notin Objs
      BY <2>2, <2>10 DEF RevokeDelete, Located
    <3>2. pc' = [pc EXCEPT ![t] = "rev_zero"]
      BY <2>10, <3>1 DEF RevokeDelete
    <3>3. QED
      BY <2>6, <3>2
  <2>11. CASE (\E r \in Regions : MmapCheckToken(t, r)) \/ MmapIsDying(t)
    BY <2>6, <2>11 DEF MmapCheckToken, MmapIsDying, Dying
  <2>12. CASE capio_vaddr_callback(t)
    BY <2>6, <2>12 DEF capio_vaddr_callback
  <2>13. CASE ExitUnmap(t)
    BY <2>2, <2>6, <2>13 DEF ExitUnmap
  <2>14. QED
    BY <1>5, <2>3, <2>4, <2>7, <2>8, <2>9, <2>10, <2>11, <2>12, <2>13 DEF CapioCall
<1>6. CASE Unload
  BY <1>2, <1>3, <1>6 DEF Unload, Detach
<1>7. QED
  BY <1>3, <1>4, <1>5, <1>6, StepKinds DEF SessionNext, sessionVars, LibFork

\* destroy_dev waits for the calls inside and bars new ones.
LEMMA LeftStep ==
  ASSUME RefInv, Closed, Left, [SessionNext]_sessionVars
  PROVE  Left'
<1> USE ConstantsAssumption DEF ConstantsAssumption
<1>1. ASSUME UNCHANGED <<pc, dret>>,
             phase' \in {"gone", "freed"} =>
               phase \in {"gone", "freed"} \/ \A t \in Threads : ~InMethod(t)
      PROVE  Left'
  BY <1>1 DEF Left, InMethod
<1>2. CASE UNCHANGED vars \/ Detach
  BY <1>1, <1>2 DEF Detach, DetachDying, DetachUnregister, DetachDestroyDev, capio_destroy,
     vars, world, locals
<1>3. CASE \E t, u \in Threads : Fork(t, u)
  BY <1>1, <1>3 DEF Fork, locals
<1>4. ASSUME NEW t \in Threads, CapioCall(t) PROVE Left'
  <2>1. phase' = phase
    BY <1>4, PhaseFrame
  <2> SUFFICES ASSUME phase \in {"gone", "freed"} PROVE Left'
    BY <2>1 DEF Left
  <2>2. \A u \in Threads : ~InMethod(u) /\ ~InHand(u)
    BY DEF Left, Closed
  <2>3. \A q \in Procs, a \in Addrs : vm[q][a] \notin Objs
    BY DEF Closed
  <2> USE DEF RefInv, TypeOK, Goto, Done
  <2>4. ASSUME NEW x \in {"idle", "exit_unmap"}, pc' = [pc EXCEPT ![t] = x], dret' = dret
        PROVE  Left'
    BY <2>2, <2>4 DEF Left, InMethod, RevokePC, MmapPC
  <2>5. ~(\/ Open(t) \/ Attach(t) \/ Goodbye(t)
          \/ \E r \in Regions : MmapCheckToken(t, r))
    BY DEF Open, Attach, Goodbye, MmapCheckToken, CanCall, CdevUp
  <2>6. CASE Close(t) \/ Exit(t)
    BY <2>4, <2>6 DEF Close, Exit, Leave, CdevUp
  <2>7. ~(\/ RevokeClear(t) \/ RevokeRead(t) \/ RevokeDelete(t) \/ RevokeDeleteFails(t)
          \/ RevokeZero(t) \/ MmapIsDying(t) \/ MmapLookup(t) \/ MmapAllocFails(t)
          \/ MmapRecheck(t) \/ \E o \in Objs : MmapAlloc(t, o))
    BY <2>2 DEF RevokeClear, RevokeRead, RevokeDelete, RevokeDeleteFails, RevokeZero,
       MmapIsDying, MmapLookup, MmapAllocFails, MmapRecheck, MmapAlloc, InMethod,
       RevokePC, MmapPC
  <2>8. ~(\/ (\E a \in Addrs : MapEnter(t, a) \/ Munmap(t, a))
          \/ MapEnterFails(t) \/ capio_pager_dtor(t))
    BY <2>2, <2>3 DEF MapEnter, MapEnterFails, capio_pager_dtor, Munmap, InHand
  <2>9. CASE capio_vaddr_callback(t)
    BY <2>4, <2>9 DEF capio_vaddr_callback
  <2>10. CASE ExitUnmap(t)
    BY <2>3, <2>4, <2>10 DEF ExitUnmap
  <2>11. QED
    BY <1>4, <2>5, <2>6, <2>7, <2>8, <2>9, <2>10 DEF CapioCall
<1>5. QED
  BY <1>2, <1>3, <1>4, NextKinds

\* When capio_destroy takes the lock away, no call is inside and no object is left
\* whose dtor could still run and would take it, for any threads and whatever
\* vm_map_remove does with its references, if the unload is begun on an idle
\* device; sessions may begin and processes fork at any time.
THEOREM DestroyTheorem ==
  ASSUME Unloads # "closed"
  PROVE  SessionSpec => []NothingLeftAtDestroy
<1>1. SessionInit => HeldPc /\ Closed /\ Left
  BY DEF SessionInit, Init, HeldPc, Closed, Left
<1>2. RefInv /\ HeldPc /\ Closed /\ Left /\ [SessionNext]_sessionVars
        => HeldPc' /\ Closed' /\ Left'
  BY HeldPcStep, ClosedStep, LeftStep
<1>3. TypeOK /\ HeldPc /\ Closed /\ Left => NothingLeftAtDestroy
  <2> SUFFICES ASSUME TypeOK, HeldPc, Closed, Left, phase = "freed"
               PROVE  /\ \A t \in Threads : ~InMethod(t) /\ pc[t] # "dtor"
                      /\ \A o \in Objs : object[o] # 0 => Orphan(o)
    BY DEF NothingLeftAtDestroy
  <2>1. \A t \in Threads : ~InMethod(t) /\ ~InHand(t) /\ held[t] = NoObj
    BY DEF Closed, Left, HeldPc
  <2>2. \A p \in Procs, a \in Addrs : vm[p][a] \notin Objs
    BY DEF Closed
  <2>3. QED
    BY <2>1, <2>2, ConstantsAssumption DEF InHand, Orphan, ConstantsAssumption
<1>4. QED
  BY <1>1, <1>2, <1>3, RefInvariant, PTL DEF SessionSpec, RefInv

-----------------------------------------------------------------------------
(* Where a session is and where its thread is.                             *)

Ending == {"closing", "done", "exited"}
AtMmap == MmapPC \cup {"mmap_enter", "mmap_vaddr"}

\* A session revokes only when it ends and maps only when it begins; a process
\* that exits goes on to lose its address space.
AtLib(t) ==
  /\ pc[t] \in RevokePC \cup {"exit_unmap"} \/ dret[t] # "idle" => lib[t] \in Ending
  /\ pc[t] \in AtMmap => lib[t] = "mapping"
  /\ lib[t] = "exited" /\ pc[t] # "idle" =>
       exiting[t] /\ (pc[t] = "dtor" => dret[t] # "idle")
  /\ dret[t] # "idle" => pc[t] = "dtor"
LibInv == lib \in [Threads -> Lib] /\ \A t \in Threads : AtLib(t)

\* A call changes its own thread's state and its own process's map.
LEMMA CallFrame ==
  ASSUME TypeOK, NEW t \in Threads, CapioCall(t)
  PROVE  /\ \A u \in Threads \ {t} : UNCHANGED <<pc[u], dret[u], exiting[u], reg[u], held[u]>>
         /\ \A q \in Procs \ {ProcOf[t]} : vm'[q] = vm[q]
<1> USE DEF TypeOK, Goto, Done
<1>1. CASE Open(t) \/ Attach(t) \/ Goodbye(t) \/ Close(t) \/ Exit(t)
  BY <1>1 DEF Open, Attach, Goodbye, Close, Exit, Leave, world, locals
<1>2. CASE RevokeClear(t) \/ RevokeRead(t) \/ RevokeDelete(t) \/ RevokeDeleteFails(t)
           \/ RevokeZero(t)
  BY <1>2 DEF RevokeClear, RevokeRead, RevokeDelete, RevokeDeleteFails, RevokeZero,
     NextRegion, world
<1>3. CASE \/ \E r \in Regions : MmapCheckToken(t, r)
           \/ MmapIsDying(t) \/ MmapLookup(t) \/ MmapAllocFails(t)
           \/ MmapRecheck(t) \/ \E o \in Objs : MmapAlloc(t, o)
  BY <1>3 DEF MmapCheckToken, MmapIsDying, MmapLookup, MmapAllocFails, MmapRecheck,
     MmapAlloc, world
<1>4. CASE MapEnterFails(t) \/ capio_vaddr_callback(t) \/ capio_pager_dtor(t)
  BY <1>4 DEF MapEnterFails, capio_vaddr_callback, capio_pager_dtor, world
<1>5. CASE \E a \in Addrs : MapEnter(t, a)
  BY <1>5 DEF MapEnter
<1>6. CASE \E a \in Addrs : Munmap(t, a)
  BY <1>6 DEF Munmap
<1>7. CASE ExitUnmap(t)
  BY <1>7 DEF ExitUnmap
<1>8. QED
  BY <1>1, <1>2, <1>3, <1>4, <1>5, <1>6, <1>7 DEF CapioCall

\* A step changes its own session.
LEMMA StepFrame ==
  ASSUME TypeOK, lib \in [Threads -> Lib], NEW t \in Threads, SessionStep(t)
  PROVE  /\ \A u \in Threads \ {t} :
              UNCHANGED <<pc[u], dret[u], exiting[u], reg[u], held[u], lib[u]>>
         /\ \A q \in Procs \ {ProcOf[t]} : vm'[q] = vm[q]
         /\ lib' \in [Threads -> Lib]
<1>1. lib' \in [Threads -> Lib] /\ \A u \in Threads \ {t} : lib'[u] = lib[u]
  <2>1. UNCHANGED lib \/ \E l \in Lib : lib' = [lib EXCEPT ![t] = l]
    BY DEF SessionStep, LibOpen, LibAttach, LibMap, LibDestroy, LibUnmap, LibGoodbye,
       LibClose, LibExit, LibAgain, LibWait, KernelStep, To, Lib
  <2>2. QED
    BY <2>1
<1>2. /\ \A u \in Threads \ {t} : UNCHANGED <<pc[u], dret[u], exiting[u], reg[u], held[u]>>
      /\ \A q \in Procs \ {ProcOf[t]} : vm'[q] = vm[q]
  <2>1. CASE CapioCall(t)
    BY <2>1, CallFrame
  <2>2. CASE UNCHANGED vars
    BY <2>2 DEF vars, locals, world
  <2>3. QED
    BY <2>1, <2>2, StepKinds
<1>3. QED
  BY <1>1, <1>2

\* Every step keeps calls and sessions in step.
LEMMA LibStep ==
  ASSUME RefInv, LibInv, [SessionNext]_sessionVars
  PROVE  LibInv'
<1> USE ConstantsAssumption DEF ConstantsAssumption
<1>1. CASE Unload \/ UNCHANGED sessionVars
  <2>1. UNCHANGED <<pc, dret, exiting, lib>>
    BY <1>1 DEF Unload, Detach, DetachDying, DetachUnregister, DetachDestroyDev,
       capio_destroy, sessionVars, vars, locals
  <2>2. QED
    BY <2>1 DEF LibInv, AtLib
<1>2. ASSUME NEW t \in Threads, SessionStep(t) PROVE LibInv'
  <2>1. /\ \A u \in Threads \ {t} : UNCHANGED <<pc[u], dret[u], exiting[u], lib[u]>>
        /\ lib' \in [Threads -> Lib]
    BY <1>2, StepFrame DEF RefInv, LibInv
  <2>2. \A u \in Threads \ {t} : AtLib(u)'
    BY <2>1 DEF LibInv, AtLib
  <2>3. AtLib(t)'
    <3>0. AtLib(t) /\ TypeOK /\ lib \in [Threads -> Lib]
      BY DEF LibInv, RefInv
    <3> USE <3>0 DEF AtLib, TypeOK, Goto, Done, To, AtMmap, MmapPC, RevokePC, Ending
    <3>1. CASE LibOpen(t) \/ LibAttach(t) \/ LibMap(t) \/ LibDestroy(t)
      BY <3>1 DEF LibOpen, LibAttach, LibMap, LibDestroy, Open, Attach, MmapCheckToken,
         CanCall, vars, locals, capState
    <3>2. CASE LibUnmap(t) \/ LibGoodbye(t)
      BY <3>2 DEF LibUnmap, LibGoodbye, Munmap, Goodbye, CanCall, vars, locals
    <3>3. CASE LibClose(t) \/ LibExit(t)
      BY <3>3 DEF LibClose, LibExit, Close, Exit, Leave
    <3>4. CASE LibAgain(t) \/ LibWait(t)
      BY <3>4 DEF LibAgain, LibWait, vars, locals
    <3>5. CASE KernelStep(t)
      <4>1. CASE /\ RevokeClear(t) \/ RevokeRead(t) \/ RevokeDeleteFails(t) \/ RevokeZero(t)
                 /\ UNCHANGED lib
        BY <4>1 DEF RevokeClear, RevokeRead, RevokeDeleteFails, RevokeZero, NextRegion
      <4>2. CASE RevokeDelete(t) /\ UNCHANGED lib
        BY <4>2 DEF RevokeDelete
      <4>3. CASE ExitUnmap(t) /\ UNCHANGED lib
        BY <4>3 DEF ExitUnmap
      <4>4. CASE /\ \/ \E o \in Objs : MmapAlloc(t, o)
                    \/ \E a \in Addrs : MapEnter(t, a)
                    \/ MapEnterFails(t)
                 /\ UNCHANGED lib
        BY <4>4 DEF MmapAlloc, MapEnter, MapEnterFails
      <4>5. CASE /\ MmapIsDying(t) \/ MmapLookup(t) \/ MmapAllocFails(t) \/ MmapRecheck(t)
                 /\ IF lib[t] = "mapping" /\ pc'[t] = "idle"
                      THEN To(t, "unmap") ELSE UNCHANGED lib
        BY <4>5 DEF MmapIsDying, MmapLookup, MmapAllocFails, MmapRecheck
      <4>6. CASE /\ capio_pager_dtor(t)
                 /\ IF lib[t] = "mapping" /\ pc'[t] = "idle"
                      THEN To(t, "unmap") ELSE UNCHANGED lib
        BY <4>6 DEF capio_pager_dtor
      <4>7. CASE capio_vaddr_callback(t) /\ To(t, "map")
        BY <4>7 DEF capio_vaddr_callback
      <4>8. QED
        BY <3>5, <4>1, <4>2, <4>3, <4>4, <4>5, <4>6, <4>7 DEF KernelStep
    <3>6. QED
      BY <1>2, <3>1, <3>2, <3>3, <3>4, <3>5 DEF SessionStep
  <2>4. QED
    BY <2>1, <2>2, <2>3 DEF LibInv
<1>3. ASSUME NEW t \in Threads, NEW u \in Threads, LibFork(t, u) PROVE LibInv'
  <2>1. /\ UNCHANGED <<pc, dret, exiting>> /\ pc[t] = "idle"
        /\ lib[t] = "running" /\ lib[u] = "out"
        /\ lib' = [lib EXCEPT ![t] = "waiting", ![u] = "child"]
    BY <1>3 DEF LibFork, Fork, locals
  <2>2. /\ lib' \in [Threads -> Lib] /\ lib'[t] = "waiting" /\ lib'[u] = "child"
        /\ \A v \in Threads \ {t, u} : lib'[v] = lib[v]
    BY <2>1 DEF LibInv, Lib
  <2>3. ASSUME NEW v \in Threads PROVE AtLib(v)'
    <3>1. CASE v \notin {t, u}
      BY <2>1, <2>2, <3>1 DEF LibInv, AtLib
    <3>2. CASE v = t
      BY <2>1, <2>2, <3>2 DEF LibInv, AtLib, AtMmap, MmapPC, RevokePC
    <3>3. CASE v = u
      BY <2>1, <2>2, <3>3 DEF LibInv, AtLib, Ending
    <3>4. QED
      BY <3>1, <3>2, <3>3
  <2>4. QED
    BY <2>2, <2>3 DEF LibInv
<1>4. QED
  BY <1>1, <1>2, <1>3 DEF SessionNext
\* It holds throughout.
LEMMA LibInvariant == SessionSpec => []LibInv
<1>1. SessionInit => LibInv
  BY DEF SessionInit, Init, LibInv, AtLib, Lib, AtMmap, MmapPC, RevokePC
<1>2. RefInv /\ LibInv /\ [SessionNext]_sessionVars => LibInv'
  BY LibStep
<1>3. QED
  BY <1>1, <1>2, RefInvariant, PTL DEF SessionSpec

-----------------------------------------------------------------------------
(* The token of a session, until a close clears another session's.         *)

Attached == {"map", "mapping", "running", "waiting"}
Leaving  == {"unmap", "goodbye"}

\* Which sealed capability a process has at which point of its session, and from
\* when to when it has the device open.
Carries(t) ==
  LET p == ProcOf[t]
  IN  /\ lib[t] \in {"out", "opened"} \/ (lib[t] = "exited" /\ pc[t] = "idle")
           => token[p] = NoProc
      /\ lib[t] \in Attached => token[p] = p
      /\ lib[t] \in {"opened", "child"} \cup Attached \cup Leaving => p \in opens
      /\ lib[t] = "child" => token[p] \notin {p, NoProc}
Carried == \A t \in Threads : Carries(t)

\* A session, and a child of one, has the token from the attach on, ...
Owned ==
  /\ \A t \in Threads :
       lib[t] \in Attached \cup Leaving /\ token[ProcOf[t]] = ProcOf[t]
         => original = ProcOf[t]
  /\ \A t \in Threads : lib[t] = "child" => original = token[ProcOf[t]]
\* ... since a process with a child waits for it or has died.
Waits ==
  \A c, t \in Threads :
    lib[c] = "child" /\ token[ProcOf[c]] = ProcOf[t] =>
      /\ pc[t] # "rev_clear"
      /\ token[ProcOf[t]] = ProcOf[t] => lib[t] \in {"waiting", "exited"}
TokenInv == Carried /\ (robbed \/ (Owned /\ Waits))

\* The token changes when it is set and when it is cleared; only its own process
\* leaves the device and loses its capability.
LEMMA TokenFrame ==
  ASSUME TypeOK, NEW t \in Threads, CapioCall(t)
  PROVE  /\ Attach(t) \/ RevokeClear(t) \/ original' = original
         /\ Attach(t) \/ ExitUnmap(t) \/ token' = token
         /\ \A q \in Procs \ {ProcOf[t]} : token'[q] = token[q]
         /\ opens \subseteq opens' \cup {ProcOf[t]}
         /\ opens \subseteq opens' \/ Close(t) \/ Exit(t)
<1> USE DEF people
<1>1. CASE Open(t) \/ Attach(t) \/ Goodbye(t) \/ Close(t) \/ Exit(t)
  BY <1>1 DEF Open, Attach, Goodbye, Close, Exit, Leave, world, capState, TypeOK
<1>2. CASE RevokeClear(t) \/ RevokeRead(t) \/ RevokeDelete(t) \/ RevokeDeleteFails(t)
           \/ RevokeZero(t)
  BY <1>2 DEF RevokeClear, RevokeRead, RevokeDelete, RevokeDeleteFails, RevokeZero, world,
     capState
<1>3. CASE \/ \E r \in Regions : MmapCheckToken(t, r)
           \/ MmapIsDying(t) \/ MmapLookup(t) \/ MmapAllocFails(t)
           \/ MmapRecheck(t) \/ \E o \in Objs : MmapAlloc(t, o)
  BY <1>3 DEF MmapCheckToken, MmapIsDying, MmapLookup, MmapAllocFails, MmapRecheck,
     MmapAlloc, world, capState
<1>4. CASE \/ \E a \in Addrs : MapEnter(t, a) \/ Munmap(t, a)
           \/ MapEnterFails(t) \/ capio_vaddr_callback(t)
           \/ capio_pager_dtor(t)
  BY <1>4 DEF MapEnter, Munmap, MapEnterFails, capio_vaddr_callback, capio_pager_dtor,
     world, capState
<1>5. CASE ExitUnmap(t)
  BY <1>5 DEF ExitUnmap, capState, TypeOK
<1>6. QED
  BY <1>1, <1>2, <1>3, <1>4, <1>5 DEF CapioCall

\* A session that stays attached, and a child, leaves the token and its open alone.
LEMMA AttachedStep ==
  ASSUME RefInv, LibInv, NEW t \in Threads, SessionStep(t),
         lib'[t] \in {"child"} \cup Attached \cup Leaving
  PROVE  \/ Attach(t) /\ lib'[t] = "map"
         \/ /\ UNCHANGED <<original, opens, token>>
            /\ lib'[t] = "child" => lib[t] = "child"
            /\ lib'[t] \in Attached => lib[t] \in Attached
            /\ lib'[t] \in Leaving => lib[t] \in {"opened"} \cup Attached \cup Leaving
<1>0. AtLib(t) /\ TypeOK /\ lib \in [Threads -> Lib]
  BY DEF LibInv, RefInv
<1> USE <1>0 DEF AtLib, Attached, Leaving, To, AtMmap, Ending, Goto, Done, people
<1>1. CASE LibOpen(t) \/ LibAttach(t) \/ LibMap(t) \/ LibDestroy(t)
  BY <1>1 DEF LibOpen, LibAttach, LibMap, LibDestroy, MmapCheckToken, vars, world, capState
<1>2. CASE LibUnmap(t) \/ LibGoodbye(t) \/ LibClose(t)
  BY <1>2 DEF LibUnmap, LibGoodbye, LibClose, Munmap, vars, world, capState
<1>3. CASE LibExit(t) \/ LibAgain(t) \/ LibWait(t)
  BY <1>3 DEF LibExit, LibAgain, LibWait, vars, world, capState
<1>4. CASE KernelStep(t)
  <2>1. CASE /\ \/ RevokeClear(t) \/ RevokeRead(t) \/ RevokeDelete(t) \/ RevokeZero(t)
                \/ RevokeDeleteFails(t) \/ ExitUnmap(t)
             /\ UNCHANGED lib
    BY <2>1 DEF RevokeClear, RevokeRead, RevokeDelete, RevokeZero, RevokeDeleteFails,
       ExitUnmap, RevokePC
  <2>2. CASE /\ \/ \E o \in Objs : MmapAlloc(t, o)
                \/ \E a \in Addrs : MapEnter(t, a)
                \/ MapEnterFails(t)
             /\ UNCHANGED lib
    BY <2>2 DEF MmapAlloc, MapEnter, MapEnterFails, capState, world
  <2>3. CASE /\ MmapIsDying(t) \/ MmapLookup(t) \/ MmapAllocFails(t) \/ MmapRecheck(t)
                \/ capio_pager_dtor(t)
             /\ IF lib[t] = "mapping" /\ pc'[t] = "idle"
                  THEN To(t, "unmap") ELSE UNCHANGED lib
    BY <2>3 DEF MmapIsDying, MmapLookup, MmapAllocFails, MmapRecheck, capio_pager_dtor,
       capState, world
  <2>4. CASE capio_vaddr_callback(t) /\ To(t, "map")
    BY <2>4 DEF capio_vaddr_callback, world
  <2>5. QED
    BY <1>4, <2>1, <2>2, <2>3, <2>4 DEF KernelStep
<1>5. QED
  BY <1>1, <1>2, <1>3, <1>4 DEF SessionStep

\* Its own step leaves a process with the capability its place says.
LEMMA CarriesStep ==
  ASSUME RefInv, LibInv, NEW t \in Threads, Carries(t), SessionStep(t)
  PROVE  Carries(t)'
<1> USE ConstantsAssumption DEF ConstantsAssumption
<1>0. AtLib(t) /\ TypeOK /\ lib \in [Threads -> Lib] /\ ProcOf[t] \in Procs
      /\ lib' \in [Threads -> Lib]
  BY StepFrame DEF LibInv, RefInv
<1>1. CASE lib'[t] \in {"child"} \cup Attached \cup Leaving
  <2>1. CASE Attach(t) /\ lib'[t] = "map"
    BY <1>0, <2>1 DEF Attach, CanCall, Carries, Attached, Leaving, TypeOK
  <2>2. QED
    BY <1>0, <1>1, <2>1, AttachedStep DEF Carries, Attached, Leaving
<1>2. CASE lib'[t] \in {"out", "opened"}
  <2>1. CASE LibOpen(t)
    BY <1>0, <2>1 DEF LibOpen, Open, To, people, Carries, Attached, Leaving
  <2>2. CASE LibAgain(t)
    BY <1>0, <2>2 DEF LibAgain, To, vars, world, people, Carries, Attached, Leaving
  <2>3. ~(\/ LibAttach(t) \/ LibMap(t) \/ LibDestroy(t) \/ LibUnmap(t) \/ LibGoodbye(t)
          \/ LibClose(t) \/ LibExit(t) \/ LibWait(t))
    BY <1>0, <1>2 DEF LibAttach, LibMap, LibDestroy, LibUnmap, LibGoodbye, LibClose, LibExit,
       LibWait, To
  <2>4. CASE KernelStep(t)
    <3>1. lib'[t] = lib[t]
      BY <1>0, <1>2, <2>4 DEF KernelStep, To
    <3>2. ~(\/ RevokeClear(t) \/ RevokeRead(t) \/ RevokeDelete(t) \/ RevokeZero(t)
            \/ RevokeDeleteFails(t) \/ ExitUnmap(t)
            \/ (\E o \in Objs : MmapAlloc(t, o)) \/ (\E a \in Addrs : MapEnter(t, a))
            \/ MapEnterFails(t) \/ MmapIsDying(t) \/ MmapLookup(t) \/ MmapAllocFails(t)
            \/ MmapRecheck(t) \/ capio_vaddr_callback(t))
      BY <1>0, <1>2, <3>1 DEF AtLib, AtMmap, MmapPC, RevokePC, Ending, RevokeClear, RevokeRead,
         RevokeDelete, RevokeZero, RevokeDeleteFails, ExitUnmap, MmapAlloc, MapEnter,
         MapEnterFails, MmapIsDying, MmapLookup, MmapAllocFails, MmapRecheck,
         capio_vaddr_callback
    <3>3. capio_pager_dtor(t)
      BY <2>4, <3>2 DEF KernelStep
    <3>4. QED
      BY <1>0, <1>2, <3>1, <3>3 DEF capio_pager_dtor, people, Carries, Attached, Leaving
  <2>5. QED
    BY <2>1, <2>2, <2>3, <2>4 DEF SessionStep
<1>3. CASE lib'[t] = "exited"
  <2> SUFFICES ASSUME pc'[t] = "idle" PROVE token'[ProcOf[t]] = NoProc
    BY <1>3 DEF Carries, Attached, Leaving
  <2>1. ~LibExit(t)
    BY <1>0 DEF LibExit, Exit, Leave, Goto, TypeOK
  <2>2. ~(\/ LibOpen(t) \/ LibAttach(t) \/ LibMap(t) \/ LibDestroy(t) \/ LibUnmap(t)
          \/ LibGoodbye(t) \/ LibClose(t) \/ LibAgain(t) \/ LibWait(t))
    BY <1>0, <1>3 DEF LibOpen, LibAttach, LibMap, LibDestroy, LibUnmap, LibGoodbye, LibClose,
       LibAgain, LibWait, To
  <2>3. KernelStep(t)
    BY <2>1, <2>2 DEF SessionStep
  <2>4. lib[t] = "exited"
    BY <1>0, <1>3, <2>3 DEF KernelStep, To
  <2>5. CASE ExitUnmap(t)
    <3>1. pc'[t] # "idle" \/ token' = [token EXCEPT ![ProcOf[t]] = NoProc]
      BY <1>0, <2>5 DEF ExitUnmap, Goto, TypeOK
    <3>2. QED
      BY <1>0, <3>1 DEF TypeOK
  <2>6. ~(\/ RevokeClear(t) \/ RevokeRead(t) \/ RevokeDelete(t) \/ RevokeZero(t)
          \/ RevokeDeleteFails(t))
    BY <1>0, <2>4 DEF AtLib, RevokeClear, RevokeRead, RevokeDelete, RevokeZero,
       RevokeDeleteFails, NextRegion, Goto, TypeOK
  <2>7. ~(\/ (\E o \in Objs : MmapAlloc(t, o)) \/ (\E a \in Addrs : MapEnter(t, a))
          \/ MapEnterFails(t) \/ MmapIsDying(t) \/ MmapLookup(t) \/ MmapAllocFails(t)
          \/ MmapRecheck(t) \/ capio_vaddr_callback(t))
    BY <1>0, <2>4 DEF AtLib, AtMmap, MmapPC, MmapAlloc, MapEnter, MapEnterFails, MmapIsDying,
       MmapLookup, MmapAllocFails, MmapRecheck, capio_vaddr_callback
  <2>8. ~capio_pager_dtor(t)
    BY <1>0, <2>4 DEF AtLib, capio_pager_dtor, Goto, TypeOK
  <2>9. QED
    BY <2>3, <2>5, <2>6, <2>7, <2>8 DEF KernelStep
<1>4. CASE lib'[t] \in {"closing", "done"}
  BY <1>4 DEF Carries, Attached, Leaving
<1>5. QED
  BY <1>0, <1>1, <1>2, <1>3, <1>4 DEF Lib, Attached, Leaving

\* A process with a child either waits for it or has exited, until it begins anew.
LEMMA WaitingStep ==
  ASSUME RefInv, LibInv, NEW t \in Threads, SessionStep(t),
         lib[t] \in {"waiting", "exited"}
  PROVE  lib'[t] \in {"waiting", "exited"} \/ LibWait(t) \/ LibAgain(t)
<1>0. AtLib(t) /\ lib \in [Threads -> Lib]
  BY DEF LibInv
<1>1. ~(\/ LibOpen(t) \/ LibAttach(t) \/ LibMap(t) \/ LibDestroy(t) \/ LibUnmap(t)
        \/ LibGoodbye(t) \/ LibClose(t))
  BY DEF LibOpen, LibAttach, LibMap, LibDestroy, LibUnmap, LibGoodbye, LibClose
<1>2. CASE LibExit(t)
  BY <1>0, <1>2 DEF LibExit, To
<1>3. CASE KernelStep(t)
  <2>1. ~capio_vaddr_callback(t)
    BY <1>0 DEF capio_vaddr_callback, AtLib, AtMmap
  <2>2. QED
    BY <1>0, <1>3, <2>1 DEF KernelStep
<1>4. QED
  BY <1>1, <1>2, <1>3 DEF SessionStep

\* A revocation is begun by the GOODBYE of a session or by the last to leave.
LEMMA RevocationBegins ==
  ASSUME RefInv, NEW t \in Threads, SessionStep(t), pc'[t] = "rev_clear"
  PROVE  \/ pc[t] = "rev_clear"
         \/ LibGoodbye(t) /\ Goodbye(t)
         \/ opens = {ProcOf[t]}
<1> USE DEF RefInv, TypeOK, Goto, Done
<1>1. CASE LibOpen(t) \/ LibAttach(t) \/ LibMap(t) \/ LibDestroy(t)
  BY <1>1 DEF LibOpen, LibAttach, LibMap, LibDestroy, Open, Attach, MmapCheckToken, vars
<1>2. CASE LibUnmap(t) \/ LibGoodbye(t) \/ LibAgain(t) \/ LibWait(t)
  BY <1>2 DEF LibUnmap, LibGoodbye, LibAgain, LibWait, Munmap, vars
<1>3. CASE LibClose(t) \/ LibExit(t)
  BY <1>3 DEF LibClose, LibExit, Close, Exit, Leave
<1>4. CASE KernelStep(t)
  <2>1. CASE \/ RevokeClear(t) \/ RevokeRead(t) \/ RevokeDelete(t) \/ RevokeZero(t)
             \/ RevokeDeleteFails(t)
    BY <2>1 DEF RevokeClear, RevokeRead, RevokeDelete, RevokeZero, RevokeDeleteFails,
       NextRegion
  <2>2. CASE ExitUnmap(t) \/ capio_pager_dtor(t)
    BY <2>2 DEF ExitUnmap, capio_pager_dtor
  <2>3. CASE \/ \E o \in Objs : MmapAlloc(t, o)
             \/ \E a \in Addrs : MapEnter(t, a)
             \/ MapEnterFails(t) \/ capio_vaddr_callback(t)
    BY <2>3 DEF MmapAlloc, MapEnter, MapEnterFails, capio_vaddr_callback
  <2>4. CASE MmapIsDying(t) \/ MmapLookup(t) \/ MmapAllocFails(t) \/ MmapRecheck(t)
    BY <2>4 DEF MmapIsDying, MmapLookup, MmapAllocFails, MmapRecheck
  <2>5. QED
    BY <1>4, <2>1, <2>2, <2>3, <2>4 DEF KernelStep
<1>5. QED
  BY <1>1, <1>2, <1>3, <1>4 DEF SessionStep

\* Sessions and children keep the token, unless a close robs one.
LEMMA OwnedStep ==
  ASSUME SingleThreaded, RefInv, LibInv, Carried, Carried', Owned, Waits, ~robbed',
         NEW t \in Threads, SessionStep(t)
  PROVE  Owned' /\ Waits'
<1> USE ConstantsAssumption DEF ConstantsAssumption
<1>0. AtLib(t) /\ TypeOK /\ lib \in [Threads -> Lib] /\ ProcOf \in [Threads -> Procs]
  BY DEF LibInv, RefInv
<1>1. \A v \in Threads \ {t} :
        /\ UNCHANGED <<pc[v], lib[v]>> /\ ProcOf[v] \in Procs \ {ProcOf[t]}
        /\ token'[ProcOf[v]] = token[ProcOf[v]]
  <2>1. \A v \in Threads \ {t} :
          UNCHANGED <<pc[v], lib[v]>> /\ ProcOf[v] \in Procs \ {ProcOf[t]}
    BY <1>0, StepFrame DEF RefInv, SingleThreaded
  <2>2. \A q \in Procs \ {ProcOf[t]} : token'[q] = token[q]
    BY <1>0, StepKinds, TokenFrame DEF vars, world, people
  <2>3. QED
    BY <2>1, <2>2
<1>2. CapioCall(t) \/ UNCHANGED vars
  BY StepKinds
\* The token of another session or child is not touched.
<1>3. ASSUME NEW v \in Threads \ {t}, NEW q \in Procs,
             original = q, token[ProcOf[v]] = q, ProcOf[v] \in opens,
             q = ProcOf[t] => pc[t] # "rev_clear"
      PROVE  original' = q
  <2>1. ~Attach(t)
    BY <1>3 DEF Attach
  <2>2. ~RevokeClear(t)
    BY <1>0, <1>3 DEF RevokeClear
  <2>3. QED
    BY <1>0, <1>2, <1>3, <2>1, <2>2, TokenFrame DEF vars, capState
<1>4. ASSUME NEW v \in Threads, lib'[v] \in Attached \cup Leaving,
             token'[ProcOf[v]] = ProcOf[v]
      PROVE  original' = ProcOf[v]
  <2>1. CASE v = t
    <3>1. CASE Attach(t)
      BY <2>1, <3>1 DEF Attach
    <3>2. CASE ~Attach(t)
      <4>1. /\ UNCHANGED <<original, token>>
            /\ lib[t] \in {"opened"} \cup Attached \cup Leaving
        BY <1>4, <2>1, <3>2, AttachedStep DEF Attached, Leaving
      <4>2. lib[t] # "opened"
        BY <1>0, <1>4, <2>1, <4>1 DEF Carried, Carries
      <4>3. QED
        BY <1>4, <2>1, <4>1, <4>2 DEF Owned
    <3>3. QED
      BY <3>1, <3>2
  <2>2. CASE v # t
    <3>1. /\ lib[v] \in Attached \cup Leaving /\ token[ProcOf[v]] = ProcOf[v]
          /\ ProcOf[v] # ProcOf[t] /\ ProcOf[v] \in Procs
      BY <1>1, <1>4, <2>2
    <3>2. original = ProcOf[v] /\ ProcOf[v] \in opens
      BY <3>1 DEF Owned, Carried, Carries
    <3>3. QED
      BY <1>3, <2>2, <3>1, <3>2
  <2>3. QED
    BY <2>1, <2>2
\* Who is a child after the step was it before, with the same capability.
<1>5. ASSUME NEW v \in Threads, lib'[v] = "child"
      PROVE  /\ lib[v] = "child" /\ token'[ProcOf[v]] = token[ProcOf[v]]
             /\ v = t => original' = original
  <2>1. CASE v = t
    BY <1>5, <2>1, AttachedStep
  <2>2. CASE v # t
    BY <1>1, <1>5, <2>2
  <2>3. QED
    BY <2>1, <2>2
<1>6. ASSUME NEW v \in Threads, lib'[v] = "child"
      PROVE  original' = token'[ProcOf[v]]
  <2>1. /\ lib[v] = "child" /\ token'[ProcOf[v]] = token[ProcOf[v]]
        /\ v = t => original' = original
    BY <1>5, <1>6
  <2>2. original = token[ProcOf[v]] /\ ProcOf[v] \in opens /\ token[ProcOf[v]] \in Procs
    BY <1>0, <2>1 DEF Owned, Carried, Carries, TypeOK
  <2>3. CASE v # t
    <3>1. token[ProcOf[v]] = ProcOf[t] => pc[t] # "rev_clear"
      BY <2>1 DEF Waits
    <3>2. QED
      BY <1>3, <2>1, <2>2, <2>3, <3>1
  <2>4. QED
    BY <2>1, <2>2, <2>3
<1>7. ASSUME NEW c \in Threads, NEW v \in Threads,
             lib'[c] = "child", token'[ProcOf[c]] = ProcOf[v]
      PROVE  /\ pc'[v] # "rev_clear"
             /\ token'[ProcOf[v]] = ProcOf[v] => lib'[v] \in {"waiting", "exited"}
  <2>1. /\ lib[c] = "child" /\ token[ProcOf[c]] = ProcOf[v]
        /\ ProcOf[c] \in opens /\ original = ProcOf[v]
        /\ token[ProcOf[c]] # ProcOf[c]
    BY <1>5, <1>7 DEF Owned, Carried, Carries
  <2>2. /\ pc[v] # "rev_clear"
        /\ token[ProcOf[v]] = ProcOf[v] => lib[v] \in {"waiting", "exited"}
    BY <2>1 DEF Waits
  <2>3. CASE v # t
    BY <1>1, <2>2, <2>3
  <2>4. CASE v = t
    <3>1. pc'[t] # "rev_clear"
      <4>1. ~(LibGoodbye(t) /\ Goodbye(t))
        BY <2>1, <2>2, <2>4, <1>0 DEF LibGoodbye, Goodbye, CanCall, IsChild, check_cap_token
      <4>2. opens # {ProcOf[t]}
        BY <2>1, <2>4
      <4>3. QED
        BY <2>2, <2>4, <4>1, <4>2, RevocationBegins
    <3>2. ASSUME token'[ProcOf[t]] = ProcOf[t] PROVE lib'[t] \in {"waiting", "exited"}
      <4>1. ~Attach(t)
        BY <1>0, <2>1, <2>4 DEF Attach
      <4>2. token[ProcOf[t]] = ProcOf[t]
        <5>1. CASE ExitUnmap(t)
          <6>1. token' = token \/ token'[ProcOf[t]] = NoProc
            BY <1>0, <5>1 DEF ExitUnmap, TypeOK
          <6>2. QED
            BY <1>0, <3>2, <6>1
        <5>2. CASE token' = token
          BY <3>2, <5>2
        <5>3. QED
          BY <1>0, <1>2, <4>1, <5>1, <5>2, TokenFrame DEF vars, world, people
      <4>3. lib[t] \in {"waiting", "exited"}
        BY <2>2, <2>4, <4>2
      <4>4. ~LibWait(t)
        BY <1>0, <2>1, <2>4 DEF LibWait
      <4>5. ~LibAgain(t)
        BY <1>0, <4>2 DEF LibAgain, Carried, Carries
      <4>6. QED
        BY <4>3, <4>4, <4>5, WaitingStep
    <3>3. QED
      BY <2>4, <3>1, <3>2
  <2>5. QED
    BY <2>3, <2>4
<1>8. Owned'
  BY <1>4, <1>6 DEF Owned
<1>9. Waits'
  BY <1>7 DEF Waits
<1>10. QED
  BY <1>8, <1>9

\* A fork gives the child what its parent has.
LEMMA ForkToken ==
  ASSUME SingleThreaded, RefInv, LibInv, TokenInv,
         NEW t \in Threads, NEW u \in Threads, LibFork(t, u)
  PROVE  TokenInv'
<1> USE ConstantsAssumption DEF ConstantsAssumption
<1>0. TypeOK /\ lib \in [Threads -> Lib] /\ ProcOf \in [Threads -> Procs]
  BY DEF LibInv, RefInv
<1>1. /\ UNCHANGED <<pc, original, robbed>> /\ pc[t] = "idle"
      /\ ProcOf[t] # ProcOf[u] /\ ProcOf[t] \in opens /\ token[ProcOf[t]] = ProcOf[t]
      /\ lib[t] = "running" /\ lib[u] = "out"
      /\ opens' = opens \cup {ProcOf[u]}
      /\ token' = [token EXCEPT ![ProcOf[u]] = ProcOf[t]]
      /\ lib' = [lib EXCEPT ![t] = "waiting", ![u] = "child"]
  BY DEF LibFork, Fork, capState
<1>2. /\ lib'[t] = "waiting" /\ lib'[u] = "child" /\ t # u
      /\ \A v \in Threads \ {t, u} : lib'[v] = lib[v]
  BY <1>0, <1>1
<1>3. /\ token'[ProcOf[u]] = ProcOf[t]
      /\ \A v \in Threads \ {u} : /\ token'[ProcOf[v]] = token[ProcOf[v]]
                                  /\ ProcOf[v] # ProcOf[u]
  BY <1>0, <1>1 DEF TypeOK, SingleThreaded
<1>4. Carried'
  <2> SUFFICES ASSUME NEW v \in Threads PROVE Carries(v)'
    BY DEF Carried
  <2>1. Carries(v)
    BY DEF TokenInv, Carried
  <2>2. CASE v = t
    BY <1>1, <1>2, <1>3, <2>1, <2>2 DEF Carries, Attached, Leaving
  <2>3. CASE v = u
    BY <1>0, <1>1, <1>2, <1>3, <2>1, <2>3 DEF Carries, Attached, Leaving
  <2>4. CASE v \notin {t, u}
    BY <1>1, <1>2, <1>3, <2>1, <2>4 DEF Carries
  <2>5. QED
    BY <2>2, <2>3, <2>4
<1>5. ASSUME Owned, Waits PROVE Owned' /\ Waits'
  <2>1. original = ProcOf[t]
    BY <1>1, <1>5 DEF Owned, Attached
  <2>2. Owned'
    <3>1. ASSUME NEW v \in Threads, lib'[v] \in Attached \cup Leaving,
                 token'[ProcOf[v]] = ProcOf[v]
          PROVE  original' = ProcOf[v]
      <4>1. CASE v = u
        BY <1>1, <1>3, <3>1, <4>1
      <4>2. CASE v = t
        BY <1>1, <2>1, <4>2
      <4>3. CASE v \notin {t, u}
        BY <1>1, <1>2, <1>3, <1>5, <3>1, <4>3 DEF Owned
      <4>4. QED
        BY <4>1, <4>2, <4>3
    <3>2. ASSUME NEW v \in Threads, lib'[v] = "child"
          PROVE  original' = token'[ProcOf[v]]
      <4>1. CASE v = u
        BY <1>1, <1>3, <2>1, <4>1
      <4>2. CASE v # u
        BY <1>1, <1>2, <1>3, <1>5, <3>2, <4>2 DEF Owned
      <4>3. QED
        BY <4>1, <4>2
    <3>3. QED
      BY <3>1, <3>2 DEF Owned
  <2>3. ASSUME NEW c \in Threads, NEW v \in Threads,
               lib'[c] = "child", token'[ProcOf[c]] = ProcOf[v]
        PROVE  /\ pc'[v] # "rev_clear"
               /\ token'[ProcOf[v]] = ProcOf[v] => lib'[v] \in {"waiting", "exited"}
    <3>1. CASE v = t
      BY <1>1, <1>2, <3>1
    <3>2. CASE c = u
      <4>1. v = t
        BY <1>3, <2>3, <3>2 DEF SingleThreaded
      <4>2. QED
        BY <3>1, <4>1
    <3>3. CASE v # t /\ c # u
      <4>1. lib[c] = "child" /\ token[ProcOf[c]] = ProcOf[v]
        BY <1>2, <1>3, <2>3, <3>3
      <4>2. /\ pc[v] # "rev_clear"
            /\ token[ProcOf[v]] = ProcOf[v] => lib[v] \in {"waiting", "exited"}
        BY <1>5, <4>1 DEF Waits
      <4>3. CASE v = u
        BY <1>1, <1>3, <4>2, <4>3
      <4>4. CASE v # u
        BY <1>1, <1>2, <1>3, <3>3, <4>2, <4>4
      <4>5. QED
        BY <4>3, <4>4
    <3>4. QED
      BY <3>1, <3>2, <3>3
  <2>4. QED
    BY <2>2, <2>3 DEF Waits
<1>6. QED
  BY <1>1, <1>4, <1>5 DEF TokenInv

\* Every step keeps the tokens where they belong.
LEMMA TokenStep ==
  ASSUME SingleThreaded, RefInv, LibInv, TokenInv, [SessionNext]_sessionVars
  PROVE  TokenInv'
<1>1. CASE Unload \/ UNCHANGED sessionVars
  <2>1. UNCHANGED <<original, opens, token, robbed, pc, lib>>
    BY <1>1 DEF Unload, Detach, DetachDying, DetachUnregister, DetachDestroyDev,
       capio_destroy, sessionVars, vars, capState, world, people
  <2>2. QED
    BY <2>1 DEF TokenInv, Carried, Carries, Owned, Waits
<1>2. ASSUME NEW t \in Threads, SessionStep(t) PROVE TokenInv'
  <2>1. Carried'
    <3> SUFFICES ASSUME NEW v \in Threads PROVE Carries(v)'
      BY DEF Carried
    <3>1. Carries(v)
      BY DEF TokenInv, Carried
    <3>2. CASE v = t
      BY <1>2, <3>1, <3>2, CarriesStep
    <3>3. CASE v # t
      <4>1. /\ UNCHANGED <<pc[v], lib[v]>>
            /\ ProcOf[v] \in Procs \ {ProcOf[t]}
        BY <1>2, <3>3, StepFrame, ConstantsAssumption
           DEF RefInv, LibInv, SingleThreaded, ConstantsAssumption
      <4>2. /\ token'[ProcOf[v]] = token[ProcOf[v]]
            /\ ProcOf[v] \in opens => ProcOf[v] \in opens'
        BY <1>2, <4>1, StepKinds, TokenFrame DEF RefInv, vars, world, people
      <4>3. QED
        BY <3>1, <4>1, <4>2 DEF Carries
    <3>4. QED
      BY <3>2, <3>3
  <2>2. CASE robbed'
    BY <2>1, <2>2 DEF TokenInv
  <2>3. CASE ~robbed'
    <3>1. ~robbed
      BY <2>3, NextKinds, RobbedStays DEF RefInv
    <3>2. Owned' /\ Waits'
      BY <1>2, <2>1, <2>3, <3>1, OwnedStep DEF TokenInv
    <3>3. QED
      BY <2>1, <3>2 DEF TokenInv
  <2>4. QED
    BY <2>2, <2>3
<1>3. QED
  BY <1>1, <1>2, ForkToken DEF SessionNext

\* It holds throughout.
LEMMA TokenInvariant ==
  ASSUME SingleThreaded
  PROVE  SessionSpec => []TokenInv
<1>1. SessionInit => TokenInv
  <2> SUFFICES ASSUME SessionInit PROVE TokenInv
    OBVIOUS
  <2>1. \A t \in Threads : token[ProcOf[t]] = NoProc /\ lib[t] = "out"
    BY ConstantsAssumption DEF SessionInit, Init, ConstantsAssumption
  <2>2. QED
    BY <2>1 DEF TokenInv, Carried, Carries, Owned, Waits, Attached, Leaving
<1>2. RefInv /\ LibInv /\ TokenInv /\ [SessionNext]_sessionVars => TokenInv'
  BY TokenStep
<1>3. QED
  BY <1>1, <1>2, RefInvariant, LibInvariant, PTL DEF SessionSpec
-----------------------------------------------------------------------------
(* What a session has mapped.                                              *)

\* A session that has not begun to map, or has unmapped, has no mapping left and
\* nothing in hand; nor has one whose attach failed, nor a process whose exit is
\* over.  While it maps, it has the first regions, and the next one is on its way.
Empty(t) ==
  /\ (\/ lib[t] \in {"out", "opened", "goodbye", "closing", "done"}
      \/ lib[t] = "unmap" /\ token[ProcOf[t]] # ProcOf[t])
       => MapsOf(ProcOf[t]) = {} /\ held[t] = NoObj
  /\ lib[t] = "exited" /\ pc[t] = "idle" => MapsOf(ProcOf[t]) = {}
Upto(t) ==
  lib[t] \in {"map", "mapping"} =>
    /\ \A a \in MapsOf(ProcOf[t]) :
         object[vm[ProcOf[t]][a]] <= Cardinality(MapsOf(ProcOf[t]))
    /\ pc[t] \in MmapPC \cup {"mmap_enter"}
         => reg[t] = Cardinality(MapsOf(ProcOf[t])) + 1
    /\ pc[t] \in {"mmap_recheck", "mmap_enter"} => object[held[t]] = reg[t]
MapsInv == \A t \in Threads : Empty(t) /\ Upto(t)

\* The objects of another process, and the one another thread holds, stay as they are.
LEMMA OthersObjects ==
  ASSUME RefInv, NEW t \in Threads, CapioCall(t)
  PROVE  /\ \A q \in Procs \ {ProcOf[t]}, a \in Addrs :
              vm[q][a] \in Objs => object'[vm[q][a]] = object[vm[q][a]]
         /\ \A u \in Threads \ {t} :
              held[u] \in Objs => object'[held[u]] = object[held[u]]
<1> USE ConstantsAssumption DEF ConstantsAssumption
<1>1. \A x \in Objs : object'[x] = object[x] \/ object[x] = 0 \/ x = held[t]
  <2>1. CASE \E o \in Objs : MmapAlloc(t, o)
    BY <2>1 DEF MmapAlloc, RefInv, TypeOK
  <2>2. CASE capio_pager_dtor(t)
    BY <2>2 DEF capio_pager_dtor, RefInv, TypeOK
  <2>3. QED
    BY <2>1, <2>2, RefKinds DEF RefInv, MapEnter, Takes, Loses
<1>2. ASSUME NEW q \in Procs, NEW a \in Addrs, vm[q][a] \in Objs
      PROVE  object[vm[q][a]] # 0 /\ vm[q][a] # held[t]
  BY <1>2 DEF RefInv, RefsLive
<1>3. ASSUME NEW u \in Threads \ {t}, held[u] \in Objs
      PROVE  object[held[u]] # 0 /\ held[u] # held[t]
  BY <1>3 DEF RefInv, RefsLive
<1>4. QED
  BY <1>1, <1>2, <1>3

\* A step leaves what the other sessions have mapped.
LEMMA OthersMaps ==
  ASSUME SingleThreaded, RefInv, lib \in [Threads -> Lib], MapsInv,
         NEW t \in Threads, SessionStep(t), NEW u \in Threads \ {t}
  PROVE  Empty(u)' /\ Upto(u)'
<1> USE ConstantsAssumption DEF ConstantsAssumption
<1>1. /\ UNCHANGED <<pc[u], reg[u], held[u], lib[u]>>
      /\ ProcOf[u] \in Procs \ {ProcOf[t]}
      /\ vm'[ProcOf[u]] = vm[ProcOf[u]]
      /\ token'[ProcOf[u]] = token[ProcOf[u]]
  <2>1. /\ UNCHANGED <<pc[u], reg[u], held[u], lib[u]>>
        /\ ProcOf[u] \in Procs \ {ProcOf[t]}
        /\ vm'[ProcOf[u]] = vm[ProcOf[u]]
    BY StepFrame DEF RefInv, SingleThreaded
  <2>2. QED
    BY <2>1, StepKinds, TokenFrame DEF RefInv, vars, world, people
<1>2. MapsOf(ProcOf[u])' = MapsOf(ProcOf[u])
  BY <1>1 DEF MapsOf
<1>3. Empty(u)'
  BY <1>1, <1>2 DEF MapsInv, Empty
<1>4. /\ \A a \in MapsOf(ProcOf[u]) : object'[vm[ProcOf[u]][a]] = object[vm[ProcOf[u]][a]]
      /\ held[u] \in Objs => object'[held[u]] = object[held[u]]
  <2>1. CASE CapioCall(t)
    BY <1>1, <2>1, OthersObjects DEF MapsOf
  <2>2. CASE UNCHANGED vars
    BY <2>2 DEF vars, world
  <2>3. QED
    BY <2>1, <2>2, StepKinds
<1>5. pc[u] \in {"mmap_recheck", "mmap_enter"} => held[u] \in Objs
  BY DEF RefInv, Holder
<1>6. Upto(u)'
  BY <1>1, <1>2, <1>4, <1>5 DEF MapsInv, Upto
<1>7. QED
  BY <1>3, <1>6
\* Entering an object in a free address adds one mapping.
LEMMA OneMore ==
  ASSUME TypeOK, Holder, NEW t \in Threads, NEW a \in Addrs, MapEnter(t, a)
  PROVE  LET p == ProcOf[t]
         IN  /\ MapsOf(p)' = MapsOf(p) \cup {a} /\ a \notin MapsOf(p)
             /\ Cardinality(MapsOf(p)') = Cardinality(MapsOf(p)) + 1
             /\ vm'[p][a] = held[t]
             /\ \A b \in MapsOf(p) : vm'[p][b] = vm[p][b]
<1> USE ConstantsAssumption DEF ConstantsAssumption
<1> DEFINE p == ProcOf[t]
<1>1. /\ vm[p][a] = NoObj /\ held[t] \in Objs /\ p \in Procs
      /\ vm' = [vm EXCEPT ![p][a] = held[t]]
  BY DEF MapEnter, Holder
<1>2. vm'[p][a] = held[t] /\ \A b \in Addrs \ {a} : vm'[p][b] = vm[p][b]
  BY <1>1 DEF TypeOK
<1>3. MapsOf(p)' = MapsOf(p) \cup {a} /\ a \notin MapsOf(p)
  BY <1>1, <1>2 DEF MapsOf
<1>4. Cardinality(MapsOf(p) \cup {a}) = Cardinality(MapsOf(p)) + 1
  BY <1>3, MapsFinite, FS_AddElement
<1>5. \A b \in MapsOf(p) : vm'[p][b] = vm[p][b]
  BY <1>1, <1>2 DEF MapsOf
<1>6. QED
  BY <1>2, <1>3, <1>4, <1>5

\* Its own step keeps a session's mappings in step with where it is.
LEMMA OwnMaps ==
  ASSUME RefInv, HeldPc, LibInv, NEW t \in Threads, Carries(t), Empty(t), Upto(t),
         SessionStep(t)
  PROVE  Empty(t)' /\ Upto(t)'
<1> USE ConstantsAssumption DEF ConstantsAssumption
<1> DEFINE p == ProcOf[t]
<1>0. AtLib(t) /\ TypeOK /\ lib \in [Threads -> Lib] /\ p \in Procs
  BY DEF LibInv, RefInv
<1>1. vm'[p] = vm[p] => MapsOf(p)' = MapsOf(p)
  BY DEF MapsOf
<1>2. \A a \in MapsOf(p) : vm[p][a] \in Objs /\ object[vm[p][a]] # 0 /\ held[t] # vm[p][a]
  BY <1>0 DEF MapsOf, RefInv, RefsLive
<1>3. held[t] # NoObj => InHand(t)
  BY DEF HeldPc
\* A step that leaves the map, the objects and what is in hand.
<1>4. ASSUME vm'[p] = vm[p], UNCHANGED <<object, held>>,
             (\/ lib'[t] \in {"out", "opened", "goodbye", "closing", "done"}
              \/ lib'[t] = "unmap" /\ token'[p] # p)
               => MapsOf(p) = {} /\ held[t] = NoObj,
             lib'[t] = "exited" /\ pc'[t] = "idle" => MapsOf(p) = {},
             lib'[t] \in {"map", "mapping"} =>
               /\ lib[t] \in {"map", "mapping"} \/ MapsOf(p) = {}
               /\ pc'[t] \in MmapPC \cup {"mmap_enter"} =>
                    reg'[t] = Cardinality(MapsOf(p)) + 1
               /\ pc'[t] \in {"mmap_recheck", "mmap_enter"} => object[held[t]] = reg'[t]
      PROVE  Empty(t)' /\ Upto(t)'
  <2>1. MapsOf(p)' = MapsOf(p)
    BY <1>1, <1>4
  <2>2. Empty(t)'
    BY <1>4, <2>1 DEF Empty
  <2>3. Upto(t)'
    BY <1>4, <2>1 DEF Upto
  <2>4. QED
    BY <2>2, <2>3
<1> USE <1>0 DEF To, Goto, Done
<1>5. CASE LibOpen(t) \/ LibAttach(t) \/ LibDestroy(t) \/ LibMap(t)
  <2>1. CASE LibOpen(t) \/ LibAttach(t) \/ LibDestroy(t)
    <3>1. UNCHANGED <<vm, object, held, pc>>
      BY <2>1 DEF LibOpen, LibAttach, LibDestroy, Open, Attach, vars, world, locals
    <3>2. \/ lib[t] \in {"out", "opened"} /\ pc[t] \notin MmapPC \cup {"mmap_enter"}
             /\ lib'[t] \in {"opened", "map", "unmap"}
          \/ lib[t] = "running" /\ lib'[t] = "unmap" /\ token' = token
      BY <2>1 DEF LibOpen, LibAttach, LibDestroy, AtLib, AtMmap, vars, world, people
    <3>3. lib[t] = "running" => token[p] = p
      BY DEF Carries, Attached
    <3>4. QED
      BY <1>4, <3>1, <3>2, <3>3 DEF Empty, MmapPC
  <2>2. CASE LibMap(t)
    <3>1. UNCHANGED <<vm, object, held, token>> /\ lib[t] = "map" /\ token[p] = p
      BY <2>2 DEF LibMap, MmapCheckToken, vars, world, people, locals, Carries, Attached
    <3>2. \/ lib'[t] \in {"running", "unmap"}
          \/ /\ lib'[t] = "mapping" /\ pc'[t] = "mmap_dying"
             /\ reg'[t] = Cardinality(MapsOf(p)) + 1
      BY <2>2 DEF LibMap, MmapCheckToken, TypeOK
    <3>3. QED
      BY <1>4, <3>1, <3>2
  <2>3. QED
    BY <1>5, <2>1, <2>2
<1>6. CASE LibUnmap(t)
  <2>1. ASSUME NEW a \in Addrs, Munmap(t, a), UNCHANGED lib PROVE Empty(t)' /\ Upto(t)'
    <3>1. lib[t] = "unmap" /\ a \in MapsOf(p) /\ token' = token
      BY <1>6, <2>1 DEF LibUnmap, Munmap, MapsOf, people
    <3>2. token[p] = p
      BY <3>1 DEF Empty
    <3>3. QED
      BY <2>1, <3>1, <3>2 DEF Empty, Upto
  <2>2. CASE pc[t] = "idle" /\ MapsOf(ProcOf[t]) = {} /\ To(t, "goodbye") /\ UNCHANGED vars
    BY <1>3, <1>4, <2>2 DEF vars, world, locals, InHand
  <2>3. QED
    BY <1>6, <2>1, <2>2 DEF LibUnmap
<1>7. CASE \/ LibGoodbye(t) \/ LibClose(t) \/ LibExit(t) \/ LibWait(t) \/ LibAgain(t)
  <2>1. UNCHANGED <<vm, object, held>>
    BY <1>7 DEF LibGoodbye, LibClose, LibExit, LibWait, LibAgain, Goodbye, Close, Exit, Leave,
       vars, world, locals
  <2>2. \/ lib[t] \in {"goodbye", "closing"} /\ lib'[t] \in {"closing", "done"}
        \/ lib'[t] = "exited" /\ pc'[t] # "idle"
        \/ lib'[t] = "running"
        \/ lib[t] = "exited" /\ pc[t] = "idle" /\ lib'[t] = "out"
    BY <1>7 DEF LibGoodbye, LibClose, LibExit, LibWait, LibAgain, Exit, Leave, TypeOK
  <2>3. QED
    BY <1>3, <1>4, <2>1, <2>2 DEF Empty, InHand
<1>9. CASE /\ \/ RevokeClear(t) \/ RevokeRead(t) \/ RevokeDelete(t) \/ RevokeZero(t)
              \/ RevokeDeleteFails(t) \/ ExitUnmap(t)
           /\ UNCHANGED lib
  <2>1. lib[t] \in Ending /\ ~InHand(t) /\ held[t] = NoObj
    BY <1>3, <1>9 DEF RevokeClear, RevokeRead, RevokeDelete, RevokeZero, RevokeDeleteFails,
       ExitUnmap, AtLib, RevokePC, InHand
  <2>2. Upto(t)'
    BY <1>9, <2>1 DEF Upto, Ending
  <2>3. CASE lib[t] # "exited"
    <3>1. MapsOf(p) = {}
      BY <2>1, <2>3 DEF Ending, Empty
    <3>2. \A a \in Addrs : vm[p][a] \notin Objs
      BY <3>1 DEF MapsOf
    <3>3. ~(\E a \in Addrs : Takes(t, a)) /\ ~(\E o \in Objs : MmapAlloc(t, o))
          /\ ~(\E a \in Addrs : MapEnter(t, a)) /\ ~capio_pager_dtor(t)
      BY <2>1, <3>2 DEF Takes, MmapAlloc, MapEnter, capio_pager_dtor, InHand, AtLib,
         AtMmap, MmapPC, Ending
    <3>4. Loses(t)
      <4>1. CapioCall(t)
        BY <1>9 DEF CapioCall
      <4>2. QED
        BY <3>3, <4>1, RefKinds DEF RefInv
    <3>5. held'[t] = NoObj
      BY <2>1, <3>4 DEF Loses, TypeOK
    <3>6. \A a \in Addrs : vm'[p][a] \notin Objs
      BY <3>2, <3>4 DEF Loses
    <3>7. MapsOf(p)' = {}
      BY <3>6 DEF MapsOf
    <3>8. QED
      BY <2>2, <3>5, <3>7 DEF Empty
  <2>4. CASE lib[t] = "exited"
    <3>1. exiting[t]
      BY <1>9, <2>4 DEF AtLib, RevokeClear, RevokeRead, RevokeDelete, RevokeZero,
         RevokeDeleteFails, ExitUnmap
    <3>2. CASE ~ExitUnmap(t)
      <4>1. pc'[t] # "idle"
        BY <1>9, <3>1, <3>2 DEF RevokeClear, RevokeRead, RevokeDelete, RevokeZero,
           RevokeDeleteFails, NextRegion, TypeOK
      <4>2. QED
        BY <1>9, <2>2, <2>4, <4>1 DEF Empty
    <3>3. CASE ExitUnmap(t)
      <4>1. pc'[t] # "idle" \/ vm' = [vm EXCEPT ![p] = [a \in Addrs |-> NoObj]]
        BY <3>3 DEF ExitUnmap, TypeOK
      <4>2. pc'[t] # "idle" \/ \A a \in Addrs : vm'[p][a] = NoObj
        BY <4>1 DEF TypeOK
      <4>3. pc'[t] # "idle" \/ MapsOf(p)' = {}
        BY <4>2 DEF MapsOf
      <4>4. QED
        BY <1>9, <2>2, <2>4, <4>3 DEF Empty
    <3>4. QED
      BY <3>2, <3>3
  <2>5. QED
    BY <2>3, <2>4
<1>10. ASSUME NEW o \in Objs, MmapAlloc(t, o), UNCHANGED lib
       PROVE  Empty(t)' /\ Upto(t)'
  <2>1. lib[t] = "mapping" /\ pc[t] = "mmap_alloc"
    BY <1>10 DEF MmapAlloc, AtLib, AtMmap, MmapPC
  <2>2. vm' = vm /\ object[o] = 0 /\ object' = [object EXCEPT ![o] = reg[t]]
        /\ held'[t] = o /\ reg' = reg
    BY <1>10 DEF MmapAlloc, TypeOK
  <2>3. MapsOf(p)' = MapsOf(p)
    BY <1>1, <2>2
  <2>4. \A a \in MapsOf(p) : object'[vm[p][a]] = object[vm[p][a]]
    BY <1>2, <2>2 DEF TypeOK
  <2>5. object'[held'[t]] = reg'[t]
    BY <2>2 DEF TypeOK
  <2>6. QED
    BY <1>10, <2>1, <2>2, <2>3, <2>4, <2>5 DEF Empty, Upto, MmapPC
<1>11. ASSUME NEW a \in Addrs, MapEnter(t, a), UNCHANGED lib
       PROVE  Empty(t)' /\ Upto(t)'
  <2>1. lib[t] = "mapping" /\ pc[t] = "mmap_enter" /\ pc'[t] = "mmap_vaddr" /\ object' = object
    BY <1>11 DEF MapEnter, AtLib, AtMmap, TypeOK
  <2>2. object[held[t]] = Cardinality(MapsOf(p)) + 1
    BY <2>1 DEF Upto
  <2>3. /\ MapsOf(p)' = MapsOf(p) \cup {a}
        /\ Cardinality(MapsOf(p)') = Cardinality(MapsOf(p)) + 1
        /\ vm'[p][a] = held[t]
        /\ \A b \in MapsOf(p) : vm'[p][b] = vm[p][b]
    BY <1>11, OneMore DEF RefInv
  <2>4. Cardinality(MapsOf(p)) \in Nat
    BY MapsFinite
  <2>5. \A b \in MapsOf(p) : /\ object[vm[p][b]] \in Int
                             /\ object[vm[p][b]] <= Cardinality(MapsOf(p))
    BY <1>2, <2>1 DEF Upto, TypeOK, Regions
  <2>6. \A b \in MapsOf(p)' : object'[vm'[p][b]] <= Cardinality(MapsOf(p)')
    BY <2>1, <2>2, <2>3, <2>4, <2>5
  <2>7. QED
    BY <1>11, <2>1, <2>6 DEF Empty, Upto, MmapPC
<1>12. CASE MapEnterFails(t) /\ UNCHANGED lib
  <2>1. lib[t] = "mapping" /\ pc'[t] = "dtor" /\ UNCHANGED <<vm, object, held>>
    BY <1>12 DEF MapEnterFails, AtLib, AtMmap, TypeOK, world
  <2>2. QED
    BY <1>4, <1>12, <2>1 DEF MmapPC
<1>13. CASE /\ MmapIsDying(t) \/ MmapLookup(t) \/ MmapAllocFails(t) \/ MmapRecheck(t)
            /\ IF lib[t] = "mapping" /\ pc'[t] = "idle"
                 THEN To(t, "unmap") ELSE UNCHANGED lib
  <2>1. lib[t] = "mapping" /\ pc[t] \in MmapPC /\ token' = token /\ token[p] = p
    BY <1>13 DEF MmapIsDying, MmapLookup, MmapAllocFails, MmapRecheck, AtLib, AtMmap, MmapPC,
       world, people, Carries, Attached
  <2>2. CASE pc'[t] = "idle"
    BY <1>13, <2>1, <2>2 DEF Empty, Upto
  <2>3. CASE pc'[t] # "idle"
    <3>1. UNCHANGED <<vm, object, held, reg, lib>>
      BY <1>13, <2>3 DEF MmapIsDying, MmapLookup, MmapAllocFails, MmapRecheck, TypeOK, world
    <3>2. pc'[t] \in {"mmap_recheck", "mmap_enter"} => pc[t] = "mmap_recheck"
      BY <1>13, <2>3 DEF MmapIsDying, MmapLookup, MmapAllocFails, MmapRecheck, TypeOK
    <3>3. QED
      BY <1>4, <2>1, <3>1, <3>2 DEF Upto
  <2>4. QED
    BY <2>2, <2>3
<1>14. CASE /\ capio_pager_dtor(t)
            /\ IF lib[t] = "mapping" /\ pc'[t] = "idle"
                 THEN To(t, "unmap") ELSE UNCHANGED lib
  <2>1. /\ pc[t] = "dtor" /\ held[t] \in Objs /\ pc'[t] = dret[t]
        /\ vm' = vm /\ object' = [object EXCEPT ![held[t]] = 0] /\ token' = token
    BY <1>14 DEF capio_pager_dtor, RefInv, Holder, TypeOK, people
  <2>2. /\ lib[t] \notin {"out", "opened", "goodbye", "closing", "done"}
        /\ lib[t] \in {"mapping", "unmap"} => token[p] = p
    BY <2>1 DEF Empty, Carries, Attached
  <2>3. lib[t] = "exited" => pc'[t] # "idle"
    BY <2>1 DEF AtLib
  <2>4. lib[t] \in {"map", "mapping"} => pc'[t] = "idle"
    BY <2>1 DEF AtLib, Ending
  <2>5. MapsOf(p)' = MapsOf(p)
    BY <1>1, <2>1
  <2>6. \A a \in MapsOf(p) : object'[vm[p][a]] = object[vm[p][a]]
    BY <1>2, <2>1 DEF TypeOK
  <2>7. QED
    BY <1>14, <2>1, <2>2, <2>3, <2>4, <2>5, <2>6 DEF Empty, Upto, MmapPC
<1>15. CASE capio_vaddr_callback(t) /\ To(t, "map")
  <2>1. lib[t] = "mapping" /\ pc'[t] = "idle" /\ UNCHANGED <<vm, object, held>>
    BY <1>15 DEF capio_vaddr_callback, AtLib, AtMmap, TypeOK, world
  <2>2. QED
    BY <1>4, <1>15, <2>1 DEF MmapPC
<1>16. QED
  BY <1>5, <1>6, <1>7, <1>9, <1>10, <1>11, <1>12, <1>13, <1>14, <1>15
     DEF SessionStep, KernelStep
\* A fork leaves what the sessions have mapped, and the child is none.
LEMMA ForkMaps ==
  ASSUME SingleThreaded, RefInv, lib \in [Threads -> Lib], MapsInv,
         NEW t \in Threads, NEW u \in Threads, LibFork(t, u)
  PROVE  MapsInv'
<1> USE ConstantsAssumption DEF ConstantsAssumption
<1>1. /\ UNCHANGED <<pc, reg, held, object>>
      /\ vm' = [vm EXCEPT ![ProcOf[u]] = vm[ProcOf[t]]]
      /\ token' = [token EXCEPT ![ProcOf[u]] = ProcOf[t]]
      /\ lib' = [lib EXCEPT ![t] = "waiting", ![u] = "child"]
  BY DEF LibFork, Fork, locals
<1> SUFFICES ASSUME NEW v \in Threads PROVE Empty(v)' /\ Upto(v)'
  BY DEF MapsInv
<1>2. CASE v \in {t, u}
  <2>1. lib'[v] \in {"waiting", "child"}
    BY <1>1, <1>2
  <2>2. QED
    BY <2>1 DEF Empty, Upto
<1>3. CASE v \notin {t, u}
  <2>1. lib'[v] = lib[v] /\ ProcOf[v] \in Procs /\ ProcOf[v] # ProcOf[u]
    BY <1>1, <1>3 DEF SingleThreaded
  <2>2. vm'[ProcOf[v]] = vm[ProcOf[v]] /\ token'[ProcOf[v]] = token[ProcOf[v]]
    BY <1>1, <2>1 DEF RefInv, TypeOK
  <2>3. MapsOf(ProcOf[v])' = MapsOf(ProcOf[v])
    BY <2>2 DEF MapsOf
  <2>4. QED
    BY <1>1, <2>1, <2>2, <2>3 DEF MapsInv, Empty, Upto
<1>4. QED
  BY <1>2, <1>3

\* It holds throughout.
LEMMA MapsInvariant ==
  ASSUME SingleThreaded
  PROVE  SessionSpec => []MapsInv
<1>1. SessionInit => HeldPc /\ MapsInv
  <2> SUFFICES ASSUME SessionInit PROVE HeldPc /\ MapsInv
    OBVIOUS
  <2>1. \A t \in Threads, a \in Addrs : vm[ProcOf[t]][a] \notin Objs
    BY ConstantsAssumption DEF ConstantsAssumption, SessionInit, Init
  <2>2. \A t \in Threads : MapsOf(ProcOf[t]) = {}
    BY <2>1 DEF MapsOf
  <2>3. QED
    BY <2>2 DEF SessionInit, Init, HeldPc, MapsInv, Empty, Upto
<1>2. RefInv /\ HeldPc /\ LibInv /\ Carried /\ MapsInv /\ [SessionNext]_sessionVars
        => HeldPc' /\ MapsInv'
  <2> SUFFICES ASSUME RefInv, HeldPc, LibInv, Carried, MapsInv, [SessionNext]_sessionVars
               PROVE  HeldPc' /\ MapsInv'
    OBVIOUS
  <2>1. HeldPc'
    BY HeldPcStep
  <2>2. CASE Unload \/ UNCHANGED sessionVars
    <3>1. UNCHANGED <<vm, object, token, pc, reg, held, lib>>
      BY <2>2 DEF Unload, Detach, DetachDying, DetachUnregister, DetachDestroyDev,
         capio_destroy, sessionVars, vars, locals, world, people
    <3>2. MapsInv'
      BY <3>1 DEF MapsInv, Empty, Upto, MapsOf
    <3>3. QED
      BY <2>1, <3>2
  <2>3. ASSUME NEW t \in Threads, SessionStep(t) PROVE MapsInv'
    <3>1. Empty(t)' /\ Upto(t)'
      BY <2>3, OwnMaps DEF MapsInv, Carried
    <3>2. \A u \in Threads \ {t} : Empty(u)' /\ Upto(u)'
      BY <2>3, OthersMaps DEF LibInv
    <3>3. QED
      BY <3>1, <3>2 DEF MapsInv
  <2>4. QED
    BY <2>1, <2>2, <2>3, ForkMaps DEF SessionNext, LibInv
<1>3. QED
  BY <1>1, <1>2, RefInvariant, LibInvariant, TokenInvariant, PTL DEF SessionSpec, TokenInv


\* Only a process with threads has mappings.
Peopled ==
  \A p \in Procs, a \in Addrs :
    vm[p][a] \in Objs => \E t \in Threads : ProcOf[t] = p

\* Every step keeps that.
LEMMA PeopledStep ==
  ASSUME RefInv, Peopled, [SessionNext]_sessionVars
  PROVE  Peopled'
<1> USE ConstantsAssumption DEF ConstantsAssumption
<1>1. CASE Detach \/ UNCHANGED vars
  BY <1>1 DEF Detach, DetachDying, DetachUnregister, DetachDestroyDev, capio_destroy, vars,
     world, Peopled
<1>2. ASSUME NEW t \in Threads, CapioCall(t) PROVE Peopled'
  BY <1>2, CallFrame DEF RefInv, Peopled
<1>3. ASSUME NEW t \in Threads, NEW u \in Threads, Fork(t, u) PROVE Peopled'
  <2>1. vm' = [vm EXCEPT ![ProcOf[u]] = vm[ProcOf[t]]]
    BY <1>3 DEF Fork
  <2>2. \A q \in Procs : q # ProcOf[u] => vm'[q] = vm[q]
    BY <2>1 DEF RefInv, TypeOK
  <2>3. QED
    BY <2>2 DEF Peopled
<1>4. QED
  BY <1>1, <1>2, <1>3, NextKinds

\* It holds throughout.
LEMMA PeopledInvariant == SessionSpec => []Peopled
<1>1. SessionInit => Peopled
  BY ConstantsAssumption DEF ConstantsAssumption, SessionInit, Init, Peopled
<1>2. RefInv /\ Peopled /\ [SessionNext]_sessionVars => Peopled'
  BY PeopledStep
<1>3. QED
  BY <1>1, <1>2, RefInvariant, PTL DEF SessionSpec

\* Nor do calls hold objects but where InHand says.
LEMMA HeldPcInvariant == SessionSpec => []HeldPc
<1>1. SessionInit => HeldPc
  BY DEF SessionInit, Init, HeldPc
<1>2. RefInv /\ HeldPc /\ [SessionNext]_sessionVars => HeldPc'
  BY HeldPcStep
<1>3. QED
  BY <1>1, <1>2, RefInvariant, PTL DEF SessionSpec

\* A session that holds the token finds a region "already mapped" only for an object
\* that an exiting process still has or that its revocation left behind, until a
\* close clears another session's token: for any number of single-threaded processes
\* and of regions, whatever forks, crashes and unloads, and whatever vm_map_remove
\* does with its references.
THEOREM ReattachTheorem ==
  ASSUME SingleThreaded
  PROVE  SessionSpec => []ReattachFindsRegionsFree
<1>1. RefInv /\ HeldPc /\ LibInv /\ TokenInv /\ MapsInv /\ Peopled
        => ReattachFindsRegionsFree
  <2> SUFFICES ASSUME RefInv, HeldPc, LibInv, TokenInv, MapsInv, Peopled, ~robbed,
                      NEW t \in Threads, pc[t] = "mmap_lookup", mapped[reg[t]]
               PROVE  \E o \in Objs :
                        /\ object[o] = reg[t]
                        /\ \/ Orphan(o)
                           \/ \E u \in Threads :
                                exiting[u] /\ (held[u] = o
                                               \/ \E a \in Addrs : vm[ProcOf[u]][a] = o)
    BY DEF ReattachFindsRegionsFree
  <2>1. reg[t] \in Regions /\ Owned /\ Waits /\ Carried
    BY DEF RefInv, TypeOK, TokenInv
  <2>2. PICK o \in Objs : object[o] = reg[t]
    BY <2>1 DEF RefInv, FlagsBacked
  <2> SUFFICES ASSUME ~Orphan(o)
               PROVE  \E u \in Threads :
                        exiting[u] /\ (held[u] = o
                                       \/ \E a \in Addrs : vm[ProcOf[u]][a] = o)
    BY <2>2
  <2>3. object[o] # 0
    BY <2>1, <2>2, RegionFacts
  <2>4. PICK u \in Threads : held[u] = o \/ \E a \in Addrs : vm[ProcOf[u]][a] = o
    BY <2>3 DEF Orphan, Peopled
  <2>5. held[u] # NoObj \/ MapsOf(ProcOf[u]) # {}
    BY <2>4, ConstantsAssumption DEF MapsOf, ConstantsAssumption
  <2>6. /\ lib[t] = "mapping" /\ original = ProcOf[t]
        /\ token[ProcOf[t]] = ProcOf[t]
    BY <2>1 DEF LibInv, AtLib, AtMmap, MmapPC, Carried, Carries, Owned, Attached
  <2>7. u # t
    <3> SUFFICES ASSUME u = t PROVE FALSE
      OBVIOUS
    <3>1. held[t] = NoObj
      BY DEF HeldPc, InHand
    <3>2. PICK a \in Addrs : vm[ProcOf[t]][a] = o
      BY <2>4, <3>1, ConstantsAssumption DEF ConstantsAssumption
    <3>3. reg[t] <= Cardinality(MapsOf(ProcOf[t]))
          /\ reg[t] = Cardinality(MapsOf(ProcOf[t])) + 1
      BY <2>2, <2>6, <3>2 DEF MapsInv, Upto, MapsOf, MmapPC
    <3>4. QED
      BY <3>3, MapsFinite
  <2>8. lib[u] \notin Attached
    BY <2>1, <2>6, <2>7 DEF Carried, Carries, Owned, SingleThreaded
  <2>9. lib[u] # "child"
    BY <2>1, <2>6 DEF Owned, Waits
  <2>10. lib[u] # "unmap"
    BY <2>1, <2>5, <2>6, <2>7 DEF MapsInv, Empty, Owned, Leaving, SingleThreaded
  <2>11. lib[u] = "exited"
    BY <2>5, <2>8, <2>9, <2>10 DEF MapsInv, Empty, Attached, LibInv, Lib
  <2>12. pc[u] # "idle"
    BY <2>5, <2>11 DEF MapsInv, Empty, HeldPc, InHand
  <2>13. QED
    BY <2>4, <2>11, <2>12 DEF LibInv, AtLib
<1>2. QED
  BY <1>1, RefInvariant, HeldPcInvariant, LibInvariant, TokenInvariant, MapsInvariant,
     PeopledInvariant, PTL

\* Regions are lost for good only to the revocation in a process's exit, or to an
\* unload under an mmap, for any number of single-threaded processes: neither the
\* GOODBYE nor the close of a session that ends with sfc7120_destroy leaves an
\* object behind, whether or not vm_map_remove drops references.
THEOREM LostRegionsTheorem ==
  ASSUME SingleThreaded
  PROVE  SessionSpec => OnlyCrashesLoseRegions
<1> DEFINE Step == \A o \in Objs : ~Orphan(o) /\ Orphan(o)'
                     => Dying \/ \E t \in Threads : pc[t] = "rev_delete" /\ exiting[t]
<1> USE ConstantsAssumption DEF ConstantsAssumption
<1>1. RefInv /\ HeldPc /\ LibInv /\ MapsInv /\ [SessionNext]_sessionVars => Step
  <2> SUFFICES ASSUME RefInv, HeldPc, LibInv, MapsInv, [SessionNext]_sessionVars,
                      NEW o \in Objs, ~Orphan(o), Orphan(o)'
               PROVE  Dying \/ \E t \in Threads : pc[t] = "rev_delete" /\ exiting[t]
    OBVIOUS
  <2>0. TypeOK /\ Holder /\ Located
    BY DEF RefInv
  <2> DEFINE Had(v, h) == \/ \E t \in Threads : h[t] = o
                          \/ \E p \in Procs, a \in Addrs : v[p][a] = o
  <2>1. object'[o] # 0 /\ ~Had(vm', held') /\ (object[o] = 0 \/ Had(vm, held))
    BY DEF Orphan
  <2>2. CASE Detach \/ UNCHANGED vars
    <3>1. UNCHANGED <<object, vm, held>>
      BY <2>2 DEF Detach, DetachDying, DetachUnregister, DetachDestroyDev, capio_destroy,
         vars, world, locals
    <3>2. QED
      BY <2>1, <3>1
  <2>3. ASSUME NEW t \in Threads, NEW u \in Threads, Fork(t, u) PROVE FALSE
    <3>1. /\ UNCHANGED <<object, held>> /\ vm' = [vm EXCEPT ![ProcOf[u]] = vm[ProcOf[t]]]
          /\ \A a \in Addrs : vm[ProcOf[u]][a] = NoObj
      BY <2>3 DEF Fork, locals
    <3>2. \A p \in Procs, a \in Addrs : vm[p][a] = o => vm'[p][a] = o
      BY <2>0, <3>1 DEF TypeOK
    <3>3. QED
      BY <2>1, <3>1, <3>2
  <2>4. ASSUME NEW t \in Threads, CapioCall(t)
        PROVE  Dying \/ (pc[t] = "rev_delete" /\ exiting[t])
    <3>1. ASSUME NEW x \in Objs, MmapAlloc(t, x) PROVE FALSE
      <4>1. /\ vm' = vm /\ held'[t] = x /\ \A u \in Threads \ {t} : held'[u] = held[u]
            /\ o # x => object'[o] = object[o]
        BY <2>0, <3>1 DEF MmapAlloc, TypeOK
      <4>2. held[t] = NoObj
        BY <3>1 DEF MmapAlloc, HeldPc, InHand
      <4>3. QED
        BY <2>1, <4>1, <4>2
    <3>2. ~capio_pager_dtor(t)
      <4> SUFFICES ASSUME capio_pager_dtor(t) PROVE FALSE
        OBVIOUS
      <4>1. /\ vm' = vm /\ held[t] \in Objs
            /\ \A u \in Threads \ {t} : held'[u] = held[u]
            /\ object' = [object EXCEPT ![held[t]] = 0]
        BY <2>0 DEF capio_pager_dtor, Holder, TypeOK
      <4>2. o # held[t] /\ object[o] # 0
        BY <2>0, <2>1, <4>1 DEF TypeOK
      <4>3. QED
        BY <2>1, <4>1, <4>2
    <3>3. ASSUME NEW a \in Addrs, MapEnter(t, a) PROVE FALSE
      <4>1. /\ object' = object /\ held[t] \in Objs /\ vm[ProcOf[t]][a] = NoObj
            /\ vm' = [vm EXCEPT ![ProcOf[t]][a] = held[t]]
            /\ \A u \in Threads \ {t} : held'[u] = held[u]
        BY <2>0, <3>3 DEF MapEnter, Holder, TypeOK
      <4>2. /\ vm'[ProcOf[t]][a] = held[t] /\ ProcOf[t] \in Procs
            /\ \A p \in Procs, b \in Addrs : vm[p][b] = o => vm'[p][b] = o
        BY <2>0, <4>1 DEF TypeOK
      <4>3. QED
        BY <2>1, <4>1, <4>2
    <3>4. ASSUME NEW a \in Addrs, Takes(t, a) PROVE FALSE
      <4>1. object' = object /\ held'[t] = vm[ProcOf[t]][a]
        BY <2>0, <3>4 DEF Takes, TypeOK
      <4>2. \A p \in Procs, b \in Addrs : p # ProcOf[t] \/ b # a => vm'[p][b] = vm[p][b]
        BY <2>0, <3>4 DEF Takes, TypeOK
      <4>3. held[t] = NoObj
        BY <3>4 DEF Takes, HeldPc
      <4>4. \A u \in Threads \ {t} : held'[u] = held[u]
        BY <2>0, <3>4 DEF Takes, TypeOK
      <4>5. QED
        BY <2>1, <4>1, <4>2, <4>3, <4>4
    <3>5. CASE Loses(t) /\ Keeps
      BY <2>1, <3>5 DEF Loses, Keeps
    <3>6. CASE Strands(t)
      <4>1. CASE pc[t] = "rev_delete" /\ vm[ProcOf[t]][addr[t]] \in Objs
        <5>1. addr[t] \in MapsOf(ProcOf[t])
          BY <2>0, <4>1 DEF Located, MapsOf
        <5>2. lib[t] = "exited"
          BY <4>1, <5>1 DEF LibInv, AtLib, RevokePC, Ending, MapsInv, Empty
        <5>3. QED
          BY <4>1, <5>2 DEF LibInv, AtLib
      <4>2. QED
        BY <3>6, <4>1 DEF Strands
    <3>7. QED
      BY <2>0, <2>4, <3>1, <3>2, <3>3, <3>4, <3>5, <3>6, RefKinds
  <2>5. QED
    BY <2>2, <2>3, <2>4, NextKinds
<1>2. QED
  BY <1>1, RefInvariant, HeldPcInvariant, LibInvariant, MapsInvariant, PTL
     DEF SessionSpec, OnlyCrashesLoseRegions
=============================================================================
