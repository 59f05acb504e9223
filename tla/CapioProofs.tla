----------------------------- MODULE CapioProofs -----------------------------
(***************************************************************************)
(* Proofs about Capio, for any number of threads, processes, regions,      *)
(* objects and addresses.                                                  *)
(***************************************************************************)
EXTENDS Capio, TLAPS

\* Every process makes its calls from one thread.
SingleThreaded == \A t, u \in Threads : ProcOf[t] = ProcOf[u] => t = u

\* What the regions' numbering provides: a first one, a next one, and 0 to
\* mark an object that is not live.
LEMMA RegionFacts ==
  /\ 1 \in Regions /\ 0 \notin Regions
  /\ \A r \in Regions : r < NumRegions => r + 1 \in Regions
BY ConstantsAssumption DEF ConstantsAssumption, Regions

\* Both exits of a region's revocation stay in type.
LEMMA NextRegionType ==
  ASSUME TypeOK, NEW t \in Threads, NextRegion(t)
  PROVE  reg' \in [Threads -> Regions] /\ pc' \in [Threads -> PC]
<1> USE RegionFacts DEF NextRegion, TypeOK, Goto
<1>1. {"rev_read", "exit_unmap", "idle"} \subseteq PC
  BY DEF PC, RevokePC
<1>2. CASE reg[t] < NumRegions
  <2>1. reg[t] + 1 \in Regions
    BY <1>2
  <2>2. QED
    BY <1>1, <1>2, <2>1
<1>3. CASE ~(reg[t] < NumRegions)
  BY <1>1, <1>3
<1>4. QED
  BY <1>2, <1>3

\* The steps of a thread and of detach keep every variable in its type.
LEMMA TypeStep == TypeOK /\ [Next]_vars => TypeOK'
<1> SUFFICES ASSUME TypeOK, [Next]_vars PROVE TypeOK'
  OBVIOUS
<1> USE ConstantsAssumption, RegionFacts DEF ConstantsAssumption
<1>1. CASE UNCHANGED vars
  BY <1>1 DEF TypeOK, vars, capState, world, people, locals
<1>2. CASE Detach
  BY <1>2 DEF TypeOK, Detach, DetachDying, DetachUnregister,
     DetachDestroyDev, capio_destroy, capState, people, locals
<1>3. ASSUME NEW t \in Threads, CapioCall(t) PROVE TypeOK'
  <2> USE DEF TypeOK, PC, RevokePC, MmapPC, Goto, Done, people
  <2>1. CASE Open(t)
    BY <2>1 DEF Open, capState, locals
  <2>2. CASE Attach(t)
    BY <2>2 DEF Attach, world, locals
  <2>3. CASE Goodbye(t)
    BY <2>3 DEF Goodbye, capState, world, locals
  <2>4. CASE Close(t)
    BY <2>4 DEF Close, Leave, capState
  <2>5. CASE Exit(t)
    BY <2>5 DEF Exit, Leave, capState
  <2>6. CASE RevokeClear(t)
    BY <2>6 DEF RevokeClear, world
  <2>7. CASE RevokeRead(t)
    <3>1. CASE offset[reg[t]] = NoAddr
      BY <2>7, <3>1, NextRegionType DEF RevokeRead, capState, world
    <3>2. CASE offset[reg[t]] # NoAddr
      BY <2>7, <3>2 DEF RevokeRead, capState, world
    <3>3. QED
      BY <3>1, <3>2
  <2>8. CASE RevokeDelete(t)
    BY <2>8 DEF RevokeDelete, capState
  <2>9. CASE RevokeDeleteFails(t)
    BY <2>9, NextRegionType DEF RevokeDeleteFails, capState, world
  <2>10. CASE RevokeZero(t)
    BY <2>10, NextRegionType DEF RevokeZero, world
  <2>11. CASE \E r \in Regions : MmapCheckToken(t, r)
    BY <2>11 DEF MmapCheckToken, capState, world
  <2>12. CASE MmapIsDying(t)
    BY <2>12 DEF MmapIsDying, capState, world
  <2>13. CASE MmapLookup(t)
    BY <2>13 DEF MmapLookup, capState, world
  <2>14. CASE \E o \in Objs : MmapAlloc(t, o)
    BY <2>14 DEF MmapAlloc
  <2>15. CASE MmapAllocFails(t)
    BY <2>15 DEF MmapAllocFails, capState, world
  <2>16. CASE MmapRecheck(t)
    BY <2>16 DEF MmapRecheck, capState, world
  <2>17. CASE \E a \in Addrs : MapEnter(t, a)
    BY <2>17 DEF MapEnter, capState
  <2>18. CASE MapEnterFails(t)
    BY <2>18 DEF MapEnterFails, capState, world
  <2>19. CASE capio_vaddr_callback(t)
    BY <2>19 DEF capio_vaddr_callback, world
  <2>20. CASE \E a \in Addrs : Munmap(t, a)
    <3>1. PICK a \in Addrs : Munmap(t, a)
      BY <2>20
    <3>2. PICK x \in {NoObj, Anon} : vm' = [vm EXCEPT ![ProcOf[t]][a] = x]
      BY <3>1 DEF Munmap
    <3>3. vm' \in [Procs -> [Addrs -> Objs \cup {NoObj, Anon}]]
      BY <3>2
    <3>4. held' \in [Threads -> Objs \cup {NoObj}] /\ pc' \in [Threads -> PC]
      <4>1. CASE LastRef(ProcOf[t], a)
        BY <3>1, <4>1 DEF Munmap
      <4>2. CASE ~LastRef(ProcOf[t], a)
        BY <3>1, <4>2 DEF Munmap
      <4>3. QED
        BY <4>1, <4>2
    <3>5. QED
      BY <3>1, <3>3, <3>4 DEF Munmap, capState
  <2>21. CASE capio_pager_dtor(t)
    BY <2>21 DEF capio_pager_dtor
  <2>22. CASE ExitUnmap(t)
    <3> DEFINE p == ProcOf[t]
               left == {a \in Addrs : vm[p][a] \in Objs}
               none == [a \in Addrs |-> NoObj]
    <3>1. CASE left = {} /\ vm' = [vm EXCEPT ![p] = none]
                         /\ token' = [token EXCEPT ![p] = NoProc]
                         /\ exiting' = [exiting EXCEPT ![t] = FALSE]
                         /\ Goto(t, "idle") /\ UNCHANGED <<held, dret>>
      <4>1. none \in [Addrs -> Objs \cup {NoObj, Anon}]
        OBVIOUS
      <4> HIDE DEF none
      <4>2. QED
        BY <2>22, <3>1, <4>1 DEF ExitUnmap, capState
    <3>2. CASE \E a \in left :
                 /\ vm' = [vm EXCEPT ![p][a] = NoObj]
                 /\ \/ /\ held' = [held EXCEPT ![t] = vm[p][a]]
                       /\ dret' = [dret EXCEPT ![t] = "exit_unmap"]
                       /\ Goto(t, "dtor")
                    \/ UNCHANGED <<held, dret, pc>>
                 /\ UNCHANGED <<exiting, token>>
      <4>1. PICK a \in Addrs :
              /\ vm[p][a] \in Objs
              /\ vm' = [vm EXCEPT ![p][a] = NoObj]
              /\ \/ /\ held' = [held EXCEPT ![t] = vm[p][a]]
                    /\ dret' = [dret EXCEPT ![t] = "exit_unmap"]
                    /\ Goto(t, "dtor")
                 \/ UNCHANGED <<held, dret, pc>>
        BY <3>2
      <4>2. vm' \in [Procs -> [Addrs -> Objs \cup {NoObj, Anon}]]
        BY <4>1
      <4>3. /\ held' \in [Threads -> Objs \cup {NoObj}] /\ pc' \in [Threads -> PC]
            /\ dret' \in [Threads -> {"idle", "rev_zero", "exit_unmap"}]
        BY <4>1
      <4>4. QED
        BY <2>22, <3>2, <4>2, <4>3 DEF ExitUnmap, capState
    <3>3. QED
      BY <2>22, <3>1, <3>2 DEF ExitUnmap
  <2>23. QED
    BY <1>3, <2>1, <2>2, <2>3, <2>4, <2>5, <2>6, <2>7, <2>8, <2>9, <2>10,
       <2>11, <2>12, <2>13, <2>14, <2>15, <2>16, <2>17, <2>18, <2>19, <2>20,
       <2>21, <2>22 DEF CapioCall
<1>4. ASSUME NEW t \in Threads, NEW u \in Threads, Fork(t, u) PROVE TypeOK'
  BY <1>4 DEF Fork, TypeOK, capState, locals
<1>5. QED
  BY <1>1, <1>2, <1>3, <1>4 DEF Next

\* Init is in type.
LEMMA InitType == Init => TypeOK
<1> SUFFICES ASSUME Init PROVE TypeOK
  OBVIOUS
<1>1. vm \in [Procs -> [Addrs -> Objs \cup {NoObj, Anon}]]
  BY DEF Init
<1>2. QED
  BY <1>1, RegionFacts DEF Init, TypeOK, PC

\* Type correctness of the CAPIO framework, for every instance.
THEOREM TypeCorrect == Spec => []TypeOK
BY InitType, TypeStep, PTL DEF Spec

-----------------------------------------------------------------------------
(* The flags, for any threads.                                             *)

\* Only capio_pager_ctor and capio_pager_dtor touch the flags and the objects.
LEMMA FlagsFrame ==
  ASSUME NEW t \in Threads, CapioCall(t)
  PROVE  \/ \E o \in Objs : MmapAlloc(t, o)
         \/ capio_pager_dtor(t)
         \/ UNCHANGED <<mapped, scMapped, object>>
<1>1. CASE \/ Open(t) \/ Attach(t) \/ Goodbye(t) \/ Close(t) \/ Exit(t)
  BY <1>1 DEF Open, Attach, Goodbye, Close, Exit, Leave, capState, world
<1>2. CASE RevokeClear(t) \/ RevokeRead(t) \/ RevokeDelete(t)
           \/ RevokeDeleteFails(t) \/ RevokeZero(t)
  BY <1>2 DEF RevokeClear, RevokeRead, RevokeDelete, RevokeDeleteFails,
     RevokeZero, capState, world
<1>3. CASE \/ \E r \in Regions : MmapCheckToken(t, r)
           \/ MmapIsDying(t) \/ MmapLookup(t) \/ MmapAllocFails(t)
           \/ MmapRecheck(t)
  BY <1>3 DEF MmapCheckToken, MmapIsDying, MmapLookup, MmapAllocFails,
     MmapRecheck, capState, world
<1>4. CASE \/ \E a \in Addrs : MapEnter(t, a) \/ Munmap(t, a)
           \/ MapEnterFails(t) \/ capio_vaddr_callback(t) \/ ExitUnmap(t)
  BY <1>4 DEF MapEnter, Munmap, MapEnterFails, capio_vaddr_callback,
     ExitUnmap, capState, world
<1>5. QED
  BY <1>1, <1>2, <1>3, <1>4 DEF CapioCall

\* Constructor and destructor keep every set flag backed.
LEMMA FlagsStep == TypeOK /\ FlagsBacked /\ [Next]_vars => FlagsBacked'
<1> SUFFICES ASSUME TypeOK, FlagsBacked, [Next]_vars PROVE FlagsBacked'
  OBVIOUS
<1>1. CASE UNCHANGED <<mapped, scMapped, object>>
  BY <1>1 DEF FlagsBacked
<1>2. ASSUME NEW t \in Threads, NEW o \in Objs, MmapAlloc(t, o)
      PROVE  FlagsBacked'
  <2>1. reg[t] \in Regions /\ object'[o] = reg[t] /\ mapped'[reg[t]]
    BY <1>2 DEF MmapAlloc, TypeOK
  <2>2. ASSUME NEW r \in Regions, mapped'[r]
        PROVE  \E x \in Objs : object'[x] = r
    <3>1. CASE r = reg[t]
      BY <2>1, <3>1
    <3>2. CASE r # reg[t]
      <4>1. PICK x \in Objs : object[x] = r
        BY <1>2, <2>2, <3>2 DEF MmapAlloc, TypeOK, FlagsBacked
      <4>2. x # o
        BY <1>2, <4>1, RegionFacts DEF MmapAlloc
      <4>3. QED
        BY <1>2, <4>1, <4>2 DEF MmapAlloc, TypeOK
    <3>3. QED
      BY <3>1, <3>2
  <2>3. QED
    BY <1>2, <2>1, <2>2 DEF FlagsBacked, MmapAlloc
<1>3. ASSUME NEW t \in Threads, capio_pager_dtor(t) PROVE FlagsBacked'
  <2>1. ASSUME NEW r \in Regions, mapped'[r]
        PROVE  \E x \in Objs : object'[x] = r
    <3>1. mapped[r] /\ r # object[held[t]]
      BY <1>3, <2>1 DEF capio_pager_dtor, TypeOK
    <3>2. PICK x \in Objs : object[x] = r
      BY <3>1 DEF FlagsBacked
    <3>3. QED
      BY <1>3, <3>1, <3>2 DEF capio_pager_dtor, TypeOK
  <2>2. (\E r \in Regions : mapped'[r]) => \E r \in Regions : mapped[r]
    BY <1>3 DEF capio_pager_dtor, TypeOK
  <2>3. QED
    BY <1>3, <2>1, <2>2 DEF FlagsBacked, capio_pager_dtor
<1>4. CASE \/ Detach \/ UNCHANGED vars
           \/ \E t, u \in Threads : Fork(t, u)
  BY <1>1, <1>4 DEF Detach, DetachDying, DetachUnregister,
     DetachDestroyDev, capio_destroy, Fork, vars, capState, world
<1>5. QED
  BY <1>1, <1>2, <1>3, <1>4, FlagsFrame DEF Next

\* Whatever the threads do, a set flag has an object whose dtor will clear it.
THEOREM FlagsAlwaysBacked == Spec => []FlagsBacked
<1>1. Init => FlagsBacked
  BY DEF Init, FlagsBacked
<1>2. QED
  BY <1>1, FlagsStep, TypeCorrect, PTL DEF Spec

-----------------------------------------------------------------------------
(* Exclusion, when every process has one thread, until a close clears the  *)
(* token of another session.  ExclusiveRegion alone is not inductive:      *)
(* MmapAlloc relies on a test made two steps before, which holds on only   *)
(* because nobody else can be inside an mmap, which in turn is what the    *)
(* token is for, although it was checked without the lock.                 *)

\* Who is inside an mmap has the token, a sealed copy of it and the device open.
Owner ==
  \A t \in Threads :
    pc[t] \in MmapPC => /\ original = ProcOf[t] /\ ProcOf[t] \in opens
                        /\ token[ProcOf[t]] = ProcOf[t]

\* Who is between the constructor and the map, or in the destructor, has an
\* object.
Holder ==
  \A t \in Threads :
    pc[t] \in {"dtor", "mmap_recheck", "mmap_enter"} => held[t] \in Objs

\* The region an mmap is about to allocate is still free.
Chosen == \A t \in Threads : pc[t] = "mmap_alloc" => ~mapped[reg[t]]

\* A live object's region is flagged.
Live == \A o \in Objs : object[o] # 0 => mapped[object[o]]

\* No two live objects have one region.
Exclusive ==
  \A o1, o2 \in Objs : object[o1] = object[o2] /\ object[o1] # 0 => o1 = o2

ExclusionInv ==
  TypeOK /\ Holder /\ (robbed \/ (Owner /\ Chosen /\ Live /\ Exclusive))

\* What has happened has happened.
LEMMA RobbedStays ==
  ASSUME TypeOK, [Next]_vars, robbed
  PROVE  robbed'
<1>1. CASE \/ Detach \/ UNCHANGED vars
           \/ \E t, u \in Threads : Fork(t, u)
  BY <1>1 DEF Detach, DetachDying, DetachUnregister, DetachDestroyDev, capio_destroy, Fork,
     vars, world, people
<1>2. ASSUME NEW t \in Threads, CapioCall(t) PROVE robbed'
  <2>1. CASE \/ Open(t) \/ Attach(t) \/ Goodbye(t) \/ Close(t) \/ Exit(t)
    BY <2>1 DEF Open, Attach, Goodbye, Close, Exit, Leave, world, people
  <2>2. CASE RevokeClear(t) \/ RevokeRead(t) \/ RevokeDelete(t)
             \/ RevokeDeleteFails(t) \/ RevokeZero(t)
    BY <2>2 DEF RevokeClear, RevokeRead, RevokeDelete, RevokeDeleteFails, RevokeZero,
       world, people
  <2>3. CASE \/ \E r \in Regions : MmapCheckToken(t, r)
             \/ MmapIsDying(t) \/ MmapLookup(t) \/ MmapAllocFails(t)
             \/ MmapRecheck(t) \/ \E o \in Objs : MmapAlloc(t, o)
    BY <2>3 DEF MmapCheckToken, MmapIsDying, MmapLookup, MmapAllocFails, MmapRecheck,
       MmapAlloc, world, people
  <2>4. CASE \/ \E a \in Addrs : MapEnter(t, a) \/ Munmap(t, a)
             \/ MapEnterFails(t) \/ capio_vaddr_callback(t)
             \/ capio_pager_dtor(t) \/ ExitUnmap(t)
    BY <2>4 DEF MapEnter, Munmap, MapEnterFails, capio_vaddr_callback, capio_pager_dtor,
       ExitUnmap, world, people
  <2>5. QED
    BY <1>2, <2>1, <2>2, <2>3, <2>4 DEF CapioCall
<1>3. QED
  BY <1>1, <1>2 DEF Next

\* A step that only moves a thread, to a place Owner does not speak of.
LEMMA OwnerFrame ==
  ASSUME TypeOK, Owner, NEW t \in Threads, NEW x,
         pc' = [pc EXCEPT ![t] = x],
         x \in MmapPC => pc[t] \in MmapPC,
         UNCHANGED <<original, opens, token>>
  PROVE  Owner'
<1> SUFFICES ASSUME NEW u \in Threads, pc'[u] \in MmapPC
             PROVE  /\ original = ProcOf[u] /\ ProcOf[u] \in opens
                    /\ token[ProcOf[u]] = ProcOf[u]
  BY DEF Owner
<1>1. CASE u # t
  BY <1>1 DEF Owner, TypeOK
<1>2. CASE u = t
  <2>1. pc'[u] = x
    BY <1>2 DEF TypeOK
  <2>2. QED
    BY <1>2, <2>1 DEF Owner
<1>3. QED
  BY <1>1, <1>2

\* The token: every step keeps Owner but one that robs a session.
LEMMA OwnerStep ==
  ASSUME SingleThreaded, TypeOK, Owner, [Next]_vars, ~robbed'
  PROVE  Owner'
<1> USE ConstantsAssumption DEF ConstantsAssumption
<1>1. CASE Detach \/ UNCHANGED vars
  BY <1>1 DEF Owner, Detach, DetachDying, DetachUnregister,
     DetachDestroyDev, capio_destroy, vars, capState, world, people, locals
<1>2. ASSUME NEW t \in Threads, CapioCall(t) PROVE Owner'
  <2>1. CASE Open(t)
    BY <2>1 DEF Open, Owner, capState, people
  <2>2. CASE Attach(t)
    BY <2>2 DEF Attach, Owner, CanCall
  <2>3. CASE Goodbye(t)
    BY <2>3, OwnerFrame DEF Goodbye, Goto, MmapPC, capState, world, people
  <2>4. ASSUME NEW exit \in BOOLEAN, Leave(t, exit) PROVE Owner'
    <3> SUFFICES ASSUME NEW u \in Threads, pc'[u] \in MmapPC
                 PROVE  /\ original' = ProcOf[u] /\ ProcOf[u] \in opens'
                        /\ token'[ProcOf[u]] = ProcOf[u]
      BY DEF Owner
    <3>1. u # t
      BY <2>4 DEF Leave, Goto, TypeOK, MmapPC
    <3>2. pc'[u] = pc[u] /\ original' = original /\ token' = token
          /\ opens' = opens \ {ProcOf[t]}
      BY <2>4, <3>1 DEF Leave, Goto, TypeOK, capState, people
    <3>3. ProcOf[u] # ProcOf[t]
      BY <3>1 DEF SingleThreaded
    <3>4. QED
      BY <3>2, <3>3 DEF Owner
  <2>5. CASE RevokeClear(t)
    <3>1. \A u \in Threads : pc[u] \notin MmapPC
      <4> SUFFICES ASSUME NEW u \in Threads, pc[u] \in MmapPC PROVE FALSE
        OBVIOUS
      <4>1. u # t
        BY <2>5 DEF RevokeClear, MmapPC
      <4>2. ProcOf[u] \in opens \ {ProcOf[t]}
        BY <4>1 DEF Owner, SingleThreaded
      <4>3. original = ProcOf[u] /\ token[ProcOf[u]] = ProcOf[u]
        BY DEF Owner
      <4>4. QED
        BY <2>5, <4>2, <4>3 DEF RevokeClear
    <3>2. \A u \in Threads : pc'[u] \notin MmapPC
      BY <2>5, <3>1 DEF RevokeClear, Goto, TypeOK, MmapPC
    <3>3. QED
      BY <3>2 DEF Owner
  <2>6. CASE \E r \in Regions : MmapCheckToken(t, r)
    <3>1. /\ original = ProcOf[t] /\ ProcOf[t] \in opens
          /\ token[ProcOf[t]] = ProcOf[t]
      BY <2>6 DEF MmapCheckToken, check_cap_token, CanCall, IsChild
    <3>2. /\ pc' = [pc EXCEPT ![t] = "mmap_dying"]
          /\ UNCHANGED <<original, opens, token>>
      BY <2>6 DEF MmapCheckToken, Goto, capState, world, people
    <3>3. QED
      BY <3>1, <3>2 DEF Owner, TypeOK
  <2>7. CASE MmapIsDying(t) \/ MmapLookup(t) \/ MmapAllocFails(t)
             \/ MmapRecheck(t) \/ \E o \in Objs : MmapAlloc(t, o)
    BY <2>7, OwnerFrame DEF MmapIsDying, MmapLookup, MmapAllocFails,
       MmapRecheck, MmapAlloc, MmapPC, Goto, Done, capState, world, people
  <2>8. CASE RevokeRead(t) \/ RevokeDeleteFails(t) \/ RevokeZero(t)
             \/ RevokeDelete(t)
    BY <2>8, OwnerFrame DEF RevokeRead, RevokeDeleteFails, RevokeZero,
       RevokeDelete, NextRegion, MmapPC, Goto, capState, world, people
  <2>9. CASE \/ \E a \in Addrs : MapEnter(t, a)
             \/ MapEnterFails(t) \/ capio_vaddr_callback(t)
    BY <2>9, OwnerFrame DEF MapEnter, MapEnterFails,
       capio_vaddr_callback, MmapPC, Goto, Done, capState, world, people
  <2>10. CASE \E a \in Addrs : Munmap(t, a)
    <3>1. /\ pc' = pc \/ pc' = [pc EXCEPT ![t] = "dtor"]
          /\ UNCHANGED <<original, opens, token>>
      BY <2>10 DEF Munmap, Goto, capState, people
    <3>2. QED
      BY <3>1, OwnerFrame DEF Owner, MmapPC
  <2>11. CASE ExitUnmap(t)
    <3>1. pc[t] \notin MmapPC /\ pc'[t] \notin MmapPC
      BY <2>11 DEF ExitUnmap, Goto, TypeOK, MmapPC
    <3>2. /\ \A u \in Threads \ {t} : pc'[u] = pc[u]
          /\ original' = original /\ opens' = opens
          /\ token' = token \/ token' = [token EXCEPT ![ProcOf[t]] = NoProc]
      BY <2>11 DEF ExitUnmap, Goto, TypeOK, capState
    <3>3. \A u \in Threads \ {t} : ProcOf[u] # ProcOf[t]
      BY DEF SingleThreaded
    <3>4. QED
      BY <3>1, <3>2, <3>3 DEF Owner, TypeOK
  <2>12. CASE capio_pager_dtor(t)
    <3>1. dret[t] \notin MmapPC
      BY DEF TypeOK, MmapPC
    <3>2. QED
      BY <2>12, <3>1, OwnerFrame DEF capio_pager_dtor, Goto, people
  <2>13. QED
    BY <1>2, <2>1, <2>2, <2>3, <2>4, <2>5, <2>6, <2>7, <2>8, <2>9, <2>10, <2>11,
       <2>12 DEF CapioCall, Close, Exit
<1>3. ASSUME NEW t \in Threads, NEW u \in Threads, Fork(t, u) PROVE Owner'
  <2>1. \A v \in Threads : pc[v] \in MmapPC => ProcOf[v] # ProcOf[u]
    BY <1>3 DEF Fork, Quiet, MmapPC
  <2>2. /\ pc' = pc /\ original' = original /\ opens \subseteq opens'
        /\ \A q \in Procs \ {ProcOf[u]} : token'[q] = token[q]
    BY <1>3 DEF Fork, capState, TypeOK
  <2>3. QED
    BY <2>1, <2>2 DEF Owner
<1>4. QED
  BY <1>1, <1>2, <1>3 DEF Next

\* Objects in hand: every step keeps Holder.
LEMMA HolderStep ==
  ASSUME TypeOK, Holder, [Next]_vars
  PROVE  Holder'
<1> USE ConstantsAssumption DEF ConstantsAssumption
<1>1. CASE \/ Detach \/ UNCHANGED vars
           \/ \E t, u \in Threads : Fork(t, u)
  BY <1>1 DEF Holder, Detach, DetachDying, DetachUnregister,
     DetachDestroyDev, capio_destroy, Fork, vars, locals
<1>2. ASSUME NEW t \in Threads, CapioCall(t) PROVE Holder'
  <2> USE DEF Holder, TypeOK, Goto, Done
  <2>1. CASE \/ Open(t) \/ Attach(t) \/ Goodbye(t) \/ Close(t) \/ Exit(t)
    BY <2>1 DEF Open, Attach, Goodbye, Close, Exit, Leave, locals
  <2>2. CASE RevokeClear(t) \/ RevokeRead(t) \/ RevokeDeleteFails(t)
             \/ RevokeZero(t)
    BY <2>2 DEF RevokeClear, RevokeRead, RevokeDeleteFails, RevokeZero,
       NextRegion
  <2>3. CASE RevokeDelete(t)
    BY <2>3 DEF RevokeDelete
  <2>4. CASE \/ \E r \in Regions : MmapCheckToken(t, r)
             \/ MmapIsDying(t) \/ MmapLookup(t) \/ MmapAllocFails(t)
             \/ MapEnterFails(t) \/ capio_vaddr_callback(t)
    BY <2>4 DEF MmapCheckToken, MmapIsDying, MmapLookup, MmapAllocFails,
       MapEnterFails, capio_vaddr_callback
  <2>5. CASE MmapRecheck(t) \/ \E o \in Objs : MmapAlloc(t, o)
    BY <2>5 DEF MmapRecheck, MmapAlloc
  <2>6. CASE \E a \in Addrs : MapEnter(t, a) \/ Munmap(t, a)
    <3>1. ASSUME NEW a \in Addrs, MapEnter(t, a) PROVE Holder'
      BY <3>1 DEF MapEnter
    <3>2. ASSUME NEW a \in Addrs, Munmap(t, a) PROVE Holder'
      <4> DEFINE o == vm[ProcOf[t]][a]
      <4>1. /\ o \in Objs
            /\ \/ held' = [held EXCEPT ![t] = o] /\ pc' = [pc EXCEPT ![t] = "dtor"]
               \/ UNCHANGED <<held, pc>>
        BY <3>2 DEF Munmap
      <4> HIDE DEF o
      <4>2. QED
        BY <4>1
    <3>3. QED
      BY <2>6, <3>1, <3>2
  <2>7. CASE ExitUnmap(t)
    BY <2>7 DEF ExitUnmap
  <2>8. CASE capio_pager_dtor(t)
    BY <2>8 DEF capio_pager_dtor
  <2>9. QED
    BY <1>2, <2>1, <2>2, <2>3, <2>4, <2>5, <2>6, <2>7, <2>8 DEF CapioCall
<1>3. QED
  BY <1>1, <1>2 DEF Next

\* The test of the flag stays true until the constructor sets it.
LEMMA ChosenStep ==
  ASSUME SingleThreaded, TypeOK, Owner, Chosen, [Next]_vars
  PROVE  Chosen'
<1>1. CASE \/ Detach \/ UNCHANGED vars
           \/ \E t, u \in Threads : Fork(t, u)
  BY <1>1 DEF Chosen, Detach, DetachDying, DetachUnregister,
     DetachDestroyDev, capio_destroy, Fork, vars, capState, locals
<1>2. ASSUME NEW t \in Threads, CapioCall(t) PROVE Chosen'
  <2> USE DEF Chosen, TypeOK, Goto, Done
  <2>1. CASE \/ Open(t) \/ Attach(t) \/ Goodbye(t) \/ Close(t) \/ Exit(t)
    BY <2>1 DEF Open, Attach, Goodbye, Close, Exit, Leave, capState, locals
  <2>2. CASE RevokeClear(t) \/ RevokeRead(t) \/ RevokeDeleteFails(t)
             \/ RevokeZero(t) \/ RevokeDelete(t)
    BY <2>2 DEF RevokeClear, RevokeRead, RevokeDeleteFails, RevokeZero,
       RevokeDelete, NextRegion, capState
  <2>3. CASE \/ \E r \in Regions : MmapCheckToken(t, r)
             \/ MmapIsDying(t) \/ MmapLookup(t) \/ MmapAllocFails(t)
             \/ MmapRecheck(t)
    BY <2>3 DEF MmapCheckToken, MmapIsDying, MmapLookup, MmapAllocFails,
       MmapRecheck, capState
  <2>4. CASE \/ \E a \in Addrs : MapEnter(t, a) \/ Munmap(t, a)
             \/ MapEnterFails(t) \/ capio_vaddr_callback(t) \/ ExitUnmap(t)
    <3>1. ASSUME NEW a \in Addrs, MapEnter(t, a) PROVE Chosen'
      BY <3>1 DEF MapEnter, capState
    <3>2. ASSUME NEW a \in Addrs, Munmap(t, a) PROVE Chosen'
      BY <3>2 DEF Munmap, capState
    <3>3. CASE MapEnterFails(t)
      BY <3>3 DEF MapEnterFails, capState
    <3>4. CASE capio_vaddr_callback(t)
      BY <3>4 DEF capio_vaddr_callback
    <3>5. CASE ExitUnmap(t)
      BY <3>5 DEF ExitUnmap, capState
    <3>6. QED
      BY <2>4, <3>1, <3>2, <3>3, <3>4, <3>5
  <2>5. CASE \E o \in Objs : MmapAlloc(t, o)
    <3>1. \A u \in Threads \ {t} : pc[u] # "mmap_alloc"
      BY <2>5 DEF MmapAlloc, Owner, MmapPC, SingleThreaded
    <3>2. QED
      BY <2>5, <3>1 DEF MmapAlloc
  <2>6. CASE capio_pager_dtor(t)
    BY <2>6 DEF capio_pager_dtor
  <2>7. QED
    BY <1>2, <2>1, <2>2, <2>3, <2>4, <2>5, <2>6 DEF CapioCall
<1>3. QED
  BY <1>1, <1>2 DEF Next

\* Constructor and destructor keep flags and objects in step, one to one.
LEMMA LiveStep ==
  ASSUME TypeOK, Holder, Chosen, Live, Exclusive, [Next]_vars
  PROVE  Live' /\ Exclusive'
<1>1. CASE UNCHANGED <<mapped, object>>
  BY <1>1 DEF Live, Exclusive
<1>2. ASSUME NEW t \in Threads, NEW o \in Objs, MmapAlloc(t, o)
      PROVE  Live' /\ Exclusive'
  <2>1. \A x \in Objs : object[x] # reg[t]
    BY <1>2, RegionFacts DEF MmapAlloc, Chosen, Live, TypeOK
  <2>2. \A x \in Objs : object'[x] = IF x = o THEN reg[t] ELSE object[x]
    BY <1>2 DEF MmapAlloc, TypeOK
  <2>3. \A r \in Regions : mapped'[r] = (r = reg[t] \/ mapped[r])
    BY <1>2 DEF MmapAlloc, TypeOK
  <2>4. reg[t] \in Regions
    BY DEF TypeOK
  <2>5. Live'
    <3> SUFFICES ASSUME NEW x \in Objs, object'[x] # 0
                 PROVE  mapped'[object'[x]]
      BY DEF Live
    <3>1. CASE x = o
      BY <2>2, <2>3, <2>4, <3>1
    <3>2. CASE x # o
      <4>1. object'[x] = object[x] /\ object[x] \in Regions
        BY <2>2, <3>2 DEF TypeOK
      <4>2. QED
        BY <2>3, <4>1 DEF Live
    <3>3. QED
      BY <3>1, <3>2
  <2>6. Exclusive'
    BY <2>1, <2>2 DEF Exclusive
  <2>7. QED
    BY <2>5, <2>6
<1>3. ASSUME NEW t \in Threads, capio_pager_dtor(t)
      PROVE  Live' /\ Exclusive'
  <2>1. held[t] \in Objs
    BY <1>3 DEF capio_pager_dtor, Holder
  <2>2. \A x \in Objs : object'[x] = IF x = held[t] THEN 0 ELSE object[x]
    BY <1>3 DEF capio_pager_dtor, TypeOK
  <2>3. \A r \in Regions : mapped'[r] = (r # object[held[t]] /\ mapped[r])
    BY <1>3 DEF capio_pager_dtor, TypeOK
  <2>4. QED
    BY <2>1, <2>2, <2>3 DEF Live, Exclusive, TypeOK
<1>4. CASE \/ Detach \/ UNCHANGED vars
           \/ \E t, u \in Threads : Fork(t, u)
  BY <1>1, <1>4 DEF Detach, DetachDying, DetachUnregister,
     DetachDestroyDev, capio_destroy, Fork, vars, capState, world
<1>5. QED
  BY <1>1, <1>2, <1>3, <1>4, FlagsFrame DEF Next

\* The strengthened invariant holds of every behaviour.
LEMMA ExclusionInvariant ==
  ASSUME SingleThreaded
  PROVE  Spec => []ExclusionInv
<1>1. Init => ExclusionInv
  <2> SUFFICES ASSUME Init PROVE ExclusionInv
    OBVIOUS
  <2>1. TypeOK
    BY InitType
  <2>2. Owner /\ Holder /\ Chosen
    BY DEF Init, Owner, Holder, Chosen, MmapPC
  <2>3. Live /\ Exclusive
    BY DEF Init, Live, Exclusive
  <2>4. QED
    BY <2>1, <2>2, <2>3 DEF ExclusionInv
<1>2. ExclusionInv /\ [Next]_vars => ExclusionInv'
  BY TypeStep, RobbedStays, OwnerStep, HolderStep, ChosenStep, LiveStep DEF ExclusionInv
<1>3. QED
  BY <1>1, <1>2, PTL DEF Spec

\* No region ever has two live VM objects, for any number of single-threaded
\* processes: the unlocked token check, the flag test and the flag update of
\* capio_mmap_single_extra are enough although they are not one step, as long
\* as no close has cleared the token of another session.
THEOREM ExclusionTheorem ==
  ASSUME SingleThreaded
  PROVE  Spec => []ExclusiveRegion
<1>1. ExclusionInv => ExclusiveRegion
  BY DEF ExclusionInv, Exclusive, ExclusiveRegion
<1>2. QED
  BY <1>1, ExclusionInvariant, PTL

\* An mmap past its check holds the token to the end: no GOODBYE of another
\* process can clear it in between, and a close that does has robbed a session.
THEOREM TokenTheorem ==
  ASSUME SingleThreaded
  PROVE  Spec => []MmapHoldsToken
<1>1. ExclusionInv => MmapHoldsToken
  BY DEF ExclusionInv, Owner, MmapHoldsToken
<1>2. QED
  BY <1>1, ExclusionInvariant, PTL

\* A region is flagged exactly while one of its objects lives.
THEOREM MappedFlagTheorem ==
  ASSUME SingleThreaded
  PROVE  Spec => []MappedFlagExact
<1>1. ExclusionInv /\ FlagsBacked => MappedFlagExact
  BY RegionFacts DEF ExclusionInv, Live, FlagsBacked, MappedFlagExact
<1>2. QED
  BY <1>1, ExclusionInvariant, FlagsAlwaysBacked, PTL

-----------------------------------------------------------------------------
(* References to objects, for any threads.                                 *)

\* An address that revoke_cap_token is about to unmap is one.
Located == \A t \in Threads : pc[t] = "rev_delete" => addr[t] \in Addrs

\* Every step keeps that.
LEMMA LocatedStep ==
  ASSUME TypeOK, Located, [Next]_vars
  PROVE  Located'
<1>1. CASE \/ Detach \/ UNCHANGED vars
           \/ \E t, u \in Threads : Fork(t, u)
  BY <1>1 DEF Located, Detach, DetachDying, DetachUnregister,
     DetachDestroyDev, capio_destroy, Fork, vars, locals
<1>2. ASSUME NEW t \in Threads, CapioCall(t) PROVE Located'
  <2> USE DEF Located, TypeOK, Goto, Done
  <2>1. CASE \/ Open(t) \/ Attach(t) \/ Goodbye(t) \/ Close(t) \/ Exit(t)
    BY <2>1 DEF Open, Attach, Goodbye, Close, Exit, Leave, locals
  <2>2. CASE RevokeClear(t) \/ RevokeRead(t) \/ RevokeDeleteFails(t)
             \/ RevokeZero(t) \/ RevokeDelete(t)
    BY <2>2 DEF RevokeClear, RevokeRead, RevokeDeleteFails, RevokeZero,
       RevokeDelete, NextRegion
  <2>3. CASE \/ \E r \in Regions : MmapCheckToken(t, r)
             \/ MmapIsDying(t) \/ MmapLookup(t) \/ MmapAllocFails(t)
             \/ MmapRecheck(t) \/ \E o \in Objs : MmapAlloc(t, o)
    BY <2>3 DEF MmapCheckToken, MmapIsDying, MmapLookup, MmapAllocFails,
       MmapRecheck, MmapAlloc
  <2>4. CASE \/ \E a \in Addrs : MapEnter(t, a)
             \/ MapEnterFails(t) \/ capio_vaddr_callback(t)
    BY <2>4 DEF MapEnter, MapEnterFails, capio_vaddr_callback
  <2>5. CASE \/ \E a \in Addrs : Munmap(t, a)
             \/ ExitUnmap(t)
    BY <2>5 DEF Munmap, ExitUnmap
  <2>6. CASE capio_pager_dtor(t)
    BY <2>6 DEF capio_pager_dtor
  <2>7. QED
    BY <1>2, <2>1, <2>2, <2>3, <2>4, <2>5, <2>6 DEF CapioCall
<1>3. QED
  BY <1>1, <1>2 DEF Next

\* A call holds an object only from its allocation or its removal from a map on to
\* its entry in a map or its destruction.
InHand(t) == pc[t] \in {"dtor", "mmap_recheck", "mmap_enter"}

\* What a step may do to the references: t takes the last one of an object out of
\* its map, ...
Takes(t, a) ==
  /\ ~InHand(t)
  /\ vm[ProcOf[t]][a] \in Objs /\ LastRef(ProcOf[t], a)
  /\ \E x \in {NoObj, Anon} : vm' = [vm EXCEPT ![ProcOf[t]][a] = x]
  /\ held' = [held EXCEPT ![t] = vm[ProcOf[t]][a]]
  /\ object' = object
\* ... or lets references go.
Loses(t) ==
  /\ object' = object
  /\ held' = held \/ held' = [held EXCEPT ![t] = NoObj]
  /\ \A q \in Procs, b \in Addrs : vm'[q][b] = vm[q][b] \/ vm'[q][b] \notin Objs

\* Every object in a map stays in one, ...
Keeps ==
  /\ held' = held
  /\ \A o \in Objs : (\E q \in Procs, b \in Addrs : vm[q][b] = o)
                     => \E q \in Procs, b \in Addrs : vm'[q][b] = o
\* ... or t is where an object may be left without a reference: at the second
\* is_dying test, or in a removal that finds one.
Strands(t) ==
  \/ pc[t] = "mmap_recheck" /\ Dying
  \/ pc[t] = "rev_delete" /\ vm[ProcOf[t]][addr[t]] \in Objs

\* What a call or a map refers to is alive, and a call's object is its own: no dtor
\* runs twice, or under a live mapping.
RefsLive ==
  /\ \A t \in Threads : held[t] # NoObj => object[held[t]] # 0
  /\ \A p \in Procs, a \in Addrs : vm[p][a] \in Objs =>
       object[vm[p][a]] # 0 /\ \A t \in Threads : held[t] # vm[p][a]
  /\ \A t, u \in Threads : held[t] # NoObj /\ held[t] = held[u] => t = u

\* Every call is one of five kinds.
LEMMA RefKinds ==
  ASSUME TypeOK, Located, NEW t \in Threads, CapioCall(t)
  PROVE  \/ \E o \in Objs : MmapAlloc(t, o)
         \/ capio_pager_dtor(t)
         \/ \E a \in Addrs : MapEnter(t, a)
         \/ \E a \in Addrs : Takes(t, a)
         \/ Loses(t) /\ (Keeps \/ Strands(t))
<1> USE ConstantsAssumption DEF ConstantsAssumption
<1>1. CASE Open(t) \/ Attach(t) \/ Goodbye(t) \/ Close(t) \/ Exit(t)
  BY <1>1 DEF Open, Attach, Goodbye, Close, Exit, Leave, world, locals, Loses, Keeps
<1>2. CASE RevokeClear(t) \/ RevokeRead(t) \/ RevokeDeleteFails(t) \/ RevokeZero(t)
  BY <1>2 DEF RevokeClear, RevokeRead, RevokeDeleteFails, RevokeZero, world, Loses, Keeps
<1>3. CASE RevokeDelete(t)
  <2>1. ProcOf[t] \in Procs /\ addr[t] \in Addrs
    BY <1>3 DEF RevokeDelete, Located
  <2>2. /\ vm' = [vm EXCEPT ![ProcOf[t]][addr[t]] = NoObj] /\ object' = object
        /\ ~InHand(t) /\ pc[t] = "rev_delete"
        /\ \/ held' = held
           \/ /\ vm[ProcOf[t]][addr[t]] \in Objs /\ LastRef(ProcOf[t], addr[t])
              /\ held' = [held EXCEPT ![t] = vm[ProcOf[t]][addr[t]]]
    BY <1>3 DEF RevokeDelete, InHand
  <2>3. \A q \in Procs, b \in Addrs :
          \/ vm'[q][b] = vm[q][b]
          \/ q = ProcOf[t] /\ b = addr[t] /\ vm'[q][b] \notin Objs
    BY <2>1, <2>2 DEF TypeOK
  <2>4. held' = held => Loses(t) /\ (Keeps \/ Strands(t))
    BY <2>2, <2>3 DEF Loses, Keeps, Strands
  <2>5. QED
    BY <2>1, <2>2, <2>4 DEF Takes
<1>4. CASE \/ \E r \in Regions : MmapCheckToken(t, r)
           \/ MmapIsDying(t) \/ MmapLookup(t) \/ MmapAllocFails(t)
           \/ MmapRecheck(t) \/ MapEnterFails(t) \/ capio_vaddr_callback(t)
  BY <1>4 DEF MmapCheckToken, MmapIsDying, MmapLookup, MmapAllocFails,
     MmapRecheck, MapEnterFails, capio_vaddr_callback, world, Loses, Keeps, Strands
<1>5. ASSUME NEW a \in Addrs, Munmap(t, a)
      PROVE  Takes(t, a) \/ (Loses(t) /\ Keeps)
  <2>1. PICK x \in {NoObj, Anon} : vm' = [vm EXCEPT ![ProcOf[t]][a] = x]
    BY <1>5 DEF Munmap
  <2>2. CASE LastRef(ProcOf[t], a)
    BY <1>5, <2>1, <2>2 DEF Munmap, Takes, InHand
  <2>3. CASE ~LastRef(ProcOf[t], a)
    <3>1. held' = held /\ object' = object /\ ProcOf[t] \in Procs
      BY <1>5, <2>3 DEF Munmap
    <3>2. \A q \in Procs, b \in Addrs :
            \/ vm'[q][b] = vm[q][b]
            \/ q = ProcOf[t] /\ b = a /\ vm'[q][b] \notin Objs
      BY <2>1, <3>1 DEF TypeOK
    <3>3. QED
      BY <2>3, <3>1, <3>2 DEF Loses, Keeps, LastRef
  <2>4. QED
    BY <2>2, <2>3
<1>6. CASE ExitUnmap(t)
  <2> DEFINE p == ProcOf[t]
             none == [a \in Addrs |-> NoObj]
  <2>0. p \in Procs
    OBVIOUS
  <2>1. /\ object' = object /\ ~InHand(t)
        /\ \/ \E a \in Addrs : /\ vm[p][a] \in Objs /\ LastRef(p, a)
                               /\ held' = [held EXCEPT ![t] = vm[p][a]]
                               /\ vm' = [vm EXCEPT ![p][a] = NoObj]
           \/ \E a \in Addrs : /\ ~LastRef(p, a)
                               /\ held' = held /\ vm' = [vm EXCEPT ![p][a] = NoObj]
           \/ /\ vm' = [vm EXCEPT ![p] = none] /\ held' = held
              /\ \A a \in Addrs : vm[p][a] \notin Objs
    BY <1>6 DEF ExitUnmap, InHand
  <2>2. CASE /\ vm' = [vm EXCEPT ![p] = none] /\ held' = held
             /\ \A a \in Addrs : vm[p][a] \notin Objs
    <3>1. \A b \in Addrs : none[b] \notin Objs
      OBVIOUS
    <3> HIDE DEF none
    <3>2. \A q \in Procs, b \in Addrs :
            vm'[q][b] = vm[q][b] \/ (vm'[q][b] \notin Objs /\ vm[q][b] \notin Objs)
      BY <2>2, <3>1 DEF TypeOK
    <3>3. QED
      BY <2>1, <2>2, <3>2 DEF Loses, Keeps
  <2>3. ASSUME NEW a \in Addrs, ~LastRef(p, a), held' = held,
               vm' = [vm EXCEPT ![p][a] = NoObj]
        PROVE  Loses(t) /\ Keeps
    <3>1. \A q \in Procs, b \in Addrs :
            vm'[q][b] = vm[q][b] \/ (q = p /\ b = a /\ vm'[q][b] \notin Objs)
      BY <2>0, <2>3 DEF TypeOK
    <3>2. QED
      BY <2>1, <2>3, <3>1 DEF Loses, Keeps, LastRef
  <2>4. QED
    BY <2>1, <2>2, <2>3 DEF Takes
<1>7. QED
  BY <1>1, <1>2, <1>3, <1>4, <1>5, <1>6 DEF CapioCall

\* Every kind keeps references to what is alive.
LEMMA RefsLiveStep ==
  ASSUME TypeOK, Holder, RefsLive, NEW t \in Threads,
         \/ \E o \in Objs : MmapAlloc(t, o)
         \/ capio_pager_dtor(t)
         \/ \E a \in Addrs : MapEnter(t, a)
         \/ \E u \in Threads : Fork(t, u)
         \/ \E a \in Addrs : Takes(t, a)
         \/ Loses(t)
  PROVE  RefsLive'
<1> USE ConstantsAssumption DEF ConstantsAssumption
<1>0. ProcOf[t] \in Procs
  OBVIOUS
<1>1. ASSUME NEW o \in Objs, MmapAlloc(t, o) PROVE RefsLive'
  BY <1>1, RegionFacts DEF MmapAlloc, TypeOK, RefsLive
<1>2. CASE capio_pager_dtor(t)
  BY <1>2, RegionFacts DEF capio_pager_dtor, TypeOK, RefsLive, Holder
<1>3. ASSUME NEW a \in Addrs, MapEnter(t, a) PROVE RefsLive'
  BY <1>0, <1>3 DEF MapEnter, TypeOK, RefsLive, Holder
<1>4. ASSUME NEW a \in Addrs, Takes(t, a) PROVE RefsLive'
  <2> DEFINE o == vm[ProcOf[t]][a]
  <2>1. /\ object' = object /\ o \in Objs /\ held' = [held EXCEPT ![t] = o]
        /\ object[o] # 0 /\ \A u \in Threads : held[u] # o
    BY <1>0, <1>4 DEF Takes, RefsLive
  <2>2. \A q \in Procs, b \in Addrs : vm'[q][b] \in Objs => vm'[q][b] = vm[q][b] /\ vm[q][b] # o
    BY <1>0, <1>4 DEF Takes, LastRef, TypeOK
  <2>3. \A u \in Threads : held'[u] = IF u = t THEN o ELSE held[u]
    BY <2>1 DEF TypeOK
  <2> HIDE DEF o
  <2>4. QED
    BY <2>1, <2>2, <2>3 DEF RefsLive
<1>5. CASE Loses(t)
  <2>1. /\ object' = object
        /\ \A u \in Threads : held'[u] = held[u] \/ held'[u] = NoObj
        /\ \A q \in Procs, b \in Addrs : vm'[q][b] \in Objs => vm'[q][b] = vm[q][b]
    BY <1>5 DEF Loses, TypeOK
  <2>2. QED
    BY <2>1 DEF RefsLive
<1>6. ASSUME NEW u \in Threads, Fork(t, u) PROVE RefsLive'
  <2>1. /\ object' = object /\ held' = held /\ ProcOf[u] \in Procs
        /\ vm' = [vm EXCEPT ![ProcOf[u]] = vm[ProcOf[t]]]
    BY <1>6 DEF Fork, locals
  <2>2. \A q \in Procs, b \in Addrs :
          vm'[q][b] = vm[q][b] \/ vm'[q][b] = vm[ProcOf[t]][b]
    BY <2>1 DEF TypeOK
  <2>3. QED
    BY <1>0, <2>1, <2>2 DEF RefsLive
<1>7. QED
  BY <1>1, <1>2, <1>3, <1>4, <1>5, <1>6
=============================================================================
