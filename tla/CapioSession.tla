---------------------------- MODULE CapioSession -----------------------------
(***************************************************************************)
(* Capio driven the way userlib/sfc7120_user.c drives it: sfc7120_init     *)
(* opens, attaches and maps the regions in order; sfc7120_destroy unmaps   *)
(* them, says GOODBYE and closes.  A process may leave a session also by   *)
(* crashing; a running one may fork a child and wait for it, as `sfctest   *)
(* sec` does; after its session another may be run.  The module may be     *)
(* unloaded meanwhile.                                                     *)
(***************************************************************************)
EXTENDS Capio

CONSTANTS MayCrash, \* may a process end without sfc7120_destroy?
          MayFork,  \* may a process fork children while its session runs?
          Unloads   \* when may the module be unloaded: "never", with the device
                    \* "closed", or also no call or exit under way ("idle")?

ASSUME SessionAssumption ==
  /\ MayCrash \in BOOLEAN /\ MayFork \in BOOLEAN
  /\ Unloads \in {"never", "closed", "idle"}
  /\ IsFiniteSet(Addrs)

VARIABLE lib  \* lib[t]: how far the session of t has come

Lib == {"out", "opened", "map", "mapping", "running", "waiting", "unmap",
        "goodbye", "closing", "done", "child", "exited"}

sessionVars == <<vars, lib>>

To(t, label) == lib' = [lib EXCEPT ![t] = label]
MapsOf(p) == {a \in Addrs : vm[p][a] \in Objs}

SessionInit == Init /\ lib = [t \in Threads |-> "out"]

\* sfc7120_init: open, then CAPIO_ATTACH, whose failure leads to destroy.
LibOpen(t) == lib[t] = "out" /\ Open(t) /\ To(t, "opened")

LibAttach(t) ==
  /\ lib[t] = "opened"
  /\ \/ Attach(t) /\ To(t, "map")
     \/ /\ original # NoProc \/ ~CdevUp
        /\ To(t, "unmap") /\ UNCHANGED vars

\* map_region for the next region; all mapped: init returns.  Once destroy_dev
\* has run, or without the token, calls fail, and init's fail path leads to
\* destroy.
LibMap(t) ==
  LET k == Cardinality(MapsOf(ProcOf[t])) + 1
  IN  /\ lib[t] = "map"
      /\ \/ k > NumRegions /\ To(t, "running") /\ UNCHANGED vars
         \/ k <= NumRegions /\ MmapCheckToken(t, k) /\ To(t, "mapping")
         \/ /\ k <= NumRegions /\ ~(CdevUp /\ check_cap_token(t))
            /\ To(t, "unmap") /\ UNCHANGED vars

\* run_one_violation: fork, and waitpid before anything else is done.
LibFork(t, u) ==
  /\ MayFork
  /\ lib[t] = "running" /\ lib[u] = "out" /\ Fork(t, u)
  /\ lib' = [lib EXCEPT ![t] = "waiting", ![u] = "child"]
LibWait(t) ==
  /\ lib[t] = "waiting"
  /\ \A c \in Procs \ {ProcOf[t]} : token[c] # ProcOf[t]
  /\ To(t, "running") /\ UNCHANGED vars

\* sfc7120_destroy, by the application or by init's fail path.
LibDestroy(t) == lib[t] = "running" /\ To(t, "unmap") /\ UNCHANGED vars

\* Mutant: sfc7120_destroy leaves the unmapping to the kernel.
LibUnmap_skipped(t) ==
  lib[t] = "unmap" /\ pc[t] = "idle" /\ To(t, "goodbye") /\ UNCHANGED vars

LibUnmap(t) ==
  /\ lib[t] = "unmap"
  /\ \/ \E a \in Addrs : Munmap(t, a) /\ UNCHANGED lib
     \/ /\ pc[t] = "idle" /\ MapsOf(ProcOf[t]) = {}
        /\ To(t, "goodbye") /\ UNCHANGED vars

\* Sent whether or not the attach succeeded; refused without the token.
LibGoodbye(t) ==
  /\ lib[t] = "goodbye" /\ To(t, "closing")
  /\ \/ Goodbye(t)
     \/ ~(CdevUp /\ check_cap_token(t)) /\ UNCHANGED vars

LibClose(t) == lib[t] = "closing" /\ Close(t) /\ To(t, "done")

\* The process ends, at the end of its program or in a crash; a child by _exit
\* or by the signal it provokes.
LibExit(t) ==
  /\ \/ lib[t] \in {"done", "child"}
     \/ MayCrash /\ lib[t] \notin {"out", "exited"}
  /\ Exit(t) /\ To(t, "exited")

\* The next run of a program.
LibAgain(t) ==
  lib[t] = "exited" /\ pc[t] = "idle" /\ To(t, "out") /\ UNCHANGED vars

\* A call in progress.  map_region, waiting for its ioctl, fails unless the
\* address was reported.
KernelStep(t) ==
  \/ /\ \/ RevokeClear(t) \/ RevokeRead(t) \/ RevokeDelete(t) \/ RevokeZero(t)
        \/ RevokeDeleteFails(t) \/ ExitUnmap(t)
        \/ \E o \in Objs : MmapAlloc(t, o)
        \/ \E a \in Addrs : MapEnter(t, a)
        \/ MapEnterFails(t)
     /\ UNCHANGED lib
  \/ /\ MmapIsDying(t) \/ MmapLookup(t) \/ MmapAllocFails(t) \/ MmapRecheck(t)
        \/ capio_pager_dtor(t)
     /\ IF lib[t] = "mapping" /\ pc'[t] = "idle"
          THEN To(t, "unmap") ELSE UNCHANGED lib
  \/ capio_vaddr_callback(t) /\ To(t, "map")

-----------------------------------------------------------------------------

\* kldunload.  Nothing in detach asks for either condition: it is begun when
\* the administrator begins it, and then runs on whatever comes.
Idle ==
  (\A t \in Threads : pc[t] = "idle") /\ \A p \in Procs : MapsOf(p) = {}
Unload ==
  /\ \/ phase # "up"
     \/ Unloads = "closed" /\ opens = {}
     \/ Unloads = "idle" /\ opens = {} /\ Idle
  /\ Detach /\ UNCHANGED lib

SessionStep(t) ==
  \/ LibOpen(t) \/ LibAttach(t) \/ LibMap(t) \/ LibDestroy(t) \/ LibUnmap(t)
  \/ LibGoodbye(t) \/ LibClose(t) \/ LibExit(t) \/ LibAgain(t) \/ LibWait(t)
  \/ KernelStep(t)

SessionNext ==
  \/ Unload
  \/ \E t \in Threads : SessionStep(t)
  \/ \E t, u \in Threads : LibFork(t, u)

\* A call that is inside the kernel runs on; what a program does is its own.
SessionSpec ==
  /\ SessionInit /\ [][SessionNext]_sessionVars
  /\ \A t \in Threads : WF_sessionVars(KernelStep(t))

-----------------------------------------------------------------------------
(* Properties.                                                             *)

\* A holder of the token is refused with "already mapped" only for an object
\* that an exiting process still has, or that its revocation has left behind
\* (vm_map_remove "does NOT fire the dtor"): a session that ends with
\* sfc7120_destroy leaves every region free, because its munmaps come before
\* its GOODBYE and its children are gone before its munmaps.
ReattachFindsRegionsFree ==
  robbed \/ \A t \in Threads :
    pc[t] = "mmap_lookup" /\ mapped[reg[t]] =>
      \E o \in Objs :
        /\ object[o] = reg[t]
        /\ \/ Orphan(o)
           \/ \E u \in Threads :
                exiting[u] /\ (held[u] = o \/ \E a \in Addrs : vm[ProcOf[u]][a] = o)

\* An object is left behind only by the revocation in a process's exit, or by
\* an unload under an mmap: a session that ends with sfc7120_destroy costs no
\* region, whatever its GOODBYE and its close find recorded.
OnlyCrashesLoseRegions ==
  [][\A o \in Objs : ~Orphan(o) /\ Orphan(o)'
       => Dying \/ \E t \in Threads : pc[t] = "rev_delete" /\ exiting[t]]_sessionVars

\* "THEN revoke the token so the next run's CAPIO_ATTACH succeeds": a session
\* has the token that its GOODBYE is to revoke, until it has revoked it.
SessionKeepsToken ==
  \A t \in Threads : lib[t] \in {"map", "running"} => original = ProcOf[t]

\* However the sessions ended, once no process is in one the token is free
\* and every region can be mapped again, but for those whose object the
\* revocation left behind, unless a new session starts: the last sfc7120_close
\* and the dtors of the exiting processes see to it, unless the device goes.
DeviceFreedAfterUse ==
  LET nobody == \A t \in Threads : lib[t] \in {"out", "done", "exited"}
  IN  nobody ~> \/ ~nobody \/ ~CdevUp
                \/ /\ original = NoProc
                   /\ \A r \in Regions :
                        mapped[r] => \E o \in Objs : object[o] = r /\ Orphan(o)

\* "MUST be last: capio_destroy tears down the cap_mtx": when the lock goes,
\* no call is inside capio that would take it and no VM object is left whose
\* dtor can still run and would, however late a process opened and mapped the
\* device: is_dying and destroy_dev, in this order, leave no gap.
NothingLeftAtDestroy ==
  phase = "freed" =>
    /\ \A t \in Threads : ~InMethod(t) /\ pc[t] # "dtor"
    /\ \A o \in Objs : object[o] # 0 => Orphan(o)
=============================================================================
