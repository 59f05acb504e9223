-------------------------------- MODULE Bench --------------------------------
(***************************************************************************)
(* The benchmark of userlib/bench.c: one process drives two functions, PF0 *)
(* and PF1, that are cabled to each other, through sessions of the kernel  *)
(* path and of the direct path, and bounces frames between them.           *)
(*                                                                         *)
(* The rings of DataPath appear here as the queues they implement: an      *)
(* event queue, and the filled receive slots from rx_head on.  A receive   *)
(* takes the slot at rx_head whatever its event said, so an event that is  *)
(* consumed without a receive leaves its frame in front for good.          *)
(***************************************************************************)
EXTENDS Integers, Sequences, FiniteSets

CONSTANTS
  RxN, TxN, EvN,  \* ring sizes (SFC7120_NUM_RX_DESC, _TX_DESC, _EVQ_ENTRY)
  NumSizes,       \* N_SIZES
  Samples,        \* LAT_WARMUP + LAT_SAMPLES
  Window,         \* TPUT_WINDOW
  Batch,          \* events taken by one sfc7120_poll
  MaxIter,        \* bound: iterations of a throughput loop before the clock ends it
  MaxLost,        \* bound: frames the cable loses
  MaxRuns         \* bound: runs of the program since the module was loaded

ASSUME BenchAssumption ==
  /\ {RxN, TxN, EvN} \subseteq Nat \ {0, 1}
  /\ {NumSizes, Samples, Window, Batch, MaxIter, MaxRuns} \subseteq Nat \ {0}
  /\ MaxLost \in Nat

PF == {0, 1}
Peer(p) == 1 - p

VARIABLES
  txq, acks,    \* NIC: posted, not sent; last one sent, if not reported
  wire,         \* frames under way to a function
  evq, slots,   \* events not consumed; filled slots not received
  pc, todo,     \* the program: where it stands, the jobs it has left
  size, i,      \* size being measured, iteration
  hand,         \* the frame in its receive buffer
  rc, runs,
  dropped, eaten, \* history: a frame without a slot; paths that consumed an RX_EV
                  \* without a receive
  lost            \* history: how many frames the cable lost

net     == <<txq, acks, wire, evq, slots, dropped, lost>>
program == <<pc, todo, size, i, hand, rc, runs, eaten>>
vars    == <<net, program>>

\* A frame of a window-of-one loop is known by its size and sequence number;
\* those of run_throughput by their size alone (n = 0).
NoFrame == [size |-> 0, n |-> 0]

\* Mutant: throughput before latency.
AllJobs_tputFirst ==
  << [path |-> "kernel", mode |-> "tput"], [path |-> "kernel", mode |-> "lat"],
     [path |-> "direct", mode |-> "tput"], [path |-> "direct", mode |-> "lat"] >>
\* main: kernel path first, latency before throughput.
AllJobs == << [path |-> "kernel", mode |-> "lat"], [path |-> "kernel", mode |-> "tput"],
              [path |-> "direct", mode |-> "lat"], [path |-> "direct", mode |-> "tput"] >>
Jobs(paths, modes) ==
  LET asked(j) == IF j.path \in paths /\ j.mode \in modes THEN <<j>> ELSE <<>>
  IN  asked(AllJobs[1]) \o asked(AllJobs[2]) \o asked(AllJobs[3]) \o asked(AllJobs[4])

Init ==
  /\ txq = [p \in PF |-> <<>>] /\ acks = [p \in PF |-> NoFrame]
  /\ wire = [p \in PF |-> <<>>]
  /\ evq = [p \in PF |-> <<>>] /\ slots = [p \in PF |-> <<>>]
  /\ pc = "exit" /\ todo = <<>> /\ size = 1 /\ i = 1 /\ hand = NoFrame
  /\ rc = "ok" /\ runs = 0
  /\ dropped = FALSE /\ eaten = {} /\ lost = 0

-----------------------------------------------------------------------------
(* The two NICs and the cable (external).                                  *)

EvqRoom(p) == Len(evq[p]) < EvN - 1

NicSend(p) ==
  /\ txq[p] # <<>>
  /\ wire' = [wire EXCEPT ![Peer(p)] = Append(@, Head(txq[p]))]
  /\ acks' = [acks EXCEPT ![p] = Head(txq[p])]
  /\ txq' = [txq EXCEPT ![p] = Tail(@)]
  /\ UNCHANGED <<evq, slots, dropped, lost, program>>

\* One event reports everything sent so far, by its last descriptor.
NicComplete(p) ==
  /\ acks[p] # NoFrame /\ EvqRoom(p)
  /\ evq' = [evq EXCEPT ![p] = Append(@, [kind |-> "tx", frame |-> acks[p]])]
  /\ acks' = [acks EXCEPT ![p] = NoFrame]
  /\ UNCHANGED <<txq, wire, slots, dropped, lost, program>>

\* A frame that finds no posted slot is lost.
NicReceive(p) ==
  /\ wire[p] # <<>> /\ EvqRoom(p)
  /\ wire' = [wire EXCEPT ![p] = Tail(@)]
  /\ IF Len(slots[p]) < RxN - 1
       THEN /\ slots' = [slots EXCEPT ![p] = Append(@, Head(wire[p]))]
            /\ evq' = [evq EXCEPT ![p] =
                         Append(@, [kind |-> "rx", frame |-> Head(wire[p])])]
            /\ UNCHANGED dropped
       ELSE dropped' = TRUE /\ UNCHANGED <<slots, evq>>
  /\ UNCHANGED <<txq, acks, lost, program>>

Lose(p) ==
  /\ wire[p] # <<>> /\ lost < MaxLost
  /\ lost' = lost + 1
  /\ wire' = [wire EXCEPT ![p] = Tail(@)]
  /\ UNCHANGED <<txq, acks, evq, slots, dropped, program>>

\* Nothing under way: a wait that finds no event now will find none later.
Still == \A p \in PF : txq[p] = <<>> /\ acks[p] = NoFrame /\ wire[p] = <<>>

-----------------------------------------------------------------------------
(* Sending and receiving on either path.                                   *)

isRx(e) == e.kind = "rx"
RxIn(evs) == Cardinality({k \in 1..Len(evs) : isRx(evs[k])})

\* sfc7120_poll: the events one call takes and consumes.
polled(p) == SubSeq(evq[p], 1, IF Len(evq[p]) < Batch THEN Len(evq[p]) ELSE Batch)
consume(p) == evq' = [evq EXCEPT ![p] = SubSeq(@, Len(polled(p)) + 1, Len(@))]

\* A session begins where its path changes; its first job where it says.
StartOf(job) == IF job = [path |-> "direct", mode |-> "tput"] THEN "prime" ELSE "launch"

\* Mutant: a window of two.
tx_twice(p, f, here, waiting, next) ==
  /\ pc = here
  /\ txq' = [txq EXCEPT ![p] = @ \o <<f, f>>]
  /\ pc' = IF Head(todo).path = "direct" THEN next ELSE waiting
  /\ UNCHANGED <<acks, wire, evq, slots, dropped, lost, todo, size, i, hand, rc, runs, eaten>>

\* sfc7120_tx_post returns at once, the TX ioctl when its frame is complete:
\* both name a frame's descriptor by the frame.
tx(p, f, here, waiting, next) ==
  /\ pc = here
  /\ txq' = [txq EXCEPT ![p] = Append(@, f)]
  /\ pc' = IF Head(todo).path = "direct" THEN next ELSE waiting
  /\ UNCHANGED <<acks, wire, evq, slots, dropped, lost, todo, size, i, hand, rc, runs, eaten>>

\* The ioctl consumes every event it meets, RX_EVs too, up to its own TX_EV.
tx_poll(p, f, waiting, next) ==
  /\ pc = waiting /\ evq[p] # <<>>
  /\ evq' = [evq EXCEPT ![p] = Tail(@)]
  /\ eaten' = IF isRx(Head(evq[p])) THEN eaten \cup {"kernel"} ELSE eaten
  /\ pc' = IF Head(evq[p]) = [kind |-> "tx", frame |-> f] THEN next ELSE waiting
  /\ UNCHANGED <<txq, acks, wire, slots, dropped, lost, todo, size, i, hand, rc, runs>>

\* SFC7120_RX: consume up to the first RX_EV, then receive from rx_head.
rx_kernel(p, here, next) ==
  /\ pc = here /\ Head(todo).path = "kernel" /\ evq[p] # <<>>
  /\ evq' = [evq EXCEPT ![p] = Tail(@)]
  /\ IF isRx(Head(evq[p]))
       THEN /\ hand' = Head(slots[p])
            /\ slots' = [slots EXCEPT ![p] = Tail(@)]
            /\ pc' = next
       ELSE UNCHANGED <<hand, slots, pc>>
  /\ UNCHANGED <<txq, acks, wire, dropped, lost, todo, size, i, rc, runs, eaten>>

\* wait_rx: poll a batch, receive for its first RX_EV, forget the rest of it.
wait_rx(p, here, next) ==
  /\ pc = here /\ Head(todo).path = "direct" /\ evq[p] # <<>>
  /\ consume(p)
  /\ IF RxIn(polled(p)) > 0
       THEN /\ hand' = Head(slots[p])
            /\ slots' = [slots EXCEPT ![p] = Tail(@)]
            /\ pc' = next
       ELSE UNCHANGED <<hand, slots, pc>>
  /\ eaten' = IF RxIn(polled(p)) > 1 THEN eaten \cup {"direct"} ELSE eaten
  /\ UNCHANGED <<txq, acks, wire, dropped, lost, todo, size, i, rc, runs>>

\* RX timeout (a second; a round trip takes microseconds): the session is
\* destroyed and the program ends.
rx_timeout(p, here) ==
  /\ pc = here /\ Still /\ evq[p] = <<>>
  /\ rc' = "timeout" /\ pc' = "exit" /\ todo' = <<>>
  /\ UNCHANGED <<net, size, i, hand, runs, eaten>>

rx(p, here, next) == rx_kernel(p, here, next) \/ wait_rx(p, here, next) \/ rx_timeout(p, here)

-----------------------------------------------------------------------------
(* The loops.                                                              *)

\* The last iteration of a size is over: next size, next job, next session.
NextSize ==
  /\ i' = 1 /\ hand' = NoFrame
  /\ IF size < NumSizes
       THEN size' = size + 1 /\ pc' = StartOf(Head(todo)) /\ UNCHANGED todo
       ELSE /\ size' = 1 /\ todo' = Tail(todo)
            /\ pc' = IF Tail(todo) = <<>> THEN "exit"
                     ELSE IF todo[2].path # todo[1].path THEN "init"
                     ELSE StartOf(todo[2])

\* The window-of-one loop of run_latency and run_throughput_kernel.
launched == [size |-> size, n |-> i]
Launch  == tx(0, launched, "launch", "launching", "await")
LaunchPoll == tx_poll(0, launched, "launching", "await")
Await   == rx(1, "await", "echo")
\* Mutant: the echo leaves by the wrong function.
Echo_wrongPort == tx(0, hand, "echo", "echoing", "collect")
Echo    == tx(1, hand, "echo", "echoing", "collect")
EchoPoll == tx_poll(1, hand, "echoing", "collect")
Collect == rx(0, "collect", "collected")
\* Mutant: the iteration is not counted.
Again_uncounted ==
  /\ pc = "collected"
  /\ \/ /\ i < IF Head(todo).mode = "lat" THEN Samples ELSE MaxIter
        /\ pc' = "launch" /\ hand' = NoFrame
        /\ UNCHANGED <<todo, size, i>>
     \/ /\ Head(todo).mode = "lat" => i = Samples
        /\ NextSize
  /\ UNCHANGED <<net, rc, runs, eaten>>

Again ==
  /\ pc = "collected"
  /\ \/ /\ i < IF Head(todo).mode = "lat" THEN Samples ELSE MaxIter
        /\ i' = i + 1 /\ pc' = "launch" /\ hand' = NoFrame
        /\ UNCHANGED <<todo, size>>
     \/ /\ Head(todo).mode = "lat" => i = Samples
        /\ NextSize
  /\ UNCHANGED <<net, rc, runs, eaten>>

\* Mutant: one frame too many.
Prime_overfull ==
  /\ pc = "prime" /\ pc' = "serve1"
  /\ txq' = [txq EXCEPT ![0] = @ \o [k \in 1..Window + 1 |-> [size |-> size, n |-> 0]]]
  /\ UNCHANGED <<acks, wire, evq, slots, dropped, lost, todo, size, i, hand, rc, runs, eaten>>

\* run_throughput: prime the window, then serve PF1 and PF0 in turn.
Prime ==
  /\ pc = "prime" /\ pc' = "serve1"
  /\ txq' = [txq EXCEPT ![0] = @ \o [k \in 1..Window |-> [size |-> size, n |-> 0]]]
  /\ UNCHANGED <<acks, wire, evq, slots, dropped, lost, todo, size, i, hand, rc, runs, eaten>>

\* Poll a batch and receive for each RX_EV in it; send as many frames again:
\* PF1 the ones received, PF0 new ones.
serve(p, out) ==
  /\ consume(p)
  /\ slots' = [slots EXCEPT ![p] = SubSeq(@, Len(out) + 1, Len(@))]
  /\ txq' = [txq EXCEPT ![p] = @ \o out]
  /\ UNCHANGED <<acks, wire, dropped, lost, rc, runs, eaten>>

Reflect ==
  /\ pc = "serve1" /\ pc' = "serve0"
  /\ serve(1, SubSeq(slots[1], 1, RxIn(polled(1))))
  /\ UNCHANGED <<todo, size, i, hand>>

\* Mutant: relaunches for every event of the batch.
Relaunch_everyEvent ==
  LET k == Len(polled(0))
      r == RxIn(polled(0))
  IN  /\ pc = "serve0"
      /\ consume(0)
      /\ slots' = [slots EXCEPT ![0] = SubSeq(@, r + 1, Len(@))]
      /\ txq' = [txq EXCEPT ![0] = @ \o [j \in 1..k |-> [size |-> size, n |-> 0]]]
      /\ \/ i < MaxIter /\ i' = i + 1 /\ pc' = "serve1"
            /\ UNCHANGED <<todo, size, hand>>
         \/ NextSize
      /\ UNCHANGED <<acks, wire, dropped, lost, rc, runs, eaten>>

Relaunch ==
  /\ pc = "serve0"
  /\ serve(0, [j \in 1..RxIn(polled(0)) |-> [size |-> size, n |-> 0]])
  /\ \/ i < MaxIter /\ i' = i + 1 /\ pc' = "serve1"
        /\ UNCHANGED <<todo, size, hand>>
     \/ NextSize

-----------------------------------------------------------------------------
(* Runs and sessions.                                                      *)

\* main with any choice of modes and paths.
Start ==
  /\ pc = "exit" /\ runs < MaxRuns
  /\ runs' = runs + 1 /\ rc' = "ok"
  /\ \E paths \in (SUBSET {"kernel", "direct"}) \ {{}},
        modes \in (SUBSET {"lat", "tput"}) \ {{}} : todo' = Jobs(paths, modes)
  /\ pc' = "init" /\ size' = 1 /\ i' = 1 /\ hand' = NoFrame
  /\ UNCHANGED <<net, eaten>>

\* run_path_session: init both functions, or give up.
OpenSession ==
  /\ pc = "init"
  /\ \/ pc' = StartOf(Head(todo)) /\ UNCHANGED <<todo, rc>>
     \/ pc' = "exit" /\ todo' = <<>> /\ rc' = "init"
  /\ UNCHANGED <<net, size, i, hand, runs, eaten>>

Program == \/ Start \/ OpenSession
           \/ Launch \/ LaunchPoll \/ Await \/ Echo \/ EchoPoll \/ Collect \/ Again
           \/ Prime \/ Reflect \/ Relaunch

Network == \E p \in PF : NicSend(p) \/ NicComplete(p) \/ NicReceive(p)

Faults == \E p \in PF : Lose(p)

Next == Program \/ Network \/ Faults

\* The program is scheduled once started, the NICs and the cable work.
Spec == /\ Init /\ [][Next]_vars
        /\ WF_vars(Program /\ pc # "exit") /\ WF_vars(Network)

-----------------------------------------------------------------------------
(* Properties.                                                             *)

\* The echo that ends a round trip is that of the frame this iteration sent, on
\* both paths, so that t1 - t0 is its round trip.
EchoIsOwn == pc = "collected" => hand = launched

\* No RX_EV is consumed by a TX ioctl, nor thrown away with the rest of a
\* wait_rx batch.
NothingEaten == eaten = {}

\* "With window=1 nothing overlaps, no event is ever eaten": no TX ioctl of the
\* kernel path consumes an RX_EV.
KernelEatsNothing == "kernel" \notin eaten

Circulating == Len(txq[0]) + Len(wire[1]) + Len(slots[1])
                 + Len(txq[1]) + Len(wire[0]) + Len(slots[0])

\* No step loses, doubles or forgets a frame: what a throughput run has under way is
\* what it primed, for this size and, as no size waits for the frames of the one
\* before, for all earlier ones, less what the cable lost ("keep ~W packets
\* circulating" is so for the first size only); and between two of its steps a
\* window-of-one loop has none.
FramesConserved ==
  /\ pc \in {"serve1", "serve0"} => Circulating + lost = Window * size
  /\ pc \in {"launch", "echo", "collected"} => Circulating = 0

\* "must stay < ring depth": the windows of all sizes together fit the rings, so
\* tx_post, which does not look, never posts over a frame not yet sent, and no
\* frame finds the receive ring empty.
RingsSuffice ==
  /\ ~dropped
  /\ \A p \in PF : Len(txq[p]) < TxN

\* A wait runs into its timeout only when a frame was lost on the cable.
NeverTimesOut == rc = "timeout" => lost > 0

\* The program comes to its end, frames lost or not.
BenchEnds == pc = "init" ~> pc = "exit"
=============================================================================
