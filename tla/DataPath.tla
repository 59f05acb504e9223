------------------------------ MODULE DataPath -------------------------------
(***************************************************************************)
(* The data path of one function: RX ring, TX ring and data event queue,   *)
(* shared by the NIC, the kernel's SFC7120_TX / SFC7120_RX ioctls and the  *)
(* user library's direct path (sfc7120_poll, rx_recv, tx_post).  The queues*)
(* are initialised once per module load; sessions come and go and pass the *)
(* pointers on through GET_VI_INFO and SET_EVQ_RPTR.                       *)
(*                                                                         *)
(* An ioctl holds sc_mtx for its whole run, so only the NIC moves while one*)
(* is polling.  A capio token admits one session at a time.                *)
(***************************************************************************)
EXTENDS Integers, Sequences, FiniteSets

CONSTANTS
  RxN, TxN, EvN,   \* ring sizes (SFC7120_NUM_RX_DESC, _TX_DESC, _EVQ_ENTRY)
  MaxFrames,       \* bound: frames the NIC accepts
  MaxTx,           \* bound: frames sent
  MaxOther,        \* bound: events that are neither RX nor TX
  Overruns,        \* may a sender run a whole TX ring ahead?
  Crashes,         \* the kinds of session that may end without destroy
  StaleSessions    \* may a session begin before the reload that is due?

ASSUME SizesAssumption ==
  /\ {RxN, TxN, EvN} \subseteq Nat \ {0, 1}
  /\ {MaxFrames, MaxTx, MaxOther} \subseteq Nat
  /\ {Overruns, StaleSessions} \subseteq BOOLEAN
  /\ Crashes \subseteq {"kernel", "direct"}

VARIABLES
  rxCons, rxProd, rxbuf,        \* NIC: next slot to fill, doorbell; buffers
  txCons, txProd, txbuf,        \* NIC: next slot to send, doorbell; buffers
  evW, evR, evq,                \* NIC: next event slot, RPTR doorbell; ring
  data_evq_read_ptr, tx_head, rx_head,  \* the kernel's pointers
  kpc, event, consumed,         \* ioctl in progress and its locals
  mode, uEvR, uTx, uRx, used_poll, polling, pending,  \* session
  stale,                        \* history: a session died with pointers not handed back
  missed,                       \* history: RX_EVs consumed whose frame nobody received
  arrived, others, posted,      \* counters behind the bounds
  last, sent, confirmed         \* history: last frame received, TX outcomes

nic     == <<rxCons, rxProd, rxbuf, txCons, txProd, txbuf, evW, evR, evq>>
kernel  == <<data_evq_read_ptr, tx_head, rx_head>>
call    == <<kpc, event, consumed>>
user    == <<mode, uEvR, uTx, uRx, used_poll, polling, pending>>
session == <<user, stale, missed>>
history == <<arrived, others, posted, last, sent, confirmed>>
vars    == <<nic, kernel, call, session, history>>

None == [kind |-> "none", idx |-> 0, frame |-> 0]
\* idx of RX: descriptor slot (its low bits are in the event); of TX: the last
\* completed descriptor.  frame says which frame an RX_EV announces.
Events == [kind : {"rx", "tx", "other", "none"},
           idx : 0..(RxN + TxN), frame : 0..MaxFrames]

\* Mutant: an index that does not wrap.
inc_unmasked(i, n) == i + 1
inc(i, n) == (i + 1) % n
dist(from, to, n) == (to - from) % n
RxOwned == {s \in 0..RxN-1 : dist(rxCons, s, RxN) < dist(rxCons, rxProd, RxN)}

\* sfc7120_post_rx_buffers: all slots written, RxN - 1 of them advertised.
Init ==
  /\ rxCons = 0 /\ rxProd = RxN - 1 /\ rxbuf = [s \in 0..RxN-1 |-> 0]
  /\ txCons = 0 /\ txProd = 0 /\ txbuf = [s \in 0..TxN-1 |-> 0]
  /\ evW = 0 /\ evR = 0 /\ evq = [i \in 0..EvN-1 |-> None]
  /\ data_evq_read_ptr = 0 /\ tx_head = 0 /\ rx_head = 0
  /\ kpc = "idle" /\ event = None /\ consumed = FALSE
  /\ mode = "none" /\ uEvR = 0 /\ uTx = 0 /\ uRx = 0
  /\ used_poll = FALSE /\ polling = FALSE /\ pending = <<>>
  /\ stale = FALSE /\ missed = 0
  /\ arrived = 0 /\ others = 0 /\ posted = 0
  /\ last = 0 /\ sent = {} /\ confirmed = {}

-----------------------------------------------------------------------------
(* The NIC (external): it fills posted slots in order, sends what the      *)
(* doorbell covers, and posts events while the ring has room.              *)

EvqRoom == inc(evW, EvN) # evR
PostEvent(e) == /\ evq' = [evq EXCEPT ![evW] = e]
                /\ evW' = inc(evW, EvN)

NicReceive ==
  /\ arrived < MaxFrames /\ EvqRoom /\ rxCons # rxProd
  /\ arrived' = arrived + 1
  /\ rxbuf' = [rxbuf EXCEPT ![rxCons] = arrived + 1]
  /\ PostEvent([kind |-> "rx", idx |-> rxCons, frame |-> arrived + 1])
  /\ rxCons' = inc(rxCons, RxN)
  /\ UNCHANGED <<rxProd, txCons, txProd, txbuf, evR, kernel, call, session,
                 others, posted, last, sent, confirmed>>

\* Completions may be coalesced: one event for k descriptors.
NicTransmit ==
  \E k \in 1..dist(txCons, txProd, TxN) :
    LET done == {(txCons + i) % TxN : i \in 0..k-1}
    IN  /\ EvqRoom
        /\ sent' = sent \cup {txbuf[s] : s \in done}
        /\ txCons' = (txCons + k) % TxN
        /\ PostEvent([kind |-> "tx", idx |-> (txCons + k - 1) % TxN,
                      frame |-> 0])
        /\ UNCHANGED <<rxCons, rxProd, rxbuf, txProd, txbuf, evR, kernel, call,
                       session, arrived, others, posted, last, confirmed>>

NicOther ==
  /\ others < MaxOther /\ EvqRoom
  /\ others' = others + 1
  /\ PostEvent([kind |-> "other", idx |-> 0, frame |-> 0])
  /\ UNCHANGED <<rxCons, rxProd, rxbuf, txCons, txProd, txbuf, evR, kernel,
                 call, session, arrived, posted, last, sent, confirmed>>

-----------------------------------------------------------------------------
(* The SFC7120_TX ioctl.  A frame is known by the number of its post.      *)

\* The slot after head is done with: sent, and its completion read.  Neither
\* the ioctl nor tx_post looks; without overruns the traffic sees to it.
TxRoom(head) ==
  /\ inc(head, TxN) # txCons
  /\ \A i \in 0..EvN-1 : evq[i].kind = "tx" => evq[i].idx # inc(head, TxN)

\* Copy the frame in, write the descriptor, ring the doorbell.
PostTx(head) ==
  /\ posted < MaxTx
  /\ Overruns \/ TxRoom(head)
  /\ posted' = posted + 1
  /\ txbuf' = [txbuf EXCEPT ![head] = posted + 1]
  /\ txProd' = inc(head, TxN)

TxBegin ==
  /\ mode = "kernel" /\ kpc = "idle"
  /\ PostTx(tx_head)
  /\ kpc' = "tx" /\ consumed' = FALSE
  /\ UNCHANGED <<rxCons, rxProd, rxbuf, txCons, evW, evR, evq, kernel, event,
                 session, arrived, others, last, sent, confirmed>>

\* Consume the event at the read pointer, whatever it is.
KernelConsume ==
  /\ evq' = [evq EXCEPT ![data_evq_read_ptr] = None]
  /\ data_evq_read_ptr' = inc(data_evq_read_ptr, EvN)

\* Mutant: any TX_EV completes the send.
TxPoll_anyTx ==
  LET ev == evq[data_evq_read_ptr]
  IN  /\ kpc = "tx" /\ ev # None
      /\ KernelConsume
      /\ consumed' = TRUE
      /\ missed' = IF ev.kind = "rx" THEN missed + 1 ELSE missed
      /\ kpc' = IF ev.kind = "tx" THEN "tx_done" ELSE "tx"
      /\ UNCHANGED <<rxCons, rxProd, rxbuf, txCons, txProd, txbuf, evW, evR,
                     tx_head, rx_head, event, user, stale, history>>

\* An RX_EV that arrives meanwhile is consumed too: its frame has lost its event.
TxPoll ==
  LET ev == evq[data_evq_read_ptr]
  IN  /\ kpc = "tx" /\ ev # None
      /\ KernelConsume
      /\ consumed' = TRUE
      /\ missed' = IF ev.kind = "rx" THEN missed + 1 ELSE missed
      /\ kpc' = IF ev.kind = "tx" /\ ev.idx = tx_head THEN "tx_done" ELSE "tx"
      /\ UNCHANGED <<rxCons, rxProd, rxbuf, txCons, txProd, txbuf, evW, evR,
                     tx_head, rx_head, event, user, stale, history>>

\* The loop ended: with the completion, or with the tries used up on an empty
\* slot (an event that comes with the last try might as well come after it).
\* Acknowledge, advance tx_head in both cases, report.
TxEnd ==
  /\ \/ kpc = "tx_done"
        /\ confirmed' = IF stale THEN confirmed ELSE confirmed \cup {txbuf[tx_head]}
     \/ kpc = "tx" /\ evq[data_evq_read_ptr] = None /\ UNCHANGED confirmed
  /\ evR' = IF consumed THEN data_evq_read_ptr ELSE evR
  /\ tx_head' = inc(tx_head, TxN)
  /\ kpc' = "idle" /\ consumed' = FALSE
  /\ UNCHANGED <<rxCons, rxProd, rxbuf, txCons, txProd, txbuf, evW, evq,
                 data_evq_read_ptr, rx_head, event, session,
                 arrived, others, posted, last, sent>>

-----------------------------------------------------------------------------
(* The SFC7120_RX ioctl.                                                   *)

RxBegin ==
  /\ mode = "kernel" /\ kpc = "idle"
  /\ kpc' = "rx"
  /\ UNCHANGED <<nic, kernel, event, consumed, session, history>>

\* Mutant: any event is taken for an RX_EV.
RxPoll_anyEvent ==
  LET ev == evq[data_evq_read_ptr]
  IN  /\ kpc = "rx" /\ ev # None
      /\ KernelConsume
      /\ kpc' = "rx_copy" /\ event' = ev /\ consumed' = FALSE
      /\ evR' = inc(data_evq_read_ptr, EvN)
      /\ UNCHANGED <<rxCons, rxProd, rxbuf, txCons, txProd, txbuf, evW,
                     tx_head, rx_head, session, history>>

\* The loop stops at the first RX_EV and acknowledges what it consumed.
RxPoll ==
  LET ev == evq[data_evq_read_ptr]
  IN  /\ kpc = "rx" /\ ev # None
      /\ KernelConsume
      /\ IF ev.kind = "rx"
           THEN /\ kpc' = "rx_copy" /\ event' = ev /\ consumed' = FALSE
                /\ evR' = inc(data_evq_read_ptr, EvN)
           ELSE consumed' = TRUE /\ UNCHANGED <<kpc, event, evR>>
      /\ UNCHANGED <<rxCons, rxProd, rxbuf, txCons, txProd, txbuf, evW,
                     tx_head, rx_head, session, history>>

RxTimeout ==
  /\ kpc = "rx" /\ evq[data_evq_read_ptr] = None
  /\ evR' = IF consumed THEN data_evq_read_ptr ELSE evR
  /\ kpc' = "idle" /\ consumed' = FALSE
  /\ UNCHANGED <<rxCons, rxProd, rxbuf, txCons, txProd, txbuf, evW, evq,
                 kernel, event, session, history>>

\* The history keeps what sessions receive whose pointers are the NIC's.
received(f) == IF stale THEN last ELSE f

\* Mutants: the doorbell rung with the advanced rx_head; rx_head not advanced.
copyout_with(doorbell, head) ==
  /\ kpc = "rx_copy"
  /\ last' = received(rxbuf[rx_head])
  /\ rxProd' = doorbell
  /\ rx_head' = head
  /\ kpc' = "idle" /\ event' = None
  /\ UNCHANGED <<rxCons, rxbuf, txCons, txProd, txbuf, evW, evR, evq,
                 data_evq_read_ptr, tx_head, consumed, session,
                 arrived, others, posted, sent, confirmed>>
RxCopyout_ringsNext == copyout_with(inc(rx_head, RxN), inc(rx_head, RxN))
RxCopyout_stays == copyout_with(rx_head, rx_head)

\* Copy slot rx_head out, re-post it, ring the doorbell with rx_head, advance.
RxCopyout ==
  /\ kpc = "rx_copy"
  /\ last' = received(rxbuf[rx_head])
  /\ rxProd' = rx_head
  /\ rx_head' = inc(rx_head, RxN)
  /\ kpc' = "idle" /\ event' = None
  /\ UNCHANGED <<rxCons, rxbuf, txCons, txProd, txbuf, evW, evR, evq,
                 data_evq_read_ptr, tx_head, consumed, session,
                 arrived, others, posted, sent, confirmed>>

\* A failed copyout returns at once: no re-post, rx_head stays.
RxCopyoutFails ==
  /\ kpc = "rx_copy"
  /\ kpc' = "idle" /\ event' = None
  /\ missed' = missed + 1
  /\ UNCHANGED <<nic, kernel, consumed, user, stale, history>>

-----------------------------------------------------------------------------
(* Sessions and the direct path.                                           *)

\* sfc7120_init ends with GET_VI_INFO, which seeds the three pointers.
SessionInit(m) ==
  /\ mode = "none" /\ (StaleSessions \/ ~stale)
  /\ mode' = m
  /\ uEvR' = data_evq_read_ptr /\ uTx' = tx_head /\ uRx' = rx_head
  /\ UNCHANGED <<nic, kernel, call, used_poll, polling, pending, stale,
                 missed, history>>

\* sfc7120_poll takes events one after the other ...
Poll ==
  LET ev == evq[uEvR]
  IN  /\ mode = "direct" /\ ev # None
      /\ used_poll' = TRUE /\ polling' = TRUE
      /\ pending' = IF ev.kind = "rx" THEN Append(pending, ev) ELSE pending
      /\ evq' = [evq EXCEPT ![uEvR] = None]
      /\ uEvR' = inc(uEvR, EvN)
      /\ UNCHANGED <<rxCons, rxProd, rxbuf, txCons, txProd, txbuf, evW, evR,
                     kernel, call, mode, uTx, uRx, stale, missed, history>>

\* Mutant: acknowledges one event too many.
PollAck_ahead ==
  /\ polling
  /\ evR' = inc(uEvR, EvN) /\ polling' = FALSE
  /\ UNCHANGED <<rxCons, rxProd, rxbuf, txCons, txProd, txbuf, evW, evq,
                 kernel, call, mode, uEvR, uTx, uRx, used_poll, pending,
                 stale, missed, history>>

\* ... and acknowledges them before it returns.
PollAck ==
  /\ polling
  /\ evR' = uEvR /\ polling' = FALSE
  /\ UNCHANGED <<rxCons, rxProd, rxbuf, txCons, txProd, txbuf, evW, evq,
                 kernel, call, mode, uEvR, uTx, uRx, used_poll, pending,
                 stale, missed, history>>

\* sfc7120_rx_recv, called once for each RX_EV that poll reported.
rx_recv ==
  /\ mode = "direct" /\ ~polling /\ pending # <<>>
  /\ used_poll' = TRUE
  /\ last' = received(rxbuf[uRx])
  /\ rxProd' = uRx
  /\ uRx' = inc(uRx, RxN)
  /\ pending' = Tail(pending)
  /\ UNCHANGED <<rxCons, rxbuf, txCons, txProd, txbuf, evW, evR, evq, kernel,
                 call, mode, uEvR, uTx, polling, stale, missed,
                 arrived, others, posted, sent, confirmed>>

tx_post ==
  /\ mode = "direct" /\ ~polling
  /\ used_poll' = TRUE
  /\ PostTx(uTx)
  /\ uTx' = inc(uTx, TxN)
  /\ UNCHANGED <<rxCons, rxProd, rxbuf, txCons, evW, evR, evq, kernel, call,
                 mode, uEvR, uRx, polling, pending, stale, missed,
                 arrived, others, last, sent, confirmed>>

EndSession ==
  /\ mode' = "none" /\ uEvR' = 0 /\ uTx' = 0 /\ uRx' = 0
  /\ used_poll' = FALSE /\ polling' = FALSE /\ pending' = <<>>

\* Mutant: hands back where the ring was when the session began.
SessionDestroy_noRxHead ==
  /\ mode # "none" /\ kpc = "idle" /\ ~polling
  /\ IF used_poll
       THEN data_evq_read_ptr' = uEvR /\ tx_head' = uTx /\ UNCHANGED rx_head
       ELSE UNCHANGED kernel
  /\ missed' = missed + Len(pending)
  /\ EndSession
  /\ UNCHANGED <<nic, call, stale, history>>

\* sfc7120_destroy: SET_EVQ_RPTR only if the direct path was used.  A session may
\* end with frames announced to it that it did not receive.
SessionDestroy ==
  /\ mode # "none" /\ kpc = "idle" /\ ~polling
  /\ IF used_poll
       THEN data_evq_read_ptr' = uEvR /\ tx_head' = uTx /\ rx_head' = uRx
       ELSE UNCHANGED kernel
  /\ missed' = missed + Len(pending)
  /\ EndSession
  /\ UNCHANGED <<nic, call, stale, history>>

\* The process dies, or its SET_EVQ_RPTR fails: what it moved is not handed
\* back, and "the kernel [is] stale (kldload recovers)".
SessionCrash ==
  /\ mode \in Crashes /\ kpc = "idle"
  /\ stale' = (stale \/ used_poll)
  /\ EndSession
  /\ UNCHANGED <<nic, kernel, call, missed, history>>

Reset ==
  /\ rxCons' = 0 /\ rxProd' = RxN - 1 /\ rxbuf' = [s \in 0..RxN-1 |-> 0]
  /\ txCons' = 0 /\ txProd' = 0 /\ txbuf' = [s \in 0..TxN-1 |-> 0]
  /\ evW' = 0 /\ evR' = 0 /\ evq' = [i \in 0..EvN-1 |-> None]

\* Mutant: rx_head survives the reload.
Kldload_keepsRxHead ==
  /\ mode = "none" /\ kpc = "idle"
  /\ Reset
  /\ data_evq_read_ptr' = 0 /\ tx_head' = 0
  /\ stale' = FALSE /\ missed' = 0
  /\ UNCHANGED <<rx_head, call, mode, uEvR, uTx, uRx, used_poll, polling, pending,
                 history>>

\* The module is unloaded and loaded: new queues, pointers from zero, the
\* receive ring primed again.  What was waiting is gone.
Kldload ==
  /\ mode = "none" /\ kpc = "idle"
  /\ Reset
  /\ data_evq_read_ptr' = 0 /\ tx_head' = 0 /\ rx_head' = 0
  /\ stale' = FALSE /\ missed' = 0
  /\ UNCHANGED <<call, mode, uEvR, uTx, uRx, used_poll, polling, pending, history>>

-----------------------------------------------------------------------------

Nic == NicReceive \/ NicTransmit \/ NicOther
Ioctl == TxBegin \/ TxPoll \/ TxEnd
         \/ RxBegin \/ RxPoll \/ RxTimeout \/ RxCopyout \/ RxCopyoutFails
Direct == Poll \/ PollAck \/ rx_recv \/ tx_post
Session == SessionDestroy \/ SessionCrash \/ Kldload
           \/ \E m \in {"kernel", "direct"} : SessionInit(m)

Next == Nic \/ Ioctl \/ Direct \/ Session

Spec == Init /\ [][Next]_vars

-----------------------------------------------------------------------------
(* Properties.  Those about pointers hold while no session has died with   *)
(* its pointers, and again from the reload on.  RX_EVs do get lost - to a  *)
(* TX ioctl, a failed copyout, a session that polls and leaves - and       *)
(* nothing makes up for them before a reload: the properties say what that *)
(* costs, and that it costs no more.                                       *)

TypeOK ==
  /\ {rxCons, rxProd, rx_head, uRx} \subseteq 0..RxN-1
  /\ {txCons, txProd, tx_head, uTx} \subseteq 0..TxN-1
  /\ {evW, evR, data_evq_read_ptr, uEvR} \subseteq 0..EvN-1
  /\ rxbuf \in [0..RxN-1 -> 0..MaxFrames] /\ txbuf \in [0..TxN-1 -> 0..MaxTx]
  /\ evq \in [0..EvN-1 -> Events] /\ event \in Events
  /\ kpc \in {"idle", "tx", "tx_done", "rx", "rx_copy"}
  /\ mode \in {"none", "kernel", "direct"}
  /\ {consumed, used_poll, polling, stale} \subseteq BOOLEAN
  /\ \A i \in DOMAIN pending : pending[i] \in Events
  /\ missed \in Nat
  /\ arrived \in 0..MaxFrames /\ others \in 0..MaxOther /\ posted \in 0..MaxTx
  /\ last \in 0..MaxFrames /\ sent \subseteq 0..MaxTx /\ confirmed \subseteq 1..MaxTx

\* The pointers in force: the session's on the direct path, else the kernel's.
readPtr == IF mode = "direct" THEN uEvR ELSE data_evq_read_ptr
rxHead  == IF mode = "direct" THEN uRx ELSE rx_head
txHead  == IF mode = "direct" THEN uTx ELSE tx_head

\* RX_EVs announced and not yet received: taken by a call or by a poll, or still
\* in the ring.
Waiting ==
  {e \in {evq[i] : i \in 0..EvN-1} \cup {pending[k] : k \in DOMAIN pending}
          \cup (IF kpc = "rx_copy" THEN {event} ELSE {}) : e.kind = "rx"}
WaitingSlots == {e.idx : e \in Waiting}

\* "Verify the low 4 bits of the descriptor index match rx_head so we know we
\* are reading the right slot": the SFC7120_RX ioctl copies out of the slot that
\* the RX_EV it found names.
EventNamesHead == stale \/ (kpc = "rx_copy" => event.idx = rx_head)

\* A receive, by the RX ioctl or by rx_recv, reads from exactly as many slots
\* before the one its RX_EV names as RX_EVs were missed, and the frame announced
\* is still in its slot: with none missed, a receive reads the frame of its event.
ReadsMissedBehind ==
  \/ stale
  \/ /\ kpc = "rx_copy" => dist(rx_head, event.idx, RxN) = missed
     /\ mode = "direct" /\ pending # <<>> => dist(uRx, pending[1].idx, RxN) = missed
     /\ \A e \in Waiting : e.frame = rxbuf[e.idx]

\* No frame that waits to be read lies in a slot the NIC may write, or in that of
\* another: the doorbell, rung with the pre-increment rx_head, never advertises
\* it.
WaitingSlotsNotNicOwned ==
  \/ stale
  \/ /\ WaitingSlots \cap RxOwned = {}
     /\ \A e, f \in Waiting : e.idx = f.idx => e = f

\* Every slot is either posted to the NIC or holds a frame that waits, but for the
\* doorbell's and one more for each RX_EV that was missed: that many the ring has
\* lost, and no receive brings them back or loses another.
RingLacksMissed ==
  stale \/ (0..RxN-1) \ (RxOwned \cup WaitingSlots)
             = {s \in 0..RxN-1 : dist(rxProd, s, RxN) <= missed}

\* The NIC never writes an event over one that was not consumed, and the
\* reader never skips one: the slots from the read pointer to the write
\* pointer are full and the others empty.
EvqExact ==
  stale \/ \A i \in 0..EvN-1 :
    evq[i] # None <=> dist(readPtr, i, EvN) < dist(readPtr, evW, EvN)

\* Between sessions the kernel's TX and event pointers are the NIC's, whichever path
\* the last session used, and its rx_head is exactly the missed frames behind the
\* first frame that waits; again so when the module was reloaded after a session
\* that died without handing its own back.
AlignedBetweenSessions ==
  mode = "none" /\ ~stale =>
    /\ tx_head = txProd
    /\ evR = data_evq_read_ptr
    /\ WaitingSlots = {s \in 0..RxN-1 :
                          /\ missed <= dist(rx_head, s, RxN)
                          /\ dist(rx_head, s, RxN) < dist(rx_head, rxCons, RxN)}

\* An SFC7120_TX that returns 0 has seen the completion of its own frame,
\* never that of an earlier one that timed out.  (A send at a stale tx_head
\* confirms nothing and is not counted.)
ConfirmedWasSent == confirmed \subseteq sent

\* The frames not handed over, those without an event too, from the head in force
\* to the NIC's index; none when the pointers are lost.
WaitingFrames ==
  IF stale THEN <<>>
  ELSE [k \in 1..dist(rxHead, rxCons, RxN) |-> rxbuf[(rxHead + k - 1) % RxN]]

\* The receive path implements a FIFO of RxN - 1 frames, missed events or not: one
\* delays the frames behind it and reorders, repeats or drops none.  The FIFO fails
\* with a direct session that dies and is as new after "kldload recovers".
Fifo == INSTANCE FrameFifo WITH
          Frames <- 1..MaxFrames, Capacity <- RxN - 1,
          queue <- WaitingFrames, last <- last, up <- ~stale
ReceiveIsFifo == Fifo!FifoSpec
=============================================================================
