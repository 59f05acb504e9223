--------------------------- MODULE DataPathProofs ----------------------------
(***************************************************************************)
(* The three rings of the data path stay consistent for every ring size,   *)
(* any traffic and any sequence of kernel-path and direct-path sessions.   *)
(***************************************************************************)
EXTENDS DataPath, WrapLemmas

\* The sizes are positive, and indices wrap.
LEMMA Sizes ==
  /\ RxN \in Nat \ {0, 1} /\ TxN \in Nat \ {0, 1} /\ EvN \in Nat \ {0, 1}
  /\ RxN \in Nat \ {0} /\ TxN \in Nat \ {0} /\ EvN \in Nat \ {0}
  /\ MaxFrames \in Nat /\ MaxTx \in Nat /\ MaxOther \in Nat
BY SizesAssumption DEF SizesAssumption

\* An index of any of the rings stays in its ring.
LEMMA IncIn ==
  ASSUME NEW S \in Nat \ {0}, NEW i \in 0..S-1
  PROVE  inc(i, S) = After(S, i) /\ inc(i, S) \in 0..S-1
BY AfterIs DEF inc, After

\* What the NIC leaves alone.
LEMMA NicFrame ==
  ASSUME Nic
  PROVE  UNCHANGED <<rxProd, txProd, txbuf, evR, kernel, call, session, posted, last,
                     confirmed>>
<1> USE DEF kernel, call, user, session
<1>1. CASE NicReceive
  BY <1>1 DEF NicReceive
<1>2. CASE NicTransmit
  BY <1>2 DEF NicTransmit
<1>3. CASE NicOther
  BY <1>3 DEF NicOther
<1>4. QED
  BY <1>1, <1>2, <1>3 DEF Nic

-----------------------------------------------------------------------------
(* Sessions and calls.                                                     *)

\* Only a kernel-path session is in a call and only a direct one polls; one that
\* has not used the direct path still has the kernel's pointers.
ModeInv ==
  /\ mode \in {"none", "kernel", "direct"}
  /\ kpc \in {"idle", "tx", "tx_done", "rx", "rx_copy"}
  /\ kpc # "idle" => mode = "kernel"
  /\ consumed => kpc \in {"tx", "tx_done", "rx"}
  /\ used_poll => mode = "direct"
  /\ polling => used_poll
  /\ pending # <<>> => used_poll
  /\ mode = "direct" /\ ~used_poll =>
       uEvR = data_evq_read_ptr /\ uTx = tx_head /\ uRx = rx_head

\* Every step keeps it.
LEMMA ModeStep == ModeInv /\ [Next]_vars => ModeInv'
<1> SUFFICES ASSUME ModeInv, [Next]_vars PROVE ModeInv'
  OBVIOUS
<1> USE DEF ModeInv, nic, kernel, call, user, session, history
<1>1. CASE UNCHANGED vars
  BY <1>1 DEF vars
<1>2. CASE Nic
  BY <1>2, NicFrame
<1>3. CASE TxBegin \/ TxPoll \/ TxEnd
  BY <1>3 DEF TxBegin, TxPoll, TxEnd, KernelConsume, PostTx
<1>4. CASE RxBegin \/ RxPoll \/ RxTimeout \/ RxCopyout \/ RxCopyoutFails
  BY <1>4 DEF RxBegin, RxPoll, RxTimeout, RxCopyout, RxCopyoutFails, KernelConsume
<1>5. CASE Direct
  BY <1>5 DEF Direct, Poll, PollAck, rx_recv, tx_post
<1>6. CASE Session
  BY <1>6 DEF Session, SessionDestroy, SessionCrash, Kldload, SessionInit, EndSession
<1>7. QED
  BY <1>1, <1>2, <1>3, <1>4, <1>5, <1>6 DEF Next, Ioctl

\* It holds throughout.
LEMMA ModeInvariant == Spec => []ModeInv
<1>1. Init => ModeInv
  BY DEF Init, ModeInv
<1>2. QED
  BY <1>1, ModeStep, PTL DEF Spec

-----------------------------------------------------------------------------
(* Types.                                                                  *)

\* The indices.
IndexType ==
  /\ rxCons \in 0..RxN-1 /\ rxProd \in 0..RxN-1 /\ rx_head \in 0..RxN-1 /\ uRx \in 0..RxN-1
  /\ txCons \in 0..TxN-1 /\ txProd \in 0..TxN-1 /\ tx_head \in 0..TxN-1 /\ uTx \in 0..TxN-1
  /\ evW \in 0..EvN-1 /\ evR \in 0..EvN-1 /\ uEvR \in 0..EvN-1
  /\ data_evq_read_ptr \in 0..EvN-1

\* Every step keeps the indices in their rings.
LEMMA IndexStep == IndexType /\ [Next]_vars => IndexType'
<1> SUFFICES ASSUME IndexType, [Next]_vars PROVE IndexType'
  OBVIOUS
<1> USE Sizes DEF nic, kernel, call, user, session, history
<1>0. /\ \A i \in 0..RxN-1 : inc(i, RxN) \in 0..RxN-1
      /\ \A i \in 0..TxN-1 : inc(i, TxN) \in 0..TxN-1
      /\ \A i \in 0..EvN-1 : inc(i, EvN) \in 0..EvN-1
  BY IncIn
<1>1. CASE UNCHANGED vars
  BY <1>1 DEF vars, IndexType
<1>2. CASE NicReceive \/ NicOther
  BY <1>0, <1>2 DEF NicReceive, NicOther, PostEvent, IndexType
<1>3. CASE NicTransmit
  <2>1. PICK k \in 1..dist(txCons, txProd, TxN) : txCons' = (txCons + k) % TxN
    BY <1>3 DEF NicTransmit
  <2>2. dist(txCons, txProd, TxN) \in Nat /\ txCons \in Nat
    BY GapIs DEF dist, Gap, IndexType
  <2>3. txCons + k \in Nat
    BY <2>1, <2>2
  <2>4. txCons' \in 0..TxN-1
    BY <2>1, <2>3, DivMod
  <2>5. QED
    BY <1>0, <1>3, <2>4 DEF NicTransmit, PostEvent, IndexType
<1>4. CASE TxBegin \/ TxPoll \/ TxEnd
  BY <1>0, <1>4 DEF TxBegin, TxPoll, TxEnd, KernelConsume, PostTx, IndexType
<1>5. CASE RxBegin \/ RxPoll \/ RxTimeout \/ RxCopyout \/ RxCopyoutFails
  BY <1>0, <1>5 DEF RxBegin, RxPoll, RxTimeout, RxCopyout, RxCopyoutFails, KernelConsume,
                    IndexType
<1>6. CASE Direct
  BY <1>0, <1>6 DEF Direct, Poll, PollAck, rx_recv, tx_post, PostTx, IndexType
<1>7. CASE Session
  <2> USE DEF IndexType
  <2>1. CASE SessionDestroy
    BY <2>1 DEF SessionDestroy, EndSession
  <2>2. CASE SessionCrash
    BY <2>2 DEF SessionCrash, EndSession
  <2>3. CASE Kldload
    BY <2>3 DEF Kldload, Reset
  <2>4. CASE \E m \in {"kernel", "direct"} : SessionInit(m)
    BY <2>4 DEF SessionInit
  <2>5. QED
    BY <1>7, <2>1, <2>2, <2>3, <2>4 DEF Session
<1>8. QED
  BY <1>1, <1>2, <1>3, <1>4, <1>5, <1>6, <1>7 DEF Next, Nic, Ioctl

\* The buffers, the events and the history; the frame of a call is in its slot.
DataType ==
  /\ rxbuf \in [0..RxN-1 -> 0..MaxFrames] /\ txbuf \in [0..TxN-1 -> 0..MaxTx]
  /\ evq \in [0..EvN-1 -> Events] /\ event \in Events /\ pending \in Seq(Events)
  /\ arrived \in 0..MaxFrames /\ others \in 0..MaxOther /\ posted \in 0..MaxTx
  /\ last \in 0..MaxFrames /\ sent \subseteq 0..MaxTx /\ confirmed \subseteq 1..MaxTx
  /\ kpc \in {"tx", "tx_done"} => txbuf[tx_head] \in 1..MaxTx

\* The empty event, and what the NIC posts.
LEMMA EventTypes ==
  /\ None \in Events
  /\ \A i \in 0..RxN-1, f \in 0..MaxFrames : [kind |-> "rx", idx |-> i, frame |-> f] \in Events
  /\ \A i \in 0..TxN-1 : [kind |-> "tx", idx |-> i, frame |-> 0] \in Events
  /\ [kind |-> "other", idx |-> 0, frame |-> 0] \in Events
BY Sizes DEF None, Events

\* Every step keeps those.
LEMMA DataStep ==
  ASSUME ModeInv, IndexType, DataType, [Next]_vars
  PROVE  DataType'
<1> USE Sizes DEF nic, kernel, call, user, session, history
<1>1. CASE UNCHANGED vars
  BY <1>1 DEF vars, DataType
<1>2. CASE NicReceive
  <2>1. [kind |-> "rx", idx |-> rxCons, frame |-> arrived + 1] \in Events /\ arrived + 1 \in 0..MaxFrames
    BY <1>2, EventTypes DEF NicReceive, IndexType, DataType
  <2>2. QED
    BY <1>2, <2>1 DEF NicReceive, PostEvent, IndexType, DataType
<1>3. CASE NicOther
  <2>1. evq' \in [0..EvN-1 -> Events]
    BY <1>3, EventTypes DEF NicOther, PostEvent, DataType
  <2>2. others' \in 0..MaxOther
    BY <1>3 DEF NicOther, DataType
  <2>3. UNCHANGED <<rxbuf, txbuf, event, pending, arrived, posted, last, sent, confirmed,
                    kpc, tx_head>>
    BY <1>3 DEF NicOther
  <2>4. QED
    BY <2>1, <2>2, <2>3 DEF DataType
<1>4. CASE NicTransmit
  <2>1. PICK k \in 1..dist(txCons, txProd, TxN) :
          /\ sent' = sent \cup {txbuf[s] : s \in {(txCons + i) % TxN : i \in 0..k-1}}
          /\ PostEvent([kind |-> "tx", idx |-> (txCons + k - 1) % TxN, frame |-> 0])
    BY <1>4 DEF NicTransmit
  <2>2. dist(txCons, txProd, TxN) \in Nat /\ txCons \in Nat
    BY GapIs DEF dist, Gap, IndexType
  <2>3. txCons + k - 1 \in Nat /\ \A i \in 0..k-1 : txCons + i \in Nat
    BY <2>1, <2>2
  <2>4. (txCons + k - 1) % TxN \in 0..TxN-1 /\ \A i \in 0..k-1 : (txCons + i) % TxN \in 0..TxN-1
    BY <2>3, DivMod
  <2>5. sent' \subseteq 0..MaxTx
    <3>1. \A s \in {(txCons + i) % TxN : i \in 0..k-1} : s \in 0..TxN-1
      BY <2>4
    <3>2. \A s \in 0..TxN-1 : txbuf[s] \in 0..MaxTx
      BY DEF DataType
    <3>3. QED
      BY <2>1, <3>1, <3>2 DEF DataType
  <2>6. evq' \in [0..EvN-1 -> Events]
    BY <2>1, <2>4, EventTypes DEF PostEvent, IndexType, DataType
  <2>7. QED
    BY <1>4, <2>5, <2>6 DEF NicTransmit, DataType
<1>5. CASE TxBegin
  <2>1. txbuf' = [txbuf EXCEPT ![tx_head] = posted'] /\ posted' \in 1..MaxTx
    BY <1>5 DEF TxBegin, PostTx, DataType
  <2>2. txbuf' \in [0..TxN-1 -> 0..MaxTx] /\ txbuf'[tx_head] \in 1..MaxTx
    BY <2>1 DEF IndexType, DataType
  <2>3. UNCHANGED <<rxbuf, evq, event, pending, arrived, others, last, sent, confirmed,
                    tx_head>>
    BY <1>5 DEF TxBegin
  <2>4. QED
    BY <2>1, <2>2, <2>3 DEF DataType
<1>6. CASE TxPoll
  <2>1. evq' \in [0..EvN-1 -> Events]
    BY <1>6, EventTypes DEF TxPoll, KernelConsume, DataType
  <2>2. /\ UNCHANGED <<rxbuf, txbuf, event, pending, arrived, others, posted, last, sent,
                       confirmed, tx_head>>
        /\ kpc = "tx"
    BY <1>6 DEF TxPoll
  <2>3. QED
    BY <2>1, <2>2 DEF DataType
<1>7. CASE TxEnd
  BY <1>7 DEF TxEnd, IndexType, DataType
<1>8. CASE RxBegin \/ RxTimeout \/ RxCopyoutFails
  BY <1>8, EventTypes DEF RxBegin, RxTimeout, RxCopyoutFails, IndexType, DataType
<1>9. CASE RxPoll
  <2>1. evq' \in [0..EvN-1 -> Events] /\ evq[data_evq_read_ptr] \in Events
    BY <1>9, EventTypes DEF RxPoll, KernelConsume, IndexType, DataType
  <2>2. event' \in Events /\ kpc' \in {"rx", "rx_copy"}
    BY <1>9, <2>1 DEF RxPoll, DataType
  <2>3. UNCHANGED <<rxbuf, txbuf, pending, arrived, others, posted, last, sent,
                    confirmed, tx_head>>
    BY <1>9 DEF RxPoll
  <2>4. QED
    BY <2>1, <2>2, <2>3 DEF DataType
<1>10. CASE RxCopyout
  BY <1>10, EventTypes DEF RxCopyout, received, IndexType, DataType
<1>11. CASE Poll
  <2>1. evq[uEvR] \in Events
    BY DEF IndexType, DataType
  <2>2. pending' \in Seq(Events)
    BY <1>11, <2>1 DEF Poll, DataType
  <2>3. QED
    BY <1>11, <2>2, EventTypes DEF Poll, IndexType, DataType
<1>12. CASE PollAck
  BY <1>12 DEF PollAck, DataType
<1>13. CASE rx_recv
  <2>1. pending' \in Seq(Events)
    BY <1>13 DEF rx_recv, DataType
  <2>2. QED
    BY <1>13, <2>1 DEF rx_recv, received, IndexType, DataType
<1>14. CASE tx_post
  <2>1. txbuf' = [txbuf EXCEPT ![uTx] = posted'] /\ posted' \in 1..MaxTx
    BY <1>14 DEF tx_post, PostTx, DataType
  <2>2. txbuf' \in [0..TxN-1 -> 0..MaxTx]
    BY <2>1 DEF IndexType, DataType
  <2>3. kpc = "idle"
    BY <1>14 DEF tx_post, ModeInv
  <2>4. QED
    BY <1>14, <2>1, <2>2, <2>3 DEF tx_post, DataType
<1>15. CASE SessionDestroy \/ SessionCrash
  <2>1. pending' = <<>> /\ kpc' = "idle"
    BY <1>15 DEF SessionDestroy, SessionCrash, EndSession
  <2>2. <<>> \in Seq(Events)
    OBVIOUS
  <2>3. UNCHANGED <<nic, event, history>>
    BY <1>15 DEF SessionDestroy, SessionCrash
  <2>4. QED
    BY <2>1, <2>2, <2>3 DEF DataType
<1>16. CASE Kldload
  BY <1>16, EventTypes DEF Kldload, Reset, DataType
<1>17. CASE \E m \in {"kernel", "direct"} : SessionInit(m)
  BY <1>17 DEF SessionInit, DataType
<1>18. QED
  BY <1>1, <1>2, <1>3, <1>4, <1>5, <1>6, <1>7, <1>8, <1>9, <1>10, <1>11, <1>12, <1>13,
     <1>14, <1>15, <1>16, <1>17 DEF Next, Nic, Ioctl, Direct, Session

\* The booleans.
BoolType == consumed \in BOOLEAN /\ used_poll \in BOOLEAN /\ polling \in BOOLEAN
            /\ stale \in BOOLEAN

\* Every step keeps them.
LEMMA BoolStep == BoolType /\ [Next]_vars => BoolType'
<1> SUFFICES ASSUME BoolType, [Next]_vars PROVE BoolType'
  OBVIOUS
<1> USE DEF BoolType, call, user, session
<1>1. CASE UNCHANGED vars
  BY <1>1 DEF vars
<1>2. CASE Nic
  BY <1>2, NicFrame
<1>3. CASE TxBegin \/ TxPoll \/ TxEnd
  BY <1>3, Zenon DEF TxBegin, TxPoll, TxEnd
<1>4. CASE RxBegin \/ RxPoll \/ RxTimeout \/ RxCopyout \/ RxCopyoutFails
  BY <1>4, Zenon DEF RxBegin, RxPoll, RxTimeout, RxCopyout, RxCopyoutFails
<1>5. CASE Direct
  BY <1>5, Zenon DEF Direct, Poll, PollAck, rx_recv, tx_post
<1>6. CASE Session
  BY <1>6, Zenon DEF Session, SessionDestroy, SessionCrash, Kldload, SessionInit, EndSession
<1>7. QED
  BY <1>1, <1>2, <1>3, <1>4, <1>5, <1>6 DEF Next, Ioctl

MissedType == missed \in Nat

\* The count of what was missed stays one.
LEMMA MissedStep ==
  ASSUME DataType, MissedType, [Next]_vars
  PROVE  MissedType'
<1> USE DEF MissedType, user, session
<1>0. Len(pending) \in Nat
  BY DEF DataType
<1>1. CASE UNCHANGED vars
  BY <1>1 DEF vars
<1>2. CASE Nic
  BY <1>2, NicFrame
<1>3. CASE TxBegin \/ TxPoll \/ TxEnd
  BY <1>3 DEF TxBegin, TxPoll, TxEnd
<1>4. CASE RxBegin \/ RxPoll \/ RxTimeout \/ RxCopyout \/ RxCopyoutFails
  BY <1>4 DEF RxBegin, RxPoll, RxTimeout, RxCopyout, RxCopyoutFails
<1>5. CASE Direct
  BY <1>5 DEF Direct, Poll, PollAck, rx_recv, tx_post
<1>6. CASE Session
  BY <1>0, <1>6 DEF Session, SessionDestroy, SessionCrash, Kldload, SessionInit
<1>7. QED
  BY <1>1, <1>2, <1>3, <1>4, <1>5, <1>6 DEF Next, Ioctl

DType == IndexType /\ DataType /\ MissedType

\* The types hold throughout.
LEMMA TypeInvariant == Spec => [](DType /\ BoolType)
<1>1. Init => IndexType
  BY Sizes DEF Init, IndexType
<1>2. Init => DataType
  <2>1. <<>> \in Seq(Events)
    OBVIOUS
  <2>2. QED
    BY <2>1, Sizes, EventTypes DEF Init, DataType
<1>3. Init => BoolType
  BY Zenon DEF Init, BoolType
<1>4. ModeInv /\ IndexType /\ DataType /\ [Next]_vars => DataType'
  BY DataStep
<1>5. DataType /\ MissedType /\ [Next]_vars => MissedType'
  BY MissedStep
<1>6. Init => MissedType
  BY DEF Init, MissedType
<1>7. QED
  BY <1>1, <1>2, <1>3, <1>4, <1>5, <1>6, IndexStep, BoolStep, ModeInvariant, PTL DEF Spec, DType

\* Every variable keeps its type: indices stay in their rings, and a send that is
\* reported done has a frame.
THEOREM DataTypeTheorem == Spec => []TypeOK
<1>1. ModeInv /\ DType /\ BoolType => TypeOK
  <2> SUFFICES ASSUME ModeInv, DType, BoolType PROVE TypeOK
    OBVIOUS
  <2>1. /\ {rxCons, rxProd, rx_head, uRx} \subseteq 0..RxN-1
        /\ {txCons, txProd, tx_head, uTx} \subseteq 0..TxN-1
        /\ {evW, evR, data_evq_read_ptr, uEvR} \subseteq 0..EvN-1
    BY DEF DType, IndexType
  <2>2. \A i \in DOMAIN pending : pending[i] \in Events
    BY DEF DType, DataType
  <2>3. {consumed, used_poll, polling, stale} \subseteq BOOLEAN
    BY Zenon DEF BoolType
  <2>4. QED
    BY <2>1, <2>2, <2>3, Zenon DEF ModeInv, DType, DataType, MissedType, TypeOK
<1>2. QED
  BY <1>1, ModeInvariant, TypeInvariant, PTL

-----------------------------------------------------------------------------
(* The event queue.                                                        *)

\* The unconsumed events lie from the read pointer in force to the NIC's index.
Exact == \A i \in 0..EvN-1 :
           evq[i] # None <=> Gap(EvN, readPtr, i) < Gap(EvN, readPtr, evW)

\* The doorbell lags behind the read pointer, by what a call or a poll under way
\* has consumed.
EvqInv ==
  ~stale => /\ Exact
            /\ Gap(EvN, evR, readPtr) <= Gap(EvN, evR, evW)
            /\ ~consumed /\ ~polling => evR = readPtr

\* The read pointer in force is one.
LEMMA ReadPtrType == DType => readPtr \in 0..EvN-1
BY DEF DType, IndexType, readPtr

\* The reader consumes one event.
LEMMA ConsumeExact ==
  ASSUME DType, Exact, evq[readPtr] # None,
         Gap(EvN, evR, readPtr) <= Gap(EvN, evR, evW),
         evq' = [evq EXCEPT ![readPtr] = None], readPtr' = After(EvN, readPtr), evW' = evW
  PROVE  /\ Exact'
         /\ Gap(EvN, evR, After(EvN, readPtr)) <= Gap(EvN, evR, evW)
<1> DEFINE r == readPtr
           a == After(EvN, r)
<1>1. /\ r \in 0..EvN-1 /\ evW \in 0..EvN-1 /\ evR \in 0..EvN-1 /\ EvN \in Nat \ {0}
      /\ evq \in [0..EvN-1 -> Events]
  BY Sizes, ReadPtrType DEF DType, IndexType, DataType
<1>2. r # evW
  <2>1. Gap(EvN, r, r) < Gap(EvN, r, evW)
    BY <1>1 DEF Exact
  <2>2. Gap(EvN, r, r) \in Int
    BY <1>1, GapZero
  <2>3. QED
    BY <2>1, <2>2
<1>3. ASSUME NEW i \in 0..EvN-1
      PROVE  evq'[i] # None <=> Gap(EvN, a, i) < Gap(EvN, a, evW)
  <2>1. evq'[i] # None <=> i # r /\ Gap(EvN, r, i) < Gap(EvN, r, evW)
    BY <1>1 DEF Exact
  <2>2. QED
    BY <1>1, <1>2, <2>1, ReadShrinks
<1>4. Gap(EvN, evR, a) <= Gap(EvN, evR, evW)
  BY <1>1, <1>2, ReadBetween
<1>5. QED
  BY <1>3, <1>4 DEF Exact

\* The NIC posts one.
LEMMA PostExact ==
  ASSUME DType, Exact, NEW e, e # None, EvqRoom, PostEvent(e),
         Gap(EvN, evR, readPtr) <= Gap(EvN, evR, evW),
         readPtr' = readPtr
  PROVE  /\ Exact'
         /\ Gap(EvN, evR, readPtr) <= Gap(EvN, evR, evW')
         /\ evq[evW] = None
<1> DEFINE r == readPtr
           w == evW
           a == After(EvN, w)
<1>1. /\ r \in 0..EvN-1 /\ w \in 0..EvN-1 /\ evR \in 0..EvN-1 /\ EvN \in Nat \ {0}
      /\ evq \in [0..EvN-1 -> Events] /\ evW' = a /\ a # evR
      /\ evq' = [evq EXCEPT ![w] = e]
  BY Sizes, ReadPtrType, IncIn DEF DType, IndexType, DataType, EvqRoom, PostEvent
<1>2. a # r /\ Gap(EvN, evR, r) <= Gap(EvN, evR, a)
  BY <1>1, WriteBetween
<1>3. ASSUME NEW i \in 0..EvN-1
      PROVE  evq'[i] # None <=> Gap(EvN, r, i) < Gap(EvN, r, a)
  <2>1. evq'[i] # None <=> i = w \/ Gap(EvN, r, i) < Gap(EvN, r, w)
    BY <1>1 DEF Exact
  <2>2. QED
    BY <1>1, <1>2, <2>1, WriteGrows
<1>4. evq[w] = None
  <2>1. Gap(EvN, r, w) \in Int
    BY <1>1, GapZero
  <2>2. QED
    BY <1>1, <2>1 DEF Exact
<1>5. QED
  BY <1>1, <1>2, <1>3, <1>4 DEF Exact

\* Empty rings are exact.
LEMMA EmptyExact ==
  evq = [i \in 0..EvN-1 |-> None] /\ evW = 0 /\ readPtr = 0 => Exact
<1>1. Gap(EvN, 0, 0) = 0 /\ \A i \in 0..EvN-1 : Gap(EvN, 0, i) \in 0..EvN-1
  BY Sizes, GapZero
<1>2. QED
  BY <1>1 DEF Exact

\* Every step keeps the invariant.
LEMMA EvqStep ==
  ASSUME DType, ModeInv, EvqInv, [Next]_vars
  PROVE  EvqInv'
<1> USE DEF nic, kernel, call, user, session, history
<1>0. /\ \A i \in 0..EvN-1 : inc(i, EvN) = After(EvN, i)
      /\ readPtr \in 0..EvN-1 /\ evW \in 0..EvN-1 /\ evR \in 0..EvN-1
      /\ Gap(EvN, readPtr, readPtr) = 0 /\ Gap(EvN, readPtr, evW) \in 0..EvN-1
  BY Sizes, IncIn, ReadPtrType, GapZero DEF DType, IndexType
<1>1. CASE UNCHANGED vars
  BY <1>1 DEF vars, EvqInv, Exact, readPtr
<1>2. CASE Nic
  <2>1. /\ UNCHANGED <<evR, stale, consumed, polling>> /\ readPtr' = readPtr
    BY <1>2, NicFrame DEF readPtr
  <2>2. EvqRoom /\ \E e : e # None /\ PostEvent(e)
    <3>1. CASE NicReceive
      BY <3>1 DEF NicReceive, None
    <3>2. CASE NicTransmit
      BY <3>2 DEF NicTransmit, None
    <3>3. CASE NicOther
      BY <3>3 DEF NicOther, None
    <3>4. QED
      BY <1>2, <3>1, <3>2, <3>3 DEF Nic
  <2>3. QED
    BY <2>1, <2>2, PostExact DEF EvqInv
<1>3. CASE TxBegin \/ RxBegin \/ RxCopyout \/ RxCopyoutFails
  <2>1. UNCHANGED <<evR, evW, evq, stale, polling, mode, uEvR, data_evq_read_ptr>>
    BY <1>3 DEF TxBegin, RxBegin, RxCopyout, RxCopyoutFails
  <2>2. ~consumed
    BY <1>3 DEF TxBegin, RxBegin, RxCopyout, RxCopyoutFails, ModeInv
  <2>3. QED
    BY <2>1, <2>2 DEF EvqInv, Exact, readPtr
<1>4. CASE TxPoll
  <2>1. /\ mode = "kernel" /\ mode' = "kernel" /\ readPtr = data_evq_read_ptr /\ consumed'
        /\ UNCHANGED <<evR, evW, stale>> /\ readPtr' = After(EvN, readPtr)
        /\ evq[readPtr] # None /\ evq' = [evq EXCEPT ![readPtr] = None]
    BY <1>0, <1>4 DEF TxPoll, KernelConsume, ModeInv, readPtr
  <2>2. QED
    BY <2>1, ConsumeExact DEF EvqInv
<1>5. CASE RxPoll
  <2>1. /\ mode = "kernel" /\ mode' = "kernel" /\ readPtr = data_evq_read_ptr
        /\ UNCHANGED <<evW, stale, polling>> /\ readPtr' = After(EvN, readPtr)
        /\ evq[readPtr] # None /\ evq' = [evq EXCEPT ![readPtr] = None]
        /\ (evR' = evR /\ consumed') \/ (evR' = readPtr')
    BY <1>0, <1>5 DEF RxPoll, KernelConsume, ModeInv, readPtr
  <2>2. /\ readPtr' \in 0..EvN-1 /\ EvN \in Nat \ {0}
    BY <1>0, <2>1, Sizes, AfterIs
  <2>3. Gap(EvN, readPtr', readPtr') = 0 /\ Gap(EvN, readPtr', evW) \in 0..EvN-1
    BY <1>0, <2>2, GapZero
  <2>4. ~stale => Exact' /\ Gap(EvN, evR, readPtr') <= Gap(EvN, evR, evW)
    BY <2>1, ConsumeExact DEF EvqInv
  <2>5. QED
    BY <2>1, <2>3, <2>4 DEF EvqInv
<1>6. CASE TxEnd \/ RxTimeout
  <2>1. /\ mode = "kernel" /\ UNCHANGED <<evq, evW, stale, mode, data_evq_read_ptr, polling>>
        /\ evR' = (IF consumed THEN readPtr ELSE evR) /\ ~polling
    BY <1>6 DEF TxEnd, RxTimeout, ModeInv, readPtr
  <2>2. readPtr' = readPtr
    BY <2>1 DEF readPtr
  <2>3. ~stale => evR' = readPtr
    BY <2>1 DEF EvqInv
  <2>4. QED
    BY <1>0, <2>1, <2>2, <2>3 DEF EvqInv, Exact
<1>7. CASE Poll
  <2>1. /\ mode = "direct" /\ mode' = "direct" /\ readPtr = uEvR /\ polling'
        /\ UNCHANGED <<evR, evW, stale>> /\ readPtr' = After(EvN, readPtr)
        /\ evq[readPtr] # None /\ evq' = [evq EXCEPT ![readPtr] = None]
    BY <1>0, <1>7 DEF Poll, readPtr
  <2>2. QED
    BY <2>1, ConsumeExact DEF EvqInv
<1>8. CASE PollAck
  <2>1. /\ mode = "direct" /\ UNCHANGED <<evq, evW, stale, mode, uEvR>> /\ evR' = readPtr
    BY <1>8 DEF PollAck, ModeInv, readPtr
  <2>2. readPtr' = readPtr
    BY <2>1 DEF readPtr
  <2>3. QED
    BY <1>0, <2>1, <2>2 DEF EvqInv, Exact
<1>9. CASE rx_recv \/ tx_post
  <2>1. UNCHANGED <<evR, evW, evq, stale, consumed, polling, mode, uEvR, data_evq_read_ptr>>
    BY <1>9 DEF rx_recv, tx_post
  <2>2. QED
    BY <2>1 DEF EvqInv, Exact, readPtr
<1>10. CASE SessionDestroy \/ SessionCrash
  <2>1. /\ UNCHANGED <<evR, evW, evq, consumed>> /\ mode' = "none" /\ ~consumed
    BY <1>10 DEF SessionDestroy, SessionCrash, EndSession, ModeInv
  <2>2. ~stale' => ~stale /\ ~polling /\ readPtr' = readPtr
    <3>1. CASE SessionDestroy
      BY <3>1 DEF SessionDestroy, EndSession, ModeInv, readPtr
    <3>2. CASE SessionCrash
      BY <3>2 DEF SessionCrash, EndSession, ModeInv, readPtr
    <3>3. QED
      BY <1>10, <3>1, <3>2
  <2>3. QED
    BY <2>1, <2>2 DEF EvqInv, Exact
<1>11. CASE Kldload
  <2>1. /\ evq' = [i \in 0..EvN-1 |-> None] /\ evW' = 0 /\ evR' = 0 /\ readPtr' = 0
    BY <1>11 DEF Kldload, Reset, readPtr
  <2>2. Exact'
    <3>1. (evq = [i \in 0..EvN-1 |-> None] /\ evW = 0 /\ readPtr = 0 => Exact)'
      BY EmptyExact, PTL
    <3>2. QED
      BY <2>1, <3>1
  <2>3. Gap(EvN, 0, 0) = 0
    BY Sizes, GapZero
  <2>4. QED
    BY <2>1, <2>2, <2>3 DEF EvqInv
<1>12. CASE \E m \in {"kernel", "direct"} : SessionInit(m)
  <2>1. UNCHANGED <<evR, evW, evq, stale, consumed, polling>> /\ readPtr' = readPtr
    BY <1>12 DEF SessionInit, readPtr
  <2>2. QED
    BY <2>1 DEF EvqInv, Exact
<1>13. QED
  BY <1>1, <1>2, <1>3, <1>4, <1>5, <1>6, <1>7, <1>8, <1>9, <1>10, <1>11, <1>12
     DEF Next, Ioctl, Direct, Session

\* It holds throughout.
LEMMA EvqInvariant == Spec => []EvqInv
<1>1. Init => EvqInv
  <2> SUFFICES ASSUME Init PROVE EvqInv
    OBVIOUS
  <2>1. evq = [i \in 0..EvN-1 |-> None] /\ evW = 0 /\ readPtr = 0 /\ evR = 0
    BY DEF Init, readPtr
  <2>2. Gap(EvN, 0, 0) = 0
    BY Sizes, GapZero
  <2>3. QED
    BY <2>1, <2>2, EmptyExact DEF EvqInv
<1>2. DType /\ ModeInv /\ EvqInv /\ [Next]_vars => EvqInv'
  BY EvqStep
<1>3. QED
  BY <1>1, <1>2, ModeInvariant, TypeInvariant, PTL DEF Spec

\* No event is overwritten and none is skipped, for every queue size, whichever
\* path consumes them and whatever traffic there is.
THEOREM EvqTheorem == Spec => []EvqExact
<1>1. EvqInv => EvqExact
  BY DEF EvqInv, Exact, EvqExact, dist, Gap
<1>2. QED
  BY <1>1, EvqInvariant, PTL

-----------------------------------------------------------------------------
(* The transmit ring.                                                      *)

\* The head in force is the doorbell, but for the call that has just rung it.
TxPtr ==
  ~stale => /\ kpc \notin {"tx", "tx_done"} => txHead = txProd
            /\ kpc \in {"tx", "tx_done"} => txProd = inc(tx_head, TxN)

\* Every step keeps that.
LEMMA TxPtrStep ==
  ASSUME ModeInv, TxPtr, [Next]_vars
  PROVE  TxPtr'
<1> USE DEF nic, kernel, call, user, session, history, TxPtr, txHead
<1>1. CASE UNCHANGED vars
  BY <1>1 DEF vars
<1>2. CASE Nic
  BY <1>2, NicFrame
<1>3. CASE TxBegin \/ TxPoll \/ TxEnd
  BY <1>3 DEF TxBegin, TxPoll, TxEnd, PostTx, KernelConsume, ModeInv
<1>4. CASE RxBegin \/ RxPoll \/ RxTimeout \/ RxCopyout \/ RxCopyoutFails
  BY <1>4 DEF RxBegin, RxPoll, RxTimeout, RxCopyout, RxCopyoutFails, KernelConsume
<1>5. CASE Direct
  BY <1>5 DEF Direct, Poll, PollAck, rx_recv, tx_post, PostTx, ModeInv
<1>6. CASE SessionDestroy
  BY <1>6 DEF SessionDestroy, EndSession, ModeInv
<1>7. CASE SessionCrash
  BY <1>7 DEF SessionCrash, EndSession, ModeInv
<1>8. CASE Kldload
  BY <1>8 DEF Kldload, Reset
<1>9. CASE \E m \in {"kernel", "direct"} : SessionInit(m)
  BY <1>9 DEF SessionInit, ModeInv
<1>10. QED
  BY <1>1, <1>2, <1>3, <1>4, <1>5, <1>6, <1>7, <1>8, <1>9 DEF Next, Ioctl, Session

\* It holds throughout.
LEMMA TxPtrInvariant == Spec => []TxPtr
<1>1. Init => TxPtr
  BY DEF Init, TxPtr, txHead
<1>2. ModeInv /\ TxPtr /\ [Next]_vars => TxPtr'
  BY TxPtrStep
<1>3. QED
  BY <1>1, <1>2, ModeInvariant, PTL DEF Spec

\* A completion that waits in the queue is for a slot whose frame was sent, and
\* which is not the next to be written.
Done(i) == evq[i].kind = "tx" =>
             evq[i].idx \in 0..TxN-1 /\ evq[i].idx # txProd /\ txbuf[evq[i].idx] \in sent

SentInv ==
  /\ confirmed \subseteq sent
  /\ ~stale => /\ \A i \in 0..EvN-1 : Done(i)
               /\ kpc = "tx_done" => txbuf[tx_head] \in sent

\* A sender with room writes a slot that no completion is about.
LEMMA PostDone ==
  ASSUME DType, SentInv, ~stale, ~Overruns, NEW head \in 0..TxN-1, head = txProd,
         PostTx(head), UNCHANGED <<evq, sent>>
  PROVE  \A i \in 0..EvN-1 : Done(i)'
<1> TAKE i \in 0..EvN-1
<1>1. /\ TxRoom(head) /\ txbuf' = [txbuf EXCEPT ![head] = posted + 1]
      /\ txProd' = inc(head, TxN) /\ txbuf \in [0..TxN-1 -> 0..MaxTx]
  BY DEF PostTx, DType, DataType
<1>2. Done(i)
  BY DEF SentInv
<1>3. QED
  BY <1>1, <1>2 DEF Done, TxRoom

\* Every step keeps the invariant, if senders leave room.
LEMMA SentStep ==
  ASSUME ~Overruns, DType, ModeInv, TxPtr, SentInv, [Next]_vars
  PROVE  SentInv'
<1> USE DEF nic, kernel, call, user, session, history
<1>0. /\ readPtr \in 0..EvN-1 /\ tx_head \in 0..TxN-1 /\ uTx \in 0..TxN-1
      /\ uEvR \in 0..EvN-1 /\ data_evq_read_ptr \in 0..EvN-1
      /\ evq \in [0..EvN-1 -> Events] /\ evW \in 0..EvN-1
  BY ReadPtrType DEF DType, IndexType, DataType
<1>1. CASE UNCHANGED vars
  BY <1>1 DEF vars, SentInv, Done
<1>2. CASE NicReceive \/ NicOther
  <2>1. /\ UNCHANGED <<txProd, txbuf, sent, confirmed, stale, kpc, tx_head>>
        /\ \E e : e.kind # "tx" /\ evq' = [evq EXCEPT ![evW] = e]
    BY <1>2 DEF NicReceive, NicOther, PostEvent
  <2>2. QED
    BY <1>0, <2>1 DEF SentInv, Done
<1>3. CASE NicTransmit
  <2>1. PICK k \in 1..dist(txCons, txProd, TxN) :
          /\ sent' = sent \cup {txbuf[s] : s \in {(txCons + i) % TxN : i \in 0..k-1}}
          /\ evq' = [evq EXCEPT ![evW] = [kind |-> "tx", idx |-> (txCons + k - 1) % TxN,
                                          frame |-> 0]]
    BY <1>3 DEF NicTransmit, PostEvent
  <2>2. UNCHANGED <<txProd, txbuf, confirmed, stale, kpc, tx_head>>
    BY <1>3, NicFrame DEF Nic
  <2> DEFINE j == k - 1
             s == (txCons + j) % TxN
  <2>3. /\ txCons \in 0..TxN-1 /\ txProd \in 0..TxN-1 /\ TxN \in Nat \ {0}
        /\ Gap(TxN, txCons, txProd) \in 0..TxN-1 /\ k \in 1..Gap(TxN, txCons, txProd)
    BY <2>1, Sizes, GapZero DEF DType, IndexType, dist, Gap
  <2>4. j \in 0..TxN-1 /\ txCons + k - 1 = txCons + j /\ j < Gap(TxN, txCons, txProd)
        /\ j \in 0..k-1
    BY <2>3
  <2>5. s \in 0..TxN-1 /\ s # txProd
    <3>1. s \in 0..TxN-1 /\ Gap(TxN, txCons, s) = j
      BY <2>3, <2>4, Forward
    <3> HIDE DEF s
    <3>2. QED
      BY <2>4, <3>1
  <2>6. txbuf[s] \in sent' /\ evq'[evW].idx = s /\ sent \subseteq sent'
    BY <1>0, <2>1, <2>4
  <2> HIDE DEF j, s
  <2>7. ~stale => \A i \in 0..EvN-1 : Done(i)'
    BY <1>0, <2>1, <2>2, <2>5, <2>6 DEF SentInv, Done
  <2>8. QED
    BY <2>2, <2>6, <2>7 DEF SentInv
<1>4. CASE TxBegin
  <2>1. /\ kpc = "idle" /\ PostTx(tx_head) /\ UNCHANGED <<evq, sent, confirmed, stale>>
        /\ kpc' = "tx" /\ mode = "kernel"
    BY <1>4 DEF TxBegin
  <2>2. ~stale => tx_head = txProd
    BY <2>1 DEF TxPtr, txHead
  <2>3. QED
    BY <1>0, <2>1, <2>2, PostDone DEF SentInv
<1>5. CASE TxPoll
  <2>1. /\ evq' = [evq EXCEPT ![data_evq_read_ptr] = None]
        /\ UNCHANGED <<txProd, txbuf, sent, confirmed, stale, tx_head>>
        /\ kpc' = "tx_done" => evq[data_evq_read_ptr].kind = "tx"
                               /\ evq[data_evq_read_ptr].idx = tx_head
    BY <1>5 DEF TxPoll, KernelConsume
  <2>2. ~stale => \A i \in 0..EvN-1 : Done(i)'
    BY <1>0, <2>1 DEF SentInv, Done, None
  <2>3. ~stale /\ kpc' = "tx_done" => txbuf[tx_head] \in sent
    BY <1>0, <2>1 DEF SentInv, Done
  <2>4. QED
    BY <2>1, <2>2, <2>3 DEF SentInv
<1>6. CASE TxEnd
  <2>1. /\ UNCHANGED <<txProd, txbuf, sent, stale, evq>> /\ kpc' = "idle"
        /\ confirmed' = confirmed
           \/ (kpc = "tx_done" /\ ~stale /\ confirmed' = confirmed \cup {txbuf[tx_head]})
    BY <1>6 DEF TxEnd
  <2>2. QED
    BY <2>1 DEF SentInv, Done
<1>7. CASE RxPoll \/ Poll
  <2>1. /\ \E i \in 0..EvN-1 : evq' = [evq EXCEPT ![i] = None]
        /\ UNCHANGED <<txProd, txbuf, sent, confirmed, stale, tx_head>>
        /\ kpc' # "tx_done"
    BY <1>0, <1>7 DEF RxPoll, Poll, KernelConsume, ModeInv
  <2>2. QED
    BY <1>0, <2>1 DEF SentInv, Done, None
<1>8. CASE RxBegin \/ RxTimeout \/ RxCopyout \/ RxCopyoutFails
  <2>1. UNCHANGED <<txProd, txbuf, sent, confirmed, stale, evq>> /\ kpc' # "tx_done"
    BY <1>8 DEF RxBegin, RxTimeout, RxCopyout, RxCopyoutFails
  <2>2. QED
    BY <2>1 DEF SentInv, Done
<1>9. CASE PollAck \/ rx_recv
  <2>1. UNCHANGED <<txProd, txbuf, sent, confirmed, stale, evq, kpc, tx_head>>
    BY <1>9 DEF PollAck, rx_recv
  <2>2. QED
    BY <2>1 DEF SentInv, Done
<1>10. CASE tx_post
  <2>1. /\ kpc' = "idle" /\ PostTx(uTx) /\ UNCHANGED <<evq, sent, confirmed, stale>>
        /\ kpc = "idle" /\ mode = "direct"
    BY <1>10 DEF tx_post, ModeInv
  <2>2. ~stale => uTx = txProd
    BY <2>1 DEF TxPtr, txHead
  <2>3. QED
    BY <1>0, <2>1, <2>2, PostDone DEF SentInv
<1>11. CASE SessionDestroy \/ SessionCrash
  <2>1. UNCHANGED <<txProd, txbuf, sent, confirmed, evq>> /\ kpc' = "idle"
    BY <1>11 DEF SessionDestroy, SessionCrash
  <2>2. ~stale' => ~stale
    <3>1. CASE SessionDestroy
      BY <3>1 DEF SessionDestroy
    <3>2. CASE SessionCrash
      BY <3>2 DEF SessionCrash
    <3>3. QED
      BY <1>11, <3>1, <3>2
  <2>3. QED
    BY <2>1, <2>2 DEF SentInv, Done
<1>12. CASE Kldload
  BY <1>12 DEF Kldload, Reset, SentInv, Done, None
<1>13. CASE \E m \in {"kernel", "direct"} : SessionInit(m)
  <2>1. UNCHANGED <<txProd, txbuf, sent, confirmed, stale, evq, kpc, tx_head>>
    BY <1>13 DEF SessionInit
  <2>2. QED
    BY <2>1 DEF SentInv, Done
<1>14. QED
  BY <1>1, <1>2, <1>3, <1>4, <1>5, <1>6, <1>7, <1>8, <1>9, <1>10, <1>11, <1>12, <1>13
     DEF Next, Nic, Ioctl, Direct, Session

\* A send that the ioctl reports as done was done, for every ring size and any
\* order of time-outs and late completions, as long as senders do not run a whole
\* ring ahead.
THEOREM ConfirmedTheorem ==
  ASSUME ~Overruns PROVE Spec => []ConfirmedWasSent
<1>1. Init => SentInv
  BY DEF Init, SentInv, Done, None
<1>2. DType /\ ModeInv /\ TxPtr /\ SentInv /\ [Next]_vars => SentInv'
  BY SentStep
<1>3. SentInv => ConfirmedWasSent
  BY DEF SentInv, ConfirmedWasSent
<1>4. QED
  BY <1>1, <1>2, <1>3, ModeInvariant, TypeInvariant, TxPtrInvariant, PTL DEF Spec

-----------------------------------------------------------------------------
(* The receive ring.                                                       *)

\* Frames from the head on whose RX_EV is no longer in the queue: those that were
\* missed and those that a call or the polls have taken and not yet received.
\* A miss turns one of the latter into one of the former.
inHand == IF kpc = "rx_copy" THEN 1 ELSE Len(pending)
taken == missed + inHand

\* The frames that the NIC has written lie from the head in force up to rxCons.
Full == Gap(RxN, rxHead, rxCons)

\* The doorbell is one slot behind the head.
Doorbell == After(RxN, rxProd) = rxHead

\* Events in hand name the first slots after the missed ones, in their order.
InHand ==
  /\ taken <= Full
  /\ kpc = "rx_copy" => /\ event.kind = "rx" /\ event.idx \in 0..RxN-1
                        /\ Gap(RxN, rxHead, event.idx) = missed
                        /\ event.frame = rxbuf[event.idx]
  /\ \A k \in 1..Len(pending) :
       /\ pending[k].kind = "rx" /\ pending[k].idx \in 0..RxN-1
       /\ Gap(RxN, rxHead, pending[k].idx) = missed + (k - 1)
       /\ pending[k].frame = rxbuf[pending[k].idx]

IsRx(i) == evq[i].kind = "rx"

\* Events in the queue name the slots after those, ...
InRing ==
  \A i \in 0..EvN-1 : IsRx(i) =>
    /\ evq[i].idx \in 0..RxN-1 /\ evq[i].frame = rxbuf[evq[i].idx]
    /\ taken <= Gap(RxN, rxHead, evq[i].idx) /\ Gap(RxN, rxHead, evq[i].idx) < Full

\* ... in the order of the queue, ...
InOrder ==
  \A i, j \in 0..EvN-1 :
    IsRx(i) /\ IsRx(j) /\ Gap(EvN, readPtr, i) < Gap(EvN, readPtr, j) =>
      Gap(RxN, rxHead, evq[i].idx) < Gap(RxN, rxHead, evq[j].idx)

\* ... and all of them.
Covered ==
  \A s \in 0..RxN-1 :
    taken <= Gap(RxN, rxHead, s) /\ Gap(RxN, rxHead, s) < Full =>
      \E i \in 0..EvN-1 : IsRx(i) /\ evq[i].idx = s

RingInv == InRing /\ InOrder /\ Covered
RxInv == ~stale => Doorbell /\ InHand /\ RingInv

\* The heads in force are indices, the counts are numbers.
LEMMA RxTypes ==
  ASSUME DType
  PROVE  /\ rxHead \in 0..RxN-1 /\ rxCons \in 0..RxN-1 /\ rxProd \in 0..RxN-1
         /\ readPtr \in 0..EvN-1 /\ evW \in 0..EvN-1 /\ evR \in 0..EvN-1
         /\ RxN \in Nat \ {0} /\ EvN \in Nat \ {0}
         /\ evq \in [0..EvN-1 -> Events] /\ rxbuf \in [0..RxN-1 -> 0..MaxFrames]
         /\ pending \in Seq(Events) /\ Len(pending) \in Nat /\ taken \in Nat
         /\ missed \in Nat /\ inHand \in Nat
         /\ Full \in 0..RxN-1
         /\ \A s \in 0..RxN-1 : Gap(RxN, rxHead, s) \in 0..RxN-1
         /\ \A i \in 0..EvN-1 : Gap(EvN, readPtr, i) \in 0..EvN-1
<1>1. /\ rxHead \in 0..RxN-1 /\ rxCons \in 0..RxN-1 /\ rxProd \in 0..RxN-1
      /\ readPtr \in 0..EvN-1 /\ evW \in 0..EvN-1 /\ evR \in 0..EvN-1
      /\ RxN \in Nat \ {0} /\ EvN \in Nat \ {0}
  BY Sizes DEF DType, IndexType, rxHead, readPtr
<1>2. /\ evq \in [0..EvN-1 -> Events] /\ rxbuf \in [0..RxN-1 -> 0..MaxFrames]
      /\ pending \in Seq(Events) /\ Len(pending) \in Nat
  BY DEF DType, DataType
<1>3. missed \in Nat /\ inHand \in Nat /\ taken \in Nat
  BY <1>2 DEF inHand, taken, DType, MissedType
<1>4. /\ \A s \in 0..RxN-1 : Gap(RxN, rxHead, s) \in 0..RxN-1
      /\ \A i \in 0..EvN-1 : Gap(EvN, readPtr, i) \in 0..EvN-1
  BY <1>1, GapZero
<1>5. QED
  BY <1>1, <1>2, <1>3, <1>4 DEF Full

\* The first event of the queue, if it is an RX_EV, names the first slot that has
\* not been announced.
LEMMA FirstIsNext ==
  ASSUME DType, RingInv, IsRx(readPtr)
  PROVE  Gap(RxN, rxHead, evq[readPtr].idx) = taken
<1> DEFINE e == evq[readPtr]
           g == Gap(RxN, rxHead, e.idx)
           s == (rxHead + taken) % RxN
<1>0. /\ rxHead \in 0..RxN-1 /\ readPtr \in 0..EvN-1 /\ RxN \in Nat \ {0}
      /\ EvN \in Nat \ {0} /\ taken \in Nat /\ Full \in 0..RxN-1
  BY RxTypes
<1>1. e.idx \in 0..RxN-1 /\ taken <= g /\ g < Full /\ g \in 0..RxN-1
  BY <1>0, RxTypes DEF RingInv, InRing
<1> HIDE DEF g
<1>2. taken \in 0..RxN-1 /\ taken < Full
  BY <1>0, <1>1
<1>3. s \in 0..RxN-1 /\ Gap(RxN, rxHead, s) = taken
  BY <1>0, <1>2, Forward
<1> HIDE DEF s
<1>4. PICK i \in 0..EvN-1 : IsRx(i) /\ evq[i].idx = s
  BY <1>0, <1>2, <1>3 DEF RingInv, Covered
<1>5. CASE i = readPtr
  BY <1>3, <1>4, <1>5 DEF g
<1>6. CASE i # readPtr
  <2>1. Gap(EvN, readPtr, readPtr) = 0
    BY <1>0, GapZero
  <2>2. Gap(EvN, readPtr, readPtr) < Gap(EvN, readPtr, i)
    <3>1. /\ Gap(EvN, readPtr, i) \in 0..EvN-1
          /\ Gap(EvN, readPtr, i) = 0 <=> readPtr = i
      BY <1>0, GapZero
    <3>2. QED
      BY <1>6, <2>1, <3>1
  <2>3. g < Gap(RxN, rxHead, s)
    BY <1>0, <1>4, <2>2 DEF RingInv, InOrder, g
  <2>4. QED
    BY <1>1, <1>0, <1>3, <2>3
<1>7. QED
  BY <1>5, <1>6

\* A call or a poll consumes the first event of the queue, and has it in hand if
\* it is an RX_EV.
LEMMA RingConsume ==
  ASSUME DType, RingInv, evq' = [evq EXCEPT ![readPtr] = None],
         readPtr' = After(EvN, readPtr), rxHead' = rxHead, UNCHANGED <<rxCons, rxbuf>>,
         taken' = IF IsRx(readPtr) THEN taken + 1 ELSE taken
  PROVE  RingInv' /\ (IsRx(readPtr) => taken' <= Full)
<1> DEFINE r == readPtr
           a == After(EvN, r)
<1>0. /\ r \in 0..EvN-1 /\ EvN \in Nat \ {0} /\ taken \in Nat /\ Full \in 0..RxN-1
      /\ evq \in [0..EvN-1 -> Events]
  BY RxTypes
<1>1. \A s \in 0..RxN-1 : Gap(RxN, rxHead, s) \in 0..RxN-1
  BY RxTypes
<1>2. IsRx(r) => Gap(RxN, rxHead, evq[r].idx) = taken
  BY FirstIsNext
<1>3. ASSUME NEW i \in 0..EvN-1, i # r
      PROVE  /\ Gap(EvN, a, i) = Gap(EvN, r, i) - 1 /\ Gap(EvN, r, i) \in Int
             /\ Gap(EvN, r, r) < Gap(EvN, r, i)
  <2>1. Gap(EvN, a, i) = Gap(EvN, r, i) - 1
    BY <1>0, <1>3, ReadShrinks
  <2>2. /\ Gap(EvN, r, i) \in 0..EvN-1 /\ (Gap(EvN, r, i) = 0 <=> r = i)
    BY <1>0, GapZero
  <2>3. Gap(EvN, r, r) = 0
    BY <1>0, GapZero
  <2>4. QED
    BY <1>3, <2>1, <2>2, <2>3
<1> HIDE DEF a
<1>4. \A i \in 0..EvN-1 :
        (IsRx(i)' <=> (IsRx(i) /\ i # r)) /\ (i # r => evq'[i] = evq[i])
  BY <1>0 DEF IsRx, None
<1>5. Full' = Full
  BY DEF Full
<1>6. InRing'
  <2> SUFFICES ASSUME NEW i \in 0..EvN-1, IsRx(i)'
               PROVE  /\ evq'[i].idx \in 0..RxN-1 /\ evq'[i].frame = rxbuf'[evq'[i].idx]
                      /\ taken' <= Gap(RxN, rxHead', evq'[i].idx)
                      /\ Gap(RxN, rxHead', evq'[i].idx) < Full'
    BY DEF InRing
  <2>1. IsRx(i) /\ i # r /\ evq'[i] = evq[i]
    BY <1>4
  <2>2. /\ evq[i].idx \in 0..RxN-1 /\ evq[i].frame = rxbuf[evq[i].idx]
        /\ taken <= Gap(RxN, rxHead, evq[i].idx) /\ Gap(RxN, rxHead, evq[i].idx) < Full
        /\ Gap(RxN, rxHead, evq[i].idx) \in 0..RxN-1
    BY <1>1, <2>1 DEF RingInv, InRing
  <2>3. IsRx(r) => taken < Gap(RxN, rxHead, evq[i].idx)
    BY <1>0, <1>2, <1>3, <2>1 DEF RingInv, InOrder
  <2>4. QED
    BY <1>0, <1>5, <2>1, <2>2, <2>3
<1>7. InOrder'
  <2> SUFFICES ASSUME NEW i \in 0..EvN-1, NEW j \in 0..EvN-1, IsRx(i)', IsRx(j)',
                      Gap(EvN, a, i) < Gap(EvN, a, j)
               PROVE  Gap(RxN, rxHead, evq'[i].idx) < Gap(RxN, rxHead, evq'[j].idx)
    BY DEF InOrder, a
  <2>1. IsRx(i) /\ i # r /\ evq'[i] = evq[i] /\ IsRx(j) /\ j # r /\ evq'[j] = evq[j]
    BY <1>4
  <2>2. Gap(EvN, r, i) < Gap(EvN, r, j)
    BY <1>3, <2>1
  <2>3. QED
    BY <2>1, <2>2 DEF RingInv, InOrder
<1>8. Covered'
  <2> SUFFICES ASSUME NEW s \in 0..RxN-1, taken' <= Gap(RxN, rxHead, s),
                      Gap(RxN, rxHead, s) < Full
               PROVE  \E i \in 0..EvN-1 : IsRx(i)' /\ evq'[i].idx = s
    BY <1>5 DEF Covered
  <2>1. taken <= Gap(RxN, rxHead, s) /\ (IsRx(r) => taken # Gap(RxN, rxHead, s))
    BY <1>0, <1>1
  <2>2. PICK i \in 0..EvN-1 : IsRx(i) /\ evq[i].idx = s
    BY <2>1 DEF RingInv, Covered
  <2>3. i # r
    BY <1>2, <2>1, <2>2
  <2>4. QED
    BY <1>4, <2>2, <2>3
<1>9. IsRx(r) => taken' <= Full
  BY <1>0, <1>1, <1>2 DEF RingInv, InRing
<1>10. QED
  BY <1>6, <1>7, <1>8, <1>9 DEF RingInv

\* The NIC posts an event that is no RX_EV.
LEMMA RingOther ==
  ASSUME DType, RingInv, NEW e, e.kind # "rx", evq[evW] = None, PostEvent(e),
         readPtr' = readPtr, rxHead' = rxHead, taken' = taken, UNCHANGED <<rxCons, rxbuf>>
  PROVE  RingInv' /\ \A i \in 0..EvN-1 : IsRx(i)' <=> IsRx(i)
<1>0. evW \in 0..EvN-1 /\ evq \in [0..EvN-1 -> Events]
  BY RxTypes
<1>1. \A i \in 0..EvN-1 : (IsRx(i)' <=> IsRx(i)) /\ (IsRx(i) => evq'[i] = evq[i])
  BY <1>0 DEF IsRx, PostEvent, None
<1>2. Full' = Full
  BY DEF Full
<1>3. InRing'
  BY <1>1, <1>2 DEF RingInv, InRing
<1>4. InOrder'
  BY <1>1 DEF RingInv, InOrder
<1>5. Covered'
  <2> SUFFICES ASSUME NEW s \in 0..RxN-1, taken <= Gap(RxN, rxHead, s),
                      Gap(RxN, rxHead, s) < Full
               PROVE  \E i \in 0..EvN-1 : IsRx(i)' /\ evq'[i].idx = s
    BY <1>2 DEF Covered
  <2>1. PICK i \in 0..EvN-1 : IsRx(i) /\ evq[i].idx = s
    BY DEF RingInv, Covered
  <2>2. QED
    BY <1>1, <2>1
<1>6. QED
  BY <1>1, <1>3, <1>4, <1>5 DEF RingInv

\* A frame is received: the head moves on.
LEMMA RingAdvance ==
  ASSUME DType, RingInv, taken >= 1, taken <= Full,
         UNCHANGED <<evq, rxCons, rxbuf>>, readPtr' = readPtr,
         rxHead' = After(RxN, rxHead), taken' = taken - 1
  PROVE  /\ RingInv' /\ Full' = Full - 1 /\ rxHead # rxCons
         /\ \A s \in 0..RxN-1 : s # rxHead => Gap(RxN, rxHead', s) = Gap(RxN, rxHead, s) - 1
<1> DEFINE h == rxHead
           a == After(RxN, h)
<1>0. /\ h \in 0..RxN-1 /\ rxCons \in 0..RxN-1 /\ RxN \in Nat \ {0} /\ taken \in Nat
      /\ Full \in 0..RxN-1 /\ a \in 0..RxN-1
  BY RxTypes, AfterIs
<1>1. h # rxCons
  <2>1. Gap(RxN, h, rxCons) # 0
    BY <1>0 DEF Full
  <2>2. QED
    BY <1>0, <2>1, GapZero
<1>2. ASSUME NEW s \in 0..RxN-1, s # h
      PROVE  Gap(RxN, a, s) = Gap(RxN, h, s) - 1 /\ Gap(RxN, h, s) \in 0..RxN-1
  <2>1. Gap(RxN, a, s) = Gap(RxN, h, s) - 1
    BY <1>0, <1>2, ReadShrinks
  <2>2. QED
    BY <1>0, <2>1, GapZero
<1>3. Gap(RxN, h, h) = 0
  BY <1>0, GapZero
<1>4. Full' = Full - 1
  BY <1>0, <1>1, <1>2 DEF Full
<1>5. ASSUME NEW s \in 0..RxN-1, taken' <= Gap(RxN, a, s), Gap(RxN, a, s) < Full'
      PROVE  s # h /\ taken <= Gap(RxN, h, s) /\ Gap(RxN, h, s) < Full
  <2>1. s # h
    <3>1. Gap(RxN, a, rxCons) = Full'
      BY DEF Full
    <3>2. s # h /\ Gap(RxN, h, s) < Gap(RxN, h, rxCons)
            <=> Gap(RxN, a, s) < Gap(RxN, a, rxCons)
      BY <1>0, <1>1, ReadShrinks
    <3>3. QED
      BY <1>5, <3>1, <3>2
  <2>2. QED
    BY <1>0, <1>2, <1>4, <1>5, <2>1
<1> HIDE DEF a
<1>6. \A i \in 0..EvN-1 : (IsRx(i)' <=> IsRx(i)) /\ evq'[i] = evq[i]
  BY DEF IsRx
<1>7. \A i \in 0..EvN-1 : IsRx(i) =>
        evq[i].idx \in 0..RxN-1 /\ evq[i].idx # h
        /\ taken <= Gap(RxN, h, evq[i].idx) /\ Gap(RxN, h, evq[i].idx) < Full
  BY <1>0, <1>3 DEF RingInv, InRing
<1>8. InRing'
  <2> SUFFICES ASSUME NEW i \in 0..EvN-1, IsRx(i)
               PROVE  /\ evq[i].idx \in 0..RxN-1 /\ evq[i].frame = rxbuf[evq[i].idx]
                      /\ taken' <= Gap(RxN, a, evq[i].idx)
                      /\ Gap(RxN, a, evq[i].idx) < Full'
    BY <1>6 DEF InRing, a
  <2>1. /\ evq[i].idx \in 0..RxN-1 /\ evq[i].idx # h /\ evq[i].frame = rxbuf[evq[i].idx]
        /\ taken <= Gap(RxN, h, evq[i].idx) /\ Gap(RxN, h, evq[i].idx) < Full
    BY <1>7 DEF RingInv, InRing
  <2>2. Gap(RxN, a, evq[i].idx) = Gap(RxN, h, evq[i].idx) - 1
        /\ Gap(RxN, h, evq[i].idx) \in 0..RxN-1
    BY <1>2, <2>1
  <2>3. QED
    BY <1>0, <1>4, <2>1, <2>2
<1>9. InOrder'
  <2> SUFFICES ASSUME NEW i \in 0..EvN-1, NEW j \in 0..EvN-1, IsRx(i), IsRx(j),
                      Gap(EvN, readPtr, i) < Gap(EvN, readPtr, j)
               PROVE  Gap(RxN, a, evq[i].idx) < Gap(RxN, a, evq[j].idx)
    BY <1>6 DEF InOrder, a
  <2>1. Gap(RxN, h, evq[i].idx) < Gap(RxN, h, evq[j].idx)
    BY DEF RingInv, InOrder
  <2>2. /\ evq[i].idx \in 0..RxN-1 /\ evq[i].idx # h
        /\ evq[j].idx \in 0..RxN-1 /\ evq[j].idx # h
    BY <1>7
  <2>3. QED
    BY <1>2, <2>1, <2>2
<1>10. Covered'
  <2> SUFFICES ASSUME NEW s \in 0..RxN-1, taken' <= Gap(RxN, a, s), Gap(RxN, a, s) < Full'
               PROVE  \E i \in 0..EvN-1 : IsRx(i) /\ evq[i].idx = s
    BY <1>6 DEF Covered, a
  <2>1. taken <= Gap(RxN, h, s) /\ Gap(RxN, h, s) < Full
    BY <1>5
  <2>2. QED
    BY <2>1 DEF RingInv, Covered
<1>11. QED
  BY <1>1, <1>2, <1>4, <1>8, <1>9, <1>10 DEF RingInv, a

\* The NIC writes a frame to the slot after the last one written, which no event
\* that waits names, and announces it after all that are announced.
LEMMA RingReceive ==
  ASSUME DType, ModeInv, Exact, Gap(EvN, evR, readPtr) <= Gap(EvN, evR, evW),
         Doorbell, InHand, RingInv, NicReceive
  PROVE  RingInv' /\ InHand' /\ Full' = Full + 1
<1> DEFINE h == rxHead
           c == rxCons
           r == readPtr
           w == evW
           new == [kind |-> "rx", idx |-> c, frame |-> arrived + 1]
<1>0. /\ h \in 0..RxN-1 /\ c \in 0..RxN-1 /\ rxProd \in 0..RxN-1 /\ RxN \in Nat \ {0}
      /\ r \in 0..EvN-1 /\ w \in 0..EvN-1 /\ EvN \in Nat \ {0} /\ taken \in Nat
      /\ Full \in 0..RxN-1 /\ evq \in [0..EvN-1 -> Events]
      /\ rxbuf \in [0..RxN-1 -> 0..MaxFrames] /\ Len(pending) \in Nat /\ missed \in Nat
  BY RxTypes
<1>1. /\ c # rxProd /\ evq' = [evq EXCEPT ![w] = new]
      /\ rxbuf' = [rxbuf EXCEPT ![c] = arrived + 1] /\ rxCons' = After(RxN, c)
      /\ UNCHANGED <<kpc, event, pending, mode, missed>>
      /\ rxHead' = h /\ readPtr' = r /\ taken' = taken
  BY <1>0, IncIn DEF NicReceive, PostEvent, rxHead, readPtr, taken, inHand, kernel, call, user, session
<1>2. After(RxN, c) # h
  BY <1>0, <1>1, AfterInj DEF Doorbell
<1>3. evq[w] = None
  <2>1. new # None /\ EvqRoom /\ PostEvent(new)
    BY DEF NicReceive, None
  <2> HIDE DEF new
  <2>2. QED
    BY <1>1, <2>1, PostExact
<1>4. Full' = Full + 1
  BY <1>0, <1>1, <1>2, WriteGrows DEF Full
<1>5. Gap(RxN, h, c) = Full
  BY DEF Full
<1>6. \A s \in 0..RxN-1 : Gap(RxN, h, s) \in 0..RxN-1
  BY RxTypes
<1>7. ASSUME NEW s \in 0..RxN-1, Gap(RxN, h, s) < Full + 1, s # c
      PROVE  Gap(RxN, h, s) < Full
  <2>1. s = c \/ Gap(RxN, h, s) < Gap(RxN, h, c)
          <=> Gap(RxN, h, s) < Gap(RxN, h, After(RxN, c))
    BY <1>0, <1>2, WriteGrows
  <2>2. Gap(RxN, h, After(RxN, c)) = Full + 1
    BY <1>1, <1>4 DEF Full
  <2>3. QED
    BY <1>5, <1>7, <2>1, <2>2
<1>8. \A i \in 0..EvN-1 : (i # w => evq'[i] = evq[i]) /\ (IsRx(i)' <=> (IsRx(i) \/ i = w))
  BY <1>0, <1>1 DEF IsRx
<1>9. evq'[w].idx = c /\ evq'[w].frame = arrived + 1 /\ ~IsRx(w)
  BY <1>0, <1>1, <1>3 DEF IsRx, None
<1>10. \A s \in 0..RxN-1 : s # c => rxbuf'[s] = rxbuf[s]
  BY <1>0, <1>1
<1>11. \A i \in 0..EvN-1 : IsRx(i) =>
         /\ i # w /\ evq[i].idx \in 0..RxN-1 /\ evq[i].idx # c
         /\ evq[i].frame = rxbuf[evq[i].idx]
         /\ taken <= Gap(RxN, h, evq[i].idx) /\ Gap(RxN, h, evq[i].idx) < Full
  <2> SUFFICES ASSUME NEW i \in 0..EvN-1, IsRx(i)
               PROVE  /\ i # w /\ evq[i].idx \in 0..RxN-1 /\ evq[i].idx # c
                      /\ evq[i].frame = rxbuf[evq[i].idx]
                      /\ taken <= Gap(RxN, h, evq[i].idx)
                      /\ Gap(RxN, h, evq[i].idx) < Full
    OBVIOUS
  <2>1. /\ evq[i].idx \in 0..RxN-1 /\ evq[i].frame = rxbuf[evq[i].idx]
        /\ taken <= Gap(RxN, h, evq[i].idx) /\ Gap(RxN, h, evq[i].idx) < Full
    BY DEF RingInv, InRing
  <2>2. i # w
    BY <1>9
  <2>3. ~(Full < Full)
    BY <1>0
  <2>4. QED
    BY <1>5, <2>1, <2>2, <2>3
<1> HIDE DEF new
<1>12. InRing'
  <2> SUFFICES ASSUME NEW i \in 0..EvN-1, IsRx(i)'
               PROVE  /\ evq'[i].idx \in 0..RxN-1 /\ evq'[i].frame = rxbuf'[evq'[i].idx]
                      /\ taken <= Gap(RxN, h, evq'[i].idx)
                      /\ Gap(RxN, h, evq'[i].idx) < Full + 1
    BY <1>1, <1>4 DEF InRing
  <2>1. CASE i = w
    <3>1. rxbuf'[c] = arrived + 1
      BY <1>0, <1>1
    <3>2. taken <= Full
      BY DEF InHand
    <3>3. QED
      BY <1>0, <1>5, <1>9, <2>1, <3>1, <3>2
  <2>2. CASE i # w
    <3>1. IsRx(i) /\ evq'[i] = evq[i]
      BY <1>8, <2>2
    <3>2. /\ evq[i].idx \in 0..RxN-1 /\ evq[i].idx # c
          /\ evq[i].frame = rxbuf[evq[i].idx]
          /\ taken <= Gap(RxN, h, evq[i].idx) /\ Gap(RxN, h, evq[i].idx) < Full
      BY <1>11, <3>1
    <3>3. rxbuf'[evq[i].idx] = rxbuf[evq[i].idx]
      BY <1>10, <3>2
    <3>4. Gap(RxN, h, evq[i].idx) \in 0..RxN-1
      BY <1>6, <3>2
    <3>5. Gap(RxN, h, evq[i].idx) < Full + 1
      <4> DEFINE g == Gap(RxN, h, evq[i].idx)
      <4>1. g \in 0..RxN-1 /\ g < Full
        BY <3>2, <3>4
      <4> HIDE DEF g
      <4>2. g < Full + 1
        BY <1>0, <4>1
      <4>3. QED
        BY <4>2 DEF g
    <3>6. QED
      BY <3>1, <3>2, <3>3, <3>5
  <2>3. QED
    BY <2>1, <2>2
<1>13. InOrder'
  <2> SUFFICES ASSUME NEW i \in 0..EvN-1, NEW j \in 0..EvN-1, IsRx(i)', IsRx(j)',
                      Gap(EvN, r, i) < Gap(EvN, r, j)
               PROVE  Gap(RxN, h, evq'[i].idx) < Gap(RxN, h, evq'[j].idx)
    BY <1>1 DEF InOrder
  <2>1. CASE i # w /\ j # w
    <3>1. IsRx(i) /\ evq'[i] = evq[i] /\ IsRx(j) /\ evq'[j] = evq[j]
      BY <1>8, <2>1
    <3>2. QED
      BY <3>1 DEF RingInv, InOrder
  <2>2. CASE i # w /\ j = w
    <3>1. IsRx(i) /\ evq'[i] = evq[i]
      BY <1>8, <2>2
    <3>2. QED
      BY <1>5, <1>9, <1>11, <2>2, <3>1
  <2>3. CASE i = w
    <3>1. Gap(EvN, r, i) \in 0..EvN-1 /\ Gap(EvN, r, j) \in 0..EvN-1
      BY <1>0, RxTypes
    <3>2. j # w
      BY <2>3, <3>1
    <3>3. evq[j] # None
      BY <1>8, <3>2 DEF IsRx, None
    <3>4. Gap(EvN, r, j) < Gap(EvN, r, w)
      BY <3>3 DEF Exact
    <3>5. QED
      BY <2>3, <3>1, <3>4
  <2>4. QED
    BY <2>1, <2>2, <2>3
<1>14. Covered'
  <2> SUFFICES ASSUME NEW s \in 0..RxN-1, taken <= Gap(RxN, h, s),
                      Gap(RxN, h, s) < Full + 1
               PROVE  \E i \in 0..EvN-1 : IsRx(i)' /\ evq'[i].idx = s
    BY <1>1, <1>4 DEF Covered
  <2>1. CASE s = c
    BY <1>0, <1>8, <1>9, <2>1
  <2>2. CASE s # c
    <3>1. PICK i \in 0..EvN-1 : IsRx(i) /\ evq[i].idx = s
      BY <1>7, <2>2 DEF RingInv, Covered
    <3>2. QED
      BY <1>8, <1>11, <3>1
  <2>3. QED
    BY <2>1, <2>2
<1>15. InHand'
  <2>1. taken <= Full
    BY DEF InHand
  <2>2. taken' <= Full'
    BY <1>0, <1>1, <1>4, <2>1
  <2>3. kpc = "rx_copy" => /\ event.kind = "rx" /\ event.idx \in 0..RxN-1 /\ event.idx # c
                          /\ Gap(RxN, h, event.idx) = missed
                          /\ event.frame = rxbuf[event.idx]
    <3>1. kpc = "rx_copy" => missed # Full
      BY <1>0, <2>1 DEF taken, inHand
    <3>2. QED
      BY <1>5, <3>1 DEF InHand
  <2>4. \A k \in 1..Len(pending) :
          /\ pending[k].kind = "rx" /\ pending[k].idx \in 0..RxN-1 /\ pending[k].idx # c
          /\ Gap(RxN, h, pending[k].idx) = missed + (k - 1)
          /\ pending[k].frame = rxbuf[pending[k].idx]
    <3> SUFFICES ASSUME NEW k \in 1..Len(pending)
                 PROVE  /\ pending[k].kind = "rx" /\ pending[k].idx \in 0..RxN-1
                        /\ pending[k].idx # c
                        /\ Gap(RxN, h, pending[k].idx) = missed + (k - 1)
                        /\ pending[k].frame = rxbuf[pending[k].idx]
      OBVIOUS
    <3>1. /\ pending[k].kind = "rx" /\ pending[k].idx \in 0..RxN-1
          /\ Gap(RxN, h, pending[k].idx) = missed + (k - 1)
          /\ pending[k].frame = rxbuf[pending[k].idx]
      BY DEF InHand
    <3>2. pending # <<>>
      BY <1>0
    <3>3. taken = missed + Len(pending)
      BY <3>2 DEF ModeInv, taken, inHand
    <3>4. Gap(RxN, h, pending[k].idx) # Full
      <4>1. missed + (k - 1) # Full
        BY <1>0, <2>1, <3>3
      <4>2. QED
        BY <3>1, <4>1
    <3>5. QED
      BY <1>5, <3>1, <3>4
  <2>5. QED
    BY <1>0, <1>1, <1>10, <2>2, <2>3, <2>4 DEF InHand
<1>16. QED
  BY <1>4, <1>12, <1>13, <1>14, <1>15 DEF RingInv

\* A step that leaves the ring and the queue alone: the events in hand stay, or
\* those that were become missed ones.
LEMMA RxFrame ==
  ASSUME RxInv, UNCHANGED <<rxCons, rxProd, rxbuf, evq>>, taken' = taken,
         ~stale' => ~stale, readPtr' = readPtr, rxHead' = rxHead,
         \/ UNCHANGED <<event, pending, missed>> /\ (kpc' = "rx_copy" <=> kpc = "rx_copy")
         \/ pending' = <<>> /\ kpc' # "rx_copy"
  PROVE  RxInv'
<1> SUFFICES ASSUME ~stale' PROVE (Doorbell /\ InHand /\ RingInv)'
  BY DEF RxInv
<1>0. Doorbell /\ InHand /\ RingInv
  BY DEF RxInv
<1>1. Full' = Full /\ \A i \in 0..EvN-1 : IsRx(i)' <=> IsRx(i)
  BY DEF Full, IsRx
<1>2. Doorbell'
  BY <1>0 DEF Doorbell
<1>3. InHand'
  <2>1. CASE UNCHANGED <<event, pending, missed>> /\ (kpc' = "rx_copy" <=> kpc = "rx_copy")
    BY <1>0, <1>1, <2>1 DEF InHand
  <2>2. CASE pending' = <<>> /\ kpc' # "rx_copy"
    BY <1>0, <1>1, <2>2 DEF InHand
  <2>3. QED
    BY <2>1, <2>2
<1>4. RingInv'
  BY <1>0, <1>1 DEF RingInv, InRing, InOrder, Covered
<1>5. QED
  BY <1>2, <1>3, <1>4

\* An empty ring with its doorbell behind the head, as the kernel primes it.
LEMMA RxPrimed ==
  /\ rxCons = 0 /\ rxHead = 0 /\ rxProd = RxN - 1 /\ pending = <<>> /\ kpc = "idle"
  /\ missed = 0 /\ evq = [i \in 0..EvN-1 |-> None]
  => Doorbell /\ InHand /\ RingInv
<1> SUFFICES ASSUME rxCons = 0, rxHead = 0, rxProd = RxN - 1, pending = <<>>, kpc = "idle",
                    missed = 0, evq = [i \in 0..EvN-1 |-> None]
             PROVE  Doorbell /\ InHand /\ RingInv
  OBVIOUS
<1>1. After(RxN, RxN - 1) = 0
  <2>1. RxN \in Nat \ {0} /\ RxN - 1 \in 0..RxN-1
    BY Sizes
  <2>2. QED
    BY <2>1, AfterIs
<1>2. Gap(RxN, 0, 0) = 0 /\ \A s \in 0..RxN-1 : Gap(RxN, 0, s) \in 0..RxN-1
  <2>1. RxN \in Nat \ {0} /\ 0 \in 0..RxN-1
    BY Sizes
  <2>2. Gap(RxN, 0, 0) = 0
    BY <2>1, GapZero
  <2>3. QED
    BY <2>1, <2>2, GapZero
<1>3. taken = 0 /\ Full = 0 /\ \A i \in 0..EvN-1 : ~IsRx(i)
  BY <1>2 DEF taken, inHand, Full, IsRx, None
<1>4. \A s \in 0..RxN-1 : ~(Gap(RxN, 0, s) < 0)
  BY <1>2, Sizes
<1>5. Doorbell /\ InHand
  BY <1>1, <1>3 DEF Doorbell, InHand
<1>6. RingInv
  BY <1>3, <1>4 DEF RingInv, InRing, InOrder, Covered
<1>7. QED
  BY <1>5, <1>6

\* The kernel's loop takes the next RX_EV.
LEMMA RxTake ==
  ASSUME DType, ModeInv, InHand, RingInv, RxPoll, evq[data_evq_read_ptr].kind = "rx"
  PROVE  InHand' /\ RingInv'
<1> USE DEF nic, kernel, call, user, session, history
<1>0. /\ rxHead \in 0..RxN-1 /\ RxN \in Nat \ {0} /\ data_evq_read_ptr \in 0..EvN-1
      /\ EvN \in Nat \ {0}
  BY RxTypes, Sizes DEF DType, IndexType
<1>1. /\ mode = "kernel" /\ mode' = mode /\ readPtr = data_evq_read_ptr
      /\ kpc' = "rx_copy" /\ event' = evq[readPtr] /\ kpc = "rx"
      /\ pending = <<>> /\ pending' = <<>>
      /\ UNCHANGED <<rxCons, rxbuf, rx_head>> /\ evq' = [evq EXCEPT ![readPtr] = None]
  BY DEF RxPoll, KernelConsume, ModeInv, readPtr
<1>2. rxHead' = rxHead /\ readPtr' = After(EvN, readPtr)
  BY <1>0, <1>1, IncIn DEF RxPoll, KernelConsume, readPtr, rxHead
<1>3. taken = missed /\ taken' = taken + 1 /\ missed' = missed /\ IsRx(readPtr)
  <2>1. missed \in Nat /\ missed' = missed /\ inHand = 0 /\ inHand' = 1
    BY <1>1, RxTypes DEF RxPoll, inHand
  <2>2. QED
    BY <1>1, <2>1 DEF taken, IsRx
<1>4. RingInv' /\ taken' <= Full
  BY <1>1, <1>2, <1>3, RingConsume
<1>5. /\ Gap(RxN, rxHead, evq[readPtr].idx) = missed /\ evq[readPtr].idx \in 0..RxN-1
      /\ evq[readPtr].frame = rxbuf[evq[readPtr].idx]
  BY <1>0, <1>1, <1>3, FirstIsNext DEF RingInv, InRing
<1>6. Full' = Full
  BY <1>1, <1>2 DEF Full
<1>7. QED
  BY <1>1, <1>2, <1>3, <1>4, <1>5, <1>6 DEF InHand, IsRx

\* sfc7120_poll takes the next RX_EV.
LEMMA PollTake ==
  ASSUME DType, ModeInv, InHand, RingInv, Poll, evq[uEvR].kind = "rx"
  PROVE  InHand' /\ RingInv'
<1> USE DEF nic, kernel, call, user, session, history
<1> DEFINE e == evq[readPtr]
           n == Len(pending)
<1>0. /\ rxHead \in 0..RxN-1 /\ RxN \in Nat \ {0} /\ uEvR \in 0..EvN-1
      /\ EvN \in Nat \ {0} /\ readPtr \in 0..EvN-1 /\ evq \in [0..EvN-1 -> Events]
      /\ pending \in Seq(Events)
  BY RxTypes, Sizes DEF DType, IndexType
<1>1. /\ mode = "direct" /\ mode' = mode /\ readPtr = uEvR /\ kpc = "idle" /\ kpc' = "idle"
      /\ pending' = Append(pending, e)
      /\ UNCHANGED <<rxCons, rxbuf, uRx, missed>> /\ evq' = [evq EXCEPT ![readPtr] = None]
  BY DEF Poll, ModeInv, readPtr
<1>2. rxHead' = rxHead /\ readPtr' = After(EvN, readPtr)
  BY <1>0, <1>1, IncIn DEF Poll, readPtr, rxHead
<1>3. /\ n \in Nat /\ Len(pending') = n + 1 /\ pending'[n + 1] = e
      /\ \A k \in 1..n : pending'[k] = pending[k]
  BY <1>0, <1>1
<1>4. taken = missed + n /\ taken' = taken + 1 /\ missed \in Nat /\ IsRx(readPtr)
  <2>1. missed \in Nat /\ inHand = n /\ inHand' = n + 1
    BY <1>1, <1>3, RxTypes DEF inHand
  <2>2. QED
    BY <1>1, <1>3, <2>1 DEF taken, IsRx
<1>5. RingInv' /\ taken' <= Full
  BY <1>1, <1>2, <1>4, RingConsume
<1>6. Gap(RxN, rxHead, e.idx) = missed + n /\ e.idx \in 0..RxN-1 /\ e.frame = rxbuf[e.idx]
  BY <1>0, <1>4, FirstIsNext DEF RingInv, InRing
<1>7. Full' = Full
  BY <1>1, <1>2 DEF Full
<1>8. ASSUME NEW k \in 1..(n + 1)
      PROVE  /\ pending'[k].kind = "rx" /\ pending'[k].idx \in 0..RxN-1
             /\ Gap(RxN, rxHead, pending'[k].idx) = missed + (k - 1)
             /\ pending'[k].frame = rxbuf[pending'[k].idx]
  <2>1. CASE k = n + 1
    <3>1. n + 1 - 1 = n
      BY <1>3
    <3>2. QED
      BY <1>3, <1>4, <1>6, <2>1, <3>1 DEF IsRx
  <2>2. CASE k # n + 1
    <3>1. k \in 1..n
      BY <1>3, <2>2
    <3>2. QED
      BY <1>3, <3>1 DEF InHand
  <2>3. QED
    BY <2>1, <2>2
<1>9. QED
  BY <1>1, <1>2, <1>3, <1>4, <1>5, <1>7, <1>8 DEF InHand

\* A frame is received: the call's own ...
LEMMA CopyoutAdvance ==
  ASSUME DType, ModeInv, InHand, RingInv, RxCopyout
  PROVE  (Doorbell /\ InHand /\ RingInv)' /\ rxHead # rxCons
<1> USE DEF nic, kernel, call, user, session, history
<1>0. rxHead \in 0..RxN-1 /\ RxN \in Nat \ {0} /\ Full \in 0..RxN-1 /\ rx_head \in 0..RxN-1
  BY RxTypes, Sizes DEF DType, IndexType
<1>1. /\ mode = "kernel" /\ mode' = mode /\ kpc = "rx_copy" /\ kpc' = "idle"
      /\ pending = <<>> /\ pending' = <<>> /\ rxProd' = rxHead
      /\ UNCHANGED <<evq, rxCons, rxbuf, data_evq_read_ptr>>
  BY DEF RxCopyout, ModeInv, rxHead
<1>2. readPtr' = readPtr /\ rxHead' = After(RxN, rxHead)
  BY <1>0, <1>1, IncIn DEF RxCopyout, readPtr, rxHead
<1>3. missed' = missed /\ taken' = taken - 1 /\ taken >= 1 /\ taken <= Full
  <2>1. missed \in Nat /\ missed' = missed /\ inHand = 1 /\ inHand' = 0
    BY <1>1, RxTypes DEF RxCopyout, inHand
  <2>2. QED
    BY <2>1 DEF taken, InHand
<1>4. RingInv' /\ Full' = Full - 1 /\ rxHead # rxCons
  BY <1>1, <1>2, <1>3, RingAdvance
<1>5. taken' <= Full'
  <2>1. taken \in Nat
    BY RxTypes
  <2>2. QED
    BY <1>0, <1>3, <1>4, <2>1
<1>6. InHand'
  BY <1>1, <1>5 DEF InHand
<1>7. QED
  BY <1>1, <1>2, <1>4, <1>6 DEF Doorbell

\* ... or by sfc7120_rx_recv, the first that the polls have taken.
LEMMA RecvAdvance ==
  ASSUME DType, ModeInv, InHand, RingInv, rx_recv
  PROVE  (Doorbell /\ InHand /\ RingInv)' /\ rxHead # rxCons
<1> USE DEF nic, kernel, call, user, session, history
<1> DEFINE n == Len(pending)
<1>0. /\ rxHead \in 0..RxN-1 /\ RxN \in Nat \ {0} /\ Full \in 0..RxN-1 /\ uRx \in 0..RxN-1
      /\ pending \in Seq(Events)
  BY RxTypes, Sizes DEF DType, IndexType
<1>1. /\ mode = "direct" /\ mode' = mode /\ kpc = "idle" /\ kpc' = "idle"
      /\ pending # <<>> /\ pending' = Tail(pending) /\ rxProd' = rxHead
      /\ UNCHANGED <<evq, rxCons, rxbuf, uEvR>>
  BY DEF rx_recv, ModeInv, rxHead
<1>2. readPtr' = readPtr /\ rxHead' = After(RxN, rxHead)
  BY <1>0, <1>1, IncIn DEF rx_recv, readPtr, rxHead
<1>3. /\ n \in Nat \ {0} /\ Len(pending') = n - 1
      /\ \A k \in 1..(n - 1) : pending'[k] = pending[k + 1]
  BY <1>0, <1>1
<1>4. /\ missed \in Nat /\ missed' = missed /\ taken = missed + n
      /\ taken' = taken - 1 /\ taken <= Full /\ taken >= 1
  <2>1. missed \in Nat /\ missed' = missed /\ inHand = n /\ inHand' = n - 1
    BY <1>1, <1>3, RxTypes DEF rx_recv, inHand
  <2>2. QED
    BY <1>3, <2>1 DEF taken, InHand
<1>5. /\ RingInv' /\ Full' = Full - 1 /\ rxHead # rxCons
      /\ \A s \in 0..RxN-1 : s # rxHead => Gap(RxN, rxHead', s) = Gap(RxN, rxHead, s) - 1
  BY <1>1, <1>2, <1>4, RingAdvance
<1>6. Gap(RxN, rxHead, rxHead) = 0
  BY <1>0, GapZero
<1>7. ASSUME NEW k \in 1..(n - 1)
      PROVE  /\ pending'[k].kind = "rx" /\ pending'[k].idx \in 0..RxN-1
             /\ Gap(RxN, rxHead', pending'[k].idx) = missed + (k - 1)
             /\ pending'[k].frame = rxbuf[pending'[k].idx]
  <2>1. k + 1 \in 1..n /\ k + 1 - 1 = k /\ k # 0
    BY <1>3
  <2>2. /\ pending'[k].kind = "rx" /\ pending'[k].idx \in 0..RxN-1
        /\ Gap(RxN, rxHead, pending'[k].idx) = missed + k
        /\ pending'[k].frame = rxbuf[pending'[k].idx]
    BY <1>3, <2>1 DEF InHand
  <2>3. missed + k # 0 /\ (missed + k) - 1 = missed + (k - 1)
    BY <1>4, <2>1
  <2> DEFINE x == pending'[k].idx
  <2>4. x \in 0..RxN-1 /\ Gap(RxN, rxHead, x) = missed + k
    BY <2>2
  <2> HIDE DEF x
  <2>5. Gap(RxN, rxHead', x) = missed + (k - 1)
    <3>1. x # rxHead
      BY <1>6, <2>3, <2>4
    <3>2. Gap(RxN, rxHead', x) = Gap(RxN, rxHead, x) - 1
      BY <1>5, <2>4, <3>1
    <3>3. Gap(RxN, rxHead', x) = (missed + k) - 1
      BY <2>4, <3>2
    <3>4. QED
      BY <2>3, <3>3
  <2>6. QED
    BY <2>2, <2>5 DEF x
<1>8. taken' <= Full'
  BY <1>0, <1>3, <1>4, <1>5
<1>9. InHand'
  BY <1>1, <1>3, <1>4, <1>7, <1>8 DEF InHand
<1>10. QED
  BY <1>1, <1>2, <1>5, <1>9 DEF Doorbell

\* A poll of either path that finds another kind of event, or a TX ioctl's that
\* finds any: an RX_EV is missed.
LEMMA RxSkip ==
  ASSUME DType, Doorbell /\ InHand /\ RingInv,
         evq' = [evq EXCEPT ![readPtr] = None], readPtr' = After(EvN, readPtr),
         rxHead' = rxHead, UNCHANGED <<rxCons, rxProd, rxbuf, pending>>,
         missed' = IF IsRx(readPtr) THEN missed + 1 ELSE missed,
         IsRx(readPtr) => pending = <<>>,
         kpc # "rx_copy", kpc' # "rx_copy"
  PROVE  (Doorbell /\ InHand /\ RingInv)'
<1>0. readPtr \in 0..EvN-1 /\ evq \in [0..EvN-1 -> Events] /\ missed \in Nat /\ inHand \in Nat
  BY RxTypes
<1>1. inHand' = inHand /\ Full' = Full
  BY DEF inHand, Full
<1>2. taken' = IF IsRx(readPtr) THEN taken + 1 ELSE taken
  BY <1>0, <1>1 DEF taken
<1>3. RingInv' /\ (IsRx(readPtr) => taken' <= Full)
  BY <1>2, RingConsume
<1>4. taken' <= Full'
  BY <1>1, <1>2, <1>3 DEF InHand
<1>5. InHand'
  <2>1. CASE IsRx(readPtr)
    BY <1>4, <2>1 DEF InHand
  <2>2. CASE ~IsRx(readPtr)
    BY <1>4, <2>2 DEF InHand
  <2>3. QED
    BY <2>1, <2>2
<1>6. QED
  BY <1>3, <1>5 DEF Doorbell

\* Every step keeps the invariant of the receive path.
LEMMA RxStep ==
  ASSUME DType, ModeInv, EvqInv, RxInv, [Next]_vars
  PROVE  RxInv'
<1> USE DEF nic, kernel, call, user, session, history
<1>0. /\ readPtr \in 0..EvN-1 /\ data_evq_read_ptr \in 0..EvN-1 /\ uEvR \in 0..EvN-1
      /\ EvN \in Nat \ {0}
  BY RxTypes, Sizes DEF DType, IndexType
<1>1. CASE UNCHANGED vars
  BY <1>1, RxFrame DEF vars, readPtr, rxHead, taken, inHand
<1>2. CASE NicReceive
  <2> SUFFICES ASSUME ~stale' PROVE (Doorbell /\ InHand /\ RingInv)'
    BY DEF RxInv
  <2>1. /\ ~stale /\ rxProd' = rxProd /\ rxHead' = rxHead
    BY <1>2 DEF NicReceive, rxHead
  <2>2. InHand' /\ RingInv'
    BY <1>2, <2>1, RingReceive DEF EvqInv, RxInv
  <2>3. QED
    BY <2>1, <2>2 DEF RxInv, Doorbell
<1>3. CASE NicTransmit \/ NicOther
  <2> SUFFICES ASSUME ~stale' PROVE (Doorbell /\ InHand /\ RingInv)'
    BY DEF RxInv
  <2>1. /\ UNCHANGED <<stale, missed, kpc, event, pending, mode, rxCons, rxProd, rxbuf>>
        /\ rxHead' = rxHead /\ readPtr' = readPtr
    BY <1>3 DEF NicTransmit, NicOther, rxHead, readPtr
  <2>2. PICK e : e # None /\ e.kind # "rx" /\ EvqRoom /\ PostEvent(e)
    BY <1>3 DEF NicTransmit, NicOther, None
  <2>3. taken' = taken /\ Full' = Full
    BY <2>1 DEF taken, inHand, Full
  <2>4. evq[evW] = None
    BY <2>1, <2>2, PostExact DEF EvqInv
  <2>5. RingInv' /\ \A i \in 0..EvN-1 : IsRx(i)' <=> IsRx(i)
    BY <2>1, <2>2, <2>3, <2>4, RingOther DEF RxInv
  <2>6. QED
    BY <2>1, <2>3, <2>5 DEF RxInv, Doorbell, InHand
<1>4. CASE TxBegin \/ TxEnd \/ RxBegin \/ RxTimeout
  <2>1. /\ UNCHANGED <<rxCons, rxProd, rxbuf, evq, event, pending, stale, mode, uEvR, uRx,
                       data_evq_read_ptr, rx_head>>
        /\ missed' = missed /\ kpc # "rx_copy" /\ kpc' # "rx_copy"
    BY <1>4 DEF TxBegin, TxEnd, RxBegin, RxTimeout
  <2>2. QED
    BY <2>1, RxFrame DEF readPtr, rxHead, taken, inHand
<1>5. CASE TxPoll
  <2> SUFFICES ASSUME ~stale' PROVE (Doorbell /\ InHand /\ RingInv)'
    BY DEF RxInv
  <2>1. /\ UNCHANGED <<rxCons, rxProd, rxbuf, event, pending, stale, mode, rx_head>>
        /\ mode = "kernel" /\ kpc = "tx" /\ kpc' \in {"tx", "tx_done"} /\ pending = <<>>
        /\ missed' = (IF IsRx(readPtr) THEN missed + 1 ELSE missed)
        /\ readPtr = data_evq_read_ptr /\ evq' = [evq EXCEPT ![readPtr] = None]
        /\ data_evq_read_ptr' = inc(readPtr, EvN)
    BY <1>5 DEF TxPoll, KernelConsume, ModeInv, readPtr, IsRx
  <2>2. readPtr' = After(EvN, readPtr) /\ rxHead' = rxHead
    BY <1>0, <2>1, IncIn DEF readPtr, rxHead
  <2>3. QED
    BY <2>1, <2>2, RxSkip DEF RxInv
<1>6. CASE RxPoll
  <2> SUFFICES ASSUME ~stale' PROVE (Doorbell /\ InHand /\ RingInv)'
    BY DEF RxInv
  <2>1. /\ UNCHANGED <<rxCons, rxProd, rxbuf, pending, stale, missed, mode, rx_head>>
        /\ mode = "kernel" /\ kpc = "rx" /\ kpc' \in {"rx", "rx_copy"}
        /\ readPtr = data_evq_read_ptr /\ evq' = [evq EXCEPT ![readPtr] = None]
        /\ data_evq_read_ptr' = inc(readPtr, EvN)
    BY <1>6 DEF RxPoll, KernelConsume, ModeInv, readPtr
  <2>2. readPtr' = After(EvN, readPtr) /\ rxHead' = rxHead
    BY <1>0, <2>1, IncIn DEF readPtr, rxHead
  <2>3. CASE evq[data_evq_read_ptr].kind = "rx"
    <3>1. InHand' /\ RingInv'
      BY <1>6, <2>1, <2>3, RxTake DEF RxInv
    <3>2. QED
      BY <2>1, <2>2, <3>1 DEF RxInv, Doorbell
  <2>4. CASE evq[data_evq_read_ptr].kind # "rx"
    <3>1. UNCHANGED <<kpc, event>>
      BY <1>6, <2>4 DEF RxPoll
    <3>2. QED
      BY <2>1, <2>2, <2>4, <3>1, RxSkip DEF RxInv, IsRx
  <2>5. QED
    BY <2>3, <2>4
<1>7. CASE RxCopyout
  <2>1. stale' = stale
    BY <1>7 DEF RxCopyout
  <2>2. QED
    BY <1>7, <2>1, CopyoutAdvance DEF RxInv
<1>8. CASE RxCopyoutFails
  <2>1. /\ UNCHANGED <<rxCons, rxProd, rxbuf, evq, stale, mode, uEvR, uRx, pending,
                       data_evq_read_ptr, rx_head>>
        /\ pending = <<>> /\ kpc = "rx_copy" /\ kpc' = "idle" /\ missed' = missed + 1
    BY <1>8 DEF RxCopyoutFails, ModeInv
  <2>2. inHand = 1 /\ inHand' = 0 /\ missed \in Nat
    BY <2>1, RxTypes DEF inHand
  <2>3. taken' = taken
    BY <2>1, <2>2 DEF taken
  <2>4. QED
    BY <2>1, <2>3, RxFrame DEF readPtr, rxHead
<1>9. CASE Poll
  <2> SUFFICES ASSUME ~stale' PROVE (Doorbell /\ InHand /\ RingInv)'
    BY DEF RxInv
  <2>1. /\ UNCHANGED <<rxCons, rxProd, rxbuf, event, kpc, stale, missed, mode, uRx>>
        /\ mode = "direct" /\ kpc = "idle"
        /\ readPtr = uEvR /\ evq' = [evq EXCEPT ![readPtr] = None]
        /\ uEvR' = inc(readPtr, EvN)
    BY <1>9 DEF Poll, ModeInv, readPtr
  <2>2. readPtr' = After(EvN, readPtr) /\ rxHead' = rxHead
    BY <1>0, <2>1, IncIn DEF readPtr, rxHead
  <2>3. CASE evq[uEvR].kind = "rx"
    <3>1. InHand' /\ RingInv'
      BY <1>9, <2>1, <2>3, PollTake DEF RxInv
    <3>2. QED
      BY <2>1, <2>2, <3>1 DEF RxInv, Doorbell
  <2>4. CASE evq[uEvR].kind # "rx"
    <3>1. UNCHANGED pending
      BY <1>9, <2>4 DEF Poll
    <3>2. QED
      BY <2>1, <2>2, <2>4, <3>1, RxSkip DEF RxInv, IsRx
  <2>5. QED
    BY <2>3, <2>4
<1>10. CASE PollAck \/ tx_post
  <2>1. UNCHANGED <<rxCons, rxProd, rxbuf, evq, event, pending, stale, mode, uEvR, uRx,
                    data_evq_read_ptr, rx_head, kpc, missed>>
    BY <1>10 DEF PollAck, tx_post
  <2>2. QED
    BY <2>1, RxFrame DEF readPtr, rxHead, taken, inHand
<1>11. CASE rx_recv
  <2>1. stale' = stale
    BY <1>11 DEF rx_recv
  <2>2. QED
    BY <1>11, <2>1, RecvAdvance DEF RxInv
<1>12. CASE SessionDestroy \/ SessionCrash
  <2> SUFFICES ASSUME ~stale' PROVE RxInv'
    BY DEF RxInv
  <2>1. UNCHANGED <<rxCons, rxProd, rxbuf, evq>> /\ kpc = "idle" /\ kpc' = "idle"
        /\ pending' = <<>>
    BY <1>12 DEF SessionDestroy, SessionCrash, EndSession
  <2>2. ~stale /\ readPtr' = readPtr /\ rxHead' = rxHead /\ missed' = missed + Len(pending)
    <3>1. CASE SessionDestroy
      BY <3>1 DEF SessionDestroy, EndSession, ModeInv, readPtr, rxHead
    <3>2. CASE SessionCrash
      <4>1. ~stale /\ readPtr' = readPtr /\ rxHead' = rxHead /\ missed' = missed /\ pending = <<>>
        BY <3>2 DEF SessionCrash, EndSession, ModeInv, readPtr, rxHead
      <4>2. missed \in Nat /\ Len(<<>>) = 0
        BY RxTypes
      <4>3. QED
        BY <4>1, <4>2
    <3>3. QED
      BY <1>12, <3>1, <3>2
  <2>3. taken' = taken
    <3>1. missed \in Nat /\ Len(pending) \in Nat /\ inHand = Len(pending) /\ inHand' = 0
      BY <2>1, RxTypes DEF inHand
    <3>2. QED
      BY <2>2, <3>1 DEF taken
  <2>4. QED
    BY <2>1, <2>2, <2>3, RxFrame
<1>13. CASE Kldload
  <2>1. /\ rxCons' = 0 /\ rxHead' = 0 /\ rxProd' = RxN - 1 /\ pending' = <<>>
        /\ kpc' = "idle" /\ missed' = 0 /\ evq' = [i \in 0..EvN-1 |-> None]
    BY <1>13 DEF Kldload, Reset, rxHead, ModeInv
  <2>2. ( /\ rxCons = 0 /\ rxHead = 0 /\ rxProd = RxN - 1 /\ pending = <<>> /\ kpc = "idle"
          /\ missed = 0 /\ evq = [i \in 0..EvN-1 |-> None]
          => Doorbell /\ InHand /\ RingInv )'
    BY RxPrimed, PTL
  <2>3. QED
    BY <2>1, <2>2 DEF RxInv
<1>14. CASE \E m \in {"kernel", "direct"} : SessionInit(m)
  <2>1. /\ UNCHANGED <<rxCons, rxProd, rxbuf, evq, event, pending, stale, missed, kpc>>
        /\ readPtr' = readPtr /\ rxHead' = rxHead
    BY <1>14 DEF SessionInit, readPtr, rxHead
  <2>2. QED
    BY <2>1, RxFrame DEF taken, inHand
<1>15. QED
  BY <1>1, <1>2, <1>3, <1>4, <1>5, <1>6, <1>7, <1>8, <1>9, <1>10, <1>11, <1>12, <1>13, <1>14
     DEF Next, Nic, Ioctl, Direct, Session

\* It holds throughout.
LEMMA RxInvariant == Spec => []RxInv
<1>1. Init => RxInv
  <2> SUFFICES ASSUME Init PROVE RxInv
    OBVIOUS
  <2>1. /\ rxCons = 0 /\ rxHead = 0 /\ rxProd = RxN - 1 /\ pending = <<>> /\ kpc = "idle"
        /\ missed = 0 /\ evq = [i \in 0..EvN-1 |-> None]
    BY DEF Init, rxHead
  <2>2. QED
    BY <2>1, RxPrimed DEF RxInv
<1>2. DType /\ ModeInv /\ EvqInv /\ RxInv /\ [Next]_vars => RxInv'
  BY RxStep
<1>3. QED
  BY <1>1, <1>2, ModeInvariant, TypeInvariant, EvqInvariant, PTL DEF Spec

\* The frames that wait are those from the first that was not missed up to rxCons,
\* each announced by one event and still in its slot.
LEMMA WaitingIs ==
  ASSUME DType, ModeInv, RxInv, ~stale
  PROVE  /\ WaitingSlots = {s \in 0..RxN-1 : missed <= Gap(RxN, rxHead, s)
                                              /\ Gap(RxN, rxHead, s) < Full}
         /\ \A e, f \in Waiting : e.idx = f.idx => e = f
         /\ \A e \in Waiting : e.frame = rxbuf[e.idx]
         /\ missed \in 0..Full
<1>0. /\ rxHead \in 0..RxN-1 /\ RxN \in Nat \ {0} /\ Full \in 0..RxN-1
      /\ evq \in [0..EvN-1 -> Events] /\ pending \in Seq(Events) /\ event \in Events
      /\ taken \in Nat /\ Len(pending) \in Nat /\ missed \in Nat /\ inHand \in Nat
  BY RxTypes DEF DType, DataType
<1>1. InHand /\ RingInv
  BY DEF RxInv
<1>2. \A s \in 0..RxN-1 : Gap(RxN, rxHead, s) \in 0..RxN-1
  BY RxTypes
<1>3. ASSUME NEW e \in Waiting
      PROVE  /\ e \in Events /\ e.kind = "rx" /\ e.idx \in 0..RxN-1
             /\ e.frame = rxbuf[e.idx] /\ Gap(RxN, rxHead, e.idx) < Full
             /\ missed <= Gap(RxN, rxHead, e.idx)
  <2>1. CASE \E i \in 0..EvN-1 : e = evq[i]
    <3>1. PICK i \in 0..EvN-1 : e = evq[i]
      BY <2>1
    <3>2. IsRx(i)
      BY <3>1 DEF IsRx, Waiting
    <3>3. /\ e \in Events /\ e.kind = "rx" /\ e.idx \in 0..RxN-1 /\ e.frame = rxbuf[e.idx]
          /\ taken <= Gap(RxN, rxHead, e.idx) /\ Gap(RxN, rxHead, e.idx) < Full
      BY <1>0, <1>1, <3>1, <3>2 DEF RingInv, InRing, IsRx
    <3> DEFINE g == Gap(RxN, rxHead, e.idx)
    <3>4. g \in 0..RxN-1 /\ taken <= g
      BY <1>2, <3>3
    <3> HIDE DEF g
    <3>5. missed <= g
      BY <1>0, <3>4 DEF taken
    <3>6. QED
      BY <3>3, <3>5 DEF g
  <2>2. CASE \E k \in DOMAIN pending : e = pending[k]
    <3>1. PICK k \in 1..Len(pending) : e = pending[k]
      BY <1>0, <2>2
    <3>2. /\ e \in Events /\ e.kind = "rx" /\ e.idx \in 0..RxN-1
          /\ e.frame = rxbuf[e.idx] /\ Gap(RxN, rxHead, e.idx) = missed + (k - 1)
      BY <1>0, <1>1, <3>1 DEF InHand
    <3>3. taken = missed + Len(pending) /\ taken <= Full
      BY <1>0, <1>1, <3>1 DEF InHand, taken, inHand, ModeInv
    <3>4. missed + (k - 1) < Full /\ missed <= missed + (k - 1)
      BY <1>0, <3>3
    <3>5. QED
      BY <3>2, <3>4
  <2>3. CASE kpc = "rx_copy" /\ e = event
    <3>1. taken = missed + 1 /\ taken <= Full
      BY <1>1, <2>3 DEF InHand, taken, inHand
    <3>2. missed < Full /\ missed <= missed
      BY <1>0, <3>1
    <3>3. QED
      BY <1>0, <1>1, <2>3, <3>2 DEF InHand
  <2>4. QED
    BY <2>1, <2>2, <2>3 DEF Waiting
<1>4. ASSUME NEW s \in 0..RxN-1, missed <= Gap(RxN, rxHead, s), Gap(RxN, rxHead, s) < Full
      PROVE  \E e \in Waiting : e.idx = s
  <2> DEFINE g == Gap(RxN, rxHead, s)
  <2>1. g \in 0..RxN-1 /\ g < Full /\ missed <= g
    BY <1>2, <1>4
  <2>2. CASE taken <= g
    <3>1. PICK i \in 0..EvN-1 : IsRx(i) /\ evq[i].idx = s
      BY <1>1, <2>1, <2>2 DEF RingInv, Covered
    <3>2. evq[i] \in Waiting
      BY <3>1 DEF Waiting, IsRx
    <3>3. QED
      BY <3>1, <3>2
  <2>3. CASE ~(taken <= g) /\ kpc = "rx_copy"
    <3>1. g = missed
      <4> HIDE DEF g
      <4> QED
        BY <1>0, <2>1, <2>3 DEF taken, inHand
    <3> DEFINE x == event.idx
    <3>2. event \in Waiting /\ x \in 0..RxN-1 /\ Gap(RxN, rxHead, x) = missed
      BY <1>1, <2>3 DEF Waiting, InHand
    <3> HIDE DEF x
    <3>3. x = s
      BY <1>0, <3>1, <3>2, GapInj
    <3>4. QED
      BY <3>2, <3>3 DEF x
  <2>4. CASE ~(taken <= g) /\ kpc # "rx_copy"
    <3> HIDE DEF g
    <3> DEFINE k == g - missed + 1
               x == pending[k].idx
    <3>1. k \in 1..Len(pending) /\ missed + (k - 1) = g
      BY <1>0, <2>1, <2>4 DEF taken, inHand
    <3>2. x \in 0..RxN-1 /\ Gap(RxN, rxHead, x) = g /\ pending[k].kind = "rx"
      <4> HIDE DEF k
      <4>1. /\ x \in 0..RxN-1 /\ Gap(RxN, rxHead, x) = missed + (k - 1)
            /\ pending[k].kind = "rx"
        BY <1>1, <3>1 DEF InHand
      <4>2. QED
        BY <3>1, <4>1
    <3>3. pending[k] \in Waiting
      BY <1>0, <3>1, <3>2 DEF Waiting
    <3> HIDE DEF x
    <3>4. x = s
      BY <1>0, <3>2, GapInj DEF g
    <3>5. QED
      BY <3>3, <3>4 DEF x
  <2>5. QED
    BY <2>2, <2>3, <2>4
<1>5. WaitingSlots = {s \in 0..RxN-1 : missed <= Gap(RxN, rxHead, s)
                                       /\ Gap(RxN, rxHead, s) < Full}
  BY <1>3, <1>4 DEF WaitingSlots
<1>6. ASSUME NEW e \in Waiting, NEW f \in Waiting, e.idx = f.idx
      PROVE  e = f
  BY <1>3, <1>6 DEF Events
<1>7. missed \in 0..Full
  BY <1>0, <1>1 DEF InHand, taken
<1>8. QED
  BY <1>3, <1>5, <1>6, <1>7

\* A receive of either path reads exactly the missed frames before the slot that
\* its RX_EV names, for every ring size and any order of events, time-outs, faults,
\* crashes and reloads.
THEOREM MissedBehindTheorem == Spec => []ReadsMissedBehind
<1>1. DType /\ ModeInv /\ RxInv => ReadsMissedBehind
  <2> SUFFICES ASSUME DType, ModeInv, RxInv, ~stale
               PROVE  /\ kpc = "rx_copy" => Gap(RxN, rx_head, event.idx) = missed
                      /\ mode = "direct" /\ pending # <<>> =>
                           Gap(RxN, uRx, pending[1].idx) = missed
                      /\ \A e \in Waiting : e.frame = rxbuf[e.idx]
    BY DEF ReadsMissedBehind, dist, Gap
  <2>0. InHand /\ pending \in Seq(Events) /\ missed \in Nat
    BY RxTypes DEF RxInv
  <2>1. kpc = "rx_copy" => Gap(RxN, rx_head, event.idx) = missed
    BY <2>0 DEF InHand, ModeInv, rxHead
  <2>2. ASSUME mode = "direct", pending # <<>>
        PROVE  Gap(RxN, uRx, pending[1].idx) = missed
    <3>1. 1 \in 1..Len(pending) /\ missed + (1 - 1) = missed /\ rxHead = uRx
      BY <2>0, <2>2 DEF rxHead
    <3>2. QED
      BY <2>0, <3>1 DEF InHand
  <2>3. QED
    BY <2>1, <2>2, WaitingIs
<1>2. QED
  BY <1>1, ModeInvariant, TypeInvariant, RxInvariant, PTL

\* The slots that the NIC does not own and that hold no frame that waits are the
\* doorbell's and those of the missed frames.
LEMMA Slots ==
  ASSUME DType, ModeInv, RxInv, ~stale, NEW s \in 0..RxN-1
  PROVE  /\ s \in RxOwned => s \notin WaitingSlots
         /\ s \in RxOwned \cup WaitingSlots <=> ~(Gap(RxN, rxProd, s) <= missed)
<1>0. /\ rxHead \in 0..RxN-1 /\ RxN \in Nat \ {0} /\ rxCons \in 0..RxN-1
      /\ rxProd \in 0..RxN-1 /\ After(RxN, rxProd) = rxHead /\ Full \in 0..RxN-1
  BY RxTypes DEF RxInv, Doorbell
<1>1. /\ Gap(RxN, rxCons, s) < Gap(RxN, rxCons, rxProd)
           <=> s # rxProd /\ ~(Gap(RxN, rxHead, s) < Gap(RxN, rxHead, rxCons))
      /\ ~(Gap(RxN, rxHead, rxProd) < Gap(RxN, rxHead, rxCons))
  BY <1>0, RingParts
<1>2. /\ WaitingSlots = {x \in 0..RxN-1 : missed <= Gap(RxN, rxHead, x)
                                           /\ Gap(RxN, rxHead, x) < Full}
      /\ missed \in 0..Full
  BY WaitingIs
<1>3. s \in RxOwned <=> Gap(RxN, rxCons, s) < Gap(RxN, rxCons, rxProd)
  BY DEF RxOwned, dist, Gap
<1> DEFINE h == Gap(RxN, rxHead, s)
           p == Gap(RxN, rxProd, s)
<1>4. h \in 0..RxN-1 /\ p \in 0..RxN-1
  BY <1>0, GapZero
<1>5. s \in RxOwned <=> s # rxProd /\ ~(h < Full)
  BY <1>1, <1>3 DEF Full
<1>6. s \in WaitingSlots <=> missed <= h /\ h < Full
  BY <1>2
<1>7. CASE s = rxProd
  <2>1. p = 0 /\ ~(h < Full)
    BY <1>0, <1>1, <1>7, GapZero DEF Full
  <2> HIDE DEF h, p
  <2>2. p <= missed
    BY <1>0, <1>2, <2>1
  <2>3. QED
    BY <1>5, <1>6, <1>7, <2>1, <2>2 DEF p
<1>8. CASE s # rxProd
  <2>1. h = p - 1
    BY <1>0, <1>8, ReadShrinks
  <2> HIDE DEF h, p
  <2>2. p <= missed <=> ~(missed <= h)
    BY <1>0, <1>2, <1>4, <2>1
  <2>3. ~(h < Full) => missed <= h
    BY <1>0, <1>2, <1>4
  <2>4. QED
    BY <1>5, <1>6, <1>8, <2>2, <2>3 DEF p
<1>9. QED
  BY <1>7, <1>8

\* A frame that waits is safe from the NIC and alone in its slot.
THEOREM SlotsTheorem == Spec => []WaitingSlotsNotNicOwned
<1>1. DType /\ ModeInv /\ RxInv => WaitingSlotsNotNicOwned
  <2> SUFFICES ASSUME DType, ModeInv, RxInv, ~stale
               PROVE  /\ WaitingSlots \cap RxOwned = {}
                      /\ \A e, f \in Waiting : e.idx = f.idx => e = f
    BY DEF WaitingSlotsNotNicOwned
  <2>1. RxOwned \subseteq 0..RxN-1
    BY DEF RxOwned
  <2>2. WaitingSlots \cap RxOwned = {}
    BY <2>1, Slots
  <2>3. QED
    BY <2>2, WaitingIs
<1>2. QED
  BY <1>1, ModeInvariant, TypeInvariant, RxInvariant, PTL

\* The ring lacks one slot for each RX_EV that was missed since the module was
\* loaded, and no other: receiving a frame gives the NIC exactly one slot back.
THEOREM RingTheorem == Spec => []RingLacksMissed
<1>1. DType /\ ModeInv /\ RxInv => RingLacksMissed
  <2> SUFFICES ASSUME DType, ModeInv, RxInv, ~stale
               PROVE  (0..RxN-1) \ (RxOwned \cup WaitingSlots)
                        = {s \in 0..RxN-1 : Gap(RxN, rxProd, s) <= missed}
    BY DEF RingLacksMissed, dist, Gap
  <2>1. \A s \in 0..RxN-1 :
          s \in RxOwned \cup WaitingSlots <=> ~(Gap(RxN, rxProd, s) <= missed)
    BY Slots
  <2>2. QED
    BY <2>1
<1>2. QED
  BY <1>1, ModeInvariant, TypeInvariant, RxInvariant, PTL

\* Between sessions the kernel's pointers are the NIC's but for the missed frames,
\* whatever the last session did, and after the reload that follows a session that
\* died with its own.
THEOREM AlignedTheorem == Spec => []AlignedBetweenSessions
<1>1. DType /\ ModeInv /\ RxInv /\ EvqInv /\ TxPtr => AlignedBetweenSessions
  <2> SUFFICES ASSUME DType, ModeInv, RxInv, EvqInv, TxPtr, mode = "none", ~stale
               PROVE  /\ tx_head = txProd
                      /\ evR = data_evq_read_ptr
                      /\ WaitingSlots = {s \in 0..RxN-1 :
                           /\ missed <= dist(rx_head, s, RxN)
                           /\ dist(rx_head, s, RxN) < dist(rx_head, rxCons, RxN)}
    BY DEF AlignedBetweenSessions
  <2>1. rxHead = rx_head /\ readPtr = data_evq_read_ptr /\ ~consumed /\ ~polling
    BY DEF rxHead, readPtr, ModeInv
  <2>2. tx_head = txProd
    BY DEF TxPtr, txHead, ModeInv
  <2>3. evR = data_evq_read_ptr
    BY <2>1 DEF EvqInv
  <2>4. WaitingSlots = {s \in 0..RxN-1 :
                          /\ missed <= dist(rx_head, s, RxN)
                          /\ dist(rx_head, s, RxN) < dist(rx_head, rxCons, RxN)}
    BY <2>1, WaitingIs DEF dist, Gap, Full
  <2>5. QED
    BY <2>2, <2>3, <2>4
<1>2. QED
  BY <1>1, ModeInvariant, TypeInvariant, EvqInvariant, TxPtrInvariant, RxInvariant, PTL
=============================================================================
