----------------------------- MODULE FifoProofs ------------------------------
(***************************************************************************)
(* The receive path of DataPath implements FrameFifo: step by step, from   *)
(* the invariants of DataPathProofs.                                       *)
(***************************************************************************)
EXTENDS DataPathProofs, SequenceTheorems

\* The k-th frame that waits lies k - 1 slots behind the head.
LEMMA QueueIs ==
  DType /\ ~stale =>
    /\ Full \in 0..RxN-1 /\ WaitingFrames \in Seq(0..MaxFrames) /\ Len(WaitingFrames) = Full
    /\ \A k \in 1..Full : \E s \in 0..RxN-1 :
         Gap(RxN, rxHead, s) = k - 1 /\ WaitingFrames[k] = rxbuf[s]
<1> SUFFICES ASSUME DType, ~stale
             PROVE  /\ Full \in 0..RxN-1 /\ WaitingFrames \in Seq(0..MaxFrames)
                    /\ Len(WaitingFrames) = Full
                    /\ \A k \in 1..Full : \E s \in 0..RxN-1 :
                         Gap(RxN, rxHead, s) = k - 1 /\ WaitingFrames[k] = rxbuf[s]
  OBVIOUS
<1> DEFINE slot(k) == (rxHead + k - 1) % RxN
<1>0. /\ rxHead \in 0..RxN-1 /\ RxN \in Nat \ {0} /\ Full \in 0..RxN-1
      /\ rxbuf \in [0..RxN-1 -> 0..MaxFrames]
  BY RxTypes
<1>1. ASSUME NEW k \in 1..Full
      PROVE  slot(k) \in 0..RxN-1 /\ Gap(RxN, rxHead, slot(k)) = k - 1
  <2>1. k - 1 \in 0..RxN-1 /\ rxHead + (k - 1) = rxHead + k - 1
    BY <1>0
  <2>2. QED
    BY <1>0, <2>1, Forward
<1>2. WaitingFrames = [k \in 1..Full |-> rxbuf[slot(k)]]
  BY DEF WaitingFrames, Full, dist, Gap
<1> HIDE DEF slot
<1>3. \A k \in 1..Full : WaitingFrames[k] = rxbuf[slot(k)] /\ rxbuf[slot(k)] \in 0..MaxFrames
  BY <1>0, <1>1, <1>2
<1>4. WaitingFrames \in [1..Full -> 0..MaxFrames]
  BY <1>2, <1>3
<1>5. Full \in Nat
  BY <1>0
<1>6. WaitingFrames \in Seq(0..MaxFrames) /\ Len(WaitingFrames) = Full
  <2>1. WaitingFrames \in Seq(0..MaxFrames)
    BY <1>4, <1>5, SeqDef
  <2>2. DOMAIN WaitingFrames = 1..Full
    BY <1>4
  <2>3. Len(WaitingFrames) \in Nat /\ 1..Len(WaitingFrames) = 1..Full
    BY <2>1, <2>2, LenProperties
  <2>4. QED
    BY <1>5, <2>1, <2>3
<1>7. QED
  BY <1>0, <1>1, <1>3, <1>6

\* A frame that the NIC writes is the last of the queue.
LEMMA QueueAccept ==
  ASSUME DType, DType', ~stale, ~stale', NEW f \in 0..MaxFrames, Full' = Full + 1,
         rxHead' = rxHead, rxCons \in 0..RxN-1, rxbuf' = [rxbuf EXCEPT ![rxCons] = f]
  PROVE  Len(WaitingFrames) < RxN - 1 /\ WaitingFrames' = Append(WaitingFrames, f)
<1> DEFINE q == WaitingFrames
           n == Full
           F == 0..MaxFrames
<1>0. /\ rxHead \in 0..RxN-1 /\ rxCons \in 0..RxN-1 /\ RxN \in Nat \ {0}
      /\ rxbuf \in [0..RxN-1 -> F] /\ Gap(RxN, rxHead, rxCons) = n
  BY RxTypes DEF Full
<1>1. /\ n \in 0..RxN-1 /\ q \in Seq(F) /\ Len(q) = n
      /\ \A k \in 1..n : \E s \in 0..RxN-1 : Gap(RxN, rxHead, s) = k - 1 /\ q[k] = rxbuf[s]
  BY QueueIs
<1>2. /\ n + 1 \in 0..RxN-1 /\ q' \in Seq(F) /\ Len(q') = n + 1
      /\ \A k \in 1..(n+1) : \E s \in 0..RxN-1 :
           Gap(RxN, rxHead, s) = k - 1 /\ q'[k] = rxbuf'[s]
  <2>1. (DType /\ ~stale =>
          /\ Full \in 0..RxN-1 /\ WaitingFrames \in Seq(0..MaxFrames) /\ Len(WaitingFrames) = Full
          /\ \A k \in 1..Full : \E s \in 0..RxN-1 :
               Gap(RxN, rxHead, s) = k - 1 /\ WaitingFrames[k] = rxbuf[s])'
    BY QueueIs, PTL
  <2>2. QED
    BY <2>1
<1> HIDE DEF q, n, F
<1>3. ASSUME NEW k \in 1..n
      PROVE  q'[k] = q[k]
  <2>1. PICK s \in 0..RxN-1 : Gap(RxN, rxHead, s) = k - 1 /\ q[k] = rxbuf[s]
    BY <1>1
  <2>2. k \in 1..(n+1)
    BY <1>1
  <2>3. PICK t \in 0..RxN-1 : Gap(RxN, rxHead, t) = k - 1 /\ q'[k] = rxbuf'[t]
    BY <1>2, <2>2
  <2>4. s = t
    BY <1>0, <2>1, <2>3, GapInj
  <2>5. k - 1 # n
    BY <1>1
  <2>6. s # rxCons
    BY <1>0, <2>1, <2>5
  <2>7. QED
    BY <1>0, <2>1, <2>3, <2>4, <2>6
<1>4. q'[n + 1] = f
  <2> DEFINE j == n + 1
  <2>1. j \in 1..(n + 1) /\ j - 1 = n
    BY <1>1
  <2> HIDE DEF j
  <2>2. PICK t \in 0..RxN-1 : Gap(RxN, rxHead, t) = j - 1 /\ q'[j] = rxbuf'[t]
    BY <1>2, <2>1
  <2>3. t = rxCons
    BY <1>0, <2>1, <2>2, GapInj
  <2>4. QED
    BY <1>0, <2>2, <2>3 DEF j
<1>5. f \in F
  BY DEF F
<1>6. q' = Append(q, f)
  <2>1. /\ Append(q, f) \in Seq(F) /\ Len(Append(q, f)) = n + 1
        /\ Append(q, f)[n + 1] = f /\ \A k \in 1..n : Append(q, f)[k] = q[k]
    BY <1>1, <1>5, AppendProperties
  <2>2. ASSUME NEW k \in 1..(n + 1) PROVE q'[k] = Append(q, f)[k]
    <3>1. k = n + 1 \/ k \in 1..n
      BY <1>1
    <3>2. QED
      BY <1>3, <1>4, <2>1, <3>1
  <2>3. Len(q') = Len(Append(q, f)) /\ \A k \in 1..Len(q') : q'[k] = Append(q, f)[k]
    BY <1>2, <2>1, <2>2
  <2>4. QED
    BY <1>2, <2>1, <2>3, SeqEqual
<1>7. Len(q) < RxN - 1
  BY <1>0, <1>1, <1>2
<1>8. QED
  BY <1>6, <1>7 DEF q

\* A frame that is received is the first.
LEMMA QueueDeliver ==
  ASSUME DType, DType', ~stale, ~stale', rxHead # rxCons,
         rxHead' = After(RxN, rxHead), UNCHANGED <<rxCons, rxbuf>>
  PROVE  /\ WaitingFrames # <<>> /\ Head(WaitingFrames) = rxbuf[rxHead]
         /\ WaitingFrames' = Tail(WaitingFrames)
<1> DEFINE q == WaitingFrames
           n == Full
           F == 0..MaxFrames
<1>0. /\ rxHead \in 0..RxN-1 /\ rxCons \in 0..RxN-1 /\ RxN \in Nat \ {0}
      /\ rxbuf \in [0..RxN-1 -> F]
  BY RxTypes
<1>1. /\ n \in 0..RxN-1 /\ q \in Seq(F) /\ Len(q) = n
      /\ \A k \in 1..n : \E s \in 0..RxN-1 : Gap(RxN, rxHead, s) = k - 1 /\ q[k] = rxbuf[s]
  BY QueueIs
<1>2. Full' = n - 1 /\ n # 0
  <2>1. Gap(RxN, rxHead', rxCons) = Gap(RxN, rxHead, rxCons) - 1
    BY <1>0, ReadShrinks
  <2>2. Gap(RxN, rxHead, rxCons) = 0 <=> rxHead = rxCons
    BY <1>0, GapZero
  <2>3. QED
    BY <2>1, <2>2 DEF Full
<1>3. /\ q' \in Seq(F) /\ Len(q') = n - 1
      /\ \A k \in 1..(n-1) : \E s \in 0..RxN-1 :
           Gap(RxN, rxHead', s) = k - 1 /\ q'[k] = rxbuf[s]
  <2>1. (DType /\ ~stale =>
          /\ Full \in 0..RxN-1 /\ WaitingFrames \in Seq(0..MaxFrames) /\ Len(WaitingFrames) = Full
          /\ \A k \in 1..Full : \E s \in 0..RxN-1 :
               Gap(RxN, rxHead, s) = k - 1 /\ WaitingFrames[k] = rxbuf[s])'
    BY QueueIs, PTL
  <2>2. QED
    BY <1>2, <2>1
<1> HIDE DEF q, n, F
<1>4. q # <<>> /\ n \in Nat \ {0}
  <2>1. n \in Nat \ {0}
    BY <1>1, <1>2
  <2>2. QED
    BY <1>1, <2>1
<1>5. q[1] = rxbuf[rxHead]
  <2>1. 1 \in 1..n /\ 1 - 1 = 0
    BY <1>4
  <2>2. PICK s \in 0..RxN-1 : Gap(RxN, rxHead, s) = 0 /\ q[1] = rxbuf[s]
    BY <1>1, <2>1
  <2>3. Gap(RxN, rxHead, s) = 0 <=> rxHead = s
    BY <1>0, GapZero
  <2>4. QED
    BY <2>2, <2>3
<1>6. ASSUME NEW k \in 1..(n - 1)
      PROVE  q'[k] = q[k + 1]
  <2> DEFINE j == k + 1
  <2>1. j \in 1..n /\ j - 1 = k /\ k # 0 /\ k \in Int
    BY <1>4
  <2> HIDE DEF j
  <2>2. PICK s \in 0..RxN-1 : Gap(RxN, rxHead, s) = j - 1 /\ q[j] = rxbuf[s]
    BY <1>1, <2>1
  <2>3. PICK t \in 0..RxN-1 : Gap(RxN, rxHead', t) = k - 1 /\ q'[k] = rxbuf[t]
    BY <1>3
  <2>4. s # rxHead
    <3>1. Gap(RxN, rxHead, rxHead) = 0
      BY <1>0, GapZero
    <3>2. QED
      BY <2>1, <2>2, <3>1
  <2>5. Gap(RxN, rxHead', s) = k - 1 /\ rxHead' \in 0..RxN-1
    <3>1. Gap(RxN, rxHead', s) = Gap(RxN, rxHead, s) - 1
      BY <1>0, <2>4, ReadShrinks
    <3>2. QED
      BY <1>0, <2>1, <2>2, <3>1, AfterIs
  <2>6. s = t
    BY <1>0, <2>3, <2>5, GapInj
  <2>7. QED
    BY <2>2, <2>3, <2>6 DEF j
<1>7. q' = Tail(q)
  <2>1. /\ Tail(q) \in Seq(F) /\ Len(Tail(q)) = n - 1
        /\ \A k \in 1..(n - 1) : Tail(q)[k] = q[k + 1]
    BY <1>1, <1>4, HeadTailProperties
  <2>2. Len(q') = Len(Tail(q)) /\ \A k \in 1..Len(q') : q'[k] = Tail(q)[k]
    BY <1>3, <1>6, <2>1
  <2>3. QED
    BY <1>3, <2>1, <2>2, SeqEqual
<1>8. Head(q) = q[1]
  BY <1>1, <1>4
<1>9. QED
  BY <1>4, <1>5, <1>7, <1>8 DEF q

\* What the queue depends on.
LEMMA QueueSame ==
  ASSUME UNCHANGED <<stale, rxCons, rxbuf>>, rxHead' = rxHead
  PROVE  WaitingFrames' = WaitingFrames
BY DEF WaitingFrames

\* Every step of the receive path is one of the FIFO, or none.
LEMMA FifoStep ==
  ASSUME DType, DType', BoolType, BoolType',
         ModeInv, EvqInv, RxInv, [Next]_vars
  PROVE  [Fifo!FifoNext]_<<WaitingFrames, last, ~stale>>
<1> USE DEF nic, kernel, call, user, session, history
<1>0. stale \in BOOLEAN /\ stale' \in BOOLEAN
  BY DEF BoolType
<1>a. ASSUME UNCHANGED <<stale, rxCons, rxbuf, last>>, rxHead' = rxHead
      PROVE  UNCHANGED <<WaitingFrames, last, ~stale>>
  BY <1>a, QueueSame
<1>b. ASSUME stale, stale', UNCHANGED last
      PROVE  UNCHANGED <<WaitingFrames, last, ~stale>>
  BY <1>b DEF WaitingFrames
<1>1. CASE UNCHANGED vars
  BY <1>1, <1>a DEF vars, rxHead
<1>2. CASE NicReceive
  <2>1. /\ UNCHANGED <<stale, last>> /\ rxHead' = rxHead
        /\ rxbuf' = [rxbuf EXCEPT ![rxCons] = arrived + 1]
    BY <1>2 DEF NicReceive, rxHead
  <2>2. arrived + 1 \in 1..MaxFrames /\ arrived + 1 \in 0..MaxFrames /\ rxCons \in 0..RxN-1
    BY <1>2, Sizes DEF NicReceive, DType, DataType, IndexType
  <2>3. CASE stale
    BY <1>b, <2>1, <2>3
  <2>4. CASE ~stale
    <3>1. Full' = Full + 1
      BY <1>2, <2>4, RingReceive DEF EvqInv, RxInv
    <3>2. Len(WaitingFrames) < RxN - 1 /\ WaitingFrames' = Append(WaitingFrames, arrived + 1)
      BY <2>1, <2>2, <2>4, <3>1, QueueAccept
    <3>3. Fifo!Accept(arrived + 1)
      BY <2>1, <2>4, <3>2 DEF Fifo!Accept
    <3>4. QED
      BY <2>2, <3>3 DEF Fifo!FifoNext
  <2>5. QED
    BY <2>3, <2>4
<1>3. CASE NicTransmit \/ NicOther
  BY <1>3, <1>a DEF NicTransmit, NicOther, rxHead
<1>4. CASE TxBegin \/ TxPoll \/ TxEnd
  BY <1>4, <1>a DEF TxBegin, TxPoll, TxEnd, rxHead
<1>5. CASE RxBegin \/ RxPoll \/ RxTimeout
  BY <1>5, <1>a DEF RxBegin, RxPoll, RxTimeout, rxHead
<1>6. CASE RxCopyoutFails
  BY <1>6, <1>a DEF RxCopyoutFails, rxHead
<1>7. CASE RxCopyout
  <2>1. /\ UNCHANGED <<stale, rxCons, rxbuf>> /\ rxHead = rx_head
        /\ rxHead' = inc(rxHead, RxN) /\ last' = (IF stale THEN last ELSE rxbuf[rxHead])
    BY <1>7 DEF RxCopyout, ModeInv, rxHead, received
  <2>2. CASE stale
    BY <1>b, <2>1, <2>2
  <2>3. CASE ~stale
    <3>1. rxHead # rxCons
      BY <1>7, <2>3, CopyoutAdvance DEF RxInv
    <3>2. rxHead' = After(RxN, rxHead)
      BY <2>1, IncIn, RxTypes
    <3>3. /\ WaitingFrames # <<>> /\ Head(WaitingFrames) = rxbuf[rxHead]
          /\ WaitingFrames' = Tail(WaitingFrames)
      BY <2>1, <2>3, <3>1, <3>2, QueueDeliver
    <3>4. Fifo!Deliver
      BY <2>1, <2>3, <3>3 DEF Fifo!Deliver
    <3>5. QED
      BY <3>4 DEF Fifo!FifoNext
  <2>4. QED
    BY <2>2, <2>3
<1>8. CASE rx_recv
  <2>1. /\ UNCHANGED <<stale, rxCons, rxbuf>> /\ rxHead = uRx
        /\ rxHead' = inc(rxHead, RxN) /\ last' = (IF stale THEN last ELSE rxbuf[rxHead])
    BY <1>8 DEF rx_recv, rxHead, received
  <2>2. CASE stale
    BY <1>b, <2>1, <2>2
  <2>3. CASE ~stale
    <3>1. rxHead # rxCons
      BY <1>8, <2>3, RecvAdvance DEF RxInv
    <3>2. rxHead' = After(RxN, rxHead)
      BY <2>1, IncIn, RxTypes
    <3>3. /\ WaitingFrames # <<>> /\ Head(WaitingFrames) = rxbuf[rxHead]
          /\ WaitingFrames' = Tail(WaitingFrames)
      BY <2>1, <2>3, <3>1, <3>2, QueueDeliver
    <3>4. Fifo!Deliver
      BY <2>1, <2>3, <3>3 DEF Fifo!Deliver
    <3>5. QED
      BY <3>4 DEF Fifo!FifoNext
  <2>4. QED
    BY <2>2, <2>3
<1>9. CASE Poll \/ PollAck \/ tx_post
  BY <1>9, <1>a DEF Poll, PollAck, tx_post, rxHead
<1>10. CASE SessionDestroy
  BY <1>10, <1>a DEF SessionDestroy, EndSession, ModeInv, rxHead
<1>11. CASE SessionCrash
  <2>1. UNCHANGED <<rxCons, rxbuf, last, rx_head>> /\ mode' = "none"
        /\ stale' = (stale \/ used_poll)
    BY <1>11 DEF SessionCrash, EndSession
  <2>2. CASE stale
    BY <1>b, <2>1, <2>2
  <2>3. CASE ~stale /\ used_poll
    <3>1. Fifo!Fail
      BY <2>1, <2>3 DEF Fifo!Fail, WaitingFrames
    <3>2. QED
      BY <3>1 DEF Fifo!FifoNext
  <2>4. CASE ~stale /\ ~used_poll
    <3>1. rxHead' = rxHead
      BY <2>1, <2>4 DEF rxHead, ModeInv
    <3>2. stale' = stale
      BY <1>0, <2>1, <2>4
    <3>3. QED
      BY <1>a, <2>1, <3>1, <3>2
  <2>5. QED
    BY <2>2, <2>3, <2>4
<1>12. CASE Kldload
  <2>1. ~stale' /\ UNCHANGED last /\ rxCons' = 0 /\ rxHead' = 0
    BY <1>12 DEF Kldload, Reset, rxHead
  <2>2. Full' = 0
    <3>1. RxN \in Nat \ {0} /\ 0 \in 0..RxN-1
      BY Sizes
    <3>2. Gap(RxN, 0, 0) = 0
      BY <3>1, GapZero
    <3>3. QED
      BY <2>1, <3>2 DEF Full
  <2>3. (DType /\ ~stale =>
          /\ Full \in 0..RxN-1 /\ WaitingFrames \in Seq(0..MaxFrames) /\ Len(WaitingFrames) = Full
          /\ \A k \in 1..Full : \E s \in 0..RxN-1 :
               Gap(RxN, rxHead, s) = k - 1 /\ WaitingFrames[k] = rxbuf[s])'
    BY QueueIs, PTL
  <2>4. WaitingFrames' \in Seq(0..MaxFrames) /\ Len(WaitingFrames') = 0
    BY <2>1, <2>2, <2>3
  <2>5. WaitingFrames' = <<>>
    BY <2>4, EmptySeq
  <2>6. Fifo!Reload
    BY <2>1, <2>5 DEF Fifo!Reload
  <2>7. QED
    BY <2>6 DEF Fifo!FifoNext
<1>13. CASE \E m \in {"kernel", "direct"} : SessionInit(m)
  BY <1>13, <1>a DEF SessionInit, rxHead
<1>14. QED
  BY <1>1, <1>2, <1>3, <1>4, <1>5, <1>6, <1>7, <1>8, <1>9, <1>10, <1>11, <1>12, <1>13
     DEF Next, Nic, Ioctl, Direct, Session

\* The receive path implements a FIFO of RxN - 1 frames: through either path and
\* across sessions, time-outs, missed events, crashes and reloads, frames are handed
\* over each once and in the order the NIC accepted them.
THEOREM FifoTheorem == Spec => ReceiveIsFifo
<1>1. DType /\ Init => Fifo!FifoInit
  <2> SUFFICES ASSUME DType, Init PROVE Fifo!FifoInit
    OBVIOUS
  <2>1. ~stale /\ last = 0 /\ rxCons = 0 /\ rxHead = 0
    BY DEF Init, rxHead
  <2>2. Full = 0
    <3>1. RxN \in Nat \ {0} /\ 0 \in 0..RxN-1
      BY Sizes
    <3>2. Gap(RxN, 0, 0) = 0
      BY <3>1, GapZero
    <3>3. QED
      BY <2>1, <3>2 DEF Full
  <2>3. WaitingFrames \in Seq(0..MaxFrames) /\ Len(WaitingFrames) = 0
    BY <2>1, <2>2, QueueIs
  <2>4. WaitingFrames = <<>>
    BY <2>3, EmptySeq
  <2>5. QED
    BY <2>1, <2>4 DEF Fifo!FifoInit
<1>2. /\ DType /\ DType' /\ BoolType /\ BoolType' /\ ModeInv /\ EvqInv /\ RxInv /\ [Next]_vars
      => [Fifo!FifoNext]_<<WaitingFrames, last, ~stale>>
  BY FifoStep
<1>3. QED
  BY <1>1, <1>2, ModeInvariant, TypeInvariant, EvqInvariant, RxInvariant, PTL
     DEF Spec, ReceiveIsFifo, Fifo!FifoSpec
=============================================================================
