----------------------------- MODULE BenchProofs -----------------------------
(***************************************************************************)
(* Proofs about the first run of the benchmark after the module is loaded, *)
(* for any ring sizes that hold the windows of all frame sizes, any number *)
(* of sizes, samples and iterations, and any number of frames lost.        *)
(***************************************************************************)
EXTENDS Bench, FiniteSetTheorems, SequenceTheorems, TLAPS

-----------------------------------------------------------------------------
(* Counting the receive events of a queue.                                 *)

\* There are finitely many.
LEMMA RxCount ==
  ASSUME NEW S, NEW s \in Seq(S)
  PROVE  /\ IsFiniteSet({k \in 1..Len(s) : isRx(s[k])})
         /\ RxIn(s) \in Nat /\ RxIn(s) <= Len(s)
<1>1. Len(s) \in Nat
  OBVIOUS
<1>2. IsFiniteSet(1..Len(s)) /\ Cardinality(1..Len(s)) = Len(s)
  BY <1>1, FS_Interval
<1> DEFINE A == {k \in 1..Len(s) : isRx(s[k])}
<1>3. A \in SUBSET (1..Len(s))
  OBVIOUS
<1> HIDE DEF A
<1>4. IsFiniteSet(A) /\ Cardinality(A) <= Len(s) /\ Cardinality(A) \in Nat
  BY <1>2, <1>3, FS_Subset, FS_CardinalityType
<1>5. QED
  BY <1>1, <1>4 DEF A, RxIn

\* An event at the end counts if it is a receive event.
LEMMA RxAppend ==
  ASSUME NEW S, NEW s \in Seq(S), NEW e \in S
  PROVE  RxIn(Append(s, e)) = RxIn(s) + (IF isRx(e) THEN 1 ELSE 0)
<1> DEFINE A == {k \in 1..Len(s) : isRx(s[k])}
           B == {k \in 1..Len(Append(s, e)) : isRx(Append(s, e)[k])}
           n == Len(s) + 1
<1>1. /\ Len(s) \in Nat /\ Len(Append(s, e)) = n
      /\ \A k \in 1..Len(s) : Append(s, e)[k] = s[k]
      /\ Append(s, e)[n] = e
  OBVIOUS
<1>2. B = IF isRx(e) THEN A \cup {n} ELSE A
  BY <1>1
<1>3. n \notin A /\ IsFiniteSet(A) /\ Cardinality(A) \in Nat
  BY <1>1, RxCount, FS_CardinalityType
<1>4. Cardinality(A \cup {n}) = Cardinality(A) + 1
  BY <1>3, FS_AddElement
<1> HIDE DEF A, B
<1>5. Cardinality(B) = Cardinality(A) + (IF isRx(e) THEN 1 ELSE 0)
  BY <1>2, <1>3, <1>4
<1>6. QED
  BY <1>5 DEF A, B, RxIn

\* What a poll takes and what it leaves add up.
LEMMA RxSplit ==
  ASSUME NEW S, NEW s \in Seq(S), NEW m \in 0..Len(s)
  PROVE  RxIn(s) = RxIn(SubSeq(s, 1, m)) + RxIn(SubSeq(s, m + 1, Len(s)))
<1> DEFINE n == Len(s)
           A == {k \in 1..n : isRx(s[k])}
           B == {k \in 1..m : isRx(s[k])}
           C == {k \in m+1..n : isRx(s[k])}
           D == {k \in 1..n-m : isRx(s[m + k])}
<1>1. n \in Nat /\ m \in Nat /\ m <= n /\ \A k \in 1..n : s[k] \in S
  OBVIOUS
<1>2. /\ Len(SubSeq(s, 1, m)) = m
      /\ \A k \in 1..m : SubSeq(s, 1, m)[k] = s[k]
  <2>1. \A k \in 1..m : s[k] \in S
    BY <1>1
  <2>2. QED
    BY <1>1, <2>1, SubSeqProperties, Z3
<1>3. /\ Len(SubSeq(s, m + 1, n)) = n - m
      /\ \A k \in 1..n-m : SubSeq(s, m + 1, n)[k] = s[m + k]
  <2>1. \A k \in m+1..n : s[k] \in S
    BY <1>1
  <2>2. QED
    BY <1>1, <2>1, SubSeqProperties, Z3
<1>4. RxIn(SubSeq(s, 1, m)) = Cardinality(B) /\ RxIn(s) = Cardinality(A)
  BY <1>2 DEF RxIn
<1>5. RxIn(SubSeq(s, m + 1, n)) = Cardinality(D)
  BY <1>3 DEF RxIn
<1>6. A = B \cup C /\ B \cap C = {}
  BY <1>1
<1>7. IsFiniteSet(A) /\ B \in SUBSET A /\ C \in SUBSET A /\ Cardinality({}) = 0
  BY <1>6, RxCount, FS_EmptySet
<1>8. IsFiniteSet(B) /\ IsFiniteSet(C)
  BY <1>7, FS_Subset
<1>9. /\ Cardinality(B) \in Nat /\ Cardinality(C) \in Nat
      /\ Cardinality(A) = Cardinality(B) + Cardinality(C)
  <2> HIDE DEF A, B, C
  <2>1. Cardinality(B) \in Nat /\ Cardinality(C) \in Nat
    BY <1>8, FS_CardinalityType
  <2>2. Cardinality(B \cup C)
          = Cardinality(B) + Cardinality(C) - Cardinality(B \cap C)
    BY <1>8, FS_Union
  <2>3. Cardinality(B \cap C) = 0 /\ Cardinality(A) = Cardinality(B \cup C)
    BY <1>6, <1>7, Zenon
  <2>4. QED
    BY <2>1, <2>2, <2>3
<1>10. Cardinality(D) = Cardinality(C)
  <2> DEFINE f == [k \in C |-> k - m]
  <2>1. \A k \in C : k \in Int /\ k - m \in D
    BY <1>1
  <2>2. f \in [C -> D] /\ \A j, k \in C : f[j] = f[k] => j = k
    BY <1>1, <2>1
  <2>3. \A d \in D : d + m \in C /\ f[d + m] = d
    BY <1>1
  <2> HIDE DEF C, D, f
  <2>4. f \in Bijection(C, D)
    BY <2>2, <2>3 DEF Bijection, Injection, Surjection, IsInjective
  <2>5. ExistsBijection(C, D)
    BY <2>4 DEF ExistsBijection
  <2>6. QED
    BY <1>8, <2>5, FS_Bijection
<1>11. QED
  BY <1>4, <1>5, <1>9, <1>10
-----------------------------------------------------------------------------
(* The invariant.  Frames go one way from each function to the other:      *)
(* posted, on the cable, in a slot.  A loop with a window of one has at    *)
(* most one frame on its way, so that a receive can take no other, and no  *)
(* receive event waits where a TX ioctl or the rest of a batch could eat   *)
(* it.  The streaming job, which leaves frames under way, is the last.     *)

Frame == [size : Nat, n : Nat]
Event == [kind : {"tx", "rx"}, frame : Frame]
Job == [path : {"kernel", "direct"}, mode : {"lat", "tput"}]
Streams == [path |-> "direct", mode |-> "tput"]

Typed ==
  /\ txq \in [PF -> Seq(Frame)] /\ wire \in [PF -> Seq(Frame)]
  /\ slots \in [PF -> Seq(Frame)] /\ acks \in [PF -> Frame]
  /\ evq \in [PF -> Seq(Event)]
  /\ todo \in Seq(Job) /\ size \in 1..NumSizes /\ i \in Nat /\ hand \in Frame
  /\ runs \in Nat /\ lost \in Nat

\* The frames on the way from p.
Way(p) == Len(txq[p]) + Len(wire[Peer(p)]) + Len(slots[Peer(p)])
Only(s, f) == \A k \in 1..Len(s) : s[k] = f
OnWay(p, f) == Only(txq[p], f) /\ Only(wire[Peer(p)], f) /\ Only(slots[Peer(p)], f)

\* Every filled slot has its event.
Backed == \A p \in PF : RxIn(evq[p]) = Len(slots[p])

\* Nothing is lost for want of room and nothing is eaten.
Sound ==
  /\ Circulating + lost <= Window * NumSizes
  /\ dropped = FALSE /\ eaten = {} /\ (rc = "timeout" => lost > 0)

\* The jobs and where the program is in the first of them.
Ordered == \A k \in 1..Len(todo) : todo[k] = Streams => k = Len(todo)
Doing ==
  /\ pc # "exit" => todo # <<>>
  /\ pc \in {"launch", "launching", "await", "echo", "echoing", "collect", "collected"}
       => Head(todo) # Streams
  /\ pc \in {"prime", "serve1", "serve0"} => Head(todo) = Streams

\* The frames under way at each point of the program.
Under ==
  /\ runs = 0 => pc = "exit"
  /\ pc = "init" => size = 1
  /\ (runs = 0 \/ pc \in {"init", "launch", "echo", "collected"})
       => Circulating = 0 /\ lost = 0
  /\ pc \in {"launching", "await"}
       => Way(0) + lost = 1 /\ Way(1) = 0 /\ OnWay(0, launched)
  /\ pc \in {"echoing", "collect"}
       => Way(1) + lost = 1 /\ Way(0) = 0 /\ OnWay(1, launched)
  /\ pc \in {"echo", "echoing", "collect", "collected"} => hand = launched
  /\ pc = "prime" => Circulating + lost = Window * (size - 1)
  /\ pc \in {"serve1", "serve0"} => Circulating + lost = Window * size

BenchInv == Typed /\ Backed /\ Sound /\ Ordered /\ Doing /\ Under

\* The two ways make up the round.
Sums == \A p \in PF : Way(p) \in Nat /\ Circulating = Way(p) + Way(Peer(p))

\* The other function.
LEMMA Others ==
  ASSUME NEW p \in PF
  PROVE  Peer(p) \in PF /\ Peer(Peer(p)) = p /\ Peer(p) # p /\ PF = {p, Peer(p)}
BY DEF PF, Peer

\* They do.
LEMMA Ways == Typed => Sums
<1> SUFFICES ASSUME Typed, NEW p \in PF
             PROVE  Way(p) \in Nat /\ Circulating = Way(p) + Way(Peer(p))
  BY DEF Sums
<1> DEFINE q == Peer(p)
           a1 == Len(txq[p])
           b1 == Len(wire[q])
           c1 == Len(slots[q])
           a2 == Len(txq[q])
           b2 == Len(wire[p])
           c2 == Len(slots[p])
<1>1. q \in PF /\ Peer(q) = p
  BY Others
<1>2. /\ a1 \in Nat /\ b1 \in Nat /\ c1 \in Nat
      /\ a2 \in Nat /\ b2 \in Nat /\ c2 \in Nat
  BY <1>1 DEF Typed
<1>3. (p = 0 /\ q = 1) \/ (p = 1 /\ q = 0)
  BY DEF PF, Peer
<1>4. Way(p) = a1 + b1 + c1 /\ Way(q) = a2 + b2 + c2
  BY <1>1 DEF Way
<1>5. \/ Circulating = a1 + b1 + c1 + a2 + b2 + c2
      \/ Circulating = a2 + b2 + c2 + a1 + b1 + c1
  BY <1>3 DEF Circulating
<1> HIDE DEF q, a1, b1, c1, a2, b2, c2
<1>6. Way(p) \in Nat /\ Circulating = Way(p) + Way(q)
  BY <1>2, <1>4, <1>5
<1>7. QED
  BY <1>6 DEF q

\* Queues of equal frames.
LEMMA OnlyTail ==
  ASSUME NEW s \in Seq(Frame), s # <<>>, NEW f, Only(s, f)
  PROVE  Head(s) = f /\ Only(Tail(s), f)
BY HeadTailProperties DEF Only

\* The same frame more.
LEMMA OnlyAppend ==
  ASSUME NEW s \in Seq(Frame), NEW f \in Frame, Only(s, f)
  PROVE  Only(Append(s, f), f)
BY DEF Only

\* The network moves frames along their way or loses them.
Moves ==
  /\ UNCHANGED program
  /\ Circulating' + lost' = Circulating + lost
  /\ \A p \in PF : Way(p)' <= Way(p)
  /\ \A p \in PF, f \in Frame : OnWay(p, f) => OnWay(p, f)'

\* A step on the way from p, which leaves the other way alone.
LEMMA OneWay ==
  ASSUME Typed, Typed', NEW p \in PF, UNCHANGED program,
         txq'[Peer(p)] = txq[Peer(p)], wire'[p] = wire[p], slots'[p] = slots[p],
         Way(p)' + lost' = Way(p) + lost, lost' >= lost,
         \A f \in Frame : OnWay(p, f) => OnWay(p, f)'
  PROVE  Moves
<1> DEFINE q == Peer(p)
<1>1. q \in PF /\ Peer(q) = p /\ PF = {p, q}
  BY Others
<1>2. Way(q)' = Way(q) /\ \A f \in Frame : OnWay(q, f) => OnWay(q, f)'
  BY <1>1 DEF Way, OnWay
<1>3. (Typed => Sums)'
  BY Ways, PTL
<1>4. /\ Circulating = Way(p) + Way(q) /\ Circulating' = Way(p)' + Way(q)'
      /\ Way(p) \in Nat /\ Way(q) \in Nat /\ Way(p)' \in Nat
  BY <1>1, <1>3, Ways DEF Sums
<1>5. lost \in Nat /\ lost' \in Nat
  BY DEF Typed
<1> HIDE DEF q
<1>6. Circulating' + lost' = Circulating + lost /\ Way(p)' <= Way(p) /\ Way(q)' <= Way(q)
  BY <1>2, <1>4, <1>5
<1>7. QED
  BY <1>1, <1>2, <1>6 DEF Moves

\* So does a NIC that sends, ...
LEMMA SendMoves ==
  ASSUME Typed, Backed, NEW p \in PF, NicSend(p)
  PROVE  Typed' /\ Backed' /\ Moves /\ dropped' = dropped
<1> DEFINE q == Peer(p)
<1>1. q \in PF /\ Peer(q) = p /\ q # p
  BY Others
<1>2. /\ UNCHANGED <<evq, slots, dropped, lost, program>>
      /\ txq[p] # <<>>
      /\ wire' = [wire EXCEPT ![q] = Append(@, Head(txq[p]))]
      /\ acks' = [acks EXCEPT ![p] = Head(txq[p])]
      /\ txq' = [txq EXCEPT ![p] = Tail(@)]
  BY DEF NicSend
<1>3. /\ txq[p] \in Seq(Frame) /\ wire[q] \in Seq(Frame) /\ slots[q] \in Seq(Frame)
  BY <1>1 DEF Typed
<1>4. /\ Head(txq[p]) \in Frame /\ Tail(txq[p]) \in Seq(Frame)
      /\ Len(Tail(txq[p])) = Len(txq[p]) - 1
  BY <1>2, <1>3, HeadTailProperties
<1>5. /\ Append(wire[q], Head(txq[p])) \in Seq(Frame)
      /\ Len(Append(wire[q], Head(txq[p]))) = Len(wire[q]) + 1
  BY <1>3, <1>4
<1>6. /\ txq'[p] = Tail(txq[p]) /\ txq'[q] = txq[q]
      /\ wire'[q] = Append(wire[q], Head(txq[p])) /\ wire'[p] = wire[p]
  BY <1>1, <1>2 DEF Typed
<1>7. Typed'
  <2>1. txq' \in [PF -> Seq(Frame)] /\ wire' \in [PF -> Seq(Frame)] /\ acks' \in [PF -> Frame]
    BY <1>1, <1>2, <1>4, <1>5 DEF Typed
  <2>2. QED
    BY <1>2, <2>1 DEF Typed, program
<1>8. Way(p)' = Way(p)
  <2> DEFINE a == Len(txq[p])
             b == Len(wire[q])
             c == Len(slots[q])
  <2>1. Way(p) = a + b + c /\ Way(p)' = (a - 1) + (b + 1) + c
    BY <1>2, <1>4, <1>5, <1>6 DEF Way
  <2>2. a \in Nat /\ b \in Nat /\ c \in Nat
    BY <1>3
  <2> HIDE DEF a, b, c
  <2>3. QED
    BY <2>1, <2>2
<1>9. \A f \in Frame : OnWay(p, f) => OnWay(p, f)'
  BY <1>2, <1>3, <1>4, <1>6, OnlyTail, OnlyAppend DEF OnWay
<1>10. lost' = lost /\ lost' >= lost /\ Way(p)' + lost' = Way(p) + lost
  BY <1>2, <1>8 DEF Typed
<1>11. Moves
  BY <1>2, <1>6, <1>7, <1>9, <1>10, OneWay
<1>12. QED
  BY <1>2, <1>7, <1>11 DEF Backed
\* ... reports what it has sent, ...
LEMMA CompleteMoves ==
  ASSUME Typed, Backed, NEW p \in PF, NicComplete(p)
  PROVE  Typed' /\ Backed' /\ Moves /\ dropped' = dropped
<1> DEFINE e == [kind |-> "tx", frame |-> acks[p]]
<1>1. /\ UNCHANGED <<txq, wire, slots, dropped, lost, program>>
      /\ evq' = [evq EXCEPT ![p] = Append(@, e)]
      /\ acks' = [acks EXCEPT ![p] = NoFrame]
  BY DEF NicComplete
<1>2. e \in Event /\ NoFrame \in Frame /\ ~isRx(e) /\ evq[p] \in Seq(Event)
  BY DEF Event, Frame, NoFrame, Typed, isRx
<1> HIDE DEF e
<1>3. Typed'
  <2>1. evq' \in [PF -> Seq(Event)] /\ acks' \in [PF -> Frame]
    BY <1>1, <1>2 DEF Typed
  <2>2. QED
    BY <1>1, <2>1 DEF Typed, program
<1>4. RxIn(Append(evq[p], e)) = RxIn(evq[p])
  <2>1. RxIn(Append(evq[p], e)) = RxIn(evq[p]) + 0
    BY <1>2, RxAppend
  <2>2. RxIn(evq[p]) \in Nat
    BY <1>2, RxCount
  <2>3. QED
    BY <2>1, <2>2
<1>5. Backed'
  <2> SUFFICES ASSUME NEW r \in PF PROVE RxIn(evq'[r]) = Len(slots'[r])
    BY DEF Backed
  <2>1. CASE r = p
    BY <1>1, <1>4, <2>1 DEF Backed, Typed
  <2>2. CASE r # p
    BY <1>1, <2>2 DEF Backed, Typed
  <2>3. QED
    BY <2>1, <2>2
<1>6. Moves
  <2>1. \A r \in PF : Way(r) \in Nat /\ Way(r)' = Way(r)
    BY <1>1, Ways DEF Way, Sums
  <2>2. Circulating' = Circulating /\ lost' = lost
    BY <1>1 DEF Circulating
  <2>3. QED
    BY <1>1, <2>1, <2>2 DEF Moves, OnWay
<1>7. QED
  BY <1>1, <1>3, <1>5, <1>6

\* ... or receives, with a slot to spare, ...
LEMMA ReceiveMoves ==
  ASSUME Typed, Backed, Circulating + lost < RxN, RxN \in Nat, NEW p \in PF, NicReceive(p)
  PROVE  Typed' /\ Backed' /\ Moves /\ dropped' = dropped
<1> DEFINE q == Peer(p)
           g == Head(wire[p])
           e == [kind |-> "rx", frame |-> g]
<1>1. q \in PF /\ Peer(q) = p /\ q # p
  BY Others
<1>2. wire[p] # <<>> /\ wire[p] \in Seq(Frame) /\ slots[p] \in Seq(Frame)
      /\ txq[q] \in Seq(Frame) /\ evq[p] \in Seq(Event)
  BY <1>1 DEF NicReceive, Typed
<1>3. g \in Frame /\ Tail(wire[p]) \in Seq(Frame) /\ Len(Tail(wire[p])) = Len(wire[p]) - 1
  BY <1>2, HeadTailProperties
<1> DEFINE a == Len(txq[q])
           b == Len(wire[p])
           c == Len(slots[p])
<1>4. a \in Nat /\ b \in Nat /\ b > 0 /\ c \in Nat
  BY <1>2
<1>5. Way(q) = a + b + c
  BY <1>1 DEF Way
<1>6. Circulating = Way(q) + Way(p) /\ Way(p) \in Nat /\ lost \in Nat
  BY <1>1, Ways DEF Sums, Typed
<1>7. c < RxN - 1
  <2> HIDE DEF a, b, c
  <2>1. QED
    BY <1>4, <1>5, <1>6
<1>8. /\ wire' = [wire EXCEPT ![p] = Tail(@)]
      /\ slots' = [slots EXCEPT ![p] = Append(@, g)]
      /\ evq' = [evq EXCEPT ![p] = Append(@, e)]
      /\ UNCHANGED <<txq, acks, lost, program, dropped>>
  BY <1>7 DEF NicReceive
<1>9. e \in Event /\ isRx(e)
  BY <1>3 DEF Event, isRx
<1>10. Append(slots[p], g) \in Seq(Frame) /\ Len(Append(slots[p], g)) = c + 1
  BY <1>2, <1>3
<1>11. RxIn(Append(evq[p], e)) = RxIn(evq[p]) + 1
  <2> HIDE DEF e
  <2>1. QED
    BY <1>2, <1>9, RxAppend
<1> HIDE DEF g, e
<1>12. Typed'
  <2>1. /\ wire' \in [PF -> Seq(Frame)] /\ slots' \in [PF -> Seq(Frame)]
        /\ evq' \in [PF -> Seq(Event)]
    BY <1>3, <1>8, <1>9, <1>10 DEF Typed
  <2>2. QED
    BY <1>8, <2>1 DEF Typed, program
<1>13. Backed'
  <2> SUFFICES ASSUME NEW r \in PF PROVE RxIn(evq'[r]) = Len(slots'[r])
    BY DEF Backed
  <2>1. CASE r = p
    <3>1. evq'[p] = Append(evq[p], e) /\ slots'[p] = Append(slots[p], g) /\ RxIn(evq[p]) = c
      BY <1>8 DEF Typed, Backed
    <3>2. QED
      BY <1>10, <1>11, <2>1, <3>1
  <2>2. CASE r # p
    BY <1>8, <2>2 DEF Backed, Typed
  <2>3. QED
    BY <2>1, <2>2
<1>14. /\ txq' = txq /\ wire'[p] = Tail(wire[p]) /\ slots'[p] = Append(slots[p], g)
       /\ wire'[q] = wire[q] /\ slots'[q] = slots[q] /\ lost' = lost
  BY <1>1, <1>8 DEF Typed
<1>15. Way(q)' + lost' = Way(q) + lost /\ lost' >= lost
  <2>1. Way(q)' = a + (b - 1) + (c + 1)
    BY <1>1, <1>3, <1>10, <1>14 DEF Way
  <2> HIDE DEF a, b, c
  <2>2. QED
    BY <1>4, <1>5, <1>6, <1>14, <2>1
<1>16. \A f \in Frame : OnWay(q, f) => OnWay(q, f)'
  BY <1>1, <1>2, <1>3, <1>14, OnlyTail, OnlyAppend DEF OnWay, g
<1>17. Moves
  BY <1>1, <1>8, <1>12, <1>14, <1>15, <1>16, OneWay
<1>18. QED
  BY <1>8, <1>12, <1>13, <1>17

\* ... and the cable that loses a frame.
LEMMA LoseMoves ==
  ASSUME Typed, Backed, NEW p \in PF, Lose(p)
  PROVE  Typed' /\ Backed' /\ Moves /\ dropped' = dropped
<1> DEFINE q == Peer(p)
<1>1. q \in PF /\ Peer(q) = p /\ q # p
  BY Others
<1>2. wire[p] # <<>> /\ wire[p] \in Seq(Frame) /\ slots[p] \in Seq(Frame)
      /\ txq[q] \in Seq(Frame) /\ lost \in Nat
  BY <1>1 DEF Lose, Typed
<1>3. Tail(wire[p]) \in Seq(Frame) /\ Len(Tail(wire[p])) = Len(wire[p]) - 1
  BY <1>2, HeadTailProperties
<1>4. /\ wire' = [wire EXCEPT ![p] = Tail(@)] /\ lost' = lost + 1
      /\ UNCHANGED <<txq, acks, evq, slots, dropped, program>>
  BY DEF Lose
<1>5. Typed'
  <2>1. wire' \in [PF -> Seq(Frame)] /\ lost' \in Nat
    BY <1>2, <1>3, <1>4 DEF Typed
  <2>2. QED
    BY <1>4, <2>1 DEF Typed, program
<1>6. wire'[p] = Tail(wire[p]) /\ wire'[q] = wire[q]
  BY <1>1, <1>4 DEF Typed
<1>7. Way(q)' + lost' = Way(q) + lost /\ lost' >= lost
  <2> DEFINE a == Len(txq[q])
             b == Len(wire[p])
             c == Len(slots[p])
  <2>1. Way(q) = a + b + c /\ Way(q)' = a + (b - 1) + c
    BY <1>1, <1>3, <1>4, <1>6 DEF Way
  <2>2. a \in Nat /\ b \in Nat /\ c \in Nat
    BY <1>2
  <2> HIDE DEF a, b, c
  <2>3. QED
    BY <1>2, <1>4, <2>1, <2>2
<1>8. \A f \in Frame : OnWay(q, f) => OnWay(q, f)'
  BY <1>1, <1>2, <1>4, <1>6, OnlyTail DEF OnWay
<1>9. Moves
  BY <1>1, <1>4, <1>5, <1>6, <1>7, <1>8, OneWay
<1>10. QED
  BY <1>4, <1>5, <1>9 DEF Backed

\* In numbers.
Round ==
  /\ Circulating \in Nat /\ lost \in Nat /\ Way(0) \in Nat /\ Way(1) \in Nat
  /\ Circulating = Way(0) + Way(1)

\* They are.
LEMMA Rounds == Typed => Round
BY Ways DEF Sums, PF, Peer, Typed, Round

\* Whatever the network does keeps the invariant.
LEMMA NetworkStep ==
  ASSUME Window * NumSizes < RxN, BenchInv, Network \/ Faults
  PROVE  BenchInv'
<1> USE DEF BenchInv
<1>1. /\ RxN \in Nat /\ Window \in Nat /\ NumSizes \in Nat /\ Window * NumSizes \in Nat
  BY BenchAssumption DEF BenchAssumption
<1>2. Round
  BY Rounds
<1>3. Circulating + lost < RxN
  BY <1>1, <1>2 DEF Sound, Round
<1>4. Typed' /\ Backed' /\ Moves /\ dropped' = dropped
  BY <1>1, <1>3, SendMoves, CompleteMoves, ReceiveMoves, LoseMoves DEF Network, Faults
<1>5. (Typed => Round)'
  BY Rounds, PTL
<1>6. Round'
  BY <1>4, <1>5
<1>7. /\ UNCHANGED <<pc, todo, size, i, hand, rc, runs, eaten>>
      /\ Circulating' + lost' = Circulating + lost
      /\ Way(0)' <= Way(0) /\ Way(1)' <= Way(1)
  BY <1>4 DEF Moves, program, PF
<1>8. launched \in Frame /\ launched' = launched
  BY <1>1, <1>7 DEF Typed, launched, Frame
<1>9. (OnWay(0, launched) => OnWay(0, launched)') /\ (OnWay(1, launched) => OnWay(1, launched)')
  <2>1. \A f \in Frame : (OnWay(0, f) => OnWay(0, f)') /\ (OnWay(1, f) => OnWay(1, f)')
    BY <1>4 DEF Moves, PF
  <2>2. QED
    BY <1>8, <2>1
<1>10. Ordered' /\ Doing'
  BY <1>7 DEF Ordered, Doing
<1>11. Sound'
  BY <1>2, <1>4, <1>6, <1>7 DEF Sound, Round
<1>12. Under'
  BY <1>2, <1>6, <1>7, <1>8, <1>9 DEF Under, Round
<1>13. QED
  BY <1>4, <1>10, <1>11, <1>12
-----------------------------------------------------------------------------
(* The loops with a window of one.                                         *)

\* Consuming one event.
LEMMA RxTail ==
  ASSUME NEW S, NEW s \in Seq(S), s # <<>>
  PROVE  RxIn(s) = RxIn(Tail(s)) + (IF isRx(Head(s)) THEN 1 ELSE 0)
<1>1. Len(s) \in Nat /\ Len(s) > 0 /\ 1 \in 0..Len(s) /\ s[1] \in S /\ Head(s) = s[1]
  OBVIOUS
<1>2. RxIn(s) = RxIn(SubSeq(s, 1, 1)) + RxIn(SubSeq(s, 2, Len(s)))
  BY <1>1, RxSplit
<1>3. Tail(s) = SubSeq(s, 2, Len(s)) /\ Tail(s) \in Seq(S)
  BY TailIsSubSeq, HeadTailProperties
<1>4. Len(SubSeq(s, 1, 1)) = 1 /\ SubSeq(s, 1, 1)[1] = s[1]
  <2>1. \A k \in 1..1 : s[k] \in S
    BY <1>1
  <2>2. QED
    BY <1>1, <2>1, SubSeqProperties, Z3
<1>5. RxIn(SubSeq(s, 1, 1)) = IF isRx(Head(s)) THEN 1 ELSE 0
  <2> DEFINE A == {k \in 1..1 : isRx(SubSeq(s, 1, 1)[k])}
  <2>1. A = IF isRx(Head(s)) THEN {1} ELSE {}
    BY <1>1, <1>4
  <2>2. Cardinality({1}) = 1 /\ Cardinality({}) = 0
    BY FS_Singleton, FS_EmptySet
  <2> HIDE DEF A
  <2>3. Cardinality(A) = IF isRx(Head(s)) THEN 1 ELSE 0
    BY <2>1, <2>2, Zenon
  <2>4. RxIn(SubSeq(s, 1, 1)) = Cardinality(A)
    BY <1>4 DEF RxIn, A
  <2>5. QED
    BY <2>3, <2>4
<1>6. RxIn(Tail(s)) \in Nat
  BY <1>3, RxCount
<1>7. RxIn(s) = RxIn(SubSeq(s, 1, 1)) + RxIn(Tail(s))
  BY <1>2, <1>3, Zenon
<1>8. QED
  BY <1>5, <1>6, <1>7

\* Consuming a batch.
LEMMA RxPoll ==
  ASSUME Typed, NEW p \in PF, consume(p)
  PROVE  /\ evq' \in [PF -> Seq(Event)]
         /\ \A r \in PF \ {p} : evq'[r] = evq[r]
         /\ RxIn(polled(p)) \in Nat /\ RxIn(evq[p]') \in Nat
         /\ RxIn(evq[p]) = RxIn(polled(p)) + RxIn(evq[p]')
<1> DEFINE s == evq[p]
           m == IF Len(s) < Batch THEN Len(s) ELSE Batch
<1>1. s \in Seq(Event) /\ Len(s) \in Nat /\ Batch \in Nat
  BY BenchAssumption DEF Typed, BenchAssumption
<1>2. m \in 0..Len(s) /\ m \in Nat /\ m + 1 \in Nat
  BY <1>1
<1>3. \A k \in 1..Len(s) : s[k] \in Event
  BY <1>1
<1>4. polled(p) = SubSeq(s, 1, m)
  BY DEF polled
<1> HIDE DEF m, s
<1>5. SubSeq(s, 1, m) \in Seq(Event) /\ Len(SubSeq(s, 1, m)) = m
  <2>1. \A k \in 1..m : s[k] \in Event
    BY <1>1, <1>2, <1>3
  <2>2. QED
    BY <1>2, <2>1, SubSeqProperties, Z3
<1>6. SubSeq(s, m + 1, Len(s)) \in Seq(Event)
  <2>1. \A k \in m+1..Len(s) : s[k] \in Event
    BY <1>1, <1>2, <1>3
  <2>2. QED
    BY <1>1, <1>2, <2>1, SubSeqProperties, Z3
<1>7. evq' = [evq EXCEPT ![p] = SubSeq(s, m + 1, Len(s))]
  BY <1>4, <1>5 DEF consume, s
<1>8. /\ evq' \in [PF -> Seq(Event)] /\ evq[p]' = SubSeq(s, m + 1, Len(s))
      /\ \A r \in PF \ {p} : evq'[r] = evq[r]
  BY <1>6, <1>7 DEF Typed
<1>9. RxIn(s) = RxIn(SubSeq(s, 1, m)) + RxIn(SubSeq(s, m + 1, Len(s)))
  BY <1>1, <1>2, RxSplit
<1>10. RxIn(SubSeq(s, 1, m)) \in Nat /\ RxIn(SubSeq(s, m + 1, Len(s))) \in Nat
  BY <1>5, <1>6, RxCount
<1>11. QED
  BY <1>4, <1>8, <1>9, <1>10 DEF s

\* Queues that stay, ways that stay.
LEMMA SameWays ==
  ASSUME UNCHANGED <<txq, wire, slots>>
  PROVE  /\ \A p : Way(p)' = Way(p)
         /\ Circulating' = Circulating
         /\ \A p, f : OnWay(p, f) => OnWay(p, f)'
BY DEF Way, Circulating, OnWay, Only

\* tx puts its frame on the way that was empty.
LEMMA Posted ==
  ASSUME BenchInv, NEW p \in PF, NEW here \in {"launch", "echo"}, NEW waiting, NEW next,
         tx(p, launched, here, waiting, next)
  PROVE  /\ Typed' /\ Backed'
         /\ Way(p)' = 1 /\ Way(Peer(p))' = 0 /\ lost = 0 /\ OnWay(p, launched)'
         /\ pc' \in {waiting, next}
         /\ UNCHANGED <<lost, dropped, todo, size, i, hand, rc, runs, eaten>>
<1> DEFINE q == Peer(p)
<1>1. q \in PF /\ Peer(q) = p /\ q # p
  BY Others
<1>2. /\ txq' = [txq EXCEPT ![p] = Append(@, launched)]
      /\ pc = here /\ pc' \in {waiting, next}
      /\ UNCHANGED <<acks, wire, evq, slots, dropped, lost, todo, size, i, hand, rc, runs, eaten>>
  BY DEF tx
<1>3. Circulating = 0 /\ lost = 0
  BY <1>2 DEF BenchInv, Under
<1>4. Way(p) = 0 /\ Way(q) = 0
  BY <1>1, <1>3, Ways DEF BenchInv, Sums
<1>5. launched \in Frame /\ txq[p] \in Seq(Frame)
  BY BenchAssumption DEF BenchAssumption, BenchInv, Typed, launched, Frame
<1>6. Append(txq[p], launched) \in Seq(Frame) /\ Len(Append(txq[p], launched)) = Len(txq[p]) + 1
  BY <1>5
<1>7. Typed'
  <2>1. txq' \in [PF -> Seq(Frame)]
    BY <1>2, <1>6 DEF BenchInv, Typed
  <2>2. QED
    BY <1>2, <2>1 DEF BenchInv, Typed
<1>8. txq'[p] = Append(txq[p], launched) /\ txq'[q] = txq[q]
  BY <1>1, <1>2 DEF BenchInv, Typed
<1> DEFINE a == Len(txq[p])
           b == Len(wire[q])
           c == Len(slots[q])
<1>9. a \in Nat /\ b \in Nat /\ c \in Nat
  BY <1>1 DEF BenchInv, Typed
<1>10. Way(p) = a + b + c /\ Way(p)' = (a + 1) + b + c /\ Way(q)' = Way(q)
  BY <1>1, <1>2, <1>6, <1>8 DEF Way
<1>11. Way(p)' = 1 /\ a = 0 /\ b = 0 /\ c = 0
  <2> HIDE DEF a, b, c
  <2>1. QED
    BY <1>4, <1>9, <1>10
<1>12. launched' = launched
  BY <1>2 DEF launched
<1>13. OnWay(p, launched)'
  <2>1. Only(txq[p], launched) /\ Only(wire[q], launched) /\ Only(slots[q], launched)
    BY <1>11 DEF Only
  <2>2. Only(txq'[p], launched)
    BY <1>5, <1>8, <2>1, OnlyAppend
  <2>3. QED
    BY <1>2, <1>12, <2>1, <2>2 DEF OnWay
<1>14. QED
  BY <1>2, <1>3, <1>4, <1>7, <1>10, <1>11, <1>13 DEF BenchInv, Backed

\* The TX ioctl meets no receive event where none can be.
LEMMA Polls ==
  ASSUME BenchInv, NEW p \in PF, Way(Peer(p)) = 0, NEW f, NEW waiting, NEW next,
         tx_poll(p, f, waiting, next)
  PROVE  /\ Typed' /\ Backed'
         /\ pc' \in {waiting, next}
         /\ UNCHANGED <<txq, wire, slots, lost, dropped, todo, size, i, hand, rc, runs, eaten>>
<1> DEFINE q == Peer(p)
<1>1. q \in PF /\ Peer(q) = p /\ q # p
  BY Others
<1>2. slots[p] \in Seq(Frame) /\ evq[p] \in Seq(Event) /\ evq[p] # <<>>
  BY DEF BenchInv, Typed, tx_poll
<1>3. RxIn(evq[p]) = 0 /\ Len(slots[p]) = 0
  <2> DEFINE a == Len(txq[q])
             b == Len(wire[p])
             c == Len(slots[p])
  <2>1. a \in Nat /\ b \in Nat /\ c \in Nat /\ a + b + c = 0 /\ RxIn(evq[p]) = c
    BY <1>1 DEF BenchInv, Typed, Way, Backed
  <2> HIDE DEF a, b, c
  <2>2. c = 0 /\ RxIn(evq[p]) = 0
    BY <2>1
  <2>3. QED
    BY <2>2 DEF c
<1>4. Tail(evq[p]) \in Seq(Event) /\ RxIn(Tail(evq[p])) \in Nat
  <2>1. Tail(evq[p]) \in Seq(Event)
    BY <1>2, HeadTailProperties
  <2>2. QED
    BY <2>1, RxCount
<1>5. RxIn(evq[p]) = RxIn(Tail(evq[p])) + (IF isRx(Head(evq[p])) THEN 1 ELSE 0)
  BY <1>2, RxTail
<1>6. ~isRx(Head(evq[p])) /\ RxIn(Tail(evq[p])) = 0
  BY <1>3, <1>4, <1>5
<1>7. /\ evq' = [evq EXCEPT ![p] = Tail(@)] /\ eaten' = eaten /\ pc' \in {waiting, next}
      /\ UNCHANGED <<txq, acks, wire, slots, dropped, lost, todo, size, i, hand, rc, runs>>
  BY <1>6 DEF tx_poll
<1>8. Typed'
  <2>1. evq' \in [PF -> Seq(Event)]
    BY <1>4, <1>7 DEF BenchInv, Typed
  <2>2. QED
    BY <1>7, <2>1 DEF BenchInv, Typed
<1>9. Backed'
  BY <1>3, <1>6, <1>7 DEF BenchInv, Typed, Backed
<1>10. QED
  BY <1>7, <1>8, <1>9
\* Taking the first filled slot.
LEMMA Taken ==
  ASSUME Typed, NEW p \in PF, Len(slots[p]) > 0,
         slots' = [slots EXCEPT ![p] = Tail(@)], UNCHANGED <<txq, wire>>
  PROVE  /\ slots' \in [PF -> Seq(Frame)] /\ Head(slots[p]) \in Frame
         /\ \A r \in PF \ {p} : slots'[r] = slots[r]
         /\ Len(slots[p]') = Len(slots[p]) - 1
         /\ Way(Peer(p))' = Way(Peer(p)) - 1 /\ Way(p)' = Way(p)
         /\ \A f : OnWay(Peer(p), f) => Head(slots[p]) = f
<1> DEFINE q == Peer(p)
<1>1. q \in PF /\ Peer(q) = p /\ q # p
  BY Others
<1>2. slots[p] \in Seq(Frame) /\ slots[p] # <<>>
  BY DEF Typed
<1>3. Head(slots[p]) \in Frame /\ Tail(slots[p]) \in Seq(Frame)
      /\ Len(Tail(slots[p])) = Len(slots[p]) - 1
  BY <1>2, HeadTailProperties
<1>4. /\ slots' \in [PF -> Seq(Frame)] /\ slots[p]' = Tail(slots[p])
      /\ \A r \in PF \ {p} : slots'[r] = slots[r]
  BY <1>3 DEF Typed
<1>5. Way(q)' = Way(q) - 1 /\ Way(p)' = Way(p)
  <2> DEFINE a == Len(txq[q])
             b == Len(wire[p])
             c == Len(slots[p])
  <2>1. Way(q) = a + b + c /\ Way(q)' = a + b + (c - 1) /\ Way(p)' = Way(p)
    BY <1>1, <1>3, <1>4 DEF Way
  <2>2. a \in Nat /\ b \in Nat /\ c \in Nat
    BY <1>1 DEF Typed
  <2> HIDE DEF a, b, c
  <2>3. QED
    BY <2>1, <2>2
<1>6. \A f : OnWay(q, f) => Head(slots[p]) = f
  BY <1>1, <1>2, OnlyTail DEF OnWay
<1>7. QED
  BY <1>3, <1>4, <1>5, <1>6

\* A wait takes the frame on its way, goes on waiting for it, or finds it lost.
LEMMA Received ==
  ASSUME BenchInv, NEW p \in PF, NEW here, NEW next,
         Way(Peer(p)) + lost = 1, Way(p) = 0, OnWay(Peer(p), launched),
         rx(p, here, next)
  PROVE  /\ Typed' /\ Backed' /\ pc = here
         /\ UNCHANGED <<lost, dropped, size, i, runs, eaten>>
         /\ \/ /\ pc' = next /\ hand' = launched /\ Circulating' = 0 /\ lost = 0
               /\ UNCHANGED <<todo, rc>>
            \/ pc' = here /\ UNCHANGED <<todo, rc, hand, txq, wire, slots>>
            \/ /\ pc' = "exit" /\ todo' = <<>> /\ rc' = "timeout" /\ lost > 0
               /\ UNCHANGED <<txq, wire, slots>>
<1> DEFINE q == Peer(p)
           a == Len(txq[q])
           b == Len(wire[p])
           c == Len(slots[p])
           x == Len(slots[q])
<1>1. q \in PF /\ Peer(q) = p /\ q # p /\ PF = {p, q}
  BY Others
<1>2. Typed /\ Backed /\ evq[p] \in Seq(Event) /\ lost \in Nat
  BY DEF BenchInv, Typed
<1>3. a \in Nat /\ b \in Nat /\ c \in Nat /\ a + b + c + lost = 1 /\ RxIn(evq[p]) = c
  BY <1>1, <1>2 DEF Typed, Way, Backed
<1>4. c = 0 \/ (c = 1 /\ lost = 0)
  <2> HIDE DEF a, b, c
  <2>1. QED
    BY <1>2, <1>3
\* The receive itself.
<1>5. ASSUME evq' \in [PF -> Seq(Event)], evq'[q] = evq[q], RxIn(evq[p]') = 0, c = 1,
             hand' = Head(slots[p]), slots' = [slots EXCEPT ![p] = Tail(@)], pc' = next,
             pc = here,
             UNCHANGED <<txq, acks, wire, dropped, lost, todo, size, i, rc, runs, eaten>>
      PROVE  /\ Typed' /\ Backed' /\ hand' = launched /\ Circulating' = 0 /\ lost = 0
  <2>0. Len(slots[p]) > 0 /\ UNCHANGED <<txq, wire>>
    BY <1>5
  <2>1. /\ slots' \in [PF -> Seq(Frame)] /\ Head(slots[p]) \in Frame
        /\ \A r \in PF \ {p} : slots'[r] = slots[r]
        /\ Len(slots[p]') = Len(slots[p]) - 1
        /\ Way(q)' = Way(q) - 1 /\ Way(p)' = Way(p)
        /\ \A f : OnWay(q, f) => Head(slots[p]) = f
    BY <1>2, <1>5, <2>0, Taken
  <2>2. Typed'
    BY <1>2, <1>5, <2>1 DEF Typed
  <2>3. Backed'
    <3>1. RxIn(evq'[q]) = Len(slots'[q]) /\ RxIn(evq'[p]) = Len(slots'[p])
      BY <1>1, <1>2, <1>5, <2>1 DEF Backed
    <3>2. QED
      BY <1>1, <3>1 DEF Backed
  <2>4. lost = 0 /\ Way(q) = 1
    BY <1>2, <1>4, <1>5, <1>1, Ways DEF Sums
  <2>5. (Typed => Sums)'
    BY Ways, PTL
  <2>6. Circulating' = Way(p)' + Way(q)'
    BY <2>2, <2>5 DEF Sums
  <2>7. QED
    BY <1>5, <2>1, <2>2, <2>3, <2>4, <2>6
\* A poll that finds no receive event.
<1>6. ASSUME evq' \in [PF -> Seq(Event)], evq'[q] = evq[q], RxIn(evq[p]') = c,
             UNCHANGED <<txq, acks, wire, slots, dropped, lost, todo, size, i, rc, runs,
                         eaten, hand>>
      PROVE  Typed' /\ Backed'
  <2>1. Typed'
    BY <1>2, <1>6 DEF Typed
  <2>2. Backed'
    BY <1>1, <1>2, <1>6 DEF Backed
  <2>3. QED
    BY <2>1, <2>2
<1>7. CASE rx_kernel(p, here, next)
  <2>1. /\ evq[p] # <<>> /\ evq' = [evq EXCEPT ![p] = Tail(@)] /\ pc = here
        /\ UNCHANGED <<txq, acks, wire, dropped, lost, todo, size, i, rc, runs, eaten>>
    BY <1>7 DEF rx_kernel
  <2>2. Tail(evq[p]) \in Seq(Event)
    BY <1>2, <2>1, HeadTailProperties
  <2>3. /\ RxIn(Tail(evq[p])) \in Nat
        /\ RxIn(evq[p]) = RxIn(Tail(evq[p])) + (IF isRx(Head(evq[p])) THEN 1 ELSE 0)
    BY <1>2, <2>1, <2>2, RxTail, RxCount
  <2>4. /\ evq' \in [PF -> Seq(Event)] /\ evq'[q] = evq[q] /\ evq[p]' = Tail(evq[p])
    BY <1>1, <1>2, <2>1, <2>2 DEF Typed
  <2>5. CASE isRx(Head(evq[p]))
    <3>1. RxIn(evq[p]') = 0 /\ c = 1
      <4> HIDE DEF c
      <4>1. QED
        BY <1>3, <1>4, <2>3, <2>4, <2>5
    <3>2. /\ hand' = Head(slots[p]) /\ slots' = [slots EXCEPT ![p] = Tail(@)] /\ pc' = next
      BY <1>7, <2>5 DEF rx_kernel
    <3>3. QED
      BY <1>5, <2>1, <2>4, <3>1, <3>2
  <2>6. CASE ~isRx(Head(evq[p]))
    <3>1. RxIn(evq[p]') = c
      <4> HIDE DEF c
      <4>1. QED
        BY <1>3, <2>3, <2>4, <2>6
    <3>2. UNCHANGED <<hand, slots, pc>>
      BY <1>7, <2>6 DEF rx_kernel
    <3>3. QED
      BY <1>6, <2>1, <2>4, <3>1, <3>2
  <2>7. QED
    BY <2>5, <2>6
<1>8. CASE wait_rx(p, here, next)
  <2>1. /\ consume(p) /\ pc = here
        /\ UNCHANGED <<txq, acks, wire, dropped, lost, todo, size, i, rc, runs>>
        /\ eaten' = IF RxIn(polled(p)) > 1 THEN eaten \cup {"direct"} ELSE eaten
    BY <1>8 DEF wait_rx
  <2>2. /\ evq' \in [PF -> Seq(Event)] /\ evq'[q] = evq[q]
        /\ RxIn(polled(p)) \in Nat /\ RxIn(evq[p]') \in Nat
        /\ RxIn(evq[p]) = RxIn(polled(p)) + RxIn(evq[p]')
    BY <1>1, <1>2, <2>1, RxPoll
  <2>3. ~(RxIn(polled(p)) > 1) /\ eaten' = eaten
    <3>1. ~(RxIn(polled(p)) > 1)
      <4> HIDE DEF c
      <4>1. QED
        BY <1>3, <1>4, <2>2
    <3>2. QED
      BY <2>1, <3>1
  <2>4. CASE RxIn(polled(p)) > 0
    <3>1. RxIn(evq[p]') = 0 /\ c = 1
      <4> HIDE DEF c
      <4>1. QED
        BY <1>3, <1>4, <2>2, <2>4
    <3>2. /\ hand' = Head(slots[p]) /\ slots' = [slots EXCEPT ![p] = Tail(@)] /\ pc' = next
      BY <1>8, <2>4 DEF wait_rx
    <3>3. QED
      BY <1>5, <2>1, <2>2, <2>3, <3>1, <3>2
  <2>5. CASE ~(RxIn(polled(p)) > 0)
    <3>1. RxIn(evq[p]') = c
      <4> HIDE DEF c
      <4>1. QED
        BY <1>3, <2>2, <2>5
    <3>2. UNCHANGED <<hand, slots, pc>>
      BY <1>8, <2>5 DEF wait_rx
    <3>3. QED
      BY <1>6, <2>1, <2>2, <2>3, <3>1, <3>2
  <2>6. QED
    BY <2>4, <2>5
<1>9. CASE rx_timeout(p, here)
  <2>1. /\ pc = here /\ pc' = "exit" /\ todo' = <<>> /\ rc' = "timeout"
        /\ UNCHANGED <<txq, acks, wire, evq, slots, dropped, lost, size, i, hand, runs, eaten>>
        /\ txq[q] = <<>> /\ wire[p] = <<>> /\ evq[p] = <<>>
    BY <1>1, <1>9 DEF rx_timeout, Still, net
  <2>2. RxIn(evq[p]) = 0
    <3>1. RxIn(evq[p]) \in Nat /\ RxIn(evq[p]) <= Len(evq[p]) /\ Len(evq[p]) = 0
      BY <1>2, <2>1, RxCount
    <3>2. QED
      BY <3>1
  <2>3. a = 0 /\ b = 0
    BY <2>1
  <2>4. lost > 0
    <3> HIDE DEF a, b, c
    <3>1. QED
      BY <1>2, <1>3, <2>2, <2>3
  <2>5. Typed' /\ Backed'
    BY <1>2, <2>1 DEF Typed, Backed
  <2>6. QED
    BY <2>1, <2>4, <2>5
<1>10. QED
  BY <1>7, <1>8, <1>9 DEF rx
\* One frame always fits.
LEMMA OneFits ==
  /\ Window \in Nat /\ NumSizes \in Nat /\ NumSizes >= 1 /\ Window * NumSizes \in Nat
  /\ Window * NumSizes >= 1
  /\ \A s \in 1..NumSizes : Window * s \in Nat /\ Window * s <= Window * NumSizes
                            /\ Window * (s - 1) + Window = Window * s
<1>1. Window \in Nat /\ Window >= 1 /\ NumSizes \in Nat /\ NumSizes >= 1
  BY BenchAssumption DEF BenchAssumption
<1>2. ASSUME NEW w \in Nat, NEW a \in Nat, NEW b \in Nat, a <= b, w >= 1, b >= 1
      PROVE  w * a <= w * b /\ w * b >= 1 /\ w * a \in Nat /\ w * (a - 1) + w = w * a
  BY <1>2
<1>3. QED
  BY <1>1, <1>2

\* The steps of a window-of-one loop up to the frame's return.
LEMMA LoopStep ==
  ASSUME BenchInv, Launch \/ LaunchPoll \/ Await \/ Echo \/ EchoPoll \/ Collect
  PROVE  BenchInv'
<1> USE DEF BenchInv
<1>0. Peer(0) = 1 /\ Peer(1) = 0 /\ 0 \in PF /\ 1 \in PF
  BY DEF Peer, PF
<1>1. (Typed => Round)' /\ Round
  BY Rounds, PTL
<1>2. 1 <= Window * NumSizes
  BY OneFits
<1>3. CASE Launch
  <2>1. /\ Typed' /\ Backed'
        /\ Way(0)' = 1 /\ Way(1)' = 0 /\ lost = 0 /\ OnWay(0, launched)'
        /\ pc' \in {"launching", "await"} /\ pc = "launch"
        /\ UNCHANGED <<lost, dropped, todo, size, i, hand, rc, runs, eaten>>
    BY <1>0, <1>3, Posted DEF Launch, tx
  <2>2. Sound'
    BY <1>1, <1>2, <2>1 DEF Sound, Round
  <2>3. Ordered' /\ Doing'
    BY <2>1 DEF Ordered, Doing
  <2>4. Under'
    BY <1>1, <2>1 DEF Under, Round
  <2>5. QED
    BY <2>1, <2>2, <2>3, <2>4
<1>4. CASE Echo
  <2>1. hand = launched /\ pc = "echo"
    BY <1>4 DEF Echo, tx, Under
  <2>2. /\ Typed' /\ Backed'
        /\ Way(1)' = 1 /\ Way(0)' = 0 /\ lost = 0 /\ OnWay(1, launched)'
        /\ pc' \in {"echoing", "collect"}
        /\ UNCHANGED <<lost, dropped, todo, size, i, hand, rc, runs, eaten>>
    BY <1>0, <1>4, <2>1, Posted DEF Echo
  <2>3. Sound'
    BY <1>1, <1>2, <2>2 DEF Sound, Round
  <2>4. Ordered' /\ Doing'
    BY <2>1, <2>2 DEF Ordered, Doing
  <2>5. Under'
    BY <1>1, <2>1, <2>2 DEF Under, Round, launched
  <2>6. QED
    BY <2>2, <2>3, <2>4, <2>5
<1>5. ASSUME UNCHANGED <<txq, wire, slots, lost, dropped, todo, size, i, hand, rc, runs, eaten>>,
             Typed', Backed',
             \/ pc \in {"launching", "await"} /\ pc' \in {"launching", "await"}
             \/ pc \in {"echoing", "collect"} /\ pc' \in {"echoing", "collect"}
      PROVE  BenchInv'
  <2>1. /\ Way(0)' = Way(0) /\ Way(1)' = Way(1) /\ Circulating' = Circulating
        /\ launched' = launched
    BY <1>5, SameWays DEF launched
  <2>2. (OnWay(0, launched) => OnWay(0, launched)') /\ (OnWay(1, launched) => OnWay(1, launched)')
    BY <1>5, <2>1 DEF OnWay, Only
  <2>3. Sound' /\ Ordered' /\ Doing'
    BY <1>5, <2>1 DEF Sound, Ordered, Doing
  <2>4. Under'
    BY <1>5, <2>1, <2>2 DEF Under
  <2>5. QED
    BY <1>5, <2>3, <2>4
<1>6. CASE LaunchPoll
  <2>1. pc = "launching" /\ Way(1) = 0
    BY <1>6 DEF LaunchPoll, tx_poll, Under
  <2>2. QED
    BY <1>0, <1>5, <1>6, <2>1, Polls DEF LaunchPoll
<1>7. CASE EchoPoll
  <2>1. pc = "echoing" /\ Way(0) = 0
    BY <1>7 DEF EchoPoll, tx_poll, Under
  <2>2. QED
    BY <1>0, <1>5, <1>7, <2>1, Polls DEF EchoPoll
<1>8. ASSUME NEW p \in PF,
             \/ p = 1 /\ pc = "await" /\ rx(1, "await", "echo")
             \/ p = 0 /\ pc = "collect" /\ rx(0, "collect", "collected")
      PROVE  BenchInv'
  <2> DEFINE next == IF p = 1 THEN "echo" ELSE "collected"
  <2>1. Way(Peer(p)) + lost = 1 /\ Way(p) = 0 /\ OnWay(Peer(p), launched)
    BY <1>0, <1>8 DEF Under
  <2>2. rx(p, pc, next)
    BY <1>8
  <2>3. /\ Typed' /\ Backed'
        /\ UNCHANGED <<lost, dropped, size, i, runs, eaten>>
        /\ \/ /\ pc' = next /\ hand' = launched /\ Circulating' = 0 /\ lost = 0
              /\ UNCHANGED <<todo, rc>>
           \/ pc' = pc /\ UNCHANGED <<todo, rc, hand, txq, wire, slots>>
           \/ /\ pc' = "exit" /\ todo' = <<>> /\ rc' = "timeout" /\ lost > 0
              /\ UNCHANGED <<txq, wire, slots>>
    <3> HIDE DEF next
    <3>1. QED
      BY <2>1, <2>2, Received
  <2>4. CASE pc' = pc /\ UNCHANGED <<todo, rc, hand, txq, wire, slots>>
    BY <1>5, <1>8, <2>3, <2>4
  <2>5. CASE /\ pc' = next /\ hand' = launched /\ Circulating' = 0 /\ lost = 0
             /\ UNCHANGED <<todo, rc>>
    <3>1. Sound'
      <4>1. Circulating' + lost' = 0 /\ lost' = lost /\ 0 <= Window * NumSizes
        BY <2>3, <2>5, OneFits
      <4>2. QED
        BY <2>3, <2>5, <4>1 DEF Sound
    <3>2. Ordered' /\ Doing'
      BY <1>8, <2>3, <2>5 DEF Ordered, Doing
    <3>3. Under'
      BY <1>8, <2>3, <2>5 DEF Under, launched
    <3>4. QED
      BY <2>3, <3>1, <3>2, <3>3
  <2>6. CASE /\ pc' = "exit" /\ todo' = <<>> /\ rc' = "timeout" /\ lost > 0
             /\ UNCHANGED <<txq, wire, slots>>
    <3>1. Circulating' = Circulating
      BY <2>6 DEF Circulating
    <3>2. Sound'
      BY <2>3, <2>6, <3>1 DEF Sound
    <3>3. Ordered' /\ Doing'
      BY <2>6 DEF Ordered, Doing
    <3>4. Under'
      BY <1>8, <2>3, <2>6 DEF Under
    <3>5. QED
      BY <2>3, <3>2, <3>3, <3>4
  <2>7. QED
    BY <2>3, <2>4, <2>5, <2>6
<1>9. CASE Await \/ Collect
  <2>1. CASE Await
    BY <1>0, <1>8, <2>1 DEF Await, rx, rx_kernel, wait_rx, rx_timeout
  <2>2. CASE Collect
    BY <1>0, <1>8, <2>2 DEF Collect, rx, rx_kernel, wait_rx, rx_timeout
  <2>3. QED
    BY <1>9, <2>1, <2>2
<1>10. QED
  BY <1>3, <1>4, <1>6, <1>7, <1>9
-----------------------------------------------------------------------------
(* The streaming loop.                                                     *)

\* As many equal frames as asked for.
LEMMA Frames ==
  ASSUME NEW m \in Nat, NEW f \in Frame
  PROVE  [k \in 1..m |-> f] \in Seq(Frame) /\ Len([k \in 1..m |-> f]) = m
<1> DEFINE s == [k \in 1..m |-> f]
<1>1. s \in [1..m -> Frame] /\ DOMAIN s = 1..m
  OBVIOUS
<1> HIDE DEF s
<1>2. s \in Seq(Frame)
  BY <1>1, SeqDef
<1>3. Len(s) = m
  BY <1>1, <1>2, LenProperties
<1>4. QED
  BY <1>2, <1>3 DEF s

\* Serving a function moves on what was received and keeps the round.
LEMMA Served ==
  ASSUME Typed, Backed, NEW p \in PF, NEW out \in Seq(Frame),
         Len(out) = RxIn(polled(p)), serve(p, out)
  PROVE  /\ txq' \in [PF -> Seq(Frame)] /\ slots' \in [PF -> Seq(Frame)]
         /\ evq' \in [PF -> Seq(Event)] /\ Backed'
         /\ UNCHANGED <<acks, wire, dropped, lost, rc, runs, eaten>>
         /\ Circulating' = Circulating
<1> DEFINE q == Peer(p)
           r == Len(out)
           a1 == Len(txq[p])
           b1 == Len(wire[q])
           c1 == Len(slots[q])
           a2 == Len(txq[q])
           b2 == Len(wire[p])
           c2 == Len(slots[p])
<1>1. q \in PF /\ Peer(q) = p /\ q # p /\ PF = {p, q}
  BY Others
<1>2. /\ evq' \in [PF -> Seq(Event)] /\ evq'[q] = evq[q]
      /\ r \in Nat /\ RxIn(evq[p]') \in Nat /\ RxIn(evq[p]) = r + RxIn(evq[p]')
  BY <1>1, RxPoll DEF serve
<1>3. /\ a1 \in Nat /\ b1 \in Nat /\ c1 \in Nat /\ a2 \in Nat /\ b2 \in Nat /\ c2 \in Nat
      /\ slots[p] \in Seq(Frame) /\ txq[p] \in Seq(Frame)
  BY <1>1 DEF Typed
<1>4. RxIn(evq[p]) = c2 /\ r <= c2 /\ RxIn(evq[p]') = c2 - r
  <2> DEFINE x == RxIn(evq[p])
             y == RxIn(evq[p]')
  <2>1. x = c2 /\ c2 \in Nat /\ r \in Nat /\ y \in Nat /\ x = r + y
    BY <1>2, <1>3 DEF Backed
  <2> HIDE DEF c2, r, x, y
  <2>2. x = c2 /\ r <= c2 /\ y = c2 - r
    BY <2>1
  <2>3. QED
    BY <2>2 DEF x, y
<1> DEFINE rest == SubSeq(slots[p], r + 1, c2)
<1>5. rest \in Seq(Frame) /\ Len(rest) = c2 - r
  <2>1. \A k \in r + 1..c2 : slots[p][k] \in Frame
    BY <1>2, <1>3
  <2>2. r + 1 \in Int /\ c2 \in Int
    BY <1>2, <1>3
  <2> HIDE DEF r, c2
  <2>3. /\ SubSeq(slots[p], r + 1, c2) \in Seq(Frame)
        /\ Len(SubSeq(slots[p], r + 1, c2)) = IF r + 1 <= c2 THEN c2 - (r + 1) + 1 ELSE 0
    BY <2>1, <2>2, SubSeqProperties
  <2>4. QED
    BY <1>2, <1>3, <1>4, <2>3
<1>6. txq[p] \o out \in Seq(Frame) /\ Len(txq[p] \o out) = a1 + r
  BY <1>3, ConcatProperties
<1>7. /\ slots' = [slots EXCEPT ![p] = rest] /\ txq' = [txq EXCEPT ![p] = txq[p] \o out]
      /\ UNCHANGED <<acks, wire, dropped, lost, rc, runs, eaten>>
  BY DEF serve
<1> HIDE DEF rest
<1>8. /\ txq' \in [PF -> Seq(Frame)] /\ slots' \in [PF -> Seq(Frame)]
      /\ txq'[p] = txq[p] \o out /\ txq'[q] = txq[q]
      /\ slots'[p] = rest /\ slots'[q] = slots[q]
  BY <1>1, <1>5, <1>6, <1>7 DEF Typed
<1>9. Backed'
  <2>1. RxIn(evq'[p]) = Len(slots'[p]) /\ RxIn(evq'[q]) = Len(slots'[q])
    BY <1>1, <1>2, <1>4, <1>5, <1>8 DEF Backed
  <2>2. QED
    BY <1>1, <2>1 DEF Backed
<1>10. Circulating' = Circulating
  <2>1. (p = 0 /\ q = 1) \/ (p = 1 /\ q = 0)
    BY DEF PF, Peer
  <2>2. CASE p = 0 /\ q = 1
    <3>1. /\ Circulating = a1 + b1 + c1 + a2 + b2 + c2
          /\ Circulating' = (a1 + r) + b1 + c1 + a2 + b2 + (c2 - r)
      BY <1>5, <1>6, <1>7, <1>8, <2>2 DEF Circulating
    <3> HIDE DEF a1, b1, c1, a2, b2, c2, r
    <3>2. QED
      BY <1>2, <1>3, <3>1
  <2>3. CASE p = 1 /\ q = 0
    <3>1. /\ Circulating = a2 + b2 + c2 + a1 + b1 + c1
          /\ Circulating' = a2 + b2 + (c2 - r) + (a1 + r) + b1 + c1
      BY <1>5, <1>6, <1>7, <1>8, <2>3 DEF Circulating
    <3> HIDE DEF a1, b1, c1, a2, b2, c2, r
    <3>2. QED
      BY <1>2, <1>3, <3>1
  <2>4. QED
    BY <2>1, <2>2, <2>3
<1>11. QED
  BY <1>2, <1>7, <1>8, <1>9, <1>10

\* After a size comes the next, or the next job; after the streaming job, nothing.
LEMMA NextSizeStep ==
  ASSUME Typed, Ordered, todo # <<>>, NextSize
  PROVE  /\ todo' \in Seq(Job) /\ size' \in 1..NumSizes /\ i' = 1 /\ hand' = NoFrame
         /\ Ordered'
         /\ \/ todo' = todo /\ pc' = StartOf(Head(todo)) /\ size' = size + 1
            \/ todo' = <<>> /\ pc' = "exit"
            \/ /\ todo' # <<>> /\ Head(todo) # Streams /\ size' = 1
               /\ pc' \in {"init", StartOf(Head(todo'))}
<1>1. /\ todo \in Seq(Job) /\ Len(todo) \in Nat /\ Len(todo) > 0 /\ Head(todo) = todo[1]
      /\ NumSizes \in Nat /\ NumSizes >= 1 /\ size \in 1..NumSizes
  BY OneFits DEF Typed
<1>2. CASE size < NumSizes
  BY <1>1, <1>2 DEF NextSize, Ordered
<1>3. CASE ~(size < NumSizes)
  <2>1. /\ size' = 1 /\ todo' = Tail(todo) /\ i' = 1 /\ hand' = NoFrame
        /\ pc' = IF Tail(todo) = <<>> THEN "exit"
                 ELSE IF todo[2].path # todo[1].path THEN "init"
                 ELSE StartOf(todo[2])
    BY <1>3 DEF NextSize
  <2>2. /\ Tail(todo) \in Seq(Job) /\ Len(Tail(todo)) = Len(todo) - 1
        /\ \A k \in 1..Len(Tail(todo)) : Tail(todo)[k] = todo[k + 1]
    BY <1>1, HeadTailProperties
  <2>3. Ordered'
    <3> SUFFICES ASSUME NEW k \in 1..Len(Tail(todo)), Tail(todo)[k] = Streams
                 PROVE  k = Len(Tail(todo))
      BY <2>1 DEF Ordered
    <3> DEFINE m == Len(todo)
               l == Len(Tail(todo))
               j == k + 1
    <3>1. m \in Nat /\ l = m - 1 /\ k \in 1..l
      BY <1>1, <2>2
    <3>2. todo[j] = Streams
      BY <2>2
    <3>3. j \in 1..m
      <4> HIDE DEF m, l
      <4>1. QED
        BY <3>1
    <3> HIDE DEF j
    <3>4. j = m
      BY <3>2, <3>3 DEF Ordered
    <3> HIDE DEF m, l
    <3>5. k = l
      BY <3>1, <3>4 DEF j
    <3>6. QED
      BY <3>5 DEF l
  <2>4. CASE Tail(todo) = <<>>
    <3>1. pc' = "exit" /\ todo' = <<>>
      BY <2>1, <2>4
    <3>2. size' \in 1..NumSizes /\ todo' \in Seq(Job)
      BY <1>1, <2>1, <2>2
    <3>3. QED
      BY <2>1, <2>3, <3>1, <3>2
  <2>5. CASE Tail(todo) # <<>>
    <3>1. Len(Tail(todo)) \in Nat /\ Len(Tail(todo)) > 0 /\ Head(Tail(todo)) = Tail(todo)[1]
      BY <2>2, <2>5
    <3>2. Len(todo) > 1 /\ 1 \in 1..Len(Tail(todo))
      <4> DEFINE m == Len(todo)
                 l == Len(Tail(todo))
      <4>1. m \in Nat /\ l \in Nat /\ l = m - 1 /\ l > 0
        BY <1>1, <2>2, <3>1
      <4> HIDE DEF m, l
      <4>2. m > 1 /\ 1 \in 1..l
        BY <4>1
      <4>3. QED
        BY <4>2 DEF m, l
    <3>3. Head(Tail(todo)) = todo[2]
      BY <2>2, <3>1, <3>2
    <3>4. todo[1] # Streams
      BY <1>1, <3>2 DEF Ordered
    <3>5. pc' \in {"init", StartOf(Head(todo'))} /\ todo' # <<>> /\ Head(todo) # Streams
      BY <1>1, <2>1, <2>5, <3>3, <3>4
    <3>6. size' \in 1..NumSizes /\ todo' \in Seq(Job)
      BY <1>1, <2>1, <2>2
    <3>7. QED
      BY <2>1, <2>3, <3>5, <3>6
  <2>6. QED
    BY <2>4, <2>5
<1>4. QED
  BY <1>2, <1>3
\* What a job begins with.
LEMMA Starts ==
  /\ StartOf(Streams) = "prime"
  /\ \A j : j # Streams => StartOf(j) = "launch"
BY DEF StartOf, Streams

\* The end of an iteration.
LEMMA AgainStep ==
  ASSUME BenchInv, Again
  PROVE  BenchInv'
<1> USE DEF BenchInv
<1>1. /\ pc = "collected" /\ todo # <<>> /\ Head(todo) # Streams
      /\ Circulating = 0 /\ lost = 0
      /\ UNCHANGED <<txq, acks, wire, evq, slots, dropped, lost, rc, runs, eaten>>
  BY DEF Again, Under, Doing, net
<1>2. Circulating' = 0 /\ lost' = 0
  BY <1>1, SameWays
<1>3. NoFrame \in Frame
  BY DEF NoFrame, Frame
<1>4. Backed' /\ Sound'
  BY <1>1, <1>2 DEF Backed, Sound
<1>5. CASE /\ i' = i + 1 /\ pc' = "launch" /\ hand' = NoFrame
           /\ UNCHANGED <<todo, size>>
  <2>1. Typed'
    BY <1>1, <1>3, <1>5 DEF Typed
  <2>2. Ordered' /\ Doing'
    BY <1>1, <1>5 DEF Ordered, Doing
  <2>3. Under'
    BY <1>1, <1>2, <1>5 DEF Under
  <2>4. QED
    BY <1>4, <2>1, <2>2, <2>3
<1>6. CASE NextSize
  <2>1. /\ todo' \in Seq(Job) /\ size' \in 1..NumSizes /\ i' = 1 /\ hand' = NoFrame
        /\ Ordered'
        /\ \/ todo' = todo /\ pc' = StartOf(Head(todo)) /\ size' = size + 1
           \/ todo' = <<>> /\ pc' = "exit"
           \/ /\ todo' # <<>> /\ Head(todo) # Streams /\ size' = 1
              /\ pc' \in {"init", StartOf(Head(todo'))}
    BY <1>1, <1>6, NextSizeStep
  <2>2. Typed'
    BY <1>1, <1>3, <2>1 DEF Typed
  <2>3. \/ todo' # <<>> /\ Head(todo') # Streams /\ pc' = "launch"
        \/ todo' # <<>> /\ Head(todo') = Streams /\ pc' = "prime" /\ size' = 1
        \/ todo' # <<>> /\ pc' = "init" /\ size' = 1
        \/ pc' = "exit"
    BY <1>1, <2>1, Starts
  <2>4. Doing'
    BY <2>3 DEF Doing
  <2>5. Window * (1 - 1) = 0
    BY OneFits
  <2>6. Under'
    BY <1>1, <1>2, <2>3, <2>5 DEF Under
  <2>7. QED
    BY <1>4, <2>1, <2>2, <2>4, <2>6
<1>7. QED
  BY <1>5, <1>6 DEF Again

\* Filling the window.
LEMMA PrimeStep ==
  ASSUME BenchInv, Prime
  PROVE  BenchInv'
<1> USE DEF BenchInv
<1> DEFINE f == [size |-> size, n |-> 0]
           out == [k \in 1..Window |-> f]
<1>1. /\ pc = "prime" /\ pc' = "serve1"
      /\ txq' = [txq EXCEPT ![0] = @ \o out]
      /\ UNCHANGED <<acks, wire, evq, slots, dropped, lost, todo, size, i, hand, rc, runs, eaten>>
  BY DEF Prime
<1>2. f \in Frame /\ Window \in Nat
  BY OneFits DEF Typed, Frame
<1>3. out \in Seq(Frame) /\ Len(out) = Window
  <2> HIDE DEF f
  <2>1. QED
    BY <1>2, Frames
<1> HIDE DEF out
<1>4. txq[0] \in Seq(Frame) /\ 0 \in PF
  BY DEF Typed, PF
<1>5. txq[0] \o out \in Seq(Frame) /\ Len(txq[0] \o out) = Len(txq[0]) + Window
  BY <1>3, <1>4, ConcatProperties
<1>6. txq' \in [PF -> Seq(Frame)] /\ txq'[0] = txq[0] \o out /\ txq'[1] = txq[1]
  BY <1>1, <1>4, <1>5 DEF Typed, PF
<1>7. Typed'
  BY <1>1, <1>6 DEF Typed
<1>8. Circulating' = Circulating + Window
  <2> DEFINE a1 == Len(txq[0])
             b1 == Len(wire[1])
             c1 == Len(slots[1])
             a2 == Len(txq[1])
             b2 == Len(wire[0])
             c2 == Len(slots[0])
  <2>1. /\ a1 \in Nat /\ b1 \in Nat /\ c1 \in Nat /\ a2 \in Nat /\ b2 \in Nat /\ c2 \in Nat
    BY DEF Typed, PF
  <2>2. /\ Circulating = a1 + b1 + c1 + a2 + b2 + c2
        /\ Circulating' = (a1 + Window) + b1 + c1 + a2 + b2 + c2
    BY <1>1, <1>5, <1>6 DEF Circulating
  <2> HIDE DEF a1, b1, c1, a2, b2, c2
  <2>3. QED
    BY <1>2, <2>1, <2>2
<1>9. Circulating' + lost' = Window * size
  <2> DEFINE w == Window * size
             v == Window * (size - 1)
  <2>1. v + Window = w /\ w \in Nat
    BY OneFits DEF Typed
  <2>2. Circulating + lost = v /\ Circulating \in Nat /\ lost \in Nat
    BY <1>1, Rounds DEF Under, Round
  <2> HIDE DEF w, v
  <2>3. Circulating' + lost' = w
    BY <1>1, <1>2, <1>8, <2>1, <2>2
  <2>4. QED
    BY <2>3 DEF w
<1>10. Sound'
  <2>1. Window * size <= Window * NumSizes
    BY OneFits DEF Typed
  <2>2. QED
    BY <1>1, <1>9, <2>1 DEF Sound
<1>11. Backed' /\ Ordered' /\ Doing'
  BY <1>1 DEF Backed, Ordered, Doing
<1>12. Under'
  BY <1>1, <1>9 DEF Under
<1>13. QED
  BY <1>7, <1>10, <1>11, <1>12

\* Serving either function.
LEMMA ServeStep ==
  ASSUME BenchInv, Reflect \/ Relaunch
  PROVE  BenchInv'
<1> USE DEF BenchInv
<1>0. 0 \in PF /\ 1 \in PF
  BY DEF PF
<1>1. /\ pc \in {"serve1", "serve0"} /\ todo # <<>> /\ Head(todo) = Streams
      /\ Circulating + lost = Window * size
  BY DEF Reflect, Relaunch, Doing, Under
<1>2. ASSUME NEW p \in PF, NEW out \in Seq(Frame), Len(out) = RxIn(polled(p)), serve(p, out),
             todo' \in Seq(Job), size' \in 1..NumSizes, i' \in Nat, hand' \in Frame, Ordered',
             \/ pc' \in {"serve0", "serve1"} /\ UNCHANGED <<todo, size>>
             \/ todo' = todo /\ pc' = "prime" /\ size' = size + 1
             \/ todo' = <<>> /\ pc' = "exit"
      PROVE  BenchInv'
  <2>1. /\ txq' \in [PF -> Seq(Frame)] /\ slots' \in [PF -> Seq(Frame)]
        /\ evq' \in [PF -> Seq(Event)] /\ Backed'
        /\ UNCHANGED <<acks, wire, dropped, lost, rc, runs, eaten>>
        /\ Circulating' = Circulating
    BY <1>2, Served
  <2>2. Typed'
    BY <1>2, <2>1 DEF Typed
  <2>3. Sound'
    BY <2>1 DEF Sound
  <2>4. Doing'
    BY <1>1, <1>2 DEF Doing
  <2>5. size' = size + 1 => size' - 1 = size
    BY DEF Typed
  <2>6. Under'
    <3>1. runs' # 0
      BY <1>1, <2>1 DEF Under
    <3>2. CASE pc' \in {"serve0", "serve1"} /\ UNCHANGED <<todo, size>>
      BY <1>1, <2>1, <3>1, <3>2 DEF Under
    <3>3. CASE todo' = todo /\ pc' = "prime" /\ size' = size + 1
      BY <1>1, <2>1, <2>5, <3>1, <3>3 DEF Under
    <3>4. CASE pc' = "exit"
      BY <3>1, <3>4 DEF Under
    <3>5. QED
      BY <1>2, <3>2, <3>3, <3>4
  <2>7. QED
    BY <1>2, <2>1, <2>2, <2>3, <2>4, <2>6
<1>3. \A p \in PF : consume(p) => RxIn(polled(p)) \in Nat /\ RxIn(polled(p)) <= Len(slots[p])
  <2> SUFFICES ASSUME NEW p \in PF, consume(p)
               PROVE  RxIn(polled(p)) \in Nat /\ RxIn(polled(p)) <= Len(slots[p])
    OBVIOUS
  <2> DEFINE x == RxIn(polled(p))
             y == RxIn(evq[p]')
             c == Len(slots[p])
  <2>1. x \in Nat /\ y \in Nat /\ RxIn(evq[p]) = x + y /\ RxIn(evq[p]) = c /\ c \in Nat
    BY RxPoll DEF Backed, Typed
  <2> HIDE DEF x, y, c
  <2>2. x \in Nat /\ x <= c
    BY <2>1
  <2>3. QED
    BY <2>2 DEF x, c
<1>4. CASE Reflect
  <2> DEFINE r == RxIn(polled(1))
             out == SubSeq(slots[1], 1, r)
  <2>1. /\ pc' = "serve0" /\ serve(1, out) /\ UNCHANGED <<todo, size, i, hand>>
    BY <1>4 DEF Reflect
  <2>2. r \in Nat /\ r <= Len(slots[1]) /\ slots[1] \in Seq(Frame)
    BY <1>0, <1>3, <2>1 DEF serve, Typed
  <2> HIDE DEF r
  <2>3. out \in Seq(Frame) /\ Len(out) = r
    <3>1. \A k \in 1..r : slots[1][k] \in Frame
      BY <2>2
    <3>2. /\ SubSeq(slots[1], 1, r) \in Seq(Frame)
          /\ Len(SubSeq(slots[1], 1, r)) = IF 1 <= r THEN r - 1 + 1 ELSE 0
      BY <2>2, <3>1, SubSeqProperties
    <3>3. QED
      BY <2>2, <3>2
  <2>4. todo' \in Seq(Job) /\ size' \in 1..NumSizes /\ i' \in Nat /\ hand' \in Frame /\ Ordered'
    BY <2>1 DEF Typed, Ordered
  <2> HIDE DEF out
  <2>5. QED
    BY <1>0, <1>2, <2>1, <2>3, <2>4 DEF r
<1>5. CASE Relaunch
  <2> DEFINE r == RxIn(polled(0))
             f == [size |-> size, n |-> 0]
             out == [j \in 1..r |-> f]
  <2>1. serve(0, out)
    BY <1>5 DEF Relaunch
  <2>2. r \in Nat /\ f \in Frame
    BY <1>0, <1>3, <2>1 DEF serve, Typed, Frame
  <2>3. out \in Seq(Frame) /\ Len(out) = r
    <3> HIDE DEF r, f
    <3>1. QED
      BY <2>2, Frames
  <2>4. \/ /\ pc' = "serve1" /\ i' = i + 1 /\ UNCHANGED <<todo, size, hand>>
        \/ NextSize
    BY <1>5 DEF Relaunch
  <2>5. NoFrame \in Frame /\ 1 \in Nat
    BY DEF NoFrame, Frame
  <2>6. /\ todo' \in Seq(Job) /\ size' \in 1..NumSizes /\ i' \in Nat /\ hand' \in Frame
        /\ Ordered'
        /\ \/ pc' \in {"serve0", "serve1"} /\ UNCHANGED <<todo, size>>
           \/ todo' = todo /\ pc' = "prime" /\ size' = size + 1
           \/ todo' = <<>> /\ pc' = "exit"
    <3>1. CASE /\ pc' = "serve1" /\ i' = i + 1 /\ UNCHANGED <<todo, size, hand>>
      BY <3>1 DEF Typed, Ordered
    <3>2. CASE NextSize
      BY <1>1, <2>5, <3>2, NextSizeStep, Starts
    <3>3. QED
      BY <2>4, <3>1, <3>2
  <2> HIDE DEF out
  <2>7. QED
    BY <1>0, <1>2, <2>1, <2>3, <2>6 DEF r
<1>6. QED
  BY <1>4, <1>5
-----------------------------------------------------------------------------
(* The run.                                                                *)

\* main has something to do, and the streaming job, if asked for, is the last.
LEMMA JobsAre ==
  ASSUME NEW paths \in SUBSET {"kernel", "direct"}, paths # {},
         NEW modes \in SUBSET {"lat", "tput"}, modes # {}
  PROVE  LET js == Jobs(paths, modes)
         IN  /\ js \in Seq(Job) /\ js # <<>>
             /\ \A k \in 1..Len(js) : js[k] = Streams => k = Len(js)
<1> DEFINE Rest == Job \ {Streams}
           asked(j) == IF j.path \in paths /\ j.mode \in modes THEN <<j>> ELSE <<>>
           s1 == asked(AllJobs[1])
           s2 == asked(AllJobs[2])
           s3 == asked(AllJobs[3])
           s4 == asked(AllJobs[4])
           s == (s1 \o s2) \o s3
           js == s \o s4
<1>1. /\ AllJobs[1] = [path |-> "kernel", mode |-> "lat"]
      /\ AllJobs[2] = [path |-> "kernel", mode |-> "tput"]
      /\ AllJobs[3] = [path |-> "direct", mode |-> "lat"]
      /\ AllJobs[4] = Streams
  BY DEF AllJobs, Streams
<1>2. AllJobs[1] \in Rest /\ AllJobs[2] \in Rest /\ AllJobs[3] \in Rest /\ Streams \in Job
  BY <1>1 DEF Streams, Job
<1>3. ASSUME NEW S, NEW j \in S
      PROVE  asked(j) \in Seq(S) /\ Len(asked(j)) \in {0, 1}
             /\ (j.path \in paths /\ j.mode \in modes => Len(asked(j)) = 1)
  BY <1>3
<1>4. /\ s1 \in Seq(Rest) /\ s2 \in Seq(Rest) /\ s3 \in Seq(Rest)
      /\ s4 = <<Streams>> \/ s4 = <<>>
  BY <1>1, <1>2, <1>3
<1>5. Len(s1) + Len(s2) + Len(s3) + Len(s4) > 0
  <2>1. /\ Len(s1) \in Nat /\ Len(s2) \in Nat /\ Len(s3) \in Nat /\ Len(s4) \in Nat
    BY <1>4
  <2>2. Len(s1) = 1 \/ Len(s2) = 1 \/ Len(s3) = 1 \/ Len(s4) = 1
    <3>1. PICK a \in paths, b \in modes : TRUE
      OBVIOUS
    <3>2. a \in {"kernel", "direct"} /\ b \in {"lat", "tput"}
      OBVIOUS
    <3>3. /\ a = "kernel" /\ b = "lat" => Len(s1) = 1
          /\ a = "kernel" /\ b = "tput" => Len(s2) = 1
          /\ a = "direct" /\ b = "lat" => Len(s3) = 1
          /\ a = "direct" /\ b = "tput" => Len(s4) = 1
      BY <1>1 DEF Streams
    <3>4. QED
      BY <3>2, <3>3
  <2> HIDE DEF s1, s2, s3, s4
  <2>3. QED
    BY <2>1, <2>2
<1>6. js = Jobs(paths, modes)
  BY DEF Jobs
<1> HIDE DEF s1, s2, s3, s4, Rest
<1>7. s \in Seq(Rest) /\ Len(s) = Len(s1) + Len(s2) + Len(s3)
  <2>1. s1 \o s2 \in Seq(Rest) /\ Len(s1 \o s2) = Len(s1) + Len(s2)
    BY <1>4, ConcatProperties
  <2>2. QED
    BY <1>4, <2>1, ConcatProperties
<1> HIDE DEF s
<1>8. s \in Seq(Job) /\ s4 \in Seq(Job) /\ Len(s4) \in {0, 1}
  <2>1. s \in Seq(Job)
    BY <1>7, SeqMonotonic DEF Rest
  <2>2. CASE s4 = <<Streams>>
    <3>1. <<Streams>> \in Seq(Job) /\ Len(<<Streams>>) = 1
      BY <1>2
    <3>2. QED
      BY <2>1, <2>2, <3>1
  <2>3. CASE s4 = <<>>
    <3>1. <<>> \in Seq(Job) /\ Len(<<>>) = 0
      OBVIOUS
    <3>2. QED
      BY <2>1, <2>3, <3>1
  <2>4. QED
    BY <1>4, <2>2, <2>3
<1>9. /\ js \in Seq(Job) /\ Len(js) = Len(s) + Len(s4)
      /\ \A k \in 1..Len(s) + Len(s4) : js[k] = IF k <= Len(s) THEN s[k] ELSE s4[k - Len(s)]
  BY <1>8, ConcatProperties
<1>10. \A k \in 1..Len(s) : s[k] # Streams
  BY <1>7 DEF Rest
<1> HIDE DEF js
<1>11. ASSUME NEW k \in 1..Len(js), js[k] = Streams PROVE k = Len(js)
  <2>1. Len(s) \in Nat
    BY <1>8
  <2>2. k > Len(s)
    BY <1>9, <1>10, <1>11, <2>1
  <2>3. QED
    BY <1>8, <1>9, <2>1, <2>2
<1>12. js # <<>>
  <2>1. Len(js) > 0
    BY <1>5, <1>7, <1>9
  <2>2. QED
    BY <2>1
<1>13. QED
  BY <1>6, <1>9, <1>11, <1>12

\* Beginning the run and each session of it.
LEMMA SessionsStep ==
  ASSUME MaxRuns = 1, BenchInv, Start \/ OpenSession
  PROVE  BenchInv'
<1> USE DEF BenchInv
<1>1. NumSizes \in Nat /\ NumSizes >= 1 /\ 1 \in 1..NumSizes /\ Window * (1 - 1) = 0
  BY OneFits
<1>2. UNCHANGED <<txq, acks, wire, evq, slots, dropped, lost, eaten>>
  BY DEF Start, OpenSession, net
<1>3. Circulating' = Circulating
  BY <1>2, SameWays
<1>4. CASE Start
  <2>1. /\ pc = "exit" /\ runs = 0 /\ runs' = runs + 1 /\ rc' = "ok"
        /\ pc' = "init" /\ size' = 1 /\ i' = 1 /\ hand' = NoFrame
    BY <1>4 DEF Start, Typed
  <2>2. PICK paths \in (SUBSET {"kernel", "direct"}) \ {{}},
             modes \in (SUBSET {"lat", "tput"}) \ {{}} : todo' = Jobs(paths, modes)
    BY <1>4 DEF Start
  <2>3. todo' \in Seq(Job) /\ todo' # <<>> /\ Ordered'
    <3>1. /\ paths \in SUBSET {"kernel", "direct"} /\ paths # {}
          /\ modes \in SUBSET {"lat", "tput"} /\ modes # {}
      OBVIOUS
    <3>2. LET js == Jobs(paths, modes)
          IN  /\ js \in Seq(Job) /\ js # <<>>
              /\ \A k \in 1..Len(js) : js[k] = Streams => k = Len(js)
      BY ONLY <3>1, JobsAre
    <3>3. QED
      BY <2>2, <3>2 DEF Ordered
  <2>4. Circulating = 0 /\ lost = 0
    BY <2>1 DEF Under
  <2>5. NoFrame \in Frame /\ runs' \in Nat /\ runs' # 0
    BY <2>1 DEF NoFrame, Frame
  <2>6. Typed'
    BY <1>1, <1>2, <2>1, <2>3, <2>5 DEF Typed
  <2>7. Backed' /\ Sound' /\ Doing'
    BY <1>2, <1>3, <2>1, <2>3 DEF Backed, Sound, Doing
  <2>8. Under'
    BY <1>2, <1>3, <2>1, <2>4, <2>5 DEF Under
  <2>9. QED
    BY <2>3, <2>6, <2>7, <2>8
<1>5. CASE OpenSession
  <2>1. /\ pc = "init" /\ UNCHANGED <<size, i, hand, runs>>
        /\ \/ pc' = StartOf(Head(todo)) /\ UNCHANGED <<todo, rc>>
           \/ pc' = "exit" /\ todo' = <<>> /\ rc' = "init"
    BY <1>5 DEF OpenSession
  <2>2. Circulating = 0 /\ lost = 0 /\ size = 1 /\ runs # 0 /\ todo # <<>>
    BY <2>1 DEF Under, Doing
  <2>3. \/ pc' = "launch" /\ Head(todo) # Streams /\ UNCHANGED <<todo, rc>>
        \/ pc' = "prime" /\ Head(todo) = Streams /\ UNCHANGED <<todo, rc>>
        \/ pc' = "exit" /\ todo' = <<>> /\ rc' = "init"
    BY <2>1, Starts
  <2>4. Typed' /\ Backed'
    <3>1. todo' \in Seq(Job)
      <4>1. <<>> \in Seq(Job) /\ todo \in Seq(Job)
        BY DEF Typed
      <4>2. QED
        BY <2>3, <4>1
    <3>2. Typed'
      BY <1>2, <2>1, <3>1 DEF Typed
    <3>3. Backed'
      BY <1>2 DEF Backed
    <3>4. QED
      BY <3>2, <3>3
  <2>5. Sound' /\ Ordered' /\ Doing'
    BY <1>2, <1>3, <2>2, <2>3 DEF Sound, Ordered, Doing
  <2>6. Under'
    BY <1>1, <1>2, <1>3, <2>1, <2>2, <2>3 DEF Under
  <2>7. QED
    BY <2>4, <2>5, <2>6
<1>6. QED
  BY <1>4, <1>5

\* Every step of the first run keeps the invariant.
LEMMA BenchInvariant ==
  ASSUME MaxRuns = 1, Window * NumSizes < RxN
  PROVE  Spec => []BenchInv
<1>1. Init => BenchInv
  <2> SUFFICES ASSUME Init PROVE BenchInv
    OBVIOUS
  <2>1. 1 \in 1..NumSizes /\ 0 <= Window * NumSizes
    BY OneFits
  <2>2. <<>> \in Seq(Frame) /\ <<>> \in Seq(Event) /\ <<>> \in Seq(Job) /\ NoFrame \in Frame
    BY DEF NoFrame, Frame
  <2>3. Typed
    BY <2>1, <2>2 DEF Init, Typed
  <2>4. \A p \in PF : txq[p] = <<>> /\ wire[p] = <<>> /\ slots[p] = <<>> /\ evq[p] = <<>>
    BY DEF Init
  <2>5. RxIn(<<>>) = 0
    <3>1. RxIn(<<>>) \in Nat /\ RxIn(<<>>) <= Len(<<>>) /\ Len(<<>>) = 0
      BY <2>2, RxCount
    <3>2. QED
      BY <3>1
  <2>6. Backed
    BY <2>4, <2>5 DEF Backed
  <2>7. Circulating = 0 /\ lost = 0 /\ runs = 0 /\ pc = "exit" /\ todo = <<>>
    BY <2>4 DEF Circulating, Init, PF
  <2>8. Sound
    BY <2>1, <2>7 DEF Sound, Init
  <2>9. Ordered /\ Doing /\ Under
    BY <2>7 DEF Ordered, Doing, Under
  <2>10. QED
    BY <2>3, <2>6, <2>8, <2>9 DEF BenchInv
<1>2. BenchInv /\ [Next]_vars => BenchInv'
  <2> SUFFICES ASSUME BenchInv, [Next]_vars PROVE BenchInv'
    OBVIOUS
  <2>1. CASE UNCHANGED vars
    BY <2>1 DEF BenchInv, Typed, Backed, Sound, Ordered, Doing, Under, Circulating, Way,
       OnWay, Only, launched, vars, net, program
  <2>2. QED
    BY <2>1, NetworkStep, LoopStep, AgainStep, PrimeStep, ServeStep, SessionsStep
       DEF Next, Program
<1>3. QED
  BY <1>1, <1>2, PTL DEF Spec

\* In the first run every latency sample is the round trip of the frame its
\* iteration sent, on both paths, whatever the cable loses.
THEOREM EchoTheorem ==
  ASSUME MaxRuns = 1, Window * NumSizes < RxN
  PROVE  Spec => []EchoIsOwn
<1>1. BenchInv => EchoIsOwn
  BY DEF BenchInv, Under, EchoIsOwn
<1>2. QED
  BY <1>1, BenchInvariant, PTL

\* In the first run no TX ioctl and no wait_rx consumes the event of a frame that
\* is still to be received.
THEOREM EatenTheorem ==
  ASSUME MaxRuns = 1, Window * NumSizes < RxN
  PROVE  Spec => []NothingEaten
<1>1. BenchInv => NothingEaten
  BY DEF BenchInv, Sound, NothingEaten
<1>2. QED
  BY <1>1, BenchInvariant, PTL

\* run_throughput loses no frame: every one primed for this size or an earlier
\* one is still under way unless the cable lost it.
THEOREM FramesTheorem ==
  ASSUME MaxRuns = 1, Window * NumSizes < RxN
  PROVE  Spec => []FramesConserved
<1>1. BenchInv => FramesConserved
  BY DEF BenchInv, Under, FramesConserved
<1>2. QED
  BY <1>1, BenchInvariant, PTL

\* Rings that hold the windows of all sizes together suffice (128 for each of
\* three sizes, 512 entries): no frame is dropped and none posted over another.
THEOREM RingsTheorem ==
  ASSUME MaxRuns = 1, Window * NumSizes < RxN, Window * NumSizes < TxN
  PROVE  Spec => []RingsSuffice
<1>1. BenchInv => RingsSuffice
  <2> SUFFICES ASSUME BenchInv PROVE RingsSuffice
    OBVIOUS
  <2>1. Typed /\ Sound
    BY DEF BenchInv
  <2>2. ASSUME NEW p \in PF PROVE Len(txq[p]) < TxN
    <3> DEFINE a == Len(txq[p])
               b == Len(wire[Peer(p)])
               c == Len(slots[Peer(p)])
               w == Window * NumSizes
    <3>1. Peer(p) \in PF
      BY Others
    <3>2. a \in Nat /\ b \in Nat /\ c \in Nat /\ lost \in Nat /\ Way(p) = a + b + c
      BY <2>1, <3>1 DEF Typed, Way
    <3>3. Circulating = Way(p) + Way(Peer(p)) /\ Way(Peer(p)) \in Nat
      BY <2>1, <3>1, Ways DEF Sums
    <3>4. Circulating + lost <= w /\ w \in Nat /\ w < TxN /\ TxN \in Nat
      BY <2>1, OneFits, BenchAssumption DEF Sound, BenchAssumption
    <3> HIDE DEF a, b, c, w
    <3>5. a < TxN
      BY <3>2, <3>3, <3>4
    <3>6. QED
      BY <3>5 DEF a
  <2>3. QED
    BY <2>1, <2>2 DEF Sound, RingsSuffice
<1>2. QED
  BY <1>1, BenchInvariant, PTL

\* In the first run a wait times out only if the cable lost a frame.
THEOREM TimeoutsTheorem ==
  ASSUME MaxRuns = 1, Window * NumSizes < RxN
  PROVE  Spec => []NeverTimesOut
<1>1. BenchInv => NeverTimesOut
  BY DEF BenchInv, Sound, NeverTimesOut
<1>2. QED
  BY <1>1, BenchInvariant, PTL
=============================================================================
