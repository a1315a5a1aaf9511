----------------------- MODULE StreamPipelineProofs -----------------------
(***************************************************************************)
(* For any number of streams and posts, any capacities, outages and        *)
(* restarts: no overflow of the persistence queue is ever forgotten, and   *)
(* the gap test of the WebView fires where a bridge was replaced and       *)
(* nowhere else.                                                           *)
(***************************************************************************)
EXTENDS StreamPipeline, QuoteLookups, FiniteSetTheorems, WellFoundedInduction, SequenceTheorems, TLAPS

(* The persistence queue is a sequence (of whatever), which is all the     *)
(* argument needs to know about its content.                               *)
QueueIsSequence == \E S : pq \in Seq(S)

IInv == QueueIsSequence /\ LagCovered

(* Appending keeps a sequence and makes it non-empty.                      *)
LEMMA AppendFacts ==
    ASSUME NEW q, NEW b, \E S : q \in Seq(S)
    PROVE  (\E S : Append(q, b) \in Seq(S)) /\ Append(q, b) # <<>>
<1>1. PICK S : q \in Seq(S)
  OBVIOUS
<1>2. q \in Seq(S \cup {b})
  BY <1>1
<1>3. Append(q, b) \in Seq(S \cup {b})
  BY <1>2
<1>4. Append(q, b) # <<>>
  BY <1>1
<1> QED
  BY <1>3, <1>4

(* Taking the head of a non-empty queue leaves a sequence.                 *)
LEMMA TailFacts ==
    ASSUME NEW q, q # <<>>, \E S : q \in Seq(S)
    PROVE  \E S : Tail(q) \in Seq(S)
<1>1. PICK S : q \in Seq(S)
  OBVIOUS
<1>2. Tail(q) \in Seq(S)
  BY <1>1
<1> QED
  BY <1>2

(* What enqueue_persistence_batch does: it queues the batch or, with the   *)
(* queue full and so not empty, raises the flag.                           *)
LEMMA EnqueueFacts ==
    ASSUME NEW b, IInv, EnqueuePersistence(b), UNCHANGED wpc
    PROVE  IInv'
<1> USE DEF IInv, QueueIsSequence, LagCovered, EnqueuePersistence
<1>1. CASE Len(pq) < PersistCap /\ pq' = Append(pq, b) /\ UNCHANGED <<lagged, lost, missed>>
  <2>1. (\E S : pq' \in Seq(S)) /\ pq' # <<>>
    BY <1>1, AppendFacts
  <2> QED
    BY <1>1, <2>1
<1>2. CASE Len(pq) >= PersistCap /\ lagged' = TRUE /\ lost' = TRUE /\ UNCHANGED pq
  <2>1. pq # <<>>
    <3>1. PersistCap \in Nat \ {0}
      BY PipelineAssumption
    <3>2. Len(<<>>) = 0
      OBVIOUS
    <3> QED
      BY <1>2, <3>1, <3>2
  <2> QED
    BY <1>2, <2>1
<1> QED
  BY <1>1, <1>2

LEMMA InitEstablishes == Init => IInv
<1>1. <<>> \in Seq({})
  OBVIOUS
<1> QED
  BY <1>1 DEF Init, IInv, QueueIsSequence, LagCovered

(* Every step of the pipeline preserves the invariant.                     *)
LEMMA StepPreserves == IInv /\ [Next]_vars => IInv'
<1> SUFFICES ASSUME IInv, [Next]_vars
             PROVE  IInv'
  OBVIOUS
<1> USE DEF IInv, QueueIsSequence, LagCovered
<1>1. CASE UNCHANGED <<pq, lagged, lost, wpc>>
  BY <1>1
<1>2. ASSUME NEW s \in Streams, TakeBatch(s) PROVE IInv'
  <2>1. PICK b : EnqueuePersistence(b) /\ UNCHANGED wpc
    BY <1>2 DEF TakeBatch
  <2> QED
    BY <2>1, EnqueueFacts
<1>3. CASE WorkerTakes
  <2>1. \E S : pq' \in Seq(S)
    BY <1>3, TailFacts DEF WorkerTakes
  <2> QED
    BY <1>3, <2>1 DEF WorkerTakes
<1>4. CASE PersistSucceeds
  BY <1>4 DEF PersistSucceeds
<1>5. CASE PersistFails
  BY <1>5 DEF PersistFails
<1>6. CASE AnnounceCommit
  BY <1>6 DEF AnnounceCommit
<1>7. CASE CheckEmpty
  BY <1>7 DEF CheckEmpty
<1>8. CASE SwapLagged
  BY <1>8 DEF SwapLagged
<1>9. CASE RequestResync
  BY <1>9 DEF RequestResync
<1>10. CASE Restart
  <2>1. <<>> \in Seq({})
    OBVIOUS
  <2> QED
    BY <1>10, <2>1 DEF Restart
<1>11. ASSUME ProviderStep PROVE IInv'
  <2>1. UNCHANGED persistence
    BY <1>11 DEF ProviderStep, Publish, Edit, Delete, Change
  <2> QED
    BY <1>1, <2>1 DEF persistence
<1>12. ASSUME SocketStep PROVE IInv'
  <2>1. UNCHANGED persistence
    BY <1>12 DEF SocketStep, Connect, Disconnect, Receive
  <2> QED
    BY <1>1, <2>1 DEF persistence
<1>13. ASSUME NEW s \in Streams, Broadcast(s) PROVE IInv'
  BY <1>1, <1>13 DEF Broadcast, persistence
<1>14. CASE BridgeStep
  BY <1>1, <1>14 DEF BridgeStep, Forward, HandOver, EmitEcho, persistence
<1>15. CASE Display
  BY <1>1, <1>15 DEF Display, persistence
<1>16. CASE UNCHANGED vars
  BY <1>1, <1>16 DEF vars, persistence
<1>17. CASE CopyStep
  BY <1>1, <1>17 DEF CopyStep, ReceiveCopy, persistence
<1>18. CASE OtherWriterStep
  BY <1>1, <1>18
     DEF OtherWriterStep, SavePage, QuoteSaves, QuoteTells, SideEnds, persistence
<1> QED
  BY <1>2, <1>3, <1>4, <1>5, <1>6, <1>7, <1>8, <1>9, <1>10, <1>11, <1>12,
     <1>13, <1>14, <1>15, <1>16, <1>17, <1>18
     DEF Next, BackendStep, ProcessorStep, WorkerStep

(* Every dropped batch stays covered by the flag and a later look of the   *)
(* persistence worker until a resync is queued.                            *)
THEOREM LagIsCovered == Spec => []LagCovered
<1>1. IInv => LagCovered
  BY DEF IInv
<1> QED
  BY InitEstablishes, StepPreserves, <1>1, PTL DEF Spec
-----------------------------------------------------------------------------
(* Positions.  A non-empty set of indices has a greatest one, so that      *)
(* Before(i) is the position of the last numbered event before i, or what  *)
(* the WebView saw last.                                                   *)
LEMMA GreatestIndex ==
    ASSUME NEW n \in Nat, NEW E \in SUBSET (1..n), E # {}
    PROVE  \E m \in E : \A k \in E : k <= m
<1> DEFINE above(m) == {k \in E : k > m}
           T == {above(m) : m \in E}
<1>1. T \subseteq FiniteSubsetsOf(E) /\ T # {}
  <2>1. IsFiniteSet(1..n)
    BY FS_Interval
  <2>2. IsFiniteSet(E)
    BY <2>1, FS_Subset
  <2>3. FiniteSubsetsOf(E) = SUBSET E
    BY <2>2, FS_FiniteSubsetsOfFinite
  <2>4. \A m \in E : above(m) \in SUBSET E
    OBVIOUS
  <2> HIDE DEF above
  <2>5. T \subseteq SUBSET E
    BY <2>4
  <2>6. PICK m \in E : TRUE
    OBVIOUS
  <2>7. above(m) \in T
    BY <2>6
  <2> QED
    BY <2>3, <2>5, <2>7
<1>2. IsWellFoundedOn(StrictSubsetOrdering(E), FiniteSubsetsOf(E))
  BY FS_StrictSubsetOrderingWellFounded
<1> HIDE DEF T
<1>3. PICK x \in T : \A y \in T : <<y, x>> \notin StrictSubsetOrdering(E)
  BY <1>1, <1>2, WFMin
<1>4. PICK m \in E : x = above(m)
  BY DEF T
<1>5. ASSUME NEW k \in E, k > m PROVE FALSE
  <2>1. above(k) \subseteq above(m) /\ above(k) # above(m)
    <3>1. k \in above(m) /\ k \notin above(k)
      BY <1>5
    <3>2. ASSUME NEW l \in above(k) PROVE l \in above(m)
      <4>1. l \in Nat /\ k \in Nat /\ m \in Nat /\ l \in E /\ l > k
        BY <3>2
      <4> QED
        BY <1>5, <4>1
    <3> QED
      BY <3>1, <3>2
  <2>2. above(k) \in T
    BY DEF T
  <2>3. above(k) \in SUBSET E /\ above(m) \in SUBSET E
    OBVIOUS
  <2> HIDE DEF above
  <2>4. <<above(k), above(m)>> \in StrictSubsetOrdering(E)
    BY <2>1, <2>3 DEF StrictSubsetOrdering
  <2> QED
    BY <1>3, <1>4, <2>2, <2>4
<1> QED
  BY <1>5

(* m is the last numbered index below i. *)
LastBelow(m, i) == /\ m \in 1..(i - 1) /\ Numbered(m)
                   /\ \A k \in (m + 1)..(i - 1) : ~Numbered(k)

LEMMA BeforeIs ==
    ASSUME NEW i \in Nat \ {0}
    PROVE  \/ (\A k \in 1..(i - 1) : ~Numbered(k)) /\ Before(i) = seen
           \/ \E m \in Nat : LastBelow(m, i) /\ Before(i) = wire[m].at
<1> DEFINE E == {j \in 1..(i - 1) : Numbered(j)}
           top == CHOOSE j \in E : \A k \in E : k <= j
<1>1. Before(i) = IF E = {} THEN seen ELSE wire[top].at
  BY DEF Before
<1>2. CASE E = {}
  BY <1>1, <1>2
<1>3. CASE E # {}
  <2>1. \E m \in E : \A k \in E : k <= m
    <3>1. i - 1 \in Nat /\ E \in SUBSET (1..(i - 1))
      OBVIOUS
    <3> HIDE DEF E
    <3> QED
      BY <1>3, <3>1, GreatestIndex
  <2>2. top \in E /\ \A k \in E : k <= top
    BY <2>1
  <2>3. LastBelow(top, i)
    BY <2>2 DEF LastBelow
  <2> QED
    BY <1>1, <1>3, <2>2, <2>3
<1> QED
  BY <1>2, <1>3

(* One event further, Before has moved only if the event is numbered.      *)
LEMMA BeforeNext ==
    ASSUME NEW i \in Nat \ {0}
    PROVE  Before(i + 1) = IF Numbered(i) THEN wire[i].at ELSE Before(i)
<1>1. \/ (\A k \in 1..i : ~Numbered(k)) /\ Before(i + 1) = seen
      \/ \E m \in Nat : LastBelow(m, i + 1) /\ Before(i + 1) = wire[m].at
  <2>1. i + 1 \in Nat \ {0} /\ (i + 1) - 1 = i
    OBVIOUS
  <2> QED
    BY <2>1, BeforeIs
<1>2. CASE Numbered(i)
  <2>1. PICK m \in Nat : LastBelow(m, i + 1) /\ Before(i + 1) = wire[m].at
    BY <1>1, <1>2
  <2>2. m = i
    BY <1>2, <2>1 DEF LastBelow
  <2> QED
    BY <1>2, <2>1, <2>2
<1>3. CASE ~Numbered(i)
  <2>1. CASE (\A k \in 1..i : ~Numbered(k)) /\ Before(i + 1) = seen
    BY <1>3, <2>1, BeforeIs DEF LastBelow
  <2>2. ASSUME NEW m \in Nat, LastBelow(m, i + 1), Before(i + 1) = wire[m].at
        PROVE  Before(i + 1) = Before(i)
    <3>1. m \in 1..(i - 1) /\ Numbered(m) /\ \A k \in (m + 1)..(i - 1) : ~Numbered(k)
      BY <1>3, <2>2 DEF LastBelow
    <3>2. PICK n \in Nat : LastBelow(n, i) /\ Before(i) = wire[n].at
      BY <3>1, BeforeIs
    <3>3. n = m
      BY <3>1, <3>2 DEF LastBelow
    <3> QED
      BY <2>2, <3>2, <3>3
  <2> QED
    BY <1>1, <1>3, <2>1, <2>2
<1> QED
  BY <1>2, <1>3

LEMMA LastBelowIsOne ==
    ASSUME NEW i \in Nat \ {0}, NEW m \in Nat, NEW n \in Nat, LastBelow(m, i), LastBelow(n, i)
    PROVE  m = n
BY DEF LastBelow

(* The same of every index, and so of the next state.                      *)
BeforeFacts ==
    \A i \in Nat \ {0} :
        /\ \/ (\A k \in 1..(i - 1) : ~Numbered(k)) /\ Before(i) = seen
           \/ \E m \in Nat : LastBelow(m, i) /\ Before(i) = wire[m].at
        /\ Before(i + 1) = IF Numbered(i) THEN wire[i].at ELSE Before(i)

LEMMA BeforeAll == BeforeFacts
BY BeforeIs, BeforeNext DEF BeforeFacts

LEMMA BeforeAllNext == BeforeFacts'
BY BeforeAll, PTL

-----------------------------------------------------------------------------
(* What appending and taking do to a sequence.                             *)
LEMMA AppendIndex ==
    ASSUME NEW q, NEW e, \E S : q \in Seq(S)
    PROVE  /\ \E S : Append(q, e) \in Seq(S)
           /\ Len(q) \in Nat /\ DOMAIN q = 1..Len(q)
           /\ Len(Append(q, e)) = Len(q) + 1
           /\ DOMAIN Append(q, e) = 1..(Len(q) + 1)
           /\ \A i \in 1..Len(q) : Append(q, e)[i] = q[i]
           /\ Append(q, e)[Len(q) + 1] = e
<1>1. PICK S : q \in Seq(S)
  OBVIOUS
<1>2. q \in Seq(S \cup {e}) /\ e \in S \cup {e}
  BY <1>1
<1>3. Append(q, e) \in Seq(S \cup {e})
  BY <1>2
<1> QED
  BY <1>2, <1>3, AppendProperties

LEMMA TailIndex ==
    ASSUME NEW q, q # <<>>, \E S : q \in Seq(S)
    PROVE  /\ \E S : Tail(q) \in Seq(S)
           /\ Len(q) \in Nat \ {0} /\ DOMAIN q = 1..Len(q)
           /\ Len(Tail(q)) = Len(q) - 1
           /\ DOMAIN Tail(q) = 1..(Len(q) - 1)
           /\ \A i \in 1..(Len(q) - 1) : Tail(q)[i] = q[i + 1]
           /\ Head(q) = q[1]
<1>1. PICK S : q \in Seq(S)
  OBVIOUS
<1> QED
  BY <1>1, HeadTailProperties

-----------------------------------------------------------------------------
Positions == [gen : Nat, seq : Nat, epoch : Nat]

(* The last position there is: of the last numbered event on its way, or   *)
(* the one seen.                                                           *)
Latest == Before(Len(wire) + 1)

(* The last position is that of this bridge, or of an earlier one while    *)
(* this one has numbered nothing; no bridge gives out the number it starts *)
(* with.                                                                   *)
PositionInv ==
    /\ \E S : wire \in Seq(S)
    /\ gen \in Nat \ {0} /\ seq \in Nat /\ epoch \in Nat
    /\ Latest \in Positions
    /\ Latest = Nowhere => gen = 1 /\ seq = 0
    /\ Latest # Nowhere =>
         /\ ~ (Latest.gen = 1 /\ Latest.seq = 0)
         /\ \/ Latest.epoch = epoch /\ Latest.gen = gen /\ Latest.seq = seq
            \/ Latest.epoch < epoch /\ gen = 1 /\ seq = 0

(* An event that is appended has the latest position before it, and moves  *)
(* no other.                                                               *)
LEMMA AppendMovesLatest ==
    ASSUME NEW e, NEW n, n = Len(wire), \E S : wire \in Seq(S),
           wire' = Append(wire, e), seen' = seen
    PROVE  /\ \E S : wire' \in Seq(S)
           /\ n \in Nat /\ DOMAIN wire = 1..n /\ DOMAIN wire' = 1..(n + 1)
           /\ \A i \in 1..n : wire'[i] = wire[i] /\ (Numbered(i)' <=> Numbered(i))
           /\ wire'[n + 1] = e
           /\ Numbered(n + 1)' <=> e.ev # Committed
           /\ \A i \in 1..(n + 1) : Before(i)' = Before(i)
           /\ Latest' = IF e.ev # Committed THEN e.at ELSE Latest
<1>1. /\ \E S : wire' \in Seq(S)
      /\ n \in Nat /\ DOMAIN wire = 1..n /\ DOMAIN wire' = 1..(n + 1) /\ Len(wire') = n + 1
      /\ \A i \in 1..n : wire'[i] = wire[i]
      /\ wire'[n + 1] = e
  <2>1. (\E S : wire \in Seq(S)) /\ wire' = Append(wire, e) /\ Len(wire) = n
    OBVIOUS
  <2>2. /\ \E S : Append(wire, e) \in Seq(S)
        /\ Len(wire) \in Nat /\ DOMAIN wire = 1..Len(wire)
        /\ Len(Append(wire, e)) = Len(wire) + 1
        /\ DOMAIN Append(wire, e) = 1..(Len(wire) + 1)
        /\ \A i \in 1..Len(wire) : Append(wire, e)[i] = wire[i]
        /\ Append(wire, e)[Len(wire) + 1] = e
    BY <2>1, AppendIndex, Zenon
  <2> QED
    BY <2>1, <2>2, Zenon
<1>2. \A i \in 1..n : Numbered(i)' <=> Numbered(i)
  BY <1>1 DEF Numbered
<1>3. Numbered(n + 1)' <=> e.ev # Committed
  <2>1. n + 1 \in DOMAIN wire'
    BY <1>1
  <2> QED
    BY <1>1, <2>1 DEF Numbered, Committed
<1>4. ASSUME NEW i \in 1..(n + 1) PROVE Before(i)' = Before(i)
  <2>1. i \in Nat \ {0}
    BY <1>1
  <2>2. \A m \in Nat : LastBelow(m, i)' <=> LastBelow(m, i)
    BY <1>1, <1>2, <2>1 DEF LastBelow
  <2>3. \/ (\A k \in 1..(i - 1) : ~Numbered(k)) /\ Before(i) = seen
        \/ \E m \in Nat : LastBelow(m, i) /\ Before(i) = wire[m].at
    BY <2>1, BeforeAll DEF BeforeFacts
  <2>4. \/ (\A k \in 1..(i - 1) : ~Numbered(k)') /\ Before(i)' = seen'
        \/ \E m \in Nat : LastBelow(m, i)' /\ Before(i)' = wire'[m].at
    BY <2>1, BeforeAllNext DEF BeforeFacts
  <2>5. CASE \A k \in 1..(i - 1) : ~Numbered(k)
    <3>1. \A m \in Nat : ~LastBelow(m, i)
      BY <2>5 DEF LastBelow
    <3> QED
      BY <2>2, <2>3, <2>4, <3>1
  <2>6. CASE \E m \in Nat : LastBelow(m, i) /\ Before(i) = wire[m].at
    <3>1. PICK m \in Nat : LastBelow(m, i) /\ Before(i) = wire[m].at
      BY <2>6
    <3>2. m \in 1..(i - 1) /\ Numbered(m)' /\ wire'[m] = wire[m]
      BY <1>1, <1>2, <2>1, <3>1 DEF LastBelow
    <3>3. PICK k \in Nat : LastBelow(k, i)' /\ Before(i)' = wire'[k].at
      BY <2>4, <3>2
    <3>4. k = m
      BY <2>1, <2>2, <3>1, <3>3, LastBelowIsOne
    <3> QED
      BY <3>1, <3>2, <3>3, <3>4
  <2> QED
    BY <2>3, <2>5, <2>6
<1>5. Latest' = IF e.ev # Committed THEN e.at ELSE Latest
  <2>1. Before((n + 1) + 1)' = IF Numbered(n + 1)' THEN wire'[n + 1].at ELSE Before(n + 1)'
    <3>1. n + 1 \in Nat \ {0}
      BY <1>1
    <3> QED
      BY <3>1, BeforeAllNext DEF BeforeFacts
  <2>2. Latest' = Before((n + 1) + 1)'
    BY <1>1 DEF Latest
  <2>3. Latest = Before(n + 1) /\ Before(n + 1)' = Before(n + 1)
    BY <1>1, <1>4 DEF Latest
  <2> QED
    BY <1>1, <1>3, <2>1, <2>2, <2>3
<1> QED
  BY <1>1, <1>2, <1>3, <1>4, <1>5

(* Taking the head moves every index by one, and the head's position into  *)
(* what was seen.                                                          *)
LEMMA TailMovesIndices ==
    ASSUME NEW n, n = Len(wire), \E S : wire \in Seq(S), TakeWire
    PROVE  /\ \E S : wire' \in Seq(S)
           /\ n \in Nat \ {0} /\ DOMAIN wire = 1..n /\ DOMAIN wire' = 1..(n - 1)
           /\ \A i \in 1..(n - 1) : wire'[i] = wire[i + 1] /\ (Numbered(i)' <=> Numbered(i + 1))
           /\ \A i \in 1..n : Before(i)' = Before(i + 1)
           /\ Latest' = Latest
<1>1. /\ \E S : wire' \in Seq(S)
      /\ n \in Nat \ {0} /\ DOMAIN wire = 1..n /\ DOMAIN wire' = 1..(n - 1)
      /\ Len(wire') = n - 1
      /\ \A i \in 1..(n - 1) : wire'[i] = wire[i + 1]
      /\ Head(wire) = wire[1]
  BY TailIndex DEF TakeWire
<1>2. \A i \in 1..(n - 1) : Numbered(i)' <=> Numbered(i + 1)
  BY <1>1 DEF Numbered
<1>3. seen' = Before(2)
  <2>1. Before(1) = seen
    <3>1. 1 \in Nat \ {0} /\ \A m : ~LastBelow(m, 1)
      BY DEF LastBelow
    <3> QED
      BY <3>1, BeforeAll DEF BeforeFacts
  <2>2. Before(1 + 1) = IF Numbered(1) THEN wire[1].at ELSE Before(1)
    <3>1. 1 \in Nat \ {0}
      OBVIOUS
    <3> QED
      BY <3>1, BeforeAll DEF BeforeFacts
  <2>3. Numbered(1) <=> wire[1].ev # Committed
    BY <1>1 DEF Numbered
  <2>4. seen' = IF wire[1].ev = Committed THEN seen ELSE wire[1].at
    BY <1>1 DEF TakeWire
  <2>5. Before(1 + 1) = Before(2)
    OBVIOUS
  <2> QED
    BY <2>1, <2>2, <2>3, <2>4, <2>5
<1>4. ASSUME NEW i \in 1..n PROVE Before(i)' = Before(i + 1)
  <2>1. i \in Nat \ {0} /\ i + 1 \in Nat \ {0} /\ (i + 1) - 1 = i
    BY <1>1
  <2>2. \A m \in Nat : LastBelow(m, i)' => LastBelow(m + 1, i + 1) /\ wire'[m] = wire[m + 1]
    <3> SUFFICES ASSUME NEW m \in Nat, LastBelow(m, i)'
                 PROVE  LastBelow(m + 1, i + 1) /\ wire'[m] = wire[m + 1]
      OBVIOUS
    <3>1. m \in 1..(i - 1) /\ Numbered(m)' /\ \A k \in (m + 1)..(i - 1) : ~Numbered(k)'
      BY DEF LastBelow
    <3>2. m + 1 \in 1..i /\ Numbered(m + 1) /\ wire'[m] = wire[m + 1]
      BY <1>1, <1>2, <3>1
    <3>3. ASSUME NEW k \in (m + 2)..i PROVE ~Numbered(k)
      <4>1. k - 1 \in (m + 1)..(i - 1) /\ k - 1 \in 1..(n - 1) /\ (k - 1) + 1 = k
        BY <1>1, <3>1
      <4> QED
        BY <1>2, <3>1, <4>1
    <3> QED
      BY <2>1, <3>1, <3>2, <3>3 DEF LastBelow
  <2>3. \/ (\A k \in 1..i : ~Numbered(k)) /\ Before(i + 1) = seen
        \/ \E m \in Nat : LastBelow(m, i + 1) /\ Before(i + 1) = wire[m].at
    BY <2>1, BeforeAll DEF BeforeFacts
  <2>4. \/ (\A k \in 1..(i - 1) : ~Numbered(k)') /\ Before(i)' = seen'
        \/ \E m \in Nat : LastBelow(m, i)' /\ Before(i)' = wire'[m].at
    BY <2>1, BeforeAllNext DEF BeforeFacts
  <2>5. CASE \E m \in Nat : LastBelow(m, i)' /\ Before(i)' = wire'[m].at
    <3>1. PICK m \in Nat : LastBelow(m, i)' /\ Before(i)' = wire'[m].at
      BY <2>5
    <3>2. LastBelow(m + 1, i + 1) /\ Before(i)' = wire[m + 1].at
      BY <2>2, <3>1
    <3>3. PICK k \in Nat : LastBelow(k, i + 1) /\ Before(i + 1) = wire[k].at
      BY <2>1, <2>3, <3>2 DEF LastBelow
    <3>4. k = m + 1
      BY <2>1, <3>2, <3>3, LastBelowIsOne
    <3> QED
      BY <3>2, <3>3, <3>4
  <2>6. CASE (\A k \in 1..(i - 1) : ~Numbered(k)') /\ Before(i)' = seen'
    <3>1. ASSUME NEW k \in 2..i PROVE ~Numbered(k)
      <4>1. k - 1 \in 1..(i - 1) /\ k - 1 \in 1..(n - 1) /\ (k - 1) + 1 = k
        BY <1>1
      <4> QED
        BY <1>2, <2>6, <4>1
    <3>2. Before(i + 1) = Before(2)
      <4>1. \/ (\A k \in 1..1 : ~Numbered(k)) /\ Before(2) = seen
            \/ \E m \in Nat : LastBelow(m, 2) /\ Before(2) = wire[m].at
        <5>1. 2 \in Nat \ {0} /\ 2 - 1 = 1
          OBVIOUS
        <5> QED
          BY <5>1, BeforeAll DEF BeforeFacts
      <4>2. \A m \in Nat : LastBelow(m, i + 1) => m = 1
        BY <2>1, <3>1 DEF LastBelow
      <4>3. \A m \in Nat : LastBelow(m, 2) => m = 1
        BY DEF LastBelow
      <4>4. Numbered(1) \/ ~Numbered(1)
        OBVIOUS
      <4>5. CASE Numbered(1)
        <5>1. Before(2) = wire[1].at
          BY <4>1, <4>3, <4>5
        <5>2. Before(i + 1) = wire[1].at
          BY <2>1, <2>3, <4>2, <4>5
        <5> QED
          BY <5>1, <5>2
      <4>6. CASE ~Numbered(1)
        <5>1. Before(2) = seen
          BY <4>1, <4>3, <4>6 DEF LastBelow
        <5>2. Before(i + 1) = seen
          BY <2>1, <2>3, <4>2, <4>6 DEF LastBelow
        <5> QED
          BY <5>1, <5>2
      <4> QED
        BY <4>5, <4>6
    <3> QED
      BY <1>3, <2>6, <3>2
  <2> QED
    BY <2>4, <2>5, <2>6
<1>5. Latest' = Latest
  <2>1. (n - 1) + 1 = n /\ n \in 1..n
    BY <1>1
  <2>2. Latest' = Before((n - 1) + 1)'
    BY <1>1 DEF Latest
  <2>3. Before(n)' = Before(n + 1)
    BY <1>4, <2>1
  <2>4. Before((n - 1) + 1)' = Before(n)'
    BY <2>1
  <2> QED
    BY <2>2, <2>3, <2>4 DEF Latest
<1> QED
  BY <1>1, <1>2, <1>4, <1>5

(* The bridge numbers an event from where it is: the new event continues   *)
(* the latest position unless that is of an earlier bridge.                *)
LEMMA ForwardKeepsPositions ==
    ASSUME PositionInv, GapsShowRestarts, Forward
    PROVE  PositionInv' /\ GapsShowRestarts'
<1> DEFINE ev == Head(bridge).ev
           e == [ev |-> ev, stream |-> Head(bridge).stream, at |-> Position]
<1>1. /\ Number(ev) /\ wire' = Append(wire, e) /\ seen' = seen /\ epoch' = epoch
      /\ e.ev = ev /\ e.at = Position
  BY DEF Forward
<1>2. PICK n : n = Len(wire)
  OBVIOUS
<1>3. gen \in Nat \ {0} /\ seq \in Nat /\ epoch \in Nat /\ \E S : wire \in Seq(S)
  BY DEF PositionInv
<1> HIDE DEF e, ev
<1>4. /\ \E S : wire' \in Seq(S)
      /\ n \in Nat /\ DOMAIN wire = 1..n /\ DOMAIN wire' = 1..(n + 1)
      /\ \A i \in 1..n : wire'[i] = wire[i] /\ (Numbered(i)' <=> Numbered(i))
      /\ wire'[n + 1] = e
      /\ Numbered(n + 1)' <=> ev # Committed
      /\ \A i \in 1..(n + 1) : Before(i)' = Before(i)
      /\ Latest' = IF ev # Committed THEN Position ELSE Latest
  BY <1>1, <1>2, <1>3, AppendMovesLatest
<1>5. Latest = Before(n + 1)
  BY <1>2 DEF Latest
<1>6. /\ gen' \in Nat \ {0} /\ seq' \in Nat
      /\ \/ ev = Committed /\ gen' = gen /\ seq' = seq
         \/ ev = Resync /\ gen' = gen + 1 /\ seq' = 0
         \/ ev \notin {Committed, Resync} /\ gen' = gen /\ seq' = seq + 1
  BY <1>1, <1>3 DEF Number
<1>7. /\ Position \in Positions /\ Position.gen = gen' /\ Position.seq = seq'
      /\ Position.epoch = epoch
  BY <1>3, <1>6 DEF Position, Positions
<1>8. PositionInv'
  <2>1. CASE ev = Committed
    <3>1. gen' = gen /\ seq' = seq /\ Latest' = Latest
      BY <1>4, <1>6, <2>1 DEF Committed, Resync
    <3> QED
      BY <1>1, <1>4, <3>1 DEF PositionInv, Positions
  <2>2. CASE ev # Committed
    <3>1. Latest' = Position /\ ~ (gen' = 1 /\ seq' = 0)
      BY <1>3, <1>4, <1>6, <2>2
    <3>2. Position # Nowhere
      BY <1>6, <1>7 DEF Nowhere
    <3> QED
      BY <1>1, <1>3, <1>4, <1>6, <1>7, <3>1, <3>2 DEF PositionInv
  <2> QED
    BY <2>1, <2>2
<1>9. GapsShowRestarts'
  <2> SUFFICES ASSUME NEW i \in DOMAIN wire', Numbered(i)', wire'[i].ev # Resync,
                      Before(i)' # Nowhere
               PROVE  Continuous(Before(i)', wire'[i].at)
                        <=> Before(i)'.epoch = wire'[i].at.epoch
    BY DEF GapsShowRestarts, Continuous, Resync, Nowhere
  <2>1. CASE i \in 1..n
    <3>1. i \in DOMAIN wire /\ wire'[i] = wire[i] /\ Numbered(i) /\ Before(i)' = Before(i)
      BY <1>4, <2>1
    <3> QED
      BY <3>1 DEF GapsShowRestarts
  <2>2. CASE i = n + 1
    <3>1. /\ ev \notin {Committed, Resync} /\ wire'[i].at = Position
          /\ Before(i)' = Latest /\ Latest # Nowhere
      BY <1>1, <1>4, <1>5, <2>2
    <3>2. gen' = gen /\ seq' = seq + 1
      BY <1>6, <3>1
    <3>3. Latest \in Positions /\ Latest.seq \in Nat /\ Latest.epoch \in Nat
      BY DEF PositionInv, Positions
    <3>4. /\ ~ (Latest.gen = 1 /\ Latest.seq = 0)
          /\ \/ Latest.epoch = epoch /\ Latest.gen = gen /\ Latest.seq = seq
             \/ Latest.epoch < epoch /\ gen = 1 /\ seq = 0
      BY <3>1 DEF PositionInv
    <3>5. Continuous(Latest, Position) <=> Latest.epoch = Position.epoch
      BY <1>3, <1>7, <3>2, <3>3, <3>4 DEF Continuous
    <3> QED
      BY <3>1, <3>5
  <2> QED
    BY <1>4, <2>1, <2>2
<1> QED
  BY <1>8, <1>9

(* A detached commit notice is not numbered.                               *)
LEMMA EchoKeepsPositions ==
    ASSUME PositionInv, GapsShowRestarts, EmitEcho
    PROVE  PositionInv' /\ GapsShowRestarts'
<1> DEFINE e == [ev |-> Committed, stream |-> "none", at |-> Nowhere]
<1>1. /\ wire' = Append(wire, e) /\ seen' = seen /\ UNCHANGED <<gen, seq, epoch>>
      /\ e.ev = Committed
  BY DEF EmitEcho, bridgeVars
<1>2. PICK n : n = Len(wire)
  OBVIOUS
<1>3. \E S : wire \in Seq(S)
  BY DEF PositionInv
<1> HIDE DEF e
<1>4. /\ \E S : wire' \in Seq(S)
      /\ n \in Nat /\ DOMAIN wire = 1..n /\ DOMAIN wire' = 1..(n + 1)
      /\ \A i \in 1..n : wire'[i] = wire[i] /\ (Numbered(i)' <=> Numbered(i))
      /\ Numbered(n + 1)' <=> e.ev # Committed
      /\ \A i \in 1..(n + 1) : Before(i)' = Before(i)
      /\ Latest' = IF e.ev # Committed THEN e.at ELSE Latest
  BY <1>1, <1>2, <1>3, AppendMovesLatest
<1>5. PositionInv'
  BY <1>1, <1>4 DEF PositionInv, Positions
<1>6. GapsShowRestarts'
  <2> SUFFICES ASSUME NEW i \in DOMAIN wire', Numbered(i)', wire'[i].ev # Resync,
                      Before(i)' # Nowhere
               PROVE  Continuous(Before(i)', wire'[i].at)
                        <=> Before(i)'.epoch = wire'[i].at.epoch
    BY DEF GapsShowRestarts, Continuous, Resync, Nowhere
  <2>1. i \in 1..n
    BY <1>1, <1>4
  <2> QED
    BY <1>4, <2>1 DEF GapsShowRestarts
<1> QED
  BY <1>5, <1>6

(* What the WebView takes was the last position before the events that     *)
(* are left.                                                               *)
LEMMA DisplayKeepsPositions ==
    ASSUME PositionInv, GapsShowRestarts, Display
    PROVE  PositionInv' /\ GapsShowRestarts'
<1>1. TakeWire /\ gen' = gen /\ seq' = seq /\ epoch' = epoch
  BY DEF Display, bridgeVars
<1>2. PICK n : n = Len(wire)
  OBVIOUS
<1>3. \E S : wire \in Seq(S)
  BY DEF PositionInv
<1>4. /\ \E S : wire' \in Seq(S)
      /\ n \in Nat \ {0} /\ DOMAIN wire = 1..n /\ DOMAIN wire' = 1..(n - 1)
      /\ \A i \in 1..(n - 1) : wire'[i] = wire[i + 1] /\ (Numbered(i)' <=> Numbered(i + 1))
      /\ \A i \in 1..n : Before(i)' = Before(i + 1)
      /\ Latest' = Latest
  BY <1>1, <1>2, <1>3, TailMovesIndices
<1>5. PositionInv'
  BY <1>1, <1>4 DEF PositionInv
<1>6. GapsShowRestarts'
  <2> SUFFICES ASSUME NEW i \in DOMAIN wire', Numbered(i)', wire'[i].ev # Resync,
                      Before(i)' # Nowhere
               PROVE  Continuous(Before(i)', wire'[i].at)
                        <=> Before(i)'.epoch = wire'[i].at.epoch
    BY DEF GapsShowRestarts, Continuous, Resync, Nowhere
  <2>1. i \in 1..(n - 1) /\ i \in 1..n /\ i + 1 \in DOMAIN wire
    BY <1>4
  <2>2. wire'[i] = wire[i + 1] /\ Numbered(i + 1) /\ Before(i)' = Before(i + 1)
    BY <1>4, <2>1
  <2> QED
    BY <2>1, <2>2 DEF GapsShowRestarts
<1> QED
  BY <1>5, <1>6

(* A new bridge starts with nothing numbered; what its predecessor         *)
(* numbered is still delivered.                                            *)
LEMMA RestartKeepsPositions ==
    ASSUME PositionInv, GapsShowRestarts, Restart
    PROVE  PositionInv' /\ GapsShowRestarts'
<1>1. wire' = wire /\ seen' = seen /\ gen' = 1 /\ seq' = 0 /\ epoch' = epoch + 1
  BY DEF Restart, webview
<1>2. Latest' = Latest
  BY <1>1 DEF Latest, Before, Numbered
<1>3. PositionInv'
  BY <1>1, <1>2 DEF PositionInv, Positions
<1>4. GapsShowRestarts'
  <2>1. ASSUME NEW i PROVE Before(i)' = Before(i) /\ (Numbered(i)' <=> Numbered(i))
    BY <1>1 DEF Before, Numbered
  <2> QED
    BY <1>1, <2>1 DEF GapsShowRestarts, Continuous, Resync, Nowhere
<1> QED
  BY <1>3, <1>4

(* Nothing else touches a position.                                        *)
LEMMA OthersKeepPositions ==
    ASSUME PositionInv, GapsShowRestarts, UNCHANGED <<wire, seen, gen, seq, epoch>>
    PROVE  PositionInv' /\ GapsShowRestarts'
<1>1. Latest' = Latest
  BY DEF Latest, Before, Numbered
<1>2. PositionInv'
  BY <1>1 DEF PositionInv
<1>3. GapsShowRestarts'
  <2>1. ASSUME NEW i PROVE Before(i)' = Before(i) /\ (Numbered(i)' <=> Numbered(i))
    BY DEF Before, Numbered
  <2> QED
    BY <2>1 DEF GapsShowRestarts, Continuous, Resync, Nowhere
<1> QED
  BY <1>2, <1>3

LEMMA InitPositions == Init => PositionInv /\ GapsShowRestarts
<1> SUFFICES ASSUME Init PROVE PositionInv /\ GapsShowRestarts
  OBVIOUS
<1>1. wire = <<>> /\ seen = Nowhere /\ gen = 1 /\ seq = 0 /\ epoch = 0 /\ Len(wire) = 0
  BY DEF Init
<1>2. Latest = Nowhere
  <2>1. 1 \in Nat \ {0} /\ \A m : ~LastBelow(m, 1)
    BY DEF LastBelow
  <2> QED
    BY <1>1, <2>1, BeforeAll DEF BeforeFacts, Latest
<1>3. PositionInv
  <2>1. <<>> \in Seq({})
    OBVIOUS
  <2> QED
    BY <1>1, <1>2, <2>1 DEF PositionInv, Positions, Nowhere
<1>4. GapsShowRestarts
  BY <1>1 DEF GapsShowRestarts
<1> QED
  BY <1>3, <1>4

LEMMA StepKeepsPositions ==
    PositionInv /\ GapsShowRestarts /\ [Next]_vars => PositionInv' /\ GapsShowRestarts'
<1> SUFFICES ASSUME PositionInv, GapsShowRestarts, [Next]_vars
             PROVE  PositionInv' /\ GapsShowRestarts'
  OBVIOUS
<1> USE DEF bridgeVars, webview
<1>1. CASE ProviderStep
  BY <1>1, OthersKeepPositions DEF ProviderStep, Publish, Edit, Delete, Change
<1>2. CASE SocketStep
  BY <1>2, OthersKeepPositions DEF SocketStep, Connect, Disconnect, Receive
<1>3. CASE ProcessorStep
  BY <1>3, OthersKeepPositions DEF ProcessorStep, TakeBatch, Broadcast
<1>4. CASE WorkerStep
  BY <1>4, OthersKeepPositions
     DEF WorkerStep, WorkerTakes, PersistSucceeds, PersistFails, AnnounceCommit, CheckEmpty,
         SwapLagged, RequestResync
<1>5. CASE BridgeStep
  <2>1. CASE Forward
    BY <2>1, ForwardKeepsPositions
  <2>2. CASE EmitEcho
    BY <2>2, EchoKeepsPositions
  <2>3. CASE HandOver
    BY <2>3, OthersKeepPositions DEF HandOver
  <2> QED
    BY <1>5, <2>1, <2>2, <2>3 DEF BridgeStep
<1>6. CASE Restart
  BY <1>6, RestartKeepsPositions
<1>7. CASE Display
  BY <1>7, DisplayKeepsPositions
<1>8. CASE UNCHANGED vars
  BY <1>8, OthersKeepPositions DEF vars
<1>9. CASE CopyStep \/ OtherWriterStep
  BY <1>9, OthersKeepPositions
     DEF CopyStep, ReceiveCopy, OtherWriterStep, SavePage, QuoteSaves, QuoteTells, SideEnds
<1> QED
  BY <1>1, <1>2, <1>3, <1>4, <1>5, <1>6, <1>7, <1>8, <1>9 DEF Next, BackendStep

(* A gap in the numbers the WebView receives means a replaced bridge, and  *)
(* a replaced bridge means a gap (stream_bridge.rs numbers what it         *)
(* forwards, recordPosition compares), whatever the queues hold and        *)
(* however often restart_streaming replaces the bridge.                    *)
THEOREM GapsMeanRestarts == Spec => []GapsShowRestarts
<1>1. Init => PositionInv /\ GapsShowRestarts
  BY InitPositions
<1>2. PositionInv /\ GapsShowRestarts /\ [Next]_vars => PositionInv' /\ GapsShowRestarts'
  BY StepKeepsPositions
<1> QED
  BY <1>1, <1>2, PTL DEF Spec

-----------------------------------------------------------------------------
(* The registry of the background lookups of quotes.                         *)

\* What an entry and a task can be.
QuoteJobs == [gen : 0..MaxQuoteTasks, owners : SUBSET Owners, handle : BOOLEAN]
QuoteTasks == [key : QuoteKeys, linked : BOOLEAN, aborted : BOOLEAN,
               pc : {"none", "wait", "lookup", "save", "negative", "drop", "done"}]

\* The types, those of the maps too.
RegistryTypes ==
    /\ jobs \in [QuoteKeys -> QuoteJobs]
    /\ tasks \in [Gens -> QuoteTasks]
    /\ accountJobs \in [Accounts -> SUBSET QuoteKeys]
    /\ sourceJobs \in [Accounts -> SUBSET QuoteKeys]
    /\ consumerJobs \in [Consumers -> SUBSET QuoteKeys]
    /\ lastGen \in 0..MaxQuoteTasks

\* An entry is that of its task, which its scheduler has either linked or has yet to link.
EntriesHaveTasks ==
    \A k \in QuoteKeys :
        IF jobs[k].gen = 0 THEN jobs[k] = NoJob
        ELSE LET t == tasks[jobs[k].gen] IN
             t.key = k /\ t.pc # "none" /\ (jobs[k].handle <=> t.linked)

\* A generation that is still to be given has no task.
NextTasksAreFree == \A g \in Gens : g > lastGen => tasks[g].pc = "none"

\* All of it.
RegistryInv ==
    RegistryTypes /\ QuoteTypeOK /\ EntriesHaveTasks /\ NextTasksAreFree /\ NoOrphanQuoteTask

\* The entry and the task of nothing, and how the owners are told apart.
LEMMA NothingOfAQuote ==
    /\ NoJob \in QuoteJobs /\ NoJob.gen = 0 /\ NoJob.owners = {} /\ NoJob.handle = FALSE
    /\ NoTask \in QuoteTasks /\ NoTask.linked = FALSE /\ NoTask.aborted = FALSE
    /\ NoTask.pc = "none"
<1>1. NoTask.key \in QuoteKeys
  BY QuoteAssumption DEF NoTask
<1>2. PICK z \in 0..MaxQuoteTasks : z = 0
  BY QuoteAssumption
<1>3. PICK no \in BOOLEAN : no = FALSE
  OBVIOUS
<1>4. NoJob = [gen |-> z, owners |-> {}, handle |-> no]
  BY <1>2, <1>3 DEF NoJob
<1>5. NoJob \in QuoteJobs
  BY <1>4 DEF QuoteJobs
<1>6. NoTask \in QuoteTasks
  BY <1>1 DEF NoTask, QuoteTasks
<1> QED
  BY <1>5, <1>6 DEF NoJob, NoTask

LEMMA OwnersAre ==
    /\ \A a \in Accounts : a \in Owners /\ a \notin Consumers
    /\ \A c \in Consumers : c \in Owners /\ c \notin Accounts
    /\ \A k \in QuoteKeys : SourceOf[k] \in Accounts
    /\ MaxQuoteTasks \in Nat /\ \A g \in Gens : g \in Nat /\ g # 0
BY QuoteAssumption DEF Owners, Accounts, Gens

\* A task goes on, with its entry left alone.
LEMMA TaskGoesOn ==
    ASSUME RegistryInv, NEW g \in Gens, tasks[g].pc \notin {"none", "done"},
           NEW next \in {"lookup", "save", "negative", "drop"},
           tasks' = [tasks EXCEPT ![g].pc = next],
           UNCHANGED <<jobs, accountJobs, sourceJobs, consumerJobs, lastGen>>
    PROVE  RegistryInv'
<1>0. RegistryTypes /\ EntriesHaveTasks /\ NextTasksAreFree /\ NoOrphanQuoteTask
  BY DEF RegistryInv
<1>1. tasks[g] \in QuoteTasks
  BY <1>0 DEF RegistryTypes
<1>2. PICK t \in QuoteTasks : t = [tasks[g] EXCEPT !.pc = next]
  <2>1. [tasks[g] EXCEPT !.pc = next] \in QuoteTasks
    BY <1>1 DEF QuoteTasks
  <2> QED
    BY <2>1
<1>3. /\ t.pc = next /\ t.key = tasks[g].key /\ t.linked = tasks[g].linked
      /\ t.aborted = tasks[g].aborted
  BY <1>1, <1>2 DEF QuoteTasks
<1>4. /\ tasks' \in [Gens -> QuoteTasks] /\ tasks'[g] = t
      /\ \A h \in Gens : h # g => tasks'[h] = tasks[h]
  BY <1>0, <1>2 DEF RegistryTypes
<1>5. RegistryTypes'
  BY <1>0, <1>4 DEF RegistryTypes
<1>6. QuoteTypeOK'
  BY DEF RegistryInv, QuoteTypeOK, Present
<1>7. EntriesHaveTasks'
  <2>1. \A h \in Gens : /\ tasks'[h].key = tasks[h].key /\ tasks'[h].linked = tasks[h].linked
                        /\ tasks[h].pc # "none" => tasks'[h].pc # "none"
    BY <1>3, <1>4
  <2>2. \A k \in QuoteKeys : jobs[k].gen # 0 => jobs[k].gen \in Gens
    BY <1>0, OwnersAre DEF RegistryTypes, QuoteJobs, Gens
  <2> QED
    BY <1>0, <2>1, <2>2 DEF EntriesHaveTasks
<1>8. NextTasksAreFree'
  BY <1>0, <1>4 DEF NextTasksAreFree
<1>9. NoOrphanQuoteTask'
  BY <1>0, <1>3, <1>4 DEF NoOrphanQuoteTask
<1> QED
  BY <1>5, <1>6, <1>7, <1>8, <1>9 DEF RegistryInv

\* Every step of a task but the storing of its handle and its end.
LEMMA TaskStepsKeep ==
    ASSUME RegistryInv, NEW g \in Gens,
           Acquire(g) \/ Lookup(g) \/ Save(g) \/ RememberNegative(g) \/ TaskAborted(g)
    PROVE  RegistryInv'
<1>1. CASE Acquire(g)
  BY <1>1, TaskGoesOn DEF Acquire
<1>2. CASE Lookup(g)
  <2>1. PICK next \in {"save", "negative"} : tasks' = [tasks EXCEPT ![g].pc = next]
    BY <1>2 DEF Lookup
  <2> QED
    BY <1>2, <2>1, TaskGoesOn DEF Lookup
<1>3. CASE Save(g)
  BY <1>3, TaskGoesOn DEF Save
<1>4. CASE RememberNegative(g)
  BY <1>4, TaskGoesOn DEF RememberNegative
<1>5. CASE TaskAborted(g)
  BY <1>5, TaskGoesOn DEF TaskAborted
<1> QED
  BY <1>1, <1>2, <1>3, <1>4, <1>5

\* Only what concerns neither entries nor tasks changes.
LEMMA RegistryStands ==
    ASSUME RegistryInv, UNCHANGED <<jobs, accountJobs, sourceJobs, consumerJobs, lastGen, tasks>>
    PROVE  RegistryInv'
BY DEF RegistryInv, RegistryTypes, QuoteTypeOK, Present, EntriesHaveTasks, NextTasksAreFree,
       NoOrphanQuoteTask

\* The handle of a task is stored, or the task that has lost its entry aborted.
LEMMA LinkKeeps ==
    ASSUME RegistryInv, NEW g \in Gens, Link(g)
    PROVE  RegistryInv'
<1>0. RegistryTypes /\ QuoteTypeOK /\ EntriesHaveTasks /\ NextTasksAreFree /\ NoOrphanQuoteTask
  BY DEF RegistryInv
<1> DEFINE k == tasks[g].key
           active == jobs[k].gen = g /\ jobs[k].owners # {}
<1>1. tasks[g] \in QuoteTasks /\ k \in QuoteKeys /\ g # 0
  BY <1>0, OwnersAre DEF RegistryTypes, QuoteTasks
<1>2. active <=> jobs[k].gen = g
  BY <1>0, <1>1 DEF QuoteTypeOK, Present
<1>3. PICK yes \in BOOLEAN : yes = TRUE
  OBVIOUS
<1>4. PICK gone \in BOOLEAN : gone = ~active
  OBVIOUS
<1>5. PICK t \in QuoteTasks : t = [tasks[g] EXCEPT !.linked = yes, !.aborted = gone]
  <2>1. [tasks[g] EXCEPT !.linked = yes, !.aborted = gone] \in QuoteTasks
    BY <1>1 DEF QuoteTasks
  <2> QED
    BY <2>1
<1>6. t.pc = tasks[g].pc /\ t.key = k /\ t.linked /\ (t.aborted <=> gone)
  BY <1>1, <1>3, <1>5 DEF QuoteTasks
<1>7. tasks[g].pc # "none" /\ ~tasks[g].linked
  BY DEF Link
<1>8. tasks' = [tasks EXCEPT ![g] = t]
  <2>1. tasks' = [tasks EXCEPT ![g].linked = yes, ![g].aborted = gone]
    BY <1>3, <1>4 DEF Link
  <2> QED
    BY <1>0, <1>5, <2>1 DEF RegistryTypes
<1>9. /\ tasks' \in [Gens -> QuoteTasks] /\ tasks'[g] = t
      /\ \A h \in Gens : h # g => tasks'[h] = tasks[h]
  BY <1>0, <1>8 DEF RegistryTypes
<1>10. PICK j \in QuoteJobs : j = [jobs[k] EXCEPT !.handle = yes]
  <2>1. [jobs[k] EXCEPT !.handle = yes] \in QuoteJobs
    BY <1>0, <1>1 DEF RegistryTypes, QuoteJobs
  <2> QED
    BY <2>1
<1>11. j.gen = jobs[k].gen /\ j.owners = jobs[k].owners /\ j.handle
  BY <1>0, <1>1, <1>3, <1>10 DEF RegistryTypes, QuoteJobs
<1>12. jobs' = IF active THEN [jobs EXCEPT ![k] = j] ELSE jobs
  <2>1. jobs' = IF active THEN [jobs EXCEPT ![k].handle = yes] ELSE jobs
    BY <1>3 DEF Link
  <2> QED
    BY <1>0, <1>1, <1>10, <2>1 DEF RegistryTypes
<1> HIDE DEF k, active
<1>13. /\ jobs' \in [QuoteKeys -> QuoteJobs]
       /\ \A q \in QuoteKeys : /\ jobs'[q].gen = jobs[q].gen /\ jobs'[q].owners = jobs[q].owners
                               /\ q # k => jobs'[q] = jobs[q]
       /\ IF active THEN jobs'[k].handle ELSE jobs' = jobs
  BY <1>0, <1>1, <1>11, <1>12 DEF RegistryTypes
<1>14. UNCHANGED <<accountJobs, sourceJobs, consumerJobs, lastGen>>
  BY DEF Link
<1>15. RegistryTypes'
  BY <1>0, <1>9, <1>13, <1>14 DEF RegistryTypes
<1>16. QuoteTypeOK'
  <2>1. Present' = Present
    BY <1>13 DEF Present
  <2> QED
    BY <1>0, <1>13, <1>14, <2>1 DEF QuoteTypeOK, Present
<1>17. EntriesHaveTasks'
  <2> SUFFICES ASSUME NEW q \in QuoteKeys
               PROVE  IF jobs'[q].gen = 0 THEN jobs'[q] = NoJob
                      ELSE /\ tasks'[jobs'[q].gen].key = q /\ tasks'[jobs'[q].gen].pc # "none"
                           /\ jobs'[q].handle <=> tasks'[jobs'[q].gen].linked
    BY DEF EntriesHaveTasks
  <2>1. CASE jobs[q].gen = 0
    <3>1. q # k \/ ~active
      BY <1>1, <1>2, <2>1 DEF active
    <3> QED
      BY <1>0, <1>13, <2>1, <3>1 DEF EntriesHaveTasks
  <2>2. CASE jobs[q].gen # 0
    <3>1. jobs[q].gen \in Gens
      BY <1>0, <2>2 DEF RegistryTypes, QuoteJobs, Gens
    <3>2. /\ tasks[jobs[q].gen].key = q /\ tasks[jobs[q].gen].pc # "none"
          /\ jobs[q].handle <=> tasks[jobs[q].gen].linked
      BY <1>0, <2>2 DEF EntriesHaveTasks
    <3>3. CASE jobs[q].gen = g
      BY <1>2, <1>6, <1>9, <1>13, <2>2, <3>2, <3>3 DEF k
    <3>4. CASE jobs[q].gen # g
      <4>1. q # k \/ ~active
        BY <1>2, <3>4
      <4>2. jobs'[q] = jobs[q]
        BY <1>13, <4>1
      <4> QED
        BY <1>9, <2>2, <3>1, <3>2, <3>4, <4>2
    <3> QED
      BY <3>3, <3>4
  <2> QED
    BY <2>1, <2>2
<1>18. NextTasksAreFree'
  BY <1>0, <1>6, <1>9, <1>14 DEF NextTasksAreFree
<1>19. NoOrphanQuoteTask'
  <2> SUFFICES ASSUME NEW h \in Gens
               PROVE  /\ tasks'[h].linked /\ ~tasks'[h].aborted /\ tasks'[h].pc \notin {"none", "done"}
                         => jobs'[tasks'[h].key].gen = h /\ jobs'[tasks'[h].key].handle
                      /\ jobs'[tasks'[h].key].gen = h /\ tasks'[h].pc # "none"
                         => tasks'[h].pc # "done" /\ ~tasks'[h].aborted
    BY DEF NoOrphanQuoteTask
  <2>1. CASE h = g
    <3>1. /\ tasks'[h].key = k /\ tasks'[h].pc = tasks[g].pc
          /\ tasks'[h].aborted <=> ~active
      BY <1>4, <1>6, <1>9, <2>1
    <3>2. jobs'[k].gen = jobs[k].gen
      BY <1>1, <1>13
    <3>3. active => jobs'[k].handle
      BY <1>13
    <3>4. jobs[k].gen = g => tasks[g].pc # "done"
      BY <1>0, <1>7 DEF NoOrphanQuoteTask, k
    <3> QED
      BY <1>2, <2>1, <3>1, <3>2, <3>3, <3>4
  <2>2. CASE h # g
    <3>1. tasks'[h] = tasks[h] /\ tasks[h].key \in QuoteKeys
      BY <1>0, <1>9, <2>2 DEF RegistryTypes, QuoteTasks
    <3>2. jobs[tasks[h].key].gen = h => jobs'[tasks[h].key] = jobs[tasks[h].key]
      BY <1>2, <1>13, <2>2, <3>1
    <3> QED
      BY <1>0, <1>13, <3>1, <3>2 DEF NoOrphanQuoteTask
  <2> QED
    BY <2>1, <2>2
<1> QED
  BY <1>15, <1>16, <1>17, <1>18, <1>19 DEF RegistryInv

\* Aborting changes a task in nothing else, and only one whose entry is among the keys.
LEMMA AbortedTasks ==
    ASSUME RegistryInv, NEW keys \in SUBSET QuoteKeys, Aborting(keys)
    PROVE  /\ tasks' \in [Gens -> QuoteTasks]
           /\ \A h \in Gens : /\ tasks'[h].key = tasks[h].key /\ tasks'[h].pc = tasks[h].pc
                              /\ tasks'[h].linked = tasks[h].linked
                              /\ tasks'[h].aborted <=>
                                   \/ tasks[h].aborted
                                   \/ /\ tasks[h].key \in keys /\ jobs[tasks[h].key].gen = h
                                      /\ jobs[tasks[h].key].handle
<1>0. RegistryTypes
  BY DEF RegistryInv
<1>1. PICK yes \in BOOLEAN : yes = TRUE
  OBVIOUS
<1> DEFINE hit(h) == tasks[h].key \in keys /\ jobs[tasks[h].key].gen = h /\ jobs[tasks[h].key].handle
           cut(h) == [tasks[h] EXCEPT !.aborted = yes]
<1>2. tasks' = [h \in Gens |-> IF hit(h) THEN cut(h) ELSE tasks[h]]
  BY <1>1 DEF Aborting
<1>3. ASSUME NEW h \in Gens
      PROVE  /\ cut(h) \in QuoteTasks /\ cut(h).key = tasks[h].key /\ cut(h).pc = tasks[h].pc
             /\ cut(h).linked = tasks[h].linked /\ cut(h).aborted /\ tasks[h] \in QuoteTasks
  <2>1. tasks[h] \in QuoteTasks
    BY <1>0, <1>3 DEF RegistryTypes
  <2> QED
    BY <1>1, <2>1 DEF QuoteTasks
<1> HIDE DEF cut
<1>4. \A h \in Gens : tasks'[h] = IF hit(h) THEN cut(h) ELSE tasks[h]
  BY <1>2
<1>5. tasks' \in [Gens -> QuoteTasks]
  BY <1>2, <1>3
<1> QED
  BY <1>3, <1>4, <1>5

\* Entries are removed, and their tasks aborted: what stays are entries and tasks that agree.
LEMMA JobsEnd ==
    ASSUME RegistryInv, NEW keys \in SUBSET QuoteKeys, Aborting(keys),
           jobs' \in [QuoteKeys -> QuoteJobs], lastGen' = lastGen,
           \A k \in keys : jobs'[k] = NoJob,
           \A k \in QuoteKeys \ keys : /\ jobs'[k].gen = jobs[k].gen
                                       /\ jobs'[k].handle = jobs[k].handle
                                       /\ jobs[k].gen = 0 => jobs'[k] = NoJob
    PROVE  /\ tasks' \in [Gens -> QuoteTasks]
           /\ EntriesHaveTasks' /\ NextTasksAreFree' /\ NoOrphanQuoteTask'
<1>0. RegistryTypes /\ EntriesHaveTasks /\ NextTasksAreFree /\ NoOrphanQuoteTask
  BY DEF RegistryInv
<1>1. /\ tasks' \in [Gens -> QuoteTasks]
      /\ \A h \in Gens : /\ tasks'[h].key = tasks[h].key /\ tasks'[h].pc = tasks[h].pc
                         /\ tasks'[h].linked = tasks[h].linked
                         /\ tasks'[h].aborted <=>
                              \/ tasks[h].aborted
                              \/ /\ tasks[h].key \in keys /\ jobs[tasks[h].key].gen = h
                                 /\ jobs[tasks[h].key].handle
  BY AbortedTasks
<1>2. \A h \in Gens : tasks[h].key \in QuoteKeys /\ h # 0
  BY <1>0, OwnersAre DEF RegistryTypes, QuoteTasks
<1>3. EntriesHaveTasks'
  <2> SUFFICES ASSUME NEW q \in QuoteKeys
               PROVE  IF jobs'[q].gen = 0 THEN jobs'[q] = NoJob
                      ELSE /\ tasks'[jobs'[q].gen].key = q /\ tasks'[jobs'[q].gen].pc # "none"
                           /\ jobs'[q].handle <=> tasks'[jobs'[q].gen].linked
    BY DEF EntriesHaveTasks
  <2>1. CASE q \in keys \/ jobs[q].gen = 0
    BY <2>1, NothingOfAQuote
  <2>2. CASE q \notin keys /\ jobs[q].gen # 0
    <3>1. jobs[q].gen \in Gens
      BY <1>0, <2>2 DEF RegistryTypes, QuoteJobs, Gens
    <3>2. /\ tasks[jobs[q].gen].key = q /\ tasks[jobs[q].gen].pc # "none"
          /\ jobs[q].handle <=> tasks[jobs[q].gen].linked
      BY <1>0, <2>2 DEF EntriesHaveTasks
    <3> QED
      BY <1>1, <2>2, <3>1, <3>2
  <2> QED
    BY <2>1, <2>2
<1>4. NextTasksAreFree'
  BY <1>0, <1>1 DEF NextTasksAreFree
<1>5. NoOrphanQuoteTask'
  <2> SUFFICES ASSUME NEW h \in Gens
               PROVE  /\ tasks'[h].linked /\ ~tasks'[h].aborted /\ tasks'[h].pc \notin {"none", "done"}
                         => jobs'[tasks'[h].key].gen = h /\ jobs'[tasks'[h].key].handle
                      /\ jobs'[tasks'[h].key].gen = h /\ tasks'[h].pc # "none"
                         => tasks'[h].pc # "done" /\ ~tasks'[h].aborted
    BY DEF NoOrphanQuoteTask
  <2>1. /\ tasks[h].linked /\ ~tasks[h].aborted /\ tasks[h].pc \notin {"none", "done"}
           => jobs[tasks[h].key].gen = h /\ jobs[tasks[h].key].handle
        /\ jobs[tasks[h].key].gen = h /\ tasks[h].pc # "none"
           => tasks[h].pc # "done" /\ ~tasks[h].aborted
    BY <1>0 DEF NoOrphanQuoteTask
  <2>2. CASE tasks[h].key \in keys
    <3>1. jobs'[tasks[h].key].gen # h
      BY <1>2, <2>2, NothingOfAQuote
    <3> QED
      BY <1>1, <2>1, <2>2, <3>1
  <2>3. CASE tasks[h].key \notin keys
    BY <1>1, <1>2, <2>1, <2>3
  <2> QED
    BY <2>2, <2>3
<1> QED
  BY <1>1, <1>3, <1>4, <1>5

\* Without the entries the maps are those of the entries that are left.
LEMMA WithoutIs ==
    ASSUME RegistryInv, NEW keys \in SUBSET QuoteKeys, Without(keys), lastGen' = lastGen
    PROVE  /\ jobs' \in [QuoteKeys -> QuoteJobs]
           /\ \A k \in QuoteKeys : jobs'[k] = IF k \in keys THEN NoJob ELSE jobs[k]
           /\ sourceJobs' \in [Accounts -> SUBSET QuoteKeys]
           /\ accountJobs' \in [Accounts -> SUBSET QuoteKeys]
           /\ consumerJobs' \in [Consumers -> SUBSET QuoteKeys]
           /\ QuoteTypeOK'
<1>0. RegistryTypes /\ QuoteTypeOK
  BY DEF RegistryInv
<1>1. /\ jobs' \in [QuoteKeys -> QuoteJobs]
      /\ \A k \in QuoteKeys : jobs'[k] = IF k \in keys THEN NoJob ELSE jobs[k]
  BY <1>0, NothingOfAQuote DEF Without, RegistryTypes
<1>2. /\ sourceJobs' \in [Accounts -> SUBSET QuoteKeys]
      /\ \A a \in Accounts : sourceJobs'[a] = sourceJobs[a] \ keys
  BY <1>0 DEF Without, RegistryTypes
<1>3. /\ accountJobs' \in [Accounts -> SUBSET QuoteKeys]
      /\ \A a \in Accounts : accountJobs'[a] = accountJobs[a] \ keys
  BY <1>0 DEF Without, RegistryTypes
<1>4. /\ consumerJobs' \in [Consumers -> SUBSET QuoteKeys]
      /\ \A c \in Consumers : consumerJobs'[c] = consumerJobs[c] \ keys
  BY <1>0 DEF Without, RegistryTypes
<1>5. Present' = Present \ keys /\ Present \subseteq QuoteKeys
  BY <1>1, NothingOfAQuote DEF Present
<1>6. \A k \in QuoteKeys : jobs'[k].gen \in 0..lastGen' /\ jobs'[k].owners \subseteq Owners
  BY <1>0, <1>1, NothingOfAQuote DEF QuoteTypeOK, RegistryTypes
<1>7. \A k \in Present' : jobs'[k] = jobs[k] /\ k \in Present
  BY <1>1, <1>5
<1>8. \A k \in Present' : jobs'[k].owners # {}
  BY <1>0, <1>7 DEF QuoteTypeOK
<1>9. \A a \in Accounts : sourceJobs'[a] = {k \in Present' : SourceOf[k] = a}
  BY <1>0, <1>2, <1>5 DEF QuoteTypeOK
<1>10. \A a \in Accounts : accountJobs'[a] = {k \in Present' : a \in jobs'[k].owners}
  BY <1>0, <1>3, <1>5, <1>7 DEF QuoteTypeOK
<1>11. \A c \in Consumers : consumerJobs'[c] = {k \in Present' : c \in jobs'[k].owners}
  BY <1>0, <1>4, <1>5, <1>7 DEF QuoteTypeOK
<1>12. QuoteTypeOK'
  BY <1>6, <1>8, <1>9, <1>10, <1>11 DEF QuoteTypeOK
<1> QED
  BY <1>1, <1>2, <1>3, <1>4, <1>12

\* A logout and the end of all operations.
LEMMA CancelKeeps ==
    ASSUME RegistryInv, NEW keys \in SUBSET QuoteKeys, Without(keys), Aborting(keys),
           lastGen' = lastGen
    PROVE  RegistryInv'
<1>0. RegistryTypes /\ EntriesHaveTasks
  BY DEF RegistryInv
<1>1. /\ jobs' \in [QuoteKeys -> QuoteJobs]
      /\ \A k \in QuoteKeys : jobs'[k] = IF k \in keys THEN NoJob ELSE jobs[k]
      /\ sourceJobs' \in [Accounts -> SUBSET QuoteKeys]
      /\ accountJobs' \in [Accounts -> SUBSET QuoteKeys]
      /\ consumerJobs' \in [Consumers -> SUBSET QuoteKeys]
      /\ QuoteTypeOK'
  BY WithoutIs
<1>2. \A k \in QuoteKeys : jobs[k].gen = 0 => jobs[k] = NoJob
  BY <1>0 DEF EntriesHaveTasks
<1>3. /\ tasks' \in [Gens -> QuoteTasks]
      /\ EntriesHaveTasks' /\ NextTasksAreFree' /\ NoOrphanQuoteTask'
  BY <1>1, <1>2, JobsEnd
<1>4. RegistryTypes'
  BY <1>0, <1>1, <1>3 DEF RegistryTypes
<1> QED
  BY <1>1, <1>3, <1>4 DEF RegistryInv

LEMMA CancelConsumerKeeps ==
    ASSUME RegistryInv, NEW c \in Consumers, CancelConsumer(c)
    PROVE  RegistryInv'
<1>0. RegistryTypes /\ QuoteTypeOK /\ EntriesHaveTasks
  BY DEF RegistryInv
<1> DEFINE keys == consumerJobs[c]
           over == {k \in keys : jobs[k].owners = {c}}
           less(k) == [jobs[k] EXCEPT !.owners = @ \ {c}]
<1>1. /\ jobs' = [k \in QuoteKeys |-> IF k \in over THEN NoJob
                                       ELSE IF k \in keys THEN less(k) ELSE jobs[k]]
      /\ sourceJobs' = [a \in Accounts |-> sourceJobs[a] \ over]
      /\ consumerJobs' = [consumerJobs EXCEPT ![c] = {}]
      /\ Aborting(over)
      /\ UNCHANGED <<accountJobs, lastGen>>
  BY DEF CancelConsumer
<1>2. keys = {k \in Present : c \in jobs[k].owners} /\ keys \subseteq QuoteKeys
  BY <1>0 DEF QuoteTypeOK, Present
<1>3. \A k \in QuoteKeys : /\ less(k) \in QuoteJobs /\ less(k).gen = jobs[k].gen
                           /\ less(k).handle = jobs[k].handle
                           /\ less(k).owners = jobs[k].owners \ {c}
  <2> TAKE k \in QuoteKeys
  <2>1. jobs[k] \in QuoteJobs
    BY <1>0 DEF RegistryTypes
  <2> QED
    BY <2>1 DEF QuoteJobs
<1>4. over \in SUBSET QuoteKeys /\ over \subseteq keys
  BY <1>2
<1> HIDE DEF less
<1>5. /\ jobs' \in [QuoteKeys -> QuoteJobs]
      /\ \A k \in QuoteKeys : jobs'[k] = IF k \in over THEN NoJob
                                         ELSE IF k \in keys THEN less(k) ELSE jobs[k]
  BY <1>0, <1>1, <1>3, NothingOfAQuote DEF RegistryTypes
<1>6. \A k \in QuoteKeys : /\ jobs[k].gen = 0 => jobs[k] = NoJob
                           /\ k \in keys => jobs[k].gen # 0
  BY <1>0, <1>2 DEF EntriesHaveTasks, Present
<1>7. \A k \in over : jobs'[k] = NoJob
  BY <1>4, <1>5
<1>8. \A k \in QuoteKeys \ over : /\ jobs'[k].gen = jobs[k].gen
                                  /\ jobs'[k].handle = jobs[k].handle
                                  /\ jobs[k].gen = 0 => jobs'[k] = NoJob
                                  /\ jobs'[k].owners = jobs[k].owners \ {c}
  <2> TAKE k \in QuoteKeys \ over
  <2>1. CASE k \in keys
    BY <1>3, <1>5, <1>6, <2>1
  <2>2. CASE k \notin keys
    <3>1. jobs'[k] = jobs[k]
      BY <1>5, <2>2
    <3>2. c \notin jobs[k].owners
      BY <1>2, <1>6, <2>2, NothingOfAQuote DEF Present
    <3> QED
      BY <1>6, <3>1, <3>2
  <2> QED
    BY <2>1, <2>2
<1>9. /\ tasks' \in [Gens -> QuoteTasks]
      /\ EntriesHaveTasks' /\ NextTasksAreFree' /\ NoOrphanQuoteTask'
  <2> HIDE DEF over
  <2> QED
    BY <1>1, <1>4, <1>5, <1>7, <1>8, JobsEnd
<1>10. /\ sourceJobs' \in [Accounts -> SUBSET QuoteKeys]
       /\ \A a \in Accounts : sourceJobs'[a] = sourceJobs[a] \ over
       /\ consumerJobs' \in [Consumers -> SUBSET QuoteKeys] /\ consumerJobs'[c] = {}
       /\ \A d \in Consumers : d # c => consumerJobs'[d] = consumerJobs[d]
  BY <1>0, <1>1 DEF RegistryTypes
<1>11. RegistryTypes'
  BY <1>0, <1>1, <1>5, <1>9, <1>10 DEF RegistryTypes
<1>12. Present' = Present \ over /\ Present \subseteq QuoteKeys
  BY <1>4, <1>7, <1>8, NothingOfAQuote DEF Present
<1>13. \A k \in QuoteKeys : jobs'[k].gen \in 0..lastGen' /\ jobs'[k].owners \subseteq Owners
  BY <1>0, <1>1, <1>7, <1>8, NothingOfAQuote DEF QuoteTypeOK, RegistryTypes
<1>14. \A k \in Present' : jobs'[k].owners # {}
  <2> TAKE k \in Present'
  <2>1. k \in Present /\ k \notin over /\ jobs[k].owners # {}
    BY <1>0, <1>12 DEF QuoteTypeOK
  <2>2. jobs[k].owners # {c}
    BY <1>2, <2>1
  <2> QED
    BY <1>8, <1>12, <2>1, <2>2
<1>15. \A a \in Accounts : sourceJobs'[a] = {k \in Present' : SourceOf[k] = a}
  BY <1>0, <1>10, <1>12 DEF QuoteTypeOK
<1>16. \A a \in Accounts : accountJobs'[a] = {k \in Present' : a \in jobs'[k].owners}
  <2> TAKE a \in Accounts
  <2>1. a # c /\ \A k \in over : a \notin jobs[k].owners
    BY OwnersAre
  <2>2. accountJobs[a] = {k \in Present : a \in jobs[k].owners}
    BY <1>0 DEF QuoteTypeOK
  <2>3. \A k \in QuoteKeys \ over : a \in jobs'[k].owners <=> a \in jobs[k].owners
    BY <1>8, <2>1
  <2> HIDE DEF over
  <2> QED
    BY <1>1, <1>12, <2>1, <2>2, <2>3
<1>17. \A d \in Consumers : consumerJobs'[d] = {k \in Present' : d \in jobs'[k].owners}
  <2> TAKE d \in Consumers
  <2>1. CASE d = c
    BY <1>8, <1>10, <1>12, <2>1
  <2>2. CASE d # c
    <3>1. \A k \in over : d \notin jobs[k].owners
      BY <2>2
    <3>2. consumerJobs[d] = {k \in Present : d \in jobs[k].owners}
      BY <1>0 DEF QuoteTypeOK
    <3>3. \A k \in QuoteKeys \ over : d \in jobs'[k].owners <=> d \in jobs[k].owners
      BY <1>8, <2>2
    <3> HIDE DEF over
    <3> QED
      BY <1>10, <1>12, <2>2, <3>1, <3>2, <3>3
  <2> QED
    BY <2>1, <2>2
<1>18. QuoteTypeOK'
  BY <1>13, <1>14, <1>15, <1>16, <1>17 DEF QuoteTypeOK
<1> QED
  BY <1>9, <1>11, <1>18 DEF RegistryInv

\* The task is dropped, with its entry if that is still this task's.
LEMMA DropGuardKeeps ==
    ASSUME RegistryInv, NEW g \in Gens, DropGuard(g)
    PROVE  RegistryInv'
<1>0. RegistryTypes /\ EntriesHaveTasks /\ NextTasksAreFree /\ NoOrphanQuoteTask
  BY DEF RegistryInv
<1> DEFINE k == tasks[g].key
<1>1. tasks[g] \in QuoteTasks /\ k \in QuoteKeys /\ g # 0 /\ tasks[g].pc = "drop"
  BY <1>0, OwnersAre DEF RegistryTypes, QuoteTasks, DropGuard
<1>2. PICK keys \in SUBSET QuoteKeys : keys = IF jobs[k].gen = g THEN {k} ELSE {}
  BY <1>1
<1>3. Without(keys) /\ lastGen' = lastGen
  BY <1>2 DEF DropGuard
<1>4. /\ jobs' \in [QuoteKeys -> QuoteJobs]
      /\ \A q \in QuoteKeys : jobs'[q] = IF q \in keys THEN NoJob ELSE jobs[q]
      /\ sourceJobs' \in [Accounts -> SUBSET QuoteKeys]
      /\ accountJobs' \in [Accounts -> SUBSET QuoteKeys]
      /\ consumerJobs' \in [Consumers -> SUBSET QuoteKeys]
      /\ QuoteTypeOK'
  BY <1>3, WithoutIs
<1>5. PICK t \in QuoteTasks : t = [tasks[g] EXCEPT !.pc = "done"]
  <2>1. PICK pc \in {"done"} : pc = "done"
    OBVIOUS
  <2>2. [tasks[g] EXCEPT !.pc = pc] \in QuoteTasks
    BY <1>1 DEF QuoteTasks
  <2> QED
    BY <2>1, <2>2
<1>6. /\ t.pc = "done" /\ t.key = k /\ t.linked = tasks[g].linked
      /\ t.aborted = tasks[g].aborted
  BY <1>1, <1>5 DEF QuoteTasks
<1>7. tasks' = [tasks EXCEPT ![g] = t]
  BY <1>0, <1>5 DEF DropGuard, RegistryTypes
<1>8. /\ tasks' \in [Gens -> QuoteTasks] /\ tasks'[g] = t
      /\ \A h \in Gens : h # g => tasks'[h] = tasks[h]
  BY <1>0, <1>7 DEF RegistryTypes
<1> HIDE DEF k
<1>9. \A q \in QuoteKeys : jobs[q].gen = g => q = k
  BY <1>0, <1>1 DEF EntriesHaveTasks, k
<1>10. \A q \in QuoteKeys : jobs'[q].gen # g
  BY <1>1, <1>2, <1>4, <1>9, NothingOfAQuote
<1>11. \A q \in QuoteKeys : jobs'[q] # NoJob => jobs'[q] = jobs[q]
  BY <1>4
<1>12. RegistryTypes'
  BY <1>0, <1>3, <1>4, <1>8 DEF RegistryTypes
<1>13. EntriesHaveTasks'
  <2> SUFFICES ASSUME NEW q \in QuoteKeys, jobs'[q] # NoJob
               PROVE  /\ jobs'[q].gen # 0
                      /\ tasks'[jobs'[q].gen].key = q /\ tasks'[jobs'[q].gen].pc # "none"
                      /\ jobs'[q].handle <=> tasks'[jobs'[q].gen].linked
    BY NothingOfAQuote DEF EntriesHaveTasks
  <2>1. jobs'[q] = jobs[q] /\ jobs[q].gen # 0 /\ jobs[q].gen # g
    BY <1>0, <1>10, <1>11 DEF EntriesHaveTasks
  <2>2. jobs[q].gen \in Gens
    BY <1>0, <2>1 DEF RegistryTypes, QuoteJobs, Gens
  <2>3. tasks'[jobs[q].gen] = tasks[jobs[q].gen]
    BY <1>8, <2>1, <2>2
  <2> QED
    BY <1>0, <2>1, <2>3 DEF EntriesHaveTasks
<1>14. NextTasksAreFree'
  BY <1>0, <1>1, <1>3, <1>8 DEF NextTasksAreFree
<1>15. NoOrphanQuoteTask'
  <2> SUFFICES ASSUME NEW h \in Gens
               PROVE  /\ tasks'[h].linked /\ ~tasks'[h].aborted /\ tasks'[h].pc \notin {"none", "done"}
                         => jobs'[tasks'[h].key].gen = h /\ jobs'[tasks'[h].key].handle
                      /\ jobs'[tasks'[h].key].gen = h /\ tasks'[h].pc # "none"
                         => tasks'[h].pc # "done" /\ ~tasks'[h].aborted
    BY DEF NoOrphanQuoteTask
  <2>1. CASE h = g
    BY <1>1, <1>6, <1>8, <1>10, <2>1
  <2>2. CASE h # g
    <3>1. tasks'[h] = tasks[h] /\ tasks[h].key \in QuoteKeys /\ h # 0
      BY <1>0, <1>8, <2>2, OwnersAre DEF RegistryTypes, QuoteTasks
    <3>2. jobs[tasks[h].key].gen = h => jobs'[tasks[h].key] = jobs[tasks[h].key]
      BY <1>2, <1>4, <1>9, <2>2, <3>1
    <3>3. jobs'[tasks[h].key].gen = h => jobs'[tasks[h].key] = jobs[tasks[h].key]
      BY <1>11, <3>1, NothingOfAQuote
    <3> QED
      BY <1>0, <3>1, <3>2, <3>3 DEF NoOrphanQuoteTask
  <2> QED
    BY <2>1, <2>2
<1> QED
  BY <1>4, <1>12, <1>13, <1>14, <1>15 DEF RegistryInv

\* The maps after one more owner of an entry, which is there or new.
OwnerIsEntered(k, o) ==
    /\ accountJobs' = IF o \in Accounts THEN [accountJobs EXCEPT ![o] = @ \union {k}]
                      ELSE accountJobs
    /\ consumerJobs' = IF o \in Consumers THEN [consumerJobs EXCEPT ![o] = @ \union {k}]
                       ELSE consumerJobs

LEMMA OwnersMaps ==
    ASSUME RegistryInv, NEW k \in QuoteKeys, NEW o \in Owners, OwnerIsEntered(k, o),
           jobs' \in [QuoteKeys -> QuoteJobs],
           \A q \in QuoteKeys : q # k => jobs'[q] = jobs[q],
           jobs'[k].gen \in 1..lastGen', lastGen <= lastGen', lastGen' \in Int,
           jobs'[k].owners = (IF k \in Present THEN jobs[k].owners ELSE {}) \union {o},
           \/ sourceJobs' = [sourceJobs EXCEPT ![SourceOf[k]] = @ \union {k}]
           \/ sourceJobs' = sourceJobs /\ k \in Present
    PROVE  /\ sourceJobs' \in [Accounts -> SUBSET QuoteKeys]
           /\ accountJobs' \in [Accounts -> SUBSET QuoteKeys]
           /\ consumerJobs' \in [Consumers -> SUBSET QuoteKeys]
           /\ QuoteTypeOK'
<1>0. RegistryTypes /\ QuoteTypeOK
  BY DEF RegistryInv
<1>1. SourceOf[k] \in Accounts
  BY OwnersAre
<1>2. /\ sourceJobs' \in [Accounts -> SUBSET QuoteKeys]
      /\ \A a \in Accounts : sourceJobs'[a] = IF a = SourceOf[k] THEN sourceJobs[a] \union {k}
                                              ELSE sourceJobs[a]
  <2>1. CASE sourceJobs' = [sourceJobs EXCEPT ![SourceOf[k]] = @ \union {k}]
    BY <1>0, <1>1, <2>1 DEF RegistryTypes
  <2>2. CASE sourceJobs' = sourceJobs /\ k \in Present
    <3>1. k \in sourceJobs[SourceOf[k]]
      BY <1>0, <1>1, <2>2 DEF QuoteTypeOK
    <3> QED
      BY <1>0, <1>1, <2>2, <3>1 DEF RegistryTypes
  <2> QED
    BY <2>1, <2>2
<1>3. /\ accountJobs' \in [Accounts -> SUBSET QuoteKeys]
      /\ \A a \in Accounts : accountJobs'[a] = IF a = o THEN accountJobs[a] \union {k}
                                               ELSE accountJobs[a]
  BY <1>0 DEF RegistryTypes, OwnerIsEntered
<1>4. /\ consumerJobs' \in [Consumers -> SUBSET QuoteKeys]
      /\ \A c \in Consumers : consumerJobs'[c] = IF c = o THEN consumerJobs[c] \union {k}
                                                 ELSE consumerJobs[c]
  BY <1>0 DEF RegistryTypes, OwnerIsEntered
<1>5. Present' = Present \union {k} /\ Present \subseteq QuoteKeys
  BY DEF Present
<1>6. \A q \in QuoteKeys : jobs'[q].gen \in 0..lastGen' /\ jobs'[q].owners \subseteq Owners
  <2> TAKE q \in QuoteKeys
  <2>1. jobs'[q] \in QuoteJobs /\ jobs[q].gen \in 0..lastGen /\ lastGen \in Int
    BY <1>0 DEF QuoteTypeOK, RegistryTypes
  <2>2. jobs'[q].owners \subseteq Owners
    BY <2>1 DEF QuoteJobs
  <2> QED
    BY <2>1, <2>2
<1>7. \A q \in Present' : jobs'[q].owners # {}
  BY <1>0, <1>5 DEF QuoteTypeOK
<1>8. \A a \in Accounts : sourceJobs'[a] = {q \in Present' : SourceOf[q] = a}
  <2> TAKE a \in Accounts
  <2>1. sourceJobs[a] = {q \in Present : SourceOf[q] = a}
    BY <1>0 DEF QuoteTypeOK
  <2> QED
    BY <1>2, <1>5, <2>1
<1>9. ASSUME NEW b
      PROVE  {q \in Present' : b \in jobs'[q].owners}
             = {q \in Present : b \in jobs[q].owners} \union (IF b = o THEN {k} ELSE {})
  BY <1>5
<1>10. \A a \in Accounts : accountJobs'[a] = {q \in Present' : a \in jobs'[q].owners}
  <2> TAKE a \in Accounts
  <2>1. accountJobs[a] = {q \in Present : a \in jobs[q].owners}
    BY <1>0 DEF QuoteTypeOK
  <2>2. {q \in Present' : a \in jobs'[q].owners}
         = {q \in Present : a \in jobs[q].owners} \union (IF a = o THEN {k} ELSE {})
    BY <1>9
  <2> QED
    BY <1>3, <2>1, <2>2
<1>11. \A c \in Consumers : consumerJobs'[c] = {q \in Present' : c \in jobs'[q].owners}
  <2> TAKE c \in Consumers
  <2>1. consumerJobs[c] = {q \in Present : c \in jobs[q].owners}
    BY <1>0 DEF QuoteTypeOK
  <2>2. {q \in Present' : c \in jobs'[q].owners}
         = {q \in Present : c \in jobs[q].owners} \union (IF c = o THEN {k} ELSE {})
    BY <1>9
  <2> QED
    BY <1>4, <2>1, <2>2
<1>12. QuoteTypeOK'
  BY <1>6, <1>7, <1>8, <1>10, <1>11 DEF QuoteTypeOK
<1> QED
  BY <1>2, <1>3, <1>4, <1>12

\* One more owner of a job under way.
LEMMA JoinKeeps ==
    ASSUME RegistryInv, NEW k \in Present, NEW o \in Owners, Register(k, o),
           UNCHANGED <<sourceJobs, lastGen, tasks>>
    PROVE  RegistryInv'
<1>0. RegistryTypes /\ QuoteTypeOK /\ EntriesHaveTasks /\ NextTasksAreFree /\ NoOrphanQuoteTask
  BY DEF RegistryInv
<1>1. k \in QuoteKeys /\ jobs[k] \in QuoteJobs /\ jobs[k].gen # 0
  BY <1>0 DEF Present, RegistryTypes
<1>2. PICK os \in SUBSET Owners : os = jobs[k].owners \union {o}
  BY <1>1 DEF QuoteJobs
<1>3. PICK j \in QuoteJobs : j = [jobs[k] EXCEPT !.owners = os]
  <2>1. [jobs[k] EXCEPT !.owners = os] \in QuoteJobs
    BY <1>1 DEF QuoteJobs
  <2> QED
    BY <2>1
<1>4. j.gen = jobs[k].gen /\ j.handle = jobs[k].handle /\ j.owners = os
  BY <1>1, <1>3 DEF QuoteJobs
<1>5. jobs' = [jobs EXCEPT ![k] = j]
  BY <1>0, <1>1, <1>2, <1>3 DEF Register, RegistryTypes
<1>6. /\ jobs' \in [QuoteKeys -> QuoteJobs] /\ jobs'[k] = j
      /\ \A q \in QuoteKeys : q # k => jobs'[q] = jobs[q]
  BY <1>0, <1>1, <1>5 DEF RegistryTypes
<1>7. jobs'[k].gen \in 1..lastGen' /\ lastGen' \in Int /\ lastGen' = lastGen
  BY <1>0, <1>1, <1>4, <1>6 DEF QuoteTypeOK, RegistryTypes
<1>8. OwnerIsEntered(k, o)
  BY DEF Register, OwnerIsEntered
<1>9. /\ sourceJobs' \in [Accounts -> SUBSET QuoteKeys]
      /\ accountJobs' \in [Accounts -> SUBSET QuoteKeys]
      /\ consumerJobs' \in [Consumers -> SUBSET QuoteKeys]
      /\ QuoteTypeOK'
  BY <1>1, <1>2, <1>4, <1>6, <1>7, <1>8, OwnersMaps
<1>10. RegistryTypes'
  BY <1>0, <1>6, <1>9 DEF RegistryTypes
<1>11. \A q \in QuoteKeys : jobs'[q].gen = jobs[q].gen /\ jobs'[q].handle = jobs[q].handle
  BY <1>4, <1>6
<1>12. EntriesHaveTasks'
  BY <1>0, <1>1, <1>4, <1>6 DEF EntriesHaveTasks
<1>13. \A g \in Gens : tasks[g].key \in QuoteKeys
  BY <1>0 DEF RegistryTypes, QuoteTasks
<1>14. NextTasksAreFree' /\ NoOrphanQuoteTask'
  BY <1>0, <1>11, <1>13 DEF NextTasksAreFree, NoOrphanQuoteTask
<1> QED
  BY <1>9, <1>10, <1>12, <1>14 DEF RegistryInv

\* A new job, with the next generation.
LEMMA SpawnKeeps ==
    ASSUME RegistryInv, NEW k \in QuoteKeys, NEW o \in Owners, k \notin Present,
           Schedule(k, o)
    PROVE  RegistryInv'
<1>0. RegistryTypes /\ QuoteTypeOK /\ EntriesHaveTasks /\ NextTasksAreFree /\ NoOrphanQuoteTask
  BY DEF RegistryInv
<1>1. /\ lastGen < MaxQuoteTasks /\ lastGen' = lastGen + 1
      /\ jobs' = [jobs EXCEPT ![k] = [gen |-> lastGen + 1, owners |-> {o}, handle |-> FALSE]]
      /\ sourceJobs' = [sourceJobs EXCEPT ![SourceOf[k]] = @ \union {k}]
      /\ tasks' = [tasks EXCEPT ![lastGen + 1] = [NoTask EXCEPT !.key = k, !.pc = "wait"]]
      /\ OwnerIsEntered(k, o)
  BY DEF Schedule, OwnerIsEntered
<1>2. PICK n \in Gens : n = lastGen + 1
  BY <1>0, <1>1, OwnersAre DEF RegistryTypes, Gens
<1>3. n \in 0..MaxQuoteTasks /\ n # 0 /\ lastGen \in 0..MaxQuoteTasks /\ lastGen < n
  BY <1>0, <1>2, OwnersAre DEF Gens, RegistryTypes
<1>4. PICK no \in BOOLEAN : no = FALSE
  OBVIOUS
<1>5. PICK j \in QuoteJobs : j = [gen |-> n, owners |-> {o}, handle |-> no]
  <2>1. [gen |-> n, owners |-> {o}, handle |-> no] \in QuoteJobs
    BY <1>3 DEF QuoteJobs
  <2> QED
    BY <2>1
<1>6. j.gen = n /\ j.owners = {o} /\ ~j.handle
  BY <1>4, <1>5
<1>7. PICK t \in QuoteTasks : t = [NoTask EXCEPT !.key = k, !.pc = "wait"]
  <2>1. PICK pc \in {"wait"} : pc = "wait"
    OBVIOUS
  <2>2. [NoTask EXCEPT !.key = k, !.pc = pc] \in QuoteTasks
    BY NothingOfAQuote DEF QuoteTasks
  <2> QED
    BY <2>1, <2>2
<1>8. t.key = k /\ t.pc = "wait" /\ ~t.linked /\ ~t.aborted
  BY <1>7 DEF NoTask
<1>9. jobs' = [jobs EXCEPT ![k] = j] /\ tasks' = [tasks EXCEPT ![n] = t]
  BY <1>1, <1>2, <1>4, <1>5, <1>7
<1>10. /\ jobs' \in [QuoteKeys -> QuoteJobs] /\ jobs'[k] = j
       /\ \A q \in QuoteKeys : q # k => jobs'[q] = jobs[q]
  BY <1>0, <1>9 DEF RegistryTypes
<1>11. /\ tasks' \in [Gens -> QuoteTasks] /\ tasks'[n] = t
       /\ \A g \in Gens : g # n => tasks'[g] = tasks[g]
  BY <1>0, <1>9 DEF RegistryTypes
<1>12. jobs'[k].gen \in 1..lastGen' /\ lastGen <= lastGen' /\ lastGen' \in Int
  BY <1>1, <1>2, <1>3, <1>6, <1>10
<1>13. /\ sourceJobs' \in [Accounts -> SUBSET QuoteKeys]
       /\ accountJobs' \in [Accounts -> SUBSET QuoteKeys]
       /\ consumerJobs' \in [Consumers -> SUBSET QuoteKeys]
       /\ QuoteTypeOK'
  BY <1>1, <1>6, <1>10, <1>12, OwnersMaps
<1>14. RegistryTypes'
  BY <1>0, <1>1, <1>2, <1>3, <1>10, <1>11, <1>13 DEF RegistryTypes
<1>15. \A q \in QuoteKeys : jobs[q].gen # n
  BY <1>0, <1>3 DEF QuoteTypeOK
<1>16. EntriesHaveTasks'
  <2> SUFFICES ASSUME NEW q \in QuoteKeys
               PROVE  IF jobs'[q].gen = 0 THEN jobs'[q] = NoJob
                      ELSE /\ tasks'[jobs'[q].gen].key = q /\ tasks'[jobs'[q].gen].pc # "none"
                           /\ jobs'[q].handle <=> tasks'[jobs'[q].gen].linked
    BY DEF EntriesHaveTasks
  <2>1. CASE q = k
    BY <1>3, <1>6, <1>8, <1>10, <1>11, <2>1
  <2>2. CASE q # k
    <3>1. jobs[q].gen # 0 => jobs[q].gen \in Gens
      BY <1>0 DEF RegistryTypes, QuoteJobs, Gens
    <3> QED
      BY <1>0, <1>10, <1>11, <1>15, <2>2, <3>1 DEF EntriesHaveTasks
  <2> QED
    BY <2>1, <2>2
<1>17. NextTasksAreFree'
  <2>1. \A g \in Gens : g > lastGen' => g > lastGen /\ g # n
    BY <1>1, <1>2, <1>3 DEF Gens
  <2> QED
    BY <1>0, <1>11, <2>1 DEF NextTasksAreFree
<1>18. NoOrphanQuoteTask'
  <2> SUFFICES ASSUME NEW h \in Gens
               PROVE  /\ tasks'[h].linked /\ ~tasks'[h].aborted /\ tasks'[h].pc \notin {"none", "done"}
                         => jobs'[tasks'[h].key].gen = h /\ jobs'[tasks'[h].key].handle
                      /\ jobs'[tasks'[h].key].gen = h /\ tasks'[h].pc # "none"
                         => tasks'[h].pc # "done" /\ ~tasks'[h].aborted
    BY DEF NoOrphanQuoteTask
  <2>1. CASE h = n
    BY <1>8, <1>11, <2>1
  <2>2. CASE h # n
    <3>1. tasks'[h] = tasks[h] /\ tasks[h].key \in QuoteKeys
      BY <1>0, <1>11, <2>2 DEF RegistryTypes, QuoteTasks
    <3>2. tasks[h].key = k => jobs[k].gen # h
      <4>1. jobs[k].gen = 0 /\ h # 0
        BY OwnersAre DEF Present
      <4> QED
        BY <4>1
    <3>3. tasks[h].key = k => jobs'[k].gen # h
      BY <1>6, <1>10, <2>2
    <3> QED
      BY <1>0, <1>10, <3>1, <3>2, <3>3 DEF NoOrphanQuoteTask
  <2> QED
    BY <2>1, <2>2
<1> QED
  BY <1>13, <1>14, <1>16, <1>17, <1>18 DEF RegistryInv

\* The registry starts right and every step keeps it so.
LEMMA RegistryStarts == QuoteInit => RegistryInv
<1> SUFFICES ASSUME QuoteInit PROVE RegistryInv
  OBVIOUS
<1>1. /\ jobs \in [QuoteKeys -> QuoteJobs] /\ tasks \in [Gens -> QuoteTasks]
      /\ \A k \in QuoteKeys : jobs[k] = NoJob
      /\ \A g \in Gens : tasks[g] = NoTask /\ g # 0
      /\ lastGen = 0
  BY NothingOfAQuote, OwnersAre DEF QuoteInit
<1>2. RegistryTypes
  BY <1>1, QuoteAssumption DEF QuoteInit, RegistryTypes
<1>3. Present = {}
  BY <1>1, NothingOfAQuote DEF Present
<1>4. QuoteTypeOK
  BY <1>1, <1>3, NothingOfAQuote DEF QuoteInit, QuoteTypeOK
<1>5. EntriesHaveTasks /\ NextTasksAreFree
  BY <1>1, NothingOfAQuote DEF EntriesHaveTasks, NextTasksAreFree
<1>6. NoOrphanQuoteTask
  BY <1>1, NothingOfAQuote DEF NoOrphanQuoteTask
<1> QED
  BY <1>2, <1>4, <1>5, <1>6 DEF RegistryInv

LEMMA RegistryKeeps == RegistryInv /\ [QuoteNext]_quoteVars => RegistryInv'
<1> SUFFICES ASSUME RegistryInv, [QuoteNext]_quoteVars PROVE RegistryInv'
  OBVIOUS
<1>0. RegistryTypes
  BY DEF RegistryInv
<1>1. ASSUME NEW k \in QuoteKeys, NEW o \in Owners, Schedule(k, o) PROVE RegistryInv'
  <2>1. CASE k \in Present
    BY <1>1, <2>1, JoinKeeps DEF Schedule
  <2> QED
    BY <1>1, <2>1, SpawnKeeps
<1>2. ASSUME NEW c \in Consumers, CancelConsumer(c) PROVE RegistryInv'
  BY <1>2, CancelConsumerKeeps
<1>3. ASSUME NEW a \in Accounts, CancelSource(a) PROVE RegistryInv'
  <2>1. sourceJobs[a] \in SUBSET QuoteKeys
    BY <1>0 DEF RegistryTypes
  <2> QED
    BY <1>3, <2>1, CancelKeeps DEF CancelSource
<1>4. CASE CancelAll
  <2>1. Present \in SUBSET QuoteKeys
    BY DEF Present
  <2> QED
    BY <1>4, <2>1, CancelKeeps DEF CancelAll
<1>5. ASSUME NEW g \in Gens, TaskStep(g) PROVE RegistryInv'
  BY <1>5, LinkKeeps, TaskStepsKeep, DropGuardKeeps DEF TaskStep
<1>6. ASSUME NEW k \in QuoteKeys, NegativeExpires(k) PROVE RegistryInv'
  BY <1>6, RegistryStands DEF NegativeExpires
<1>7. CASE UNCHANGED quoteVars
  BY <1>7, RegistryStands DEF quoteVars
<1> QED
  BY <1>1, <1>2, <1>3, <1>4, <1>5, <1>6, <1>7 DEF QuoteNext

\* What a step aborts: the task of a job that only the closed pane owned, or whose account goes.
LEMMA AbortsAreDue ==
    RegistryInv /\ [QuoteNext]_quoteVars => [SharedJobSurvivesPane]_quoteVars
<1> SUFFICES ASSUME RegistryInv, QuoteNext,
                    NEW g \in Gens, tasks'[g].aborted, ~tasks[g].aborted,
                    jobs[tasks[g].key].gen = g
             PROVE  \/ \E c \in Consumers : jobs[tasks[g].key].owners = {c}
                    \/ sourceJobs'[SourceOf[tasks[g].key]] = {}
  BY DEF SharedJobSurvivesPane
<1>0. RegistryTypes /\ QuoteTypeOK /\ EntriesHaveTasks
  BY DEF RegistryInv
<1> DEFINE k == tasks[g].key
<1>1. k \in QuoteKeys /\ g # 0 /\ k \in Present /\ tasks[g] \in QuoteTasks
  BY <1>0, OwnersAre DEF RegistryTypes, QuoteTasks, Present
<1>2. ASSUME NEW keys \in SUBSET QuoteKeys, Aborting(keys) PROVE k \in keys
  BY <1>2, AbortedTasks
<1>3. ASSUME NEW c \in Consumers, CancelConsumer(c)
      PROVE  jobs[k].owners = {c}
  <2> DEFINE over == {q \in consumerJobs[c] : jobs[q].owners = {c}}
  <2>1. over \in SUBSET QuoteKeys
    BY <1>0 DEF RegistryTypes
  <2>2. Aborting(over)
    BY <1>3 DEF CancelConsumer
  <2> QED
    BY <1>2, <2>1, <2>2
<1>4. ASSUME NEW a \in Accounts, CancelSource(a)
      PROVE  sourceJobs'[SourceOf[k]] = {}
  <2>1. sourceJobs[a] \in SUBSET QuoteKeys
    BY <1>0 DEF RegistryTypes
  <2>2. k \in sourceJobs[a]
    BY <1>2, <1>4, <2>1 DEF CancelSource
  <2>3. SourceOf[k] = a
    BY <1>0, <2>2 DEF QuoteTypeOK
  <2> QED
    BY <1>4, <2>3 DEF CancelSource, Without
<1>5. ASSUME CancelAll
      PROVE  sourceJobs'[SourceOf[k]] = {}
  <2>1. SourceOf[k] \in Accounts
    BY <1>1, OwnersAre
  <2>2. sourceJobs[SourceOf[k]] \subseteq Present
    BY <1>0, <2>1 DEF QuoteTypeOK
  <2> QED
    BY <1>5, <2>1, <2>2 DEF CancelAll, Without
<1>6. ASSUME NEW q \in QuoteKeys, NEW o \in Owners, Schedule(q, o) PROVE FALSE
  <2>1. tasks' # tasks
    OBVIOUS
  <2>2. q \notin Present /\ tasks' = [tasks EXCEPT ![lastGen + 1] = [NoTask EXCEPT !.key = q, !.pc = "wait"]]
    BY <1>6, <2>1 DEF Schedule
  <2>3. [NoTask EXCEPT !.key = q, !.pc = "wait"].aborted = FALSE
    BY DEF NoTask
  <2>4. tasks \in [Gens -> QuoteTasks]
    BY <1>0 DEF RegistryTypes
  <2>5. CASE g = lastGen + 1
    BY <2>2, <2>3, <2>4, <2>5
  <2>6. CASE g # lastGen + 1
    BY <2>2, <2>4, <2>6
  <2> QED
    BY <2>5, <2>6
<1>7. ASSUME NEW h \in Gens, TaskStep(h) PROVE FALSE
  <2>0. tasks \in [Gens -> QuoteTasks]
    BY <1>0 DEF RegistryTypes
  <2>1. ASSUME NEW next, tasks' = [tasks EXCEPT ![h].pc = next] PROVE FALSE
    <3>1. CASE g = h
      BY <1>1, <2>0, <2>1, <3>1 DEF QuoteTasks
    <3> QED
      BY <2>0, <2>1, <3>1
  <2>2. CASE Link(h)
    <3>1. CASE g = h
      <4>1. jobs[k].owners # {}
        BY <1>0, <1>1 DEF QuoteTypeOK
      <4>2. PICK yes \in BOOLEAN : yes = TRUE
        OBVIOUS
      <4>3. PICK no \in BOOLEAN : no = FALSE
        OBVIOUS
      <4>4. tasks' = [tasks EXCEPT ![g].linked = yes, ![g].aborted = no]
        BY <2>2, <3>1, <4>1, <4>2, <4>3 DEF Link
      <4>5. tasks'[g].aborted = no
        BY <1>1, <2>0, <4>4 DEF QuoteTasks
      <4> QED
        BY <4>3, <4>5
    <3>2. CASE g # h
      BY <2>0, <2>2, <3>2 DEF Link
    <3> QED
      BY <3>1, <3>2
  <2>3. CASE Lookup(h)
    BY <2>1, <2>3 DEF Lookup
  <2>4. CASE Acquire(h) \/ Save(h)
    BY <2>1, <2>4 DEF Acquire, Save
  <2>5. CASE RememberNegative(h) \/ TaskAborted(h) \/ DropGuard(h)
    BY <2>1, <2>5 DEF RememberNegative, TaskAborted, DropGuard
  <2> QED
    BY <1>7, <2>2, <2>3, <2>4, <2>5 DEF TaskStep
<1>8. ASSUME NEW q \in QuoteKeys, NegativeExpires(q) PROVE FALSE
  BY <1>8 DEF NegativeExpires
<1> QED
  BY <1>3, <1>4, <1>5, <1>6, <1>7, <1>8 DEF QuoteNext

(* Scheduling, cancelling and the end of a task may come between one another:  *)
(* the maps of the registry stay the inverse of its jobs, a task that was not  *)
(* aborted is always in reach of the cancelling of its last owner, and closing *)
(* a pane aborts no job another owner waits for (timeline_service.rs).         *)
THEOREM QuoteTasksAreOwned ==
    QuoteSpec => [](QuoteTypeOK /\ NoOrphanQuoteTask) /\ [][SharedJobSurvivesPane]_quoteVars
<1>1. QuoteInit => RegistryInv
  BY RegistryStarts
<1>2. RegistryInv /\ [QuoteNext]_quoteVars => RegistryInv'
  BY RegistryKeeps
<1>3. RegistryInv /\ [QuoteNext]_quoteVars => [SharedJobSurvivesPane]_quoteVars
  BY AbortsAreDue
<1>4. RegistryInv => QuoteTypeOK /\ NoOrphanQuoteTask
  BY DEF RegistryInv
<1> QED
  BY <1>1, <1>2, <1>3, <1>4, PTL DEF QuoteSpec

-----------------------------------------------------------------------------
(* The quotes the streams deliver.                                           *)

\* What a job of a stream and its bookkeeping can be.
StqSteps == {"looking", "saving", "telling"}

StqTypes ==
    /\ stqEntering \in [StqStreams -> StqPosts \union {StqNothing}]
    /\ stqQueue \in Seq(StqPosts)
    /\ DOMAIN stqJobs \subseteq StqPosts
    /\ stqJobs \in [DOMAIN stqJobs -> [tries : Nat, step : StqSteps]]
    /\ IsFiniteSet(DOMAIN stqJobs)
    /\ stqFlight \in SUBSET StqKeys
    /\ stqMiss \in [StqKeys -> Nat]
    /\ stqBridge \in BOOLEAN /\ stqTime \in Nat

\* A processor, a place of the queue and a job that hold a key.
Enters(s, k) == stqEntering[s] # StqNothing /\ StqKeyOf[stqEntering[s]] = k
Waits(i, k) == StqKeyOf[stqQueue[i]] = k
Runs(p, k) == StqKeyOf[p] = k

\* A registered key is held somewhere, and what is held is registered.
HeldAreRegistered ==
    \A k \in StqKeys : k \in stqFlight <=>
        \/ \E s \in StqStreams : Enters(s, k)
        \/ \E i \in DOMAIN stqQueue : Waits(i, k)
        \/ \E p \in DOMAIN stqJobs : Runs(p, k)

\* Of a key there is one processor, place in the queue or job.
HeldOnce ==
    \A k \in StqKeys :
        /\ \A s, r \in StqStreams : Enters(s, k) /\ Enters(r, k) => s = r
        /\ \A i, j \in DOMAIN stqQueue : Waits(i, k) /\ Waits(j, k) => i = j
        /\ \A p, q \in DOMAIN stqJobs : Runs(p, k) /\ Runs(q, k) => p = q
        /\ \A s \in StqStreams, i \in DOMAIN stqQueue : ~(Enters(s, k) /\ Waits(i, k))
        /\ \A s \in StqStreams, p \in DOMAIN stqJobs : ~(Enters(s, k) /\ Runs(p, k))
        /\ \A i \in DOMAIN stqQueue, p \in DOMAIN stqJobs : ~(Waits(i, k) /\ Runs(p, k))

\* The bridge once gone, the keys of the jobs it ended are of no use any more.
StqInv == StqTypes /\ MissesRest /\ (stqBridge => HeldAreRegistered /\ HeldOnce)

LEMMA StqConstants ==
    /\ \A p \in StqPosts : p # StqNothing /\ StqKeyOf[p] \in StqKeys
    /\ StqCapacity \in Nat /\ StqAttempts \in Nat /\ StqMissTtl \in Nat
    /\ IsFiniteSet(StqStreams)
BY StqAssumption DEF StqKeys

\* A key is registered where it is held: both parts of what holds while the bridge is there.
StqHeld == HeldAreRegistered /\ HeldOnce

\* What is held is of a key.
LEMMA HeldKeys ==
    ASSUME StqTypes
    PROVE  /\ \A s \in StqStreams : stqEntering[s] # StqNothing =>
                  stqEntering[s] \in StqPosts /\ StqKeyOf[stqEntering[s]] \in StqKeys
           /\ \A i \in DOMAIN stqQueue : stqQueue[i] \in StqPosts /\ StqKeyOf[stqQueue[i]] \in StqKeys
           /\ \A p \in DOMAIN stqJobs : p \in StqPosts /\ StqKeyOf[p] \in StqKeys
BY StqConstants DEF StqTypes

\* Once each and registered: the sum of its holders is one.
LEMMA HeldIsCounted ==
    ASSUME StqTypes, StqHeld, NEW k \in StqKeys
    PROVE  Holders(k) = IF k \in stqFlight THEN 1 ELSE 0
<1> DEFINE E == {s \in StqStreams : Enters(s, k)}
           Q == {i \in DOMAIN stqQueue : Waits(i, k)}
           J == {p \in DOMAIN stqJobs : Runs(p, k)}
<1>1. Holders(k) = Cardinality(E) + Cardinality(Q) + Cardinality(J)
  BY DEF Holders, Enters, Waits, Runs
<1>2. ASSUME NEW S, \A x, y \in S : x = y
      PROVE  Cardinality(S) = IF S = {} THEN 0 ELSE 1
  <2>1. CASE S = {}
    BY <2>1, FS_EmptySet
  <2>2. CASE S # {}
    <3>1. PICK x \in S : S = {x}
      BY <1>2, <2>2
    <3> QED
      BY <2>2, <3>1, FS_Singleton
  <2> QED
    BY <2>1, <2>2
<1>3. /\ \A x, y \in E : x = y
      /\ \A x, y \in Q : x = y
      /\ \A x, y \in J : x = y
  BY DEF StqHeld, HeldOnce
<1>4. /\ E = {} \/ Q = {}
      /\ E = {} \/ J = {}
      /\ Q = {} \/ J = {}
  BY DEF StqHeld, HeldOnce
<1>5. k \in stqFlight <=> E # {} \/ Q # {} \/ J # {}
  BY DEF StqHeld, HeldAreRegistered
<1> HIDE DEF E, Q, J
<1>6. /\ Cardinality(E) = IF E = {} THEN 0 ELSE 1
      /\ Cardinality(Q) = IF Q = {} THEN 0 ELSE 1
      /\ Cardinality(J) = IF J = {} THEN 0 ELSE 1
  BY <1>2, <1>3
<1> QED
  BY <1>1, <1>4, <1>5, <1>6

\* A post enters: its key had no holder.
LEMMA RegisterKeeps ==
    ASSUME StqInv, NEW s \in StqStreams, NEW p \in StqPosts, RegisterQuote(s, p)
    PROVE  StqInv'
<1>0. StqTypes /\ MissesRest /\ StqHeld
  BY DEF StqInv, RegisterQuote, StqHeld
<1> DEFINE key == StqKeyOf[p]
<1>1. key \in StqKeys /\ p # StqNothing
  BY StqConstants
<1>2. /\ stqEntering[s] = StqNothing /\ key \notin stqFlight /\ stqMiss[key] <= stqTime
      /\ stqFlight' = stqFlight \union {key}
      /\ stqEntering' = [stqEntering EXCEPT ![s] = p]
      /\ UNCHANGED <<stqQueue, stqJobs, stqMiss, stqBridge, stqTime>>
  BY DEF RegisterQuote, WorthLooking
<1>3. StqTypes'
  BY <1>0, <1>1, <1>2 DEF StqTypes
<1>4. MissesRest'
  BY <1>0, <1>2 DEF MissesRest
<1>5. \A r \in StqStreams : stqEntering'[r] = IF r = s THEN p ELSE stqEntering[r]
  BY <1>0, <1>2 DEF StqTypes
<1> HIDE DEF key
<1>6. \A k \in StqKeys, r \in StqStreams : Enters(r, k)' <=> Enters(r, k) \/ (r = s /\ k = key)
  BY <1>1, <1>2, <1>5 DEF Enters, key
<1>7. /\ \A k, i : Waits(i, k)' <=> Waits(i, k)
      /\ \A k, q : Runs(q, k)' <=> Runs(q, k)
  BY <1>2 DEF Waits, Runs
<1>8. /\ \A r \in StqStreams : ~Enters(r, key)
      /\ \A i \in DOMAIN stqQueue : ~Waits(i, key)
      /\ \A q \in DOMAIN stqJobs : ~Runs(q, key)
  BY <1>0, <1>1, <1>2 DEF StqHeld, HeldAreRegistered
<1>9. HeldAreRegistered'
  BY <1>0, <1>2, <1>6, <1>7 DEF StqHeld, HeldAreRegistered
<1>10. HeldOnce'
  BY <1>0, <1>2, <1>6, <1>7, <1>8 DEF StqHeld, HeldOnce
<1> QED
  BY <1>3, <1>4, <1>9, <1>10 DEF StqInv

\* The post goes into the queue, or is refused and its key free again.
LEMMA TrySendKeeps ==
    ASSUME StqInv, NEW s \in StqStreams, TrySend(s)
    PROVE  StqInv'
<1>0. StqTypes /\ MissesRest /\ (stqBridge => StqHeld)
  BY DEF StqInv, StqHeld
<1>1. PICK p \in StqPosts : p = stqEntering[s]
  BY <1>0 DEF StqTypes, TrySend
<1> DEFINE key == StqKeyOf[p]
<1>2. key \in StqKeys /\ p # StqNothing
  BY StqConstants
<1>3. /\ stqEntering' = [stqEntering EXCEPT ![s] = StqNothing]
      /\ UNCHANGED <<stqJobs, stqMiss, stqBridge, stqTime>>
  BY DEF TrySend
<1>4. \/ stqQueue' = Append(stqQueue, p) /\ stqFlight' = stqFlight
      \/ stqQueue' = stqQueue /\ stqFlight' = stqFlight \ {key}
  BY <1>1 DEF TrySend, QuoteRefused
<1>5. StqTypes'
  <2>1. stqEntering' \in [StqStreams -> StqPosts \union {StqNothing}]
    BY <1>0, <1>3 DEF StqTypes
  <2>2. stqQueue' \in Seq(StqPosts)
    <3>1. stqQueue \in Seq(StqPosts)
      BY <1>0 DEF StqTypes
    <3>2. Append(stqQueue, p) \in Seq(StqPosts)
      BY <3>1, AppendProperties
    <3> HIDE DEF key
    <3> QED
      BY <1>4, <3>1, <3>2
  <2>3. stqFlight' \in SUBSET StqKeys
    <3> HIDE DEF key
    <3> QED
      BY <1>0, <1>4 DEF StqTypes
  <2> QED
    BY <1>0, <1>3, <2>1, <2>2, <2>3 DEF StqTypes
<1>6. MissesRest'
  BY <1>0, <1>3, <1>4 DEF MissesRest
<1>7. ASSUME stqBridge
      PROVE  HeldAreRegistered' /\ HeldOnce'
  <2>0. HeldAreRegistered /\ HeldOnce
    BY <1>0, <1>7 DEF StqHeld
  <2>1. \A r \in StqStreams : stqEntering'[r] = IF r = s THEN StqNothing ELSE stqEntering[r]
    BY <1>0, <1>3 DEF StqTypes
  <2> HIDE DEF key
  <2>2. Enters(s, key)
    BY <1>1, <1>2 DEF Enters, key
  <2>3. \A k \in StqKeys, r \in StqStreams : Enters(r, k)' <=> Enters(r, k) /\ r # s
    BY <2>1 DEF Enters
  <2>4. \A k, q : Runs(q, k)' <=> Runs(q, k)
    BY DEF Runs
  <2>5. \A k \in StqKeys : Enters(s, k) <=> k = key
    BY <1>1, <1>2 DEF Enters, key
  <2>6. CASE stqQueue' = stqQueue /\ stqFlight' = stqFlight \ {key}
    <3>1. \A k, i : Waits(i, k)' <=> Waits(i, k)
      BY <2>6 DEF Waits
    <3>2. HeldOnce'
      BY <1>3, <2>0, <2>3, <2>4, <2>6, <3>1 DEF HeldOnce
    <3>3. /\ \A r \in StqStreams : r # s => ~Enters(r, key)
          /\ \A i \in DOMAIN stqQueue : ~Waits(i, key)
          /\ \A q \in DOMAIN stqJobs : ~Runs(q, key)
      BY <1>2, <2>0, <2>2 DEF HeldOnce
    <3>4. HeldAreRegistered'
      BY <1>3, <2>0, <2>3, <2>4, <2>5, <2>6, <3>1, <3>3 DEF HeldAreRegistered
    <3> QED
      BY <3>2, <3>4
  <2>7. CASE stqQueue' = Append(stqQueue, p) /\ stqFlight' = stqFlight
    <3>1. PICK n \in Nat : n = Len(stqQueue) + 1
      BY <1>0 DEF StqTypes
    <3>2. /\ DOMAIN stqQueue = 1..(n - 1) /\ DOMAIN stqQueue' = DOMAIN stqQueue \union {n}
          /\ n \notin DOMAIN stqQueue
          /\ \A i \in DOMAIN stqQueue : stqQueue'[i] = stqQueue[i]
          /\ stqQueue'[n] = p
      BY <1>0, <1>1, <2>7, <3>1 DEF StqTypes
    <3>3. /\ \A k \in StqKeys, i \in DOMAIN stqQueue : Waits(i, k)' <=> Waits(i, k)
          /\ \A k \in StqKeys : Waits(n, k)' <=> k = key
      BY <3>2 DEF Waits, key
    <3>4. /\ \A r \in StqStreams : r # s => ~Enters(r, key)
          /\ \A i \in DOMAIN stqQueue : ~Waits(i, key)
          /\ \A q \in DOMAIN stqJobs : ~Runs(q, key)
      BY <1>2, <2>0, <2>2 DEF HeldOnce
    <3>5. HeldOnce'
      BY <1>3, <2>0, <2>3, <2>4, <3>2, <3>3, <3>4 DEF HeldOnce
    <3>6. HeldAreRegistered'
      BY <1>3, <2>0, <2>3, <2>4, <2>5, <2>7, <3>2, <3>3, <3>4 DEF HeldAreRegistered
    <3> QED
      BY <3>5, <3>6
  <2> QED
    BY <1>4, <2>6, <2>7
<1> QED
  BY <1>3, <1>5, <1>6, <1>7 DEF StqInv

\* The first of the queue becomes a job.
LEMMA StartJobKeeps ==
    ASSUME StqInv, StartJob
    PROVE  StqInv'
<1>0. StqTypes /\ MissesRest /\ (stqBridge => StqHeld)
  BY DEF StqInv, StqHeld
<1>1. /\ stqQueue # <<>> /\ stqQueue' = Tail(stqQueue)
      /\ UNCHANGED <<stqEntering, stqFlight, stqMiss, stqBridge, stqTime>>
  BY DEF StartJob
<1>2. PICK p \in StqPosts : p = Head(stqQueue)
  BY <1>0, <1>1 DEF StqTypes
<1>3. PICK n \in Nat : n = Len(stqQueue)
  BY <1>0 DEF StqTypes
<1>4. /\ n >= 1 /\ DOMAIN stqQueue = 1..n /\ DOMAIN stqQueue' = 1..(n - 1)
      /\ \A i \in 1..(n - 1) : stqQueue'[i] = stqQueue[i + 1]
      /\ stqQueue[1] = p /\ stqQueue' \in Seq(StqPosts)
  BY <1>0, <1>1, <1>2, <1>3 DEF StqTypes
<1>5. PICK j \in [tries : Nat, step : StqSteps] : j = [tries |-> 0, step |-> "looking"]
  BY DEF StqSteps
<1>6. stqJobs' = [q \in DOMAIN stqJobs \union {p} |-> IF q = p THEN j ELSE stqJobs[q]]
  BY <1>2, <1>5 DEF StartJob
<1>7. DOMAIN stqJobs' = DOMAIN stqJobs \union {p} /\ IsFiniteSet(DOMAIN stqJobs')
  BY <1>0, <1>6, FS_AddElement DEF StqTypes
<1>8. stqJobs' \in [DOMAIN stqJobs' -> [tries : Nat, step : StqSteps]]
  BY <1>0, <1>6, <1>7 DEF StqTypes
<1>9. StqTypes'
  BY <1>0, <1>1, <1>2, <1>4, <1>7, <1>8 DEF StqTypes
<1>10. MissesRest'
  BY <1>0, <1>1 DEF MissesRest
<1>11. ASSUME stqBridge
       PROVE  HeldAreRegistered' /\ HeldOnce'
  <2>0. HeldAreRegistered /\ HeldOnce
    BY <1>0, <1>11 DEF StqHeld
  <2> DEFINE key == StqKeyOf[p]
  <2>1. key \in StqKeys
    BY StqConstants
  <2>2. \A k \in StqKeys, r \in StqStreams : Enters(r, k)' <=> Enters(r, k)
    BY <1>1 DEF Enters
  <2>3. \A k, q : Runs(q, k)' <=> Runs(q, k)
    BY DEF Runs
  <2> HIDE DEF key
  <2>4. \A k \in StqKeys, i \in DOMAIN stqQueue' : Waits(i, k)' <=> Waits(i + 1, k)
    BY <1>4 DEF Waits
  <2>5. \A k \in StqKeys : (Waits(1, k) <=> k = key) /\ (Runs(p, k) <=> k = key)
    BY <1>4 DEF Waits, Runs, key
  <2>6. /\ \A i \in DOMAIN stqQueue' : i + 1 \in DOMAIN stqQueue /\ i + 1 # 1
        /\ \A i \in DOMAIN stqQueue : i # 1 => \E h \in DOMAIN stqQueue' : h + 1 = i
        /\ 1 \in DOMAIN stqQueue
    <3>1. \A i \in DOMAIN stqQueue' : i + 1 \in DOMAIN stqQueue /\ i + 1 # 1
      BY <1>4
    <3>2. ASSUME NEW i \in DOMAIN stqQueue, i # 1
          PROVE  \E h \in DOMAIN stqQueue' : h + 1 = i
      <4>1. i - 1 \in DOMAIN stqQueue' /\ (i - 1) + 1 = i
        BY <1>4, <3>2
      <4> QED
        BY <4>1
    <3> QED
      BY <1>4, <3>1, <3>2
  <2>7. /\ \A r \in StqStreams : ~Enters(r, key)
        /\ \A i \in DOMAIN stqQueue : Waits(i, key) => i = 1
        /\ \A q \in DOMAIN stqJobs : ~Runs(q, key)
    BY <2>0, <2>1, <2>5, <2>6 DEF HeldOnce
  <2>8. HeldAreRegistered'
    <3>1. ASSUME NEW k \in StqKeys
          PROVE  (\E i \in DOMAIN stqQueue : Waits(i, k))
                 <=> k = key \/ (\E i \in DOMAIN stqQueue' : Waits(i, k)')
      <4>1. \A i \in DOMAIN stqQueue : i = 1 \/ \E h \in DOMAIN stqQueue' : h + 1 = i
        BY <2>6
      <4> QED
        BY <2>4, <2>5, <2>6, <4>1
    <3>2. ASSUME NEW k \in StqKeys
          PROVE  (\E q \in DOMAIN stqJobs' : Runs(q, k)')
                 <=> k = key \/ (\E q \in DOMAIN stqJobs : Runs(q, k))
      BY <1>7, <2>3, <2>5
    <3> QED
      BY <1>1, <2>0, <2>2, <3>1, <3>2 DEF HeldAreRegistered
  <2>9. HeldOnce'
    <3> SUFFICES ASSUME NEW k \in StqKeys
                 PROVE  /\ \A s, r \in StqStreams : Enters(s, k)' /\ Enters(r, k)' => s = r
                        /\ \A i, h \in DOMAIN stqQueue' : Waits(i, k)' /\ Waits(h, k)' => i = h
                        /\ \A q, r \in DOMAIN stqJobs' : Runs(q, k)' /\ Runs(r, k)' => q = r
                        /\ \A s \in StqStreams, i \in DOMAIN stqQueue' :
                              ~(Enters(s, k)' /\ Waits(i, k)')
                        /\ \A s \in StqStreams, q \in DOMAIN stqJobs' :
                              ~(Enters(s, k)' /\ Runs(q, k)')
                        /\ \A i \in DOMAIN stqQueue', q \in DOMAIN stqJobs' :
                              ~(Waits(i, k)' /\ Runs(q, k)')
      BY DEF HeldOnce
    <3>0. /\ \A s, r \in StqStreams : Enters(s, k) /\ Enters(r, k) => s = r
          /\ \A i, h \in DOMAIN stqQueue : Waits(i, k) /\ Waits(h, k) => i = h
          /\ \A q, r \in DOMAIN stqJobs : Runs(q, k) /\ Runs(r, k) => q = r
          /\ \A s \in StqStreams, i \in DOMAIN stqQueue : ~(Enters(s, k) /\ Waits(i, k))
          /\ \A s \in StqStreams, q \in DOMAIN stqJobs : ~(Enters(s, k) /\ Runs(q, k))
          /\ \A i \in DOMAIN stqQueue, q \in DOMAIN stqJobs : ~(Waits(i, k) /\ Runs(q, k))
      BY <2>0 DEF HeldOnce
    <3>1. \A i, h \in DOMAIN stqQueue' : i + 1 = h + 1 => i = h
      BY <1>4
    <3>2. \A s, r \in StqStreams : Enters(s, k)' /\ Enters(r, k)' => s = r
      BY <2>2, <3>0
    <3>3. \A i, h \in DOMAIN stqQueue' : Waits(i, k)' /\ Waits(h, k)' => i = h
      BY <2>4, <2>6, <3>0, <3>1
    <3>4. \A q, r \in DOMAIN stqJobs' : Runs(q, k)' /\ Runs(r, k)' => q = r
      BY <1>7, <2>3, <2>5, <2>7, <3>0
    <3>5. \A s \in StqStreams, i \in DOMAIN stqQueue' : ~(Enters(s, k)' /\ Waits(i, k)')
      BY <2>2, <2>4, <2>6, <3>0
    <3>6. \A s \in StqStreams, q \in DOMAIN stqJobs' : ~(Enters(s, k)' /\ Runs(q, k)')
      BY <1>7, <2>2, <2>3, <2>5, <2>7, <3>0
    <3>7. \A i \in DOMAIN stqQueue', q \in DOMAIN stqJobs' : ~(Waits(i, k)' /\ Runs(q, k)')
      BY <1>7, <2>3, <2>4, <2>5, <2>6, <2>7, <3>0
    <3> QED
      BY <3>2, <3>3, <3>4, <3>5, <3>6, <3>7
  <2> QED
    BY <2>8, <2>9
<1> QED
  BY <1>1, <1>9, <1>10, <1>11 DEF StqInv

\* A job goes on.
LEMMA JobGoesOn ==
    ASSUME StqInv, NEW p \in DOMAIN stqJobs, NEW j \in [tries : Nat, step : StqSteps],
           stqJobs' = [stqJobs EXCEPT ![p] = j],
           UNCHANGED <<stqEntering, stqQueue, stqFlight, stqMiss, stqBridge, stqTime>>
    PROVE  StqInv'
<1>0. StqTypes /\ MissesRest /\ (stqBridge => StqHeld)
  BY DEF StqInv, StqHeld
<1>1. DOMAIN stqJobs' = DOMAIN stqJobs
  OBVIOUS
<1>2. stqJobs' \in [DOMAIN stqJobs' -> [tries : Nat, step : StqSteps]]
  BY <1>0, <1>1 DEF StqTypes
<1>3. StqTypes'
  BY <1>0, <1>1, <1>2 DEF StqTypes
<1>4. MissesRest'
  BY <1>0 DEF MissesRest
<1>5. stqBridge => HeldAreRegistered' /\ HeldOnce'
  BY <1>0, <1>1 DEF StqHeld, HeldAreRegistered, HeldOnce, Enters, Waits, Runs
<1> QED
  BY <1>3, <1>4, <1>5 DEF StqInv

\* A job is over; unless its key is freed the bridge is gone.
LEMMA JobEnds ==
    ASSUME StqInv, NEW p \in DOMAIN stqJobs, stqJobs' = WithoutJob(p),
           \/ stqFlight' = stqFlight \ {StqKeyOf[p]}
           \/ stqFlight' = stqFlight /\ ~stqBridge,
           \/ stqMiss' = stqMiss
           \/ /\ stqMiss' = [stqMiss EXCEPT ![StqKeyOf[p]] = stqTime + StqMissTtl]
              /\ stqFlight' = stqFlight \ {StqKeyOf[p]},
           UNCHANGED <<stqEntering, stqQueue, stqBridge, stqTime>>
    PROVE  StqInv'
<1>0. StqTypes /\ MissesRest /\ (stqBridge => StqHeld)
  BY DEF StqInv, StqHeld
<1> DEFINE key == StqKeyOf[p]
<1>1. key \in StqKeys /\ p \in StqPosts
  BY <1>0, HeldKeys
<1>2. /\ DOMAIN stqJobs' = DOMAIN stqJobs \ {p}
      /\ \A q \in DOMAIN stqJobs' : stqJobs'[q] = stqJobs[q]
      /\ stqJobs' = [q \in DOMAIN stqJobs \ {p} |-> stqJobs[q]]
  BY DEF WithoutJob
<1>3. IsFiniteSet(DOMAIN stqJobs')
  BY <1>0, <1>2, FS_Subset DEF StqTypes
<1>4. stqJobs' \in [DOMAIN stqJobs' -> [tries : Nat, step : StqSteps]]
  BY <1>0, <1>2 DEF StqTypes
<1>5. stqMiss' \in [StqKeys -> Nat]
  <2>1. PICK t \in Nat : t = stqTime + StqMissTtl
    BY <1>0, StqConstants DEF StqTypes
  <2> QED
    BY <1>0, <1>1, <2>1 DEF StqTypes
<1>6. StqTypes'
  BY <1>0, <1>2, <1>3, <1>4, <1>5 DEF StqTypes
<1> HIDE DEF key
<1>7. \A k \in StqKeys : k # key => stqMiss'[k] = stqMiss[k]
  BY <1>0, <1>1 DEF StqTypes, key
<1>8. MissesRest'
  <2>1. \A k \in stqFlight' : k \in stqFlight /\ k \in StqKeys
    BY <1>0 DEF StqTypes
  <2>2. key \in stqFlight' => stqMiss' = stqMiss
    BY DEF key
  <2> QED
    BY <1>0, <1>7, <2>1, <2>2 DEF MissesRest
<1>9. ASSUME stqBridge
      PROVE  HeldAreRegistered' /\ HeldOnce'
  <2>0. HeldAreRegistered /\ HeldOnce
    BY <1>0, <1>9 DEF StqHeld
  <2>1. /\ \A k, s : Enters(s, k)' <=> Enters(s, k)
        /\ \A k, i : Waits(i, k)' <=> Waits(i, k)
        /\ \A k, q : Runs(q, k)' <=> Runs(q, k)
        /\ \A k : Runs(p, k) <=> k = key
    BY DEF Enters, Waits, Runs, key
  <2>2. stqFlight' = stqFlight \ {key}
    BY <1>9 DEF key
  <2>3. /\ \A s \in StqStreams : ~Enters(s, key)
        /\ \A i \in DOMAIN stqQueue : ~Waits(i, key)
        /\ \A q \in DOMAIN stqJobs : q # p => ~Runs(q, key)
    BY <1>1, <2>0, <2>1 DEF HeldOnce
  <2>4. HeldOnce'
    BY <1>2, <2>0, <2>1 DEF HeldOnce
  <2>5. HeldAreRegistered'
    BY <1>2, <2>0, <2>1, <2>2, <2>3 DEF HeldAreRegistered
  <2> QED
    BY <2>4, <2>5
<1> QED
  BY <1>6, <1>8, <1>9 DEF StqInv

\* What does not touch holders and keys.
LEMMA StqStands ==
    ASSUME StqInv, stqTime' \in Nat, stqTime' >= stqTime, stqBridge' \in BOOLEAN,
           stqBridge' => stqBridge,
           UNCHANGED <<stqEntering, stqQueue, stqJobs, stqFlight, stqMiss>>
    PROVE  StqInv'
<1>0. StqTypes /\ MissesRest /\ (stqBridge => StqHeld)
  BY DEF StqInv, StqHeld
<1>1. StqTypes'
  BY <1>0 DEF StqTypes
<1>2. MissesRest'
  BY <1>0 DEF MissesRest, StqTypes
<1>3. stqBridge' => HeldAreRegistered' /\ HeldOnce'
  BY <1>0 DEF StqHeld, HeldAreRegistered, HeldOnce, Enters, Waits, Runs
<1> QED
  BY <1>1, <1>2, <1>3 DEF StqInv

LEMMA StqStarts == StreamQuotesInit => StqInv
<1> SUFFICES ASSUME StreamQuotesInit PROVE StqInv
  OBVIOUS
<1>1. /\ stqEntering = [s \in StqStreams |-> StqNothing] /\ stqQueue = <<>> /\ stqJobs = <<>>
      /\ stqFlight = {} /\ stqMiss = [k \in StqKeys |-> 0]
      /\ stqBridge = TRUE /\ stqTime = 0
  BY DEF StreamQuotesInit
<1>2. DOMAIN stqJobs = {} /\ DOMAIN stqQueue = {} /\ stqQueue \in Seq(StqPosts)
  BY <1>1
<1>3. stqJobs \in [DOMAIN stqJobs -> [tries : Nat, step : StqSteps]]
  <2>1. stqJobs = [q \in DOMAIN stqJobs |-> stqJobs[q]]
    BY <1>1
  <2> QED
    BY <1>2, <2>1
<1>4. IsFiniteSet(DOMAIN stqJobs)
  BY <1>2, FS_EmptySet
<1>5. StqTypes
  BY <1>1, <1>2, <1>3, <1>4 DEF StqTypes
<1>6. MissesRest
  BY <1>1 DEF MissesRest
<1>7. \A s \in StqStreams : \A k : ~Enters(s, k)
  BY <1>1 DEF Enters
<1>8. HeldAreRegistered /\ HeldOnce
  BY <1>1, <1>2, <1>7 DEF HeldAreRegistered, HeldOnce
<1> QED
  BY <1>5, <1>6, <1>8 DEF StqInv

LEMMA StqJobSteps ==
    ASSUME StqInv, NEW p, QuoteFound(p) \/ QuoteNotFound(p) \/ SaveQuoting(p) \/ TellQuoting(p)
    PROVE  StqInv'
<1>0. StqTypes
  BY DEF StqInv
<1>1. p \in DOMAIN stqJobs
  BY DEF QuoteFound, QuoteNotFound, SaveQuoting, TellQuoting, JobAt
<1>2. stqJobs[p] \in [tries : Nat, step : StqSteps]
  BY <1>0, <1>1 DEF StqTypes
<1>3. ASSUME NEW step \in StqSteps, stqJobs' = [stqJobs EXCEPT ![p].step = step],
             UNCHANGED <<stqEntering, stqQueue, stqFlight, stqMiss, stqBridge, stqTime>>
      PROVE  StqInv'
  <2>1. PICK j \in [tries : Nat, step : StqSteps] : j = [stqJobs[p] EXCEPT !.step = step]
    BY <1>2
  <2> QED
    BY <1>1, <1>3, <2>1, JobGoesOn
<1>4. CASE QuoteFound(p)
  <2>1. "saving" \in StqSteps
    BY DEF StqSteps
  <2> QED
    BY <1>3, <1>4, <2>1 DEF QuoteFound
<1>5. CASE QuoteNotFound(p)
  <2>1. CASE stqJobs[p].tries + 1 < StqAttempts
    <3>1. PICK n \in Nat : n = stqJobs[p].tries + 1
      BY <1>2
    <3>2. PICK j \in [tries : Nat, step : StqSteps] : j = [stqJobs[p] EXCEPT !.tries = n]
      BY <1>2
    <3>3. stqJobs' = [stqJobs EXCEPT ![p] = j]
      BY <1>5, <2>1, <3>1, <3>2 DEF QuoteNotFound
    <3>4. UNCHANGED <<stqEntering, stqQueue, stqFlight, stqMiss, stqBridge, stqTime>>
      BY <1>5, <2>1 DEF QuoteNotFound
    <3> QED
      BY <1>1, <3>3, <3>4, JobGoesOn
  <2>2. CASE ~(stqJobs[p].tries + 1 < StqAttempts)
    <3>1. /\ Finish(p, FALSE)
          /\ UNCHANGED <<stqEntering, stqQueue, stqBridge, stqTime>>
      BY <1>5, <2>2 DEF QuoteNotFound
    <3> QED
      BY <1>1, <3>1, JobEnds DEF Finish
  <2> QED
    BY <2>1, <2>2
<1>6. ASSUME Finish(p, TRUE), UNCHANGED <<stqEntering, stqQueue, stqBridge, stqTime>>
      PROVE  StqInv'
  BY <1>1, <1>6, JobEnds DEF Finish
<1>7. CASE SaveQuoting(p)
  <2>1. "telling" \in StqSteps
    BY DEF StqSteps
  <2> QED
    BY <1>3, <1>6, <1>7, <2>1 DEF SaveQuoting
<1>8. CASE TellQuoting(p)
  <2>1. CASE stqBridge
    BY <1>6, <1>8, <2>1 DEF TellQuoting
  <2>2. CASE ~stqBridge
    BY <1>1, <1>8, <2>2, JobEnds DEF TellQuoting
  <2> QED
    BY <2>1, <2>2
<1> QED
  BY <1>4, <1>5, <1>7, <1>8

LEMMA StqKeeps == StqInv /\ [StreamQuotesNext]_stqVars => StqInv'
<1> SUFFICES ASSUME StqInv, [StreamQuotesNext]_stqVars PROVE StqInv'
  OBVIOUS
<1>0. stqTime \in Nat /\ stqBridge \in BOOLEAN
  BY DEF StqInv, StqTypes
<1>1. ASSUME NEW s \in StqStreams, TrySend(s) \/ \E p \in StqPosts : RegisterQuote(s, p)
      PROVE  StqInv'
  BY <1>1, TrySendKeeps, RegisterKeeps
<1>2. CASE StartJob
  BY <1>2, StartJobKeeps
<1>3. ASSUME NEW p \in StqPosts,
             QuoteFound(p) \/ QuoteNotFound(p) \/ SaveQuoting(p) \/ TellQuoting(p)
      PROVE  StqInv'
  BY <1>3, StqJobSteps
<1>4. CASE BridgeCloses
  <2>1. /\ stqTime' = stqTime /\ stqBridge' \in BOOLEAN /\ stqBridge
        /\ UNCHANGED <<stqEntering, stqQueue, stqJobs, stqFlight, stqMiss>>
    BY <1>4 DEF BridgeCloses
  <2> QED
    BY <1>0, <2>1, StqStands
<1>5. CASE QuoteTime
  BY <1>0, <1>5, StqStands DEF QuoteTime
<1>6. CASE UNCHANGED stqVars
  BY <1>0, <1>6, StqStands DEF stqVars
<1> QED
  BY <1>1, <1>2, <1>3, <1>4, <1>5, <1>6 DEF StreamQuotesNext

(* However many streams deliver posts with the same quote, and whatever the    *)
(* queue refuses: a registered key is held by one processor, place in the      *)
(* queue or job, and a quote that was not found rests for its time             *)
(* (streaming_service.rs, QuoteQueue and resolve_quote_job).                   *)
THEOREM StreamQuotesAreHeld == StreamQuotesSpec => [](LookupsAreHeld /\ MissesRest)
<1>1. StreamQuotesInit => StqInv
  BY StqStarts
<1>2. StqInv /\ [StreamQuotesNext]_stqVars => StqInv'
  BY StqKeeps
<1>3. StqInv => LookupsAreHeld /\ MissesRest
  BY HeldIsCounted DEF StqInv, StqHeld, LookupsAreHeld
<1> QED
  BY <1>1, <1>2, <1>3, PTL DEF StreamQuotesSpec
=============================================================================
