------------------------- MODULE StreamCacheProofs -------------------------
(***************************************************************************)
(* For any number of streams and posts, any capacities, outages, failed    *)
(* writes and restarts: the variables of the live path keep their types,   *)
(* and, unless a change was missed, the status cache ends as the provider. *)
(***************************************************************************)
EXTENDS StreamPipelineProofs

-----------------------------------------------------------------------------
(* Recursion.  What holds of 0 and goes on from n to n + 1 holds up to N.  *)
LEMMA UpTo ==
    ASSUME NEW N \in Nat, NEW S, 0 \in S, \A n \in 0..(N - 1) : n \in S => n + 1 \in S
    PROVE  \A n \in 0..N : n \in S
<1> SUFFICES ASSUME NEW k \in 0..N, k \notin S
             PROVE  FALSE
  OBVIOUS
<1> DEFINE E == {i \in 1..(N + 1) : N + 1 - i \notin S}
<1>1. N + 1 - k \in E
  <2>1. N + 1 - k \in 1..(N + 1) /\ N + 1 - (N + 1 - k) = k
    OBVIOUS
  <2> QED
    BY <2>1
<1>2. N + 1 \in Nat /\ E \in SUBSET (1..(N + 1))
  OBVIOUS
<1> HIDE DEF E
<1>3. PICK m \in E : \A i \in E : i <= m
  BY <1>1, <1>2, GreatestIndex
<1>4. m \in 1..(N + 1) /\ N + 1 - m \notin S
  BY <1>3 DEF E
<1>5. N + 1 - m # 0
  BY <1>4
<1>6. m + 1 \in 1..(N + 1) /\ m + 1 \notin E
  BY <1>2, <1>3, <1>4, <1>5
<1>7. N + 1 - (m + 1) \in S
  BY <1>6 DEF E
<1>8. N + 1 - (m + 1) \in 0..(N - 1) /\ N + 1 - (m + 1) + 1 = N + 1 - m
  BY <1>4, <1>6
<1> QED
  BY <1>4, <1>7, <1>8

(* Steps in S, and a walk that starts with x and takes them.               *)
IsStep(step, S, N) == step \in [(1..N) \X S -> S]
IsWalk(g, step, S, x, N) ==
    /\ g \in [0..N -> S] /\ g[0] = x
    /\ \A n \in 1..N : g[n] = step[<<n, g[n - 1]>>]

LEMMA StepsExist ==
    ASSUME NEW S, NEW x \in S, NEW N \in Nat, NEW step, IsStep(step, S, N)
    PROVE  \E g : IsWalk(g, step, S, x, N)
<1>0. step \in [(1..N) \X S -> S]
  BY DEF IsStep
<1> DEFINE Good(g, n) == g[0] = x /\ \A i \in 1..n : g[i] = step[<<i, g[i - 1]>>]
           G == {n \in 0..N : \E g \in [0..n -> S] : Good(g, n)}
<1>1. 0 \in G
  <2>1. [i \in 0..0 |-> x] \in [0..0 -> S] /\ Good([i \in 0..0 |-> x], 0)
    OBVIOUS
  <2> HIDE DEF Good
  <2> QED
    BY <2>1
<1>2. ASSUME NEW n \in 0..(N - 1), n \in G
      PROVE  n + 1 \in G
  <2>1. PICK g \in [0..n -> S] : Good(g, n)
    BY <1>2
  <2> DEFINE h == [i \in 0..(n + 1) |-> IF i = n + 1 THEN step[<<n + 1, g[n]>>] ELSE g[i]]
  <2>2. h \in [0..(n + 1) -> S]
    <3>1. step[<<n + 1, g[n]>>] \in S
      BY <1>0
    <3>2. \A i \in 0..(n + 1) : i # n + 1 => i \in 0..n
      OBVIOUS
    <3> QED
      BY <3>1, <3>2
  <2>3. h[0] = x
    BY <2>1
  <2>4. ASSUME NEW i \in 1..(n + 1)
        PROVE  h[i] = step[<<i, h[i - 1]>>]
    <3>1. i - 1 \in 0..(n + 1) /\ i - 1 # n + 1 /\ h[i - 1] = g[i - 1]
      OBVIOUS
    <3>2. CASE i = n + 1
      BY <3>1, <3>2
    <3>3. CASE i # n + 1
      BY <2>1, <3>1, <3>3
    <3> QED
      BY <3>2, <3>3
  <2>5. Good(h, n + 1)
    BY <2>3, <2>4
  <2> HIDE DEF h, Good
  <2> QED
    BY <2>2, <2>5
<1>3. N \in G
  <2> HIDE DEF G
  <2>1. \A n \in 0..N : n \in G
    BY <1>1, <1>2, UpTo
  <2> QED
    BY <2>1
<1> QED
  BY <1>3 DEF IsWalk

-----------------------------------------------------------------------------
(* Coalescing.                                                             *)

About(e, p) == IsChange(e) /\ e.post = p

LEMMA EventKinds ==
    /\ Resync \in Events /\ Resync.kind = "resync" /\ ~IsChange(Resync)
    /\ \A e \in Events : /\ e \in Changes <=> IsChange(e)
                         /\ e \in Copies <=> e.kind \in {"notice", "boost"}
                         /\ e # Resync /\ ~IsChange(e) => e \in Copies
    /\ \A e \in Changes : /\ IsChange(e) /\ e # Resync /\ e.post \in Posts /\ e.ver \in Versions
                          /\ e.kind \in {"new", "edit", "delete"} /\ e \in Events
    /\ \A e \in Copies : /\ ~IsChange(e) /\ IsSave(e) /\ e.kind # "delete" /\ e # Resync
                         /\ e.post \in Posts /\ e.ver \in Versions /\ e \in Events
<1>1. \A e \in Changes : /\ e.post \in Posts /\ e.ver \in Versions
                         /\ e.kind \in {"new", "edit", "delete"}
  BY DEF Changes
<1>2. \A e \in Copies : e.post \in Posts /\ e.ver \in Versions /\ e.kind \in {"notice", "boost"}
  BY DEF Copies
<1>3. Resync.kind = "resync"
  BY DEF Resync
<1> QED
  BY <1>1, <1>2, <1>3 DEF Events, IsChange, IsSave

(* One event per post at most.                                             *)
OnePerPost(C) == \A i, j \in DOMAIN C : \A p \in Posts : About(C[i], p) /\ About(C[j], p) => i = j

LEMMA PushFacts ==
    ASSUME NEW C \in Seq(Events), NEW e \in Events
    PROVE  /\ Push(C, e) \in Seq(Events)
           /\ \/ /\ Push(C, e) = Append(C, e)
                 /\ \A i \in DOMAIN C : \A p : ~(About(C[i], p) /\ About(e, p))
              \/ \E i \in DOMAIN C :
                    /\ IsChange(C[i]) /\ IsChange(e) /\ C[i].post = e.post
                    /\ \/ Push(C, e) = [C EXCEPT ![i] = e]
                       \/ Push(C, e) = C /\ C[i].kind = "delete"
<1> DEFINE same == {i \in DOMAIN C : IsChange(C[i]) /\ IsChange(e) /\ C[i].post = e.post}
           place == CHOOSE i \in same : TRUE
<1>0. \A i \in DOMAIN C : C[i] \in Events
  OBVIOUS
<1>1. Push(C, e) = IF same = {} THEN Append(C, e)
                   ELSE IF C[place].kind = "delete" /\ e.kind # "delete"
                        THEN C ELSE [C EXCEPT ![place] = e]
  BY DEF Push
<1>2. CASE same = {}
  <2>1. \A i \in DOMAIN C : ~IsChange(C[i]) \/ ~IsChange(e) \/ C[i].post # e.post
    BY <1>2
  <2>2. \A i \in DOMAIN C : \A p : ~(About(C[i], p) /\ About(e, p))
    BY <1>0, <2>1, EventKinds DEF About
  <2>3. Push(C, e) = Append(C, e)
    BY <1>1, <1>2
  <2> QED
    BY <2>2, <2>3
<1>3. CASE same # {}
  <2>1. place \in same
    BY <1>3
  <2>2. place \in DOMAIN C /\ IsChange(C[place]) /\ IsChange(e) /\ C[place].post = e.post
    BY <1>0, <2>1, EventKinds
  <2> HIDE DEF place
  <2>3. Push(C, e) = [C EXCEPT ![place] = e] \/ (Push(C, e) = C /\ C[place].kind = "delete")
    BY <1>1, <1>3
  <2> QED
    BY <2>2, <2>3
<1> QED
  BY <1>2, <1>3

(* The last change of p among the first n of R.                            *)
LastAbout(R, n, p, i) == /\ i \in 1..n /\ About(R[i], p)
                         /\ \A j \in (i + 1)..n : ~About(R[j], p)

(* C says of every post what the first n of R said last.                   *)
Sums(C, R, n) ==
    /\ C \in Seq(Events) /\ OnePerPost(C)
    /\ \A p \in Posts : \A k \in DOMAIN C :
          About(C[k], p) => \E i \in 1..n : LastAbout(R, n, p, i) /\ C[k] = R[i]
    /\ \A p \in Posts : \A i \in 1..n :
          About(R[i], p) => \E k \in DOMAIN C : About(C[k], p)

(* After the deletion of a post nothing is said of it.                     *)
DeleteIsLast(R) ==
    \A i, j \in DOMAIN R :
        i < j /\ IsChange(R[i]) /\ IsChange(R[j]) /\ R[i].post = R[j].post => R[i].kind # "delete"

LEMMA PushSums ==
    ASSUME NEW R \in Seq(Events), DeleteIsLast(R), NEW n \in 0..(Len(R) - 1),
           NEW C, Sums(C, R, n)
    PROVE  Sums(Push(C, R[n + 1]), R, n + 1)
<1> DEFINE e == R[n + 1]
           D == Push(C, e)
<1>1. e \in Events /\ C \in Seq(Events)
  BY DEF Sums
<1>2. \A p, i : ~About(e, p) /\ LastAbout(R, n, p, i) => LastAbout(R, n + 1, p, i)
  BY DEF LastAbout
<1>3. \A p : About(e, p) => LastAbout(R, n + 1, p, n + 1)
  BY DEF LastAbout
<1>4. D \in Seq(Events)
  BY <1>1, PushFacts
<1>5. ASSUME D = Append(C, e), \A i \in DOMAIN C : \A p : ~(About(C[i], p) /\ About(e, p))
      PROVE  Sums(D, R, n + 1)
  <2>0. /\ DOMAIN D = 1..(Len(C) + 1) /\ D[Len(C) + 1] = e
        /\ \A k \in 1..Len(C) : D[k] = C[k] /\ k \in DOMAIN C
    BY <1>1, <1>5
  <2>1. OnePerPost(D)
    BY <1>5, <2>0 DEF OnePerPost, Sums
  <2>2. ASSUME NEW p \in Posts, NEW k \in DOMAIN D, About(D[k], p)
        PROVE  \E i \in 1..(n + 1) : LastAbout(R, n + 1, p, i) /\ D[k] = R[i]
    <3>1. CASE k = Len(C) + 1
      BY <1>3, <2>0, <2>2, <3>1
    <3>2. CASE k \in 1..Len(C)
      <4>1. PICK i \in 1..n : LastAbout(R, n, p, i) /\ C[k] = R[i]
        BY <2>0, <2>2, <3>2 DEF Sums
      <4>2. ~About(e, p)
        BY <1>5, <2>0, <2>2, <3>2
      <4> QED
        BY <1>2, <2>0, <3>2, <4>1, <4>2
    <3> QED
      BY <2>0, <3>1, <3>2
  <2>3. ASSUME NEW p \in Posts, NEW i \in 1..(n + 1), About(R[i], p)
        PROVE  \E k \in DOMAIN D : About(D[k], p)
    <3>1. CASE i = n + 1
      BY <1>1, <2>0, <2>3, <3>1
    <3>2. CASE i \in 1..n
      <4>1. PICK k \in DOMAIN C : About(C[k], p)
        BY <2>3, <3>2 DEF Sums
      <4>2. k \in 1..Len(C)
        BY <1>1
      <4> QED
        BY <2>0, <4>1, <4>2
    <3> QED
      BY <3>1, <3>2
  <2> QED
    BY <1>4, <2>1, <2>2, <2>3 DEF Sums
<1>6. ASSUME NEW i \in DOMAIN C, IsChange(C[i]), IsChange(e), C[i].post = e.post
      PROVE  C[i].kind # "delete"
  <2>1. C[i] \in Changes /\ About(C[i], e.post) /\ e.post \in Posts
    BY <1>1, <1>6, EventKinds DEF About
  <2>2. PICK m \in 1..n : C[i] = R[m]
    BY <2>1 DEF Sums
  <2>3. m \in DOMAIN R /\ n + 1 \in DOMAIN R /\ m < n + 1
    OBVIOUS
  <2> QED
    BY <1>6, <2>2, <2>3 DEF DeleteIsLast
<1>7. ASSUME NEW i \in DOMAIN C, IsChange(C[i]), IsChange(e), C[i].post = e.post,
             D = [C EXCEPT ![i] = e]
      PROVE  Sums(D, R, n + 1)
  <2>0. DOMAIN D = DOMAIN C /\ D[i] = e /\ \A k \in DOMAIN C : k # i => D[k] = C[k]
    BY <1>1, <1>7
  <2>1. About(C[i], e.post) /\ About(e, e.post) /\ e.post \in Posts
    BY <1>1, <1>7, EventKinds DEF About
  <2>2. \A k \in DOMAIN C : About(C[k], e.post) => k = i
    BY <2>1 DEF Sums, OnePerPost
  <2>3. \A p : About(e, p) <=> p = e.post
    BY <1>7 DEF About
  <2>4. OnePerPost(D)
    BY <2>0, <2>2, <2>3 DEF OnePerPost, Sums
  <2>5. ASSUME NEW p \in Posts, NEW k \in DOMAIN D, About(D[k], p)
        PROVE  \E m \in 1..(n + 1) : LastAbout(R, n + 1, p, m) /\ D[k] = R[m]
    <3>1. CASE k = i
      BY <1>3, <2>0, <2>5, <3>1
    <3>2. CASE k # i
      <4>1. PICK m \in 1..n : LastAbout(R, n, p, m) /\ C[k] = R[m]
        BY <2>0, <2>5, <3>2 DEF Sums
      <4>2. ~About(e, p)
        BY <2>0, <2>2, <2>3, <2>5, <3>2
      <4> QED
        BY <1>2, <2>0, <3>2, <4>1, <4>2
    <3> QED
      BY <3>1, <3>2
  <2>6. ASSUME NEW p \in Posts, NEW m \in 1..(n + 1), About(R[m], p)
        PROVE  \E k \in DOMAIN D : About(D[k], p)
    <3>1. CASE p = e.post
      BY <2>0, <2>1, <3>1
    <3>2. CASE p # e.post
      <4>1. m \in 1..n
        BY <2>3, <2>6, <3>2
      <4>2. PICK k \in DOMAIN C : About(C[k], p)
        BY <2>6, <4>1 DEF Sums
      <4>3. k # i
        BY <1>7, <3>2, <4>2 DEF About
      <4> QED
        BY <2>0, <4>2, <4>3
    <3> QED
      BY <3>1, <3>2
  <2> QED
    BY <1>4, <2>4, <2>5, <2>6 DEF Sums
<1>8. ASSUME NEW i \in DOMAIN C, IsChange(C[i]), IsChange(e), C[i].post = e.post,
             D = [C EXCEPT ![i] = e] \/ (D = C /\ C[i].kind = "delete")
      PROVE  Sums(D, R, n + 1)
  BY <1>6, <1>7, <1>8
<1>9. \/ D = Append(C, e) /\ \A i \in DOMAIN C : \A p : ~(About(C[i], p) /\ About(e, p))
      \/ \E i \in DOMAIN C : /\ IsChange(C[i]) /\ IsChange(e) /\ C[i].post = e.post
                             /\ D = [C EXCEPT ![i] = e] \/ (D = C /\ C[i].kind = "delete")
  BY <1>1, PushFacts
<1> HIDE DEF D, e
<1> QED
  <2>1. Sums(D, R, n + 1)
    BY <1>5, <1>8, <1>9
  <2> QED
    BY <2>1 DEF D, e

(* What CoalescedBatch::push makes of the events of a micro-batch, taken   *)
(* in order, is their sum: no post twice, and of each what came last.      *)
LEMMA CoalesceSums ==
    ASSUME NEW R \in Seq(Events)
    PROVE  /\ Coalesce(R) \in Seq(Events)
           /\ DeleteIsLast(R) => Sums(Coalesce(R), R, Len(R))
<1> DEFINE N == Len(R)
           Body(g) == [n \in 0..N |-> IF n = 0 THEN <<>> ELSE Push(g[n - 1], R[n])]
           batch == CHOOSE g : g = Body(g)
           step == [y \in (1..N) \X Seq(Events) |-> Push(y[2], R[y[1]])]
<1>1. N \in Nat /\ \A n \in 1..N : R[n] \in Events
  OBVIOUS
<1>2. Coalesce(R) = batch[N]
  BY DEF Coalesce
<1>3. step \in [(1..N) \X Seq(Events) -> Seq(Events)]
  <2>1. ASSUME NEW y \in (1..N) \X Seq(Events)
        PROVE  Push(y[2], R[y[1]]) \in Seq(Events)
    BY <1>1, PushFacts
  <2> QED
    BY <2>1
<1>4. PICK g \in [0..N -> Seq(Events)] :
           g[0] = <<>> /\ \A n \in 1..N : g[n] = step[<<n, g[n - 1]>>]
  <2>1. <<>> \in Seq(Events)
    OBVIOUS
  <2>2. IsStep(step, Seq(Events), N)
    BY <1>3 DEF IsStep
  <2> HIDE DEF step, N
  <2>3. \E g : IsWalk(g, step, Seq(Events), <<>>, N)
    BY <1>1, <2>1, <2>2, StepsExist, Zenon
  <2> QED
    BY <2>3 DEF IsWalk
<1>5. g = Body(g)
  <2>1. ASSUME NEW n \in 1..N
        PROVE  g[n] = Push(g[n - 1], R[n])
    <3>1. n - 1 \in 0..N
      BY <1>1
    <3>2. g[n - 1] \in Seq(Events)
      BY <1>4, <3>1, Zenon
    <3>3. <<n, g[n - 1]>> \in (1..N) \X Seq(Events)
      BY <3>2
    <3> QED
      BY <1>4, <3>3
  <2>2. g = [n \in 0..N |-> g[n]]
    BY <1>4
  <2>3. \A n \in 0..N : g[n] = IF n = 0 THEN <<>> ELSE Push(g[n - 1], R[n])
    BY <1>1, <1>4, <2>1
  <2> QED
    BY <2>2, <2>3
<1>6. batch = Body(batch)
  <2> HIDE DEF Body
  <2> QED
    BY <1>5
<1> HIDE DEF batch, step
<1>7. /\ batch[0] = <<>>
      /\ \A n \in 0..(N - 1) : batch[n + 1] = Push(batch[n], R[n + 1])
  BY <1>1, <1>6
<1>8. batch[N] \in Seq(Events)
  <2> DEFINE S == {n \in 0..N : batch[n] \in Seq(Events)}
  <2>1. 0 \in S
    <3>1. 0 \in 0..N /\ <<>> \in Seq(Events)
      BY <1>1
    <3> QED
      BY <1>7, <3>1
  <2>2. ASSUME NEW n \in 0..(N - 1), n \in S
        PROVE  n + 1 \in S
    <3>1. n + 1 \in 1..N /\ n + 1 \in 0..N
      BY <1>1
    <3>2. batch[n] \in Seq(Events) /\ R[n + 1] \in Events
      BY <1>1, <2>2, <3>1
    <3>3. Push(batch[n], R[n + 1]) \in Seq(Events)
      BY <3>2, PushFacts
    <3> QED
      BY <1>7, <3>1, <3>3
  <2> HIDE DEF S, N
  <2>3. \A n \in 0..N : n \in S
    BY <1>1, <2>1, <2>2, UpTo
  <2> QED
    BY <1>1, <2>3 DEF S
<1>9. ASSUME DeleteIsLast(R)
      PROVE  Sums(batch[N], R, N)
  <2> DEFINE S == {n \in 0..N : Sums(batch[n], R, n)}
  <2>1. 0 \in S
    <3>1. 0 \in 0..N /\ <<>> \in Seq(Events) /\ DOMAIN <<>> = {} /\ 1..0 = {}
      BY <1>1
    <3>2. Sums(<<>>, R, 0)
      BY <3>1 DEF Sums, OnePerPost
    <3> QED
      BY <1>7, <3>1, <3>2
  <2>2. ASSUME NEW n \in 0..(N - 1), n \in S
        PROVE  n + 1 \in S
    <3>1. n + 1 \in 0..N
      BY <1>1
    <3> QED
      BY <1>7, <1>9, <2>2, <3>1, PushSums
  <2> HIDE DEF S, N
  <2>3. \A n \in 0..N : n \in S
    BY <1>1, <2>1, <2>2, UpTo
  <2> QED
    BY <1>1, <2>3 DEF S
<1> QED
  BY <1>2, <1>8, <1>9

-----------------------------------------------------------------------------
(* Types, by the part of the pipeline that keeps them.                     *)
Batches == [stream : Streams, events : Seq(Events)]
HeldBatches == [stream : Streams \cup {"none"}, events : Seq(Events)]
Items == [ev : Events \cup {Committed}, stream : Streams \cup {"none"}]
Sendings == [ev : Events \cup {Committed}, stream : Streams \cup {"none"}, at : Positions]

ProviderTyped == post \in [Posts -> Versions] /\ log \in Seq(Changes)
SocketsTyped ==
    /\ conn \in [Streams -> {"first", "up", "down"}]
    /\ read \in [Streams -> 0..Len(log)]
    /\ raw \in [Streams -> Seq(Events)]
    /\ outages \in Nat
ProcessorsTyped == work \in [Streams -> Seq(Events)] /\ pq \in Seq(Batches)
WorkerTyped == wbatch \in HeldBatches /\ wpc \in WorkerSteps
FlagsTyped == lagged \in BOOLEAN /\ lost \in BOOLEAN /\ missed \in BOOLEAN
DatabaseTyped ==
    /\ db \in [Posts -> Versions] /\ behind \subseteq Posts
    /\ entries \in [Streams -> SUBSET Posts] /\ faults \in Nat
BesidesTyped ==
    /\ owed \in Seq(Copies) /\ side \in [0..MaxRestarts -> Seq(Copies)]
    /\ telling \in [Posts -> Seq(Events \cup {Committed})] /\ echo \in BOOLEAN /\ copies \in Nat
BridgeTyped == bridge \in Seq(Items) /\ gen \in Nat /\ seq \in Nat /\ epoch \in Nat
WebViewTyped == wire \in Seq(Sendings) /\ seen \in Positions

Typed == /\ ProviderTyped /\ SocketsTyped /\ ProcessorsTyped /\ WorkerTyped
         /\ FlagsTyped /\ DatabaseTyped /\ BridgeTyped /\ WebViewTyped /\ BesidesTyped

LEMMA TypedIsTypeOK == Typed <=> TypeOK
<1>1. {lagged, lost, missed} \subseteq BOOLEAN <=> FlagsTyped
  BY Zenon DEF FlagsTyped
<1>2. {gen, seq, epoch, outages, faults, copies} \subseteq Nat
        <=> /\ gen \in Nat /\ seq \in Nat /\ epoch \in Nat
            /\ outages \in Nat /\ faults \in Nat /\ copies \in Nat
  BY Zenon
<1> QED
  BY <1>1, <1>2, Zenon
     DEF Typed, TypeOK, ProviderTyped, SocketsTyped, ProcessorsTyped, WorkerTyped, DatabaseTyped,
         BridgeTyped, WebViewTyped, BesidesTyped, Batches, HeldBatches, Items, Sendings, Positions

LEMMA ChangesAreEvents == Changes \subseteq Events /\ Resync \in Events
BY DEF Events

(* No queued or held batch changes a post twice.                           *)
NoPostTwice == OnePerPost(wbatch.events) /\ \A k \in DOMAIN pq : OnePerPost(pq[k].events)

LEMMA InitTypes == Init => Typed /\ NoPostTwice
<1> SUFFICES ASSUME Init PROVE Typed /\ NoPostTwice
  OBVIOUS
<1>0. <<>> \in Seq({}) /\ Len(<<>>) = 0 /\ DOMAIN <<>> = {} /\ \A S : <<>> \in Seq(S)
  OBVIOUS
<1>1. MaxVersion \in Nat
  BY PipelineAssumption
<1>2. ProviderTyped /\ SocketsTyped /\ ProcessorsTyped
  BY <1>0, <1>1 DEF Init, ProviderTyped, SocketsTyped, ProcessorsTyped, Versions
<1>3. NoBatch \in HeldBatches /\ NoBatch.events = <<>>
  BY <1>0 DEF NoBatch, HeldBatches
<1>4. WorkerTyped /\ FlagsTyped
  BY <1>3 DEF Init, WorkerTyped, FlagsTyped, WorkerSteps
<1>7. DatabaseTyped
  BY <1>1 DEF Init, DatabaseTyped, Versions
<1>8. BesidesTyped
  BY <1>0 DEF Init, BesidesTyped
<1>5. BridgeTyped /\ WebViewTyped
  BY <1>0 DEF Init, BridgeTyped, WebViewTyped, Nowhere, Positions
<1>6. NoPostTwice
  BY <1>0, <1>3 DEF Init, NoPostTwice, OnePerPost
<1> QED
  BY <1>2, <1>4, <1>5, <1>6, <1>7, <1>8 DEF Typed

(* Of what a batch wrote of a post one write was the last, and what that   *)
(* leaves is a version.                                                    *)
LEMMA LastWriteIs ==
    ASSUME NEW b \in HeldBatches, NEW done \in SUBSET Writes(b),
           NEW p \in Posts, \E i \in done : b.events[i].post = p
    PROVE  /\ LastWrite(b, done, p) \in done
           /\ b.events[LastWrite(b, done, p)].post = p
           /\ b.events[LastWrite(b, done, p)] \in Changes \cup Copies
           /\ Stored(b.events[LastWrite(b, done, p)]) \in Versions
<1> DEFINE n == Len(b.events)
           D == {i \in done : b.events[i].post = p}
           K == {i \in D : IsDelete(b.events[i])}
           Last(i) == /\ b.events[i].post = p
                      /\ \A j \in done : b.events[j].post = p /\ j # i => WrittenBefore(b, j, i)
<1>1. n \in Nat /\ DOMAIN b.events = 1..n /\ \A j \in 1..n : b.events[j] \in Events
  BY DEF HeldBatches
<1>2. \A j \in done : j \in 1..n /\ b.events[j] \in Changes \cup Copies
  <2>1. \A j \in done : j \in 1..n /\ b.events[j] # Resync
    BY <1>1 DEF Writes
  <2> QED
    BY <1>1, <2>1, EventKinds
<1> HIDE DEF n
<1>3. D \in SUBSET (1..n) /\ D # {} /\ K \in SUBSET (1..n) /\ K \subseteq D /\ D \subseteq done
  BY <1>2
<1>4. \A j \in D : IsSave(b.events[j]) <=> ~IsDelete(b.events[j])
  <2>1. \A e \in Changes \cup Copies : IsSave(e) <=> ~IsDelete(e)
    <3>1. \A e \in Copies : IsSave(e) /\ ~IsDelete(e)
      BY EventKinds DEF IsDelete
    <3>2. \A e \in Changes : IsSave(e) <=> ~IsDelete(e)
      BY EventKinds DEF IsSave, IsDelete
    <3> QED
      BY <3>1, <3>2
  <2> QED
    BY <1>2, <1>3, <2>1
<1>5. \E i \in done : Last(i)
  <2>1. CASE K # {}
    <3>1. PICK m \in K : \A j \in K : j <= m
      BY <1>1, <1>3, <2>1, GreatestIndex
    <3>2. \A j \in D : j # m => WrittenBefore(b, j, m)
      <4>1. \A j \in K : j # m => j < m
        BY <1>1, <1>3, <3>1
      <4>2. \A j \in D : j \notin K => IsSave(b.events[j])
        BY <1>4
      <4>3. IsDelete(b.events[m]) /\ ~IsSave(b.events[m])
        BY <1>3, <1>4, <3>1
      <4>4. \A j \in K : ~IsSave(b.events[j])
        BY <1>3, <1>4
      <4> QED
        BY <4>1, <4>2, <4>3, <4>4 DEF WrittenBefore
    <3> QED
      BY <1>3, <3>1, <3>2
  <2>2. CASE K = {}
    <3>1. PICK m \in D : \A j \in D : j <= m
      BY <1>1, <1>3, GreatestIndex
    <3>2. \A j \in D : j # m => WrittenBefore(b, j, m)
      <4>1. \A j \in D : j # m => j < m
        BY <1>1, <1>3, <3>1
      <4>2. \A j \in D : IsSave(b.events[j])
        BY <1>4, <2>2
      <4> QED
        BY <3>1, <4>1, <4>2 DEF WrittenBefore
    <3> QED
      BY <3>1, <3>2
  <2> QED
    BY <2>1, <2>2
<1>6. LastWrite(b, done, p) \in done /\ b.events[LastWrite(b, done, p)].post = p
  BY <1>5 DEF LastWrite
<1>7. \A e \in Changes \cup Copies : Stored(e) \in Versions
  BY EventKinds, PipelineAssumption DEF Versions, Stored
<1> QED
  BY <1>2, <1>6, <1>7

(* A batch writes of a post the one change it has of it, or else a copy.   *)
LEMMA WrittenRow ==
    ASSUME NEW done \in SUBSET Writes(wbatch), PersistWrites(done), wbatch \in HeldBatches,
           OnePerPost(wbatch.events), NEW p \in Posts
    PROVE  /\ (\A i \in done : wbatch.events[i].post # p) =>
                  db'[p] = db[p] /\ (p \in behind' <=> p \in behind)
           /\ \/ \A i \in done : wbatch.events[i].post # p
              \/ db'[p] = post[p] \/ p \in behind'
              \/ \E i \in done : About(wbatch.events[i], p) /\ db'[p] = Stored(wbatch.events[i])
<1> DEFINE e == wbatch.events[LastWrite(wbatch, done, p)]
<1>1. /\ db'[p] = IF \E i \in done : wbatch.events[i].post = p THEN Stored(e) ELSE db[p]
      /\ p \in behind' <=> IF \E i \in done : wbatch.events[i].post = p
                           THEN OldCopy(e) ELSE p \in behind
  BY DEF PersistWrites
<1>2. ASSUME \E i \in done : wbatch.events[i].post = p
      PROVE  \/ db'[p] = post[p] \/ p \in behind'
             \/ \E i \in done : About(wbatch.events[i], p) /\ db'[p] = Stored(wbatch.events[i])
  <2>1. LastWrite(wbatch, done, p) \in done /\ e.post = p /\ e \in Changes \cup Copies
    BY <1>2, LastWriteIs
  <2>2. CASE e \in Changes
    BY <1>1, <1>2, <2>1, <2>2, EventKinds DEF About
  <2>3. CASE e \in Copies
    <3>1. db'[p] = e.ver
      BY <1>1, <1>2, <2>3, EventKinds DEF Stored
    <3>2. p \in behind' <=> e.ver # post[p]
      BY <1>1, <1>2, <2>1, <2>3 DEF OldCopy
    <3> QED
      BY <3>1, <3>2
  <2> QED
    BY <2>1, <2>2, <2>3
<1> QED
  BY <1>1, <1>2

-----------------------------------------------------------------------------
(* Nothing but its own actions moves a part.                               *)
LEMMA PartsStay ==
    /\ Typed /\ UNCHANGED provider => ProviderTyped'
    /\ Typed /\ UNCHANGED <<sockets, log>> => SocketsTyped'
    /\ Typed /\ UNCHANGED <<work, pq>> => ProcessorsTyped'
    /\ Typed /\ UNCHANGED <<wbatch, wpc>> => WorkerTyped'
    /\ Typed /\ UNCHANGED <<lagged, lost, missed>> => FlagsTyped'
    /\ Typed /\ UNCHANGED database => DatabaseTyped'
    /\ Typed /\ UNCHANGED bridgeVars => BridgeTyped'
    /\ Typed /\ UNCHANGED webview => WebViewTyped'
    /\ Typed /\ UNCHANGED besides => BesidesTyped'
    /\ NoPostTwice /\ UNCHANGED <<pq, wbatch>> => NoPostTwice'
BY DEF Typed, ProviderTyped, SocketsTyped, ProcessorsTyped, WorkerTyped, FlagsTyped,
       DatabaseTyped, BridgeTyped, WebViewTyped, BesidesTyped, NoPostTwice, provider, sockets,
       database, bridgeVars, webview, besides

(* The changes a post goes through.                                        *)
Changed(p) == \E kind \in {"new", "edit", "delete"}, v \in Versions :
                 /\ Change(kind, p, v)
                 /\ kind = "new" => v = 1 /\ post[p] = 0 /\ ~Deleted(p)
                 /\ kind = "edit" => v > 0 /\ post[p] > 0
                 /\ kind = "delete" => v = 0 /\ post[p] > 0

LEMMA ProviderChanges ==
    ASSUME ProviderTyped, ProviderStep
    PROVE  \E p \in Posts : Changed(p)
<1>1. PICK p \in Posts : Publish(p) \/ Edit(p) \/ Delete(p)
  BY DEF ProviderStep
<1>2. MaxVersion \in Nat \ {0} /\ Versions = 0..MaxVersion /\ post[p] \in 0..MaxVersion
  BY PipelineAssumption DEF Versions, ProviderTyped
<1>3. CASE Publish(p)
  BY <1>2, <1>3 DEF Publish, Changed
<1>4. CASE Edit(p)
  <2>1. post[p] + 1 \in Versions /\ post[p] > 0
    BY <1>2, <1>4 DEF Edit
  <2> QED
    BY <1>2, <1>4, <2>1 DEF Edit, Changed
<1>5. CASE Delete(p)
  BY <1>2, <1>5 DEF Delete, Changed
<1> QED
  BY <1>1, <1>3, <1>4, <1>5

LEMMA ChangeTypes ==
    ASSUME Typed, NoPostTwice, NEW p \in Posts, Changed(p)
    PROVE  Typed' /\ NoPostTwice'
<1>1. PICK kind \in {"new", "edit", "delete"}, v \in Versions : Change(kind, p, v)
  BY DEF Changed
<1> DEFINE c == [kind |-> kind, post |-> p, ver |-> v]
<1>2. c \in Changes
  BY DEF Changes
<1>3. 0 \in Versions
  BY PipelineAssumption DEF Versions
<1>4. ProviderTyped' /\ Len(log') = Len(log) + 1 /\ Len(log) \in Nat
  BY <1>1, <1>2, <1>3 DEF Change, Typed, ProviderTyped
<1>5. SocketsTyped'
  BY <1>1, <1>4 DEF Change, Typed, SocketsTyped, sockets
<1> QED
  BY <1>1, <1>4, <1>5, PartsStay DEF Change, Typed, persistence

LEMMA ConnectTypes ==
    ASSUME Typed, NoPostTwice, NEW s \in Streams, Connect(s)
    PROVE  Typed' /\ NoPostTwice'
<1>1. Len(log) \in 0..Len(log)
  BY DEF Typed, ProviderTyped
<1>2. raw' \in [Streams -> Seq(Events)]
  <2>1. Append(raw[s], Resync) \in Seq(Events)
    BY ChangesAreEvents DEF Typed, SocketsTyped
  <2> QED
    BY <2>1 DEF Connect, Typed, SocketsTyped
<1>3. SocketsTyped'
  BY <1>1, <1>2 DEF Connect, Typed, SocketsTyped, provider
<1>4. FlagsTyped'
  <2>1. (missed \/ read[s] < Len(log)) \in BOOLEAN
    OBVIOUS
  <2> QED
    BY <2>1 DEF Connect, Typed, FlagsTyped, persistence
<1> QED
  BY <1>3, <1>4, PartsStay DEF Connect, Typed, persistence

LEMMA DisconnectTypes ==
    ASSUME Typed, NoPostTwice, NEW s \in Streams, Disconnect(s)
    PROVE  Typed' /\ NoPostTwice'
<1>1. SocketsTyped'
  BY DEF Disconnect, Typed, SocketsTyped, provider
<1> QED
  BY <1>1, PartsStay DEF Disconnect, Typed, persistence

LEMMA ReceiveTypes ==
    ASSUME Typed, NoPostTwice, NEW s \in Streams, Receive(s)
    PROVE  Typed' /\ NoPostTwice'
<1>1. read[s] \in 0..Len(log) /\ Len(log) \in Nat /\ read[s] < Len(log)
  BY DEF Receive, Typed, SocketsTyped, ProviderTyped
<1>2. read[s] + 1 \in 1..Len(log)
  BY <1>1
<1>3. log[read[s] + 1] \in Events
  BY <1>2, ChangesAreEvents DEF Typed, ProviderTyped
<1>4. SocketsTyped'
  BY <1>1, <1>2, <1>3 DEF Receive, Typed, SocketsTyped, provider
<1> QED
  BY <1>4, PartsStay DEF Receive, Typed, persistence

-----------------------------------------------------------------------------
(* What receive_micro_batch takes from a socket's queue and leaves in it.  *)
Taken(s) == SubSeq(raw[s], 1, BatchSize(s))
Left(s) == SubSeq(raw[s], BatchSize(s) + 1, Len(raw[s]))

LEMMA TakenFacts ==
    ASSUME SocketsTyped, NEW s \in Streams, raw[s] # <<>>
    PROVE  /\ BatchSize(s) \in 1..Len(raw[s]) /\ Len(raw[s]) \in Nat
           /\ DOMAIN raw[s] = 1..Len(raw[s])
           /\ Taken(s) \in Seq(Events) /\ Len(Taken(s)) = BatchSize(s)
           /\ DOMAIN Taken(s) = 1..BatchSize(s)
           /\ \A i \in 1..BatchSize(s) : Taken(s)[i] = raw[s][i]
           /\ Left(s) \in Seq(Events)
           /\ DOMAIN Left(s) = 1..(Len(raw[s]) - BatchSize(s))
           /\ \A i \in 1..(Len(raw[s]) - BatchSize(s)) : Left(s)[i] = raw[s][BatchSize(s) + i]
<1> DEFINE R == raw[s]
           n == BatchSize(s)
<1>1. R \in Seq(Events) /\ R # <<>>
  BY DEF SocketsTyped
<1>2. Len(R) \in Nat \ {0} /\ DOMAIN R = 1..Len(R) /\ BatchCap \in Nat \ {0}
  <2>1. BatchCap \in Nat \ {0}
    BY PipelineAssumption
  <2> QED
    BY <1>1, <2>1
<1>3. n \in 1..Len(R)
  BY <1>2 DEF BatchSize
<1> HIDE DEF R, n
<1>4. /\ SubSeq(R, 1, n) \in Seq(Events) /\ Len(SubSeq(R, 1, n)) = n
      /\ DOMAIN SubSeq(R, 1, n) = 1..n
      /\ \A i \in 1..n : SubSeq(R, 1, n)[i] = R[i]
  BY <1>1, <1>2, <1>3
<1>5. /\ SubSeq(R, n + 1, Len(R)) \in Seq(Events)
      /\ DOMAIN SubSeq(R, n + 1, Len(R)) = 1..(Len(R) - n)
      /\ \A i \in 1..(Len(R) - n) : SubSeq(R, n + 1, Len(R))[i] = R[n + i]
  BY <1>1, <1>2, <1>3
<1> QED
  BY <1>2, <1>3, <1>4, <1>5 DEF R, n, Taken, Left

(* A processor's batch sums up what it took.                               *)
LEMMA BatchSums ==
    ASSUME SocketsTyped, NEW s \in Streams, raw[s] # <<>>
    PROVE  /\ Coalesce(Taken(s)) \in Seq(Events)
           /\ DeleteIsLast(raw[s]) => Sums(Coalesce(Taken(s)), Taken(s), BatchSize(s))
<1>1. Taken(s) \in Seq(Events) /\ Len(Taken(s)) = BatchSize(s)
  BY TakenFacts
<1>2. DeleteIsLast(raw[s]) => DeleteIsLast(Taken(s))
  <2>1. /\ BatchSize(s) \in 1..Len(raw[s]) /\ Len(raw[s]) \in Nat
        /\ DOMAIN raw[s] = 1..Len(raw[s]) /\ DOMAIN Taken(s) = 1..BatchSize(s)
        /\ \A i \in 1..BatchSize(s) : Taken(s)[i] = raw[s][i]
    BY TakenFacts
  <2>2. \A i \in DOMAIN Taken(s) : i \in DOMAIN raw[s] /\ Taken(s)[i] = raw[s][i]
    BY <2>1
  <2> QED
    BY <2>2 DEF DeleteIsLast
<1> QED
  BY <1>1, <1>2, CoalesceSums

LEMMA TakeBatchIs ==
    ASSUME NEW s \in Streams, TakeBatch(s)
    PROVE  /\ work[s] = <<>> /\ raw[s] # <<>>
           /\ raw' = [raw EXCEPT ![s] = Left(s)]
           /\ work' = [work EXCEPT ![s] = Coalesce(Taken(s))]
           /\ EnqueuePersistence([stream |-> s, events |-> Coalesce(Taken(s))])
           /\ UNCHANGED <<provider, conn, read, outages, wpc, wbatch, database, bridgeVars,
                          besides, webview>>
BY DEF TakeBatch, Taken, Left

LEMMA TakeBatchTypes ==
    ASSUME Typed, NoPostTwice, NEW s \in Streams, DeleteIsLast(raw[s]), TakeBatch(s)
    PROVE  Typed' /\ NoPostTwice'
<1> DEFINE events == Coalesce(Taken(s))
           b == [stream |-> s, events |-> events]
<1>1. events \in Seq(Events) /\ OnePerPost(events)
  BY TakeBatchIs, BatchSums DEF Sums, Typed
<1>2. Left(s) \in Seq(Events)
  BY TakeBatchIs, TakenFacts DEF Typed
<1> HIDE DEF events
<1>3. b \in Batches /\ OnePerPost(b.events)
  BY <1>1 DEF Batches
<1> HIDE DEF b
<1>4. SocketsTyped'
  BY <1>2, TakeBatchIs DEF Typed, SocketsTyped, provider
<1>5. EnqueuePersistence(b) /\ work' = [work EXCEPT ![s] = events]
  BY TakeBatchIs DEF b, events
<1>6. CASE Len(pq) < PersistCap /\ pq' = Append(pq, b) /\ UNCHANGED <<lagged, lost, missed>>
  <2>1. ProcessorsTyped'
    BY <1>1, <1>3, <1>5, <1>6 DEF Typed, ProcessorsTyped
  <2>2. NoPostTwice'
    <3>1. pq \in Seq(Batches)
      BY DEF Typed, ProcessorsTyped
    <3>2. \A k \in DOMAIN pq' : pq'[k] = b \/ (k \in DOMAIN pq /\ pq'[k] = pq[k])
      BY <1>3, <1>6, <3>1
    <3> QED
      BY <1>3, <3>2, TakeBatchIs DEF NoPostTwice
  <2> QED
    BY <1>4, <1>6, <2>1, <2>2, PartsStay, TakeBatchIs DEF Typed
<1>7. CASE UNCHANGED pq /\ lagged' = TRUE /\ lost' = TRUE /\ missed' = TRUE
  <2>1. ProcessorsTyped' /\ FlagsTyped'
    BY <1>1, <1>5, <1>7 DEF Typed, ProcessorsTyped, FlagsTyped
  <2> QED
    BY <1>4, <1>7, <2>1, PartsStay, TakeBatchIs DEF Typed
<1> QED
  BY <1>5, <1>6, <1>7 DEF EnqueuePersistence

LEMMA BroadcastTypes ==
    ASSUME Typed, NoPostTwice, NEW s \in Streams, Broadcast(s)
    PROVE  Typed' /\ NoPostTwice'
<1>1. work[s] \in Seq(Events) /\ work[s] # <<>>
  BY DEF Broadcast, Typed, ProcessorsTyped
<1>2. Head(work[s]) \in Events /\ Tail(work[s]) \in Seq(Events)
  BY <1>1
<1>3. ProcessorsTyped'
  BY <1>2 DEF Broadcast, Typed, ProcessorsTyped, persistence
<1>4. BridgeTyped'
  <2>1. [ev |-> Head(work[s]), stream |-> s] \in Items
    BY <1>2 DEF Items
  <2> QED
    BY <2>1 DEF Broadcast, Typed, BridgeTyped
<1> QED
  BY <1>3, <1>4, PartsStay DEF Broadcast, Typed, persistence, provider

-----------------------------------------------------------------------------
(* The worker's steps.                                                     *)
LEMMA BatchesAreHeld == Batches \subseteq HeldBatches
BY DEF Batches, HeldBatches

LEMMA WorkerTakesTypes ==
    ASSUME Typed, NoPostTwice, WorkerTakes
    PROVE  Typed' /\ NoPostTwice'
<1>1. pq \in Seq(Batches) /\ pq # <<>>
  BY DEF WorkerTakes, Typed, ProcessorsTyped
<1>2. /\ Head(pq) \in Batches /\ Tail(pq) \in Seq(Batches) /\ Head(pq) = pq[1]
      /\ 1 \in DOMAIN pq /\ \A k \in DOMAIN Tail(pq) : k + 1 \in DOMAIN pq /\ Tail(pq)[k] = pq[k + 1]
  BY <1>1
<1>3. ProcessorsTyped' /\ WorkerTyped'
  BY <1>2, BatchesAreHeld DEF WorkerTakes, Typed, ProcessorsTyped, WorkerTyped, WorkerSteps
<1>4. NoPostTwice'
  BY <1>2 DEF WorkerTakes, NoPostTwice
<1> QED
  BY <1>3, <1>4, PartsStay DEF WorkerTakes, Typed, provider

LEMMA WritesAreTyped ==
    ASSUME Typed, NoPostTwice, NEW done \in SUBSET Writes(wbatch), PersistWrites(done)
    PROVE  /\ db' \in [Posts -> Versions] /\ behind' \subseteq Posts
           /\ entries' \in [Streams -> SUBSET Posts]
<1>1. wbatch \in HeldBatches
  BY DEF Typed, WorkerTyped
<1>2. ASSUME NEW p \in Posts, \E i \in done : wbatch.events[i].post = p
      PROVE  Stored(wbatch.events[LastWrite(wbatch, done, p)]) \in Versions
  BY <1>1, <1>2, LastWriteIs
<1>3. db' \in [Posts -> Versions]
  BY <1>2 DEF PersistWrites, Typed, DatabaseTyped
<1>4. \A i \in done : wbatch.events[i].post \in Posts
  <2>1. \A i \in done : wbatch.events[i] \in Events /\ wbatch.events[i] # Resync
    BY <1>1 DEF Writes, HeldBatches
  <2> QED
    BY <2>1, EventKinds
<1>5. entries' \in [Streams -> SUBSET Posts] /\ behind' \subseteq Posts
  BY <1>4 DEF PersistWrites, Typed, DatabaseTyped
<1> QED
  BY <1>3, <1>5

LEMMA PersistTypes ==
    ASSUME Typed, NoPostTwice, PersistSucceeds \/ PersistFails
    PROVE  Typed' /\ NoPostTwice'
<1>1. PICK done \in SUBSET Writes(wbatch) : PersistWrites(done)
  BY DEF PersistSucceeds, PersistFails, Prefixes
<1>2. DatabaseTyped'
  <2>1. faults' \in Nat
    BY DEF PersistSucceeds, PersistFails, Typed, DatabaseTyped
  <2> QED
    BY <1>1, <2>1, WritesAreTyped DEF DatabaseTyped
<1>3. WorkerTyped'
  BY DEF PersistSucceeds, PersistFails, Typed, WorkerTyped, WorkerSteps
<1>4. FlagsTyped'
  BY DEF PersistSucceeds, PersistFails, Typed, FlagsTyped
<1> QED
  BY <1>2, <1>3, <1>4, PartsStay DEF PersistSucceeds, PersistFails, Typed, provider

LEMMA AnnounceTypes ==
    ASSUME Typed, NoPostTwice, AnnounceCommit
    PROVE  Typed' /\ NoPostTwice'
<1>1. NoBatch \in HeldBatches /\ OnePerPost(NoBatch.events)
  BY DEF NoBatch, HeldBatches, OnePerPost
<1>2. WorkerTyped' /\ NoPostTwice'
  BY <1>1 DEF AnnounceCommit, Typed, WorkerTyped, WorkerSteps, NoPostTwice
<1>3. BridgeTyped'
  <2>1. [ev |-> Committed, stream |-> "none"] \in Items
    BY DEF Items
  <2> QED
    BY <2>1 DEF AnnounceCommit, Typed, BridgeTyped
<1> QED
  BY <1>2, <1>3, PartsStay DEF AnnounceCommit, Typed, provider

LEMMA CheckTypes ==
    ASSUME Typed, NoPostTwice, CheckEmpty \/ SwapLagged
    PROVE  Typed' /\ NoPostTwice'
<1>1. WorkerTyped'
  BY DEF CheckEmpty, SwapLagged, Typed, WorkerTyped, WorkerSteps
<1>2. FlagsTyped'
  BY DEF CheckEmpty, SwapLagged, Typed, FlagsTyped
<1> QED
  BY <1>1, <1>2, PartsStay DEF CheckEmpty, SwapLagged, Typed, provider

LEMMA RequestResyncTypes ==
    ASSUME Typed, NoPostTwice, RequestResync
    PROVE  Typed' /\ NoPostTwice'
<1>1. WorkerTyped' /\ FlagsTyped'
  BY DEF RequestResync, Typed, WorkerTyped, WorkerSteps, FlagsTyped
<1>2. BridgeTyped'
  <2>1. [ev |-> Resync, stream |-> "none"] \in Items
    BY ChangesAreEvents DEF Items
  <2> QED
    BY <2>1 DEF RequestResync, Typed, BridgeTyped
<1> QED
  BY <1>1, <1>2, PartsStay DEF RequestResync, Typed, provider

(* The bridge and the WebView.                                             *)
LEMMA ForwardTypes ==
    ASSUME Typed, NoPostTwice, Forward
    PROVE  Typed' /\ NoPostTwice'
<1> DEFINE item == Head(bridge)
           e == [ev |-> item.ev, stream |-> item.stream, at |-> Position]
<1>1. item \in Items /\ Tail(bridge) \in Seq(Items)
  <2>1. bridge \in Seq(Items) /\ bridge # <<>>
    BY DEF Forward, Typed, BridgeTyped
  <2> QED
    BY <2>1
<1>2. gen' \in Nat /\ seq' \in Nat /\ epoch' \in Nat
  BY DEF Forward, Number, Typed, BridgeTyped
<1>3. Position \in Positions
  BY <1>2 DEF Forward, Position, Positions
<1>4. e \in Sendings
  BY <1>1, <1>3 DEF Items, Sendings
<1>5. wire' = Append(wire, e) /\ seen' = seen
  BY DEF Forward
<1> HIDE DEF e
<1>6. WebViewTyped'
  BY <1>4, <1>5 DEF Typed, WebViewTyped
<1>7. BridgeTyped'
  BY <1>1, <1>2 DEF Forward, Typed, BridgeTyped
<1>8. BesidesTyped'
  <2>1. item.ev.kind = "notice" => item.ev \in Copies
    BY <1>1, EventKinds DEF Items, Committed
  <2>2. owed' \in Seq(Copies)
    BY <2>1 DEF Forward
  <2> QED
    BY <2>2 DEF Forward, Typed, BesidesTyped
<1> QED
  BY <1>6, <1>7, <1>8, PartsStay DEF Forward, Typed, provider, persistence

LEMMA HandOverTypes ==
    ASSUME Typed, NoPostTwice, HandOver
    PROVE  Typed' /\ NoPostTwice'
<1>1. owed \in Seq(Copies) /\ owed # <<>> /\ side \in [0..MaxRestarts -> Seq(Copies)]
  BY DEF HandOver, Typed, BesidesTyped
<1>2. Head(owed) \in Copies
  BY <1>1
<1>3. side' \in [0..MaxRestarts -> Seq(Copies)]
  <2>1. side' = [side EXCEPT ![epoch] = Append(side[epoch], Head(owed))]
    BY DEF HandOver
  <2>2. epoch \in 0..MaxRestarts => Append(side[epoch], Head(owed)) \in Seq(Copies)
    BY <1>1, <1>2
  <2>3. ASSUME NEW X, epoch \in 0..MaxRestarts => X \in Seq(Copies)
        PROVE  [side EXCEPT ![epoch] = X] \in [0..MaxRestarts -> Seq(Copies)]
    BY <1>1, <2>3
  <2> QED
    BY <2>1, <2>2, <2>3
<1>4. BesidesTyped'
  BY <1>2, <1>3 DEF HandOver, Typed, BesidesTyped
<1> QED
  BY <1>4, PartsStay DEF HandOver, Typed, provider, persistence

LEMMA EchoTypes ==
    ASSUME Typed, NoPostTwice, EmitEcho
    PROVE  Typed' /\ NoPostTwice'
<1>1. [ev |-> Committed, stream |-> "none", at |-> Nowhere] \in Sendings
  BY DEF Sendings, Nowhere, Positions
<1>2. wire' \in Seq(Sendings) /\ seen' = seen
  <2>1. wire \in Seq(Sendings)
    BY DEF Typed, WebViewTyped
  <2> QED
    BY <1>1, <2>1 DEF EmitEcho
<1>3. WebViewTyped' /\ BesidesTyped'
  BY <1>2 DEF EmitEcho, Typed, WebViewTyped, BesidesTyped
<1> QED
  BY <1>3, PartsStay DEF EmitEcho, Typed, provider, persistence

LEMMA DisplayTypes ==
    ASSUME Typed, NoPostTwice, Display
    PROVE  Typed' /\ NoPostTwice'
<1>1. wire \in Seq(Sendings) /\ wire # <<>> /\ seen \in Positions
  BY DEF Display, TakeWire, Typed, WebViewTyped
<1>2. Head(wire) \in Sendings /\ Tail(wire) \in Seq(Sendings)
  BY <1>1
<1>3. Head(wire).at \in Positions
  BY <1>2 DEF Sendings
<1>4. WebViewTyped'
  BY <1>1, <1>2, <1>3 DEF Display, TakeWire, WebViewTyped
<1> QED
  BY <1>4, PartsStay DEF Display, Typed, provider, persistence

LEMMA RestartTypes ==
    ASSUME Typed, NoPostTwice, Restart
    PROVE  Typed' /\ NoPostTwice'
<1>0. NoBatch \in HeldBatches /\ OnePerPost(NoBatch.events) /\ \A S : <<>> \in Seq(S)
  BY DEF NoBatch, HeldBatches, OnePerPost
<1>1. SocketsTyped'
  BY <1>0 DEF Restart, Typed, SocketsTyped, provider
<1>2. ProcessorsTyped' /\ WorkerTyped' /\ NoPostTwice'
  BY <1>0 DEF Restart, ProcessorsTyped, WorkerTyped, WorkerSteps, NoPostTwice
<1>3. FlagsTyped'
  <2>1. (missed \/ wpc = "persist" \/ pq # <<>> \/ \E s \in Streams : raw[s] # <<>>) \in BOOLEAN
    BY Zenon
  <2> QED
    BY <2>1 DEF Restart, FlagsTyped
<1>4. DatabaseTyped'
  <2>1. CASE wpc = "persist"
    <3>1. PICK done \in SUBSET Writes(wbatch) : PersistWrites(done)
      BY <2>1 DEF Restart, Prefixes
    <3> QED
      BY <3>1, WritesAreTyped DEF Restart, Typed, DatabaseTyped
  <2>2. CASE wpc # "persist"
    BY <2>2 DEF Restart, Typed, DatabaseTyped
  <2> QED
    BY <2>1, <2>2
<1>5. BridgeTyped' /\ WebViewTyped' /\ BesidesTyped'
  BY <1>0 DEF Restart, Typed, BridgeTyped, WebViewTyped, BesidesTyped, webview
<1> QED
  BY <1>1, <1>2, <1>3, <1>4, <1>5, PartsStay DEF Restart, Typed

(* The other writers.                                                      *)
LEMMA CopyTypes ==
    ASSUME Typed, NoPostTwice, NEW s \in Streams, NEW copy \in Copies, ReceiveCopy(s, copy)
    PROVE  Typed' /\ NoPostTwice'
<1>1. copy \in Events
  BY EventKinds
<1>2. SocketsTyped' /\ BesidesTyped'
  BY <1>1 DEF ReceiveCopy, Typed, SocketsTyped, BesidesTyped, provider
<1> QED
  BY <1>2, PartsStay DEF ReceiveCopy, Typed, persistence

LEMMA SavedRows ==
    ASSUME Typed, NEW copy, SaveCopies(copy), \A p \in DOMAIN copy : copy[p] \in Versions
    PROVE  db' \in [Posts -> Versions] /\ behind' \subseteq Posts
BY DEF SaveCopies, Typed, DatabaseTyped

LEMMA OtherWriterTypes ==
    ASSUME Typed, NoPostTwice, OtherWriterStep
    PROVE  Typed' /\ NoPostTwice'
<1>1. \A copy \in Answers : \A p \in DOMAIN copy : p \in Posts /\ copy[p] \in Versions
  BY DEF Answers
<1>2. ASSUME NEW copy \in Answers, SavePage(copy) PROVE Typed' /\ NoPostTwice'
  <2>1. DatabaseTyped'
    BY <1>1, <1>2, SavedRows DEF SavePage, Typed, DatabaseTyped
  <2>2. BesidesTyped'
    BY <1>2 DEF SavePage, Typed, BesidesTyped
  <2> QED
    BY <1>2, <2>1, <2>2, PartsStay DEF SavePage, Typed, provider, persistence
<1>3. ASSUME NEW copy \in Answers, NEW p \in Posts, QuoteSaves(p, copy)
      PROVE  Typed' /\ NoPostTwice'
  <2>1. DatabaseTyped'
    BY <1>1, <1>3, SavedRows DEF QuoteSaves, Typed, DatabaseTyped
  <2>2. [kind |-> "edit", post |-> p, ver |-> copy[p]] \in Events
    BY <1>1, <1>3 DEF QuoteSaves, Events, Changes
  <2>3. <<Committed, [kind |-> "edit", post |-> p, ver |-> copy[p]]>>
           \in Seq(Events \cup {Committed})
    BY <2>2
  <2>4. BesidesTyped'
    BY <1>3, <2>3 DEF QuoteSaves, Typed, BesidesTyped
  <2> QED
    BY <1>3, <2>1, <2>4, PartsStay DEF QuoteSaves, Typed, provider, persistence
<1>4. ASSUME NEW p \in Posts, QuoteTells(p) PROVE Typed' /\ NoPostTwice'
  <2>1. telling[p] \in Seq(Events \cup {Committed}) /\ telling[p] # <<>>
    BY <1>4 DEF QuoteTells, Typed, BesidesTyped
  <2>2. /\ Head(telling[p]) \in Events \cup {Committed}
        /\ Tail(telling[p]) \in Seq(Events \cup {Committed})
    BY <2>1
  <2>3. [ev |-> Head(telling[p]), stream |-> "none"] \in Items
    BY <2>2 DEF Items
  <2>4. BridgeTyped'
    BY <1>4, <2>3 DEF QuoteTells, Typed, BridgeTyped
  <2>5. BesidesTyped'
    BY <1>4, <2>2 DEF QuoteTells, Typed, BesidesTyped
  <2> QED
    BY <1>4, <2>4, <2>5, PartsStay DEF QuoteTells, Typed, provider, persistence
<1>5. ASSUME NEW b \in 0..MaxRestarts, SideEnds(b) PROVE Typed' /\ NoPostTwice'
  <2>1. side[b] \in Seq(Copies) /\ side[b] # <<>>
    BY <1>5 DEF SideEnds, Typed, BesidesTyped
  <2>2. Head(side[b]) \in Copies /\ Tail(side[b]) \in Seq(Copies)
    BY <2>1
  <2>3. db' \in [Posts -> Versions] /\ behind' \subseteq Posts
    <3> DEFINE copy == [p \in {Head(side[b]).post} |-> Head(side[b]).ver]
    <3>1. \A p \in DOMAIN copy : copy[p] \in Versions
      BY <2>2, EventKinds
    <3>2. SaveCopies(copy) \/ UNCHANGED <<db, behind>>
      BY <1>5 DEF SideEnds
    <3> HIDE DEF copy
    <3> QED
      BY <3>1, <3>2, SavedRows DEF Typed, DatabaseTyped
  <2>4. DatabaseTyped'
    BY <1>5, <2>3 DEF SideEnds, Typed, DatabaseTyped
  <2>5. BesidesTyped'
    BY <1>5, <2>2 DEF SideEnds, Typed, BesidesTyped
  <2> QED
    BY <1>5, <2>4, <2>5, PartsStay DEF SideEnds, Typed, provider, persistence
<1> QED
  BY <1>2, <1>3, <1>4, <1>5 DEF OtherWriterStep

LEMMA StepTypes ==
    ASSUME Typed, NoPostTwice, \A s \in Streams : DeleteIsLast(raw[s]), [Next]_vars
    PROVE  Typed' /\ NoPostTwice'
<1>1. CASE ProviderStep
  BY <1>1, ProviderChanges, ChangeTypes DEF Typed
<1>2. CASE SocketStep
  BY <1>2, ConnectTypes, DisconnectTypes, ReceiveTypes DEF SocketStep
<1>3. CASE ProcessorStep
  BY <1>3, TakeBatchTypes, BroadcastTypes DEF ProcessorStep
<1>4. CASE WorkerStep
  BY <1>4, WorkerTakesTypes, PersistTypes, AnnounceTypes, CheckTypes, RequestResyncTypes
     DEF WorkerStep
<1>5. CASE BridgeStep
  BY <1>5, ForwardTypes, HandOverTypes, EchoTypes DEF BridgeStep
<1>6. CASE Restart
  BY <1>6, RestartTypes
<1>7. CASE Display
  BY <1>7, DisplayTypes
<1>8. CASE UNCHANGED vars
  BY <1>8, PartsStay DEF vars, Typed, provider, persistence
<1>9. CASE CopyStep \/ OtherWriterStep
  BY <1>9, CopyTypes, OtherWriterTypes DEF CopyStep
<1> QED
  BY <1>1, <1>2, <1>3, <1>4, <1>5, <1>6, <1>7, <1>8, <1>9 DEF Next, BackendStep

-----------------------------------------------------------------------------
(* The provider's log: a post that was deleted stays gone, and the last    *)
(* change of a post says what it is.                                       *)
LogInv ==
    /\ DeleteIsLast(log)
    /\ \A p \in Posts : Deleted(p) => post[p] = 0
    /\ \A p \in Posts : \A i \in DOMAIN log :
          LastAbout(log, Len(log), p, i) => Stored(log[i]) = post[p]

(* A change c of p that is appended to the log.                            *)
Appended(p, c) ==
    /\ c \in Changes /\ c.post = p /\ ~Deleted(p)
    /\ post'[p] = Stored(c) /\ (c.kind = "delete" => post'[p] = 0)
    /\ \A q \in Posts : q # p => post'[q] = post[q]
    /\ Len(log) \in Nat /\ Len(log') = Len(log) + 1
    /\ DOMAIN log = 1..Len(log) /\ DOMAIN log' = 1..(Len(log) + 1)
    /\ \A i \in 1..Len(log) : log'[i] = log[i]
    /\ log'[Len(log) + 1] = c

LEMMA ChangeAppends ==
    ASSUME ProviderTyped, LogInv, NEW p \in Posts, Changed(p)
    PROVE  \E c : Appended(p, c)
<1>1. PICK kind \in {"new", "edit", "delete"}, v \in Versions :
          /\ Change(kind, p, v)
          /\ kind = "new" => v = 1 /\ post[p] = 0 /\ ~Deleted(p)
          /\ kind = "edit" => v > 0 /\ post[p] > 0
          /\ kind = "delete" => v = 0 /\ post[p] > 0
  BY DEF Changed
<1> DEFINE c == [kind |-> kind, post |-> p, ver |-> v]
<1>2. c \in Changes /\ c.post = p /\ c.kind = kind /\ c.ver = v
  BY DEF Changes
<1>3. ~Deleted(p)
  BY <1>1 DEF LogInv
<1>4. post' = [post EXCEPT ![p] = IF kind = "delete" THEN 0 ELSE v] /\ log' = Append(log, c)
  BY <1>1 DEF Change
<1> HIDE DEF c
<1>5. /\ post'[p] = Stored(c) /\ (c.kind = "delete" => post'[p] = 0)
      /\ \A q \in Posts : q # p => post'[q] = post[q]
  BY <1>2, <1>4 DEF ProviderTyped, Stored, IsSave
<1>6. /\ Len(log) \in Nat /\ Len(log') = Len(log) + 1
      /\ DOMAIN log = 1..Len(log) /\ DOMAIN log' = 1..(Len(log) + 1)
      /\ \A i \in 1..Len(log) : log'[i] = log[i]
      /\ log'[Len(log) + 1] = c
  BY <1>2, <1>4 DEF ProviderTyped
<1> QED
  BY <1>2, <1>3, <1>5, <1>6 DEF Appended

LEMMA LogKinds ==
    ASSUME ProviderTyped
    PROVE  \A i \in DOMAIN log : log[i] \in Changes /\ IsChange(log[i]) /\ log[i].post \in Posts
BY EventKinds DEF ProviderTyped

LEMMA ChangeKeepsLog ==
    ASSUME ProviderTyped, LogInv, NEW p \in Posts, NEW c, Appended(p, c)
    PROVE  LogInv'
<1> DEFINE n == Len(log)
<1>1. n \in Nat /\ DOMAIN log = 1..n /\ DOMAIN log' = 1..(n + 1) /\ Len(log') = n + 1
  BY DEF Appended
<1>2. (\A i \in 1..n : log'[i] = log[i]) /\ log'[n + 1] = c /\ c.post = p /\ IsChange(c)
  BY EventKinds DEF Appended
<1>3. \A i \in 1..n : log[i].post = p => log[i].kind # "delete"
  BY <1>1 DEF Appended, Deleted
<1> HIDE DEF n
<1>4. DeleteIsLast(log')
  <2> SUFFICES ASSUME NEW i \in 1..(n + 1), NEW j \in 1..(n + 1), i < j, log'[i].post = log'[j].post,
                      IsChange(log'[i]), IsChange(log'[j])
               PROVE  log'[i].kind # "delete"
    BY <1>1 DEF DeleteIsLast
  <2>1. i \in 1..n /\ log'[i] = log[i]
    BY <1>1, <1>2
  <2>2. CASE j = n + 1
    BY <1>2, <1>3, <2>1, <2>2
  <2>3. CASE j # n + 1
    <3>1. j \in 1..n /\ log'[j] = log[j]
      BY <1>1, <1>2, <2>3
    <3> QED
      BY <1>1, <2>1, <3>1 DEF LogInv, DeleteIsLast
  <2> QED
    BY <2>2, <2>3
<1>5. ASSUME NEW q \in Posts, Deleted(q)' PROVE post'[q] = 0
  <2>1. PICK i \in DOMAIN log' : log'[i].kind = "delete" /\ log'[i].post = q
    BY <1>5 DEF Deleted
  <2>2. CASE i = n + 1
    BY <1>2, <2>1, <2>2 DEF Appended
  <2>3. CASE i # n + 1
    <3>1. i \in 1..n /\ log[i].kind = "delete" /\ log[i].post = q
      BY <1>1, <1>2, <2>1, <2>3
    <3>2. Deleted(q) /\ q # p
      BY <1>1, <1>3, <3>1 DEF Deleted
    <3> QED
      BY <3>2 DEF LogInv, Appended
  <2> QED
    BY <2>2, <2>3
<1>6. ASSUME NEW q \in Posts, NEW i \in DOMAIN log', LastAbout(log', n + 1, q, i)
      PROVE  Stored(log'[i]) = post'[q]
  <2>1. CASE i = n + 1
    <3>1. q = p /\ log'[i] = c
      BY <1>2, <1>6, <2>1 DEF LastAbout, About
    <3> QED
      BY <3>1 DEF Appended
  <2>2. CASE i # n + 1
    <3>1. i \in 1..n /\ log'[i] = log[i] /\ n + 1 \in (i + 1)..(n + 1)
      BY <1>1, <1>2, <2>2
    <3>2. ~About(c, q)
      BY <1>2, <1>6, <3>1 DEF LastAbout
    <3>3. q # p
      BY <1>2, <3>2 DEF About
    <3>4. LastAbout(log, n, q, i)
      <4>1. \A j \in (i + 1)..n : j \in (i + 1)..(n + 1) /\ log'[j] = log[j]
        BY <1>1, <1>2, <3>1
      <4> QED
        BY <1>6, <3>1, <4>1 DEF LastAbout
    <3> QED
      BY <1>1, <3>1, <3>3, <3>4 DEF LogInv, Appended, n
  <2> QED
    BY <2>1, <2>2
<1> QED
  BY <1>1, <1>4, <1>5, <1>6 DEF LogInv

LEMMA OthersKeepLog ==
    ASSUME LogInv, UNCHANGED <<post, log>>
    PROVE  LogInv'
BY DEF LogInv, Deleted

-----------------------------------------------------------------------------
(* The sockets: what a stream has not delivered yet, and what waits in its *)
(* queue.                                                                  *)
Unread(s, p) == \E i \in DOMAIN log : i > read[s] /\ log[i].post = p
Queued(s, p) == \E i \in DOMAIN raw[s] : About(raw[s][i], p)

(* A queue holds nothing after the deletion of a post, and the deletion    *)
(* only as the last change there is; unless a change was missed, what it   *)
(* says last of a post with nothing left to deliver is what the post is.   *)
QueueOK(s) ==
    /\ DeleteIsLast(raw[s])
    /\ \A i \in DOMAIN raw[s] : raw[s][i].kind = "delete" =>
          Deleted(raw[s][i].post) /\ ~Unread(s, raw[s][i].post)
    /\ ~missed => \A p \in Posts : ~Unread(s, p) =>
          \A i \in DOMAIN raw[s] :
              LastAbout(raw[s], Len(raw[s]), p, i) => Stored(raw[s][i]) = post[p]

RawInv == \A s \in Streams : QueueOK(s)

LEMMA ChangeIsUnread ==
    ASSUME Typed, NEW p \in Posts, NEW c, Appended(p, c), read' = read, NEW s \in Streams
    PROVE  /\ \A q \in Posts : Unread(s, q)' <=> Unread(s, q) \/ q = p
           /\ \A q \in Posts : Deleted(q) => Deleted(q)' /\ q # p
<1>1. read[s] \in 0..Len(log) /\ Len(log) \in Nat
  BY DEF Typed, SocketsTyped, ProviderTyped
<1>2. \A i \in DOMAIN log' :
         \/ i \in DOMAIN log /\ log'[i] = log[i]
         \/ i = Len(log) + 1 /\ log'[i] = c
  <2>1. /\ DOMAIN log = 1..Len(log) /\ DOMAIN log' = 1..(Len(log) + 1)
        /\ \A i \in 1..Len(log) : log'[i] = log[i]
        /\ log'[Len(log) + 1] = c
    BY DEF Appended
  <2>2. \A i \in 1..(Len(log) + 1) : i \in 1..Len(log) \/ i = Len(log) + 1
    BY <1>1
  <2> QED
    BY <2>1, <2>2
<1>3. \A i \in DOMAIN log : i \in DOMAIN log' /\ log'[i] = log[i]
  <2>1. /\ DOMAIN log = 1..Len(log) /\ DOMAIN log' = 1..(Len(log) + 1)
        /\ \A i \in 1..Len(log) : log'[i] = log[i]
    BY DEF Appended
  <2>2. \A i \in 1..Len(log) : i \in 1..(Len(log) + 1)
    BY <1>1
  <2> QED
    BY <2>1, <2>2
<1>4. Len(log) + 1 \in DOMAIN log' /\ log'[Len(log) + 1] = c /\ c.post = p /\ ~Deleted(p)
  <2>1. /\ DOMAIN log' = 1..(Len(log) + 1)
        /\ log'[Len(log) + 1] = c /\ c.post = p /\ ~Deleted(p)
    BY DEF Appended
  <2> QED
    BY <1>1, <2>1
<1>5. \A q \in Posts : Unread(s, q)' <=> Unread(s, q) \/ q = p
  <2>1. ASSUME NEW q \in Posts, Unread(s, q)' PROVE Unread(s, q) \/ q = p
    BY <1>2, <1>4, <2>1 DEF Unread
  <2>2. ASSUME NEW q \in Posts, Unread(s, q) PROVE Unread(s, q)'
    BY <1>3, <2>2 DEF Unread
  <2>3. Unread(s, p)'
    BY <1>1, <1>4 DEF Unread
  <2> QED
    BY <2>1, <2>2, <2>3
<1>6. ASSUME NEW q \in Posts, Deleted(q) PROVE Deleted(q)' /\ q # p
  BY <1>3, <1>4, <1>6 DEF Deleted
<1> QED
  BY <1>5, <1>6

LEMMA ChangeKeepsQueues ==
    ASSUME Typed, RawInv, NEW p \in Posts, NEW c, Appended(p, c),
           UNCHANGED <<read, raw, missed>>
    PROVE  RawInv'
<1> SUFFICES ASSUME NEW s \in Streams PROVE QueueOK(s)'
  BY DEF RawInv
<1>0. QueueOK(s) /\ raw[s] \in Seq(Events)
  BY DEF RawInv, Typed, SocketsTyped
<1>1. /\ \A q \in Posts : Unread(s, q)' <=> Unread(s, q) \/ q = p
      /\ \A q \in Posts : Deleted(q) => Deleted(q)' /\ q # p
  BY ChangeIsUnread
<1>2. \A i \in DOMAIN raw[s] : raw[s][i].kind = "delete" => raw[s][i].post \in Posts
  <2>1. \A i \in DOMAIN raw[s] : raw[s][i] \in Events
    BY <1>0
  <2> QED
    BY <2>1, EventKinds
<1>3. \A i \in DOMAIN raw[s] : raw[s][i].kind = "delete" =>
         Deleted(raw[s][i].post)' /\ ~Unread(s, raw[s][i].post)'
  BY <1>0, <1>1, <1>2 DEF QueueOK
<1>4. \A q \in Posts : ~Unread(s, q)' => ~Unread(s, q) /\ post'[q] = post[q]
  BY <1>1 DEF Appended
<1>5. raw' = raw /\ missed' = missed
  OBVIOUS
<1>6. /\ DeleteIsLast(raw[s])
      /\ ~missed => \A q \in Posts : ~Unread(s, q) =>
            \A i \in DOMAIN raw[s] :
                LastAbout(raw[s], Len(raw[s]), q, i) => Stored(raw[s][i]) = post[q]
  BY <1>0 DEF QueueOK
<1> QED
  BY <1>3, <1>4, <1>5, <1>6 DEF QueueOK

LEMMA OthersKeepQueues ==
    ASSUME RawInv, UNCHANGED <<post, log, read, raw>>, ~missed' => ~missed
    PROVE  RawInv'
BY DEF RawInv, QueueOK, Deleted, Unread

(* What a connection does to the queue of its stream.                      *)
LEMMA ConnectFacts ==
    ASSUME Typed, NEW s \in Streams, Connect(s)
    PROVE  /\ UNCHANGED provider /\ raw[s] \in Seq(Events)
           /\ \A q \in Posts : ~Unread(s, q)'
           /\ ~missed' => ~missed /\ \A q \in Posts : ~Unread(s, q)
           /\ \/ raw'[s] = raw[s]
              \/ /\ raw'[s] = Append(raw[s], Resync)
                 /\ Len(raw[s]) \in Nat /\ DOMAIN raw[s] = 1..Len(raw[s])
                 /\ Len(raw'[s]) = Len(raw[s]) + 1
                 /\ DOMAIN raw'[s] = 1..(Len(raw[s]) + 1)
                 /\ \A i \in 1..Len(raw[s]) : raw'[s][i] = raw[s][i]
                 /\ raw'[s][Len(raw[s]) + 1] = Resync
           /\ \A t \in Streams \ {s} : raw'[t] = raw[t] /\ read'[t] = read[t]
<1>1. raw[s] \in Seq(Events) /\ Append(raw[s], Resync) \in Seq(Events)
  BY ChangesAreEvents DEF Typed, SocketsTyped
<1>2. DOMAIN log = 1..Len(log) /\ Len(log) \in Nat /\ read[s] \in 0..Len(log)
  BY DEF Typed, SocketsTyped, ProviderTyped
<1>3. log' = log /\ post' = post /\ read'[s] = Len(log)
  BY DEF Connect, provider, Typed, SocketsTyped
<1>4. \A q \in Posts : ~Unread(s, q)'
  BY <1>2, <1>3 DEF Unread
<1>5. ~missed' => ~missed /\ read[s] = Len(log)
  <2>1. missed' = (missed \/ read[s] < Len(log))
    BY DEF Connect
  <2>2. ~missed' => ~missed /\ ~(read[s] < Len(log))
    BY <2>1, Zenon
  <2> QED
    BY <1>2, <2>2
<1>6. ~missed' => ~missed /\ \A q \in Posts : ~Unread(s, q)
  BY <1>2, <1>5 DEF Unread
<1>7. \/ raw'[s] = raw[s]
      \/ raw'[s] = Append(raw[s], Resync)
  BY DEF Connect, Typed, SocketsTyped
<1>8. raw'[s] = Append(raw[s], Resync) =>
                 /\ Len(raw[s]) \in Nat /\ DOMAIN raw[s] = 1..Len(raw[s])
                 /\ Len(raw'[s]) = Len(raw[s]) + 1
                 /\ DOMAIN raw'[s] = 1..(Len(raw[s]) + 1)
                 /\ \A i \in 1..Len(raw[s]) : raw'[s][i] = raw[s][i]
                 /\ raw'[s][Len(raw[s]) + 1] = Resync
  BY <1>1
<1>9. \A t \in Streams \ {s} : raw'[t] = raw[t] /\ read'[t] = read[t]
  BY DEF Connect, Typed, SocketsTyped
<1> QED
  BY <1>1, <1>3, <1>4, <1>6, <1>7, <1>8, <1>9 DEF provider

LEMMA ConnectKeepsQueues ==
    ASSUME Typed, RawInv, NEW s \in Streams, Connect(s)
    PROVE  RawInv'
<1> SUFFICES ASSUME NEW t \in Streams PROVE QueueOK(t)'
  BY DEF RawInv
<1>1. QueueOK(t) /\ post' = post /\ log' = log /\ (~missed' => ~missed)
  BY ConnectFacts DEF RawInv, provider
<1>2. CASE t # s
  <2>1. raw'[t] = raw[t] /\ read'[t] = read[t]
    BY <1>2, ConnectFacts
  <2> QED
    BY <1>1, <2>1 DEF QueueOK, Unread, Deleted
<1>3. CASE t = s
  <2>0. \A q \in Posts : ~Unread(s, q)' /\ (Deleted(q)' <=> Deleted(q))
    BY <1>1, ConnectFacts DEF Deleted
  <2>1. ASSUME NEW i \in DOMAIN raw[s] PROVE raw[s][i].kind = "delete" => raw[s][i].post \in Posts
    <3>1. raw[s][i] \in Events
      BY ConnectFacts
    <3> QED
      BY <3>1, EventKinds
  <2>2. CASE raw'[s] = raw[s]
    BY <1>1, <1>3, <2>0, <2>1, <2>2, ConnectFacts DEF QueueOK
  <2>3. CASE raw'[s] # raw[s]
    <3> DEFINE n == Len(raw[s])
    <3>1. /\ n \in Nat /\ DOMAIN raw[s] = 1..n /\ Len(raw'[s]) = n + 1
          /\ DOMAIN raw'[s] = 1..(n + 1)
          /\ \A i \in 1..n : raw'[s][i] = raw[s][i]
          /\ raw'[s][n + 1] = Resync
      BY <2>3, ConnectFacts
    <3>2. Resync.kind = "resync" /\ \A p : ~About(Resync, p)
      BY EventKinds DEF About
    <3>3. DeleteIsLast(raw'[s])
      <4>1. DeleteIsLast(raw[s])
        BY <1>1, <1>3 DEF QueueOK
      <4>2. \A i \in DOMAIN raw'[s] :
               IsChange(raw'[s][i]) => i \in DOMAIN raw[s] /\ raw'[s][i] = raw[s][i]
        BY <3>1, EventKinds
      <4> QED
        BY <4>1, <4>2 DEF DeleteIsLast
    <3>4. ASSUME NEW i \in DOMAIN raw'[s], raw'[s][i].kind = "delete", NEW q, q = raw'[s][i].post
          PROVE  Deleted(q)' /\ ~Unread(s, q)'
      <4>1. i \in DOMAIN raw[s] /\ raw'[s][i] = raw[s][i]
        BY <3>1, <3>2, <3>4
      <4>2. q \in Posts /\ Deleted(q)
        BY <1>1, <1>3, <2>1, <3>4, <4>1 DEF QueueOK
      <4> QED
        BY <2>0, <4>2
    <3>5. ASSUME ~missed', NEW p \in Posts, NEW i \in DOMAIN raw'[s], LastAbout(raw'[s], n + 1, p, i)
          PROVE  Stored(raw'[s][i]) = post'[p]
      <4>1. i \in 1..n /\ raw'[s][i] = raw[s][i]
        BY <3>1, <3>2, <3>5 DEF LastAbout
      <4>2. LastAbout(raw[s], n, p, i)
        <5>1. \A j \in (i + 1)..n : j \in (i + 1)..(n + 1) /\ raw'[s][j] = raw[s][j]
          BY <3>1, <4>1
        <5> QED
          BY <3>5, <4>1, <5>1 DEF LastAbout
      <4>3. ~missed /\ ~Unread(s, p)
        BY <3>5, ConnectFacts
      <4> QED
        BY <1>1, <1>3, <3>1, <4>1, <4>2, <4>3 DEF QueueOK
    <3>6. ~missed' => \A p \in Posts : \A i \in DOMAIN raw'[s] :
             LastAbout(raw'[s], Len(raw'[s]), p, i) => Stored(raw'[s][i]) = post'[p]
      BY <3>1, <3>5
    <3> HIDE DEF n
    <3> QED
      BY <1>3, <3>3, <3>4, <3>6 DEF QueueOK
  <2> QED
    BY <2>2, <2>3
<1> QED
  BY <1>2, <1>3

(* What a socket delivers, and what that leaves unread.                    *)
Delivered(s, e) ==
    /\ e \in Changes /\ IsChange(e) /\ e.post \in Posts
    /\ raw[s] \in Seq(Events) /\ Len(raw[s]) \in Nat /\ DOMAIN raw[s] = 1..Len(raw[s])
    /\ Len(raw'[s]) = Len(raw[s]) + 1 /\ DOMAIN raw'[s] = 1..(Len(raw[s]) + 1)
    /\ \A i \in 1..Len(raw[s]) : raw'[s][i] = raw[s][i]
    /\ raw'[s][Len(raw[s]) + 1] = e
    /\ \A t \in Streams \ {s} : raw'[t] = raw[t] /\ read'[t] = read[t]
    /\ Unread(s, e.post)
    /\ \A q \in Posts : q # e.post => (Unread(s, q)' <=> Unread(s, q))
    /\ ~Unread(s, e.post)' => Stored(e) = post[e.post]
    /\ e.kind = "delete" => Deleted(e.post) /\ ~Unread(s, e.post)'

LEMMA ReceiveDelivers ==
    ASSUME Typed, LogInv, NEW s \in Streams, Receive(s)
    PROVE  \E e : Delivered(s, e)
<1> DEFINE n == Len(log)
           k == read[s] + 1
<1>1. n \in Nat /\ DOMAIN log = 1..n /\ read[s] \in 0..n /\ read[s] < n
  BY DEF Receive, Typed, SocketsTyped, ProviderTyped
<1>2. k \in 1..n /\ read'[s] = k /\ log' = log
  BY <1>1 DEF Receive, provider, Typed, SocketsTyped
<1>3. PICK e : e = log[k]
  OBVIOUS
<1>4. e \in Changes /\ IsChange(e) /\ e.post \in Posts /\ e \in Events
  BY <1>1, <1>2, <1>3, LogKinds, ChangesAreEvents DEF Typed
<1>5. raw' = [raw EXCEPT ![s] = Append(@, e)] /\ raw[s] \in Seq(Events)
  BY <1>3 DEF Receive, Typed, SocketsTyped
<1>6. /\ Len(raw[s]) \in Nat /\ DOMAIN raw[s] = 1..Len(raw[s])
      /\ Len(raw'[s]) = Len(raw[s]) + 1 /\ DOMAIN raw'[s] = 1..(Len(raw[s]) + 1)
      /\ \A i \in 1..Len(raw[s]) : raw'[s][i] = raw[s][i]
      /\ raw'[s][Len(raw[s]) + 1] = e
  <2>1. raw'[s] = Append(raw[s], e)
    BY <1>5 DEF Typed, SocketsTyped
  <2> QED
    BY <1>4, <1>5, <2>1
<1>7. \A t \in Streams \ {s} : raw'[t] = raw[t] /\ read'[t] = read[t]
  BY <1>5 DEF Receive, Typed, SocketsTyped
<1>8. \A q : Unread(s, q)' <=> \E i \in 1..n : i > k /\ log[i].post = q
  BY <1>1, <1>2 DEF Unread
<1>9. \A q : Unread(s, q) <=> \E i \in 1..n : i > read[s] /\ log[i].post = q
  BY <1>1 DEF Unread
<1>10. \A i \in 1..n : i > read[s] <=> i = k \/ i > k
  BY <1>1
<1>11. Unread(s, e.post)
  BY <1>1, <1>2, <1>3, <1>9
<1> HIDE DEF k, n
<1>12. \A q \in Posts : q # e.post => (Unread(s, q)' <=> Unread(s, q))
  BY <1>2, <1>3, <1>8, <1>9, <1>10
<1>13. ASSUME ~Unread(s, e.post)' PROVE Stored(e) = post[e.post]
  <2>1. \A i \in (k + 1)..n : log[i].post # e.post
    BY <1>1, <1>2, <1>8, <1>13
  <2>2. LastAbout(log, n, e.post, k)
    BY <1>2, <1>3, <1>4, <2>1 DEF LastAbout, About
  <2> QED
    BY <1>1, <1>2, <1>3, <1>4, <2>2 DEF LogInv, n
<1>14. ASSUME e.kind = "delete" PROVE Deleted(e.post) /\ ~Unread(s, e.post)'
  <2>1. Deleted(e.post)
    BY <1>1, <1>2, <1>3, <1>14 DEF Deleted
  <2>2. ASSUME NEW i \in 1..n, i > k, log[i].post = e.post PROVE FALSE
    <3>1. IsChange(log[i]) /\ IsChange(log[k])
      BY <1>1, <1>2, LogKinds DEF Typed
    <3>2. k < i
      BY <1>1, <1>2, <2>2
    <3> QED
      BY <1>1, <1>2, <1>3, <1>14, <2>2, <3>1, <3>2 DEF LogInv, DeleteIsLast
  <2> QED
    BY <1>8, <2>1, <2>2
<1> QED
  BY <1>4, <1>5, <1>6, <1>7, <1>11, <1>12, <1>13, <1>14 DEF Delivered

LEMMA ReceiveKeepsQueues ==
    ASSUME Typed, LogInv, RawInv, NEW s \in Streams, Receive(s)
    PROVE  RawInv'
<1> SUFFICES ASSUME NEW t \in Streams PROVE QueueOK(t)'
  BY DEF RawInv
<1>1. QueueOK(t) /\ post' = post /\ log' = log /\ missed' = missed
  BY DEF RawInv, Receive, provider
<1>2. PICK e : Delivered(s, e)
  BY ReceiveDelivers
<1>3. CASE t # s
  <2>1. raw'[t] = raw[t] /\ read'[t] = read[t]
    BY <1>2, <1>3 DEF Delivered
  <2> QED
    BY <1>1, <2>1 DEF QueueOK, Unread, Deleted
<1>4. CASE t = s
  <2> DEFINE n == Len(raw[s])
  <2>1. /\ n \in Nat /\ DOMAIN raw[s] = 1..n /\ Len(raw'[s]) = n + 1
        /\ DOMAIN raw'[s] = 1..(n + 1)
        /\ \A i \in 1..n : raw'[s][i] = raw[s][i]
        /\ raw'[s][n + 1] = e
        /\ IsChange(e) /\ e.post \in Posts
    BY <1>2 DEF Delivered
  <2>2. QueueOK(s)
    BY <1>1, <1>4
  <2>3. \A i \in 1..n : raw[s][i] \in Events
    BY <2>1 DEF Typed, SocketsTyped
  <2>4. \A i \in 1..n : raw[s][i].kind = "delete" =>
           /\ raw[s][i].post \in Posts /\ Deleted(raw[s][i].post) /\ raw[s][i].post # e.post
    BY <1>2, <2>1, <2>2, <2>3, EventKinds DEF QueueOK, Delivered
  <2> HIDE DEF n
  <2>5. DeleteIsLast(raw'[s])
    <3> SUFFICES ASSUME NEW i \in 1..(n + 1), NEW j \in 1..(n + 1), i < j,
                        IsChange(raw'[s][i]), IsChange(raw'[s][j]), raw'[s][i].post = raw'[s][j].post
                 PROVE  raw'[s][i].kind # "delete"
      BY <2>1 DEF DeleteIsLast
    <3>1. i \in 1..n /\ raw'[s][i] = raw[s][i]
      BY <2>1
    <3>2. CASE j = n + 1
      BY <2>1, <2>4, <3>1, <3>2
    <3>3. CASE j # n + 1
      <4>0. n \in Nat
        BY <2>1
      <4>1. j \in 1..n /\ raw'[s][j] = raw[s][j]
        <5>1. j \in 1..n
          BY <3>3, <4>0
        <5> QED
          BY <2>1, <5>1
      <4> QED
        BY <2>1, <2>2, <3>1, <4>1 DEF QueueOK, DeleteIsLast
    <3> QED
      BY <3>2, <3>3
  <2>6. ASSUME NEW i \in DOMAIN raw'[s], raw'[s][i].kind = "delete", NEW q, q = raw'[s][i].post
        PROVE  Deleted(q)' /\ ~Unread(s, q)'
    <3>1. Deleted(q) => Deleted(q)'
      BY <1>1 DEF Deleted
    <3>2. CASE i = n + 1
      BY <1>2, <2>1, <2>6, <3>1, <3>2 DEF Delivered
    <3>3. CASE i # n + 1
      <4>0. n \in Nat /\ i \in 1..(n + 1)
        BY <2>1
      <4>1. i \in 1..n /\ raw'[s][i] = raw[s][i]
        <5>1. i \in 1..n
          BY <3>3, <4>0
        <5> QED
          BY <2>1, <5>1
      <4>2. q \in Posts /\ q # e.post /\ Deleted(q)
        BY <2>4, <2>6, <4>1
      <4>3. ~Unread(s, q)
        BY <2>1, <2>2, <2>6, <4>1 DEF QueueOK
      <4> QED
        BY <1>2, <3>1, <4>2, <4>3 DEF Delivered
    <3> QED
      BY <3>2, <3>3
  <2>7. ASSUME ~missed', NEW p \in Posts, ~Unread(s, p)', NEW i \in DOMAIN raw'[s],
               LastAbout(raw'[s], n + 1, p, i)
        PROVE  Stored(raw'[s][i]) = post'[p]
    <3>1. CASE i = n + 1
      <4>1. raw'[s][i] = e /\ p = e.post
        BY <2>1, <2>7, <3>1 DEF LastAbout, About
      <4> QED
        BY <1>1, <1>2, <2>7, <4>1 DEF Delivered
    <3>2. CASE i # n + 1
      <4>1. i \in 1..n /\ raw'[s][i] = raw[s][i] /\ n + 1 \in (i + 1)..(n + 1)
        BY <2>1, <3>2
      <4>2. p # e.post
        BY <2>1, <2>7, <4>1 DEF LastAbout, About
      <4>3. ~Unread(s, p) /\ ~missed
        BY <1>1, <1>2, <2>7, <4>2 DEF Delivered
      <4>4. LastAbout(raw[s], n, p, i)
        <5>1. \A j \in (i + 1)..n : j \in (i + 1)..(n + 1) /\ raw'[s][j] = raw[s][j]
          BY <2>1, <4>1
        <5> QED
          BY <2>7, <4>1, <5>1 DEF LastAbout
      <4> QED
        BY <1>1, <2>1, <2>2, <4>1, <4>3, <4>4 DEF QueueOK, n
    <3> QED
      BY <3>1, <3>2
  <2>8. ~missed' => \A p \in Posts : ~Unread(s, p)' => \A i \in DOMAIN raw'[s] :
           LastAbout(raw'[s], Len(raw'[s]), p, i) => Stored(raw'[s][i]) = post'[p]
    BY <2>1, <2>7
  <2> QED
    BY <1>4, <2>5, <2>6, <2>8 DEF QueueOK
<1> QED
  BY <1>3, <1>4

(* What a notice or a boost with a copy of a post does to a queue.         *)
LEMMA CopyFacts ==
    ASSUME Typed, NEW s \in Streams, NEW copy \in Copies, ReceiveCopy(s, copy)
    PROVE  /\ UNCHANGED <<post, log, read, missed, pq, wpc, wbatch, db, behind>>
           /\ Len(raw[s]) \in Nat /\ DOMAIN raw[s] = 1..Len(raw[s])
           /\ Len(raw'[s]) = Len(raw[s]) + 1
           /\ DOMAIN raw'[s] = 1..(Len(raw[s]) + 1)
           /\ \A i \in 1..Len(raw[s]) : raw'[s][i] = raw[s][i]
           /\ raw'[s][Len(raw[s]) + 1] = copy
           /\ \A t \in Streams \ {s} : raw'[t] = raw[t]
           /\ copy.kind # "delete" /\ ~IsChange(copy)
<1>1. raw[s] \in Seq(Events) /\ copy \in Events
  BY EventKinds DEF Typed, SocketsTyped
<1>2. raw'[s] = Append(raw[s], copy) /\ \A t \in Streams \ {s} : raw'[t] = raw[t]
  BY DEF ReceiveCopy, Typed, SocketsTyped
<1>3. /\ Len(raw[s]) \in Nat /\ DOMAIN raw[s] = 1..Len(raw[s])
      /\ Len(raw'[s]) = Len(raw[s]) + 1
      /\ DOMAIN raw'[s] = 1..(Len(raw[s]) + 1)
      /\ \A i \in 1..Len(raw[s]) : raw'[s][i] = raw[s][i]
      /\ raw'[s][Len(raw[s]) + 1] = copy
  BY <1>1, <1>2
<1>4. UNCHANGED <<post, log, read, missed, pq, wpc, wbatch, db, behind>>
  BY DEF ReceiveCopy, provider, persistence, database
<1> QED
  BY <1>2, <1>3, <1>4, EventKinds

LEMMA CopyKeepsQueues ==
    ASSUME Typed, RawInv, NEW s \in Streams, NEW copy \in Copies, ReceiveCopy(s, copy)
    PROVE  RawInv'
<1> SUFFICES ASSUME NEW t \in Streams PROVE QueueOK(t)'
  BY DEF RawInv
<1>1. QueueOK(t) /\ UNCHANGED <<post, log, read, missed>>
  BY CopyFacts DEF RawInv
<1>2. \A q : (Deleted(q)' <=> Deleted(q)) /\ (Unread(t, q)' <=> Unread(t, q))
  BY <1>1 DEF Deleted, Unread
<1>3. CASE t # s
  <2>1. raw'[t] = raw[t]
    BY <1>3, CopyFacts
  <2> QED
    BY <1>1, <1>2, <2>1 DEF QueueOK
<1>4. CASE t = s
  <2> DEFINE n == Len(raw[s])
  <2>1. /\ n \in Nat /\ DOMAIN raw[s] = 1..n /\ Len(raw'[s]) = n + 1
        /\ DOMAIN raw'[s] = 1..(n + 1)
        /\ \A i \in 1..n : raw'[s][i] = raw[s][i]
        /\ raw'[s][n + 1] = copy
        /\ copy.kind # "delete" /\ ~IsChange(copy)
    BY CopyFacts
  <2>2. \A i \in DOMAIN raw'[s] :
           IsChange(raw'[s][i]) \/ raw'[s][i].kind = "delete"
             => i \in DOMAIN raw[s] /\ raw'[s][i] = raw[s][i]
    BY <2>1
  <2>3. QueueOK(s)
    BY <1>1, <1>4
  <2>4. DeleteIsLast(raw'[s])
    BY <2>2, <2>3 DEF QueueOK, DeleteIsLast
  <2>5. ASSUME NEW i \in DOMAIN raw'[s], raw'[s][i].kind = "delete", NEW q, q = raw'[s][i].post
        PROVE  Deleted(q)' /\ ~Unread(s, q)'
    <3>1. i \in DOMAIN raw[s] /\ raw'[s][i] = raw[s][i]
      BY <2>2, <2>5
    <3>2. Deleted(q) /\ ~Unread(s, q)
      BY <2>3, <2>5, <3>1 DEF QueueOK
    <3> QED
      BY <1>2, <1>4, <3>2
  <2>6. ASSUME ~missed', NEW p \in Posts, ~Unread(s, p)', NEW i \in DOMAIN raw'[s],
               LastAbout(raw'[s], n + 1, p, i)
        PROVE  Stored(raw'[s][i]) = post'[p]
    <3>1. i \in 1..n /\ raw'[s][i] = raw[s][i]
      BY <2>1, <2>6 DEF LastAbout, About
    <3>2. LastAbout(raw[s], n, p, i)
      <4>1. \A j \in (i + 1)..n : j \in (i + 1)..(n + 1) /\ raw'[s][j] = raw[s][j]
        BY <2>1, <3>1
      <4> QED
        BY <2>6, <3>1, <4>1 DEF LastAbout
    <3>3. ~missed /\ ~Unread(s, p) /\ post'[p] = post[p]
      BY <1>1, <1>2, <1>4, <2>6
    <3> QED
      BY <2>1, <2>3, <3>1, <3>2, <3>3 DEF QueueOK
  <2>7. ~missed' => \A p \in Posts : ~Unread(s, p)' => \A i \in DOMAIN raw'[s] :
           LastAbout(raw'[s], Len(raw'[s]), p, i) => Stored(raw'[s][i]) = post'[p]
    BY <2>1, <2>6
  <2> HIDE DEF n
  <2> QED
    BY <1>4, <2>4, <2>5, <2>7 DEF QueueOK
<1> QED
  BY <1>3, <1>4

LEMMA TakeBatchKeepsQueues ==
    ASSUME Typed, RawInv, NEW s \in Streams, TakeBatch(s)
    PROVE  RawInv'
<1> SUFFICES ASSUME NEW t \in Streams PROVE QueueOK(t)'
  BY DEF RawInv
<1>1. QueueOK(t) /\ post' = post /\ log' = log /\ read' = read /\ (~missed' => ~missed)
  <2>1. post' = post /\ log' = log /\ read' = read
    BY TakeBatchIs DEF provider
  <2>2. missed' = missed \/ missed' = TRUE
    BY TakeBatchIs DEF EnqueuePersistence
  <2> QED
    BY <2>1, <2>2 DEF RawInv
<1>2. \A q : (Deleted(q)' <=> Deleted(q)) /\ (Unread(t, q)' <=> Unread(t, q))
  BY <1>1 DEF Deleted, Unread
<1>3. CASE t # s
  <2>1. raw'[t] = raw[t]
    BY <1>3, TakeBatchIs DEF Typed, SocketsTyped
  <2> QED
    BY <1>1, <1>2, <2>1 DEF QueueOK
<1>4. CASE t = s
  <2> DEFINE n == Len(raw[s])
             k == BatchSize(s)
  <2>1. raw'[s] = Left(s) /\ raw[s] # <<>>
    BY TakeBatchIs DEF Typed, SocketsTyped
  <2>2. /\ k \in 1..n /\ n \in Nat /\ DOMAIN raw[s] = 1..n
        /\ raw'[s] \in Seq(Events) /\ DOMAIN raw'[s] = 1..(n - k) /\ Len(raw'[s]) = n - k
        /\ \A i \in 1..(n - k) : raw'[s][i] = raw[s][k + i]
    BY <2>1, TakenFacts DEF Typed
  <2> HIDE DEF n, k
  <2>3. \A i \in 1..(n - k) : k + i \in 1..n
    BY <2>2
  <2>4. QueueOK(s)
    BY <1>1, <1>4
  <2>5. DeleteIsLast(raw'[s])
    <3> SUFFICES ASSUME NEW i \in 1..(n - k), NEW j \in 1..(n - k), i < j,
                        IsChange(raw'[s][i]), IsChange(raw'[s][j]), raw'[s][i].post = raw'[s][j].post
                 PROVE  raw'[s][i].kind # "delete"
      BY <2>2 DEF DeleteIsLast
    <3>1. k + i < k + j /\ k + i \in 1..n /\ k + j \in 1..n
      BY <2>2, <2>3
    <3> QED
      BY <2>2, <2>4, <3>1 DEF QueueOK, DeleteIsLast
  <2>6. ASSUME NEW i \in DOMAIN raw'[s], raw'[s][i].kind = "delete", NEW q, q = raw'[s][i].post
        PROVE  Deleted(q)' /\ ~Unread(s, q)'
    <3>1. k + i \in DOMAIN raw[s] /\ raw'[s][i] = raw[s][k + i]
      BY <2>2, <2>3
    <3> QED
      BY <1>2, <1>4, <2>4, <2>6, <3>1 DEF QueueOK
  <2>7. ASSUME ~missed', NEW p \in Posts, ~Unread(s, p)', NEW i \in DOMAIN raw'[s],
               LastAbout(raw'[s], n - k, p, i)
        PROVE  Stored(raw'[s][i]) = post'[p]
    <3>1. k + i \in 1..n /\ i \in 1..(n - k) /\ raw'[s][i] = raw[s][k + i]
      BY <2>2, <2>3
    <3>2. LastAbout(raw[s], n, p, k + i)
      <4>1. ASSUME NEW j \in (k + i + 1)..n PROVE ~About(raw[s][j], p)
        <5>0. n \in Nat /\ k \in 1..n /\ i \in 1..(n - k)
          BY <2>2, <3>1
        <5>1. j - k \in (i + 1)..(n - k) /\ j - k \in 1..(n - k) /\ k + (j - k) = j
          BY <5>0
        <5> QED
          BY <2>2, <2>7, <5>1 DEF LastAbout
      <4> QED
        BY <2>7, <3>1, <4>1 DEF LastAbout
    <3> QED
      BY <1>1, <1>2, <1>4, <2>2, <2>4, <2>7, <3>1, <3>2 DEF QueueOK, n
  <2>8. ~missed' => \A p \in Posts : ~Unread(s, p)' => \A i \in DOMAIN raw'[s] :
           LastAbout(raw'[s], Len(raw'[s]), p, i) => Stored(raw'[s][i]) = post'[p]
    BY <2>2, <2>7
  <2> QED
    BY <1>4, <2>5, <2>6, <2>8 DEF QueueOK
<1> QED
  BY <1>3, <1>4

LEMMA RestartKeepsQueues ==
    ASSUME Restart
    PROVE  RawInv'
<1>1. \A s \in Streams : raw'[s] = <<>>
  BY DEF Restart
<1> QED
  BY <1>1 DEF RawInv, QueueOK, DeleteIsLast

-----------------------------------------------------------------------------
(* The database: what its row of a post will hold once the queued batches  *)
(* are written, unless it is an old copy that is held in it.               *)
Touches(b, p) == \E i \in DOMAIN b.events : About(b.events[i], p)
Gives(b, p, v) == \E i \in DOMAIN b.events : About(b.events[i], p) /\ Stored(b.events[i]) = v
Held(p, v) == IF wpc = "persist" /\ Touches(wbatch, p) THEN Gives(wbatch, p, v)
              ELSE db[p] = v \/ p \in behind
Lands(p, v) ==
    \/ (\A k \in DOMAIN pq : ~Touches(pq[k], p)) /\ Held(p, v)
    \/ \E k \in DOMAIN pq : Gives(pq[k], p, v) /\ \A m \in (k + 1)..Len(pq) : ~Touches(pq[m], p)

(* One stream, the one whose batch was queued last, decides about a post:  *)
(* once it has nothing more to say of it, what is queued lands at what the *)
(* post is.                                                                *)
Quiet(s, p) == ~Unread(s, p) /\ ~Queued(s, p)
LandsRight(p) == \E s \in Streams : Quiet(s, p) => Lands(p, post[p])
LandInv == ~missed => \A p \in Posts : LandsRight(p)

LEMMA LandsStays ==
    ASSUME UNCHANGED <<pq, wpc, wbatch, db, behind>>, NEW p \in Posts, NEW v
    PROVE  Lands(p, v)' <=> Lands(p, v)
BY DEF Lands, Held

LEMMA SameBatches ==
    ASSUME NEW p \in Posts, LandsRight(p), post'[p] = post[p],
           \A v : v = post[p] /\ Lands(p, v) => Lands(p, v)',
           \A s \in Streams : Quiet(s, p)' => Quiet(s, p)
    PROVE  LandsRight(p)'
<1>1. PICK s \in Streams : Quiet(s, p) => Lands(p, post[p])
  BY DEF LandsRight
<1>2. PICK v : v = post[p]
  OBVIOUS
<1>3. Quiet(s, p)' => Lands(p, v)'
  BY <1>1, <1>2
<1> QED
  BY <1>2, <1>3 DEF LandsRight, Lands, Held

LEMMA SameQuiet ==
    ASSUME UNCHANGED <<log, read, raw>>
    PROVE  \A s, p : Quiet(s, p)' <=> Quiet(s, p)
BY DEF Quiet, Unread, Queued

LEMMA ChangeLandsRight ==
    ASSUME Typed, LandInv, NEW p \in Posts, NEW c, Appended(p, c),
           UNCHANGED <<read, raw, missed, pq, wpc, wbatch, db, behind>>
    PROVE  LandInv'
<1> SUFFICES ASSUME ~missed, NEW q \in Posts PROVE LandsRight(q)'
  BY DEF LandInv
<1>1. \A s \in Streams : Unread(s, q)' <=> Unread(s, q) \/ q = p
  BY ChangeIsUnread
<1>2. CASE q = p
  <2>1. PICK s \in Streams : TRUE
    BY PipelineAssumption
  <2> QED
    BY <1>1, <1>2, <2>1 DEF LandsRight, Quiet
<1>3. CASE q # p
  <2>1. post'[q] = post[q]
    BY <1>3 DEF Appended
  <2>2. \A s \in Streams : Quiet(s, q)' => Quiet(s, q)
    BY <1>1 DEF Quiet, Queued
  <2> QED
    BY <2>1, <2>2, LandsStays, SameBatches DEF LandInv
<1> QED
  BY <1>2, <1>3

LEMMA SocketLandsRight ==
    ASSUME Typed, LogInv, LandInv, NEW s \in Streams, Connect(s) \/ Disconnect(s) \/ Receive(s)
    PROVE  LandInv'
<1> SUFFICES ASSUME ~missed', NEW p \in Posts PROVE LandsRight(p)'
  BY DEF LandInv
<1>1. UNCHANGED <<pq, wpc, wbatch, db, behind>> /\ post'[p] = post[p]
  BY DEF Connect, Disconnect, Receive, persistence, database, provider
<1>2. ~missed /\ \A t \in Streams : Quiet(t, p)' => Quiet(t, p)
  <2>1. CASE Connect(s)
    <3>1. ~missed /\ ~Unread(s, p) /\ log' = log
      BY <2>1, ConnectFacts DEF provider
    <3>2. Queued(s, p) => Queued(s, p)'
      <4>1. \A i \in DOMAIN raw[s] : i \in DOMAIN raw'[s] /\ raw'[s][i] = raw[s][i]
        BY <2>1, ConnectFacts
      <4> QED
        BY <4>1 DEF Queued
    <3>3. \A t \in Streams \ {s} : raw'[t] = raw[t] /\ read'[t] = read[t]
      BY <2>1, ConnectFacts
    <3> QED
      BY <3>1, <3>2, <3>3 DEF Quiet, Unread, Queued
  <2>2. CASE Disconnect(s)
    BY <2>2, SameQuiet DEF Disconnect, provider
  <2>3. CASE Receive(s)
    <3>1. PICK e : Delivered(s, e)
      BY <2>3, ReceiveDelivers
    <3>2. log' = log /\ missed' = missed
      BY <2>3 DEF Receive, provider
    <3>3. \A t \in Streams \ {s} : raw'[t] = raw[t] /\ read'[t] = read[t]
      BY <3>1 DEF Delivered
    <3>4. Quiet(s, p)' => Quiet(s, p)
      <4>1. CASE p = e.post
        <5>1. Queued(s, p)'
          BY <3>1, <4>1 DEF Delivered, Queued, About
        <5> QED
          BY <5>1 DEF Quiet
      <4>2. CASE p # e.post
        <5>1. Unread(s, p)' <=> Unread(s, p)
          BY <3>1, <4>2 DEF Delivered
        <5>2. \A i \in DOMAIN raw[s] : i \in DOMAIN raw'[s] /\ raw'[s][i] = raw[s][i]
          BY <3>1 DEF Delivered
        <5> QED
          BY <5>1, <5>2 DEF Quiet, Queued
      <4> QED
        BY <4>1, <4>2
    <3> QED
      BY <3>2, <3>3, <3>4 DEF Quiet, Unread, Queued
  <2> QED
    BY <2>1, <2>2, <2>3
<1> QED
  BY <1>1, <1>2, LandsStays, SameBatches DEF LandInv

(* A batch that is queued says of each of its posts what its stream's      *)
(* queue said last.                                                        *)
LEMMA TakeBatchLandsRight ==
    ASSUME Typed, RawInv, LandInv, NEW s \in Streams, TakeBatch(s)
    PROVE  LandInv'
<1> SUFFICES ASSUME ~missed', NEW p \in Posts PROVE LandsRight(p)'
  BY DEF LandInv
<1> DEFINE events == Coalesce(Taken(s))
           b == [stream |-> s, events |-> events]
           n == Len(raw[s])
           k == BatchSize(s)
<1>1. /\ raw[s] # <<>> /\ raw'[s] = Left(s) /\ (\A t \in Streams \ {s} : raw'[t] = raw[t])
      /\ UNCHANGED <<post, log, read, wpc, wbatch, db, behind>>
      /\ EnqueuePersistence(b)
  BY TakeBatchIs DEF provider, database, Typed, SocketsTyped
<1>2. /\ k \in 1..n /\ n \in Nat /\ DOMAIN raw[s] = 1..n
      /\ \A i \in 1..k : Taken(s)[i] = raw[s][i]
      /\ DOMAIN raw'[s] = 1..(n - k)
      /\ \A i \in 1..(n - k) : raw'[s][i] = raw[s][k + i]
  BY <1>1, TakenFacts DEF Typed
<1>3. QueueOK(s) /\ Sums(events, Taken(s), k)
  BY <1>1, BatchSums DEF RawInv, QueueOK, Typed
<1>4. b.events = events /\ events \in Seq(Events)
  BY <1>3 DEF Sums
<1> HIDE DEF events, b, n, k
<1>5. pq \in Seq(Batches) /\ b \in Batches
  BY <1>4 DEF Typed, ProcessorsTyped, Batches, b
<1>6. pq' = Append(pq, b) /\ ~missed
  BY <1>1 DEF EnqueuePersistence
<1>7. /\ Len(pq) \in Nat /\ DOMAIN pq = 1..Len(pq)
      /\ Len(pq') = Len(pq) + 1 /\ DOMAIN pq' = 1..(Len(pq) + 1)
      /\ pq'[Len(pq) + 1] = b
      /\ \A j \in 1..Len(pq) : pq'[j] = pq[j]
  BY <1>5, <1>6
<1>8. Touches(b, p) <=> \E i \in DOMAIN events : About(events[i], p)
  BY <1>4 DEF Touches
<1>9. ASSUME NEW i \in (k + 1)..n, About(raw[s][i], p)
      PROVE  Queued(s, p)'
  <2>1. i - k \in 1..(n - k) /\ k + (i - k) = i
    BY <1>2
  <2>2. i - k \in DOMAIN raw'[s] /\ raw'[s][i - k] = raw[s][i]
    BY <1>2, <2>1
  <2> QED
    BY <1>9, <2>2 DEF Queued
<1>10. CASE Touches(b, p)
  <2> SUFFICES ASSUME Quiet(s, p)' PROVE Lands(p, post[p])'
    BY DEF LandsRight
  <2>1. PICK i \in DOMAIN events : About(events[i], p)
    BY <1>8, <1>10
  <2>2. PICK j \in 1..k : LastAbout(Taken(s), k, p, j) /\ events[i] = Taken(s)[j]
    BY <1>3, <2>1 DEF Sums
  <2>3. LastAbout(raw[s], n, p, j)
    <3>1. j \in 1..n /\ About(raw[s][j], p)
      BY <1>2, <2>2 DEF LastAbout
    <3>2. ASSUME NEW m \in (j + 1)..n PROVE ~About(raw[s][m], p)
      <4>1. CASE m \in 1..k
        <5>1. m \in (j + 1)..k
          BY <4>1
        <5> QED
          BY <1>2, <2>2, <4>1, <5>1 DEF LastAbout
      <4>2. CASE m \notin 1..k
        <5>1. m \in (k + 1)..n
          BY <1>2, <4>2
        <5> QED
          BY <1>9, <5>1 DEF Quiet
      <4> QED
        BY <4>1, <4>2
    <3> QED
      BY <3>1, <3>2 DEF LastAbout
  <2>4. ~Unread(s, p)
    BY <1>1 DEF Quiet, Unread
  <2>5. PICK v : v = post[p] /\ v = post'[p]
    BY <1>1
  <2>6. Stored(events[i]) = v
    <3>1. n = Len(raw[s])
      BY DEF n
    <3>2. j \in DOMAIN raw[s] /\ events[i] = raw[s][j]
      BY <1>2, <2>2
    <3>3. Stored(raw[s][j]) = post[p]
      BY <1>3, <1>6, <2>3, <2>4, <3>1, <3>2 DEF QueueOK
    <3> QED
      BY <2>5, <3>2, <3>3
  <2>7. Gives(b, p, v)
    BY <1>4, <2>1, <2>6 DEF Gives
  <2>8. Lands(p, v)'
    <3>1. Len(pq) + 1 \in DOMAIN pq' /\ (Len(pq) + 1 + 1)..Len(pq') = {}
      BY <1>7
    <3> QED
      BY <1>7, <2>7, <3>1 DEF Lands
  <2> QED
    BY <2>5, <2>8 DEF Lands, Held
<1>11. CASE ~Touches(b, p)
  <2>1. \A t \in Streams : Quiet(t, p)' => Quiet(t, p)
    <3>1. \A t \in Streams : Unread(t, p)' <=> Unread(t, p)
      BY <1>1 DEF Unread
    <3>2. \A t \in Streams \ {s} : Queued(t, p)' <=> Queued(t, p)
      BY <1>1 DEF Queued
    <3>3. Queued(s, p) => Queued(s, p)'
      <4> SUFFICES ASSUME NEW i \in 1..n, About(raw[s][i], p) PROVE Queued(s, p)'
        BY <1>2 DEF Queued
      <4>1. i \notin 1..k
        BY <1>2, <1>3, <1>8, <1>11 DEF Sums
      <4>2. i \in (k + 1)..n
        BY <1>2, <4>1
      <4> QED
        BY <1>9, <4>2
    <3> QED
      BY <3>1, <3>2, <3>3 DEF Quiet
  <2>2. ASSUME NEW v, Lands(p, v) PROVE Lands(p, v)'
    <3>1. Held(p, v)' <=> Held(p, v)
      BY <1>1 DEF Held
    <3>2. CASE (\A j \in DOMAIN pq : ~Touches(pq[j], p)) /\ Held(p, v)
      <4>1. ASSUME NEW j \in DOMAIN pq' PROVE ~Touches(pq'[j], p)
        <5>1. CASE j = Len(pq) + 1
          BY <1>7, <1>11, <5>1
        <5>2. CASE j # Len(pq) + 1
          <6>1. j \in DOMAIN pq /\ pq'[j] = pq[j]
            BY <1>7, <5>2
          <6> QED
            BY <3>2, <6>1
        <5> QED
          BY <5>1, <5>2
      <4> QED
        BY <3>1, <3>2, <4>1 DEF Lands
    <3>3. ASSUME NEW j \in DOMAIN pq, Gives(pq[j], p, v),
                 \A m \in (j + 1)..Len(pq) : ~Touches(pq[m], p)
          PROVE  Lands(p, v)'
      <4>1. j \in DOMAIN pq' /\ pq'[j] = pq[j]
        BY <1>7
      <4>2. ASSUME NEW m \in (j + 1)..Len(pq') PROVE ~Touches(pq'[m], p)
        <5>1. CASE m = Len(pq) + 1
          BY <1>7, <1>11, <5>1
        <5>2. CASE m # Len(pq) + 1
          <6>1. m \in (j + 1)..Len(pq) /\ pq'[m] = pq[m]
            BY <1>7, <5>2
          <6> QED
            BY <3>3, <6>1
        <5> QED
          BY <5>1, <5>2
      <4> QED
        BY <3>3, <4>1, <4>2 DEF Lands
    <3> QED
      BY <2>2, <3>2, <3>3 DEF Lands
  <2>3. LandsRight(p) /\ post'[p] = post[p]
    BY <1>1, <1>6 DEF LandInv
  <2> QED
    BY <2>1, <2>2, <2>3, SameBatches
<1> QED
  BY <1>10, <1>11

LEMMA WorkerTakesLandsRight ==
    ASSUME Typed, LandInv, WorkerTakes
    PROVE  LandInv'
<1> SUFFICES ASSUME ~missed', NEW p \in Posts PROVE LandsRight(p)'
  BY DEF LandInv
<1>1. /\ pq \in Seq(Batches) /\ pq # <<>> /\ pq' = Tail(pq) /\ wbatch' = Head(pq)
      /\ wpc = "idle" /\ wpc' = "persist"
      /\ UNCHANGED <<post, log, read, raw, db, behind, missed>>
  BY DEF WorkerTakes, Typed, ProcessorsTyped, provider, sockets, database
<1>2. /\ Len(pq) \in Nat \ {0} /\ DOMAIN pq = 1..Len(pq)
      /\ Len(pq') = Len(pq) - 1 /\ DOMAIN pq' = 1..(Len(pq) - 1)
      /\ wbatch' = pq[1]
      /\ \A j \in 1..(Len(pq) - 1) : pq'[j] = pq[j + 1]
  BY <1>1
<1>3. ASSUME NEW v, Lands(p, v) PROVE Lands(p, v)'
  <2>1. CASE (\A j \in DOMAIN pq : ~Touches(pq[j], p)) /\ Held(p, v)
    <3>1. ~Touches(pq[1], p) /\ \A j \in DOMAIN pq' : ~Touches(pq'[j], p)
      <4>1. 1 \in DOMAIN pq
        BY <1>2
      <4>2. \A j \in DOMAIN pq' : j + 1 \in DOMAIN pq /\ pq'[j] = pq[j + 1]
        BY <1>2
      <4> QED
        BY <2>1, <4>1, <4>2
    <3> QED
      BY <1>1, <1>2, <2>1, <3>1 DEF Held, Lands
  <2>2. ASSUME NEW j \in DOMAIN pq, Gives(pq[j], p, v),
               \A m \in (j + 1)..Len(pq) : ~Touches(pq[m], p)
        PROVE  Lands(p, v)'
    <3>1. ASSUME NEW m \in 1..(Len(pq) - 1), m >= j PROVE ~Touches(pq'[m], p)
      <4>1. m + 1 \in (j + 1)..Len(pq) /\ pq'[m] = pq[m + 1]
        BY <1>2, <3>1
      <4> QED
        BY <2>2, <4>1
    <3>2. CASE j = 1
      <4>1. Touches(pq[1], p) /\ Gives(pq[1], p, v)
        BY <2>2, <3>2 DEF Gives, Touches
      <4>2. \A m \in DOMAIN pq' : ~Touches(pq'[m], p)
        BY <1>2, <3>1, <3>2
      <4> QED
        BY <1>1, <1>2, <4>1, <4>2 DEF Held, Lands
    <3>3. CASE j # 1
      <4>1. j - 1 \in DOMAIN pq' /\ pq'[j - 1] = pq[j]
        BY <1>2, <3>3
      <4>2. \A m \in (j - 1 + 1)..Len(pq') : ~Touches(pq'[m], p)
        BY <1>2, <3>1, <3>3
      <4> QED
        BY <2>2, <4>1, <4>2 DEF Lands
    <3> QED
      BY <3>2, <3>3
  <2> QED
    BY <1>3, <2>1, <2>2 DEF Lands
<1> QED
  BY <1>1, <1>3, SameQuiet, SameBatches DEF LandInv

(* A write, whole or in part, again or for the first time, brings the row  *)
(* of a post closer to what the batch gives it, or leaves it.              *)
LEMMA PersistLandsRight ==
    ASSUME Typed, NoPostTwice, LandInv, PersistSucceeds \/ PersistFails
    PROVE  LandInv'
<1> SUFFICES ASSUME ~missed', NEW p \in Posts PROVE LandsRight(p)'
  BY DEF LandInv
<1>1. /\ wpc = "persist"
      /\ UNCHANGED <<post, log, read, raw, pq, wbatch, missed>>
  BY DEF PersistSucceeds, PersistFails, provider, sockets
<1>2. wbatch \in HeldBatches /\ OnePerPost(wbatch.events) /\ db \in [Posts -> Versions]
  BY DEF Typed, WorkerTyped, NoPostTwice, DatabaseTyped
<1>3. PICK done \in SUBSET Writes(wbatch) :
          /\ PersistWrites(done)
          /\ (wpc' = "persist") \/ done = Writes(wbatch)
  BY DEF PersistSucceeds, PersistFails, Prefixes
<1>4. /\ (\A i \in done : wbatch.events[i].post # p) =>
            db'[p] = db[p] /\ (p \in behind' <=> p \in behind)
      /\ \/ \A i \in done : wbatch.events[i].post # p
         \/ db'[p] = post[p] \/ p \in behind'
         \/ \E i \in done : About(wbatch.events[i], p) /\ db'[p] = Stored(wbatch.events[i])
  BY <1>2, <1>3, WrittenRow
<1>5. \A i \in Writes(wbatch) : i \in DOMAIN wbatch.events
  BY DEF Writes
<1>6. ASSUME NEW v, v = post[p], Held(p, v) PROVE Held(p, v)'
  <2>1. CASE ~Touches(wbatch, p)
    <3>1. db'[p] = v \/ p \in behind'
      BY <1>1, <1>3, <1>4, <1>5, <1>6, <2>1 DEF Touches, Held
    <3> QED
      BY <1>1, <2>1, <3>1 DEF Held
  <2>2. CASE Touches(wbatch, p)
    <3>1. Gives(wbatch, p, v)
      BY <1>1, <1>6, <2>2 DEF Held
    <3>2. CASE wpc' = "persist"
      BY <1>1, <2>2, <3>1, <3>2 DEF Held
    <3>3. CASE done = Writes(wbatch) /\ wpc' # "persist"
      <4>1. PICK i \in DOMAIN wbatch.events :
                About(wbatch.events[i], p) /\ Stored(wbatch.events[i]) = v
        BY <3>1 DEF Gives
      <4>2. i \in done /\ wbatch.events[i].post = p
        BY <3>3, <4>1, EventKinds DEF Writes, About
      <4>3. db'[p] = v \/ p \in behind'
        <5>1. \A j \in done : About(wbatch.events[j], p) => j = i
          BY <1>2, <1>5, <4>1 DEF OnePerPost
        <5> QED
          BY <1>4, <1>6, <4>1, <4>2, <5>1
      <4> QED
        BY <1>1, <3>3, <4>3 DEF Held
    <3> QED
      BY <1>3, <3>2, <3>3
  <2> QED
    BY <2>1, <2>2
<1>7. ASSUME NEW v, v = post[p], Lands(p, v) PROVE Lands(p, v)'
  BY <1>1, <1>6, <1>7 DEF Lands
<1> QED
  BY <1>1, <1>7, SameQuiet, SameBatches DEF LandInv

LEMMA RestartLandsRight ==
    ASSUME LandInv, Restart
    PROVE  LandInv'
<1> SUFFICES ASSUME ~missed', NEW p \in Posts PROVE LandsRight(p)'
  BY DEF LandInv
<1>1. missed' = (missed \/ wpc = "persist" \/ pq # <<>> \/ \E s \in Streams : raw[s] # <<>>)
  BY DEF Restart
<1>2. ~missed /\ wpc # "persist" /\ pq = <<>> /\ \A s \in Streams : raw[s] = <<>>
  BY <1>1, Zenon
<1>3. /\ UNCHANGED <<post, log, read, db, behind>> /\ pq' = <<>> /\ wpc' = "idle"
      /\ \A s \in Streams : raw'[s] = <<>>
  BY <1>2 DEF Restart, provider
<1>4. \A s \in Streams : Quiet(s, p)' => Quiet(s, p)
  BY <1>2, <1>3 DEF Quiet, Unread, Queued
<1>5. \A v : Lands(p, v) => Lands(p, v)'
  BY <1>2, <1>3 DEF Lands, Held
<1> QED
  BY <1>2, <1>3, <1>4, <1>5, SameBatches DEF LandInv

LEMMA OthersLandRight ==
    ASSUME LandInv, ~missed' => ~missed, UNCHANGED <<post, log, read, raw, pq, db, behind>>,
           \/ UNCHANGED <<wpc, wbatch>>
           \/ wpc # "persist" /\ wpc' # "persist"
    PROVE  LandInv'
<1> SUFFICES ASSUME ~missed', NEW p \in Posts PROVE LandsRight(p)'
  BY DEF LandInv
<1>1. \A v : Lands(p, v) => Lands(p, v)'
  BY DEF Lands, Held
<1> QED
  BY <1>1, SameQuiet, SameBatches DEF LandInv

(* A notice or a boost is queued.                                          *)
LEMMA CopyLandsRight ==
    ASSUME Typed, LandInv, NEW s \in Streams, NEW copy \in Copies, ReceiveCopy(s, copy)
    PROVE  LandInv'
<1> SUFFICES ASSUME ~missed', NEW p \in Posts PROVE LandsRight(p)'
  BY DEF LandInv
<1>1. UNCHANGED <<post, log, read, missed, pq, wpc, wbatch, db, behind>>
  BY CopyFacts
<1>2. Queued(s, p) => Queued(s, p)'
  <2>1. \A i \in DOMAIN raw[s] : i \in DOMAIN raw'[s] /\ raw'[s][i] = raw[s][i]
    BY CopyFacts
  <2> QED
    BY <2>1 DEF Queued
<1>3. \A t \in Streams \ {s} : raw'[t] = raw[t]
  BY CopyFacts
<1>4. \A t \in Streams : Quiet(t, p)' => Quiet(t, p)
  BY <1>1, <1>2, <1>3 DEF Quiet, Unread, Queued
<1> QED
  BY <1>1, <1>4, LandsStays, SameBatches DEF LandInv

(* The other writers: each row they write then holds what the provider     *)
(* holds, or is known to be behind.                                        *)
LEMMA SavedLandsRight ==
    ASSUME LandInv, UNCHANGED <<post, log, read, raw, missed, pq, wpc, wbatch>>,
           \/ UNCHANGED <<db, behind>>
           \/ \E copy : SaveCopies(copy)
    PROVE  LandInv'
<1> SUFFICES ASSUME ~missed', NEW p \in Posts PROVE LandsRight(p)'
  BY DEF LandInv
<1>1. db[p] = post[p] \/ p \in behind => db'[p] = post[p] \/ p \in behind'
  BY DEF SaveCopies
<1>2. ASSUME NEW v, v = post[p], Lands(p, v) PROVE Lands(p, v)'
  <2>1. Held(p, v) => Held(p, v)'
    BY <1>1, <1>2 DEF Held
  <2> QED
    BY <1>2, <2>1 DEF Lands
<1> QED
  BY <1>2, SameQuiet, SameBatches DEF LandInv

-----------------------------------------------------------------------------
(* Everything the cache's correctness rests on.                            *)
CacheInv == Typed /\ NoPostTwice /\ LogInv /\ RawInv /\ LandInv

LEMMA InitCache == Init => CacheInv
<1> SUFFICES ASSUME Init PROVE CacheInv
  OBVIOUS
<1>1. Typed /\ NoPostTwice
  BY InitTypes
<1>2. log = <<>> /\ pq = <<>> /\ (\A s \in Streams : raw[s] = <<>>) /\ wpc = "idle"
      /\ \A p \in Posts : post[p] = 0 /\ db[p] = 0
  BY DEF Init
<1>3. LogInv
  BY <1>2 DEF LogInv, DeleteIsLast, Deleted
<1>4. RawInv
  BY <1>2 DEF RawInv, QueueOK, DeleteIsLast
<1>5. ASSUME NEW p \in Posts PROVE LandsRight(p)
  <2>1. Lands(p, post[p])
    BY <1>2 DEF Lands, Held
  <2>2. PICK s \in Streams : TRUE
    BY PipelineAssumption
  <2> QED
    BY <2>1, <2>2 DEF LandsRight
<1> QED
  BY <1>1, <1>3, <1>4, <1>5 DEF CacheInv, LandInv

LEMMA ProviderKeepsCache ==
    ASSUME CacheInv, ProviderStep
    PROVE  LogInv' /\ RawInv' /\ LandInv'
<1>1. Typed /\ LogInv /\ RawInv /\ LandInv /\ ProviderTyped
  BY DEF CacheInv, Typed
<1>2. PICK p \in Posts : Changed(p)
  BY <1>1, ProviderChanges
<1>3. PICK c : Appended(p, c)
  BY <1>1, <1>2, ChangeAppends
<1>4. UNCHANGED <<read, raw, missed, pq, wpc, wbatch, db, behind>>
  BY <1>2 DEF Changed, Change, sockets, persistence, database
<1> QED
  BY <1>1, <1>3, <1>4, ChangeKeepsLog, ChangeKeepsQueues, ChangeLandsRight

LEMMA SocketKeepsCache ==
    ASSUME CacheInv, SocketStep
    PROVE  LogInv' /\ RawInv' /\ LandInv'
<1>1. Typed /\ LogInv /\ RawInv /\ LandInv
  BY DEF CacheInv
<1>2. PICK s \in Streams : Connect(s) \/ Disconnect(s) \/ Receive(s)
  BY DEF SocketStep
<1>3. LogInv'
  BY <1>1, <1>2, OthersKeepLog DEF Connect, Disconnect, Receive, provider
<1>4. RawInv'
  <2>1. CASE Disconnect(s)
    BY <1>1, <2>1, OthersKeepQueues DEF Disconnect, provider
  <2> QED
    BY <1>1, <1>2, <2>1, ConnectKeepsQueues, ReceiveKeepsQueues
<1> QED
  BY <1>1, <1>2, <1>3, <1>4, SocketLandsRight

LEMMA ProcessorKeepsCache ==
    ASSUME CacheInv, ProcessorStep
    PROVE  LogInv' /\ RawInv' /\ LandInv'
<1>1. Typed /\ LogInv /\ RawInv /\ LandInv
  BY DEF CacheInv
<1>2. PICK s \in Streams : TakeBatch(s) \/ Broadcast(s)
  BY DEF ProcessorStep
<1>3. LogInv'
  BY <1>1, <1>2, OthersKeepLog DEF TakeBatch, Broadcast, provider
<1>4. CASE TakeBatch(s)
  BY <1>1, <1>3, <1>4, TakeBatchKeepsQueues, TakeBatchLandsRight
<1>5. CASE Broadcast(s)
  <2>1. UNCHANGED <<post, log, read, raw, missed, pq, db, behind, wpc, wbatch>>
    BY <1>5 DEF Broadcast, provider, sockets, persistence, database
  <2> QED
    BY <1>1, <1>3, <2>1, OthersKeepQueues, OthersLandRight
<1> QED
  BY <1>2, <1>4, <1>5

LEMMA WorkerKeepsCache ==
    ASSUME CacheInv, WorkerStep
    PROVE  LogInv' /\ RawInv' /\ LandInv'
<1>1. Typed /\ NoPostTwice /\ LogInv /\ RawInv /\ LandInv
  BY DEF CacheInv
<1>2. UNCHANGED <<post, log, read, raw, missed>>
  BY DEF WorkerStep, WorkerTakes, PersistSucceeds, PersistFails, AnnounceCommit, CheckEmpty,
         SwapLagged, RequestResync, provider, sockets
<1>3. LogInv' /\ RawInv'
  BY <1>1, <1>2, OthersKeepLog, OthersKeepQueues
<1>4. CASE AnnounceCommit \/ CheckEmpty \/ SwapLagged \/ RequestResync
  <2>1. UNCHANGED <<pq, db, behind>> /\ wpc # "persist" /\ wpc' # "persist"
    BY <1>4 DEF AnnounceCommit, CheckEmpty, SwapLagged, RequestResync, database
  <2> QED
    BY <1>1, <1>2, <1>3, <2>1, OthersLandRight
<1>5. CASE WorkerTakes
  BY <1>1, <1>3, <1>5, WorkerTakesLandsRight
<1>6. CASE PersistSucceeds \/ PersistFails
  BY <1>1, <1>3, <1>6, PersistLandsRight
<1> QED
  BY <1>4, <1>5, <1>6 DEF WorkerStep

LEMMA OtherWriterKeepsCache ==
    ASSUME CacheInv, OtherWriterStep
    PROVE  LogInv' /\ RawInv' /\ LandInv'
<1>1. Typed /\ LogInv /\ RawInv /\ LandInv
  BY DEF CacheInv
<1>2. /\ UNCHANGED <<post, log, read, raw, missed, pq, wpc, wbatch>>
      /\ UNCHANGED <<db, behind>> \/ \E copy : SaveCopies(copy)
  <2>1. ASSUME NEW copy \in Answers, NEW p \in Posts, SavePage(copy) \/ QuoteSaves(p, copy)
        PROVE  UNCHANGED <<post, log, read, raw, missed, pq, wpc, wbatch>> /\ SaveCopies(copy)
    BY <2>1 DEF SavePage, QuoteSaves, provider, sockets, persistence
  <2>2. ASSUME NEW copy \in Answers, SavePage(copy)
        PROVE  UNCHANGED <<post, log, read, raw, missed, pq, wpc, wbatch>> /\ SaveCopies(copy)
    BY <2>2 DEF SavePage, provider, sockets, persistence
  <2>3. ASSUME NEW p \in Posts, QuoteTells(p)
        PROVE  UNCHANGED <<post, log, read, raw, missed, pq, wpc, wbatch, db, behind>>
    BY <2>3 DEF QuoteTells, provider, sockets, persistence, database
  <2>4. ASSUME NEW b \in 0..MaxRestarts, SideEnds(b)
        PROVE  /\ UNCHANGED <<post, log, read, raw, missed, pq, wpc, wbatch>>
               /\ UNCHANGED <<db, behind>> \/ \E copy : SaveCopies(copy)
    BY <2>4 DEF SideEnds, provider, sockets, persistence
  <2> QED
    BY <2>1, <2>2, <2>3, <2>4 DEF OtherWriterStep
<1> QED
  BY <1>1, <1>2, OthersKeepLog, OthersKeepQueues, SavedLandsRight

LEMMA StepKeepsCache == CacheInv /\ [Next]_vars => CacheInv'
<1> SUFFICES ASSUME CacheInv, [Next]_vars PROVE CacheInv'
  OBVIOUS
<1>1. Typed' /\ NoPostTwice'
  BY StepTypes DEF CacheInv, RawInv, QueueOK
<1>2. ASSUME ProviderStep PROVE LogInv' /\ RawInv' /\ LandInv'
  BY <1>2, ProviderKeepsCache
<1>3. ASSUME SocketStep PROVE LogInv' /\ RawInv' /\ LandInv'
  BY <1>3, SocketKeepsCache
<1>4. ASSUME ProcessorStep PROVE LogInv' /\ RawInv' /\ LandInv'
  BY <1>4, ProcessorKeepsCache
<1>5. ASSUME WorkerStep PROVE LogInv' /\ RawInv' /\ LandInv'
  BY <1>5, WorkerKeepsCache
<1>6. ASSUME Restart PROVE LogInv' /\ RawInv' /\ LandInv'
  BY <1>6, OthersKeepLog, RestartKeepsQueues, RestartLandsRight DEF CacheInv, Restart, provider
<1>7. ASSUME BridgeStep \/ Display \/ UNCHANGED vars PROVE LogInv' /\ RawInv' /\ LandInv'
  <2>1. UNCHANGED <<post, log, read, raw, missed, pq, db, behind, wpc, wbatch>>
    BY <1>7 DEF BridgeStep, Forward, HandOver, EmitEcho, Display, vars, provider, sockets,
                persistence, database
  <2> QED
    BY <2>1, OthersKeepLog, OthersKeepQueues, OthersLandRight DEF CacheInv
<1>8. ASSUME CopyStep PROVE LogInv' /\ RawInv' /\ LandInv'
  <2>1. PICK s \in Streams, copy \in Copies : ReceiveCopy(s, copy)
    BY <1>8 DEF CopyStep
  <2> QED
    BY <2>1, CopyFacts, OthersKeepLog, CopyKeepsQueues, CopyLandsRight DEF CacheInv
<1>9. ASSUME OtherWriterStep PROVE LogInv' /\ RawInv' /\ LandInv'
  BY <1>9, OtherWriterKeepsCache
<1>10. LogInv' /\ RawInv' /\ LandInv'
  BY <1>2, <1>3, <1>4, <1>5, <1>6, <1>7, <1>8, <1>9 DEF Next, BackendStep, CacheInv
<1> QED
  BY <1>1, <1>10 DEF CacheInv

LEMMA CacheInvImplies == CacheInv => TypeOK /\ CacheConverges
<1> SUFFICES ASSUME CacheInv PROVE TypeOK /\ CacheConverges
  OBVIOUS
<1>1. TypeOK
  BY TypedIsTypeOK DEF CacheInv
<1>2. ASSUME Settled, ~missed, NEW p \in Posts PROVE db[p] = post[p] \/ p \in behind
  <2>0. DOMAIN log = 1..Len(log)
    BY DEF CacheInv, Typed, ProviderTyped
  <2>1. PICK s \in Streams : Quiet(s, p) => Lands(p, post[p])
    BY <1>2 DEF CacheInv, LandInv, LandsRight
  <2>2. raw[s] = <<>> /\ read[s] = Len(log) /\ pq = <<>> /\ wpc # "persist"
    BY <1>2 DEF Settled
  <2>3. Quiet(s, p)
    BY <2>0, <2>2 DEF Quiet, Unread, Queued
  <2> QED
    BY <2>1, <2>2, <2>3 DEF Lands, Held
<1> QED
  BY <1>1, <1>2 DEF CacheConverges

(* Every queue of the live path holds what its consumer expects, whatever  *)
(* is lost, dropped, restarted or written half.                            *)
THEOREM TypeCorrect == Spec => []TypeOK
<1>1. CacheInv => TypeOK
  BY CacheInvImplies
<1> QED
  BY <1>1, InitCache, StepKeepsCache, PTL DEF Spec

(* Unless a change was missed, the status cache ends as the provider: with *)
(* any number of streams whose batches interleave in the persistence       *)
(* queue, however CoalescedBatch::push merges events and however often     *)
(* persist_event_batch fails half-way and is tried again.  Notifications,  *)
(* boosts, quote lookups and the answers of commands write the same rows   *)
(* at any time, with any version a post ever had: a row may differ from    *)
(* the post only where the last write was such a copy, and an old one.     *)
THEOREM CacheMeetsProvider == Spec => []CacheConverges
<1>1. CacheInv => CacheConverges
  BY CacheInvImplies
<1> QED
  BY <1>1, InitCache, StepKeepsCache, PTL DEF Spec

=============================================================================
