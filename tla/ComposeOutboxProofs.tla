------------------------ MODULE ComposeOutboxProofs ------------------------
(***************************************************************************)
(* Proofs about ComposeOutbox, for any number of items and accounts, any   *)
(* limits, any number of stops and retries: types, the order and ownership *)
(* of deliveries, what they leave behind at the provider, and that the     *)
(* outbox implements OutboxPromise.                                        *)
(***************************************************************************)
EXTENDS OutboxRefinement, FiniteSetTheorems, TLAPS

LEMMA InsertedFinite == IsFiniteSet(Inserted) /\ Cardinality(Inserted) \in Nat
<1>1. Inserted \subseteq Items
  BY DEF Inserted
<1> QED
  BY <1>1, OutboxAssumption, FS_Subset, FS_CardinalityType

(* Every action keeps the types.  The only value that is not a literal or  *)
(* an increment is the rowid of an insert, a cardinality.                  *)
LEMMA TypeStep == TypeOK /\ [Next]_vars => TypeOK'
<1> USE OutboxAssumption DEF TypeOK, RowStates, TaskSteps, ErrorClasses, Stored
<1> SUFFICES ASSUME TypeOK, [Next]_vars PROVE TypeOK'
  OBVIOUS
<1>1. ASSUME NEW i \in Items, NEW now \in Stamps, Enqueue(i, now) PROVE TypeOK'
  <2>1. Cardinality(Inserted) \in Nat
    BY InsertedFinite
  <2> DEFINE n == Cardinality(Inserted) + 1
  <2>2. n \in Nat
    BY <2>1
  <2> HIDE DEF n
  <2>3. rowid' = [rowid EXCEPT ![i] = n]
    BY <1>1 DEF Enqueue, n
  <2>4. now \in Nat
    OBVIOUS
  <2> QED
    BY <1>1, <2>2, <2>3, <2>4 DEF Enqueue, taskVars, authVars, bootVars, provider, usage
<1>2. ASSUME NEW i \in Items, Retry(i) PROVE TypeOK'
  BY <1>2 DEF Retry, Requeue, taskVars, authVars, bootVars, provider, usage
<1>3. ASSUME NEW i \in Items, Cancel(i) PROVE TypeOK'
  BY <1>3 DEF Cancel, taskVars, authVars, bootVars, provider, usage
<1>4. ASSUME NEW i \in Items, ResumeOne(i) PROVE TypeOK'
  BY <1>4 DEF ResumeOne, Requeue, rowVars, taskVars, authVars, provider, usage
<1>5. ASSUME NEW i \in Items, ClaimNext(i) PROVE TypeOK'
  BY <1>5 DEF ClaimNext, authVars, bootVars, provider, usage
<1>6. ASSUME NEW i \in Items, DelayElapses(i) PROVE TypeOK'
  BY <1>6 DEF DelayElapses, taskVars, authVars, bootVars, provider, usage
<1>7. ASSUME NEW i \in Items, ReadSessionKind(i) PROVE TypeOK'
  BY <1>7 DEF ReadSessionKind, Step, rowVars, authVars, bootVars, provider, usage
<1>8. ASSUME NEW i \in Items, FailBeforeSend(i) PROVE TypeOK'
  BY <1>8 DEF FailBeforeSend, Step, rowVars, authVars, bootVars, provider, usage
<1>9. ASSUME NEW i \in Items, Send(i) PROVE TypeOK'
  BY <1>9 DEF Send, Step, rowVars, authVars, bootVars, provider, usage
<1>10. ASSUME NEW i \in Items, ResponseArrives(i) PROVE TypeOK'
  BY <1>10 DEF ResponseArrives, Step, rowVars, authVars, bootVars, provider, usage
<1>11. ASSUME NEW i \in Items, SaveEdit(i) PROVE TypeOK'
  BY <1>11 DEF SaveEdit, Step, rowVars, authVars, bootVars, provider, usage
<1>12. ASSUME NEW i \in Items, MarkSucceeded(i) PROVE TypeOK'
  BY <1>12 DEF MarkSucceeded, Step, authVars, bootVars, provider, usage
<1>13. ASSUME NEW i \in Items, MarkFailure(i) PROVE TypeOK'
  <2>1. FailureState(i) \in RowStates
    BY DEF FailureState
  <2>2. CASE state[i] = "sending"
    <3> DEFINE f == FailureState(i)
    <3>1. f \in RowStates
      BY <2>1
    <3>2. /\ state' = [state EXCEPT ![i] = f]
          /\ unsure' = [unsure EXCEPT ![i] = (f = "uncertain")]
          /\ due' = [due EXCEPT ![i] = (f # "retrying")]
      BY <1>13, <2>2 DEF MarkFailure
    <3> HIDE DEF f
    <3>3. state' \in [Items -> RowStates]
      BY <3>1, <3>2
    <3>4. unsure' \in [Items -> BOOLEAN] /\ due' \in [Items -> BOOLEAN]
      BY <3>2
    <3> QED
      BY <1>13, <3>3, <3>4 DEF MarkFailure, Step, authVars, bootVars, provider, usage
  <2>3. CASE state[i] # "sending"
    BY <1>13, <2>3 DEF MarkFailure, Step, authVars, bootVars, provider, usage
  <2> QED
    BY <2>2, <2>3
<1>14. ASSUME NEW i \in Items, MarkLost(i) PROVE TypeOK'
  BY <1>14 DEF MarkLost, Step, rowVars, authVars, bootVars, provider, usage
<1>15. ASSUME NEW i \in Items, ProviderExecutes(i) PROVE TypeOK'
  BY <1>15 DEF ProviderExecutes, Execute, KeyOf, Step, rowVars, authVars, bootVars, usage
<1>16. ASSUME NEW i \in Items, ProviderDeletesNote(i) PROVE TypeOK'
  BY <1>16 DEF ProviderDeletesNote, Step, rowVars, authVars, bootVars, usage
<1>17. ASSUME NEW i \in Items, ProviderRefuses(i) PROVE TypeOK'
  BY <1>17 DEF ProviderRefuses, Step, rowVars, authVars, bootVars, provider, usage
<1>18. ASSUME NEW i \in Items, RequestTimesOut(i) PROVE TypeOK'
  <2>1. task' \in [Items -> TaskSteps]
    BY <1>18 DEF RequestTimesOut, Step
  <2>2. late' \in [Items -> Nat]
    BY <1>18 DEF RequestTimesOut
  <2>3. lateDelete' \in [Items -> BOOLEAN]
    BY <1>18 DEF RequestTimesOut
  <2> QED
    BY <1>18, <2>1, <2>2, <2>3 DEF RequestTimesOut, rowVars, authVars, bootVars, usage
<1>19. ASSUME NEW i \in Items, LateExecutes(i) PROVE TypeOK'
  BY <1>19 DEF LateExecutes, Execute, KeyOf, taskVars, rowVars, authVars, bootVars, usage
<1>20. ASSUME NEW i \in Items, LateDeletesNote(i) PROVE TypeOK'
  BY <1>20 DEF LateDeletesNote, taskVars, rowVars, authVars, bootVars, usage
<1>21. ASSUME NEW a \in Accts, LogoutDeletesRows(a) PROVE TypeOK'
  BY <1>21 DEF LogoutDeletesRows, taskVars, bootVars, provider, usage
<1>22. ASSUME NEW a \in Accts, LogoutRemovesSession(a) PROVE TypeOK'
  BY <1>22 DEF LogoutRemovesSession, rowVars, taskVars, bootVars, provider, usage
<1>23. ASSUME NEW a \in Accts, LoginPersists(a) \/ LoginAddsSession(a) PROVE TypeOK'
  BY <1>23 DEF LoginPersists, LoginAddsSession, rowVars, taskVars, bootVars, provider, usage
<1>24. CASE RecoverInterrupted
  <2>1. state' \in [Items -> RowStates]
    BY <1>24 DEF RecoverInterrupted, rowVars
  <2>2. unsure' \in [Items -> BOOLEAN]
    BY <1>24 DEF RecoverInterrupted, rowVars
  <2> QED
    BY <1>24, <2>1, <2>2 DEF RecoverInterrupted, rowVars, taskVars, authVars, provider, usage
<1>25. CASE ListInterrupted
  <2>1. PICK S \in Listings \cup {{}} :
          resume' = {i \in S : state[i] = "uncertain" /\ unsure[i]}
    BY <1>25 DEF ListInterrupted
  <2>2. S \subseteq Items
    BY <2>1 DEF Listings
  <2> QED
    BY <1>25, <2>1, <2>2 DEF ListInterrupted, rowVars, taskVars, authVars, provider, usage
<1>26. CASE StartLoop
  BY <1>26 DEF StartLoop, rowVars, taskVars, authVars, provider, usage
<1>27. CASE Stop
  BY <1>27 DEF Stop, rowVars
<1>28. CASE Start
  BY <1>28 DEF Start, rowVars, taskVars, provider, usage
<1>29. CASE UNCHANGED vars
  BY <1>29 DEF vars, rowVars, taskVars, authVars, bootVars, provider, usage
<1> QED
  BY <1>1, <1>2, <1>3, <1>4, <1>5, <1>6, <1>7, <1>8, <1>9, <1>10, <1>11, <1>12, <1>13, <1>14, <1>15, <1>16, <1>17, <1>18, <1>19, <1>20, <1>21, <1>22, <1>23, <1>24, <1>25, <1>26, <1>27, <1>28, <1>29
  DEF Next, Deliver, Provider

(* The variables keep their types in every behaviour of the outbox. *)
THEOREM TypeCorrect == Spec => []TypeOK
<1>1. Init => TypeOK
  BY DEF Init, TypeOK, RowStates, TaskSteps
<1> QED
  BY <1>1, TypeStep, PTL DEF Spec

-----------------------------------------------------------------------------
(* One item's part of the exposure invariant is kept by every action,      *)
(* whichever item the action is about.                                     *)
LEMMA ItemStep ==
  ASSUME TypeOK, [Next]_vars, NEW k \in Items, ItemInv(k)
  PROVE  ItemInv(k)'
<1> USE OutboxAssumption DEF TypeOK, RowStates, TaskSteps, ErrorClasses, Stored,
      ItemInv, Resendable, UnkeyedPost, Exposure, Keyed
<1>1. ASSUME NEW i \in Items, NEW now \in Stamps, Enqueue(i, now) PROVE ItemInv(k)'
  BY <1>1 DEF Enqueue, taskVars, authVars, bootVars, provider, usage
<1>2. ASSUME NEW i \in Items, Retry(i) PROVE ItemInv(k)'
  BY <1>2 DEF Retry, Requeue, taskVars, authVars, bootVars, provider, usage
<1>3. ASSUME NEW i \in Items, Cancel(i) PROVE ItemInv(k)'
  BY <1>3 DEF Cancel, taskVars, authVars, bootVars, provider, usage
<1>4. ASSUME NEW i \in Items, ResumeOne(i) PROVE ItemInv(k)'
  BY <1>4 DEF ResumeOne, Requeue, rowVars, taskVars, authVars, provider, usage
<1>5. ASSUME NEW i \in Items, ClaimNext(i) PROVE ItemInv(k)'
  BY <1>5 DEF ClaimNext, Claimable, authVars, bootVars, provider, usage
<1>6. ASSUME NEW i \in Items, DelayElapses(i) PROVE ItemInv(k)'
  BY <1>6 DEF DelayElapses, taskVars, authVars, bootVars, provider, usage
<1>7. ASSUME NEW i \in Items, ReadSessionKind(i) PROVE ItemInv(k)'
  BY <1>7 DEF ReadSessionKind, Step, rowVars, authVars, bootVars, provider, usage
<1>8. ASSUME NEW i \in Items, FailBeforeSend(i) PROVE ItemInv(k)'
  BY <1>8 DEF FailBeforeSend, Step, rowVars, authVars, bootVars, provider, usage
<1>9. ASSUME NEW i \in Items, Send(i) PROVE ItemInv(k)'
  BY <1>9 DEF Send, RecreatesNote, Step, rowVars, authVars, bootVars, provider, usage
<1>10. ASSUME NEW i \in Items, ResponseArrives(i) PROVE ItemInv(k)'
  BY <1>10 DEF ResponseArrives, Step, rowVars, authVars, bootVars, provider, usage
<1>11. ASSUME NEW i \in Items, SaveEdit(i) PROVE ItemInv(k)'
  BY <1>11 DEF SaveEdit, Step, rowVars, authVars, bootVars, provider, usage
<1>12. ASSUME NEW i \in Items, MarkSucceeded(i) PROVE ItemInv(k)'
  BY <1>12 DEF MarkSucceeded, Step, authVars, bootVars, provider, usage
<1>13. ASSUME NEW i \in Items, MarkFailure(i) PROVE ItemInv(k)'
  <2>1. CASE k # i \/ state[i] # "sending"
    BY <1>13, <2>1 DEF MarkFailure, Step, authVars, bootVars, provider, usage
  <2>2. CASE k = i /\ state[i] = "sending"
    <3> DEFINE f == FailureState(i)
    <3>1. f \in {"retrying", "uncertain", "failed"}
      BY DEF FailureState
    <3>2. f # "uncertain" => task[i] \in {"busy", "final"} \/ idem[i]
      BY <1>13 DEF FailureState, ShouldRetry, MarkFailure, Step
    <3>3. /\ state'[k] = f
          /\ unsure'[k] = (f = "uncertain")
          /\ task'[k] = "none"
          /\ task[k] \in ErrorClasses
          /\ UNCHANGED <<idem, worker, copies, late, risky>>
      BY <1>13, <2>2 DEF MarkFailure, Step, bootVars, provider, usage
    <3> HIDE DEF f
    <3> QED
      BY <2>2, <3>1, <3>2, <3>3
  <2> QED
    BY <2>1, <2>2
<1>14. ASSUME NEW i \in Items, MarkLost(i) PROVE ItemInv(k)'
  BY <1>14 DEF MarkLost, Step, rowVars, authVars, bootVars, provider, usage
<1>15. ASSUME NEW i \in Items, ProviderExecutes(i) PROVE ItemInv(k)'
  BY <1>15 DEF ProviderExecutes, Execute, KeyOf, Step, rowVars, authVars, bootVars, usage
<1>16. ASSUME NEW i \in Items, ProviderDeletesNote(i) PROVE ItemInv(k)'
  BY <1>16 DEF ProviderDeletesNote, Step, rowVars, authVars, bootVars, usage
<1>17. ASSUME NEW i \in Items, ProviderRefuses(i) PROVE ItemInv(k)'
  BY <1>17 DEF ProviderRefuses, Step, rowVars, authVars, bootVars, provider, usage
<1>18. ASSUME NEW i \in Items, RequestTimesOut(i) PROVE ItemInv(k)'
  BY <1>18 DEF RequestTimesOut, Step, rowVars, authVars, bootVars, usage
<1>19. ASSUME NEW i \in Items, LateExecutes(i) PROVE ItemInv(k)'
  BY <1>19 DEF LateExecutes, Execute, KeyOf, taskVars, rowVars, authVars, bootVars, usage
<1>20. ASSUME NEW i \in Items, LateDeletesNote(i) PROVE ItemInv(k)'
  BY <1>20 DEF LateDeletesNote, taskVars, rowVars, authVars, bootVars, usage
<1>21. ASSUME NEW a \in Accts, LogoutDeletesRows(a) PROVE ItemInv(k)'
  BY <1>21 DEF LogoutDeletesRows, taskVars, bootVars, provider, usage
<1>22. ASSUME NEW a \in Accts, LogoutRemovesSession(a) PROVE ItemInv(k)'
  BY <1>22 DEF LogoutRemovesSession, rowVars, taskVars, bootVars, provider, usage
<1>23. ASSUME NEW a \in Accts, LoginPersists(a) \/ LoginAddsSession(a) PROVE ItemInv(k)'
  BY <1>23 DEF LoginPersists, LoginAddsSession, rowVars, taskVars, bootVars, provider, usage
<1>24. CASE RecoverInterrupted
  <2>1. task[k] = "none" /\ task' = task
    BY <1>24 DEF RecoverInterrupted, taskVars
  <2>2. UNCHANGED <<idem, copies, late, risky>>
    BY <1>24 DEF RecoverInterrupted, taskVars, provider, usage
  <2>3. CASE state[k] = "sending" /\ state'[k] = "uncertain" /\ unsure'[k]
    BY <2>1, <2>2, <2>3
  <2>4. CASE state'[k] = state[k] /\ unsure'[k] = unsure[k]
    BY <2>1, <2>2, <2>4
  <2>5. CASE UNCHANGED rowVars
    BY <2>4, <2>5 DEF rowVars
  <2>6. CASE /\ state' = [i \in Items |->
                             IF state[i] = "sending" THEN "uncertain" ELSE state[i]]
             /\ unsure' = [i \in Items |-> state[i] = "sending" \/ unsure[i]]
    <3>1. unsure'[k] = (state[k] = "sending" \/ unsure[k])
      BY <2>6, Zenon
    <3>2. state'[k] = IF state[k] = "sending" THEN "uncertain" ELSE state[k]
      BY <2>6, Zenon
    <3>3. CASE state[k] = "sending"
      BY <2>3, <3>1, <3>2, <3>3
    <3>4. CASE state[k] # "sending"
      BY <2>4, <3>1, <3>2, <3>4
    <3> QED
      BY <3>3, <3>4
  <2> QED
    BY <1>24, <2>5, <2>6 DEF RecoverInterrupted
<1>25. CASE ListInterrupted
  BY <1>25 DEF ListInterrupted, rowVars, taskVars, authVars, provider, usage
<1>26. CASE StartLoop
  BY <1>26 DEF StartLoop, rowVars, taskVars, authVars, provider, usage
<1>27. CASE Stop
  BY <1>27 DEF Stop, rowVars
<1>28. CASE Start
  BY <1>28 DEF Start, rowVars, taskVars, provider, usage
<1>29. CASE UNCHANGED vars
  BY <1>29 DEF vars, rowVars, taskVars, authVars, bootVars, provider, usage
<1> QED
  BY <1>1, <1>2, <1>3, <1>4, <1>5, <1>6, <1>7, <1>8, <1>9, <1>10, <1>11, <1>12, <1>13, <1>14, <1>15, <1>16, <1>17, <1>18, <1>19, <1>20, <1>21, <1>22, <1>23, <1>24, <1>25, <1>26, <1>27, <1>28, <1>29
  DEF Next, Deliver, Provider

LEMMA ExposureInductive == TypeOK /\ ExposureInv /\ [Next]_vars => ExposureInv'
BY ItemStep DEF ExposureInv

LEMMA ExposureHolds == Spec => []ExposureInv
<1>1. Init => ExposureInv
  BY OutboxAssumption
  DEF Init, ExposureInv, ItemInv, Resendable, UnkeyedPost, Exposure
<1> QED
  BY <1>1, TypeCorrect, ExposureInductive, PTL DEF Spec

(* No crash, timeout, late request, lost write-back or automatic retry     *)
(* publishes a post a second time on a provider without idempotency keys.  *)
THEOREM AtMostOnce == Spec => []AtMostOncePerDecision
<1>1. ExposureInv => AtMostOncePerDecision
  BY DEF ExposureInv, ItemInv, AtMostOncePerDecision
<1> QED
  BY <1>1, ExposureHolds, PTL

(* Such a post is reported 'failed' only when it is not published and      *)
(* never will be by a request already sent.                                *)
THEOREM FailedIsTrue == Spec => []FailedMeansUnpublished
<1>1. TypeOK /\ ExposureInv => FailedMeansUnpublished
  <2> SUFFICES ASSUME TypeOK, ExposureInv, NEW i \in Items,
                      UnkeyedPost(i), state[i] = "failed", risky[i] = 0
               PROVE  Exposure(i) = 0
    BY DEF FailedMeansUnpublished
  <2>1. Exposure(i) <= 0
    BY DEF ExposureInv, ItemInv, Resendable
  <2>2. Exposure(i) \in Nat
    BY DEF Exposure, TypeOK
  <2> QED
    BY <2>1, <2>2
<1> QED
  BY <1>1, ExposureHolds, TypeCorrect, PTL

(* A delivery in progress owns its row in every reachable state.           *)
THEOREM OwnedRow == Spec => []DeliveryOwnsRow
<1>1. ExposureInv => DeliveryOwnsRow
  BY DEF ExposureInv, ItemInv, DeliveryOwnsRow
<1> QED
  BY <1>1, ExposureHolds, PTL

-----------------------------------------------------------------------------
(* Rowids never exceed the number of inserts, so a new row is younger than *)
(* every row with the same created_at.                                     *)
RowidBound == \A i \in Items : rowid[i] <= Cardinality(Inserted)

(* Apart from inserts, claims and re-queues, a step leaves the order of    *)
(* the rows alone, lets no row enter 'sending' or the queue, and keeps the *)
(* history flags: such a step cannot disturb the queue discipline.         *)
QueueQuiet ==
  /\ UNCHANGED <<createdAt, rowid>>
  /\ \A i \in Items : /\ jumped[i] => jumped'[i]
                      /\ state'[i] = "none" <=> state[i] = "none"
                      /\ state'[i] = "sending" => state[i] = "sending"
                      /\ state'[i] \in Pending => state[i] \in Pending \/ jumped'[i]

LEMMA QuietStep ==
  ASSUME TypeOK, FifoPerAccount, RowidBound, QueueQuiet
  PROVE  FifoPerAccount' /\ RowidBound'
<1>1. Inserted' = Inserted
  BY DEF Inserted, QueueQuiet
<1>2. RowidBound'
  BY <1>1 DEF RowidBound, QueueQuiet
<1>3. ASSUME NEW i \in Items, NEW j \in Items,
             Older(i, j)', state'[j] = "sending", state'[i] \in Pending
      PROVE  jumped'[i]
  <2>1. Older(i, j)
    BY <1>3 DEF Older, QueueQuiet
  <2> QED
    BY <1>3, <2>1 DEF FifoPerAccount, QueueQuiet
<1> QED
  BY <1>2, <1>3 DEF FifoPerAccount, Pending

LEMMA QuietActions ==
  ASSUME TypeOK,
         \/ \E i \in Items : \/ Retry(i) \/ Cancel(i) \/ ResumeOne(i) \/ DelayElapses(i)
                             \/ Deliver(i) \/ Provider(i)
         \/ \E a \in Accts : \/ LogoutDeletesRows(a) \/ LogoutRemovesSession(a)
                             \/ LoginPersists(a) \/ LoginAddsSession(a)
         \/ RecoverInterrupted \/ ListInterrupted \/ StartLoop \/ Stop \/ Start
         \/ UNCHANGED vars
  PROVE  QueueQuiet
<1> USE DEF TypeOK, RowStates, Stored, QueueQuiet, Pending
<1>1. ASSUME NEW i \in Items, Retry(i) PROVE QueueQuiet
  BY <1>1 DEF Retry, Requeue
<1>2. ASSUME NEW i \in Items, Cancel(i) PROVE QueueQuiet
  BY <1>2 DEF Cancel
<1>3. ASSUME NEW i \in Items, ResumeOne(i) PROVE QueueQuiet
  BY <1>3 DEF ResumeOne, Requeue, rowVars
<1>4. ASSUME NEW i \in Items, DelayElapses(i) PROVE QueueQuiet
  BY <1>4 DEF DelayElapses
<1>5. ASSUME NEW i \in Items, ReadSessionKind(i) PROVE QueueQuiet
  BY <1>5 DEF ReadSessionKind, rowVars
<1>6. ASSUME NEW i \in Items, FailBeforeSend(i) PROVE QueueQuiet
  BY <1>6 DEF FailBeforeSend, rowVars
<1>7. ASSUME NEW i \in Items, Send(i) PROVE QueueQuiet
  BY <1>7 DEF Send, rowVars
<1>8. ASSUME NEW i \in Items, ResponseArrives(i) PROVE QueueQuiet
  BY <1>8 DEF ResponseArrives, rowVars
<1>9. ASSUME NEW i \in Items, SaveEdit(i) PROVE QueueQuiet
  BY <1>9 DEF SaveEdit, rowVars
<1>10. ASSUME NEW i \in Items, MarkSucceeded(i) PROVE QueueQuiet
  BY <1>10 DEF MarkSucceeded
<1>11. ASSUME NEW i \in Items, MarkLost(i) PROVE QueueQuiet
  BY <1>11 DEF MarkLost, rowVars
<1>12. ASSUME NEW i \in Items, ProviderExecutes(i) PROVE QueueQuiet
  BY <1>12 DEF ProviderExecutes, rowVars
<1>13. ASSUME NEW i \in Items, ProviderDeletesNote(i) PROVE QueueQuiet
  BY <1>13 DEF ProviderDeletesNote, rowVars
<1>14. ASSUME NEW i \in Items, ProviderRefuses(i) PROVE QueueQuiet
  BY <1>14 DEF ProviderRefuses, rowVars
<1>15. ASSUME NEW i \in Items, RequestTimesOut(i) PROVE QueueQuiet
  BY <1>15 DEF RequestTimesOut, rowVars
<1>16. ASSUME NEW i \in Items, LateExecutes(i) PROVE QueueQuiet
  BY <1>16 DEF LateExecutes, rowVars
<1>17. ASSUME NEW i \in Items, LateDeletesNote(i) PROVE QueueQuiet
  BY <1>17 DEF LateDeletesNote, rowVars
<1>18. ASSUME NEW i \in Items, MarkFailure(i) PROVE QueueQuiet
  <2>1. FailureState(i) \in {"retrying", "uncertain", "failed"}
    BY DEF FailureState
  <2>2. CASE state[i] = "sending"
    BY <1>18, <2>1, <2>2 DEF MarkFailure
  <2>3. CASE state[i] # "sending"
    BY <1>18, <2>3 DEF MarkFailure
  <2> QED
    BY <2>2, <2>3
<1>19. ASSUME NEW a \in Accts, LogoutDeletesRows(a) PROVE QueueQuiet
  BY <1>19 DEF LogoutDeletesRows
<1>20. ASSUME NEW a \in Accts, LogoutRemovesSession(a) PROVE QueueQuiet
  BY <1>20 DEF LogoutRemovesSession, rowVars
<1>21. ASSUME NEW a \in Accts, LoginPersists(a) \/ LoginAddsSession(a) PROVE QueueQuiet
  BY <1>21 DEF LoginPersists, LoginAddsSession, rowVars
<1>22. CASE RecoverInterrupted
  BY <1>22 DEF RecoverInterrupted, rowVars
<1>23. CASE ListInterrupted
  BY <1>23 DEF ListInterrupted, rowVars
<1>24. CASE StartLoop
  BY <1>24 DEF StartLoop, rowVars
<1>25. CASE Stop
  BY <1>25 DEF Stop, rowVars
<1>26. CASE Start
  BY <1>26 DEF Start, rowVars
<1>27. CASE UNCHANGED vars
  BY <1>27 DEF vars, rowVars
<1> QED
  BY <1>1, <1>2, <1>3, <1>4, <1>5, <1>6, <1>7, <1>8, <1>9, <1>10, <1>11, <1>12, <1>13, <1>14, <1>15, <1>16, <1>17, <1>18, <1>19, <1>20, <1>21, <1>22, <1>23, <1>24, <1>25, <1>26, <1>27
  DEF Deliver, Provider

LEMMA ClaimKeepsFifo ==
  ASSUME TypeOK, FifoPerAccount, RowidBound, NEW c \in Items, ClaimNext(c)
  PROVE  FifoPerAccount' /\ RowidBound'
<1> USE DEF TypeOK, RowStates, Pending
<1>1. UNCHANGED <<createdAt, rowid, jumped>>
  BY DEF ClaimNext
<1>2. state[c] \in {"queued", "retrying"} /\ state' = [state EXCEPT ![c] = "sending"]
  BY DEF ClaimNext, Claimable
<1>3. Inserted' = Inserted
  BY <1>2 DEF Inserted
<1>4. RowidBound'
  BY <1>1, <1>3 DEF RowidBound
<1>5. ASSUME NEW i \in Items, NEW j \in Items,
             Older(i, j)', state'[j] = "sending", state'[i] \in Pending
      PROVE  jumped'[i]
  <2>1. Older(i, j) /\ state[i] \in Pending
    BY <1>1, <1>2, <1>5 DEF Older
  <2>2. CASE j = c
    BY <2>1, <2>2 DEF ClaimNext, Claimable
  <2>3. CASE j # c
    BY <1>1, <1>2, <1>5, <2>1, <2>3 DEF FifoPerAccount
  <2> QED
    BY <2>2, <2>3
<1> QED
  BY <1>4, <1>5 DEF FifoPerAccount

LEMMA EnqueueKeepsFifo ==
  ASSUME TypeOK, FifoPerAccount, RowidBound,
         NEW e \in Items, NEW now \in Stamps, Enqueue(e, now)
  PROVE  FifoPerAccount' /\ RowidBound'
<1> USE OutboxAssumption DEF TypeOK, RowStates, Pending
<1> DEFINE n == Cardinality(Inserted)
<1>1. n \in Nat /\ IsFiniteSet(Inserted)
  BY InsertedFinite
<1>2. /\ state[e] = "none"
      /\ state' = [state EXCEPT ![e] = "queued"]
      /\ createdAt' = [createdAt EXCEPT ![e] = now]
      /\ rowid' = [rowid EXCEPT ![e] = n + 1]
  BY DEF Enqueue
<1>3. /\ \A k \in Items : k # e => jumped'[k] = jumped[k]
      /\ \A j \in Items : AcctOf[j] = AcctOf[e] /\ state[j] \in Stored /\ now < createdAt[j]
                            => jumped'[e]
  BY DEF Enqueue
<1>4. Inserted' = Inserted \cup {e} /\ e \notin Inserted
  BY <1>2 DEF Inserted
<1>5. Cardinality(Inserted') = n + 1
  BY <1>1, <1>4, FS_AddElement
<1> HIDE DEF n
<1>6. \A k \in Items : rowid[k] <= n
  BY DEF RowidBound, n
<1>7. RowidBound'
  BY <1>1, <1>2, <1>5, <1>6 DEF RowidBound
<1>8. ASSUME NEW i \in Items, NEW j \in Items,
             Older(i, j)', state'[j] = "sending", state'[i] \in Pending
      PROVE  jumped'[i]
  <2>1. j # e /\ state[j] = "sending"
    BY <1>2, <1>8
  <2>2. CASE i = e
    <3>1. rowid'[e] = n + 1 /\ rowid'[j] = rowid[j] /\ rowid[j] <= n
      BY <1>2, <1>6, <2>1
    <3>2. createdAt'[e] = now /\ createdAt'[j] = createdAt[j]
      BY <1>2, <2>1
    <3>3. AcctOf[e] = AcctOf[j] /\ now < createdAt[j]
      BY <1>1, <1>8, <2>2, <3>1, <3>2 DEF Older
    <3> QED
      BY <1>3, <2>1, <2>2, <3>3 DEF Stored
  <2>3. CASE i # e
    <3>1. Older(i, j) /\ state[i] \in Pending
      BY <1>2, <1>8, <2>1, <2>3 DEF Older
    <3> QED
      BY <1>3, <2>1, <2>3, <3>1 DEF FifoPerAccount
  <2> QED
    BY <2>2, <2>3
<1> QED
  BY <1>7, <1>8 DEF FifoPerAccount

(* A row waits behind, or is sent beside, a younger row of its account     *)
(* only after a re-queue or a clock set back.                              *)
THEOREM Fifo == Spec => []FifoPerAccount
<1>1. Init => FifoPerAccount /\ RowidBound
  <2> SUFFICES ASSUME Init PROVE FifoPerAccount /\ RowidBound
    OBVIOUS
  <2>1. FifoPerAccount
    BY DEF Init, FifoPerAccount
  <2>2. RowidBound
    BY InsertedFinite DEF Init, RowidBound
  <2> QED
    BY <2>1, <2>2
<1>2. TypeOK /\ FifoPerAccount /\ RowidBound /\ [Next]_vars
        => FifoPerAccount' /\ RowidBound'
  <2> SUFFICES ASSUME TypeOK, FifoPerAccount, RowidBound, [Next]_vars
               PROVE  FifoPerAccount' /\ RowidBound'
    OBVIOUS
  <2>1. ASSUME NEW i \in Items, NEW now \in Stamps, Enqueue(i, now)
        PROVE  FifoPerAccount' /\ RowidBound'
    BY <2>1, EnqueueKeepsFifo
  <2>2. ASSUME NEW i \in Items, ClaimNext(i)
        PROVE  FifoPerAccount' /\ RowidBound'
    BY <2>2, ClaimKeepsFifo
  <2>3. CASE QueueQuiet
    BY <2>3, QuietStep
  <2> QED
    BY <2>1, <2>2, <2>3, QuietActions DEF Next
<1> QED
  BY <1>1, <1>2, TypeCorrect, PTL DEF Spec

-----------------------------------------------------------------------------
(***************************************************************************)
(* What a delivery leaves behind at the provider, on every kind of provider,*)
(* and how many deliveries there are.                                      *)
(***************************************************************************)

(* What one item's delivery may assume of the provider.  After an answer   *)
(* the mutation is there; a provider with keys remembers the key of every  *)
(* post it published; a note that is still there was not created again,    *)
(* and no request that would do so is on its way.                          *)
DeliveryInv(i) ==
  /\ task[i] \in {"applied", "saving", "ok"} \/ state[i] = "succeeded" => copies[i] > 0
  /\ KindOf[i] = "post" /\ Keyed(i) =>
       copies[i] <= 1 /\ (copies[i] > 0 <=> i \in seen)
  /\ RecreatesNote(i) => /\ Exposure(i) <= 1
                         /\ gone[i] \/ Exposure(i) = 0

(* Executing a request adds a copy, unless a provider with keys has seen   *)
(* the key, and marks the key.                                             *)
LEMMA ExecuteEffect ==
  ASSUME TypeOK, NEW i \in Items, Execute(i)
  PROVE  /\ copies' \in [Items -> Nat] /\ seen' \subseteq seen \cup {i}
         /\ \A j \in Items \ {i} : copies'[j] = copies[j] /\ (j \in seen' <=> j \in seen)
         /\ copies'[i] \in {copies[i], copies[i] + 1}
         /\ KindOf[i] = "post" /\ Keyed(i) =>
              i \in seen' /\ (i \in seen <=> copies'[i] = copies[i])
         /\ ~ (KindOf[i] = "post" /\ Keyed(i)) => copies'[i] = copies[i] + 1
<1> DEFINE keyed == KindOf[i] = "post" /\ Keyed(i)
<1>1. /\ copies \in [Items -> Nat]
      /\ copies' = [copies EXCEPT ![i] = IF keyed /\ i \in seen THEN @ ELSE @ + 1]
      /\ seen' = IF keyed THEN seen \cup {i} ELSE seen
  BY DEF Execute, KeyOf, TypeOK
<1> HIDE DEF keyed
<1>2. /\ copies' \in [Items -> Nat] /\ seen' \subseteq seen \cup {i}
      /\ \A j \in Items \ {i} : copies'[j] = copies[j] /\ (j \in seen' <=> j \in seen)
      /\ copies'[i] = IF keyed /\ i \in seen THEN copies[i] ELSE copies[i] + 1
      /\ keyed => i \in seen'
  BY <1>1
<1> QED
  BY <1>2 DEF keyed, Keyed

(* Every action keeps it, whichever item the action is about.              *)
LEMMA DeliveryStep ==
  ASSUME TypeOK, [Next]_vars, NEW k \in Items, DeliveryInv(k)
  PROVE  DeliveryInv(k)'
<1> USE OutboxAssumption DEF TypeOK, RowStates, TaskSteps, ErrorClasses, Stored,
      DeliveryInv, RecreatesNote, Exposure, Keyed
<1>1. ASSUME NEW i \in Items, NEW now \in Stamps, Enqueue(i, now) PROVE DeliveryInv(k)'
  BY <1>1 DEF Enqueue, taskVars, authVars, bootVars, provider, usage
<1>2. ASSUME NEW i \in Items, Retry(i) PROVE DeliveryInv(k)'
  BY <1>2 DEF Retry, Requeue, taskVars, authVars, bootVars, provider, usage
<1>3. ASSUME NEW i \in Items, Cancel(i) PROVE DeliveryInv(k)'
  BY <1>3 DEF Cancel, taskVars, authVars, bootVars, provider, usage
<1>4. ASSUME NEW i \in Items, ResumeOne(i) PROVE DeliveryInv(k)'
  BY <1>4 DEF ResumeOne, Requeue, rowVars, taskVars, authVars, provider, usage
<1>5. ASSUME NEW i \in Items, ClaimNext(i) PROVE DeliveryInv(k)'
  BY <1>5 DEF ClaimNext, Claimable, authVars, bootVars, provider, usage
<1>6. ASSUME NEW i \in Items, DelayElapses(i) PROVE DeliveryInv(k)'
  BY <1>6 DEF DelayElapses, taskVars, authVars, bootVars, provider, usage
<1>7. ASSUME NEW i \in Items, ReadSessionKind(i) PROVE DeliveryInv(k)'
  BY <1>7 DEF ReadSessionKind, Step, rowVars, authVars, bootVars, provider, usage
<1>8. ASSUME NEW i \in Items, FailBeforeSend(i) PROVE DeliveryInv(k)'
  BY <1>8 DEF FailBeforeSend, Step, rowVars, authVars, bootVars, provider, usage
<1>9. ASSUME NEW i \in Items, Send(i) PROVE DeliveryInv(k)'
  BY <1>9 DEF Send, Step, rowVars, authVars, bootVars, provider, usage
<1>10. ASSUME NEW i \in Items, ResponseArrives(i) PROVE DeliveryInv(k)'
  BY <1>10 DEF ResponseArrives, Step, rowVars, authVars, bootVars, provider, usage
<1>11. ASSUME NEW i \in Items, SaveEdit(i) PROVE DeliveryInv(k)'
  BY <1>11 DEF SaveEdit, Step, rowVars, authVars, bootVars, provider, usage
<1>12. ASSUME NEW i \in Items, MarkSucceeded(i) PROVE DeliveryInv(k)'
  BY <1>12 DEF MarkSucceeded, Step, authVars, bootVars, provider, usage
<1>13. ASSUME NEW i \in Items, MarkFailure(i) PROVE DeliveryInv(k)'
  <2>1. FailureState(i) # "succeeded"
    BY DEF FailureState
  <2> QED
    BY <1>13, <2>1 DEF MarkFailure, Step, authVars, bootVars, provider, usage
<1>14. ASSUME NEW i \in Items, MarkLost(i) PROVE DeliveryInv(k)'
  BY <1>14 DEF MarkLost, Step, rowVars, authVars, bootVars, provider, usage
<1>15. ASSUME NEW i \in Items, ProviderExecutes(i) PROVE DeliveryInv(k)'
  <2>1. /\ task[i] = "sent" /\ task' = [task EXCEPT ![i] = "applied"]
        /\ UNCHANGED <<late, gone, state>> /\ Execute(i)
    BY <1>15 DEF ProviderExecutes, Step, rowVars
  <2> QED
    BY <2>1, ExecuteEffect
<1>16. ASSUME NEW i \in Items, ProviderDeletesNote(i) PROVE DeliveryInv(k)'
  BY <1>16 DEF ProviderDeletesNote, Step, rowVars, authVars, bootVars, usage
<1>17. ASSUME NEW i \in Items, ProviderRefuses(i) PROVE DeliveryInv(k)'
  BY <1>17 DEF ProviderRefuses, Step, rowVars, authVars, bootVars, provider, usage
<1>18. ASSUME NEW i \in Items, RequestTimesOut(i) PROVE DeliveryInv(k)'
  BY <1>18 DEF RequestTimesOut, Step, rowVars, authVars, bootVars, usage
<1>19. ASSUME NEW i \in Items, LateExecutes(i) PROVE DeliveryInv(k)'
  <2>1. /\ late[i] > 0 /\ late' = [late EXCEPT ![i] = @ - 1]
        /\ UNCHANGED <<task, gone, state>> /\ Execute(i)
    BY <1>19 DEF LateExecutes, taskVars, rowVars
  <2> QED
    BY <2>1, ExecuteEffect
<1>20. ASSUME NEW i \in Items, LateDeletesNote(i) PROVE DeliveryInv(k)'
  BY <1>20 DEF LateDeletesNote, taskVars, rowVars, authVars, bootVars, usage
<1>21. ASSUME NEW a \in Accts, LogoutDeletesRows(a) PROVE DeliveryInv(k)'
  BY <1>21 DEF LogoutDeletesRows, taskVars, bootVars, provider, usage
<1>22. ASSUME NEW a \in Accts, LogoutRemovesSession(a) PROVE DeliveryInv(k)'
  BY <1>22 DEF LogoutRemovesSession, rowVars, taskVars, bootVars, provider, usage
<1>23. ASSUME NEW a \in Accts, LoginPersists(a) \/ LoginAddsSession(a) PROVE DeliveryInv(k)'
  BY <1>23 DEF LoginPersists, LoginAddsSession, rowVars, taskVars, bootVars, provider, usage
<1>24. CASE RecoverInterrupted
  BY <1>24 DEF RecoverInterrupted, rowVars, taskVars, authVars, provider, usage
<1>25. CASE ListInterrupted
  BY <1>25 DEF ListInterrupted, rowVars, taskVars, authVars, provider, usage
<1>26. CASE StartLoop
  BY <1>26 DEF StartLoop, rowVars, taskVars, authVars, provider, usage
<1>27. CASE Stop
  BY <1>27 DEF Stop, rowVars
<1>28. CASE Start
  BY <1>28 DEF Start, rowVars, taskVars, provider, usage
<1>29. CASE UNCHANGED vars
  BY <1>29 DEF vars, rowVars, taskVars, authVars, bootVars, provider, usage
<1> QED
  BY <1>1, <1>2, <1>3, <1>4, <1>5, <1>6, <1>7, <1>8, <1>9, <1>10, <1>11, <1>12, <1>13, <1>14, <1>15, <1>16, <1>17, <1>18, <1>19, <1>20, <1>21, <1>22, <1>23, <1>24, <1>25, <1>26, <1>27, <1>28, <1>29
  DEF Next, Deliver, Provider

LEMMA DeliveryHolds == Spec => [](\A i \in Items : DeliveryInv(i))
<1>1. Init => \A i \in Items : DeliveryInv(i)
  BY OutboxAssumption DEF Init, DeliveryInv, Exposure
<1>2. TypeOK /\ (\A i \in Items : DeliveryInv(i)) /\ [Next]_vars
        => (\A i \in Items : DeliveryInv(i))'
  BY DeliveryStep
<1> QED
  BY <1>1, <1>2, TypeCorrect, PTL DEF Spec

(* A row is reported 'succeeded' only when the provider executed it.       *)
THEOREM SuccessIsTrue == Spec => []SucceededMeansExecuted
<1>1. (\A i \in Items : DeliveryInv(i)) => SucceededMeansExecuted
  BY DEF DeliveryInv, SucceededMeansExecuted
<1> QED
  BY <1>1, DeliveryHolds, PTL

(* A provider that honours keys publishes a post once, however often the   *)
(* outbox, the start-up resume and the user send it.                       *)
THEOREM PublishedOnce == Spec => []KeyedPostPublishedOnce
<1>1. (\A i \in Items : DeliveryInv(i)) => KeyedPostPublishedOnce
  BY DEF DeliveryInv, KeyedPostPublishedOnce
<1> QED
  BY <1>1, DeliveryHolds, PTL

(* The note that replaces an edited Misskey note is created once.          *)
THEOREM RecreatedOnce == Spec => []NoteRecreatedOnce
<1>1. (\A i \in Items : DeliveryInv(i)) => NoteRecreatedOnce
  BY DEF DeliveryInv, NoteRecreatedOnce
<1> QED
  BY <1>1, DeliveryHolds, PTL

-----------------------------------------------------------------------------
(* Only a claim starts a delivery.                                         *)
LEMMA OnlyClaimsStart ==
  ASSUME TypeOK, [Next]_vars, ~ \E c \in Items : ClaimNext(c)
  PROVE  Live' \subseteq Live
<1> SUFFICES ASSUME NEW k \in Items, task'[k] # "none"
             PROVE  task[k] # "none"
  BY DEF Live
<1> USE DEF TypeOK, TaskSteps, ErrorClasses
<1>1. ASSUME NEW i \in Items, NEW now \in Stamps, Enqueue(i, now) PROVE task[k] # "none"
  BY <1>1 DEF Enqueue, taskVars, authVars, bootVars, provider, usage
<1>2. ASSUME NEW i \in Items, Retry(i) PROVE task[k] # "none"
  BY <1>2 DEF Retry, Requeue, taskVars, authVars, bootVars, provider, usage
<1>3. ASSUME NEW i \in Items, Cancel(i) PROVE task[k] # "none"
  BY <1>3 DEF Cancel, taskVars, authVars, bootVars, provider, usage
<1>4. ASSUME NEW i \in Items, ResumeOne(i) PROVE task[k] # "none"
  BY <1>4 DEF ResumeOne, Requeue, rowVars, taskVars, authVars, provider, usage
<1>5. ASSUME NEW i \in Items, ClaimNext(i) PROVE task[k] # "none"
  BY <1>5
<1>6. ASSUME NEW i \in Items, DelayElapses(i) PROVE task[k] # "none"
  BY <1>6 DEF DelayElapses, taskVars, authVars, bootVars, provider, usage
<1>7. ASSUME NEW i \in Items, ReadSessionKind(i) PROVE task[k] # "none"
  BY <1>7 DEF ReadSessionKind, Step, rowVars, authVars, bootVars, provider, usage
<1>8. ASSUME NEW i \in Items, FailBeforeSend(i) PROVE task[k] # "none"
  BY <1>8 DEF FailBeforeSend, Step, rowVars, authVars, bootVars, provider, usage
<1>9. ASSUME NEW i \in Items, Send(i) PROVE task[k] # "none"
  BY <1>9 DEF Send, Step, rowVars, authVars, bootVars, provider, usage
<1>10. ASSUME NEW i \in Items, ResponseArrives(i) PROVE task[k] # "none"
  BY <1>10 DEF ResponseArrives, Step, rowVars, authVars, bootVars, provider, usage
<1>11. ASSUME NEW i \in Items, SaveEdit(i) PROVE task[k] # "none"
  BY <1>11 DEF SaveEdit, Step, rowVars, authVars, bootVars, provider, usage
<1>12. ASSUME NEW i \in Items, MarkSucceeded(i) PROVE task[k] # "none"
  BY <1>12 DEF MarkSucceeded, Step, authVars, bootVars, provider, usage
<1>13. ASSUME NEW i \in Items, MarkFailure(i) PROVE task[k] # "none"
  BY <1>13 DEF MarkFailure, Step, authVars, bootVars, provider, usage
<1>14. ASSUME NEW i \in Items, MarkLost(i) PROVE task[k] # "none"
  BY <1>14 DEF MarkLost, Step, rowVars, authVars, bootVars, provider, usage
<1>15. ASSUME NEW i \in Items, ProviderExecutes(i) PROVE task[k] # "none"
  BY <1>15 DEF ProviderExecutes, Execute, KeyOf, Step, rowVars, authVars, bootVars, usage
<1>16. ASSUME NEW i \in Items, ProviderDeletesNote(i) PROVE task[k] # "none"
  BY <1>16 DEF ProviderDeletesNote, Step, rowVars, authVars, bootVars, usage
<1>17. ASSUME NEW i \in Items, ProviderRefuses(i) PROVE task[k] # "none"
  BY <1>17 DEF ProviderRefuses, Step, rowVars, authVars, bootVars, provider, usage
<1>18. ASSUME NEW i \in Items, RequestTimesOut(i) PROVE task[k] # "none"
  BY <1>18 DEF RequestTimesOut, Step, rowVars, authVars, bootVars, usage
<1>19. ASSUME NEW i \in Items, LateExecutes(i) PROVE task[k] # "none"
  BY <1>19 DEF LateExecutes, Execute, KeyOf, taskVars, rowVars, authVars, bootVars, usage
<1>20. ASSUME NEW i \in Items, LateDeletesNote(i) PROVE task[k] # "none"
  BY <1>20 DEF LateDeletesNote, taskVars, rowVars, authVars, bootVars, usage
<1>21. ASSUME NEW a \in Accts, LogoutDeletesRows(a) PROVE task[k] # "none"
  BY <1>21 DEF LogoutDeletesRows, taskVars, bootVars, provider, usage
<1>22. ASSUME NEW a \in Accts, LogoutRemovesSession(a) PROVE task[k] # "none"
  BY <1>22 DEF LogoutRemovesSession, rowVars, taskVars, bootVars, provider, usage
<1>23. ASSUME NEW a \in Accts, LoginPersists(a) \/ LoginAddsSession(a) PROVE task[k] # "none"
  BY <1>23 DEF LoginPersists, LoginAddsSession, rowVars, taskVars, bootVars, provider, usage
<1>24. CASE RecoverInterrupted
  BY <1>24 DEF RecoverInterrupted, rowVars, taskVars, authVars, provider, usage
<1>25. CASE ListInterrupted
  BY <1>25 DEF ListInterrupted, rowVars, taskVars, authVars, provider, usage
<1>26. CASE StartLoop
  BY <1>26 DEF StartLoop, rowVars, taskVars, authVars, provider, usage
<1>27. CASE Stop
  BY <1>27 DEF Stop, rowVars
<1>28. CASE Start
  BY <1>28 DEF Start, rowVars, taskVars, provider, usage
<1>29. CASE UNCHANGED vars
  BY <1>29 DEF vars, rowVars, taskVars, authVars, bootVars, provider, usage
<1> QED
  BY <1>1, <1>2, <1>3, <1>4, <1>5, <1>6, <1>7, <1>8, <1>9, <1>10, <1>11, <1>12, <1>13, <1>14, <1>15, <1>16, <1>17, <1>18, <1>19, <1>20, <1>21, <1>22, <1>23, <1>24, <1>25, <1>26, <1>27, <1>28, <1>29
  DEF Next, Deliver, Provider

(* The worker never runs more deliveries than its limit.                   *)
THEOREM ConcurrencyIsBounded == Spec => []BoundedConcurrency
<1> USE OutboxAssumption
<1>1. Init => BoundedConcurrency
  <2> SUFFICES ASSUME Init PROVE BoundedConcurrency
    OBVIOUS
  <2>1. Live = {}
    BY DEF Init, Live
  <2> QED
    BY <2>1, FS_EmptySet DEF BoundedConcurrency
<1>2. TypeOK /\ BoundedConcurrency /\ [Next]_vars => BoundedConcurrency'
  <2> SUFFICES ASSUME TypeOK, BoundedConcurrency, [Next]_vars
               PROVE  BoundedConcurrency'
    OBVIOUS
  <2>1. IsFiniteSet(Live) /\ Cardinality(Live) \in Nat
    <3>1. Live \subseteq Items
      BY DEF Live
    <3> QED
      BY <3>1, FS_Subset, FS_CardinalityType
  <2>2. ASSUME NEW c \in Items, ClaimNext(c) PROVE BoundedConcurrency'
    <3>1. Live' = Live \cup {c}
      BY <2>2 DEF Live, ClaimNext, TypeOK
    <3>2. Cardinality(Live') <= Cardinality(Live) + 1
      <4> DEFINE n == Cardinality(Live)
      <4>1. Cardinality(Live') = IF c \in Live THEN n ELSE n + 1
        BY <2>1, <3>1, FS_AddElement
      <4>2. n \in Nat
        BY <2>1
      <4> QED
        BY <4>1, <4>2
    <3>3. Cardinality(Live') \in Nat
      BY <2>1, <3>1, FS_AddElement, FS_CardinalityType
    <3> QED
      BY <2>1, <2>2, <3>2, <3>3 DEF BoundedConcurrency, ClaimNext
  <2>3. CASE Live' \subseteq Live
    <3>1. Cardinality(Live') <= Cardinality(Live) /\ Cardinality(Live') \in Nat
      BY <2>1, <2>3, FS_Subset, FS_CardinalityType
    <3> QED
      BY <2>1, <3>1 DEF BoundedConcurrency
  <2> QED
    BY <2>2, <2>3, OnlyClaimsStart
<1> QED
  BY <1>1, <1>2, TypeCorrect, PTL DEF Spec

-----------------------------------------------------------------------------
(* NoBlindResend, which edits violate, holds of posts.                     *)
NoPostResentBlindly ==
  [][\A i \in Items :
       UnkeyedPost(i) /\ task[i] = "ready" /\ task'[i] \in {"sent", "deleting"}
         => copies[i] + late[i] <= risky[i]]_vars

(* A post the provider may already have executed is sent again without the *)
(* user only where the provider honours keys.                              *)
THEOREM PostsNotResentBlindly == Spec => NoPostResentBlindly
<1>1. TypeOK /\ ExposureInv =>
        \A i \in Items : UnkeyedPost(i) /\ task[i] = "ready" => copies[i] + late[i] <= risky[i]
  BY DEF TypeOK, ExposureInv, ItemInv, Resendable, Exposure
<1>2. TypeOK /\ ExposureInv =>
        [\A i \in Items :
           UnkeyedPost(i) /\ task[i] = "ready" /\ task'[i] \in {"sent", "deleting"}
             => copies[i] + late[i] <= risky[i]]_vars
  BY <1>1
<1> QED
  BY <1>2, TypeCorrect, ExposureHolds, PTL DEF Spec, NoPostResentBlindly

(* CancelledStaysCancelled, which the start-up resume violates, holds but  *)
(* for the rows on its list.                                               *)
OnlyResumeUndoesCancel ==
  [][\A i \in Items :
       state[i] = "cancelled" /\ state'[i] = "queued"
         => \/ retries' > retries
            \/ worker = "resume" /\ i \in resume /\ Keyed(i)]_vars

(* One row of it, action by action.                                        *)
LEMMA CancelStep ==
  ASSUME TypeOK, [Next]_vars, NEW k \in Items,
         state[k] = "cancelled", state'[k] = "queued"
  PROVE  \/ retries' > retries
         \/ worker = "resume" /\ k \in resume /\ Keyed(k)
<1> DEFINE Allowed == \/ retries' > retries
                      \/ worker = "resume" /\ k \in resume /\ Keyed(k)
<1> SUFFICES Allowed
  OBVIOUS
<1> USE DEF TypeOK, Stored, RowStates
<1>1. ASSUME NEW i \in Items, NEW now \in Stamps, Enqueue(i, now) PROVE Allowed
  BY <1>1 DEF Enqueue, taskVars, authVars, bootVars, provider, usage
<1>2. ASSUME NEW i \in Items, Retry(i) PROVE Allowed
  BY <1>2 DEF Retry, Requeue, taskVars, authVars, bootVars, provider, usage
<1>3. ASSUME NEW i \in Items, Cancel(i) PROVE Allowed
  BY <1>3 DEF Cancel, taskVars, authVars, bootVars, provider, usage
<1>4. ASSUME NEW i \in Items, ResumeOne(i) PROVE Allowed
  BY <1>4 DEF ResumeOne, Requeue, rowVars, taskVars, authVars, provider, usage
<1>5. ASSUME NEW i \in Items, ClaimNext(i) PROVE Allowed
  BY <1>5 DEF ClaimNext, Claimable, authVars, bootVars, provider, usage
<1>6. ASSUME NEW i \in Items, DelayElapses(i) PROVE Allowed
  BY <1>6 DEF DelayElapses, taskVars, authVars, bootVars, provider, usage
<1>7. ASSUME NEW i \in Items, ReadSessionKind(i) PROVE Allowed
  BY <1>7 DEF ReadSessionKind, Step, rowVars, authVars, bootVars, provider, usage
<1>8. ASSUME NEW i \in Items, FailBeforeSend(i) PROVE Allowed
  BY <1>8 DEF FailBeforeSend, Step, rowVars, authVars, bootVars, provider, usage
<1>9. ASSUME NEW i \in Items, Send(i) PROVE Allowed
  BY <1>9 DEF Send, Step, rowVars, authVars, bootVars, provider, usage
<1>10. ASSUME NEW i \in Items, ResponseArrives(i) PROVE Allowed
  BY <1>10 DEF ResponseArrives, Step, rowVars, authVars, bootVars, provider, usage
<1>11. ASSUME NEW i \in Items, SaveEdit(i) PROVE Allowed
  BY <1>11 DEF SaveEdit, Step, rowVars, authVars, bootVars, provider, usage
<1>12. ASSUME NEW i \in Items, MarkSucceeded(i) PROVE Allowed
  BY <1>12 DEF MarkSucceeded, Step, authVars, bootVars, provider, usage
<1>13. ASSUME NEW i \in Items, MarkFailure(i) PROVE Allowed
  <2>1. FailureState(i) # "queued"
    BY DEF FailureState
  <2> QED
    BY <1>13, <2>1 DEF MarkFailure
<1>14. ASSUME NEW i \in Items, MarkLost(i) PROVE Allowed
  BY <1>14 DEF MarkLost, Step, rowVars, authVars, bootVars, provider, usage
<1>15. ASSUME NEW i \in Items, ProviderExecutes(i) PROVE Allowed
  BY <1>15 DEF ProviderExecutes, Execute, KeyOf, Step, rowVars, authVars, bootVars, usage
<1>16. ASSUME NEW i \in Items, ProviderDeletesNote(i) PROVE Allowed
  BY <1>16 DEF ProviderDeletesNote, Step, rowVars, authVars, bootVars, usage
<1>17. ASSUME NEW i \in Items, ProviderRefuses(i) PROVE Allowed
  BY <1>17 DEF ProviderRefuses, Step, rowVars, authVars, bootVars, provider, usage
<1>18. ASSUME NEW i \in Items, RequestTimesOut(i) PROVE Allowed
  BY <1>18 DEF RequestTimesOut, Step, rowVars, authVars, bootVars, usage
<1>19. ASSUME NEW i \in Items, LateExecutes(i) PROVE Allowed
  BY <1>19 DEF LateExecutes, Execute, KeyOf, taskVars, rowVars, authVars, bootVars, usage
<1>20. ASSUME NEW i \in Items, LateDeletesNote(i) PROVE Allowed
  BY <1>20 DEF LateDeletesNote, taskVars, rowVars, authVars, bootVars, usage
<1>21. ASSUME NEW a \in Accts, LogoutDeletesRows(a) PROVE Allowed
  BY <1>21 DEF LogoutDeletesRows
<1>22. ASSUME NEW a \in Accts, LogoutRemovesSession(a) PROVE Allowed
  BY <1>22 DEF LogoutRemovesSession, rowVars, taskVars, bootVars, provider, usage
<1>23. ASSUME NEW a \in Accts, LoginPersists(a) \/ LoginAddsSession(a)
      PROVE Allowed
  BY <1>23 DEF LoginPersists, LoginAddsSession, rowVars, taskVars, bootVars, provider, usage
<1>24. CASE RecoverInterrupted
  BY <1>24 DEF RecoverInterrupted, rowVars, taskVars, authVars, provider, usage
<1>25. CASE ListInterrupted
  BY <1>25 DEF ListInterrupted, rowVars, taskVars, authVars, provider, usage
<1>26. CASE StartLoop
  BY <1>26 DEF StartLoop, rowVars, taskVars, authVars, provider, usage
<1>27. CASE Stop
  BY <1>27 DEF Stop, rowVars
<1>28. CASE Start
  BY <1>28 DEF Start, rowVars, taskVars, provider, usage
<1>29. CASE UNCHANGED vars
  BY <1>29 DEF vars, rowVars, taskVars, authVars, bootVars, provider, usage
<1> QED
  BY <1>1, <1>2, <1>3, <1>4, <1>5, <1>6, <1>7, <1>8, <1>9, <1>10, <1>11, <1>12, <1>13, <1>14, <1>15, <1>16, <1>17, <1>18, <1>19, <1>20, <1>21, <1>22, <1>23, <1>24, <1>25, <1>26, <1>27, <1>28, <1>29
  DEF Next, Deliver, Provider

(* Nothing but a retry of the user, or the resume of a row the start-up    *)
(* listing showed in doubt on a provider with keys, queues a row again     *)
(* that was cancelled.                                                     *)
THEOREM CancelIsUndoneByResumeOnly == Spec => OnlyResumeUndoesCancel
<1>1. TypeOK /\ [Next]_vars =>
        [\A i \in Items :
           state[i] = "cancelled" /\ state'[i] = "queued"
             => \/ retries' > retries
                \/ worker = "resume" /\ i \in resume /\ Keyed(i)]_vars
  BY CancelStep
<1> QED
  BY <1>1, TypeCorrect, PTL DEF Spec, OnlyResumeUndoesCancel

-----------------------------------------------------------------------------
(***************************************************************************)
(* The outbox implements OutboxPromise.                                    *)
(***************************************************************************)

(* last_error says delivery_uncertain only while the row is in doubt, or   *)
(* was when it was withdrawn.                                              *)
UnsureInv == \A i \in Items : unsure[i] => state[i] \in {"uncertain", "cancelled", "deleted"}

PromiseInv == TypeOK /\ ExposureInv /\ (\A i \in Items : DeliveryInv(i)) /\ UnsureInv

PStep == Promise!PNext \/ UNCHANGED Promise!pVars

-----------------------------------------------------------------------------
(* The mapping.                                                            *)

(* Nothing else of an item is shown.                                       *)
ItemAlone(i) ==
  /\ state'[i] = state[i] /\ unsure'[i] = unsure[i]
  /\ risky'[i] = risky[i] /\ copies'[i] = copies[i]

(* A step that leaves the posts alone is a stutter.                        *)
LEMMA Hidden ==
  ASSUME \A i \in UnkeyedPosts : ItemAlone(i)
  PROVE  PStep
<1>1. \A i \in UnkeyedPosts : ShownState(i)' = ShownState(i)
  BY DEF ItemAlone, ShownState
<1>2. shownBar' = shownBar
  BY <1>1 DEF shownBar, UnkeyedPosts, UnkeyedPost, Keyed
<1>3. decisionsBar' = decisionsBar /\ publishedBar' = publishedBar
  BY DEF ItemAlone, decisionsBar, publishedBar, UnkeyedPosts, UnkeyedPost, Keyed
<1> QED
  BY <1>2, <1>3 DEF PStep, Promise!pVars

(* What a step that leaves all posts but one alone changes of the promise. *)
LEMMA Visible ==
  ASSUME NEW k \in UnkeyedPosts, \A i \in UnkeyedPosts \ {k} : ItemAlone(i)
  PROVE  /\ shownBar' = [shownBar EXCEPT ![k] = ShownState(k)']
         /\ decisionsBar' = [decisionsBar EXCEPT ![k] = 1 + risky'[k]]
         /\ publishedBar' = [publishedBar EXCEPT ![k] = copies'[k]]
         /\ risky'[k] = risky[k] => decisionsBar' = decisionsBar
         /\ copies'[k] = copies[k] => publishedBar' = publishedBar
         /\ state'[k] = state[k] /\ unsure'[k] = unsure[k] => shownBar' = shownBar
         /\ shownBar[k] = ShownState(k)
         /\ decisionsBar[k] = 1 + risky[k]
         /\ publishedBar[k] = copies[k]
<1> USE DEF UnkeyedPosts, UnkeyedPost, Keyed
<1>1. \A i \in UnkeyedPosts \ {k} : ShownState(i)' = ShownState(i)
  BY DEF ItemAlone, ShownState
<1>2. state'[k] = state[k] /\ unsure'[k] = unsure[k] => ShownState(k)' = ShownState(k)
  BY DEF ShownState
<1>3. shownBar' = [i \in UnkeyedPosts |-> ShownState(i)']
  BY DEF shownBar
<1>4. /\ shownBar' = [shownBar EXCEPT ![k] = ShownState(k)']
      /\ state'[k] = state[k] /\ unsure'[k] = unsure[k] => shownBar' = shownBar
      /\ shownBar[k] = ShownState(k)
  BY <1>1, <1>2, <1>3 DEF shownBar
<1>5. /\ decisionsBar' = [decisionsBar EXCEPT ![k] = 1 + risky'[k]]
      /\ risky'[k] = risky[k] => decisionsBar' = decisionsBar
      /\ decisionsBar[k] = 1 + risky[k]
  BY DEF decisionsBar, ItemAlone
<1>6. /\ publishedBar' = [publishedBar EXCEPT ![k] = copies'[k]]
      /\ copies'[k] = copies[k] => publishedBar' = publishedBar
      /\ publishedBar[k] = copies[k]
  BY DEF publishedBar, ItemAlone
<1> QED
  BY <1>4, <1>5, <1>6

-----------------------------------------------------------------------------
(* The steps.                                                              *)

LEMMA Unseen ==
  ASSUME UNCHANGED <<state, unsure, risky, copies>>
  PROVE  PStep
BY Hidden DEF ItemAlone

(* A step about one item shows nothing unless the item is such a post.     *)
LEMMA OneItem ==
  ASSUME NEW k \in Items, \A i \in Items \ {k} : ItemAlone(i),
         k \in UnkeyedPosts => PStep
  PROVE  PStep
<1>1. CASE k \in UnkeyedPosts
  BY <1>1
<1>2. CASE k \notin UnkeyedPosts
  BY <1>2, Hidden DEF UnkeyedPosts
<1> QED
  BY <1>1, <1>2

(* What the invariants say of such a post.                                 *)
LEMMA PostFacts ==
  ASSUME PromiseInv, NEW k \in UnkeyedPosts
  PROVE  /\ k \in Items /\ KindOf[k] = "post" /\ ~Keyed(k) /\ ~idem[k]
         /\ state[k] \in RowStates /\ unsure[k] \in BOOLEAN
         /\ copies[k] \in Nat /\ late[k] \in Nat /\ risky[k] \in Nat
         /\ task[k] # "none" => state[k] \in {"sending", "deleted"}
         /\ state[k] = "uncertain" => unsure[k]
         /\ unsure[k] => state[k] \in {"uncertain", "cancelled", "deleted"}
         /\ task[k] = "ok" => copies[k] > 0
         /\ task[k] \in {"busy", "final"} => copies[k] <= risky[k]
         /\ task[k] = "sent" => copies[k] <= risky[k]
         /\ late[k] > 0 => copies[k] <= risky[k]
         /\ late[k] > 0 /\ state[k] \in {"none", "queued", "retrying", "failed"}
              => copies[k] < risky[k]
         /\ late[k] > 0 /\ state[k] = "cancelled" /\ ~unsure[k] => copies[k] < risky[k]
<1> USE DEF PromiseInv, UnkeyedPosts
<1>1. k \in Items /\ UnkeyedPost(k) /\ KindOf[k] = "post" /\ ~Keyed(k)
  BY DEF UnkeyedPost
<1>2. ItemInv(k) /\ DeliveryInv(k) /\ (unsure[k] => state[k] \in {"uncertain", "cancelled", "deleted"})
  BY <1>1 DEF ExposureInv, UnsureInv
<1>3. /\ state[k] \in RowStates /\ unsure[k] \in BOOLEAN
      /\ copies[k] \in Nat /\ late[k] \in Nat /\ risky[k] \in Nat
  BY <1>1 DEF TypeOK
<1> QED
  BY <1>1, <1>2, <1>3 DEF ItemInv, DeliveryInv, Resendable, Exposure

(* Enqueue is Submit, a claim is Begin.                                    *)
LEMMA EnqueueKeepsPromise ==
  ASSUME PromiseInv, NEW k \in Items, NEW now \in Stamps, Enqueue(k, now)
  PROVE  PStep
<1>1. /\ state[k] = "none" /\ state' = [state EXCEPT ![k] = "queued"]
      /\ UNCHANGED <<unsure, risky, copies>>
  BY DEF Enqueue, provider, usage
<1>2. \A i \in Items \ {k} : ItemAlone(i)
  BY <1>1 DEF ItemAlone, PromiseInv, TypeOK
<1>3. ASSUME k \in UnkeyedPosts PROVE Promise!Submit(k)
  <2>1. ShownState(k) = "none" /\ ShownState(k)' = "waiting"
    BY <1>1, <1>3, PostFacts DEF ShownState, PromiseInv, TypeOK
  <2> QED
    BY <1>1, <1>2, <1>3, <2>1, Visible DEF Promise!Submit, Promise!Tell, UnkeyedPosts
<1> QED
  BY <1>2, <1>3, OneItem DEF PStep, Promise!PNext

LEMMA ClaimKeepsPromise ==
  ASSUME PromiseInv, NEW k \in Items, ClaimNext(k)
  PROVE  PStep
<1>1. /\ state[k] \in {"queued", "retrying"} /\ state' = [state EXCEPT ![k] = "sending"]
      /\ UNCHANGED <<unsure, risky, copies>>
  BY DEF ClaimNext, Claimable, provider, usage
<1>2. \A i \in Items \ {k} : ItemAlone(i)
  BY <1>1 DEF ItemAlone, PromiseInv, TypeOK
<1>3. ASSUME k \in UnkeyedPosts PROVE Promise!Begin(k)
  <2>1. ShownState(k) = "waiting" /\ ShownState(k)' = "sending"
    BY <1>1, <1>3, PostFacts DEF ShownState, PromiseInv, TypeOK
  <2> QED
    BY <1>1, <1>2, <1>3, <2>1, Visible DEF Promise!Begin, Promise!Tell, UnkeyedPosts
<1> QED
  BY <1>2, <1>3, OneItem DEF PStep, Promise!PNext

(* A retry is AskAgain, and a new decision exactly where the row says that *)
(* the delivery is uncertain.                                              *)
LEMMA RetryKeepsPromise ==
  ASSUME PromiseInv, NEW k \in Items, Retry(k)
  PROVE  PStep
<1>1. /\ state[k] \in {"failed", "uncertain", "cancelled"}
      /\ state' = [state EXCEPT ![k] = "queued"]
      /\ unsure' = [unsure EXCEPT ![k] = FALSE]
      /\ risky' = [risky EXCEPT ![k] = @ + (IF unsure[k] THEN 1 ELSE 0)]
      /\ UNCHANGED copies
  BY DEF Retry, Requeue, provider
<1>2. \A i \in Items \ {k} : ItemAlone(i)
  BY <1>1 DEF ItemAlone, PromiseInv, TypeOK
<1>3. ASSUME k \in UnkeyedPosts PROVE Promise!AskAgain(k)
  <2>1. /\ ShownState(k) \in {"unsure", "failed", "withdrawn"}
        /\ ShownState(k) = "unsure" <=> unsure[k]
        /\ ShownState(k)' = "waiting"
    BY <1>1, <1>3, PostFacts DEF ShownState, PromiseInv, TypeOK
  <2>2. risky'[k] = IF unsure[k] THEN risky[k] + 1 ELSE risky[k]
    BY <1>1, <1>3, PostFacts DEF PromiseInv, TypeOK
  <2>3. /\ shownBar[k] = ShownState(k)
        /\ shownBar' = [shownBar EXCEPT ![k] = "waiting"]
        /\ UNCHANGED publishedBar
    BY <1>1, <1>2, <1>3, <2>1, Visible DEF UnkeyedPosts
  <2>4. decisionsBar' = [decisionsBar EXCEPT ![k] = 1 + risky'[k]] /\ decisionsBar[k] = 1 + risky[k]
    BY <1>2, <1>3, Visible DEF UnkeyedPosts
  <2>5. 1 + risky'[k] = IF shownBar[k] = "unsure" THEN decisionsBar[k] + 1 ELSE decisionsBar[k]
    BY <1>3, <2>1, <2>2, <2>3, <2>4, PostFacts
  <2> QED
    BY <2>1, <2>3, <2>4, <2>5 DEF Promise!AskAgain, Promise!Tell
<1> QED
  BY <1>2, <1>3, OneItem DEF PStep, Promise!PNext

(* A cancel is Withdraw, and of a row in doubt shows nothing.              *)
LEMMA CancelKeepsPromise ==
  ASSUME PromiseInv, NEW k \in Items, Cancel(k)
  PROVE  PStep
<1>1. /\ state[k] \in {"queued", "retrying", "failed", "uncertain"}
      /\ state' = [state EXCEPT ![k] = "cancelled"]
      /\ UNCHANGED <<unsure, risky, copies>>
  BY DEF Cancel, provider, usage
<1>2. \A i \in Items \ {k} : ItemAlone(i)
  BY <1>1 DEF ItemAlone, PromiseInv, TypeOK
<1>3. ASSUME k \in UnkeyedPosts PROVE PStep
  <2>1. state'[k] = "cancelled" /\ unsure'[k] = unsure[k]
    BY <1>1, <1>3, PostFacts DEF PromiseInv, TypeOK
  <2>2. CASE state[k] = "uncertain"
    <3>1. ShownState(k) = "unsure" /\ ShownState(k)' = "unsure"
      BY <1>3, <2>1, <2>2, PostFacts DEF ShownState
    <3>2. shownBar' = [shownBar EXCEPT ![k] = shownBar[k]] /\ UNCHANGED <<decisionsBar, publishedBar>>
      BY <1>1, <1>2, <1>3, <3>1, Visible DEF UnkeyedPosts
    <3>3. shownBar' = shownBar
      BY <3>2 DEF shownBar
    <3> QED
      BY <3>2, <3>3 DEF PStep, Promise!pVars
  <2>3. CASE state[k] # "uncertain"
    <3>1. ShownState(k) \in {"waiting", "failed"} /\ ShownState(k)' = "withdrawn"
      BY <1>1, <1>3, <2>1, <2>3, PostFacts DEF ShownState
    <3>2. Promise!Withdraw(k)
      BY <1>1, <1>2, <1>3, <3>1, Visible DEF Promise!Withdraw, Promise!Tell, UnkeyedPosts
    <3> QED
      BY <1>3, <3>2 DEF PStep, Promise!PNext
  <2> QED
    BY <2>2, <2>3
<1> QED
  BY <1>2, <1>3, OneItem

(* The start-up resume re-queues only rows of providers with keys.         *)
LEMMA ResumeKeepsPromise ==
  ASSUME PromiseInv, NEW k \in Items, ResumeOne(k)
  PROVE  PStep
<1>1. UNCHANGED <<risky, copies>>
  BY DEF ResumeOne, provider, usage
<1>2. CASE UNCHANGED rowVars
  BY <1>1, <1>2, Unseen DEF rowVars
<1>3. CASE Keyed(k) /\ Requeue(k)
  <2>1. \A i \in Items \ {k} : ItemAlone(i)
    BY <1>1, <1>3 DEF ItemAlone, Requeue, PromiseInv, TypeOK
  <2> QED
    BY <1>3, <2>1, OneItem, PostFacts
<1> QED
  BY <1>2, <1>3 DEF ResumeOne

(* The result of a delivery is Settle: done only when the post is there,   *)
(* tried again or given up only when the last decision is not used.        *)
LEMMA SuccessKeepsPromise ==
  ASSUME PromiseInv, NEW k \in Items, MarkSucceeded(k)
  PROVE  PStep
<1>1. task[k] = "ok" /\ UNCHANGED <<risky, copies>>
  BY DEF MarkSucceeded, Step, provider, usage
<1>2. CASE state[k] # "sending"
  <2>1. UNCHANGED <<state, unsure>>
    BY <1>2 DEF MarkSucceeded
  <2> QED
    BY <1>1, <2>1, Unseen
<1>3. CASE state[k] = "sending"
  <2>1. /\ state' = [state EXCEPT ![k] = "succeeded"]
        /\ unsure' = [unsure EXCEPT ![k] = FALSE]
    BY <1>3 DEF MarkSucceeded
  <2>2. \A i \in Items \ {k} : ItemAlone(i)
    BY <1>1, <2>1 DEF ItemAlone, PromiseInv, TypeOK
  <2>3. ASSUME k \in UnkeyedPosts PROVE Promise!Settle(k)
    <3>1. ShownState(k) = "sending" /\ ShownState(k)' = "done"
      BY <1>3, <2>1, <2>3, PostFacts DEF ShownState, PromiseInv, TypeOK
    <3>2. publishedBar[k] > 0
      BY <1>1, <2>2, <2>3, PostFacts, Visible DEF UnkeyedPosts
    <3> QED
      BY <1>1, <2>2, <2>3, <3>1, <3>2, Visible DEF Promise!Settle, Promise!Tell, UnkeyedPosts
  <2> QED
    BY <2>2, <2>3, OneItem DEF PStep, Promise!PNext
<1> QED
  BY <1>2, <1>3

LEMMA FailureKeepsPromise ==
  ASSUME PromiseInv, NEW k \in Items, MarkFailure(k)
  PROVE  PStep
<1>1. task[k] \in {"busy", "ambiguous", "final"} /\ UNCHANGED <<risky, copies>>
  BY DEF MarkFailure, Step, ErrorClasses, provider, usage
<1>2. CASE state[k] # "sending"
  <2>1. UNCHANGED <<state, unsure>>
    BY <1>2 DEF MarkFailure
  <2> QED
    BY <1>1, <2>1, Unseen
<1>3. CASE state[k] = "sending"
  <2> DEFINE f == FailureState(k)
  <2>1. /\ state' = [state EXCEPT ![k] = f]
        /\ unsure' = [unsure EXCEPT ![k] = f = "uncertain"]
    BY <1>3 DEF MarkFailure
  <2>2. f \in {"retrying", "uncertain", "failed"}
    BY DEF FailureState
  <2>3. ~idem[k] /\ f # "uncertain" => task[k] \in {"busy", "final"}
    BY <1>1 DEF FailureState, ShouldRetry
  <2> HIDE DEF f
  <2>4. \A i \in Items \ {k} : ItemAlone(i)
    BY <1>1, <2>1 DEF ItemAlone, PromiseInv, TypeOK
  <2>5. ASSUME k \in UnkeyedPosts PROVE Promise!Settle(k)
    <3>1. state'[k] = f /\ unsure'[k] = (f = "uncertain")
      BY <2>1, <2>5, PostFacts DEF PromiseInv, TypeOK
    <3>2. /\ ShownState(k) = "sending"
          /\ ShownState(k)' = CASE f = "retrying" -> "waiting" [] f = "uncertain" -> "unsure"
                                [] OTHER -> "failed"
      BY <1>3, <2>2, <3>1 DEF ShownState
    <3>3. f # "uncertain" => publishedBar[k] < decisionsBar[k]
      BY <2>3, <2>4, <2>5, PostFacts, Visible DEF UnkeyedPosts
    <3>4. /\ shownBar[k] = "sending" /\ UNCHANGED <<decisionsBar, publishedBar>>
          /\ shownBar' = [shownBar EXCEPT ![k] = ShownState(k)']
      BY <1>1, <2>4, <2>5, <3>2, Visible DEF UnkeyedPosts
    <3> QED
      BY <2>2, <3>2, <3>3, <3>4 DEF Promise!Settle, Promise!Tell
  <2> QED
    BY <2>4, <2>5, OneItem DEF PStep, Promise!PNext
<1> QED
  BY <1>2, <1>3

(* An execution at the provider is Publish, late or not.                   *)
LEMMA ExecuteKeepsPromise ==
  ASSUME PromiseInv, NEW k \in Items, Execute(k), UNCHANGED <<state, unsure, risky>>,
         task[k] = "sent" \/ late[k] > 0
  PROVE  PStep
<1>1. \A i \in Items \ {k} : ItemAlone(i)
  BY ExecuteEffect DEF ItemAlone, PromiseInv
<1>2. ASSUME k \in UnkeyedPosts PROVE Promise!Publish(k)
  <2>1. copies'[k] = copies[k] + 1
    BY <1>2, ExecuteEffect, PostFacts DEF PromiseInv
  <2>2. /\ UNCHANGED <<shownBar, decisionsBar>>
        /\ publishedBar' = [publishedBar EXCEPT ![k] = publishedBar[k] + 1]
        /\ shownBar[k] = ShownState(k)
        /\ decisionsBar[k] = 1 + risky[k] /\ publishedBar[k] = copies[k]
    BY <1>1, <1>2, <2>1, Visible DEF UnkeyedPosts
  <2>3. ShownState(k) \in {"none", "waiting", "failed", "withdrawn"} => copies[k] < risky[k]
    <3>1. ShownState(k) \in {"none", "waiting", "failed", "withdrawn"} =>
            \/ state[k] \in {"none", "queued", "retrying", "failed"}
            \/ state[k] = "cancelled" /\ ~unsure[k]
      BY <1>2, PostFacts DEF ShownState, RowStates
    <3> QED
      BY <1>2, <3>1, PostFacts
  <2>4. copies[k] <= risky[k]
    BY <1>2, PostFacts
  <2>5. publishedBar[k] < Promise!Allowed(k)
    BY <1>2, <2>2, <2>3, <2>4, PostFacts DEF Promise!Allowed
  <2> QED
    BY <2>2, <2>5 DEF Promise!Publish
<1> QED
  BY <1>1, <1>2, OneItem DEF PStep, Promise!PNext

(* What the recovery at the start finds being sent is in doubt.            *)
LEMMA RecoveryKeepsPromise ==
  ASSUME PromiseInv, RecoverInterrupted
  PROVE  PStep
<1>1. UNCHANGED <<risky, copies>>
  BY DEF RecoverInterrupted, provider, usage
<1>2. CASE UNCHANGED rowVars
  BY <1>1, <1>2, Unseen DEF rowVars
<1>3. CASE /\ state' = [i \in Items |->
                          IF state[i] = "sending" THEN "uncertain" ELSE state[i]]
           /\ unsure' = [i \in Items |-> state[i] = "sending" \/ unsure[i]]
  <2>1. ASSUME NEW k \in UnkeyedPosts
        PROVE  ShownState(k)' = IF ShownState(k) = "sending" THEN "unsure" ELSE ShownState(k)
    <3>1. k \in Items /\ state[k] \in RowStates
      BY PostFacts
    <3>2. state'[k] = IF state[k] = "sending" THEN "uncertain" ELSE state[k]
      BY <1>3, <3>1, Zenon
    <3>3. unsure'[k] = (state[k] = "sending" \/ unsure[k])
      BY <1>3, <3>1, Zenon
    <3>4. CASE state[k] = "sending"
      BY <3>2, <3>4 DEF ShownState
    <3>5. CASE state[k] # "sending"
      <4>1. state'[k] = state[k] /\ unsure'[k] = unsure[k]
        BY <3>2, <3>3, <3>5, PostFacts
      <4>2. ShownState(k) # "sending"
        BY <3>1, <3>5 DEF ShownState, RowStates
      <4> QED
        BY <4>1, <4>2 DEF ShownState
    <3> QED
      BY <3>4, <3>5
  <2>2. shownBar' = [k \in UnkeyedPosts |->
                       IF shownBar[k] = "sending" THEN "unsure" ELSE shownBar[k]]
    BY <2>1 DEF shownBar, UnkeyedPosts, UnkeyedPost, Keyed
  <2>3. UNCHANGED <<decisionsBar, publishedBar>>
    BY <1>1 DEF decisionsBar, publishedBar, UnkeyedPosts, UnkeyedPost, Keyed
  <2> QED
    BY <2>2, <2>3 DEF PStep, Promise!PNext, Promise!Interrupted
<1> QED
  BY <1>2, <1>3 DEF RecoverInterrupted

(* A logout removes the posts of its account.                              *)
LEMMA LogoutKeepsPromise ==
  ASSUME PromiseInv, NEW a \in Accts, LogoutDeletesRows(a)
  PROVE  PStep
<1>1. /\ state' = [i \in Items |->
                     IF AcctOf[i] = a /\ state[i] \in Stored THEN "deleted" ELSE state[i]]
      /\ UNCHANGED <<unsure, risky, copies>>
  BY DEF LogoutDeletesRows, provider, usage
<1> DEFINE away == {k \in UnkeyedPosts : AcctOf[k] = a /\ state[k] \in Stored}
<1>2. ASSUME NEW k \in UnkeyedPosts
      PROVE  /\ ShownState(k)' = IF k \in away THEN "removed" ELSE ShownState(k)
             /\ k \in away => ShownState(k) # "none"
  <2>1. k \in Items /\ state[k] \in RowStates /\ unsure'[k] = unsure[k]
    BY <1>1, PostFacts
  <2>2. state'[k] = IF k \in away THEN "deleted" ELSE state[k]
    BY <1>1, <2>1
  <2>3. k \in away => ShownState(k)' = "removed" /\ ShownState(k) # "none"
    BY <2>1, <2>2 DEF ShownState, Stored, RowStates
  <2>4. k \notin away => ShownState(k)' = ShownState(k)
    BY <2>1, <2>2 DEF ShownState
  <2> QED
    BY <2>3, <2>4
<1>3. away \in SUBSET {k \in UnkeyedPosts : shownBar[k] # "none"}
  BY <1>2 DEF shownBar
<1>4. shownBar' = [k \in UnkeyedPosts |-> IF k \in away THEN "removed" ELSE shownBar[k]]
  BY <1>2 DEF shownBar, UnkeyedPosts, UnkeyedPost, Keyed
<1>5. UNCHANGED <<decisionsBar, publishedBar>>
  BY <1>1 DEF decisionsBar, publishedBar, UnkeyedPosts, UnkeyedPost, Keyed
<1> HIDE DEF away
<1> QED
  BY <1>3, <1>4, <1>5 DEF PStep, Promise!PNext, Promise!Remove

LEMMA EveryStep ==
  ASSUME PromiseInv, [Next]_vars
  PROVE  PStep
<1>1. ASSUME NEW i \in Items, NEW now \in Stamps, Enqueue(i, now) PROVE PStep
  BY <1>1, EnqueueKeepsPromise
<1>2. ASSUME NEW i \in Items, Retry(i) PROVE PStep
  BY <1>2, RetryKeepsPromise
<1>3. ASSUME NEW i \in Items, Cancel(i) PROVE PStep
  BY <1>3, CancelKeepsPromise
<1>4. ASSUME NEW i \in Items, ResumeOne(i) PROVE PStep
  BY <1>4, ResumeKeepsPromise
<1>5. ASSUME NEW i \in Items, ClaimNext(i) PROVE PStep
  BY <1>5, ClaimKeepsPromise
<1>6. ASSUME NEW i \in Items, DelayElapses(i) PROVE PStep
  BY <1>6, Unseen DEF DelayElapses, provider, usage
<1>7. ASSUME NEW i \in Items, ReadSessionKind(i) PROVE PStep
  BY <1>7, Unseen DEF ReadSessionKind, rowVars, provider, usage
<1>8. ASSUME NEW i \in Items, FailBeforeSend(i) PROVE PStep
  BY <1>8, Unseen DEF FailBeforeSend, rowVars, provider, usage
<1>9. ASSUME NEW i \in Items, Send(i) PROVE PStep
  BY <1>9, Unseen DEF Send, rowVars, provider, usage
<1>10. ASSUME NEW i \in Items, ResponseArrives(i) PROVE PStep
  BY <1>10, Unseen DEF ResponseArrives, rowVars, provider, usage
<1>11. ASSUME NEW i \in Items, SaveEdit(i) PROVE PStep
  BY <1>11, Unseen DEF SaveEdit, rowVars, provider, usage
<1>12. ASSUME NEW i \in Items, MarkSucceeded(i) PROVE PStep
  BY <1>12, SuccessKeepsPromise
<1>13. ASSUME NEW i \in Items, MarkFailure(i) PROVE PStep
  BY <1>13, FailureKeepsPromise
<1>14. ASSUME NEW i \in Items, MarkLost(i) PROVE PStep
  BY <1>14, Unseen DEF MarkLost, rowVars, provider, usage
<1>15. ASSUME NEW i \in Items, ProviderExecutes(i) PROVE PStep
  BY <1>15, ExecuteKeepsPromise DEF ProviderExecutes, Step, rowVars, usage
<1>16. ASSUME NEW i \in Items, ProviderDeletesNote(i) PROVE PStep
  BY <1>16, Unseen DEF ProviderDeletesNote, rowVars, usage
<1>17. ASSUME NEW i \in Items, ProviderRefuses(i) PROVE PStep
  BY <1>17, Unseen DEF ProviderRefuses, rowVars, provider, usage
<1>18. ASSUME NEW i \in Items, RequestTimesOut(i) PROVE PStep
  BY <1>18, Unseen DEF RequestTimesOut, rowVars, usage
<1>19. ASSUME NEW i \in Items, LateExecutes(i) PROVE PStep
  BY <1>19, ExecuteKeepsPromise DEF LateExecutes, rowVars, usage
<1>20. ASSUME NEW i \in Items, LateDeletesNote(i) PROVE PStep
  BY <1>20, Unseen DEF LateDeletesNote, rowVars, usage
<1>21. ASSUME NEW a \in Accts, LogoutDeletesRows(a) PROVE PStep
  BY <1>21, LogoutKeepsPromise
<1>22. ASSUME NEW a \in Accts, LogoutRemovesSession(a) PROVE PStep
  BY <1>22, Unseen DEF LogoutRemovesSession, rowVars, provider, usage
<1>23. ASSUME NEW a \in Accts, LoginPersists(a) \/ LoginAddsSession(a)
      PROVE PStep
  BY <1>23, Unseen DEF LoginPersists, LoginAddsSession, rowVars, provider, usage
<1>24. CASE RecoverInterrupted
  BY <1>24, RecoveryKeepsPromise
<1>25. CASE ListInterrupted
  BY <1>25, Unseen DEF ListInterrupted, rowVars, provider, usage
<1>26. CASE StartLoop
  BY <1>26, Unseen DEF StartLoop, rowVars, provider, usage
<1>27. CASE Stop
  BY <1>27, Unseen DEF Stop, rowVars
<1>28. CASE Start
  BY <1>28, Unseen DEF Start, rowVars, provider, usage
<1>29. CASE UNCHANGED vars
  BY <1>29, Unseen DEF vars, rowVars, provider, usage
<1> QED
  BY <1>1, <1>2, <1>3, <1>4, <1>5, <1>6, <1>7, <1>8, <1>9, <1>10, <1>11, <1>12, <1>13, <1>14, <1>15, <1>16, <1>17, <1>18, <1>19, <1>20, <1>21, <1>22, <1>23, <1>24, <1>25, <1>26, <1>27, <1>28, <1>29
  DEF Next, Deliver, Provider

-----------------------------------------------------------------------------
LEMMA UnsureStep ==
  ASSUME TypeOK, ExposureInv, [Next]_vars, UnsureInv, NEW k \in Items
  PROVE  unsure'[k] => state'[k] \in {"uncertain", "cancelled", "deleted"}
<1> DEFINE Doubt == unsure'[k] => state'[k] \in {"uncertain", "cancelled", "deleted"}
<1>0. /\ state[k] \in RowStates /\ unsure[k] \in BOOLEAN
      /\ unsure[k] => state[k] \in {"uncertain", "cancelled", "deleted"}
      /\ task[k] # "none" => state[k] \in {"sending", "deleted"}
      /\ state \in [Items -> RowStates] /\ unsure \in [Items -> BOOLEAN]
  BY DEF UnsureInv, TypeOK, ExposureInv, ItemInv
<1> SUFFICES Doubt
  OBVIOUS
<1> USE <1>0
<1>1. ASSUME NEW i \in Items, NEW now \in Stamps, Enqueue(i, now) PROVE Doubt
  BY <1>1 DEF Enqueue, taskVars, authVars, bootVars, provider, usage
<1>2. ASSUME NEW i \in Items, Retry(i) PROVE Doubt
  BY <1>2 DEF Retry, Requeue, taskVars, authVars, bootVars, provider, usage
<1>3. ASSUME NEW i \in Items, Cancel(i) PROVE Doubt
  BY <1>3 DEF Cancel, taskVars, authVars, bootVars, provider, usage
<1>4. ASSUME NEW i \in Items, ResumeOne(i) PROVE Doubt
  BY <1>4 DEF ResumeOne, Requeue, rowVars, taskVars, authVars, provider, usage
<1>5. ASSUME NEW i \in Items, ClaimNext(i) PROVE Doubt
  BY <1>5 DEF ClaimNext, Claimable
<1>6. ASSUME NEW i \in Items, DelayElapses(i) PROVE Doubt
  BY <1>6 DEF DelayElapses, taskVars, authVars, bootVars, provider, usage
<1>7. ASSUME NEW i \in Items, ReadSessionKind(i) PROVE Doubt
  BY <1>7 DEF ReadSessionKind, Step, rowVars, authVars, bootVars, provider, usage
<1>8. ASSUME NEW i \in Items, FailBeforeSend(i) PROVE Doubt
  BY <1>8 DEF FailBeforeSend, Step, rowVars, authVars, bootVars, provider, usage
<1>9. ASSUME NEW i \in Items, Send(i) PROVE Doubt
  BY <1>9 DEF Send, Step, rowVars, authVars, bootVars, provider, usage
<1>10. ASSUME NEW i \in Items, ResponseArrives(i) PROVE Doubt
  BY <1>10 DEF ResponseArrives, Step, rowVars, authVars, bootVars, provider, usage
<1>11. ASSUME NEW i \in Items, SaveEdit(i) PROVE Doubt
  BY <1>11 DEF SaveEdit, Step, rowVars, authVars, bootVars, provider, usage
<1>12. ASSUME NEW i \in Items, MarkSucceeded(i) PROVE Doubt
  BY <1>12 DEF MarkSucceeded, Step, authVars, bootVars, provider, usage
<1>13. ASSUME NEW i \in Items, MarkFailure(i) PROVE Doubt
  <2>1. CASE k # i \/ state[i] # "sending"
    BY <1>13, <2>1 DEF MarkFailure
  <2>2. CASE k = i /\ state[i] = "sending"
    <3>1. state'[k] = FailureState(i) /\ unsure'[k] = (FailureState(i) = "uncertain")
      BY <1>13, <2>2 DEF MarkFailure
    <3> QED
      BY <3>1
  <2> QED
    BY <2>1, <2>2
<1>14. ASSUME NEW i \in Items, MarkLost(i) PROVE Doubt
  BY <1>14 DEF MarkLost, Step, rowVars, authVars, bootVars, provider, usage
<1>15. ASSUME NEW i \in Items, ProviderExecutes(i) PROVE Doubt
  BY <1>15 DEF ProviderExecutes, Execute, KeyOf, Step, rowVars, authVars, bootVars, usage
<1>16. ASSUME NEW i \in Items, ProviderDeletesNote(i) PROVE Doubt
  BY <1>16 DEF ProviderDeletesNote, Step, rowVars, authVars, bootVars, usage
<1>17. ASSUME NEW i \in Items, ProviderRefuses(i) PROVE Doubt
  BY <1>17 DEF ProviderRefuses, Step, rowVars, authVars, bootVars, provider, usage
<1>18. ASSUME NEW i \in Items, RequestTimesOut(i) PROVE Doubt
  BY <1>18 DEF RequestTimesOut, Step, rowVars, authVars, bootVars, usage
<1>19. ASSUME NEW i \in Items, LateExecutes(i) PROVE Doubt
  BY <1>19 DEF LateExecutes, Execute, KeyOf, taskVars, rowVars, authVars, bootVars, usage
<1>20. ASSUME NEW i \in Items, LateDeletesNote(i) PROVE Doubt
  BY <1>20 DEF LateDeletesNote, taskVars, rowVars, authVars, bootVars, usage
<1>21. ASSUME NEW a \in Accts, LogoutDeletesRows(a) PROVE Doubt
  BY <1>21 DEF LogoutDeletesRows, taskVars, bootVars, provider, usage
<1>22. ASSUME NEW a \in Accts, LogoutRemovesSession(a) PROVE Doubt
  BY <1>22 DEF LogoutRemovesSession, rowVars, taskVars, bootVars, provider, usage
<1>23. ASSUME NEW a \in Accts, LoginPersists(a) \/ LoginAddsSession(a)
      PROVE Doubt
  BY <1>23 DEF LoginPersists, LoginAddsSession, rowVars, taskVars, bootVars, provider, usage
<1>24. CASE RecoverInterrupted
  <2>1. CASE UNCHANGED rowVars
    BY <2>1 DEF rowVars
  <2>2. CASE /\ state' = [i \in Items |->
                            IF state[i] = "sending" THEN "uncertain" ELSE state[i]]
             /\ unsure' = [i \in Items |-> state[i] = "sending" \/ unsure[i]]
    <3>1. unsure'[k] = (state[k] = "sending" \/ unsure[k])
      BY <2>2, Zenon
    <3>2. state'[k] = IF state[k] = "sending" THEN "uncertain" ELSE state[k]
      BY <2>2, Zenon
    <3> QED
      BY <3>1, <3>2
  <2> QED
    BY <1>24, <2>1, <2>2 DEF RecoverInterrupted
<1>25. CASE ListInterrupted
  BY <1>25 DEF ListInterrupted, rowVars, taskVars, authVars, provider, usage
<1>26. CASE StartLoop
  BY <1>26 DEF StartLoop, rowVars, taskVars, authVars, provider, usage
<1>27. CASE Stop
  BY <1>27 DEF Stop, rowVars
<1>28. CASE Start
  BY <1>28 DEF Start, rowVars, taskVars, provider, usage
<1>29. CASE UNCHANGED vars
  BY <1>29 DEF vars, rowVars, taskVars, authVars, bootVars, provider, usage
<1> QED
  BY <1>1, <1>2, <1>3, <1>4, <1>5, <1>6, <1>7, <1>8, <1>9, <1>10, <1>11, <1>12, <1>13, <1>14, <1>15, <1>16, <1>17, <1>18, <1>19, <1>20, <1>21, <1>22, <1>23, <1>24, <1>25, <1>26, <1>27, <1>28, <1>29
  DEF Next, Deliver, Provider

LEMMA PromiseInvHolds == Spec => []PromiseInv
<1>1. Init => UnsureInv
  BY DEF Init, UnsureInv
<1>2. TypeOK /\ ExposureInv /\ UnsureInv /\ [Next]_vars => UnsureInv'
  BY UnsureStep DEF UnsureInv
<1> QED
  BY <1>1, <1>2, TypeCorrect, ExposureHolds, DeliveryHolds, PTL DEF Spec, PromiseInv

LEMMA StartKeepsPromise == Init => Promise!PInit
<1> SUFFICES ASSUME Init PROVE Promise!PInit
  OBVIOUS
<1>1. \A i \in UnkeyedPosts : i \in Items /\ ShownState(i) = "none" /\ risky[i] = 0 /\ copies[i] = 0
  BY DEF Init, ShownState, UnkeyedPosts
<1> QED
  BY <1>1 DEF Promise!PInit, shownBar, decisionsBar, publishedBar

(* Every behaviour of the rows, the worker, the deliveries, the requests   *)
(* and the restarts is one the author of a post was promised.              *)
THEOREM OutboxKeepsPromise == Spec => KeepsPromise
<1>1. PromiseInv /\ [Next]_vars => [Promise!PNext]_(Promise!pVars)
  BY EveryStep DEF PStep
<1> QED
  BY <1>1, StartKeepsPromise, PromiseInvHolds, PTL DEF Spec, KeepsPromise, Promise!PSpec
=============================================================================
