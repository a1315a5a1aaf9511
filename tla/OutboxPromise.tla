---------------------------- MODULE OutboxPromise ----------------------------
(***************************************************************************)
(* What the outbox promises the author of a post whose provider has no     *)
(* idempotency keys, without rows, claims, deliveries, requests, retries   *)
(* or restarts: every decision of the author is good for one copy, and a   *)
(* post that is said to be waiting, withdrawn or failed has not used the   *)
(* last decision, so that nothing of it will appear.                       *)
(***************************************************************************)
EXTENDS Naturals

CONSTANT Promised                \* posts

VARIABLES
    shown,       \* [Promised -> Shown] what the author is told
    decisions,   \* [Promised -> Nat] times the author decided that it may be published
    published    \* [Promised -> Nat] copies that exist

pVars == <<shown, decisions, published>>

Shown == {"none", "waiting", "sending", "unsure", "done", "failed", "withdrawn", "removed"}

\* Copies there may be: none for the last decision while it is not acted on.
Allowed(p) ==
    IF shown[p] \in {"none", "waiting", "failed", "withdrawn"} THEN decisions[p] - 1
    ELSE decisions[p]

PInit ==
    /\ shown = [p \in Promised |-> "none"]
    /\ decisions = [p \in Promised |-> 1]
    /\ published = [p \in Promised |-> 0]

Tell(p, from, to) == shown[p] \in from /\ shown' = [shown EXCEPT ![p] = to]

Submit(p) == Tell(p, {"none"}, "waiting") /\ UNCHANGED <<decisions, published>>

Begin(p) == Tell(p, {"waiting"}, "sending") /\ UNCHANGED <<decisions, published>>

\* A copy appears: while it is being sent, or late.
Publish(p) ==
    /\ published[p] < Allowed(p)
    /\ published' = [published EXCEPT ![p] = @ + 1]
    /\ UNCHANGED <<shown, decisions>>

\* The post is done only if it is there, and given up or tried again only if the last
\* decision has not been used.
Settle(p) ==
    /\ \/ Tell(p, {"sending"}, "done") /\ published[p] > 0
       \/ Tell(p, {"sending"}, "unsure")
       \/ /\ published[p] < decisions[p]
          /\ Tell(p, {"sending"}, "waiting") \/ Tell(p, {"sending"}, "failed")
    /\ UNCHANGED <<decisions, published>>

Withdraw(p) == Tell(p, {"waiting", "failed"}, "withdrawn") /\ UNCHANGED <<decisions, published>>

\* The author asks again; where it is not known what became of the post this is a decision.
AskAgain(p) ==
    /\ Tell(p, {"unsure", "failed", "withdrawn"}, "waiting")
    /\ decisions' = [decisions EXCEPT ![p] = IF shown[p] = "unsure" THEN @ + 1 ELSE @]
    /\ UNCHANGED published

\* Whatever was being sent when the process stopped is in doubt.
Interrupted ==
    /\ shown' = [p \in Promised |-> IF shown[p] = "sending" THEN "unsure" ELSE shown[p]]
    /\ UNCHANGED <<decisions, published>>

\* A logout takes all posts of an account away.
Remove ==
    /\ \E gone \in SUBSET {p \in Promised : shown[p] # "none"} :
         shown' = [p \in Promised |-> IF p \in gone THEN "removed" ELSE shown[p]]
    /\ UNCHANGED <<decisions, published>>

PNext ==
    \/ \E p \in Promised : \/ Submit(p) \/ Begin(p) \/ Publish(p) \/ Settle(p)
                           \/ Withdraw(p) \/ AskAgain(p)
    \/ Interrupted \/ Remove

PSpec == PInit /\ [][PNext]_pVars
=============================================================================
