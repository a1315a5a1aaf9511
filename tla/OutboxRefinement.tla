-------------------------- MODULE OutboxRefinement --------------------------
(***************************************************************************)
(* The compose outbox implements OutboxPromise for the posts whose         *)
(* provider has no idempotency keys.                                       *)
(***************************************************************************)
EXTENDS ComposeOutbox

UnkeyedPosts == {i \in Items : UnkeyedPost(i)}

\* The listing of the outbox (services/compose_outbox.rs) as the author reads it: a row that
\* was withdrawn while it was in doubt stays in doubt.
ShownState(i) ==
  CASE state[i] \in {"queued", "retrying"} -> "waiting"
    [] state[i] = "uncertain" -> "unsure"
    [] state[i] = "cancelled" -> IF unsure[i] THEN "unsure" ELSE "withdrawn"
    [] state[i] = "succeeded" -> "done"
    [] state[i] = "deleted" -> "removed"
    [] OTHER -> state[i]

shownBar == [i \in UnkeyedPosts |-> ShownState(i)]
decisionsBar == [i \in UnkeyedPosts |-> 1 + risky[i]]
publishedBar == [i \in UnkeyedPosts |-> copies[i]]

Promise == INSTANCE OutboxPromise WITH
             Promised <- UnkeyedPosts,
             shown <- shownBar,
             decisions <- decisionsBar,
             published <- publishedBar

(* Every behaviour of rows, worker, deliveries, requests and restarts is   *)
(* one of the promise: a post is reported done only when it is there, it   *)
(* is queued, retried, withdrawn or reported failed only while the last    *)
(* decision of its author is unused, and then no copy of it appears.       *)
KeepsPromise == Promise!PSpec
=============================================================================
