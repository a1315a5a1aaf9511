-------------------------- MODULE MCComposeOutbox --------------------------
(***************************************************************************)
(* Small instances of ComposeOutbox: which item belongs to which account   *)
(* and what kind of operation it is.  Account "k" is on a provider that    *)
(* honours idempotency keys, account "m" on Misskey.                       *)
(***************************************************************************)
EXTENDS OutboxRefinement

AllOnM  == [i \in Items |-> "m"]
AllOnK  == [i \in Items |-> "k"]

Posts == [i \in Items |-> "post"]
Edits == [i \in Items |-> "edit"]
PostAndEdit == [i \in Items |-> IF i = "p1" THEN "post" ELSE "edit"]
=============================================================================
