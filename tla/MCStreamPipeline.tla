-------------------------- MODULE MCStreamPipeline --------------------------
(* Small instances of StreamPipeline. *)
EXTENDS StreamPipeline, TLC

StreamSymmetry == Permutations(Streams)

(* What decides about the cache.  Numbers, positions and listings are left *)
(* out, and so is which change an event on its way to the WebView is: from *)
(* there on only notices have an effect on the database.                   *)
Passing(ev) == IF ev.kind = "notice" THEN ev ELSE Committed
CacheView ==
    <<provider, sockets, pq, lagged, wpc, wbatch, db, behind, faults, missed, epoch,
      [s \in Streams |-> [i \in DOMAIN work[s] |-> Passing(work[s][i])]],
      [i \in DOMAIN bridge |-> Passing(bridge[i].ev)], owed, side,
      [p \in Posts |-> Len(telling[p])], copies, Len(wire), echo>>

(* Once a change was missed nothing is claimed of the cache any more.      *)
NothingMissed == ~missed

(* What decides about overflows and positions: not what the rows hold, nor *)
(* which change an event on its way to the WebView is.                     *)
Numbering(ev) == IF ev \in {Committed, Resync} \/ ev.kind = "notice" THEN ev ELSE "change"
PositionsView ==
    <<provider, sockets, persistence, faults, gen, seq, epoch, seen,
      [s \in Streams |-> [i \in DOMAIN work[s] |-> Numbering(work[s][i])]],
      [i \in DOMAIN bridge |-> Numbering(bridge[i].ev)],
      [i \in DOMAIN wire |-> <<Numbering(wire[i].ev), wire[i].at>>],
      owed, side, [p \in Posts |-> Len(telling[p])], copies, echo>>
=============================================================================
