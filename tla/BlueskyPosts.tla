---------------------------- MODULE BlueskyPosts ----------------------------
(***************************************************************************)
(* Posting, replying, quoting and deleting at Bluesky, and the thread of a *)
(* post: create_status, delete_status, get_status_context and their        *)
(* helpers in bluesky/endpoints.rs.                                        *)
(*                                                                         *)
(* A delivery is one operation of the outbox, which may call create_status *)
(* again with the same idempotency key after any error.                    *)
(***************************************************************************)
EXTENDS Integers, Sequences, SequencesExt

CONSTANTS Deliveries,   \* operations; each gives its key, or none
          Keyed,        \* the operations with an idempotency key
          MaxRepoPosts  \* bound: posts ever created

VARIABLES
    repoPosts,  \* the posts ever created: position -> record
    repoCall    \* the call under way

repoVars == <<repoPosts, repoCall>>

NoPost == [step |-> "none", op |-> 0, reply |-> 0, quote |-> 0, parent |-> 0, root |-> 0,
           answer |-> 0]

Post(n) == repoPosts[n]
PostIds == DOMAIN repoPosts
LivePosts == {n \in PostIds : Post(n).live}

\* idempotency_record_key: the key of the operation decides the record key, so a post of the
\* same operation has the same URI.  An operation without a key gets a new one.
SameUri(op) == {n \in LivePosts : Post(n).op = op /\ op \in Keyed}

-----------------------------------------------------------------------------
(***************************************************************************)
(* create_status.                                                          *)
(***************************************************************************)

Compose(op, reply, quote) ==
    /\ repoCall.step \in {"none", "done"}
    /\ Len(repoPosts) < MaxRepoPosts
    /\ op \notin Keyed => \A n \in PostIds : Post(n).op # op
    /\ \A n \in PostIds : Post(n).op = op => Post(n).asked = <<reply, quote>>
    /\ repoCall' = [NoPost EXCEPT !.step = "reply", !.op = op, !.reply = reply, !.quote = quote]
    /\ UNCHANGED repoPosts

\* Mutant of RootOf: the parent is taken for the root.
RootOfParent(n) == n

\* build_reply_ref: the root its parent names, or the parent.
RootOf(n) == IF Post(n).parent = 0 THEN n ELSE Post(n).root

\* A reply reference that cannot be built is left out.
BuildReplyRef ==
    LET call == repoCall IN
    /\ call.step = "reply"
    /\ \/ /\ call.reply \in LivePosts
          /\ repoCall' = [call EXCEPT !.step = "quote", !.parent = call.reply,
                                      !.root = RootOf(call.reply)]
       \/ repoCall' = [call EXCEPT !.step = "quote"]
    /\ UNCHANGED repoPosts

\* fetch_strong_ref of the quoted post: without it there is no post.
QuoteRef ==
    LET call == repoCall IN
    /\ call.step = "quote"
    /\ \/ /\ call.quote \in LivePosts \union {0}
          /\ repoCall' = [call EXCEPT !.step = "create"]
       \/ call.quote # 0 /\ repoCall' = [call EXCEPT !.step = "done"]
    /\ UNCHANGED repoPosts

\* Mutant of Taken: the record key is chosen by the server.
TakenNever(op) == FALSE

\* The repository refuses a second record under a key.
Taken(op) == SameUri(op) # {}

\* create_record is executed, and its answer comes, or is lost.
CreateRecord ==
    LET call == repoCall IN
    /\ call.step = "create" /\ ~Taken(call.op)
    /\ repoPosts' = Append(repoPosts,
          [live |-> TRUE, op |-> call.op, parent |-> call.parent, root |-> call.root,
           asked |-> <<call.reply, call.quote>>])
    /\ repoCall' \in {[call EXCEPT !.step = "show", !.answer = Len(repoPosts) + 1],
                      [call EXCEPT !.step = "reconcile"]}

\* It fails, or is refused.
CreateFails ==
    /\ repoCall.step = "create"
    /\ repoCall' = [repoCall EXCEPT !.step = "reconcile"]
    /\ UNCHANGED repoPosts

\* An error of a keyed operation: the post may be there already.  get_status decides.
Reconcile ==
    LET call == repoCall IN
    /\ call.step = "reconcile"
    /\ \/ \E n \in SameUri(call.op) : repoCall' = [call EXCEPT !.step = "done", !.answer = n]
       \/ repoCall' = [call EXCEPT !.step = "done"]
    /\ UNCHANGED repoPosts

\* get_status of the new post; an error is the call's, although the post is there.
ShowCreated ==
    LET call == repoCall IN
    /\ call.step = "show"
    /\ repoCall' \in {[call EXCEPT !.step = "done", !.answer = 0]} \union
                     (IF Post(call.answer).live THEN {[call EXCEPT !.step = "done"]} ELSE {})
    /\ UNCHANGED repoPosts

\* delete_status, here or at another client.
DeletePost(n) ==
    /\ repoPosts' = [repoPosts EXCEPT ![n].live = FALSE]
    /\ UNCHANGED repoCall

-----------------------------------------------------------------------------
(***************************************************************************)
(* get_status_context: the server nests the thread around the post, and    *)
(* stops where a post is gone.                                             *)
(***************************************************************************)

\* The walk upward, pushed and reversed.
RECURSIVE WalkUp(_)
WalkUp(n) ==
    IF n = 0 \/ n \notin LivePosts THEN <<>> ELSE <<n>> \o WalkUp(Post(n).parent)
ContextAncestors(n) == Reverse(WalkUp(Post(n).parent))

Replies(n) == SelectSeq([i \in PostIds |-> i], LAMBDA i : Post(i).live /\ Post(i).parent = n)

\* Mutant of ContextDescendants: the first level only.
ContextDescendantsFlat(n) == Replies(n)

\* collect_descendants: depth first.
RECURSIVE CollectDescendants(_)
CollectDescendants(n) ==
    <<n>> \o FoldLeft(LAMBDA out, r : out \o CollectDescendants(r), <<>>, Replies(n))
ContextDescendants(n) ==
    FoldLeft(LAMBDA out, r : out \o CollectDescendants(r), <<>>, Replies(n))

RepoInit == repoPosts = <<>> /\ repoCall = NoPost

RepoNext ==
    \/ \E op \in Deliveries, reply, quote \in {0} \union LivePosts : Compose(op, reply, quote)
    \/ BuildReplyRef \/ QuoteRef \/ CreateRecord \/ CreateFails \/ Reconcile \/ ShowCreated
    \/ \E n \in LivePosts : DeletePost(n)

-----------------------------------------------------------------------------

\* However often the outbox sends a keyed operation again, it never stands twice.
KeyedPostStandsOnce == \A op \in Keyed : \A n, k \in SameUri(op) : n = k

\* Every reply of a thread names the thread's first post as its root.
ThreadsHaveOneRoot ==
    \A n \in PostIds : Post(n).parent # 0 =>
        /\ Post(Post(n).root).parent = 0
        /\ Post(n).root = RootOf(Post(n).parent)
        /\ Post(Post(n).parent).parent # 0 => Post(n).root = Post(Post(n).parent).root

\* The context of a post is a path down to it, oldest first, and every live post that
\* answers it through live posts, each once and after the post it answers.
ContextIsTheThread ==
    \A n \in LivePosts :
        LET up == ContextAncestors(n)
            down == ContextDescendants(n)
        IN
        /\ \A i \in 1..Len(up) : (IF i = Len(up) THEN Post(n) ELSE Post(up[i + 1])).parent = up[i]
        /\ \A i, j \in 1..Len(down) : down[i] = down[j] => i = j
        /\ \A k \in LivePosts :
              k \in ToSet(down) <=> \E p \in {n} \union ToSet(down) : Post(k).parent = p
        /\ \A i \in 1..Len(down) :
              Post(down[i]).parent \in {n} \union {down[j] : j \in 1..i - 1}
=============================================================================
