--------------------------- MODULE PluginProofs ---------------------------
(***************************************************************************)
(* The plugin thread, proved for any number of plugins, commands, reloads  *)
(* and any length of time: HooksAndButtonsAreTrue.                         *)
(*                                                                         *)
(* A token of a hook set is a revision.  It stands for the code that has   *)
(* the hook as long as that is the revision, a fact reloading suspends     *)
(* until the revision has moved on.                                        *)
(***************************************************************************)
EXTENDS PluginActor, SequenceTheorems, TLAPS

Records == [known : BOOLEAN, gen : Nat, state : {"loaded", "unloaded", "error"},
            runtime : [gen : Nat, hook : BOOLEAN]]

HookSets == SUBSET (PluginIds \X Nat)

PostKinds == {"token", "checked", "after"}
UserKinds == {"reload_all", "reload", "unload", "snapshot", "button"}

Commands == [who : Callers, kind : PostKinds \union UserKinds, plugin : 0..PluginCount,
             rev : Nat, had : HookSets, gen : Nat,
             at : Nat, until : Nat, finishes : Int, starts : Int]

NoCommand == [kind |-> "none"]

Calls == [pc : {"idle", "waits", "holds", "ran"}, at : Nat, until : Nat, rev : Nat,
          had : HookSets, missed : HookSets]

MaybeCommand == Commands \union {NoCommand}
Passes == 0..PluginCount + 1
MaybePlugin == 0..PluginCount
Contexts == SUBSET (MaybePlugin \X Nat)

Actors == [on : BOOLEAN, phase : {"idle", "handle"}, cmd : MaybeCommand,
           todo : Passes, busy : MaybePlugin, began : Nat, until : Int, ran : Contexts]

Typed ==
    /\ plugFiles \subseteq PluginIds
    /\ plugRecs \in [PluginIds -> Records]
    /\ plugRev \in Nat /\ plugNextGen \in Nat \ {0} /\ plugNow \in Nat /\ plugAsks \in Nat
    /\ plugQueue \in Seq(Commands) /\ Len(plugQueue) <= QueueCapacity
    /\ plugActor \in Actors
    /\ plugCalls \in [Callers -> Calls]
    /\ plugStop \in BOOLEAN

\* A record that is loaded has a context of its own generation; a file that is not known is gone.
RecordOK(r) ==
    /\ r.runtime.gen # 0 <=> r.state = "loaded"
    /\ r.runtime.gen # 0 => r.known /\ r.gen = r.runtime.gen
    /\ r.runtime.hook => r.runtime.gen # 0

RecordInv == \A p \in PluginIds : /\ RecordOK(plugRecs[p])
                                  /\ p \in plugFiles => plugRecs[p].known

\* A plugin is between the end of its old code and the start of its new one.
Loading == plugActor.busy # 0 /\ plugActor.cmd.kind \in {"reload", "reload_all"}

\* A token says what has the hook, as long as its revision is the one there is.
TokenOK(rev, had) ==
    /\ rev <= plugRev
    /\ rev = plugRev /\ plugActor.on /\ ~Loading =>
          \A h \in had : plugRecs[h[1]].known => h \in HookSet

\* The time of a command, and what it brings.
CommandOK(cmd) ==
    /\ cmd.kind \in PostKinds <=> cmd.who = "post"
    /\ cmd.kind \in {"reload", "unload", "button"} => cmd.plugin # 0
    /\ cmd.finishes = cmd.until - 1
    /\ cmd.kind \in {"reload", "button"} => cmd.starts + CallbackBudget = cmd.finishes
    /\ cmd.kind = "checked" => TokenOK(cmd.rev, cmd.had)
    /\ cmd.kind # "checked" => cmd.had = {}

QueueInv == \A i \in DOMAIN plugQueue : CommandOK(plugQueue[i])

CallInv ==
    /\ plugCalls["post"].pc = "holds" => TokenOK(plugCalls["post"].rev, plugCalls["post"].had)
    /\ plugCalls["post"].missed = {}

\* A chain that was checked goes on under the revision it was checked against, and has called
\* what it has passed.
ChainOK ==
    plugActor.cmd.kind = "checked" =>
        /\ plugActor.todo > 1 \/ plugActor.busy # 0 => plugActor.cmd.rev = plugRev
        /\ \A h \in plugActor.cmd.had :
              h[1] < plugActor.todo => h \in plugActor.ran \/ ~plugRecs[h[1]].known

\* What runs was started with its whole budget left, for the code it was started for.
BusyOK ==
    /\ plugActor.busy # 0 =>
          /\ plugActor.began + CallbackBudget <= plugActor.cmd.finishes
          /\ plugActor.cmd.kind \in {"checked", "after", "button", "reload", "reload_all"}
          /\ plugActor.cmd.kind \in {"checked", "after", "reload_all"} =>
                plugActor.busy = plugActor.todo
          /\ plugActor.cmd.kind = "button" =>
                plugRecs[plugActor.busy].runtime.gen = plugActor.cmd.gen
    /\ plugActor.busy = 0 /\ plugActor.cmd.kind \in {"reload", "button"} =>
          plugNow < plugActor.cmd.starts
    /\ Loading => /\ plugRecs[plugActor.busy].known
                  /\ plugRecs[plugActor.busy].gen # 0
                  /\ plugRecs[plugActor.busy].runtime = NoRuntime

ActorInv ==
    /\ plugActor.phase = "idle" => plugActor.cmd = NoCommand /\ plugActor.busy = 0
    /\ plugActor.phase = "handle" =>
          /\ plugActor.on
          /\ plugActor.cmd \in Commands
          /\ plugActor.todo # 0
          /\ CommandOK(plugActor.cmd)
          /\ ChainOK
          /\ BusyOK

PluginInv == Typed /\ RecordInv /\ QueueInv /\ CallInv /\ ActorInv

\* A step takes no token its meaning.
TokensStay == \A rev \in Nat, had \in HookSets : TokenOK(rev, had) => TokenOK(rev, had)'

\* A step gives the caller of the hooks neither a token nor a result.
CallsKept ==
    /\ plugCalls'["post"].pc = "holds" =>
          /\ plugCalls["post"].pc = "holds"
          /\ plugCalls'["post"].rev = plugCalls["post"].rev
          /\ plugCalls'["post"].had = plugCalls["post"].had
    /\ plugCalls'["post"].missed = plugCalls["post"].missed

-----------------------------------------------------------------------------
(***************************************************************************)
(* Tokens, commands and calls.                                             *)
(***************************************************************************)

LEMMA NumbersTyped ==
    /\ PluginCount \in Nat
    /\ CallbackBudget \in Nat
    /\ QueueCapacity \in Nat
    /\ QuickReply \in Nat
    /\ CallbackReply \in Nat
BY PluginAssumption DEF PluginAssumption, QuickReply, CallbackReply

LEMMA HookSetTyped ==
    ASSUME Typed
    PROVE  HookSet \in HookSets
<1>1. ASSUME NEW p \in PluginIds
      PROVE  plugRecs[p].runtime.gen \in Nat
  BY <1>1 DEF Typed, Records
<1> QED BY <1>1 DEF HookSet, HookSets

LEMMA HookSetHas ==
    ASSUME NEW h \in PluginIds \X Nat
    PROVE  h \in HookSet <=> Hooked(h[1]) /\ h[2] = plugRecs[h[1]].runtime.gen
BY DEF HookSet

\* A token stays when the plugin set does, a new revision ends every token, and during a load
\* none means anything.
LEMMA SteadyTokens ==
    ASSUME Typed, UNCHANGED <<plugRev, plugRecs>>, plugActor'.on => plugActor.on,
           Loading => Loading'
    PROVE  TokensStay
<1>1. HookSet' = HookSet
  BY DEF HookSet, Hooked
<1> QED BY <1>1 DEF TokensStay, TokenOK

LEMMA RevisedTokens ==
    ASSUME Typed, plugRev' = plugRev + 1
    PROVE  TokensStay
BY DEF TokensStay, TokenOK, Typed

LEMMA LoadingTokens ==
    ASSUME UNCHANGED plugRev, Loading'
    PROVE  TokensStay
BY DEF TokensStay, TokenOK

LEMMA CommandStays ==
    ASSUME NEW cmd \in Commands, CommandOK(cmd), TokensStay
    PROVE  CommandOK(cmd)'
<1>1. cmd.rev \in Nat /\ cmd.had \in HookSets
  BY DEF Commands
<1> QED BY <1>1 DEF CommandOK, TokensStay

LEMMA QueueStays ==
    ASSUME Typed, QueueInv, TokensStay, UNCHANGED plugQueue
    PROVE  QueueInv'
<1> SUFFICES ASSUME NEW i \in DOMAIN plugQueue
             PROVE  CommandOK(plugQueue[i])'
  BY DEF QueueInv
<1>1. PICK cmd \in Commands : cmd = plugQueue[i]
  BY DEF Typed
<1>2. CommandOK(cmd)
  BY <1>1 DEF QueueInv
<1>3. CommandOK(cmd)'
  BY <1>2, CommandStays
<1>4. plugQueue[i]' = cmd
  BY <1>1
<1> QED BY <1>3, <1>4 DEF CommandOK

LEMMA QueueGrows ==
    ASSUME Typed, QueueInv, TokensStay, NEW cmd \in Commands, CommandOK(cmd),
           Len(plugQueue) < QueueCapacity, plugQueue' = Append(plugQueue, cmd)
    PROVE  QueueInv' /\ plugQueue' \in Seq(Commands) /\ Len(plugQueue') <= QueueCapacity
<1>1. plugQueue \in Seq(Commands)
  BY DEF Typed
<1>2. plugQueue' \in Seq(Commands) /\ Len(plugQueue') <= QueueCapacity
  BY <1>1, AppendProperties, NumbersTyped
<1>3. ASSUME NEW i \in DOMAIN plugQueue'
      PROVE  CommandOK(plugQueue[i])'
  <2>1. CASE i = Len(plugQueue) + 1
    <3>1. CommandOK(cmd)' /\ plugQueue'[i] = cmd
      BY <2>1, <1>1, AppendProperties, CommandStays
    <3> QED BY <3>1 DEF CommandOK
  <2>2. CASE i # Len(plugQueue) + 1
    <3>1. i \in DOMAIN plugQueue
      BY <2>2, <1>1, AppendProperties
    <3>2. PICK old \in Commands : old = plugQueue[i]
      BY <1>1, <3>1
    <3>3. CommandOK(old)'
      BY <3>1, <3>2, CommandStays DEF QueueInv
    <3>4. plugQueue'[i] = old
      BY <1>1, <3>1, <3>2, AppendProperties
    <3> QED BY <3>3, <3>4 DEF CommandOK
  <2> QED BY <2>1, <2>2
<1> QED BY <1>2, <1>3 DEF QueueInv

LEMMA QueueShrinks ==
    ASSUME Typed, QueueInv, TokensStay, plugQueue # <<>>, plugQueue' = Tail(plugQueue)
    PROVE  /\ QueueInv'
           /\ plugQueue' \in Seq(Commands) /\ Len(plugQueue') <= QueueCapacity
           /\ Head(plugQueue) \in Commands /\ CommandOK(Head(plugQueue))
<1>1. plugQueue \in Seq(Commands) /\ Len(plugQueue) <= QueueCapacity
  BY DEF Typed
<1>2. plugQueue' \in Seq(Commands) /\ Len(plugQueue') <= QueueCapacity
  BY <1>1, HeadTailProperties, NumbersTyped
<1>3. Head(plugQueue) \in Commands /\ CommandOK(Head(plugQueue))
  <2>1. 1 \in DOMAIN plugQueue /\ Head(plugQueue) = plugQueue[1]
    BY <1>1, HeadTailProperties
  <2> QED BY <1>1, <2>1 DEF QueueInv
<1>4. ASSUME NEW i \in DOMAIN plugQueue'
      PROVE  CommandOK(plugQueue[i])'
  <2>1. i + 1 \in DOMAIN plugQueue /\ plugQueue'[i] = plugQueue[i + 1]
    BY <1>1, HeadTailProperties
  <2>2. PICK old \in Commands : old = plugQueue[i + 1]
    BY <1>1, <2>1
  <2>3. CommandOK(old)'
    BY <2>1, <2>2, CommandStays DEF QueueInv
  <2> QED BY <2>1, <2>2, <2>3 DEF CommandOK
<1> QED BY <1>2, <1>3, <1>4 DEF QueueInv

LEMMA CallsStay ==
    ASSUME Typed, CallInv, TokensStay, CallsKept
    PROVE  CallInv'
<1>1. plugCalls["post"].rev \in Nat /\ plugCalls["post"].had \in HookSets
  BY DEF Typed, Callers, Calls
<1>2. PICK rev \in Nat, had \in HookSets : rev = plugCalls["post"].rev /\ had = plugCalls["post"].had
  BY <1>1
<1>3. plugCalls'["post"].pc = "holds" => TokenOK(rev, had)'
  BY <1>2 DEF CallInv, CallsKept, TokensStay
<1> QED BY <1>2, <1>3 DEF CallInv, CallsKept

\* A reply changes at most the call it is for.
LEMMA Replies ==
    ASSUME Typed, NEW cmd \in Commands, NEW state \in Calls, plugCalls' = Answer(cmd, state)
    PROVE  /\ plugCalls' \in [Callers -> Calls]
           /\ plugCalls' = plugCalls \/ /\ plugCalls'[cmd.who] = [state EXCEPT !.at = 0, !.until = 0]
                                        /\ \A c \in Callers \ {cmd.who} : plugCalls'[c] = plugCalls[c]
<1>1. cmd.who \in Callers
  BY DEF Commands
<1>2. [state EXCEPT !.at = 0, !.until = 0] \in Calls
  BY DEF Calls
<1>3. plugCalls \in [Callers -> Calls]
  BY DEF Typed
<1> QED BY <1>1, <1>2, <1>3 DEF Answer

LEMMA Failures ==
    ASSUME Typed, NEW cmd \in Commands, plugCalls' = Fails(cmd)
    PROVE  plugCalls' \in [Callers -> Calls] /\ CallsKept
<1>1. PICK state \in Calls : state = [plugCalls[cmd.who] EXCEPT !.pc = "idle"]
  BY DEF Typed, Commands, Calls
<1>2. plugCalls' = Answer(cmd, state)
  BY <1>1 DEF Fails
<1>3. plugCalls' \in [Callers -> Calls]
  BY <1>2, Replies
<1>4. CASE plugCalls' = plugCalls
  BY <1>4, <1>3 DEF CallsKept
<1>5. CASE /\ plugCalls'[cmd.who] = [state EXCEPT !.at = 0, !.until = 0]
           /\ \A c \in Callers \ {cmd.who} : plugCalls'[c] = plugCalls[c]
  <2>1. cmd.who \in Callers /\ plugCalls[cmd.who] \in Calls
    BY DEF Commands, Typed
  <2>2. /\ plugCalls'[cmd.who].pc = "idle"
        /\ plugCalls'[cmd.who].missed = plugCalls[cmd.who].missed
    BY <1>1, <1>5, <2>1 DEF Calls
  <2>3. CASE cmd.who = "post"
    BY <1>3, <2>2, <2>3 DEF CallsKept
  <2>4. CASE cmd.who # "post"
    BY <1>3, <1>5, <2>4 DEF CallsKept, Callers
  <2> QED BY <2>3, <2>4
<1> QED BY <1>2, <1>3, <1>4, <1>5, Replies

\* The thread is free again.
LEMMA Frees ==
    ASSUME Typed, plugActor' = Free
    PROVE  /\ plugActor' \in Actors
           /\ ActorInv'
           /\ ~Loading'
           /\ plugActor'.on = plugActor.on
<1>1. PICK a \in Actors : a = plugActor
  BY DEF Typed
<1>2. plugActor' = [a EXCEPT !.phase = "idle", !.cmd = NoCommand, !.busy = 0, !.began = 0,
                             !.until = 0, !.ran = {}]
  BY <1>1 DEF Free, NoCommand
<1>3. plugActor' \in Actors
  <2>1. NoCommand \in MaybeCommand /\ 0 \in MaybePlugin /\ {} \in Contexts
    BY NumbersTyped DEF MaybeCommand, MaybePlugin, Contexts
  <2>2. a.on \in BOOLEAN /\ a.todo \in Passes
    BY DEF Actors
  <2>3. plugActor' = [on |-> a.on, phase |-> "idle", cmd |-> NoCommand, todo |-> a.todo,
                      busy |-> 0, began |-> 0, until |-> 0, ran |-> {}]
    BY <1>2 DEF Actors
  <2> QED BY <2>1, <2>2, <2>3 DEF Actors
<1>4. /\ plugActor'.phase = "idle" /\ plugActor'.cmd = NoCommand /\ plugActor'.busy = 0
      /\ plugActor'.on = a.on
  BY <1>2 DEF Actors
<1> QED BY <1>1, <1>3, <1>4 DEF ActorInv, Loading

-----------------------------------------------------------------------------
(***************************************************************************)
(* Records.                                                                *)
(***************************************************************************)

LEMMA RecordSteps ==
    ASSUME NEW r \in Records, NEW gen \in Nat \ {0}, NEW hook \in BOOLEAN
    PROVE  /\ Poisoned(r) \in Records /\ RecordOK(Poisoned(r)) /\ Poisoned(r).known = r.known
           /\ Unloaded(r, gen) \in Records /\ RecordOK(Unloaded(r, gen))
           /\ Unloaded(r, gen).known = r.known
           /\ Unloaded(r, gen).gen = gen /\ Unloaded(r, gen).runtime = NoRuntime
           /\ LoadedAs(r, gen, hook) \in Records /\ LoadedAs(r, gen, hook).known = r.known
           /\ r.known => RecordOK(LoadedAs(r, gen, hook))
<1>1. Poisoned(r) \in Records /\ RecordOK(Poisoned(r)) /\ Poisoned(r).known = r.known
  <2>1. PICK g \in Nat : g = r.gen + 1
    BY DEF Records
  <2>2. Poisoned(r) = [r EXCEPT !.runtime = NoRuntime, !.gen = g, !.state = "error"]
    BY <2>1 DEF Poisoned, Records
  <2> HIDE DEF Poisoned
  <2>3. Poisoned(r) \in Records
    <3>1. PICK none \in [gen : Nat, hook : BOOLEAN] : none = NoRuntime
      BY DEF NoRuntime
    <3>2. PICK error \in {"loaded", "unloaded", "error"} : error = "error"
      OBVIOUS
    <3>3. [r EXCEPT !.runtime = none, !.gen = g, !.state = error] \in Records
      BY DEF Records
    <3> QED BY <2>2, <3>1, <3>2, <3>3
  <2>4. /\ Poisoned(r).runtime = NoRuntime /\ Poisoned(r).state = "error"
        /\ Poisoned(r).known = r.known
    BY <2>2 DEF Records
  <2> QED BY <2>3, <2>4 DEF RecordOK, NoRuntime
<1>2. /\ Unloaded(r, gen) \in Records /\ RecordOK(Unloaded(r, gen))
      /\ Unloaded(r, gen).known = r.known
      /\ Unloaded(r, gen).gen = gen /\ Unloaded(r, gen).runtime = NoRuntime
  BY DEF Records, RecordOK, Unloaded, NoRuntime
<1>3. /\ LoadedAs(r, gen, hook) \in Records /\ LoadedAs(r, gen, hook).known = r.known
      /\ LoadedAs(r, gen, hook).gen = gen /\ LoadedAs(r, gen, hook).state = "loaded"
      /\ LoadedAs(r, gen, hook).runtime = [gen |-> gen, hook |-> hook]
  BY DEF Records, LoadedAs
<1>4. r.known => RecordOK(LoadedAs(r, gen, hook))
  BY <1>3 DEF RecordOK
<1> QED BY <1>1, <1>2, <1>3, <1>4

LEMMA NewRecords ==
    /\ NewRecord \in Records /\ RecordOK(NewRecord) /\ NewRecord.known
    /\ NoRecord \in Records /\ RecordOK(NoRecord) /\ ~NoRecord.known
BY DEF Records, RecordOK, NewRecord, NoRecord, NoRuntime

LEMMA RecordChanges ==
    ASSUME Typed, RecordInv, NEW p \in PluginIds, NEW r \in Records, RecordOK(r),
           r.known = plugRecs[p].known, plugRecs' = [plugRecs EXCEPT ![p] = r],
           plugFiles' \subseteq plugFiles
    PROVE  plugRecs' \in [PluginIds -> Records] /\ RecordInv' /\ plugRecs'[p] = r
<1>1. plugRecs \in [PluginIds -> Records]
  BY DEF Typed
<1>2. plugRecs' \in [PluginIds -> Records] /\ plugRecs'[p] = r
  BY <1>1
<1>3. ASSUME NEW q \in PluginIds
      PROVE  RecordOK(plugRecs'[q]) /\ (q \in plugFiles' => plugRecs'[q].known)
  <2>1. CASE q = p
    BY <1>2, <2>1 DEF RecordInv
  <2>2. CASE q # p
    BY <1>1, <2>2 DEF RecordInv
  <2> QED BY <2>1, <2>2
<1> QED BY <1>2, <1>3 DEF RecordInv
-----------------------------------------------------------------------------
(***************************************************************************)
(* The steps of the callers.                                               *)
(***************************************************************************)

\* While the thread does nothing, what it holds stays true.
LEMMA ActorRests ==
    ASSUME Typed, ActorInv, TokensStay, UNCHANGED <<plugRecs, plugRev, plugActor, plugNow>>
    PROVE  ActorInv'
<1>1. PICK cmd : cmd = plugActor.cmd
  OBVIOUS
<1>2. plugActor.phase = "handle" => cmd \in Commands /\ CommandOK(cmd)'
  BY <1>1, CommandStays DEF ActorInv
<1>3. ChainOK => ChainOK'
  BY DEF ChainOK
<1>4. BusyOK => BusyOK'
  BY DEF BusyOK, Loading
<1>5. plugActor.phase = "handle" => CommandOK(plugActor.cmd)'
  BY <1>1, <1>2 DEF CommandOK
<1> QED BY <1>2, <1>3, <1>4, <1>5 DEF ActorInv

LEMMA Asks ==
    ASSUME PluginInv, NEW c \in Callers, NEW cmd \in Commands, CommandOK(cmd), Waits(c, cmd)
    PROVE  PluginInv'
<1> USE DEF PluginInv
<1>1. TokensStay
  BY SteadyTokens DEF Waits, Loading
<1>2. QueueInv' /\ plugQueue' \in Seq(Commands) /\ Len(plugQueue') <= QueueCapacity
  BY <1>1, QueueGrows DEF Waits, Enqueue
<1>3. cmd.until \in Nat /\ plugNow \in Nat /\ plugCalls \in [Callers -> Calls]
  BY DEF Commands, Typed
<1>4. PICK call \in Calls : call = plugCalls[c]
  BY <1>3
<1>5. PICK now \in Nat, until \in Nat : now = plugNow /\ until = cmd.until
  BY <1>3
<1>6. plugCalls' = [plugCalls EXCEPT ![c] = [call EXCEPT !.pc = "waits", !.at = now, !.until = until]]
  BY <1>3, <1>4, <1>5 DEF Waits
<1>7. PICK new \in Calls : new = [call EXCEPT !.pc = "waits", !.at = now, !.until = until]
  BY DEF Calls
<1>8. new.pc = "waits" /\ new.missed = call.missed
  BY <1>7 DEF Calls
<1>9. plugCalls' = [plugCalls EXCEPT ![c] = new]
  BY <1>6, <1>7
<1>10. plugCalls' \in [Callers -> Calls] /\ CallsKept
  BY <1>3, <1>4, <1>8, <1>9 DEF CallsKept
<1>11. CallInv'
  BY <1>1, <1>10, CallsStay
<1>12. ActorInv'
  BY <1>1, ActorRests DEF Waits
<1>13. RecordInv'
  BY DEF RecordInv, Waits
<1>14. Typed'
  BY <1>2, <1>10 DEF Typed, Waits
<1> QED BY <1>2, <1>11, <1>12, <1>13, <1>14

\* The commands there are.
LEMMA CommandMade ==
    ASSUME Typed, NEW who \in Callers, NEW kind \in PostKinds \union UserKinds,
           NEW p \in 0..PluginCount, NEW rev \in Nat, NEW had \in HookSets, NEW gen \in Nat,
           NEW reply \in Nat, NEW work \in Nat
    PROVE  \E cmd \in Commands :
              /\ cmd = Command(who, kind, p, rev, had, gen, reply, work)
              /\ cmd.who = who /\ cmd.kind = kind /\ cmd.plugin = p /\ cmd.rev = rev
              /\ cmd.had = had
              /\ cmd.finishes = cmd.until - 1
              /\ cmd.starts + work = cmd.finishes
<1>1. PICK now \in Nat : now = plugNow
  BY DEF Typed
<1>2. now + reply \in Nat /\ now + reply - 1 \in Int /\ now + reply - 1 - work \in Int
  OBVIOUS
<1>3. Command(who, kind, p, rev, had, gen, reply, work) =
         [who |-> who, kind |-> kind, plugin |-> p, rev |-> rev, had |-> had, gen |-> gen,
          at |-> now, until |-> now + reply,
          finishes |-> now + reply - 1, starts |-> now + reply - 1 - work]
  BY <1>1 DEF Command
<1> QED BY <1>2, <1>3 DEF Commands

LEMMA AskTokenKeeps ==
    ASSUME PluginInv, AskToken
    PROVE  PluginInv'
<1>1. PICK cmd \in Commands :
         /\ cmd = Command("post", "token", 0, 0, {}, 0, QuickReply, 0)
         /\ cmd.who = "post" /\ cmd.kind = "token" /\ cmd.had = {}
         /\ cmd.finishes = cmd.until - 1
  BY CommandMade, NumbersTyped DEF PluginInv, Callers, PostKinds, HookSets
<1>2. CommandOK(cmd)
  BY <1>1 DEF CommandOK, PostKinds
<1> QED BY <1>1, <1>2, Asks DEF AskToken, Callers

LEMMA RunHookCheckedKeeps ==
    ASSUME PluginInv, RunHookChecked
    PROVE  PluginInv'
<1>1. PICK rev \in Nat, had \in HookSets : rev = plugCalls["post"].rev /\ had = plugCalls["post"].had
  BY DEF PluginInv, Typed, Callers, Calls
<1>2. PICK cmd \in Commands :
         /\ cmd = Command("post", "checked", 0, rev, had, 0, CallbackReply, CallbackBudget)
         /\ cmd.who = "post" /\ cmd.kind = "checked" /\ cmd.rev = rev /\ cmd.had = had
         /\ cmd.finishes = cmd.until - 1
  BY CommandMade, NumbersTyped DEF PluginInv, Callers, PostKinds
<1>3. TokenOK(rev, had)
  BY <1>1 DEF PluginInv, CallInv, RunHookChecked
<1>4. CommandOK(cmd)
  BY <1>2, <1>3 DEF CommandOK, PostKinds
<1> QED BY <1>1, <1>2, <1>4, Asks DEF RunHookChecked, Callers

LEMMA RunHookBestEffortKeeps ==
    ASSUME PluginInv, RunHookBestEffort
    PROVE  PluginInv'
<1>1. PICK cmd \in Commands :
         /\ cmd = Command("post", "after", 0, 0, {}, 0, CallbackReply, CallbackBudget)
         /\ cmd.who = "post" /\ cmd.kind = "after" /\ cmd.had = {}
         /\ cmd.finishes = cmd.until - 1
  BY CommandMade, NumbersTyped DEF PluginInv, Callers, PostKinds, HookSets
<1>2. CommandOK(cmd)
  BY <1>1 DEF CommandOK, PostKinds
<1> QED BY <1>1, <1>2, Asks DEF RunHookBestEffort, Callers

LEMMA UserAsks ==
    ASSUME PluginInv, NEW kind \in UserKinds, NEW p \in 0..PluginCount, NEW gen \in Nat,
           NEW reply \in Nat, NEW work \in Nat,
           kind \in {"reload", "unload", "button"} => p # 0,
           kind \in {"reload", "button"} => work = CallbackBudget,
           Waits("user", Command("user", kind, p, 0, {}, gen, reply, work))
    PROVE  PluginInv'
<1>1. PICK cmd \in Commands :
         /\ cmd = Command("user", kind, p, 0, {}, gen, reply, work)
         /\ cmd.who = "user" /\ cmd.kind = kind /\ cmd.plugin = p /\ cmd.had = {}
         /\ cmd.finishes = cmd.until - 1
         /\ cmd.starts + work = cmd.finishes
  BY CommandMade, NumbersTyped DEF PluginInv, Callers, HookSets
<1>2. CommandOK(cmd)
  BY <1>1 DEF CommandOK, PostKinds, UserKinds
<1> QED BY <1>1, <1>2, Asks DEF Callers

LEMMA UserAsksKeep ==
    ASSUME PluginInv,
           \/ AskReloadAll \/ AskSnapshot \/ PressButton
           \/ \E p \in PluginIds : AskReload(p) \/ AskUnload(p)
    PROVE  PluginInv'
<1>1. CASE AskReloadAll
  BY <1>1, UserAsks, NumbersTyped DEF AskReloadAll, UserKinds
<1>2. CASE AskSnapshot
  BY <1>2, UserAsks, NumbersTyped DEF AskSnapshot, UserKinds
<1>3. CASE PressButton
  <2>1. PICK button \in plugCalls["user"].had :
           Waits("user", Command("user", "button", button[1], 0, {}, button[2],
                                 CallbackReply, CallbackBudget))
    BY <1>3 DEF PressButton
  <2>2. button \in PluginIds \X Nat
    BY DEF PluginInv, Typed, Callers, Calls, HookSets
  <2>3. button[1] \in 0..PluginCount /\ button[1] # 0 /\ button[2] \in Nat
    BY <2>2, NumbersTyped DEF PluginIds
  <2> QED BY <2>1, <2>3, UserAsks, NumbersTyped DEF UserKinds
<1>4. ASSUME NEW p \in PluginIds, AskReload(p)
      PROVE  PluginInv'
  <2>1. p \in 0..PluginCount /\ p # 0
    BY NumbersTyped DEF PluginIds
  <2> QED BY <1>4, <2>1, UserAsks, NumbersTyped DEF AskReload, UserKinds
<1>5. ASSUME NEW p \in PluginIds, AskUnload(p)
      PROVE  PluginInv'
  <2>1. p \in 0..PluginCount /\ p # 0
    BY NumbersTyped DEF PluginIds
  <2> QED BY <1>5, <2>1, UserAsks, NumbersTyped DEF AskUnload, UserKinds
<1> QED BY <1>1, <1>2, <1>3, <1>4, <1>5

LEMMA GiveUpKeeps ==
    ASSUME PluginInv, NEW c \in Callers, GiveUp(c)
    PROVE  PluginInv'
<1> USE DEF PluginInv
<1>1. TokensStay
  BY SteadyTokens DEF GiveUp, Loading
<1>2. plugCalls \in [Callers -> Calls]
  BY DEF Typed
<1>3. PICK call \in Calls : call = plugCalls[c]
  BY <1>2
<1>4. PICK new \in Calls : new = [call EXCEPT !.pc = "idle", !.at = 0, !.until = 0]
  BY DEF Calls
<1>5. new.pc = "idle" /\ new.missed = call.missed
  BY <1>4 DEF Calls
<1>6. plugCalls' = [plugCalls EXCEPT ![c] = new]
  BY <1>3, <1>4, <1>2 DEF GiveUp
<1>7. plugCalls' \in [Callers -> Calls] /\ CallsKept
  BY <1>2, <1>3, <1>5, <1>6 DEF CallsKept
<1>8. CallInv' /\ QueueInv' /\ ActorInv'
  BY <1>1, <1>7, CallsStay, QueueStays, ActorRests DEF GiveUp
<1>9. RecordInv'
  BY DEF RecordInv, GiveUp
<1>10. Typed'
  BY <1>7 DEF Typed, GiveUp
<1> QED BY <1>8, <1>9, <1>10

\* The flag, the files and the clock.
LEMMA OutsideKeeps ==
    ASSUME PluginInv, Shutdown \/ FilesChange \/ PluginTick
    PROVE  PluginInv'
<1> USE DEF PluginInv
<1>1. /\ UNCHANGED <<plugRecs, plugRev, plugNextGen, plugQueue, plugActor, plugCalls>>
      /\ plugFiles' \subseteq plugFiles
  BY DEF Shutdown, FilesChange, PluginTick
<1>2. TokensStay
  BY <1>1, SteadyTokens DEF Loading
<1>3. QueueInv' /\ CallInv'
  BY <1>1, <1>2, QueueStays, CallsStay DEF CallsKept
<1>4. RecordInv'
  BY <1>1 DEF RecordInv
<1>5. Typed'
  <2>1. plugNow' \in Nat /\ plugStop' \in BOOLEAN /\ plugAsks' \in Nat
    <3>1. CASE Shutdown
      BY <3>1 DEF Typed, Shutdown
    <3>2. CASE FilesChange
      BY <3>2 DEF Typed, FilesChange
    <3>3. CASE PluginTick
      BY <3>3 DEF Typed, PluginTick
    <3> QED BY <3>1, <3>2, <3>3
  <2> QED BY <1>1, <2>1 DEF Typed
<1>6. ActorInv'
  <2>1. CASE Shutdown \/ FilesChange
    BY <2>1, <1>2, ActorRests DEF Shutdown, FilesChange
  <2>2. CASE PluginTick
    <3>1. CASE plugActor.phase = "idle"
      BY <3>1, <1>1, <1>5 DEF ActorInv, Typed, Actors
    <3>2. CASE plugActor.phase = "handle"
      <4>1. PICK cmd \in Commands : cmd = plugActor.cmd
        BY <3>2 DEF ActorInv
      <4>2. CommandOK(cmd)'
        BY <3>2, <4>1, <1>2, CommandStays DEF ActorInv
      <4>3. ChainOK'
        BY <3>2, <1>1 DEF ActorInv, ChainOK
      <4>4. BusyOK'
        <5>1. plugActor.busy = 0 => plugActor.cmd.kind = "reload_all"
          BY <2>2, <3>2 DEF PluginTick, Typed, Actors
        <5>2. Loading' = Loading
          BY <1>1 DEF Loading
        <5> QED BY <5>1, <5>2, <1>1, <3>2 DEF ActorInv, BusyOK
      <4>5. CommandOK(plugActor.cmd)'
        BY <4>1, <4>2, <1>1 DEF CommandOK
      <4> QED BY <3>2, <4>3, <4>4, <4>5, <1>1 DEF ActorInv
    <3> QED BY <3>1, <3>2 DEF Typed, Actors
  <2> QED BY <2>1, <2>2
<1> QED BY <1>3, <1>4, <1>5, <1>6
-----------------------------------------------------------------------------
(***************************************************************************)
(* The steps of the thread.                                                *)
(***************************************************************************)

\* What a step of a command may rest on.
LEMMA Handling ==
    ASSUME PluginInv, plugActor.phase = "handle"
    PROVE  /\ plugActor \in Actors /\ plugActor.on
           /\ plugActor.cmd \in Commands /\ CommandOK(plugActor.cmd)
           /\ plugActor.todo \in 1..PluginCount + 1
           /\ ChainOK /\ BusyOK
BY NumbersTyped DEF PluginInv, ActorInv, Typed, Actors, Passes

\* Something runs only for a command.
LEMMA Running ==
    ASSUME PluginInv, plugActor.busy # 0
    PROVE  plugActor.phase = "handle"
BY DEF PluginInv, ActorInv, Typed, Actors

\* The kind of a command says that there is one.
LEMMA KindHandled ==
    ASSUME NEW kind, Handles(kind)
    PROVE  plugActor.phase = "handle" /\ plugActor.busy = 0 /\ plugActor.cmd.kind = kind /\ ~Loading
BY DEF Handles, Loading

\* A command that is over without a result for the hooks.
LEMMA EndsKeep ==
    ASSUME PluginInv, plugActor.phase = "handle", plugActor' = Free,
           plugCalls' = Fails(plugActor.cmd), TokensStay,
           plugRecs' \in [PluginIds -> Records], RecordInv', plugRev' \in Nat,
           plugNextGen' \in Nat \ {0},
           UNCHANGED <<plugFiles, plugQueue, plugStop, plugNow, plugAsks>>
    PROVE  PluginInv'
<1> USE DEF PluginInv
<1>1. plugCalls' \in [Callers -> Calls] /\ CallsKept
  <2>1. PICK cmd \in Commands : cmd = plugActor.cmd
    BY Handling
  <2> QED BY <2>1, Failures
<1>2. plugActor' \in Actors /\ ActorInv'
  BY Frees
<1>3. QueueInv' /\ CallInv'
  BY <1>1, QueueStays, CallsStay
<1>4. Typed'
  BY <1>1, <1>2 DEF Typed
<1> QED BY <1>2, <1>3, <1>4

\* A command that is over and has changed no plugin.
LEMMA PlainEndKeeps ==
    ASSUME PluginInv, plugActor.phase = "handle", ~Loading, plugActor' = Free,
           plugCalls' = Fails(plugActor.cmd),
           UNCHANGED <<plugFiles, plugRecs, plugRev, plugQueue, plugStop, plugNow, plugAsks>>,
           plugNextGen' \in Nat \ {0}
    PROVE  PluginInv'
<1>1. TokensStay
  BY SteadyTokens, Frees DEF PluginInv
<1>2. plugRecs' \in [PluginIds -> Records] /\ RecordInv' /\ plugRev' \in Nat
  BY DEF PluginInv, Typed, RecordInv
<1> QED BY <1>1, <1>2, EndsKeep

LEMMA ReceiveKeeps ==
    ASSUME PluginInv, Receive
    PROVE  PluginInv'
<1> USE DEF PluginInv
<1>1. plugActor.cmd = NoCommand /\ plugActor.busy = 0 /\ ~Loading
  BY DEF ActorInv, Receive, Loading, NoCommand
<1>2. plugQueue # <<>> /\ plugQueue' = Tail(plugQueue)
      /\ UNCHANGED <<plugFiles, plugRecs, plugRev, plugNextGen, plugStop, plugNow, plugAsks>>
  BY DEF Receive
<1>3. plugActor'.on => plugActor.on
  BY DEF Receive
<1>4. TokensStay
  BY <1>1, <1>2, <1>3, SteadyTokens
<1>5. /\ QueueInv'
      /\ plugQueue' \in Seq(Commands) /\ Len(plugQueue') <= QueueCapacity
      /\ Head(plugQueue) \in Commands /\ CommandOK(Head(plugQueue))
  BY <1>2, <1>4, QueueShrinks
<1>6. PICK cmd \in Commands : cmd = Head(plugQueue)
  BY <1>5
<1>7. RecordInv'
  BY <1>2 DEF RecordInv
<1>8. CASE plugStop \/ plugNow >= cmd.starts
  <2>1. plugCalls' = Fails(cmd) /\ UNCHANGED plugActor
    BY <1>6, <1>8 DEF Receive
  <2>2. plugCalls' \in [Callers -> Calls] /\ CallsKept
    BY <2>1, Failures
  <2>3. CallInv' /\ ActorInv'
    BY <2>1, <2>2, <1>2, <1>4, CallsStay, ActorRests
  <2>4. Typed'
    BY <2>1, <2>2, <1>2, <1>5 DEF Typed
  <2> QED BY <2>3, <2>4, <1>5, <1>7
<1>9. CASE ~(plugStop \/ plugNow >= cmd.starts)
  <2>1. /\ plugActor' = [plugActor EXCEPT !.phase = "handle", !.cmd = cmd, !.todo = 1,
                                          !.ran = {}]
        /\ UNCHANGED plugCalls
    BY <1>6, <1>9 DEF Receive
  <2>2. PICK a \in Actors : a = plugActor
    BY DEF Typed
  <2>3. cmd \in MaybeCommand /\ 1 \in Passes /\ {} \in Contexts
    BY NumbersTyped DEF MaybeCommand, Passes, Contexts
  <2>4. a.on \in BOOLEAN /\ a.busy \in MaybePlugin /\ a.began \in Nat /\ a.until \in Int
    BY <2>2 DEF Actors
  <2>5. plugActor' = [on |-> a.on, phase |-> "handle", cmd |-> cmd, todo |-> 1,
                      busy |-> a.busy, began |-> a.began, until |-> a.until, ran |-> {}]
    BY <2>1, <2>2 DEF Actors
  <2>6. plugActor' \in Actors
    BY <2>3, <2>4, <2>5 DEF Actors
  <2>7. /\ plugActor'.phase = "handle" /\ plugActor'.cmd = cmd /\ plugActor'.todo = 1
        /\ plugActor'.busy = 0 /\ plugActor'.on = plugActor.on
    BY <1>1, <2>2, <2>5
  <2>8. CommandOK(cmd)'
    BY <1>4, <1>5, <1>6, CommandStays
  <2>9. ChainOK'
    <3>1. cmd.had \in HookSets
      BY DEF Commands
    <3>2. \A h \in cmd.had : ~(h[1] < 1)
      BY <3>1, NumbersTyped DEF HookSets, PluginIds
    <3> QED BY <2>7, <3>2 DEF ChainOK
  <2>10. BusyOK'
    <3>1. plugNow < cmd.starts
      BY <1>9 DEF Typed, Commands
    <3> QED BY <3>1, <2>7, <1>2 DEF BusyOK, Loading
  <2>11. CommandOK(plugActor.cmd)'
    BY <2>7, <2>8 DEF CommandOK
  <2>12. ActorInv'
    <3>1. plugActor.on
      BY DEF Receive
    <3> QED BY <2>7, <2>9, <2>10, <2>11, <3>1 DEF ActorInv
  <2>13. CallInv'
    BY <1>4, <2>1, CallsStay DEF CallsKept
  <2>14. Typed'
    BY <1>2, <1>5, <2>1, <2>6 DEF Typed
  <2> QED BY <1>5, <1>7, <2>12, <2>13, <2>14
<1> QED BY <1>8, <1>9

\* A reply to a command that changes no plugin.
LEMMA ReplyKeeps ==
    ASSUME PluginInv, plugActor.phase = "handle", ~Loading, plugActor' = Free,
           plugCalls' \in [Callers -> Calls], CallInv',
           UNCHANGED <<plugFiles, plugRecs, plugRev, plugNextGen, plugQueue, plugStop, plugNow,
                       plugAsks>>
    PROVE  PluginInv'
<1> USE DEF PluginInv
<1>1. TokensStay
  BY SteadyTokens, Frees
<1>2. plugActor' \in Actors /\ ActorInv'
  BY Frees
<1>3. QueueInv' /\ RecordInv'
  BY <1>1, QueueStays DEF RecordInv
<1>4. Typed'
  BY <1>2 DEF Typed
<1> QED BY <1>2, <1>3, <1>4

LEMMA HandleTokenKeeps ==
    ASSUME PluginInv, HandleToken
    PROVE  PluginInv'
<1> USE DEF PluginInv
<1>1. plugActor.phase = "handle" /\ ~Loading /\ plugActor.cmd.kind = "token"
  BY KindHandled DEF HandleToken
<1>2. PICK cmd \in Commands : cmd = plugActor.cmd
  BY <1>1, Handling
<1>3. cmd.who = "post"
  BY <1>1, <1>2, Handling DEF CommandOK, PostKinds
<1>4. PICK call \in Calls : call = plugCalls["post"]
  BY DEF Typed, Callers
<1>5. PICK rev \in Nat, had \in HookSets, pc \in {"ran", "holds"} :
         /\ rev = plugRev /\ had = HookSet
         /\ pc = IF HookSet = {} THEN "ran" ELSE "holds"
  BY HookSetTyped DEF Typed
<1>6. PICK state \in Calls : state = [call EXCEPT !.pc = pc, !.rev = rev, !.had = had]
  BY DEF Calls
<1>7. plugCalls' = Answer(cmd, state)
  BY <1>2, <1>4, <1>5, <1>6 DEF HandleToken
<1>8. TokensStay
  BY <1>1, SteadyTokens, Frees DEF HandleToken
<1>9. TokenOK(rev, had)'
  <2>1. TokenOK(rev, had)
    BY <1>5 DEF TokenOK, Typed
  <2> QED BY <1>8, <2>1 DEF TokensStay
<1>10. CallInv'
  <2>1. CASE plugCalls' = plugCalls
    BY <2>1, <1>8, CallsStay DEF CallsKept
  <2>2. CASE plugCalls'["post"] = [state EXCEPT !.at = 0, !.until = 0]
    <3>1. /\ plugCalls'["post"].rev = rev /\ plugCalls'["post"].had = had
          /\ plugCalls'["post"].missed = call.missed
      BY <2>2, <1>6 DEF Calls
    <3> QED BY <3>1, <1>4, <1>9 DEF CallInv
  <2>3. plugCalls' = plugCalls \/ plugCalls'[cmd.who] = [state EXCEPT !.at = 0, !.until = 0]
    BY <1>7, Replies
  <2> QED BY <1>3, <2>1, <2>2, <2>3
<1>11. plugCalls' \in [Callers -> Calls]
  BY <1>7, Replies
<1> QED BY <1>1, <1>10, <1>11, ReplyKeeps DEF HandleToken

LEMMA HandleSnapshotKeeps ==
    ASSUME PluginInv, HandleSnapshot
    PROVE  PluginInv'
<1> USE DEF PluginInv
<1>1. plugActor.phase = "handle" /\ ~Loading /\ plugActor.cmd.kind = "snapshot"
  BY KindHandled DEF HandleSnapshot
<1>2. PICK cmd \in Commands : cmd = plugActor.cmd
  BY <1>1, Handling
<1>3. cmd.who = "user"
  BY <1>1, <1>2, Handling DEF CommandOK, PostKinds, Commands, Callers
<1>4. PICK call \in Calls : call = plugCalls["user"]
  BY DEF Typed, Callers
<1>5. PICK had \in HookSets : had = {<<p, plugRecs[p].runtime.gen>> :
                                        p \in {q \in PluginIds : HasRuntime(q)}}
  <2>1. \A p \in PluginIds : plugRecs[p].runtime.gen \in Nat
    BY DEF Typed, Records
  <2>2. {<<p, plugRecs[p].runtime.gen>> : p \in {q \in PluginIds : HasRuntime(q)}}
           \subseteq PluginIds \X Nat
    BY <2>1
  <2> QED BY <2>2 DEF HookSets
<1>6. PICK state \in Calls : state = [call EXCEPT !.pc = "idle", !.had = had]
  BY DEF Calls
<1>7. plugCalls' = Answer(cmd, state)
  BY <1>2, <1>4, <1>5, <1>6 DEF HandleSnapshot
<1>8. TokensStay
  BY <1>1, SteadyTokens, Frees DEF HandleSnapshot
<1>9. plugCalls' \in [Callers -> Calls] /\ plugCalls'["post"] = plugCalls["post"]
  BY <1>3, <1>7, Replies DEF Callers
<1>10. CallInv'
  BY <1>8, <1>9, CallsStay DEF CallsKept
<1> QED BY <1>1, <1>9, <1>10, ReplyKeeps DEF HandleSnapshot

LEMMA HandleUnloadKeeps ==
    ASSUME PluginInv, HandleUnload
    PROVE  PluginInv'
<1> USE DEF PluginInv
<1>1. plugActor.phase = "handle" /\ ~Loading /\ plugActor.cmd.kind = "unload"
  BY KindHandled DEF HandleUnload
<1>2. PICK p \in PluginIds : p = plugActor.cmd.plugin
  BY <1>1, Handling, NumbersTyped DEF CommandOK, Commands, PluginIds
<1>3. plugNextGen' \in Nat \ {0}
  BY DEF HandleUnload, Typed
<1>4. CASE plugRecs[p].known
  <2>1. PICK gen \in Nat \ {0}, old \in Records : gen = plugNextGen /\ old = plugRecs[p]
    BY DEF Typed
  <2>2. PICK r \in Records : r = Unloaded(old, gen) /\ RecordOK(r) /\ r.known = old.known
    BY RecordSteps
  <2>3. plugRecs' = [plugRecs EXCEPT ![p] = r] /\ plugRev' = plugRev + 1
    BY <1>2, <1>4, <2>1, <2>2 DEF HandleUnload, Typed
  <2>4. plugRecs' \in [PluginIds -> Records] /\ RecordInv'
    BY <2>1, <2>2, <2>3, RecordChanges DEF HandleUnload
  <2>5. TokensStay /\ plugRev' \in Nat
    BY <2>3, RevisedTokens DEF Typed
  <2> QED BY <1>1, <1>3, <2>4, <2>5, EndsKeep DEF HandleUnload
<1>5. CASE ~plugRecs[p].known
  BY <1>1, <1>2, <1>3, <1>5, PlainEndKeeps DEF HandleUnload
<1> QED BY <1>4, <1>5

LEMMA HookEndsKeep ==
    ASSUME PluginInv, TokenStale \/ HookOutOfBudget
    PROVE  PluginInv'
<1>1. plugActor.phase = "handle" /\ ~Loading
  BY KindHandled DEF TokenStale, HookOutOfBudget, HookMayRun
<1>2. plugNextGen' \in Nat \ {0}
  BY DEF PluginInv, Typed, TokenStale, HookOutOfBudget
<1> QED BY <1>1, <1>2, PlainEndKeeps DEF TokenStale, HookOutOfBudget
\* A step of the command at hand that may change the plugins.
LEMMA ChangeKeeps ==
    ASSUME PluginInv, plugActor.phase = "handle", plugActor' \in Actors,
           plugActor'.on = plugActor.on, plugActor'.phase = "handle",
           plugActor'.cmd = plugActor.cmd, plugActor'.todo # 0, ChainOK', BusyOK', TokensStay,
           plugRecs' \in [PluginIds -> Records], RecordInv', plugRev' \in Nat,
           plugNextGen' \in Nat \ {0},
           UNCHANGED <<plugFiles, plugQueue, plugCalls, plugStop, plugNow, plugAsks>>
    PROVE  PluginInv'
<1> USE DEF PluginInv
<1>1. PICK cmd \in Commands : cmd = plugActor.cmd
  BY Handling
<1>2. CommandOK(cmd)'
  BY <1>1, CommandStays, Handling
<1>3. CommandOK(plugActor.cmd)'
  BY <1>1, <1>2 DEF CommandOK
<1>4. ActorInv'
  BY <1>1, <1>3, Handling DEF ActorInv
<1>5. QueueInv' /\ CallInv'
  BY QueueStays, CallsStay DEF CallsKept
<1>6. Typed'
  BY DEF Typed
<1> QED BY <1>4, <1>5, <1>6

\* A step of the thread that touches nothing but itself.
LEMMA WorkKeeps ==
    ASSUME PluginInv, plugActor.phase = "handle", ~Loading, plugActor' \in Actors,
           plugActor'.on = plugActor.on, plugActor'.phase = "handle",
           plugActor'.cmd = plugActor.cmd, plugActor'.todo # 0, ChainOK', BusyOK',
           UNCHANGED <<plugFiles, plugRecs, plugRev, plugNextGen, plugQueue, plugCalls, plugStop,
                       plugNow, plugAsks>>
    PROVE  PluginInv'
<1>1. TokensStay
  BY SteadyTokens DEF PluginInv
<1>2. RecordInv' /\ plugRecs' \in [PluginIds -> Records] /\ plugRev' \in Nat
      /\ plugNextGen' \in Nat \ {0}
  BY DEF PluginInv, Typed, RecordInv
<1> QED BY <1>1, <1>2, ChangeKeeps

\* A callback is started for plugin p.
LEMMA CallbackStarts ==
    ASSUME PluginInv, plugActor.phase = "handle", NEW p \in PluginIds, NEW until \in Int,
           Starts(p, until)
    PROVE  /\ plugActor' \in Actors
           /\ plugActor'.busy = p /\ plugActor'.began = plugNow
           /\ plugActor'.on = plugActor.on /\ plugActor'.phase = plugActor.phase
           /\ plugActor'.cmd = plugActor.cmd /\ plugActor'.todo = plugActor.todo
           /\ plugActor'.ran = plugActor.ran
<1>1. PICK a \in Actors : a = plugActor
  BY DEF PluginInv, Typed
<1>2. PICK busy \in MaybePlugin : busy = p
  BY NumbersTyped DEF PluginIds, MaybePlugin
<1>3. PICK began \in Nat : began = plugNow
  BY DEF PluginInv, Typed
<1>4. plugActor' = [a EXCEPT !.busy = busy, !.began = began, !.until = until]
  BY <1>1, <1>2, <1>3 DEF Starts
<1> QED BY <1>1, <1>2, <1>3, <1>4 DEF Actors

\* The thread goes to its next pass, with what ran so far.
LEMMA PassEnds ==
    ASSUME PluginInv, plugActor.todo <= PluginCount, NEW ran \in Contexts,
           plugActor' = [plugActor EXCEPT !.busy = 0, !.todo = @ + 1, !.ran = ran]
    PROVE  /\ plugActor' \in Actors
           /\ plugActor'.busy = 0 /\ plugActor'.todo = plugActor.todo + 1
           /\ plugActor'.todo # 0 /\ plugActor'.ran = ran
           /\ plugActor'.on = plugActor.on /\ plugActor'.phase = plugActor.phase
           /\ plugActor'.cmd = plugActor.cmd
<1>1. PICK a \in Actors : a = plugActor
  BY DEF PluginInv, Typed
<1>2. PICK todo \in Passes, busy \in MaybePlugin : todo = a.todo + 1 /\ todo # 0 /\ busy = 0
  BY <1>1, NumbersTyped DEF Actors, Passes, MaybePlugin
<1>3. plugActor' = [a EXCEPT !.busy = busy, !.todo = todo, !.ran = ran]
  BY <1>1, <1>2
<1> QED BY <1>1, <1>2, <1>3 DEF Actors

\* A chain that may run was checked against the revision there is.
LEMMA ChainRevision ==
    ASSUME PluginInv, HookMayRun
    PROVE  /\ plugActor.phase = "handle" /\ plugActor.busy = 0 /\ ~Loading
           /\ plugActor.cmd.kind \in {"checked", "after"}
           /\ plugActor.cmd.kind = "checked" => plugActor.cmd.rev = plugRev
<1>1. /\ plugActor.phase = "handle" /\ plugActor.busy = 0 /\ ~Loading
      /\ plugActor.cmd.kind \in {"checked", "after"}
  BY KindHandled DEF HookMayRun
<1>2. CASE plugActor.todo > 1
  BY <1>1, <1>2, Handling DEF ChainOK
<1>3. CASE ~(plugActor.todo > 1)
  BY <1>1, <1>3, Handling DEF HookMayRun, Handles
<1> QED BY <1>1, <1>2, <1>3

\* What a checked chain has called, or what is gone, with the plugin it is at.
LEMMA ChainPasses ==
    ASSUME PluginInv, plugActor.phase = "handle", ~Loading, plugActor.cmd.kind = "checked",
           plugActor.cmd.rev = plugRev, plugActor.todo <= PluginCount, NEW ran,
           plugActor.ran \subseteq ran,
           Hooked(plugActor.todo) =>
              <<plugActor.todo, plugRecs[plugActor.todo].runtime.gen>> \in ran
    PROVE  \A h \in plugActor.cmd.had :
              h[1] < plugActor.todo + 1 => h \in ran \/ ~plugRecs[h[1]].known
<1> SUFFICES ASSUME NEW h \in plugActor.cmd.had, h[1] < plugActor.todo + 1,
                    plugRecs[h[1]].known
             PROVE  h \in ran
  OBVIOUS
<1>1. h \in PluginIds \X Nat
  BY Handling DEF Commands, HookSets
<1>2. h[1] \in Nat /\ plugActor.todo \in Nat
  BY <1>1, Handling, NumbersTyped DEF PluginIds
<1>3. CASE h[1] < plugActor.todo
  BY <1>3, Handling DEF ChainOK
<1>4. CASE h[1] = plugActor.todo
  <2>1. TokenOK(plugActor.cmd.rev, plugActor.cmd.had)
    BY Handling DEF CommandOK
  <2>2. h \in HookSet
    BY <2>1, Handling DEF TokenOK
  <2>3. Hooked(h[1]) /\ h[2] = plugRecs[h[1]].runtime.gen
    BY <1>1, <2>2, HookSetHas
  <2>4. h = <<h[1], h[2]>>
    BY <1>1
  <2> QED BY <1>4, <2>3, <2>4
<1> QED BY <1>2, <1>3, <1>4

LEMMA HookStepKeeps ==
    ASSUME PluginInv, HookStep
    PROVE  PluginInv'
<1>1. /\ plugActor.phase = "handle" /\ plugActor.busy = 0 /\ ~Loading
      /\ plugActor.cmd.kind \in {"checked", "after"}
      /\ plugActor.cmd.kind = "checked" => plugActor.cmd.rev = plugRev
  BY ChainRevision DEF HookStep
<1>2. plugActor.todo \in PluginIds /\ plugActor.todo \in Nat
  BY <1>1, Handling, NumbersTyped DEF HookStep, PluginIds
<1>3. CASE Hooked(plugActor.todo)
  <2>1. PICK p \in PluginIds, until \in Int :
           /\ p = plugActor.todo /\ Starts(p, until)
           /\ plugNow + CallbackBudget <= plugActor.cmd.finishes
    <3>1. plugNow \in Nat /\ plugActor.cmd.finishes \in Int
      BY <1>1, Handling DEF PluginInv, Typed, Commands
    <3> QED BY <1>2, <1>3, <3>1, NumbersTyped DEF HookStep, HookBudgetLeft
  <2>2. /\ plugActor' \in Actors
        /\ plugActor'.busy = p /\ plugActor'.began = plugNow
        /\ plugActor'.on = plugActor.on /\ plugActor'.phase = plugActor.phase
        /\ plugActor'.cmd = plugActor.cmd /\ plugActor'.todo = plugActor.todo
        /\ plugActor'.ran = plugActor.ran
    BY <1>1, <2>1, CallbackStarts
  <2>3. UNCHANGED <<plugRecs, plugRev, plugNow>>
    BY DEF HookStep
  <2>4. ChainOK'
    BY <1>1, <2>2, <2>3, Handling DEF ChainOK
  <2>5. BusyOK'
    BY <1>1, <2>1, <2>2, <2>3 DEF BusyOK, Loading, PluginIds
  <2>6. plugActor'.todo # 0
    BY <1>1, <2>2, Handling
  <2> QED BY <1>1, <2>2, <2>4, <2>5, <2>6, WorkKeeps DEF HookStep
<1>4. CASE ~Hooked(plugActor.todo)
  <2>1. PICK ran \in Contexts : ran = plugActor.ran
    BY <1>1, Handling DEF Actors
  <2>2. plugActor' = [plugActor EXCEPT !.busy = 0, !.todo = @ + 1, !.ran = ran]
    <3>1. PICK a \in Actors : a = plugActor
      BY <1>1, Handling
    <3>2. plugActor' = [a EXCEPT !.todo = @ + 1]
      BY <1>4, <3>1 DEF HookStep
    <3> QED BY <1>1, <2>1, <3>1, <3>2 DEF Actors
  <2>3. /\ plugActor' \in Actors
        /\ plugActor'.busy = 0 /\ plugActor'.todo = plugActor.todo + 1
        /\ plugActor'.todo # 0 /\ plugActor'.ran = ran
        /\ plugActor'.on = plugActor.on /\ plugActor'.phase = plugActor.phase
        /\ plugActor'.cmd = plugActor.cmd
    BY <2>2, PassEnds DEF HookStep
  <2>4. ChainOK'
    <3>1. CASE plugActor.cmd.kind = "checked"
      <4>1. \A h \in plugActor.cmd.had :
               h[1] < plugActor.todo + 1 => h \in ran \/ ~plugRecs[h[1]].known
        BY <1>1, <1>4, <2>1, <3>1, ChainPasses DEF HookStep
      <4> QED BY <1>1, <2>3, <3>1, <4>1 DEF ChainOK, HookStep
    <3>2. CASE plugActor.cmd.kind # "checked"
      BY <2>3, <3>2 DEF ChainOK
    <3> QED BY <3>1, <3>2
  <2>5. BusyOK'
    BY <1>1, <2>3 DEF BusyOK, Loading
  <2> QED BY <1>1, <2>3, <2>4, <2>5, WorkKeeps DEF HookStep
<1> QED BY <1>3, <1>4

LEMMA HookDoneKeeps ==
    ASSUME PluginInv, HookDone
    PROVE  PluginInv'
<1> USE DEF PluginInv
<1>1. /\ plugActor.phase = "handle" /\ ~Loading
      /\ plugActor.cmd.kind \in {"checked", "after"}
      /\ plugActor.todo > PluginCount
  BY ChainRevision DEF HookDone
<1>2. PICK cmd \in Commands : cmd = plugActor.cmd
  BY <1>1, Handling
<1>3. cmd.who = "post"
  BY <1>1, <1>2, Handling DEF CommandOK, PostKinds
<1>4. {h \in cmd.had \ plugActor.ran : plugRecs[h[1]].known} = {}
  <2>1. CASE cmd.kind = "checked"
    <3>1. cmd.had \subseteq PluginIds \X Nat
      BY DEF Commands, HookSets
    <3>2. \A h \in cmd.had : h[1] < plugActor.todo
      BY <1>1, <3>1, Handling, NumbersTyped DEF PluginIds
    <3> QED BY <1>1, <1>2, <2>1, <3>2, Handling DEF ChainOK
  <2>2. CASE cmd.kind # "checked"
    BY <1>1, <1>2, <2>2, Handling DEF CommandOK
  <2> QED BY <2>1, <2>2
<1>5. PICK call \in Calls : call = plugCalls["post"]
  BY DEF Typed, Callers
<1>6. PICK pc \in {"ran", "idle"}, missed \in HookSets :
         pc = (IF cmd.kind = "checked" THEN "ran" ELSE "idle") /\ missed = {}
  BY DEF HookSets
<1>7. PICK state \in Calls : state = [call EXCEPT !.pc = pc, !.missed = missed]
  BY DEF Calls
<1>8. plugCalls' = Answer(cmd, state)
  BY <1>2, <1>4, <1>5, <1>6, <1>7 DEF HookDone
<1>9. TokensStay
  BY <1>1, SteadyTokens, Frees DEF HookDone
<1>10. CallInv'
  <2>1. CASE plugCalls' = plugCalls
    BY <2>1, <1>9, CallsStay DEF CallsKept
  <2>2. CASE plugCalls'["post"] = [state EXCEPT !.at = 0, !.until = 0]
    <3>1. plugCalls'["post"].pc = pc /\ plugCalls'["post"].missed = {}
      BY <2>2, <1>6, <1>7 DEF Calls
    <3> QED BY <3>1 DEF CallInv
  <2>3. plugCalls' = plugCalls \/ plugCalls'[cmd.who] = [state EXCEPT !.at = 0, !.until = 0]
    BY <1>8, Replies
  <2> QED BY <1>3, <2>1, <2>2, <2>3
<1>11. plugCalls' \in [Callers -> Calls]
  BY <1>8, Replies
<1> QED BY <1>1, <1>10, <1>11, ReplyKeeps DEF HookDone

LEMMA HandleButtonKeeps ==
    ASSUME PluginInv, HandleButton
    PROVE  PluginInv'
<1>1. /\ plugActor.phase = "handle" /\ plugActor.busy = 0 /\ ~Loading
      /\ plugActor.cmd.kind = "button"
  BY KindHandled DEF HandleButton
<1>2. PICK p \in PluginIds : p = plugActor.cmd.plugin
  BY <1>1, Handling, NumbersTyped DEF CommandOK, Commands, PluginIds
<1>3. CASE plugRecs[p].known /\ plugRecs[p].gen = plugActor.cmd.gen /\ HasRuntime(p)
  <2>1. plugNow \in Nat /\ plugActor.cmd.finishes \in Int /\ plugActor.cmd.starts \in Int
    BY <1>1, Handling DEF PluginInv, Typed, Commands
  <2>2. plugNow + CallbackBudget <= plugActor.cmd.finishes
    <3>1. plugNow < plugActor.cmd.starts
      BY <1>1, Handling DEF BusyOK
    <3>2. plugActor.cmd.starts + CallbackBudget = plugActor.cmd.finishes
      BY <1>1, Handling DEF CommandOK
    <3> QED BY <2>1, <3>1, <3>2, NumbersTyped
  <2>3. PICK until \in Int : Starts(p, until)
    <3>1. Starts(p, IF plugNow + CallbackBudget < plugActor.cmd.finishes
                    THEN plugNow + CallbackBudget ELSE plugActor.cmd.finishes)
      BY <1>2, <1>3 DEF HandleButton
    <3> QED BY <2>1, <3>1, NumbersTyped
  <2>4. /\ plugActor' \in Actors
        /\ plugActor'.busy = p /\ plugActor'.began = plugNow
        /\ plugActor'.on = plugActor.on /\ plugActor'.phase = plugActor.phase
        /\ plugActor'.cmd = plugActor.cmd /\ plugActor'.todo = plugActor.todo
    BY <1>1, <2>3, CallbackStarts
  <2>5. UNCHANGED <<plugFiles, plugRecs, plugRev, plugNextGen, plugQueue, plugCalls, plugStop,
                    plugNow, plugAsks>>
    BY <1>2, <1>3 DEF HandleButton
  <2>6. ChainOK'
    BY <1>1, <2>4 DEF ChainOK
  <2>7. BusyOK'
    <3>1. plugRecs[p].runtime.gen = plugActor.cmd.gen
      BY <1>3 DEF PluginInv, RecordInv, RecordOK, HasRuntime
    <3> QED BY <1>1, <2>2, <2>4, <2>5, <3>1 DEF BusyOK, Loading, PluginIds
  <2>8. plugActor'.todo # 0
    BY <1>1, <2>4, Handling
  <2> QED BY <1>1, <2>4, <2>5, <2>6, <2>7, <2>8, WorkKeeps
<1>4. CASE ~(plugRecs[p].known /\ plugRecs[p].gen = plugActor.cmd.gen /\ HasRuntime(p))
  <2>1. /\ plugCalls' = Fails(plugActor.cmd) /\ plugActor' = Free
        /\ UNCHANGED <<plugFiles, plugRecs, plugRev, plugNextGen, plugQueue, plugStop, plugNow,
                       plugAsks>>
    BY <1>2, <1>4 DEF HandleButton
  <2>2. plugNextGen' \in Nat \ {0}
    BY <2>1 DEF PluginInv, Typed
  <2> QED BY <1>1, <2>1, <2>2, PlainEndKeeps
<1> QED BY <1>3, <1>4
\* A callback runs for a command of the hooks or a button, at its plugin.
LEMMA CallbackRuns ==
    ASSUME PluginInv, plugActor.busy # 0, plugActor.cmd.kind \in {"checked", "after", "button"}
    PROVE  /\ plugActor.phase = "handle" /\ ~Loading /\ plugActor.busy \in PluginIds
           /\ plugActor.cmd.kind # "button" =>
                 plugActor.busy = plugActor.todo /\ plugActor.todo <= PluginCount
<1>1. plugActor.phase = "handle" /\ ~Loading
  BY Running DEF Loading
<1>2. plugActor.busy \in PluginIds
  BY <1>1, Handling, NumbersTyped DEF Actors, MaybePlugin, PluginIds
<1> QED BY <1>1, <1>2, Handling, NumbersTyped DEF BusyOK, PluginIds

LEMMA CallbackReturnsKeeps ==
    ASSUME PluginInv, CallbackReturns
    PROVE  PluginInv'
<1>1. plugActor.busy # 0 /\ plugActor.cmd.kind \in {"checked", "after", "button"}
  BY DEF CallbackReturns
<1>2. /\ plugActor.phase = "handle" /\ ~Loading /\ plugActor.busy \in PluginIds
      /\ plugActor.cmd.kind # "button" =>
            plugActor.busy = plugActor.todo /\ plugActor.todo <= PluginCount
  BY <1>1, CallbackRuns
<1>3. CASE plugActor.cmd.kind = "button"
  <2>1. plugNextGen' \in Nat \ {0}
    BY DEF PluginInv, Typed, CallbackReturns
  <2> QED BY <1>2, <1>3, <2>1, PlainEndKeeps DEF CallbackReturns
<1>4. CASE plugActor.cmd.kind # "button"
  <2>1. PICK p \in PluginIds, gen \in Nat : p = plugActor.busy /\ gen = plugRecs[p].runtime.gen
    BY <1>2 DEF PluginInv, Typed, Records
  <2>2. PICK ran \in Contexts : ran = plugActor.ran \union {<<p, gen>>}
    <3>1. plugActor.ran \in Contexts /\ p \in MaybePlugin
      BY <1>2, Handling, NumbersTyped DEF Actors, PluginIds, MaybePlugin
    <3>2. <<p, gen>> \in MaybePlugin \X Nat
      BY <3>1
    <3>3. plugActor.ran \union {<<p, gen>>} \in Contexts
      BY <3>1, <3>2 DEF Contexts
    <3> QED BY <3>3
  <2>3. plugActor' = [plugActor EXCEPT !.busy = 0, !.todo = @ + 1, !.ran = ran]
    <3>1. PICK a \in Actors : a = plugActor
      BY <1>2, Handling
    <3> QED BY <1>4, <2>1, <2>2, <3>1 DEF CallbackReturns, Actors
  <2>4. /\ plugActor' \in Actors
        /\ plugActor'.busy = 0 /\ plugActor'.todo = plugActor.todo + 1
        /\ plugActor'.todo # 0 /\ plugActor'.ran = ran
        /\ plugActor'.on = plugActor.on /\ plugActor'.phase = plugActor.phase
        /\ plugActor'.cmd = plugActor.cmd
    BY <1>2, <1>4, <2>3, PassEnds
  <2>5. UNCHANGED <<plugFiles, plugRecs, plugRev, plugNextGen, plugQueue, plugCalls, plugStop,
                    plugNow, plugAsks>>
    BY <1>4 DEF CallbackReturns
  <2>6. ChainOK'
    <3>1. CASE plugActor.cmd.kind = "checked"
      <4>1. plugActor.cmd.rev = plugRev
        BY <1>1, <1>2, <3>1, Handling DEF ChainOK
      <4>2. \A h \in plugActor.cmd.had :
               h[1] < plugActor.todo + 1 => h \in ran \/ ~plugRecs[h[1]].known
        BY <1>2, <1>4, <2>1, <2>2, <3>1, <4>1, ChainPasses
      <4> QED BY <2>4, <2>5, <3>1, <4>1, <4>2 DEF ChainOK
    <3>2. CASE plugActor.cmd.kind # "checked"
      BY <2>4, <3>2 DEF ChainOK
    <3> QED BY <3>1, <3>2
  <2>7. BusyOK'
    BY <1>1, <1>4, <2>4 DEF BusyOK, Loading
  <2> QED BY <1>2, <2>4, <2>5, <2>6, <2>7, WorkKeeps
<1> QED BY <1>3, <1>4

\* Poisoning a runtime.
LEMMA Poisons ==
    ASSUME PluginInv, NEW p \in PluginIds,
           plugRecs' = [plugRecs EXCEPT ![p] = Poisoned(plugRecs[p])], plugRev' = plugRev + 1,
           UNCHANGED plugFiles
    PROVE  plugRecs' \in [PluginIds -> Records] /\ RecordInv' /\ TokensStay /\ plugRev' \in Nat
<1>1. PICK old \in Records : old = plugRecs[p]
  BY DEF PluginInv, Typed
<1>2. PICK r \in Records : r = Poisoned(old) /\ RecordOK(r) /\ r.known = old.known
  <2>1. 1 \in Nat \ {0} /\ TRUE \in BOOLEAN
    OBVIOUS
  <2> QED BY <2>1, RecordSteps
<1>3. plugRecs' = [plugRecs EXCEPT ![p] = r]
  BY <1>1, <1>2
<1>4. plugRecs' \in [PluginIds -> Records] /\ RecordInv'
  BY <1>1, <1>2, <1>3, RecordChanges DEF PluginInv
<1>5. TokensStay /\ plugRev' \in Nat
  BY RevisedTokens DEF PluginInv, Typed
<1> QED BY <1>4, <1>5

LEMMA CallbackFailsKeeps ==
    ASSUME PluginInv, CallbackFails
    PROVE  PluginInv'
<1>1. plugActor.busy # 0 /\ plugActor.cmd.kind \in {"checked", "after", "button"}
  BY DEF CallbackFails
<1>2. /\ plugActor.phase = "handle" /\ ~Loading /\ plugActor.busy \in PluginIds
      /\ plugActor.cmd.kind # "button" =>
            plugActor.busy = plugActor.todo /\ plugActor.todo <= PluginCount
  BY <1>1, CallbackRuns
<1>3. plugActor'.on = plugActor.on
  <2>1. CASE plugActor.cmd.kind = "after"
    BY <1>2, <2>1, Handling DEF CallbackFails, Actors
  <2>2. CASE plugActor.cmd.kind # "after"
    BY <2>2, Frees DEF CallbackFails, PluginInv
  <2> QED BY <2>1, <2>2
<1>4. plugRecs' \in [PluginIds -> Records] /\ RecordInv' /\ TokensStay /\ plugRev' \in Nat
  <2>1. PICK p \in PluginIds : p = plugActor.busy
    BY <1>2
  <2>2. \/ /\ plugRecs' = [plugRecs EXCEPT ![p] = Poisoned(plugRecs[p])]
           /\ plugRev' = plugRev + 1
        \/ UNCHANGED <<plugRecs, plugRev>>
    BY <2>1 DEF CallbackFails
  <2>3. CASE UNCHANGED <<plugRecs, plugRev>>
    <3>1. TokensStay
      BY <1>2, <1>3, <2>3, SteadyTokens DEF PluginInv
    <3>2. RecordInv'
      BY <2>3 DEF PluginInv, RecordInv, CallbackFails
    <3> QED BY <2>3, <3>1, <3>2 DEF PluginInv, Typed
  <2>4. CASE /\ plugRecs' = [plugRecs EXCEPT ![p] = Poisoned(plugRecs[p])]
             /\ plugRev' = plugRev + 1
    BY <2>4, Poisons DEF CallbackFails
  <2> QED BY <2>2, <2>3, <2>4
<1>5. plugNextGen' \in Nat \ {0}
  BY DEF PluginInv, Typed, CallbackFails
<1>6. CASE plugActor.cmd.kind = "after"
  <2>1. PICK ran \in Contexts : ran = plugActor.ran
    BY <1>2, Handling DEF Actors
  <2>2. plugActor' = [plugActor EXCEPT !.busy = 0, !.todo = @ + 1, !.ran = ran]
    <3>1. PICK a \in Actors : a = plugActor
      BY <1>2, Handling
    <3> QED BY <1>6, <2>1, <3>1 DEF CallbackFails, Actors
  <2>3. /\ plugActor' \in Actors
        /\ plugActor'.busy = 0 /\ plugActor'.todo = plugActor.todo + 1
        /\ plugActor'.todo # 0
        /\ plugActor'.phase = plugActor.phase
        /\ plugActor'.cmd = plugActor.cmd
    BY <1>2, <1>6, <2>2, PassEnds
  <2>4. ChainOK' /\ BusyOK'
    BY <1>6, <2>3 DEF ChainOK, BusyOK, Loading
  <2> QED BY <1>2, <1>3, <1>4, <1>5, <1>6, <2>3, <2>4, ChangeKeeps DEF CallbackFails
<1>7. CASE plugActor.cmd.kind # "after"
  BY <1>2, <1>4, <1>5, <1>7, EndsKeep DEF CallbackFails
<1> QED BY <1>6, <1>7

LEMMA DiscoverKeeps ==
    ASSUME PluginInv, Discover
    PROVE  PluginInv'
<1>1. /\ plugActor.phase = "handle" /\ plugActor.busy = 0 /\ ~Loading
      /\ plugActor.cmd.kind = "reload_all"
  BY KindHandled DEF Discover
<1>2. PICK a \in Actors : a = plugActor
  BY <1>1, Handling
<1>3. PICK ran \in Contexts : ran = {<<0, 0>>}
  <2>1. 0 \in MaybePlugin /\ 0 \in Nat
    BY NumbersTyped DEF MaybePlugin
  <2>2. <<0, 0>> \in MaybePlugin \X Nat
    BY <2>1
  <2>3. {<<0, 0>>} \in Contexts
    BY <2>2 DEF Contexts
  <2> QED BY <2>3
<1>4. plugActor' = [a EXCEPT !.ran = ran]
  BY <1>2, <1>3 DEF Discover
<1>5. /\ plugActor' \in Actors
      /\ plugActor'.on = plugActor.on /\ plugActor'.phase = plugActor.phase
      /\ plugActor'.cmd = plugActor.cmd /\ plugActor'.busy = plugActor.busy
      /\ plugActor'.todo = plugActor.todo
  BY <1>2, <1>4 DEF Actors
<1>6. ASSUME NEW p \in PluginIds
      PROVE  /\ plugRecs'[p] \in Records /\ RecordOK(plugRecs'[p])
             /\ plugRecs'[p].known <=> p \in plugFiles
             /\ plugRecs'[p].known => plugRecs'[p] = plugRecs[p]
  <2>1. plugRecs'[p] = IF p \notin plugFiles THEN NoRecord
                       ELSE IF plugRecs[p].known THEN plugRecs[p] ELSE NewRecord
    BY DEF Discover
  <2>2. plugRecs[p] \in Records /\ RecordOK(plugRecs[p])
        /\ (p \in plugFiles => plugRecs[p].known)
    BY DEF PluginInv, Typed, RecordInv
  <2>3. CASE p \in plugFiles
    BY <2>1, <2>2, <2>3
  <2>4. CASE p \notin plugFiles
    BY <2>1, <2>4, NewRecords
  <2> QED BY <2>3, <2>4
<1>7. plugRecs' \in [PluginIds -> Records]
  <2>1. plugRecs' = [p \in PluginIds |-> plugRecs'[p]]
    BY DEF Discover
  <2> QED BY <1>6, <2>1
<1>8. RecordInv'
  BY <1>6 DEF RecordInv, Discover
<1>9. TokensStay
  <2> SUFFICES ASSUME NEW rev \in Nat, NEW had \in HookSets, TokenOK(rev, had)
               PROVE  TokenOK(rev, had)'
    BY DEF TokensStay
  <2>1. plugRev' = plugRev
    BY DEF Discover
  <2>2. ASSUME rev = plugRev, NEW h \in had, plugRecs'[h[1]].known
        PROVE  h \in HookSet'
    <3>1. h \in PluginIds \X Nat
      BY DEF HookSets
    <3>2. PICK p \in PluginIds : p = h[1]
      BY <3>1
    <3>3. plugRecs'[p] = plugRecs[p] /\ plugRecs[p].known
      BY <1>6, <2>2, <3>2
    <3>4. h \in HookSet
      BY <1>1, <2>2, <3>2, <3>3, Handling DEF TokenOK
    <3>5. Hooked(p) /\ h[2] = plugRecs[p].runtime.gen
      BY <3>1, <3>2, <3>4, HookSetHas
    <3>6. plugRecs'[p].runtime.hook /\ h[2] = plugRecs'[p].runtime.gen
      BY <3>3, <3>5 DEF Hooked
    <3>7. h = <<p, plugRecs'[p].runtime.gen>>
      BY <3>1, <3>2, <3>6
    <3> QED BY <3>6, <3>7 DEF HookSet, Hooked
  <2> QED BY <2>1, <2>2 DEF TokenOK
<1>10. ChainOK' /\ BusyOK' /\ plugActor'.todo # 0
  BY <1>1, <1>5, Handling DEF ChainOK, BusyOK, Loading
<1>11. plugRev' \in Nat /\ plugNextGen' \in Nat \ {0}
  BY DEF PluginInv, Typed, Discover
<1> QED BY <1>1, <1>5, <1>7, <1>8, <1>9, <1>10, <1>11, ChangeKeeps DEF Discover
\* The old code of plugin p ends and its new one is evaluated, with its budget left.
LEMMA LoadStarts ==
    ASSUME PluginInv, NEW p \in PluginIds,
           plugActor.phase = "handle", plugActor.cmd.kind \in {"reload", "reload_all"},
           plugActor.cmd.kind = "reload_all" => p = plugActor.todo,
           plugNow + CallbackBudget <= plugActor.cmd.finishes, plugRecs[p].known,
           plugRecs' = [plugRecs EXCEPT ![p] = Unloaded(plugRecs[p], plugNextGen)],
           plugNextGen' = plugNextGen + 1, Loads(p),
           UNCHANGED <<plugFiles, plugRev, plugQueue, plugCalls, plugStop, plugNow, plugAsks>>
    PROVE  PluginInv'
<1>1. PICK gen \in Nat \ {0}, old \in Records : gen = plugNextGen /\ old = plugRecs[p]
  BY DEF PluginInv, Typed
<1>2. PICK r \in Records : /\ r = Unloaded(old, gen) /\ RecordOK(r) /\ r.known = old.known
                           /\ r.gen = gen /\ r.runtime = NoRuntime
  <2>1. TRUE \in BOOLEAN
    OBVIOUS
  <2> QED BY <2>1, RecordSteps
<1>3. plugRecs' = [plugRecs EXCEPT ![p] = r]
  BY <1>1, <1>2
<1>4. plugRecs' \in [PluginIds -> Records] /\ RecordInv' /\ plugRecs'[p] = r
  BY <1>1, <1>2, <1>3, RecordChanges DEF PluginInv
<1>5. /\ plugActor' \in Actors
      /\ plugActor'.busy = p /\ plugActor'.began = plugNow
      /\ plugActor'.on = plugActor.on /\ plugActor'.phase = plugActor.phase
      /\ plugActor'.cmd = plugActor.cmd /\ plugActor'.todo = plugActor.todo
  <2>1. 0 \in Int
    OBVIOUS
  <2> QED BY <2>1, CallbackStarts DEF Loads
<1>6. p # 0
  BY DEF PluginIds
<1>7. Loading'
  BY <1>5, <1>6 DEF Loading
<1>8. TokensStay
  BY <1>7, LoadingTokens
<1>9. ChainOK'
  BY <1>5 DEF ChainOK
<1>10. BusyOK'
  BY <1>1, <1>2, <1>4, <1>5, <1>6 DEF BusyOK
<1>11. plugRev' \in Nat /\ plugNextGen' \in Nat \ {0} /\ plugActor'.todo # 0
  BY <1>5, Handling DEF PluginInv, Typed
<1> QED BY <1>4, <1>5, <1>8, <1>9, <1>10, <1>11, ChangeKeeps

LEMMA HandleReloadKeeps ==
    ASSUME PluginInv, HandleReload
    PROVE  PluginInv'
<1>1. /\ plugActor.phase = "handle" /\ plugActor.busy = 0 /\ ~Loading
      /\ plugActor.cmd.kind = "reload"
  BY KindHandled DEF HandleReload
<1>2. PICK p \in PluginIds : p = plugActor.cmd.plugin
  BY <1>1, Handling, NumbersTyped DEF CommandOK, Commands, PluginIds
<1>3. CASE plugRecs[p].known
  <2>1. plugNow \in Nat /\ plugActor.cmd.finishes \in Int /\ plugActor.cmd.starts \in Int
    BY <1>1, Handling DEF PluginInv, Typed, Commands
  <2>2. plugNow < plugActor.cmd.starts
    BY <1>1, Handling DEF BusyOK
  <2>3. plugActor.cmd.starts + CallbackBudget = plugActor.cmd.finishes
    BY <1>1, Handling DEF CommandOK
  <2>4. plugNow + CallbackBudget <= plugActor.cmd.finishes
    BY <2>1, <2>2, <2>3, NumbersTyped
  <2>5. /\ plugRecs' = [plugRecs EXCEPT ![p] = Unloaded(plugRecs[p], plugNextGen)]
        /\ plugNextGen' = plugNextGen + 1 /\ Loads(p)
        /\ UNCHANGED <<plugFiles, plugRev, plugQueue, plugCalls, plugStop, plugNow, plugAsks>>
    BY <1>2, <1>3, <2>4 DEF HandleReload
  <2> QED BY <1>1, <1>3, <2>4, <2>5, LoadStarts
<1>4. CASE ~plugRecs[p].known
  <2>1. /\ plugCalls' = Fails(plugActor.cmd) /\ plugActor' = Free
        /\ UNCHANGED <<plugFiles, plugRecs, plugRev, plugQueue, plugStop, plugNow, plugAsks>>
    BY <1>2, <1>4 DEF HandleReload
  <2>2. plugNextGen' \in Nat \ {0}
    BY DEF PluginInv, Typed, HandleReload
  <2> QED BY <1>1, <2>1, <2>2, PlainEndKeeps
<1> QED BY <1>3, <1>4

LEMMA ReloadAllStepKeeps ==
    ASSUME PluginInv, ReloadAllStep
    PROVE  PluginInv'
<1>1. /\ plugActor.phase = "handle" /\ plugActor.busy = 0 /\ ~Loading
      /\ plugActor.cmd.kind = "reload_all" /\ plugActor.todo <= PluginCount
  BY KindHandled DEF ReloadAllStep
<1>2. PICK p \in PluginIds : p = plugActor.todo
  BY <1>1, Handling, NumbersTyped DEF PluginIds
<1>3. CASE ~plugRecs[p].known
  <2>1. PICK ran \in Contexts : ran = plugActor.ran
    BY <1>1, Handling DEF Actors
  <2>2. plugActor' = [plugActor EXCEPT !.busy = 0, !.todo = @ + 1, !.ran = ran]
    <3>1. PICK a \in Actors : a = plugActor
      BY <1>1, Handling
    <3>2. plugActor' = [a EXCEPT !.todo = @ + 1]
      BY <1>2, <1>3, <3>1 DEF ReloadAllStep
    <3> QED BY <1>1, <2>1, <3>1, <3>2 DEF Actors
  <2>3. /\ plugActor' \in Actors
        /\ plugActor'.busy = 0 /\ plugActor'.todo = plugActor.todo + 1
        /\ plugActor'.todo # 0
        /\ plugActor'.on = plugActor.on /\ plugActor'.phase = plugActor.phase
        /\ plugActor'.cmd = plugActor.cmd
    BY <1>1, <2>2, PassEnds
  <2>4. ChainOK' /\ BusyOK'
    BY <1>1, <2>3 DEF ChainOK, BusyOK, Loading
  <2> QED BY <1>1, <1>2, <1>3, <2>3, <2>4, WorkKeeps DEF ReloadAllStep
<1>4. CASE /\ plugRecs[p].known
           /\ plugStop \/ plugActor.cmd.finishes - plugNow < CallbackBudget
  <2>1. /\ plugCalls' = Fails(plugActor.cmd) /\ plugActor' = Free
        /\ UNCHANGED <<plugFiles, plugRecs, plugRev, plugNextGen, plugQueue, plugStop, plugNow,
                       plugAsks>>
    BY <1>2, <1>4 DEF ReloadAllStep
  <2>2. plugNextGen' \in Nat \ {0}
    BY <2>1 DEF PluginInv, Typed
  <2> QED BY <1>1, <2>1, <2>2, PlainEndKeeps
<1>5. CASE /\ plugRecs[p].known
           /\ ~(plugStop \/ plugActor.cmd.finishes - plugNow < CallbackBudget)
  <2>1. plugNow \in Nat /\ plugActor.cmd.finishes \in Int
    BY <1>1, Handling DEF PluginInv, Typed, Commands
  <2>2. plugNow + CallbackBudget <= plugActor.cmd.finishes
    BY <1>5, <2>1, NumbersTyped
  <2>3. /\ plugRecs' = [plugRecs EXCEPT ![p] = Unloaded(plugRecs[p], plugNextGen)]
        /\ plugNextGen' = plugNextGen + 1 /\ Loads(p)
        /\ UNCHANGED <<plugFiles, plugRev, plugQueue, plugCalls, plugStop, plugNow, plugAsks>>
    BY <1>2, <1>5, <2>2 DEF ReloadAllStep
  <2> QED BY <1>1, <1>2, <1>5, <2>2, <2>3, LoadStarts
<1> QED BY <1>3, <1>4, <1>5

LEMMA ReloadAllDoneKeeps ==
    ASSUME PluginInv, ReloadAllDone
    PROVE  PluginInv'
<1>1. plugActor.phase = "handle"
  BY KindHandled DEF ReloadAllDone
<1>2. TokensStay /\ plugRev' \in Nat /\ plugNextGen' \in Nat \ {0}
  BY RevisedTokens DEF PluginInv, Typed, ReloadAllDone
<1>3. plugRecs' \in [PluginIds -> Records] /\ RecordInv'
  BY DEF PluginInv, Typed, RecordInv, ReloadAllDone
<1> QED BY <1>1, <1>2, <1>3, EndsKeep DEF ReloadAllDone

LEMMA LoadEndsKeeps ==
    ASSUME PluginInv, LoadEnds
    PROVE  PluginInv'
<1>1. /\ plugActor.busy # 0 /\ plugActor.cmd.kind \in {"reload", "reload_all"} /\ Loading
      /\ plugActor.phase = "handle"
  BY Running DEF LoadEnds, Loading
<1>2. PICK p \in PluginIds : p = plugActor.busy
  BY <1>1, Handling, NumbersTyped DEF Actors, MaybePlugin, PluginIds
<1>3. PICK old \in Records : old = plugRecs[p]
  BY DEF PluginInv, Typed
<1>4. old.known /\ old.gen # 0 /\ old.runtime = NoRuntime
  BY <1>1, <1>2, <1>3, Handling DEF BusyOK
<1>5. \E r \in Records : /\ plugRecs' = [plugRecs EXCEPT ![p] = r]
                         /\ RecordOK(r) /\ r.known = old.known
  <2>1. CASE \E hook \in BOOLEAN :
                plugRecs' = [plugRecs EXCEPT ![p] = LoadedAs(@, plugRecs[p].gen, hook)]
    <3>1. PICK hook \in BOOLEAN :
             plugRecs' = [plugRecs EXCEPT ![p] = LoadedAs(@, plugRecs[p].gen, hook)]
      BY <2>1
    <3>2. PICK gen \in Nat \ {0} : gen = old.gen
      BY <1>4 DEF Records
    <3>3. PICK r \in Records : r = LoadedAs(old, gen, hook) /\ RecordOK(r) /\ r.known = old.known
      BY <1>4, RecordSteps
    <3>4. plugRecs' = [plugRecs EXCEPT ![p] = r]
      BY <1>3, <3>1, <3>2, <3>3 DEF PluginInv, Typed
    <3> QED BY <3>3, <3>4
  <2>2. CASE plugRecs' = [plugRecs EXCEPT ![p].state = "error"]
    <3>1. PICK r : r = [old EXCEPT !.state = "error"]
      OBVIOUS
    <3>2. /\ r \in Records /\ r.known = old.known /\ r.state = "error"
          /\ r.runtime = NoRuntime
      BY <1>4, <3>1 DEF Records
    <3>3. RecordOK(r)
      BY <3>2 DEF RecordOK, NoRuntime
    <3>4. plugRecs' = [plugRecs EXCEPT ![p] = r]
      BY <1>3, <2>2, <3>1 DEF PluginInv, Typed
    <3> QED BY <3>2, <3>3, <3>4
  <2> QED BY <1>2, <2>1, <2>2 DEF LoadEnds
<1>6. plugRecs' \in [PluginIds -> Records] /\ RecordInv'
  BY <1>3, <1>5, RecordChanges DEF PluginInv, LoadEnds
<1>7. TokensStay /\ plugRev' \in Nat /\ plugNextGen' \in Nat \ {0}
  BY RevisedTokens DEF PluginInv, Typed, LoadEnds
<1>8. CASE plugActor.cmd.kind = "reload"
  BY <1>1, <1>6, <1>7, <1>8, EndsKeep DEF LoadEnds
<1>9. CASE plugActor.cmd.kind # "reload"
  <2>1. plugActor.todo <= PluginCount
    BY <1>1, <1>2, <1>9, Handling DEF BusyOK, PluginIds
  <2>2. PICK ran \in Contexts : ran = plugActor.ran
    BY <1>1, Handling DEF Actors
  <2>3. plugActor' = [plugActor EXCEPT !.busy = 0, !.todo = @ + 1, !.ran = ran]
    <3>1. PICK a \in Actors : a = plugActor
      BY <1>1, Handling
    <3>2. plugActor' = [a EXCEPT !.busy = 0, !.todo = @ + 1]
      BY <1>9, <3>1 DEF LoadEnds
    <3> QED BY <2>2, <3>1, <3>2 DEF Actors
  <2>4. /\ plugActor' \in Actors
        /\ plugActor'.busy = 0 /\ plugActor'.todo = plugActor.todo + 1
        /\ plugActor'.todo # 0
        /\ plugActor'.on = plugActor.on /\ plugActor'.phase = plugActor.phase
        /\ plugActor'.cmd = plugActor.cmd
    BY <2>1, <2>3, PassEnds
  <2>5. ChainOK' /\ BusyOK'
    BY <1>1, <1>9, <2>4 DEF ChainOK, BusyOK, Loading
  <2> QED BY <1>1, <1>6, <1>7, <1>9, <2>4, <2>5, ChangeKeeps DEF LoadEnds
<1> QED BY <1>8, <1>9

\* The thread at rest: a background job that is poisoned, and the end of the thread.
LEMMA IdleKeeps ==
    ASSUME PluginInv, plugActor.phase = "idle", plugActor' \in Actors,
           plugActor'.phase = "idle", plugActor'.cmd = plugActor.cmd,
           plugActor'.busy = plugActor.busy, TokensStay,
           plugRecs' \in [PluginIds -> Records], RecordInv', plugRev' \in Nat, plugAsks' \in Nat,
           UNCHANGED <<plugFiles, plugNextGen, plugQueue, plugCalls, plugStop, plugNow>>
    PROVE  PluginInv'
<1>1. QueueInv' /\ CallInv'
  BY QueueStays, CallsStay DEF PluginInv, CallsKept
<1>2. ActorInv'
  BY DEF PluginInv, ActorInv
<1>3. Typed'
  BY DEF PluginInv, Typed
<1>4. RecordInv'
  OBVIOUS
<1> QED BY <1>1, <1>2, <1>3, <1>4 DEF PluginInv

LEMMA PumpPoisonsKeeps ==
    ASSUME PluginInv, PumpPoisons
    PROVE  PluginInv'
<1>1. PICK p \in PluginIds : plugRecs' = [plugRecs EXCEPT ![p] = Poisoned(@)]
  BY DEF PumpPoisons
<1>2. plugRecs' = [plugRecs EXCEPT ![p] = Poisoned(plugRecs[p])]
  BY <1>1
<1>3. plugRecs' \in [PluginIds -> Records] /\ RecordInv' /\ TokensStay /\ plugRev' \in Nat
  BY <1>2, Poisons DEF PumpPoisons
<1>4. plugAsks' \in Nat /\ plugActor \in Actors
  BY DEF PluginInv, Typed, PumpPoisons
<1> QED BY <1>3, <1>4, IdleKeeps DEF PumpPoisons

LEMMA ActorEndsKeeps ==
    ASSUME PluginInv, ActorEnds
    PROVE  PluginInv'
<1>1. PICK a \in Actors : a = plugActor
  BY DEF PluginInv, Typed
<1>2. plugActor' = [a EXCEPT !.on = FALSE]
  BY <1>1 DEF ActorEnds
<1>3. /\ plugActor' \in Actors /\ plugActor'.phase = a.phase
      /\ plugActor'.cmd = a.cmd /\ plugActor'.busy = a.busy
  BY <1>2 DEF Actors
<1>4. plugActor'.on = FALSE
  BY <1>2 DEF Actors
<1>5. TokensStay
  BY <1>4 DEF TokensStay, TokenOK, ActorEnds
<1>6. ASSUME NEW p \in PluginIds
      PROVE  /\ plugRecs'[p] \in Records /\ RecordOK(plugRecs'[p])
             /\ plugRecs'[p].known = plugRecs[p].known
  <2>1. PICK old \in Records : old = plugRecs[p]
    BY DEF PluginInv, Typed
  <2>2. PICK none \in [gen : Nat, hook : BOOLEAN], state \in {"loaded", "unloaded", "error"} :
           none = NoRuntime /\ state = "unloaded"
    BY DEF NoRuntime
  <2>3. PICK r : r = [old EXCEPT !.runtime = none, !.state = state]
    OBVIOUS
  <2>4. r \in Records /\ r.runtime = NoRuntime /\ r.state = "unloaded" /\ r.known = old.known
    BY <2>2, <2>3 DEF Records
  <2>5. RecordOK(r)
    BY <2>4 DEF RecordOK, NoRuntime
  <2>6. plugRecs'[p] = r
    BY <2>1, <2>2, <2>3 DEF ActorEnds
  <2> QED BY <2>1, <2>4, <2>5, <2>6
<1>7. plugRecs' \in [PluginIds -> Records]
  <2>1. plugRecs' = [p \in PluginIds |-> plugRecs'[p]]
    BY DEF ActorEnds
  <2> QED BY <1>6, <2>1
<1>8. RecordInv'
  BY <1>6 DEF RecordInv, ActorEnds, PluginInv
<1>9. plugRev' \in Nat /\ plugAsks' \in Nat /\ plugActor.phase = "idle"
  BY DEF PluginInv, Typed, ActorEnds
<1> QED BY <1>1, <1>3, <1>5, <1>7, <1>8, <1>9, IdleKeeps DEF ActorEnds

-----------------------------------------------------------------------------

LEMMA InitKeeps ==
    ASSUME PluginInit
    PROVE  PluginInv
<1>1. ASSUME NEW p \in PluginIds
      PROVE  /\ plugRecs[p] \in Records /\ RecordOK(plugRecs[p]) /\ plugRecs[p].known
  <2>1. plugRecs[p] = LoadedAs(NewRecord, p, TRUE) /\ p \in Nat \ {0} /\ TRUE \in BOOLEAN
    BY DEF PluginInit, PluginIds
  <2>2. NewRecord \in Records /\ NewRecord.known
    BY NewRecords
  <2>3. PICK new \in Records : new = NewRecord
    BY <2>2
  <2>4. /\ LoadedAs(new, p, TRUE) \in Records /\ LoadedAs(new, p, TRUE).known
        /\ RecordOK(LoadedAs(new, p, TRUE))
    BY <2>1, <2>2, <2>3, RecordSteps
  <2> QED BY <2>1, <2>3, <2>4
<1>2. plugRecs \in [PluginIds -> Records]
  BY <1>1 DEF PluginInit
<1>3. RecordInv
  BY <1>1 DEF RecordInv
<1>4. plugQueue = <<>> /\ plugQueue \in Seq(Commands) /\ Len(plugQueue) <= QueueCapacity
  BY NumbersTyped, EmptySeq DEF PluginInit
<1>5. QueueInv
  BY <1>4 DEF QueueInv
<1>6. plugCalls \in [Callers -> Calls]
  <2>1. {} \in HookSets
    BY DEF HookSets
  <2>2. Quiet \in Calls
    BY <2>1 DEF Quiet, Calls
  <2> QED BY <2>2 DEF PluginInit
<1>7. CallInv
  BY DEF CallInv, PluginInit, Callers, Quiet
<1>8. plugActor \in Actors
  <2>1. NoCommand \in MaybeCommand /\ 0 \in MaybePlugin /\ 0 \in Passes /\ {} \in Contexts
    BY NumbersTyped DEF MaybeCommand, MaybePlugin, Passes, Contexts
  <2>2. plugActor = [on |-> TRUE, phase |-> "idle", cmd |-> NoCommand, todo |-> 0, busy |-> 0,
                     began |-> 0, until |-> 0, ran |-> {}]
    BY DEF PluginInit, IdleActor, NoCommand
  <2> QED BY <2>1, <2>2 DEF Actors
<1>9. ActorInv
  BY DEF ActorInv, PluginInit, IdleActor, NoCommand
<1>10. plugRev \in Nat /\ plugNextGen \in Nat \ {0} /\ plugNow \in Nat /\ plugAsks \in Nat
       /\ plugStop \in BOOLEAN /\ plugFiles \subseteq PluginIds
  <2>1. plugRev \in Nat /\ plugNow \in Nat /\ plugAsks \in Nat
    BY DEF PluginInit
  <2>2. plugNextGen \in Nat \ {0}
    BY NumbersTyped DEF PluginInit
  <2>3. plugStop \in BOOLEAN /\ plugFiles \subseteq PluginIds
    BY DEF PluginInit
  <2> QED BY <2>1, <2>2, <2>3
<1> QED BY <1>2, <1>3, <1>4, <1>5, <1>6, <1>7, <1>8, <1>9, <1>10 DEF PluginInv, Typed

LEMMA StutterKeeps ==
    ASSUME PluginInv, UNCHANGED plugVars
    PROVE  PluginInv'
<1> USE DEF PluginInv, plugVars
<1>1. TokensStay
  BY SteadyTokens DEF Loading
<1>2. QueueInv' /\ CallInv' /\ ActorInv' /\ RecordInv'
  BY <1>1, QueueStays, CallsStay, ActorRests DEF CallsKept, RecordInv
<1>3. Typed'
  BY DEF Typed
<1> QED BY <1>2, <1>3

LEMMA NextKeeps ==
    ASSUME PluginInv, [PluginNext]_plugVars
    PROVE  PluginInv'
<1>1. CASE AskToken \/ RunHookChecked \/ RunHookBestEffort
  BY <1>1, AskTokenKeeps, RunHookCheckedKeeps, RunHookBestEffortKeeps
<1>2. CASE \/ AskReloadAll \/ AskSnapshot \/ PressButton
           \/ \E p \in PluginIds : AskReload(p) \/ AskUnload(p)
  BY <1>2, UserAsksKeep
<1>3. CASE \E c \in Callers : GiveUp(c)
  BY <1>3, GiveUpKeeps
<1>4. CASE Receive
  BY <1>4, ReceiveKeeps
<1>5. CASE HandleToken \/ HandleSnapshot \/ HandleButton
  BY <1>5, HandleTokenKeeps, HandleSnapshotKeeps, HandleButtonKeeps
<1>6. CASE TokenStale \/ HookStep \/ HookOutOfBudget \/ HookDone
  BY <1>6, HookEndsKeep, HookStepKeeps, HookDoneKeeps
<1>7. CASE CallbackReturns \/ CallbackFails
  BY <1>7, CallbackReturnsKeeps, CallbackFailsKeeps
<1>8. CASE HandleUnload \/ HandleReload \/ ReloadAllStep
  BY <1>8, HandleUnloadKeeps, HandleReloadKeeps, ReloadAllStepKeeps
<1>9. CASE Discover \/ ReloadAllDone \/ LoadEnds
  BY <1>9, DiscoverKeeps, ReloadAllDoneKeeps, LoadEndsKeeps
<1>10. CASE PumpPoisons \/ ActorEnds
  BY <1>10, PumpPoisonsKeeps, ActorEndsKeeps
<1>11. CASE Shutdown \/ FilesChange \/ PluginTick
  BY <1>11, OutsideKeeps
<1>12. CASE UNCHANGED plugVars
  BY <1>12, StutterKeeps
<1> QED BY <1>1, <1>2, <1>3, <1>4, <1>5, <1>6, <1>7, <1>8, <1>9, <1>10, <1>11, <1>12
        DEF PluginNext

LEMMA InvImplies ==
    ASSUME PluginInv
    PROVE  HooksAndButtonsAreTrue
<1> USE DEF PluginInv
<1>1. PluginTypeOK
  <2>1. plugActor.todo \in 0..PluginCount + 1 /\ plugActor.busy \in 0..PluginCount
    BY DEF Typed, Actors, Passes, MaybePlugin
  <2>2. ASSUME NEW p \in PluginIds
        PROVE  /\ plugRecs[p].state \in {"loaded", "unloaded", "error"}
               /\ HasRuntime(p) <=> plugRecs[p].state = "loaded"
               /\ HasRuntime(p) => plugRecs[p].known /\ plugRecs[p].gen = plugRecs[p].runtime.gen
    BY DEF Typed, Records, RecordInv, RecordOK, HasRuntime
  <2>3. plugFiles \subseteq PluginIds /\ Len(plugQueue) <= QueueCapacity
    BY DEF Typed
  <2> QED BY <2>1, <2>2, <2>3 DEF PluginTypeOK
<1>2. CheckedHookNeverBypassed
  BY DEF CallInv, CheckedHookNeverBypassed
<1>3. LateWorkIsOverrun
  <2> SUFFICES ASSUME plugActor.busy # 0, plugNow >= plugActor.cmd.until
               PROVE  plugNow > plugActor.began + CallbackBudget
    BY DEF LateWorkIsOverrun
  <2>1. plugActor.phase = "handle"
    BY Running
  <2>2. plugActor.began + CallbackBudget <= plugActor.cmd.finishes
    BY <2>1, Handling DEF BusyOK
  <2>3. plugActor.cmd.finishes = plugActor.cmd.until - 1
    BY <2>1, Handling DEF CommandOK
  <2>4. /\ plugNow \in Nat /\ plugActor.began \in Nat
        /\ plugActor.cmd.finishes \in Int /\ plugActor.cmd.until \in Nat
    BY <2>1, Handling DEF Typed, Actors, Commands
  <2> QED BY <2>2, <2>3, <2>4, NumbersTyped
<1>4. ButtonRunsItsOwnCode
  BY Running, Handling DEF ButtonRunsItsOwnCode, BusyOK
<1> QED BY <1>1, <1>2, <1>3, <1>4 DEF HooksAndButtonsAreTrue

\* What plugins/manager.rs promises its callers: through reloads, removals, limits, a full
\* queue and time-outs, a checked hook is never bypassed, only code that outran its own budget
\* runs for a caller that has given up, and a button runs the code it was listed with.
THEOREM HooksAndButtons == PluginSpec => []HooksAndButtonsAreTrue
<1>1. PluginInit => PluginInv
  BY InitKeeps
<1>2. PluginInv /\ [PluginNext]_plugVars => PluginInv'
  BY NextKeeps
<1>3. PluginInv => HooksAndButtonsAreTrue
  BY InvImplies
<1> QED BY <1>1, <1>2, <1>3, PTL DEF PluginSpec
=============================================================================
