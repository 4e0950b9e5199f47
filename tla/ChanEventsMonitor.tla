------------------------- MODULE ChanEventsMonitor -------------------------
(***************************************************************************)
(* The channel events monitor (chanevents/monitor.go): the goroutine that  *)
(* waits for lnd, records lnd's channel state once, then follows lnd's     *)
(* event stream, and prunes the store.  It runs against an lnd whose       *)
(* channels change at any moment, and against a store and a connection     *)
(* whose every call may fail.                                              *)
(*                                                                         *)
(* One step of the monitor is one call that it makes.  The reads that      *)
(* precede a write (GetChannel, GetPeer) are taken together with it: the   *)
(* monitor is the only writer of the store.                                *)
(***************************************************************************)
EXTENDS Integers, Sequences, FiniteSets, SequencesExt

CONSTANTS
  Pubkeys, ChanPoints, Scids, HalfScid, Balances, NoBalance, ResidualLimit,
  Sqlite, MaxInt32, MaxRowId, MaxTime,   \* as in ChanEventsStore
  PeerOf, ScidOf,   \* peer and scid of every channel
  MaxEvents,        \* Config.MaxEvents
  Retention,        \* Config.Retention
  MaxChanges,       \* bound: changes of lnd's channels
  MaxFaults         \* bound: failed calls, broken streams and crashes

ASSUME MonitorAssumption ==
  /\ IsFiniteSet(ChanPoints)
  /\ NoBalance \notin Balances /\ Sqlite \in BOOLEAN
  /\ HalfScid \in Nat \ {0} /\ Scids \subseteq 0..(2 * HalfScid - 1)
  /\ MaxInt32 \in Nat /\ MaxRowId \in Nat /\ MaxTime \in Nat
  /\ PeerOf \in [ChanPoints -> Pubkeys]
  /\ ScidOf \in [ChanPoints -> Scids \ {0}]
  /\ MaxEvents \in Nat /\ Retention \in Nat
  /\ MaxChanges \in Nat /\ MaxFaults \in Nat

VARIABLES
  peers, channels, events, seq, now,   \* the store
  lnd,       \* lnd's channels: [st, bal] per channel point
  stream,    \* lnd's side of the subscription: "never", "up" or "broken"
  buffer,    \* events sent and not yet received
  started,   \* Monitor.started
  quit,      \* Monitor.quit is closed
  ctxDone,   \* the context passed to Start is cancelled
  pc,        \* where monitorLoop is
  back,      \* where pruneEvents returns to
  synced,    \* monitorLoop's local variable
  queue,     \* initialSync's channels of the current list, one task each
  todo,      \* steps left of the current task or event
  lost,      \* history: why a channel's last change did not reach the store
  changes, faults   \* spent bounds

Store == INSTANCE ChanEventsStore
           WITH MaxEventsArgs <- {MaxEvents}, RetentionArgs <- {Retention}

storeVars == <<peers, channels, events, seq, now>>
lndVars   == <<lnd, stream, buffer, lost, changes>>
ctlVars   == <<started, quit, ctxDone>>
loopVars  == <<pc, back, synced, queue, todo>>
vars      == <<storeVars, lndVars, ctlVars, loopVars, faults>>

-----------------------------------------------------------------------------
(* Rows of lnd's answers, and the steps the monitor takes for them. *)

Step(op, c, bal, sync) == [op |-> op, chan |-> c, bal |-> bal, sync |-> sync]

\* initialSync, for a closed channel: register it and mark it offline.
closedTask(c) == <<Step("add", c, NoBalance, TRUE), Step("offline", c, NoBalance, TRUE)>>

\* Mutant of openTask: the update carries no balances.
openTaskNoBalance(c) ==
  <<Step("add", c, NoBalance, TRUE),
    Step(IF lnd[c].st = "active" THEN "online" ELSE "offline", c, NoBalance, TRUE),
    Step("update", c, NoBalance, TRUE)>>

\* initialSync, for an open channel: its status and, active or not, an update.
openTask(c) ==
  <<Step("add", c, NoBalance, TRUE),
    Step(IF lnd[c].st = "active" THEN "online" ELSE "offline", c, NoBalance, TRUE),
    Step("update", c, lnd[c].bal, TRUE)>>

\* Mutants of handleChannelEvent: closings, or updates of known channels, are
\* ignored.
handleEventNotClosed(ev) ==
  CASE ev.kind = "open"     -> <<Step("add", ev.chan, NoBalance, FALSE),
                                 Step("online", ev.chan, NoBalance, FALSE),
                                 Step("update", ev.chan, ev.bal, FALSE)>>
    [] ev.kind = "inactive" -> <<Step("offline", ev.chan, NoBalance, FALSE)>>
    [] ev.kind = "active"   -> <<Step("online", ev.chan, NoBalance, FALSE)>>
    [] ev.kind = "update"   -> <<Step("update", ev.chan, ev.bal, FALSE)>>
    [] ev.kind \in {"pending", "closed"} -> <<>>

handleEventNotUpdate(ev) ==
  CASE ev.kind = "open"     -> <<Step("add", ev.chan, NoBalance, FALSE),
                                 Step("online", ev.chan, NoBalance, FALSE),
                                 Step("update", ev.chan, ev.bal, FALSE)>>
    [] ev.kind \in {"closed", "inactive"} -> <<Step("offline", ev.chan, NoBalance, FALSE)>>
    [] ev.kind = "active"   -> <<Step("online", ev.chan, NoBalance, FALSE)>>
    [] ev.kind \in {"pending", "update"} -> <<>>

\* handleChannelEvent, by the kind of the update.
handleChannelEvent(ev) ==
  CASE ev.kind = "open"    -> <<Step("add", ev.chan, NoBalance, FALSE),
                                Step("online", ev.chan, NoBalance, FALSE),
                                Step("update", ev.chan, ev.bal, FALSE)>>
    [] ev.kind \in {"closed", "inactive"} -> <<Step("offline", ev.chan, NoBalance, FALSE)>>
    [] ev.kind = "active"  -> <<Step("online", ev.chan, NoBalance, FALSE)>>
    [] ev.kind = "update"  -> <<Step("update", ev.chan, ev.bal, FALSE)>>
    [] ev.kind = "pending" -> <<>>

\* The tasks of a list of channels, which lnd gives in any order.
Tasks(task) ==
  {[i \in DOMAIN order |-> task[order[i]]] : order \in SetToSeqs(DOMAIN task)}

Closed == {c \in ChanPoints : lnd[c].st = "closed"}
Open   == {c \in ChanPoints : lnd[c].st \in {"active", "inactive"}}

\* The steps and the events there are.
Steps ==
  [op : {"add", "online", "offline"}, chan : ChanPoints, bal : {NoBalance}, sync : BOOLEAN]
    \cup [op : {"update"}, chan : ChanPoints, bal : Balances, sync : BOOLEAN]

LndEvents ==
  [kind : {"open", "closed", "inactive", "active", "update", "pending"},
   chan : ChanPoints, bal : Balances]

-----------------------------------------------------------------------------
(* lnd (external).  A channel is pending, then either abandoned before it    *)
(* confirms (it then has no channel id) or opened; it is reported open once   *)
(* usable.  Balances only move on an active channel.                         *)

Report(c, kind) ==
  IF stream = "up"
  THEN /\ buffer' = Append(buffer, [kind |-> kind, chan |-> c, bal |-> lnd'[c].bal])
       /\ UNCHANGED lost
  ELSE /\ lost' = [lost EXCEPT ![c] = IF stream = "broken" THEN "broken" ELSE "startup"]
       /\ UNCHANGED buffer

LndChange(c, from, to, kind) ==
  /\ changes < MaxChanges
  /\ changes' = changes + 1
  /\ lnd[c].st \in from
  /\ \E bal \in Balances :
       /\ kind \notin {"open", "update"} => bal = lnd[c].bal
       /\ kind = "update" => bal # lnd[c].bal
       /\ lnd' = [lnd EXCEPT ![c] = [st |-> to, bal |-> bal]]
  /\ Report(c, kind)
  /\ UNCHANGED <<storeVars, stream, ctlVars, loopVars, faults>>

LndOpen(c)     == LndChange(c, {"pending"}, "active", "open")
LndAbandon(c)  == LndChange(c, {"pending"}, "abandoned", "pending")
LndActive(c)   == LndChange(c, {"inactive"}, "active", "active")
LndInactive(c) == LndChange(c, {"active"}, "inactive", "inactive")
LndUpdate(c)   == LndChange(c, {"active"}, "active", "update")
LndClose(c)    == LndChange(c, {"active", "inactive"}, "closed", "closed")

StreamBreaks ==
  /\ stream = "up"
  /\ faults < MaxFaults /\ faults' = faults + 1
  /\ stream' = "broken"
  /\ UNCHANGED <<storeVars, lnd, buffer, lost, changes, ctlVars, loopVars>>

ClockTick ==
  /\ Store!Tick
  /\ UNCHANGED <<lndVars, ctlVars, loopVars, faults>>

-----------------------------------------------------------------------------
(* Start, Stop and the process. *)

Start ==
  /\ pc \in {"idle", "done"} /\ ~started /\ ~ctxDone
  /\ pc = "done" => faults < MaxFaults   \* bounds the number of restarts
  /\ faults' = IF pc = "done" THEN faults + 1 ELSE faults
  /\ started' = TRUE /\ quit' = FALSE
  /\ pc' = "ready" /\ back' = "stream" /\ synced' = FALSE
  /\ queue' = <<>> /\ todo' = <<>>
  /\ UNCHANGED <<storeVars, lndVars, ctxDone>>

\* Stop closes quit and then waits for the loop: it returns at pc = "done".
Stop ==
  /\ started
  /\ started' = FALSE /\ quit' = TRUE
  /\ UNCHANGED <<storeVars, lndVars, ctxDone, loopVars, faults>>

CancelCtx ==
  /\ ~ctxDone
  /\ ctxDone' = TRUE
  /\ UNCHANGED <<storeVars, lndVars, started, quit, loopVars, faults>>

\* Channels with an event sent and not received, or with work left to do.
Unread == {c \in ChanPoints : \E i \in DOMAIN buffer : buffer[i].chan = c}
Outstanding ==
  {c \in ChanPoints : \/ \E i \in DOMAIN todo : todo[i].chan = c
                      \/ \E i \in DOMAIN queue : Head(queue[i]).chan = c}

\* The connection goes with the process or the loop; what was sent is lost.

DropStream(status) ==
  /\ stream' = status
  /\ buffer' = <<>>
  /\ lost' = [c \in ChanPoints |-> IF c \in Unread THEN "broken" ELSE lost[c]]
  /\ UNCHANGED <<lnd, changes>>

\* A crash keeps the database and nothing else.  The rest of a task is lost
\* with it.
Crash ==
  /\ pc \notin {"idle", "done"}
  /\ faults < MaxFaults /\ faults' = faults + 1
  /\ pc' = "idle" /\ started' = FALSE /\ quit' = FALSE /\ ctxDone' = FALSE
  /\ queue' = <<>> /\ todo' = <<>> /\ synced' = FALSE /\ back' = "stream"
  /\ stream' = "never" /\ buffer' = <<>>
  /\ lost' = [c \in ChanPoints |->
       IF c \in Unread \cup Outstanding THEN "broken" ELSE lost[c]]
  /\ UNCHANGED <<storeVars, lnd, changes>>

-----------------------------------------------------------------------------
(* monitorLoop.  A call fails when the context is done, or by a fault. *)

Ending == quit \/ ctxDone

CallFails ==
  \/ ctxDone /\ UNCHANGED faults
  \/ ~ctxDone /\ faults < MaxFaults /\ faults' = faults + 1

Exit ==
  /\ pc' = "done"
  /\ DropStream("never")
  /\ UNCHANGED <<storeVars, ctlVars, back, synced, queue, todo, faults>>

\* waitForReady: GetInfo is called before quit is looked at, and polled until
\* it reports a synced lnd.
LndReady ==
  /\ pc = "ready" /\ ~ctxDone
  /\ pc' = IF synced THEN "subscribe" ELSE "sync"
  /\ UNCHANGED <<storeVars, lndVars, ctlVars, back, synced, queue, todo, faults>>

LndNotReady == pc = "ready" /\ Ending /\ Exit

ListDone == queue = <<>> /\ todo = <<>>

\* initialSync, first list.  Closed channels that never confirmed are skipped.
ClosedChannels ==
  /\ pc = "sync" /\ ~ctxDone
  /\ pc' = "closed"
  /\ queue' \in Tasks([c \in Closed |-> closedTask(c)])
  /\ lost' = [c \in ChanPoints |-> IF c \in Closed THEN "no" ELSE lost[c]]
  /\ UNCHANGED <<storeVars, lnd, stream, buffer, changes, ctlVars, back, synced, todo, faults>>

\* initialSync, second list.
ListChannels ==
  /\ pc = "closed" /\ ListDone /\ ~ctxDone
  /\ pc' = "listed"
  /\ queue' \in Tasks([c \in Open |-> openTask(c)])
  /\ lost' = [c \in ChanPoints |-> IF c \in Open THEN "no" ELSE lost[c]]
  /\ UNCHANGED <<storeVars, lnd, stream, buffer, changes, ctlVars, back, synced, todo, faults>>

\* Either list fails: initialSync returns the error, which is only logged.
ListFails ==
  /\ pc = "sync" \/ (pc = "closed" /\ ListDone)
  /\ CallFails
  /\ pc' = "subscribe"
  /\ UNCHANGED <<storeVars, lndVars, ctlVars, back, synced, queue, todo>>

\* initialSync checks the context before every channel.
NextChannel ==
  /\ queue # <<>> /\ todo = <<>> /\ ~ctxDone
  /\ todo' = Head(queue) /\ queue' = Tail(queue)
  /\ UNCHANGED <<storeVars, lndVars, ctlVars, pc, back, synced, faults>>

SyncAborts ==
  /\ queue # <<>> /\ todo = <<>> /\ ctxDone
  /\ pc' = "subscribe" /\ queue' = <<>>
  /\ lost' = [c \in ChanPoints |-> IF c \in Outstanding THEN "failed" ELSE lost[c]]
  /\ UNCHANGED <<storeVars, lnd, stream, buffer, changes, ctlVars, back, synced, todo, faults>>

SyncDone ==
  /\ pc = "listed" /\ ListDone
  /\ synced' = TRUE /\ pc' = "pruneSize" /\ back' = "subscribe"
  /\ UNCHANGED <<storeVars, lndVars, ctlVars, queue, todo, faults>>

\* Mutant of addChannel: a new channel of a new peer is added without the peer.
addChannelNoPeer(c) ==
  \/ /\ Store!GetChannel(c) # {}
     /\ todo' = Tail(todo)
     /\ UNCHANGED storeVars
  \/ /\ Store!GetChannel(c) = {}
     /\ channels' = channels \cup
          {[point |-> c, scid |-> Store!scidToInt64(ScidOf[c]), peer |-> PeerOf[c]]}
     /\ todo' = Tail(todo)
     /\ UNCHANGED <<peers, events, seq, now>>

\* addChannel: nothing to do for a known channel; else its peer, if new, and
\* the channel.
addChannel(c) ==
  \/ /\ Store!GetChannel(c) # {}
     /\ todo' = Tail(todo)
     /\ UNCHANGED storeVars
  \/ /\ Store!GetChannel(c) = {} /\ PeerOf[c] \notin peers
     /\ Store!AddPeer(PeerOf[c])
     /\ UNCHANGED todo
  \/ /\ Store!GetChannel(c) = {} /\ PeerOf[c] \in peers
     /\ Store!AddChannel(c, ScidOf[c], PeerOf[c])
     /\ todo' = Tail(todo)

RunStep ==
  /\ todo # <<>> /\ ~ctxDone
  /\ LET s == Head(todo)
     IN  \/ s.op = "add" /\ addChannel(s.chan)
         \/ s.op # "add" /\ Store!AddChannelEvent(s.chan, s.op, s.bal) /\ todo' = Tail(todo)
  /\ UNCHANGED <<lndVars, ctlVars, pc, back, synced, queue, faults>>

\* An error gives up the channel (or the live event), except that a status
\* event of a sync that cannot be written does not keep the update from being
\* written.
StepFails ==
  /\ todo # <<>>
  /\ CallFails
  /\ \/ todo' = <<>>
     \/ Head(todo).op # "add" /\ Head(todo).sync /\ todo' = Tail(todo)
  /\ lost' = [lost EXCEPT ![Head(todo).chan] = "failed"]
  /\ UNCHANGED <<storeVars, lnd, stream, buffer, changes, ctlVars, pc, back, synced, queue>>

\* An event for a channel the store does not know is an error of its own.
UnknownChannel ==
  /\ todo # <<>> /\ Head(todo).op # "add"
  /\ Store!GetChannel(Head(todo).chan) = {}
  /\ todo' = <<>>
  /\ UNCHANGED <<storeVars, lndVars, ctlVars, pc, back, synced, queue, faults>>

\* pruneEvents: the size limit first; an error there skips the age limit.
PruneSize ==
  /\ pc = "pruneSize"
  /\ \/ MaxEvents = 0 /\ pc' = "pruneAge" /\ UNCHANGED <<storeVars, faults>>
     \/ ~ctxDone /\ Store!PruneBySize(MaxEvents) /\ pc' = "pruneAge" /\ UNCHANGED faults
     \/ /\ MaxEvents > 0 /\ pc' = back /\ UNCHANGED storeVars
        /\ IF MaxEvents > MaxInt32 THEN UNCHANGED faults ELSE CallFails
  /\ UNCHANGED <<lndVars, ctlVars, back, synced, queue, todo>>

PruneAge ==
  /\ pc = "pruneAge"
  /\ pc' = back
  /\ \/ Retention = 0 /\ UNCHANGED <<storeVars, faults>>
     \/ ~ctxDone /\ Store!PruneByAge(MaxEvents, Retention) /\ UNCHANGED faults
     \/ Retention > 0 /\ CallFails /\ UNCHANGED storeVars
  /\ UNCHANGED <<lndVars, ctlVars, back, synced, queue, todo>>

Subscribe ==
  /\ pc = "subscribe" /\ ~ctxDone
  /\ pc' = "stream" /\ stream' = "up"
  /\ UNCHANGED <<storeVars, lnd, buffer, lost, changes, ctlVars, back, synced, queue, todo, faults>>

SubscribeFails ==
  /\ pc = "subscribe"
  /\ CallFails
  /\ pc' = "retry"
  /\ UNCHANGED <<storeVars, lndVars, ctlVars, back, synced, queue, todo>>

\* The select of subscribe, one action per case.
Selecting == pc = "stream" /\ todo = <<>>

Receive ==
  /\ Selecting /\ buffer # <<>>
  /\ todo' = handleChannelEvent(Head(buffer))
  /\ buffer' = Tail(buffer)
  /\ UNCHANGED <<storeVars, lnd, stream, lost, changes, ctlVars, pc, back, synced, queue, faults>>

PruneTick ==
  /\ Selecting /\ (MaxEvents > 0 \/ Retention > 0)
  /\ pc' = "pruneSize" /\ back' = "stream"
  /\ UNCHANGED <<storeVars, lndVars, ctlVars, synced, queue, todo, faults>>

\* Mutant of StreamEnds: a broken stream ends the loop.
StreamEndsLoop == Selecting /\ stream = "broken" /\ Exit

StreamEnds ==
  /\ Selecting /\ stream = "broken"
  /\ pc' = "retry"
  /\ DropStream("broken")
  /\ UNCHANGED <<storeVars, ctlVars, back, synced, queue, todo, faults>>

\* Mutant of QuitStream: the select lacks its quit case.
QuitStreamCtxOnly == Selecting /\ ctxDone /\ Exit

QuitStream == Selecting /\ Ending /\ Exit

\* The wait before reconnecting.
Retry ==
  /\ pc = "retry"
  /\ pc' = "ready"
  /\ UNCHANGED <<storeVars, lndVars, ctlVars, back, synced, queue, todo, faults>>

QuitRetry == pc = "retry" /\ Ending /\ Exit

-----------------------------------------------------------------------------

Init ==
  /\ Store!Init
  /\ lnd \in [ChanPoints -> [st : {"pending", "active", "inactive", "closed"}, bal : Balances]]
  /\ stream = "never" /\ buffer = <<>>
  /\ started = FALSE /\ quit = FALSE /\ ctxDone = FALSE
  /\ pc = "idle" /\ back = "stream" /\ synced = FALSE
  /\ queue = <<>> /\ todo = <<>>
  /\ lost = [c \in ChanPoints |-> IF lnd[c].st = "pending" THEN "no" ELSE "startup"]
  /\ changes = 0 /\ faults = 0

Lnd ==
  \/ \E c \in ChanPoints : \/ LndOpen(c) \/ LndAbandon(c) \/ LndActive(c)
                           \/ LndInactive(c) \/ LndUpdate(c) \/ LndClose(c)
  \/ StreamBreaks

Loop ==
  \/ LndReady \/ LndNotReady
  \/ ClosedChannels \/ ListChannels \/ ListFails
  \/ NextChannel \/ SyncAborts \/ SyncDone
  \/ RunStep \/ StepFails \/ UnknownChannel
  \/ PruneSize \/ PruneAge
  \/ Subscribe \/ SubscribeFails
  \/ Receive \/ PruneTick \/ StreamEnds \/ QuitStream
  \/ Retry \/ QuitRetry

Next == Lnd \/ ClockTick \/ Start \/ Stop \/ CancelCtx \/ Crash \/ Loop

\* The goroutine keeps running; Go's select picks at random among the cases
\* that are ready, so a case that is ready again and again is taken.
Fairness ==
  /\ WF_vars(Loop)
  /\ SF_vars(Receive) /\ SF_vars(StreamEnds) /\ SF_vars(QuitStream) /\ SF_vars(QuitRetry)

Spec == Init /\ [][Next]_vars
FairSpec == Spec /\ Fairness

-----------------------------------------------------------------------------
(* Properties. *)

ChannelStates == {"pending", "abandoned", "active", "inactive", "closed"}

TypeOK ==
  /\ Store!TypeOK
  /\ lnd \in [ChanPoints -> [st : ChannelStates, bal : Balances]]
  /\ stream \in {"never", "up", "broken"}
  /\ pc \in {"idle", "ready", "sync", "closed", "listed", "pruneSize", "pruneAge",
             "subscribe", "stream", "retry", "done"}
  /\ back \in {"subscribe", "stream"}
  /\ todo \in Seq(Steps) /\ queue \in Seq(Seq(Steps)) /\ buffer \in Seq(LndEvents)
  /\ {started, quit, ctxDone, synced} \subseteq BOOLEAN
  /\ lost \in [ChanPoints -> {"no", "startup", "broken", "failed"}]
  /\ changes \in 0..MaxChanges /\ faults \in 0..MaxFaults

Quiescent == Selecting /\ buffer = <<>> /\ stream = "up"

\* The newest recorded row of a channel among those of some types.
Newest(c, types) ==
  Store!LastOf({e \in events : e.chan = c /\ e.type \in types})

Registered(c) == Store!GetChannel(c) # {}

\* Once the monitor has nothing left to do, every channel whose changes all
\* reached it is in the store, unless it never confirmed, and its newest
\* online or offline row (if the prunes left one) is lnd's status.
StatusTracks(c) ==
  /\ Registered(c) <=> lnd[c].st \in {"active", "inactive", "closed"}
  /\ \A e \in Newest(c, {"online", "offline"}) :
       e.type = "online" <=> lnd[c].st = "active"

StatusTracksLnd ==
  Quiescent => \A c \in ChanPoints : lost[c] = "no" => StatusTracks(c)

\* ... and its newest update row carries lnd's balances.
BalanceTracksLnd ==
  Quiescent => \A c \in ChanPoints : (lost[c] = "no" /\ c \in Open) =>
    \A e \in Newest(c, {"update"}) : e.bal = lnd[c].bal

\* Every step of the monitor and of lnd is a step of the store, or leaves the
\* store alone.
ImplementsStore == Store!Spec

\* A started monitor that is left alone gets to follow the stream with nothing
\* outstanding, however the faults before fell.
CatchesUp == started ~> (Quiescent \/ Ending \/ pc = "idle")

\* After Stop or a cancelled context the loop ends, so Stop returns.
StopTerminates == Ending ~> (pc \in {"idle", "done"})

\* What initialSync promises: "even though individual events are lost, the
\* latest state is captured as a baseline", as the analyzer reads it.
BaselineCaptured ==
  Quiescent => \A c \in ChanPoints : lost[c] = "no" =>
    LET st == Store!getInitialChannelState(events, c, now + 1)
    IN  st.bal # NoBalance => (st.online <=> lnd[c].st = "active")
=============================================================================
