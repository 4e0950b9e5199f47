---------------------- MODULE ChanEventsMonitorProofs ----------------------
(***************************************************************************)
(* Proofs about ChanEventsMonitor, for every finite set of channels and    *)
(* every bound.  Whatever lnd, the connection and the database do, the     *)
(* monitor only drives the store through the store's own operations, and   *)
(* once it has nothing left to do, the newest rows of a channel say what   *)
(* lnd says of it, unless the channel's last change was lost.              *)
(***************************************************************************)
EXTENDS ChanEventsMonitor, FiniteSetTheorems, SequenceTheorems, TLAPS

ChannelStatesOf == [ChanPoints -> [st : ChannelStates, bal : Balances]]

\* The inductive invariant: what lnd reports and what is still to be written
\* is well formed, so that every write is one the store accepts.
WorkOK ==
  /\ lnd \in ChannelStatesOf
  /\ buffer \in Seq(LndEvents)
  /\ todo \in Seq(Steps)
  /\ queue \in Seq(Seq(Steps))

-----------------------------------------------------------------------------
(* What the operators return. *)

\* A function on 1..n is a sequence.
LEMMA FunctionIsSeq ==
  ASSUME NEW T, NEW n \in Nat, NEW f \in [1..n -> T]
  PROVE  f \in Seq(T)
OBVIOUS

\* Append, Head and Tail stay within the sequences of a set.
LEMMA SeqOps ==
  ASSUME NEW T, NEW s \in Seq(T)
  PROVE  /\ <<>> \in Seq(T)
         /\ \A x \in T : Append(s, x) \in Seq(T)
         /\ s # <<>> => Head(s) \in T /\ Tail(s) \in Seq(T)
OBVIOUS

\* The writes the monitor makes are well-formed steps.
LEMMA StepType ==
  ASSUME NEW c \in ChanPoints, NEW sync \in BOOLEAN
  PROVE  /\ \A op \in {"add", "online", "offline"} : Step(op, c, NoBalance, sync) \in Steps
         /\ \A bal \in Balances : Step("update", c, bal, sync) \in Steps
BY DEF Step, Steps

\* Tuples of up to three elements are sequences.
LEMMA SeqTypes ==
  ASSUME NEW T, NEW x \in T, NEW y \in T, NEW z \in T
  PROVE  <<x>> \in Seq(T) /\ <<x, y>> \in Seq(T) /\ <<x, y, z>> \in Seq(T)
OBVIOUS

\* What initialSync does for a closed channel is a sequence of writes.
LEMMA ClosedTaskType ==
  ASSUME NEW c \in ChanPoints
  PROVE  closedTask(c) \in Seq(Steps)
<1>1. Step("add", c, NoBalance, TRUE) \in Steps /\ Step("offline", c, NoBalance, TRUE) \in Steps
  BY StepType
<1>2. QED BY <1>1, SeqTypes DEF closedTask

\* What initialSync does for an open channel is a sequence of writes.
LEMMA OpenTaskType ==
  ASSUME WorkOK, NEW c \in ChanPoints
  PROVE  openTask(c) \in Seq(Steps)
<1>1. lnd[c].bal \in Balances
  BY DEF WorkOK, ChannelStatesOf
<1> DEFINE op == IF lnd[c].st = "active" THEN "online" ELSE "offline"
<1>2. op \in {"add", "online", "offline"}
  OBVIOUS
<1>3. openTask(c) = <<Step("add", c, NoBalance, TRUE), Step(op, c, NoBalance, TRUE),
                      Step("update", c, lnd[c].bal, TRUE)>>
  BY DEF openTask
<1> HIDE DEF op
<1>4. /\ Step("add", c, NoBalance, TRUE) \in Steps
      /\ Step(op, c, NoBalance, TRUE) \in Steps
      /\ Step("update", c, lnd[c].bal, TRUE) \in Steps
  BY <1>1, <1>2, StepType
<1>5. QED BY <1>3, <1>4, SeqTypes

\* What handleChannelEvent does with any event is a sequence of writes.
LEMMA HandlerType ==
  ASSUME NEW ev \in LndEvents
  PROVE  handleChannelEvent(ev) \in Seq(Steps)
<1>1. ev.chan \in ChanPoints /\ ev.bal \in Balances
  BY DEF LndEvents
<1>2. ev.kind \in {"open", "closed", "inactive", "active", "update", "pending"}
  BY DEF LndEvents
<1>3. /\ Step("add", ev.chan, NoBalance, FALSE) \in Steps
      /\ Step("online", ev.chan, NoBalance, FALSE) \in Steps
      /\ Step("offline", ev.chan, NoBalance, FALSE) \in Steps
      /\ Step("update", ev.chan, ev.bal, FALSE) \in Steps
  BY <1>1, StepType
<1>4. CASE ev.kind = "open"
  BY <1>3, <1>4, SeqTypes DEF handleChannelEvent
<1>5. CASE ev.kind \in {"closed", "inactive"}
  BY <1>3, <1>5, SeqTypes DEF handleChannelEvent
<1>6. CASE ev.kind = "active"
  BY <1>3, <1>6, SeqTypes DEF handleChannelEvent
<1>7. CASE ev.kind = "update"
  BY <1>3, <1>7, SeqTypes DEF handleChannelEvent
<1>8. CASE ev.kind = "pending"
  BY <1>8 DEF handleChannelEvent
<1>9. QED BY <1>2, <1>4, <1>5, <1>6, <1>7, <1>8

\* A list of tasks, whatever the order lnd lists the channels in.
LEMMA TasksType ==
  ASSUME NEW S, S \subseteq ChanPoints, NEW task \in [S -> Seq(Steps)]
  PROVE  Tasks(task) \subseteq Seq(Seq(Steps))
<1> SUFFICES ASSUME NEW order \in SetToSeqs(S)
             PROVE  [i \in DOMAIN order |-> task[order[i]]] \in Seq(Seq(Steps))
  BY DEF Tasks
<1>1. IsFiniteSet(S)
  BY MonitorAssumption, FS_Subset
<1>2. Cardinality(S) \in Nat
  BY <1>1, FS_CardinalityType
<1>3. order \in [1..Cardinality(S) -> S]
  BY DEF SetToSeqs
<1>4. [i \in 1..Cardinality(S) |-> task[order[i]]] \in [1..Cardinality(S) -> Seq(Steps)]
  BY <1>3
<1>5. QED BY <1>2, <1>3, <1>4, FunctionIsSeq

-----------------------------------------------------------------------------
(* The invariant is inductive. *)

\* lnd keeps its reports well formed.
LEMMA LndWorkOK ==
  ASSUME WorkOK, Lnd
  PROVE  WorkOK'
<1>1. ASSUME NEW c \in ChanPoints, NEW from, NEW to \in ChannelStates,
             NEW kind \in {"open", "closed", "inactive", "active", "update", "pending"},
             LndChange(c, from, to, kind)
      PROVE  WorkOK'
  <2>1. lnd' \in ChannelStatesOf
    BY <1>1 DEF LndChange, WorkOK, ChannelStatesOf
  <2>2. buffer' \in Seq(LndEvents)
    <3>1. lnd'[c].bal \in Balances
      BY <2>1 DEF ChannelStatesOf
    <3>2. [kind |-> kind, chan |-> c, bal |-> lnd'[c].bal] \in LndEvents
      BY <3>1 DEF LndEvents
    <3>3. CASE stream = "up"
      <4>1. buffer' = Append(buffer, [kind |-> kind, chan |-> c, bal |-> lnd'[c].bal])
        BY <1>1, <3>3 DEF LndChange, Report
      <4>2. QED BY <3>2, <4>1, SeqOps DEF WorkOK
    <3>4. CASE stream # "up"
      BY <1>1, <3>4 DEF LndChange, Report, WorkOK
    <3>5. QED BY <3>3, <3>4
  <2>3. QED BY <1>1, <2>1, <2>2 DEF LndChange, WorkOK, loopVars
<1>2. CASE StreamBreaks
  BY <1>2 DEF StreamBreaks, WorkOK, loopVars
<1>3. QED
  BY <1>1, <1>2 DEF Lnd, LndOpen, LndAbandon, LndActive, LndInactive, LndUpdate,
     LndClose, ChannelStates

\* Every turn of monitorLoop keeps the pending work well formed.
LEMMA LoopWorkOK ==
  ASSUME WorkOK, Loop
  PROVE  WorkOK'
<1> USE DEF WorkOK
<1>a. <<>> \in Seq(Steps) /\ <<>> \in Seq(Seq(Steps)) /\ <<>> \in Seq(LndEvents)
  BY SeqOps
<1>b. todo # <<>> => Tail(todo) \in Seq(Steps)
  BY SeqOps
<1>c. queue # <<>> => Head(queue) \in Seq(Steps) /\ Tail(queue) \in Seq(Seq(Steps))
  BY SeqOps
<1>d. buffer # <<>> => Head(buffer) \in LndEvents /\ Tail(buffer) \in Seq(LndEvents)
  BY SeqOps
<1>1. CASE LndReady \/ SyncDone \/ PruneSize \/ PruneAge \/ Subscribe \/ SubscribeFails
           \/ PruneTick \/ Retry \/ ListFails
  BY <1>1 DEF LndReady, SyncDone, PruneSize, PruneAge, Subscribe, SubscribeFails,
     PruneTick, Retry, ListFails, lndVars
<1>2. CASE LndNotReady \/ QuitStream \/ QuitRetry \/ StreamEnds
  BY <1>2, <1>a DEF LndNotReady, QuitStream, QuitRetry, StreamEnds, Exit, DropStream
<1>3. CASE ClosedChannels
  <2>1. Tasks([c \in Closed |-> closedTask(c)]) \subseteq Seq(Seq(Steps))
    <3>1. Closed \subseteq ChanPoints BY DEF Closed
    <3>2. [c \in Closed |-> closedTask(c)] \in [Closed -> Seq(Steps)]
      BY <3>1, ClosedTaskType
    <3>3. QED BY <3>1, <3>2, TasksType
  <2>2. QED BY <1>3, <2>1 DEF ClosedChannels
<1>4. CASE ListChannels
  <2>1. Tasks([c \in Open |-> openTask(c)]) \subseteq Seq(Seq(Steps))
    <3>1. Open \subseteq ChanPoints BY DEF Open
    <3>2. [c \in Open |-> openTask(c)] \in [Open -> Seq(Steps)]
      BY <3>1, OpenTaskType
    <3>3. QED BY <3>1, <3>2, TasksType
  <2>2. QED BY <1>4, <2>1 DEF ListChannels
<1>5. CASE NextChannel \/ SyncAborts
  BY <1>5, <1>a, <1>c DEF NextChannel, SyncAborts, lndVars
<1>6. CASE RunStep \/ StepFails \/ UnknownChannel
  BY <1>6, <1>a, <1>b DEF RunStep, addChannel, StepFails, UnknownChannel, lndVars
<1>7. CASE Receive
  <2>1. Head(buffer) \in LndEvents /\ buffer' \in Seq(LndEvents)
    BY <1>7, <1>d DEF Receive
  <2>2. todo' \in Seq(Steps)
    BY <1>7, <2>1, HandlerType DEF Receive
  <2>3. QED BY <1>7, <2>1, <2>2 DEF Receive
<1>8. QED BY <1>1, <1>2, <1>3, <1>4, <1>5, <1>6, <1>7 DEF Loop

\* Every step keeps the pending work well formed.
LEMMA NextWorkOK ==
  ASSUME WorkOK, [Next]_vars
  PROVE  WorkOK'
<1>1. CASE ClockTick \/ Start \/ Stop \/ CancelCtx \/ Crash
  <2>1. <<>> \in Seq(Steps) /\ <<>> \in Seq(Seq(Steps)) /\ <<>> \in Seq(LndEvents)
    BY SeqOps DEF WorkOK
  <2>2. QED
    BY <1>1, <2>1 DEF ClockTick, Start, Stop, CancelCtx, Crash, WorkOK, lndVars, loopVars
<1>2. CASE UNCHANGED vars
  BY <1>2 DEF vars, WorkOK, lndVars, loopVars
<1>3. QED BY <1>1, <1>2, LndWorkOK, LoopWorkOK DEF Next

\* The pending work of the monitor is always well formed.
LEMMA WorkInvariance == Spec => []WorkOK
<1>1. Init => WorkOK
  BY DEF Init, WorkOK, ChannelStatesOf, ChannelStates
<1>2. WorkOK /\ [Next]_vars => WorkOK' BY NextWorkOK
<1>3. QED BY <1>1, <1>2, PTL DEF Spec

-----------------------------------------------------------------------------
(* The refinement. *)

\* The monitor's write is a write of the store, or none.
LEMMA RunStepRefines ==
  ASSUME WorkOK, RunStep
  PROVE  Store!Next \/ UNCHANGED Store!vars
<1> DEFINE s == Head(todo)
<1>1. s \in Steps
  BY DEF RunStep, WorkOK
<1>2. s.chan \in ChanPoints
  BY <1>1 DEF Steps
<1>3. CASE s.op = "add"
  <2>1. addChannel(s.chan)
    BY <1>3 DEF RunStep
  <2>2. PeerOf[s.chan] \in Pubkeys /\ ScidOf[s.chan] \in Scids
    BY <1>2, MonitorAssumption
  <2>3. QED
    BY <2>1, <2>2, <1>2 DEF addChannel, Store!Next, Store!vars, storeVars
<1>4. CASE s.op # "add"
  <2>1. Store!AddChannelEvent(s.chan, s.op, s.bal)
    BY <1>4 DEF RunStep
  <2>2. \/ s.op \in {"online", "offline"} /\ s.bal = NoBalance
        \/ s.op = "update" /\ s.bal \in Balances
    BY <1>1, <1>4 DEF Steps
  <2>3. Store!AddAnyEvent
    BY <1>2, <2>1, <2>2 DEF Store!AddAnyEvent
  <2>4. QED BY <2>3 DEF Store!Next
<1>5. QED BY <1>3, <1>4

\* Every step of the monitor is a step of the store, or leaves it alone.
LEMMA StepRefines ==
  ASSUME WorkOK, [Next]_vars
  PROVE  Store!Next \/ UNCHANGED Store!vars
<1>1. CASE Lnd
  BY <1>1 DEF Lnd, LndOpen, LndAbandon, LndActive, LndInactive, LndUpdate, LndClose,
     LndChange, StreamBreaks, storeVars, Store!vars
<1>2. CASE ClockTick
  BY <1>2 DEF ClockTick, Store!Next
<1>3. CASE Start \/ Stop \/ CancelCtx \/ Crash
  BY <1>3 DEF Start, Stop, CancelCtx, Crash, storeVars, Store!vars
<1>4. CASE PruneSize \/ PruneAge
  <2>1. UNCHANGED storeVars \/ Store!PruneBySize(MaxEvents)
           \/ Store!PruneByAge(MaxEvents, Retention)
    BY <1>4 DEF PruneSize, PruneAge
  <2>2. QED BY <2>1 DEF Store!Next, Store!Prune, storeVars, Store!vars
<1>5. CASE RunStep
  BY <1>5, RunStepRefines
<1>6. CASE LndReady \/ LndNotReady \/ ClosedChannels \/ ListChannels \/ ListFails
           \/ NextChannel \/ SyncAborts \/ SyncDone \/ StepFails \/ UnknownChannel
           \/ Subscribe \/ SubscribeFails \/ Receive \/ PruneTick \/ StreamEnds
           \/ QuitStream \/ Retry \/ QuitRetry
  BY <1>6 DEF LndReady, LndNotReady, ClosedChannels, ListChannels, ListFails,
     NextChannel, SyncAborts, SyncDone, StepFails, UnknownChannel, Subscribe,
     SubscribeFails, Receive, PruneTick, StreamEnds, QuitStream, Retry, QuitRetry,
     Exit, storeVars, Store!vars
<1>7. CASE UNCHANGED vars
  BY <1>7 DEF vars, storeVars, Store!vars
<1>8. QED BY <1>1, <1>2, <1>3, <1>4, <1>5, <1>6, <1>7 DEF Next, Loop

\* The monitor, whatever fails around it, implements the store: each of its
\* steps is one operation of the store or none.
THEOREM MonitorImplementsStore == Spec => ImplementsStore
<1>1. Init => Store!Init BY DEF Init
<1>2. WorkOK /\ [Next]_vars => [Store!Next]_Store!vars BY StepRefines
<1>3. QED BY <1>1, <1>2, WorkInvariance, PTL DEF Spec, ImplementsStore, Store!Spec

-----------------------------------------------------------------------------
(* The store, as the monitor drives it: its tables are well typed, and a row  *)
(* with a larger id was written later.  These facts are the inductive         *)
(* invariant of ChanEventsStoreProofs, without what the monitor does not need.*)

StoreInv ==
  /\ Store!TypeOK
  /\ \A e \in events : e.ts <= now
  /\ ~Sqlite => \A e \in events : e.id <= seq
  /\ Store!ChronologicalIds

\* The id of a new row is above every id in the table.
LEMMA StoreFreshId ==
  ASSUME StoreInv, NEW n \in 1..MaxRowId, Store!IsNextId(n)
  PROVE  \A e \in events : e.id < n
<1>1. \A e \in events : e.id \in Int
  BY DEF StoreInv, Store!TypeOK, Store!EventRows
<1>2. seq \in Int BY DEF StoreInv, Store!TypeOK
<1>3. QED BY <1>1, <1>2 DEF StoreInv, Store!IsNextId

\* AddChannelEvent keeps the store's invariant.
LEMMA StoreAddEvent ==
  ASSUME StoreInv, NEW c \in ChanPoints, NEW type \in {"online", "offline", "update"},
         NEW bal \in Balances \cup {NoBalance}, Store!AddChannelEvent(c, type, bal)
  PROVE  StoreInv'
<1> PICK n \in 1..MaxRowId :
      /\ Store!IsNextId(n)
      /\ events' = events \cup
           {[id |-> n, chan |-> c, type |-> type, ts |-> now, bal |-> bal]}
      /\ seq' = IF Sqlite THEN seq ELSE n
  BY DEF Store!AddChannelEvent
<1> DEFINE row == [id |-> n, chan |-> c, type |-> type, ts |-> now, bal |-> bal]
<1>1. UNCHANGED <<peers, channels, now>> /\ Store!GetChannel(c) # {}
  BY DEF Store!AddChannelEvent
<1>2. \A e \in events : e.id < n
  BY StoreFreshId
<1>3. row \in Store!EventRows
  BY DEF StoreInv, Store!TypeOK, Store!EventRows, Store!EventTypes
<1>4. Store!TypeOK'
  BY <1>1, <1>3, MonitorAssumption DEF StoreInv, Store!TypeOK, Store!GetChannel
<1>5. \A e \in events : e.id \in Int /\ e.ts \in Int
  BY DEF StoreInv, Store!TypeOK, Store!EventRows
<1>6. now \in Int BY DEF StoreInv, Store!TypeOK
<1>7. (\A e \in events : e.ts <= now)' /\ (~Sqlite => \A e \in events : e.id <= seq)'
  BY <1>1, <1>2, <1>5, <1>6 DEF StoreInv
<1>8. Store!ChronologicalIds'
  BY <1>2, <1>5, <1>6 DEF StoreInv, Store!ChronologicalIds
<1>9. QED BY <1>4, <1>7, <1>8 DEF StoreInv

\* Every step of the store keeps the store's invariant.
LEMMA StoreNext ==
  ASSUME StoreInv, Store!Next \/ UNCHANGED Store!vars
  PROVE  StoreInv'
<1>1. ASSUME NEW pk \in Pubkeys, Store!AddPeer(pk) PROVE StoreInv'
  BY <1>1 DEF Store!AddPeer, StoreInv, Store!TypeOK, Store!GetChannel, Store!ChronologicalIds
<1>2. ASSUME NEW c \in ChanPoints, NEW u \in Scids, NEW pk \in Pubkeys,
             Store!AddChannel(c, u, pk)
      PROVE  StoreInv'
  <2>1. Store!scidToInt64(u) \in Int
    BY MonitorAssumption DEF Store!scidToInt64
  <2>2. Store!TypeOK'
    BY <1>2, <2>1 DEF Store!AddChannel, StoreInv, Store!TypeOK, Store!GetChannel,
       Store!ChannelRows
  <2>3. QED BY <1>2, <2>2 DEF Store!AddChannel, StoreInv, Store!ChronologicalIds
<1>3. CASE Store!AddAnyEvent
  BY <1>3, StoreAddEvent DEF Store!AddAnyEvent
<1>4. CASE Store!Prune
  <2>1. events' \subseteq events /\ UNCHANGED <<peers, channels, seq, now>>
    BY <1>4 DEF Store!Prune, Store!PruneBySize, Store!PruneByAge
  <2>2. QED BY <2>1 DEF StoreInv, Store!TypeOK, Store!GetChannel, Store!ChronologicalIds
<1>5. CASE Store!Tick
  <2>1. \A e \in events : e.ts \in Int BY DEF StoreInv, Store!TypeOK, Store!EventRows
  <2>2. now' \in 0..MaxTime /\ now <= now' /\ now \in Int /\ now' \in Int
    BY <1>5, MonitorAssumption DEF Store!Tick, StoreInv, Store!TypeOK
  <2>3. UNCHANGED <<peers, channels, events, seq>> BY <1>5 DEF Store!Tick
  <2>4. Store!TypeOK'
    BY <2>2, <2>3 DEF StoreInv, Store!TypeOK, Store!GetChannel
  <2>5. QED BY <2>1, <2>2, <2>3, <2>4 DEF StoreInv, Store!ChronologicalIds
<1>6. CASE UNCHANGED Store!vars
  BY <1>6 DEF Store!vars, StoreInv, Store!TypeOK, Store!GetChannel, Store!ChronologicalIds
<1>7. QED BY <1>1, <1>2, <1>3, <1>4, <1>5, <1>6 DEF Store!Next

\* The store's invariant holds under the monitor.
LEMMA StoreInvariance == Spec => []StoreInv
<1>1. Init => StoreInv
  BY MonitorAssumption DEF Init, Store!Init, StoreInv, Store!TypeOK, Store!ChronologicalIds
<1>2. WorkOK /\ StoreInv /\ [Next]_vars => StoreInv' BY StepRefines, StoreNext
<1>3. QED BY <1>1, <1>2, WorkInvariance, PTL DEF Spec

-----------------------------------------------------------------------------
(* Type correctness. *)

\* The variables that are neither tables nor lists of work.
ScalarsOK ==
  /\ stream \in {"never", "up", "broken"}
  /\ pc \in {"idle", "ready", "sync", "closed", "listed", "pruneSize", "pruneAge",
             "subscribe", "stream", "retry", "done"}
  /\ back \in {"subscribe", "stream"}
  /\ {started, quit, ctxDone, synced} \subseteq BOOLEAN
  /\ lost \in [ChanPoints -> {"no", "startup", "broken", "failed"}]
  /\ changes \in 0..MaxChanges /\ faults \in 0..MaxFaults

\* Every step keeps the control state within its types.
LEMMA NextScalarsOK ==
  ASSUME WorkOK, ScalarsOK, [Next]_vars
  PROVE  ScalarsOK'
<1> USE DEF ScalarsOK
<1>a. changes' \in 0..MaxChanges
  BY MonitorAssumption DEF Next, Lnd, LndOpen, LndAbandon, LndActive, LndInactive, LndUpdate,
     LndClose, LndChange, StreamBreaks, ClockTick, Start, Stop, CancelCtx, Crash, Loop, LndReady,
     LndNotReady, ClosedChannels, ListChannels, ListFails, NextChannel, SyncAborts, SyncDone,
     RunStep, StepFails, UnknownChannel, PruneSize, PruneAge, Subscribe, SubscribeFails, Receive,
     PruneTick, StreamEnds, QuitStream, Retry, QuitRetry, Exit, DropStream, vars, lndVars
<1>b. faults' \in 0..MaxFaults
  BY MonitorAssumption DEF Next, Lnd, LndOpen, LndAbandon, LndActive, LndInactive, LndUpdate,
     LndClose, LndChange, StreamBreaks, ClockTick, Start, Stop, CancelCtx, Crash, Loop, LndReady,
     LndNotReady, ClosedChannels, ListChannels, ListFails, NextChannel, SyncAborts, SyncDone,
     RunStep, StepFails, UnknownChannel, PruneSize, PruneAge, Subscribe, SubscribeFails, Receive,
     PruneTick, StreamEnds, QuitStream, Retry, QuitRetry, Exit, CallFails, vars
<1>1. CASE Lnd
  <2>1. /\ UNCHANGED <<ctlVars, loopVars>>
        /\ \/ UNCHANGED stream /\ \E c \in ChanPoints : \E kind : Report(c, kind)
           \/ stream' = "broken" /\ UNCHANGED lost
    BY <1>1 DEF Lnd, LndOpen, LndAbandon, LndActive, LndInactive, LndUpdate, LndClose,
       LndChange, StreamBreaks
  <2>2. lost' \in [ChanPoints -> {"no", "startup", "broken", "failed"}]
    BY <2>1 DEF Report
  <2>3. stream' \in {"never", "up", "broken"}
    BY <2>1
  <2>4. QED BY <1>a, <1>b, <2>1, <2>2, <2>3 DEF ctlVars, loopVars
<1>2. CASE ClockTick \/ Start \/ Stop \/ CancelCtx \/ Crash
  BY <1>2, <1>a, <1>b DEF ClockTick, Start, Stop, CancelCtx, Crash, lndVars, ctlVars, loopVars
<1>3. CASE LndReady \/ ListFails \/ NextChannel \/ SyncDone \/ RunStep \/ UnknownChannel
           \/ SubscribeFails \/ PruneTick \/ Retry
  BY <1>3, <1>a, <1>b DEF LndReady, ListFails, NextChannel, SyncDone, RunStep, UnknownChannel,
     SubscribeFails, PruneTick, Retry, lndVars, ctlVars
<1>4. CASE PruneSize \/ PruneAge
  BY <1>4, <1>a, <1>b DEF PruneSize, PruneAge, lndVars, ctlVars
<1>5. CASE LndNotReady \/ QuitStream \/ QuitRetry \/ StreamEnds
  BY <1>5, <1>a, <1>b DEF LndNotReady, QuitStream, QuitRetry, StreamEnds, Exit, DropStream,
     ctlVars
<1>6. CASE ClosedChannels \/ ListChannels \/ SyncAborts
  BY <1>6, <1>a, <1>b DEF ClosedChannels, ListChannels, SyncAborts, ctlVars
<1>7. CASE StepFails
  BY <1>7, <1>a, <1>b DEF StepFails, ctlVars
<1>8. CASE Subscribe \/ Receive
  BY <1>8, <1>a, <1>b DEF Subscribe, Receive, ctlVars
<1>9. CASE UNCHANGED vars
  BY <1>9 DEF vars, lndVars, ctlVars, loopVars
<1>10. QED BY <1>1, <1>2, <1>3, <1>4, <1>5, <1>6, <1>7, <1>8, <1>9 DEF Next, Loop

\* The control state is always within its types.
LEMMA ScalarsInvariance == Spec => []ScalarsOK
<1>1. ASSUME Init PROVE ScalarsOK
  <2>1. changes \in 0..MaxChanges /\ faults \in 0..MaxFaults
    BY <1>1, MonitorAssumption DEF Init
  <2>2. {started, quit, ctxDone, synced} \subseteq BOOLEAN
    BY <1>1 DEF Init
  <2>3. lost \in [ChanPoints -> {"no", "startup", "broken", "failed"}]
    BY <1>1 DEF Init
  <2>4. QED BY <1>1, <2>1, <2>2, <2>3 DEF Init, ScalarsOK
<1>2. WorkOK /\ ScalarsOK /\ [Next]_vars => ScalarsOK' BY NextScalarsOK
<1>3. QED BY <1>1, <1>2, WorkInvariance, PTL DEF Spec

\* Everything the monitor holds keeps its type: its tables, what lnd reported
\* and it has not read, and the steps it has still to take.
THEOREM MonitorTypeCorrect == Spec => []TypeOK
<1>1. WorkOK /\ StoreInv /\ ScalarsOK => TypeOK
  BY DEF WorkOK, StoreInv, ScalarsOK, TypeOK, ChannelStatesOf
<1>2. QED BY <1>1, WorkInvariance, StoreInvariance, ScalarsInvariance, PTL

-----------------------------------------------------------------------------
(* What the monitor has recorded, and what it has still to record.           *)
(*                                                                           *)
(* A channel has two facets, its status and its balances.  For each one, the  *)
(* latest word on it is, in this order: the last event lnd sent about it that  *)
(* the monitor has not received; a step that the monitor has still to take;    *)
(* the newest row.  As long as nothing about the channel was lost, the latest  *)
(* word is what lnd has now.                                                  *)

Facets == {"status", "balance"}
Kinds(f) == IF f = "status" THEN {"open", "closed", "inactive", "active"} ELSE {"open", "update"}
Ops(f)   == IF f = "status" THEN {"online", "offline"} ELSE {"update"}

\* A status, or balances, that lnd agrees with.
Fits(f, c, op, bal) ==
  IF f = "status" THEN op = "online" <=> lnd[c].st = "active"
                  ELSE c \in Open => bal = lnd[c].bal

OpOf(kind) == IF kind \in {"open", "active"} THEN "online" ELSE "offline"

Sent(f, c) == {i \in DOMAIN buffer : buffer[i].chan = c /\ buffer[i].kind \in Kinds(f)}

StepsOf(f, c, task) == {i \in DOMAIN task : task[i].chan = c /\ task[i].op \in Ops(f)}
NoWork(f, c) ==
  StepsOf(f, c, todo) = {} /\ \A i \in DOMAIN queue : StepsOf(f, c, queue[i]) = {}

SentFits(f, c) ==
  \A i \in Sent(f, c) : (\A j \in Sent(f, c) : j <= i) =>
    Fits(f, c, OpOf(buffer[i].kind), buffer[i].bal)
TaskFits(f, c, task) ==
  \A i \in StepsOf(f, c, task) : Fits(f, c, task[i].op, task[i].bal)
WorkFits(f, c) ==
  TaskFits(f, c, todo) /\ \A i \in DOMAIN queue : TaskFits(f, c, queue[i])
RowsFit(f, c) ==
  \A e \in Newest(c, Ops(f)) : Fits(f, c, e.type, e.bal)

Latest(f, c) ==
  lost[c] = "no" =>
    /\ SentFits(f, c)
    /\ Sent(f, c) = {} => WorkFits(f, c)
    /\ Sent(f, c) = {} /\ NoWork(f, c) => RowsFit(f, c)

\* A channel is registered before anything else is written about it.
Confirmed(c) == lnd[c].st \in {"active", "inactive", "closed"}
HasAdd(c)   == todo # <<>> /\ Head(todo).op = "add" /\ Head(todo).chan = c
HasTask(c)  == \E i \in DOMAIN queue : queue[i][1].chan = c
OpenSent(c) == {i \in DOMAIN buffer : buffer[i].chan = c /\ buffer[i].kind = "open"}

AddedFirst(c) ==
  lost[c] = "no" =>
    /\ todo # <<>> /\ Head(todo).chan = c => Registered(c) \/ HasAdd(c)
    /\ \A i \in DOMAIN buffer : buffer[i].chan = c /\ buffer[i].kind \notin {"open", "pending"} =>
         Registered(c) \/ HasAdd(c) \/ \E j \in OpenSent(c) : j < i
    /\ Confirmed(c) => Registered(c) \/ HasAdd(c) \/ HasTask(c) \/ OpenSent(c) # {}

\* Only channels that confirmed are written about.
OnlyConfirmed ==
  /\ \A ch \in channels : Confirmed(ch.point)
  /\ \A i \in DOMAIN todo : Confirmed(todo[i].chan)
  /\ \A i \in DOMAIN queue : Confirmed(queue[i][1].chan)
  /\ \A i \in DOMAIN buffer : buffer[i].kind # "pending" => Confirmed(buffer[i].chan)

\* Each task is about one channel, and a task of a sync begins with its
\* registration.
IsTask(task) ==
  /\ 1 \in DOMAIN task /\ task[1].op = "add"
  /\ \A k \in DOMAIN task : task[k].chan = task[1].chan
OneChannel ==
  /\ \A i \in DOMAIN todo : todo[i].chan = Head(todo).chan
  /\ \A i \in DOMAIN queue : IsTask(queue[i])

\* Where the loop is when there is work of each kind.
Streaming == pc = "stream" \/ (pc \in {"pruneSize", "pruneAge"} /\ back = "stream")
Control ==
  /\ stream = "up" \/ buffer # <<>> => Streaming
  /\ queue # <<>> => pc \in {"closed", "listed"}
  /\ todo # <<>> => pc \in {"closed", "listed", "stream"}

ChannelInv(c) == AddedFirst(c) /\ \A f \in Facets : Latest(f, c)

\* The inductive invariant.
Follows ==
  /\ Control /\ OneChannel /\ OnlyConfirmed
  /\ \A c \in ChanPoints : ChannelInv(c)

\* The types, as the steps below use them.
Typed == WorkOK /\ StoreInv /\ ScalarsOK
-----------------------------------------------------------------------------
(* Sequences and rows. *)

\* Head and Tail, element by element.
LEMMA TailFacts ==
  ASSUME NEW T, NEW s \in Seq(T), s # <<>>
  PROVE  /\ 1 \in DOMAIN s /\ Head(s) = s[1] /\ DOMAIN s \subseteq Nat
         /\ \A i \in DOMAIN Tail(s) : i \in Nat /\ i + 1 \in DOMAIN s /\ Tail(s)[i] = s[i + 1]
         /\ \A i \in DOMAIN s : i # 1 => i - 1 \in DOMAIN Tail(s)
         /\ Tail(s) # <<>> => 2 \in DOMAIN s /\ Head(Tail(s)) = s[2]
OBVIOUS

\* Append, element by element.
LEMMA AppendFacts ==
  ASSUME NEW T, NEW s \in Seq(T), NEW x
  PROVE  /\ DOMAIN Append(s, x) = DOMAIN s \cup {Len(s) + 1}
         /\ Append(s, x)[Len(s) + 1] = x
         /\ \A i \in DOMAIN s : Append(s, x)[i] = s[i]
OBVIOUS

\* The empty sequence has no elements.
LEMMA EmptyFacts == DOMAIN <<>> = {}
OBVIOUS

\* A prune leaves the newest row of a channel, or none of its rows.
LEMMA PrunedNewest ==
  ASSUME StoreInv, Store!Prune, NEW c, NEW types, NEW e \in Newest(c, types)'
  PROVE  e \in Newest(c, types)
<1>1. PICK m \in {MaxEvents} : Store!PruneBySize(m) \/ \E r \in {Retention} : Store!PruneByAge(m, r)
  BY DEF Store!Prune
<1>2. \A a \in events : a.id \in Int /\ a.ts \in Int
  BY DEF StoreInv, Store!TypeOK, Store!EventRows
<1>3. now \in Int /\ MaxEvents \in Int /\ Retention \in Int
  BY MonitorAssumption DEF StoreInv, Store!TypeOK
<1>4. events' \subseteq events /\ \A a \in events', b \in events : b.id > a.id => b \in events'
  <2>1. CASE Store!PruneBySize(m)
    BY <1>2, <2>1 DEF Store!PruneBySize
  <2>2. CASE \E r \in {Retention} : Store!PruneByAge(m, r)
    BY <1>2, <1>3, <2>2 DEF Store!PruneByAge, StoreInv, Store!ChronologicalIds
  <2>3. QED BY <1>1, <2>1, <2>2
<1>5. e \in events' /\ e \in events /\ e.chan = c /\ e.type \in types
  BY <1>4 DEF Newest, Store!LastOf
<1>6. ASSUME NEW g \in events, g.chan = c, g.type \in types PROVE g.id <= e.id
  <2>1. CASE g \in events' BY <1>6, <2>1 DEF Newest, Store!LastOf
  <2>2. CASE g \notin events' BY <1>2, <1>4, <1>5, <2>2
  <2>3. QED BY <2>1, <2>2
<1>7. QED BY <1>5, <1>6 DEF Newest, Store!LastOf

\* The row that was just written is the newest of its kind.
LEMMA WrittenNewest ==
  ASSUME StoreInv, NEW c, NEW type, NEW bal, Store!AddChannelEvent(c, type, bal),
         NEW d, NEW types, NEW e \in Newest(d, types)'
  PROVE  IF d = c /\ type \in types THEN e.type = type /\ e.bal = bal
                                    ELSE e \in Newest(d, types)
<1> PICK n \in 1..MaxRowId :
      /\ Store!IsNextId(n)
      /\ events' = events \cup
           {[id |-> n, chan |-> c, type |-> type, ts |-> now, bal |-> bal]}
  BY DEF Store!AddChannelEvent
<1> DEFINE row == [id |-> n, chan |-> c, type |-> type, ts |-> now, bal |-> bal]
<1>1. \A g \in events : g.id < n
  BY StoreFreshId
<1>2. \A g \in events : g.id \in Int
  BY DEF StoreInv, Store!TypeOK, Store!EventRows
<1>3. /\ e \in events' /\ e.chan = d /\ e.type \in types
      /\ \A g \in events' : g.chan = d /\ g.type \in types => g.id <= e.id
  BY DEF Newest, Store!LastOf
<1>4. CASE d = c /\ type \in types
  <2>1. row.id <= e.id BY <1>3, <1>4
  <2>2. e = row BY <1>1, <1>2, <1>3, <2>1
  <2>3. QED BY <1>4, <2>2
<1>5. CASE ~(d = c /\ type \in types)
  <2>1. e \in events BY <1>3, <1>5
  <2>2. QED BY <1>3, <1>5, <2>1 DEF Newest, Store!LastOf
<1>6. QED BY <1>4, <1>5

-----------------------------------------------------------------------------
(* Steps that move no work. *)

\* A step that only moves the loop keeps the invariant.
LEMMA UnmovedFollows ==
  ASSUME Follows, Control', UNCHANGED <<lnd, buffer, todo, queue, lost, channels, events>>
  PROVE  Follows'
<1>1. OneChannel' BY DEF Follows, OneChannel, IsTask
<1>2. OnlyConfirmed' BY DEF Follows, OnlyConfirmed, Confirmed
<1>3. \A c \in ChanPoints : AddedFirst(c)'
  BY DEF Follows, ChannelInv, AddedFirst, Registered, HasAdd, HasTask, OpenSent, Confirmed,
     Store!GetChannel
<1>4. \A c \in ChanPoints, f \in Facets : Latest(f, c)'
  BY DEF Follows, ChannelInv, Latest, SentFits, WorkFits, RowsFit, TaskFits, StepsOf, NoWork, Sent,
     Fits, Newest, Store!LastOf, Open
<1>5. QED BY <1>1, <1>2, <1>3, <1>4 DEF Follows, ChannelInv

\* A prune keeps the invariant: it forgets rows and changes none.
LEMMA PruneFollows ==
  ASSUME Follows, StoreInv, Control', Store!Prune, UNCHANGED <<lnd, buffer, todo, queue, lost>>
  PROVE  Follows'
<1>0. UNCHANGED channels
  BY DEF Store!Prune, Store!PruneBySize, Store!PruneByAge
<1>1. OneChannel' BY DEF Follows, OneChannel, IsTask
<1>2. OnlyConfirmed' BY <1>0 DEF Follows, OnlyConfirmed, Confirmed
<1>3. \A c \in ChanPoints : AddedFirst(c)'
  BY <1>0 DEF Follows, ChannelInv, AddedFirst, Registered, HasAdd, HasTask, OpenSent, Confirmed,
     Store!GetChannel
<1>4. ASSUME NEW c \in ChanPoints, NEW f \in Facets PROVE Latest(f, c)'
  <2>1. RowsFit(f, c) => RowsFit(f, c)'
    BY PrunedNewest DEF RowsFit, Fits, Open
  <2>2. QED
    BY <1>4, <2>1 DEF Follows, ChannelInv, Latest, SentFits, WorkFits, TaskFits, StepsOf, NoWork,
       Sent, Fits, Open
<1>5. QED BY <1>1, <1>2, <1>3, <1>4 DEF Follows, ChannelInv

-----------------------------------------------------------------------------
(* Steps that give up work: what was given up is marked as lost. *)

\* Dropping all pending work keeps the invariant when every channel whose
\* last change was in it is counted as lost.
LEMMA ForgetFollows ==
  ASSUME Follows, Typed, UNCHANGED <<lnd, channels, events>>,
         buffer' = <<>>, todo' = <<>>, queue' = <<>>, stream' # "up",
         \A c \in ChanPoints : lost'[c] = "no" =>
           lost[c] = "no" /\ c \notin Unread /\ c \notin Outstanding
  PROVE  Follows'
<1>1. Control' /\ OneChannel' BY DEF Control, OneChannel
<1>2. OnlyConfirmed' BY DEF Follows, OnlyConfirmed, Confirmed
<1>3. ASSUME NEW c \in ChanPoints, lost'[c] = "no" PROVE ChannelInv(c)'
  <2>1. /\ lost[c] = "no"
        /\ \A i \in DOMAIN buffer : buffer[i].chan # c
        /\ \A i \in DOMAIN todo : todo[i].chan # c
        /\ \A i \in DOMAIN queue : Head(queue[i]).chan # c
    BY <1>3 DEF Unread, Outstanding
  <2>2. \A i \in DOMAIN queue : Head(queue[i]) = queue[i][1]
    OBVIOUS
  <2>3. \A i \in DOMAIN queue : \A k \in DOMAIN queue[i] : queue[i][k].chan # c
    BY <2>1, <2>2 DEF Follows, OneChannel, IsTask
  <2>4. AddedFirst(c)'
    <3>1. todo # <<>> => 1 \in DOMAIN todo /\ Head(todo) = todo[1]
      BY TailFacts DEF Typed, WorkOK
    <3>2. ~HasAdd(c) /\ ~HasTask(c) /\ OpenSent(c) = {}
      BY <2>1, <2>2, <3>1 DEF HasAdd, HasTask, OpenSent
    <3>3. Confirmed(c) => Registered(c)
      BY <2>1, <3>2 DEF Follows, ChannelInv, AddedFirst
    <3>4. QED BY <3>3 DEF AddedFirst, Confirmed, Registered, Store!GetChannel
  <2>5. ASSUME NEW f \in Facets PROVE Latest(f, c)'
    <3>1. Sent(f, c) = {} /\ NoWork(f, c)
      BY <2>1, <2>3 DEF Sent, NoWork, StepsOf
    <3>2. RowsFit(f, c) BY <2>1, <3>1 DEF Follows, ChannelInv, Latest
    <3>3. RowsFit(f, c)' BY <3>2 DEF RowsFit, Fits, Newest, Store!LastOf, Open
    <3>4. SentFits(f, c)' /\ WorkFits(f, c)'
      BY DEF SentFits, WorkFits, TaskFits, StepsOf, Sent
    <3>5. QED BY <3>3, <3>4 DEF Latest
  <2>6. QED BY <2>4, <2>5 DEF ChannelInv
<1>4. ASSUME NEW c \in ChanPoints, lost'[c] # "no" PROVE ChannelInv(c)'
  BY <1>4 DEF ChannelInv, AddedFirst, Latest
<1>5. QED BY <1>1, <1>2, <1>3, <1>4 DEF Follows

\* The rest of the current task is dropped, or its next step is.
LEMMA DropFollows ==
  ASSUME Follows, Typed, todo # <<>>, todo' = <<>> \/ todo' = Tail(todo),
         UNCHANGED <<lnd, channels, events, buffer, queue, stream, pc, back>>,
         lost'[Head(todo).chan] # "no",
         \A c \in ChanPoints : c # Head(todo).chan => lost'[c] = lost[c]
  PROVE  Follows'
<1>0. todo \in Seq(Steps) BY DEF Typed, WorkOK
<1>1. \A i \in DOMAIN todo' : \E j \in DOMAIN todo : todo'[i] = todo[j]
  <2>1. CASE todo' = <<>> BY <2>1, EmptyFacts
  <2>2. CASE todo' = Tail(todo)
    <3>1. \A i \in DOMAIN Tail(todo) : i + 1 \in DOMAIN todo /\ Tail(todo)[i] = todo[i + 1]
      BY <1>0, TailFacts
    <3>2. QED BY <2>2, <3>1
  <2>3. QED BY <2>1, <2>2
<1>2. Control' /\ OneChannel' /\ OnlyConfirmed'
  <2>1. Control' BY DEF Follows, Control, Streaming
  <2>2. todo' # <<>> => 2 \in DOMAIN todo /\ Head(todo') = todo[2]
    BY <1>0, TailFacts
  <2>3. OneChannel' BY <1>1, <2>2 DEF Follows, OneChannel, IsTask
  <2>4. OnlyConfirmed' BY <1>1 DEF Follows, OnlyConfirmed, Confirmed
  <2>5. QED BY <2>1, <2>3, <2>4
<1>3. ASSUME NEW c \in ChanPoints, c # Head(todo).chan PROVE ChannelInv(c)'
  <2>1. \A i \in DOMAIN todo : todo[i].chan # c
    BY <1>3 DEF Follows, OneChannel
  <2>2. \A i \in DOMAIN todo' : todo'[i].chan # c
    BY <1>1, <2>1
  <2>3. todo' # <<>> => Head(todo').chan # c
    <3>1. Tail(todo) # <<>> => 2 \in DOMAIN todo /\ Head(Tail(todo)) = todo[2]
      BY <1>0, TailFacts
    <3>2. QED BY <2>1, <3>1
  <2>4. AddedFirst(c)'
    BY <1>3, <2>3 DEF Follows, ChannelInv, AddedFirst, Registered, HasAdd, HasTask, OpenSent,
       Confirmed, Store!GetChannel
  <2>5. ASSUME NEW f \in Facets PROVE Latest(f, c)'
    BY <1>3, <2>1, <2>2 DEF Follows, ChannelInv, Latest, SentFits, WorkFits, RowsFit, TaskFits,
       StepsOf, NoWork, Sent, Fits, Newest, Store!LastOf, Open
  <2>6. QED BY <2>4, <2>5 DEF ChannelInv
<1>4. ASSUME NEW c \in ChanPoints, c = Head(todo).chan PROVE ChannelInv(c)'
  BY <1>4 DEF ChannelInv, AddedFirst, Latest
<1>5. QED BY <1>2, <1>3, <1>4 DEF Follows

-----------------------------------------------------------------------------
(* Steps that take the next piece of work. *)

\* Starting on the next channel of the list keeps the invariant.
LEMMA NextChannelFollows ==
  ASSUME Follows, Typed, NextChannel
  PROVE  Follows'
<1>0. queue \in Seq(Seq(Steps)) /\ queue # <<>> /\ todo = <<>>
  BY DEF Typed, WorkOK, NextChannel
<1>1. /\ 1 \in DOMAIN queue /\ todo' = queue[1]
      /\ \A i \in DOMAIN queue' : i + 1 \in DOMAIN queue /\ queue'[i] = queue[i + 1]
      /\ \A i \in DOMAIN queue : i # 1 => i - 1 \in DOMAIN queue' /\ queue'[i - 1] = queue[i]
  <2>1. todo' = Head(queue) /\ queue' = Tail(queue) BY DEF NextChannel
  <2>2. QED BY <1>0, <2>1, TailFacts
<1>2. UNCHANGED <<lnd, buffer, lost, channels, events, stream, pc, back>>
  BY DEF NextChannel, lndVars, storeVars
<1>3. IsTask(todo') /\ todo' # <<>> /\ Head(todo') = todo'[1]
  <2>1. IsTask(queue[1]) BY <1>1 DEF Follows, OneChannel
  <2>2. queue[1] \in Seq(Steps) BY <1>0, <1>1
  <2>3. 1 \in DOMAIN queue[1] BY <2>1 DEF IsTask
  <2>4. queue[1] # <<>> BY <2>3
  <2>5. Head(queue[1]) = queue[1][1] BY <2>2, <2>4, TailFacts
  <2>6. QED BY <1>1, <2>1, <2>4, <2>5
<1>4. Control'
  BY <1>0, <1>2 DEF Follows, Control, Streaming
<1>5. OneChannel'
  BY <1>1, <1>3 DEF Follows, OneChannel, IsTask
<1>6. OnlyConfirmed'
  BY <1>1, <1>2, <1>3 DEF Follows, OnlyConfirmed, Confirmed, IsTask
<1>7. ASSUME NEW c \in ChanPoints PROVE AddedFirst(c)'
  <2>1. ~HasAdd(c) BY <1>0 DEF HasAdd
  <2>2. Head(todo').chan = c => HasAdd(c)' BY <1>3 DEF HasAdd, IsTask
  <2>3. HasTask(c) => HasAdd(c)' \/ HasTask(c)'
    BY <1>1, <1>3, <2>2 DEF HasTask
  <2>4. QED
    BY <1>2, <2>1, <2>2, <2>3 DEF Follows, ChannelInv, AddedFirst, Registered, OpenSent, Confirmed,
       Store!GetChannel
<1>8. ASSUME NEW c \in ChanPoints, NEW f \in Facets PROVE Latest(f, c)'
  <2>1. WorkFits(f, c) => WorkFits(f, c)'
    BY <1>1, <1>2 DEF WorkFits, TaskFits, StepsOf, Fits, Open
  <2>2. NoWork(f, c)' => NoWork(f, c)
    <3>1. StepsOf(f, c, todo) = {} BY <1>0, EmptyFacts DEF StepsOf
    <3>2. ASSUME NoWork(f, c)', NEW i \in DOMAIN queue PROVE StepsOf(f, c, queue[i]) = {}
      BY <1>1, <3>2 DEF NoWork, StepsOf
    <3>3. QED BY <3>1, <3>2 DEF NoWork
  <2>3. RowsFit(f, c) => RowsFit(f, c)'
    BY <1>2 DEF RowsFit, Fits, Newest, Store!LastOf, Open
  <2>4. Sent(f, c)' = Sent(f, c) /\ (SentFits(f, c) => SentFits(f, c)')
    BY <1>2 DEF Sent, SentFits, Fits, Open
  <2>5. QED BY <1>2, <2>1, <2>2, <2>3, <2>4 DEF Follows, ChannelInv, Latest
<1>9. QED BY <1>4, <1>5, <1>6, <1>7, <1>8 DEF Follows, ChannelInv

\* What handleChannelEvent does about an event: steps for its channel only,
\* which register the channel if the event says that it opened, and one step
\* for each facet the event is about.
LEMMA HandlerSteps ==
  ASSUME NEW ev \in LndEvents
  PROVE  LET s == handleChannelEvent(ev)
         IN  /\ \A i \in DOMAIN s : s[i].chan = ev.chan
             /\ s = <<>> <=> ev.kind = "pending"
             /\ s # <<>> => (Head(s).op = "add" <=> ev.kind = "open") /\ Head(s).chan = ev.chan
             /\ \A f \in Facets :
                  /\ ev.kind \in Kinds(f) <=> \E i \in DOMAIN s : s[i].op \in Ops(f)
                  /\ \A i \in DOMAIN s : s[i].op \in Ops(f) =>
                       IF f = "status" THEN s[i].op = OpOf(ev.kind) ELSE s[i].bal = ev.bal
<1> DEFINE s == handleChannelEvent(ev)
<1>1. ev.kind \in {"open", "closed", "inactive", "active", "update", "pending"}
  BY DEF LndEvents
<1>2. CASE ev.kind = "open"
  <2>1. s = <<Step("add", ev.chan, NoBalance, FALSE), Step("online", ev.chan, NoBalance, FALSE),
              Step("update", ev.chan, ev.bal, FALSE)>>
    BY <1>2 DEF handleChannelEvent
  <2>2. DOMAIN s = 1..3 /\ s # <<>> /\ Head(s) = s[1] BY <2>1
  <2>3. /\ s[1].op = "add" /\ s[1].chan = ev.chan
        /\ s[2].op = "online" /\ s[2].chan = ev.chan
        /\ s[3].op = "update" /\ s[3].chan = ev.chan /\ s[3].bal = ev.bal
    BY <2>1 DEF Step
  <2> HIDE DEF s
  <2>4. QED BY <1>2, <2>2, <2>3 DEF Facets, Kinds, Ops, OpOf, s
<1>3. ASSUME NEW op \in {"online", "offline"}, op = OpOf(ev.kind),
             ev.kind \in {"closed", "inactive", "active"},
             s = <<Step(op, ev.chan, NoBalance, FALSE)>>
      PROVE  /\ \A i \in DOMAIN s : s[i].chan = ev.chan
             /\ s = <<>> <=> ev.kind = "pending"
             /\ s # <<>> => (Head(s).op = "add" <=> ev.kind = "open") /\ Head(s).chan = ev.chan
             /\ \A f \in Facets :
                  /\ ev.kind \in Kinds(f) <=> \E i \in DOMAIN s : s[i].op \in Ops(f)
                  /\ \A i \in DOMAIN s : s[i].op \in Ops(f) =>
                       IF f = "status" THEN s[i].op = OpOf(ev.kind) ELSE s[i].bal = ev.bal
  <2>1. DOMAIN s = {1} /\ s # <<>> /\ Head(s) = s[1] BY <1>3
  <2>2. s[1].op = op /\ s[1].chan = ev.chan BY <1>3 DEF Step
  <2> HIDE DEF s
  <2>3. QED BY <1>3, <2>1, <2>2 DEF Facets, Kinds, Ops
<1>4. CASE ev.kind \in {"closed", "inactive"}
  <2>1. s = <<Step("offline", ev.chan, NoBalance, FALSE)>> BY <1>4 DEF handleChannelEvent
  <2> HIDE DEF s
  <2>2. QED BY <1>3, <1>4, <2>1 DEF OpOf, s
<1>5. CASE ev.kind = "active"
  <2>1. s = <<Step("online", ev.chan, NoBalance, FALSE)>> BY <1>5 DEF handleChannelEvent
  <2> HIDE DEF s
  <2>2. QED BY <1>3, <1>5, <2>1 DEF OpOf, s
<1>6. CASE ev.kind = "update"
  <2>1. s = <<Step("update", ev.chan, ev.bal, FALSE)>> BY <1>6 DEF handleChannelEvent
  <2>2. DOMAIN s = {1} /\ s # <<>> /\ Head(s) = s[1] BY <2>1
  <2>3. s[1].op = "update" /\ s[1].chan = ev.chan /\ s[1].bal = ev.bal BY <2>1 DEF Step
  <2> HIDE DEF s
  <2>4. QED BY <1>6, <2>2, <2>3 DEF Facets, Kinds, Ops, s
<1>7. CASE ev.kind = "pending"
  <2>1. s = <<>> BY <1>7 DEF handleChannelEvent
  <2> HIDE DEF s
  <2>2. QED BY <1>7, <2>1, EmptyFacts DEF Facets, Kinds, Ops, s
<1>8. QED BY <1>1, <1>2, <1>4, <1>5, <1>6, <1>7

\* Taking an event off the stream keeps the invariant.
LEMMA ReceiveFollows ==
  ASSUME Follows, Typed, Receive
  PROVE  Follows'
<1> DEFINE ev == buffer[1]
<1>0. /\ buffer \in Seq(LndEvents) /\ buffer # <<>> /\ todo = <<>> /\ pc = "stream"
      /\ queue = <<>>
  BY DEF Typed, WorkOK, Receive, Selecting, Follows, Control
<1>1. /\ 1 \in DOMAIN buffer /\ Head(buffer) = ev /\ DOMAIN buffer \subseteq Nat
      /\ \A i \in DOMAIN buffer' :
           i \in Nat /\ i + 1 \in DOMAIN buffer /\ buffer'[i] = buffer[i + 1]
      /\ \A i \in DOMAIN buffer : i # 1 => i - 1 \in DOMAIN buffer' /\ buffer'[i - 1] = buffer[i]
  <2>1. buffer' = Tail(buffer) BY DEF Receive
  <2>2. QED BY <1>0, <2>1, TailFacts
<1>2. UNCHANGED <<lnd, queue, lost, channels, events, stream, pc, back>>
  BY DEF Receive, storeVars
<1>3. ev \in LndEvents /\ todo' = handleChannelEvent(ev)
  BY <1>0, <1>1 DEF Receive
<1>4. /\ \A i \in DOMAIN todo' : todo'[i].chan = ev.chan
      /\ todo' = <<>> <=> ev.kind = "pending"
      /\ todo' # <<>> =>
           (Head(todo').op = "add" <=> ev.kind = "open") /\ Head(todo').chan = ev.chan
  BY <1>3, HandlerSteps
<1>5. \A f \in Facets :
        /\ ev.kind \in Kinds(f) <=> \E i \in DOMAIN todo' : todo'[i].op \in Ops(f)
        /\ \A i \in DOMAIN todo' : todo'[i].op \in Ops(f) =>
             IF f = "status" THEN todo'[i].op = OpOf(ev.kind) ELSE todo'[i].bal = ev.bal
  BY <1>3, HandlerSteps
<1> HIDE DEF ev
<1>6. Control'
  BY <1>0, <1>2 DEF Follows, Control, Streaming
<1>7. OneChannel'
  <2>1. \A i \in DOMAIN todo' : todo' # <<>> BY EmptyFacts
  <2>2. QED BY <1>0, <1>2, <1>4, <2>1, EmptyFacts DEF OneChannel
<1>8. OnlyConfirmed'
  <2>1. ev.kind # "pending" => Confirmed(ev.chan)
    BY <1>1 DEF Follows, OnlyConfirmed, ev
  <2>2. \A i \in DOMAIN todo' : Confirmed(todo'[i].chan)
    BY <1>4, <2>1, EmptyFacts
  <2>3. QED BY <1>1, <1>2, <2>2 DEF Follows, OnlyConfirmed, Confirmed
<1>9. ASSUME NEW c \in ChanPoints, lost[c] = "no" PROVE AddedFirst(c)'
  <2>0. ~HasAdd(c) /\ ~HasTask(c) BY <1>0, EmptyFacts DEF HasAdd, HasTask
  <2>1. Registered(c)' <=> Registered(c) BY <1>2 DEF Registered, Store!GetChannel
  <2>2. ASSUME NEW j \in OpenSent(c) PROVE HasAdd(c)' \/ j - 1 \in OpenSent(c)'
    <3>1. CASE j = 1
      <4>1. ev.kind = "open" /\ ev.chan = c BY <2>2, <3>1 DEF OpenSent, ev
      <4>2. QED BY <1>4, <4>1 DEF HasAdd
    <3>2. CASE j # 1 BY <1>1, <2>2, <3>2 DEF OpenSent
    <3>3. QED BY <3>1, <3>2
  <2>3. ASSUME NEW i \in DOMAIN buffer, buffer[i].chan = c,
               buffer[i].kind \notin {"open", "pending"}
        PROVE  Registered(c) \/ \E j \in OpenSent(c) : j < i
    BY <1>9, <2>0, <2>3 DEF Follows, ChannelInv, AddedFirst
  <2>4. todo' # <<>> /\ Head(todo').chan = c => Registered(c) \/ HasAdd(c)'
    <3>1. SUFFICES ASSUME todo' # <<>>, ev.chan = c, ev.kind # "open" PROVE Registered(c)
      BY <1>4 DEF HasAdd
    <3>2. ev.kind # "pending" BY <1>4, <3>1
    <3>3. \A j \in OpenSent(c) : ~(j < 1) BY <1>1 DEF OpenSent
    <3>4. QED BY <1>1, <2>3, <3>1, <3>2, <3>3 DEF ev
  <2>5. ASSUME NEW i \in DOMAIN buffer', buffer'[i].chan = c,
               buffer'[i].kind \notin {"open", "pending"}
        PROVE  Registered(c) \/ HasAdd(c)' \/ \E j \in OpenSent(c)' : j < i
    <3>1. i + 1 \in DOMAIN buffer /\ buffer'[i] = buffer[i + 1] /\ i \in Nat BY <1>1
    <3>2. Registered(c) \/ \E j \in OpenSent(c) : j < i + 1 BY <2>3, <2>5, <3>1
    <3>3. \A j \in OpenSent(c) : j \in Nat BY <1>1 DEF OpenSent
    <3>4. QED BY <2>2, <3>1, <3>2, <3>3
  <2>6. Confirmed(c) => Registered(c) \/ HasAdd(c)' \/ OpenSent(c)' # {}
    BY <1>9, <2>0, <2>2 DEF Follows, ChannelInv, AddedFirst
  <2>7. QED BY <1>2, <2>1, <2>4, <2>5, <2>6 DEF AddedFirst, Confirmed
<1>10. ASSUME NEW c \in ChanPoints, NEW f \in Facets, lost[c] = "no" PROVE Latest(f, c)'
  <2>0. \A op, bal : Fits(f, c, op, bal)' <=> Fits(f, c, op, bal)
    BY <1>2 DEF Fits, Open
  <2>1. /\ \A i \in Sent(f, c)' : i + 1 \in Sent(f, c) /\ i \in Nat /\ buffer'[i] = buffer[i + 1]
        /\ \A i \in Sent(f, c) : i # 1 => i - 1 \in Sent(f, c)'
        /\ \A i \in Sent(f, c) : i \in Nat
    BY <1>1 DEF Sent
  <2>2. SentFits(f, c) BY <1>10 DEF Follows, ChannelInv, Latest
  <2>3. SentFits(f, c)'
    <3>1. SUFFICES ASSUME NEW i \in Sent(f, c)', \A j \in Sent(f, c)' : j <= i
                   PROVE  Fits(f, c, OpOf(buffer'[i].kind), buffer'[i].bal)
      BY <2>0 DEF SentFits
    <3>2. \A j \in Sent(f, c) : j <= i + 1 BY <2>1, <3>1
    <3>3. QED BY <2>1, <2>2, <3>1, <3>2 DEF SentFits
  <2>4. 1 \in Sent(f, c) <=> StepsOf(f, c, todo') # {}
    BY <1>1, <1>4, <1>5 DEF Sent, StepsOf, ev
  <2>5. Sent(f, c)' = {} => WorkFits(f, c)'
    <3>1. SUFFICES ASSUME Sent(f, c)' = {}, NEW i \in StepsOf(f, c, todo')
                   PROVE  Fits(f, c, todo'[i].op, todo'[i].bal)
      BY <1>0, <1>2, <2>0, EmptyFacts DEF WorkFits, TaskFits
    <3>2. 1 \in Sent(f, c) /\ \A j \in Sent(f, c) : j <= 1 BY <2>1, <2>4, <3>1
    <3>3. Fits(f, c, OpOf(ev.kind), ev.bal) BY <2>2, <3>2 DEF SentFits, ev
    <3>4. IF f = "status" THEN todo'[i].op = OpOf(ev.kind) ELSE todo'[i].bal = ev.bal
      BY <1>5, <3>1 DEF StepsOf
    <3>5. QED BY <3>3, <3>4 DEF Fits
  <2>6. Sent(f, c)' = {} /\ NoWork(f, c)' => RowsFit(f, c)'
    <3>1. SUFFICES ASSUME Sent(f, c)' = {}, StepsOf(f, c, todo') = {} PROVE RowsFit(f, c)'
      BY DEF NoWork
    <3>2. Sent(f, c) = {} BY <2>1, <2>4, <3>1
    <3>3. NoWork(f, c) BY <1>0, EmptyFacts DEF NoWork, StepsOf
    <3>4. RowsFit(f, c) BY <1>10, <3>2, <3>3 DEF Follows, ChannelInv, Latest
    <3>5. QED BY <1>2, <2>0, <3>4 DEF RowsFit, Newest, Store!LastOf
  <2>7. QED BY <2>3, <2>5, <2>6 DEF Latest
<1>11. ASSUME NEW c \in ChanPoints, lost[c] # "no" PROVE ChannelInv(c)'
  BY <1>2, <1>11 DEF ChannelInv, AddedFirst, Latest
<1>12. QED BY <1>6, <1>7, <1>8, <1>9, <1>10, <1>11 DEF Follows, ChannelInv

-----------------------------------------------------------------------------
(* Steps that write to the store. *)

\* The current task goes on: the rest of it is about the same channel.
LEMMA TaskGoesOn ==
  ASSUME Follows, Typed, todo # <<>>, todo' = Tail(todo),
         UNCHANGED <<lnd, buffer, queue, stream, pc, back>>
  PROVE  /\ Control' /\ OneChannel'
         /\ \A i \in DOMAIN todo' : \E j \in DOMAIN todo : j # 1 /\ todo'[i] = todo[j]
         /\ \A j \in DOMAIN todo : j # 1 => \E i \in DOMAIN todo' : todo'[i] = todo[j]
         /\ 1 \in DOMAIN todo /\ Head(todo) = todo[1]
         /\ todo' # <<>> => Head(todo').chan = Head(todo).chan
<1>0. todo \in Seq(Steps) BY DEF Typed, WorkOK
<1>1. /\ 1 \in DOMAIN todo /\ Head(todo) = todo[1] /\ DOMAIN todo \subseteq Nat
      /\ \A i \in DOMAIN todo' : i \in Nat /\ i + 1 \in DOMAIN todo /\ todo'[i] = todo[i + 1]
      /\ \A i \in DOMAIN todo : i # 1 => i - 1 \in DOMAIN todo'
      /\ todo' # <<>> => 2 \in DOMAIN todo /\ Head(todo') = todo[2]
  BY <1>0, TailFacts
<1>2. \A i \in DOMAIN todo' : \E j \in DOMAIN todo : j # 1 /\ todo'[i] = todo[j]
  <2>1. ASSUME NEW i \in DOMAIN todo' PROVE i + 1 # 1 BY <1>1
  <2>2. QED BY <1>1, <2>1
<1>3. ASSUME NEW j \in DOMAIN todo, j # 1 PROVE \E i \in DOMAIN todo' : todo'[i] = todo[j]
  <2>1. j - 1 \in DOMAIN todo' /\ (j - 1) + 1 = j BY <1>1, <1>3
  <2>2. todo'[j - 1] = todo[j] BY <1>1, <2>1
  <2>3. QED BY <2>1, <2>2
<1>4. todo' # <<>> => Head(todo').chan = Head(todo).chan
  BY <1>1 DEF Follows, OneChannel
<1>5. Control' BY DEF Follows, Control, Streaming
<1>6. OneChannel'
  <2>1. \A i \in DOMAIN todo' : todo' # <<>> BY EmptyFacts
  <2>2. \A i \in DOMAIN todo' : todo'[i].chan = Head(todo').chan
    BY <1>2, <1>4, <2>1 DEF Follows, OneChannel
  <2>3. QED BY <2>2 DEF Follows, OneChannel, IsTask
<1>7. QED BY <1>1, <1>2, <1>3, <1>4, <1>5, <1>6

\* AddChannel keeps the invariant.
LEMMA RegisteredFollows ==
  ASSUME Follows, Typed, todo # <<>>, todo' = Tail(todo), Head(todo).op = "add",
         UNCHANGED <<lnd, buffer, queue, stream, pc, back, lost, events>>,
         NEW c0, c0 = Head(todo).chan, Registered(c0)', channels \subseteq channels',
         \A ch \in channels' : ch \in channels \/ ch.point = c0
  PROVE  Follows'
<1>1. /\ Control' /\ OneChannel'
      /\ \A i \in DOMAIN todo' : \E j \in DOMAIN todo : j # 1 /\ todo'[i] = todo[j]
      /\ \A j \in DOMAIN todo : j # 1 => \E i \in DOMAIN todo' : todo'[i] = todo[j]
      /\ 1 \in DOMAIN todo /\ Head(todo) = todo[1]
      /\ todo' # <<>> => Head(todo').chan = c0
  BY TaskGoesOn
<1>2. OnlyConfirmed'
  BY <1>1 DEF Follows, OnlyConfirmed, Confirmed
<1>3. ASSUME NEW c \in ChanPoints PROVE AddedFirst(c)'
  <2>1. CASE c = c0 BY <2>1 DEF AddedFirst
  <2>2. CASE c # c0
    <3>1. Registered(c)' <=> Registered(c)
      BY <2>2 DEF Registered, Store!GetChannel
    <3>2. ~HasAdd(c) /\ ~HasAdd(c)' /\ (todo' # <<>> => Head(todo').chan # c)
      BY <1>1, <2>2 DEF HasAdd
    <3>3. QED
      BY <3>1, <3>2 DEF Follows, ChannelInv, AddedFirst, HasTask, OpenSent, Confirmed
  <2>3. QED BY <2>1, <2>2
<1>4. ASSUME NEW c \in ChanPoints, NEW f \in Facets PROVE Latest(f, c)'
  <2>1. "add" \notin Ops(f) BY DEF Ops
  <2>0. \A op, bal : Fits(f, c, op, bal)' <=> Fits(f, c, op, bal)
    BY DEF Fits, Open
  <2>2. WorkFits(f, c) => WorkFits(f, c)'
    <3>1. SUFFICES ASSUME WorkFits(f, c) PROVE TaskFits(f, c, todo)'
      BY <2>0 DEF WorkFits, TaskFits, StepsOf
    <3>2. ASSUME NEW i \in StepsOf(f, c, todo') PROVE Fits(f, c, todo'[i].op, todo'[i].bal)
      <4>1. PICK j \in DOMAIN todo : todo'[i] = todo[j] BY <1>1 DEF StepsOf
      <4>2. j \in StepsOf(f, c, todo) BY <4>1 DEF StepsOf
      <4>3. QED BY <3>1, <4>1, <4>2 DEF WorkFits, TaskFits
    <3>3. QED BY <2>0, <3>2 DEF TaskFits, StepsOf
  <2>3. NoWork(f, c)' => NoWork(f, c)
    <3>1. SUFFICES ASSUME NoWork(f, c)', NEW j \in StepsOf(f, c, todo) PROVE FALSE
      BY DEF NoWork
    <3>2. j \in DOMAIN todo /\ j # 1 BY <1>1, <2>1 DEF StepsOf
    <3>3. PICK i \in DOMAIN todo' : todo'[i] = todo[j] BY <1>1, <3>2
    <3>4. QED BY <3>1, <3>3 DEF NoWork, StepsOf
  <2>4. RowsFit(f, c) => RowsFit(f, c)'
    BY DEF RowsFit, Fits, Newest, Store!LastOf, Open
  <2>5. Sent(f, c)' = Sent(f, c) /\ (SentFits(f, c) => SentFits(f, c)')
    BY DEF Sent, SentFits, Fits, Open
  <2>6. QED BY <2>2, <2>3, <2>4, <2>5 DEF Follows, ChannelInv, Latest
<1>5. QED BY <1>1, <1>2, <1>3, <1>4 DEF Follows, ChannelInv

\* Writing a row keeps the invariant.
LEMMA WrittenFollows ==
  ASSUME Follows, Typed, todo # <<>>, todo' = Tail(todo),
         Store!AddChannelEvent(Head(todo).chan, Head(todo).op, Head(todo).bal),
         UNCHANGED <<lnd, buffer, queue, stream, pc, back, lost>>
  PROVE  Follows'
<1> DEFINE s == Head(todo)
<1>1. /\ Control' /\ OneChannel'
      /\ \A i \in DOMAIN todo' : \E j \in DOMAIN todo : j # 1 /\ todo'[i] = todo[j]
      /\ \A j \in DOMAIN todo : j # 1 => \E i \in DOMAIN todo' : todo'[i] = todo[j]
      /\ 1 \in DOMAIN todo /\ s = todo[1]
      /\ todo' # <<>> => Head(todo').chan = s.chan
  BY TaskGoesOn
<1>2. UNCHANGED channels /\ Registered(s.chan)
  BY DEF Store!AddChannelEvent, Registered
<1> HIDE DEF s
<1>3. OnlyConfirmed'
  BY <1>1, <1>2 DEF Follows, OnlyConfirmed, Confirmed
<1>4. ASSUME NEW c \in ChanPoints PROVE AddedFirst(c)'
  <2>1. Registered(c)' <=> Registered(c)
    BY <1>2 DEF Registered, Store!GetChannel
  <2>2. CASE c = s.chan BY <1>2, <2>1, <2>2 DEF AddedFirst
  <2>3. CASE c # s.chan
    <3>1. ~HasAdd(c) /\ ~HasAdd(c)' /\ (todo' # <<>> => Head(todo').chan # c)
      BY <1>1, <2>3 DEF HasAdd, s
    <3>2. QED
      BY <2>1, <3>1 DEF Follows, ChannelInv, AddedFirst, HasTask, OpenSent, Confirmed
  <2>4. QED BY <2>2, <2>3
<1>5. ASSUME NEW c \in ChanPoints, NEW f \in Facets, lost[c] = "no" PROVE Latest(f, c)'
  <2>0. \A op, bal : Fits(f, c, op, bal)' <=> Fits(f, c, op, bal)
    BY DEF Fits, Open
  <2>1. WorkFits(f, c) => WorkFits(f, c)'
    <3>1. SUFFICES ASSUME WorkFits(f, c) PROVE TaskFits(f, c, todo)'
      BY <2>0 DEF WorkFits, TaskFits, StepsOf
    <3>2. ASSUME NEW i \in StepsOf(f, c, todo') PROVE Fits(f, c, todo'[i].op, todo'[i].bal)
      <4>1. PICK j \in DOMAIN todo : todo'[i] = todo[j] BY <1>1 DEF StepsOf
      <4>2. j \in StepsOf(f, c, todo) BY <4>1 DEF StepsOf
      <4>3. QED BY <3>1, <4>1, <4>2 DEF WorkFits, TaskFits
    <3>3. QED BY <2>0, <3>2 DEF TaskFits, StepsOf
  <2>2. Sent(f, c)' = Sent(f, c) /\ (SentFits(f, c) => SentFits(f, c)')
    BY <2>0 DEF Sent, SentFits
  <2>3. ASSUME Sent(f, c) = {}, NoWork(f, c)', NEW e \in Newest(c, Ops(f))'
        PROVE  Fits(f, c, e.type, e.bal)
    <3>1. IF c = s.chan /\ s.op \in Ops(f) THEN e.type = s.op /\ e.bal = s.bal
                                          ELSE e \in Newest(c, Ops(f))
      BY WrittenNewest DEF s, Typed
    <3>2. CASE c = s.chan /\ s.op \in Ops(f)
      <4>1. WorkFits(f, c) BY <1>5, <2>3 DEF Follows, ChannelInv, Latest
      <4>2. 1 \in StepsOf(f, c, todo) BY <1>1, <3>2 DEF StepsOf
      <4>3. Fits(f, c, s.op, s.bal) BY <1>1, <4>1, <4>2 DEF WorkFits, TaskFits
      <4>4. QED BY <3>1, <3>2, <4>3
    <3>3. CASE ~(c = s.chan /\ s.op \in Ops(f))
      <4>1. NoWork(f, c)
        <5>1. SUFFICES ASSUME NEW j \in StepsOf(f, c, todo) PROVE FALSE
          BY <2>3 DEF NoWork
        <5>2. j \in DOMAIN todo /\ j # 1 BY <1>1, <3>3 DEF StepsOf
        <5>3. PICK i \in DOMAIN todo' : todo'[i] = todo[j] BY <1>1, <5>2
        <5>4. QED BY <2>3, <5>3 DEF NoWork, StepsOf
      <4>2. RowsFit(f, c) BY <1>5, <2>3, <4>1 DEF Follows, ChannelInv, Latest
      <4>3. QED BY <3>1, <3>3, <4>2 DEF RowsFit
    <3>4. QED BY <3>2, <3>3
  <2>4. Sent(f, c)' = {} /\ NoWork(f, c)' => RowsFit(f, c)'
    BY <2>0, <2>2, <2>3 DEF RowsFit
  <2>5. QED BY <1>5, <2>1, <2>2, <2>4 DEF Follows, ChannelInv, Latest
<1>6. ASSUME NEW c \in ChanPoints, lost[c] # "no" PROVE ChannelInv(c)'
  BY <1>6 DEF ChannelInv, AddedFirst, Latest
<1>7. QED BY <1>1, <1>3, <1>4, <1>5, <1>6 DEF Follows, ChannelInv

\* Every write that succeeds keeps the invariant.
LEMMA RunStepFollows ==
  ASSUME Follows, Typed, RunStep
  PROVE  Follows'
<1>0. UNCHANGED <<lnd, buffer, queue, stream, pc, back, lost>> /\ todo # <<>>
  BY DEF RunStep, lndVars
<1>1. CASE Head(todo).op = "add"
  <2> PICK c : c = Head(todo).chan OBVIOUS
  <2>1. addChannel(c) BY <1>1 DEF RunStep
  <2>2. CASE Store!GetChannel(c) # {}
    <3>1. todo' = Tail(todo) /\ UNCHANGED <<channels, events>>
      BY <2>1, <2>2 DEF addChannel, storeVars
    <3>2. Registered(c)' BY <2>2, <3>1 DEF Registered, Store!GetChannel
    <3>3. QED BY <1>0, <1>1, <3>1, <3>2, RegisteredFollows
  <2>3. CASE Store!GetChannel(c) = {} /\ PeerOf[c] \notin peers
    <3>1. UNCHANGED <<todo, channels, events>>
      BY <2>1, <2>3 DEF addChannel, Store!AddPeer
    <3>2. Control' BY <1>0, <3>1 DEF Follows, Control, Streaming
    <3>3. QED BY <1>0, <3>1, <3>2, UnmovedFollows
  <2>4. CASE Store!GetChannel(c) = {} /\ PeerOf[c] \in peers
    <3>1. todo' = Tail(todo) /\ UNCHANGED events
      BY <2>1, <2>4 DEF addChannel, Store!AddChannel
    <3>2. channels' = channels \cup
            {[point |-> c, scid |-> Store!scidToInt64(ScidOf[c]), peer |-> PeerOf[c]]}
      BY <2>1, <2>4 DEF addChannel, Store!AddChannel
    <3>3. Registered(c)'
      <4> DEFINE row == [point |-> c, scid |-> Store!scidToInt64(ScidOf[c]), peer |-> PeerOf[c]]
      <4>1. row \in channels' /\ row.point = c BY <3>2
      <4> HIDE DEF row
      <4>2. QED BY <4>1 DEF Registered, Store!GetChannel
    <3>4. /\ channels \subseteq channels'
          /\ \A ch \in channels' : ch \in channels \/ ch.point = c
      BY <3>2
    <3>5. QED BY <1>0, <1>1, <3>1, <3>3, <3>4, RegisteredFollows
  <2>5. QED BY <2>2, <2>3, <2>4
<1>2. CASE Head(todo).op # "add"
  BY <1>0, <1>2, WrittenFollows DEF RunStep
<1>3. QED BY <1>1, <1>2

-----------------------------------------------------------------------------
(* The two lists of initialSync. *)

\* Whatever the order of a list, it has a task for each of its channels and
\* no other.
LEMMA TasksCover ==
  ASSUME NEW S, S \subseteq ChanPoints, NEW task \in [S -> Seq(Steps)], NEW q \in Tasks(task)
  PROVE  /\ \A i \in DOMAIN q : \E c \in S : q[i] = task[c]
         /\ \A c \in S : \E i \in DOMAIN q : q[i] = task[c]
<1>1. IsFiniteSet(S) /\ Cardinality(S) \in Nat
  BY MonitorAssumption, FS_Subset, FS_CardinalityType
<1> DEFINE D == 1..Cardinality(S)
<1>2. PICK order \in SetToSeqs(S) : q = [i \in DOMAIN order |-> task[order[i]]]
  BY DEF Tasks
<1>3. order \in [D -> S] /\ \A i, j \in D : i # j => order[i] # order[j]
  BY DEF SetToSeqs
<1>4. order \in Injection(D, S)
  BY <1>3 DEF Injection, IsInjective
<1>5. Cardinality(D) = Cardinality(S)
  BY <1>1, FS_Interval
<1>6. order \in Surjection(D, S)
  BY <1>1, <1>4, <1>5, FS_Injection
<1>7. \A c \in S : \E i \in D : order[i] = c
  BY <1>6 DEF Surjection
<1> HIDE DEF D
<1>8. DOMAIN q = D /\ \A i \in D : q[i] = task[order[i]]
  BY <1>2, <1>3
<1>9. QED BY <1>3, <1>7, <1>8

\* A list of lnd's channels, turned into work, keeps the invariant when the
\* work for each channel ends in what lnd says of it.
LEMMA ListFollows ==
  ASSUME Follows, Typed, pc \in {"sync", "closed"}, todo = <<>>, queue = <<>>,
         pc' \in {"closed", "listed"},
         UNCHANGED <<lnd, buffer, todo, stream, channels, events>>,
         NEW S, S \subseteq ChanPoints, NEW task \in [S -> Seq(Steps)], queue' \in Tasks(task),
         lost' = [c \in ChanPoints |-> IF c \in S THEN "no" ELSE lost[c]],
         \A c \in S : /\ Confirmed(c) /\ IsTask(task[c]) /\ task[c][1].chan = c
                      /\ \A f \in Facets : /\ TaskFits(f, c, task[c])
                                           /\ StepsOf(f, c, task[c]) = {} => RowsFit(f, c)
  PROVE  Follows'
<1>0. buffer = <<>> /\ stream # "up"
  BY DEF Follows, Control, Streaming
<1>1. /\ \A i \in DOMAIN queue' : \E c \in S : queue'[i] = task[c]
      /\ \A c \in S : \E i \in DOMAIN queue' : queue'[i] = task[c]
  BY TasksCover
<1>2. Control' BY <1>0 DEF Control
<1>3. OneChannel' BY <1>1, EmptyFacts DEF OneChannel, IsTask
<1>4. OnlyConfirmed' BY <1>0, <1>1, EmptyFacts DEF Follows, OnlyConfirmed, Confirmed
<1>5. ASSUME NEW c \in ChanPoints, lost'[c] = "no" PROVE ChannelInv(c)'
  <2>0. c \in S \/ lost[c] = "no" BY <1>5
  <2>1. Confirmed(c) => Registered(c) \/ \E i \in DOMAIN queue' : queue'[i][1].chan = c
    <3>1. CASE c \in S BY <1>1, <3>1
    <3>2. CASE c \notin S
      <4>1. ~HasAdd(c) /\ ~HasTask(c) /\ OpenSent(c) = {}
        BY <1>0, EmptyFacts DEF HasAdd, HasTask, OpenSent
      <4>2. QED BY <2>0, <3>2, <4>1 DEF Follows, ChannelInv, AddedFirst
    <3>3. QED BY <3>1, <3>2
  <2>2. AddedFirst(c)'
    BY <1>0, <2>1, EmptyFacts DEF AddedFirst, Confirmed, Registered, HasTask, Store!GetChannel
  <2>3. ASSUME NEW f \in Facets PROVE Latest(f, c)'
    <3>0. \A op, bal : Fits(f, c, op, bal)' <=> Fits(f, c, op, bal)
      BY DEF Fits, Open
    <3>1. Sent(f, c) = {} /\ Sent(f, c)' = {}
      BY <1>0, EmptyFacts DEF Sent
    <3>2. ASSUME NEW d \in S, d # c PROVE StepsOf(f, c, task[d]) = {}
      BY <3>2 DEF StepsOf, IsTask
    <3>3. ASSUME NEW i \in DOMAIN queue', NEW k \in StepsOf(f, c, queue'[i])
          PROVE  Fits(f, c, queue'[i][k].op, queue'[i][k].bal)
      <4>1. PICK d \in S : queue'[i] = task[d] BY <1>1
      <4>2. d = c BY <3>2, <3>3, <4>1
      <4>3. QED BY <3>3, <4>1, <4>2 DEF TaskFits
    <3>4. WorkFits(f, c)'
      BY <3>0, <3>3, EmptyFacts DEF WorkFits, TaskFits, StepsOf
    <3>5. NoWork(f, c)' => RowsFit(f, c)
      <4>1. SUFFICES ASSUME NoWork(f, c)' PROVE RowsFit(f, c) OBVIOUS
      <4>2. CASE c \in S
        <5>1. PICK i \in DOMAIN queue' : queue'[i] = task[c] BY <1>1, <4>2
        <5>2. StepsOf(f, c, task[c]) = {} BY <4>1, <5>1 DEF NoWork, StepsOf
        <5>3. QED BY <4>2, <5>2
      <4>3. CASE c \notin S
        <5>1. NoWork(f, c) BY EmptyFacts DEF NoWork, StepsOf
        <5>2. QED BY <2>0, <3>1, <4>3, <5>1 DEF Follows, ChannelInv, Latest
      <4>4. QED BY <4>2, <4>3
    <3>6. RowsFit(f, c) => RowsFit(f, c)'
      BY <3>0 DEF RowsFit, Newest, Store!LastOf
    <3>7. SentFits(f, c)' BY <3>1 DEF SentFits
    <3>8. QED BY <3>4, <3>5, <3>6, <3>7 DEF Latest
  <2>4. QED BY <2>2, <2>3 DEF ChannelInv
<1>6. ASSUME NEW c \in ChanPoints, lost'[c] # "no" PROVE ChannelInv(c)'
  BY <1>6 DEF ChannelInv, AddedFirst, Latest
<1>7. QED BY <1>2, <1>3, <1>4, <1>5, <1>6 DEF Follows

\* The work for a closed channel ends in what lnd says of it.
LEMMA ClosedTaskFacts ==
  ASSUME NEW c \in Closed, NEW f \in Facets
  PROVE  /\ IsTask(closedTask(c)) /\ closedTask(c)[1].chan = c
         /\ TaskFits(f, c, closedTask(c))
         /\ StepsOf(f, c, closedTask(c)) = {} => RowsFit(f, c)
<1> DEFINE s == closedTask(c)
<1>1. /\ DOMAIN s = 1..2
      /\ s[1].op = "add" /\ s[1].chan = c
      /\ s[2].op = "offline" /\ s[2].chan = c
  BY DEF closedTask, Step
<1>2. lnd[c].st # "active" /\ c \notin Open BY DEF Closed, Open
<1> HIDE DEF s
<1>3. IsTask(s) BY <1>1 DEF IsTask
<1>4. TaskFits(f, c, s) BY <1>1, <1>2 DEF TaskFits, StepsOf, Fits, Ops
<1>5. StepsOf(f, c, s) = {} => RowsFit(f, c)
  BY <1>1, <1>2 DEF StepsOf, RowsFit, Fits, Ops
<1>6. QED BY <1>1, <1>3, <1>4, <1>5 DEF s

\* The work for an open channel ends in what lnd says of it.
LEMMA OpenTaskFacts ==
  ASSUME NEW c \in Open, NEW f \in Facets
  PROVE  /\ IsTask(openTask(c)) /\ openTask(c)[1].chan = c
         /\ TaskFits(f, c, openTask(c))
         /\ StepsOf(f, c, openTask(c)) # {}
<1> DEFINE s == openTask(c)
           op == IF lnd[c].st = "active" THEN "online" ELSE "offline"
<1>0. s = <<Step("add", c, NoBalance, TRUE), Step(op, c, NoBalance, TRUE),
            Step("update", c, lnd[c].bal, TRUE)>>
  BY DEF openTask
<1>1. op \in {"online", "offline"} /\ (op = "online" <=> lnd[c].st = "active") OBVIOUS
<1> HIDE DEF op, s
<1>2. /\ DOMAIN s = 1..3
      /\ s[1].op = "add" /\ s[1].chan = c
      /\ s[2].op = op /\ s[2].chan = c
      /\ s[3].op = "update" /\ s[3].chan = c /\ s[3].bal = lnd[c].bal
  BY <1>0 DEF Step
<1>3. IsTask(s) BY <1>2 DEF IsTask
<1>4. TaskFits(f, c, s) BY <1>1, <1>2 DEF TaskFits, StepsOf, Fits, Ops
<1>5. StepsOf(f, c, s) # {}
  <2>1. CASE f = "status"
    <3>1. 2 \in StepsOf(f, c, s) BY <1>1, <1>2, <2>1 DEF StepsOf, Ops
    <3>2. QED BY <3>1
  <2>2. CASE f # "status"
    <3>1. 3 \in StepsOf(f, c, s) BY <1>2, <2>2 DEF StepsOf, Ops
    <3>2. QED BY <3>1
  <2>3. QED BY <2>1, <2>2
<1>6. QED BY <1>2, <1>3, <1>4, <1>5 DEF s

\* Both lists of initialSync keep the invariant.
LEMMA ListsFollow ==
  ASSUME Follows, Typed, ClosedChannels \/ ListChannels
  PROVE  Follows'
<1>1. CASE ClosedChannels
  <2>1. Closed \subseteq ChanPoints /\ \A c \in Closed : Confirmed(c)
    BY DEF Closed, Confirmed
  <2>2. [c \in Closed |-> closedTask(c)] \in [Closed -> Seq(Steps)]
    BY <2>1, ClosedTaskType
  <2>3. todo = <<>> /\ queue = <<>> /\ pc = "sync" /\ pc' = "closed"
    BY <1>1 DEF ClosedChannels, Follows, Control
  <2>4. /\ UNCHANGED <<lnd, buffer, todo, stream, channels, events>>
        /\ queue' \in Tasks([c \in Closed |-> closedTask(c)])
        /\ lost' = [c \in ChanPoints |-> IF c \in Closed THEN "no" ELSE lost[c]]
    BY <1>1 DEF ClosedChannels, storeVars
  <2>5. PICK S, task : S = Closed /\ task = [c \in S |-> closedTask(c)] OBVIOUS
  <2>6. \A c \in S : /\ Confirmed(c) /\ IsTask(task[c]) /\ task[c][1].chan = c
                     /\ \A f \in Facets : /\ TaskFits(f, c, task[c])
                                          /\ StepsOf(f, c, task[c]) = {} => RowsFit(f, c)
    BY <2>1, <2>5, ClosedTaskFacts DEF Facets
  <2>7. /\ S \subseteq ChanPoints /\ task \in [S -> Seq(Steps)] /\ queue' \in Tasks(task)
        /\ lost' = [c \in ChanPoints |-> IF c \in S THEN "no" ELSE lost[c]]
    BY <2>1, <2>2, <2>4, <2>5
  <2>8. QED BY <2>3, <2>4, <2>6, <2>7, ListFollows
<1>2. CASE ListChannels
  <2>1. Open \subseteq ChanPoints /\ \A c \in Open : Confirmed(c)
    BY DEF Open, Confirmed
  <2>2. [c \in Open |-> openTask(c)] \in [Open -> Seq(Steps)]
    BY <2>1, OpenTaskType DEF Typed
  <2>3. todo = <<>> /\ queue = <<>> /\ pc = "closed" /\ pc' = "listed"
    BY <1>2 DEF ListChannels, ListDone
  <2>4. /\ UNCHANGED <<lnd, buffer, todo, stream, channels, events>>
        /\ queue' \in Tasks([c \in Open |-> openTask(c)])
        /\ lost' = [c \in ChanPoints |-> IF c \in Open THEN "no" ELSE lost[c]]
    BY <1>2 DEF ListChannels, storeVars
  <2>5. PICK S, task : S = Open /\ task = [c \in S |-> openTask(c)] OBVIOUS
  <2>6. \A c \in S : /\ Confirmed(c) /\ IsTask(task[c]) /\ task[c][1].chan = c
                     /\ \A f \in Facets : /\ TaskFits(f, c, task[c])
                                          /\ StepsOf(f, c, task[c]) = {} => RowsFit(f, c)
    BY <2>1, <2>5, OpenTaskFacts DEF Facets
  <2>7. /\ S \subseteq ChanPoints /\ task \in [S -> Seq(Steps)] /\ queue' \in Tasks(task)
        /\ lost' = [c \in ChanPoints |-> IF c \in S THEN "no" ELSE lost[c]]
    BY <2>1, <2>2, <2>4, <2>5
  <2>8. QED BY <2>3, <2>4, <2>6, <2>7, ListFollows
<1>3. QED BY <1>1, <1>2

-----------------------------------------------------------------------------
(* lnd's changes. *)

\* The changes there are: from, to and the kind of event.
IsChange(from, to, kind) ==
  \/ from = {"pending"} /\ to = "active" /\ kind = "open"
  \/ from = {"pending"} /\ to = "abandoned" /\ kind = "pending"
  \/ from = {"inactive"} /\ to = "active" /\ kind = "active"
  \/ from = {"active"} /\ to = "inactive" /\ kind = "inactive"
  \/ from = {"active"} /\ to = "active" /\ kind = "update"
  \/ from = {"active", "inactive"} /\ to = "closed" /\ kind = "closed"

\* A change at lnd keeps the invariant: its event is buffered, or the channel
\* is counted as lost.
LEMMA ChangeFollows ==
  ASSUME Follows, Typed, NEW c \in ChanPoints, NEW from, NEW to, NEW kind,
         IsChange(from, to, kind), LndChange(c, from, to, kind)
  PROVE  Follows'
<1>0. PICK bal \in Balances :
        /\ kind \notin {"open", "update"} => bal = lnd[c].bal
        /\ lnd' = [lnd EXCEPT ![c] = [st |-> to, bal |-> bal]]
  BY DEF LndChange
<1>1. /\ lnd[c].st \in from /\ lnd'[c].st = to /\ lnd'[c].bal = bal
      /\ \A d \in ChanPoints : d # c => lnd'[d] = lnd[d]
  BY <1>0 DEF LndChange, Typed, WorkOK, ChannelStatesOf
<1>2. UNCHANGED <<todo, queue, channels, events, stream, pc, back>>
  BY DEF LndChange, storeVars, loopVars
<1> DEFINE ev == [kind |-> kind, chan |-> c, bal |-> lnd'[c].bal]
<1>3. /\ stream = "up" => buffer' = Append(buffer, ev) /\ lost' = lost
      /\ stream # "up" => buffer' = buffer /\ lost'[c] # "no"
                          /\ \A d \in ChanPoints : d # c => lost'[d] = lost[d]
  BY DEF LndChange, Report, Typed, ScalarsOK
<1>4. ev.kind = kind /\ ev.chan = c /\ ev.bal = bal BY <1>1
<1> HIDE DEF ev
<1> DEFINE n == Len(buffer) + 1
<1>5. DOMAIN buffer = 1..Len(buffer) /\ n \in Nat /\ n \notin DOMAIN buffer
      /\ \A i \in DOMAIN buffer : i \in Nat /\ i < n
  BY DEF Typed, WorkOK
<1>6. stream = "up" => /\ DOMAIN buffer' = DOMAIN buffer \cup {n}
                       /\ buffer'[n] = ev
                       /\ \A i \in DOMAIN buffer : buffer'[i] = buffer[i]
  <2>1. buffer \in Seq(LndEvents) BY DEF Typed, WorkOK
  <2>2. QED BY <1>3, <2>1, AppendFacts
<1> HIDE DEF n
<1>7. Control'
  BY <1>2, <1>3 DEF Follows, Control, Streaming
<1>8. OneChannel'
  BY <1>2 DEF Follows, OneChannel, IsTask
<1>9. \A d : d \in ChanPoints /\ Confirmed(d) => Confirmed(d)'
  BY <1>1 DEF IsChange, Confirmed
<1>10. OnlyConfirmed'
  <2>1. kind # "pending" => Confirmed(c)' BY <1>1 DEF IsChange, Confirmed
  <2>2. /\ \A ch \in channels : ch.point \in ChanPoints
        /\ \A i \in DOMAIN todo : todo[i].chan \in ChanPoints
        /\ \A i \in DOMAIN buffer : buffer[i].chan \in ChanPoints
    <3>1. \A i \in DOMAIN todo : todo[i] \in Steps BY DEF Typed, WorkOK
    <3>2. \A i \in DOMAIN buffer : buffer[i] \in LndEvents BY DEF Typed, WorkOK
    <3>3. channels \subseteq Store!ChannelRows BY DEF Typed, StoreInv, Store!TypeOK
    <3>4. QED BY <3>1, <3>2, <3>3 DEF Store!ChannelRows, Steps, LndEvents
  <2>3. \A i \in DOMAIN queue : queue[i][1].chan \in ChanPoints
    <3>1. ASSUME NEW i \in DOMAIN queue PROVE queue[i][1].chan \in ChanPoints
      <4>1. queue[i] \in Seq(Steps) BY DEF Typed, WorkOK
      <4>2. 1 \in DOMAIN queue[i] BY DEF Follows, OneChannel, IsTask
      <4>3. queue[i][1] \in Steps BY <4>1, <4>2
      <4>4. QED BY <4>3 DEF Steps
    <3>2. QED BY <3>1
  <2>4. /\ \A ch \in channels' : Confirmed(ch.point)'
        /\ \A i \in DOMAIN todo' : Confirmed(todo[i].chan)'
        /\ \A i \in DOMAIN queue' : Confirmed(queue[i][1].chan)'
    BY <1>2, <1>9, <2>2, <2>3 DEF Follows, OnlyConfirmed, Confirmed
  <2>5. \A i \in DOMAIN buffer' : buffer'[i].kind # "pending" => Confirmed(buffer[i].chan)'
    BY <1>3, <1>4, <1>6, <1>9, <2>1, <2>2 DEF Follows, OnlyConfirmed, Confirmed
  <2>6. QED BY <2>4, <2>5 DEF OnlyConfirmed
<1>11. ASSUME NEW d \in ChanPoints, d # c PROVE ChannelInv(d)'
  <2>0. lost'[d] = lost[d] /\ lnd'[d] = lnd[d] BY <1>1, <1>3, <1>11
  <2>1. \A i : i \in DOMAIN buffer' /\ buffer'[i].chan = d
                 <=> i \in DOMAIN buffer /\ buffer[i].chan = d
    BY <1>3, <1>4, <1>6, <1>11
  <2>2. \A i \in DOMAIN buffer : buffer'[i] = buffer[i]
    BY <1>3, <1>6
  <2>3. OpenSent(d)' = OpenSent(d) BY <2>1, <2>2 DEF OpenSent
  <2>4. AddedFirst(d)'
    BY <1>2, <2>0, <2>1, <2>2, <2>3
    DEF Follows, ChannelInv, AddedFirst, Registered, HasAdd, HasTask,
       Confirmed, Store!GetChannel
  <2>5. ASSUME NEW f \in Facets PROVE Latest(f, d)'
    <3>1. Sent(f, d)' = Sent(f, d) BY <2>1, <2>2 DEF Sent
    <3>2. \A op, b : Fits(f, d, op, b)' <=> Fits(f, d, op, b)
      BY <2>0 DEF Fits, Open
    <3>3. SentFits(f, d) => SentFits(f, d)'
      <4>1. \A i \in Sent(f, d) : buffer'[i] = buffer[i] BY <2>2 DEF Sent
      <4>2. QED BY <3>1, <3>2, <4>1 DEF SentFits
    <3>4. WorkFits(f, d) => WorkFits(f, d)'
      BY <1>2, <3>2 DEF WorkFits, TaskFits, StepsOf
    <3>5. NoWork(f, d)' <=> NoWork(f, d) BY <1>2 DEF NoWork, StepsOf
    <3>6. RowsFit(f, d) => RowsFit(f, d)'
      BY <1>2, <3>2 DEF RowsFit, Newest, Store!LastOf
    <3>7. QED BY <2>0, <3>1, <3>3, <3>4, <3>5, <3>6 DEF Follows, ChannelInv, Latest
  <2>6. QED BY <2>4, <2>5 DEF ChannelInv
<1>12. CASE stream # "up"
  <2>1. ChannelInv(c)' BY <1>3, <1>12 DEF ChannelInv, AddedFirst, Latest
  <2>2. QED BY <1>7, <1>8, <1>10, <1>11, <2>1 DEF Follows
<1>13. CASE stream = "up"
  <2>0. queue = <<>> BY <1>13 DEF Follows, Control, Streaming
  <2>1. ASSUME lost[c] = "no" PROVE AddedFirst(c)'
    <3>1. /\ Registered(c)' <=> Registered(c)
          /\ HasAdd(c)' <=> HasAdd(c)
          /\ ~HasTask(c)
      BY <1>2, <2>0, EmptyFacts DEF Registered, HasAdd, HasTask, Store!GetChannel
    <3>2. OpenSent(c) \subseteq OpenSent(c)' /\ OpenSent(c) \subseteq DOMAIN buffer
      BY <1>6, <1>13 DEF OpenSent
    <3>3. kind = "open" => n \in OpenSent(c)'
      BY <1>4, <1>6, <1>13 DEF OpenSent
    <3>4. kind \notin {"open", "pending"} => Registered(c) \/ HasAdd(c) \/ OpenSent(c) # {}
      BY <1>1, <2>1, <3>1 DEF IsChange, Confirmed, Follows, ChannelInv, AddedFirst
    <3>5. Confirmed(c)' => kind # "pending"
      BY <1>1 DEF IsChange, Confirmed
    <3>6. ASSUME NEW i \in DOMAIN buffer', buffer'[i].chan = c,
                 buffer'[i].kind \notin {"open", "pending"}
          PROVE  Registered(c) \/ HasAdd(c) \/ \E j \in OpenSent(c)' : j < i
      <4>1. CASE i \in DOMAIN buffer
        BY <1>6, <1>13, <2>1, <3>2, <3>6, <4>1 DEF Follows, ChannelInv, AddedFirst
      <4>2. CASE i = n
        BY <1>4, <1>5, <1>6, <1>13, <3>2, <3>4, <3>6, <4>2
      <4>3. QED BY <1>6, <1>13, <4>1, <4>2
    <3>7. todo' # <<>> /\ Head(todo').chan = c => Registered(c) \/ HasAdd(c)
      BY <1>2, <2>1 DEF Follows, ChannelInv, AddedFirst
    <3>8. Confirmed(c)' => Registered(c) \/ HasAdd(c) \/ OpenSent(c)' # {}
      BY <3>2, <3>3, <3>4, <3>5
    <3>9. QED BY <3>1, <3>6, <3>7, <3>8 DEF AddedFirst
  <2>2. ASSUME lost[c] = "no", NEW f \in Facets, kind \in Kinds(f) PROVE Latest(f, c)'
    <3>1. n \in Sent(f, c)' BY <1>4, <1>6, <1>13, <2>2 DEF Sent
    <3>2. \A i \in Sent(f, c)' : i # n => i < n BY <1>5, <1>6, <1>13 DEF Sent
    <3>3. Fits(f, c, OpOf(kind), bal)'
      BY <1>1, <2>2 DEF Fits, IsChange, Kinds, OpOf
    <3>4. SentFits(f, c)'
      <4>1. SUFFICES ASSUME NEW i \in Sent(f, c)', \A j \in Sent(f, c)' : j <= i
                     PROVE  Fits(f, c, OpOf(buffer[i].kind), buffer[i].bal)'
        BY DEF SentFits
      <4>2. i = n BY <1>5, <3>1, <3>2, <4>1
      <4>3. QED BY <1>4, <1>6, <1>13, <3>3, <4>2 DEF Fits
    <3>5. QED BY <3>1, <3>4 DEF Latest
  <2>3. ASSUME lost[c] = "no", NEW f \in Facets, kind \notin Kinds(f) PROVE Latest(f, c)'
    <3>1. Sent(f, c)' = Sent(f, c) BY <1>4, <1>6, <1>13, <2>3 DEF Sent
    <3>2. \A op, b : Fits(f, c, op, b) => Fits(f, c, op, b)'
      BY <1>0, <1>1, <2>3 DEF Fits, IsChange, Kinds, Open
    <3>3. SentFits(f, c) => SentFits(f, c)'
      <4>1. \A i \in Sent(f, c) : buffer'[i] = buffer[i] BY <1>6, <1>13 DEF Sent
      <4>2. QED BY <3>1, <3>2, <4>1 DEF SentFits
    <3>4. WorkFits(f, c) => WorkFits(f, c)'
      BY <1>2, <3>2 DEF WorkFits, TaskFits, StepsOf
    <3>5. NoWork(f, c)' <=> NoWork(f, c) BY <1>2 DEF NoWork, StepsOf
    <3>6. RowsFit(f, c) => RowsFit(f, c)'
      BY <1>2, <3>2 DEF RowsFit, Newest, Store!LastOf
    <3>7. QED BY <2>3, <3>1, <3>3, <3>4, <3>5, <3>6 DEF Follows, ChannelInv, Latest
  <2>4. ASSUME lost[c] # "no" PROVE ChannelInv(c)'
    BY <1>3, <1>13, <2>4 DEF ChannelInv, AddedFirst, Latest
  <2>5. ChannelInv(c)' BY <2>1, <2>2, <2>3, <2>4 DEF ChannelInv
  <2>6. QED BY <1>7, <1>8, <1>10, <1>11, <2>5 DEF Follows
<1>14. QED BY <1>12, <1>13

-----------------------------------------------------------------------------
(* The invariant is inductive. *)

\* The invariant holds before anything is known.
LEMMA InitFollows ==
  ASSUME Init
  PROVE  Follows
<1>1. Control /\ OneChannel BY EmptyFacts DEF Init, Control, OneChannel
<1>2. OnlyConfirmed BY EmptyFacts DEF Init, Store!Init, OnlyConfirmed
<1>3. ASSUME NEW c \in ChanPoints PROVE AddedFirst(c)
  <2>1. lost[c] = "no" => ~Confirmed(c) BY DEF Init, Confirmed
  <2>2. QED BY <2>1, EmptyFacts DEF Init, AddedFirst
<1>4. ASSUME NEW c \in ChanPoints, NEW f \in Facets PROVE Latest(f, c)
  <2>1. SentFits(f, c) /\ WorkFits(f, c)
    BY EmptyFacts DEF Init, SentFits, Sent, WorkFits, TaskFits, StepsOf
  <2>2. RowsFit(f, c) BY DEF Init, Store!Init, RowsFit, Newest, Store!LastOf
  <2>3. QED BY <2>1, <2>2 DEF Latest
<1>5. QED BY <1>1, <1>2, <1>3, <1>4 DEF Follows, ChannelInv

\* Whatever lnd does keeps the invariant.
LEMMA LndFollows ==
  ASSUME Follows, Typed, Lnd
  PROVE  Follows'
<1>1. ASSUME NEW c \in ChanPoints,
             \/ LndOpen(c) \/ LndAbandon(c) \/ LndActive(c)
             \/ LndInactive(c) \/ LndUpdate(c) \/ LndClose(c)
      PROVE  \E from, to, kind : IsChange(from, to, kind) /\ LndChange(c, from, to, kind)
  BY <1>1 DEF LndOpen, LndAbandon, LndActive, LndInactive, LndUpdate, LndClose, IsChange
<1>2. CASE StreamBreaks
  <2>1. Control' BY <1>2 DEF StreamBreaks, Follows, Control, Streaming, loopVars
  <2>2. QED BY <1>2, <2>1, UnmovedFollows DEF StreamBreaks, storeVars, loopVars
<1>3. QED BY <1>1, <1>2, ChangeFollows DEF Lnd

\* The steps that touch neither the work nor the rows keep the invariant.
LEMMA StillFollows ==
  ASSUME Follows, Typed,
         \/ ClockTick \/ Stop \/ CancelCtx \/ Start \/ UNCHANGED vars
         \/ LndReady \/ ListFails \/ SyncDone \/ Subscribe \/ SubscribeFails \/ PruneTick \/ Retry
  PROVE  Follows'
<1>1. UNCHANGED <<lnd, buffer, lost, channels, events>>
  BY DEF ClockTick, Stop, CancelCtx, Start, vars, LndReady, ListFails, SyncDone, Subscribe,
     SubscribeFails, PruneTick, Retry, lndVars, storeVars, Store!Tick
<1>2. UNCHANGED <<todo, queue>>
  <2>1. CASE Start BY <2>1 DEF Start, Follows, Control
  <2>2. CASE ~Start
    BY <2>2 DEF ClockTick, Stop, CancelCtx, vars, LndReady, ListFails, SyncDone, Subscribe,
       SubscribeFails, PruneTick, Retry, loopVars
  <2>3. QED BY <2>1, <2>2
<1>3. Control'
  <2>1. CASE ClockTick \/ Stop \/ CancelCtx \/ UNCHANGED vars
    BY <1>1, <1>2, <2>1 DEF ClockTick, Stop, CancelCtx, vars, lndVars, loopVars, Follows, Control,
       Streaming
  <2>2. CASE Start \/ LndReady \/ Retry \/ SubscribeFails
    BY <1>1, <1>2, <2>2 DEF Start, LndReady, Retry, SubscribeFails, lndVars, Follows, Control,
       Streaming
  <2>3. CASE ListFails \/ SyncDone
    BY <1>1, <1>2, <2>3 DEF ListFails, SyncDone, ListDone, lndVars, Follows, Control, Streaming
  <2>4. CASE Subscribe \/ PruneTick
    BY <1>1, <1>2, <2>4 DEF Subscribe, PruneTick, Selecting, lndVars, Follows, Control, Streaming
  <2>5. QED BY <2>1, <2>2, <2>3, <2>4
<1>4. QED BY <1>1, <1>2, <1>3, UnmovedFollows

\* The prunes of the loop keep the invariant.
LEMMA PruneStepFollows ==
  ASSUME Follows, Typed, PruneSize \/ PruneAge
  PROVE  Follows'
<1>1. UNCHANGED <<lnd, buffer, lost, todo, queue, stream, back>>
  BY DEF PruneSize, PruneAge, lndVars
<1>2. Control'
  <2>1. pc \in {"pruneSize", "pruneAge"} /\ pc' \in {"pruneAge", back}
    BY DEF PruneSize, PruneAge
  <2>2. todo = <<>> /\ queue = <<>> BY <2>1 DEF Follows, Control
  <2>3. Streaming => Streaming' BY <1>1, <2>1 DEF Streaming
  <2>4. QED BY <1>1, <2>2, <2>3 DEF Follows, Control
<1>3. UNCHANGED storeVars \/ Store!PruneBySize(MaxEvents) \/ Store!PruneByAge(MaxEvents, Retention)
  BY DEF PruneSize, PruneAge
<1>4. CASE UNCHANGED storeVars
  BY <1>1, <1>2, <1>4, UnmovedFollows DEF storeVars
<1>5. CASE Store!PruneBySize(MaxEvents) \/ Store!PruneByAge(MaxEvents, Retention)
  <2>1. Store!Prune BY <1>5 DEF Store!Prune
  <2>2. QED BY <1>1, <1>2, <2>1, PruneFollows DEF Typed
<1>6. QED BY <1>3, <1>4, <1>5

\* The steps that drop work (crash, quit, lost stream, aborted sync) keep the
\* invariant.
LEMMA LossFollows ==
  ASSUME Follows, Typed,
         \/ Crash \/ LndNotReady \/ QuitStream \/ QuitRetry \/ StreamEnds \/ SyncAborts
  PROVE  Follows'
<1>1. UNCHANGED <<lnd, channels, events>>
  BY DEF Crash, LndNotReady, QuitStream, QuitRetry, StreamEnds, SyncAborts, Exit, DropStream,
     storeVars
<1>2. CASE Crash
  BY <1>1, <1>2, ForgetFollows DEF Crash
<1>3. CASE LndNotReady \/ QuitStream \/ QuitRetry \/ StreamEnds
  <2>1. todo = <<>> /\ queue = <<>> /\ UNCHANGED <<todo, queue>>
    BY <1>3 DEF LndNotReady, QuitStream, QuitRetry, StreamEnds, Selecting, Exit, Follows, Control
  <2>2. Outstanding = {} BY <2>1, EmptyFacts DEF Outstanding
  <2>3. /\ buffer' = <<>> /\ stream' # "up"
        /\ lost' = [c \in ChanPoints |-> IF c \in Unread THEN "broken" ELSE lost[c]]
    BY <1>3 DEF LndNotReady, QuitStream, QuitRetry, StreamEnds, Exit, DropStream
  <2>4. QED BY <1>1, <2>1, <2>2, <2>3, ForgetFollows
<1>4. CASE SyncAborts
  <2>1. buffer = <<>> /\ stream # "up" /\ todo = <<>>
    BY <1>4 DEF SyncAborts, Follows, Control, Streaming
  <2>2. Unread = {} BY <2>1, EmptyFacts DEF Unread
  <2>3. /\ UNCHANGED <<buffer, stream, todo>> /\ queue' = <<>>
        /\ lost' = [c \in ChanPoints |-> IF c \in Outstanding THEN "failed" ELSE lost[c]]
    BY <1>4 DEF SyncAborts
  <2>4. QED BY <1>1, <2>1, <2>2, <2>3, ForgetFollows
<1>5. QED BY <1>2, <1>3, <1>4

\* Giving up the rest of a channel or an event keeps the invariant.
LEMMA GiveUpFollows ==
  ASSUME Follows, Typed, StepFails \/ UnknownChannel
  PROVE  Follows'
<1>1. /\ todo # <<>> /\ (todo' = <<>> \/ todo' = Tail(todo))
      /\ UNCHANGED <<lnd, channels, events, buffer, queue, stream, pc, back>>
  BY DEF StepFails, UnknownChannel, storeVars, lndVars
<1>2. Head(todo).chan \in ChanPoints
  <2>1. Head(todo) \in Steps BY <1>1, SeqOps DEF Typed, WorkOK
  <2>2. QED BY <2>1 DEF Steps
<1>3. CASE StepFails
  BY <1>1, <1>2, <1>3, DropFollows DEF StepFails, Typed, ScalarsOK
<1>4. CASE UnknownChannel
  <2>1. lost' = lost BY <1>4 DEF UnknownChannel, lndVars
  <2>2. lost[Head(todo).chan] # "no"
    BY <1>1, <1>2, <1>4 DEF UnknownChannel, Follows, ChannelInv, AddedFirst, Registered, HasAdd
  <2>3. QED BY <1>1, <2>1, <2>2, DropFollows
<1>5. QED BY <1>3, <1>4

\* Every step keeps the invariant.
LEMMA NextFollows ==
  ASSUME Follows, Typed, [Next]_vars
  PROVE  Follows'
BY LndFollows, StillFollows, PruneStepFollows, LossFollows, GiveUpFollows, ListsFollow,
   NextChannelFollows, ReceiveFollows, RunStepFollows DEF Next, Loop

\* The invariant behind the tracking of lnd always holds.
LEMMA FollowsInvariance == Spec => []Follows
<1>1. Init => Follows BY InitFollows
<1>2. WorkOK /\ StoreInv /\ ScalarsOK /\ Follows /\ [Next]_vars => Follows'
  BY NextFollows DEF Typed
<1>3. QED BY <1>1, <1>2, WorkInvariance, StoreInvariance, ScalarsInvariance, PTL DEF Spec

-----------------------------------------------------------------------------
(* The theorems. *)

\* When the monitor has caught up, there is no latest word but the rows.
LEMMA CaughtUp ==
  ASSUME Follows, Quiescent, NEW c \in ChanPoints, lost[c] = "no"
  PROVE  /\ Registered(c) <=> Confirmed(c)
         /\ \A f \in Facets : RowsFit(f, c)
<1>1. buffer = <<>> /\ todo = <<>> /\ queue = <<>>
  BY DEF Quiescent, Selecting, Follows, Control
<1>2. ~HasAdd(c) /\ ~HasTask(c) /\ OpenSent(c) = {}
  BY <1>1, EmptyFacts DEF HasAdd, HasTask, OpenSent
<1>3. Confirmed(c) => Registered(c)
  BY <1>2 DEF Follows, ChannelInv, AddedFirst
<1>4. Registered(c) => Confirmed(c)
  BY DEF Registered, Store!GetChannel, Follows, OnlyConfirmed
<1>5. ASSUME NEW f \in Facets PROVE RowsFit(f, c)
  <2>1. Sent(f, c) = {} /\ NoWork(f, c) BY <1>1, EmptyFacts DEF Sent, NoWork, StepsOf
  <2>2. QED BY <2>1 DEF Follows, ChannelInv, Latest
<1>6. QED BY <1>3, <1>4, <1>5

\* Whenever the monitor has caught up with the stream, a channel of which
\* nothing was lost is registered exactly when it has confirmed, and its newest
\* online or offline row says what lnd says: across syncs, live events, prunes,
\* failed calls, crashes and reconnects in any order.
THEOREM StatusFollowsLnd == Spec => []StatusTracksLnd
<1>1. ASSUME Follows PROVE StatusTracksLnd
  <2>1. SUFFICES ASSUME Quiescent, NEW c \in ChanPoints, lost[c] = "no" PROVE StatusTracks(c)
    BY DEF StatusTracksLnd
  <2>2. Registered(c) <=> Confirmed(c) BY <1>1, <2>1, CaughtUp
  <2>3. RowsFit("status", c) BY <1>1, <2>1, CaughtUp DEF Facets
  <2>4. QED BY <2>2, <2>3 DEF StatusTracks, Confirmed, RowsFit, Fits, Ops
<1>2. QED BY <1>1, FollowsInvariance, PTL

\* ... and the newest update row of an open channel carries lnd's balances.
THEOREM BalanceFollowsLnd == Spec => []BalanceTracksLnd
<1>1. ASSUME Follows PROVE BalanceTracksLnd
  <2>1. SUFFICES ASSUME Quiescent, NEW c \in ChanPoints, lost[c] = "no", c \in Open,
                        NEW e \in Newest(c, {"update"})
                 PROVE  e.bal = lnd[c].bal
    BY DEF BalanceTracksLnd
  <2>2. RowsFit("balance", c) BY <1>1, <2>1, CaughtUp DEF Facets
  <2>3. QED BY <2>1, <2>2 DEF RowsFit, Fits, Ops
<1>2. QED BY <1>1, FollowsInvariance, PTL
=============================================================================
