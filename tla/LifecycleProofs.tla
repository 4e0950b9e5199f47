-------------------------- MODULE LifecycleProofs --------------------------
(***************************************************************************)
(* Proofs about Lifecycle, for an instance that one caller starts and      *)
(* stops, as Main and a parent process do, however often it calls and      *)
(* whichever step of a start fails.                                        *)
(***************************************************************************)
EXTENDS Lifecycle, TLAPS

-----------------------------------------------------------------------------
(* The inductive invariant, for the caller p: what is held and which fields   *)
(* are set at each step of Start and of Stop.                                *)

\* The shape of an instance that runs, or that Stop has not yet taken apart.
Base ==
  /\ {"lnd", "stores", "monitor", "ctxCancel"} \subseteq fields
  /\ {"lnd", "db"} \subseteq held
  /\ "macService" \in fields => {"macService", "macDB"} \subseteq held
  /\ "macService" \notin fields => "macService" \notin held /\ "macDB" \notin held

Serving ==
  /\ "grpc" \in held => "grpcServer" \in fields
  /\ "rest" \in held => "restServer" \in fields

NobodyTold == told = {} /\ ~ctxDone /\ ~quit

\* Before a start.
Unstarted(p) ==
  outcome = "new" /\ at[p] \in {"idle", "load", "cas"} =>
    /\ ~started /\ ~stopped /\ held = {} /\ fields = {} /\ ~lndOwned /\ NobodyTold

\* During a start, step by step.
Building == {"macDB", "macService", "macStart", "chain", "open", "migrate", "monitor",
             "grpc", "rest"}

BaseFields(p) == {"lnd"} \cup IF withMac[p] THEN {"macService"} ELSE {}
BaseHeld(p)   == {"lnd"} \cup IF withMac[p] THEN {"macService", "macDB"} ELSE {}

\* What is open, and which fields are set, when a step is about to be taken.
HeldAt(p, step) ==
  CASE step = "connect"                  -> {}
    [] step = "macDB"                    -> {"lnd"}
    [] step \in {"macService", "macStart"} -> {"lnd", "macDB"}
    [] step \in {"chain", "open"}         -> BaseHeld(p)
    [] step \in {"migrate", "monitor"}    -> BaseHeld(p) \cup {"db"}
    [] step \in {"grpc", "rest"}          -> BaseHeld(p) \cup {"db", "loop"}

FieldsAt(p, step) ==
  CASE step = "connect"                     -> {}
    [] step \in {"macDB", "macService"}      -> {"lnd"}
    [] step = "macStart"                    -> {"lnd", "macService"}
    [] step \in {"chain", "open", "migrate"} -> BaseFields(p)
    [] step = "monitor" -> BaseFields(p) \cup {"stores"}
    [] step = "grpc"    -> BaseFields(p) \cup {"stores", "monitor", "ctxCancel"}
    [] step = "rest"    -> BaseFields(p) \cup {"stores", "monitor", "ctxCancel", "grpcServer"}

Starting(p) ==
  at[p] \in Building \cup {"connect"} =>
    /\ started /\ ~stopped /\ outcome = "new" /\ NobodyTold
    /\ lndOwned <=> mode[p] = "standalone" /\ at[p] # "connect"
    /\ at[p] \in {"connect", "grpc", "rest"} => mode[p] = "standalone"
    /\ at[p] \in {"macDB", "macService", "macStart"} => withMac[p]
    /\ held = HeldAt(p, at[p]) /\ fields = FieldsAt(p, at[p])

\* After a start that failed.
Failed(p) ==
  outcome = "failed" \/ at[p] = "fail" =>
    /\ stopped /\ NobodyTold
    /\ held \cap {"grpc", "rest"} = {}
    /\ "loop" \in held => "db" \in held
    /\ "macService" \in held => "macDB" \in held
    /\ "lnd" \in held <=> "lnd" \in fields /\ ~lndOwned
    /\ outcome = "failed" => ~started /\ at[p] \in {"idle", "load"}
    /\ at[p] = "fail" => outcome = "new"

\* While the instance runs.
Running(p) ==
  outcome = "running" =>
    /\ at[p] \in {"idle", "load", "cas"} \cup StopSteps
    /\ at[p] \in {"idle", "load", "cas"} => started /\ "loop" \in held
    /\ at[p] \in {"idle", "load", "cas", "mark"} => ~stopped
    /\ at[p] \in {"idle", "load", "cas", "mark", "stopRPC"} =>
         Base /\ Serving /\ NobodyTold

\* During a Stop, step by step.
Stopping(p) ==
  at[p] \in StopSteps =>
    /\ outcome = "running" /\ ~started
    /\ at[p] # "mark" => stopped
    /\ at[p] \in {"waitServe", "cancel", "stopMonitor", "waitMonitor", "closeStores"} => Base
    /\ at[p] = "waitServe" => Serving
    /\ at[p] \notin {"mark", "stopRPC", "waitServe"} => held \cap {"grpc", "rest"} = {}
    /\ at[p] \in {"closeStores", "stopMac", "closeMac", "closeLnd"} => "loop" \notin held
    /\ at[p] = "stopMac"  => held = {"lnd", "macService", "macDB"}
    /\ at[p] = "closeMac" => held = {"lnd", "macDB"}
    /\ at[p] = "closeLnd" => held = {"lnd"}
    /\ "lnd" \in fields

\* After a Stop.
Stopped(p) ==
  outcome = "stopped" =>
    /\ stopped /\ ~started /\ at[p] \in {"idle", "load"}
    /\ held = IF lndOwned THEN {} ELSE {"lnd"}

\* A caller that is past the check of the stopped flag found it unset.
LifeInv(p) ==
  /\ TypeOK
  /\ mode[p] = "standalone" => withMac[p]
  /\ at[p] = "cas" => ~stopped
  /\ Unstarted(p)
  /\ Starting(p)
  /\ Failed(p)
  /\ Running(p)
  /\ Stopping(p)
  /\ Stopped(p)

-----------------------------------------------------------------------------
(* The invariant is inductive: one step per operation. *)

\* A fresh instance satisfies the invariant.
LEMMA InitLife ==
  ASSUME NEW p, Callers = {p}, Init
  PROVE  LifeInv(p)
<1>1. TypeOK
  <2>1. calls \in 0..MaxCalls BY LifecycleAssumption DEF Init
  <2>2. mode \in [Callers -> {"standalone", "subserver"}] /\ withMac \in [Callers -> BOOLEAN]
    BY DEF Init
  <2>3. {started, stopped, lndOwned, ctxDone, quit} \subseteq BOOLEAN BY DEF Init
  <2>4. at \in [Callers -> StartSteps \cup StopSteps \cup {"idle"}] BY DEF Init
  <2>5. QED BY <2>1, <2>2, <2>3, <2>4 DEF Init, TypeOK
<1>2. Unstarted(p) /\ Starting(p) /\ Failed(p)
  BY DEF Init, Unstarted, Starting, Failed, NobodyTold, Building
<1>3. Running(p) /\ Stopping(p) /\ Stopped(p)
  BY DEF Init, Running, Stopping, Stopped, StopSteps
<1>4. QED BY <1>1, <1>2, <1>3 DEF Init, LifeInv

\* A step of a start that leads to another one.
LEMMA StepBuilds ==
  ASSUME NEW p, Callers = {p}, LifeInv(p),
         NEW step \in Building \cup {"connect"}, NEW next \in Building,
         at[p] = step, Goto(p, next),
         UNCHANGED <<flags, told, ctxDone, quit, mode, withMac, calls, outcome>>,
         lndOwned' <=> mode[p] = "standalone",
         next \in {"grpc", "rest"} => mode[p] = "standalone",
         next \in {"macDB", "macService", "macStart"} => withMac[p],
         held' = HeldAt(p, next), fields' = FieldsAt(p, next)
  PROVE  LifeInv(p)'
<1>1. /\ started /\ ~stopped /\ outcome = "new" /\ NobodyTold
      /\ mode[p] = "standalone" => withMac[p]
  BY DEF LifeInv, Starting
<1>2. /\ at'[p] = next /\ started' /\ ~stopped' /\ outcome' = "new" /\ NobodyTold'
      /\ at' \in [Callers -> StartSteps \cup StopSteps \cup {"idle"}]
  BY <1>1 DEF LifeInv, TypeOK, Goto, Building, StartSteps, NobodyTold, flags
<1>3. HeldAt(p, next)' = HeldAt(p, next) /\ FieldsAt(p, next)' = FieldsAt(p, next)
  BY DEF HeldAt, FieldsAt, BaseHeld, BaseFields
<1>4. Starting(p)'
  BY <1>2, <1>3 DEF Starting, Building
<1>5. TypeOK'
  <2>1. /\ held' \subseteq Resources /\ ("macService" \in held' => "macDB" \in held')
    BY DEF HeldAt, BaseHeld, Building, Resources
  <2>2. fields' \subseteq {"lnd", "macService", "stores", "monitor", "ctxCancel",
                          "grpcServer", "restServer"}
    BY DEF FieldsAt, BaseFields, Building
  <2>3. {started', stopped', lndOwned', ctxDone', quit'} \subseteq BOOLEAN
    BY DEF LifeInv, TypeOK, flags
  <2> QED BY <1>2, <2>1, <2>2, <2>3 DEF LifeInv, TypeOK
<1>6. Unstarted(p)' /\ Failed(p)' /\ Running(p)' /\ Stopping(p)' /\ Stopped(p)'
  BY <1>2 DEF Unstarted, Failed, Running, Stopping, Stopped, Building, StopSteps
<1>7. QED BY <1>1, <1>2, <1>4, <1>5, <1>6 DEF LifeInv, Building

\* The steps of a start up to the monitor keep the invariant.
LEMMA BuildLife ==
  ASSUME NEW p, Callers = {p}, LifeInv(p), Connect(p) \/ Initialize(p) \/ NewStores(p)
  PROVE  LifeInv(p)'
<1>1. CASE Connect(p)
  <2>1. Advance(p, "connect", {"lnd"}, {"lnd"}, "macDB")
    BY <1>1 DEF Connect
  <2>2. held = {} /\ fields = {} /\ mode[p] = "standalone" /\ withMac[p]
    BY <2>1 DEF LifeInv, Advance, Starting, HeldAt, FieldsAt
  <2>3. held' = HeldAt(p, "macDB") /\ fields' = FieldsAt(p, "macDB")
    BY <2>1, <2>2 DEF Advance, HeldAt, FieldsAt
  <2> QED BY <1>1, <2>1, <2>2, <2>3, StepBuilds DEF Connect, Advance, Building
<1>2. CASE Initialize(p)
  <2>1. CASE Advance(p, "macDB", {"macDB"}, {}, "macService")
    <3>1. /\ held = HeldAt(p, "macDB") /\ fields = FieldsAt(p, "macDB")
          /\ lndOwned <=> mode[p] = "standalone"
          /\ withMac[p]
      BY <2>1 DEF LifeInv, Advance, Starting, Building
    <3>2. held' = HeldAt(p, "macService") /\ fields' = FieldsAt(p, "macService")
      BY <2>1, <3>1 DEF Advance, HeldAt, FieldsAt, BaseHeld, BaseFields
    <3> QED BY <1>2, <2>1, <3>1, <3>2, StepBuilds DEF Initialize, Advance, Building
  <2>2. CASE Advance(p, "macService", {}, {"macService"}, "macStart")
    <3>1. /\ held = HeldAt(p, "macService") /\ fields = FieldsAt(p, "macService")
          /\ lndOwned <=> mode[p] = "standalone"
          /\ withMac[p]
      BY <2>2 DEF LifeInv, Advance, Starting, Building
    <3>2. held' = HeldAt(p, "macStart") /\ fields' = FieldsAt(p, "macStart")
      BY <2>2, <3>1 DEF Advance, HeldAt, FieldsAt, BaseHeld, BaseFields
    <3> QED BY <1>2, <2>2, <3>1, <3>2, StepBuilds DEF Initialize, Advance, Building
  <2>3. CASE Advance(p, "macStart", {"macService"}, {}, "chain")
    <3>1. /\ held = HeldAt(p, "macStart") /\ fields = FieldsAt(p, "macStart")
          /\ lndOwned <=> mode[p] = "standalone"
          /\ withMac[p]
      BY <2>3 DEF LifeInv, Advance, Starting, Building
    <3>2. held' = HeldAt(p, "chain") /\ fields' = FieldsAt(p, "chain")
      BY <2>3, <3>1 DEF Advance, HeldAt, FieldsAt, BaseHeld, BaseFields
    <3> QED BY <1>2, <2>3, <3>1, <3>2, StepBuilds DEF Initialize, Advance, Building
  <2>4. CASE Advance(p, "chain", {}, {}, "open")
    <3>1. /\ held = HeldAt(p, "chain") /\ fields = FieldsAt(p, "chain")
          /\ lndOwned <=> mode[p] = "standalone"
      BY <2>4 DEF LifeInv, Advance, Starting, Building
    <3>2. held' = HeldAt(p, "open") /\ fields' = FieldsAt(p, "open")
      BY <2>4, <3>1 DEF Advance, HeldAt, FieldsAt, BaseHeld, BaseFields
    <3> QED BY <1>2, <2>4, <3>1, <3>2, StepBuilds DEF Initialize, Advance, Building
  <2> QED BY <1>2, <2>1, <2>2, <2>3, <2>4 DEF Initialize
<1>3. CASE NewStores(p)
  <2>1. CASE Advance(p, "open", {"db"}, {}, "migrate")
    <3>1. /\ held = HeldAt(p, "open") /\ fields = FieldsAt(p, "open")
          /\ lndOwned <=> mode[p] = "standalone"
      BY <2>1 DEF LifeInv, Advance, Starting, Building
    <3>2. held' = HeldAt(p, "migrate") /\ fields' = FieldsAt(p, "migrate")
      BY <2>1, <3>1 DEF Advance, HeldAt, FieldsAt, BaseHeld, BaseFields
    <3> QED BY <1>3, <2>1, <3>1, <3>2, StepBuilds DEF NewStores, Advance, Building
  <2>2. CASE Advance(p, "migrate", {}, {"stores"}, "monitor")
    <3>1. /\ held = HeldAt(p, "migrate") /\ fields = FieldsAt(p, "migrate")
          /\ lndOwned <=> mode[p] = "standalone"
      BY <2>2 DEF LifeInv, Advance, Starting, Building
    <3>2. held' = HeldAt(p, "monitor") /\ fields' = FieldsAt(p, "monitor")
      BY <2>2, <3>1 DEF Advance, HeldAt, FieldsAt, BaseHeld, BaseFields
    <3> QED BY <1>3, <2>2, <3>1, <3>2, StepBuilds DEF NewStores, Advance, Building
  <2> QED BY <1>3, <2>1, <2>2 DEF NewStores
<1>4. QED BY <1>1, <1>2, <1>3

\* Every step of a start keeps the invariant.
LEMMA StartLife ==
  ASSUME NEW p, Callers = {p}, LifeInv(p), CallStart(p) \/ StartStep(p)
  PROVE  LifeInv(p)'
<1> USE LifecycleAssumption DEF LifeInv, TypeOK, Goto, StartSteps, StopSteps, Building, Resources,
         Base, Serving, NobodyTold, BaseHeld, BaseFields,
         HeldAt, FieldsAt
<1>1. CASE CallStart(p)
  <2>a0. calls' \in 0..MaxCalls BY <1>1, LifecycleAssumption DEF CallStart
  <2>a1. mode' \in [Callers -> {"standalone", "subserver"}] /\ withMac' \in [Callers -> BOOLEAN]
    <3>1. mode \in [Callers -> {"standalone", "subserver"}] /\ withMac \in [Callers -> BOOLEAN]
      OBVIOUS
    <3>2. \/ mode' = [mode EXCEPT ![p] = "standalone"] /\ withMac' = [withMac EXCEPT ![p] = TRUE]
          \/ \E m \in BOOLEAN : /\ mode' = [mode EXCEPT ![p] = "subserver"]
                                /\ withMac' = [withMac EXCEPT ![p] = m]
      BY <1>1 DEF CallStart
    <3> QED BY ONLY <3>1, <3>2
  <2>a2. (mode[p] = "standalone" => withMac[p])' BY <1>1 DEF CallStart
  <2> USE <1>1, <2>a0, <2>a1, <2>a2 DEF CallStart, flags, object,
      Unstarted, Starting, Failed, Running, Stopping, Stopped
  <2>1. TypeOK' OBVIOUS
  <2>2. Unstarted(p)' OBVIOUS
  <2>3. Starting(p)' OBVIOUS
  <2>4. Failed(p)' OBVIOUS
  <2>5. Running(p)' OBVIOUS
  <2>6. Stopping(p)' OBVIOUS
  <2>7. Stopped(p)' OBVIOUS
  <2>8. QED BY <2>1, <2>2, <2>3, <2>4, <2>5, <2>6, <2>7
<1>2. CASE LoadStopped(p)
  BY <1>2 DEF LoadStopped, flags, object,
      Unstarted, Starting, Failed, Running, Stopping, Stopped
<1>3. CASE SwapStarted(p)
  <2>1. CASE started
    <3> USE <2>1, <1>3 DEF SwapStarted,
      Unstarted, Starting, Failed, Running, Stopping, Stopped
    <3>1. TypeOK' OBVIOUS
    <3>2. Unstarted(p)' OBVIOUS
    <3>3. Starting(p)' OBVIOUS
    <3>4. Failed(p)' OBVIOUS
    <3>5. Running(p)' OBVIOUS
    <3>6. Stopping(p)' OBVIOUS
    <3>7. Stopped(p)' OBVIOUS
    <3>8. QED BY <3>1, <3>2, <3>3, <3>4, <3>5, <3>6, <3>7
  <2>2. CASE ~started /\ mode[p] = "standalone"
    <3> USE <2>2, <1>3 DEF SwapStarted,
      Unstarted, Starting, Failed, Running, Stopping, Stopped
    <3>1. TypeOK' OBVIOUS
    <3>2. Unstarted(p)' OBVIOUS
    <3>3. Starting(p)' OBVIOUS
    <3>4. Failed(p)' OBVIOUS
    <3>5. Running(p)' OBVIOUS
    <3>6. Stopping(p)' OBVIOUS
    <3>7. Stopped(p)' OBVIOUS
    <3>8. QED BY <3>1, <3>2, <3>3, <3>4, <3>5, <3>6, <3>7
  <2>3. CASE ~started /\ mode[p] = "subserver" /\ withMac[p]
    <3> USE <2>3, <1>3 DEF SwapStarted,
      Unstarted, Starting, Failed, Running, Stopping, Stopped
    <3>1. TypeOK' OBVIOUS
    <3>2. Unstarted(p)' OBVIOUS
    <3>3. Starting(p)' OBVIOUS
    <3>4. Failed(p)' OBVIOUS
    <3>5. Running(p)' OBVIOUS
    <3>6. Stopping(p)' OBVIOUS
    <3>7. Stopped(p)' OBVIOUS
    <3>8. QED BY <3>1, <3>2, <3>3, <3>4, <3>5, <3>6, <3>7
  <2>4. CASE ~started /\ mode[p] = "subserver" /\ ~withMac[p]
    <3> USE <2>4, <1>3 DEF SwapStarted,
      Unstarted, Starting, Failed, Running, Stopping, Stopped
    <3>1. TypeOK' OBVIOUS
    <3>2. Unstarted(p)' OBVIOUS
    <3>3. Starting(p)' OBVIOUS
    <3>4. Failed(p)' OBVIOUS
    <3>5. Running(p)' OBVIOUS
    <3>6. Stopping(p)' OBVIOUS
    <3>7. Stopped(p)' OBVIOUS
    <3>8. QED BY <3>1, <3>2, <3>3, <3>4, <3>5, <3>6, <3>7
  <2>5. QED BY <1>3, <2>1, <2>2, <2>3, <2>4 DEF SwapStarted
<1>4. CASE Connect(p) \/ Initialize(p) \/ NewStores(p)
  BY <1>4, BuildLife
<1>7. CASE StartMonitor(p)
  BY <1>7 DEF StartMonitor, Advance, flags,
      Unstarted, Starting, Failed, Running, Stopping, Stopped
<1>8. CASE Listen(p)
  <2> USE <1>8 DEF Listen, Advance, flags,
      Unstarted, Starting, Failed, Running, Stopping, Stopped
  <2>1. TypeOK' OBVIOUS
  <2>2. Unstarted(p)' OBVIOUS
  <2>3. Starting(p)' OBVIOUS
  <2>4. Failed(p)' OBVIOUS
  <2>5. Running(p)' OBVIOUS
  <2>6. Stopping(p)' OBVIOUS
  <2>7. Stopped(p)' OBVIOUS
  <2>8. QED BY <2>1, <2>2, <2>3, <2>4, <2>5, <2>6, <2>7
<1>9. CASE Serve(p)
  <2>a0. Base' /\ Serving' BY <1>9 DEF Serve, Advance, Starting
  <2>a1. started /\ ~stopped /\ "loop" \in held /\ NobodyTold BY <1>9 DEF Serve, Advance, Starting
  <2>a2. "loop" \in held' BY <1>9, <2>a1 DEF Serve, Advance
  <2>a5. started' = started /\ stopped' = stopped BY <1>9 DEF Serve, Advance, flags
  <2>a3. at'[p] = "idle" BY <1>9 DEF Serve, Advance
  <2>a4. NobodyTold' BY <1>9, <2>a1 DEF Serve, Advance
  <2> USE <1>9, <2>a0, <2>a1, <2>a2, <2>a3, <2>a4, <2>a5 DEF Serve, Advance, flags,
      Unstarted, Starting, Failed, Running, Stopping, Stopped
  <2>1. TypeOK' OBVIOUS
  <2>2. Unstarted(p)' OBVIOUS
  <2>3. Starting(p)' OBVIOUS
  <2>4. Failed(p)' OBVIOUS
  <2>5. Running(p)' OBVIOUS
  <2>6. Stopping(p)' OBVIOUS
  <2>7. Stopped(p)' OBVIOUS
  <2>8. QED BY <2>1, <2>2, <2>3, <2>4, <2>5, <2>6, <2>7
<1>10. CASE StepFails(p)
  BY <1>10 DEF StepFails, CleanedUp,
      Unstarted, Starting, Failed, Running, Stopping, Stopped
<1>11. CASE StartFailed(p)
  BY <1>11 DEF StartFailed, object,
      Unstarted, Starting, Failed, Running, Stopping, Stopped
<1>12. QED BY <1>1, <1>2, <1>3, <1>4, <1>7, <1>8, <1>9, <1>10, <1>11 DEF StartStep

\* Every step of a stop keeps the invariant.
LEMMA StopLife ==
  ASSUME NEW p, Callers = {p}, LifeInv(p), CallStop(p) \/ StopStep(p)
  PROVE  LifeInv(p)'
<1> USE LifecycleAssumption DEF LifeInv, TypeOK, Goto, StartSteps, StopSteps, Building, Resources,
         Base, Serving, NobodyTold, BaseHeld, BaseFields
<1>1. CASE CallStop(p)
  <2>a0. calls' \in 0..MaxCalls BY <1>1, LifecycleAssumption DEF CallStop
  <2> USE <1>1, <2>a0 DEF CallStop, object,
      Unstarted, Starting, Failed, Running, Stopping, Stopped
  <2>1. TypeOK' OBVIOUS
  <2>2. Unstarted(p)' OBVIOUS
  <2>3. Starting(p)' OBVIOUS
  <2>4. Failed(p)' OBVIOUS
  <2>5. Running(p)' OBVIOUS
  <2>6. Stopping(p)' OBVIOUS
  <2>7. Stopped(p)' OBVIOUS
  <2>8. QED BY <2>1, <2>2, <2>3, <2>4, <2>5, <2>6, <2>7
<1>2. CASE MarkStopped(p)
  <2> USE <1>2 DEF MarkStopped, object,
      Unstarted, Starting, Failed, Running, Stopping, Stopped
  <2>1. TypeOK' OBVIOUS
  <2>2. Unstarted(p)' OBVIOUS
  <2>3. Starting(p)' OBVIOUS
  <2>4. Failed(p)' OBVIOUS
  <2>5. Running(p)' OBVIOUS
  <2>6. Stopping(p)' OBVIOUS
  <2>7. Stopped(p)' OBVIOUS
  <2>8. QED BY <2>1, <2>2, <2>3, <2>4, <2>5, <2>6, <2>7
<1>3. CASE StopRPC(p)
  <2> USE <1>3 DEF StopRPC, Proceed, flags,
      Unstarted, Starting, Failed, Running, Stopping, Stopped
  <2>1. TypeOK' OBVIOUS
  <2>2. Unstarted(p)' OBVIOUS
  <2>3. Starting(p)' OBVIOUS
  <2>4. Failed(p)' OBVIOUS
  <2>5. Running(p)' OBVIOUS
  <2>6. Stopping(p)' OBVIOUS
  <2>7. Stopped(p)' OBVIOUS
  <2>8. QED BY <2>1, <2>2, <2>3, <2>4, <2>5, <2>6, <2>7
<1>4. CASE WaitServe(p)
  <2> USE <1>4 DEF WaitServe, Proceed, flags,
      Unstarted, Starting, Failed, Running, Stopping, Stopped
  <2>1. TypeOK' OBVIOUS
  <2>2. Unstarted(p)' OBVIOUS
  <2>3. Starting(p)' OBVIOUS
  <2>4. Failed(p)' OBVIOUS
  <2>5. Running(p)' OBVIOUS
  <2>6. Stopping(p)' OBVIOUS
  <2>7. Stopped(p)' OBVIOUS
  <2>8. QED BY <2>1, <2>2, <2>3, <2>4, <2>5, <2>6, <2>7
<1>5. CASE Cancel(p)
  <2> USE <1>5 DEF Cancel, Proceed, flags,
      Unstarted, Starting, Failed, Running, Stopping, Stopped
  <2>1. TypeOK' OBVIOUS
  <2>2. Unstarted(p)' OBVIOUS
  <2>3. Starting(p)' OBVIOUS
  <2>4. Failed(p)' OBVIOUS
  <2>5. Running(p)' OBVIOUS
  <2>6. Stopping(p)' OBVIOUS
  <2>7. Stopped(p)' OBVIOUS
  <2>8. QED BY <2>1, <2>2, <2>3, <2>4, <2>5, <2>6, <2>7
<1>6. CASE StopMonitor(p)
  <2> USE <1>6 DEF StopMonitor, Proceed, flags,
      Unstarted, Starting, Failed, Running, Stopping, Stopped
  <2>1. TypeOK' OBVIOUS
  <2>2. Unstarted(p)' OBVIOUS
  <2>3. Starting(p)' OBVIOUS
  <2>4. Failed(p)' OBVIOUS
  <2>5. Running(p)' OBVIOUS
  <2>6. Stopping(p)' OBVIOUS
  <2>7. Stopped(p)' OBVIOUS
  <2>8. QED BY <2>1, <2>2, <2>3, <2>4, <2>5, <2>6, <2>7
<1>7. CASE WaitMonitor(p)
  <2> USE <1>7 DEF WaitMonitor, Proceed, flags,
      Unstarted, Starting, Failed, Running, Stopping, Stopped
  <2>1. TypeOK' OBVIOUS
  <2>2. Unstarted(p)' OBVIOUS
  <2>3. Starting(p)' OBVIOUS
  <2>4. Failed(p)' OBVIOUS
  <2>5. Running(p)' OBVIOUS
  <2>6. Stopping(p)' OBVIOUS
  <2>7. Stopped(p)' OBVIOUS
  <2>8. QED BY <2>1, <2>2, <2>3, <2>4, <2>5, <2>6, <2>7
<1>8. CASE CloseStores(p)
  <2>1. CASE "macService" \in fields
    <3>a0. held' = {"lnd", "macService", "macDB"} BY <1>8, <2>1 DEF CloseStores, Proceed, Stopping
    <3>a1. at'[p] = "stopMac" BY <1>8, <2>1 DEF CloseStores, Proceed
    <3> USE <2>1, <1>8, <3>a0, <3>a1 DEF CloseStores, Proceed, flags,
      Unstarted, Starting, Failed, Running, Stopping, Stopped
    <3>1. TypeOK' OBVIOUS
    <3>2. Unstarted(p)' OBVIOUS
    <3>3. Starting(p)' OBVIOUS
    <3>4. Failed(p)' OBVIOUS
    <3>5. Running(p)' OBVIOUS
    <3>6. Stopping(p)' OBVIOUS
    <3>7. Stopped(p)' OBVIOUS
    <3>8. QED BY <3>1, <3>2, <3>3, <3>4, <3>5, <3>6, <3>7
  <2>2. CASE "macService" \notin fields
    <3>a0. held' = {"lnd"} BY <1>8, <2>2 DEF CloseStores, Proceed, Stopping
    <3>a1. at'[p] = "closeLnd" BY <1>8, <2>2 DEF CloseStores, Proceed
    <3> USE <2>2, <1>8, <3>a0, <3>a1 DEF CloseStores, Proceed, flags,
      Unstarted, Starting, Failed, Running, Stopping, Stopped
    <3>1. TypeOK' OBVIOUS
    <3>2. Unstarted(p)' OBVIOUS
    <3>3. Starting(p)' OBVIOUS
    <3>4. Failed(p)' OBVIOUS
    <3>5. Running(p)' OBVIOUS
    <3>6. Stopping(p)' OBVIOUS
    <3>7. Stopped(p)' OBVIOUS
    <3>8. QED BY <3>1, <3>2, <3>3, <3>4, <3>5, <3>6, <3>7
  <2>3. QED BY <1>8, <2>1, <2>2 DEF CloseStores, Proceed, flags
<1>9. CASE StopMacaroons(p)
  BY <1>9 DEF StopMacaroons, Proceed, flags,
      Unstarted, Starting, Failed, Running, Stopping, Stopped
<1>10. CASE CloseMacaroonDB(p)
  BY <1>10 DEF CloseMacaroonDB, Proceed, flags,
      Unstarted, Starting, Failed, Running, Stopping, Stopped
<1>11. CASE CloseLnd(p)
  BY <1>11 DEF CloseLnd, Proceed, flags,
      Unstarted, Starting, Failed, Running, Stopping, Stopped
<1>12. QED BY <1>1, <1>2, <1>3, <1>4, <1>5, <1>6, <1>7, <1>8, <1>9, <1>10, <1>11 DEF StopStep

\* The end of a goroutine keeps the invariant.
LEMMA GoroutineLife ==
  ASSUME NEW p, Callers = {p}, LifeInv(p), ServeEnds \/ LoopEnds
  PROVE  LifeInv(p)'
<1> USE LifecycleAssumption DEF LifeInv, TypeOK
<1>1. CASE ServeEnds
  BY <1>1 DEF ServeEnds, flags, Unstarted, Starting, Failed, Running, Stopping, Stopped,
     NobodyTold, Building, StopSteps, Base, Serving, Resources
<1>2. CASE LoopEnds
  BY <1>2 DEF LoopEnds, flags, Unstarted, Starting, Failed, Running, Stopping, Stopped,
     NobodyTold, Building, StopSteps, Base, Serving, Resources
<1>3. QED BY <1>1, <1>2

\* The invariant of the life cycle always holds.
LEMMA LifeInvariance ==
  ASSUME NEW p, Callers = {p}
  PROVE  Spec => []LifeInv(p)
<1>1. Init => LifeInv(p) BY InitLife
<1>2. LifeInv(p) /\ [Next]_vars => LifeInv(p)'
  <2>1. ASSUME LifeInv(p), UNCHANGED vars PROVE LifeInv(p)'
    BY <2>1 DEF vars, flags, object, LifeInv, TypeOK, Unstarted, Starting, Failed, Running,
       Stopping, Stopped, NobodyTold, Building, StopSteps, StartSteps, Base, Serving, BaseHeld,
       BaseFields, HeldAt, FieldsAt, Resources
  <2>2. QED BY <2>1, StartLife, StopLife, GoroutineLife DEF Next
<1>3. QED BY <1>1, <1>2, PTL DEF Spec

-----------------------------------------------------------------------------
(* The theorems, for an instance with one caller. *)

\* The variables keep their types and the macaroon service is never left
\* running over a closed database, in whichever step a start fails and however
\* far a Stop has come.
THEOREM LifeTypeCorrect ==
  ASSUME NEW p, Callers = {p}
  PROVE  Spec => []TypeOK
<1>1. LifeInv(p) => TypeOK BY DEF LifeInv
<1>2. QED BY <1>1, LifeInvariance, PTL

\* The monitor's goroutine and the two servers never outlive the database they
\* use: Stop waits for both before it closes the stores, and a failing start
\* that leaves the monitor running leaves its database open too.
THEOREM UsersStopBeforeStores ==
  ASSUME NEW p, Callers = {p}
  PROVE  Spec => []UsersBeforeStores
<1>1. ASSUME LifeInv(p) PROVE UsersBeforeStores
  <2>1. SUFFICES ASSUME held \cap {"loop", "grpc", "rest"} # {} PROVE "db" \in held
    BY DEF UsersBeforeStores
  <2>2. at[p] \in StartSteps \cup StopSteps \cup {"idle"}
    BY <1>1 DEF LifeInv, TypeOK
  <2>3. CASE outcome = "stopped"
    BY <1>1, <2>1, <2>3 DEF LifeInv, Stopped
  <2>4. CASE outcome = "failed" \/ at[p] = "fail"
    BY <1>1, <2>1, <2>4 DEF LifeInv, Failed
  <2>5. CASE outcome = "running"
    BY <1>1, <2>1, <2>5 DEF LifeInv, Running, Stopping, StopSteps, Base
  <2>6. CASE outcome = "new" /\ at[p] # "fail"
    <3>1. at[p] \notin StopSteps BY <1>1, <2>6 DEF LifeInv, Stopping
    <3>2. CASE at[p] \in {"idle", "load", "cas"}
      BY <1>1, <2>1, <2>6, <3>2 DEF LifeInv, Unstarted
    <3>3. CASE at[p] \in Building \cup {"connect"}
      BY <1>1, <2>1, <3>3 DEF LifeInv, Starting, Building, BaseHeld, HeldAt
    <3>4. QED BY <2>2, <2>6, <3>1, <3>2, <3>3 DEF StartSteps, Building
  <2>7. QED BY <1>1, <2>3, <2>4, <2>5, <2>6 DEF LifeInv, TypeOK
<1>2. QED BY <1>1, LifeInvariance, PTL

\* When Stop has returned nothing that the instance opened is left open, and a
\* start that failed has closed the lnd connection exactly when it is its own.
THEOREM EverythingReleased ==
  ASSUME NEW p, Callers = {p}
  PROVE  Spec => []ReleasedWhenOver
<1>1. LifeInv(p) => ReleasedWhenOver BY DEF LifeInv, Stopped, Failed, ReleasedWhenOver
<1>2. QED BY <1>1, LifeInvariance, PTL
=============================================================================
