----------------------------- MODULE Lifecycle -----------------------------
(***************************************************************************)
(* The life of a Faraday instance (faraday.go): Start or StartAsSubserver  *)
(* builds the dependencies one by one, any of which may fail, and Stop     *)
(* takes them down in order while the monitor goroutine and the serve      *)
(* goroutines are still running.                                           *)
(*                                                                         *)
(* One step is one dependency built or released, or one access of the two  *)
(* atomic flags that guard the instance against being started twice or     *)
(* reused.  One caller is how Main and a parent process use an instance;   *)
(* the other fields of Faraday are not synchronised.                       *)
(***************************************************************************)
EXTENDS Integers

CONSTANTS
  Callers,     \* goroutines that call Start, StartAsSubserver and Stop
  ChainConn,   \* Config.ChainConn
  MaxCalls     \* bound: calls made

ASSUME LifecycleAssumption == ChainConn \in BOOLEAN /\ MaxCalls \in Nat

\* What an instance may hold open.  "db" is the SQL connection of NewStores
\* and "loop" the monitor's goroutine.
Resources == {"lnd", "macDB", "macService", "db", "loop", "grpc", "rest"}

VARIABLES
  started, stopped,   \* the two atomic flags
  held,       \* the resources that are open
  fields,     \* the fields of Faraday that Stop tests for nil and are not
  lndOwned,   \* Faraday.lndOwned
  ctxDone,    \* ctxCancel was called
  told,       \* the servers that were told to stop
  quit,       \* Monitor.Stop closed its quit channel
  at,         \* per caller, the step it is about to take
  mode,       \* per caller, "standalone" or "subserver"
  withMac,    \* per caller, withMacaroonService
  outcome,    \* history: how the instance's start and stop ended
  calls       \* spent bound

flags  == <<started, stopped>>
object == <<held, fields, lndOwned, told, ctxDone, quit>>
vars   == <<flags, object, at, mode, withMac, outcome, calls>>

Goto(p, label) == at' = [at EXCEPT ![p] = label]

StartSteps == {"load", "cas", "connect", "macDB", "macService", "macStart", "chain",
               "open", "migrate", "monitor", "grpc", "rest", "fail"}
StopSteps  == {"mark", "stopRPC", "waitServe", "cancel", "stopMonitor", "waitMonitor",
               "closeStores", "stopMac", "closeMac", "closeLnd"}

-----------------------------------------------------------------------------
(* Start and StartAsSubserver. *)

\* A caller enters Start, or StartAsSubserver with the parent's connection.
CallStart(p) ==
  /\ at[p] = "idle" /\ calls < MaxCalls
  /\ calls' = calls + 1
  /\ \/ mode' = [mode EXCEPT ![p] = "standalone"] /\ withMac' = [withMac EXCEPT ![p] = TRUE]
     \/ \E m \in BOOLEAN : /\ mode' = [mode EXCEPT ![p] = "subserver"]
                           /\ withMac' = [withMac EXCEPT ![p] = m]
  /\ Goto(p, "load")
  /\ UNCHANGED <<flags, object, outcome>>

\* errServerStopped
LoadStopped(p) ==
  /\ at[p] = "load"
  /\ Goto(p, IF stopped THEN "idle" ELSE "cas")
  /\ UNCHANGED <<flags, object, mode, withMac, outcome, calls>>

\* errServerAlreadyStarted
SwapStarted(p) ==
  /\ at[p] = "cas"
  /\ started' = TRUE
  /\ \/ started /\ Goto(p, "idle") /\ UNCHANGED <<held, fields>>
     \/ ~started /\ mode[p] = "standalone" /\ Goto(p, "connect") /\ UNCHANGED <<held, fields>>
     \/ /\ ~started /\ mode[p] = "subserver"
        /\ held' = held \cup {"lnd"} /\ fields' = fields \cup {"lnd"}
        /\ Goto(p, IF withMac[p] THEN "macDB" ELSE "chain")
  /\ UNCHANGED <<stopped, lndOwned, told, ctxDone, quit, mode, withMac, outcome, calls>>

\* One step of the start succeeds: it opens some resources and sets some fields.
Advance(p, step, opened, set, next) ==
  /\ at[p] = step
  /\ held' = held \cup opened
  /\ fields' = fields \cup set
  /\ Goto(p, next)
  /\ UNCHANGED <<flags, told, ctxDone, quit, mode, withMac, calls>>

Connect(p) ==
  /\ Advance(p, "connect", {"lnd"}, {"lnd"}, "macDB")
  /\ lndOwned' = TRUE
  /\ UNCHANGED outcome

\* initialize, up to the stores.
Initialize(p) ==
  /\ \/ Advance(p, "macDB", {"macDB"}, {}, "macService")
     \/ Advance(p, "macService", {}, {"macService"}, "macStart")
     \/ Advance(p, "macStart", {"macService"}, {}, "chain")
     \/ Advance(p, "chain", {}, {}, "open")
  /\ UNCHANGED <<lndOwned, outcome>>

\* NewStores: open the database, then apply the migrations.
NewStores(p) ==
  /\ \/ Advance(p, "open", {"db"}, {}, "migrate")
     \/ Advance(p, "migrate", {}, {"stores"}, "monitor")
  /\ UNCHANGED <<lndOwned, outcome>>

\* The monitor is new, so its Start cannot find it started already.
StartMonitor(p) ==
  /\ Advance(p, "monitor", {"loop"}, {"monitor", "ctxCancel"},
             IF mode[p] = "standalone" THEN "grpc" ELSE "idle")
  /\ outcome' = IF mode[p] = "standalone" THEN outcome ELSE "running"
  /\ UNCHANGED lndOwned

\* startRPCServer: grpcServer is set before its listener opens, and both
\* servers only begin to serve once REST is set up too.
Listen(p) ==
  /\ Advance(p, "grpc", {}, {"grpcServer"}, "rest")
  /\ UNCHANGED <<lndOwned, outcome>>

Serve(p) ==
  /\ \/ Advance(p, "rest", {"grpc", "rest"}, {"restServer"}, "idle")
     \/ Advance(p, "rest", {"grpc"}, {}, "idle")
  /\ outcome' = "running"
  /\ UNCHANGED lndOwned

\* Mutants of CleanedUp: a failing chain backend leaves the macaroon service
\* running; a failing step closes the lnd connection in either mode.
CleanedUpDBOnly(p, step) ==
  (IF step \in {"macService", "macStart", "chain", "grpc", "rest"} THEN {"macDB"} ELSE {})
    \cup (IF mode[p] = "standalone" THEN {"lnd"} ELSE {})

CleanedUpAlwaysLnd(p, step) ==
  (CASE step \in {"macService", "macStart"} -> {"macDB"}
     [] step \in {"chain", "grpc", "rest"}  -> {"macService", "macDB"}
     [] step \in {"connect", "macDB", "open", "migrate"} -> {}) \cup {"lnd"}

\* What the failing step and its callers clean up.  NewLndServices has nothing
\* to close; a standalone start closes its lnd connection from then on.
CleanedUp(p, step) ==
  (CASE step \in {"macService", "macStart"} -> {"macDB"}
     [] step \in {"chain", "grpc", "rest"}  -> {"macService", "macDB"}
     [] step \in {"connect", "macDB", "open", "migrate"} -> {})
    \cup (IF mode[p] = "standalone" THEN {"lnd"} ELSE {})

\* A step fails: clean up and mark the instance as stopped for good, ...
StepFails(p) ==
  /\ at[p] \in {"connect", "macDB", "macService", "macStart", "chain", "open",
                "migrate", "grpc", "rest"}
  /\ at[p] = "chain" => ChainConn
  /\ held' = held \ CleanedUp(p, at[p])
  /\ stopped' = TRUE
  /\ fields' \in {fields, fields \cup IF at[p] = "grpc" THEN {"grpcServer"} ELSE {}}
  /\ Goto(p, "fail")
  /\ UNCHANGED <<started, lndOwned, told, ctxDone, quit, mode, withMac, outcome, calls>>

\* ... then release the started flag and return the error.
StartFailed(p) ==
  /\ at[p] = "fail"
  /\ started' = FALSE
  /\ outcome' = "failed"
  /\ Goto(p, "idle")
  /\ UNCHANGED <<stopped, object, mode, withMac, calls>>

-----------------------------------------------------------------------------
(* Stop. *)

\* A no-op unless the instance is started.
CallStop(p) ==
  /\ at[p] = "idle" /\ calls < MaxCalls
  /\ calls' = calls + 1
  /\ started' = FALSE
  /\ Goto(p, IF started THEN "mark" ELSE "idle")
  /\ UNCHANGED <<stopped, object, mode, withMac, outcome>>

\* "Mark as permanently stopped so the struct cannot be reused."
MarkStopped(p) ==
  /\ at[p] = "mark"
  /\ stopped' = TRUE
  /\ Goto(p, "stopRPC")
  /\ UNCHANGED <<started, object, mode, withMac, outcome, calls>>

\* One step of Stop.
Proceed(p, step, next) ==
  /\ at[p] = step
  /\ Goto(p, next)
  /\ UNCHANGED <<flags, fields, lndOwned, mode, withMac, calls>>

ServerField == [grpc |-> "grpcServer", rest |-> "restServer"]

\* Mutant of StopRPC: the REST server is not closed.
StopRPCNotRest(p) ==
  /\ Proceed(p, "stopRPC", "waitServe")
  /\ told' = {"grpc"}
  /\ UNCHANGED <<held, ctxDone, quit, outcome>>

\* stopRPCServer makes the serve goroutines return, in their own time.
StopRPC(p) ==
  /\ Proceed(p, "stopRPC", "waitServe")
  /\ told' = {s \in {"grpc", "rest"} : ServerField[s] \in fields}
  /\ UNCHANGED <<held, ctxDone, quit, outcome>>

WaitServe(p) ==
  /\ held \cap {"grpc", "rest"} = {}
  /\ Proceed(p, "waitServe", "cancel")
  /\ UNCHANGED <<told, held, ctxDone, quit, outcome>>

Cancel(p) ==
  /\ Proceed(p, "cancel", "stopMonitor")
  /\ ctxDone' = (ctxDone \/ "ctxCancel" \in fields)
  /\ UNCHANGED <<told, held, quit, outcome>>

\* Monitor.Stop closes quit and waits for the loop.
StopMonitor(p) ==
  /\ Proceed(p, "stopMonitor", "waitMonitor")
  /\ quit' = (quit \/ "monitor" \in fields)
  /\ UNCHANGED <<told, held, ctxDone, outcome>>

\* Mutant of WaitMonitor: Monitor.Stop does not wait for its goroutine.
WaitMonitorNot(p) ==
  /\ Proceed(p, "waitMonitor", "closeStores")
  /\ UNCHANGED <<told, held, ctxDone, quit, outcome>>

WaitMonitor(p) ==
  /\ "monitor" \in fields => "loop" \notin held
  /\ Proceed(p, "waitMonitor", "closeStores")
  /\ UNCHANGED <<told, held, ctxDone, quit, outcome>>

\* The releases.  Their errors are logged, or joined and returned at the end:
\* none keeps the next one from happening.
CloseStores(p) ==
  /\ Proceed(p, "closeStores", IF "macService" \in fields THEN "stopMac" ELSE "closeLnd")
  /\ held' = IF "stores" \in fields THEN held \ {"db"} ELSE held
  /\ UNCHANGED <<told, ctxDone, quit, outcome>>

StopMacaroons(p) ==
  /\ Proceed(p, "stopMac", "closeMac")
  /\ held' = held \ {"macService"}
  /\ UNCHANGED <<told, ctxDone, quit, outcome>>

CloseMacaroonDB(p) ==
  /\ Proceed(p, "closeMac", "closeLnd")
  /\ held' = held \ {"macDB"}
  /\ UNCHANGED <<told, ctxDone, quit, outcome>>

CloseLnd(p) ==
  /\ Proceed(p, "closeLnd", "idle")
  /\ held' = IF lndOwned /\ "lnd" \in fields THEN held \ {"lnd"} ELSE held
  /\ outcome' = "stopped"
  /\ UNCHANGED <<told, ctxDone, quit>>

-----------------------------------------------------------------------------
(* The goroutines. *)

\* The servers return once they are told to stop, in either order.
ServeEnds ==
  /\ \E server \in held \cap told : held' = held \ {server}
  /\ UNCHANGED <<flags, fields, lndOwned, told, ctxDone, quit, at, mode, withMac, outcome, calls>>

\* monitorLoop returns on quit and on a cancelled context (ChanEventsMonitor).
LoopEnds ==
  /\ "loop" \in held /\ (quit \/ ctxDone)
  /\ held' = held \ {"loop"}
  /\ UNCHANGED <<flags, fields, lndOwned, told, ctxDone, quit, at, mode, withMac, outcome, calls>>

-----------------------------------------------------------------------------

Init ==
  /\ started = FALSE /\ stopped = FALSE
  /\ held = {} /\ fields = {} /\ lndOwned = FALSE
  /\ told = {} /\ ctxDone = FALSE /\ quit = FALSE
  /\ at = [p \in Callers |-> "idle"]
  /\ mode = [p \in Callers |-> "standalone"] /\ withMac = [p \in Callers |-> TRUE]
  /\ outcome = "new" /\ calls = 0

StartStep(p) ==
  \/ LoadStopped(p) \/ SwapStarted(p) \/ Connect(p) \/ Initialize(p) \/ NewStores(p)
  \/ StartMonitor(p) \/ Listen(p) \/ Serve(p) \/ StepFails(p) \/ StartFailed(p)

StopStep(p) ==
  \/ MarkStopped(p) \/ StopRPC(p) \/ WaitServe(p) \/ Cancel(p) \/ StopMonitor(p) \/ WaitMonitor(p)
  \/ CloseStores(p) \/ StopMacaroons(p) \/ CloseMacaroonDB(p) \/ CloseLnd(p)

Next ==
  \/ \E p \in Callers : CallStart(p) \/ CallStop(p) \/ StartStep(p) \/ StopStep(p)
  \/ ServeEnds \/ LoopEnds

\* Callers inside a call and the goroutines keep running.
Fairness ==
  /\ \A p \in Callers : WF_vars(StartStep(p)) /\ WF_vars(StopStep(p))
  /\ WF_vars(ServeEnds) /\ WF_vars(LoopEnds)

Spec == Init /\ [][Next]_vars /\ Fairness

-----------------------------------------------------------------------------
(* Properties. *)

\* The variables have their types, and the macaroon service is never left
\* running over a closed database.
TypeOK ==
  /\ {started, stopped, lndOwned, ctxDone, quit} \subseteq BOOLEAN
  /\ held \subseteq Resources /\ told \subseteq {"grpc", "rest"}
  /\ "macService" \in held => "macDB" \in held
  /\ fields \subseteq {"lnd", "macService", "stores", "monitor", "ctxCancel",
                       "grpcServer", "restServer"}
  /\ at \in [Callers -> StartSteps \cup StopSteps \cup {"idle"}]
  /\ mode \in [Callers -> {"standalone", "subserver"}]
  /\ withMac \in [Callers -> BOOLEAN]
  /\ outcome \in {"new", "running", "failed", "stopped"}
  /\ calls \in 0..MaxCalls

\* The monitor never runs against a closed database and the RPC servers never
\* outlive the stores they read: also while Stop is half way, and after a
\* start that failed.
UsersBeforeStores == held \cap {"loop", "grpc", "rest"} # {} => "db" \in held

\* When Stop returns, everything that was opened is closed, and a start that
\* failed has closed its lnd connection (Start: "If anything from here on fails,
\* we need to clean up the lnd connection."); the parent's connection of a
\* subserver stays open in both cases.
ReleasedWhenOver ==
  /\ outcome = "stopped" => held = IF lndOwned THEN {} ELSE {"lnd"}
  /\ outcome = "failed" => ("lnd" \in held <=> "lnd" \in fields /\ ~lndOwned)

\* Every call returns: Stop does not wait for a goroutine nobody told to end.
CallsReturn == \A p \in Callers : at[p] # "idle" ~> at[p] = "idle"

\* StartAsSubserver, of a failing initialize: "If this fails, then nothing has
\* been started yet, and we can just return the error."
NothingStarted == outcome = "failed" /\ ~lndOwned => held \cap {"macService", "loop"} = {}
=============================================================================
