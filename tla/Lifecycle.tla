------------------------------ MODULE Lifecycle ------------------------------
(***************************************************************************)
(* The life of a service process under fx: the hooks that its constructors *)
(* and Invokes append, run in order at start and in reverse at stop, while *)
(* the server, the background loops and the requests run on their own.     *)
(*                                                                         *)
(* Before that the process loads its settings and constructs what the      *)
(* first Invoke needs, and so on: whatever fails ends it.  The graphs of   *)
(* four services lack a provider, so these processes end here.  The model  *)
(* has both the graphs as written and the same ones completed by the       *)
(* missing provider, to say something about the hooks of the four.         *)
(*                                                                         *)
(* The pool of PostgreSQL has no hook.  What the loops do is in the other  *)
(* modules; here a loop is idle or busy with the connections it uses.      *)
(***************************************************************************)
EXTENDS Naturals, Sequences, Settings

LOCAL INSTANCE SequencesExt

CONSTANT MaxOpen  \* bound on the requests that are open at once

VARIABLES service,   \* which service the process runs
          graph,     \* the providers of its fx graph: as written, or completed
          phase,     \* of the process, then of fx.App
          cfg,       \* what Load returned
          reached,   \* what was constructed, and connected if its constructor connects
          degraded,  \* payment-service: the dead letter producer is a no-op
          started,   \* fx: numStarted, the hooks that have been started
          startCtx,  \* whether the context of OnStart is live
          loop,      \* background loops
          told,      \* loops whose stop channel is closed
          server,    \* the gRPC server, and whether its context is cancelled
          inFlight,  \* requests in progress
          closed,    \* connections that are closed
          letters,   \* payment-service: SendToDLQ goroutines not done
          esIndex    \* the index in Elasticsearch: none, mapped, or made by a write

bootVars == <<service, graph, cfg, reached, degraded>>
lifeVars == <<bootVars, phase, started, startCtx, loop, told, server, inFlight, closed, letters, esIndex>>

-----------------------------------------------------------------------------
(* The hooks of each service in the order in which they are appended.  A   *)
(* constructor runs when the first Invoke needs it, and the Invoke of the  *)
(* server comes first.                                                     *)

Closer(c)     == [kind |-> "close", of |-> c]
ClientHook(c) == Closer(c)
RedisHook     == Closer("redis")
KafkaHook     == Closer("producer")
Runner(w)     == [kind |-> "run", of |-> w]
ConsumerHook  == Runner("consumer")
ServerHook    == [kind |-> "serve", of |-> "server"]

GRPCService(handlerHooks, opts) == handlerHooks \o <<ServerHook>> \o opts

OrderHooks == GRPCService(<<ClientHook("inventory"), ClientHook("payment"), ClientHook("catalog"), RedisHook>>,
                          <<KafkaHook, Runner("relay"), Runner("recovery")>>)
PaymentHooks      == GRPCService(<<>>, <<Closer("dlq")>>)
InventoryHooks    == GRPCService(<<RedisHook>>, <<>>)
UserHooks         == GRPCService(<<>>, <<>>)
CatalogHooks      == GRPCService(<<>>, <<Runner("relay"), [kind |-> "ensure", of |-> "index"]>>)
NotificationHooks == GRPCService(<<>>, <<ConsumerHook>>)
AnalyticsHooks    == GRPCService(<<>>, <<ConsumerHook, [kind |-> "flush", of |-> "buffer"]>>)

HooksOf ==
    [order |-> OrderHooks, payment |-> PaymentHooks, inventory |-> InventoryHooks,
     user |-> UserHooks, catalog |-> CatalogHooks, notification |-> NotificationHooks,
     analytics |-> AnalyticsHooks]

Loops == {"relay", "recovery", "consumer"}

\* What the constructors hand to a loop, and to the handlers.
UsedBy(w) ==
    CASE w = "relay" /\ service = "order" -> {"postgres", "producer"}
      [] w = "relay" /\ service = "catalog" -> {"postgres", "elasticsearch"}
      [] w = "consumer" /\ service = "analytics" -> {"clickhouse"}
      [] w = "recovery" -> {"postgres", "inventory", "payment"}
      [] OTHER -> {}

UsedByRequests ==
    CASE service = "order"        -> {"postgres", "inventory", "payment", "catalog", "redis"}
      [] service = "payment"      -> {"postgres", "dlq"}
      [] service = "inventory"    -> {"postgres", "redis"}
      [] service = "user"         -> {"postgres"}
      [] service = "catalog"      -> {"postgres", "elasticsearch"}
      [] service = "notification" -> {}
      [] service = "analytics"    -> {"clickhouse"}

LifeInit ==
    /\ service \in DOMAIN HooksOf
    /\ graph \in {"as written", "completed"}
    /\ phase = "boot" /\ cfg = Common(CHOOSE env \in Environments : env.rest = "sound") /\ reached = <<>> /\ degraded = FALSE
    /\ started = 0 /\ startCtx = TRUE
    /\ loop = [w \in Loops |-> "off"] /\ told = {}
    /\ server = [state |-> "off", cancelled |-> FALSE]
    /\ inFlight = 0 /\ closed = {} /\ letters = 0
    /\ esIndex = "none"

-----------------------------------------------------------------------------
(* Before fx starts.                                                       *)

fxVars == <<started, startCtx, loop, told, server, inFlight, closed, letters, esIndex>>

LoadConfig ==
    /\ phase = "boot"
    /\ \E env \in Environments :
           IF Accepts(service, env) THEN cfg' = Common(env) /\ phase' = "tracer"
           ELSE phase' = "exited" /\ UNCHANGED cfg
    /\ UNCHANGED <<service, graph, reached, degraded, fxVars>>

\* The logger takes any level and format; the exporter needs a good URL.
InitTracer ==
    /\ phase = "tracer" /\ phase' \in {"building", "exited"}
    /\ UNCHANGED <<bootVars, fxVars>>

\* What the Invokes need, in the order in which it is constructed.
Constructors ==
    CASE service = "order"        -> <<"postgres", "inventory", "payment", "catalog", "redis", "producer">>
      [] service = "payment"      -> <<"postgres", "dlq">>
      [] service = "inventory"    -> <<"postgres", "redis">>
      [] service = "user"         -> <<"postgres">>
      [] service = "catalog"      -> <<"postgres", "elasticsearch">>
      [] service = "notification" -> <<"kafka">>
      [] service = "analytics"    -> <<"clickhouse", "kafka">>

\* The context that a constructor connects with; one that is not positive has
\* expired before the call.
InTime(c) ==
    CASE c \in {"postgres", "redis", "elasticsearch"} -> cfg.DefaultQueryTimeout = "positive"
      [] c = "clickhouse" -> cfg.DefaultCallTimeout = "positive"
      [] OTHER -> TRUE

\* Mutant: the pool is created without Ping.
ConnectsUnasked(c) == TRUE

\* A constructor that connects fails if nobody answers in time.  Clients of other
\* services connect later: they need only their certificates.
Connects(c) ==
    CASE c \in {"inventory", "payment", "catalog"} -> cfg.CertPath # "junk"
      [] OTHER -> InTime(c)

Construct ==
    /\ phase = "building" /\ Len(reached) < Len(Constructors)
    /\ LET c == Constructors[Len(reached) + 1] IN
       \/ Connects(c) /\ reached' = Append(reached, c) /\ UNCHANGED <<phase, degraded>>
       \/ c = "dlq" /\ reached' = Append(reached, c) /\ degraded' = TRUE /\ UNCHANGED phase
       \/ c # "dlq" /\ phase' = "exited" /\ UNCHANGED <<reached, degraded>>
    /\ UNCHANGED <<service, graph, cfg, fxVars>>

\* The repositories of order- and catalog-service need a postgres.Querier, and the
\* consumers of the other two a kafka.Processor, which nothing in their graphs
\* provides: payment- and inventory-service provide the one, nobody the other.
Unresolved == graph = "as written" /\ service \in {"order", "catalog", "notification", "analytics"}

\* An Invoke whose parameter nobody provides fails, with more or less constructed.
InvokeFails ==
    /\ phase = "building" /\ Unresolved /\ phase' = "exited"
    /\ UNCHANGED <<bootVars, fxVars>>

Built ==
    /\ phase = "building" /\ Len(reached) = Len(Constructors) /\ ~Unresolved /\ phase' = "starting"
    /\ UNCHANGED <<bootVars, fxVars>>

-----------------------------------------------------------------------------
(* fx.App                                                                  *)

\* With both ports zero there is no server.
ServerEnabled == cfg.GRPCPort # "zero" \/ cfg.MetricsPort # "zero"

Hooks == SelectSeq(HooksOf[service], LAMBDA hook : hook.kind = "serve" => ServerEnabled)
HookToStart == Hooks[started + 1]
HookToStop  == Hooks[started]

HookStarted == started' = started + 1 /\ UNCHANGED phase

StartHook(kind) ==
    /\ phase = "starting" /\ started < Len(Hooks) /\ HookToStart.kind = kind
    /\ UNCHANGED <<bootVars, startCtx, told, inFlight, closed, letters>>

\* Hooks with OnStop only.
StartCloser ==
    /\ \E kind \in {"close", "flush"} : StartHook(kind)
    /\ HookStarted /\ UNCHANGED <<loop, server, esIndex>>

\* RegisterGRPCService: RunService runs in a goroutine.
StartServer ==
    /\ StartHook("serve") /\ HookStarted
    /\ server' = [server EXCEPT !.state = "starting"] /\ UNCHANGED <<loop, esIndex>>

\* Start of a relay or a consumer returns at once.  RecoveryWorker.Start makes
\* its first round itself.
StartLoop ==
    /\ StartHook("run") /\ loop[HookToStart.of] = "off"
    /\ IF HookToStart.of = "recovery"
       THEN loop' = [loop EXCEPT !["recovery"] = "first"] /\ UNCHANGED <<phase, started>>
       ELSE loop' = [loop EXCEPT ![HookToStart.of] = "idle"] /\ HookStarted
    /\ UNCHANGED <<server, esIndex>>

FirstRoundEnds ==
    /\ StartHook("run") /\ loop[HookToStart.of] = "first"
    /\ loop' = [loop EXCEPT ![HookToStart.of] = "idle"] /\ HookStarted
    /\ UNCHANGED <<server, esIndex>>

\* EnsureIndex, in two requests to Elasticsearch: an index that appears between
\* them makes the second one fail, and fx stops what it has started.
StartEnsure ==
    /\ StartHook("ensure")
    /\ \/ esIndex # "none" /\ HookStarted /\ UNCHANGED esIndex
       \/ esIndex = "none" /\ HookStarted /\ esIndex' = "mapped"
       \/ phase' = "stopping" /\ UNCHANGED <<started, esIndex>>
    /\ UNCHANGED <<loop, server>>

\* Another replica's EnsureIndex, or the first write of another replica's relay.
OtherReplica ==
    /\ service = "catalog" /\ esIndex = "none" /\ esIndex' \in {"mapped", "dynamic"}
    /\ UNCHANGED <<bootVars, phase, started, startCtx, loop, told, server, inFlight, closed, letters>>

StartDone ==
    /\ phase = "starting" /\ started = Len(Hooks) /\ phase' = "running"
    /\ UNCHANGED <<bootVars, started, startCtx, loop, told, server, inFlight, closed, letters, esIndex>>

\* fx's start timeout.  Before start-up is done it ends the process; afterwards
\* it only ends the context that the loops were given.
StartTimeout ==
    /\ startCtx /\ phase \in {"starting", "running", "stopping"} /\ startCtx' = FALSE
    /\ phase' = IF phase = "starting" THEN "exited" ELSE phase
    /\ UNCHANGED <<bootVars, started, loop, told, server, inFlight, closed, letters, esIndex>>

Signal ==
    /\ phase = "running" /\ phase' = "stopping"
    /\ UNCHANGED <<bootVars, started, startCtx, loop, told, server, inFlight, closed, letters, esIndex>>

StopHook(kind) ==
    /\ phase = "stopping" /\ started > 0 /\ HookToStop.kind = kind
    /\ UNCHANGED <<bootVars, phase, startCtx, loop, inFlight, letters, esIndex>>

HookStopped == started' = started - 1

StopCloser ==
    /\ StopHook("close") /\ HookStopped
    /\ closed' = closed \cup {HookToStop.of} /\ UNCHANGED <<told, server>>

\* The hook of EnsureIndex has no OnStop; Flush is in Analytics.
StopOther ==
    /\ \E kind \in {"ensure", "flush"} : StopHook(kind)
    /\ HookStopped /\ UNCHANGED <<told, server, closed>>

\* RegisterGRPCService: cancel, and nothing that waits for RunService.
StopServer ==
    /\ StopHook("serve") /\ HookStopped
    /\ server' = [server EXCEPT !.cancelled = TRUE] /\ UNCHANGED <<told, closed>>

\* Stop closes the channel and waits for the loop.  So does Close of a consumer.
StopLoop ==
    /\ StopHook("run")
    /\ \/ HookToStop.of \notin told /\ told' = told \cup {HookToStop.of} /\ UNCHANGED started
       \/ HookToStop.of \in told /\ loop[HookToStop.of] = "ended" /\ HookStopped /\ UNCHANGED told
    /\ UNCHANGED <<server, closed>>

\* All hooks have run, or the stop timeout has passed: the process ends with
\* whatever still runs in it.
Exit ==
    /\ phase = "stopping" /\ phase' = "exited"
    /\ UNCHANGED <<bootVars, started, startCtx, loop, told, server, inFlight, closed, letters, esIndex>>

-----------------------------------------------------------------------------
(* What runs beside fx.                                                    *)

Alive == phase \in {"starting", "running", "stopping"}

\* Any ready case of the select may be taken, so a loop that was told to stop may
\* poll once more.  A poll of catalog's relay writes to the index.
LoopPolls(w) ==
    /\ Alive /\ loop[w] = "idle" /\ loop' = [loop EXCEPT ![w] = "busy"]
    /\ esIndex' = IF service = "catalog" /\ esIndex = "none" THEN "dynamic" ELSE esIndex
    /\ UNCHANGED <<bootVars, phase, started, startCtx, told, server, inFlight, closed, letters>>

PollEnds(w) ==
    /\ Alive /\ loop[w] = "busy" /\ loop' = [loop EXCEPT ![w] = "idle"]
    /\ UNCHANGED <<bootVars, phase, started, startCtx, told, server, inFlight, closed, letters, esIndex>>

LoopEnds(w) ==
    /\ Alive /\ loop[w] = "idle" /\ (w \in told \/ ~startCtx)
    /\ loop' = [loop EXCEPT ![w] = "ended"]
    /\ UNCHANGED <<bootVars, phase, started, startCtx, told, server, inFlight, closed, letters, esIndex>>

ServerTo(state) ==
    /\ Alive /\ server' = [server EXCEPT !.state = state]
    /\ UNCHANGED <<bootVars, phase, started, startCtx, loop, told, inFlight, closed, letters, esIndex>>

\* GRPCServer.Start, with credentials that StartService could load.
Listen == server.state = "starting" /\ cfg.CertPath # "junk" /\ ServerTo("up")

\* StartService cannot load its credentials or a port is taken: log.Fatal.
ServerFails ==
    /\ Alive /\ server.state = "starting" /\ phase' = "exited"
    /\ UNCHANGED <<bootVars, started, startCtx, loop, told, server, inFlight, closed, letters, esIndex>>

\* RunService after cancel: the metrics server first, which may take ten seconds,
\* then GracefulStop.
RunServiceStops == server.state \in {"starting", "up"} /\ server.cancelled /\ ServerTo("draining")

\* GracefulStop returns when no request is open, or stops by force.
GracefulStop == server.state = "draining" /\ ServerTo("down")

RequestBegins ==
    /\ Alive /\ server.state = "up" /\ inFlight < MaxOpen /\ inFlight' = inFlight + 1
    /\ UNCHANGED <<bootVars, phase, started, startCtx, loop, told, server, closed, letters, esIndex>>

\* A ProcessPayment that fails sends to the dead letter topic in a goroutine.
RequestEnds ==
    /\ Alive /\ inFlight > 0 /\ inFlight' = inFlight - 1
    /\ letters' \in IF service = "payment" /\ letters < MaxOpen THEN {letters, letters + 1} ELSE {letters}
    /\ UNCHANGED <<bootVars, phase, started, startCtx, loop, told, server, closed, esIndex>>

\* The goroutine is done: sent, refused by a closed or missing producer, or timed out.
LetterDone ==
    /\ Alive /\ letters > 0 /\ letters' = letters - 1
    /\ UNCHANGED <<bootVars, phase, started, startCtx, loop, told, server, inFlight, closed, esIndex>>

LifeNext ==
    \/ LoadConfig \/ InitTracer \/ Construct \/ InvokeFails \/ Built
    \/ StartCloser \/ StartServer \/ StartLoop \/ FirstRoundEnds \/ StartEnsure
    \/ OtherReplica \/ StartDone \/ StartTimeout \/ Signal
    \/ StopCloser \/ StopOther \/ StopServer \/ StopLoop \/ Exit
    \/ \E w \in Loops : LoopPolls(w) \/ PollEnds(w) \/ LoopEnds(w)
    \/ Listen \/ ServerFails \/ RunServiceStops \/ GracefulStop
    \/ RequestBegins \/ RequestEnds \/ LetterDone

LifeSpec == LifeInit /\ [][LifeNext]_lifeVars

-----------------------------------------------------------------------------
\* Connections are there before they are used, and for loops as long as they are
\* used.  A background loop works, and a request is served, only in a process that has
\* connected within a positive timeout to all the stores it needs, though not every
\* Load looks at the timeouts; no loop works in the graphs as they are written, and in
\* the completed ones none works with a connection that is closed, since hooks of
\* connections come before those of the loops that use them and Stop waits for the
\* loop.  Of requests it is only true that their connections are closed after the
\* server was told to stop, and not even that of the dead letter producer of
\* payment-service: a request in flight may meet a closed connection.
ConnectionsAreThere ==
    /\ \A w \in Loops : loop[w] \in {"first", "busy"} /\ phase # "exited" =>
           /\ UsedBy(w) \cap closed = {} /\ UsedBy(w) \subseteq Range(reached)
           /\ graph = "completed"
    /\ inFlight > 0 => UsedByRequests \subseteq Range(reached)
    /\ Alive /\ UsedByRequests # {} =>
           (IF service = "analytics" THEN cfg.DefaultCallTimeout ELSE cfg.DefaultQueryTimeout) = "positive"
    /\ service # "payment" /\ ServerEnabled /\ UsedByRequests \cap closed # {} => server.cancelled
=============================================================================
