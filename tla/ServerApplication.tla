------------------------- MODULE ServerApplication -------------------------
(***************************************************************************)
(* The life of a server process: the main thread (server/server_main.cpp)  *)
(* initialises and starts ServerApplication (server/server.cpp), waits for *)
(* a signal and stops it, while RPC handlers, the tick thread, the pump    *)
(* and the threads of the runtime use what it starts and stops.            *)
(*                                                                         *)
(* One process: a storage that is not blank ends Initialize, so nothing is *)
(* ever recovered.  The other two services (MetadataService has the calls  *)
(* they make) share the server, and its end, with the RPCs of RpcExchange. *)
(***************************************************************************)
EXTENDS RpcExchange

VARIABLES
    main,       \* where the main thread is
    blank,      \* Load found the storage empty
    lifecycle,  \* ServerLifecycle: "off", "initialized" or "running"
    transport,  \* State of GrpcRaftTransport
    signalled,  \* g_shutdown_requested of the process
    stop,       \* stop_requested_ of the application and of its lifecycle
    ticking,    \* tick_thread_
    pumping     \* peer_pump_thread_

serverVars == <<main, blank, lifecycle, transport, signalled, stop, ticking, pumping>>
processVars == <<exchangeVars, serverVars>>

HasShutdownRequest == stop \/ signalled

\* What only the threads and the signal change.
threads == <<signalled, ticking, pumping>>

----------------------------------------------------------------------------
\* The parts the main thread starts and stops.

LifecycleInitialize == lifecycle' = IF lifecycle = "off" THEN "initialized" ELSE lifecycle

\* A request to stop made before the start is forgotten; a signal is not.
LifecycleStart == lifecycle = "initialized" /\ lifecycle' = "running" /\ stop' = FALSE

LifecycleStop == lifecycle' = "off"

TransportInitialize == transport # "STARTED" /\ transport' = "INITIALIZED"

TransportStart == transport # "CREATED" /\ transport' = "STARTED"

TransportStop == transport' = IF transport = "CREATED" THEN transport ELSE "STOPPED"

RequestStop == stop' = TRUE

----------------------------------------------------------------------------
\* ServerApplication::Initialize and Start.

\* A configuration or a storage that is not accepted ends the process; on an
\* error the steps that were done stay done.
Initialize(valid) ==
    /\ main = "created"
    /\ LifecycleInitialize
    /\ IF valid /\ blank
       THEN main' = "initialized" /\ RuntimeInitialize /\ TransportInitialize
       ELSE main' = "exited" /\ UNCHANGED <<runtime, ended, lifeFrame, transport>>
    /\ UNCHANGED <<accepting, blank, stop, threads>>

\* Start, up to the gRPC server.
Start ==
    /\ main = "initialized" /\ main' = "starting"
    /\ LifecycleStart /\ TransportStart /\ RuntimeStart
    /\ UNCHANGED <<accepting, blank, threads>>

StartGrpcServer ==
    /\ main = "starting" /\ main' = "bound"
    /\ accepting' = TRUE
    /\ UNCHANGED <<runtime, ended, lifeFrame, blank, lifecycle, transport, stop, threads>>

\* The ports are taken: Start stops what it has started, and the process ends.
FailToBind ==
    /\ main = "starting" /\ main' = "closing"
    /\ RequestStop /\ RequestShutdown
    /\ UNCHANGED <<accepting, blank, lifecycle, transport, threads>>

StartThreads ==
    /\ main = "bound" /\ main' = "serving"
    /\ ticking' = "running" /\ pumping' = "running"
    /\ UNCHANGED <<exchangeVars, blank, lifecycle, transport, stop, signalled>>

----------------------------------------------------------------------------
\* ServerApplication::Stop, once the main loop has seen a request.

\* Shutdown of the gRPC server, which then takes no call.
BeginStop ==
    /\ main = "serving" /\ HasShutdownRequest /\ main' = "draining"
    /\ RequestStop /\ accepting' = FALSE
    /\ UNCHANGED <<runtime, ended, lifeFrame, blank, lifecycle, transport, threads>>

stopFrame == <<exchangeVars, blank, lifecycle, transport, stop, threads>>

\* Broken variant, for mutation: the handlers are not waited for.
LeaveHandlers == main = "draining" /\ main' = "joining" /\ UNCHANGED stopFrame

\* Wait of the gRPC server: every handler has returned.
WaitForHandlers ==
    /\ main = "draining" /\ InHandler = {} /\ main' = "joining"
    /\ UNCHANGED stopFrame

JoinThreads ==
    /\ main = "joining" /\ main' = "closing"
    /\ ticking = "ended" /\ pumping = "ended"
    /\ RequestShutdown
    /\ UNCHANGED <<accepting, blank, lifecycle, transport, stop, threads>>

Finish ==
    /\ main = "closing" /\ main' = "exited"
    /\ WaitForShutdown /\ TransportStop /\ LifecycleStop
    /\ UNCHANGED <<accepting, blank, stop, threads>>

Main ==
    \/ \E valid \in BOOLEAN : Initialize(valid)
    \/ Start \/ StartGrpcServer \/ FailToBind \/ StartThreads
    \/ BeginStop \/ WaitForHandlers \/ JoinThreads \/ Finish

----------------------------------------------------------------------------
\* The other threads of the server, and the signal.

TickLoop ==
    /\ ticking = "running"
    /\ IF HasShutdownRequest THEN ticking' = "ended" /\ UNCHANGED exchangeVars
       ELSE EnqueueTick /\ UNCHANGED ticking
    /\ UNCHANGED <<main, blank, lifecycle, transport, signalled, stop, pumping>>

\* The loop looks at the request once per round, so a message of each peer may
\* still be taken after it was made.
PeerPumpLoop ==
    /\ pumping = "running"
    /\ \/ \E p \in Peer : PumpMessage(p) /\ UNCHANGED pumping
       \/ HasShutdownRequest /\ pumping' = "ended" /\ UNCHANGED exchangeVars
    /\ UNCHANGED <<main, blank, lifecycle, transport, signalled, stop, ticking>>

HandleSignal ==
    /\ ~signalled /\ signalled' = TRUE
    /\ UNCHANGED <<exchangeVars, main, blank, lifecycle, transport, stop, ticking, pumping>>

----------------------------------------------------------------------------
ServerInit ==
    /\ ExchangeInit
    /\ main = "created" /\ blank \in BOOLEAN
    /\ lifecycle = "off" /\ transport = "CREATED"
    /\ signalled = FALSE /\ stop = FALSE
    /\ ticking = "none" /\ pumping = "none"

ServerNext ==
    \/ Main
    \/ ExchangeNext /\ UNCHANGED serverVars
    \/ TickLoop
    \/ PeerPumpLoop
    \/ HandleSignal

ServerSpec == ServerInit /\ [][ServerNext]_processVars

\* The main thread and those of the runtime and of the server go on when they
\* can; a handler polls until its deadline, which each call has.  Nothing makes
\* a caller call, or the signal come.
Fairness ==
    /\ WF_processVars(Main) /\ WF_processVars(TickLoop)
    /\ WF_processVars(Protocol /\ UNCHANGED serverVars)
    /\ WF_processVars(PersistenceEnds /\ UNCHANGED serverVars)
    /\ WF_processVars(pumping = "running" /\ HasShutdownRequest /\ PeerPumpLoop /\ pumping' = "ended")
    /\ \A r \in 1 .. MaxRpcs : WF_processVars(r \in DOMAIN rpcs /\ Handler(r) /\ UNCHANGED serverVars)

FairSpec == ServerSpec /\ Fairness

----------------------------------------------------------------------------
ServerTypeOK ==
    /\ runtime \in {"CREATED", "INITIALIZED", "RUNNING", "STOPPING", "STOPPED"}
    /\ ended \subseteq {"protocol", "persistence"}
    /\ Len(rpcs) <= MaxRpcs /\ Len(events) <= EventCap
    /\ \A p \in Peer : Len(outbox[p]) <= PeerCap
    /\ unsaved \subseteq DOMAIN rpcs
    /\ main \in {"created", "initialized", "starting", "bound", "serving",
                 "draining", "joining", "closing", "exited"}
    /\ lifecycle \in {"off", "initialized", "running"}
    /\ transport \in {"CREATED", "INITIALIZED", "STARTED", "STOPPED"}
    /\ {ticking, pumping} \subseteq {"none", "running", "ended"}

\* When the main thread leaves, whichever way, nothing uses what it destroys: no
\* handler is at work, and no thread runs.
ExitedIsUnused ==
    main = "exited" =>
        /\ InHandler = {} /\ ~accepting
        /\ ticking # "running" /\ pumping # "running"
        /\ runtime \in {"RUNNING", "STOPPING", "STOPPED"} =>
              ended = {"protocol", "persistence"}

\* A signal, at whatever moment of the start or of the calls, ends the process:
\* no thread waits for one that waits for it.
SignalEndsProcess == signalled ~> main = "exited"
=============================================================================
