----------------------------- MODULE Lifecycle -----------------------------
(***************************************************************************)
(* One API process: lifecycle.Run over the HTTP and the gRPC service, the  *)
(* outbox loops the HTTP service starts and stops, and the signal that     *)
(* cancels the root context.                                               *)
(*                                                                         *)
(* A 10-second wait ends by its event or by its timer; both may happen at  *)
(* any time.  Each service is one goroutine; its own listener goroutine is *)
(* folded into it.                                                         *)
(***************************************************************************)
EXTENDS Integers, FiniteSets

CONSTANT Loops       \* the background loops that are enabled

ASSUME LifecycleAssumption == Loops \subseteq {"publisher", "consumer"}

Services == {"http", "grpc"}

VARIABLES
  signal,   \* the root context is cancelled
  runCtx,   \* the services' context is cancelled
  pc,       \* where each service is
  failed,   \* services that are going to return an error
  errors,   \* errCh: services whose error is in the channel
  runner,   \* where lifecycle.Run is
  result,   \* what it returned: "none", "nil" or a service
  loop,     \* each loop: "off", "running", "ended"
  loopCtx,  \* loops whose own context is cancelled
  late      \* loops whose stop gave up waiting

run == <<signal, runCtx, errors, runner, result>>
background == <<loop, loopCtx, late>>
vars == <<run, pc, failed, background>>

Goto(s, step) == pc' = [pc EXCEPT ![s] = step]
Fail(s) == failed' = failed \cup {s}

\* A context is done when it or an ancestor is cancelled.
Done == signal \/ runCtx

----------------------------------------------------------------------------
(* httpServer.Server.Run *)

MapRoutes ==
  /\ pc["http"] = "routes"
  /\ \/ Goto("http", "publisher") /\ UNCHANGED failed
     \/ Goto("http", "return") /\ Fail("http")
  /\ UNCHANGED <<run, background>>

\* startOutboxPublisher, startOutboxConsumer: the loop runs, or the start
\* fails (unknown publisher type, EnsureGroup).
Start(l, next, undo) ==
  /\ pc["http"] = l
  /\ \/ /\ loop' = IF l \in Loops THEN [loop EXCEPT ![l] = "running"] ELSE loop
        /\ Goto("http", next)
        /\ UNCHANGED failed
     \/ /\ l \in Loops
        /\ Fail("http")
        /\ Goto("http", undo)
        /\ UNCHANGED loop
  /\ UNCHANGED <<run, loopCtx, late>>

startOutboxPublisher == Start("publisher", "consumer", "return")
startOutboxConsumer == Start("consumer", "serve", "stop publisher")

\* select: the listener fails ...
ListenFailsHTTP ==
  /\ pc["http"] = "serve"
  /\ Fail("http")
  /\ Goto("http", "stop consumer")
  /\ UNCHANGED <<run, background>>

\* ... or the context is done and Shutdown runs, within its timeout or not.
ShutdownHTTP ==
  /\ pc["http"] = "serve"
  /\ Done
  /\ UNCHANGED failed \/ Fail("http")
  /\ Goto("http", "stop consumer")
  /\ UNCHANGED <<run, background>>

\* The deferred stop functions, last started first: cancel the loop's context,
\* then waitBackgroundDone.
ReturnWithoutWait(l, here, next) ==
  /\ pc["http"] = here
  /\ loopCtx' = loopCtx \cup {l}
  /\ Goto("http", next)
  /\ UNCHANGED <<run, failed, loop, late>>

Stop(l, here, next) ==
  /\ pc["http"] = here
  /\ \/ /\ l \notin loopCtx
        /\ loopCtx' = loopCtx \cup {l}
        /\ UNCHANGED <<pc, late>>
     \/ /\ l \in loopCtx
        /\ Goto("http", next)
        /\ late' = IF loop[l] = "running" THEN late \cup {l} ELSE late
        /\ UNCHANGED loopCtx
  /\ UNCHANGED <<run, failed, loop>>

stopOutboxConsumer == Stop("consumer", "stop consumer", "stop publisher")
stopOutboxPublisher == Stop("publisher", "stop publisher", "return")

\* runOutboxPublisherLoop, runOutboxConsumerLoop: they end only when their
\* context is done.
LoopEnds(l) ==
  /\ loop[l] = "running"
  /\ Done \/ l \in loopCtx
  /\ loop' = [loop EXCEPT ![l] = "ended"]
  /\ UNCHANGED <<run, pc, failed, loopCtx, late>>

----------------------------------------------------------------------------
(* grpcServer.Server.Run *)

ServeFailsGRPC ==
  /\ pc["grpc"] = "serve"
  /\ Fail("grpc")
  /\ Goto("grpc", "return")
  /\ UNCHANGED <<run, background>>

ShutdownGRPC ==
  /\ pc["grpc"] = "serve"
  /\ Done
  /\ Goto("grpc", "stop")
  /\ UNCHANGED <<run, failed, background>>

\* GracefulStop, or Stop after ten seconds; then Serve's own result.
StopGRPC ==
  /\ pc["grpc"] = "stop"
  /\ Goto("grpc", "return")
  /\ UNCHANGED failed \/ Fail("grpc")
  /\ UNCHANGED <<run, background>>

----------------------------------------------------------------------------
(* lifecycle.Run *)

\* The goroutine of a service, after service.Run has returned: the error is
\* in the channel before wg.Done.
ReportNothing(s) ==
  /\ pc[s] = "return"
  /\ Goto(s, "done")
  /\ UNCHANGED <<run, failed, background>>

ReportNil(s) ==
  /\ pc[s] = "return"
  /\ errors' = errors \cup {s}
  /\ runCtx' = TRUE
  /\ Goto(s, "done")
  /\ UNCHANGED <<signal, runner, result, failed, background>>

Report(s) ==
  /\ pc[s] = "return"
  /\ errors' = IF s \in failed THEN errors \cup {s} ELSE errors
  /\ runCtx' = (runCtx \/ s \in failed)
  /\ Goto(s, "done")
  /\ UNCHANGED <<signal, runner, result, failed, background>>

\* The select: an error, the root context, or all services done.
Select ==
  /\ runner = "select"
  /\ \/ \E s \in errors :
          /\ errors' = errors \ {s}
          /\ runner' = "wait error"
          /\ result' = s
          /\ runCtx' = TRUE
     \/ /\ signal
        /\ runCtx' = TRUE
        /\ runner' = "wait"
        /\ UNCHANGED <<errors, result>>
     \/ /\ \A s \in Services : pc[s] = "done"
        /\ runner' = "wait"
        /\ UNCHANGED <<errors, result, runCtx>>
  /\ UNCHANGED <<signal, pc, failed, background>>

\* <-done, then the error that was taken, or one that is in the channel.
Return ==
  /\ \A s \in Services : pc[s] = "done"
  /\ \/ runner = "wait error" /\ UNCHANGED <<errors, result>>
     \/ /\ runner = "wait"
        /\ \/ \E s \in errors : result' = s /\ errors' = errors \ {s}
           \/ errors = {} /\ result' = "nil" /\ UNCHANGED errors
  /\ runner' = "returned"
  /\ UNCHANGED <<signal, runCtx, pc, failed, background>>

----------------------------------------------------------------------------
\* SIGINT or SIGTERM, at any time.
Signal ==
  /\ ~signal
  /\ signal' = TRUE
  /\ UNCHANGED <<runCtx, errors, runner, result, pc, failed, background>>

Init ==
  /\ signal = FALSE
  /\ runCtx = FALSE
  /\ pc = [s \in Services |-> IF s = "http" THEN "routes" ELSE "serve"]
  /\ failed = {}
  /\ errors = {}
  /\ runner = "select"
  /\ result = "none"
  /\ loop = [l \in {"publisher", "consumer"} |-> "off"]
  /\ loopCtx = {}
  /\ late = {}

RunHTTP ==
  \/ MapRoutes \/ startOutboxPublisher \/ startOutboxConsumer \/ ShutdownHTTP
  \/ stopOutboxConsumer \/ stopOutboxPublisher \/ Report("http")

RunGRPC == ShutdownGRPC \/ StopGRPC \/ Report("grpc")

Next ==
  \/ RunHTTP \/ ListenFailsHTTP
  \/ RunGRPC \/ ServeFailsGRPC
  \/ Select \/ Return
  \/ \E l \in Loops : LoopEnds(l)
  \/ Signal

Spec == Init /\ [][Next]_vars

----------------------------------------------------------------------------
(* Properties *)

\* Every variable has its type; only errors that services returned are in the
\* channel.
TypeOK ==
  /\ signal \in BOOLEAN
  /\ runCtx \in BOOLEAN
  /\ pc \in [Services -> {"routes", "publisher", "consumer", "serve", "stop", "stop consumer",
                          "stop publisher", "return", "done"}]
  /\ failed \subseteq Services
  /\ errors \subseteq failed
  /\ runner \in {"select", "wait", "wait error", "returned"}
  /\ result \in Services \cup {"none", "nil"}
  /\ loop \in [{"publisher", "consumer"} -> {"off", "running", "ended"}]
  /\ loopCtx \subseteq {"publisher", "consumer"}
  /\ late \subseteq {"publisher", "consumer"}

\* Run returns nil only if no service failed, and otherwise an error that a
\* service returned, whichever of error, signal and completion the select took.
ErrorReported ==
  runner = "returned" =>
    /\ result = "nil" <=> failed = {}
    /\ result # "nil" => result \in failed

\* When Run has returned no loop is left running, whichever way the HTTP
\* service ended, except one that was cancelled and outlived its ten seconds.
NothingLeftRunning ==
  runner = "returned" =>
    \A l \in Loops : loop[l] = "running" => l \in late

\* Why both hold.  A service that fails is on its way out, its error stays in
\* the channel until Run takes it, and Run returns only after every service.
FailuresReported ==
  /\ \A s \in failed :
       /\ pc[s] \in {"stop consumer", "stop publisher", "return", "done"}
       /\ pc[s] = "done" => s \in errors \/ result = s
  /\ runner \in {"select", "wait"} => result = "none"
  /\ runner = "wait error" => result \in failed
  /\ runner = "returned" => \A s \in Services : pc[s] = "done"

\* A loop runs only while its deferred stop is still ahead of the HTTP
\* service, or after that stop has given up waiting for it.
LoopsCovered ==
  /\ loop["publisher"] = "running" =>
       \/ pc["http"] \in {"consumer", "serve", "stop consumer", "stop publisher"}
       \/ "publisher" \in late
  /\ loop["consumer"] = "running" =>
       pc["http"] \in {"serve", "stop consumer"} \/ "consumer" \in late

\* The inductive invariant of the services.
Inv == TypeOK /\ FailuresReported /\ ErrorReported /\ LoopsCovered
=============================================================================
