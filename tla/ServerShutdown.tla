--------------------------- MODULE ServerShutdown ---------------------------
(***************************************************************************)
(* The life of a service process: server.Run of pkg/server, with the       *)
(* goroutine that waits for a signal, the health server of                 *)
(* pkg/observability, and the deferred calls of a service's main.          *)
(***************************************************************************)
EXTENDS Naturals

CONSTANT Rpcs    \* the calls the server may be sent

VARIABLES
    proc,       \* main: where Run is; "exited" through main's deferred calls, or "fatal"
    quitter,    \* the shutdown goroutine
    drain,      \* what has become of GracefulStop: "none", "draining", "done"
    probe,      \* the health server: "unstarted", "up", "down"
    rpc,        \* the calls
    forced,     \* history: the drain was given up when its time was out
    hasty       \* history: the signal came before the health server was started

shutdownVars == <<proc, quitter, drain, probe, rpc, forced, hasty>>

\* A call is cut when its connection is closed under it.
ShutdownTypeOK ==
    /\ proc \in {"listening", "starting", "serving", "returned", "exited", "fatal"}
    /\ quitter \in {"waiting", "signalled", "draining", "over"}
    /\ drain \in {"none", "draining", "done"}
    /\ probe \in {"unstarted", "up", "down"}
    /\ rpc \in [Rpcs -> {"unsent", "running", "answered", "cut"}]
    /\ forced \in BOOLEAN /\ hasty \in BOOLEAN

ShutdownInit ==
    /\ proc = "listening" /\ quitter = "waiting" /\ drain = "none" /\ probe = "unstarted"
    /\ rpc = [r \in Rpcs |-> "unsent"]
    /\ forced = FALSE /\ hasty = FALSE

Alive == proc \notin {"exited", "fatal"}
CutOff == [r \in Rpcs |-> IF rpc[r] = "running" THEN "cut" ELSE rpc[r]]

\* SIGINT or SIGTERM ends the context of signal.NotifyContext.
Signal ==
    /\ Alive /\ quitter = "waiting"
    /\ quitter' = "signalled"
    /\ hasty' = (probe = "unstarted")
    /\ UNCHANGED <<proc, drain, probe, rpc, forced>>

\* health.Stop: nothing to stop when Start has not run yet.
StopHealth ==
    probe' = IF probe = "up" THEN "down" ELSE probe

\* The goroutine wakes up and stops the probes; GracefulStop begins in a step of its own.
ShutDown ==
    /\ Alive /\ quitter = "signalled"
    /\ StopHealth
    /\ quitter' = "draining"
    /\ UNCHANGED <<proc, drain, rpc, forced, hasty>>

\* GracefulStop: no new connection is accepted from here on.
GracefulStop ==
    /\ Alive /\ quitter = "draining" /\ drain = "none"
    /\ drain' = "draining"
    /\ UNCHANGED <<proc, quitter, probe, rpc, forced, hasty>>

\* External: GracefulStop returns once no call is running.
Drained ==
    /\ Alive /\ drain = "draining" /\ \A r \in Rpcs : rpc[r] # "running"
    /\ drain' = "done"
    /\ UNCHANGED <<proc, quitter, probe, rpc, forced, hasty>>

\* The clean branch of the select.
CleanDrain ==
    /\ Alive /\ quitter = "draining" /\ drain = "done"
    /\ quitter' = "over"
    /\ UNCHANGED <<proc, drain, probe, rpc, forced, hasty>>

\* Mutant: the goroutine waits for GracefulStop alone.
NeverForced ==
    FALSE

\* The thirty seconds are over first: Stop closes every connection.
ForceStop ==
    /\ Alive /\ quitter = "draining" /\ drain = "draining"
    /\ quitter' = "over" /\ drain' = "done" /\ forced' = TRUE
    /\ rpc' = CutOff
    /\ UNCHANGED <<proc, probe, hasty>>

\* health.Start in Run.
StartHealth ==
    /\ proc = "listening"
    /\ proc' = "starting" /\ probe' = "up"
    /\ UNCHANGED <<quitter, drain, rpc, forced, hasty>>

\* gs.Serve: a server that was stopped before returns ErrServerStopped, which main makes fatal.
Serve ==
    /\ proc = "starting"
    /\ proc' = IF drain = "none" THEN "serving" ELSE "fatal"
    /\ UNCHANGED <<quitter, drain, probe, rpc, forced, hasty>>

\* External: a call reaches its handler; a connection that is being drained may still
\* bring one in.
RpcBegins(r) ==
    /\ proc = "serving" /\ drain # "done" /\ rpc[r] = "unsent"
    /\ rpc' = [rpc EXCEPT ![r] = "running"]
    /\ UNCHANGED <<proc, quitter, drain, probe, forced, hasty>>

RpcEnds(r) ==
    /\ Alive /\ rpc[r] = "running"
    /\ rpc' = [rpc EXCEPT ![r] = "answered"]
    /\ UNCHANGED <<proc, quitter, drain, probe, forced, hasty>>

\* External: after a stop Serve returns without an error, once the stop is done.
ServeReturns ==
    /\ proc = "serving" /\ drain = "done"
    /\ proc' = "returned"
    /\ UNCHANGED <<quitter, drain, probe, rpc, forced, hasty>>

\* main's deferred calls close the connections and the pool, and the process ends.
MainReturns ==
    /\ proc = "returned"
    /\ proc' = "exited"
    /\ UNCHANGED <<quitter, drain, probe, rpc, forced, hasty>>

\* The steps that are sure to be taken: every goroutine is scheduled and the drain timer
\* fires, while no handler is sure to return.
ShutdownProgress ==
    \/ ShutDown \/ GracefulStop \/ Drained \/ CleanDrain \/ ForceStop
    \/ StartHealth \/ Serve \/ ServeReturns \/ MainReturns

ShutdownNext ==
    \/ Signal \/ ShutdownProgress
    \/ \E r \in Rpcs : RpcBegins(r) \/ RpcEnds(r)

ShutdownSpec == ShutdownInit /\ [][ShutdownNext]_shutdownVars

\* A call that reached its handler is answered before the process ends, unless the
\* thirty seconds ran out: nothing but ForceStop cuts a call, and main's deferred calls
\* never close the pool under one.
AnsweredUnlessLate ==
    forced \/ \A r \in Rpcs : rpc[r] # "cut" /\ (~Alive => rpc[r] # "running")

\* The probes are down when the drain begins, as the comment in Run wants it, unless the
\* signal came so early that the health server had yet to be started.
ProbesDownFirst == drain # "none" /\ probe = "up" => hasty

\* A signalled process ends, even with a handler that never returns.
ShutdownEnds == quitter = "signalled" ~> ~Alive
=============================================================================
