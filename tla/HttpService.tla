----------------------------- MODULE HttpService -----------------------------
(***************************************************************************)
(* The life of the HTTP and of the HTTPS service:                          *)
(* src/internal/services/http/{service,server}.go; the https package has   *)
(* the same service.go and a Server that differs in its TLS configuration. *)
(*                                                                         *)
(* Clients are connections to the control socket (and, for the first       *)
(* start and the last stop, Run and the main function).  start() replaces  *)
(* s.server and leaves a goroutine, a runner, behind; the runner reads     *)
(* s.server when it gets to run, without the mutex.  Runners, Servers and  *)
(* http.Servers are numbered by the start that makes them.                 *)
(***************************************************************************)
EXTENDS Naturals

CONSTANTS
    Clients,    \* goroutines of handleConnection
    MaxCommands,\* bound: control commands, each of which starts at most once
    Faults      \* what may go wrong: subset of {"foreign", "slow"}

ASSUME HttpAssumption ==
    /\ MaxCommands \in Nat
    /\ Faults \subseteq {"foreign", "slow"}

Runners == 1..MaxCommands
None == 0

\* Who holds the TCP port, next to a runner's listener.
Free == 0
Foreign == MaxCommands + 1

VARIABLES
    enabled,    \* the configuration's enabled, which never changes
    state,      \* Service.state
    mu,         \* whether Service.mu is held across a Shutdown
    server,     \* Service.server: the start that made it, or None
    commands,   \* control commands so far
    goal,       \* what each client was asked for
    cpc,        \* where each client is
    rpc,        \* where each runner is
    target,     \* the Server whose Start each runner is in
    httpOf,     \* Server.Server of each Server: an http.Server, or None
    inShutdown, \* http.Server.inShutdown
    listens,    \* the http.Server whose ListenAndServe a runner is in
    port,       \* who holds the TCP port of the configuration
    raced       \* history: a stop met a runner that was not settled

clients == <<commands, goal, cpc>>
runners == <<rpc, target, httpOf, inShutdown, listens>>
vars == <<enabled, state, mu, server, clients, runners, port, raced>>

Commands == {"start", "stop", "restart"}
CPCs == {"idle", "stop", "shutdown", "check", "start"}

\* "spawned", in Start before and after the http.Server is made, bound to the
\* port but not accepting, accepting, failed to bind, over.
RPCs == {"none", "spawned", "loaded", "made", "bound", "serving", "failed", "ended"}
Settled == {"none", "serving", "ended"}

TypeOK ==
    /\ enabled \in BOOLEAN
    /\ state \in {"stopped", "running", "error"}
    /\ mu \in BOOLEAN
    /\ server \in Runners \cup {None}
    /\ commands \in 0..MaxCommands
    /\ goal \in [Clients -> Commands]
    /\ cpc \in [Clients -> CPCs]
    /\ rpc \in [Runners -> RPCs]
    /\ target \in [Runners -> Runners \cup {None}]
    /\ httpOf \in [Runners -> Runners \cup {None}]
    /\ inShutdown \in [Runners -> BOOLEAN]
    /\ listens \in [Runners -> Runners \cup {None}]
    /\ port \in Runners \cup {Free, Foreign}
    /\ raced \in BOOLEAN

Init ==
    /\ enabled \in BOOLEAN
    /\ state = "stopped"
    /\ mu = FALSE
    /\ server = None
    /\ commands = 0
    /\ goal = [c \in Clients |-> "start"]
    /\ cpc = [c \in Clients |-> "idle"]
    /\ rpc = [r \in Runners |-> "none"]
    /\ target = [r \in Runners |-> None]
    /\ httpOf = [r \in Runners |-> None]
    /\ inShutdown = [r \in Runners |-> FALSE]
    /\ listens = [r \in Runners |-> None]
    /\ port = Free
    /\ raced = FALSE

-----------------------------------------------------------------------------
(* Control commands.                                                        *)

Goto(c, l) == cpc' = [cpc EXCEPT ![c] = l]

Command(c, a) ==
    /\ cpc[c] = "idle"
    /\ commands < MaxCommands
    /\ commands' = commands + 1
    /\ goal' = [goal EXCEPT ![c] = a]
    /\ Goto(c, IF a = "start" THEN "start" ELSE "stop")
    /\ UNCHANGED <<enabled, state, mu, server, runners, port, raced>>

\* start() of a service that runs already only reports so.
StartRefused(c) ==
    /\ cpc[c] = "start" /\ ~mu
    /\ state = "running"
    /\ Goto(c, "idle")
    /\ UNCHANGED <<enabled, state, mu, server, commands, goal, runners, port, raced>>

\* start() makes a Server, spawns its runner and reports "running".
Start(c) ==
    /\ cpc[c] = "start" /\ ~mu
    /\ state # "running"
    /\ \E r \in Runners :
         /\ rpc[r] = "none"
         /\ \A q \in Runners : q < r => rpc[q] # "none"
         /\ server' = r
         /\ rpc' = [rpc EXCEPT ![r] = "spawned"]
    /\ state' = "running"
    /\ Goto(c, "idle")
    /\ UNCHANGED <<enabled, mu, commands, goal, target, httpOf, inShutdown, listens, port, raced>>

\* What a command does when its stop() is over: restart() goes on to start(),
\* after a failure only if the state turns out to be "stopped".
Stopped(c) == Goto(c, IF goal[c] = "restart" THEN "start" ELSE "idle")
StopFailed(c) == Goto(c, IF goal[c] = "restart" THEN "check" ELSE "idle")

StopRefused(c) ==
    /\ cpc[c] = "stop" /\ ~mu
    /\ state # "running"
    /\ StopFailed(c)
    /\ UNCHANGED <<enabled, state, mu, server, commands, goal, runners, port, raced>>

\* The http.Server that Server.Stop shuts down: none before Start made it.
ToShutDown == IF server = None THEN None ELSE httpOf[server]

Unsettled == \E r \in Runners : rpc[r] \notin Settled

\* stop() finds nothing to shut down.
StopNothing(c) ==
    /\ cpc[c] = "stop" /\ ~mu
    /\ state = "running"
    /\ ToShutDown = None
    /\ state' = "stopped"
    /\ raced' = (raced \/ Unsettled)
    /\ Stopped(c)
    /\ UNCHANGED <<enabled, mu, server, commands, goal, runners, port>>

\* Mutant: the listeners stay open.
ShutdownMarks(c) ==
    /\ cpc[c] = "stop" /\ ~mu
    /\ state = "running"
    /\ ToShutDown # None
    /\ mu' = TRUE
    /\ inShutdown' = [inShutdown EXCEPT ![ToShutDown] = TRUE]
    /\ raced' = (raced \/ Unsettled)
    /\ Goto(c, "shutdown")
    /\ UNCHANGED <<enabled, state, server, commands, goal, rpc, target, httpOf, listens, port>>

\* http.Server.Shutdown: it is marked, the listeners it tracks are closed, and
\* their Accept loops end; stop() keeps the mutex while requests finish.
Shutdown(c) ==
    /\ cpc[c] = "stop" /\ ~mu
    /\ state = "running"
    /\ ToShutDown # None
    /\ mu' = TRUE
    /\ inShutdown' = [inShutdown EXCEPT ![ToShutDown] = TRUE]
    /\ LET closed == {r \in Runners : rpc[r] = "serving" /\ listens[r] = ToShutDown}
       IN  /\ rpc' = [r \in Runners |-> IF r \in closed THEN "ended" ELSE rpc[r]]
           /\ port' = IF port \in closed THEN Free ELSE port
    /\ raced' = (raced \/ Unsettled)
    /\ Goto(c, "shutdown")
    /\ UNCHANGED <<enabled, state, server, commands, goal, target, httpOf, listens>>

\* Mutant: the error path of stop() keeps the mutex.
StopEndLocked(c) ==
    /\ cpc[c] = "shutdown"
    /\ \/ state' = "stopped" /\ Stopped(c) /\ mu' = FALSE
       \/ "slow" \in Faults /\ state' = "error" /\ StopFailed(c) /\ UNCHANGED mu
    /\ UNCHANGED <<enabled, server, commands, goal, runners, port, raced>>

\* Shutdown returns: an error when a request took longer than its 5 seconds.
StopEnd(c) ==
    /\ cpc[c] = "shutdown"
    /\ \/ state' = "stopped" /\ Stopped(c)
       \/ "slow" \in Faults /\ state' = "error" /\ StopFailed(c)
    /\ mu' = FALSE
    /\ UNCHANGED <<enabled, server, commands, goal, runners, port, raced>>

\* restart() gives up on a state that start() might have mended.
RestartCheck(c) ==
    /\ cpc[c] = "check" /\ ~mu
    /\ Goto(c, IF state = "stopped" THEN "start" ELSE "idle")
    /\ UNCHANGED <<enabled, state, mu, server, commands, goal, runners, port, raced>>

ClientStep(c) ==
    \/ StartRefused(c) \/ Start(c) \/ StopRefused(c) \/ StopNothing(c)
    \/ Shutdown(c) \/ StopEnd(c) \/ RestartCheck(c)

-----------------------------------------------------------------------------
(* The runner: the goroutine that start() leaves behind, in Server.Start.   *)

\* It reads s.server only now, so it may find a later start's Server.
Load(r) ==
    /\ rpc[r] = "spawned"
    /\ target' = [target EXCEPT ![r] = server]
    /\ rpc' = [rpc EXCEPT ![r] = "loaded"]
    /\ UNCHANGED <<enabled, state, mu, server, clients, httpOf, inShutdown, listens, port, raced>>

\* Start does nothing when the service is disabled.
Make(r) ==
    /\ rpc[r] = "loaded"
    /\ \/ /\ enabled
          /\ httpOf' = [httpOf EXCEPT ![target[r]] = r]
          /\ rpc' = [rpc EXCEPT ![r] = "made"]
       \/ /\ ~enabled
          /\ rpc' = [rpc EXCEPT ![r] = "ended"]
          /\ UNCHANGED httpOf
    /\ UNCHANGED <<enabled, state, mu, server, clients, target, inShutdown, listens, port, raced>>

\* ListenAndServe of whatever http.Server the Server has by now.
Listen(r) ==
    /\ rpc[r] = "made"
    /\ LET o == httpOf[target[r]]
       IN  /\ listens' = [listens EXCEPT ![r] = o]
           /\ \/ /\ inShutdown[o]
                 /\ rpc' = [rpc EXCEPT ![r] = "ended"]
                 /\ UNCHANGED port
              \/ /\ ~inShutdown[o] /\ port = Free
                 /\ rpc' = [rpc EXCEPT ![r] = "bound"]
                 /\ port' = r
              \/ /\ ~inShutdown[o] /\ port # Free
                 /\ rpc' = [rpc EXCEPT ![r] = "failed"]
                 /\ UNCHANGED port
    /\ UNCHANGED <<enabled, state, mu, server, clients, target, httpOf, inShutdown, raced>>

\* Serve tracks the listener, or closes it when a Shutdown came first.
Serve(r) ==
    /\ rpc[r] = "bound"
    /\ \/ /\ inShutdown[listens[r]]
          /\ rpc' = [rpc EXCEPT ![r] = "ended"]
          /\ port' = Free
       \/ /\ ~inShutdown[listens[r]]
          /\ rpc' = [rpc EXCEPT ![r] = "serving"]
          /\ UNCHANGED port
    /\ UNCHANGED <<enabled, state, mu, server, clients, target, httpOf, inShutdown, listens, raced>>

\* Mutant: a Start that failed is only printed.
FailSilently(r) ==
    /\ rpc[r] = "failed" /\ ~mu
    /\ rpc' = [rpc EXCEPT ![r] = "ended"]
    /\ UNCHANGED <<enabled, state, mu, server, clients, target, httpOf, inShutdown, listens,
                   port, raced>>

\* A Start that failed: setState, whatever happened since.
SetError(r) ==
    /\ rpc[r] = "failed" /\ ~mu
    /\ state' = "error"
    /\ rpc' = [rpc EXCEPT ![r] = "ended"]
    /\ UNCHANGED <<enabled, mu, server, clients, target, httpOf, inShutdown, listens, port, raced>>

RunnerStep(r) == Load(r) \/ Make(r) \/ Listen(r) \/ Serve(r) \/ SetError(r)

\* Another program takes the port, or gives it back.
ForeignTake ==
    /\ "foreign" \in Faults
    /\ port' \in {Free, Foreign} \ {port} /\ port \in {Free, Foreign}
    /\ UNCHANGED <<enabled, state, mu, server, clients, runners, raced>>

Next ==
    \/ \E c \in Clients, a \in Commands : Command(c, a)
    \/ \E c \in Clients : ClientStep(c)
    \/ \E r \in Runners : RunnerStep(r)
    \/ ForeignTake

Spec == Init /\ [][Next]_vars

(* Goroutines that can run do; Go's mutex hands over to a waiter that waits *)
(* long, so a client or a runner that needs mu gets it (strong fairness).   *)
Fairness ==
    /\ \A c \in Clients : SF_vars(ClientStep(c))
    /\ \A r \in Runners : SF_vars(RunnerStep(r))

FairSpec == Spec /\ Fairness

-----------------------------------------------------------------------------
(* Properties.                                                              *)

\* Nothing is under way: no mutex held, every runner serves or is over.
AtRest == ~mu /\ ~Unsettled

\* An enabled service that reports "running" when all is at rest has one of
\* its runners on the port, however commands and runners interleaved.
RunningMeansListening ==
    enabled /\ AtRest /\ state = "running" => port \in Runners /\ rpc[port] = "serving"

\* As long as no stop comes before the last start has settled, the reported
\* state and the port agree: "running" exactly when one of ours listens, after
\* timeouts of Shutdown, failures to bind and restarts too.
OrderlyStateMatchesPort ==
    enabled /\ AtRest /\ ~raced => (state = "running" <=> port \in Runners)

\* A runner that has closed its listener is never the owner of the port, and
\* at most one accepts connections, orphans included.
OneListener ==
    \A r \in Runners : rpc[r] \in {"bound", "serving"} <=> port = r

\* Every control command is answered: no start waits for a stop for ever.
CommandsAnswered == \A c \in Clients : cpc[c] # "idle" ~> cpc[c] = "idle"
=============================================================================
