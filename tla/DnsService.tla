------------------------------ MODULE DnsService ------------------------------
(***************************************************************************)
(* The life of the DNS service: src/internal/services/dns/service.go, and  *)
(* New, Start and Stop of server.go with their two listeners.  What Stop   *)
(* does to rules and addresses is in DnsServer.                            *)
(*                                                                         *)
(* Clients are connections to the control socket (and, for the first start *)
(* and the last stop, Run and the main function).  start() leaves a runner *)
(* behind, which reads s.server when it gets to run, assigns two           *)
(* dns.Servers to its fields without a lock, spawns a listener for each,   *)
(* waits for the first of them to end, shuts both down and waits for both. *)
(* Servers, runners, dns.Servers and listeners are numbered by the start   *)
(* that makes them.                                                        *)
(*                                                                         *)
(* The rules of a dns.Server are those of github.com/miekg/dns: a started  *)
(* one does not listen again, one that is not started does not shut down,  *)
(* and Shutdown returns when the serve loop and its handlers have.         *)
(***************************************************************************)
EXTENDS Naturals, FiniteSets

CONSTANTS
    Clients,    \* goroutines of handleConnection
    MaxCommands,\* bound: control commands
    MaxStarts,  \* bound: how often start() makes a Server
    SocketFaults \* what may go wrong: subset of {"bind", "serve"}

Runners == 1..MaxStarts
None == 0
Nets == {"udp", "tcp"}

ASSUME DnsServiceAssumption ==
    MaxCommands \in Nat /\ MaxStarts \in Nat /\ Clients \cap Runners = {}

VARIABLES
    valid,      \* whether New accepts the configuration, which never changes
    state, server,  \* Service.state; Service.server, the start that made it
    mu,         \* whether Service.mu is held by a stop
    dead,       \* whether a nil dereference has killed the process
    commands,   \* control commands so far
    goal, cpc,  \* what each client was asked for, and where it is
    rpc,        \* where each runner is
    target,     \* the Server whose Start it is in
    field,      \* Server.dnsUdpServer and dnsTcpServer, or None (nil)
    started,    \* dns.Server.started
    lpc,        \* where each runner's two listeners are
    object,     \* the dns.Server that each of them serves
    first,      \* what the runner will receive from errChan
    held,       \* the dns.Server whose Shutdown each client and runner is in
    mux,        \* the Server whose handler the library's ServeMux has
    raced,      \* history: a command met a runner on its way
    late        \* history: a runner shut down a listener that was yet to come

service == <<valid, state, server, mu, dead>>
clients == <<commands, goal, cpc>>
runners == <<rpc, target, mux>>
listeners == <<field, started, lpc, object, first>>
history == <<raced, late>>
serviceVars == <<service, clients, runners, listeners, held, history>>

Commands == {"start", "stop", "restart", "update"}

\* A stop reads one field, then the other, and shuts down UDP, then TCP.
CPCs == {"idle", "start", "stop", "look", "udp", "udp wait", "tcp", "tcp wait", "check", "update"}

\* "spawned", in Start without and with its first dns.Server, before and in the
\* Shutdown of UDP, the same of TCP, in wg.Wait, over.
RPCs == {"none", "spawned", "loaded", "begun", "udp", "udp wait", "tcp", "tcp wait", "join",
         "ended"}
LPCs == {"none", "spawned", "serving", "ended"}

ServiceTypeOK ==
    /\ valid \in BOOLEAN /\ mu \in BOOLEAN /\ dead \in BOOLEAN
    /\ raced \in BOOLEAN /\ late \in BOOLEAN
    /\ state \in {"stopped", "running", "error"}
    /\ server \in Runners \cup {None}
    /\ commands \in Nat
    /\ goal \in [Clients -> Commands]
    /\ cpc \in [Clients -> CPCs]
    /\ rpc \in [Runners -> RPCs]
    /\ target \in [Runners -> Runners \cup {None}]
    /\ field \in [Runners -> [Nets -> Runners \cup {None}]]
    /\ started \in [Runners -> [Nets -> BOOLEAN]]
    /\ lpc \in [Runners -> [Nets -> LPCs]]
    /\ object \in [Runners -> [Nets -> Runners \cup {None}]]
    /\ first \in [Runners -> {"none", "nil", "error"}]
    /\ held \in [Clients \cup Runners -> Runners \cup {None}]
    /\ mux \in Runners \cup {None}

ServiceInit ==
    /\ valid \in BOOLEAN
    /\ mu = FALSE /\ dead = FALSE /\ raced = FALSE /\ late = FALSE
    /\ state = "stopped" /\ server = None /\ mux = None
    /\ commands = 0
    /\ goal = [c \in Clients |-> "start"]
    /\ cpc = [c \in Clients |-> "idle"]
    /\ rpc = [r \in Runners |-> "none"]
    /\ target = [r \in Runners |-> None]
    /\ field = [r \in Runners |-> [n \in Nets |-> None]]
    /\ started = [r \in Runners |-> [n \in Nets |-> FALSE]]
    /\ lpc = [r \in Runners |-> [n \in Nets |-> "none"]]
    /\ object = [r \in Runners |-> [n \in Nets |-> None]]
    /\ first = [r \in Runners |-> "none"]
    /\ held = [a \in Clients \cup Runners |-> None]

-----------------------------------------------------------------------------
(* dns.Server.                                                              *)

\* A serve loop works on it: queries may be under way.  One that was started again
\* has a new loop to wait for.
Serves(o, n) == \E r \in Runners : lpc[r][n] = "serving" /\ object[r][n] = o
Serving(n) == \E r \in Runners : lpc[r][n] = "serving"

\* Shutdown closes the socket of TCP at once, that of UDP when its queries have
\* been answered.
PortTaken(n) ==
    \E r \in Runners : lpc[r][n] = "serving" /\ (n = "udp" \/ started[object[r][n]][n])

\* Shutdown of o by a: the first part, if o is started.
BeginShutdown(a, o, n) ==
    /\ started[o][n]
    /\ started' = [started EXCEPT ![o][n] = FALSE]
    /\ held' = [held EXCEPT ![a] = o]

\* The wait for the loop and its handlers.
EndShutdown(a, n) ==
    /\ ~Serves(held[a], n)
    /\ held' = [held EXCEPT ![a] = None]

-----------------------------------------------------------------------------
(* Control commands.                                                        *)

Goto(c, l) == cpc' = [cpc EXCEPT ![c] = l]

\* Starts so far, and those that a client is on its way to.
Starts ==
    Cardinality({r \in Runners : rpc[r] # "none"})
      + Cardinality({c \in Clients : cpc[c] # "idle" /\ goal[c] \in {"start", "restart"}})

Command(c, a) ==
    /\ cpc[c] = "idle"
    /\ commands < MaxCommands
    /\ a \in {"start", "restart"} => Starts < MaxStarts
    /\ commands' = commands + 1
    /\ goal' = [goal EXCEPT ![c] = a]
    /\ Goto(c, IF a = "restart" THEN "stop" ELSE a)
    /\ UNCHANGED <<service, runners, listeners, held, history>>

StartRefused(c) ==
    /\ cpc[c] = "start" /\ ~mu
    /\ state = "running"
    /\ Goto(c, "idle")
    /\ UNCHANGED <<service, commands, goal, runners, listeners, held, history>>

\* New fails: s.server is nil now.
StartInvalid(c) ==
    /\ cpc[c] = "start" /\ ~mu
    /\ ~valid
    /\ server' = None
    /\ state' = "error"
    /\ Goto(c, "idle")
    /\ UNCHANGED <<valid, mu, dead, commands, goal, runners, listeners, held, history>>

\* A runner with an error that it has yet to report.
Reporting(r) == first[r] = "error" /\ rpc[r] # "ended"

\* start() makes a Server, spawns its runner and reports "running".
StartServer(c) ==
    /\ cpc[c] = "start" /\ ~mu
    /\ state # "running" /\ valid
    /\ \E r \in Runners :
         /\ rpc[r] = "none"
         /\ \A q \in Runners : q < r => rpc[q] # "none"
         /\ server' = r
         /\ rpc' = [rpc EXCEPT ![r] = "spawned"]
    /\ state' = "running"
    /\ Goto(c, "idle")
    /\ raced' = (raced \/ \E r \in Runners : Reporting(r))
    /\ UNCHANGED <<valid, mu, dead, commands, goal, target, mux, listeners, held, late>>

\* A runner that has both listeners, or has ended.
Settled(r) ==
    \/ rpc[r] \in {"none", "ended"}
    \/ rpc[r] = "udp" /\ \A n \in Nets : lpc[r][n] = "serving" /\ started[object[r][n]][n]

\* Mutant: the error path of stop() keeps the mutex.
StopReturnsLocked(c, s, ok) ==
    /\ mu' = ~ok
    /\ state' = s
    /\ Goto(c, IF goal[c] # "restart" THEN "idle" ELSE IF ok THEN "start" ELSE "check")
    /\ UNCHANGED <<valid, server, dead>>

\* The end of a stop(), its mutex given back: restart() goes on to start(),
\* after a failure only if the state turns out to be "stopped".
StopReturns(c, s, ok) ==
    /\ mu' = FALSE
    /\ state' = s
    /\ Goto(c, IF goal[c] # "restart" THEN "idle" ELSE IF ok THEN "start" ELSE "check")
    /\ UNCHANGED <<valid, server, dead>>

StopRefused(c) ==
    /\ cpc[c] = "stop" /\ ~mu
    /\ state # "running"
    /\ StopReturns(c, state, FALSE)
    /\ UNCHANGED <<commands, goal, runners, listeners, held, history>>

RestartCheck(c) ==
    /\ cpc[c] = "check" /\ ~mu
    /\ Goto(c, IF state = "stopped" THEN "start" ELSE "idle")
    /\ UNCHANGED <<service, commands, goal, runners, listeners, held, history>>

\* Server.Stop, if dnsUdpServer is not nil,
Stop(c) ==
    /\ cpc[c] = "stop" /\ ~mu
    /\ state = "running"
    /\ mu' = TRUE
    /\ raced' = (raced \/ \E r \in Runners : ~Settled(r))
    /\ Goto(c, IF field[server]["udp"] # None THEN "udp" ELSE "look")
    /\ UNCHANGED <<valid, state, server, dead, commands, goal, runners, listeners, held, late>>

\* Mutant: the listener is shut down whether or not the field is nil.
StopLookNot(c) ==
    /\ cpc[c] = "look"
    /\ Goto(c, "udp")
    /\ UNCHANGED <<service, commands, goal, runners, listeners, held, history>>

\* or dnsTcpServer is not; otherwise there is nothing to stop.
StopLook(c) ==
    /\ cpc[c] = "look"
    /\ \/ /\ field[server]["tcp"] # None
          /\ Goto(c, "udp")
          /\ UNCHANGED service
       \/ /\ field[server]["tcp"] = None
          /\ StopReturns(c, "stopped", TRUE)
    /\ UNCHANGED <<commands, goal, runners, listeners, held, history>>

\* Shutdown of one listener: a nil field kills the process, and a listener
\* that is not started fails the stop, whatever the other one does.
StopListener(c, n) ==
    /\ cpc[c] = n
    /\ LET o == field[server][n]
       IN  \/ /\ o = None
              /\ dead' = TRUE
              /\ UNCHANGED <<valid, state, server, mu, cpc, started, held>>
           \/ /\ o # None
              /\ BeginShutdown(c, o, n)
              /\ Goto(c, IF n = "udp" THEN "udp wait" ELSE "tcp wait")
              /\ UNCHANGED service
           \/ /\ o # None /\ ~started[o][n]
              /\ StopReturns(c, "error", FALSE)
              /\ UNCHANGED <<started, held>>
    /\ UNCHANGED <<commands, goal, runners, field, lpc, object, first, history>>

StopWaitUdp(c) ==
    /\ cpc[c] = "udp wait"
    /\ EndShutdown(c, "udp")
    /\ Goto(c, "tcp")
    /\ UNCHANGED <<service, commands, goal, runners, listeners, history>>

\* Mutant: Stop does not wait for the queries over TCP.
StopWaitTcpNot(c) ==
    /\ cpc[c] = "tcp wait"
    /\ held' = [held EXCEPT ![c] = None]
    /\ StopReturns(c, "stopped", TRUE)
    /\ UNCHANGED <<commands, goal, runners, listeners, history>>

StopWaitTcp(c) ==
    /\ cpc[c] = "tcp wait"
    /\ EndShutdown(c, "tcp")
    /\ StopReturns(c, "stopped", TRUE)
    /\ UNCHANGED <<commands, goal, runners, listeners, history>>

\* "dnat flush" takes s.server as it is, without the mutex: nil before the
\* first start, or when New has failed, which kills the process.
Update(c) ==
    /\ cpc[c] = "update"
    /\ Goto(c, "idle")
    /\ dead' = (server = None)
    /\ UNCHANGED <<valid, state, server, mu, commands, goal, runners, listeners, held, history>>

ClientStep(c) ==
    \/ StartRefused(c) \/ StartInvalid(c) \/ StartServer(c) \/ StopRefused(c) \/ RestartCheck(c)
    \/ Stop(c) \/ StopLook(c) \/ (\E n \in Nets : StopListener(c, n))
    \/ StopWaitUdp(c) \/ StopWaitTcp(c) \/ Update(c)

-----------------------------------------------------------------------------
(* The runner: the goroutine that start() leaves behind, in Server.Start.   *)

Become(r, l) == rpc' = [rpc EXCEPT ![r] = l]

\* It reads s.server only now, so it may find a later start's Server.
Load(r) ==
    /\ rpc[r] = "spawned"
    /\ target' = [target EXCEPT ![r] = server]
    /\ Become(r, "loaded")
    /\ UNCHANGED <<service, clients, mux, listeners, held, history>>

\* HandleFunc, and the first field.
Begin(r) ==
    /\ rpc[r] = "loaded"
    /\ mux' = target[r]
    /\ field' = [field EXCEPT ![target[r]]["udp"] = r]
    /\ Become(r, "begun")
    /\ UNCHANGED <<service, clients, target, started, lpc, object, first, held, history>>

\* The second field, then the two listeners.
Spawn(r) ==
    /\ rpc[r] = "begun"
    /\ field' = [field EXCEPT ![target[r]]["tcp"] = r]
    /\ lpc' = [lpc EXCEPT ![r] = [n \in Nets |-> "spawned"]]
    /\ Become(r, "udp")
    /\ UNCHANGED <<service, clients, target, mux, started, object, first, held, history>>

\* Mutant: the other listener is left alone.
ShutdownNot(r, n) ==
    /\ rpc[r] = n
    /\ first[r] # "none"
    /\ Become(r, IF n = "udp" THEN "tcp" ELSE "join")
    /\ UNCHANGED <<service, clients, target, mux, listeners, held, history>>

\* When errChan has something, both Shutdowns, whose errors are ignored.  One
\* that comes before its listener has started does nothing.
Shutdown(r, n) ==
    /\ rpc[r] = n
    /\ first[r] # "none"
    /\ LET o == field[target[r]][n]
       IN  \/ /\ BeginShutdown(r, o, n)
              /\ Become(r, IF n = "udp" THEN "udp wait" ELSE "tcp wait")
              /\ UNCHANGED late
           \/ /\ ~started[o][n]
              /\ Become(r, IF n = "udp" THEN "tcp" ELSE "join")
              /\ late' = (late \/ lpc[r][n] = "spawned")
              /\ UNCHANGED <<started, held>>
    /\ UNCHANGED <<service, clients, target, mux, field, lpc, object, first, raced>>

WaitUdp(r) ==
    /\ rpc[r] = "udp wait"
    /\ EndShutdown(r, "udp")
    /\ Become(r, "tcp")
    /\ UNCHANGED <<service, clients, target, mux, listeners, history>>

WaitTcp(r) ==
    /\ rpc[r] = "tcp wait"
    /\ EndShutdown(r, "tcp")
    /\ Become(r, "join")
    /\ UNCHANGED <<service, clients, target, mux, listeners, history>>

\* wg.Wait, and setState after an error, whatever happened since.
Join(r) ==
    /\ rpc[r] = "join"
    /\ \A n \in Nets : lpc[r][n] = "ended"
    /\ \/ first[r] = "nil" /\ UNCHANGED state
       \/ first[r] = "error" /\ ~mu /\ state' = "error"
    /\ Become(r, "ended")
    /\ UNCHANGED <<valid, server, mu, dead, clients, target, mux, listeners, held, history>>

RunnerStep(r) ==
    \/ Load(r) \/ Begin(r) \/ Spawn(r) \/ (\E n \in Nets : Shutdown(r, n))
    \/ WaitUdp(r) \/ WaitTcp(r) \/ Join(r)

-----------------------------------------------------------------------------
(* A listener: the goroutine in ListenAndServe.                             *)

\* It returns, and sends to errChan, which has room for both.
Ends(r, n, e) ==
    /\ lpc' = [lpc EXCEPT ![r][n] = "ended"]
    /\ object' = [object EXCEPT ![r][n] = None]
    /\ first' = IF first[r] = "none" THEN [first EXCEPT ![r] = e] ELSE first

\* It takes the field as it is now.  A started dns.Server, a taken port and
\* another program on the port are errors.
Listen(r, n) ==
    /\ lpc[r][n] = "spawned"
    /\ LET o == field[target[r]][n]
       IN  \/ /\ ~started[o][n] /\ ~PortTaken(n)
              /\ started' = [started EXCEPT ![o][n] = TRUE]
              /\ object' = [object EXCEPT ![r][n] = o]
              /\ lpc' = [lpc EXCEPT ![r][n] = "serving"]
              /\ UNCHANGED first
           \/ /\ started[o][n] \/ PortTaken(n) \/ "bind" \in SocketFaults
              /\ Ends(r, n, "error")
              /\ UNCHANGED started
    /\ UNCHANGED <<service, clients, runners, field, held, history>>

\* After Shutdown the loop ends when its handlers have.
ServeEnds(r, n) ==
    /\ lpc[r][n] = "serving"
    /\ ~started[object[r][n]][n]
    /\ Ends(r, n, "nil")
    /\ UNCHANGED <<service, clients, runners, field, started, held, history>>

\* The socket fails under the loop.
ServeFails(r, n) ==
    /\ "serve" \in SocketFaults
    /\ lpc[r][n] = "serving"
    /\ started[object[r][n]][n]
    /\ Ends(r, n, "error")
    /\ UNCHANGED <<service, clients, runners, field, started, held, history>>

ServiceNext ==
    /\ ~dead
    /\ \/ \E c \in Clients, a \in Commands : Command(c, a)
       \/ \E c \in Clients : ClientStep(c)
       \/ \E r \in Runners : RunnerStep(r)
       \/ \E r \in Runners, n \in Nets : Listen(r, n) \/ ServeEnds(r, n) \/ ServeFails(r, n)

ServiceSpec == ServiceInit /\ [][ServiceNext]_serviceVars

(* Goroutines that can run do, queries end, and Go's mutex hands over to a  *)
(* waiter that waits long (strong fairness).  No socket need ever fail.     *)
ServiceFairness ==
    /\ \A c \in Clients : SF_serviceVars(~dead /\ ClientStep(c))
    /\ \A r \in Runners : SF_serviceVars(~dead /\ RunnerStep(r))
    /\ \A r \in Runners, n \in Nets : WF_serviceVars(~dead /\ (Listen(r, n) \/ ServeEnds(r, n)))

ServiceFairSpec == ServiceSpec /\ ServiceFairness

-----------------------------------------------------------------------------
(* Properties.                                                              *)

\* Both listeners of s serve, and the queries they get are handled by s.
Answers(s) ==
    /\ mux = s
    /\ \A n \in Nets : \E r \in Runners : target[r] = s /\ lpc[r][n] = "serving"

\* Nothing moves any more: no mutex held, and every runner has both listeners,
\* has ended, or waits for a listener that nobody will shut down.
AtRest ==
    /\ ~dead /\ ~mu
    /\ \A r \in Runners :
         \/ Settled(r)
         \/ rpc[r] = "join" /\ \E n \in Nets : lpc[r][n] = "serving" /\ started[object[r][n]][n]

\* When no command met a runner on its way and no runner shut down a listener
\* before it came (server.go:131-134), a service at rest is "running" exactly
\* when its Server answers over UDP and TCP, and otherwise no socket is open:
\* whichever listener fails first, and whether a Stop reports an error or not.
OrderlyStateMatchesSockets ==
    AtRest /\ ~raced /\ ~late =>
        /\ state = "running" <=> server # None /\ Answers(server)
        /\ state # "running" => \A n \in Nets : ~Serving(n)

\* A stop that answers "stopped" has waited for every query over UDP and TCP,
\* unless a command met a runner.
StopMeansQuiet == ~raced /\ state = "stopped" => \A n \in Nets : ~Serving(n)

\* Stop reads two fields that a runner is assigning, without a lock, and never
\* dereferences a nil one: only a flush without a Server kills the process.
OnlyFlushKills == dead => server = None

\* Every control command is answered, unless the process dies: Shutdown, which
\* runs under the service's mutex, waits for nobody who waits for that.
CommandsAnswered == \A c \in Clients : cpc[c] # "idle" ~> (cpc[c] = "idle" \/ dead)

\* When a listener fails, Start shuts the other one down and reports the failure,
\* unless it did so before the other one came (server.go:131-134), or a command
\* met a runner.
FailureReported ==
    \A r \in Runners : first[r] = "error" ~> (rpc[r] = "ended" \/ late \/ raced \/ dead)
=============================================================================
