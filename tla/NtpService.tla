------------------------------ MODULE NtpService ------------------------------
(***************************************************************************)
(* The NTP service: src/internal/services/ntp/{service,server}.go.         *)
(*                                                                         *)
(* Clients are connections to the control socket (and, for the first       *)
(* start and the last stop, Run and the main function).  start() leaves a  *)
(* runner behind, which reads s.server when it gets to run, opens the UDP  *)
(* socket, and spawns the serve loop.  Servers, runners, their sockets and *)
(* their serve loops are numbered by the start that makes them.            *)
(*                                                                         *)
(* Time is counted in seconds and multipliers in units of 1/Unit.  A       *)
(* multiplier is any float64 that the configuration or a client names: a   *)
(* negative one makes the time go back, and one that is not finite, or too *)
(* large for the product to fit an int64, makes it whatever the machine's  *)
(* conversion yields (NotFinite).  Rounding of the product is left out.    *)
(***************************************************************************)
EXTENDS Integers

CONSTANTS
    Clients,    \* goroutines of handleConnection
    MaxCommands,\* bound: control commands, each of which starts at most once
    MaxNow,     \* bound: seconds that pass
    Unit,       \* the multiplier 1.0
    Multipliers,\* multipliers that a client may set: of any sign
    NotFinite,  \* NaN, an infinity, or a multiplier whose products fit no int64
    Configured, \* the configuration's multiplier, the first of every Server
    NoTime      \* a clock that was given one of those

Clocks == [base : Int, real : Nat, multiplier : Int]

ASSUME NtpAssumption ==
    /\ MaxCommands \in Nat /\ MaxNow \in Nat
    /\ Unit \in Nat \ {0}
    /\ Multipliers \subseteq Int
    /\ NotFinite \notin Multipliers
    /\ Configured \in Multipliers \cup {NotFinite}
    /\ NoTime \notin Clocks

Runners == 1..MaxCommands
None == 0

\* Nobody's socket has the UDP port.
Free == 0

VARIABLES
    state, server,  \* Service.state; Service.server, the start that made it
    mu,         \* whether Service.mu is held by a stop that waits
    commands,   \* control commands so far
    goal, cpc,  \* what each client was asked for, and where it is
    rpc,        \* where each runner is
    target,     \* the Server that a runner, and its serve loop, works for
    port,       \* who holds the UDP port: the socket that is open
    conn,       \* Server.conn: the runner whose socket it is, or None (nil)
    cancelled,  \* whether Server.ctx is done
    wg,         \* Server.wg: serve loops that have not returned
    spc, sock,  \* where each serve loop is, and the socket it reads
    dead,       \* whether a nil dereference has killed the process
    now,        \* the wall clock
    clock,      \* Server.{baseTime, baseRealTime, multiplier}, or NoTime
    raced,      \* history: a stop met a runner that was not settled
    over,       \* history: Servers whose Stop has returned
    ideal, updates  \* history: a Server's exact time in 1/Unit, its updates so far

clients == <<commands, goal, cpc>>
runners == <<rpc, target, port>>
loops == <<wg, spc, sock>>
times == <<now, clock, ideal, updates>>
life == <<state, server, mu, raced, over>>
vars == <<life, clients, runners, conn, cancelled, loops, dead, times>>

Commands == {"start", "stop", "restart", "update"}
CPCs == {"idle", "stop", "close", "wait", "check", "start", "update"}

\* "spawned", in Start, its ListenUDP returned a socket or an error, s.conn
\* assigned, failed; in the wait for ctx or over.
RPCs == {"none", "spawned", "loaded", "opened", "refused", "bound", "failed", "settled"}
Settled == {"none", "settled"}
SPCs == {"none", "poll", "deadline", "reading", "done"}

TypeOK ==
    /\ state \in {"stopped", "running", "error"}
    /\ server \in Runners \cup {None}
    /\ mu \in BOOLEAN /\ raced \in BOOLEAN /\ dead \in BOOLEAN
    /\ commands \in 0..MaxCommands
    /\ goal \in [Clients -> Commands]
    /\ cpc \in [Clients -> CPCs]
    /\ rpc \in [Runners -> RPCs]
    /\ target \in [Runners -> Runners \cup {None}]
    /\ port \in Runners \cup {Free}
    /\ conn \in [Runners -> Runners \cup {None}]
    /\ cancelled \in [Runners -> BOOLEAN]
    /\ wg \in [Runners -> Nat]
    /\ spc \in [Runners -> SPCs]
    /\ sock \in [Runners -> Runners \cup {None}]
    /\ over \in SUBSET Runners
    /\ now \in 0..MaxNow
    /\ clock \in [Runners -> Clocks \cup {NoTime}]
    /\ ideal \in [Runners -> Int]
    /\ updates \in [Runners -> Nat]

Init ==
    /\ state = "stopped" /\ server = None
    /\ mu = FALSE /\ raced = FALSE /\ dead = FALSE
    /\ commands = 0
    /\ goal = [c \in Clients |-> "start"]
    /\ cpc = [c \in Clients |-> "idle"]
    /\ rpc = [r \in Runners |-> "none"]
    /\ target = [r \in Runners |-> None]
    /\ port = Free
    /\ conn = [r \in Runners |-> None]
    /\ cancelled = [r \in Runners |-> FALSE]
    /\ wg = [r \in Runners |-> 0]
    /\ spc = [r \in Runners |-> "none"]
    /\ sock = [r \in Runners |-> None]
    /\ over = {}
    /\ now = 0
    /\ clock = [r \in Runners |-> NoTime]
    /\ ideal = [r \in Runners |-> 0]
    /\ updates = [r \in Runners |-> 0]

-----------------------------------------------------------------------------
(* The simulated clock.                                                     *)

\* int64 of x/Unit: it drops the fraction, towards zero.
Trunc(x) == IF x >= 0 THEN x \div Unit ELSE -((-x) \div Unit)

\* int64(float64(elapsed)*multiplier)
Elapsed(s) == Trunc((now - clock[s].real) * clock[s].multiplier)

\* A Server that was made, and whose multipliers were all finite.
Ticks(s) == rpc[s] # "none" /\ clock[s] # NoTime

\* What the server answers now, without the era of NTP.
AdjustedTime(s) == clock[s].base + Elapsed(s)

Tick ==
    /\ now < MaxNow
    /\ now' = now + 1
    /\ ideal' = [s \in Runners |->
                   IF Ticks(s) THEN ideal[s] + clock[s].multiplier ELSE ideal[s]]
    /\ UNCHANGED <<life, clients, runners, conn, cancelled, loops, dead, clock, updates>>

\* A clock with the multiplier m.  A product that is not finite makes the base
\* time useless for good.
Clock(base, real, m) ==
    IF m = NotFinite THEN NoTime ELSE [base |-> base, real |-> real, multiplier |-> m]

\* Mutant: the multiplier changes before the base times do.
SetMultiplierFirst(s, m) ==
    clock' = [clock EXCEPT ![s] =
      IF @ = NoTime \/ m = NotFinite THEN NoTime
      ELSE Clock(@.base + Trunc((now - @.real) * m), now, m)]

\* Mutant: the real base time stays.
SetMultiplierTwice(s, m) ==
    clock' = [clock EXCEPT ![s] =
      IF @ = NoTime THEN NoTime ELSE Clock(AdjustedTime(s), @.real, m)]

\* SetMultiplier, under the Server's mutex: the time so far becomes the base.
SetMultiplier(s, m) ==
    clock' = [clock EXCEPT ![s] = IF @ = NoTime THEN NoTime ELSE Clock(AdjustedTime(s), now, m)]

-----------------------------------------------------------------------------
(* Control commands.                                                        *)

Goto(c, l) == cpc' = [cpc EXCEPT ![c] = l]

Command(c, a) ==
    /\ cpc[c] = "idle"
    /\ commands < MaxCommands
    /\ commands' = commands + 1
    /\ goal' = [goal EXCEPT ![c] = a]
    /\ Goto(c, IF a = "restart" THEN "stop" ELSE a)
    /\ UNCHANGED <<life, runners, conn, cancelled, loops, dead, times>>

StartRefused(c) ==
    /\ cpc[c] = "start" /\ ~mu
    /\ state = "running"
    /\ Goto(c, "idle")
    /\ UNCHANGED <<life, commands, goal, runners, conn, cancelled, loops, dead, times>>

\* start() makes a Server, with the configured multiplier, and spawns its runner.
Start(c) ==
    /\ cpc[c] = "start" /\ ~mu
    /\ state # "running"
    /\ \E r \in Runners :
         /\ rpc[r] = "none"
         /\ \A q \in Runners : q < r => rpc[q] # "none"
         /\ server' = r
         /\ rpc' = [rpc EXCEPT ![r] = "spawned"]
         /\ clock' = [clock EXCEPT ![r] = Clock(now, now, Configured)]
         /\ ideal' = [ideal EXCEPT ![r] = now * Unit]
    /\ state' = "running"
    /\ Goto(c, "idle")
    /\ UNCHANGED <<mu, raced, over, commands, goal, target, port, conn, cancelled, loops, dead,
                   now, updates>>

\* restart() goes on to start() after its stop(), or after a failed one when
\* the state turns out to be "stopped".
StopRefused(c) ==
    /\ cpc[c] = "stop" /\ ~mu
    /\ state # "running"
    /\ Goto(c, IF goal[c] = "restart" THEN "check" ELSE "idle")
    /\ UNCHANGED <<life, commands, goal, runners, conn, cancelled, loops, dead, times>>

RestartCheck(c) ==
    /\ cpc[c] = "check" /\ ~mu
    /\ Goto(c, IF state = "stopped" THEN "start" ELSE "idle")
    /\ UNCHANGED <<life, commands, goal, runners, conn, cancelled, loops, dead, times>>

\* Server.Stop: cancel the context,
StopCancel(c) ==
    /\ cpc[c] = "stop" /\ ~mu
    /\ state = "running"
    /\ mu' = TRUE
    /\ cancelled' = [cancelled EXCEPT ![server] = TRUE]
    /\ raced' = (raced \/ \E r \in Runners : rpc[r] \notin Settled)
    /\ Goto(c, "close")
    /\ UNCHANGED <<state, server, over, commands, goal, runners, conn, loops, dead, times>>

\* Mutant: the closed connection is forgotten.
StopCloseForgets(c) ==
    /\ cpc[c] = "close"
    /\ port' = IF conn[server] # None /\ port = conn[server] THEN Free ELSE port
    /\ conn' = [conn EXCEPT ![server] = None]
    /\ Goto(c, "wait")
    /\ UNCHANGED <<life, commands, goal, rpc, target, cancelled, loops, dead, times>>

\* Mutant: Stop relies on the context alone.
StopCloseNot(c) ==
    /\ cpc[c] = "close"
    /\ Goto(c, "wait")
    /\ UNCHANGED <<life, commands, goal, runners, conn, cancelled, loops, dead, times>>

\* close the connection unless it is nil,
StopClose(c) ==
    /\ cpc[c] = "close"
    /\ port' = IF conn[server] # None /\ port = conn[server] THEN Free ELSE port
    /\ Goto(c, "wait")
    /\ UNCHANGED <<life, commands, goal, rpc, target, conn, cancelled, loops, dead, times>>

\* and wait for the serve loop; then stop() reports "stopped".
StopEnd(c) ==
    /\ cpc[c] = "wait"
    /\ wg[server] = 0
    /\ mu' = FALSE
    /\ state' = "stopped"
    /\ over' = over \cup {server}
    /\ Goto(c, IF goal[c] = "restart" THEN "start" ELSE "idle")
    /\ UNCHANGED <<server, raced, commands, goal, runners, conn, cancelled, loops, dead, times>>

\* An update takes s.server as it is, without the Service's mutex: nil before
\* the first start, which kills the process.  Another key, or a value that
\* ParseFloat refuses, changes nothing.
Update(c) ==
    /\ cpc[c] = "update"
    /\ Goto(c, "idle")
    /\ \/ UNCHANGED <<clock, updates, dead>>
       \/ /\ server = None
          /\ dead' = TRUE
          /\ UNCHANGED <<clock, updates>>
       \/ /\ server # None
          /\ \E m \in Multipliers \cup {NotFinite} : SetMultiplier(server, m)
          /\ updates' = [updates EXCEPT ![server] = @ + 1]
          /\ UNCHANGED dead
    /\ UNCHANGED <<life, commands, goal, runners, conn, cancelled, loops, now, ideal>>

ClientStep(c) ==
    \/ StartRefused(c) \/ Start(c) \/ StopRefused(c) \/ RestartCheck(c)
    \/ StopCancel(c) \/ StopClose(c) \/ StopEnd(c) \/ Update(c)

-----------------------------------------------------------------------------
(* The runner: the goroutine that start() leaves behind, in Server.Start.   *)

Become(r, l) == rpc' = [rpc EXCEPT ![r] = l]

\* It reads s.server only now, so it may find a later start's Server.
Load(r) ==
    /\ rpc[r] = "spawned"
    /\ target' = [target EXCEPT ![r] = server]
    /\ Become(r, "loaded")
    /\ UNCHANGED <<life, clients, port, conn, cancelled, loops, dead, times>>

\* net.ListenUDP fails when a socket of ours has the port, or another program.
Listen(r) ==
    /\ rpc[r] = "loaded"
    /\ \/ port = Free /\ port' = r /\ Become(r, "opened")
       \/ Become(r, "refused") /\ UNCHANGED port
    /\ UNCHANGED <<life, clients, target, conn, cancelled, loops, dead, times>>

\* s.conn, err = ...: an error makes s.conn nil, whoever had set it.
Assign(r) ==
    /\ \/ /\ rpc[r] = "opened"
          /\ conn' = [conn EXCEPT ![target[r]] = r]
          /\ Become(r, "bound")
       \/ /\ rpc[r] = "refused"
          /\ conn' = [conn EXCEPT ![target[r]] = None]
          /\ Become(r, "failed")
    /\ UNCHANGED <<life, clients, target, port, cancelled, loops, dead, times>>

\* Start counts the serve loop, spawns it, and has nothing left but to wait
\* for the context.
Serve(r) ==
    /\ rpc[r] = "bound"
    /\ wg' = [wg EXCEPT ![target[r]] = @ + 1]
    /\ spc' = [spc EXCEPT ![r] = "poll"]
    /\ Become(r, "settled")
    /\ UNCHANGED <<life, clients, target, port, conn, cancelled, sock, dead, times>>

\* Mutant: a Start that failed is only printed.
FailSilently(r) ==
    /\ rpc[r] = "failed" /\ ~mu
    /\ Become(r, "settled")
    /\ UNCHANGED <<life, clients, target, port, conn, cancelled, loops, dead, times>>

\* A Start that failed: setState, whatever happened since.
SetError(r) ==
    /\ rpc[r] = "failed" /\ ~mu
    /\ state' = "error"
    /\ Become(r, "settled")
    /\ UNCHANGED <<server, mu, raced, over, clients, target, port, conn, cancelled, loops, dead,
                   times>>

RunnerStep(r) == Load(r) \/ Listen(r) \/ Assign(r) \/ Serve(r) \/ SetError(r)

-----------------------------------------------------------------------------
(* The serve loop.                                                          *)

Loop(r, l) == spc' = [spc EXCEPT ![r] = l]

\* serve returns, and its deferred wg.Done runs.
Leave(r) == Loop(r, "done") /\ wg' = [wg EXCEPT ![target[r]] = @ - 1]

\* Mutant: the loop looks at the context only after an error.
PollNot(r) ==
    /\ spc[r] = "poll"
    /\ Loop(r, "deadline")
    /\ UNCHANGED <<life, clients, runners, conn, cancelled, wg, sock, dead, times>>

\* select: the loop ends when the context is done.
Poll(r) ==
    /\ spc[r] = "poll"
    /\ \/ cancelled[target[r]] /\ Leave(r)
       \/ ~cancelled[target[r]] /\ Loop(r, "deadline") /\ UNCHANGED wg
    /\ UNCHANGED <<life, clients, runners, conn, cancelled, sock, dead, times>>

\* SetReadDeadline on s.conn as it is now: nil kills the process, a closed
\* socket ends the loop.
Deadline(r) ==
    /\ spc[r] = "deadline"
    /\ LET s == conn[target[r]]
       IN  \/ /\ s = None
              /\ dead' = TRUE
              /\ UNCHANGED <<wg, spc, sock>>
           \/ /\ s # None /\ port # s
              /\ Leave(r)
              /\ UNCHANGED <<sock, dead>>
           \/ /\ s # None /\ port = s
              /\ sock' = [sock EXCEPT ![r] = s]
              /\ Loop(r, "reading")
              /\ UNCHANGED <<wg, dead>>
    /\ UNCHANGED <<life, clients, runners, conn, cancelled, times>>

\* A packet comes; the loop writes AdjustedTime to s.conn as it is now.  A
\* closed socket only makes the write fail.
Reply(r) ==
    /\ spc[r] = "reading" /\ port = sock[r]
    /\ \/ conn[target[r]] = None /\ dead' = TRUE /\ UNCHANGED spc
       \/ conn[target[r]] # None /\ Loop(r, "poll") /\ UNCHANGED dead
    /\ UNCHANGED <<life, clients, runners, conn, cancelled, wg, sock, times>>

\* Mutant: no deadline is set, so only a closed socket ends the read.
TimeoutNever(r) ==
    /\ spc[r] = "reading" /\ port # sock[r]
    /\ Loop(r, "poll")
    /\ UNCHANGED <<life, clients, runners, conn, cancelled, wg, sock, dead, times>>

\* The deadline of one second passes.
Timeout(r) ==
    /\ spc[r] = "reading"
    /\ Loop(r, "poll")
    /\ UNCHANGED <<life, clients, runners, conn, cancelled, wg, sock, dead, times>>

\* The socket is closed under the read: the loop ends.
ReadClosed(r) ==
    /\ spc[r] = "reading" /\ port # sock[r]
    /\ Leave(r)
    /\ UNCHANGED <<life, clients, runners, conn, cancelled, sock, dead, times>>

\* What a serve loop does without packets.
LoopStep(r) == Poll(r) \/ Deadline(r) \/ Timeout(r) \/ ReadClosed(r)

Next ==
    /\ ~dead
    /\ \/ \E c \in Clients, a \in Commands : Command(c, a)
       \/ \E c \in Clients : ClientStep(c)
       \/ \E r \in Runners : RunnerStep(r) \/ LoopStep(r) \/ Reply(r)
       \/ Tick

Spec == Init /\ [][Next]_vars

(* Goroutines that can run do; Go's mutex hands over to a waiter that waits *)
(* long, so a client or a runner that needs mu gets it (strong fairness).   *)
(* No packet need ever come.                                                *)
Fairness ==
    /\ \A c \in Clients : SF_vars(~dead /\ ClientStep(c))
    /\ \A r \in Runners : SF_vars(~dead /\ RunnerStep(r)) /\ WF_vars(~dead /\ LoopStep(r))

FairSpec == Spec /\ Fairness

-----------------------------------------------------------------------------
(* Properties.                                                              *)

\* Nothing is under way: no mutex held, no runner between start and its end.
AtRest == ~dead /\ ~mu /\ \A r \in Runners : rpc[r] \in Settled

\* A service that reports "running" when all is at rest answers packets: its
\* Server's socket has the port and a serve loop that works on it.
RunningMeansServing ==
    AtRest /\ state = "running" =>
        /\ port \in Runners /\ conn[server] = port
        /\ target[port] = server /\ spc[port] \in {"poll", "deadline", "reading"}

\* As long as no stop comes before the last start has settled, the port is
\* ours exactly when the state says so.
OrderlyStateMatchesPort ==
    AtRest /\ ~raced => (state = "running" <=> port \in Runners)

\* No serve loop of a Server reads a packet once its Stop has returned, a
\* loop that was spawned after that included.
NoReplyAfterStop == \A r \in Runners : spc[r] = "reading" => target[r] \notin over

\* The process dies of a nil pointer only when a client updates a service that
\* was never started, or after a stop that overtook a runner.
DeathNeedsRace == dead => server = None \/ raced

\* The time that a Server answers takes no leap: no command moves it (the update
\* that changes the multiplier counts the time so far at the old one), and with
\* the wall clock it moves in the direction of the multiplier in force, so that
\* it goes back only under a negative one.  A Server that was ever given a
\* multiplier that is not finite is excepted (service.go:130-134 takes any).
TimeNeverLeaps ==
    [][\A s \in Runners : Ticks(s) /\ Ticks(s)' =>
         /\ now' = now => AdjustedTime(s)' = AdjustedTime(s)
         /\ clock[s].multiplier >= 0 => AdjustedTime(s)' >= AdjustedTime(s)
         /\ clock[s].multiplier <= 0 => AdjustedTime(s)' <= AdjustedTime(s)]_vars

\* The simulated time follows the multipliers, of any sign: it differs from the
\* exact time by less than a second for each multiplier that was set, and one.
ClockDrift ==
    \A s \in Runners : Ticks(s) =>
        LET off == ideal[s] - AdjustedTime(s) * Unit
            bound == Unit * (updates[s] + 1)
        IN  -bound < off /\ off < bound

\* Every control command is answered, unless the process dies: a stop does not
\* wait for a serve loop for ever.
CommandsAnswered == \A c \in Clients : cpc[c] # "idle" ~> (cpc[c] = "idle" \/ dead)
=============================================================================
