------------------------------- MODULE Program -------------------------------
(***************************************************************************)
(* The main program: src/cmd/simulacrum/simulacrum.go, with                *)
(* core/config/config.go, core/socket/manager.go, the resolver's           *)
(* EnsureDefaultRules and the root certificate of services/ca/manager.go.  *)
(*                                                                         *)
(* A process makes its files if they are absent, loads them, makes a       *)
(* socket for each service and runs the service in a goroutine, and stops  *)
(* them all on a signal.  Every process has one life; a later one finds    *)
(* the files and the sockets that the earlier ones left.  A service is no  *)
(* more here than on (its state is "running") or not: how it starts and    *)
(* stops is in the services' modules.  The root's certificate and its key  *)
(* are one file, "root", which is "cut" from the moment that the           *)
(* certificate is created until the key is written: step by step they are  *)
(* in Certificates.                                                        *)
(***************************************************************************)
EXTENDS Naturals, Sequences

CONSTANTS
    Order,      \* the services in the order in which run has them
    Enabled,    \* those that the configuration enables
    Processes,  \* bound: how many processes, 1..n
    MaxControls,\* bound: control commands
    Faults      \* what may go wrong: subset of {"disk", "tls", "socket",
                \* "accept", "service", "crash", "overlap"}

Names == {Order[i] : i \in DOMAIN Order}

ASSUME ProgramAssumption ==
    /\ Order \in Seq(Names) /\ Order # <<>>
    /\ Processes \subseteq Nat /\ MaxControls \in Nat

Files == {"config", "rules", "root"}
NoProcess == 0

VARIABLES
    files,      \* config.yaml, default.lua, and ca.crt with ca.key
    sock,       \* whose listener the socket file of each service leads to
    pc,         \* where the main function of each process is
    cfg,        \* what it read of the configuration
    made,       \* how many services it has started
    lis,        \* its listeners
    run,        \* where the goroutine of each service is
    svc,        \* the state of each service
    conn,       \* the command that a connection of each service has read
    signal,     \* whether the channel of signals holds one
    quit, turn, \* the quit goroutine, and the listener or service it is at
    controls,   \* commands so far
    spoiled,    \* history: files that a failed write or a crash left unfinished
    hit,        \* history: processes whose start met a fault
    met,        \* history: processes that have run next to another
    asked,      \* history: processes that a signal has reached
    after       \* history: services that started after they were stopped

process == <<pc, cfg, made>>
service == <<run, svc, conn, controls>>
ending == <<signal, quit, turn>>
history == <<spoiled, hit, met, asked, after>>
vars == <<files, sock, process, lis, service, ending, history>>

\* What a write may leave of a file.  A configuration is "poolless" when it
\* ends between the path of the rules and the size of the pool.
Parts(f) ==
    CASE f = "config" -> {"empty", "cut", "poolless"}
      [] f = "rules" -> {"empty", "cut"}
      [] f = "root" -> {"cut"}

Contents == Parts("config") \cup {"none", "whole"}

\* Of the three ends of a process, "exited" is that of an orderly run.
Over == {"failed", "exited", "crashed"}

\* "stat", "open" and "write" are those of the file that main is at.
PCs == {"none", "stat", "open", "write", "read", "tls", "sign", "key", "load", "create", "wait"}
         \cup Over

TypeOK ==
    /\ files \in [Files -> Contents]
    /\ \A f \in Files : files[f] \in Parts(f) \cup {"none", "whole"}
    /\ sock \in [Names -> Processes \cup {NoProcess}]
    /\ pc \in [Processes -> PCs]
    /\ cfg \in [Processes -> Contents]
    /\ made \in [Processes -> 0..Len(Order)]
    /\ lis \in [Processes -> [Names -> {"none", "open", "closed"}]]
    /\ run \in [Processes -> [Names -> {"none", "spawned", "accepting", "over"}]]
    /\ svc \in [Processes -> [Names -> {"off", "on"}]]
    /\ conn \in [Processes -> [Names -> {"none", "start", "stop"}]]
    /\ signal \in [Processes -> BOOLEAN]
    /\ quit \in [Processes -> {"none", "waiting", "closing", "stopping", "over"}]
    /\ turn \in [Processes -> 1..(Len(Order) + 1)]
    /\ controls \in 0..MaxControls
    /\ spoiled \subseteq Files
    /\ hit \subseteq Processes /\ met \subseteq Processes /\ asked \subseteq Processes
    /\ after \subseteq Processes \X Names

Init ==
    /\ files = [f \in Files |-> "none"]
    /\ sock = [s \in Names |-> NoProcess]
    /\ pc = [p \in Processes |-> "none"]
    /\ cfg = [p \in Processes |-> "none"]
    /\ made = [p \in Processes |-> 0]
    /\ lis = [p \in Processes |-> [s \in Names |-> "none"]]
    /\ run = [p \in Processes |-> [s \in Names |-> "none"]]
    /\ svc = [p \in Processes |-> [s \in Names |-> "off"]]
    /\ conn = [p \in Processes |-> [s \in Names |-> "none"]]
    /\ signal = [p \in Processes |-> FALSE]
    /\ quit = [p \in Processes |-> "none"]
    /\ turn = [p \in Processes |-> 1]
    /\ controls = 0
    /\ spoiled = {} /\ hit = {} /\ met = {} /\ asked = {} /\ after = {}

-----------------------------------------------------------------------------
(* The start.                                                               *)

Alive(p) == pc[p] \notin Over \cup {"none"}
Others(p) == {q \in Processes \ {p} : Alive(q)}

Goto(p, l) == pc' = [pc EXCEPT ![p] = l]

\* What a process that ends had in its memory is gone; svc stays as it was.
Gone(p) ==
    /\ cfg' = [cfg EXCEPT ![p] = "none"]
    /\ made' = [made EXCEPT ![p] = 0]
    /\ lis' = [lis EXCEPT ![p] = [s \in Names |-> "none"]]
    /\ run' = [run EXCEPT ![p] = [s \in Names |-> "none"]]
    /\ conn' = [conn EXCEPT ![p] = [s \in Names |-> "none"]]
    /\ signal' = [signal EXCEPT ![p] = FALSE]
    /\ quit' = [quit EXCEPT ![p] = "none"]
    /\ turn' = [turn EXCEPT ![p] = 1]

\* The process returns an error from its start, which names a fault.
Fail(p, fault) ==
    /\ fault \in Faults
    /\ Goto(p, "failed")
    /\ hit' = hit \cup {p}

\* A second process may be started next to the first.
Launch(p) ==
    /\ pc[p] = "none"
    /\ \A q \in Processes : q < p => pc[q] # "none"
    /\ Others(p) # {} => "overlap" \in Faults
    /\ Goto(p, "stat")
    /\ met' = IF Others(p) = {} THEN met ELSE met \cup {p} \cup Others(p)
    /\ UNCHANGED <<files, sock, cfg, made, lis, service, ending, spoiled, hit, asked, after>>

\* Main is at the configuration until it has read it, and then at the rules.
IsAt(p, l, f) == pc[p] = l /\ f = IF cfg[p] = "none" THEN "config" ELSE "rules"

\* The way on when the file is there.
Ensured(f) == IF f = "config" THEN "read" ELSE "load"

\* Mutant: no directory of rules is as good as any.
StatAny(p, f) ==
    /\ IsAt(p, "stat", f)
    /\ Goto(p, IF files[f] = "none" THEN "open" ELSE Ensured(f))
    /\ UNCHANGED <<files, sock, cfg, made, lis, service, ending, history>>

\* MkdirAll and Stat of ensureConfig and of EnsureDefaultRules; the latter has
\* no directory to make when the configuration does not name one.
Stat(p, f) ==
    /\ IsAt(p, "stat", f)
    /\ \/ /\ f = "rules" /\ cfg[p] \in {"empty", "cut"}
          /\ Goto(p, "failed")
          /\ UNCHANGED hit
       \/ /\ f = "rules" => cfg[p] \in {"poolless", "whole"}
          /\ Goto(p, IF files[f] = "none" THEN "open" ELSE Ensured(f))
          /\ UNCHANGED hit
       \/ Fail(p, "disk")
    /\ UNCHANGED <<files, sock, cfg, made, lis, service, ending, spoiled, met, asked, after>>

\* WriteFile of the default: the file is truncated,
Open(p, f) ==
    /\ IsAt(p, "open", f)
    /\ \/ /\ files' = [files EXCEPT ![f] = "empty"]
          /\ Goto(p, "write")
          /\ UNCHANGED hit
       \/ Fail(p, "disk") /\ UNCHANGED files
    /\ UNCHANGED <<sock, cfg, made, lis, service, ending, spoiled, met, asked, after>>

\* and written, as far as the disk has room.
Write(p, f) ==
    /\ IsAt(p, "write", f)
    /\ \/ /\ files' = [files EXCEPT ![f] = "whole"]
          /\ Goto(p, Ensured(f))
          /\ UNCHANGED <<spoiled, hit>>
       \/ /\ \E part \in Parts(f) :
               files' = [files EXCEPT ![f] = IF @ = "whole" THEN @ ELSE part]
          /\ spoiled' = spoiled \cup {f}
          /\ Fail(p, "disk")
    /\ UNCHANGED <<sock, cfg, made, lis, service, ending, met, asked, after>>

\* LoadOrCreate reads the file, and the signals and the logger are set up.
\* YAML that is cut may not parse; nothing at all is a configuration.
Read(p) ==
    /\ pc[p] = "read"
    /\ cfg' = [cfg EXCEPT ![p] = files["config"]]
    /\ \/ Goto(p, "tls") /\ UNCHANGED hit
       \/ /\ files["config"] \in {"cut", "poolless"}
          /\ Goto(p, "failed")
          /\ UNCHANGED hit
       \/ Fail(p, "disk")
    /\ UNCHANGED <<files, sock, made, lis, service, ending, spoiled, met, asked, after>>

\* The directory of sockets, and the certificates: a mode is needed, and a root
\* that is whole, or none at all.  A configuration that is cut may name no mode,
\* or other files than the root's.
Tls(p) ==
    /\ pc[p] = "tls"
    /\ \/ /\ cfg[p] # "empty"
          /\ Goto(p, IF files["root"] = "whole" THEN "stat"
                     ELSE IF files["root"] = "none" THEN "sign" ELSE "failed")
          /\ UNCHANGED hit
       \/ /\ cfg[p] \in {"empty", "cut"}
          /\ Goto(p, "failed")
          /\ UNCHANGED hit
       \/ /\ cfg[p] = "cut"
          /\ Goto(p, "stat")
          /\ UNCHANGED hit
       \/ Fail(p, "tls")
    /\ UNCHANGED <<files, sock, cfg, made, lis, service, ending, spoiled, met, asked, after>>

\* createRootCert: a certificate that is there by now is an error (O_EXCL);
Sign(p) ==
    /\ pc[p] = "sign"
    /\ \/ /\ files["root"] = "none"
          /\ files' = [files EXCEPT !["root"] = "cut"]
          /\ Goto(p, "key")
          /\ UNCHANGED hit
       \/ /\ files["root"] # "none"
          /\ Goto(p, "failed")
          /\ UNCHANGED <<files, hit>>
       \/ Fail(p, "tls") /\ UNCHANGED files
    /\ UNCHANGED <<sock, cfg, made, lis, service, ending, spoiled, met, asked, after>>

\* and the key after it.  When it cannot be written, or goes to another file
\* because the configuration is cut, nobody takes the certificate back.
Key(p) ==
    /\ pc[p] = "key"
    /\ \/ /\ files' = [files EXCEPT !["root"] = "whole"]
          /\ Goto(p, "stat")
          /\ UNCHANGED <<spoiled, hit>>
       \/ /\ cfg[p] = "cut"
          /\ \E l \in {"stat", "failed"} : Goto(p, l)
          /\ spoiled' = spoiled \cup {"root"}
          /\ UNCHANGED <<files, hit>>
       \/ /\ Fail(p, "tls")
          /\ spoiled' = spoiled \cup {"root"}
          /\ UNCHANGED files
    /\ UNCHANGED <<sock, cfg, made, lis, service, ending, met, asked, after>>

\* LoadScripts lists the rules; their text is read for each request.
Load(p) ==
    /\ pc[p] = "load"
    /\ \/ Goto(p, "create") /\ UNCHANGED hit
       \/ Fail(p, "disk")
    /\ UNCHANGED <<files, sock, cfg, made, lis, service, ending, spoiled, met, asked, after>>

\* Mutant: Create does not remove the file that another life left.
CreateOver(p) ==
    /\ pc[p] = "create" /\ made[p] < Len(Order)
    /\ LET s == Order[made[p] + 1]
       IN  \/ /\ sock[s] = NoProcess
              /\ sock' = [sock EXCEPT ![s] = p]
              /\ lis' = [lis EXCEPT ![p][s] = "open"]
              /\ run' = [run EXCEPT ![p][s] = "spawned"]
              /\ made' = [made EXCEPT ![p] = @ + 1]
              /\ UNCHANGED pc
           \/ /\ sock[s] # NoProcess
              /\ Goto(p, "failed")
              /\ UNCHANGED <<sock, lis, run, made>>
    /\ UNCHANGED <<files, cfg, svc, conn, controls, ending, history>>

\* Mutant: Create removes the file after it has made it.
CreateRemoved(p) ==
    /\ pc[p] = "create" /\ made[p] < Len(Order)
    /\ LET s == Order[made[p] + 1]
       IN  /\ sock' = [sock EXCEPT ![s] = NoProcess]
           /\ lis' = [lis EXCEPT ![p][s] = "open"]
           /\ run' = [run EXCEPT ![p][s] = "spawned"]
           /\ made' = [made EXCEPT ![p] = @ + 1]
    /\ UNCHANGED <<files, pc, cfg, svc, conn, controls, ending, history>>

\* The socket of the next service, whosever file there was, and its goroutine.
\* When it cannot be made, run returns at once: the services that are on are
\* neither stopped nor waited for, and their sockets remain.
Create(p) ==
    /\ pc[p] = "create" /\ made[p] < Len(Order)
    /\ LET s == Order[made[p] + 1]
       IN  \/ /\ sock' = [sock EXCEPT ![s] = p]
              /\ lis' = [lis EXCEPT ![p][s] = "open"]
              /\ run' = [run EXCEPT ![p][s] = "spawned"]
              /\ made' = [made EXCEPT ![p] = @ + 1]
              /\ UNCHANGED <<pc, cfg, conn, ending, hit>>
           \/ /\ Fail(p, "socket")
              /\ sock' \in {sock, [sock EXCEPT ![s] = NoProcess]}
              /\ Gone(p)
    /\ UNCHANGED <<files, svc, controls, spoiled, met, asked, after>>

\* All are made: the quit goroutine is spawned, and main waits.
Created(p) ==
    /\ pc[p] = "create" /\ made[p] = Len(Order)
    /\ quit' = [quit EXCEPT ![p] = "waiting"]
    /\ Goto(p, "wait")
    /\ UNCHANGED <<files, sock, cfg, made, lis, service, signal, turn, history>>

MainStep(p) ==
    \/ \E f \in Files : Stat(p, f) \/ Open(p, f) \/ Write(p, f)
    \/ Read(p) \/ Tls(p) \/ Sign(p) \/ Key(p) \/ Load(p) \/ Create(p) \/ Created(p)

-----------------------------------------------------------------------------
(* The services.                                                            *)

\* The quit goroutine has called Stop of s.
Stopped(p, s) ==
    \/ quit[p] = "over"
    \/ quit[p] = "stopping" /\ \E i \in 1..(turn[p] - 1) : Order[i] = s

\* start(), which changes nothing if it is on, and may fail otherwise.
StartService(p, s) ==
    \/ /\ svc[p][s] = "on" \/ "service" \in Faults
       /\ UNCHANGED <<svc, after>>
    \/ /\ svc[p][s] = "off"
       /\ svc' = [svc EXCEPT ![p][s] = "on"]
       /\ after' = IF Stopped(p, s) THEN after \cup {<<p, s>>} ELSE after

\* stop(), after which it is off, whether that is an error or not.
StopService(p, s) == svc' = [svc EXCEPT ![p][s] = "off"]

\* Service.Run: start() if it is enabled,
Run(p, s) ==
    /\ Alive(p)
    /\ run[p][s] = "spawned"
    /\ IF s \in Enabled THEN StartService(p, s) ELSE UNCHANGED <<svc, after>>
    /\ run' = [run EXCEPT ![p][s] = "accepting"]
    /\ UNCHANGED <<files, sock, process, lis, conn, controls, ending, spoiled, hit, met, asked>>

\* and connections until the listener is closed, or Accept fails.
Accept(p, s, a) ==
    /\ Alive(p)
    /\ run[p][s] = "accepting" /\ lis[p][s] = "open" /\ sock[s] = p
    /\ conn[p][s] = "none"
    /\ controls < MaxControls
    /\ controls' = controls + 1
    /\ conn' = [conn EXCEPT ![p][s] = a]
    /\ UNCHANGED <<files, sock, process, lis, run, svc, ending, history>>

AcceptEnds(p, s) ==
    /\ Alive(p)
    /\ run[p][s] = "accepting"
    /\ lis[p][s] = "closed" \/ "accept" \in Faults
    /\ run' = [run EXCEPT ![p][s] = "over"]
    /\ UNCHANGED <<files, sock, process, lis, svc, conn, controls, ending, history>>

\* The goroutine of a connection, for which nobody waits.
Control(p, s) ==
    /\ Alive(p)
    /\ \/ conn[p][s] = "start" /\ StartService(p, s)
       \/ conn[p][s] = "stop" /\ StopService(p, s) /\ UNCHANGED after
    /\ conn' = [conn EXCEPT ![p][s] = "none"]
    /\ UNCHANGED <<files, sock, process, lis, run, controls, ending, spoiled, hit, met, asked>>

-----------------------------------------------------------------------------
(* The end.                                                                 *)

\* Mutant: the channel of signals has no room.
SignalUnbuffered(p) ==
    /\ Alive(p) /\ cfg[p] # "none"
    /\ p \notin asked
    /\ asked' = asked \cup {p}
    /\ signal' = [signal EXCEPT ![p] = quit[p] = "waiting"]
    /\ UNCHANGED <<files, sock, process, lis, service, quit, turn, spoiled, hit, met, after>>

\* An interrupt or SIGTERM after Notify; further ones change nothing.  Before
\* it, it is a Crash.
Signal(p) ==
    /\ Alive(p) /\ cfg[p] # "none"
    /\ p \notin asked
    /\ asked' = asked \cup {p}
    /\ signal' = [signal EXCEPT ![p] = TRUE]
    /\ UNCHANGED <<files, sock, process, lis, service, quit, turn, spoiled, hit, met, after>>

QuitTake(p) ==
    /\ Alive(p) /\ quit[p] = "waiting"
    /\ signal[p]
    /\ signal' = [signal EXCEPT ![p] = FALSE]
    /\ quit' = [quit EXCEPT ![p] = "closing"]
    /\ UNCHANGED <<files, sock, process, lis, service, turn, history>>

\* The quit goroutine goes on with the next of them, or with what comes then.
Advance(p, then) ==
    IF turn[p] < Len(Order)
      THEN turn' = [turn EXCEPT ![p] = @ + 1] /\ UNCHANGED quit
      ELSE turn' = [turn EXCEPT ![p] = 1] /\ quit' = [quit EXCEPT ![p] = then]

\* Close of a listener removes the file of its path, whosever it is by now.
QuitClose(p) ==
    /\ Alive(p) /\ quit[p] = "closing"
    /\ LET s == Order[turn[p]]
       IN  /\ lis' = [lis EXCEPT ![p][s] = "closed"]
           /\ sock' = [sock EXCEPT ![s] = NoProcess]
    /\ Advance(p, "stopping")
    /\ UNCHANGED <<files, process, service, signal, history>>

\* Mutant: the loop ends with the first Stop that fails.
QuitStopFirst(p) ==
    /\ Alive(p) /\ quit[p] = "stopping"
    /\ LET s == Order[turn[p]]
       IN  /\ StopService(p, s)
           /\ IF svc[p][s] = "on"
                THEN Advance(p, "over")
                ELSE quit' = [quit EXCEPT ![p] = "over"] /\ UNCHANGED turn
    /\ UNCHANGED <<files, sock, process, lis, run, conn, controls, signal, history>>

\* Stop of each service; an error is neither reported nor the end of the loop,
\* since the loop asks for err, which is nil, instead of stopErr.
QuitStop(p) ==
    /\ Alive(p) /\ quit[p] = "stopping"
    /\ StopService(p, Order[turn[p]])
    /\ Advance(p, "over")
    /\ UNCHANGED <<files, sock, process, lis, run, conn, controls, signal, history>>

\* group.Wait: every Run and the quit goroutine have returned.
Exit(p) ==
    /\ pc[p] = "wait"
    /\ quit[p] = "over"
    /\ \A s \in Names : run[p][s] = "over"
    /\ Goto(p, "exited")
    /\ Gone(p)
    /\ UNCHANGED <<files, sock, svc, controls, history>>

\* p has a file open that it has not written to the end.
Writes(p, f) == IsAt(p, "write", f) \/ (f = "root" /\ pc[p] = "key")

\* The process is killed, or panics: its socket files remain.
Crash(p) ==
    /\ "crash" \in Faults
    /\ Alive(p)
    /\ Goto(p, "crashed")
    /\ spoiled' = spoiled \cup {f \in Files : Writes(p, f)}
    /\ Gone(p)
    /\ svc' = [svc EXCEPT ![p] = [s \in Names |-> "off"]]
    /\ UNCHANGED <<files, sock, controls, hit, met, asked, after>>

QuitStep(p) == QuitTake(p) \/ QuitClose(p) \/ QuitStop(p)

Next ==
    \E p \in Processes :
       \/ Launch(p) \/ MainStep(p) \/ Signal(p) \/ QuitStep(p) \/ Exit(p) \/ Crash(p)
       \/ \E s \in Names : Run(p, s) \/ AcceptEnds(p, s) \/ Control(p, s)
       \/ \E s \in Names, a \in {"start", "stop"} : Accept(p, s, a)

Spec == Init /\ [][Next]_vars

(* A process goes on while one of its goroutines can run, each of which has *)
(* finitely many steps.  An accept loop is only sure to end when its        *)
(* listener is closed; commands and signals are not assumed.                *)
Goes(p) ==
    \/ MainStep(p) \/ QuitStep(p) \/ Exit(p)
    \/ \E s \in Names : Run(p, s) \/ (lis[p][s] = "closed" /\ AcceptEnds(p, s))

Fairness == \A p \in Processes : WF_vars(Goes(p))

FairSpec == Spec /\ Fairness

-----------------------------------------------------------------------------
(* Properties.                                                              *)

\* A start fails only on a fault of its own, next to another process, or on what
\* an earlier end left unfinished: half a configuration, or a root certificate
\* without its key, which no later start repairs (ca/manager.go:65-86).  What
\* else it leaves, socket files above all (socket/manager.go:48), is no obstacle.
StartComesUp ==
    \A p \in Processes :
       pc[p] = "failed" => p \in hit \cup met \/ spoiled \cap {"config", "root"} # {}

\* No service runs from a configuration that was cut: a process that reads the
\* file while another writes it, or after a crash, does not get to its sockets
\* (simulacrum.go:80,106).  Only a full disk can leave it without a pool.
ServesWholeConfig ==
    \A p \in Processes :
       made[p] > 0 => cfg[p] = "whole" \/ (cfg[p] = "poolless" /\ "config" \in spoiled)

\* The socket of every service of a process that was not asked to stop leads to
\* that process, unless two overlap: the close of the older one, or the start
\* of the newer, takes the other's file.
Reachable ==
    \A p \in Processes : Alive(p) /\ p \notin asked \cup met =>
       \A i \in 1..made[p] : sock[Order[i]] = p /\ lis[p][Order[i]] = "open"

\* A process that ends in order has stopped every service, whatever the stops
\* of the others returned, but for one that was started after its stop: by a
\* connection, or by a Run that had not run yet.
ExitStops ==
    \A p \in Processes, s \in Names :
       pc[p] = "exited" /\ svc[p][s] = "on" => <<p, s>> \in after

\* A signal ends the process, also one that comes while it starts.
SignalEnds == \A p \in Processes : p \in asked ~> pc[p] \in Over
=============================================================================
