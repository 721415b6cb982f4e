------------------------------ MODULE DnsServer ------------------------------
(***************************************************************************)
(* The DNS server: src/internal/services/dns/server.go with the pool of    *)
(* spoofed addresses (ippool/ippool.go), the ignore list (ignore.go), the  *)
(* iptables front end (dnat/dnat.go) and the spoof and proxy replies.      *)
(*                                                                         *)
(* Every query runs handleDNSRequest in a goroutine of its own, a member   *)
(* of Handlers; a lock is taken and released several times on the way, and *)
(* each stretch between two of those points, or around an external call,   *)
(* is one action.  A handler works for the Server that received it, which  *)
(* need not be the current one: Stop gives up waiting for the queries over *)
(* TCP when Start has shut that listener down first, and another Server    *)
(* may be started beside them.  The nat table of the kernel outlives the   *)
(* Servers and the process.  What fails or overlaps in Start itself (a     *)
(* listener that fails, a runner that meets a command) is in DnsService.   *)
(***************************************************************************)
EXTENDS Naturals, FiniteSets, ScriptResult

CONSTANTS
    Domains,        \* query names, as they are spelled in the question
    Handlers,       \* goroutines that may run handleDNSRequest at once
    Instances,      \* bound: Servers in memory at once
    NoInstance,     \* Service.server before the first start: nil
    PoolIPs,        \* usable host addresses of the default subnet
    UpstreamIPs,    \* addresses an upstream resolver may answer
    AnalysisIP,     \* the address of the sandbox
    NilIP,          \* Go's nil net.IP: no address
    EmptyIP,        \* net.IP{}, which is not nil and has no bytes
    NoDomain,       \* the domain of an idle handler
    VerifyUpstream, \* the configuration's verify_upstream
    Tables,         \* the tables scripts may return
    MaxRules,       \* bound: rules the kernel holds for one address
    Faults          \* what may go wrong: subset of {"iptables", "crash", "flush"}

Addresses == PoolIPs \cup UpstreamIPs

\* EmptyIP and NilIP are no addresses; the rest is typing and finiteness.
ASSUME DnsAssumption ==
    /\ IsFiniteSet(Domains)
    /\ IsFiniteSet(Handlers)
    /\ NoInstance \notin Instances
    /\ NilIP \notin Addresses \cup {AnalysisIP, EmptyIP}
    /\ EmptyIP \notin Addresses \cup {AnalysisIP}
    /\ NoDomain \notin Domains
    /\ MaxRules \in Nat
    /\ VerifyUpstream \in BOOLEAN
    /\ Faults \subseteq {"iptables", "crash", "flush"}

VARIABLES
    phase,      \* where the current Server is between New and the end of Stop
    instance,   \* Service.server: the current Server
    ignoreList, \* Server.ignoreList.list, of each Server
    allocated,  \* Server.ipPool.allocatedIPs, of each Server
    dnatMap,    \* Server.dnatMap, of each: the address tracked for a domain, or NilIP
    rules,      \* kernel: how many DNAT rules match an address
    flushed,    \* history: "simctl dns dnat flush" ran since the last start
    given,      \* history: the domain the current Server answered a pool address for
    lost,       \* history: the Servers in memory whose Stop returned an error
    overUdp,    \* the queries over UDP that the Shutdown of that listener waits for
    receiver,   \* the Server each handler works for
    pc,         \* where each handler is in handleDNSRequest
    domain,     \* its local domain
    ignored,    \* its local ignored
    upIP,       \* its local upstreamIP
    rtype,      \* the record type of its script's response
    ip          \* the address it is provisioning, then the one it answers

memory == <<ignoreList, allocated, dnatMap, flushed, given>>
life == <<phase, instance, lost>>
locals == <<receiver, domain, ignored, upIP, rtype, ip>>
vars == <<life, memory, overUdp, rules, pc, locals>>

(* "none": a new process, no Server yet; "running": Start has opened the    *)
(* listeners; "removed", "cleared", "udp", "draining": Stop has removed the *)
(* rules, cleared the pool, begun to shut down UDP, begun to shut down TCP; *)
(* "refused": Start has shut down TCP before Stop did; "stopped", "error":  *)
(* Stop returned, the latter with an error.  TCP listens until it is shut   *)
(* down.                                                                    *)
Phases == {"none", "running", "removed", "cleared", "udp", "draining", "refused", "stopped",
           "error"}
Listening == {"running", "removed", "cleared", "udp"}

(* While an address identifies one name: until the pool is cleared.         *)
Attributing == {"running", "removed"}

PCs == {"idle", "verify", "respond", "allocate", "check", "iptables", "track", "reply"}

(* Handlers that own the address in ip: between Allocate and the reply.     *)
Holding == {"check", "iptables", "track", "reply"}

TypeOK ==
    /\ phase \in Phases
    /\ instance \in Instances \cup {NoInstance}
    /\ ignoreList \in [Instances -> SUBSET Domains]
    /\ allocated \in [Instances -> SUBSET PoolIPs]
    /\ dnatMap \in [Instances -> [Domains -> Addresses \cup {NilIP}]]
    /\ lost \subseteq Instances
    /\ overUdp \subseteq Handlers
    /\ rules \in [Addresses -> 0..MaxRules]
    /\ flushed \in BOOLEAN
    /\ given \in [PoolIPs -> Domains \cup {NoDomain}]
    /\ pc \in [Handlers -> PCs]
    /\ receiver \in [Handlers -> Instances \cup {NoInstance}]
    /\ domain \in [Handlers -> Domains \cup {NoDomain}]
    /\ ignored \in [Handlers -> BOOLEAN]
    /\ upIP \in [Handlers -> UpstreamIPs \cup {NilIP, EmptyIP}]
    /\ rtype \in [Handlers -> ResponseTypes]
    /\ ip \in [Handlers -> Addresses \cup {AnalysisIP, NilIP, EmptyIP}]

(* A Server that a query still works for.                                   *)
Busy(s) == \E h \in Handlers : receiver[h] = s

(* New gives s, and every Server that nothing refers to any more, the       *)
(* memory that New makes.                                                   *)
FreshMemory ==
    /\ ignoreList' = [s \in Instances |-> IF Busy(s) THEN ignoreList[s] ELSE {}]
    /\ allocated' = [s \in Instances |-> IF Busy(s) THEN allocated[s] ELSE {}]
    /\ dnatMap' = [s \in Instances |->
                     IF Busy(s) THEN dnatMap[s] ELSE [d \in Domains |-> NilIP]]
    /\ flushed' = FALSE
    /\ given' = [a \in PoolIPs |-> NoDomain]

Init ==
    /\ phase = "none"
    /\ instance = NoInstance
    /\ ignoreList = [s \in Instances |-> {}]
    /\ allocated = [s \in Instances |-> {}]
    /\ dnatMap = [s \in Instances |-> [d \in Domains |-> NilIP]]
    /\ lost = {}
    /\ overUdp = {}
    /\ receiver = [h \in Handlers |-> NoInstance]
    /\ rules = [a \in Addresses |-> 0]
    /\ flushed = FALSE
    /\ given = [a \in PoolIPs |-> NoDomain]
    /\ pc = [h \in Handlers |-> "idle"]
    /\ domain = [h \in Handlers |-> NoDomain]
    /\ ignored = [h \in Handlers |-> FALSE]
    /\ upIP = [h \in Handlers |-> NilIP]
    /\ rtype = [h \in Handlers |-> "A"]
    /\ ip = [h \in Handlers |-> NilIP]

-----------------------------------------------------------------------------
(* The handler, handleDNSRequest.  A local that is not read again is reset,  *)
(* so that states differ only in what still matters.                        *)

\* The end of a handler's life: its locals are gone.
Return(h) ==
    /\ pc' = [pc EXCEPT ![h] = "idle"]
    /\ receiver' = [receiver EXCEPT ![h] = NoInstance]
    /\ overUdp' = overUdp \ {h}
    /\ domain' = [domain EXCEPT ![h] = NoDomain]
    /\ ignored' = [ignored EXCEPT ![h] = FALSE]
    /\ upIP' = [upIP EXCEPT ![h] = NilIP]
    /\ rtype' = [rtype EXCEPT ![h] = "A"]
    /\ ip' = [ip EXCEPT ![h] = NilIP]

\* The message is ready: an A record carries a, every other reply no address.
Answer(h, t, a) ==
    /\ pc' = [pc EXCEPT ![h] = "reply"]
    /\ UNCHANGED <<receiver, overUdp>>
    /\ ip' = [ip EXCEPT ![h] = IF t = "A" THEN a ELSE NilIP]
    /\ rtype' = [rtype EXCEPT ![h] = "A"]

\* A query arrives and its handler reads the ignore list.  An ignored domain
\* skips the upstream check and keeps the initial upstreamIP, net.IP{}.
Receive(h, d) ==
    /\ phase \in Listening
    /\ pc[h] = "idle"
    /\ receiver' = [receiver EXCEPT ![h] = instance]
    /\ domain' = [domain EXCEPT ![h] = d]
    /\ LET listed == d \in ignoreList[instance]
       IN  /\ ignored' = [ignored EXCEPT ![h] = listed]
           /\ upIP' = [upIP EXCEPT ![h] = IF listed THEN EmptyIP ELSE NilIP]
           /\ pc' = [pc EXCEPT ![h] =
                       IF ~listed /\ VerifyUpstream THEN "verify" ELSE "respond"]
    /\ UNCHANGED <<life, memory, overUdp, rules, rtype, ip>>

\* The upstream resolver knows an address, or none (other types, a failure,
\* which fails open), or answers NXDOMAIN, which the handler passes on.
VerifyUpstreamDNS(h) ==
    /\ pc[h] = "verify"
    /\ \/ /\ \E a \in UpstreamIPs \cup {NilIP} : upIP' = [upIP EXCEPT ![h] = a]
          /\ pc' = [pc EXCEPT ![h] = "respond"]
          /\ UNCHANGED <<receiver, overUdp, rtype, ip>>
       \/ /\ Answer(h, "none", NilIP)
          /\ UNCHANGED upIP
    /\ UNCHANGED <<life, memory, rules, domain, ignored>>

\* A query that was ignored when it arrived takes its domain off the list.
Unignore(h) ==
    ignoreList' = IF ignored[h] THEN [ignoreList EXCEPT ![receiver[h]] = @ \ {domain[h]}]
                  ELSE ignoreList

\* The handler goes on, and reads ignored and upstreamIP no more.
Forget(h) ==
    /\ ignored' = [ignored EXCEPT ![h] = FALSE]
    /\ upIP' = [upIP EXCEPT ![h] = NilIP]
    /\ UNCHANGED domain

\* resolveProvisioning up to its first call that needs a lock.
ProvisionStatic(h, r) ==
    /\ \/ r.provisioning = "static"
       \/ r.provisioning = "dynamic" /\ upIP[h] = NilIP
    /\ pc' = [pc EXCEPT ![h] = "allocate"]
    /\ rtype' = [rtype EXCEPT ![h] = r.rtype]
    /\ UNCHANGED <<receiver, overUdp, ip>>

ProvisionDynamic(h, r) ==
    /\ r.provisioning = "dynamic" /\ upIP[h] # NilIP
    /\ pc' = [pc EXCEPT ![h] = "check"]
    /\ ip' = [ip EXCEPT ![h] = upIP[h]]
    /\ rtype' = [rtype EXCEPT ![h] = r.rtype]
    /\ UNCHANGED <<receiver, overUdp>>

ProvisionNone(h, r) ==
    /\ r.provisioning \notin {"static", "dynamic"}
    /\ Answer(h, r.rtype, AnalysisIP)

Spoof(h, r) ==
    /\ r.mode = "spoof"
    /\ Unignore(h)
    /\ ProvisionStatic(h, r) \/ ProvisionDynamic(h, r) \/ ProvisionNone(h, r)
    /\ Forget(h)

\* The proxied message, or nothing when the upstream resolver fails.
Proxy(h, r) ==
    /\ r.mode = "proxy"
    /\ Unignore(h)
    /\ Answer(h, "none", NilIP)
    /\ Forget(h)

Ignore(h, r) ==
    /\ r.mode = "ignore"
    /\ ignoreList' = IF ignored[h] THEN ignoreList
                     ELSE [ignoreList EXCEPT ![receiver[h]] = @ \cup {domain[h]}]
    /\ Answer(h, "none", NilIP)
    /\ Forget(h)

ServFail(h, r) ==
    /\ r.mode = "error"
    /\ Answer(h, "none", NilIP)
    /\ Forget(h)
    /\ UNCHANGED ignoreList

\* A failed script leaves the zero Result: an unknown mode, and no reply.
Drop(h, r) ==
    /\ r = ZeroResult
    /\ Return(h)
    /\ UNCHANGED ignoreList

\* responderManager.Handle ends and the handler acts on its result.
Respond(h) ==
    /\ pc[h] = "respond"
    /\ \E t \in Tables :
         LET r == ParseResult(t)
         IN  Spoof(h, r) \/ Proxy(h, r) \/ Ignore(h, r) \/ ServFail(h, r) \/ Drop(h, r)
    /\ UNCHANGED <<life, allocated, dnatMap, flushed, given, rules>>

\* Mutant: Allocate does not look whether the address is taken.
AllocateTaken(h) ==
    /\ pc[h] = "allocate"
    /\ \E a \in PoolIPs :
         /\ allocated' = [allocated EXCEPT ![receiver[h]] = @ \cup {a}]
         /\ ip' = [ip EXCEPT ![h] = a]
    /\ pc' = [pc EXCEPT ![h] = "check"]
    /\ UNCHANGED <<life, ignoreList, dnatMap, flushed, given, overUdp, rules, receiver, domain,
                   ignored, upIP, rtype>>

\* Pool.Allocate: a free address at random; its hundred draws may all be
\* taken as soon as one address is, and the reply falls back to AnalysisIP.
Allocate(h) ==
    /\ pc[h] = "allocate"
    /\ \/ \E a \in PoolIPs \ allocated[receiver[h]] :
             /\ allocated' = [allocated EXCEPT ![receiver[h]] = @ \cup {a}]
             /\ ip' = [ip EXCEPT ![h] = a]
             /\ pc' = [pc EXCEPT ![h] = "check"]
             /\ UNCHANGED <<receiver, overUdp, rtype>>
       \/ /\ allocated[receiver[h]] # {} \/ PoolIPs = {}
          /\ Answer(h, rtype[h], AnalysisIP)
          /\ UNCHANGED allocated
    /\ UNCHANGED <<life, ignoreList, dnatMap, flushed, given, rules, domain, ignored, upIP>>

\* Mutant: the early return for a mapped domain forgets to unlock.
CheckMappedLocked(h) ==
    /\ pc[h] = "check"
    /\ dnatMap[receiver[h]][domain[h]] = NilIP
    /\ pc' = [pc EXCEPT ![h] = "iptables"]
    /\ UNCHANGED <<life, memory, overUdp, rules, locals>>

\* addDNAT under its first lock: a domain that is mapped gets no new rule.
CheckMapped(h) ==
    /\ pc[h] = "check"
    /\ \/ /\ dnatMap[receiver[h]][domain[h]] # NilIP
          /\ Answer(h, rtype[h], ip[h])
       \/ /\ dnatMap[receiver[h]][domain[h]] = NilIP
          /\ pc' = [pc EXCEPT ![h] = "iptables"]
          /\ UNCHANGED <<receiver, overUdp, rtype, ip>>
    /\ UNCHANGED <<life, memory, rules, domain, ignored, upIP>>

\* iptables refuses the text of an address that is none (and, in the model,
\* one more rule than MaxRules).
Appendable(a) == a \in Addresses /\ rules[a] < MaxRules

\* Mutant: the error of iptables is ignored.
AddDNATIgnored(h) ==
    /\ pc[h] = "iptables"
    /\ \/ Appendable(ip[h]) /\ rules' = [rules EXCEPT ![ip[h]] = @ + 1]
       \/ ("iptables" \in Faults \/ ~Appendable(ip[h])) /\ UNCHANGED rules
    /\ pc' = [pc EXCEPT ![h] = "track"]
    /\ UNCHANGED <<life, memory, overUdp, locals>>

\* dnatManager.AddDNAT appends a rule; a failure falls back to AnalysisIP.
AddDNAT(h) ==
    /\ pc[h] = "iptables"
    /\ \/ /\ Appendable(ip[h])
          /\ rules' = [rules EXCEPT ![ip[h]] = @ + 1]
          /\ pc' = [pc EXCEPT ![h] = "track"]
          /\ UNCHANGED <<receiver, overUdp, rtype, ip>>
       \/ /\ "iptables" \in Faults \/ ~Appendable(ip[h])
          /\ Answer(h, rtype[h], AnalysisIP)
          /\ UNCHANGED rules
    /\ UNCHANGED <<life, memory, domain, ignored, upIP>>

\* addDNAT under its second lock: the mapping is kept for the cleanup.
Track(h) ==
    /\ pc[h] = "track"
    /\ dnatMap' = [dnatMap EXCEPT ![receiver[h]][domain[h]] = ip[h]]
    /\ Answer(h, rtype[h], ip[h])
    /\ UNCHANGED <<life, ignoreList, allocated, flushed, given, rules, domain, ignored, upIP>>

\* writeDNSResponse; given remembers which domain got which pool address, until
\* Stop clears the pool.
Reply(h) ==
    /\ pc[h] = "reply"
    /\ given' = IF ip[h] \in PoolIPs /\ receiver[h] = instance /\ phase \in Attributing
                THEN [given EXCEPT ![ip[h]] = domain[h]] ELSE given
    /\ Return(h)
    /\ UNCHANGED <<life, ignoreList, allocated, dnatMap, flushed, rules>>

HandlerStep(h) ==
    \/ VerifyUpstreamDNS(h) \/ Respond(h) \/ Allocate(h) \/ CheckMapped(h)
    \/ AddDNAT(h) \/ Track(h) \/ Reply(h)

-----------------------------------------------------------------------------
(* The Server: New and Start, then the steps of Stop.                       *)

\* start() refuses only a service that is "running": after a Stop that failed,
\* queries of the old Server may be under way.
Start ==
    /\ phase \in {"none", "stopped", "error"}
    /\ phase' = "running"
    /\ \E s \in Instances : ~Busy(s) /\ instance' = s
    /\ lost' = {s \in lost : Busy(s)}
    /\ FreshMemory
    /\ UNCHANGED <<overUdp, rules, pc, locals>>

\* The domains whose entry in the current Server's dnatMap is a.
Tracked(a) == {d \in Domains : dnatMap[instance][d] = a}

\* RemoveDNAT for every tracked domain but those where iptables fails; a
\* missing rule is only logged.  The map is left as it is.
StopRemove ==
    /\ phase = "running"
    /\ \E failed \in IF "iptables" \in Faults THEN SUBSET Domains ELSE {{}} :
         rules' = [a \in Addresses |->
                     LET n == Cardinality(Tracked(a) \ failed)
                     IN  IF n < rules[a] THEN rules[a] - n ELSE 0]
    /\ phase' = "removed"
    /\ UNCHANGED <<instance, lost, memory, overUdp, pc, locals>>

StopClear ==
    /\ phase = "removed"
    /\ phase' = "cleared"
    /\ allocated' = [allocated EXCEPT ![instance] = {}]
    /\ given' = [a \in PoolIPs |-> NoDomain]
    /\ UNCHANGED <<instance, lost, ignoreList, dnatMap, flushed, overUdp, rules, pc, locals>>

\* The queries of the current Server.
Current == {h \in Handlers : receiver[h] = instance}

\* Mutant: the sockets are closed when no query is in flight.
StopUdpLate ==
    /\ phase = "cleared"
    /\ Current = {}
    /\ phase' = "udp"
    /\ overUdp' = {}
    /\ UNCHANGED <<instance, lost, memory, rules, pc, locals>>

\* Stop's Shutdown of UDP begins; some of the queries under way came over UDP.
StopUdp ==
    /\ phase = "cleared"
    /\ phase' = "udp"
    /\ overUdp' \in SUBSET Current
    /\ UNCHANGED <<instance, lost, memory, rules, pc, locals>>

\* When those have returned, Stop's Shutdown of UDP returns and the listener
\* ends, which wakes Start: Stop and Start race to shut down TCP.
StopTcp ==
    /\ phase = "udp" /\ overUdp = {}
    /\ phase' = "draining"
    /\ UNCHANGED <<instance, lost, memory, overUdp, rules, pc, locals>>

RunnerShutdown ==
    /\ phase = "udp" /\ overUdp = {}
    /\ phase' = "refused"
    /\ UNCHANGED <<instance, lost, memory, overUdp, rules, pc, locals>>

\* Stop's Shutdown of TCP finds a listener that is not started any more: Stop
\* returns that error at once, and the queries over TCP go on.
StopFails ==
    /\ phase = "refused"
    /\ phase' = "error"
    /\ lost' = lost \cup {instance}
    /\ UNCHANGED <<instance, memory, overUdp, rules, pc, locals>>

\* Mutant: Stop does not wait for the handlers.
StopDoneEarly ==
    /\ phase = "draining"
    /\ phase' = "stopped"
    /\ UNCHANGED <<instance, lost, memory, overUdp, rules, pc, locals>>

\* The Shutdown of TCP that Stop began returns when all queries have.
StopDone ==
    /\ phase = "draining"
    /\ Current = {}
    /\ phase' = "stopped"
    /\ UNCHANGED <<instance, lost, memory, overUdp, rules, pc, locals>>

\* "simctl dns dnat flush": the kernel's rules go, the Server's map stays.
Flush ==
    /\ "flush" \in Faults
    /\ phase # "none"
    /\ rules' = [a \in Addresses |-> 0]
    /\ flushed' = TRUE
    /\ UNCHANGED <<life, ignoreList, allocated, dnatMap, given, overUdp, pc, locals>>

\* The process dies.  Its memory is lost, the kernel's rules are not.
Crash ==
    /\ "crash" \in Faults
    /\ phase # "none"
    /\ phase' = "none"
    /\ instance' = NoInstance
    /\ lost' = {}
    /\ ignoreList' = [s \in Instances |-> {}]
    /\ allocated' = [s \in Instances |-> {}]
    /\ dnatMap' = [s \in Instances |-> [d \in Domains |-> NilIP]]
    /\ flushed' = FALSE
    /\ given' = [a \in PoolIPs |-> NoDomain]
    /\ overUdp' = {}
    /\ pc' = [h \in Handlers |-> "idle"]
    /\ receiver' = [h \in Handlers |-> NoInstance]
    /\ domain' = [h \in Handlers |-> NoDomain]
    /\ ignored' = [h \in Handlers |-> FALSE]
    /\ upIP' = [h \in Handlers |-> NilIP]
    /\ rtype' = [h \in Handlers |-> "A"]
    /\ ip' = [h \in Handlers |-> NilIP]
    /\ UNCHANGED rules

StopStep == StopClear \/ StopUdp \/ StopTcp \/ StopFails \/ StopDone

Next ==
    \/ \E h \in Handlers, d \in Domains : Receive(h, d)
    \/ \E h \in Handlers : HandlerStep(h)
    \/ Start
    \/ StopRemove
    \/ StopStep
    \/ RunnerShutdown
    \/ Flush
    \/ Crash

Spec == Init /\ [][Next]_vars

(* Scripts, upstream queries (2 s timeout) and iptables end, and Go runs    *)
(* every goroutine that can run; nothing makes a client ask again.          *)
Fairness ==
    /\ \A h \in Handlers : WF_vars(HandlerStep(h))
    /\ WF_vars(StopStep)

FairSpec == Spec /\ Fairness

-----------------------------------------------------------------------------
(* Properties.                                                              *)

\* Addresses that identify one domain: the sandbox's own address is the
\* fallback of all, and an upstream address is whatever the resolver said.
Exclusive == PoolIPs \ (UpstreamIPs \cup {AnalysisIP})

\* The domains that the current Server has to do with an address for: the one
\* it is tracked for, those of its queries that hold it, and the one it was
\* answered for.
ClaimedBy(a, d) ==
    \/ dnatMap[instance][d] = a
    \/ \E h \in Current : pc[h] \in Holding /\ ip[h] = a /\ domain[h] = d
    \/ given[a] = d

\* Traffic to a spoofed address tells which name was looked up: until Stop
\* clears the pool (server.go:160-163), no pool address is ever tracked for,
\* held for or answered for two domains by one Server, however its queries
\* interleave with each other and with those that a failed Stop left behind.
AddressAttribution ==
    phase \in Attributing =>
        \A a \in Exclusive : \A d, e \in Domains :
            ClaimedBy(a, d) /\ ClaimedBy(a, e) => d = e

Tracking(a) == {h \in Current : pc[h] = "track" /\ ip[h] = a}

\* Every mapping that addDNAT tracks, or is about to track, has a rule of its
\* own in the kernel (server.go:418-424), so a tracked domain is redirected
\* and RemoveDNAT finds one rule per entry of the map when Stop runs.
RuleBacking ==
    phase = "running" /\ ~flushed =>
        \A a \in Addresses : Cardinality(Tracked(a)) + Cardinality(Tracking(a)) <= rules[a]

\* A Stop that returned without an error has waited for every query of its
\* Server: until the next start no memory of that Server moves and no query is
\* under way, except those of an earlier Server whose Stop did return an error
\* (server.go:163-170) and that were still running when this one started; only
\* they may append a rule.
StoppedIsQuiet ==
    [][phase = "stopped" /\ phase' = "stopped" =>
         /\ ignoreList'[instance] = ignoreList[instance]
         /\ allocated'[instance] = allocated[instance]
         /\ dnatMap'[instance] = dnatMap[instance]
         /\ \A h \in Handlers : pc'[h] # "idle" => receiver'[h] \in lost \ {instance}
         /\ \A a \in Addresses : rules'[a] > rules[a] =>
              \E h \in Handlers :
                receiver[h] \in lost \ {instance} /\ pc[h] = "iptables" /\ ip[h] = a]_vars

\* Every query's goroutine ends, whatever the server does meanwhile.
QueryCompletes == \A h \in Handlers : pc[h] # "idle" ~> pc[h] = "idle"

\* A Stop that has begun ends, since it waits for the handlers of a listener only
\* after it has closed that listener (server.go:163-170), and does not wait for
\* those that a failed Stop left behind.
StopCompletes == phase = "removed" ~> phase \in {"stopped", "error", "none"}

\* An answered address other than the sandbox's is redirected to the sandbox:
\* server.go:403, "addDNAT adds a DNAT rule for the given IP and domain".
AnswerRedirected ==
    phase = "running" /\ ~flushed =>
        \A h \in Handlers :
            pc[h] = "reply" /\ ip[h] \in Addresses \ {AnalysisIP} => rules[ip[h]] > 0

\* Stop leaves no rule behind: server.go:146, "Clean up all DNAT rules".
StopCleansRules == phase = "stopped" => \A a \in Addresses : rules[a] = 0
=============================================================================
