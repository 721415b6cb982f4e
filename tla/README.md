# Simulacrum in TLA+

Simulacrum is a sandbox network for malware analysis: it answers the DNS, HTTP,
HTTPS and NTP traffic of a sample with services of its own.  These modules
model the parts of it that run concurrently, keep state and can fail halfway;
TLC checks them on small instances and TLAPS proves the main invariants for
instances of any size.

    tlc -workers 2 -config dns.cfg MCDnsServer.tla     model-check
    tlapm DnsServerProofs.tla                          check proofs

## The system

| part | source (under `src/`) | state it keeps | operations | model |
|---|---|---|---|---|
| DNS server | `internal/services/dns/server.go`, `ignore.go`, `spoof.go`, `proxy.go`, `actions.go` | map of tracked DNAT rules, ignore list, pool | `handleDNSRequest` in a goroutine per query, `Start`, `Stop` | `DnsServer` |
| address pool | `dns/ippool/ippool.go` | allocated addresses | `Allocate`, `Clear` | `DnsServer` |
| DNAT rules | `dns/dnat/dnat.go` | the nat table of the kernel | `AddDNAT`, `RemoveDNAT`, `FlushAll` | `DnsServer` |
| DNS service | `dns/service.go`, `New`, `Start` and `Stop` of `dns/server.go` | state, current `Server`, its two `dns.Server`s | start, stop, restart, status, update | `DnsService`; what a flush does to the rules, in `DnsServer` |
| responder | `responder/manager.go`, `pool.go`, `bridge.go`, `response.go` | channel of Lua VMs | `Handle`, `CheckOut`, `CheckIn`; `Observe`, `Get`, `Result` | `Responder`, `RequestSlots`, `ScriptResult` |
| memory store | `responder/memory_store.go` | a record per key | `Observe`, `Get`, tags and metadata | counters, in `Responder` |
| upstream check | `verifyUpstreamDNS`, `resolveUpstreamIP` of `dns/server.go` | the names it visited | one recursive call per CNAME record | `Lookup` |
| rule resolver | `responder/resolver.go` | a path per rule | `LoadScripts`, `GetRule`; `EnsureDefaultRules` | `Lookup`; `Program` |
| default script | `responder/static/default.lua` | none | first or repeat sighting of a name | `Responder` |
| HTTP, HTTPS service | `http/*.go`, `https/*.go` | state, current `Server`, its `http.Server` | start, stop, restart, status | `HttpService` |
| NTP service | `ntp/*.go` | state, connection, multiplier, base times | start, stop, restart, update; the serve loop | `NtpService` |
| web handler | `web/common.go` | files under `captures/` | `HandlePost`, `CapturePostBody` | `WebCapture` |
| CA and certificates | `ca/manager.go`, `core/tlscert/*.go` | root on disk, cache of leaves | bootstrap, issue, `GetCertificate` | `Certificates` |
| main program | `cmd/simulacrum/simulacrum.go` | listeners, services | `run`, shutdown on a signal | `Program` |
| configuration | `core/config/config.go` | `config.yaml` | `LoadOrCreate` | `Program` |
| control protocol | `core/services.go`, `core/socket/manager.go` | a socket per service | one request and one reply per connection | the sockets, in `Program`; what the commands do, in the services' modules |
| log, hash, entropy | `core/{logger,hash,inspect}` | none | | not modelled: I/O or stateless |
| `simctl`, `agent` | `cmd/simctl`, `cmd/agent` | none | | not modelled: one-shot command lines |

How they interact.  `main` makes its configuration and the default rules if they
are absent, makes the responder and hands it to the DNS server, makes a socket
for every service and runs it in a goroutine that accepts control connections,
and stops them on a signal.  A control connection runs `start`, `stop`, `restart` or an
update in a goroutine of its own, under the mutex of the service.  Each DNS
query is a goroutine that reads the ignore list, asks an upstream resolver, runs
a script in a Lua VM of the responder's pool, allocates an address, appends a
rule with `iptables` and answers; the ignore list, the pool and the map of rules
have a lock each, and no lock spans two of those steps.  A script calls back
into the memory store.  The nat table outlives the server and the process.  A TLS
handshake of the HTTPS service asks the certificate cache, which has a leaf
minted under the root that the process loaded, or made, when it started.  A POST
to either web service leaves a file, named by its content, in one directory.

Hard parts: queries for one name that interleave between the check and the
tracking of a rule; `iptables` that fails between the two; `Stop` and a crash in
the middle of queries; Lua VMs that are replaced while the pool must neither
lose nor gain one; `start` and `stop` that race the goroutine which opens the
listener; two listeners of which either may fail first; a connection that one
goroutine overwrites while another uses it; files (the root's two, the
configuration, captures) and sockets, which a crash or a second process may find
half written or stale; chains of names that loop.  `PROJECT.json` lists each
hazard at its line.

What makes the parts correct:

- DNS server: an address of the pool identifies one name; every tracked mapping
  has a rule; a stopped instance does nothing more; every query and every stop
  ends; an answered address is redirected; a stop leaves no rule.
- Responder: a VM is run by one goroutine at a time; the pool keeps its size;
  VMs are replaced in time; observations are counted under the right key; every
  request is served, in order of arrival.
- HTTP service: the reported state agrees with the port; one listener at a time;
  every command is answered.
- DNS service: the same for two sockets, and a listener that fails is reported.
- NTP service: the same, and a stopped server sends nothing more, no command
  kills the process, and the simulated time follows the multipliers.
- Lookup: a name is refused only when its chain ends in NXDOMAIN, upstream is
  asked a few times, and a query gets its most specific rule.
- Web handler: what is answered is on the disk, whole, and stays.
- Main program: a start comes up, from a whole configuration, whatever an earlier
  process left, half a configuration or half a root excepted; its sockets lead to it; a signal ends it with all services stopped.
- Certificates: the root's files are a pair; a leaf is for its name and chains to
  the root that is installed; handshakes share leaves; a start finds a root
  unless an earlier process died between its two files.

## The modules

### `ScriptResult`

What `Bridge.Result` accepts.  A script's table is reduced to its mode and to
the three fields of `response` that decide anything; `ParseResult` is the whole
of `Result` with its validation.  Actions never make `Result` fail: malformed
ones are skipped, and well-formed ones only log.

### `DnsServer`

| variable | code |
|---|---|
| `phase`, `instance` | where the current `Server` is between `New` and the end of `Stop`, and which it is |
| `ignoreList`, `allocated`, `dnatMap` | `ignore.list`, `Pool.allocatedIPs`, `Server.dnatMap`, of each `Server` |
| `rules` | the PREROUTING chain: how many rules match an address |
| `pc`, `receiver`, `domain`, `ignored`, `upIP`, `rtype`, `ip` | the locals of each `handleDNSRequest`, and the `Server` it is a method of |
| `overUdp` | the queries that the library's `Shutdown` of UDP waits for |
| `flushed`, `given`, `lost` | history: a flush happened; the name an address was answered for; the `Server`s whose `Stop` returned an error |

One action per stretch between two locks or external calls.  `Receive` is the
handler up to the upstream query, `VerifyUpstreamDNS` that query (any address,
none, or NXDOMAIN), `Respond` the script's verdict and what needs no further
lock, `Allocate` the pool, `CheckMapped`, `AddDNAT` and `Track` the three parts
of `addDNAT`, `Reply` the answer.  `Crash` takes the memory and leaves the rules;
`Flush` takes the rules and leaves the memory.

`StopRemove`, `StopClear`, `StopUdp`, `StopTcp`, `StopFails` and `StopDone` are
`Server.Stop`: the rules go first, the pool second, UDP third, TCP last.  The
library's `Shutdown` closes a listener, so that no query comes over it any more,
and returns when the handlers of that listener have.  The end of UDP wakes
`Start`, which shuts both listeners down as well (`RunnerShutdown`,
`server.go:131-134`).  When it gets to TCP first, `Stop`'s own `Shutdown` finds a
listener that is not started, and `Stop` returns that error at once
(`StopFails`): the queries over TCP go on, the service is in error, and a start
is possible next to them.  So a handler has a `receiver`, and each `Server` has
its own ignore list, pool and map.  When TCP was Stop's, it returns after the
last query of the `Server` (`StopDone`).  Which queries came over UDP is chosen
when the `Shutdown` of UDP begins, since nothing before depends on it.  A
`Server` is a name that is used again when no query refers to it; `Instances`
bounds how many there are at a time.

The library's `ServeMux` is global, and the last `Start` has registered its
handler there, but the `Server` that is stopped is the last one started, as long
as no command meets a runner on its way; that, and listeners that fail, is in
`DnsService`.

A query has one question, which is what the DNS library's default message filter
lets through.  Locals are reset when the code reads them no more.  A handler is
a slot that is used again; `Handlers` bounds how many run at a time, never how
many there have been.

### `Responder` and `RequestSlots`

`waiting` and `pool` are the two ends of the Go channel, whose receivers are
served in the order they came.  `vms` holds every `Worker` with what its Lua
state remembers: the bridge that `Observe` and `Get` are bound to, and whether a
script left a global.  `Handle` asks, `CheckOut` is the receive, the injection
and the registration, `Unruled` the return for a name without a rule, `RunGet` and `RunObserve` are `default.lua`, `RunStateful`
is any other script, `Recycle`, `Reuse` and `Push` are the deferred `CheckIn`.
A script may fail for any reason; `default.lua` fails whenever the question's
type is neither A nor TXT, since it answers with that type and `Result` refuses
it.

`RequestSlots` is what the pool promises: slots that are granted in order of
arrival and given back.  `ImplementsSlots` maps `waiting` to its queue and the
callers between `CheckOut` and the end of `CheckIn` to its active ones, and
checks fairness too: every slot is given back and every grant that can happen
does.

### `HttpService`

The service's state and mutex, its clients (control connections, and the main
program's first start and last stop), and its runners, the goroutines that
`start` leaves behind.  A runner reads `s.server` when it gets to run (`Load`),
makes the `http.Server` (`Make`), binds (`Listen`) and registers the listener
(`Serve`), or fails and sets the state (`SetError`).  `Shutdown` closes what is
registered; a listener that comes after it is closed by `Serve`, as in
`net/http`.  `mu` is a variable only for `Shutdown`, which holds it for long;
other critical sections are one step.  The HTTPS service has the same
`service.go` and the same sequence in `Server.Start`.

### `NtpService`

Clients and runners as in `HttpService`, with the same `service.go` but for
`update`.  Servers, runners, sockets and serve loops carry the number of the
start they come from.  `Listen` is `ListenUDP` and `Assign` the assignment to
`s.conn`, which an error turns into nil whoever set it: two runners may work for
one Server.  `Serve` counts and spawns the loop.  `Poll`, `Deadline`, `Reply`,
`Timeout` and `ReadClosed` are `serve`; those that use `s.conn` take it as it is
then, and a nil one sets `dead`, as `Update` does when there is no Server: a
panic ends the process.  `StopCancel`, `StopClose` and `StopEnd` are
`Server.Stop` under the service's mutex.  A Server is stopped at most once, so
its `Close` meets no closed socket and `Stop` no error.  A pointer is one word,
so the unsynchronised reads of `s.conn` and `s.server` find the old or the new
value; the interleavings are those.

`clock` has `baseTime`, `baseRealTime` and the multiplier of each Server.
`AdjustedTime` is what `serve` answers and `SetMultiplier` rebases; both run
under the Server's mutex and are one step each.  Nothing restricts a multiplier:
the first is the configuration's, and an update takes whatever `ParseFloat` does
(`service.go:130-134`).  So it is any integer number of `1/Unit`, and `Trunc` cuts
the product towards zero as `int64` does; or it is `NotFinite`, which stands for
NaN, the infinities and products that fit no `int64`, and makes the clock of the
Server `NoTime` for good: what the conversion then yields depends on the machine.
The wall clock does not go back here.  The two readings that `New` takes are one;
the rounding of a product to a float64, the constant between the eras, and the
cut to 32 bits, which wraps in 2036 of the simulated time, are left out.

### `Certificates`

`certFile` and `keyFile` are the disk: absent, opened and not written, or half of
a root.  A process goes through `StatCert` and `StatKey`, then either creates
the two files (`OpenCert`, `WriteCert`, `OpenKey`, `WriteKey`; the opens are
exclusive) or not, and loads them (`ReadCert`, `ReadKey`, which is where
`X509KeyPair` compares the halves).  `hand` is the root it writes, reads or
runs with.  `Crash` may come anywhere and takes the cache and the handshakes.
Each handshake normalises the name it is asked for, looks in the cache (`Hit`,
`Miss`), has a leaf minted without a lock (`Issue`) and stores it (`Store`).
Validity periods are not modelled: nothing in the code compares one with the
time, so a cached leaf is answered after its last day too.

### `DnsService`

Clients and runners as in `HttpService`; a runner has two listeners.  `field` is
`Server.dnsUdpServer` and `dnsTcpServer`, which the runner assigns one after the
other (`Begin`, `Spawn`) and `Stop` reads without a lock (`Stop`, `StopLook`).
`Listen`, `ServeEnds` and `ServeFails` are `ListenAndServe` of one listener;
`first` is what comes out of `errChan`.  When it has something, the runner shuts
both listeners down (`Shutdown`, `WaitUdp`, `WaitTcp`) and waits for both
(`Join`).  A client that stops does the same under the service's mutex
(`StopListener`, `StopWaitUdp`, `StopWaitTcp`), and returns at the first error.
The rules of `dns.Server` are those of `miekg/dns`: `started` is set by
`ListenAndServe` and cleared by `Shutdown`, which fails when it is not set and
otherwise waits for the loop and its handlers.  A UDP port counts as taken until
its loop ends, since the loop closes the socket; the TCP listener is closed when
its `Shutdown` begins.  `mux` is the library's global `ServeMux`,
whose one handler is that of the runner that came last.  `Update` is the flush,
which takes `s.server` without the mutex: nil sets `dead`.

### `WebCapture`

A body is a sequence of chunks, and the hash that names a file is the capture
itself: two captures with one 64-bit hash are left out.  Base64 maps different
data to different text, so it is not written out.  `Read` is `ReadAll` behind the
`LimitReader` (a read that fails goes on with what has come), `Cut` the limit,
`Stat` the directory and the test for a duplicate, `Open` and `Write` the two
parts of `WriteFile`, `Reply` the 200 that is sent in every case.  A negative
`MaxBodyKb` makes the slice panic, which `net/http` answers by closing the
connection.  `files` holds what is on the disk; `spoiled`, `answered` and `whole`
are history.

### `Program`

Every process has one life, and finds the files and sockets of the earlier ones.
`Stat`, `Open` and `Write` are `ensureConfig` and then `EnsureDefaultRules`, file
by file; `Read`, `Tls` and `Load` what is done with them, `Sign` and `Key` the
creation of the root when there is none; `Create` a turn of the
loop over the services, `Run` and `AcceptEnds` a service's goroutine, `Accept`
and `Control` a connection.  `QuitTake`, `QuitClose` and `QuitStop` are the
goroutine that waits for the signal, `Exit` the end of `group.Wait`.

A configuration that was cut is told apart by what it makes of a start.  Nothing
at all parses and has no TLS mode; cut, it may fail to parse, lack the TLS mode
or lack the path of the rules; one that ends between `rules_path` and
`pool_size` comes up with a pool without VMs ("poolless").  A service is on or
off, as its own module shows.

The root's two files are one here, `"root"`: absent, whole, or "cut", from the
creation of `ca.crt` to the end of `ca.key`.  A process that dies or fails in
between leaves it cut, and `Tls` refuses it ever after, since one file is there
and the other is not, or does not parse (`ca/manager.go:65-86`).  `Certificates`
has the same in steps.  A configuration that was cut may name other files, which
do no harm to the next start but may keep the certificate from its key.

### `Lookup`

The rules are loaded once (`LoadScript` is one turn of the loop), then one query
is looked up.  A name is a sequence of labels in upper or lower case.  `Verify`
is `verifyUpstreamDNS` with the apex of a suspected tunnel, `Resolve` the part of
`resolveUpstreamIP` before the exchange and `Exchange` the part after it; the
recursion is a loop, since each call is the last thing its caller does.
`Candidates` and `GetRule` are operators on the rules.  A zone is what upstream
answers while the query lasts: an address, a CNAME record, neither, NXDOMAIN or
another code; `ExchangeFails` is a timeout.  The set of visited names is
compared as it is spelled, so a loop through two spellings is ended by the limit
of five hops.  There are no weights, as the code
reads none.

## What is checked

| run | instance | states | checks |
|---|---|---|---|
| `dns` | 2 Servers, 2 handlers, 2 names, 1 pool address, every provisioning, at most 2 rules for an address, crashes and flushes, `iptables` may fail, symmetry | 650 k | `AddressAttribution`, `RuleBacking`, `StoppedIsQuiet` |
| `dns_live` | 2 Servers, 2 handlers, 1 name that may be ignored, 1 pool address, crashes | 369 k | `QueryCompletes`, `StopCompletes` |
| `responder` | 3 callers, 2 names, 2 VMs, 3 calls | 86 k | `VmExclusive`, `ObservationsCounted`, `FirstSightingsBounded`, `HandleReturns`, `ImplementsSlots` |
| `http_service` | 2 clients, 3 commands, a port that others take, `Shutdown` that times out | 55 k | `RunningMeansListening`, `OrderlyStateMatchesPort`, `CommandsAnswered` |
| `ntp_service` | 2 clients, 3 commands, multipliers of 1.5 and -1.5 and one that is not finite, one second, sockets that cannot be opened | 277 k | `RunningMeansServing`, `OrderlyStateMatchesPort`, `NoReplyAfterStop`, `DeathNeedsRace`, `ClockDrift`, `TimeNeverLeaps`, `CommandsAnswered` |
| `certificates` | 2 processes, 2 roots, 2 handshakes, 2 names in 3 spellings and an address, every fault, symmetry | 69 k | `RootPairMatches`, `LeavesChainToRoot`, `MintedOnce` |
| `dns_service` | 2 clients, 2 commands, listeners that cannot bind or fail | 118 k | `OrderlyStateMatchesSockets`, `StopMeansQuiet`, `OnlyFlushKills`, `CommandsAnswered`, `FailureReported` |
| `web_capture` | 3 handlers, 4 posts, 4 bodies that begin alike, limits of 2, 0 and -1 chunks, every fault, symmetry | 373 k | `FileIsCapture`, `AnsweredIsCaptured`, `CaptureStays` |
| `program` | 2 processes that may overlap, 2 services of which one is enabled, 1 command, every fault but that of `Accept` | 250 k | `StartComesUp`, `ServesWholeConfig`, `Reachable`, `ExitStops`, `SignalEnds` |
| `lookup` | about 60 zones with up to 7 CNAME records, 6 directories, 13 names in 2 spellings | 137 k | `VerdictFollowsChain`, `AskedOnce`, `RuleIsMostSpecific` |

The type invariants are proved (see below).

Why the bounds are enough.  Two handlers show every race of the DNS server,
whose steps relate the local state of one handler to the shared state; with two
names there is a second owner for an address.  A second Server lets a query which
a failed `Stop` left behind meet the next one at each of its steps; with a third,
it would have two to meet, which share nothing with each other.  One pool address
is the one that everybody wants; with two of them and an upstream address the
instances of one Server have 2.7 million states and pass as well.  `MaxRules` is an extra reason for `iptables` to refuse
a rule, which the code handles as a failure; two handlers of one name reach 2.
Three callers and two VMs let one caller wait while two run.  `Lifetimes = {0}`
makes a VM old after two scripts, where the code draws a number around 125000.
Three commands are a start, a stop and a start, the shortest sequence in which
an old runner meets a new server; in `ntp_service` a start and a restart leave
two runners for one Server.  One second and half a multiplier are enough for a
truncation.  Two processes are enough to race for the files, of which only one
can win, and two roots suffice since a root that nobody has is drawn again.  In
`dns_service` two commands are a start and a stop, restart or flush that meet in
every order, with two listeners that fail at every moment; a restart makes the
second Server (with three commands, 3.5 million states, the invariants hold as
well).  Three handlers let one
post write, one look and one come late.  Two processes are one that finds what
another left, and two that overlap; two services are enough for a start that
fails in the middle and a stop that fails before another.  Seven CNAME records
are one more than are followed.
`MaxCalls`, `MaxCommands` and the other bounds end the behaviour, as do the end
of a process and of a query, hence `CHECK_DEADLOCK FALSE` in those configurations.

Fairness.  `dns_live` assumes that a handler that can move does and that a
`Stop` that has begun goes on: Go runs every goroutine that can run, upstream
queries have a timeout of two seconds, and `iptables` and scripts end (nothing
in the code bounds a script; a looping one keeps its VM and, in the end, the
server).  No query is assumed to arrive and no stop to be asked for.
`responder` assumes the same of callers, and of the channel.  `http_service`
assumes strong fairness of the steps that need the service's mutex, as Go's
mutex hands over to a waiter that has waited for a millisecond.  `ntp_service`
assumes the same and that a serve loop goes on, by its deadline if no packet
comes; packets are not assumed.  `dns_service` assumes the same of clients and
runners, and that a listener that was spawned listens or fails and one that was
shut down ends, as queries do; no socket need fail.  `program` assumes that a
process goes on while one of its goroutines can: the steps of main, of the quit
goroutine and of the services' goroutines are finite in number, so none is
overtaken for ever.  Commands and signals are not assumed, and neither is a
failure of `Accept`.  `web_capture` and `lookup` check safety only.

Some properties ask for explanation.

- `AddressAttribution` speaks of pool addresses that no upstream resolver
  returns, of one Server, and until `Stop` clears the pool.  Afterwards a query
  in flight may draw an address that another one was given.  The set it quantifies over is
  claimed by a mapping, by a query on its way, or by an answer already given.
- `RuleBacking` counts the mapping a handler is about to track.  It has an
  exception after a flush, which the server does not learn of.
- `StoppedIsQuiet` is about a `Stop` that returned no error.  One that did has
  waited for nobody over TCP; what its queries may still do after a later stop
  is all that the property allows: run, and append the rule they were about to.
- `OrderlyStateMatchesPort` is an equivalence as long as no stop has met a
  runner that was not settled; `RunningMeansListening` is the direction that
  holds always.
- `DeathNeedsRace` says when a nil connection or Server may kill the process: an
  update before the first start, or a stop that overtook a runner.  Both happen
  in the code as it is.
- `TimeNeverLeaps` is what is left of a time that goes forward: with a negative
  multiplier it runs back, and nothing in the code refuses one.  What holds for
  every finite multiplier is that setting it moves nothing, and that the time
  then moves its way.
- `ClockDrift` allows a second per multiplier that was set, in either direction,
  since each rebase truncates.
- `MintedOnce` allows one leaf per concurrent handshake, and no second one for a
  handshaker that has minted: what it stored, or what another stored over it,
  answers it from then on.
- `OrderlyStateMatchesSockets`, `StopMeansQuiet` and `FailureReported` make an
  exception (`raced`) of a command that met a runner on its way, as in the HTTP
  service.  The first and the last make another one, `late`: a listener that
  fails before the other one has begun makes `Start` shut down what is not there
  yet; the other one then listens, `wg.Wait` waits for ever, and the service
  stays "running" with one socket and no report.
- `OnlyFlushKills` is about the two fields that `Stop` reads while a runner
  assigns them; a flush of a service without a Server does kill the process.
- `FileIsCapture` and `AnsweredIsCaptured` name who may be in the way of a whole
  file: a writer on its way, or one that failed or died.  In that last case the
  part it left is taken for the capture by every later duplicate, which is
  answered with 200.
- `StartComesUp` excuses a start by a fault it met, by another process next to it,
  or by what an earlier end left unfinished: half a configuration, or half a
  root.  The code recognises neither, and no later start succeeds until the
  files are deleted by hand.  Every other remainder, half a rules file and stale
  socket files above all, is no obstacle.
- `RuleIsMostSpecific` says what the code does, where `OPEN-BETA.md:21` announces
  another order; see below.
- `Reachable` and `ExitStops` have the exceptions that the code has: the close of
  an older process's listener removes the newer one's socket file, and a service
  that starts after the quit goroutine stopped it is on when the process ends.
- `VerdictFollowsChain` is an equivalence against `Hop`, which follows the zone
  from the first name asked without the code's set and counter.
- `FirstSightingsBounded` allows as many first sightings of a name as there are
  VMs, since the script looks before it observes; not one more.

### What the code does not keep

Two runs look for what a comment says and the code does not do; each has
a finding in `PROJECT.json`.

- `dns_redirect` (`AnswerRedirected`): the second static answer for a name has a
  new address and no rule, because `addDNAT` asks whether the name is mapped.
- `dns_cleanup` (`StopCleansRules`): a rule that two queries for one name
  appended twice, or one that a query appends after `Stop` removed the rules, is
  never removed.

The models show more of the kind, which no run looks for.

- A dynamic answer for a name that was ignored carries an empty address, because
  `net.IP{}` is not nil (`dns/server.go:456` and `375`).
- A global that a script sets is there for the next request in that VM
  (`responder/pool.go:77`), where `OPEN-BETA.md` speaks of a stateless Lua VM.
- A stop that overtakes the runner answers "stopped", and the runner listens
  afterwards (`http/service.go:131`; the HTTPS and NTP services alike).
- A process that dies between the creation of the certificate file and the end of
  the key file leaves a directory in which no start succeeds
  (`ca/manager.go:80`).
- A clean stop of the DNS server may report an error and leave the queries over
  TCP running, next to the Server of the next start (`dns/server.go:131-134` and
  `167`).
- A multiplier may be negative, NaN or infinite (`ntp/service.go:130`): the
  simulated time then runs back, or is what the machine makes of it.
- `OPEN-BETA.md:21` announces that of several scripts that match a name the one
  with the highest weight wins.  The code has no weights and takes the one with
  the longest name (`resolver.go:75`), which is what `RuleIsMostSpecific` says.
- `Stop` of the DNS server does not shut TCP down when UDP fails
  (`dns/server.go:164`), and a failed flush is answered "ok"
  (`dns/service.go:131`).
- A socket that cannot be made ends `run` with the earlier services running and
  their sockets left behind (`simulacrum.go:173`).

## What is proved

Eight modules hold the proofs.  Their theorems speak of every instance: any
finite sets of names, handlers and callers, any processes, roots and handshakes,
any addresses and any tables a script may return, any pool size, lifetimes and
number of commands, any bodies, limits, zones, directories, services and
multipliers, and every subset of the faults.  They assume the `ASSUME` of the module they are about
and nothing else.  Each proof has one lemma per action or group of actions, and
the temporal steps cite them.  The inductive invariants were checked by TLC on
the instances of the runs before they were proved.

`DnsServerProofs`:

- `TypeInvariance`, and from it `TypeCorrect`.  `TypeOK` is not inductive:
  `Ignore` puts the handler's name on the ignore list and `Track` maps it to the
  handler's address, so both must be real.  `TypeInv` adds that a handler at work
  has a name, and that one about to track has an address.
- `StoppedStaysQuiet`.  The invariant is that every handler at work has a receiver
  that is the current Server or one in `lost`, and that the current one has none
  when the phase is `"stopped"`; the step to `"stopped"` waits for them, `Receive`
  needs a listening Server, and a start takes one that nobody works for.
- `AddressesAttributed`.  Its invariant adds that an address which is tracked,
  held or was given by the current Server is allocated there: then `Allocate`,
  which takes a free one, makes the first claim on it, and every other step moves
  a claim without adding one.  Queries of other Servers claim nothing here.
- `RulesBacked`.  The count is per address: `AddDNAT` adds a rule before it adds
  a handler to `Tracking`, `Track` turns that handler into a mapping (of a name
  that may already have had one, so the number may only fall), and a new
  instance starts from an empty map.

Its second part is about `DnsService`, whose `ServiceInit`, `ServiceNext` and
`ServiceSpec` have names of their own so that one module can extend both:

- `LifeTypeCorrect`, from `StateInv`: one stop at a time is under the mutex
  (`MutexInv`), Servers are made in the order of their numbers and a runner works
  for its own or a later one (`StartsInv`), a listener exists once its runner has
  both fields (`SpawnInv`).
- `OnlyNilServerKills`.  Its invariant `FieldInv` says that a field holds a
  dns.Server made by a runner of that Server, that UDP is set before TCP, and
  that a dns.Server is started only when both fields are.  So a stop that finds
  either field set gets to `Shutdown` of UDP with that field set, and to that of
  TCP only after a started UDP, when TCP is set too.
- `StopWaitsForAll`.  `ListenersInv` says what a listener serves and what the
  runner has received from it.  `OrderlyInv` is conditional on no command having
  met a runner on its way: then a runner that is on its way is that of the
  running service, every earlier one has ended or is ending without an error,
  and a stop faces one runner, which has or had both listeners, and has waited
  for those that it passed.
- `OrderlyStateIsThatOfTheSockets`.  `ShutInv` adds, as long as no runner has
  shut down a listener that was yet to come, that a listener whose `Shutdown` has
  passed is ending, so a runner in `wg.Wait` at rest waits for nobody.

`ResponderProofs`:

- `NoVmShared`.  `VmExclusive` is inductive next to `Queued` (a goroutine in
  line waits, and is in line once): `CheckOut` takes a VM out of the channel and
  gives it to a caller that had none, `Push` is the reverse, and every other
  step moves no VM.  `PoolKeepsItsSize` counts along the same two steps.
- `VmsAreReplaced`.  `Reuse` is the only step that raises a count, and its
  guard is the tombstone.
- `EveryObservationCounted`.  Its invariant `Bound` says that the functions of
  a VM are bound to the caller that holds it, which `NoVmShared` keeps anyone
  else from changing.
- `FirstSightingsFew`.  Its invariant adds the callers that have read "no
  record" and not yet observed to the first sightings so far; each of those
  callers holds a VM, and none joins them once the record exists.
- `PoolRefinesSlots`.  `Handle` asks, `CheckOut` grants, `Push` gives back, every
  other step stutters.

`HttpServiceProofs`:

- `OneRunnerListens`, an invariant of its own next to the types.
- `RunningServiceListens`.  `Owners`, `Targets` and `Listens` say which runner
  made which `http.Server` for which `Server`; `Live` says that while the state
  is running and no `Shutdown` is under way, the runner of the last start is not
  over, works for the Server of that start, and no `http.Server` made for it
  has been shut down.  A runner that comes late may work for the same Server, and
  the one that bound the port first wins: the other fails, sets the state to
  error, and the premise is gone.
- `OrderlyStateIsRight`.  As long as no stop has met an unsettled runner, only
  the last start's runner is alive, so the `Shutdown` of a stop reaches it.

`CertificatesProofs`:

- `RootsPaired`.  `RootInv` says what each writer finds: whoever has opened the
  certificate is alone between there and the end of the key, because the open is
  exclusive and the file never goes away; a key never exists without its
  certificate; a process that is up has the root of the files.
- `LeavesChained`.  A leaf exists only after the certificate is written
  (`LeavesAfterRoot`), and from then on no step changes that file (`CertKept`), so
  what was signed in one life stays right in the next.
- `LeavesMintedOnce`.  Its invariant says that whoever has minted is about to
  store, or a leaf is stored; a miss contradicts the second, and a handshake that
  misses is not about to store.

`WebCaptureProofs`: one inductive invariant for all (`CaptureInv`).  To the three
properties it adds what each handler knows: one that has read without an error
and passed the limit has as much of its body as the limit allows
(`ReadWhole`), one that is about to answer has its file on the disk unless a
writer or a failure is in the way (`Replies`).  `CapturesStay` needs only the
types: a settled capture has no handler on its way to it, and a post that comes
later finds the file.

`LookupProofs`:

- `UpstreamIsAskedOnce`.  `AskedInv` says that as many names were asked for as
  hops were made, that all of them were visited, and that the one about to be
  asked for is not among them.
- `MostSpecificRule`.  `RulesInv` says that the rule of a name is a file of that
  name among those loaded so far, and that each of these has left some rule for
  its name.  The candidates of a query are its parents, longest first, so the
  first with a rule is the longest that a file has.
- `VerdictIsThatOfTheChain`.  The end of a chain is defined by `Hop`, a recursive
  function, and a walk has at most `MaxCNAMEHops` steps, so `HopIs` proves that
  the function exists and unfolds it, and its five steps are written down.
  `ChainInv` says that the names asked for follow one another by CNAME records;
  `EndInv` says that the name where the walk stopped answers as the verdict says.
  The `ASSUME` says that "no address" is not a name.

`ProgramProofs`:

- `StartsComeUp` and `WholeConfig`, by one invariant.  `FileInv` and `SignInv`: a
  configuration, or a root, that is not whole has a writer or was left so; `CfgInv` says what a process
  has read at each point of its start; `MetInv`: of two processes that are alive
  both have met, so a lone reader has no writer next to it.
- `SocketsLeadToTheProcess`.  `AskedInv`: the quit goroutine moves only after a
  signal, so the listeners of a process that was not asked are open, and no
  other process that could take its sockets is alive.
- `ExitStopsServices`, from `StoppedInv`, which says the same of each service
  that the quit goroutine has passed.

`NtpServiceProofs`:

- `TypeCorrect`, for which `ServerInv` counts the serve loops of a Server in its
  wait group, so that it does not become negative, and says that whoever uses a
  Server has one.
- `ClockFollowsMultipliers`.  `DriftInv` is about the exact distance in units
  between the ideal time and the rebased one: each update truncates less than
  one second away, whatever the sign (`Truncation`).
- `TimeTakesNoLeap`: a rebase takes the answer of the moment as its new base, and
  truncation is monotone (`TruncationMonotone`).  `ASSUME` asks of multipliers
  only that they are integers, in units of any size, or `NotFinite`.
- `RunningServes`, from `RunInv`: while the service is running and no stop is
  under way, a runner of its Server that got the port still has it and serves
  with the Server's connection, unless another one has failed and is about to
  report that.
- `NoLateReply`, from `OverInv`: a Server whose stop has returned is cancelled,
  and no loop of it reads or is about to.
- `OrderlyStateIsRight` and `NilNeedsRace`, from `OrderInv`, `SocketInv` and
  `OrderlyInv`: as long as no stop has met a runner on its way, the only such
  runner is that of the service that runs, each works for its own Server and has
  assigned the connection by the time that a stop closes it.

Only model-checked: liveness (`QueryCompletes`, `StopCompletes`,
`HandleReturns`, `CommandsAnswered`, `FailureReported`, `SignalEnds`), the
fairness in `ImplementsSlots`, and the violations.  Liveness under fairness is out
of this prover's reach, as `ENABLED` is.  The prover cannot do induction over data
either, nor `RECURSIVE` operators; no module here has one.

## What is left

Composition: DNS handlers over `Responder`, and services under the main
program, each step of which is a safe abstraction here (a script's verdict is
any table, a service is on or off).

Not modelled, and why: the timestamps of the memory store, which may go back
because an observation carries the time its query came (`memory_store.go:65`),
and its tags and metadata, which the default script does not use, with the
operations on them that nothing in the program calls; static
mode of TLS, which loads one pair and keeps no state; `HandleGet` and
`ServeFile`, which answer from embedded files; what an NTP server answers after a
multiplier that is not finite; `testIsAliveUpstream`, which
nobody calls; the JSON of the control protocol, logs, hashes, floating-point
entropy and X.509, which are formats and arithmetic; and the command lines
`simctl` and `agent`, which keep no state.
