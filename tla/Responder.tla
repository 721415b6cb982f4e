------------------------------ MODULE Responder ------------------------------
(***************************************************************************)
(* Manager.Handle and what it runs: src/internal/services/responder/       *)
(* manager.go, pool.go (the pool of Lua VMs), bridge.go (the calls a       *)
(* script makes back into Go), memory_store.go (what scripts remember)     *)
(* and static/default.lua (the script every name falls back to).           *)
(*                                                                         *)
(* A caller is a goroutine of the DNS server that has a question to        *)
(* decide.  The pool is a Go channel with a buffer of PoolSize, so callers *)
(* that find it empty wait in the order they came.                         *)
(***************************************************************************)
EXTENDS Naturals, Sequences, FiniteSets

CONSTANTS
    Callers,        \* goroutines in Handle
    Keys,           \* record keys: the names that are looked up
    NoCaller,       \* the bridge of a VM that has not run yet
    NoKey,          \* the key of an idle caller
    PoolSize,       \* VMs in the pool
    Lifetimes,      \* the values createWorker draws MaxRequests from
    MaxCalls        \* bound: calls of Handle

ASSUME ResponderAssumption ==
    /\ PoolSize \in Nat \ {0}
    /\ Lifetimes \subseteq Nat /\ Lifetimes # {}
    /\ MaxCalls \in Nat
    /\ IsFiniteSet(Callers)
    /\ NoCaller \notin Callers
    /\ NoKey \notin Keys

\* A worker and the one that replaces it share a number.
VMs == 1..PoolSize
NoVM == 0

VARIABLES
    calls,      \* calls of Handle so far
    pool,       \* Pool.pool: the buffer of the channel
    waiting,    \* the goroutines that wait to receive from it
    vms,        \* every Worker, with what its Lua state remembers
    dnsQueries, \* MemoryStore.records: DNSQueries, 0 for no record
    observed,   \* history: how often the scripts of a key observed it
    firsts,     \* history: how often they reported a first sighting
    pc,         \* where each caller is in Handle
    key,        \* its RequestContext.Key
    script,     \* the script its rule names
    isNew,      \* what default.lua read: whether there was no record
    vm,         \* the VM it holds
    failed      \* whether Handle's err is set when the deferred check-in runs

store == <<dnsQueries, observed, firsts>>
locals == <<key, script, isNew, vm, failed>>
vars == <<calls, pool, waiting, vms, store, pc, locals>>

PCs == {"idle", "waiting", "get", "observe", "custom", "done", "push"}

\* Between CheckOut and the end of CheckIn.
Holding == {"get", "observe", "custom", "done", "push"}

(* default.lua looks its key up and observes it; "stateful" stands for a     *)
(* rule that keeps a Lua global from one run to the next.                    *)
Scripts == {"default", "stateful"}

\* A closed Lua state, and a new worker.
Closed == [open |-> FALSE, count |-> 0, max |-> 0, globals |-> FALSE, bridge |-> NoCaller]
Worker(m) == [Closed EXCEPT !.open = TRUE, !.max = m]

Workers ==
    [open : BOOLEAN, count : Nat, max : Nat, globals : BOOLEAN, bridge : Callers \cup {NoCaller}]

TypeOK ==
    /\ calls \in 0..MaxCalls
    /\ pool \in Seq(VMs)
    /\ waiting \in Seq(Callers)
    /\ vms \in [VMs -> Workers]
    /\ dnsQueries \in [Keys -> Nat]
    /\ observed \in [Keys -> Nat]
    /\ firsts \in [Keys -> Nat]
    /\ pc \in [Callers -> PCs]
    /\ key \in [Callers -> Keys \cup {NoKey}]
    /\ script \in [Callers -> Scripts]
    /\ isNew \in [Callers -> BOOLEAN]
    /\ vm \in [Callers -> VMs \cup {NoVM}]
    /\ failed \in [Callers -> BOOLEAN]

\* NewPool fills the channel.
Init ==
    /\ calls = 0
    /\ pool = [i \in VMs |-> i]
    /\ waiting = <<>>
    /\ vms \in [VMs -> {Worker(m) : m \in Lifetimes}]
    /\ dnsQueries = [k \in Keys |-> 0]
    /\ observed = [k \in Keys |-> 0]
    /\ firsts = [k \in Keys |-> 0]
    /\ pc = [c \in Callers |-> "idle"]
    /\ key = [c \in Callers |-> NoKey]
    /\ script = [c \in Callers |-> "default"]
    /\ isNew = [c \in Callers |-> FALSE]
    /\ vm = [c \in Callers |-> NoVM]
    /\ failed = [c \in Callers |-> FALSE]

-----------------------------------------------------------------------------
\* The DNS handler calls Handle; the resolver names a script, and CheckOut
\* gets in line to receive from the channel.
Handle(c, k, s) ==
    /\ pc[c] = "idle"
    /\ calls < MaxCalls
    /\ calls' = calls + 1
    /\ key' = [key EXCEPT ![c] = k]
    /\ script' = [script EXCEPT ![c] = s]
    /\ waiting' = Append(waiting, c)
    /\ pc' = [pc EXCEPT ![c] = "waiting"]
    /\ UNCHANGED <<pool, vms, store, isNew, vm, failed>>

\* A query without a rule is refused before CheckOut.
Unruled(c) ==
    /\ pc[c] = "idle"
    /\ calls < MaxCalls
    /\ calls' = calls + 1
    /\ UNCHANGED <<pool, waiting, vms, store, pc, locals>>

\* Mutant: the functions are registered once, when the VM is new.
CheckOutStale ==
    /\ waiting # <<>>
    /\ pool # <<>>
    /\ LET c == Head(waiting)
           v == Head(pool)
       IN  /\ vm' = [vm EXCEPT ![c] = v]
           /\ vms' = IF vms[v].bridge = NoCaller THEN [vms EXCEPT ![v].bridge = c] ELSE vms
           /\ pc' = [pc EXCEPT ![c] = IF script[c] = "default" THEN "get" ELSE "custom"]
    /\ waiting' = Tail(waiting)
    /\ pool' = Tail(pool)
    /\ UNCHANGED <<calls, store, key, script, isNew, failed>>

\* Mutant: the last goroutine in line gets the VM.
CheckOutLast ==
    /\ waiting # <<>>
    /\ pool # <<>>
    /\ LET c == waiting[Len(waiting)]
           v == Head(pool)
       IN  /\ vm' = [vm EXCEPT ![c] = v]
           /\ vms' = [vms EXCEPT ![v].bridge = c]
           /\ pc' = [pc EXCEPT ![c] = IF script[c] = "default" THEN "get" ELSE "custom"]
    /\ waiting' = SubSeq(waiting, 1, Len(waiting) - 1)
    /\ pool' = Tail(pool)
    /\ UNCHANGED <<calls, store, key, script, isNew, failed>>

\* The first goroutine in line gets the first VM.  InjectContext sets the
\* global request and RegisterFunctions binds Observe and Get to its bridge;
\* the globals that earlier scripts set are still there.
CheckOut ==
    /\ waiting # <<>>
    /\ pool # <<>>
    /\ LET c == Head(waiting)
           v == Head(pool)
       IN  /\ vm' = [vm EXCEPT ![c] = v]
           /\ vms' = [vms EXCEPT ![v].bridge = c]
           /\ pc' = [pc EXCEPT ![c] = IF script[c] = "default" THEN "get" ELSE "custom"]
    /\ waiting' = Tail(waiting)
    /\ pool' = Tail(pool)
    /\ UNCHANGED <<calls, store, key, script, isNew, failed>>

\* Mutant: a record with one query still counts as new.
RunGetLate(c) ==
    /\ pc[c] = "get"
    /\ isNew' = [isNew EXCEPT ![c] = dnsQueries[key[c]] <= 1]
    /\ pc' = [pc EXCEPT ![c] = "observe"]
    /\ UNCHANGED <<calls, pool, waiting, vms, store, key, script, vm, failed>>

\* default.lua:9, Get(key): nil for a name without a record.
RunGet(c) ==
    /\ pc[c] = "get"
    /\ isNew' = [isNew EXCEPT ![c] = dnsQueries[key[c]] = 0]
    /\ pc' = [pc EXCEPT ![c] = "observe"]
    /\ UNCHANGED <<calls, pool, waiting, vms, store, key, script, vm, failed>>

\* default.lua:12-64 or 65-109, Observe and the result: a first or a repeat
\* sighting.  The record observed is the one of the bridge that the VM's
\* Observe is bound to.  The result takes its record type from the question,
\* and Bridge.Result refuses all types but A and TXT.
RunObserve(c) ==
    /\ pc[c] = "observe"
    /\ dnsQueries' = [dnsQueries EXCEPT ![key[vms[vm[c]].bridge]] = @ + 1]
    /\ observed' = [observed EXCEPT ![key[c]] = @ + 1]
    /\ firsts' = IF isNew[c] THEN [firsts EXCEPT ![key[c]] = @ + 1] ELSE firsts
    /\ \E refused \in BOOLEAN : failed' = [failed EXCEPT ![c] = refused]
    /\ pc' = [pc EXCEPT ![c] = "done"]
    /\ UNCHANGED <<calls, pool, waiting, vms, key, script, isNew, vm>>

\* A script that sets a global, and may fail.
RunStateful(c) ==
    /\ pc[c] = "custom"
    /\ vms' = [vms EXCEPT ![vm[c]].globals = TRUE]
    /\ \E raised \in BOOLEAN : failed' = [failed EXCEPT ![c] = raised]
    /\ pc' = [pc EXCEPT ![c] = "done"]
    /\ UNCHANGED <<calls, pool, waiting, store, key, script, isNew, vm>>

\* The tombstone in Handle's deferred function: the check comes before the
\* increment, so a VM serves two requests more than MaxRequests.
Expired(v) == vms[v].count > vms[v].max

\* Mutant: the VM is closed and its replacement forgotten.
RecycleClosed(c) ==
    /\ pc[c] = "done"
    /\ failed[c] \/ Expired(vm[c])
    /\ vms' = [vms EXCEPT ![vm[c]] = Closed]
    /\ pc' = [pc EXCEPT ![c] = "push"]
    /\ UNCHANGED <<calls, pool, waiting, store, locals>>

\* Mutant: the error path returns before it sends the new worker.
RecycleLost(c) ==
    /\ pc[c] = "done"
    /\ failed[c] \/ Expired(vm[c])
    /\ \E m \in Lifetimes : vms' = [vms EXCEPT ![vm[c]] = Worker(m)]
    /\ pc' = [pc EXCEPT ![c] = "idle"]
    /\ failed' = [failed EXCEPT ![c] = FALSE]
    /\ UNCHANGED <<calls, pool, waiting, store, key, script, isNew, vm>>

\* CheckIn of a VM that failed or is expired: another one takes its place.
Recycle(c) ==
    /\ pc[c] = "done"
    /\ failed[c] \/ Expired(vm[c])
    /\ \E m \in Lifetimes : vms' = [vms EXCEPT ![vm[c]] = Worker(m)]
    /\ pc' = [pc EXCEPT ![c] = "push"]
    /\ UNCHANGED <<calls, pool, waiting, store, locals>>

\* CheckIn of a healthy VM: only its stack is emptied.
Reuse(c) ==
    /\ pc[c] = "done"
    /\ ~failed[c] /\ ~Expired(vm[c])
    /\ vms' = [vms EXCEPT ![vm[c]].count = @ + 1]
    /\ pc' = [pc EXCEPT ![c] = "push"]
    /\ UNCHANGED <<calls, pool, waiting, store, locals>>

\* CheckIn sends the worker, which blocks when the buffer is full; then
\* Handle returns and its locals are gone.
Push(c) ==
    /\ pc[c] = "push"
    /\ Len(pool) < PoolSize
    /\ pool' = Append(pool, vm[c])
    /\ pc' = [pc EXCEPT ![c] = "idle"]
    /\ key' = [key EXCEPT ![c] = NoKey]
    /\ script' = [script EXCEPT ![c] = "default"]
    /\ isNew' = [isNew EXCEPT ![c] = FALSE]
    /\ vm' = [vm EXCEPT ![c] = NoVM]
    /\ failed' = [failed EXCEPT ![c] = FALSE]
    /\ UNCHANGED <<calls, waiting, vms, store>>

Run(c) == RunGet(c) \/ RunObserve(c) \/ RunStateful(c)
CheckIn(c) == Recycle(c) \/ Reuse(c) \/ Push(c)

Next ==
    \/ \E c \in Callers, k \in Keys, s \in Scripts : Handle(c, k, s)
    \/ \E c \in Callers : Unruled(c)
    \/ CheckOut
    \/ \E c \in Callers : Run(c) \/ CheckIn(c)

Spec == Init /\ [][Next]_vars

(* Scripts end, and the Go scheduler runs what can run.  CheckOut serves    *)
(* the head of the queue, so weak fairness is enough for every caller.      *)
Fairness ==
    /\ WF_vars(CheckOut)
    /\ \A c \in Callers : WF_vars(Run(c) \/ CheckIn(c))

FairSpec == Spec /\ Fairness

-----------------------------------------------------------------------------
(* Properties.                                                              *)

Holders == {c \in Callers : pc[c] \in Holding}

\* Two goroutines never run on one Lua state, which is not safe for that: the
\* VMs in the channel and the ones checked out are open, and all different
\* (manager.go:63-77, pool.go:60-81).
VmExclusive ==
    /\ \A c \in Holders : vm[c] \in VMs /\ vms[vm[c]].open
    /\ \A i \in DOMAIN pool : vms[pool[i]].open
    /\ \A c, d \in Holders : vm[c] = vm[d] => c = d
    /\ \A i, j \in DOMAIN pool : pool[i] = pool[j] => i = j
    /\ \A c \in Holders, i \in DOMAIN pool : vm[c] # pool[i]

\* No VM is lost or gained, on the error path either, so CheckIn's send to a
\* channel of PoolSize never blocks a handler (pool.go:65-81).
PoolConserved == Len(pool) + Cardinality(Holders) = PoolSize

\* A VM is replaced before it has run max + 3 scripts (manager.go:70-77):
\* no path back into the pool goes around the tombstone.
TombstoneBounds == \A v \in VMs : vms[v].count <= vms[v].max + 1

\* Every observation a script makes is counted under the key of the request
\* that runs it, and none is lost among concurrent ones (bridge.go:197-201,
\* memory_store.go:55-95).
ObservationsCounted == \A k \in Keys : dnsQueries[k] = observed[k]

\* default.lua looks before it observes, so concurrent queries for a new name
\* may all report a first sighting, but never more of them than there are VMs.
FirstSightingsBounded == \A k \in Keys : firsts[k] <= PoolSize

\* Every call of Handle comes back, whatever the others do, as long as scripts
\* end (manager.go:57-96).
HandleReturns == \A c \in Callers : pc[c] = "waiting" ~> pc[c] = "idle"

\* The pool implements slots that are granted in order of arrival.
Slots == INSTANCE RequestSlots WITH
    Requesters <- Callers, Slots <- PoolSize, queue <- waiting, active <- Holders
ImplementsSlots == Slots!Spec
=============================================================================
