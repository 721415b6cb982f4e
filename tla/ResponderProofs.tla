--------------------------- MODULE ResponderProofs ---------------------------
(* Theorems about Responder, for any callers, keys, pool size, lifetimes    *)
(* and number of calls.                                                     *)
EXTENDS Responder, FiniteSetTheorems, TLAPS

USE DEF store, locals

(* A goroutine in line waits, and is in line once.                          *)
Queued ==
    /\ \A i \in DOMAIN waiting : pc[waiting[i]] = "waiting"
    /\ \A i, j \in DOMAIN waiting : waiting[i] = waiting[j] => i = j

(* VmExclusive is inductive next to Queued: a caller that gets a VM has     *)
(* none, and the VM it gets is the channel's.                               *)
PoolInv == TypeOK /\ Queued /\ VmExclusive

LEMMA WorkerTyped == ASSUME NEW n \in Lifetimes PROVE Worker(n) \in Workers /\ Worker(n).open
  BY ResponderAssumption DEF Worker, Closed, Workers

LEMMA BridgeTyped ==
    ASSUME NEW w \in Workers, NEW c \in Callers
    PROVE  /\ [w EXCEPT !.bridge = c] \in Workers
           /\ [w EXCEPT !.bridge = c].open = w.open
  BY DEF Workers

LEMMA CountUp ==
    ASSUME NEW S, NEW f \in [S -> Nat], NEW x PROVE [f EXCEPT ![x] = @ + 1] \in [S -> Nat]
<1> SUFFICES ASSUME NEW y \in S PROVE [f EXCEPT ![x] = @ + 1][y] \in Nat OBVIOUS
<1>1. f[y] \in Nat /\ f[y] + 1 \in Nat OBVIOUS
<1> QED BY <1>1

LEMMA InitPool == Init => PoolInv
<1> SUFFICES ASSUME Init PROVE PoolInv OBVIOUS
<1>1. PoolSize \in Nat /\ 0 \in Nat BY ResponderAssumption
<1>2. \A v \in VMs : vms[v] \in Workers /\ vms[v].open
  BY WorkerTyped DEF Init
<1>3. pool \in Seq(VMs) /\ DOMAIN pool = VMs /\ \A i \in VMs : pool[i] = i
  BY <1>1 DEF Init, VMs
<1>4. vms \in [VMs -> Workers] BY <1>2 DEF Init
<1>5. TypeOK
  BY <1>1, <1>3, <1>4, ResponderAssumption DEF Init, TypeOK, PCs, Scripts
<1>6. Queued BY DEF Init, Queued
<1>7. Holders = {} BY DEF Init, Holders, Holding
<1>8. VmExclusive BY <1>2, <1>3, <1>7 DEF VmExclusive
<1> QED BY <1>5, <1>6, <1>8 DEF PoolInv

-----------------------------------------------------------------------------
(* Steps that move no VM: who holds one, and which, stays as it is.         *)
LEMMA NoVmMoves ==
    ASSUME VmExclusive, TypeOK, UNCHANGED <<pool, vm>>, Holders' = Holders,
           \A v \in VMs : vms[v].open => vms'[v].open
    PROVE  VmExclusive'
<1>1. \A i \in DOMAIN pool : pool[i] \in VMs BY DEF TypeOK
<1> QED BY <1>1 DEF VmExclusive

(* What a caller that has a VM does on the way changes its type only.       *)
LEMMA HolderStep ==
    ASSUME PoolInv, NEW c \in Callers, Run(c) \/ Recycle(c) \/ Reuse(c)
    PROVE  /\ PoolInv' /\ UNCHANGED <<pool, waiting, calls, vm>>
           /\ Holders' = Holders
<1>1. c \in Holders /\ vm[c] \in VMs
  BY DEF PoolInv, VmExclusive, Holders, Holding, Run, RunGet, RunObserve, RunStateful,
         Recycle, Reuse
<1>2. UNCHANGED <<pool, waiting, calls, vm>>
  BY DEF Run, RunGet, RunObserve, RunStateful, Recycle, Reuse
<1>3. \E l \in Holding : pc' = [pc EXCEPT ![c] = l]
  BY DEF Run, RunGet, RunObserve, RunStateful, Recycle, Reuse, Holding
<1>4. Holders' = Holders BY <1>1, <1>3 DEF Holders, PoolInv, TypeOK
<1>5. vms' \in [VMs -> Workers] /\ \A v \in VMs : vms[v].open => vms'[v].open
  <2>0. vms \in [VMs -> Workers] BY DEF PoolInv, TypeOK
  <2>1. CASE UNCHANGED vms BY <2>0, <2>1
  <2>2. CASE RunStateful(c) BY <1>1, <2>0, <2>2 DEF RunStateful, Workers
  <2>3. CASE Recycle(c)
    <3>1. PICK n \in Lifetimes : vms' = [vms EXCEPT ![vm[c]] = Worker(n)] BY <2>3 DEF Recycle
    <3> QED BY <1>1, <2>0, <3>1, WorkerTyped
  <2>4. CASE Reuse(c) BY <1>1, <2>0, <2>4 DEF Reuse, Workers
  <2> QED BY <2>1, <2>2, <2>3, <2>4 DEF Run, RunGet, RunObserve
<1>6. TypeOK'
  <2>1. pc' \in [Callers -> PCs] BY <1>3 DEF PoolInv, TypeOK, PCs, Holding
  <2>2. dnsQueries' \in [Keys -> Nat] /\ observed' \in [Keys -> Nat] /\ firsts' \in [Keys -> Nat]
    <3>0. dnsQueries \in [Keys -> Nat] /\ observed \in [Keys -> Nat] /\ firsts \in [Keys -> Nat]
      BY DEF PoolInv, TypeOK
    <3>1. CASE UNCHANGED store BY <3>0, <3>1
    <3>2. CASE RunObserve(c) BY <3>0, <3>2, CountUp DEF RunObserve
    <3> QED BY <3>1, <3>2 DEF Run, RunGet, RunStateful, Recycle, Reuse
  <2>3. isNew' \in [Callers -> BOOLEAN] /\ failed' \in [Callers -> BOOLEAN]
    BY DEF PoolInv, TypeOK, Run, RunGet, RunObserve, RunStateful, Recycle, Reuse
  <2>4. UNCHANGED <<key, script>>
    BY DEF Run, RunGet, RunObserve, RunStateful, Recycle, Reuse
  <2> QED BY <1>2, <1>5, <2>1, <2>2, <2>3, <2>4 DEF PoolInv, TypeOK
<1>7. Queued'
  <2>1. \A i \in DOMAIN waiting : waiting[i] \in Callers /\ waiting[i] # c
    BY <1>1 DEF PoolInv, TypeOK, Queued, Holders, Holding
  <2> QED BY <1>2, <1>3, <2>1 DEF PoolInv, TypeOK, Queued
<1>8. VmExclusive' BY <1>2, <1>4, <1>5, NoVmMoves DEF PoolInv
<1> QED BY <1>2, <1>4, <1>6, <1>7, <1>8 DEF PoolInv

LEMMA HandleStep ==
    ASSUME PoolInv, NEW c \in Callers, NEW k \in Keys, NEW s \in Scripts, Handle(c, k, s)
    PROVE  PoolInv' /\ Holders' = Holders
<1>1. Holders' = Holders BY DEF Handle, Holders, Holding, PoolInv, TypeOK
<1>2. waiting \in Seq(Callers) /\ waiting' = Append(waiting, c) BY DEF Handle, PoolInv, TypeOK
<1>3. TypeOK'
  <2>1. waiting' \in Seq(Callers) BY <1>2
  <2>2. calls' \in 0..MaxCalls BY ResponderAssumption DEF Handle, PoolInv, TypeOK
  <2> QED BY <2>1, <2>2 DEF Handle, PoolInv, TypeOK, PCs
<1>4. Queued'
  <2>1. pc[c] = "idle" /\ pc' = [pc EXCEPT ![c] = "waiting"] BY DEF Handle
  <2>2. \A i \in DOMAIN waiting : waiting[i] \in Callers /\ waiting[i] # c
    BY <1>2, <2>1 DEF PoolInv, Queued
  <2>3. DOMAIN waiting' = 1..Len(waiting)+1 /\ DOMAIN waiting = 1..Len(waiting) /\ Len(waiting) \in Nat
    BY <1>2
  <2>4. \A i \in DOMAIN waiting' : waiting'[i] = IF i = Len(waiting)+1 THEN c ELSE waiting[i]
    BY <1>2, <2>3
  <2>5. \A i \in DOMAIN waiting' : i # Len(waiting)+1 => i \in DOMAIN waiting BY <2>3
  <2>6. \A i \in DOMAIN waiting' : pc'[waiting'[i]] = "waiting"
    <3> SUFFICES ASSUME NEW i \in DOMAIN waiting' PROVE pc'[waiting'[i]] = "waiting" OBVIOUS
    <3>1. CASE i = Len(waiting)+1 BY <2>1, <2>4, <3>1 DEF PoolInv, TypeOK
    <3>2. CASE i # Len(waiting)+1
      <4>1. waiting'[i] = waiting[i] /\ waiting[i] \in Callers /\ pc[waiting[i]] = "waiting"
        BY <2>2, <2>4, <2>5, <3>2 DEF PoolInv, Queued
      <4> QED BY <2>1, <4>1 DEF PoolInv, TypeOK
    <3> QED BY <3>1, <3>2
  <2>7. \A i, j \in DOMAIN waiting' : waiting'[i] = waiting'[j] => i = j
    BY <2>2, <2>4, <2>5 DEF PoolInv, Queued
  <2> QED BY <2>6, <2>7 DEF Queued
<1>5. VmExclusive' BY <1>1, NoVmMoves DEF Handle, PoolInv
<1> QED BY <1>1, <1>3, <1>4, <1>5 DEF PoolInv

LEMMA CheckOutStep ==
    ASSUME PoolInv, CheckOut
    PROVE  /\ PoolInv'
           /\ Head(waiting) \in Callers \ Holders
           /\ Holders' = Holders \cup {Head(waiting)}
           /\ Len(pool') = Len(pool) - 1
<1> DEFINE c == Head(waiting)
           v == Head(pool)
<1>1. /\ waiting \in Seq(Callers) /\ waiting # <<>> /\ waiting' = Tail(waiting)
      /\ pool \in Seq(VMs) /\ pool # <<>> /\ pool' = Tail(pool)
  BY DEF CheckOut, PoolInv, TypeOK
<1>2. /\ Len(waiting) \in Nat /\ 1 \in DOMAIN waiting /\ c = waiting[1] /\ c \in Callers
      /\ DOMAIN waiting = 1..Len(waiting) /\ DOMAIN waiting' = 1..Len(waiting)-1
      /\ waiting' \in Seq(Callers)
      /\ \A i \in DOMAIN waiting' : waiting'[i] = waiting[i+1] /\ i+1 \in DOMAIN waiting /\ i+1 # 1
  BY <1>1
<1>3. /\ Len(pool) \in Nat /\ 1 \in DOMAIN pool /\ v = pool[1] /\ v \in VMs
      /\ DOMAIN pool = 1..Len(pool) /\ DOMAIN pool' = 1..Len(pool)-1
      /\ pool' \in Seq(VMs) /\ Len(pool') = Len(pool) - 1
      /\ \A i \in DOMAIN pool' : pool'[i] = pool[i+1] /\ i+1 \in DOMAIN pool /\ i+1 # 1
  BY <1>1
<1>4. /\ vm' = [vm EXCEPT ![c] = v]
      /\ vms' = [vms EXCEPT ![v].bridge = c]
      /\ UNCHANGED <<calls, store, key, script, isNew, failed>>
  BY DEF CheckOut
<1>5. \E l \in {"get", "custom"} : pc' = [pc EXCEPT ![c] = l] BY DEF CheckOut
<1>6. pc[c] = "waiting" BY <1>2 DEF PoolInv, Queued
<1>7. c \notin Holders BY <1>6 DEF Holders, Holding
<1>8. Holders' = Holders \cup {c} BY <1>2, <1>5 DEF Holders, Holding, PoolInv, TypeOK
<1>9. vms' \in [VMs -> Workers] /\ \A w \in VMs : vms'[w].open = vms[w].open
  <2>1. vms \in [VMs -> Workers] BY DEF PoolInv, TypeOK
  <2>2. vms' = [vms EXCEPT ![v] = [vms[v] EXCEPT !.bridge = c]] BY <1>4
  <2>3. vms'[v] \in Workers /\ vms'[v].open = vms[v].open
    BY <1>2, <1>3, <2>1, <2>2, BridgeTyped
  <2>4. \A w \in VMs \ {v} : vms'[w] = vms[w] BY <2>1, <2>2
  <2> HIDE DEF c, v
  <2> QED BY <2>1, <2>2, <2>3, <2>4
<1>10. TypeOK'
  BY <1>2, <1>3, <1>4, <1>5, <1>9 DEF PoolInv, TypeOK, PCs
<1>11. Queued'
  <2>1. \A i \in DOMAIN waiting' : waiting'[i] \in Callers /\ waiting'[i] # c
    <3> SUFFICES ASSUME NEW i \in DOMAIN waiting'
                 PROVE  waiting'[i] \in Callers /\ waiting'[i] # c
      OBVIOUS
    <3>1. waiting'[i] = waiting[i+1] /\ i+1 \in DOMAIN waiting /\ i+1 # 1 BY <1>2
    <3>2. waiting[i+1] # waiting[1] BY <1>2, <3>1 DEF PoolInv, Queued
    <3> QED BY <1>1, <1>2, <3>1, <3>2
  <2>2. \A i \in DOMAIN waiting' : pc[waiting'[i]] = "waiting" BY <1>2 DEF PoolInv, Queued
  <2>3. \A i \in DOMAIN waiting' : pc'[waiting'[i]] = "waiting"
    BY <1>5, <2>1, <2>2 DEF PoolInv, TypeOK
  <2>4. \A i, j \in DOMAIN waiting' : waiting'[i] = waiting'[j] => i = j
    <3> SUFFICES ASSUME NEW i \in DOMAIN waiting', NEW j \in DOMAIN waiting',
                        waiting'[i] = waiting'[j]
                 PROVE  i = j
      OBVIOUS
    <3>1. i+1 = j+1 BY <1>2 DEF PoolInv, Queued
    <3> QED BY <1>2, <3>1
  <2> QED BY <2>3, <2>4 DEF Queued
<1>12. VmExclusive'
  <2>1. vm'[c] = v /\ \A d \in Callers \ {c} : vm'[d] = vm[d]
    BY <1>2, <1>4 DEF PoolInv, TypeOK
  <2>2. \A d \in Holders : vm[d] \in VMs /\ vms[vm[d]].open /\ vm[d] # v /\ d \in Callers
    BY <1>3 DEF PoolInv, VmExclusive, Holders
  <2>3. \A i \in DOMAIN pool' : pool'[i] \in VMs /\ vms[pool'[i]].open /\ pool'[i] # v
    <3> SUFFICES ASSUME NEW i \in DOMAIN pool'
                 PROVE  pool'[i] \in VMs /\ vms[pool'[i]].open /\ pool'[i] # v
      OBVIOUS
    <3>1. pool'[i] = pool[i+1] /\ i+1 \in DOMAIN pool /\ i+1 # 1 BY <1>3
    <3>2. pool[i+1] # pool[1] BY <1>3, <3>1 DEF PoolInv, VmExclusive
    <3> QED BY <1>1, <1>3, <3>1, <3>2 DEF PoolInv, VmExclusive
  <2>4. vms[v].open BY <1>3 DEF PoolInv, VmExclusive
  <2>5. \A d \in Holders' : vm'[d] \in VMs /\ vms'[vm'[d]].open
    BY <1>3, <1>7, <1>8, <1>9, <2>1, <2>2, <2>4
  <2>6. \A i \in DOMAIN pool' : vms'[pool'[i]].open
    BY <1>9, <2>3
  <2>7. \A d, e \in Holders' : vm'[d] = vm'[e] => d = e
    BY <1>7, <1>8, <2>1, <2>2 DEF PoolInv, VmExclusive
  <2>8. \A i, j \in DOMAIN pool' : pool'[i] = pool'[j] => i = j
    <3> SUFFICES ASSUME NEW i \in DOMAIN pool', NEW j \in DOMAIN pool', pool'[i] = pool'[j]
                 PROVE  i = j
      OBVIOUS
    <3>1. i+1 = j+1 BY <1>3 DEF PoolInv, VmExclusive
    <3> QED BY <1>3, <3>1
  <2>9. \A d \in Holders', i \in DOMAIN pool' : vm'[d] # pool'[i]
    BY <1>3, <1>7, <1>8, <2>1, <2>2, <2>3 DEF PoolInv, VmExclusive
  <2> QED BY <2>5, <2>6, <2>7, <2>8, <2>9 DEF VmExclusive
<1> QED BY <1>2, <1>3, <1>7, <1>8, <1>10, <1>11, <1>12 DEF PoolInv

LEMMA PushStep ==
    ASSUME PoolInv, NEW c \in Callers, Push(c)
    PROVE  /\ PoolInv'
           /\ c \in Holders
           /\ Holders' = Holders \ {c}
           /\ Len(pool') = Len(pool) + 1
<1>1. c \in Holders /\ vm[c] \in VMs
  BY DEF Push, PoolInv, VmExclusive, Holders, Holding
<1>2. /\ pool \in Seq(VMs) /\ pool' = Append(pool, vm[c])
      /\ vm' = [vm EXCEPT ![c] = NoVM] /\ pc' = [pc EXCEPT ![c] = "idle"]
      /\ UNCHANGED <<calls, waiting, vms, store>>
  BY DEF Push, PoolInv, TypeOK
<1>3. /\ Len(pool) \in Nat /\ Len(pool') = Len(pool) + 1 /\ pool' \in Seq(VMs)
      /\ DOMAIN pool = 1..Len(pool) /\ DOMAIN pool' = 1..Len(pool)+1
      /\ pool'[Len(pool)+1] = vm[c]
      /\ \A i \in DOMAIN pool : pool'[i] = pool[i]
      /\ \A i \in DOMAIN pool' : i = Len(pool)+1 \/ i \in DOMAIN pool
  BY <1>1, <1>2
<1>4. Holders' = Holders \ {c} BY <1>2 DEF Holders, Holding, PoolInv, TypeOK
<1>5. TypeOK' BY <1>2, <1>3 DEF Push, PoolInv, TypeOK, PCs, Scripts
<1>6. Queued'
  <2>1. \A i \in DOMAIN waiting : waiting[i] \in Callers /\ waiting[i] # c
    BY <1>1 DEF PoolInv, TypeOK, Queued, Holders, Holding
  <2> QED BY <1>2, <2>1 DEF PoolInv, TypeOK, Queued
<1>7. VmExclusive'
  <2>1. \A d \in Holders' : d \in Holders /\ d # c /\ vm'[d] = vm[d]
    BY <1>2, <1>4 DEF PoolInv, TypeOK, Holders
  <2>2. \A i \in DOMAIN pool : pool[i] # vm[c] /\ vms[pool[i]].open
    BY <1>1 DEF PoolInv, VmExclusive
  <2>3. \A d \in Holders' : vm'[d] \in VMs /\ vms'[vm'[d]].open
    BY <1>2, <2>1 DEF PoolInv, VmExclusive
  <2>4. \A i \in DOMAIN pool' : vms'[pool'[i]].open
    BY <1>1, <1>2, <1>3 DEF PoolInv, VmExclusive
  <2>5. \A d, e \in Holders' : vm'[d] = vm'[e] => d = e
    BY <2>1 DEF PoolInv, VmExclusive
  <2>6. \A i, j \in DOMAIN pool' : pool'[i] = pool'[j] => i = j
    BY <1>3, <2>2 DEF PoolInv, VmExclusive
  <2>7. \A d \in Holders', i \in DOMAIN pool' : vm'[d] # pool'[i]
    BY <1>1, <1>3, <2>1 DEF PoolInv, VmExclusive
  <2> QED BY <2>3, <2>4, <2>5, <2>6, <2>7 DEF VmExclusive
<1> QED BY <1>1, <1>3, <1>4, <1>5, <1>6, <1>7 DEF PoolInv

LEMMA NextPool == ASSUME PoolInv, [Next]_vars PROVE PoolInv'
<1>1. CASE \E c \in Callers, k \in Keys, s \in Scripts : Handle(c, k, s)
  BY <1>1, HandleStep
<1>2. CASE CheckOut BY <1>2, CheckOutStep
<1>3. CASE \E c \in Callers : Run(c) \/ CheckIn(c)
  BY <1>3, HolderStep, PushStep DEF CheckIn
<1>4. CASE UNCHANGED vars
  BY <1>4 DEF vars, PoolInv, TypeOK, Queued, VmExclusive, Holders
<1>5. ASSUME NEW c \in Callers, Unruled(c) PROVE PoolInv'
  <2>1. calls' \in 0..MaxCalls BY <1>5, ResponderAssumption DEF Unruled, PoolInv, TypeOK
  <2>2. UNCHANGED <<pool, waiting, vms, store, pc, locals>> BY <1>5 DEF Unruled
  <2> QED BY <2>1, <2>2 DEF PoolInv, TypeOK, Queued, VmExclusive, Holders
<1> QED BY <1>1, <1>2, <1>3, <1>4, <1>5 DEF Next

(* Every variable keeps its type, for any pool and any number of callers.   *)
THEOREM TypeCorrect == Spec => []TypeOK
  BY InitPool, NextPool, PTL DEF Spec, PoolInv

(* However many goroutines call Handle, and whatever their scripts do, no   *)
(* two of them ever run on one Lua state, and none runs on a closed one.    *)
THEOREM NoVmShared == Spec => []VmExclusive
  BY InitPool, NextPool, PTL DEF Spec, PoolInv

-----------------------------------------------------------------------------
(* The number of VMs.                                                       *)
LEMMA FiniteHolders == IsFiniteSet(Holders) /\ Cardinality(Holders) \in Nat
  BY ResponderAssumption, FS_Subset, FS_CardinalityType DEF Holders

LEMMA InitConserved == Init => PoolConserved
<1> SUFFICES ASSUME Init PROVE PoolConserved OBVIOUS
<1>1. Holders = {} BY DEF Init, Holders, Holding
<1>2. Len(pool) = PoolSize BY ResponderAssumption DEF Init, VMs
<1> QED BY <1>1, <1>2, FS_EmptySet, ResponderAssumption DEF PoolConserved

LEMMA NextConserved == ASSUME PoolInv, PoolConserved, [Next]_vars PROVE PoolConserved'
<1>0. Len(pool) \in Nat BY DEF PoolInv, TypeOK
<1>1. CASE \E c \in Callers, k \in Keys, s \in Scripts : Handle(c, k, s)
  BY <1>1, HandleStep DEF Handle, PoolConserved
<1>2. CASE CheckOut
  <2>1. Cardinality(Holders') = Cardinality(Holders) + 1
    BY <1>2, CheckOutStep, FiniteHolders, FS_AddElement
  <2> QED BY <1>0, <1>2, <2>1, CheckOutStep, FiniteHolders DEF PoolConserved
<1>3. ASSUME NEW c \in Callers, Push(c) PROVE PoolConserved'
  <2>1. Cardinality(Holders') = Cardinality(Holders) - 1
    BY <1>3, PushStep, FiniteHolders, FS_RemoveElement
  <2> QED BY <1>0, <1>3, <2>1, PushStep, FiniteHolders DEF PoolConserved
<1>4. ASSUME NEW c \in Callers, Run(c) \/ Recycle(c) \/ Reuse(c) PROVE PoolConserved'
  BY <1>4, HolderStep DEF PoolConserved
<1>5. CASE UNCHANGED <<pool, waiting, vms, store, pc, locals>>
  BY <1>5 DEF PoolConserved, Holders
<1> QED BY <1>1, <1>2, <1>3, <1>4, <1>5 DEF Next, CheckIn, Unruled, vars

(* No path through Handle loses a VM or brings one too many.                *)
THEOREM PoolKeepsItsSize == Spec => []PoolConserved
  BY InitPool, NextPool, InitConserved, NextConserved, PTL DEF Spec

-----------------------------------------------------------------------------
(* The tombstone.                                                           *)
LEMMA NextTombstone == ASSUME PoolInv, TombstoneBounds, [Next]_vars PROVE TombstoneBounds'
<1>0. vms \in [VMs -> Workers] BY DEF PoolInv, TypeOK
<1>1. CASE \A v \in VMs : vms'[v].count = vms[v].count /\ vms'[v].max = vms[v].max
  BY <1>1 DEF TombstoneBounds
<1>2. CASE CheckOut
  <2>1. \A v \in VMs : vms'[v].count = vms[v].count /\ vms'[v].max = vms[v].max
    BY <1>0, <1>2 DEF CheckOut, Workers
  <2> QED BY <1>1, <2>1
<1>3. ASSUME NEW c \in Callers, RunStateful(c) PROVE TombstoneBounds'
  <2>1. \A v \in VMs : vms'[v].count = vms[v].count /\ vms'[v].max = vms[v].max
    BY <1>0, <1>3 DEF RunStateful, Workers
  <2> QED BY <1>1, <2>1
<1>4. ASSUME NEW c \in Callers, Recycle(c) PROVE TombstoneBounds'
  <2>1. PICK n \in Lifetimes : vms' = [vms EXCEPT ![vm[c]] = Worker(n)] BY <1>4 DEF Recycle
  <2>2. Worker(n).count = 0 /\ Worker(n).max = n /\ n \in Nat
    BY ResponderAssumption DEF Worker, Closed
  <2>3. 0 <= n + 1 BY <2>2
  <2> QED BY <1>0, <2>1, <2>2, <2>3 DEF TombstoneBounds
<1>5. ASSUME NEW c \in Callers, Reuse(c) PROVE TombstoneBounds'
  <2> DEFINE v == vm[c]
  <2>1. v \in VMs
    BY <1>5 DEF Reuse, PoolInv, VmExclusive, Holders, Holding
  <2>2. vms[v].count \in Nat /\ vms[v].max \in Nat BY <1>0, <2>1 DEF Workers
  <2>3. ~(vms[v].count > vms[v].max) BY <1>5 DEF Reuse, Expired
  <2>4. vms' = [vms EXCEPT ![v] = [vms[v] EXCEPT !.count = vms[v].count + 1]]
    BY <1>5 DEF Reuse
  <2>5. vms'[v].count = vms[v].count + 1 /\ vms'[v].max = vms[v].max
    BY <1>0, <2>1, <2>4 DEF Workers
  <2>6. \A w \in VMs \ {v} : vms'[w] = vms[w] BY <1>0, <2>4
  <2> QED BY <2>2, <2>3, <2>5, <2>6 DEF TombstoneBounds
<1>6. CASE UNCHANGED vms BY <1>1, <1>6
<1> QED
  BY <1>2, <1>3, <1>4, <1>5, <1>6
  DEF Next, vars, Handle, Unruled, Run, CheckIn, RunGet, RunObserve, Push

(* No VM outlives its lifetime by more than two scripts: every way back     *)
(* into the pool passes the tombstone.                                      *)
THEOREM VmsAreReplaced == Spec => []TombstoneBounds
<1>1. Init => TombstoneBounds
  <2> SUFFICES ASSUME Init, NEW v \in VMs PROVE vms[v].count <= vms[v].max + 1
    BY DEF TombstoneBounds
  <2>1. PICK n \in Lifetimes : vms[v] = Worker(n) BY DEF Init
  <2>2. n \in Nat /\ vms[v].count = 0 /\ vms[v].max = n
    BY <2>1, ResponderAssumption DEF Worker, Closed
  <2> QED BY <2>2
<1> QED BY <1>1, InitPool, NextPool, NextTombstone, PTL DEF Spec

-----------------------------------------------------------------------------
(* What the scripts observe.  A caller whose script runs has a key, and the *)
(* functions of its VM are bound to it: nobody else can rebind them while   *)
(* it holds the VM.                                                         *)
Bound ==
    \A c \in Callers :
        /\ pc[c] # "idle" => key[c] \in Keys
        /\ pc[c] \in {"get", "observe"} => vms[vm[c]].bridge = c

LEMMA NextBound == ASSUME PoolInv, Bound, [Next]_vars PROVE Bound'
<1>0. vms \in [VMs -> Workers] /\ pc \in [Callers -> PCs] /\ vm \in [Callers -> VMs \cup {NoVM}]
      /\ key \in [Callers -> Keys \cup {NoKey}] /\ pool \in Seq(VMs) /\ waiting \in Seq(Callers)
  BY DEF PoolInv, TypeOK
<1>1. ASSUME NEW c \in Callers, NEW k \in Keys, NEW s \in Scripts, Handle(c, k, s) PROVE Bound'
  BY <1>0, <1>1 DEF Handle, Bound
<1>2. CASE CheckOut
  <2> DEFINE c == Head(waiting)
             v == Head(pool)
  <2>1. c \in Callers /\ v \in VMs /\ v = pool[1] /\ 1 \in DOMAIN pool /\ c = waiting[1] /\ 1 \in DOMAIN waiting
    BY <1>0, <1>2 DEF CheckOut
  <2>2. \A d \in Holders : vm[d] # v /\ vm[d] \in VMs BY <2>1 DEF PoolInv, VmExclusive
  <2>3. pc[c] = "waiting" BY <2>1 DEF PoolInv, Queued
  <2>4. vms' = [vms EXCEPT ![v] = [vms[v] EXCEPT !.bridge = c]] /\ vm' = [vm EXCEPT ![c] = v]
        /\ UNCHANGED key
    BY <1>2 DEF CheckOut
  <2>5. \E l \in {"get", "custom"} : pc' = [pc EXCEPT ![c] = l] BY <1>2 DEF CheckOut
  <2>6. vms'[v].bridge = c BY <1>0, <2>1, <2>4 DEF Workers
  <2>7. \A d \in Callers \ {c} : pc'[d] = pc[d] /\ vm'[d] = vm[d]
    BY <1>0, <2>4, <2>5
  <2>8. \A d \in Callers : pc[d] \in {"get", "observe"} => vms'[vm[d]] = vms[vm[d]]
    BY <1>0, <2>2, <2>4 DEF Holders, Holding
  <2>9. vm'[c] = v BY <1>0, <2>1, <2>4
  <2> HIDE DEF c, v
  <2> QED BY <2>3, <2>4, <2>6, <2>7, <2>8, <2>9 DEF Bound
<1>3. ASSUME NEW c \in Callers, RunGet(c) PROVE Bound'
  BY <1>0, <1>3 DEF RunGet, Bound
<1>4. ASSUME NEW c \in Callers, RunObserve(c) PROVE Bound'
  BY <1>0, <1>4 DEF RunObserve, Bound
<1>5. ASSUME NEW c \in Callers, RunStateful(c) PROVE Bound'
  <2>1. \A v \in VMs : vms'[v].bridge = vms[v].bridge
    BY <1>0, <1>5 DEF RunStateful, Workers
  <2>2. \A d \in Callers : pc'[d] \in {"get", "observe"} => pc[d] = pc'[d] /\ vm[d] \in VMs
    BY <1>0, <1>5 DEF RunStateful, PoolInv, VmExclusive, Holders, Holding
  <2> QED BY <1>0, <1>5, <2>1, <2>2 DEF RunStateful, Bound
<1>6. ASSUME NEW c \in Callers, Recycle(c) \/ Reuse(c) PROVE Bound'
  <2>1. c \in Holders /\ vm[c] \in VMs
    BY <1>6 DEF Recycle, Reuse, PoolInv, VmExclusive, Holders, Holding
  <2>2. \A d \in Holders \ {c} : vm[d] # vm[c] BY <2>1 DEF PoolInv, VmExclusive
  <2>3. \E w : vms' = [vms EXCEPT ![vm[c]] = w]
    BY <1>6 DEF Recycle, Reuse
  <2>4. pc' = [pc EXCEPT ![c] = "push"] /\ UNCHANGED <<key, vm>>
    BY <1>6 DEF Recycle, Reuse
  <2>5. \A d \in Callers \ {c} : pc[d] \in {"get", "observe"} => vms'[vm[d]] = vms[vm[d]]
    BY <1>0, <2>2, <2>3 DEF Holders, Holding
  <2>6. pc[c] = "done" BY <1>6 DEF Recycle, Reuse
  <2> QED BY <1>0, <2>4, <2>5, <2>6 DEF Bound
<1>7. ASSUME NEW c \in Callers, Push(c) PROVE Bound'
  BY <1>0, <1>7 DEF Push, Bound
<1>8. CASE UNCHANGED <<pool, waiting, vms, store, pc, locals>> BY <1>8 DEF Bound
<1> QED
  BY <1>1, <1>2, <1>3, <1>4, <1>5, <1>6, <1>7, <1>8 DEF Next, Unruled, Run, CheckIn, vars

LEMMA InitBound == Init => Bound
  BY DEF Init, Bound

(* A script's observation is the one of its own request.                    *)
LEMMA ObserveCounts ==
    ASSUME PoolInv, Bound, NEW c \in Callers, RunObserve(c)
    PROVE  /\ key[c] \in Keys
           /\ dnsQueries' = [dnsQueries EXCEPT ![key[c]] = @ + 1]
  BY DEF RunObserve, Bound

LEMMA NextCounted ==
    ASSUME PoolInv, Bound, ObservationsCounted, [Next]_vars PROVE ObservationsCounted'
<1>1. ASSUME NEW c \in Callers, RunObserve(c) PROVE ObservationsCounted'
  <2>1. observed' = [observed EXCEPT ![key[c]] = @ + 1] BY <1>1 DEF RunObserve
  <2> QED BY <1>1, <2>1, ObserveCounts DEF ObservationsCounted, PoolInv, TypeOK
<1>2. CASE UNCHANGED store BY <1>2 DEF ObservationsCounted
<1> QED
  BY <1>1, <1>2
  DEF Next, vars, Handle, Unruled, CheckOut, Run, CheckIn, RunGet, RunStateful, Recycle,
      Reuse, Push

(* Every observation is counted once, under the key of the request whose    *)
(* script made it, although the functions it calls are globals of a VM that *)
(* many requests share.                                                     *)
THEOREM EveryObservationCounted == Spec => []ObservationsCounted
<1>1. Init => ObservationsCounted BY DEF Init, ObservationsCounted
<1> QED
  BY <1>1, InitPool, NextPool, InitBound, NextBound, NextCounted, PTL DEF Spec

-----------------------------------------------------------------------------
(* First sightings.  A name without a record has had none, and the callers  *)
(* that are about to report one hold a VM each.                             *)
Pending(k) == {c \in Callers : pc[c] = "observe" /\ isNew[c] /\ key[c] = k}

FirstInv ==
    \A k \in Keys :
        /\ dnsQueries[k] = 0 => firsts[k] = 0
        /\ firsts[k] + Cardinality(Pending(k)) <= PoolSize

LEMMA FinitePending ==
    ASSUME NEW k
    PROVE  /\ IsFiniteSet(Pending(k)) /\ Cardinality(Pending(k)) \in Nat
           /\ IsFiniteSet(Pending(k)') /\ Cardinality(Pending(k)') \in Nat
  BY ResponderAssumption, FS_Subset, FS_CardinalityType DEF Pending

LEMMA FewHolders == ASSUME PoolInv, PoolConserved PROVE Cardinality(Holders) <= PoolSize
<1>1. Len(pool) \in Nat BY DEF PoolInv, TypeOK
<1> QED BY <1>1, FiniteHolders, ResponderAssumption DEF PoolConserved

(* A step after which no more callers are about to report one.              *)
LEMMA NoNewPending ==
    ASSUME PoolInv, NEW k \in Keys, Pending(k)' \subseteq Pending(k),
           firsts[k] + Cardinality(Pending(k)) <= PoolSize, firsts'[k] = firsts[k]
    PROVE  firsts'[k] + Cardinality(Pending(k)') <= PoolSize
<1>1. Cardinality(Pending(k)') <= Cardinality(Pending(k)) BY FinitePending, FS_Subset
<1>2. firsts[k] \in Nat BY DEF PoolInv, TypeOK
<1> QED BY <1>1, <1>2, FinitePending, ResponderAssumption

LEMMA NextFirst ==
    ASSUME PoolInv, PoolConserved, Bound, FirstInv, [Next]_vars PROVE FirstInv'
<1>0. /\ pc \in [Callers -> PCs] /\ isNew \in [Callers -> BOOLEAN]
      /\ key \in [Callers -> Keys \cup {NoKey}]
      /\ dnsQueries \in [Keys -> Nat] /\ firsts \in [Keys -> Nat]
  BY DEF PoolInv, TypeOK
<1>1. ASSUME UNCHANGED store, \A k \in Keys : Pending(k)' \subseteq Pending(k) PROVE FirstInv'
  BY <1>1, NoNewPending DEF FirstInv
<1>2. ASSUME NEW c \in Callers, RunGet(c) PROVE FirstInv'
  <2>1. /\ pc[c] = "get" /\ pc' = [pc EXCEPT ![c] = "observe"]
        /\ isNew' = [isNew EXCEPT ![c] = dnsQueries[key[c]] = 0]
        /\ UNCHANGED <<key, store>>
    BY <1>2 DEF RunGet
  <2> SUFFICES ASSUME NEW k \in Keys PROVE firsts'[k] + Cardinality(Pending(k)') <= PoolSize
    BY <2>1 DEF FirstInv
  <2>2. CASE key[c] = k /\ dnsQueries[k] = 0
    <3>1. Pending(k)' \subseteq Holders
      BY <1>0, <2>1 DEF Pending, Holders, Holding
    <3>2. Cardinality(Pending(k)') <= Cardinality(Holders) BY <3>1, FiniteHolders, FS_Subset
    <3>3. firsts'[k] = 0 BY <2>1, <2>2 DEF FirstInv
    <3> QED BY <3>2, <3>3, FewHolders, FiniteHolders, FinitePending, ResponderAssumption
  <2>3. CASE ~(key[c] = k /\ dnsQueries[k] = 0)
    <3>1. Pending(k)' \subseteq Pending(k) BY <1>0, <2>1, <2>3 DEF Pending
    <3> QED BY <2>1, <3>1, NoNewPending DEF FirstInv
  <2> QED BY <2>2, <2>3
<1>3. ASSUME NEW c \in Callers, RunObserve(c) PROVE FirstInv'
  <2>1. /\ pc[c] = "observe" /\ pc' = [pc EXCEPT ![c] = "done"]
        /\ UNCHANGED <<key, isNew>>
        /\ firsts' = IF isNew[c] THEN [firsts EXCEPT ![key[c]] = @ + 1] ELSE firsts
    BY <1>3 DEF RunObserve
  <2>2. key[c] \in Keys /\ dnsQueries' = [dnsQueries EXCEPT ![key[c]] = @ + 1]
    BY <1>3, ObserveCounts
  <2> SUFFICES ASSUME NEW k \in Keys
               PROVE  /\ dnsQueries'[k] = 0 => firsts'[k] = 0
                      /\ firsts'[k] + Cardinality(Pending(k)') <= PoolSize
    BY DEF FirstInv
  <2>3. Pending(k)' = Pending(k) \ {c} BY <1>0, <2>1 DEF Pending
  <2>4. CASE key[c] = k /\ isNew[c]
    <3>1. c \in Pending(k) BY <2>1, <2>4 DEF Pending
    <3>2. Cardinality(Pending(k)') = Cardinality(Pending(k)) - 1
      BY <2>3, <3>1, FinitePending, FS_RemoveElement
    <3>3. firsts'[k] = firsts[k] + 1 BY <1>0, <2>1, <2>4
    <3>4. dnsQueries'[k] # 0 BY <1>0, <2>2, <2>4
    <3>5. firsts[k] + Cardinality(Pending(k)) <= PoolSize BY DEF FirstInv
    <3>6. firsts[k] \in Nat BY <1>0
    <3> QED BY <3>2, <3>3, <3>4, <3>5, <3>6, FinitePending, ResponderAssumption
  <2>5. CASE ~(key[c] = k /\ isNew[c])
    <3>1. firsts'[k] = firsts[k] BY <1>0, <2>1, <2>5
    <3>2. dnsQueries'[k] = 0 => dnsQueries[k] = 0 BY <1>0, <2>2
    <3>3. Pending(k)' \subseteq Pending(k) BY <2>3
    <3> QED BY <3>1, <3>2, <3>3, NoNewPending DEF FirstInv
  <2> QED BY <2>4, <2>5
<1>4. ASSUME NEW c \in Callers, RunStateful(c) \/ Recycle(c) \/ Reuse(c) \/ Push(c) PROVE FirstInv'
  <2>1. UNCHANGED store BY <1>4 DEF RunStateful, Recycle, Reuse, Push
  <2>2. \A d \in Callers : pc'[d] = "observe" =>
          pc[d] = "observe" /\ isNew'[d] = isNew[d] /\ key'[d] = key[d]
    BY <1>0, <1>4 DEF RunStateful, Recycle, Reuse, Push
  <2>3. \A k \in Keys : Pending(k)' \subseteq Pending(k) BY <2>2 DEF Pending
  <2> QED BY <1>1, <2>1, <2>3
<1>5. ASSUME NEW c \in Callers, NEW k \in Keys, NEW s \in Scripts, Handle(c, k, s) PROVE FirstInv'
  <2>1. \A l \in Keys : Pending(l)' \subseteq Pending(l)
    BY <1>0, <1>5 DEF Handle, Pending
  <2> QED BY <1>1, <1>5, <2>1 DEF Handle
<1>6. CASE CheckOut
  <2>1. \A k \in Keys : Pending(k)' \subseteq Pending(k)
    BY <1>0, <1>6 DEF CheckOut, Pending
  <2> QED BY <1>1, <1>6, <2>1 DEF CheckOut
<1>7. CASE UNCHANGED <<pool, waiting, vms, store, pc, locals>>
  <2>1. \A k \in Keys : Pending(k)' \subseteq Pending(k) BY <1>7 DEF Pending
  <2> QED BY <1>1, <1>7, <2>1
<1> QED BY <1>2, <1>3, <1>4, <1>5, <1>6, <1>7 DEF Next, Unruled, Run, CheckIn, vars

(* The race between Get and Observe reports a new name as new at most once  *)
(* for each VM of the pool, whatever the number of queries for it.          *)
THEOREM FirstSightingsFew == Spec => []FirstSightingsBounded
<1>1. Init => FirstInv
  <2> SUFFICES ASSUME Init, NEW k \in Keys PROVE firsts[k] = 0 /\ Cardinality(Pending(k)) = 0
    BY ResponderAssumption DEF FirstInv
  <2>1. Pending(k) = {} BY DEF Init, Pending
  <2> QED BY <2>1, FS_EmptySet DEF Init
<1>2. PoolInv /\ FirstInv => FirstSightingsBounded
  <2> SUFFICES ASSUME PoolInv, FirstInv, NEW k \in Keys PROVE firsts[k] <= PoolSize
    BY DEF FirstSightingsBounded
  <2>1. firsts[k] \in Nat /\ firsts[k] + Cardinality(Pending(k)) <= PoolSize
    BY DEF PoolInv, TypeOK, FirstInv
  <2> QED BY <2>1, FinitePending, ResponderAssumption
<1> QED
  BY <1>1, <1>2, InitPool, NextPool, InitConserved, NextConserved, InitBound, NextBound,
     NextFirst, PTL DEF Spec

-----------------------------------------------------------------------------
(* The refinement, step by step.                                            *)
LEMMA StepsRefine ==
    ASSUME PoolInv, PoolConserved, [Next]_vars PROVE [Slots!Next]_(Slots!vars)
<1>1. ASSUME NEW c \in Callers, NEW k \in Keys, NEW s \in Scripts, Handle(c, k, s)
      PROVE  Slots!Ask(c)
  <2>1. pc[c] = "idle" /\ waiting' = Append(waiting, c) BY <1>1 DEF Handle
  <2>2. c \notin Holders BY <2>1 DEF Holders, Holding
  <2>3. \A i \in DOMAIN waiting : waiting[i] # c BY <2>1 DEF PoolInv, Queued
  <2>4. Holders' = Holders BY <1>1, HandleStep
  <2> QED BY <2>1, <2>2, <2>3, <2>4 DEF Slots!Ask
<1>2. CASE CheckOut
  <2>1. waiting # <<>> /\ pool # <<>> /\ waiting' = Tail(waiting) /\ pool \in Seq(VMs)
    BY <1>2 DEF CheckOut, PoolInv, TypeOK
  <2>2. Len(pool) \in Nat /\ Len(pool) > 0 BY <2>1
  <2>3. Cardinality(Holders) < PoolSize
    BY <2>2, FiniteHolders, ResponderAssumption DEF PoolConserved
  <2>4. Holders' = Holders \cup {Head(waiting)} BY <1>2, CheckOutStep
  <2>5. Slots!Cardinality(Holders) = Cardinality(Holders)
    BY DEF Slots!Cardinality, Cardinality
  <2>6. Slots!Grant BY <2>1, <2>3, <2>4, <2>5 DEF Slots!Grant
  <2> QED BY <2>6 DEF Slots!Next
<1>3. ASSUME NEW c \in Callers, Push(c) PROVE Slots!GiveBack(c)
  BY <1>3, PushStep DEF Push, Slots!GiveBack
<1>4. ASSUME NEW c \in Callers, Run(c) \/ Recycle(c) \/ Reuse(c) PROVE UNCHANGED Slots!vars
  BY <1>4, HolderStep DEF Slots!vars
<1>5. CASE UNCHANGED <<pool, waiting, vms, store, pc, locals>>
  BY <1>5 DEF Slots!vars, Holders
<1> QED BY <1>1, <1>2, <1>3, <1>4, <1>5 DEF Next, Unruled, CheckIn, vars, Slots!Next

(* Apart from fairness, which TLC checks, the pool of VMs does what the     *)
(* abstract slots do: it grants in order of arrival, to callers that have   *)
(* none, and never more than PoolSize at a time.                            *)
THEOREM PoolRefinesSlots == Spec => Slots!Init /\ [][Slots!Next]_(Slots!vars)
<1>1. Init => Slots!Init BY DEF Init, Slots!Init, Holders, Holding
<1> QED
  BY <1>1, InitPool, NextPool, InitConserved, NextConserved, StepsRefine, PTL DEF Spec
=============================================================================
