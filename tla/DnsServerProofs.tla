--------------------------- MODULE DnsServerProofs ---------------------------
(* Theorems about DnsServer, for any sets of names, handlers and addresses,  *)
(* and, in the second part, about the life of the service around it          *)
(* (DnsService, whose definitions are therefore named apart).                *)
EXTENDS DnsServer, DnsService, FiniteSetTheorems, TLAPS

(* Whatever table a script returns, the handler sees one of Results.        *)
LEMMA ParseResultInResults == ASSUME NEW t PROVE ParseResult(t) \in Results
  BY DEF ParseResult, Accepted, SpoofAccepted, ZeroResult, Results, Modes,
         ResponseCodes, ResponseTypes, Provisionings

(* A spoof result has a record type.                                        *)
LEMMA SpoofHasType ==
    ASSUME NEW t, ParseResult(t).mode = "spoof" PROVE ParseResult(t).rtype \in ResponseTypes
  BY DEF ParseResult, Accepted, SpoofAccepted, ZeroResult

USE DEF locals, memory, life

(* TypeOK is not inductive: Ignore adds the handler's domain to the ignore  *)
(* list of its Server and Track maps it to the handler's address, so all of *)
(* them must be real, and so must the current Server in every phase but     *)
(* the first.                                                               *)
HandlersOK ==
    \A h \in Handlers :
        /\ pc[h] # "idle" => domain[h] \in Domains /\ receiver[h] \in Instances
        /\ pc[h] = "idle" => receiver[h] = NoInstance
        /\ pc[h] = "track" => ip[h] \in Addresses

InstanceOK == phase # "none" => instance \in Instances

TypeInv == TypeOK /\ HandlersOK /\ InstanceOK

IPs == Addresses \cup {AnalysisIP, NilIP, EmptyIP}

(* What a step of one handler does to the handlers' variables: it keeps     *)
(* their types, and leaves the other handlers alone.                        *)
HandlersTyped ==
    /\ pc \in [Handlers -> PCs]
    /\ receiver \in [Handlers -> Instances \cup {NoInstance}]
    /\ overUdp \subseteq Handlers
    /\ domain \in [Handlers -> Domains \cup {NoDomain}]
    /\ ignored \in [Handlers -> BOOLEAN]
    /\ upIP \in [Handlers -> UpstreamIPs \cup {NilIP, EmptyIP}]
    /\ rtype \in [Handlers -> ResponseTypes]
    /\ ip \in [Handlers -> IPs]

ServerTyped ==
    /\ phase \in Phases
    /\ instance \in Instances \cup {NoInstance}
    /\ lost \subseteq Instances
    /\ ignoreList \in [Instances -> SUBSET Domains]
    /\ allocated \in [Instances -> SUBSET PoolIPs]
    /\ dnatMap \in [Instances -> [Domains -> Addresses \cup {NilIP}]]
    /\ rules \in [Addresses -> 0..MaxRules]
    /\ flushed \in BOOLEAN
    /\ given \in [PoolIPs -> Domains \cup {NoDomain}]

LEMMA TypeSplit == TypeOK <=> ServerTyped /\ HandlersTyped
  BY DEF TypeOK, ServerTyped, HandlersTyped, IPs

LEMMA ReturnTyped ==
    ASSUME HandlersTyped, HandlersOK, NEW h \in Handlers, Return(h)
    PROVE  HandlersTyped' /\ HandlersOK'
  BY DEF HandlersTyped, HandlersOK, Return, PCs, ResponseTypes, IPs

LEMMA AnswerTyped ==
    ASSUME HandlersTyped, HandlersOK, NEW h \in Handlers, NEW t, NEW a \in IPs,
           pc[h] # "idle", Answer(h, t, a), UNCHANGED domain,
           \/ UNCHANGED <<ignored, upIP>>
           \/ Forget(h)
    PROVE  HandlersTyped' /\ HandlersOK'
  BY DEF HandlersTyped, HandlersOK, Answer, Forget, PCs, ResponseTypes, IPs

LEMMA RespondTyped ==
    ASSUME TypeInv, NEW h \in Handlers, Respond(h) PROVE TypeInv'
<1>0. ServerTyped /\ HandlersTyped /\ HandlersOK /\ InstanceOK BY TypeSplit DEF TypeInv
<1>1. PICK t \in Tables :
        LET r == ParseResult(t)
        IN  Spoof(h, r) \/ Proxy(h, r) \/ Ignore(h, r) \/ ServFail(h, r) \/ Drop(h, r)
  BY DEF Respond
<1> DEFINE r == ParseResult(t)
<1>2. pc[h] = "respond" /\ domain[h] \in Domains /\ receiver[h] \in Instances
  BY <1>0 DEF Respond, HandlersOK
<1>3. UNCHANGED <<life, allocated, dnatMap, flushed, given, rules>> BY DEF Respond
<1>4. {AnalysisIP, NilIP} \subseteq IPs BY DEF IPs
<1>5. ignoreList' \in [Instances -> SUBSET Domains] /\ HandlersTyped' /\ HandlersOK'
  <2>1. CASE Spoof(h, r)
    <3>1. r.rtype \in ResponseTypes BY <2>1, SpoofHasType DEF Spoof
    <3>2. ignoreList' \in [Instances -> SUBSET Domains]
      BY <1>0, <2>1 DEF Spoof, Unignore, ServerTyped
    <3>3. CASE ProvisionStatic(h, r)
      BY <1>0, <1>2, <2>1, <3>1, <3>2, <3>3
      DEF Spoof, ProvisionStatic, Forget, HandlersTyped, HandlersOK, PCs
    <3>4. CASE ProvisionDynamic(h, r)
      BY <1>0, <1>2, <2>1, <3>1, <3>2, <3>4
      DEF Spoof, ProvisionDynamic, Forget, HandlersTyped, HandlersOK, PCs, IPs, Addresses
    <3>5. CASE ProvisionNone(h, r)
      BY <1>0, <1>2, <1>4, <2>1, <3>2, <3>5, AnswerTyped DEF Spoof, ProvisionNone, Forget
    <3> QED BY <2>1, <3>3, <3>4, <3>5 DEF Spoof
  <2>2. CASE Proxy(h, r)
    <3>1. ignoreList' \in [Instances -> SUBSET Domains]
      BY <1>0, <2>2 DEF Proxy, Unignore, ServerTyped
    <3> QED BY <1>0, <1>2, <1>4, <2>2, <3>1, AnswerTyped DEF Proxy, Forget
  <2>3. CASE Ignore(h, r)
    <3>1. ignoreList' \in [Instances -> SUBSET Domains]
      BY <1>0, <1>2, <2>3 DEF Ignore, ServerTyped
    <3> QED BY <1>0, <1>2, <1>4, <2>3, <3>1, AnswerTyped DEF Ignore, Forget
  <2>4. CASE ServFail(h, r)
    BY <1>0, <1>2, <1>4, <2>4, AnswerTyped DEF ServFail, Forget, ServerTyped
  <2>5. CASE Drop(h, r)
    BY <1>0, <2>5, ReturnTyped DEF Drop, ServerTyped
  <2> QED BY <1>1, <2>1, <2>2, <2>3, <2>4, <2>5
<1> QED
  BY <1>0, <1>3, <1>5, TypeSplit
  DEF TypeInv, ServerTyped, HandlersTyped, TypeOK, InstanceOK, IPs

LEMMA HandlerStepTyped ==
    ASSUME TypeInv, NEW h \in Handlers, HandlerStep(h) PROVE TypeInv'
<1>0. ServerTyped /\ HandlersTyped /\ HandlersOK /\ InstanceOK BY TypeSplit DEF TypeInv
<1>1. {AnalysisIP, NilIP} \subseteq IPs /\ ip[h] \in IPs BY <1>0 DEF IPs, HandlersTyped
<1>a. UNCHANGED life
  BY DEF HandlerStep, VerifyUpstreamDNS, Respond, Allocate, CheckMapped, AddDNAT, Track, Reply
<1>b. pc[h] # "idle"
  BY DEF HandlerStep, VerifyUpstreamDNS, Respond, Allocate, CheckMapped, AddDNAT, Track, Reply
<1>c. domain[h] \in Domains /\ receiver[h] \in Instances BY <1>0, <1>b DEF HandlersOK
<1> SUFFICES ServerTyped' /\ HandlersTyped' /\ HandlersOK'
  BY <1>0, <1>a DEF TypeInv, ServerTyped, HandlersTyped, TypeOK, InstanceOK, IPs
<1>2. CASE VerifyUpstreamDNS(h)
  <2>1. ServerTyped' BY <1>0, <1>2 DEF VerifyUpstreamDNS, ServerTyped
  <2>2. CASE Answer(h, "none", NilIP) /\ UNCHANGED upIP
    BY <1>0, <1>1, <1>2, <2>1, <2>2, AnswerTyped DEF VerifyUpstreamDNS
  <2>3. CASE ~(Answer(h, "none", NilIP) /\ UNCHANGED upIP)
    BY <1>0, <1>2, <2>1, <2>3 DEF VerifyUpstreamDNS, HandlersTyped, HandlersOK, PCs
  <2> QED BY <2>2, <2>3
<1>3. CASE Respond(h)
  BY <1>3, RespondTyped, TypeSplit
  DEF TypeInv, TypeOK, ServerTyped, HandlersTyped, IPs
<1>4. CASE Allocate(h)
  <2>1. ServerTyped' BY <1>0, <1>c, <1>4 DEF Allocate, ServerTyped
  <2>2. CASE Answer(h, rtype[h], AnalysisIP)
    BY <1>0, <1>1, <1>4, <2>1, <2>2, AnswerTyped DEF Allocate
  <2>3. CASE ~Answer(h, rtype[h], AnalysisIP)
    BY <1>0, <1>4, <2>1, <2>3 DEF Allocate, HandlersTyped, HandlersOK, PCs, IPs, Addresses
  <2> QED BY <2>2, <2>3
<1>5. CASE CheckMapped(h)
  <2>1. ServerTyped' BY <1>0, <1>5 DEF CheckMapped, ServerTyped
  <2>2. CASE Answer(h, rtype[h], ip[h])
    BY <1>0, <1>1, <1>5, <2>1, <2>2, AnswerTyped DEF CheckMapped
  <2>3. CASE ~Answer(h, rtype[h], ip[h])
    BY <1>0, <1>5, <2>1, <2>3 DEF CheckMapped, HandlersTyped, HandlersOK, PCs
  <2> QED BY <2>2, <2>3
<1>6. CASE AddDNAT(h)
  <2>1. ServerTyped' BY <1>0, <1>6, DnsAssumption DEF AddDNAT, Appendable, ServerTyped
  <2>2. CASE Answer(h, rtype[h], AnalysisIP)
    BY <1>0, <1>1, <1>6, <2>1, <2>2, AnswerTyped DEF AddDNAT
  <2>3. CASE ~Answer(h, rtype[h], AnalysisIP)
    BY <1>0, <1>6, <2>1, <2>3 DEF AddDNAT, Appendable, HandlersTyped, HandlersOK, PCs
  <2> QED BY <2>2, <2>3
<1>7. CASE Track(h)
  <2>1. ip[h] \in Addresses BY <1>0, <1>7 DEF Track, HandlersOK
  <2>2. ServerTyped' BY <1>0, <1>c, <1>7, <2>1 DEF Track, ServerTyped
  <2> QED BY <1>0, <1>1, <1>7, <2>2, AnswerTyped DEF Track
<1>8. CASE Reply(h)
  <2>1. domain[h] \in Domains BY <1>0, <1>8 DEF Reply, HandlersOK
  <2>2. ServerTyped' BY <1>0, <1>8, <2>1 DEF Reply, ServerTyped
  <2> QED BY <1>0, <1>8, <2>2, ReturnTyped DEF Reply
<1> QED BY <1>2, <1>3, <1>4, <1>5, <1>6, <1>7, <1>8 DEF HandlerStep

LEMMA FreshTyped ==
    ASSUME FreshMemory, TypeOK
    PROVE  /\ ignoreList' \in [Instances -> SUBSET Domains]
           /\ allocated' \in [Instances -> SUBSET PoolIPs]
           /\ dnatMap' \in [Instances -> [Domains -> Addresses \cup {NilIP}]]
           /\ flushed' \in BOOLEAN
           /\ given' \in [PoolIPs -> Domains \cup {NoDomain}]
  BY DEF FreshMemory, TypeOK

LEMMA NextTyped == ASSUME TypeInv, [Next]_vars PROVE TypeInv'
<1> USE DEF TypeInv, TypeOK, HandlersOK, InstanceOK
<1>1. ASSUME NEW h \in Handlers, NEW d \in Domains, Receive(h, d) PROVE TypeInv'
  BY <1>1 DEF Receive, Listening, PCs
<1>2. ASSUME NEW h \in Handlers, HandlerStep(h) PROVE TypeInv'
  BY <1>2, HandlerStepTyped DEF TypeInv
<1>3. CASE Start
  BY <1>3, FreshTyped DEF Start, Phases
<1>4. CASE StopRemove
  <2>1. PICK failed \in SUBSET Domains :
          rules' = [a \in Addresses |->
                      LET n == Cardinality(Tracked(a) \ failed)
                      IN  IF n < rules[a] THEN rules[a] - n ELSE 0]
    BY <1>4 DEF StopRemove
  <2>2. ASSUME NEW a \in Addresses
        PROVE  Cardinality(Tracked(a) \ failed) \in Nat
    BY DnsAssumption, FS_Subset, FS_CardinalityType DEF Tracked
  <2>3. rules' \in [Addresses -> 0..MaxRules]
    <3>1. ASSUME NEW a \in Addresses, NEW n \in Nat
          PROVE  (IF n < rules[a] THEN rules[a] - n ELSE 0) \in 0..MaxRules
      <4>1. rules[a] \in 0..MaxRules OBVIOUS
      <4> QED BY <4>1, DnsAssumption
    <3> HIDE DEF TypeInv, TypeOK, HandlersOK, InstanceOK
    <3> QED BY <2>1, <2>2, <3>1
  <2> QED BY <1>4, <2>3 DEF StopRemove, Phases
<1>5. CASE StopStep
  BY <1>5 DEF StopStep, StopClear, StopUdp, StopTcp, StopFails, StopDone, Current, Phases
<1>R. CASE RunnerShutdown
  BY <1>R DEF RunnerShutdown, Phases
<1>6. CASE Flush
  BY <1>6, DnsAssumption DEF Flush
<1>7. CASE Crash
  <2>1. HandlersTyped' /\ HandlersOK'
    BY <1>7 DEF Crash, HandlersTyped, PCs, ResponseTypes, IPs
  <2>2. ServerTyped' BY <1>7 DEF Crash, ServerTyped, Phases
  <2> QED BY <1>7, <2>1, <2>2 DEF Crash, ServerTyped, HandlersTyped, IPs
<1>8. CASE UNCHANGED vars
  BY <1>8 DEF vars
<1> QED BY <1>1, <1>2, <1>3, <1>4, <1>5, <1>R, <1>6, <1>7, <1>8 DEF Next

LEMMA InitTyped == Init => TypeInv
<1> SUFFICES ASSUME Init PROVE TypeInv
  OBVIOUS
<1>1. HandlersTyped /\ HandlersOK
  BY DEF Init, HandlersTyped, HandlersOK, PCs, ResponseTypes, IPs
<1>2. ServerTyped
  <2>1. 0 \in 0..MaxRules BY DnsAssumption
  <2>2. rules \in [Addresses -> 0..MaxRules] BY <2>1 DEF Init
  <2> QED BY <2>2 DEF Init, ServerTyped, Phases
<1> QED BY <1>1, <1>2, TypeSplit DEF TypeInv, Init, InstanceOK

THEOREM TypeInvariance == Spec => []TypeInv
  BY InitTyped, NextTyped, PTL DEF Spec

(* Every variable keeps its type for any constants that meet DnsAssumption. *)
THEOREM TypeCorrect == Spec => []TypeOK
  BY TypeInvariance, PTL DEF TypeInv

-----------------------------------------------------------------------------
(* Every query works for a Server whose Stop returned an error, or for the  *)
(* current one; in a process that has just started, and after a Stop that   *)
(* returned without an error, the current one has none.                     *)
Quiet ==
    /\ phase = "none" => lost = {}
    /\ phase # "none" => (phase = "error" <=> instance \in lost)
    /\ \A h \in Handlers :
         pc[h] # "idle" =>
            \/ receiver[h] \in lost
            \/ receiver[h] = instance /\ phase \notin {"none", "stopped"}

LEMMA HandlerStepQuiet ==
    ASSUME NEW h \in Handlers, HandlerStep(h), TypeInv
    PROVE  /\ UNCHANGED life
           /\ pc[h] # "idle"
           /\ \A g \in Handlers : pc'[g] # "idle" => pc[g] # "idle" /\ receiver'[g] = receiver[g]
<1>1. UNCHANGED life /\ pc[h] # "idle"
  BY DEF HandlerStep, VerifyUpstreamDNS, Respond, Allocate, CheckMapped, AddDNAT, Track, Reply
<1>2. /\ \A g \in Handlers \ {h} : pc'[g] = pc[g] /\ receiver'[g] = receiver[g]
      /\ pc'[h] # "idle" => receiver'[h] = receiver[h]
  <2>1. CASE Respond(h)
    BY <2>1 DEF Respond, Spoof, ProvisionStatic, ProvisionDynamic, ProvisionNone, Proxy,
                Ignore, ServFail, Drop, Answer, Return, TypeInv, TypeOK
  <2>2. CASE ~Respond(h)
    BY <2>2 DEF HandlerStep, VerifyUpstreamDNS, Allocate, CheckMapped, AddDNAT, Track, Reply,
                Answer, Return, TypeInv, TypeOK
  <2> QED BY <2>1, <2>2
<1> QED BY <1>1, <1>2

LEMMA NextQuiet == ASSUME TypeInv, Quiet, [Next]_vars PROVE Quiet'
<1> USE DEF Quiet
<1>1. ASSUME NEW h \in Handlers, NEW d \in Domains, Receive(h, d) PROVE Quiet'
  BY <1>1 DEF Receive, Listening, TypeInv, TypeOK
<1>2. ASSUME NEW h \in Handlers, HandlerStep(h) PROVE Quiet'
  BY <1>2, HandlerStepQuiet
<1>3. CASE Start
  <2>1. PICK s \in Instances : ~Busy(s) /\ instance' = s BY <1>3 DEF Start
  <2>2. s \notin lost' BY <1>3, <2>1 DEF Start
  <2>3. ASSUME NEW h \in Handlers, pc[h] # "idle" PROVE receiver[h] \in lost'
    <3>1. receiver[h] \in lost BY <1>3, <2>3 DEF Start
    <3>2. Busy(receiver[h]) BY DEF Busy
    <3> QED BY <1>3, <3>1, <3>2 DEF Start
  <2> QED BY <1>3, <2>1, <2>2, <2>3 DEF Start
<1>4. CASE StopRemove BY <1>4 DEF StopRemove
<1>5. CASE StopStep
  BY <1>5 DEF StopStep, StopClear, StopUdp, StopTcp, StopFails, StopDone, Current
<1>R. CASE RunnerShutdown BY <1>R DEF RunnerShutdown
<1>6. CASE Flush BY <1>6 DEF Flush
<1>7. CASE Crash BY <1>7 DEF Crash
<1>8. CASE UNCHANGED vars BY <1>8 DEF vars
<1> QED BY <1>1, <1>2, <1>3, <1>4, <1>5, <1>R, <1>6, <1>7, <1>8 DEF Next

LEMMA InitQuiet == Init => Quiet
  BY DEF Init, Quiet

(* A step of a query touches the memory of its own Server only, and appends *)
(* a rule only from the point where addDNAT calls iptables.                 *)
LEMMA HandlerStepOwn ==
    ASSUME TypeInv, NEW h \in Handlers, HandlerStep(h), NEW s \in Instances, s # receiver[h]
    PROVE  /\ ignoreList'[s] = ignoreList[s]
           /\ allocated'[s] = allocated[s]
           /\ dnatMap'[s] = dnatMap[s]
           /\ \A a \in Addresses : rules'[a] > rules[a] => pc[h] = "iptables" /\ ip[h] = a
<1>0. \A a \in Addresses : rules[a] \in Nat BY DnsAssumption DEF TypeInv, TypeOK
<1>1. CASE Respond(h)
  <2>1. ignoreList'[s] = ignoreList[s]
    BY <1>1 DEF Respond, Spoof, Proxy, Ignore, ServFail, Drop, Unignore, TypeInv, TypeOK
  <2> QED BY <1>0, <1>1, <2>1 DEF Respond
<1>2. CASE AddDNAT(h) BY <1>0, <1>2 DEF AddDNAT, TypeInv, TypeOK
<1>3. CASE ~Respond(h) /\ ~AddDNAT(h)
  BY <1>0, <1>3
  DEF HandlerStep, VerifyUpstreamDNS, Allocate, CheckMapped, Track, Reply, TypeInv, TypeOK
<1> QED BY <1>1, <1>2, <1>3

(* Between the end of a Stop that returned no error and the next Start only *)
(* a flush of the nat table, a crash, and the queries that an earlier,      *)
(* failed Stop left behind can move anything.                               *)
THEOREM StoppedStaysQuiet == Spec => StoppedIsQuiet
<1> DEFINE Left(h) == receiver[h] \in lost \ {instance}
           A == phase = "stopped" /\ phase' = "stopped" =>
                  /\ ignoreList'[instance] = ignoreList[instance]
                  /\ allocated'[instance] = allocated[instance]
                  /\ dnatMap'[instance] = dnatMap[instance]
                  /\ \A h \in Handlers : pc'[h] # "idle" => receiver'[h] \in lost \ {instance}
                  /\ \A a \in Addresses : rules'[a] > rules[a] =>
                       \E h \in Handlers :
                         receiver[h] \in lost \ {instance} /\ pc[h] = "iptables" /\ ip[h] = a
<1>1. ASSUME TypeInv, Quiet, [Next]_vars PROVE A
  <2> SUFFICES ASSUME phase = "stopped", phase' = "stopped" PROVE A
    OBVIOUS
  <2>0. /\ instance \in Instances
        /\ \A a \in Addresses : rules[a] \in Nat
        /\ \A h \in Handlers : pc[h] # "idle" => Left(h)
    BY <1>1, DnsAssumption DEF TypeInv, TypeOK, InstanceOK, Quiet
  <2>1. CASE UNCHANGED <<ignoreList, allocated, dnatMap, pc, receiver>>
             /\ \A a \in Addresses : ~(rules'[a] > rules[a])
    BY <2>0, <2>1
  <2>2. ASSUME NEW h \in Handlers, HandlerStep(h) PROVE A
    <3>1. Left(h) /\ receiver[h] # instance BY <1>1, <2>0, <2>2, HandlerStepQuiet
    <3>2. \A g \in Handlers : pc'[g] # "idle" => receiver'[g] \in lost \ {instance}
      BY <1>1, <2>0, <2>2, HandlerStepQuiet
    <3> QED BY <1>1, <2>0, <2>2, <3>1, <3>2, HandlerStepOwn
  <2>3. \A h \in Handlers, d \in Domains : ~Receive(h, d)
    BY DEF Receive, Listening
  <2>4. ~Start /\ ~StopRemove /\ ~StopStep /\ ~RunnerShutdown /\ ~Crash
    BY DEF Start, StopRemove, StopStep, StopClear, StopUdp, StopTcp, StopFails, StopDone,
           RunnerShutdown, Crash
  <2>5. CASE Flush BY <2>0, <2>1, <2>5 DEF Flush
  <2>6. CASE UNCHANGED vars BY <2>0, <2>1, <2>6 DEF vars
  <2> QED BY <1>1, <2>2, <2>3, <2>4, <2>5, <2>6 DEF Next
<1>2. Spec => [](TypeInv /\ Quiet)
  BY InitTyped, NextTyped, InitQuiet, NextQuiet, PTL DEF Spec
<1>3. Spec => [][A]_vars
  BY <1>1, <1>2, PTL DEF Spec
<1> QED BY <1>3 DEF StoppedIsQuiet

-----------------------------------------------------------------------------
(* AddressAttribution becomes inductive with one more fact: an address that *)
(* has to do with a domain at all is still allocated, so Allocate never     *)
(* draws it again.                                                          *)
Claimed == \A a \in Exclusive, d \in Domains : ClaimedBy(a, d) => a \in allocated[instance]

Attributed ==
    \A a \in Exclusive : \A d, e \in Domains :
        ClaimedBy(a, d) /\ ClaimedBy(a, e) => d = e

AttributionInv == phase \in Attributing => Claimed /\ Attributed

(* A step that makes no new claim, and takes nothing back from the pool.    *)
LEMMA NoNewClaim ==
    ASSUME Claimed, Attributed, allocated[instance] \subseteq allocated'[instance'],
           \A a \in Exclusive, d \in Domains : ClaimedBy(a, d)' => ClaimedBy(a, d)
    PROVE  Claimed' /\ Attributed'
  BY DEF Claimed, Attributed, Exclusive

LEMMA ExclusiveFacts ==
    ASSUME NEW a \in Exclusive
    PROVE  /\ a \in PoolIPs /\ a \in Addresses /\ a \notin UpstreamIPs
           /\ a # AnalysisIP /\ a # NilIP /\ a # EmptyIP
  BY DnsAssumption DEF Exclusive, Addresses

(* The handler keeps the address it holds, or answers one that is no claim. *)
LEMMA AnswerClaims ==
    ASSUME TypeInv, NEW h \in Handlers, NEW t, NEW b, Answer(h, t, b),
           b \notin Exclusive \/ (pc[h] \in Holding /\ b = ip[h]),
           UNCHANGED <<instance, domain, dnatMap, given>>
    PROVE  \A a \in Exclusive, d \in Domains : ClaimedBy(a, d)' => ClaimedBy(a, d)
  BY ExclusiveFacts DEF TypeInv, TypeOK, Answer, ClaimedBy, Current, Holding

LEMMA ReturnClaims ==
    ASSUME TypeInv, NEW h \in Handlers, Return(h), UNCHANGED <<instance, dnatMap, given>>
    PROVE  \A a \in Exclusive, d \in Domains : ClaimedBy(a, d)' => ClaimedBy(a, d)
  BY DEF TypeInv, TypeOK, Return, ClaimedBy, Current, Holding

LEMMA RespondClaims ==
    ASSUME TypeInv, NEW h \in Handlers, Respond(h)
    PROVE  \A a \in Exclusive, d \in Domains : ClaimedBy(a, d)' => ClaimedBy(a, d)
<1>1. PICK t \in Tables :
        LET r == ParseResult(t)
        IN  Spoof(h, r) \/ Proxy(h, r) \/ Ignore(h, r) \/ ServFail(h, r) \/ Drop(h, r)
  BY DEF Respond
<1> DEFINE r == ParseResult(t)
<1>2. AnalysisIP \notin Exclusive /\ NilIP \notin Exclusive BY ExclusiveFacts
<1>3. UNCHANGED <<instance, dnatMap, given>> /\ pc[h] = "respond" BY DEF Respond
<1>4. CASE Drop(h, r) BY <1>3, <1>4, ReturnClaims DEF Drop
<1>5. CASE Proxy(h, r) \/ Ignore(h, r) \/ ServFail(h, r)
  BY <1>2, <1>3, <1>5, AnswerClaims DEF Proxy, Ignore, ServFail, Forget
<1>6. CASE Spoof(h, r)
  <2>1. UNCHANGED domain BY <1>6 DEF Spoof, Forget
  <2>2. CASE ProvisionStatic(h, r)
    BY <1>3, <2>1, <2>2 DEF ProvisionStatic, ClaimedBy, Current, Holding, TypeInv, TypeOK
  <2>3. CASE ProvisionDynamic(h, r)
    <3>1. upIP[h] \notin Exclusive
      BY ExclusiveFacts DEF TypeInv, TypeOK
    <3> QED
      BY <1>3, <2>1, <2>3, <3>1 DEF ProvisionDynamic, ClaimedBy, Current, Holding, TypeInv, TypeOK
  <2>4. CASE ProvisionNone(h, r)
    BY <1>2, <1>3, <2>1, <2>4, AnswerClaims DEF ProvisionNone
  <2> QED BY <1>6, <2>2, <2>3, <2>4 DEF Spoof
<1> QED BY <1>1, <1>4, <1>5, <1>6

(* A fresh address is nobody's: its only claim is the one of its handler.   *)
LEMMA AllocateClaims ==
    ASSUME TypeInv, phase \in Attributing, Claimed, Attributed, NEW h \in Handlers, Allocate(h)
    PROVE  Claimed' /\ Attributed'
<1>1. UNCHANGED <<instance, domain, dnatMap, given>> /\ pc[h] = "allocate" BY DEF Allocate
<1>2. CASE Answer(h, rtype[h], AnalysisIP) /\ UNCHANGED allocated
  <2>1. AnalysisIP \notin Exclusive BY ExclusiveFacts
  <2> QED BY <1>1, <1>2, <2>1, AnswerClaims, NoNewClaim
<1>3. ASSUME NEW b \in PoolIPs \ allocated[receiver[h]], UNCHANGED receiver,
             allocated' = [allocated EXCEPT ![receiver[h]] = @ \cup {b}],
             ip' = [ip EXCEPT ![h] = b], pc' = [pc EXCEPT ![h] = "check"],
             receiver[h] # instance
      PROVE  Claimed' /\ Attributed'
  <2>1. \A a \in Exclusive, d \in Domains : ClaimedBy(a, d)' => ClaimedBy(a, d)
    BY <1>1, <1>3 DEF ClaimedBy, Current, Holding, TypeInv, TypeOK
  <2>2. \A s \in {instance} : s \in Instances => allocated'[s] = allocated[s]
    BY <1>3 DEF TypeInv, TypeOK
  <2>3. instance \in Instances
    BY DEF TypeInv, TypeOK, InstanceOK, Attributing
  <2> QED BY <1>1, <2>1, <2>2, <2>3, NoNewClaim
<1>4. ASSUME NEW b \in PoolIPs \ allocated[receiver[h]], UNCHANGED receiver,
             allocated' = [allocated EXCEPT ![receiver[h]] = @ \cup {b}],
             ip' = [ip EXCEPT ![h] = b], pc' = [pc EXCEPT ![h] = "check"],
             receiver[h] = instance
      PROVE  Claimed' /\ Attributed'
  <2>1. \A a \in Exclusive, d \in Domains :
          ClaimedBy(a, d)' => ClaimedBy(a, d) \/ (a = b /\ d = domain[h])
    BY <1>1, <1>4 DEF ClaimedBy, Current, Holding, TypeInv, TypeOK
  <2>2. b \in Exclusive => \A d \in Domains : ~ClaimedBy(b, d)
    BY <1>4 DEF Claimed
  <2>3. instance \in Instances
    BY <1>1, <1>4 DEF TypeInv, HandlersOK
  <2>4. allocated'[instance'] = allocated[instance] \cup {b}
    BY <1>1, <1>4, <2>3 DEF TypeInv, TypeOK
  <2>5. Claimed' BY <2>1, <2>4 DEF Claimed, Exclusive
  <2>6. Attributed'
    <3> SUFFICES ASSUME NEW a \in Exclusive, NEW d \in Domains, NEW e \in Domains,
                        ClaimedBy(a, d)', ClaimedBy(a, e)'
                 PROVE  d = e
      BY DEF Attributed, Exclusive
    <3> QED BY <2>1, <2>2 DEF Attributed
  <2> QED BY <2>5, <2>6
<1> QED BY <1>2, <1>3, <1>4 DEF Allocate

LEMMA HandlerStepClaims ==
    ASSUME TypeInv, phase \in Attributing, Claimed, Attributed, NEW h \in Handlers,
           HandlerStep(h)
    PROVE  Claimed' /\ Attributed'
<1>0. /\ UNCHANGED life /\ instance \in Instances /\ receiver[h] \in Instances
      /\ domain[h] \in Domains
  BY HandlerStepQuiet DEF TypeInv, InstanceOK, HandlersOK, Attributing
<1> DEFINE NoClaim == \A a \in Exclusive, d \in Domains : ClaimedBy(a, d)' => ClaimedBy(a, d)
<1>1. AnalysisIP \notin Exclusive /\ NilIP \notin Exclusive BY ExclusiveFacts
<1>2. CASE VerifyUpstreamDNS(h)
  <2>1. CASE Answer(h, "none", NilIP)
    BY <1>1, <1>2, <2>1, AnswerClaims, NoNewClaim DEF VerifyUpstreamDNS
  <2>2. CASE ~Answer(h, "none", NilIP)
    <3>1. NoClaim
      BY <1>2, <2>2 DEF VerifyUpstreamDNS, ClaimedBy, Current, Holding, TypeInv, TypeOK
    <3> QED BY <1>2, <3>1, NoNewClaim DEF VerifyUpstreamDNS
  <2> QED BY <2>1, <2>2
<1>3. CASE Respond(h)
  <2>1. UNCHANGED allocated BY <1>3 DEF Respond
  <2> QED BY <1>0, <1>3, <2>1, RespondClaims, NoNewClaim
<1>4. CASE Allocate(h) BY <1>4, AllocateClaims
<1>5. CASE CheckMapped(h)
  <2>1. NoClaim
    <3>1. CASE Answer(h, rtype[h], ip[h])
      BY <1>5, <3>1, AnswerClaims DEF CheckMapped, Holding
    <3>2. CASE ~Answer(h, rtype[h], ip[h])
      BY <1>5, <3>2 DEF CheckMapped, ClaimedBy, Current, Holding, TypeInv, TypeOK
    <3> QED BY <3>1, <3>2
  <2> QED BY <1>5, <2>1, NoNewClaim DEF CheckMapped
<1>6. CASE AddDNAT(h)
  <2>1. NoClaim
    <3>1. CASE Answer(h, rtype[h], AnalysisIP)
      BY <1>1, <1>6, <3>1, AnswerClaims DEF AddDNAT
    <3>2. CASE ~Answer(h, rtype[h], AnalysisIP)
      BY <1>6, <3>2 DEF AddDNAT, ClaimedBy, Current, Holding, TypeInv, TypeOK
    <3> QED BY <3>1, <3>2
  <2> QED BY <1>6, <2>1, NoNewClaim DEF AddDNAT
<1>7. CASE Track(h)
  <2>1. NoClaim
    BY <1>0, <1>7, ExclusiveFacts DEF Track, Answer, ClaimedBy, Current, Holding, TypeInv, TypeOK
  <2> QED BY <1>7, <2>1, NoNewClaim DEF Track
<1>8. CASE Reply(h)
  <2>1. NoClaim
    BY <1>0, <1>8, ExclusiveFacts DEF Reply, Return, ClaimedBy, Current, Holding, TypeInv, TypeOK
  <2> QED BY <1>8, <2>1, NoNewClaim DEF Reply
<1> QED BY <1>2, <1>3, <1>4, <1>5, <1>6, <1>7, <1>8 DEF HandlerStep

LEMMA NextAttribution ==
    ASSUME TypeInv, Quiet, AttributionInv, [Next]_vars PROVE AttributionInv'
<1>1. ASSUME NEW h \in Handlers, NEW d \in Domains, Receive(h, d) PROVE AttributionInv'
  <2>1. \A a \in Exclusive, e \in Domains : ClaimedBy(a, e)' => ClaimedBy(a, e)
    BY <1>1 DEF Receive, ClaimedBy, Current, Holding, TypeInv, TypeOK
  <2> QED BY <1>1, <2>1, NoNewClaim DEF Receive, AttributionInv
<1>2. ASSUME NEW h \in Handlers, HandlerStep(h) PROVE AttributionInv'
  BY <1>2, HandlerStepQuiet, HandlerStepClaims DEF AttributionInv
<1>3. CASE Start
  <2>1. \A a \in Exclusive, d \in Domains : ~ClaimedBy(a, d)'
    BY <1>3, ExclusiveFacts, DnsAssumption
    DEF Start, FreshMemory, ClaimedBy, Current, Holding, Busy
  <2> QED BY <2>1 DEF AttributionInv, Claimed, Attributed, Exclusive
<1>4. CASE StopRemove
  <2>1. \A a \in Exclusive, d \in Domains : ClaimedBy(a, d)' => ClaimedBy(a, d)
    BY <1>4 DEF StopRemove, ClaimedBy, Current
  <2> QED BY <1>4, <2>1, NoNewClaim DEF StopRemove, AttributionInv, Attributing
<1>5. CASE StopStep
  BY <1>5 DEF StopStep, StopClear, StopUdp, StopTcp, StopFails, StopDone, AttributionInv, Attributing
<1>R. CASE RunnerShutdown
  BY <1>R DEF RunnerShutdown, AttributionInv, Attributing
<1>6. CASE Flush
  <2>1. \A a \in Exclusive, d \in Domains : ClaimedBy(a, d)' => ClaimedBy(a, d)
    BY <1>6 DEF Flush, ClaimedBy, Current
  <2> QED BY <1>6, <2>1, NoNewClaim DEF Flush, AttributionInv
<1>7. CASE Crash BY <1>7 DEF Crash, AttributionInv, Attributing
<1>8. CASE UNCHANGED vars
  <2>1. \A a \in Exclusive, d \in Domains : ClaimedBy(a, d)' => ClaimedBy(a, d)
    BY <1>8 DEF vars, ClaimedBy, Current
  <2> QED BY <1>8, <2>1, NoNewClaim DEF vars, AttributionInv
<1> QED BY <1>1, <1>2, <1>3, <1>4, <1>5, <1>R, <1>6, <1>7, <1>8 DEF Next

(* No interleaving of queries, of any number, gives one pool address to two *)
(* names between Start and the clearing of the pool.                        *)
THEOREM AddressesAttributed == Spec => []AddressAttribution
<1>1. Init => AttributionInv BY DEF Init, AttributionInv, Attributing
<1>2. AttributionInv => AddressAttribution
  BY DEF AttributionInv, Attributed, AddressAttribution
<1> QED
  BY <1>1, <1>2, InitTyped, NextTyped, InitQuiet, NextQuiet, NextAttribution, PTL DEF Spec

-----------------------------------------------------------------------------
(* RuleBacking is inductive next to the type invariant: AddDNAT and Track   *)
(* move one unit from the kernel to a handler, and from there to the map.   *)
LEMMA Finite ==
    ASSUME NEW a
    PROVE  /\ IsFiniteSet(Tracked(a)) /\ Cardinality(Tracked(a)) \in Nat
           /\ IsFiniteSet(Tracking(a)) /\ Cardinality(Tracking(a)) \in Nat
  BY DnsAssumption, FS_Subset, FS_CardinalityType DEF Tracked, Tracking, Current

LEMMA FinitePrime ==
    ASSUME NEW a
    PROVE  /\ IsFiniteSet(Tracked(a)') /\ Cardinality(Tracked(a)') \in Nat
           /\ IsFiniteSet(Tracking(a)') /\ Cardinality(Tracking(a)') \in Nat
  BY DnsAssumption, FS_Subset, FS_CardinalityType DEF Tracked, Tracking, Current

(* A step after which no more is to be backed.                              *)
LEMMA NoNewTracking ==
    ASSUME TypeInv, RuleBacking, UNCHANGED <<phase, flushed, rules>>,
           \A a \in Addresses : Tracked(a)' \subseteq Tracked(a),
           \A a \in Addresses : Tracking(a)' \subseteq Tracking(a)
    PROVE  RuleBacking'
<1> SUFFICES ASSUME phase = "running", ~flushed, NEW a \in Addresses
             PROVE  Cardinality(Tracked(a)') + Cardinality(Tracking(a)') <= rules[a]
  BY DEF RuleBacking, Addresses
<1>1. Cardinality(Tracked(a)') <= Cardinality(Tracked(a)) BY Finite, FS_Subset
<1>2. Cardinality(Tracking(a)') <= Cardinality(Tracking(a)) BY Finite, FS_Subset
<1>3. Cardinality(Tracked(a)) + Cardinality(Tracking(a)) <= rules[a] BY DEF RuleBacking
<1>4. rules[a] \in Nat BY DnsAssumption DEF TypeInv, TypeOK
<1> QED BY <1>1, <1>2, <1>3, <1>4, Finite, FinitePrime

LEMMA AddDNATBacked ==
    ASSUME TypeInv, RuleBacking, NEW h \in Handlers, AddDNAT(h) PROVE RuleBacking'
<1>1. CASE Answer(h, rtype[h], AnalysisIP) /\ UNCHANGED rules
  BY <1>1, NoNewTracking DEF AddDNAT, Answer, Tracked, Tracking, Current, TypeInv, TypeOK
<1>2. CASE ~(Answer(h, rtype[h], AnalysisIP) /\ UNCHANGED rules)
  <2> SUFFICES ASSUME phase = "running", ~flushed, NEW a \in Addresses
               PROVE  Cardinality(Tracked(a)') + Cardinality(Tracking(a)') <= rules'[a]
    BY <1>2 DEF AddDNAT, RuleBacking, Addresses
  <2>1. /\ pc[h] = "iptables" /\ ip[h] \in Addresses
        /\ rules' = [rules EXCEPT ![ip[h]] = @ + 1]
        /\ pc' = [pc EXCEPT ![h] = "track"]
        /\ UNCHANGED <<ip, dnatMap, instance, receiver>>
    BY <1>2 DEF AddDNAT, Appendable
  <2>2. Tracked(a)' = Tracked(a) BY <2>1 DEF Tracked
  <2>3. Cardinality(Tracked(a)) + Cardinality(Tracking(a)) <= rules[a] BY DEF RuleBacking
  <2>4. rules[a] \in Nat BY DnsAssumption DEF TypeInv, TypeOK
  <2>5. CASE a = ip[h] /\ receiver[h] = instance
    <3>1. Tracking(a)' = Tracking(a) \cup {h} /\ h \notin Tracking(a)
      BY <2>1, <2>5 DEF Tracking, Current, TypeInv, TypeOK
    <3>2. Cardinality(Tracking(a)') = Cardinality(Tracking(a)) + 1
      BY <3>1, Finite, FS_AddElement
    <3>3. rules'[a] = rules[a] + 1 BY <2>1, <2>5 DEF TypeInv, TypeOK
    <3> QED BY <2>2, <2>3, <2>4, <3>2, <3>3, Finite
  <2>6. CASE a # ip[h]
    <3>1. Tracking(a)' = Tracking(a) BY <2>1, <2>6 DEF Tracking, Current, TypeInv, TypeOK
    <3>2. rules'[a] = rules[a] BY <2>1, <2>6 DEF TypeInv, TypeOK
    <3> QED BY <2>2, <2>3, <3>1, <3>2
  <2>7. CASE receiver[h] # instance
    <3>1. Tracking(a)' = Tracking(a) BY <2>1, <2>7 DEF Tracking, Current, TypeInv, TypeOK
    <3>2. rules'[a] \in Nat /\ rules'[a] >= rules[a] BY <2>1, <2>4 DEF TypeInv, TypeOK
    <3> QED BY <2>2, <2>3, <2>4, <3>1, <3>2, Finite
  <2> QED BY <2>5, <2>6, <2>7
<1> QED BY <1>1, <1>2

LEMMA TrackBacked ==
    ASSUME TypeInv, RuleBacking, NEW h \in Handlers, Track(h) PROVE RuleBacking'
<1>0. /\ pc[h] = "track" /\ pc' = [pc EXCEPT ![h] = "reply"]
      /\ dnatMap' = [dnatMap EXCEPT ![receiver[h]][domain[h]] = ip[h]]
      /\ domain[h] \in Domains /\ receiver[h] \in Instances
      /\ \A g \in Handlers \ {h} : ip'[g] = ip[g] /\ pc'[g] = pc[g]
      /\ UNCHANGED <<life, receiver, flushed, rules>>
  BY DEF Track, Answer, TypeInv, TypeOK, HandlersOK
<1>a. CASE receiver[h] # instance
  <2>1. \A a \in Addresses : Tracked(a)' = Tracked(a)
    BY <1>0, <1>a DEF Tracked, TypeInv, TypeOK
  <2>2. \A a \in Addresses : Tracking(a)' \subseteq Tracking(a)
    BY <1>0, <1>a DEF Tracking, Current
  <2> QED BY <1>0, <2>1, <2>2, NoNewTracking
<1> SUFFICES ASSUME receiver[h] = instance, phase = "running", ~flushed, NEW a \in Addresses
             PROVE  Cardinality(Tracked(a)') + Cardinality(Tracking(a)') <= rules[a]
  BY <1>a DEF Track, RuleBacking, Addresses
<1>1. /\ dnatMap'[instance'] = [dnatMap[instance] EXCEPT ![domain[h]] = ip[h]]
      /\ dnatMap[instance] \in [Domains -> Addresses \cup {NilIP}]
      /\ h \in Current /\ Current' = Current /\ Current \subseteq Handlers
  BY <1>0 DEF TypeInv, TypeOK, Current
<1>2. Cardinality(Tracked(a)) + Cardinality(Tracking(a)) <= rules[a] BY DEF RuleBacking
<1>3. rules[a] \in Nat BY DnsAssumption DEF TypeInv, TypeOK
<1>4. CASE a = ip[h]
  <2>1. Tracking(a)' = Tracking(a) \ {h} /\ h \in Tracking(a)
    BY <1>0, <1>1, <1>4 DEF Tracking, TypeInv, TypeOK
  <2>2. Cardinality(Tracking(a)') = Cardinality(Tracking(a)) - 1
    BY <2>1, Finite, FS_RemoveElement
  <2>3. Tracked(a)' \subseteq Tracked(a) \cup {domain[h]}
    BY <1>1 DEF Tracked
  <2>4. /\ IsFiniteSet(Tracked(a) \cup {domain[h]})
        /\ Cardinality(Tracked(a) \cup {domain[h]}) <= Cardinality(Tracked(a)) + 1
        /\ Cardinality(Tracked(a) \cup {domain[h]}) \in Nat
    <3> DEFINE T == Tracked(a)
               U == T \cup {domain[h]}
    <3>1. IsFiniteSet(T) /\ Cardinality(T) \in Nat BY Finite
    <3>2. IsFiniteSet(U) BY <3>1, FS_AddElement
    <3>3. Cardinality(U) = Cardinality(T) \/ Cardinality(U) = Cardinality(T) + 1
      BY <3>1, FS_AddElement
    <3> HIDE DEF U, T
    <3>4. Cardinality(U) <= Cardinality(T) + 1 /\ Cardinality(U) \in Nat
      BY <3>1, <3>3
    <3> QED BY <3>2, <3>4 DEF U, T
  <2>5. Cardinality(Tracked(a)') <= Cardinality(Tracked(a) \cup {domain[h]})
    BY <2>3, <2>4, FS_Subset
  <2> QED BY <1>2, <1>3, <2>2, <2>4, <2>5, Finite, FinitePrime
<1>5. CASE a # ip[h]
  <2>1. Tracking(a)' \subseteq Tracking(a) BY <1>0, <1>1, <1>5 DEF Tracking, TypeInv, TypeOK
  <2>2. Tracked(a)' \subseteq Tracked(a) BY <1>1, <1>5 DEF Tracked
  <2>3. Cardinality(Tracking(a)') <= Cardinality(Tracking(a)) BY <2>1, Finite, FS_Subset
  <2>4. Cardinality(Tracked(a)') <= Cardinality(Tracked(a)) BY <2>2, Finite, FS_Subset
  <2> QED BY <1>2, <1>3, <2>3, <2>4, Finite, FinitePrime
<1> QED BY <1>4, <1>5

LEMMA HandlerStepBacked ==
    ASSUME TypeInv, RuleBacking, NEW h \in Handlers, HandlerStep(h) PROVE RuleBacking'
<1>1. CASE AddDNAT(h) BY <1>1, AddDNATBacked
<1>2. CASE Track(h) BY <1>2, TrackBacked
<1>3. CASE ~AddDNAT(h) /\ ~Track(h)
  <2>1. UNCHANGED <<life, dnatMap, rules, flushed>>
    BY <1>3 DEF HandlerStep, VerifyUpstreamDNS, Respond, Allocate, CheckMapped, Reply
  <2>2. /\ pc'[h] # "track"
        /\ \A g \in Handlers \ {h} :
             ip'[g] = ip[g] /\ pc'[g] = pc[g] /\ receiver'[g] = receiver[g]
    <3>1. CASE Respond(h)
      BY <3>1 DEF Respond, Spoof, ProvisionStatic, ProvisionDynamic, ProvisionNone, Proxy,
                  Ignore, ServFail, Drop, Answer, Return, TypeInv, TypeOK
    <3>2. CASE VerifyUpstreamDNS(h) \/ Allocate(h) \/ CheckMapped(h) \/ Reply(h)
      BY <3>2 DEF VerifyUpstreamDNS, Allocate, CheckMapped, Reply, Answer, Return, TypeInv, TypeOK
    <3> QED BY <1>3, <3>1, <3>2 DEF HandlerStep
  <2>3. \A a \in Addresses : Tracking(a)' \subseteq Tracking(a)
    BY <2>1, <2>2 DEF Tracking, Current
  <2>4. \A a \in Addresses : Tracked(a)' \subseteq Tracked(a) BY <2>1 DEF Tracked
  <2> QED BY <2>1, <2>3, <2>4, NoNewTracking
<1> QED BY <1>1, <1>2, <1>3

LEMMA NextBacked == ASSUME TypeInv, Quiet, RuleBacking, [Next]_vars PROVE RuleBacking'
<1>1. ASSUME NEW h \in Handlers, NEW d \in Domains, Receive(h, d) PROVE RuleBacking'
  <2>1. \A a \in Addresses : Tracking(a)' \subseteq Tracking(a) /\ Tracked(a)' \subseteq Tracked(a)
    BY <1>1 DEF Receive, Tracking, Tracked, Current, TypeInv, TypeOK
  <2> QED BY <1>1, <2>1, NoNewTracking DEF Receive
<1>2. ASSUME NEW h \in Handlers, HandlerStep(h) PROVE RuleBacking'
  BY <1>2, HandlerStepBacked
<1>3. CASE Start
  <2>1. ASSUME NEW a \in Addresses PROVE Tracked(a)' = {} /\ Tracking(a)' = {}
    BY <1>3, <2>1, DnsAssumption DEF Start, FreshMemory, Tracked, Tracking, Current, Busy, Addresses
  <2>2. Cardinality({}) = 0 BY FS_EmptySet
  <2>3. \A a \in Addresses : rules'[a] \in Nat
    BY <1>3, DnsAssumption DEF Start, TypeInv, TypeOK
  <2>4. ASSUME NEW a \in Addresses
        PROVE  Cardinality(Tracked(a)') + Cardinality(Tracking(a)') <= rules'[a]
    <3>1. Cardinality(Tracked(a)') = 0 BY <2>1, <2>2
    <3>2. Cardinality(Tracking(a)') = 0 BY <2>1, <2>2
    <3>3. rules'[a] \in Nat BY <2>3
    <3> QED BY <3>1, <3>2, <3>3
  <2> QED BY <2>4 DEF RuleBacking, Addresses
<1>4. CASE StopRemove BY <1>4 DEF StopRemove, RuleBacking
<1>5. CASE StopStep 
  BY <1>5 DEF StopStep, StopClear, StopUdp, StopTcp, StopFails, StopDone, RuleBacking
<1>R. CASE RunnerShutdown BY <1>R DEF RunnerShutdown, RuleBacking
<1>6. CASE Flush BY <1>6 DEF Flush, RuleBacking
<1>7. CASE Crash BY <1>7 DEF Crash, RuleBacking
<1>8. CASE UNCHANGED vars
  BY <1>8, NoNewTracking DEF vars, Tracking, Tracked, Current
<1> QED BY <1>1, <1>2, <1>3, <1>4, <1>5, <1>R, <1>6, <1>7, <1>8 DEF Next

(* As long as nobody flushes the nat table, every mapping the server tracks *)
(* has a rule of its own, whatever iptables refuses and whoever races.      *)
THEOREM RulesBacked == Spec => []RuleBacking
<1>1. Init => RuleBacking BY DEF Init, RuleBacking
<1> QED
  BY <1>1, InitTyped, NextTyped, InitQuiet, NextQuiet, NextBacked, PTL DEF Spec

-----------------------------------------------------------------------------
(* The life of the service around the server, for any number of clients,   *)
(* commands and starts: theorems about DnsService.                          *)

\* Where a runner is: on its way to its listeners, with them, past the Shutdown
\* of one of them.
Early == {"spawned", "loaded", "begun"}
HasListeners == {"udp", "udp wait", "tcp", "tcp wait", "join", "ended"}
PastUdp == {"udp wait", "tcp", "tcp wait", "join", "ended"}
PastTcp == {"tcp wait", "join", "ended"}
Past(r, n) == rpc[r] \in IF n = "udp" THEN PastUdp ELSE PastTcp
Active(r) == rpc[r] \notin {"none", "ended"}

InStop(c) == cpc[c] \in {"look", "udp", "udp wait", "tcp", "tcp wait"}

\* One stop at a time is under the mutex, and until it returns the service is
\* "running" and has a Server.
MutexInv ==
    /\ \A c \in Clients : InStop(c) => mu
    /\ \A c, d \in Clients : InStop(c) /\ InStop(d) => c = d
    /\ mu => state = "running" /\ \E c \in Clients : InStop(c)
    /\ state = "running" => server # None

\* s.server is the last Server that was made, and a runner works for its own or
\* a later one; without a valid configuration there is none.
StartsInv ==
    /\ ~valid => server = None
    /\ \A r \in Runners : rpc[r] # "none" <=> r <= server
    /\ \A r \in Runners : target[r] = None <=> rpc[r] \in {"none", "spawned"}
    /\ \A r \in Runners : target[r] # None => r <= target[r] /\ target[r] <= server

\* A listener comes when its runner has both fields.
SpawnInv == \A r \in Runners, n \in Nets : lpc[r][n] # "none" <=> rpc[r] \in HasListeners

StateInv == ServiceTypeOK /\ MutexInv /\ StartsInv /\ SpawnInv

LEMMA RunnersAre == Runners \subseteq Nat /\ None \notin Runners /\ None \in Nat
  BY DEF Runners, None

\* One value of a table is replaced.
LEMMA FieldAt ==
    ASSUME ServiceTypeOK, NEW s, NEW n \in Nets, NEW x \in Runners \cup {None},
           field' = [field EXCEPT ![s][n] = x]
    PROVE  /\ field' \in [Runners -> [Nets -> Runners \cup {None}]]
           /\ \A u \in Runners, m \in Nets :
                field'[u][m] = IF u = s /\ m = n THEN x ELSE field[u][m]
  BY DEF ServiceTypeOK

LEMMA StartedAt ==
    ASSUME ServiceTypeOK, NEW s, NEW n \in Nets, NEW x \in BOOLEAN,
           started' = [started EXCEPT ![s][n] = x]
    PROVE  /\ started' \in [Runners -> [Nets -> BOOLEAN]]
           /\ \A u \in Runners, m \in Nets :
                started'[u][m] = IF u = s /\ m = n THEN x ELSE started[u][m]
  BY DEF ServiceTypeOK

\* Commands that come or are refused, and a flush.
Idle ==
    /\ UNCHANGED <<valid, state, server, mu, runners, listeners, held, history>>
    /\ dead' => dead \/ server = None
    /\ \A d \in Clients : \A l \in {"look", "udp", "udp wait", "tcp", "tcp wait"} :
          cpc'[d] = l <=> cpc[d] = l

LEMMA IdleSteps ==
    ASSUME ServiceTypeOK,
           \/ \E c \in Clients : \/ \E a \in Commands : Command(c, a)
                                 \/ StartRefused(c) \/ StopRefused(c)
                                 \/ RestartCheck(c) \/ Update(c)
           \/ UNCHANGED serviceVars
    PROVE  Idle /\ ServiceTypeOK'
<1>1. ASSUME NEW c \in Clients, NEW a \in Commands, Command(c, a)
      PROVE  Idle /\ ServiceTypeOK'
  <2>1. commands' \in Nat
    BY <1>1 DEF Command, ServiceTypeOK
  <2>2. goal' \in [Clients -> Commands]
    BY <1>1 DEF Command, ServiceTypeOK
  <2>3. PICK l \in CPCs : l \in {"start", "stop", "update"} /\ cpc' = [cpc EXCEPT ![c] = l]
    BY <1>1 DEF Command, Goto, Commands, CPCs
  <2>4. cpc[c] = "idle" /\ cpc \in [Clients -> CPCs]
    BY <1>1 DEF Command, ServiceTypeOK
  <2>5. /\ cpc' \in [Clients -> CPCs]
        /\ \A d \in Clients : \A k \in {"look", "udp", "udp wait", "tcp", "tcp wait"} :
              cpc'[d] = k <=> cpc[d] = k
    BY <2>3, <2>4
  <2>6. UNCHANGED <<service, runners, listeners, held, history>>
    BY <1>1 DEF Command
  <2> QED
    BY <2>1, <2>2, <2>5, <2>6 DEF Idle, ServiceTypeOK, service, runners, listeners, history
<1> USE DEF Idle, ServiceTypeOK, Goto, CPCs, service, runners, listeners, history
<1>2. ASSUME NEW c \in Clients, StartRefused(c) \/ RestartCheck(c)
      PROVE  Idle /\ ServiceTypeOK'
  <2>1. /\ UNCHANGED <<service, commands, goal, runners, listeners, held, history>>
        /\ \E l \in {"idle", "start"} : cpc' = [cpc EXCEPT ![c] = l]
        /\ cpc[c] \in {"start", "check"}
    BY <1>2 DEF StartRefused, RestartCheck
  <2>2. /\ cpc' \in [Clients -> CPCs]
        /\ \A d \in Clients : \A k \in {"look", "udp", "udp wait", "tcp", "tcp wait"} :
              cpc'[d] = k <=> cpc[d] = k
    BY <2>1
  <2> QED
    BY <2>1, <2>2
<1>3. ASSUME NEW c \in Clients, StopRefused(c)
      PROVE  Idle /\ ServiceTypeOK'
  BY <1>3 DEF StopRefused, StopReturns
<1>4. ASSUME NEW c \in Clients, Update(c)
      PROVE  Idle /\ ServiceTypeOK'
  BY <1>4 DEF Update
<1>5. CASE UNCHANGED serviceVars
  BY <1>5 DEF serviceVars, clients
<1> HIDE DEF Idle, ServiceTypeOK, Goto, CPCs, service, runners, listeners, history
<1> QED
  BY <1>1, <1>2, <1>3, <1>4, <1>5

\* What a step of a stop does: it goes on, with its mutex, or it returns, or it
\* kills the process.
StopGoes(c) ==
    /\ UNCHANGED <<state, mu, dead>>
    /\ \E l \in {"udp wait", "tcp", "tcp wait"} : cpc' = [cpc EXCEPT ![c] = l]
StopEnds(c) ==
    /\ mu' = FALSE /\ dead' = dead
    /\ \E l \in {"idle", "start", "check"} : cpc' = [cpc EXCEPT ![c] = l]

LEMMA StopSteps ==
    ASSUME StateInv, NEW c \in Clients,
           StopLook(c) \/ (\E n \in Nets : StopListener(c, n)) \/ StopWaitUdp(c) \/ StopWaitTcp(c)
    PROVE  /\ InStop(c) /\ mu /\ state = "running" /\ server \in Runners
           /\ UNCHANGED <<valid, server, commands, goal, runners, field, lpc, object, first,
                          history>>
           /\ \/ StopGoes(c)
              \/ UNCHANGED <<state, mu, dead>> /\ cpc' = [cpc EXCEPT ![c] = "udp"] /\ StopLook(c)
              \/ StopEnds(c) /\ state' \in {"stopped", "error"}
              \/ UNCHANGED <<state, mu, cpc>> /\ dead' = TRUE
           /\ ServiceTypeOK'
<1> USE DEF StateInv, ServiceTypeOK, Goto, CPCs, service, runners, listeners, history
<1>1. InStop(c) /\ mu /\ state = "running" /\ server \in Runners
  BY DEF StopLook, StopListener, StopWaitUdp, StopWaitTcp, MutexInv, InStop, Nets
<1>2. ASSUME NEW s \in {"stopped", "error"}, NEW ok \in BOOLEAN, StopReturns(c, s, ok)
      PROVE  /\ StopEnds(c) /\ state' \in {"stopped", "error"} /\ UNCHANGED <<valid, server>>
             /\ state' \in {"stopped", "running", "error"} /\ mu' \in BOOLEAN /\ dead' \in BOOLEAN
             /\ cpc' \in [Clients -> CPCs]
  BY <1>2 DEF StopReturns, StopEnds
<1>3. CASE StopLook(c)
  <2>1. CASE Goto(c, "udp") /\ UNCHANGED service
    BY <1>1, <1>3, <2>1 DEF StopLook
  <2>2. CASE StopReturns(c, "stopped", TRUE)
    BY <1>1, <1>2, <1>3, <2>2 DEF StopLook
  <2> QED
    BY <1>3, <2>1, <2>2 DEF StopLook
<1>4. ASSUME NEW n \in Nets, StopListener(c, n)
      PROVE  /\ UNCHANGED <<valid, server, commands, goal, runners, field, lpc, object, first,
                            history>>
             /\ \/ StopGoes(c)
                \/ StopEnds(c) /\ state' \in {"stopped", "error"}
                \/ UNCHANGED <<state, mu, cpc>> /\ dead' = TRUE
             /\ ServiceTypeOK'
  <2> DEFINE o == field[server][n]
  <2>1. o \in Runners \cup {None}
    <3>1. field[server] \in [Nets -> Runners \cup {None}]
      BY <1>1
    <3> HIDE DEF ServiceTypeOK
    <3> QED
      BY <3>1
  <2> HIDE DEF o
  <2>2. CASE dead' = TRUE /\ UNCHANGED <<valid, state, server, mu, cpc, started, held>>
    BY <1>4, <2>2 DEF StopListener
  <2>3. CASE o # None /\ BeginShutdown(c, o, n) /\ UNCHANGED service
             /\ Goto(c, IF n = "udp" THEN "udp wait" ELSE "tcp wait")
    <3>1. started' \in [Runners -> [Nets -> BOOLEAN]]
      <4>1. started' = [started EXCEPT ![o][n] = FALSE] /\ FALSE \in BOOLEAN
        BY <2>3 DEF BeginShutdown
      <4> HIDE DEF ServiceTypeOK
      <4> QED
        BY <4>1, StartedAt DEF StateInv
    <3>2. held' \in [Clients \cup Runners -> Runners \cup {None}]
      BY <2>1, <2>3 DEF BeginShutdown
    <3> QED
      BY <1>4, <2>3, <3>1, <3>2 DEF StopListener, StopGoes
  <2>4. CASE StopReturns(c, "error", FALSE) /\ UNCHANGED <<started, held>>
    BY <1>2, <1>4, <2>4 DEF StopListener
  <2> QED
    BY <1>4, <2>2, <2>3, <2>4 DEF StopListener, o
<1>5. CASE StopWaitUdp(c)
  BY <1>1, <1>5 DEF StopWaitUdp, EndShutdown, StopGoes
<1>6. CASE StopWaitTcp(c)
  BY <1>1, <1>2, <1>6 DEF StopWaitTcp, EndShutdown
<1> QED
  BY <1>1, <1>3, <1>4, <1>5, <1>6
\* start() makes the next Server.
LEMMA StartSteps ==
    ASSUME StateInv, NEW c \in Clients, StartServer(c)
    PROVE  /\ state # "running" /\ state' = "running" /\ ~mu /\ valid
           /\ cpc' = [cpc EXCEPT ![c] = "idle"]
           /\ raced' = (raced \/ \E r \in Runners : Reporting(r))
           /\ UNCHANGED <<valid, mu, dead, goal, target, mux, listeners, held, late>>
           /\ \E r \in Runners :
                /\ server' = r /\ rpc' = [rpc EXCEPT ![r] = "spawned"]
                /\ rpc[r] = "none" /\ server < r /\ target[r] = None
                /\ \A q \in Runners : q <= r <=> q <= server \/ q = r
           /\ ServiceTypeOK'
<1>1. PICK r \in Runners :
         /\ rpc[r] = "none" /\ \A q \in Runners : q < r => rpc[q] # "none"
         /\ server' = r /\ rpc' = [rpc EXCEPT ![r] = "spawned"]
  BY DEF StartServer
<1>2. server \in Nat /\ \A q \in Runners : q \in Nat /\ (rpc[q] # "none" <=> q <= server)
  BY RunnersAre DEF StateInv, ServiceTypeOK, StartsInv
<1>3. \A q \in Runners : q < r <=> q <= server
  <2>1. \A q \in Runners : q < r => q <= server
    BY <1>1, <1>2
  <2>2. ~(r <= server)
    BY <1>1, <1>2
  <2> QED
    BY <1>2, <2>1, <2>2
<1>4. server < r /\ \A q \in Runners : q <= r <=> q <= server \/ q = r
  BY <1>1, <1>2, <1>3
<1>5. target[r] = None
  BY <1>1 DEF StateInv, StartsInv
<1>6. ServiceTypeOK'
  BY <1>1 DEF StateInv, ServiceTypeOK, StartServer, Goto, CPCs, RPCs, listeners
<1> QED
  BY <1>1, <1>4, <1>5, <1>6 DEF StartServer, Goto

\* Which Server a runner works for.
LEMMA Targets ==
    ASSUME StateInv, NEW r \in Runners, rpc[r] # "none"
    PROVE  /\ server \in Runners
           /\ rpc[r] # "spawned" => target[r] \in Runners
<1>1. r \in Nat /\ r # 0 /\ r <= server /\ server \in Runners \cup {0}
  BY RunnersAre DEF StateInv, ServiceTypeOK, StartsInv, None
<1>2. rpc[r] # "spawned" => target[r] \in Runners
  BY DEF StateInv, ServiceTypeOK, StartsInv, None
<1> QED
  BY <1>1, <1>2

LEMMA RunnerStepTyped ==
    ASSUME StateInv, NEW r \in Runners, RunnerStep(r)
    PROVE  ServiceTypeOK'
<1> USE DEF StateInv, ServiceTypeOK, Become, RPCs, service, clients, listeners, history
<1>1. CASE Load(r)
  BY <1>1 DEF Load
<1>2. CASE Begin(r)
  <2>1. target[r] \in Runners
    BY <1>2, Targets DEF Begin
  <2>2. field' \in [Runners -> [Nets -> Runners \cup {None}]]
    <3>1. field' = [field EXCEPT ![target[r]]["udp"] = r] /\ "udp" \in Nets
      BY <1>2 DEF Begin, Nets
    <3> HIDE DEF ServiceTypeOK
    <3> QED
      BY <3>1, FieldAt
  <2> QED
    BY <1>2, <2>1, <2>2 DEF Begin
<1>3. CASE Spawn(r)
  <2>1. field' \in [Runners -> [Nets -> Runners \cup {None}]]
    <3>1. field' = [field EXCEPT ![target[r]]["tcp"] = r] /\ "tcp" \in Nets
      BY <1>3 DEF Spawn, Nets
    <3> HIDE DEF ServiceTypeOK
    <3> QED
      BY <3>1, FieldAt
  <2>2. lpc' \in [Runners -> [Nets -> LPCs]]
    BY <1>3 DEF Spawn, LPCs
  <2> QED
    BY <1>3, <2>1, <2>2 DEF Spawn
<1>4. ASSUME NEW n \in Nets, Shutdown(r, n)
      PROVE  ServiceTypeOK'
  <2> DEFINE o == field[target[r]][n]
  <2>1. o \in Runners \cup {None}
    <3>1. target[r] \in Runners
      BY <1>4, Targets DEF Shutdown, Nets
    <3>2. field[target[r]] \in [Nets -> Runners \cup {None}]
      BY <3>1
    <3> HIDE DEF ServiceTypeOK
    <3> QED
      BY <3>2
  <2> HIDE DEF o
  <2>2. /\ started' \in [Runners -> [Nets -> BOOLEAN]]
        /\ held' \in [Clients \cup Runners -> Runners \cup {None}]
    <3>1. started \in [Runners -> [Nets -> BOOLEAN]] /\ FALSE \in BOOLEAN
      OBVIOUS
    <3>2. \/ started' = [started EXCEPT ![o][n] = FALSE] /\ held' = [held EXCEPT ![r] = o]
          \/ UNCHANGED <<started, held>>
      BY <1>4 DEF Shutdown, BeginShutdown, o
    <3>3. started' \in [Runners -> [Nets -> BOOLEAN]]
      <4> HIDE DEF ServiceTypeOK
      <4> QED
        BY <3>1, <3>2, StartedAt
    <3>4. held' \in [Clients \cup Runners -> Runners \cup {None}]
      BY <2>1, <3>2
    <3> QED
      BY <3>3, <3>4
  <2>3. rpc' \in [Runners -> RPCs] /\ late' \in BOOLEAN
    BY <1>4 DEF Shutdown
  <2> QED
    BY <1>4, <2>2, <2>3 DEF Shutdown
<1>5. CASE WaitUdp(r) \/ WaitTcp(r)
  BY <1>5 DEF WaitUdp, WaitTcp, EndShutdown
<1>6. CASE Join(r)
  BY <1>6 DEF Join
<1> QED
  BY <1>1, <1>2, <1>3, <1>4, <1>5, <1>6 DEF RunnerStep

\* A listener listens, or ends.
Opens(r, n, o) ==
    /\ \A q \in Runners, m \in Nets :
         /\ lpc'[q][m] = IF q = r /\ m = n THEN "serving" ELSE lpc[q][m]
         /\ object'[q][m] = IF q = r /\ m = n THEN o ELSE object[q][m]
         /\ started'[q][m] = IF q = o /\ m = n THEN TRUE ELSE started[q][m]
    /\ first' = first
Closes(r, n, e) ==
    /\ \A q \in Runners, m \in Nets :
         /\ lpc'[q][m] = IF q = r /\ m = n THEN "ended" ELSE lpc[q][m]
         /\ object'[q][m] = IF q = r /\ m = n THEN None ELSE object[q][m]
    /\ \A q \in Runners : first'[q] = IF q = r /\ first[r] = "none" THEN e ELSE first[q]
    /\ started' = started

LEMMA EndsCloses ==
    ASSUME ServiceTypeOK, NEW r \in Runners, NEW n \in Nets, NEW e \in {"nil", "error"},
           Ends(r, n, e),
           UNCHANGED <<service, clients, runners, field, started, held, history>>
    PROVE  Closes(r, n, e) /\ ServiceTypeOK'
<1> USE DEF ServiceTypeOK
<1>1. lpc' = [lpc EXCEPT ![r][n] = "ended"] /\ object' = [object EXCEPT ![r][n] = None]
  BY DEF Ends
<1>2. first' = IF first[r] = "none" THEN [first EXCEPT ![r] = e] ELSE first
  BY DEF Ends
<1>3. lpc' \in [Runners -> [Nets -> LPCs]]
  BY <1>1 DEF LPCs
<1>4. object' \in [Runners -> [Nets -> Runners \cup {None}]]
  BY <1>1
<1>5. first' \in [Runners -> {"none", "nil", "error"}]
  BY <1>2
<1>6. \A q \in Runners : first'[q] = IF q = r /\ first[r] = "none" THEN e ELSE first[q]
  BY <1>2
<1>7. \A q \in Runners, m \in Nets :
         /\ lpc'[q][m] = IF q = r /\ m = n THEN "ended" ELSE lpc[q][m]
         /\ object'[q][m] = IF q = r /\ m = n THEN None ELSE object[q][m]
  BY <1>1
<1>8. Closes(r, n, e)
  BY <1>6, <1>7 DEF Closes
<1> QED
  BY <1>3, <1>4, <1>5, <1>8 DEF service, clients, runners, history

LEMMA ListenerSteps ==
    ASSUME StateInv, NEW r \in Runners, NEW n \in Nets,
           Listen(r, n) \/ ServeEnds(r, n) \/ ServeFails(r, n)
    PROVE  /\ UNCHANGED <<service, clients, runners, field, held, history>>
           /\ rpc[r] \in HasListeners /\ target[r] \in Runners
           /\ \/ /\ lpc[r][n] = "spawned" /\ ~started[field[target[r]][n]][n] /\ ~PortTaken(n)
                 /\ Opens(r, n, field[target[r]][n])
              \/ /\ lpc[r][n] = "spawned" \/ (lpc[r][n] = "serving" /\ started[object[r][n]][n])
                 /\ Closes(r, n, "error")
              \/ /\ lpc[r][n] = "serving" /\ ~started[object[r][n]][n]
                 /\ Closes(r, n, "nil")
           /\ ServiceTypeOK'
<1> DEFINE o == field[target[r]][n]
<1>1. UNCHANGED <<service, clients, runners, field, held, history>>
  BY DEF Listen, ServeEnds, ServeFails
<1>2. rpc[r] \in HasListeners /\ target[r] \in Runners
  <2>1. rpc[r] \in HasListeners
    BY DEF StateInv, SpawnInv, Listen, ServeEnds, ServeFails
  <2> QED
    BY <2>1, Targets DEF HasListeners
<1>3. o \in Runners \cup {None}
  <2>1. field[target[r]] \in [Nets -> Runners \cup {None}]
    BY <1>2 DEF StateInv, ServiceTypeOK
  <2> QED
    BY <2>1
<1> HIDE DEF o
<1>4. CASE /\ lpc[r][n] = "spawned" /\ ~started[o][n] /\ ~PortTaken(n)
           /\ started' = [started EXCEPT ![o][n] = TRUE]
           /\ object' = [object EXCEPT ![r][n] = o]
           /\ lpc' = [lpc EXCEPT ![r][n] = "serving"]
           /\ UNCHANGED first
  <2>1. /\ started' \in [Runners -> [Nets -> BOOLEAN]]
        /\ \A u \in Runners, m \in Nets :
                started'[u][m] = IF u = o /\ m = n THEN TRUE ELSE started[u][m]
    BY <1>4, StartedAt, TRUE \in BOOLEAN DEF StateInv
  <2>2. /\ lpc' \in [Runners -> [Nets -> LPCs]]
        /\ \A q \in Runners, m \in Nets :
                lpc'[q][m] = IF q = r /\ m = n THEN "serving" ELSE lpc[q][m]
    BY <1>4 DEF StateInv, ServiceTypeOK, LPCs
  <2>3. /\ object' \in [Runners -> [Nets -> Runners \cup {None}]]
        /\ \A q \in Runners, m \in Nets :
                object'[q][m] = IF q = r /\ m = n THEN o ELSE object[q][m]
    BY <1>3, <1>4 DEF StateInv, ServiceTypeOK
  <2>4. Opens(r, n, o)
    BY <1>4, <2>1, <2>2, <2>3 DEF Opens
  <2>5. ServiceTypeOK'
    BY <1>1, <1>4, <2>1, <2>2, <2>3 DEF StateInv, ServiceTypeOK, service, clients, runners, history
  <2> QED
    BY <1>1, <1>2, <1>4, <2>4, <2>5 DEF o
<1>5. CASE /\ lpc[r][n] = "spawned" \/ (lpc[r][n] = "serving" /\ started[object[r][n]][n])
           /\ Ends(r, n, "error") /\ UNCHANGED started
  BY <1>1, <1>2, <1>5, EndsCloses DEF StateInv
<1>6. CASE ServeEnds(r, n)
  BY <1>1, <1>2, <1>6, EndsCloses DEF ServeEnds, StateInv
<1>7. CASE Listen(r, n)
  <2>1. \/ /\ lpc[r][n] = "spawned" /\ ~started[o][n] /\ ~PortTaken(n)
           /\ started' = [started EXCEPT ![o][n] = TRUE]
           /\ object' = [object EXCEPT ![r][n] = o]
           /\ lpc' = [lpc EXCEPT ![r][n] = "serving"]
           /\ UNCHANGED first
        \/ lpc[r][n] = "spawned" /\ Ends(r, n, "error") /\ UNCHANGED started
    BY <1>7 DEF Listen, o
  <2> QED
    BY <2>1, <1>4, <1>5
<1>8. CASE ServeFails(r, n)
  BY <1>5, <1>8 DEF ServeFails
<1> QED
  BY <1>6, <1>7, <1>8

\* The steps that a proof has to look at.
LEMMA Cases ==
    ASSUME ServiceTypeOK, [ServiceNext]_serviceVars
    PROVE  \/ Idle /\ ServiceTypeOK'
           \/ \E c \in Clients : StartInvalid(c) \/ StartServer(c) \/ Stop(c)
           \/ \E c \in Clients :
                 \/ StopLook(c) \/ (\E n \in Nets : StopListener(c, n))
                 \/ StopWaitUdp(c) \/ StopWaitTcp(c)
           \/ \E r \in Runners : RunnerStep(r)
           \/ \E r \in Runners, n \in Nets : Listen(r, n) \/ ServeEnds(r, n) \/ ServeFails(r, n)
<1>1. CASE UNCHANGED serviceVars
  BY <1>1, IdleSteps
<1>2. ASSUME NEW c \in Clients, NEW a \in Commands, Command(c, a)
      PROVE  Idle /\ ServiceTypeOK'
  BY <1>2, IdleSteps
<1>3. ASSUME NEW c \in Clients, StartRefused(c) \/ StopRefused(c) \/ RestartCheck(c) \/ Update(c)
      PROVE  Idle /\ ServiceTypeOK'
  BY <1>3, IdleSteps
<1> QED
  BY <1>1, <1>2, <1>3 DEF ServiceNext, ClientStep

\* New fails; a stop begins.
LEMMA InvalidSteps ==
    ASSUME StateInv, NEW c \in Clients, StartInvalid(c)
    PROVE  /\ ~valid /\ ~mu /\ server = None /\ state' = "error"
           /\ cpc' = [cpc EXCEPT ![c] = "idle"]
           /\ UNCHANGED <<valid, server, mu, dead, goal, runners, listeners, held, history>>
           /\ ServiceTypeOK'
<1>1. server = None
  BY DEF StateInv, StartsInv, StartInvalid
<1> QED
  BY <1>1 DEF StateInv, StartInvalid, ServiceTypeOK, Goto, CPCs, runners, listeners, history

LEMMA StopBegins ==
    ASSUME StateInv, NEW c \in Clients, Stop(c)
    PROVE  /\ ~mu /\ mu' /\ state = "running" /\ server \in Runners
           /\ UNCHANGED <<valid, state, server, dead, commands, goal, runners, listeners, held,
                          late>>
           /\ \/ cpc' = [cpc EXCEPT ![c] = "udp"] /\ field[server]["udp"] # None
              \/ cpc' = [cpc EXCEPT ![c] = "look"] /\ field[server]["udp"] = None
           /\ raced' = (raced \/ \E r \in Runners : ~Settled(r))
           /\ ServiceTypeOK'
<1>1. server \in Runners
  BY DEF StateInv, MutexInv, ServiceTypeOK, Stop
<1>2. \/ cpc' = [cpc EXCEPT ![c] = "udp"] /\ field[server]["udp"] # None
      \/ cpc' = [cpc EXCEPT ![c] = "look"] /\ field[server]["udp"] = None
  BY DEF Stop, Goto
<1>3. raced' \in BOOLEAN
  BY DEF Stop
<1>4. cpc' \in [Clients -> CPCs]
  BY <1>2 DEF StateInv, ServiceTypeOK, CPCs
<1> QED
  BY <1>1, <1>2, <1>3, <1>4 DEF StateInv, Stop, ServiceTypeOK, runners, listeners

LEMMA NextMutex == ASSUME StateInv, [ServiceNext]_serviceVars PROVE MutexInv'
<1> USE DEF InStop
<1>a. MutexInv /\ cpc \in [Clients -> CPCs]
  BY DEF StateInv, ServiceTypeOK
<1>1. CASE Idle
  BY <1>a, <1>1 DEF Idle, MutexInv
<1>2. ASSUME NEW c \in Clients, StartInvalid(c)
      PROVE  MutexInv'
  BY <1>a, <1>2, InvalidSteps DEF MutexInv
<1>3. ASSUME NEW c \in Clients, StartServer(c)
      PROVE  MutexInv'
  BY <1>a, <1>3, StartSteps, RunnersAre DEF MutexInv
<1>4. ASSUME NEW c \in Clients, Stop(c)
      PROVE  MutexInv'
  BY <1>a, <1>4, StopBegins DEF MutexInv
<1>5. ASSUME NEW c \in Clients,
             StopLook(c) \/ (\E n \in Nets : StopListener(c, n)) \/ StopWaitUdp(c) \/ StopWaitTcp(c)
      PROVE  MutexInv'
  <2>1. /\ InStop(c) /\ mu /\ state = "running" /\ UNCHANGED server
        /\ \/ StopGoes(c)
           \/ UNCHANGED <<state, mu, dead>> /\ cpc' = [cpc EXCEPT ![c] = "udp"]
           \/ StopEnds(c) /\ state' \in {"stopped", "error"}
           \/ UNCHANGED <<state, mu, cpc>>
    BY <1>5, StopSteps
  <2> QED
    BY <1>a, <2>1 DEF MutexInv, StopGoes, StopEnds
<1>6. ASSUME NEW r \in Runners, RunnerStep(r)
      PROVE  MutexInv'
  <2>1. UNCHANGED <<cpc, mu, server>> /\ (UNCHANGED state \/ (state' = "error" /\ ~mu))
    BY <1>6 DEF RunnerStep, Load, Begin, Spawn, Shutdown, WaitUdp, WaitTcp, Join, service, clients
  <2> QED
    BY <1>a, <2>1 DEF MutexInv
<1>7. ASSUME NEW r \in Runners, NEW n \in Nets,
             Listen(r, n) \/ ServeEnds(r, n) \/ ServeFails(r, n)
      PROVE  MutexInv'
  <2>1. UNCHANGED <<service, clients>>
    BY <1>7, ListenerSteps
  <2> QED
    BY <1>a, <2>1 DEF MutexInv, service, clients
<1> QED
  BY <1>1, <1>2, <1>3, <1>4, <1>5, <1>6, <1>7, Cases DEF StateInv

LEMMA NextStarts == ASSUME StateInv, [ServiceNext]_serviceVars PROVE StartsInv'
<1>a. StartsInv /\ rpc \in [Runners -> RPCs] /\ target \in [Runners -> Runners \cup {None}]
  BY DEF StateInv, ServiceTypeOK
<1>1. CASE Idle
  BY <1>a, <1>1 DEF Idle, StartsInv, runners
<1>2. ASSUME NEW c \in Clients, StartInvalid(c)
      PROVE  StartsInv'
  BY <1>a, <1>2, InvalidSteps DEF StartsInv, runners
<1>3. ASSUME NEW c \in Clients, StartServer(c)
      PROVE  StartsInv'
  <2>1. PICK r \in Runners :
           /\ server' = r /\ rpc' = [rpc EXCEPT ![r] = "spawned"]
           /\ rpc[r] = "none" /\ server < r /\ target[r] = None
           /\ \A q \in Runners : q <= r <=> q <= server \/ q = r
    BY <1>3, StartSteps
  <2>2. valid /\ valid' = valid /\ target' = target
    BY <1>3, StartSteps
  <2>3. \A q \in Runners : target[q] # None => target[q] <= r
    BY <1>a, <2>1 DEF StartsInv
  <2>4. \A q \in Runners : rpc'[q] # "none" <=> q <= r
    BY <1>a, <2>1 DEF StartsInv
  <2>5. \A q \in Runners : target[q] = None <=> rpc'[q] \in {"none", "spawned"}
    BY <1>a, <2>1 DEF StartsInv
  <2> QED
    BY <1>a, <2>1, <2>2, <2>3, <2>4, <2>5 DEF StartsInv
<1>4. ASSUME NEW c \in Clients, Stop(c)
      PROVE  StartsInv'
  BY <1>a, <1>4, StopBegins DEF StartsInv, runners
<1>5. ASSUME NEW c \in Clients,
             StopLook(c) \/ (\E n \in Nets : StopListener(c, n)) \/ StopWaitUdp(c) \/ StopWaitTcp(c)
      PROVE  StartsInv'
  <2>1. UNCHANGED <<valid, server, runners>>
    BY <1>5, StopSteps
  <2> QED
    BY <1>a, <2>1 DEF StartsInv, runners
<1>6. ASSUME NEW r \in Runners, RunnerStep(r)
      PROVE  StartsInv'
  <2>1. CASE Load(r)
    <3>1. server \in Runners /\ r <= server /\ None \notin Runners /\ server <= server
      <4>1. rpc[r] # "none"
        BY <2>1 DEF Load
      <4>2. server \in Runners /\ r <= server
        BY <1>a, <4>1, Targets DEF StartsInv
      <4> QED
        BY <4>2, RunnersAre
    <3>2. /\ UNCHANGED <<valid, server>> /\ rpc[r] = "spawned"
          /\ rpc' = [rpc EXCEPT ![r] = "loaded"] /\ target' = [target EXCEPT ![r] = server]
      BY <2>1 DEF Load, Become, service
    <3> QED
      BY <1>a, <3>1, <3>2 DEF StartsInv
  <2>2. CASE ~Load(r)
    <3>1. /\ UNCHANGED <<valid, server, target>> /\ rpc[r] \notin {"none", "spawned"}
          /\ \E l \in RPCs \ {"none", "spawned"} : rpc' = [rpc EXCEPT ![r] = l]
      BY <1>6, <2>2 DEF RunnerStep, Begin, Spawn, Shutdown, WaitUdp, WaitTcp, Join, Become,
                        service, Nets, RPCs
    <3> QED
      BY <1>a, <3>1 DEF StartsInv
  <2> QED
    BY <2>1, <2>2
<1>7. ASSUME NEW r \in Runners, NEW n \in Nets,
             Listen(r, n) \/ ServeEnds(r, n) \/ ServeFails(r, n)
      PROVE  StartsInv'
  BY <1>a, <1>7, ListenerSteps DEF StartsInv, service, runners
<1> QED
  BY <1>1, <1>2, <1>3, <1>4, <1>5, <1>6, <1>7, Cases DEF StateInv

LEMMA NextSpawn == ASSUME StateInv, [ServiceNext]_serviceVars PROVE SpawnInv'
<1>a. /\ SpawnInv /\ rpc \in [Runners -> RPCs] /\ lpc \in [Runners -> [Nets -> LPCs]]
  BY DEF StateInv, ServiceTypeOK
<1>1. CASE Idle
  BY <1>a, <1>1 DEF Idle, SpawnInv, runners, listeners
<1>2. ASSUME NEW c \in Clients, StartInvalid(c)
      PROVE  SpawnInv'
  BY <1>a, <1>2, InvalidSteps DEF SpawnInv, runners, listeners
<1>3. ASSUME NEW c \in Clients, StartServer(c)
      PROVE  SpawnInv'
  <2>1. PICK r \in Runners : rpc[r] = "none" /\ rpc' = [rpc EXCEPT ![r] = "spawned"]
    BY <1>3, StartSteps
  <2>2. UNCHANGED lpc
    BY <1>3, StartSteps DEF listeners
  <2> QED
    BY <1>a, <2>1, <2>2 DEF SpawnInv, HasListeners
<1>4. ASSUME NEW c \in Clients, Stop(c)
      PROVE  SpawnInv'
  BY <1>a, <1>4, StopBegins DEF SpawnInv, runners, listeners
<1>5. ASSUME NEW c \in Clients,
             StopLook(c) \/ (\E n \in Nets : StopListener(c, n)) \/ StopWaitUdp(c) \/ StopWaitTcp(c)
      PROVE  SpawnInv'
  <2>1. UNCHANGED <<lpc, runners>>
    BY <1>5, StopSteps
  <2> QED
    BY <1>a, <2>1 DEF SpawnInv, runners
<1>6. ASSUME NEW r \in Runners, RunnerStep(r)
      PROVE  SpawnInv'
  <2>1. CASE Spawn(r)
    BY <1>a, <2>1 DEF Spawn, Become, SpawnInv, HasListeners
  <2>2. CASE ~Spawn(r)
    <3>1. /\ UNCHANGED lpc
          /\ \E l \in RPCs :
               /\ rpc' = [rpc EXCEPT ![r] = l]
               /\ (l \in HasListeners <=> rpc[r] \in HasListeners)
      BY <1>6, <2>2 DEF RunnerStep, Load, Begin, Shutdown, WaitUdp, WaitTcp, Join, Become,
                        listeners, Nets, RPCs, HasListeners
    <3> QED
      BY <1>a, <3>1 DEF SpawnInv
  <2> QED
    BY <2>1, <2>2
<1>7. ASSUME NEW r \in Runners, NEW n \in Nets,
             Listen(r, n) \/ ServeEnds(r, n) \/ ServeFails(r, n)
      PROVE  SpawnInv'
  <2>1. /\ UNCHANGED rpc /\ rpc[r] \in HasListeners
        /\ \/ Opens(r, n, field[target[r]][n]) \/ Closes(r, n, "error") \/ Closes(r, n, "nil")
    BY <1>7, ListenerSteps DEF runners
  <2>2. CASE Opens(r, n, field[target[r]][n])
    <3>1. \A q \in Runners, m \in Nets :
             lpc'[q][m] = IF q = r /\ m = n THEN "serving" ELSE lpc[q][m]
      BY <2>2 DEF Opens
    <3> QED
      BY <1>a, <2>1, <3>1 DEF SpawnInv
  <2>3. ASSUME NEW e, Closes(r, n, e)
        PROVE  SpawnInv'
    BY <1>a, <2>1, <2>3 DEF SpawnInv, Closes
  <2> QED
    BY <2>1, <2>2, <2>3
<1> QED
  BY <1>1, <1>2, <1>3, <1>4, <1>5, <1>6, <1>7, Cases DEF StateInv

LEMMA StateInvariant == ServiceSpec => []StateInv
<1>1. ServiceInit => StateInv
  <2>1. ServiceInit => ServiceTypeOK
    <3> SUFFICES ASSUME ServiceInit PROVE ServiceTypeOK
      OBVIOUS
    <3>1. /\ field \in [Runners -> [Nets -> Runners \cup {None}]]
          /\ started \in [Runners -> [Nets -> BOOLEAN]]
      BY DEF ServiceInit
    <3>2. /\ lpc \in [Runners -> [Nets -> LPCs]]
          /\ object \in [Runners -> [Nets -> Runners \cup {None}]]
      BY DEF ServiceInit, LPCs
    <3>3. /\ goal \in [Clients -> Commands] /\ cpc \in [Clients -> CPCs]
          /\ rpc \in [Runners -> RPCs] /\ target \in [Runners -> Runners \cup {None}]
      BY DEF ServiceInit, Commands, CPCs, RPCs
    <3>4. /\ first \in [Runners -> {"none", "nil", "error"}]
          /\ held \in [Clients \cup Runners -> Runners \cup {None}]
      BY DEF ServiceInit
    <3> QED
      BY <3>1, <3>2, <3>3, <3>4 DEF ServiceInit, ServiceTypeOK
  <2>2. ServiceInit => MutexInv
    BY DEF ServiceInit, MutexInv, InStop
  <2>3. ServiceInit => StartsInv
    BY RunnersAre DEF ServiceInit, StartsInv, None, Runners
  <2>4. ServiceInit => SpawnInv
    BY DEF ServiceInit, SpawnInv, HasListeners
  <2> QED
    BY <2>1, <2>2, <2>3, <2>4 DEF StateInv
<1>2. StateInv /\ [ServiceNext]_serviceVars => StateInv'
  <2> SUFFICES ASSUME StateInv, [ServiceNext]_serviceVars
               PROVE  ServiceTypeOK'
    BY NextMutex, NextStarts, NextSpawn DEF StateInv
  <2>1. ServiceTypeOK
    BY DEF StateInv
  <2> QED
    BY <2>1, Cases, InvalidSteps, StartSteps, StopBegins, StopSteps, RunnerStepTyped, ListenerSteps
<1> QED
  BY <1>1, <1>2, PTL DEF ServiceSpec

\* Every variable of the service keeps its type, for any clients and starts.
THEOREM LifeTypeCorrect == ServiceSpec => []ServiceTypeOK
  BY StateInvariant, PTL DEF StateInv

\* What the Shutdowns of a stop and of a runner do.
ShutsDown(o, n) ==
    \A u \in Runners, m \in Nets : started'[u][m] = IF u = o /\ m = n THEN FALSE ELSE started[u][m]

LEMMA BeginShutsDown ==
    ASSUME ServiceTypeOK, NEW a, NEW o, NEW n \in Nets, BeginShutdown(a, o, n)
    PROVE  started[o][n] /\ ShutsDown(o, n) /\ held' = [held EXCEPT ![a] = o]
<1>1. started' = [started EXCEPT ![o][n] = FALSE] /\ FALSE \in BOOLEAN
  BY DEF BeginShutdown
<1> QED
  BY <1>1, StartedAt DEF BeginShutdown, ShutsDown

LEMMA ShutdownSteps ==
    ASSUME StateInv, NEW r \in Runners, NEW n \in Nets, Shutdown(r, n)
    PROVE  /\ rpc[r] = n /\ first[r] # "none" /\ target[r] \in Runners
           /\ UNCHANGED <<service, clients, target, mux, field, lpc, object, first, raced>>
           /\ \/ /\ started[field[target[r]][n]][n] /\ ShutsDown(field[target[r]][n], n)
                 /\ rpc' = [rpc EXCEPT ![r] = IF n = "udp" THEN "udp wait" ELSE "tcp wait"]
                 /\ held' = [held EXCEPT ![r] = field[target[r]][n]] /\ UNCHANGED late
              \/ /\ ~started[field[target[r]][n]][n] /\ UNCHANGED <<started, held>>
                 /\ rpc' = [rpc EXCEPT ![r] = IF n = "udp" THEN "tcp" ELSE "join"]
                 /\ late' = (late \/ lpc[r][n] = "spawned")
<1>1. target[r] \in Runners
  BY Targets DEF Shutdown, Nets
<1> DEFINE o == field[target[r]][n]
<1>2. CASE BeginShutdown(r, o, n) /\ UNCHANGED late
           /\ Become(r, IF n = "udp" THEN "udp wait" ELSE "tcp wait")
  <2>1. started[o][n] /\ ShutsDown(o, n) /\ held' = [held EXCEPT ![r] = o]
    BY <1>2, BeginShutsDown DEF StateInv
  <2> HIDE DEF o
  <2>2. rpc' = [rpc EXCEPT ![r] = IF n = "udp" THEN "udp wait" ELSE "tcp wait"] /\ UNCHANGED late
    BY <1>2 DEF Become
  <2>3. rpc[r] = n /\ first[r] # "none"
        /\ UNCHANGED <<service, clients, target, mux, field, lpc, object, first, raced>>
    BY DEF Shutdown
  <2> QED
    BY <1>1, <2>1, <2>2, <2>3 DEF o
<1>3. CASE /\ ~started[o][n] /\ UNCHANGED <<started, held>>
           /\ Become(r, IF n = "udp" THEN "tcp" ELSE "join")
           /\ late' = (late \/ lpc[r][n] = "spawned")
  BY <1>1, <1>3 DEF Shutdown, Become
<1> QED
  BY <1>2, <1>3 DEF Shutdown

LEMMA StopShutdownSteps ==
    ASSUME StateInv, NEW c \in Clients, NEW n \in Nets, StopListener(c, n)
    PROVE  /\ cpc[c] = n
           /\ \/ field[server][n] = None /\ dead' = TRUE /\ UNCHANGED <<cpc, started, held>>
              \/ /\ field[server][n] # None /\ started[field[server][n]][n]
                 /\ ShutsDown(field[server][n], n) /\ held' = [held EXCEPT ![c] = field[server][n]]
                 /\ cpc' = [cpc EXCEPT ![c] = IF n = "udp" THEN "udp wait" ELSE "tcp wait"]
                 /\ UNCHANGED <<state, mu, dead>>
              \/ /\ field[server][n] # None /\ ~started[field[server][n]][n]
                 /\ state' = "error" /\ StopEnds(c) /\ UNCHANGED <<started, held>>
<1> DEFINE o == field[server][n]
<1>1. CASE o = None /\ dead' = TRUE /\ UNCHANGED <<cpc, started, held>>
  BY <1>1 DEF StopListener
<1>2. CASE o # None /\ BeginShutdown(c, o, n) /\ UNCHANGED service
           /\ Goto(c, IF n = "udp" THEN "udp wait" ELSE "tcp wait")
  <2>1. started[o][n] /\ ShutsDown(o, n) /\ held' = [held EXCEPT ![c] = o]
    BY <1>2, BeginShutsDown DEF StateInv
  <2> QED
    BY <1>2, <2>1 DEF StopListener, Goto, service
<1>3. CASE /\ o # None /\ ~started[o][n]
           /\ StopReturns(c, "error", FALSE)
           /\ UNCHANGED <<started, held>>
  BY <1>3 DEF StopListener, StopReturns, Goto, StopEnds
<1> QED
  BY <1>1, <1>2, <1>3 DEF StopListener

\* A Server's fields hold dns.Servers made for it, UDP first; its listeners come
\* when it has both, and only then is a dns.Server started.  So a stop that has
\* shut one down finds the other.
FieldInv ==
    /\ \A s \in Runners, n \in Nets : field[s][n] # None => target[field[s][n]] = s
    /\ \A s \in Runners : field[s]["tcp"] # None => field[s]["udp"] # None
    /\ \A r \in Runners : rpc[r] = "begun" => field[target[r]]["udp"] # None
    /\ \A r \in Runners : rpc[r] \in HasListeners => field[target[r]]["tcp"] # None
    /\ \A o \in Runners, n \in Nets :
          started[o][n] => target[o] # None /\ field[target[o]]["tcp"] # None
    /\ \A c \in Clients :
          /\ cpc[c] = "udp" => field[server]["udp"] # None
          /\ cpc[c] \in {"udp wait", "tcp", "tcp wait"} => field[server]["tcp"] # None

LEMMA NextField == ASSUME StateInv, FieldInv, [ServiceNext]_serviceVars PROVE FieldInv'
<1>a. /\ field \in [Runners -> [Nets -> Runners \cup {None}]] /\ None \notin Runners
      /\ started \in [Runners -> [Nets -> BOOLEAN]]
      /\ rpc \in [Runners -> RPCs] /\ target \in [Runners -> Runners \cup {None}]
      /\ cpc \in [Clients -> CPCs] /\ "udp" \in Nets /\ "tcp" \in Nets
  BY RunnersAre DEF StateInv, ServiceTypeOK, Nets
<1>b. \A s \in Runners, n \in Nets :
         field[s][n] # None => field[s][n] \in Runners /\ target[field[s][n]] = s
  <2>1. \A s \in Runners, n \in Nets : field[s][n] \in Runners \cup {None}
    BY <1>a
  <2> QED
    BY <2>1 DEF FieldInv
<1>1. CASE Idle
  BY <1>a, <1>1 DEF Idle, FieldInv, runners, listeners
<1>2. ASSUME NEW c \in Clients, StartInvalid(c)
      PROVE  FieldInv'
  <2>1. /\ UNCHANGED <<server, rpc, target, field, started>>
        /\ cpc' = [cpc EXCEPT ![c] = "idle"]
    BY <1>2, InvalidSteps DEF runners, listeners
  <2> QED
    BY <1>a, <2>1 DEF FieldInv
<1>3. ASSUME NEW c \in Clients, StartServer(c)
      PROVE  FieldInv'
  <2>1. PICK r \in Runners : rpc' = [rpc EXCEPT ![r] = "spawned"]
    BY <1>3, StartSteps
  <2>2. ~mu /\ UNCHANGED <<target, field, started>> /\ cpc' = [cpc EXCEPT ![c] = "idle"]
    BY <1>3, StartSteps DEF listeners
  <2>3. \A d \in Clients : ~InStop(d)
    BY <2>2 DEF StateInv, MutexInv
  <2>4. \A d \in Clients : cpc'[d] \notin {"udp", "udp wait", "tcp", "tcp wait"}
    BY <1>a, <2>2, <2>3 DEF InStop
  <2>5. \A q \in Runners : rpc'[q] \in HasListeners \cup {"begun"} => rpc'[q] = rpc[q]
    BY <1>a, <2>1 DEF HasListeners
  <2> QED
    BY <1>a, <2>2, <2>4, <2>5 DEF FieldInv
<1>4. ASSUME NEW c \in Clients, Stop(c)
      PROVE  FieldInv'
  <2>1. /\ UNCHANGED <<server, rpc, target, field, started>>
        /\ \/ cpc' = [cpc EXCEPT ![c] = "udp"] /\ field[server]["udp"] # None
           \/ cpc' = [cpc EXCEPT ![c] = "look"]
    BY <1>4, StopBegins DEF runners, listeners
  <2> QED
    BY <1>a, <2>1 DEF FieldInv
<1>5. ASSUME NEW c \in Clients,
             StopLook(c) \/ (\E n \in Nets : StopListener(c, n)) \/ StopWaitUdp(c) \/ StopWaitTcp(c)
      PROVE  FieldInv'
  <2>1. /\ UNCHANGED <<server, rpc, target, field>> /\ server \in Runners
    BY <1>5, StopSteps DEF runners
  <2>2. /\ \A u \in Runners, m \in Nets : started'[u][m] => started[u][m]
        /\ \E l \in {"udp", "udp wait", "tcp", "tcp wait", "idle", "start", "check"} :
             /\ cpc' = [cpc EXCEPT ![c] = l] \/ cpc' = cpc
             /\ l = "udp" => field[server]["udp"] # None
             /\ l \in {"udp wait", "tcp", "tcp wait"} => field[server]["tcp"] # None
    <3>1. CASE StopLook(c)
      BY <1>a, <2>1, <3>1 DEF StopLook, StopReturns, Goto, listeners, FieldInv
    <3>2. ASSUME NEW n \in Nets, StopListener(c, n)
          PROVE  <2>2
      <4>1. CASE UNCHANGED <<cpc, started>>
        BY <4>1
      <4>2. CASE /\ field[server][n] # None /\ started[field[server][n]][n]
                 /\ ShutsDown(field[server][n], n)
                 /\ cpc' = [cpc EXCEPT ![c] = IF n = "udp" THEN "udp wait" ELSE "tcp wait"]
        <5>1. field[server] \in [Nets -> Runners \cup {None}]
          BY <1>a, <2>1
        <5>2. field[server][n] \in Runners
          BY <4>2, <5>1
        <5>3. target[field[server][n]] = server /\ field[server]["tcp"] # None
          BY <2>1, <4>2, <5>2 DEF FieldInv
        <5> QED
          BY <1>a, <4>2, <5>3 DEF ShutsDown
      <4>3. CASE StopEnds(c) /\ UNCHANGED started
        BY <4>3 DEF StopEnds
      <4> QED
        BY <3>2, <4>1, <4>2, <4>3, StopShutdownSteps
    <3>3. CASE StopWaitUdp(c)
      BY <3>3 DEF StopWaitUdp, Goto, listeners, FieldInv
    <3>4. CASE StopWaitTcp(c)
      BY <3>4 DEF StopWaitTcp, StopReturns, Goto, listeners
    <3> QED
      BY <1>5, <3>1, <3>2, <3>3, <3>4
  <2> QED
    BY <1>a, <2>1, <2>2 DEF FieldInv
<1>6. ASSUME NEW r \in Runners, RunnerStep(r)
      PROVE  FieldInv'
  <2>1. CASE Load(r)
    <3>1. /\ UNCHANGED <<server, cpc, field, started>> /\ rpc[r] = "spawned" /\ server \in Runners
          /\ rpc' = [rpc EXCEPT ![r] = "loaded"] /\ target' = [target EXCEPT ![r] = server]
      BY <2>1, Targets DEF Load, Become, service, clients, listeners
    <3>2. target[r] = None
      BY <3>1 DEF StateInv, StartsInv
    <3>3. \A s \in Runners, n \in Nets :
             field[s][n] # None => field[s][n] \in Runners /\ field[s][n] # r
      BY <1>a, <1>b, <3>2
    <3>4. \A o \in Runners, n \in Nets : started[o][n] => o # r
      BY <3>2 DEF FieldInv
    <3> QED
      BY <1>a, <3>1, <3>3, <3>4 DEF FieldInv, HasListeners
  <2>2. CASE Begin(r) \/ Spawn(r)
    <3>1. PICK n \in Nets, l \in RPCs :
             /\ UNCHANGED <<server, cpc, target, started>>
             /\ field' = [field EXCEPT ![target[r]][n] = r]
             /\ rpc' = [rpc EXCEPT ![r] = l] /\ rpc[r] = IF n = "udp" THEN "loaded" ELSE "begun"
             /\ l = IF n = "udp" THEN "begun" ELSE "udp"
      <4>1. CASE Begin(r)
        BY <1>a, <4>1 DEF Begin, Become, service, clients, RPCs
      <4>2. CASE Spawn(r)
        BY <1>a, <4>2 DEF Spawn, Become, service, clients, RPCs
      <4> QED
        BY <2>2, <4>1, <4>2
    <3>2. target[r] \in Runners
      BY <3>1, Targets
    <3>3. \A u \in Runners, m \in Nets :
             field'[u][m] = IF u = target[r] /\ m = n THEN r ELSE field[u][m]
      BY <3>1, FieldAt DEF StateInv
    <3>4. n = "tcp" => field[target[r]]["udp"] # None
      BY <3>1 DEF FieldInv
    <3>5. n = "udp" \/ n = "tcp"
      BY DEF Nets
    <3>6. /\ \A s \in Runners, m \in Nets : field'[s][m] # None => target[field'[s][m]] = s
          /\ \A s \in Runners, m \in Nets : field[s][m] # None => field'[s][m] # None
      <4>1. \A s \in Runners, m \in Nets : field'[s][m] # None => target[field'[s][m]] = s
        BY <1>b, <3>2, <3>3
      <4>2. \A s \in Runners, m \in Nets : field[s][m] # None => field'[s][m] # None
        BY <1>a, <3>3
      <4> QED
        BY <4>1, <4>2
    <3>7. \A s \in Runners : field'[s]["tcp"] # None => field'[s]["udp"] # None
      <4>1. \A s \in Runners :
               field'[s]["tcp"] # None => field[s]["tcp"] # None \/ (s = target[r] /\ n = "tcp")
        BY <1>a, <3>3
      <4>2. \A s \in Runners : field[s]["udp"] # None => field'[s]["udp"] # None
        BY <1>a, <3>6
      <4> QED
        BY <3>4, <4>1, <4>2 DEF FieldInv
    <3>8. /\ \A q \in Runners : rpc'[q] = "begun" => field'[target[q]]["udp"] # None
          /\ \A q \in Runners : rpc'[q] \in HasListeners => field'[target[q]]["tcp"] # None
      <4> SUFFICES ASSUME NEW q \in Runners, rpc'[q] \in HasListeners \cup {"begun"}
                   PROVE  /\ rpc'[q] = "begun" => field'[target[q]]["udp"] # None
                          /\ rpc'[q] \in HasListeners => field'[target[q]]["tcp"] # None
        OBVIOUS
      <4>1. CASE q = r
        BY <1>a, <3>1, <3>2, <3>3, <3>5, <4>1 DEF HasListeners
      <4>2. CASE q # r
        <5>1. rpc'[q] = rpc[q] /\ target[q] \in Runners
          BY <1>a, <3>1, <4>2, Targets DEF HasListeners
        <5> QED
          BY <1>a, <3>6, <5>1 DEF FieldInv
      <4> QED
        BY <4>1, <4>2
    <3>9. /\ \A o \in Runners, m \in Nets :
                started[o][m] => target[o] # None /\ field'[target[o]]["tcp"] # None
      BY <1>a, <3>6 DEF FieldInv
    <3>10. \A c \in Clients :
             /\ cpc[c] = "udp" => field'[server]["udp"] # None
             /\ cpc[c] \in {"udp wait", "tcp", "tcp wait"} => field'[server]["tcp"] # None
      BY <1>a, <3>1, <3>6, Targets DEF FieldInv
    <3> QED
      BY <3>1, <3>6, <3>7, <3>8, <3>9, <3>10 DEF FieldInv
  <2>3. CASE ~(Load(r) \/ Begin(r) \/ Spawn(r))
    <3>1. /\ UNCHANGED <<server, cpc, field, target>> /\ rpc[r] \in HasListeners
          /\ \E l \in HasListeners : rpc' = [rpc EXCEPT ![r] = l]
          /\ \A u \in Runners, m \in Nets : started'[u][m] => started[u][m]
      <4>1. ASSUME NEW n \in Nets, Shutdown(r, n)
            PROVE  <3>1
        <5>1. /\ UNCHANGED <<server, cpc, field, target>> /\ rpc[r] = n
              /\ UNCHANGED started \/ ShutsDown(field[target[r]][n], n)
          BY <4>1, ShutdownSteps DEF service, clients
        <5>2. \E l \in HasListeners : rpc' = [rpc EXCEPT ![r] = l]
          BY <4>1 DEF Shutdown, Become, HasListeners
        <5>3. \A u \in Runners, m \in Nets : started'[u][m] => started[u][m]
          BY <5>1 DEF ShutsDown
        <5> QED
          BY <5>1, <5>2, <5>3 DEF Nets, HasListeners
      <4>2. CASE WaitUdp(r) \/ WaitTcp(r) \/ Join(r)
        BY <4>2 DEF WaitUdp, WaitTcp, Join, Become, service, clients, listeners, HasListeners
      <4> QED
        BY <1>6, <2>3, <4>1, <4>2 DEF RunnerStep
    <3> QED
      BY <1>a, <3>1 DEF FieldInv, HasListeners
  <2> QED
    BY <2>1, <2>2, <2>3
<1>7. ASSUME NEW r \in Runners, NEW n \in Nets,
             Listen(r, n) \/ ServeEnds(r, n) \/ ServeFails(r, n)
      PROVE  FieldInv'
  <2>1. /\ UNCHANGED <<server, cpc, rpc, target, field>>
        /\ rpc[r] \in HasListeners /\ target[r] \in Runners
        /\ started' = started \/ Opens(r, n, field[target[r]][n])
    BY <1>7, ListenerSteps DEF service, clients, runners, Closes
  <2> DEFINE o == field[target[r]][n]
  <2>2. /\ o \in Runners /\ target[o] = target[r] /\ field[target[o]]["tcp"] # None
        /\ target[o] # None
    <3>1. field[target[r]]["tcp"] # None /\ field[target[r]]["udp"] # None
      BY <2>1 DEF FieldInv
    <3>2. field[target[r]] \in [Nets -> Runners \cup {None}]
      BY <1>a, <2>1
    <3>3. o \in Runners
      BY <3>1, <3>2 DEF Nets
    <3> QED
      BY <1>a, <2>1, <3>1, <3>3 DEF FieldInv
  <2> HIDE DEF o
  <2>3. \A u \in Runners, m \in Nets : started'[u][m] => started[u][m] \/ u = o
    BY <2>1 DEF Opens, o
  <2> QED
    BY <1>a, <2>1, <2>2, <2>3 DEF FieldInv
<1> QED
  BY <1>1, <1>2, <1>3, <1>4, <1>5, <1>6, <1>7, Cases DEF StateInv

LEMMA FieldInvariant == ServiceSpec => []FieldInv
<1>1. ServiceInit => FieldInv
  BY DEF ServiceInit, FieldInv, HasListeners, Nets
<1> QED
  BY <1>1, NextField, StateInvariant, PTL DEF ServiceSpec

\* Only a flush without a Server kills the process (OnlyFlushKills of the runs):
\* both fields are set by the time that a stop reads the second one.
THEOREM OnlyNilServerKills == ServiceSpec => []OnlyFlushKills
<1>1. ServiceInit => OnlyFlushKills
  BY DEF ServiceInit, OnlyFlushKills
<1>2. ASSUME StateInv, FieldInv, OnlyFlushKills, [ServiceNext]_serviceVars
      PROVE  OnlyFlushKills'
  <2> USE <1>2 DEF OnlyFlushKills
  <2>1. CASE UNCHANGED serviceVars
    BY <2>1 DEF serviceVars, service
  <2>2. CASE ~dead
    <3>1. CASE Idle
      BY <2>2, <3>1 DEF Idle
    <3>2. ASSUME NEW c \in Clients, StartInvalid(c) \/ StartServer(c) \/ Stop(c)
          PROVE  dead' = dead
      BY <3>2 DEF StartInvalid, StartServer, Stop
    <3>3. ASSUME NEW c \in Clients, StopLook(c) \/ StopWaitUdp(c) \/ StopWaitTcp(c)
          PROVE  dead' = dead
      BY <3>3 DEF StopLook, StopWaitUdp, StopWaitTcp, StopReturns, service
    <3>4. ASSUME NEW c \in Clients, NEW n \in Nets, StopListener(c, n)
          PROVE  dead' = dead
      <4>1. field[server][n] # None
        BY <3>4, StopShutdownSteps DEF FieldInv, Nets
      <4> QED
        BY <3>4, <4>1, StopShutdownSteps DEF StopEnds
    <3>5. ASSUME NEW r \in Runners, RunnerStep(r)
          PROVE  dead' = dead
      BY <3>5 DEF RunnerStep, Load, Begin, Spawn, Shutdown, WaitUdp, WaitTcp, Join, service
    <3>6. ASSUME NEW r \in Runners, NEW n \in Nets,
                 Listen(r, n) \/ ServeEnds(r, n) \/ ServeFails(r, n)
          PROVE  dead' = dead
      BY <3>6, ListenerSteps DEF service
    <3> QED
      BY <2>2, <3>1, <3>2, <3>3, <3>4, <3>5, <3>6, Cases DEF StateInv
  <2> QED
    BY <2>1, <2>2 DEF ServiceNext
<1> QED
  BY <1>1, <1>2, StateInvariant, FieldInvariant, PTL DEF ServiceSpec

\* A runner's listeners, and what the first of them to end has sent.
ListenersInv ==
    \A r \in Runners :
       /\ \A n \in Nets :
            /\ lpc[r][n] = "serving" <=> object[r][n] # None
            /\ object[r][n] # None => target[object[r][n]] = target[r]
            /\ rpc[r] = "ended" => lpc[r][n] = "ended"
       /\ first[r] # "none" <=> \E n \in Nets : lpc[r][n] = "ended"
       /\ rpc[r] \in PastUdp => first[r] # "none"

\* The dns.Servers of a runner's Server, when it has its listeners.
LEMMA FieldOf ==
    ASSUME StateInv, FieldInv, NEW r \in Runners, rpc[r] \in HasListeners, NEW n \in Nets
    PROVE  field[target[r]][n] \in Runners /\ target[field[target[r]][n]] = target[r]
<1>1. target[r] \in Runners
  BY Targets DEF HasListeners
<1>2. field[target[r]] \in [Nets -> Runners \cup {None}]
  BY <1>1 DEF StateInv, ServiceTypeOK
<1>3. field[target[r]]["tcp"] # None /\ field[target[r]]["udp"] # None
  BY <1>1 DEF FieldInv
<1>4. field[target[r]][n] \in Runners /\ field[target[r]][n] # None
  BY <1>2, <1>3 DEF Nets
<1> QED
  BY <1>1, <1>4 DEF FieldInv

LEMMA NextListeners ==
    ASSUME StateInv, FieldInv, ListenersInv, [ServiceNext]_serviceVars
    PROVE  ListenersInv'
<1>a. /\ rpc \in [Runners -> RPCs] /\ target \in [Runners -> Runners \cup {None}]
      /\ lpc \in [Runners -> [Nets -> LPCs]] /\ None \notin Runners
      /\ first \in [Runners -> {"none", "nil", "error"}]
  BY RunnersAre DEF StateInv, ServiceTypeOK
<1>b. \A r \in Runners, n \in Nets : object[r][n] # None => object[r][n] \in Runners
  <2>1. \A r \in Runners, n \in Nets : object[r][n] \in Runners \cup {None}
    BY DEF StateInv, ServiceTypeOK
  <2> QED
    BY <2>1
<1>1. CASE UNCHANGED <<rpc, target, lpc, object, first>>
  BY <1>1 DEF ListenersInv
<1>2. ASSUME NEW c \in Clients, StartServer(c)
      PROVE  ListenersInv'
  <2>1. PICK r \in Runners : rpc' = [rpc EXCEPT ![r] = "spawned"]
    BY <1>2, StartSteps
  <2>2. UNCHANGED <<target, lpc, object, first>>
    BY <1>2, StartSteps DEF listeners
  <2>3. \A q \in Runners : rpc'[q] = rpc[q] \/ rpc'[q] \notin PastUdp \cup {"ended"}
    BY <1>a, <2>1 DEF PastUdp
  <2> QED
    BY <2>2, <2>3 DEF ListenersInv
<1>3. ASSUME NEW r \in Runners, Load(r)
      PROVE  ListenersInv'
  <2>1. /\ rpc[r] = "spawned" /\ UNCHANGED <<lpc, object, first>>
        /\ rpc' = [rpc EXCEPT ![r] = "loaded"] /\ target' = [target EXCEPT ![r] = server]
    BY <1>3 DEF Load, Become, listeners
  <2>2. \A n \in Nets : object[r][n] = None
    BY <2>1 DEF StateInv, SpawnInv, ListenersInv, HasListeners
  <2>3. target[r] = None
    BY <2>1 DEF StateInv, StartsInv
  <2>4. \A q \in Runners, n \in Nets : object[q][n] # None => target[q] # None
    BY <1>a DEF StateInv, SpawnInv, StartsInv, ListenersInv, HasListeners
  <2>5. \A q \in Runners, n \in Nets : object[q][n] # None => q # r /\ object[q][n] # r
    BY <2>2, <2>3, <2>4 DEF ListenersInv
  <2>6. \A q \in Runners, n \in Nets : object[q][n] # None => target'[object[q][n]] = target'[q]
    BY <1>a, <1>b, <2>1, <2>5 DEF ListenersInv
  <2>7. \A q \in Runners : rpc'[q] = rpc[q] \/ rpc'[q] \notin PastUdp \cup {"ended"}
    BY <1>a, <2>1 DEF PastUdp
  <2> QED
    BY <2>1, <2>6, <2>7 DEF ListenersInv
<1>4. ASSUME NEW r \in Runners, Spawn(r)
      PROVE  ListenersInv'
  <2>1. /\ rpc[r] = "begun" /\ UNCHANGED <<target, object, first>>
        /\ rpc' = [rpc EXCEPT ![r] = "udp"] /\ lpc' = [lpc EXCEPT ![r] = [n \in Nets |-> "spawned"]]
    BY <1>4 DEF Spawn, Become
  <2>2. \A n \in Nets : lpc[r][n] = "none"
    BY <2>1 DEF StateInv, SpawnInv, HasListeners
  <2>3. \A q \in Runners, n \in Nets : lpc'[q][n] = IF q = r THEN "spawned" ELSE lpc[q][n]
    BY <1>a, <2>1
  <2>4. \A n \in Nets : object[r][n] = None
    BY <2>2 DEF ListenersInv
  <2>5. first[r] = "none"
    BY <2>2 DEF ListenersInv
  <2>6. \A q \in Runners : rpc'[q] = IF q = r THEN "udp" ELSE rpc[q]
    BY <1>a, <2>1
  <2>7. \A q \in Runners, n \in Nets :
           /\ lpc'[q][n] = "serving" <=> object'[q][n] # None
           /\ object'[q][n] # None => target'[object'[q][n]] = target'[q]
           /\ rpc'[q] = "ended" => lpc'[q][n] = "ended"
    BY <2>1, <2>3, <2>4, <2>6 DEF ListenersInv
  <2>8. \A q \in Runners : first'[q] # "none" <=> \E n \in Nets : lpc'[q][n] = "ended"
    BY <2>1, <2>2, <2>3, <2>5 DEF ListenersInv
  <2>9. \A q \in Runners : rpc'[q] \in PastUdp => first'[q] # "none"
    <3>1. "udp" \notin PastUdp
      BY DEF PastUdp
    <3> QED
      BY <2>1, <2>6, <3>1 DEF ListenersInv
  <2> QED
    BY <2>7, <2>8, <2>9 DEF ListenersInv
<1>5. ASSUME NEW r \in Runners, RunnerStep(r), ~Load(r), ~Spawn(r)
      PROVE  ListenersInv'
  <2>1. UNCHANGED <<target, lpc, object, first>>
    BY <1>5 DEF RunnerStep, Begin, Shutdown, WaitUdp, WaitTcp, Join, listeners
  <2>2. PICK l \in RPCs :
           /\ rpc' = [rpc EXCEPT ![r] = l]
           /\ l \in PastUdp => rpc[r] \in PastUdp \/ first[r] # "none"
           /\ l = "ended" => \A n \in Nets : lpc[r][n] = "ended"
    BY <1>5 DEF RunnerStep, Begin, Shutdown, WaitUdp, WaitTcp, Join, Become, RPCs, PastUdp, Nets
  <2>3. \A q \in Runners : rpc'[q] = IF q = r THEN l ELSE rpc[q]
    BY <1>a, <2>2
  <2> QED
    BY <2>1, <2>2, <2>3 DEF ListenersInv
<1>6. ASSUME NEW r \in Runners, NEW n \in Nets,
             Listen(r, n) \/ ServeEnds(r, n) \/ ServeFails(r, n)
      PROVE  ListenersInv'
  <2> DEFINE o == field[target[r]][n]
  <2>1. /\ UNCHANGED <<rpc, target>>
        /\ rpc[r] \in HasListeners /\ lpc[r][n] \in {"spawned", "serving"}
        /\ \/ lpc[r][n] = "spawned" /\ Opens(r, n, o)
           \/ \E e \in {"nil", "error"} : Closes(r, n, e)
    BY <1>6, ListenerSteps DEF runners
  <2>2. o \in Runners /\ target[o] = target[r]
    BY <2>1, FieldOf
  <2> HIDE DEF o
  <2>3. rpc[r] # "ended"
    BY <2>1 DEF ListenersInv
  <2>4. CASE lpc[r][n] = "spawned" /\ Opens(r, n, o)
    <3>1. \A q \in Runners, m \in Nets :
             /\ lpc'[q][m] = IF q = r /\ m = n THEN "serving" ELSE lpc[q][m]
             /\ object'[q][m] = IF q = r /\ m = n THEN o ELSE object[q][m]
      BY <2>4 DEF Opens
    <3>2. first' = first /\ o # None
      BY <1>a, <2>2, <2>4 DEF Opens
    <3>3. \A q \in Runners :
             (\E m \in Nets : lpc'[q][m] = "ended") <=> (\E m \in Nets : lpc[q][m] = "ended")
      BY <2>4, <3>1
    <3> QED
      BY <2>1, <2>2, <2>3, <3>1, <3>2, <3>3 DEF ListenersInv
  <2>5. ASSUME NEW e \in {"nil", "error"}, Closes(r, n, e)
        PROVE  ListenersInv'
    <3>1. \A q \in Runners, m \in Nets :
             /\ lpc'[q][m] = IF q = r /\ m = n THEN "ended" ELSE lpc[q][m]
             /\ object'[q][m] = IF q = r /\ m = n THEN None ELSE object[q][m]
      BY <2>5 DEF Closes
    <3>2. \A q \in Runners : first'[q] = IF q = r /\ first[r] = "none" THEN e ELSE first[q]
      BY <2>5 DEF Closes
    <3> QED
      BY <2>1, <2>3, <3>1, <3>2 DEF ListenersInv
  <2> QED
    BY <2>1, <2>4, <2>5
<1>7. ASSUME NEW c \in Clients, StartInvalid(c)
      PROVE  UNCHANGED <<rpc, target, lpc, object, first>>
  BY <1>7 DEF StartInvalid, runners, listeners
<1>8. ASSUME NEW c \in Clients, Stop(c)
      PROVE  UNCHANGED <<rpc, target, lpc, object, first>>
  BY <1>8 DEF Stop, runners, listeners
<1>9. ASSUME NEW c \in Clients,
             StopLook(c) \/ (\E n \in Nets : StopListener(c, n)) \/ StopWaitUdp(c) \/ StopWaitTcp(c)
      PROVE  UNCHANGED <<rpc, target, lpc, object, first>>
  BY <1>9, StopSteps DEF runners
<1>10. CASE Idle
  BY <1>1, <1>10 DEF Idle, runners, listeners
<1> QED
  BY <1>1, <1>2, <1>3, <1>4, <1>5, <1>6, <1>7, <1>8, <1>9, <1>10, Cases DEF StateInv

LEMMA ListenersInvariant == ServiceSpec => []ListenersInv
<1>1. ServiceInit => ListenersInv
  BY DEF ServiceInit, ListenersInv, PastUdp
<1> QED
  BY <1>1, NextListeners, StateInvariant, FieldInvariant, PTL DEF ServiceSpec

\* When no command met a runner on its way: a runner on its way is that of a
\* service that runs; an earlier one is ending without an error, and so is the
\* last one unless the service runs;
RunnersOrderly ==
    /\ \A r \in Runners : target[r] \in {None, r}
    /\ \A r \in Runners : rpc[r] \in Early => r = server /\ state = "running" /\ ~mu
    /\ \A r \in Runners : Active(r) /\ r # server => first[r] = "nil"
    /\ \A r \in Runners : Active(r) /\ state # "running" => first[r] # "none"

\* a running service has a runner whose listeners are not shut down, its Server
\* has the handler, and a stopped one has no listener;
ServiceOrderly ==
    /\ state = "running" /\ ~mu =>
         /\ rpc[server] # "ended" /\ first[server] # "nil"
         /\ first[server] = "none" =>
              \A n \in Nets : lpc[server][n] = "serving" => started[server][n]
    /\ state = "stopped" => \A r \in Runners, n \in Nets : lpc[r][n] \in {"none", "ended"}
    /\ server # None /\ rpc[server] \in {"begun"} \cup HasListeners => mux = server

\* and a stop faces one runner, which has or had both listeners, and has waited
\* for the ones that it has passed.
StopOrderly ==
    /\ mu => /\ \A q \in Runners : q # server => ~Active(q)
             /\ \A n \in Nets : lpc[server][n] \in {"serving", "ended"}
    /\ \A c \in Clients :
         /\ cpc[c] # "look"
         /\ cpc[c] = "udp" => started[server]["udp"] \/ first[server] # "none"
         /\ cpc[c] \in {"udp wait", "tcp wait"} => held[c] = server
         /\ cpc[c] \in {"tcp", "tcp wait"} => lpc[server]["udp"] = "ended"

OrderlyInv == ~raced => RunnersOrderly /\ ServiceOrderly /\ StopOrderly

LifeInv == StateInv /\ FieldInv /\ ListenersInv

\* Then a Server works with the dns.Servers of its own runner.
LEMMA Own ==
    ASSUME LifeInv, RunnersOrderly, NEW r \in Runners
    PROVE  /\ target[r] # None => target[r] = r
           /\ \A n \in Nets :
                /\ field[r][n] # None => field[r][n] = r
                /\ rpc[r] \in HasListeners => field[target[r]][n] = r
                /\ lpc[r][n] = "serving" => object[r][n] = r
           /\ rpc[r] \in HasListeners => target[r] = r
<1>1. target[r] # None => target[r] = r
  BY DEF RunnersOrderly
<1>2. rpc[r] \in HasListeners => target[r] = r
  BY <1>1 DEF LifeInv, StateInv, StartsInv, HasListeners
<1>3. ASSUME NEW n \in Nets
      PROVE  /\ field[r][n] # None => field[r][n] = r
             /\ lpc[r][n] = "serving" => object[r][n] = r
  <2>1. /\ field[r][n] \in Runners \cup {None} /\ object[r][n] \in Runners \cup {None}
    BY DEF LifeInv, StateInv, ServiceTypeOK
  <2>2. field[r][n] # None => target[field[r][n]] = r
    BY DEF LifeInv, FieldInv
  <2>3. field[r][n] # None => field[r][n] = r
    BY <2>1, <2>2, RunnersAre DEF RunnersOrderly
  <2>4. lpc[r][n] = "serving" => /\ object[r][n] \in Runners /\ target[object[r][n]] = target[r]
                                 /\ rpc[r] \in HasListeners
    BY <2>1 DEF LifeInv, ListenersInv, StateInv, SpawnInv
  <2>5. lpc[r][n] = "serving" => object[r][n] = r
    BY <1>2, <2>4, RunnersAre DEF RunnersOrderly
  <2> QED
    BY <2>3, <2>5
<1>4. ASSUME NEW n \in Nets, rpc[r] \in HasListeners
      PROVE  field[target[r]][n] = r
  <2>1. target[r] = r /\ field[target[r]][n] \in Runners
    BY <1>2, <1>4, FieldOf DEF LifeInv
  <2> QED
    BY <1>3, <2>1, RunnersAre
<1> QED
  BY <1>1, <1>2, <1>3, <1>4

LEMMA StartOrderly ==
    ASSUME LifeInv, OrderlyInv, NEW c \in Clients, StartServer(c), ~raced'
    PROVE  RunnersOrderly' /\ ServiceOrderly' /\ StopOrderly'
<1>a. /\ rpc \in [Runners -> RPCs] /\ cpc \in [Clients -> CPCs]
      /\ first \in [Runners -> {"none", "nil", "error"}]
  BY DEF LifeInv, StateInv, ServiceTypeOK
<1>1. /\ state # "running" /\ state' = "running" /\ ~mu /\ mu' = mu
      /\ cpc' = [cpc EXCEPT ![c] = "idle"]
      /\ raced' = (raced \/ \E r \in Runners : Reporting(r))
      /\ UNCHANGED <<target, mux, field, started, lpc, object, first, held>>
  BY StartSteps DEF LifeInv, listeners
<1>2. PICK r \in Runners : /\ server' = r /\ rpc' = [rpc EXCEPT ![r] = "spawned"]
                           /\ rpc[r] = "none"
  BY StartSteps DEF LifeInv
<1>3. RunnersOrderly /\ \A q \in Runners : ~Reporting(q)
  BY <1>1 DEF OrderlyInv
<1>4. \A q \in Runners : rpc'[q] = IF q = r THEN "spawned" ELSE rpc[q]
  BY <1>a, <1>2
<1>5. \A n \in Nets : lpc[r][n] = "none"
  BY <1>2 DEF LifeInv, StateInv, SpawnInv, HasListeners
<1>6. first[r] = "none"
  BY <1>5 DEF LifeInv, ListenersInv
<1>7. \A q \in Runners : Active(q) => first[q] = "nil"
  BY <1>a, <1>1, <1>3 DEF RunnersOrderly, Reporting, Active
<1>8. RunnersOrderly'
  BY <1>1, <1>2, <1>3, <1>4, <1>7 DEF RunnersOrderly, Active
<1>9. ServiceOrderly'
  <2>1. /\ server' = r /\ state' = "running" /\ rpc'[r] = "spawned" /\ first'[r] = "none"
        /\ \A n \in Nets : lpc'[r][n] = "none"
    BY <1>1, <1>2, <1>4, <1>5, <1>6
  <2>2. "spawned" \notin {"begun"} \cup HasListeners
    BY DEF HasListeners
  <2> QED
    BY <2>1, <2>2 DEF ServiceOrderly
<1>10. StopOrderly'
  <2>1. \A d \in Clients : ~InStop(d)
    BY <1>1 DEF LifeInv, StateInv, MutexInv
  <2>2. \A d \in Clients : cpc'[d] \notin {"look", "udp", "udp wait", "tcp", "tcp wait"}
    BY <1>a, <1>1, <2>1 DEF InStop
  <2> QED
    BY <1>1, <2>2 DEF StopOrderly
<1> QED
  BY <1>8, <1>9, <1>10

LEMMA InvalidOrderly ==
    ASSUME LifeInv, OrderlyInv, NEW c \in Clients, StartInvalid(c), ~raced'
    PROVE  RunnersOrderly' /\ ServiceOrderly' /\ StopOrderly'
<1>1. /\ ~mu /\ server = None /\ server' = None /\ state' = "error" /\ mu' = mu
      /\ cpc' = [cpc EXCEPT ![c] = "idle"] /\ cpc \in [Clients -> CPCs]
      /\ UNCHANGED <<raced, rpc, target, first>>
  BY InvalidSteps DEF LifeInv, StateInv, ServiceTypeOK, runners, listeners, history
<1>2. \A r \in Runners : rpc[r] = "none"
  <2>1. \A r \in Runners : ~(r <= None)
    BY DEF Runners, None
  <2> QED
    BY <1>1, <2>1 DEF LifeInv, StateInv, StartsInv
<1>3. \A d \in Clients : ~InStop(d)
  BY <1>1 DEF LifeInv, StateInv, MutexInv
<1>4. \A d \in Clients : cpc'[d] \notin {"look", "udp", "udp wait", "tcp", "tcp wait"}
  BY <1>1, <1>3 DEF InStop
<1> QED
  BY <1>1, <1>2, <1>4 DEF OrderlyInv, RunnersOrderly, ServiceOrderly, StopOrderly, Early, Active

LEMMA StopOrderlyBegins ==
    ASSUME LifeInv, OrderlyInv, NEW c \in Clients, Stop(c), ~raced'
    PROVE  RunnersOrderly' /\ ServiceOrderly' /\ StopOrderly'
<1>a. /\ rpc \in [Runners -> RPCs] /\ cpc \in [Clients -> CPCs]
  BY DEF LifeInv, StateInv, ServiceTypeOK
<1>1. /\ ~mu /\ mu' /\ state = "running" /\ server \in Runners
      /\ UNCHANGED <<state, server, rpc, target, mux, field, started, lpc, object, first, held>>
      /\ \/ cpc' = [cpc EXCEPT ![c] = "udp"]
         \/ cpc' = [cpc EXCEPT ![c] = "look"] /\ field[server]["udp"] = None
      /\ raced' = (raced \/ \E r \in Runners : ~Settled(r))
  BY StopBegins DEF LifeInv, runners, listeners
<1>2. RunnersOrderly /\ ServiceOrderly /\ \A r \in Runners : Settled(r)
  BY <1>1 DEF OrderlyInv
<1>3. \A r \in Runners : ~Active(r) \/ (rpc[r] = "udp" /\ first[r] = "none")
  BY <1>2 DEF Settled, Active, LifeInv, ListenersInv
<1>4. \A q \in Runners : q # server => ~Active(q)
  BY <1>2, <1>3 DEF RunnersOrderly
<1>5. rpc[server] # "none" /\ rpc[server] # "ended"
  BY <1>1, <1>2, RunnersAre DEF ServiceOrderly, LifeInv, StateInv, StartsInv
<1>6. /\ rpc[server] = "udp"
      /\ \A n \in Nets : lpc[server][n] = "serving" /\ started[object[server][n]][n]
  BY <1>1, <1>2, <1>5 DEF Settled
<1>7. \A n \in Nets : started[server][n] /\ field[server][n] # None
  <2>1. rpc[server] \in HasListeners
    BY <1>6 DEF HasListeners
  <2> QED
    BY <1>1, <1>2, <1>6, <2>1, Own, RunnersAre
<1>8. RunnersOrderly'
  <2>1. \A r \in Runners : rpc[r] \notin Early
    BY <1>3 DEF Early, Active
  <2> QED
    BY <1>1, <1>2, <2>1 DEF RunnersOrderly, Active
<1>9. ServiceOrderly'
  BY <1>1, <1>2 DEF ServiceOrderly
<1>10. StopOrderly'
  <2>1. "udp" \in Nets /\ cpc' = [cpc EXCEPT ![c] = "udp"]
    BY <1>1, <1>7 DEF Nets
  <2>2. \A d \in Clients : ~InStop(d)
    BY <1>1 DEF LifeInv, StateInv, MutexInv
  <2>3. \A d \in Clients : cpc'[d] \notin {"look", "udp wait", "tcp", "tcp wait"}
    BY <1>a, <2>1, <2>2 DEF InStop
  <2> QED
    BY <1>1, <1>4, <1>6, <1>7, <2>1, <2>3 DEF StopOrderly, Active
<1> QED
  BY <1>8, <1>9, <1>10

\* A step of a stop meets one runner, that of the Server, and no other stop.
LEMMA StopAlone ==
    ASSUME LifeInv, OrderlyInv, ~raced, NEW c \in Clients, InStop(c)
    PROVE  /\ mu /\ state = "running" /\ server \in Runners
           /\ \A r \in Runners : rpc[r] \notin Early /\ (r # server => ~Active(r))
           /\ \A n \in Nets : lpc[server][n] \in {"serving", "ended"}
           /\ rpc[server] \in HasListeners
           /\ \A d \in Clients :
                d # c => cpc[d] \notin {"look", "udp", "udp wait", "tcp", "tcp wait"}
<1>1. mu /\ state = "running" /\ server \in Runners
  BY DEF LifeInv, StateInv, MutexInv, ServiceTypeOK
<1>2. \A r \in Runners : rpc[r] \notin Early
  BY <1>1 DEF OrderlyInv, RunnersOrderly
<1>3. /\ \A r \in Runners : r # server => ~Active(r)
      /\ \A n \in Nets : lpc[server][n] \in {"serving", "ended"}
  BY <1>1 DEF OrderlyInv, StopOrderly
<1>4. rpc[server] \in HasListeners
  <2>1. "udp" \in Nets
    BY DEF Nets
  <2>2. lpc[server]["udp"] # "none"
    BY <1>3, <2>1
  <2> QED
    BY <1>1, <2>1, <2>2 DEF LifeInv, StateInv, SpawnInv
<1>5. \A d \in Clients : d # c => cpc[d] \notin {"look", "udp", "udp wait", "tcp", "tcp wait"}
  BY DEF LifeInv, StateInv, MutexInv, InStop
<1> QED
  BY <1>1, <1>2, <1>3, <1>4, <1>5

LEMMA ShutdownOrderly ==
    ASSUME LifeInv, OrderlyInv, NEW c \in Clients, NEW n \in Nets,
           StopListener(c, n), ~raced'
    PROVE  RunnersOrderly' /\ ServiceOrderly' /\ StopOrderly'
<1>a. /\ cpc \in [Clients -> CPCs] /\ None \notin Runners
      /\ held \in [Clients \cup Runners -> Runners \cup {None}]
  BY RunnersAre DEF LifeInv, StateInv, ServiceTypeOK
<1>1. /\ cpc[c] = n /\ InStop(c) /\ ~raced
      /\ UNCHANGED <<server, rpc, target, mux, lpc, first>>
  BY StopSteps, StopShutdownSteps DEF LifeInv, runners, history
<1>2. /\ mu /\ state = "running" /\ server \in Runners
      /\ \A r \in Runners : rpc[r] \notin Early /\ (r # server => ~Active(r))
      /\ \A m \in Nets : lpc[server][m] \in {"serving", "ended"}
      /\ rpc[server] \in HasListeners
      /\ \A d \in Clients : d # c => cpc[d] \notin {"look", "udp", "udp wait", "tcp", "tcp wait"}
  BY <1>1, StopAlone
<1>3. RunnersOrderly /\ ServiceOrderly /\ StopOrderly
  BY <1>1 DEF OrderlyInv
<1>4. field[server][n] = server /\ field[server][n] # None
  <2>1. target[server] = server /\ field[target[server]][n] = server
    BY <1>2, <1>3, Own
  <2> QED
    BY <1>a, <1>2, <2>1
<1>5. mux' = server'
  BY <1>a, <1>1, <1>2, <1>3 DEF ServiceOrderly
<1>6. CASE /\ ShutsDown(server, n) /\ held' = [held EXCEPT ![c] = server] /\ UNCHANGED <<state, mu>>
           /\ cpc' = [cpc EXCEPT ![c] = IF n = "udp" THEN "udp wait" ELSE "tcp wait"]
  <2>1. RunnersOrderly'
    BY <1>1, <1>2, <1>3, <1>6 DEF RunnersOrderly, Active
  <2>2. ServiceOrderly'
    BY <1>1, <1>2, <1>5, <1>6 DEF ServiceOrderly
  <2>3. \A d \in Clients :
           /\ cpc'[d] \notin {"look", "udp", "tcp"}
           /\ cpc'[d] \in {"udp wait", "tcp wait"} => held'[d] = server
           /\ cpc'[d] = "tcp wait" => lpc[server]["udp"] = "ended"
    <3>1. \A d \in Clients : d # c => cpc'[d] \notin {"look", "udp", "udp wait", "tcp", "tcp wait"}
      BY <1>a, <1>2, <1>6
    <3>2. cpc'[c] = (IF n = "udp" THEN "udp wait" ELSE "tcp wait") /\ held'[c] = server
      BY <1>a, <1>6
    <3>3. n # "udp" => lpc[server]["udp"] = "ended"
      BY <1>1, <1>3 DEF StopOrderly, Nets
    <3> QED
      BY <3>1, <3>2, <3>3
  <2>4. StopOrderly'
    BY <1>1, <1>2, <1>6, <2>3 DEF StopOrderly, Active
  <2> QED
    BY <2>1, <2>2, <2>4
<1>7. CASE ~started[server][n] /\ state' = "error" /\ StopEnds(c) /\ UNCHANGED <<started, held>>
  <2>1. first[server] # "none"
    <3>1. CASE n = "udp"
      BY <1>1, <1>3, <1>7, <3>1 DEF StopOrderly
    <3>2. CASE n # "udp"
      <4>1. lpc[server]["udp"] = "ended" /\ "udp" \in Nets
        BY <1>1, <1>3, <3>2 DEF StopOrderly, Nets
      <4>2. \E m \in Nets : lpc[server][m] = "ended"
        BY <4>1
      <4> QED
        BY <1>2, <4>2 DEF LifeInv, ListenersInv
    <3> QED
      BY <3>1, <3>2
  <2>2. RunnersOrderly'
    BY <1>1, <1>2, <1>3, <1>7, <2>1 DEF RunnersOrderly, Active
  <2>3. ServiceOrderly'
    BY <1>1, <1>5, <1>7 DEF ServiceOrderly
  <2>4. \A d \in Clients : cpc'[d] \notin {"look", "udp", "udp wait", "tcp", "tcp wait"}
    BY <1>a, <1>2, <1>7 DEF StopEnds
  <2>5. StopOrderly'
    BY <1>7, <2>4 DEF StopOrderly, StopEnds
  <2> QED
    BY <2>2, <2>3, <2>5
<1> QED
  BY <1>4, <1>6, <1>7, StopShutdownSteps DEF LifeInv

LEMMA WaitOrderly ==
    ASSUME LifeInv, OrderlyInv, NEW c \in Clients, ~raced',
           StopLook(c) \/ StopWaitUdp(c) \/ StopWaitTcp(c)
    PROVE  RunnersOrderly' /\ ServiceOrderly' /\ StopOrderly'
<1>a. cpc \in [Clients -> CPCs] /\ None \notin Runners
  BY RunnersAre DEF LifeInv, StateInv, ServiceTypeOK
<1>1. /\ InStop(c) /\ ~raced
      /\ UNCHANGED <<server, rpc, target, mux, lpc, first>>
  BY StopSteps DEF LifeInv, runners, history
<1>2. /\ mu /\ state = "running" /\ server \in Runners
      /\ \A r \in Runners : rpc[r] \notin Early /\ (r # server => ~Active(r))
      /\ \A m \in Nets : lpc[server][m] \in {"serving", "ended"}
      /\ rpc[server] \in HasListeners
      /\ \A d \in Clients : d # c => cpc[d] \notin {"look", "udp", "udp wait", "tcp", "tcp wait"}
  BY <1>1, StopAlone
<1>3. RunnersOrderly /\ ServiceOrderly /\ StopOrderly
  BY <1>1 DEF OrderlyInv
<1>4. mux' = server'
  BY <1>a, <1>1, <1>2, <1>3 DEF ServiceOrderly
<1>5. ASSUME NEW n \in Nets, held[c] = server, EndShutdown(c, n)
      PROVE  lpc[server][n] = "ended"
  <2>1. lpc[server][n] # "serving"
    <3> SUFFICES ASSUME lpc[server][n] = "serving"
                 PROVE  FALSE
      OBVIOUS
    <3>1. object[server][n] = server
      BY <1>2, <1>3, Own
    <3> QED
      BY <1>2, <1>5, <3>1 DEF EndShutdown, Serves
  <2> QED
    BY <1>2, <2>1
<1>6. ~StopLook(c)
  BY <1>3 DEF StopLook, StopOrderly
<1>7. CASE StopWaitUdp(c)
  <2>1. cpc[c] = "udp wait" /\ EndShutdown(c, "udp") /\ cpc' = [cpc EXCEPT ![c] = "tcp"]
        /\ UNCHANGED <<state, mu, started>>
    BY <1>7 DEF StopWaitUdp, Goto, service, listeners
  <2>2. lpc[server]["udp"] = "ended"
    BY <1>3, <1>5, <2>1 DEF StopOrderly, Nets
  <2>3. RunnersOrderly'
    BY <1>1, <1>2, <1>3, <2>1 DEF RunnersOrderly, Active
  <2>4. ServiceOrderly'
    BY <1>1, <1>2, <1>4, <2>1 DEF ServiceOrderly
  <2>5. \A d \in Clients : cpc'[d] \notin {"look", "udp", "udp wait", "tcp wait"}
    BY <1>a, <1>2, <2>1
  <2>6. StopOrderly'
    BY <1>1, <1>2, <2>1, <2>2, <2>5 DEF StopOrderly, Active
  <2> QED
    BY <2>3, <2>4, <2>6
<1>8. CASE StopWaitTcp(c)
  <2>1. /\ cpc[c] = "tcp wait" /\ EndShutdown(c, "tcp") /\ StopEnds(c) /\ state' = "stopped"
    BY <1>8 DEF StopWaitTcp, StopReturns, StopEnds, Goto
  <2>2. lpc[server]["tcp"] = "ended" /\ lpc[server]["udp"] = "ended"
    BY <1>3, <1>5, <2>1 DEF StopOrderly, Nets
  <2>3. first[server] # "none" /\ \A n \in Nets : lpc[server][n] = "ended"
    BY <1>2, <2>2 DEF LifeInv, ListenersInv, Nets
  <2>4. RunnersOrderly'
    BY <1>1, <1>2, <1>3, <2>1, <2>3 DEF RunnersOrderly, Active, StopEnds
  <2>5. \A r \in Runners, n \in Nets : lpc[r][n] \in {"none", "ended"}
    <3> SUFFICES ASSUME NEW r \in Runners, NEW n \in Nets
                 PROVE  lpc[r][n] \in {"none", "ended"}
      OBVIOUS
    <3>1. CASE r = server
      BY <2>3, <3>1
    <3>2. CASE rpc[r] = "none"
      BY <3>2 DEF LifeInv, StateInv, SpawnInv, HasListeners
    <3>3. CASE rpc[r] = "ended"
      BY <3>3 DEF LifeInv, ListenersInv
    <3> QED
      BY <1>2, <3>1, <3>2, <3>3 DEF Active
  <2>6. ServiceOrderly'
    BY <1>1, <1>4, <2>1, <2>5 DEF ServiceOrderly
  <2>7. \A d \in Clients : cpc'[d] \notin {"look", "udp", "udp wait", "tcp", "tcp wait"}
    BY <1>a, <1>2, <2>1 DEF StopEnds
  <2>8. StopOrderly'
    BY <2>1, <2>7 DEF StopOrderly, StopEnds
  <2> QED
    BY <2>4, <2>6, <2>8
<1> QED
  BY <1>6, <1>7, <1>8

\* What a runner's step keeps when no command is stopping the service.
LEMMA NoStop ==
    ASSUME LifeInv, ~mu
    PROVE  \A c \in Clients : cpc[c] \notin {"look", "udp", "udp wait", "tcp", "tcp wait"}
  BY DEF LifeInv, StateInv, MutexInv, InStop

LEMMA EarlyOrderly ==
    ASSUME LifeInv, OrderlyInv, NEW r \in Runners, Load(r) \/ Begin(r) \/ Spawn(r), ~raced'
    PROVE  RunnersOrderly' /\ ServiceOrderly' /\ StopOrderly'
<1>a. /\ rpc \in [Runners -> RPCs] /\ target \in [Runners -> Runners \cup {None}]
      /\ lpc \in [Runners -> [Nets -> LPCs]]
  BY DEF LifeInv, StateInv, ServiceTypeOK
<1>1. /\ rpc[r] \in Early /\ UNCHANGED <<state, server, mu, cpc, started, first, held, raced>>
  BY DEF Load, Begin, Spawn, Early, service, clients, listeners, history
<1>2. RunnersOrderly /\ ServiceOrderly /\ StopOrderly
  BY <1>1 DEF OrderlyInv
<1>3. r = server /\ state = "running" /\ ~mu
  BY <1>1, <1>2 DEF RunnersOrderly
<1>4. PICK l \in {"loaded", "begun", "udp"} : rpc' = [rpc EXCEPT ![r] = l]
  BY DEF Load, Begin, Spawn, Become
<1>5. /\ \A q \in Runners : rpc'[q] = IF q = r THEN l ELSE rpc[q]
      /\ l # "none" /\ l # "ended"
  BY <1>a, <1>4
<1>6. /\ \A q \in Runners : target'[q] \in {None, q}
  <2>1. CASE Load(r)
    BY <1>a, <1>2, <1>3, <2>1 DEF Load, RunnersOrderly
  <2>2. CASE ~Load(r)
    BY <1>2, <2>2 DEF Begin, Spawn, RunnersOrderly
  <2> QED
    BY <2>1, <2>2
<1>7. \A n \in Nets : lpc'[server][n] # "serving"
  <2>1. \A n \in Nets : lpc[server][n] = "none"
    BY <1>1, <1>3 DEF LifeInv, StateInv, SpawnInv, Early, HasListeners
  <2>2. CASE Spawn(r)
    BY <1>a, <1>3, <2>2 DEF Spawn
  <2>3. CASE ~Spawn(r)
    BY <2>1, <2>3 DEF Load, Begin, listeners
  <2> QED
    BY <2>2, <2>3
<1>8. rpc'[server] \in {"begun"} \cup HasListeners => mux' = server
  <2>1. CASE Load(r)
    BY <1>a, <1>3, <2>1 DEF Load, Become, HasListeners
  <2>2. CASE Begin(r)
    <3>1. target[r] = r
      BY <1>2, <2>2, Targets, RunnersAre DEF Begin, RunnersOrderly, LifeInv
    <3> QED
      BY <1>3, <2>2, <3>1 DEF Begin
  <2>3. CASE Spawn(r)
    <3>1. rpc[r] = "begun" /\ mux' = mux
      BY <2>3 DEF Spawn
    <3> QED
      BY <1>2, <1>3, <3>1, RunnersAre DEF ServiceOrderly
  <2> QED
    BY <2>1, <2>2, <2>3
<1>9. RunnersOrderly'
  BY <1>1, <1>2, <1>3, <1>5, <1>6 DEF RunnersOrderly, Active
<1>10. ServiceOrderly'
  BY <1>1, <1>2, <1>3, <1>5, <1>7, <1>8 DEF ServiceOrderly
<1>11. StopOrderly'
  BY <1>1, <1>3, NoStop DEF StopOrderly
<1> QED
  BY <1>9, <1>10, <1>11

\* A client is no runner: held is a function on both.
LEMMA LateOrderly ==
    ASSUME LifeInv, OrderlyInv, NEW r \in Runners, ~raced',
           (\E n \in Nets : Shutdown(r, n)) \/ WaitUdp(r) \/ WaitTcp(r)
    PROVE  RunnersOrderly' /\ ServiceOrderly' /\ StopOrderly'
<1> USE DnsServiceAssumption
<1>a. /\ rpc \in [Runners -> RPCs] /\ held \in [Clients \cup Runners -> Runners \cup {None}]
  BY DEF LifeInv, StateInv, ServiceTypeOK
<1>1. /\ UNCHANGED <<state, server, mu, cpc, target, mux, lpc, first>> /\ ~raced
      /\ rpc[r] \in HasListeners \ {"none", "ended"} /\ first[r] # "none"
  <2>1. ASSUME NEW n \in Nets, Shutdown(r, n)
        PROVE  <1>1
    BY <2>1 DEF Shutdown, HasListeners, Nets, service, clients, history
  <2>2. CASE WaitUdp(r) \/ WaitTcp(r)
    <3>1. first[r] # "none"
      BY <2>2 DEF WaitUdp, WaitTcp, PastUdp, LifeInv, ListenersInv
    <3>2. UNCHANGED <<state, server, mu, cpc, target, mux, lpc, first, raced>>
      BY <2>2 DEF WaitUdp, WaitTcp, service, clients, listeners, history
    <3>3. rpc[r] \in {"udp wait", "tcp wait"}
      BY <2>2 DEF WaitUdp, WaitTcp
    <3> QED
      BY <3>1, <3>2, <3>3 DEF HasListeners
  <2> QED
    BY <2>1, <2>2
<1>2. RunnersOrderly /\ ServiceOrderly /\ StopOrderly
  BY <1>1 DEF OrderlyInv
<1>3. \A c \in Clients : held'[c] = held[c]
  BY <1>a DEF Shutdown, WaitUdp, WaitTcp, BeginShutdown, EndShutdown
<1>4. first[r] # "none"
  BY <1>1
<1>5. PICK l \in HasListeners \ {"ended"} :
         \A q \in Runners : rpc'[q] = IF q = r THEN l ELSE rpc[q]
  BY <1>a DEF Shutdown, WaitUdp, WaitTcp, Become, HasListeners
<1>6. \A q \in Runners, m \in Nets : q # r => started'[q][m] = started[q][m]
  <2>1. ASSUME NEW n \in Nets, Shutdown(r, n)
        PROVE  \A q \in Runners, m \in Nets : q # r => started'[q][m] = started[q][m]
    <3>1. field[target[r]][n] = r
      BY <1>1, <1>2, Own
    <3>2. UNCHANGED started \/ ShutsDown(field[target[r]][n], n)
      BY <2>1, ShutdownSteps DEF LifeInv
    <3> QED
      BY <3>1, <3>2 DEF ShutsDown
  <2>2. CASE WaitUdp(r) \/ WaitTcp(r)
    BY <2>2 DEF WaitUdp, WaitTcp, listeners
  <2> QED
    BY <2>1, <2>2
<1>7. RunnersOrderly'
  <2>1. l \notin Early /\ l \notin {"none", "ended"} /\ rpc[r] \notin {"none", "ended"}
    BY <1>1 DEF Early, HasListeners
  <2> QED
    BY <1>1, <1>2, <1>5, <2>1 DEF RunnersOrderly, Active
<1>8. ServiceOrderly'
  <2>1. state = "running" => server \in Runners
    BY DEF LifeInv, StateInv, MutexInv, ServiceTypeOK
  <2>2. state = "running" /\ ~mu => rpc'[server] # "ended" /\ first[server] # "nil"
    BY <1>2, <1>5, <2>1 DEF ServiceOrderly
  <2>3. state = "running" /\ ~mu /\ first[server] = "none" =>
           \A n \in Nets : lpc[server][n] = "serving" => started'[server][n]
    BY <1>2, <1>4, <1>6, <2>1 DEF ServiceOrderly
  <2>4. server # None /\ rpc'[server] \in {"begun"} \cup HasListeners => mux = server
    <3>1. server # None => server \in Runners
      BY DEF LifeInv, StateInv, ServiceTypeOK
    <3> QED
      BY <1>1, <1>2, <1>5, <3>1 DEF ServiceOrderly
  <2> QED
    BY <1>1, <1>2, <2>2, <2>3, <2>4 DEF ServiceOrderly
<1>9. StopOrderly'
  <2>1. mu => /\ \A q \in Runners : q # server => rpc'[q] \in {"none", "ended"}
              /\ \A n \in Nets : lpc[server][n] \in {"serving", "ended"}
    BY <1>1, <1>2, <1>5 DEF StopOrderly, Active
  <2>2. ASSUME NEW c \in Clients, cpc[c] = "udp"
        PROVE  started'[server]["udp"] \/ first[server] # "none"
    <3>1. server \in Runners /\ "udp" \in Nets
      BY <2>2 DEF LifeInv, StateInv, MutexInv, ServiceTypeOK, InStop, Nets
    <3> QED
      BY <1>2, <1>4, <1>6, <2>2, <3>1 DEF StopOrderly
  <2> QED
    BY <1>1, <1>2, <1>3, <2>1, <2>2 DEF StopOrderly, Active
<1> QED
  BY <1>7, <1>8, <1>9

LEMMA JoinOrderly ==
    ASSUME LifeInv, OrderlyInv, NEW r \in Runners, Join(r), ~raced'
    PROVE  RunnersOrderly' /\ ServiceOrderly' /\ StopOrderly'
<1>a. rpc \in [Runners -> RPCs]
  BY DEF LifeInv, StateInv, ServiceTypeOK
<1>1. /\ rpc[r] = "join" /\ UNCHANGED <<server, mu, cpc, target, mux, field, started, lpc,
                                        object, first, held>>
      /\ ~raced /\ \/ first[r] = "nil" /\ state' = state
                   \/ first[r] = "error" /\ ~mu /\ state' = "error"
  BY DEF Join, clients, listeners, history
<1>2. RunnersOrderly /\ ServiceOrderly /\ StopOrderly
  BY <1>1 DEF OrderlyInv
<1>3. \A q \in Runners : rpc'[q] = IF q = r THEN "ended" ELSE rpc[q]
  BY <1>a DEF Join, Become
<1>4. mux' = server' \/ server' = None \/ rpc'[server'] \notin {"begun"} \cup HasListeners
  <2>1. CASE server \in Runners
    BY <1>1, <1>2, <1>3, <2>1 DEF ServiceOrderly, HasListeners
  <2>2. CASE server = None
    BY <1>1, <2>2
  <2> QED
    BY <2>1, <2>2 DEF LifeInv, StateInv, ServiceTypeOK
<1>5. CASE first[r] = "nil" /\ state' = state
  <2>1. RunnersOrderly'
    BY <1>1, <1>2, <1>3, <1>5 DEF RunnersOrderly, Active, Early
  <2>2. state = "running" /\ ~mu => r # server
    BY <1>2, <1>5 DEF ServiceOrderly
  <2>3. state = "running" => server \in Runners
    BY DEF LifeInv, StateInv, MutexInv, ServiceTypeOK
  <2>4. ServiceOrderly'
    BY <1>1, <1>2, <1>3, <1>4, <1>5, <2>2, <2>3 DEF ServiceOrderly
  <2>5. StopOrderly'
    BY <1>1, <1>2, <1>3 DEF StopOrderly, Active
  <2> QED
    BY <2>1, <2>4, <2>5
<1>6. CASE first[r] = "error" /\ ~mu /\ state' = "error"
  <2>1. r = server
    BY <1>1, <1>2, <1>6 DEF RunnersOrderly, Active
  <2>2. RunnersOrderly'
    BY <1>1, <1>2, <1>3, <1>6, <2>1 DEF RunnersOrderly, Active, Early
  <2>3. ServiceOrderly'
    BY <1>4, <1>6 DEF ServiceOrderly
  <2>4. StopOrderly'
    BY <1>1, <1>6, NoStop DEF StopOrderly
  <2> QED
    BY <2>2, <2>3, <2>4
<1> QED
  BY <1>1, <1>5, <1>6

LEMMA ListenerOrderly ==
    ASSUME LifeInv, OrderlyInv, NEW r \in Runners, NEW n \in Nets, ~raced',
           Listen(r, n) \/ ServeEnds(r, n) \/ ServeFails(r, n)
    PROVE  RunnersOrderly' /\ ServiceOrderly' /\ StopOrderly'
<1>1. /\ UNCHANGED <<state, server, mu, cpc, rpc, target, mux, held>> /\ ~raced
      /\ rpc[r] \in HasListeners
  BY ListenerSteps DEF LifeInv, service, clients, runners, history
<1>2. RunnersOrderly /\ ServiceOrderly /\ StopOrderly
  BY <1>1 DEF OrderlyInv
<1>3. /\ field[target[r]][n] = r
      /\ lpc[r][n] = "serving" => object[r][n] = r
  BY <1>1, <1>2, Own
<1>4. server # None => server \in Runners
  BY DEF LifeInv, StateInv, ServiceTypeOK
<1>5. state = "running" => server \in Runners
  BY <1>4 DEF LifeInv, StateInv, MutexInv
<1>6. CASE lpc[r][n] = "spawned" /\ Opens(r, n, r)
  <2>1. /\ first' = first
        /\ \A q \in Runners, m \in Nets :
             /\ lpc'[q][m] = IF q = r /\ m = n THEN "serving" ELSE lpc[q][m]
             /\ started'[q][m] = IF q = r /\ m = n THEN TRUE ELSE started[q][m]
    BY <1>6 DEF Opens
  <2>2. ~mu
    <3> SUFFICES ASSUME mu
                 PROVE  FALSE
      OBVIOUS
    <3>1. r # server
      BY <1>2, <1>6 DEF StopOrderly
    <3>2. rpc[r] = "ended"
      BY <1>1, <1>2, <3>1 DEF StopOrderly, Active, HasListeners
    <3> QED
      BY <1>6, <3>2 DEF LifeInv, ListenersInv
  <2>3. state # "stopped"
    BY <1>2, <1>6 DEF ServiceOrderly
  <2>4. RunnersOrderly'
    BY <1>1, <1>2, <2>1 DEF RunnersOrderly, Active
  <2>5. ServiceOrderly'
    BY <1>1, <1>2, <1>5, <2>1, <2>3 DEF ServiceOrderly
  <2>6. StopOrderly'
    BY <1>1, <2>2, NoStop DEF StopOrderly
  <2> QED
    BY <2>4, <2>5, <2>6
<1>7. ASSUME NEW e \in {"nil", "error"}, Closes(r, n, e),
             e = "nil" => lpc[r][n] = "serving" /\ ~started[r][n]
      PROVE  RunnersOrderly' /\ ServiceOrderly' /\ StopOrderly'
  <2>1. /\ \A q \in Runners, m \in Nets : lpc'[q][m] = IF q = r /\ m = n THEN "ended" ELSE lpc[q][m]
        /\ \A q \in Runners : first'[q] = IF q = r /\ first[r] = "none" THEN e ELSE first[q]
        /\ started' = started
    BY <1>7 DEF Closes
  <2>2. /\ \A q \in Runners : first[q] # "none" => first'[q] = first[q]
        /\ first'[r] # "none"
    BY <2>1
  <2>3. RunnersOrderly'
    BY <1>1, <1>2, <2>2 DEF RunnersOrderly, Active
  <2>4. ServiceOrderly'
    <3>1. state = "running" /\ ~mu => first'[server] # "nil"
      <4>1. state = "running" /\ ~mu /\ r = server /\ first[r] = "none" => e # "nil"
        BY <1>2, <1>7 DEF ServiceOrderly
      <4> QED
        BY <1>2, <1>5, <2>1, <4>1 DEF ServiceOrderly
    <3>2. state = "running" /\ ~mu /\ first'[server] = "none" =>
             \A m \in Nets : lpc'[server][m] = "serving" => started'[server][m]
      BY <1>2, <1>5, <2>1, <2>2 DEF ServiceOrderly
    <3>3. state = "stopped" => \A q \in Runners, m \in Nets : lpc'[q][m] \in {"none", "ended"}
      BY <1>2, <2>1 DEF ServiceOrderly
    <3> QED
      BY <1>1, <1>2, <3>1, <3>2, <3>3 DEF ServiceOrderly
  <2>5. StopOrderly'
    <3>1. mu => server \in Runners
      BY <1>5 DEF LifeInv, StateInv, MutexInv
    <3>2. \A c \in Clients : cpc[c] \in {"udp", "udp wait", "tcp", "tcp wait"} => server \in Runners
      BY <3>1 DEF LifeInv, StateInv, MutexInv, InStop
    <3>3. mu => \A m \in Nets : lpc'[server][m] \in {"serving", "ended"}
      BY <1>2, <2>1, <3>1 DEF StopOrderly
    <3>4. \A c \in Clients :
             /\ cpc[c] = "udp" => started[server]["udp"] \/ first'[server] # "none"
             /\ cpc[c] \in {"tcp", "tcp wait"} => lpc'[server]["udp"] = "ended"
      BY <1>2, <2>1, <2>2, <3>2 DEF StopOrderly, Nets
    <3> QED
      BY <1>1, <1>2, <2>1, <3>3, <3>4 DEF StopOrderly, Active
  <2> QED
    BY <2>3, <2>4, <2>5
<1> QED
  BY <1>3, <1>6, <1>7, ListenerSteps DEF LifeInv

LEMMA OrderlyInvariant == ServiceSpec => []OrderlyInv
<1>1. ServiceInit => OrderlyInv
  BY RunnersAre DEF ServiceInit, OrderlyInv, RunnersOrderly, ServiceOrderly, StopOrderly, Early,
     Active
<1>2. ASSUME LifeInv, OrderlyInv, [ServiceNext]_serviceVars
      PROVE  OrderlyInv'
  <2> SUFFICES ASSUME ~raced'
               PROVE  RunnersOrderly' /\ ServiceOrderly' /\ StopOrderly'
    BY DEF OrderlyInv
  <2> USE <1>2
  <2>1. CASE Idle
    <3>1. /\ UNCHANGED <<state, server, mu, raced, rpc, target, mux, field, started, lpc, object,
                         first, held>>
          /\ \A d \in Clients : \A l \in {"look", "udp", "udp wait", "tcp", "tcp wait"} :
                cpc'[d] = l <=> cpc[d] = l
      BY <2>1 DEF Idle, runners, listeners, history
    <3>2. RunnersOrderly /\ ServiceOrderly /\ StopOrderly
      BY <3>1 DEF OrderlyInv
    <3>3. RunnersOrderly' /\ ServiceOrderly'
      BY <3>1, <3>2 DEF RunnersOrderly, ServiceOrderly, Active
    <3>4. StopOrderly'
      BY <3>1, <3>2 DEF StopOrderly, Active
    <3> QED
      BY <3>3, <3>4
  <2>2. ASSUME NEW c \in Clients, StartInvalid(c) \/ StartServer(c) \/ Stop(c)
        PROVE  RunnersOrderly' /\ ServiceOrderly' /\ StopOrderly'
    BY <2>2, InvalidOrderly, StartOrderly, StopOrderlyBegins
  <2>3. ASSUME NEW c \in Clients,
               \/ StopLook(c) \/ (\E n \in Nets : StopListener(c, n))
               \/ StopWaitUdp(c) \/ StopWaitTcp(c)
        PROVE  RunnersOrderly' /\ ServiceOrderly' /\ StopOrderly'
    BY <2>3, ShutdownOrderly, WaitOrderly
  <2>4. ASSUME NEW r \in Runners, RunnerStep(r)
        PROVE  RunnersOrderly' /\ ServiceOrderly' /\ StopOrderly'
    BY <2>4, EarlyOrderly, LateOrderly, JoinOrderly DEF RunnerStep
  <2>5. ASSUME NEW r \in Runners, NEW n \in Nets,
               Listen(r, n) \/ ServeEnds(r, n) \/ ServeFails(r, n)
        PROVE  RunnersOrderly' /\ ServiceOrderly' /\ StopOrderly'
    BY <2>5, ListenerOrderly
  <2> QED
    BY <2>1, <2>2, <2>3, <2>4, <2>5, Cases DEF LifeInv, StateInv
<1> QED
  BY <1>1, <1>2, StateInvariant, FieldInvariant, ListenersInvariant, PTL DEF ServiceSpec, LifeInv

\* A stop that answers "stopped" has waited for every query (StopMeansQuiet of
\* the runs), for any number of clients and starts.
THEOREM StopWaitsForAll == ServiceSpec => []StopMeansQuiet
<1>1. OrderlyInv => StopMeansQuiet
  BY DEF OrderlyInv, ServiceOrderly, StopMeansQuiet, Serving
<1> QED
  BY <1>1, OrderlyInvariant, PTL

\* If also no runner shut down a listener before it came, then one whose turn has
\* passed is ending, and no dns.Server is started before its listener comes.
ShutInv ==
    ~raced /\ ~late =>
      \A r \in Runners, n \in Nets :
         /\ lpc[r][n] \in {"none", "spawned"} => ~started[r][n]
         /\ lpc[r][n] = "spawned" => ~Past(r, n)
         /\ lpc[r][n] = "serving" /\ Past(r, n) => ~started[r][n]

LEMMA NextShut == ASSUME LifeInv, OrderlyInv, ShutInv, [ServiceNext]_serviceVars PROVE ShutInv'
<1> SUFFICES ASSUME ~raced', ~late'
             PROVE  \A r \in Runners, n \in Nets :
                       /\ lpc'[r][n] \in {"none", "spawned"} => ~started'[r][n]
                       /\ lpc'[r][n] = "spawned" => ~Past(r, n)'
                       /\ lpc'[r][n] = "serving" /\ Past(r, n)' => ~started'[r][n]
  BY DEF ShutInv
<1> DEFINE Goal == \A r \in Runners, n \in Nets :
                      /\ lpc'[r][n] \in {"none", "spawned"} => ~started'[r][n]
                      /\ lpc'[r][n] = "spawned" => ~Past(r, n)'
                      /\ lpc'[r][n] = "serving" /\ Past(r, n)' => ~started'[r][n]
<1>a. /\ rpc \in [Runners -> RPCs] /\ lpc \in [Runners -> [Nets -> LPCs]]
  BY DEF LifeInv, StateInv, ServiceTypeOK
<1>b. ASSUME ~raced, ~late
      PROVE  /\ RunnersOrderly
             /\ \A r \in Runners, n \in Nets :
                  /\ lpc[r][n] \in {"none", "spawned"} => ~started[r][n]
                  /\ lpc[r][n] = "spawned" => ~Past(r, n)
                  /\ lpc[r][n] = "serving" /\ Past(r, n) => ~started[r][n]
  BY <1>b DEF OrderlyInv, ShutInv
<1>1. ASSUME UNCHANGED <<rpc, lpc, raced, late>>,
             \A r \in Runners, n \in Nets : started'[r][n] => started[r][n]
      PROVE  Goal
  BY <1>1, <1>b DEF Past
<1>2. ASSUME NEW c \in Clients, StartServer(c)
      PROVE  Goal
  <2>1. /\ ~raced /\ UNCHANGED <<lpc, started, late>>
        /\ \E r \in Runners : rpc' = [rpc EXCEPT ![r] = "spawned"]
    BY <1>2, StartSteps DEF LifeInv, listeners
  <2>2. \A r \in Runners, n \in Nets : Past(r, n)' => Past(r, n)
    BY <1>a, <2>1 DEF Past, PastUdp, PastTcp
  <2> QED
    BY <1>b, <2>1, <2>2
<1>3. ASSUME NEW c \in Clients, Stop(c)
      PROVE  Goal
  <2>1. ~raced /\ UNCHANGED <<rpc, lpc, started, late>>
    BY <1>3, StopBegins DEF LifeInv, runners, listeners
  <2> QED
    BY <1>b, <2>1 DEF Past
<1>4. ASSUME NEW c \in Clients, StopLook(c) \/ StopWaitUdp(c) \/ StopWaitTcp(c)
      PROVE  Goal
  BY <1>1, <1>4 DEF StopLook, StopWaitUdp, StopWaitTcp, runners, listeners, history
<1>5. ASSUME NEW c \in Clients, NEW n \in Nets, StopListener(c, n)
      PROVE  Goal
  <2>1. \A u \in Runners, m \in Nets : started'[u][m] => started[u][m]
    <3>1. UNCHANGED started \/ ShutsDown(field[server][n], n)
      BY <1>5, StopShutdownSteps DEF LifeInv
    <3> QED
      BY <3>1 DEF ShutsDown
  <2> QED
    BY <1>1, <1>5, <2>1 DEF StopListener, runners, history
<1>6. ASSUME NEW r \in Runners, NEW n \in Nets, Shutdown(r, n)
      PROVE  Goal
  <2>1. /\ ~raced /\ ~late /\ UNCHANGED lpc /\ lpc[r][n] # "spawned" /\ ~started'[r][n]
        /\ UNCHANGED started \/ ShutsDown(r, n)
    <3>1. raced' = raced /\ lpc' = lpc /\ rpc[r] = n
      BY <1>6, ShutdownSteps DEF LifeInv
    <3>2. late => late'
      BY <1>6 DEF Shutdown
    <3>3. rpc[r] \in HasListeners
      BY <3>1 DEF Nets, HasListeners
    <3>4. field[target[r]][n] = r
      BY <1>b, <3>1, <3>2, <3>3, Own
    <3>5. \/ /\ started[field[target[r]][n]][n]
             /\ ShutsDown(field[target[r]][n], n)
          \/ /\ ~started[field[target[r]][n]][n] /\ UNCHANGED started
             /\ late' = (late \/ lpc[r][n] = "spawned")
      BY <1>6, ShutdownSteps DEF LifeInv
    <3>6. \/ started[r][n] /\ ShutsDown(r, n)
          \/ ~started[r][n] /\ UNCHANGED started /\ lpc[r][n] # "spawned"
      BY <3>4, <3>5
    <3> QED
      BY <1>b, <3>1, <3>2, <3>6 DEF ShutsDown
  <2>2. \A q \in Runners, m \in Nets : Past(q, m)' => Past(q, m) \/ (q = r /\ m = n)
    BY <1>6, <1>a DEF Shutdown, Become, Past, PastUdp, PastTcp, Nets
  <2>3. \A u \in Runners, m \in Nets : started'[u][m] => started[u][m]
    BY <2>1 DEF ShutsDown
  <2> QED
    BY <1>b, <2>1, <2>2, <2>3
<1>7. ASSUME NEW r \in Runners, Load(r) \/ Begin(r) \/ WaitUdp(r) \/ WaitTcp(r) \/ Join(r)
      PROVE  Goal
  <2>1. ~raced /\ ~late /\ UNCHANGED <<lpc, started>>
    <3>1. UNCHANGED <<lpc, started, raced, late>>
      BY <1>7 DEF Load, Begin, WaitUdp, WaitTcp, Join, listeners, history
    <3> QED
      BY <3>1
  <2>2. \A q \in Runners, m \in Nets : Past(q, m)' => Past(q, m)
    BY <1>7, <1>a DEF Load, Begin, WaitUdp, WaitTcp, Join, Become, Past, PastUdp, PastTcp, Nets
  <2> QED
    BY <1>b, <2>1, <2>2
<1>8. ASSUME NEW r \in Runners, Spawn(r)
      PROVE  Goal
  <2>1. ~raced /\ ~late /\ UNCHANGED started /\ rpc[r] = "begun" /\ rpc' = [rpc EXCEPT ![r] = "udp"]
        /\ lpc' = [lpc EXCEPT ![r] = [n \in Nets |-> "spawned"]]
    BY <1>8 DEF Spawn, Become, history
  <2>2. \A q \in Runners, m \in Nets :
           /\ lpc'[q][m] = IF q = r THEN "spawned" ELSE lpc[q][m]
           /\ Past(q, m)' => Past(q, m) /\ q # r
    BY <1>a, <2>1 DEF Past, PastUdp, PastTcp
  <2>3. \A m \in Nets : lpc[r][m] = "none"
    BY <2>1 DEF LifeInv, StateInv, SpawnInv, HasListeners
  <2> QED
    BY <1>b, <2>1, <2>2, <2>3
<1>9. ASSUME NEW r \in Runners, NEW n \in Nets,
             Listen(r, n) \/ ServeEnds(r, n) \/ ServeFails(r, n)
      PROVE  Goal
  <2>1. UNCHANGED <<rpc, raced, late>> /\ rpc[r] \in HasListeners
    BY <1>9, ListenerSteps DEF LifeInv, runners, history
  <2>2. field[target[r]][n] = r
    BY <1>b, <2>1, Own
  <2>3. CASE lpc[r][n] = "spawned" /\ Opens(r, n, r)
    <3>1. \A q \in Runners, m \in Nets :
             /\ lpc'[q][m] = IF q = r /\ m = n THEN "serving" ELSE lpc[q][m]
             /\ started'[q][m] = IF q = r /\ m = n THEN TRUE ELSE started[q][m]
             /\ Past(q, m)' <=> Past(q, m)
      BY <2>1, <2>3 DEF Opens, Past
    <3> QED
      BY <1>b, <2>1, <2>3, <3>1
  <2>4. ASSUME NEW e, Closes(r, n, e)
        PROVE  Goal
    <3>1. /\ \A q \in Runners, m \in Nets :
               /\ lpc'[q][m] = IF q = r /\ m = n THEN "ended" ELSE lpc[q][m]
               /\ Past(q, m)' <=> Past(q, m)
          /\ started' = started
      BY <2>1, <2>4 DEF Closes, Past
    <3> QED
      BY <1>b, <2>1, <3>1
  <2> QED
    BY <1>9, <2>2, <2>3, <2>4, ListenerSteps DEF LifeInv
<1>10. CASE Idle
  BY <1>1, <1>10 DEF Idle, runners, listeners, history
<1>11. ASSUME NEW c \in Clients, StartInvalid(c)
       PROVE  Goal
  BY <1>1, <1>11 DEF StartInvalid, runners, listeners, history
<1> QED
  BY <1>2, <1>3, <1>4, <1>5, <1>6, <1>7, <1>8, <1>9, <1>10, <1>11, Cases
     DEF LifeInv, StateInv, RunnerStep

\* At rest a runner that no command and no Shutdown met is settled.
LEMMA RestSettles ==
    ASSUME LifeInv, OrderlyInv, ShutInv, AtRest, ~raced, ~late, NEW r \in Runners
    PROVE  Settled(r)
<1>1. RunnersOrderly
  BY DEF OrderlyInv
<1>2. ASSUME NEW n \in Nets, rpc[r] = "join", lpc[r][n] = "serving"
      PROVE  ~started[object[r][n]][n]
  <2>1. Past(r, n) /\ object[r][n] = r
    BY <1>1, <1>2, Own DEF Past, PastUdp, PastTcp
  <2> QED
    BY <1>2, <2>1 DEF ShutInv
<1> QED
  BY <1>2 DEF AtRest

\* A service at rest is what its sockets are (OrderlyStateMatchesSockets of the
\* runs), for any number of clients and starts.
THEOREM OrderlyStateIsThatOfTheSockets == ServiceSpec => []OrderlyStateMatchesSockets
<1>1. ServiceInit => ShutInv
  BY DEF ServiceInit, ShutInv
<1>2. ASSUME LifeInv, OrderlyInv, ShutInv
      PROVE  OrderlyStateMatchesSockets
  <2> SUFFICES ASSUME AtRest, ~raced, ~late
               PROVE  /\ state = "running" <=> server # None /\ Answers(server)
                      /\ state # "running" => \A n \in Nets : ~Serving(n)
    BY DEF OrderlyStateMatchesSockets
  <2>1. ~mu /\ RunnersOrderly /\ ServiceOrderly /\ \A r \in Runners : Settled(r)
    BY <1>2, RestSettles DEF AtRest, OrderlyInv
  <2>2. state # "running" => \A r \in Runners, n \in Nets : lpc[r][n] # "serving"
    <3> SUFFICES ASSUME state # "running", NEW r \in Runners, NEW n \in Nets, lpc[r][n] = "serving"
                 PROVE  FALSE
      OBVIOUS
    <3>1. rpc[r] # "none" /\ rpc[r] # "ended"
      BY <1>2 DEF LifeInv, StateInv, SpawnInv, ListenersInv, HasListeners
    <3>2. \A m \in Nets : lpc[r][m] = "serving"
      BY <2>1, <3>1 DEF Settled
    <3>3. first[r] # "none"
      BY <2>1, <3>1 DEF RunnersOrderly, Active
    <3> QED
      BY <1>2, <3>2, <3>3 DEF LifeInv, ListenersInv
  <2>3. state = "running" => server # None /\ Answers(server)
    <3> SUFFICES ASSUME state = "running"
                 PROVE  server # None /\ Answers(server)
      OBVIOUS
    <3>1. server \in Runners /\ server # None
      BY <1>2 DEF LifeInv, StateInv, MutexInv, ServiceTypeOK
    <3>2. rpc[server] # "none" /\ rpc[server] # "ended"
      BY <1>2, <2>1, <3>1, RunnersAre DEF ServiceOrderly, LifeInv, StateInv, StartsInv
    <3>3. rpc[server] = "udp" /\ \A n \in Nets : lpc[server][n] = "serving"
      BY <2>1, <3>1, <3>2 DEF Settled
    <3>4. mux = server
      BY <2>1, <3>1, <3>3 DEF ServiceOrderly, HasListeners
    <3>5. target[server] = server
      BY <1>2, <2>1, <3>1, <3>3, Own DEF HasListeners
    <3> QED
      BY <3>1, <3>3, <3>4, <3>5 DEF Answers
  <2>4. server # None /\ Answers(server) => state = "running"
    BY <2>2 DEF Answers, Nets
  <2> QED
    BY <2>2, <2>3, <2>4 DEF Serving
<1> QED
  BY <1>1, <1>2, NextShut, OrderlyInvariant, StateInvariant, FieldInvariant, ListenersInvariant,
     PTL DEF ServiceSpec, LifeInv
=============================================================================
