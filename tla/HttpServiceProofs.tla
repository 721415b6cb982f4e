-------------------------- MODULE HttpServiceProofs --------------------------
(* Theorems about HttpService, for any clients and number of commands.      *)
EXTENDS HttpService, TLAPS

USE DEF clients, runners

LEMMA RunnerFacts ==
    /\ None \notin Runners /\ Free \notin Runners /\ Foreign \notin Runners /\ Free # Foreign
    /\ None = Free
  BY HttpAssumption DEF None, Free, Foreign, Runners

(* What Shutdown makes of a runner.                                         *)
LEMMA ShutdownRunners ==
    ASSUME TypeOK, NEW c \in Clients, Shutdown(c)
    PROVE  /\ ToShutDown \in Runners
           /\ \A r \in Runners :
                rpc'[r] = IF rpc[r] = "serving" /\ listens[r] = ToShutDown
                          THEN "ended" ELSE rpc[r]
           /\ \A r \in Runners : inShutdown'[r] = (r = ToShutDown \/ inShutdown[r])
           /\ port' = IF port \in Runners /\ rpc[port] = "serving" /\ listens[port] = ToShutDown
                      THEN Free ELSE port
<1>1. ToShutDown \in Runners BY DEF Shutdown, ToShutDown, TypeOK
<1> QED BY <1>1 DEF Shutdown, TypeOK

LEMMA ClientTyped == ASSUME TypeOK, NEW c \in Clients, ClientStep(c) PROVE TypeOK'
<1>1. \A l \in CPCs : Goto(c, l) => cpc' \in [Clients -> CPCs] BY DEF Goto, TypeOK
<1>2. {"idle", "start", "check", "shutdown"} \subseteq CPCs BY DEF CPCs
<1>3. CASE StartRefused(c) BY <1>1, <1>2, <1>3 DEF StartRefused, TypeOK
<1>4. CASE Start(c)
  <2>1. rpc' \in [Runners -> RPCs] /\ server' \in Runners BY <1>4 DEF Start, TypeOK, RPCs
  <2> QED BY <1>1, <1>2, <1>4, <2>1 DEF Start, TypeOK
<1>5. CASE StopRefused(c) BY <1>1, <1>2, <1>5 DEF StopRefused, StopFailed, TypeOK
<1>6. CASE StopNothing(c)
  <2>1. raced' \in BOOLEAN BY <1>6 DEF StopNothing
  <2> QED BY <1>1, <1>2, <1>6, <2>1 DEF StopNothing, Stopped, TypeOK
<1>7. CASE Shutdown(c)
  <2>1. rpc' \in [Runners -> RPCs] BY <1>7 DEF Shutdown, TypeOK, RPCs
  <2>2. port' \in Runners \cup {Free, Foreign} BY <1>7 DEF Shutdown, TypeOK
  <2>3. raced' \in BOOLEAN BY <1>7 DEF Shutdown
  <2>4. inShutdown' \in [Runners -> BOOLEAN] BY <1>7 DEF Shutdown, TypeOK
  <2> QED BY <1>1, <1>2, <1>7, <2>1, <2>2, <2>3, <2>4 DEF Shutdown, TypeOK
<1>8. CASE StopEnd(c) BY <1>1, <1>2, <1>8 DEF StopEnd, Stopped, StopFailed, TypeOK
<1>9. CASE RestartCheck(c) BY <1>1, <1>2, <1>9 DEF RestartCheck, TypeOK
<1> QED BY <1>3, <1>4, <1>5, <1>6, <1>7, <1>8, <1>9 DEF ClientStep

(* The objects and who refers to them: an http.Server belongs to the Server *)
(* for which its runner made it, and is made, and shut down, only after     *)
(* that runner has read s.server.                                           *)
Early == {"none", "spawned"}
Unmade == Early \cup {"loaded"}

Owners ==
    /\ \A s \in Runners : httpOf[s] # None => target[httpOf[s]] = s /\ rpc[httpOf[s]] \notin Unmade
    /\ \A r \in Runners : inShutdown[r] => rpc[r] \notin Unmade
    /\ \A r \in Runners : rpc[r] = "made" => httpOf[target[r]] # None

Targets ==
    /\ \A r \in Runners : rpc[r] \in Early => target[r] = None
    /\ \A r \in Runners : rpc[r] \notin Early => target[r] \in Runners
    /\ \A r \in Runners : target[r] # None => rpc[target[r]] # "none"
    /\ server # None => rpc[server] # "none"
    /\ \A r \in Runners : rpc[r] # "none" => server # None

Listens ==
    /\ \A r \in Runners : listens[r] # None => target[listens[r]] = target[r] /\ rpc[r] \notin Unmade
    /\ \A r \in Runners : rpc[r] \in {"bound", "serving"} => listens[r] # None

HttpInv == TypeOK /\ Owners /\ Targets /\ Listens

LEMMA RunnerTyped == ASSUME HttpInv, NEW r \in Runners, RunnerStep(r) PROVE TypeOK'
<1>0. TypeOK BY DEF HttpInv
<1>1. CASE Load(r) BY <1>0, <1>1 DEF Load, TypeOK, RPCs
<1>2. CASE Make(r)
  <2>1. httpOf' \in [Runners -> Runners \cup {None}] BY <1>0, <1>2 DEF Make, TypeOK
  <2>2. rpc' \in [Runners -> RPCs] BY <1>0, <1>2 DEF Make, TypeOK, RPCs
  <2> QED BY <1>0, <1>2, <2>1, <2>2 DEF Make, TypeOK
<1>3. CASE Listen(r)
  <2>1. target[r] \in Runners BY <1>3 DEF HttpInv, Targets, Listen, Early
  <2>2. httpOf[target[r]] \in Runners \cup {None} BY <1>0, <2>1 DEF TypeOK
  <2>3. listens' \in [Runners -> Runners \cup {None}] BY <1>0, <1>3, <2>2 DEF Listen, TypeOK
  <2>4. rpc' \in [Runners -> RPCs] /\ port' \in Runners \cup {Free, Foreign}
    BY <1>0, <1>3 DEF Listen, TypeOK, RPCs
  <2> QED BY <1>0, <1>3, <2>3, <2>4 DEF Listen, TypeOK
<1>4. CASE Serve(r)
  <2>1. rpc' \in [Runners -> RPCs] /\ port' \in Runners \cup {Free, Foreign}
    BY <1>0, <1>4 DEF Serve, TypeOK, RPCs
  <2> QED BY <1>0, <1>4, <2>1 DEF Serve, TypeOK
<1>5. CASE SetError(r) BY <1>0, <1>5 DEF SetError, TypeOK, RPCs
<1> QED BY <1>1, <1>2, <1>3, <1>4, <1>5 DEF RunnerStep

LEMMA NextTyped == ASSUME HttpInv, [Next]_vars PROVE TypeOK'
<1>0. TypeOK BY DEF HttpInv
<1>1. ASSUME NEW c \in Clients, NEW a \in Commands, Command(c, a) PROVE TypeOK'
  <2>1. commands' \in 0..MaxCommands BY <1>0, <1>1, HttpAssumption DEF Command, TypeOK
  <2>2. cpc' \in [Clients -> CPCs] BY <1>0, <1>1 DEF Command, Goto, TypeOK, CPCs
  <2> QED BY <1>0, <1>1, <2>1, <2>2 DEF Command, TypeOK
<1>2. CASE \E c \in Clients : ClientStep(c) BY <1>0, <1>2, ClientTyped
<1>3. CASE \E r \in Runners : RunnerStep(r) BY <1>3, RunnerTyped
<1>4. CASE ForeignTake BY <1>0, <1>4 DEF ForeignTake, TypeOK
<1>5. CASE UNCHANGED vars BY <1>0, <1>5 DEF vars, TypeOK
<1> QED BY <1>1, <1>2, <1>3, <1>4, <1>5 DEF Next

(* Commands, clients and other programs that leave the runners alone.       *)
RunnersStill == UNCHANGED <<server, runners>>

LEMMA StillKept == ASSUME HttpInv, RunnersStill PROVE Owners' /\ Targets' /\ Listens'
  BY DEF HttpInv, RunnersStill, Owners, Targets, Listens

LEMMA StartKept == ASSUME HttpInv, NEW c \in Clients, Start(c) PROVE Owners' /\ Targets' /\ Listens'
<1>1. PICK q \in Runners :
        /\ rpc[q] = "none" /\ server' = q
        /\ rpc' = [rpc EXCEPT ![q] = "spawned"]
        /\ UNCHANGED <<target, httpOf, inShutdown, listens>>
  BY DEF Start
<1>2. \A r \in Runners : rpc'[r] = IF r = q THEN "spawned" ELSE rpc[r]
  BY <1>1 DEF HttpInv, TypeOK
<1>3. Owners' BY <1>1, <1>2, RunnerFacts DEF HttpInv, TypeOK, Owners, Unmade, Early
<1>4. Targets' BY <1>1, <1>2, RunnerFacts DEF HttpInv, TypeOK, Targets, Early
<1>5. Listens' BY <1>1, <1>2, RunnerFacts DEF HttpInv, TypeOK, Listens, Unmade, Early
<1> QED BY <1>3, <1>4, <1>5

LEMMA ShutdownKept ==
    ASSUME HttpInv, NEW c \in Clients, Shutdown(c) PROVE Owners' /\ Targets' /\ Listens'
<1>1. UNCHANGED <<server, target, httpOf, listens>> BY DEF Shutdown
<1>2. \A r \in Runners : (rpc'[r] \in Unmade \cup {"made"} \/ rpc[r] \in Unmade \cup {"made"})
                           => rpc'[r] = rpc[r]
  BY ShutdownRunners DEF HttpInv, Unmade, Early
<1>3. \A r \in Runners : inShutdown'[r] => inShutdown[r] \/ r = ToShutDown
  BY ShutdownRunners DEF HttpInv
<1>4. rpc[ToShutDown] \notin Unmade
  BY RunnerFacts DEF Shutdown, ToShutDown, HttpInv, TypeOK, Owners
<1>5. \A r \in Runners : rpc'[r] = rpc[r] \/ rpc'[r] = "ended" BY ShutdownRunners DEF HttpInv
<1>6. Owners'
  BY <1>1, <1>2, <1>3, <1>4, RunnerFacts DEF HttpInv, TypeOK, Owners, Unmade, Early
<1>7. Targets' BY <1>1, <1>2, RunnerFacts DEF HttpInv, TypeOK, Targets, Unmade, Early
<1>8. Listens'
  BY <1>1, <1>2, <1>5, RunnerFacts DEF HttpInv, TypeOK, Listens, Unmade, Early
<1> QED BY <1>6, <1>7, <1>8

LEMMA ClientKept ==
    ASSUME HttpInv, NEW c \in Clients, ClientStep(c) PROVE Owners' /\ Targets' /\ Listens'
<1>1. CASE RunnersStill BY <1>1, StillKept
<1> QED
  BY <1>1, StartKept, ShutdownKept
  DEF ClientStep, StartRefused, StopRefused, StopNothing, StopEnd, RestartCheck, RunnersStill

LEMMA RunnerKept ==
    ASSUME HttpInv, NEW r \in Runners, RunnerStep(r) PROVE Owners' /\ Targets' /\ Listens'
<1>0. TypeOK /\ server' = server /\ inShutdown' = inShutdown
  BY DEF HttpInv, RunnerStep, Load, Make, Listen, Serve, SetError
<1>1. CASE Load(r)
  <2>1. server \in Runners BY <1>0, <1>1 DEF Load, HttpInv, Targets, TypeOK
  <2>2. /\ target' = [target EXCEPT ![r] = server] /\ rpc' = [rpc EXCEPT ![r] = "loaded"]
        /\ rpc[r] = "spawned" /\ UNCHANGED <<httpOf, listens>>
    BY <1>1 DEF Load
  <2>3. \A q \in Runners : q # r => target'[q] = target[q] /\ rpc'[q] = rpc[q]
    BY <1>0, <2>2 DEF TypeOK
  <2>4. target'[r] = server /\ rpc'[r] = "loaded" BY <1>0, <2>2 DEF TypeOK
  <2>5. Owners'
    BY <1>0, <2>1, <2>2, <2>3, <2>4, RunnerFacts DEF HttpInv, TypeOK, Owners, Targets, Unmade, Early
  <2>6. Targets'
    BY <1>0, <2>1, <2>2, <2>3, <2>4, RunnerFacts DEF HttpInv, TypeOK, Targets, Early
  <2>7. Listens'
    <3>1. \A q \in Runners : listens[q] # None => listens[q] \in Runners /\ q # r /\ listens[q] # r
      BY <1>0, <2>2, RunnerFacts DEF HttpInv, TypeOK, Listens, Targets, Unmade, Early
    <3> QED BY <2>2, <2>3, <2>4, <3>1 DEF HttpInv, Listens, Unmade, Early
  <2> QED BY <2>5, <2>6, <2>7
<1>2. CASE Make(r)
  <2>1. target[r] \in Runners BY <1>2 DEF Make, HttpInv, Targets, Early
  <2>2. rpc[r] = "loaded" /\ rpc'[r] \in {"made", "ended"} /\ UNCHANGED <<target, listens>>
    BY <1>0, <1>2 DEF Make, TypeOK
  <2>3. \A q \in Runners : q # r => rpc'[q] = rpc[q] BY <1>0, <1>2 DEF Make, TypeOK
  <2>4. \/ httpOf' = httpOf /\ rpc'[r] = "ended"
        \/ httpOf' = [httpOf EXCEPT ![target[r]] = r]
    BY <1>0, <1>2 DEF Make, TypeOK
  <2>5. Owners'
    <3>1. CASE httpOf' = httpOf /\ rpc'[r] = "ended"
      BY <1>0, <2>2, <2>3, <3>1, RunnerFacts DEF HttpInv, TypeOK, Owners, Unmade, Early
    <3>2. CASE httpOf' = [httpOf EXCEPT ![target[r]] = r]
      BY <1>0, <2>1, <2>2, <2>3, <3>2, RunnerFacts
      DEF HttpInv, TypeOK, Owners, Targets, Unmade, Early
    <3> QED BY <2>4, <3>1, <3>2
  <2>6. Targets' BY <1>0, <2>2, <2>3 DEF HttpInv, TypeOK, Targets, Early
  <2>7. Listens' BY <1>0, <2>2, <2>3 DEF HttpInv, TypeOK, Listens, Unmade, Early
  <2> QED BY <2>5, <2>6, <2>7
<1>3. CASE Listen(r)
  <2>1. /\ rpc[r] = "made" /\ target[r] \in Runners
        /\ httpOf[target[r]] \in Runners /\ target[httpOf[target[r]]] = target[r]
    BY <1>0, <1>3 DEF Listen, HttpInv, TypeOK, Owners, Targets, Early
  <2>2. /\ rpc'[r] \in {"ended", "bound", "failed"} /\ UNCHANGED <<target, httpOf>>
        /\ listens' = [listens EXCEPT ![r] = httpOf[target[r]]]
    BY <1>0, <1>3 DEF Listen, TypeOK
  <2>3. \A q \in Runners : q # r => rpc'[q] = rpc[q] BY <1>0, <1>3 DEF Listen, TypeOK
  <2>4. Owners' BY <1>0, <2>1, <2>2, <2>3 DEF HttpInv, TypeOK, Owners, Unmade, Early
  <2>5. Targets' BY <1>0, <2>1, <2>2, <2>3 DEF HttpInv, TypeOK, Targets, Early
  <2>6. Listens'
    BY <1>0, <2>1, <2>2, <2>3, RunnerFacts DEF HttpInv, TypeOK, Listens, Unmade, Early
  <2> QED BY <2>4, <2>5, <2>6
<1>4. CASE Serve(r) \/ SetError(r)
  <2>1. /\ rpc[r] \in {"bound", "failed"} /\ rpc'[r] \in {"ended", "serving"}
        /\ rpc'[r] = "serving" => rpc[r] = "bound"
        /\ UNCHANGED <<target, httpOf, listens>>
    BY <1>0, <1>4 DEF Serve, SetError, TypeOK
  <2>2. \A q \in Runners : q # r => rpc'[q] = rpc[q] BY <1>0, <1>4 DEF Serve, SetError, TypeOK
  <2>3. Owners' BY <1>0, <2>1, <2>2 DEF HttpInv, TypeOK, Owners, Unmade, Early
  <2>4. Targets' BY <1>0, <2>1, <2>2 DEF HttpInv, TypeOK, Targets, Early
  <2>5. Listens' BY <1>0, <2>1, <2>2 DEF HttpInv, TypeOK, Listens, Unmade, Early
  <2> QED BY <2>3, <2>4, <2>5
<1> QED BY <1>1, <1>2, <1>3, <1>4 DEF RunnerStep

LEMMA NextHttp == ASSUME HttpInv, [Next]_vars PROVE HttpInv'
<1>1. Owners' /\ Targets' /\ Listens'
  <2>1. CASE RunnersStill BY <2>1, StillKept
  <2> QED BY <2>1, ClientKept, RunnerKept DEF Next, Command, ForeignTake, vars, RunnersStill
<1> QED BY <1>1, NextTyped DEF HttpInv

LEMMA InitHttp == Init => HttpInv
<1> SUFFICES ASSUME Init PROVE HttpInv OBVIOUS
<1>0. commands \in 0..MaxCommands BY HttpAssumption DEF Init
<1>1. TypeOK BY <1>0 DEF Init, TypeOK, Commands, CPCs, RPCs
<1> QED BY <1>1 DEF Init, HttpInv, Owners, Targets, Listens, Early

(* Every variable keeps its type, for any number of commands and clients.   *)
THEOREM TypeCorrect == Spec => []TypeOK
  BY InitHttp, NextHttp, PTL DEF Spec, HttpInv

-----------------------------------------------------------------------------
(* The port.                                                                *)
LEMMA NextOne == ASSUME HttpInv, OneListener, [Next]_vars PROVE OneListener'
<1>0. TypeOK BY DEF HttpInv
<1>1. CASE UNCHANGED <<rpc, port>> BY <1>1 DEF OneListener
<1>2. ASSUME NEW c \in Clients, Start(c) PROVE OneListener'
  BY <1>0, <1>2 DEF Start, OneListener, TypeOK
<1>3. ASSUME NEW c \in Clients, Shutdown(c) PROVE OneListener'
  BY <1>0, <1>3, ShutdownRunners, RunnerFacts DEF OneListener
<1>4. ASSUME NEW r \in Runners, RunnerStep(r) PROVE OneListener'
  <2>1. CASE Load(r) BY <1>0, <2>1 DEF Load, OneListener, TypeOK
  <2>2. CASE Make(r) BY <1>0, <2>2 DEF Make, OneListener, TypeOK
  <2>3. CASE Listen(r) BY <1>0, <2>3, RunnerFacts DEF Listen, OneListener, TypeOK
  <2>4. CASE Serve(r) BY <1>0, <2>4, RunnerFacts DEF Serve, OneListener, TypeOK
  <2>5. CASE SetError(r) BY <1>0, <2>5 DEF SetError, OneListener, TypeOK
  <2> QED BY <1>4, <2>1, <2>2, <2>3, <2>4, <2>5 DEF RunnerStep
<1>5. CASE ForeignTake BY <1>5, RunnerFacts DEF ForeignTake, OneListener
<1> QED
  BY <1>1, <1>2, <1>3, <1>4, <1>5
  DEF Next, vars, Command, ClientStep, StartRefused, StopRefused, StopNothing, StopEnd,
      RestartCheck

LEMMA InitOne == Init => OneListener
  BY RunnerFacts DEF Init, OneListener

(* The port belongs to the one runner that is bound to it, whatever orphans *)
(* stops and late runners leave behind.                                     *)
THEOREM OneRunnerListens == Spec => []OneListener
  BY InitHttp, NextHttp, InitOne, NextOne, PTL DEF Spec

-----------------------------------------------------------------------------
(* While the service says "running", the runner of its last start is alive, *)
(* for the Server of that start, and no http.Server of it was shut down.    *)
Live ==
    enabled /\ state = "running" /\ ~mu =>
        /\ server \in Runners
        /\ rpc[server] # "ended"
        /\ rpc[server] # "spawned" => target[server] = server
        /\ \A r \in Runners : target[r] = server => ~inShutdown[r]

LEMMA RunnerLive == ASSUME HttpInv, Live, NEW r \in Runners, RunnerStep(r) PROVE Live'
<1>0. TypeOK /\ UNCHANGED <<enabled, mu, server, inShutdown>>
  BY DEF HttpInv, RunnerStep, Load, Make, Listen, Serve, SetError
<1> SUFFICES ASSUME enabled, state' = "running", ~mu
             PROVE  /\ server \in Runners
                    /\ rpc'[server] # "ended"
                    /\ rpc'[server] # "spawned" => target'[server] = server
                    /\ \A q \in Runners : target'[q] = server => ~inShutdown[q]
  BY <1>0 DEF Live
<1>1. state = "running"
  BY DEF RunnerStep, Load, Make, Listen, Serve, SetError
<1>2. /\ server \in Runners /\ rpc[server] # "ended"
      /\ rpc[server] # "spawned" => target[server] = server
      /\ \A q \in Runners : target[q] = server => ~inShutdown[q]
      /\ rpc[server] # "none" /\ server # None
  BY <1>0, <1>1, RunnerFacts DEF Live, HttpInv, Targets
<1>3. CASE Load(r)
  <2>1. ~inShutdown[r] BY <1>3 DEF Load, HttpInv, Owners, Unmade, Early
  <2> QED BY <1>0, <1>2, <1>3, <2>1 DEF Load, TypeOK
<1>4. CASE Make(r) BY <1>0, <1>2, <1>4 DEF Make, TypeOK
<1>5. CASE Listen(r)
  <2>1. /\ target[r] \in Runners /\ httpOf[target[r]] \in Runners
        /\ target[httpOf[target[r]]] = target[r]
    BY <1>0, <1>5 DEF Listen, HttpInv, TypeOK, Owners, Targets, Early
  <2>2. r = server => ~inShutdown[httpOf[target[r]]] BY <1>2, <1>5, <2>1 DEF Listen
  <2> QED BY <1>0, <1>2, <1>5, <2>2 DEF Listen, TypeOK
<1>6. CASE Serve(r)
  <2>1. listens[r] \in Runners /\ target[listens[r]] = target[r]
    BY <1>0, <1>6 DEF Serve, HttpInv, Listens, TypeOK
  <2>2. r = server => ~inShutdown[listens[r]] BY <1>2, <1>6, <2>1 DEF Serve
  <2> QED BY <1>0, <1>2, <1>6, <2>2 DEF Serve, TypeOK
<1>7. CASE SetError(r) BY <1>7 DEF SetError
<1> QED BY <1>3, <1>4, <1>5, <1>6, <1>7 DEF RunnerStep

LEMMA NextLive == ASSUME HttpInv, Live, [Next]_vars PROVE Live'
<1>0. TypeOK BY DEF HttpInv
<1>1. CASE UNCHANGED <<enabled, state, mu, server, runners>> BY <1>1 DEF Live
<1>2. ASSUME NEW c \in Clients, Start(c) PROVE Live'
  <2>1. PICK q \in Runners :
          /\ rpc[q] = "none" /\ server' = q
          /\ rpc' = [rpc EXCEPT ![q] = "spawned"]
          /\ UNCHANGED <<target, inShutdown>>
    BY <1>2 DEF Start
  <2>2. rpc'[q] = "spawned" BY <1>0, <2>1 DEF TypeOK
  <2>3. \A r \in Runners : target[r] # q
    BY <2>1, RunnerFacts DEF HttpInv, Targets
  <2> QED BY <2>1, <2>2, <2>3 DEF Live
<1>3. ASSUME NEW c \in Clients, StopNothing(c) PROVE Live' BY <1>3 DEF StopNothing, Live
<1>4. ASSUME NEW c \in Clients, Shutdown(c) PROVE Live' BY <1>4 DEF Shutdown, Live
<1>5. ASSUME NEW c \in Clients, StopEnd(c) PROVE Live' BY <1>5 DEF StopEnd, Live
<1>6. CASE \E r \in Runners : RunnerStep(r) BY <1>6, RunnerLive
<1> QED
  BY <1>1, <1>2, <1>3, <1>4, <1>5, <1>6
  DEF Next, vars, Command, ClientStep, StartRefused, StopRefused, RestartCheck, ForeignTake

LEMMA InitLive == Init => Live
  BY DEF Init, Live

LEMMA LiveListens == ASSUME HttpInv, OneListener, Live PROVE RunningMeansListening
<1> SUFFICES ASSUME enabled, AtRest, state = "running"
             PROVE  port \in Runners /\ rpc[port] = "serving"
  BY DEF RunningMeansListening
<1>1. server \in Runners /\ rpc[server] # "ended" /\ ~Unsettled
  BY DEF Live, AtRest
<1>2. rpc[server] # "none" BY <1>1, RunnerFacts DEF HttpInv, Targets
<1>3. rpc[server] = "serving" BY <1>1, <1>2 DEF Unsettled, Settled
<1> QED BY <1>1, <1>3 DEF OneListener

(* An enabled service that reports "running" at rest does listen, although  *)
(* runners read s.server without the mutex and report failures late.        *)
THEOREM RunningServiceListens == Spec => []RunningMeansListening
  BY InitHttp, NextHttp, InitOne, NextOne, InitLive, NextLive, LiveListens, PTL DEF Spec

-----------------------------------------------------------------------------
(* As long as no stop has met a runner that was not settled, the only       *)
(* runner alive is the one of the last start, and it alone has a part in    *)
(* the Server and in the http.Server that a stop would reach.               *)
Orderly ==
    ~raced => \A r \in Runners :
        rpc[r] \notin {"none", "ended"} =>
            /\ r = server /\ state = "running" /\ ~mu
            /\ rpc[r] # "spawned" => target[r] = r
            /\ rpc[r] \in {"made", "bound", "serving", "failed"} => httpOf[r] = r
            /\ rpc[r] \in {"bound", "serving"} => listens[r] = r

(* The client in a Shutdown has the mutex.                                  *)
MutexHeld ==
    /\ \A c \in Clients : cpc[c] = "shutdown" => mu
    /\ \A c, d \in Clients : cpc[c] = "shutdown" /\ cpc[d] = "shutdown" => c = d

LEMMA NextMutex == ASSUME HttpInv, MutexHeld, [Next]_vars PROVE MutexHeld'
<1>0. cpc \in [Clients -> CPCs] BY DEF HttpInv, TypeOK
<1>1. CASE UNCHANGED <<cpc, mu>> BY <1>1 DEF MutexHeld
<1>2. ASSUME NEW c \in Clients, NEW a \in Commands, Command(c, a) PROVE MutexHeld'
  BY <1>0, <1>2 DEF Command, Goto, MutexHeld
<1>3. ASSUME NEW c \in Clients, Shutdown(c) PROVE MutexHeld'
  BY <1>0, <1>3 DEF Shutdown, Goto, MutexHeld
<1>4. ASSUME NEW c \in Clients, StopEnd(c) PROVE MutexHeld'
  BY <1>0, <1>4 DEF StopEnd, Stopped, StopFailed, Goto, MutexHeld
<1>5. ASSUME NEW c \in Clients,
             StartRefused(c) \/ Start(c) \/ StopRefused(c) \/ StopNothing(c) \/ RestartCheck(c)
      PROVE  MutexHeld'
  BY <1>0, <1>5
  DEF StartRefused, Start, StopRefused, StopNothing, RestartCheck, Stopped, StopFailed, Goto,
      MutexHeld
<1> QED
  BY <1>1, <1>2, <1>3, <1>4, <1>5
  DEF Next, vars, ClientStep, RunnerStep, Load, Make, Listen, Serve, SetError, ForeignTake

LEMMA InitMutex == Init => MutexHeld
  BY DEF Init, MutexHeld

LEMMA NextOrderly == ASSUME HttpInv, MutexHeld, Orderly, [Next]_vars PROVE Orderly'
<1>0. TypeOK BY DEF HttpInv
<1>1. CASE UNCHANGED <<state, mu, server, runners, raced>> BY <1>1 DEF Orderly
<1>2. ASSUME NEW c \in Clients, Start(c) PROVE Orderly'
  BY <1>0, <1>2 DEF Start, Orderly, TypeOK
<1>3. ASSUME NEW c \in Clients, StopNothing(c) PROVE Orderly'
  <2> SUFFICES ASSUME ~raced, ~Unsettled, NEW r \in Runners, rpc[r] \notin {"none", "ended"}
               PROVE  FALSE
    BY <1>3 DEF StopNothing, Orderly
  <2>1. rpc[r] = "serving" BY DEF Unsettled, Settled
  <2>2. r = server /\ httpOf[r] = r BY <2>1 DEF Orderly
  <2> QED BY <1>3, <2>2, RunnerFacts DEF StopNothing, ToShutDown
<1>4. ASSUME NEW c \in Clients, Shutdown(c) PROVE Orderly'
  <2> SUFFICES ASSUME ~raced, ~Unsettled, NEW r \in Runners, rpc'[r] \notin {"none", "ended"}
               PROVE  FALSE
    BY <1>4 DEF Shutdown, Orderly
  <2>1. rpc[r] = "serving" /\ listens[r] # ToShutDown
    BY <1>0, <1>4, ShutdownRunners DEF Unsettled, Settled
  <2>2. r = server /\ httpOf[r] = r /\ listens[r] = r BY <2>1 DEF Orderly
  <2> QED BY <2>1, <2>2, RunnerFacts DEF ToShutDown
<1>5. ASSUME NEW c \in Clients, StopEnd(c) PROVE Orderly'
  <2>1. mu BY <1>5 DEF StopEnd, MutexHeld
  <2> QED BY <1>5, <2>1 DEF StopEnd, Orderly
<1>6. ASSUME NEW r \in Runners, RunnerStep(r) PROVE Orderly'
  <2>1. CASE Load(r) BY <1>0, <2>1 DEF Load, Orderly, TypeOK
  <2>2. CASE Make(r) BY <1>0, <2>2 DEF Make, Orderly, TypeOK
  <2>3. CASE Listen(r) BY <1>0, <2>3 DEF Listen, Orderly, TypeOK
  <2>4. CASE Serve(r) BY <1>0, <2>4 DEF Serve, Orderly, TypeOK
  <2>5. CASE SetError(r) BY <1>0, <2>5 DEF SetError, Orderly, TypeOK
  <2> QED BY <1>6, <2>1, <2>2, <2>3, <2>4, <2>5 DEF RunnerStep
<1> QED
  BY <1>1, <1>2, <1>3, <1>4, <1>5, <1>6
  DEF Next, vars, Command, ClientStep, StartRefused, StopRefused, RestartCheck, ForeignTake

LEMMA InitOrderly == Init => Orderly
  BY DEF Init, Orderly

(* When commands wait for runners to settle, the reported state is right in *)
(* both directions, after failures to bind and timeouts of Shutdown too.    *)
THEOREM OrderlyStateIsRight == Spec => []OrderlyStateMatchesPort
<1>1. HttpInv /\ OneListener /\ Live /\ Orderly => OrderlyStateMatchesPort
  <2> SUFFICES ASSUME HttpInv, OneListener, Live, Orderly, enabled, AtRest, ~raced
               PROVE  state = "running" <=> port \in Runners
    BY DEF OrderlyStateMatchesPort
  <2>1. state = "running" => port \in Runners BY LiveListens DEF RunningMeansListening
  <2>2. port \in Runners => state = "running" BY DEF OneListener, Orderly
  <2> QED BY <2>1, <2>2
<1> QED
  BY <1>1, InitHttp, NextHttp, InitOne, NextOne, InitLive, NextLive, InitMutex,
     NextMutex, InitOrderly, NextOrderly, PTL DEF Spec
=============================================================================
