---------------------------- MODULE ProgramProofs ----------------------------
(***************************************************************************)
(* Theorems about Program, for every list of services, any number of       *)
(* processes and every fault: of what a crash leaves only half a           *)
(* configuration and half a root certificate keep a later start from       *)
(* coming up, no service runs from half a configuration, the               *)
(* sockets lead to the process that serves, and an orderly end leaves no   *)
(* service on that the process had stopped.                                *)
(***************************************************************************)
EXTENDS Program, TLAPS

-----------------------------------------------------------------------------
(* Types.                                                                   *)

\* A function of processes and services that changes in one place.
LEMMA UpdateOne ==
    ASSUME NEW S, NEW R, NEW T, NEW f \in [S -> [R -> T]], NEW x \in S, NEW z \in R, NEW y \in T
    PROVE  [f EXCEPT ![x][z] = y] \in [S -> [R -> T]]
OBVIOUS

\* The order holds the names, and there is one.
LEMMA OrderIs ==
    /\ Order \in Seq(Names) /\ Len(Order) \in Nat /\ Len(Order) > 0
    /\ \A i \in 1..Len(Order) : Order[i] \in Names
    /\ \A s \in Names : \E i \in 1..Len(Order) : Order[i] = s
<1>1. Order \in Seq(Names) /\ Order # <<>>
  BY ProgramAssumption
<1>2. Len(Order) \in Nat /\ DOMAIN Order = 1..Len(Order)
  BY <1>1
<1>3. Len(Order) > 0
  BY <1>1, <1>2
<1> QED
  BY <1>1, <1>2, <1>3 DEF Names

LEMMA TypeInit == Init => TypeOK
BY OrderIs, ProgramAssumption DEF Init, TypeOK, Contents, Parts, PCs, Over, Files

\* What a process leaves that ends.
LEMMA GoneType ==
    ASSUME TypeOK, NEW p \in Processes, Gone(p),
           pc' \in [Processes -> PCs], UNCHANGED <<files, controls, met, asked, after>>,
           svc' \in [Processes -> [Names -> {"off", "on"}]],
           sock' \in [Names -> Processes \cup {NoProcess}],
           spoiled' \subseteq Files, hit' \subseteq Processes
    PROVE  TypeOK'
<1>1. /\ cfg' \in [Processes -> Contents] /\ made' \in [Processes -> 0..Len(Order)]
      /\ signal' \in [Processes -> BOOLEAN] /\ turn' \in [Processes -> 1..(Len(Order) + 1)]
  BY OrderIs DEF TypeOK, Gone, Contents
<1>2. quit' \in [Processes -> {"none", "waiting", "closing", "stopping", "over"}]
  BY DEF TypeOK, Gone
<1>3. /\ lis' \in [Processes -> [Names -> {"none", "open", "closed"}]]
      /\ run' \in [Processes -> [Names -> {"none", "spawned", "accepting", "over"}]]
  BY DEF TypeOK, Gone
<1>4. conn' \in [Processes -> [Names -> {"none", "start", "stop"}]]
  BY DEF TypeOK, Gone
<1> QED
  BY <1>1, <1>2, <1>3, <1>4 DEF TypeOK

\* What the start changes.
LEMMA StartType ==
    ASSUME TypeOK, NEW p \in Processes, Launch(p) \/ MainStep(p)
    PROVE  TypeOK'
<1> USE DEF TypeOK, Goto, Fail, PCs, Over
<1>1. CASE Launch(p)
  BY <1>1 DEF Launch, Others, service, ending
<1>2. ASSUME NEW f \in Files, Stat(p, f)
      PROVE  TypeOK'
  BY <1>2 DEF Stat, Ensured, service, ending
<1>3. ASSUME NEW f \in Files, Open(p, f)
      PROVE  TypeOK'
  <2>0. f # "root"
    BY <1>3 DEF Open, IsAt
  <2>1. /\ files' \in [Files -> Contents]
        /\ \A g \in Files : files'[g] \in Parts(g) \cup {"none", "whole"}
    BY <1>3, <2>0 DEF Open, Contents, Parts, Files
  <2> QED
    BY <1>3, <2>1 DEF Open, service, ending
<1>4. ASSUME NEW f \in Files, Write(p, f)
      PROVE  TypeOK'
  <2>1. \A part \in Parts(f) : part \in Contents
    BY DEF Parts, Contents, Files
  <2>2. files' \in [Files -> Contents]
    BY <1>4, <2>1 DEF Write, Contents
  <2>3. \A g \in Files : files'[g] \in Parts(g) \cup {"none", "whole"}
    BY <1>4 DEF Write
  <2>4. spoiled' \subseteq Files
    BY <1>4 DEF Write
  <2> QED
    BY <1>4, <2>2, <2>3, <2>4 DEF Write, Ensured, service, ending
<1>5. CASE Read(p)
  BY <1>5 DEF Read, Files, service, ending
<1>6. CASE Tls(p)
  <2>1. files["root"] \in {"none", "cut", "whole"}
    BY DEF Files, Parts
  <2> QED
    BY <1>6, <2>1 DEF Tls, service, ending
<1>a. CASE Sign(p) \/ Key(p)
  <2>1. files' = files \/ \E x \in {"cut", "whole"} : files' = [files EXCEPT !["root"] = x]
    BY <1>a DEF Sign, Key
  <2>2. /\ files' \in [Files -> Contents]
        /\ \A g \in Files : files'[g] \in Parts(g) \cup {"none", "whole"}
    BY <2>1 DEF Contents, Parts, Files
  <2>3. spoiled' \subseteq Files /\ hit' \subseteq Processes
    BY <1>a DEF Sign, Key, Files, history
  <2>4. pc' \in [Processes -> PCs]
    BY <1>a DEF Sign, Key
  <2>5. UNCHANGED <<sock, cfg, made, lis, service, ending, met, asked, after>>
    BY <1>a DEF Sign, Key, history
  <2> QED
    BY <2>2, <2>3, <2>4, <2>5 DEF service, ending
<1>7. CASE Load(p)
  BY <1>7 DEF Load, service, ending
<1>8. CASE Create(p)
  <2> DEFINE s == Order[made[p] + 1]
  <2>1. made[p] + 1 \in 1..Len(Order) /\ s \in Names
    <3>1. made[p] \in 0..Len(Order) /\ made[p] < Len(Order)
      BY <1>8 DEF Create
    <3>2. made[p] + 1 \in 1..Len(Order)
      BY <3>1, OrderIs
    <3> QED
      BY <3>2, OrderIs
  <2>2. CASE Gone(p)
    <3>1. UNCHANGED <<files, svc, controls, spoiled, met, asked, after>>
      BY <1>8 DEF Create
    <3>2. pc' \in [Processes -> PCs] /\ hit' \subseteq Processes
      BY <1>8 DEF Create
    <3>3. sock' \in [Names -> Processes \cup {NoProcess}]
      <4>1. \/ sock' = sock \/ sock' = [sock EXCEPT ![s] = NoProcess]
            \/ sock' = [sock EXCEPT ![s] = p]
        BY <1>8 DEF Create
      <4> QED
        BY <2>1, <4>1
    <3> QED
      BY <2>2, <3>1, <3>2, <3>3, GoneType
  <2>3. CASE ~Gone(p)
    <3>1. /\ sock' = [sock EXCEPT ![s] = p]
          /\ lis' = [lis EXCEPT ![p][s] = "open"]
          /\ run' = [run EXCEPT ![p][s] = "spawned"]
          /\ made' = [made EXCEPT ![p] = @ + 1]
          /\ UNCHANGED <<files, pc, cfg, svc, conn, ending, controls, history>>
      BY <1>8, <2>3 DEF Create, history
    <3>2. /\ sock' \in [Names -> Processes \cup {NoProcess}]
          /\ made' \in [Processes -> 0..Len(Order)]
      BY <2>1, <3>1
    <3>3. /\ lis' \in [Processes -> [Names -> {"none", "open", "closed"}]]
          /\ run' \in [Processes -> [Names -> {"none", "spawned", "accepting", "over"}]]
      BY <2>1, <3>1, UpdateOne
    <3> QED
      BY <3>1, <3>2, <3>3 DEF ending, history
  <2> QED
    BY <2>2, <2>3
<1>9. CASE Created(p)
  BY <1>9 DEF Created, service, history
<1> QED
  BY <1>1, <1>2, <1>3, <1>4, <1>5, <1>6, <1>a, <1>7, <1>8, <1>9 DEF MainStep

LEMMA EndType ==
    ASSUME TypeOK, NEW p \in Processes,
           Signal(p) \/ QuitStep(p) \/ Exit(p) \/ Crash(p)
    PROVE  TypeOK'
<1> USE DEF TypeOK, Goto, PCs, Over, process, service
<1>1. CASE Signal(p)
  BY <1>1 DEF Signal
<1>2. CASE QuitTake(p)
  BY <1>2 DEF QuitTake, history
<1>3. ASSUME NEW then \in {"stopping", "over"}, Advance(p, then)
      PROVE  /\ turn' \in [Processes -> 1..(Len(Order) + 1)]
             /\ quit' \in [Processes -> {"none", "waiting", "closing", "stopping", "over"}]
  <2>1. /\ \/ turn' = [turn EXCEPT ![p] = @ + 1] /\ turn[p] < Len(Order)
           \/ turn' = [turn EXCEPT ![p] = 1]
        /\ quit' = quit \/ quit' = [quit EXCEPT ![p] = then]
    BY <1>3 DEF Advance
  <2>2. turn' \in [Processes -> 1..(Len(Order) + 1)]
    <3>1. \A i \in 1..(Len(Order) + 1) : i < Len(Order) => i + 1 \in 1..(Len(Order) + 1)
      BY OrderIs
    <3>2. 1 \in 1..(Len(Order) + 1) /\ turn[p] \in 1..(Len(Order) + 1)
      BY OrderIs
    <3> QED
      BY <2>1, <3>1, <3>2
  <2>3. quit' \in [Processes -> {"none", "waiting", "closing", "stopping", "over"}]
    BY <2>1
  <2> QED
    BY <2>2, <2>3
<1>4. CASE QuitClose(p)
  BY <1>3, <1>4 DEF QuitClose, history
<1>5. CASE QuitStop(p)
  BY <1>3, <1>5 DEF QuitStop, StopService, history
<1>6. CASE Exit(p)
  BY <1>6, GoneType DEF Exit, history
<1>7. CASE Crash(p)
  BY <1>7, GoneType DEF Crash
<1> QED
  BY <1>1, <1>2, <1>4, <1>5, <1>6, <1>7 DEF QuitStep

LEMMA ServiceType ==
    ASSUME TypeOK, NEW p \in Processes, NEW s \in Names,
           \/ Run(p, s) \/ AcceptEnds(p, s) \/ Control(p, s)
           \/ \E a \in {"start", "stop"} : Accept(p, s, a)
    PROVE  TypeOK'
<1> USE DEF TypeOK, process
<1>1. ASSUME StartService(p, s)
      PROVE  /\ svc' \in [Processes -> [Names -> {"off", "on"}]]
             /\ after' \subseteq Processes \X Names
  <2>1. svc' \in [Processes -> [Names -> {"off", "on"}]]
    <3>1. svc' = svc \/ svc' = [svc EXCEPT ![p][s] = "on"]
      BY <1>1 DEF StartService
    <3>2. svc \in [Processes -> [Names -> {"off", "on"}]]
      OBVIOUS
    <3>3. [svc EXCEPT ![p][s] = "on"] \in [Processes -> [Names -> {"off", "on"}]]
      BY <3>2, UpdateOne
    <3> QED
      BY <3>1, <3>2, <3>3
  <2>2. after' \subseteq Processes \X Names
    BY <1>1 DEF StartService
  <2> QED
    BY <2>1, <2>2
<1>2. CASE Run(p, s)
  BY <1>1, <1>2 DEF Run, ending
<1>3. CASE AcceptEnds(p, s)
  BY <1>3 DEF AcceptEnds, ending, history
<1>4. CASE Control(p, s)
  <2>1. /\ svc' \in [Processes -> [Names -> {"off", "on"}]]
        /\ after' \subseteq Processes \X Names
    <3>1. [svc EXCEPT ![p][s] = "off"] \in [Processes -> [Names -> {"off", "on"}]]
      BY UpdateOne
    <3>2. CASE StartService(p, s)
      BY <1>1, <3>2
    <3>3. CASE StopService(p, s) /\ UNCHANGED after
      BY <3>1, <3>3 DEF StopService
    <3> QED
      BY <1>4, <3>2, <3>3 DEF Control
  <2>2. conn' \in [Processes -> [Names -> {"none", "start", "stop"}]]
    BY <1>4, UpdateOne DEF Control
  <2> QED
    BY <1>4, <2>1, <2>2 DEF Control, ending
<1>5. ASSUME NEW a \in {"start", "stop"}, Accept(p, s, a)
      PROVE  TypeOK'
  <2>1. conn' \in [Processes -> [Names -> {"none", "start", "stop"}]]
    BY <1>5, UpdateOne DEF Accept
  <2>2. controls' \in 0..MaxControls
    BY <1>5, ProgramAssumption DEF Accept
  <2> QED
    BY <1>5, <2>1, <2>2 DEF Accept, ending, history
<1> QED
  BY <1>2, <1>3, <1>4, <1>5

LEMMA StutterType ==
    ASSUME TypeOK, UNCHANGED vars
    PROVE  TypeOK'
BY DEF TypeOK, vars, process, service, ending, history

\* Every variable keeps its type.
THEOREM TypeCorrect == Spec => []TypeOK
<1>1. TypeOK /\ [Next]_vars => TypeOK'
  BY StartType, EndType, ServiceType, StutterType DEF Next
<1> QED
  BY <1>1, TypeInit, PTL DEF Spec

-----------------------------------------------------------------------------
(* The start.                                                               *)

\* Two processes that are alive have met.
MetInv == \A p, q \in Processes : p # q /\ Alive(p) /\ Alive(q) => p \in met

\* A configuration, or a root, that is unfinished is being written or was left
\* so, and who has read such a one has met the writer; only a configuration that
\* names the rules is taken past them.
FileInv ==
    /\ files["config"] \in Parts("config") =>
         "config" \in spoiled \/ \E q \in Processes : IsAt(q, "write", "config")
    /\ files["config"] = "poolless" => "config" \in spoiled
    /\ files["root"] = "cut" => "root" \in spoiled \/ \E q \in Processes : pc[q] = "key"

CfgInv(p) ==
    /\ pc[p] = "none" => cfg[p] = "none"
    /\ pc[p] = "read" => cfg[p] = "none" /\ files["config"] # "none"
    /\ pc[p] \in {"tls", "sign", "key"} => cfg[p] # "none"
    /\ pc[p] \in {"open", "write"} => cfg[p] \in {"none", "poolless", "whole"}
    /\ pc[p] \in {"load", "create", "wait"} => cfg[p] \in {"poolless", "whole"}
    /\ cfg[p] \in Parts("config") => p \in met \/ "config" \in spoiled
    /\ cfg[p] = "poolless" => "config" \in spoiled
    /\ made[p] > 0 => pc[p] \in {"create", "wait"}
    /\ pc[p] = "failed" => p \in hit \cup met \/ spoiled \cap {"config", "root"} # {}

\* Who wants to make a root that has come to exist has met its maker.
SignInv == \A p \in Processes : pc[p] = "sign" /\ files["root"] # "none" => p \in met

StartInv == MetInv /\ FileInv /\ SignInv /\ \A p \in Processes : CfgInv(p)

\* Only Launch brings a process to life.
LEMMA MetStep ==
    ASSUME TypeOK, MetInv, [Next]_vars
    PROVE  MetInv' /\ met \subseteq met'
<1>1. ASSUME NEW p \in Processes, Launch(p)
      PROVE  MetInv' /\ met \subseteq met'
  <2>1. pc' = [pc EXCEPT ![p] = "stat"]
    BY <1>1 DEF Launch, Goto
  <2>2. \A q \in Processes \ {p} : Alive(q)' <=> Alive(q)
    BY <2>1 DEF TypeOK, Alive
  <2>3. \A q \in Processes \ {p} : Alive(q) => q \in met' /\ p \in met'
    BY <1>1 DEF Launch, Others
  <2>4. met \subseteq met'
    BY <1>1 DEF Launch
  <2> QED
    BY <2>2, <2>3, <2>4 DEF MetInv
<1>2. ASSUME UNCHANGED met, \A q \in Processes : Alive(q)' => Alive(q)
      PROVE  MetInv' /\ met \subseteq met'
  BY <1>2 DEF MetInv
<1>3. ASSUME NEW p \in Processes, NEW l \in PCs, UNCHANGED met, Alive(p), Goto(p, l)
      PROVE  MetInv' /\ met \subseteq met'
  <2>1. \A q \in Processes : q # p => pc'[q] = pc[q]
    BY <1>3 DEF Goto, TypeOK
  <2> QED
    BY <1>2, <1>3, <2>1 DEF Alive
<1>4. ASSUME NEW p \in Processes, MainStep(p)
      PROVE  MetInv' /\ met \subseteq met'
  <2>1. UNCHANGED met /\ Alive(p)
    BY <1>4 DEF MainStep, Stat, Open, Write, Read, Tls, Sign, Key, Load, Create, Created, Gone,
                IsAt, Alive, Over, history
  <2>2. UNCHANGED pc \/ \E l \in PCs : Goto(p, l)
    BY <1>4 DEF MainStep, Stat, Open, Write, Read, Tls, Sign, Key, Load, Create, Created, Fail,
                Ensured, PCs, Over
  <2> QED
    BY <1>2, <1>3, <2>1, <2>2 DEF Alive
<1>5. ASSUME NEW p \in Processes, Exit(p) \/ Crash(p)
      PROVE  MetInv' /\ met \subseteq met'
  <2>1. \E l \in PCs : Goto(p, l)
    BY <1>5 DEF Exit, Crash, PCs, Over
  <2> QED
    BY <1>3, <1>5, <2>1 DEF Exit, Crash, Alive, Over, history
<1>6. ASSUME UNCHANGED <<pc, met>>
      PROVE  MetInv' /\ met \subseteq met'
  BY <1>2, <1>6 DEF Alive
<1>7. ASSUME NEW p \in Processes, Signal(p) \/ QuitStep(p)
      PROVE  MetInv' /\ met \subseteq met'
  BY <1>6, <1>7 DEF Signal, QuitStep, QuitTake, QuitClose, QuitStop, process, history
<1>8. ASSUME NEW p \in Processes, NEW s \in Names,
             Run(p, s) \/ AcceptEnds(p, s) \/ Control(p, s)
      PROVE  MetInv' /\ met \subseteq met'
  BY <1>6, <1>8 DEF Run, AcceptEnds, Control, process, history
<1>9. ASSUME NEW p \in Processes, NEW s \in Names, NEW a \in {"start", "stop"}, Accept(p, s, a)
      PROVE  MetInv' /\ met \subseteq met'
  BY <1>6, <1>9 DEF Accept, process, history
<1>10. CASE UNCHANGED vars
  BY <1>6, <1>10 DEF vars, process, history
<1> QED
  BY <1>1, <1>4, <1>5, <1>7, <1>8, <1>9, <1>10 DEF Next

\* A step of p leaves the others where they are.
StepOf(p) ==
    /\ \A q \in Processes \ {p} : pc'[q] = pc[q] /\ cfg'[q] = cfg[q] /\ made'[q] = made[q]
    /\ met \subseteq met' /\ hit \subseteq hit' /\ spoiled \subseteq spoiled'

LEMMA OthersKeep ==
    ASSUME \A q \in Processes : CfgInv(q), NEW p \in Processes, StepOf(p), CfgInv(p)',
           files["config"] # "none" => files'["config"] # "none"
    PROVE  \A q \in Processes : CfgInv(q)'
<1> SUFFICES ASSUME NEW q \in Processes, q # p
             PROVE  CfgInv(q)'
  OBVIOUS
<1>1. CfgInv(q) /\ pc'[q] = pc[q] /\ cfg'[q] = cfg[q] /\ made'[q] = made[q]
  BY DEF StepOf
<1>2. met \subseteq met' /\ hit \subseteq hit' /\ spoiled \subseteq spoiled'
  BY DEF StepOf
<1> QED
  BY <1>1, <1>2 DEF CfgInv

LEMMA FileKept ==
    ASSUME FileInv, NEW p \in Processes, StepOf(p), UNCHANGED files,
           IsAt(p, "write", "config") => "config" \in spoiled',
           pc[p] = "key" => "root" \in spoiled'
    PROVE  FileInv'
<1>1. ASSUME NEW q \in Processes \ {p}, IsAt(q, "write", "config")
      PROVE  IsAt(q, "write", "config")'
  BY <1>1 DEF StepOf, IsAt
<1>2. spoiled \subseteq spoiled' /\ \A q \in Processes \ {p} : pc'[q] = pc[q]
  BY DEF StepOf
<1> QED
  BY <1>1, <1>2 DEF FileInv

\* One file changes, of which p has the configuration in its hands.
LEMMA FileMoved ==
    ASSUME FileInv, NEW p \in Processes, StepOf(p), pc[p] # "key",
           NEW f \in {"config", "rules"}, \A g \in Files : g # f => files'[g] = files[g],
           IsAt(p, "write", "config") => f = "config",
           f = "config" =>
             \/ files'["config"] = "whole"
             \/ "config" \in spoiled'
             \/ IsAt(p, "write", "config")' /\ files'["config"] # "poolless"
    PROVE  FileInv'
<1>1. \A q \in Processes \ {p} : pc'[q] = pc[q] /\ cfg'[q] = cfg[q]
  BY DEF StepOf
<1>2. spoiled \subseteq spoiled'
  BY DEF StepOf
<1>3. files'["root"] = files["root"]
  BY DEF Files
<1>4. files'["root"] = "cut" => "root" \in spoiled' \/ \E q \in Processes : pc'[q] = "key"
  BY <1>1, <1>2, <1>3 DEF FileInv
<1>5. CASE f = "config"
  BY <1>4, <1>5 DEF FileInv, Parts
<1>6. CASE f = "rules"
  <2>1. files'["config"] = files["config"]
    BY <1>6 DEF Files
  <2>2. \A q \in Processes : IsAt(q, "write", "config") => IsAt(q, "write", "config")'
    BY <1>1, <1>6 DEF IsAt
  <2> QED
    BY <1>2, <1>4, <2>1, <2>2 DEF FileInv
<1> QED
  BY <1>5, <1>6

\* A step that leaves the program's counters and the files alone.
LEMMA StartFrame ==
    ASSUME FileInv, \A q \in Processes : CfgInv(q), UNCHANGED <<files, process, spoiled, met, hit>>
    PROVE  FileInv' /\ \A q \in Processes : CfgInv(q)'
BY DEF FileInv, CfgInv, IsAt, process

\* The steps of a start, each with the process it is of.
LEMMA StartStep ==
    ASSUME TypeOK, MetInv, FileInv, \A q \in Processes : CfgInv(q),
           SignInv, NEW p \in Processes, Launch(p) \/ MainStep(p) \/ Exit(p) \/ Crash(p)
    PROVE  FileInv' /\ \A q \in Processes : CfgInv(q)'
<1> DEFINE Goal == FileInv' /\ \A q \in Processes : CfgInv(q)'
<1>0. CfgInv(p) /\ pc[p] \in PCs /\ cfg[p] \in Contents
  BY DEF TypeOK
<1>1. ASSUME StepOf(p), CfgInv(p)', UNCHANGED files,
             IsAt(p, "write", "config") => "config" \in spoiled',
             pc[p] = "key" => "root" \in spoiled'
      PROVE  Goal
  BY <1>1, OthersKeep, FileKept
<1>2. CASE Launch(p)
  <2>1. StepOf(p) /\ UNCHANGED files /\ pc[p] = "none"
    BY <1>2 DEF Launch, Goto, StepOf, TypeOK
  <2>2. CfgInv(p)'
    BY <1>0, <1>2 DEF Launch, Goto, TypeOK, CfgInv, Parts
  <2> QED
    BY <1>1, <2>1, <2>2 DEF IsAt
<1>3. ASSUME NEW f \in Files, Stat(p, f)
      PROVE  Goal
  <2>1. StepOf(p) /\ UNCHANGED <<files, cfg, made, met, spoiled>> /\ pc[p] = "stat"
    BY <1>3 DEF Stat, IsAt, Goto, Fail, StepOf, TypeOK
  <2>2. CfgInv(p)'
    BY <1>0, <1>3, <2>1 DEF Stat, IsAt, Goto, Fail, Ensured, TypeOK, CfgInv, Parts, Files, Contents
  <2> QED
    BY <1>1, <2>1, <2>2 DEF IsAt
<1>4. ASSUME NEW f \in Files, Open(p, f)
      PROVE  Goal
  <2>1. StepOf(p) /\ UNCHANGED <<cfg, made, met, spoiled>> /\ IsAt(p, "open", f)
    BY <1>4 DEF Open, Goto, Fail, StepOf, TypeOK
  <2>2. CfgInv(p)'
    BY <1>0, <1>4, <2>1 DEF Open, IsAt, Goto, Fail, TypeOK, CfgInv, Parts, Contents
  <2>3. CASE UNCHANGED files
    BY <1>1, <2>1, <2>2, <2>3 DEF IsAt
  <2>4. CASE files' = [files EXCEPT ![f] = "empty"] /\ Goto(p, "write")
    <3>1. f \in {"config", "rules"} /\ pc[p] = "open" /\ \A g \in Files : g # f => files'[g] = files[g]
      BY <2>1, <2>4 DEF IsAt, TypeOK
    <3>2. files["config"] # "none" => files'["config"] # "none"
      BY <2>4 DEF TypeOK, Files
    <3>3. f = "config" => IsAt(p, "write", "config")' /\ files'["config"] # "poolless"
      BY <2>1, <2>4 DEF IsAt, Goto, TypeOK
    <3>4. FileInv'
      BY <2>1, <3>1, <3>3, FileMoved DEF IsAt
    <3> QED
      BY <2>1, <2>2, <3>2, <3>4, OthersKeep
  <2> QED
    BY <1>4, <2>3, <2>4 DEF Open
<1>5. ASSUME NEW f \in Files, Write(p, f)
      PROVE  Goal
  <2>1. StepOf(p) /\ UNCHANGED <<cfg, made, met>> /\ IsAt(p, "write", f)
    BY <1>5 DEF Write, Goto, Fail, StepOf, TypeOK
  <2>2. files'[f] # "none" /\ \A g \in Files : g # f => files'[g] = files[g]
    <3>1. "none" \notin Parts(f)
      BY DEF Parts, Files
    <3> QED
      BY <1>5, <3>1 DEF Write, TypeOK
  <2>3. CfgInv(p)'
    BY <1>0, <1>5, <2>1, <2>2 DEF Write, IsAt, Goto, Fail, Ensured, TypeOK, CfgInv, Parts, Files, Contents
  <2>4. files["config"] # "none" => files'["config"] # "none"
    BY <2>2 DEF Files
  <2>5. FileInv'
    <3>1. f \in {"config", "rules"} /\ pc[p] = "write"
      BY <2>1 DEF IsAt
    <3>2. f = "config" => files'["config"] = "whole" \/ "config" \in spoiled'
      BY <1>5 DEF Write, TypeOK
    <3>3. IsAt(p, "write", "config") => f = "config"
      BY <2>1 DEF IsAt
    <3> QED
      BY <2>1, <2>2, <3>1, <3>2, <3>3, FileMoved
  <2> QED
    BY <2>1, <2>3, <2>4, <2>5, OthersKeep
<1>6. CASE Read(p)
  <2>1. StepOf(p) /\ UNCHANGED <<files, made, met, spoiled>> /\ pc[p] = "read"
        /\ cfg'[p] = files["config"]
    BY <1>6 DEF Read, Goto, Fail, StepOf, TypeOK
  <2>2. files["config"] \in Parts("config") => p \in met \/ "config" \in spoiled
    <3>1. ASSUME NEW q \in Processes, IsAt(q, "write", "config")
          PROVE  p \in met
      BY <2>1, <3>1 DEF MetInv, Alive, Over, IsAt
    <3> QED
      BY <3>1 DEF FileInv
  <2>3. files["config"] # "none" /\ (files["config"] = "poolless" => "config" \in spoiled)
    BY <1>0, <2>1 DEF CfgInv, FileInv
  <2>4. pc'[p] \in {"tls", "failed"} /\ (pc'[p] = "failed" => p \in hit' \/ files["config"] \in Parts("config"))
    BY <1>6 DEF Read, Goto, Fail, TypeOK, Parts
  <2>5. CfgInv(p)'
    BY <1>0, <2>1, <2>2, <2>3, <2>4 DEF CfgInv
  <2> QED
    BY <1>1, <2>1, <2>5 DEF IsAt
<1>7. CASE Tls(p)
  <2>1. StepOf(p) /\ UNCHANGED <<files, cfg, made, met, spoiled>> /\ pc[p] = "tls"
    BY <1>7 DEF Tls, Goto, Fail, StepOf, TypeOK
  <2>2. files["root"] = "cut" => p \in met \/ "root" \in spoiled
    BY <2>1 DEF FileInv, MetInv, Alive, Over
  <2>3. files["root"] \in {"none", "cut", "whole"}
    BY DEF TypeOK, Files, Parts
  <2>4. /\ pc'[p] \in {"stat", "sign", "failed"}
        /\ pc'[p] = "failed" =>
             p \in hit' \/ files["root"] = "cut" \/ cfg[p] \in {"empty", "cut"}
    BY <1>7, <2>1, <2>3 DEF Tls, Goto, Fail, TypeOK
  <2>5. CfgInv(p)'
    BY <1>0, <2>1, <2>2, <2>4 DEF CfgInv, Parts
  <2> QED
    BY <1>1, <2>1, <2>5 DEF IsAt
<1>a. CASE Sign(p)
  <2>1. StepOf(p) /\ UNCHANGED <<cfg, made, met, spoiled>> /\ pc[p] = "sign"
    BY <1>a DEF Sign, Goto, Fail, StepOf, TypeOK
  <2>2. /\ pc'[p] \in {"key", "failed"}
        /\ pc'[p] = "failed" => UNCHANGED files /\ (p \in hit' \/ files["root"] # "none")
        /\ files'["config"] = files["config"]
    BY <1>a DEF Sign, Goto, Fail, TypeOK, Files
  <2>3. CfgInv(p)'
    BY <1>0, <2>1, <2>2 DEF CfgInv, SignInv
  <2>4. CASE pc'[p] = "failed"
    BY <1>1, <2>1, <2>2, <2>3, <2>4 DEF IsAt
  <2>5. CASE pc'[p] = "key"
    <3>1. \A q \in Processes : IsAt(q, "write", "config") => IsAt(q, "write", "config")'
      BY <2>1 DEF IsAt, StepOf
    <3>2. FileInv'
      BY <2>1, <2>2, <2>5, <3>1 DEF FileInv
    <3> QED
      BY <2>1, <2>2, <2>3, <3>2, OthersKeep
  <2> QED
    BY <2>2, <2>4, <2>5
<1>b. CASE Key(p)
  <2>1. StepOf(p) /\ UNCHANGED <<cfg, made, met>> /\ pc[p] = "key"
    BY <1>b DEF Key, Goto, Fail, StepOf, TypeOK
  <2>2. /\ pc'[p] \in {"stat", "failed"}
        /\ pc'[p] = "failed" => "root" \in spoiled'
        /\ files'["root"] = "whole" \/ (UNCHANGED files /\ "root" \in spoiled')
        /\ files'["config"] = files["config"] /\ spoiled \subseteq spoiled'
    BY <1>b DEF Key, Goto, Fail, TypeOK, Files
  <2>3. CfgInv(p)'
    BY <1>0, <2>1, <2>2 DEF CfgInv
  <2>4. FileInv'
    <3>1. \A q \in Processes : IsAt(q, "write", "config") => IsAt(q, "write", "config")'
      BY <2>1 DEF IsAt, StepOf
    <3> QED
      BY <2>1, <2>2, <3>1 DEF FileInv
  <2> QED
    BY <2>1, <2>2, <2>3, <2>4, OthersKeep
<1>8. CASE Load(p)
  <2>1. StepOf(p) /\ UNCHANGED <<files, cfg, made, met, spoiled>> /\ pc[p] = "load"
    BY <1>8 DEF Load, Goto, Fail, StepOf, TypeOK
  <2>2. CfgInv(p)'
    BY <1>0, <1>8, <2>1 DEF Load, Goto, Fail, TypeOK, CfgInv
  <2> QED
    BY <1>1, <2>1, <2>2 DEF IsAt
<1>9. CASE Create(p)
  <2>1. StepOf(p) /\ UNCHANGED <<files, met, spoiled>> /\ pc[p] = "create"
    BY <1>9 DEF Create, Goto, Fail, Gone, StepOf, TypeOK
  <2>2. \/ pc' = pc /\ cfg' = cfg
        \/ pc'[p] = "failed" /\ cfg'[p] = "none" /\ made'[p] = 0 /\ p \in hit'
    BY <1>9 DEF Create, Goto, Fail, Gone, TypeOK
  <2>3. CfgInv(p)'
    BY <1>0, <2>1, <2>2 DEF CfgInv, Parts
  <2> QED
    BY <1>1, <2>1, <2>3 DEF IsAt
<1>10. CASE Created(p)
  <2>1. /\ StepOf(p) /\ UNCHANGED <<files, cfg, made, met, spoiled>>
        /\ pc[p] = "create" /\ pc'[p] = "wait"
    BY <1>10 DEF Created, Goto, StepOf, TypeOK, history
  <2>2. CfgInv(p)'
    BY <1>0, <2>1 DEF CfgInv
  <2> QED
    BY <1>1, <2>1, <2>2 DEF IsAt
<1>11. ASSUME Exit(p) \/ Crash(p)
       PROVE  Goal
  <2>1. /\ StepOf(p) /\ UNCHANGED <<files, met, hit>>
        /\ pc'[p] \in {"exited", "crashed"} /\ cfg'[p] = "none" /\ made'[p] = 0
    BY <1>11 DEF Exit, Crash, Goto, Gone, StepOf, TypeOK, history
  <2>2. /\ IsAt(p, "write", "config") => "config" \in spoiled'
        /\ pc[p] = "key" => "root" \in spoiled'
    BY <1>11 DEF Exit, Crash, Writes, IsAt, Files
  <2>3. CfgInv(p)'
    BY <2>1 DEF CfgInv, Parts
  <2> QED
    BY <1>1, <2>1, <2>2, <2>3
<1> QED
  BY <1>2, <1>3, <1>4, <1>5, <1>6, <1>7, <1>a, <1>b, <1>8, <1>9, <1>10, <1>11
  DEF MainStep

\* The root comes to exist only by the hand of a process that is alive.
LEMMA SignStep ==
    ASSUME TypeOK, MetInv, SignInv, [Next]_vars
    PROVE  SignInv'
<1>0. met \subseteq met'
  BY MetStep
<1>1. ASSUME files'["root"] # "none" => files["root"] # "none",
             \A q \in Processes : pc'[q] = "sign" => pc[q] = "sign" \/ files'["root"] = "none"
      PROVE  SignInv'
  BY <1>0, <1>1 DEF SignInv
<1>2. ASSUME NEW p \in Processes, NEW l \in PCs, l # "sign", Goto(p, l),
             files'["root"] # "none" => files["root"] # "none"
      PROVE  SignInv'
  BY <1>1, <1>2 DEF Goto, TypeOK
<1>3. ASSUME NEW p \in Processes, NEW f \in Files, Stat(p, f) \/ Open(p, f) \/ Write(p, f)
      PROVE  SignInv'
  <2>1. f # "root" /\ files'["root"] = files["root"]
    BY <1>3 DEF Stat, Open, Write, IsAt, TypeOK, Files
  <2>2. \E l \in PCs \ {"sign"} : Goto(p, l)
    BY <1>3 DEF Stat, Open, Write, Fail, Ensured, PCs, Over
  <2> QED
    BY <1>2, <2>1, <2>2
<1>4. ASSUME NEW p \in Processes, Tls(p)
      PROVE  SignInv'
  <2>1. files["root"] \in {"none", "cut", "whole"} /\ UNCHANGED files
    BY <1>4 DEF TypeOK, Files, Parts, Tls
  <2>2. /\ pc'[p] = "sign" => files["root"] = "none"
        /\ \A q \in Processes \ {p} : pc'[q] = pc[q]
    BY <1>4, <2>1 DEF Tls, Fail, Goto, TypeOK
  <2> QED
    BY <1>1, <2>1, <2>2
<1>5. ASSUME NEW p \in Processes, Sign(p)
      PROVE  SignInv'
  <2>1. pc[p] = "sign" /\ pc'[p] # "sign" /\ \A q \in Processes \ {p} : pc'[q] = pc[q]
    BY <1>5 DEF Sign, Fail, Goto, TypeOK
  <2>2. \A q \in Processes \ {p} : pc[q] = "sign" => q \in met
    BY <2>1 DEF MetInv, Alive, Over
  <2> QED
    BY <1>0, <2>1, <2>2 DEF SignInv
<1>6. ASSUME NEW p \in Processes, Key(p)
      PROVE  SignInv'
  <2>1. /\ \E l \in PCs \ {"sign"} : Goto(p, l)
        /\ UNCHANGED files \/ (pc[p] = "key" /\ files' = [files EXCEPT !["root"] = "whole"])
    BY <1>6 DEF Key, Fail, PCs, Over
  <2>2. \A q \in Processes : pc'[q] = "sign" => pc[q] = "sign" /\ q # p
    BY <2>1 DEF Goto, TypeOK
  <2>3. pc[p] = "key"
    BY <1>6 DEF Key
  <2>4. \A q \in Processes : pc[q] = "sign" => q \in met
    BY <2>3 DEF MetInv, Alive, Over
  <2> QED
    BY <1>0, <2>2, <2>4 DEF SignInv
<1>7. ASSUME NEW p \in Processes, Read(p) \/ Load(p) \/ Created(p) \/ Launch(p) \/ Exit(p) \/ Crash(p)
      PROVE  SignInv'
  <2>1. UNCHANGED files /\ \E l \in PCs \ {"sign"} : Goto(p, l)
    BY <1>7 DEF Read, Load, Created, Launch, Exit, Crash, Fail, PCs, Over
  <2> QED
    BY <1>2, <2>1
<1>8. ASSUME NEW p \in Processes, Create(p)
      PROVE  SignInv'
  <2>1. UNCHANGED files /\ (UNCHANGED pc \/ Goto(p, "failed"))
    BY <1>8 DEF Create, Fail
  <2> QED
    BY <1>1, <1>2, <2>1 DEF PCs, Over
<1>9. ASSUME UNCHANGED <<files, pc>>
      PROVE  SignInv'
  BY <1>1, <1>9
<1>10. ASSUME NEW p \in Processes, Signal(p) \/ QuitStep(p)
       PROVE  SignInv'
  BY <1>9, <1>10 DEF Signal, QuitStep, QuitTake, QuitClose, QuitStop, process
<1>11. ASSUME NEW p \in Processes, NEW s \in Names,
              Run(p, s) \/ AcceptEnds(p, s) \/ Control(p, s)
       PROVE  SignInv'
  BY <1>9, <1>11 DEF Run, AcceptEnds, Control, process
<1>12. ASSUME NEW p \in Processes, NEW s \in Names, NEW a \in {"start", "stop"}, Accept(p, s, a)
       PROVE  SignInv'
  BY <1>9, <1>12 DEF Accept, process
<1>13. CASE UNCHANGED vars
  BY <1>9, <1>13 DEF vars, process
<1> QED
  BY <1>3, <1>4, <1>5, <1>6, <1>7, <1>8, <1>10, <1>11, <1>12, <1>13 DEF Next, MainStep

LEMMA StartInvariant == Spec => []StartInv
<1>1. Init => StartInv
  BY DEF Init, StartInv, MetInv, FileInv, CfgInv, SignInv, Alive, Parts, Files
<1>2. TypeOK /\ StartInv /\ [Next]_vars => StartInv'
  <2> SUFFICES ASSUME TypeOK, StartInv, [Next]_vars
               PROVE  StartInv'
    OBVIOUS
  <2>1. MetInv' /\ SignInv'
    BY MetStep, SignStep DEF StartInv
  <2>2. ASSUME NEW p \in Processes, Launch(p) \/ MainStep(p) \/ Exit(p) \/ Crash(p)
        PROVE  FileInv' /\ \A q \in Processes : CfgInv(q)'
    BY <2>2, StartStep DEF StartInv
  <2>3. ASSUME UNCHANGED <<files, process, spoiled, met, hit>>
        PROVE  FileInv' /\ \A q \in Processes : CfgInv(q)'
    BY <2>3, StartFrame DEF StartInv
  <2>4. ASSUME NEW p \in Processes, Signal(p) \/ QuitStep(p)
        PROVE  FileInv' /\ \A q \in Processes : CfgInv(q)'
    BY <2>3, <2>4 DEF Signal, QuitStep, QuitTake, QuitClose, QuitStop, history
  <2>5. ASSUME NEW p \in Processes, NEW s \in Names,
               Run(p, s) \/ AcceptEnds(p, s) \/ Control(p, s)
        PROVE  FileInv' /\ \A q \in Processes : CfgInv(q)'
    BY <2>3, <2>5 DEF Run, AcceptEnds, Control, history
  <2>6. ASSUME NEW p \in Processes, NEW s \in Names, NEW a \in {"start", "stop"}, Accept(p, s, a)
        PROVE  FileInv' /\ \A q \in Processes : CfgInv(q)'
    BY <2>3, <2>6 DEF Accept, history
  <2>7. ASSUME UNCHANGED vars
        PROVE  FileInv' /\ \A q \in Processes : CfgInv(q)'
    BY <2>3, <2>7 DEF vars, history
  <2>8. FileInv' /\ \A q \in Processes : CfgInv(q)'
    BY <2>2, <2>4, <2>5, <2>6, <2>7 DEF Next
  <2> QED
    BY <2>1, <2>8 DEF StartInv
<1> QED
  BY <1>1, <1>2, TypeCorrect, PTL DEF Spec

\* Of what a crash leaves only half a configuration and half a root certificate
\* are an obstacle to a later start (run in simulacrum.go, ca/manager.go).
THEOREM StartsComeUp == Spec => []StartComesUp
<1>1. StartInv => StartComesUp
  BY DEF StartInv, CfgInv, StartComesUp
<1> QED
  BY <1>1, StartInvariant, PTL

\* No service runs from a configuration that was cut.
THEOREM WholeConfig == Spec => []ServesWholeConfig
<1>1. StartInv => ServesWholeConfig
  BY DEF StartInv, CfgInv, ServesWholeConfig
<1> QED
  BY <1>1, StartInvariant, PTL

-----------------------------------------------------------------------------
(* The sockets.                                                             *)

\* Only a signal sets the quit goroutine to work.
AskedInv ==
    \A p \in Processes : signal[p] \/ quit[p] \notin {"none", "waiting"} => p \in asked

LEMMA AskedStep ==
    ASSUME TypeOK, AskedInv, [Next]_vars
    PROVE  AskedInv' /\ asked \subseteq asked'
<1>1. ASSUME UNCHANGED <<signal, quit, asked>>
      PROVE  AskedInv' /\ asked \subseteq asked'
  BY <1>1 DEF AskedInv
<1>2. ASSUME NEW p \in Processes, Gone(p), UNCHANGED asked
      PROVE  AskedInv' /\ asked \subseteq asked'
  BY <1>2 DEF AskedInv, Gone, TypeOK
<1>3. ASSUME NEW p \in Processes, Launch(p)
      PROVE  AskedInv' /\ asked \subseteq asked'
  BY <1>1, <1>3 DEF Launch, ending
<1>4. ASSUME NEW p \in Processes, MainStep(p)
      PROVE  AskedInv' /\ asked \subseteq asked'
  <2>1. CASE Create(p)
    BY <1>1, <1>2, <2>1 DEF Create, ending
  <2>2. CASE Created(p)
    BY <2>2 DEF Created, AskedInv, TypeOK, history
  <2>3. CASE Read(p) \/ Tls(p) \/ Sign(p) \/ Key(p) \/ Load(p)
    BY <1>1, <2>3 DEF Read, Tls, Sign, Key, Load, ending
  <2>4. CASE \E f \in Files : Stat(p, f) \/ Open(p, f) \/ Write(p, f)
    BY <1>1, <2>4 DEF Stat, Open, Write, ending
  <2> QED
    BY <1>4, <2>1, <2>2, <2>3, <2>4 DEF MainStep
<1>5. ASSUME NEW p \in Processes, Exit(p) \/ Crash(p)
      PROVE  AskedInv' /\ asked \subseteq asked'
  BY <1>2, <1>5 DEF Exit, Crash, history
<1>6. ASSUME NEW p \in Processes, Signal(p)
      PROVE  AskedInv' /\ asked \subseteq asked'
  BY <1>6 DEF Signal, AskedInv, TypeOK
<1>7. ASSUME NEW p \in Processes, QuitTake(p)
      PROVE  AskedInv' /\ asked \subseteq asked'
  BY <1>7 DEF QuitTake, AskedInv, TypeOK, history
<1>8. ASSUME NEW p \in Processes, QuitClose(p) \/ QuitStop(p)
      PROVE  AskedInv' /\ asked \subseteq asked'
  <2>1. p \in asked /\ UNCHANGED <<signal, asked>>
    BY <1>8 DEF QuitClose, QuitStop, AskedInv, history
  <2>2. \A q \in Processes \ {p} : quit'[q] = quit[q]
    BY <1>8 DEF QuitClose, QuitStop, Advance, TypeOK
  <2> QED
    BY <2>1, <2>2 DEF AskedInv
<1>9. ASSUME NEW p \in Processes, NEW s \in Names,
             Run(p, s) \/ AcceptEnds(p, s) \/ Control(p, s)
      PROVE  AskedInv' /\ asked \subseteq asked'
  BY <1>1, <1>9 DEF Run, AcceptEnds, Control, ending, history
<1>10. ASSUME NEW p \in Processes, NEW s \in Names, NEW a \in {"start", "stop"}, Accept(p, s, a)
       PROVE  AskedInv' /\ asked \subseteq asked'
  BY <1>1, <1>10 DEF Accept, ending, history
<1>11. ASSUME UNCHANGED vars
       PROVE  AskedInv' /\ asked \subseteq asked'
  BY <1>1, <1>11 DEF vars, ending, history
<1> QED
  BY <1>3, <1>4, <1>5, <1>6, <1>7, <1>8, <1>9, <1>10, <1>11 DEF Next, QuitStep

\* A step of q disturbs the sockets of p only if both are alive.
LEMMA SocketStep ==
    ASSUME TypeOK, StartInv, AskedInv, Reachable, [Next]_vars
    PROVE  Reachable'
<1>0. MetInv' /\ met \subseteq met' /\ asked \subseteq asked'
  BY MetStep, AskedStep DEF StartInv
<1>1. ASSUME UNCHANGED <<sock, lis, made>>, \A q \in Processes : Alive(q)' => Alive(q)
      PROVE  Reachable'
  BY <1>0, <1>1 DEF Reachable
<1>2. ASSUME NEW p \in Processes, Launch(p)
      PROVE  Reachable'
  <2>1. made[p] = 0 /\ UNCHANGED <<sock, lis, made>>
    <3>1. pc[p] = "none" /\ UNCHANGED <<sock, lis, made>>
      BY <1>2 DEF Launch
    <3>2. ~(made[p] > 0)
      BY <3>1 DEF StartInv, CfgInv
    <3> QED
      BY <3>1, <3>2 DEF TypeOK
  <2>2. \A q \in Processes \ {p} : Alive(q)' => Alive(q)
    BY <1>2 DEF Launch, Goto, Alive, TypeOK
  <2>3. ASSUME NEW q \in Processes, Alive(q)', q \notin (asked \cup met)', NEW i \in 1..made'[q]
        PROVE  sock'[Order[i]] = q /\ lis'[q][Order[i]] = "open"
    <3>1. q # p
      BY <2>1, <2>3
    <3> QED
      BY <1>0, <2>1, <2>2, <2>3, <3>1 DEF Reachable
  <2> QED
    BY <2>3 DEF Reachable
<1>3. ASSUME NEW p \in Processes, Stat(p, "config") \/ Stat(p, "rules")
             \/ Open(p, "config") \/ Open(p, "rules") \/ Write(p, "config") \/ Write(p, "rules")
             \/ Read(p) \/ Tls(p) \/ Sign(p) \/ Key(p) \/ Load(p) \/ Created(p)
      PROVE  Reachable'
  <2>1. UNCHANGED <<sock, lis, made>> /\ Alive(p)
    BY <1>3 DEF Stat, Open, Write, Read, Tls, Sign, Key, Load, Created, IsAt, Alive, Over
  <2>2. \E l \in PCs : Goto(p, l)
    BY <1>3 DEF Stat, Open, Write, Read, Tls, Sign, Key, Load, Created, Fail, Ensured, PCs, Over
  <2>3. \A q \in Processes : q # p => pc'[q] = pc[q]
    BY <2>2 DEF Goto, TypeOK
  <2> QED
    BY <1>1, <2>1, <2>3 DEF Alive
\* A process next to p that creates, closes or ends has met it.
<1>4. ASSUME NEW p \in Processes, Alive(p),
             \A q \in Processes \ {p} :
                pc'[q] = pc[q] /\ made'[q] = made[q] /\ lis'[q] = lis[q],
             Alive(p)' => \/ p \in asked' 
                          \/ \A i \in 1..made'[p] : sock'[Order[i]] = p /\ lis'[p][Order[i]] = "open"
      PROVE  Reachable'
  <2>1. \A q \in Processes \ {p} : Alive(q) => q \in met
    BY <1>4 DEF StartInv, MetInv
  <2>2. \A q \in Processes \ {p} : Alive(q)' => q \in met'
    BY <1>0, <1>4, <2>1 DEF Alive
  <2> QED
    BY <1>4, <2>2 DEF Reachable
<1>5. ASSUME NEW p \in Processes, Create(p)
      PROVE  Reachable'
  <2>1. Alive(p) /\ made[p] < Len(Order) /\ made[p] \in 0..Len(Order)
    BY <1>5 DEF Create, Alive, Over, TypeOK
  <2>2. CASE Gone(p)
    <3>1. ~Alive(p)'
      BY <1>5, <2>1, <2>2 DEF Create, Gone, Fail, Goto, Alive, Over, TypeOK
    <3>2. \A q \in Processes \ {p} :
             pc'[q] = pc[q] /\ made'[q] = made[q] /\ lis'[q] = lis[q]
      BY <1>5, <2>2 DEF Create, Gone, Fail, Goto, TypeOK
    <3> QED
      BY <1>4, <2>1, <3>1, <3>2
  <2>3. CASE ~Gone(p)
    <3> DEFINE s == Order[made[p] + 1]
    <3>1. /\ sock' = [sock EXCEPT ![s] = p]
          /\ lis' = [lis EXCEPT ![p][s] = "open"]
          /\ made' = [made EXCEPT ![p] = @ + 1]
          /\ UNCHANGED <<pc, asked>>
      BY <1>5, <2>3 DEF Create
    <3>2. \A q \in Processes \ {p} :
             pc'[q] = pc[q] /\ made'[q] = made[q] /\ lis'[q] = lis[q]
      BY <3>1 DEF TypeOK
    <3>3. Alive(p)'
      BY <2>1, <3>1 DEF Alive
    <3>4. s \in Names /\ sock'[s] = p /\ lis'[p][s] = "open"
      BY <2>1, <3>1, OrderIs DEF TypeOK
    <3>5. ASSUME NEW i \in 1..made'[p], p \notin asked, p \notin met
          PROVE  sock'[Order[i]] = p /\ lis'[p][Order[i]] = "open"
      <4>1. i \in 1..made[p] \/ i = made[p] + 1
        BY <2>1, <3>1 DEF TypeOK
      <4>2. CASE i = made[p] + 1
        BY <3>4, <4>2
      <4>3. CASE i \in 1..made[p]
        <5>1. sock[Order[i]] = p /\ lis[p][Order[i]] = "open"
          BY <2>1, <3>5, <4>3 DEF Reachable
        <5>2. Order[i] \in Names
          BY <2>1, <4>3, OrderIs
        <5> QED
          BY <3>1, <3>4, <5>1, <5>2 DEF TypeOK
      <4> QED
        BY <4>1, <4>2, <4>3
    <3>6. \A q \in Processes \ {p} : Alive(q)' => q \in met'
      BY <1>0, <2>1, <3>1 DEF StartInv, MetInv, Alive
    <3> QED
      BY <1>0, <3>5, <3>6, <3>1 DEF Reachable
  <2> QED
    BY <2>2, <2>3
<1>6. ASSUME NEW p \in Processes, Exit(p) \/ Crash(p)
      PROVE  Reachable'
  <2>1. Alive(p)
    BY <1>6 DEF Exit, Crash, Alive, Over
  <2>2. ~Alive(p)' /\ UNCHANGED sock
    BY <1>6 DEF Exit, Crash, Goto, Alive, Over, TypeOK
  <2>3. \A q \in Processes \ {p} :
           pc'[q] = pc[q] /\ made'[q] = made[q] /\ lis'[q] = lis[q]
    BY <1>6 DEF Exit, Crash, Gone, Goto, TypeOK
  <2> QED
    BY <1>4, <2>1, <2>2, <2>3
<1>7. ASSUME UNCHANGED <<sock, lis, made, pc>>
      PROVE  Reachable'
  BY <1>1, <1>7 DEF Alive
<1>8. ASSUME NEW p \in Processes, QuitClose(p)
      PROVE  Reachable'
  <2>1. Alive(p) /\ p \in asked /\ UNCHANGED pc
    BY <1>8 DEF QuitClose, AskedInv, process
  <2>2. \A q \in Processes \ {p} :
           pc'[q] = pc[q] /\ made'[q] = made[q] /\ lis'[q] = lis[q]
    BY <1>8 DEF QuitClose, process, TypeOK
  <2>3. Alive(p)'
    BY <2>1 DEF Alive
  <2> QED
    BY <1>0, <1>4, <2>1, <2>2, <2>3
<1>9. ASSUME NEW p \in Processes, Signal(p) \/ QuitTake(p) \/ QuitStop(p)
      PROVE  Reachable'
  BY <1>7, <1>9 DEF Signal, QuitTake, QuitStop, process
<1>10. ASSUME NEW p \in Processes, NEW s \in Names,
              Run(p, s) \/ AcceptEnds(p, s) \/ Control(p, s)
      PROVE  Reachable'
  BY <1>7, <1>10 DEF Run, AcceptEnds, Control, process
<1>11. ASSUME NEW p \in Processes, NEW s \in Names, NEW a \in {"start", "stop"}, Accept(p, s, a)
       PROVE  Reachable'
  BY <1>7, <1>11 DEF Accept, process
<1>12. ASSUME UNCHANGED vars
       PROVE  Reachable'
  BY <1>7, <1>12 DEF vars, process
<1>13. ASSUME NEW p \in Processes, MainStep(p)
       PROVE  Reachable'
  <2>1. ~Stat(p, "root") /\ ~Open(p, "root") /\ ~Write(p, "root")
    BY DEF Stat, Open, Write, IsAt
  <2> QED
    BY <1>3, <1>5, <1>13, <2>1 DEF MainStep, Files
<1> QED
  BY <1>2, <1>6, <1>8, <1>9, <1>10, <1>11, <1>12, <1>13 DEF Next, QuitStep

\* The socket of every service leads to the process, unless it was asked to
\* stop or has met another (socket/manager.go).
THEOREM SocketsLeadToTheProcess == Spec => []Reachable
<1>1. Init => AskedInv /\ Reachable
  BY DEF Init, AskedInv, Reachable
<1>2. TypeOK /\ StartInv /\ AskedInv /\ Reachable /\ [Next]_vars => AskedInv' /\ Reachable'
  BY AskedStep, SocketStep
<1> QED
  BY <1>1, <1>2, TypeCorrect, StartInvariant, PTL DEF Spec

-----------------------------------------------------------------------------
(* The end.                                                                 *)

\* A service that was stopped is on only if it was started again since.
StoppedInv ==
    \A p \in Processes, s \in Names :
       Stopped(p, s) /\ svc[p][s] = "on" => <<p, s>> \in after

EndInv == StoppedInv /\ ExitStops

LEMMA EndStep ==
    ASSUME TypeOK, EndInv, [Next]_vars
    PROVE  EndInv'
<1>1. ASSUME UNCHANGED <<svc, quit, turn, after>>,
             \A q \in Processes : pc'[q] = "exited" => pc[q] = "exited"
      PROVE  EndInv'
  <2>1. \A q \in Processes, s \in Names : Stopped(q, s)' <=> Stopped(q, s)
    BY <1>1 DEF Stopped
  <2> QED
    BY <1>1, <2>1 DEF EndInv, StoppedInv, ExitStops
<1>2. ASSUME NEW p \in Processes, Gone(p), UNCHANGED after,
             \A q \in Processes \ {p} : svc'[q] = svc[q] /\ pc'[q] = pc[q],
             pc'[p] = "exited" =>
                \A s \in Names : svc'[p][s] = "on" => Stopped(p, s) /\ svc[p][s] = "on"
      PROVE  EndInv'
  <2>1. /\ quit'[p] = "none"
        /\ \A q \in Processes \ {p} : quit'[q] = quit[q] /\ turn'[q] = turn[q]
    BY <1>2 DEF Gone, TypeOK
  <2>2. \A s \in Names : ~Stopped(p, s)'
    BY <2>1 DEF Stopped
  <2>3. \A q \in Processes \ {p}, s \in Names : Stopped(q, s)' <=> Stopped(q, s)
    BY <2>1 DEF Stopped
  <2>4. StoppedInv'
    BY <1>2, <2>2, <2>3 DEF EndInv, StoppedInv
  <2>5. ExitStops'
    BY <1>2 DEF EndInv, StoppedInv, ExitStops
  <2> QED
    BY <2>4, <2>5 DEF EndInv
<1>3. ASSUME NEW p \in Processes, NEW s \in Names, UNCHANGED <<pc, quit, turn>>,
             \/ StartService(p, s)
             \/ StopService(p, s) /\ UNCHANGED after
             \/ UNCHANGED <<svc, after>>,
             Alive(p)
      PROVE  EndInv'
  <2>1. \A q \in Processes, z \in Names : Stopped(q, z)' <=> Stopped(q, z)
    BY <1>3 DEF Stopped
  <2>2. CASE UNCHANGED <<svc, after>>
    BY <1>1, <1>3, <2>2
  <2>3. CASE StopService(p, s) /\ UNCHANGED after
    <3>1. \A q \in Processes, z \in Names : svc'[q][z] = "on" => svc[q][z] = "on"
      BY <2>3 DEF StopService, TypeOK
    <3> QED
      BY <1>3, <2>1, <2>3, <3>1 DEF EndInv, StoppedInv, ExitStops
  <2>4. ASSUME svc' = [svc EXCEPT ![p][s] = "on"], pc[p] # "exited",
               after' = IF Stopped(p, s) THEN after \cup {<<p, s>>} ELSE after
        PROVE  EndInv'
    <3>1. \A q \in Processes, z \in Names :
             svc'[q][z] = "on" => svc[q][z] = "on" \/ (q = p /\ z = s)
      BY <2>4 DEF TypeOK
    <3>2. after \subseteq after' /\ (Stopped(p, s) => <<p, s>> \in after')
      BY <2>4
    <3> QED
      BY <1>3, <2>1, <2>4, <3>1, <3>2 DEF EndInv, StoppedInv, ExitStops
  <2> QED
    BY <1>3, <2>2, <2>3, <2>4 DEF StartService, Alive, Over
<1>4. ASSUME NEW p \in Processes, Launch(p)
      PROVE  EndInv'
  <2>1. \A q \in Processes : pc'[q] = "exited" => pc[q] = "exited"
    BY <1>4 DEF Launch, Goto, TypeOK
  <2> QED
    BY <1>1, <1>4, <2>1 DEF Launch, service, ending
<1>5. ASSUME NEW p \in Processes, MainStep(p)
      PROVE  EndInv'
  <2>1. \A q \in Processes : pc'[q] = "exited" => pc[q] = "exited"
    <3>1. UNCHANGED pc \/ \E l \in PCs \ {"exited"} : Goto(p, l)
      BY <1>5 DEF MainStep, Stat, Open, Write, Read, Tls, Sign, Key, Load, Create, Created, Fail,
                  Ensured, PCs, Over
    <3> QED
      BY <3>1 DEF Goto, TypeOK
  <2>2. CASE Create(p)
    <3>1. CASE Gone(p)
      <4>1. pc'[p] # "exited" /\ \A q \in Processes \ {p} : pc'[q] = pc[q]
        BY <2>2, <3>1 DEF Create, Gone, Fail, Goto, TypeOK
      <4> QED
        BY <1>2, <2>2, <3>1, <4>1 DEF Create
    <3>2. CASE ~Gone(p)
      BY <1>1, <2>1, <2>2, <3>2 DEF Create, ending
    <3> QED
      BY <3>1, <3>2
  <2>3. CASE Created(p)
    <3>1. \A q \in Processes \ {p} : quit'[q] = quit[q] /\ turn'[q] = turn[q]
      BY <2>3 DEF Created, TypeOK
    <3>2. quit'[p] = "waiting" /\ UNCHANGED <<svc, after>>
      BY <2>3 DEF Created, service, history, TypeOK
    <3>3. \A q \in Processes, s \in Names : Stopped(q, s)' => Stopped(q, s)
      BY <3>1, <3>2 DEF Stopped
    <3> QED
      BY <2>1, <3>2, <3>3 DEF EndInv, StoppedInv, ExitStops
  <2>4. CASE Read(p) \/ Tls(p) \/ Sign(p) \/ Key(p) \/ Load(p)
    BY <1>1, <2>1, <2>4 DEF Read, Tls, Sign, Key, Load, service, ending
  <2>5. CASE \E f \in Files : Stat(p, f) \/ Open(p, f) \/ Write(p, f)
    BY <1>1, <2>1, <2>5 DEF Stat, Open, Write, service, ending
  <2> QED
    BY <1>5, <2>2, <2>3, <2>4, <2>5 DEF MainStep
<1>6. ASSUME NEW p \in Processes, Exit(p)
      PROVE  EndInv'
  <2>1. \A s \in Names : Stopped(p, s)
    BY <1>6 DEF Exit, Stopped
  <2>2. \A q \in Processes \ {p} : svc'[q] = svc[q] /\ pc'[q] = pc[q]
    BY <1>6 DEF Exit, Goto, TypeOK
  <2> QED
    BY <1>2, <1>6, <2>1, <2>2 DEF Exit, history
<1>7. ASSUME NEW p \in Processes, Crash(p)
      PROVE  EndInv'
  <2>1. pc'[p] = "crashed" /\ \A q \in Processes \ {p} : svc'[q] = svc[q] /\ pc'[q] = pc[q]
    BY <1>7 DEF Crash, Goto, TypeOK
  <2> QED
    BY <1>2, <1>7, <2>1 DEF Crash
<1>8. ASSUME NEW p \in Processes, Signal(p)
      PROVE  EndInv'
  BY <1>1, <1>8 DEF Signal, process, service
<1>9. ASSUME NEW p \in Processes, QuitTake(p) \/ QuitClose(p)
      PROVE  EndInv'
  <2>1. UNCHANGED <<pc, svc, after>>
    BY <1>9 DEF QuitTake, QuitClose, process, service, history
  <2>2. \A q \in Processes \ {p} : quit'[q] = quit[q] /\ turn'[q] = turn[q]
    BY <1>9 DEF QuitTake, QuitClose, Advance, TypeOK
  <2>3. quit'[p] = "closing" \/ (quit'[p] = "stopping" /\ turn'[p] = 1)
    BY <1>9 DEF QuitTake, QuitClose, Advance, TypeOK
  <2>4. \A q \in Processes, s \in Names : Stopped(q, s)' => Stopped(q, s)
    BY <2>2, <2>3 DEF Stopped
  <2> QED
    BY <2>1, <2>4 DEF EndInv, StoppedInv, ExitStops
<1>10. ASSUME NEW p \in Processes, QuitStop(p)
       PROVE  EndInv'
  <2> DEFINE z == Order[turn[p]]
  <2>1. UNCHANGED <<pc, after>> /\ Alive(p) /\ quit[p] = "stopping"
    BY <1>10 DEF QuitStop, process, history
  <2>2. /\ \A q \in Processes \ {p} : quit'[q] = quit[q] /\ turn'[q] = turn[q] /\ svc'[q] = svc[q]
        /\ \A s \in Names : svc'[p][s] = "on" => svc[p][s] = "on" /\ s # z
    BY <1>10 DEF QuitStop, Advance, StopService, TypeOK
  <2>3. turn[p] \in Nat /\ Len(Order) \in Nat
    BY OrderIs DEF TypeOK
  <2>4. ASSUME NEW s \in Names, Stopped(p, s)', s # z
        PROVE  Stopped(p, s)
    <3>1. CASE turn[p] < Len(Order)
      <4>1. turn'[p] = turn[p] + 1 /\ quit'[p] = "stopping"
        BY <1>10, <2>1, <3>1 DEF QuitStop, Advance, TypeOK
      <4>2. PICK i \in 1..(turn'[p] - 1) : Order[i] = s
        <5>1. \E i \in 1..(turn'[p] - 1) : Order[i] = s
          BY <2>4, <4>1, Zenon DEF Stopped
        <5> QED
          BY <5>1
      <4>3. i \in 1..(turn[p] - 1)
        BY <2>3, <2>4, <4>1, <4>2
      <4> QED
        BY <2>1, <4>2, <4>3 DEF Stopped
    <3>2. CASE ~(turn[p] < Len(Order))
      <4>1. PICK i \in 1..Len(Order) : Order[i] = s
        BY OrderIs
      <4>2. i \in 1..(turn[p] - 1)
        BY <2>3, <2>4, <3>2, <4>1
      <4> QED
        BY <2>1, <4>1, <4>2 DEF Stopped
    <3> QED
      BY <3>1, <3>2
  <2>5. \A q \in Processes \ {p}, s \in Names : Stopped(q, s)' <=> Stopped(q, s)
    BY <2>2 DEF Stopped
  <2>6. StoppedInv'
    BY <2>1, <2>2, <2>4, <2>5 DEF EndInv, StoppedInv
  <2>7. ExitStops'
    BY <2>1, <2>2 DEF EndInv, ExitStops, Alive, Over
  <2> QED
    BY <2>6, <2>7 DEF EndInv
<1>11. ASSUME NEW p \in Processes, NEW s \in Names, Run(p, s)
       PROVE  EndInv'
  BY <1>3, <1>11 DEF Run, process, ending
<1>12. ASSUME NEW p \in Processes, NEW s \in Names, Control(p, s)
       PROVE  EndInv'
  BY <1>3, <1>12 DEF Control, process, ending
<1>13. ASSUME NEW p \in Processes, NEW s \in Names, AcceptEnds(p, s)
       PROVE  EndInv'
  BY <1>1, <1>13 DEF AcceptEnds, process, ending, history
<1>14. ASSUME NEW p \in Processes, NEW s \in Names, NEW a \in {"start", "stop"}, Accept(p, s, a)
       PROVE  EndInv'
  BY <1>1, <1>14 DEF Accept, process, ending, history
<1>15. ASSUME UNCHANGED vars
       PROVE  EndInv'
  BY <1>1, <1>15 DEF vars, process, service, ending, history
<1> QED
  BY <1>4, <1>5, <1>6, <1>7, <1>8, <1>9, <1>10, <1>11, <1>12, <1>13, <1>14, <1>15 DEF Next, QuitStep

\* An orderly end leaves no service on, but one that was started after its
\* stop (the quit goroutine of simulacrum.go).
THEOREM ExitStopsServices == Spec => []ExitStops
<1>1. Init => EndInv
  BY DEF Init, EndInv, StoppedInv, ExitStops
<1>2. TypeOK /\ EndInv /\ [Next]_vars => EndInv'
  BY EndStep
<1>3. EndInv => ExitStops
  BY DEF EndInv
<1> QED
  BY <1>1, <1>2, <1>3, TypeCorrect, PTL DEF Spec
=============================================================================
