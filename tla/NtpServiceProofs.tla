-------------------------- MODULE NtpServiceProofs --------------------------
(***************************************************************************)
(* Theorems about NtpService, for any number of clients and commands, any  *)
(* time, any unit and any multipliers, negative ones and ones that are not *)
(* finite included: the wait group counts the serve loops, the simulated   *)
(* clock takes no leap and follows the multipliers to within a second for  *)
(* each that was set, a service that says "running" serves, and one that   *)
(* has stopped answers nothing.                                            *)
(***************************************************************************)
EXTENDS NtpService, FiniteSetTheorems, TLAPS

-----------------------------------------------------------------------------
(* Arithmetic.                                                              *)

\* A quotient is rounded down.
LEMMA Quotient ==
    ASSUME NEW x \in Nat, NEW u \in Nat \ {0}
    PROVE  /\ x \div u \in Nat
           /\ (x \div u) * u <= x
           /\ x <= (x \div u) * u + (u - 1)
OBVIOUS

LEMMA ProductIsNat ==
    ASSUME NEW x \in Nat, NEW y \in Nat
    PROVE  x * y \in Nat
OBVIOUS

LEMMA ProductIsInt ==
    ASSUME NEW x \in Int, NEW y \in Int
    PROVE  x * y \in Int
OBVIOUS

LEMMA ProductMonotone ==
    ASSUME NEW x \in Nat, NEW y \in Nat, NEW u \in Nat, x <= y
    PROVE  x * u <= y * u
<1>1. (y - x) * u \in Nat
  BY ProductIsNat
<1>2. (y - x) * u = y * u - x * u
  OBVIOUS
<1> QED
  BY <1>1, <1>2

LEMMA QuotientMonotone ==
    ASSUME NEW x \in Nat, NEW y \in Nat, NEW u \in Nat \ {0}, x <= y
    PROVE  x \div u <= y \div u
<1> DEFINE q == x \div u
           r == y \div u
<1>1. q \in Nat /\ r \in Nat /\ q * u <= x /\ y <= r * u + (u - 1)
  BY Quotient
<1> HIDE DEF q, r
<1>2. ASSUME r + 1 <= q
      PROVE  FALSE
  <2>1. (r + 1) * u <= q * u
    BY <1>1, <1>2, ProductMonotone
  <2>2. (r + 1) * u = r * u + u
    BY <1>1
  <2>3. r * u \in Nat /\ q * u \in Nat
    BY <1>1, ProductIsNat
  <2> QED
    BY <1>1, <2>1, <2>2, <2>3
<1>3. q <= r
  BY <1>1, <1>2
<1> QED
  BY <1>3 DEF q, r

\* int64() drops less than a unit, on either side of zero.
LEMMA Truncation ==
    ASSUME NEW x \in Int
    PROVE  /\ Trunc(x) \in Int
           /\ -(Unit - 1) <= x - Trunc(x) * Unit /\ x - Trunc(x) * Unit <= Unit - 1
<1>1. Unit \in Nat \ {0} /\ Unit \in Nat /\ Unit > 0
  BY NtpAssumption
<1>2. CASE x >= 0
  <2>1. x \in Nat /\ Trunc(x) = x \div Unit
    BY <1>2 DEF Trunc
  <2>2. Trunc(x) \in Nat /\ Trunc(x) * Unit <= x /\ x <= Trunc(x) * Unit + (Unit - 1)
    BY <1>1, <2>1, Quotient
  <2>3. Trunc(x) * Unit \in Nat
    BY <1>1, <2>2, ProductIsNat
  <2> QED
    BY <1>1, <2>2, <2>3
<1>3. CASE ~(x >= 0)
  <2> DEFINE q == (-x) \div Unit
  <2>1. -x \in Nat /\ Trunc(x) = -q
    BY <1>3 DEF Trunc
  <2>2. q \in Nat /\ q * Unit <= -x /\ -x <= q * Unit + (Unit - 1)
    BY <1>1, <2>1, Quotient
  <2> HIDE DEF q
  <2>3. q * Unit \in Nat /\ (-q) * Unit = -(q * Unit)
    BY <1>1, <2>2, ProductIsNat
  <2> QED
    BY <1>1, <2>1, <2>2, <2>3
<1> QED
  BY <1>2, <1>3

LEMMA TruncationOfZero == Trunc(0) = 0
<1>1. Unit \in Nat \ {0} /\ Unit \in Nat /\ Unit > 0
  BY NtpAssumption
<1>2. 0 \div Unit \in Nat /\ (0 \div Unit) * Unit <= 0
  BY <1>1, Quotient
<1>3. ASSUME 1 <= 0 \div Unit
      PROVE  FALSE
  <2>1. 1 * Unit <= (0 \div Unit) * Unit
    BY <1>1, <1>2, <1>3, ProductMonotone
  <2>2. (0 \div Unit) * Unit \in Nat
    BY <1>1, <1>2, ProductIsNat
  <2> QED
    BY <1>1, <1>2, <2>1, <2>2
<1>4. 0 \div Unit = 0
  BY <1>2, <1>3
<1> QED
  BY <1>4 DEF Trunc

LEMMA TruncationMonotone ==
    ASSUME NEW x \in Int, NEW y \in Int, x <= y
    PROVE  Trunc(x) <= Trunc(y)
<1>1. Unit \in Nat \ {0}
  BY NtpAssumption
<1>2. CASE x >= 0
  <2>1. x \in Nat /\ y \in Nat /\ y >= 0
    BY <1>2
  <2>2. x \div Unit <= y \div Unit
    BY <1>1, <2>1, QuotientMonotone
  <2> QED
    BY <1>2, <2>1, <2>2 DEF Trunc
<1>3. CASE ~(y >= 0)
  <2>1. -x \in Nat /\ -y \in Nat /\ -y <= -x /\ ~(x >= 0)
    BY <1>3
  <2>2. /\ (-y) \div Unit <= (-x) \div Unit
        /\ (-y) \div Unit \in Nat /\ (-x) \div Unit \in Nat
    BY <1>1, <2>1, Quotient, QuotientMonotone
  <2>3. Trunc(x) = -((-x) \div Unit) /\ Trunc(y) = -((-y) \div Unit)
    BY <1>3, <2>1 DEF Trunc
  <2> QED
    BY <2>2, <2>3
<1>4. CASE ~(x >= 0) /\ y >= 0
  <2>1. -x \in Nat /\ y \in Nat
    BY <1>4
  <2>2. (-x) \div Unit \in Nat /\ y \div Unit \in Nat
    BY <1>1, <2>1, Quotient
  <2>3. Trunc(x) = -((-x) \div Unit) /\ Trunc(y) = y \div Unit
    BY <1>4 DEF Trunc
  <2> QED
    BY <2>2, <2>3
<1> QED
  BY <1>2, <1>3, <1>4

-----------------------------------------------------------------------------
(* Types.                                                                   *)

\* The serve loops of a Server that have not returned.
Working(s) == {r \in Runners : spc[r] \in {"poll", "deadline", "reading"} /\ target[r] = s}

\* Once a start has made a Server there is one, every runner that has loaded
\* it works for one, and the wait group counts its serve loops.
ServerInv ==
    /\ server # None => rpc[server] # "none"
    /\ state = "running" => server # None
    /\ \A c \in Clients : cpc[c] \in {"close", "wait"} => server # None
    /\ \A r \in Runners :
         /\ rpc[r] # "none" => server # None
         /\ rpc[r] \in {"loaded", "opened", "refused", "bound", "failed"} => target[r] # None
         /\ spc[r] # "none" => target[r] # None /\ rpc[r] = "settled"
         /\ wg[r] = Cardinality(Working(r))
         /\ clock[r] # NoTime => clock[r].real <= now

TypeInv == TypeOK /\ ServerInv

LEMMA RunnersAre ==
    /\ Runners \subseteq Nat /\ None \notin Runners /\ IsFiniteSet(Runners)
    /\ \A S \in SUBSET Runners : IsFiniteSet(S) /\ Cardinality(S) \in Nat
<1>1. IsFiniteSet(Runners) /\ Runners \subseteq Nat /\ None \notin Runners
  BY NtpAssumption, FS_Interval DEF Runners, None
<1>2. \A S \in SUBSET Runners : IsFiniteSet(S) /\ Cardinality(S) \in Nat
  BY <1>1, FS_Subset, FS_CardinalityType
<1> QED
  BY <1>1, <1>2

\* The time that a Server answers is a time, on either side of zero.
LEMMA TimeType ==
    ASSUME TypeOK, NEW s \in Runners, clock[s] # NoTime
    PROVE  /\ Elapsed(s) \in Int /\ AdjustedTime(s) \in Int
           /\ (now - clock[s].real) * clock[s].multiplier \in Int
           /\ clock[s].base \in Int /\ clock[s].real \in Nat /\ clock[s].multiplier \in Int
           /\ now \in Nat
<1>1. clock[s] \in Clocks
  BY DEF TypeOK
<1>2. clock[s].base \in Int /\ clock[s].real \in Nat /\ clock[s].multiplier \in Int /\ now \in Nat
  BY <1>1, NtpAssumption DEF TypeOK, Clocks
<1>3. now - clock[s].real \in Int
  BY <1>2
<1>4. (now - clock[s].real) * clock[s].multiplier \in Int
  BY <1>2, <1>3, ProductIsInt
<1>5. Elapsed(s) \in Int
  BY <1>4, Truncation DEF Elapsed
<1> QED
  BY <1>2, <1>4, <1>5 DEF AdjustedTime

\* A clock that is given a multiplier is a clock, or none.
LEMMA ClockType ==
    ASSUME NEW b \in Int, NEW n \in Nat, NEW m \in Multipliers \cup {NotFinite}
    PROVE  /\ Clock(b, n, m) \in Clocks \cup {NoTime}
           /\ Clock(b, n, m) # NoTime =>
                /\ m \in Int
                /\ Clock(b, n, m) = [base |-> b, real |-> n, multiplier |-> m]
<1>1. CASE m = NotFinite
  BY <1>1 DEF Clock
<1>2. CASE m # NotFinite
  <2>1. m \in Int
    BY <1>2, NtpAssumption
  <2> QED
    BY <1>2, <2>1 DEF Clock, Clocks
<1> QED
  BY <1>1, <1>2

LEMMA TypeInit == Init => TypeInv
<1> SUFFICES ASSUME Init
             PROVE  TypeInv
  OBVIOUS
<1>1. TypeOK
  <2>2. clock \in [Runners -> Clocks \cup {NoTime}]
    BY DEF Init
  <2>3. /\ goal \in [Clients -> Commands] /\ cpc \in [Clients -> CPCs]
        /\ rpc \in [Runners -> RPCs] /\ spc \in [Runners -> SPCs]
    BY DEF Init, Commands, CPCs, RPCs, SPCs
  <2>4. commands \in 0..MaxCommands /\ now \in 0..MaxNow
    BY NtpAssumption DEF Init
  <2>5. ideal \in [Runners -> Int] /\ updates \in [Runners -> Nat] /\ wg \in [Runners -> Nat]
    BY DEF Init
  <2>6. /\ target \in [Runners -> Runners \cup {None}]
        /\ conn \in [Runners -> Runners \cup {None}]
        /\ sock \in [Runners -> Runners \cup {None}]
        /\ cancelled \in [Runners -> BOOLEAN]
    BY DEF Init
  <2> QED
    BY <2>2, <2>3, <2>4, <2>5, <2>6 DEF Init, TypeOK
<1>2. \A r \in Runners : Working(r) = {}
  BY DEF Init, Working
<1>3. \A r \in Runners : clock[r] = NoTime
  BY DEF Init
<1> QED
  BY <1>1, <1>2, <1>3, FS_EmptySet DEF TypeInv, ServerInv, Init

\* The count of the serve loops, when no loop and no target changes.
LEMMA WorkingKept ==
    ASSUME NEW s, UNCHANGED <<spc, target>>
    PROVE  Working(s)' = Working(s)
BY DEF Working

LEMMA ClientType ==
    ASSUME TypeInv, NEW c \in Clients,
           ClientStep(c) \/ \E a \in Commands : Command(c, a)
    PROVE  TypeInv'
<1> USE DEF TypeInv, TypeOK, Goto, CPCs, life, clients, runners, loops, times
<1>0. \A r \in Runners : UNCHANGED <<spc, target>> => Working(r)' = Working(r)
  BY WorkingKept
<1>1. ASSUME NEW a \in Commands, Command(c, a)
      PROVE  TypeInv'
  <2>1. commands' \in 0..MaxCommands
    BY <1>1, NtpAssumption DEF Command
  <2> QED
    BY <1>0, <1>1, <2>1 DEF Command, Commands, ServerInv
<1>2. CASE StartRefused(c)
  BY <1>0, <1>2 DEF StartRefused, ServerInv
<1>3. CASE Start(c)
  <2>1. PICK r \in Runners :
          /\ rpc[r] = "none"
          /\ server' = r
          /\ rpc' = [rpc EXCEPT ![r] = "spawned"]
          /\ clock' = [clock EXCEPT ![r] = Clock(now, now, Configured)]
          /\ ideal' = [ideal EXCEPT ![r] = now * Unit]
    BY <1>3 DEF Start
  <2>2. now \in Nat /\ now \in Int /\ now * Unit \in Int
    BY NtpAssumption, ProductIsNat
  <2>a. /\ Clock(now, now, Configured) \in Clocks \cup {NoTime}
        /\ Clock(now, now, Configured) # NoTime => Clock(now, now, Configured).real = now
    BY <2>2, NtpAssumption, ClockType
  <2>3. clock' \in [Runners -> Clocks \cup {NoTime}] /\ ideal' \in [Runners -> Int]
    BY <2>1, <2>2, <2>a
  <2>4. rpc' \in [Runners -> RPCs] /\ server' \in Runners
    BY <2>1 DEF RPCs
  <2>5. TypeOK'
    BY <1>3, <2>3, <2>4 DEF Start
  <2>6. \A q \in Runners : clock'[q] # NoTime => clock'[q].real <= now
    BY <2>1, <2>2, <2>a DEF ServerInv
  <2>7. ServerInv'
    BY <1>0, <1>3, <2>1, <2>4, <2>6, RunnersAre DEF Start, ServerInv
  <2> QED
    BY <2>5, <2>7
<1>4. CASE StopRefused(c)
  BY <1>0, <1>4 DEF StopRefused, ServerInv
<1>5. CASE RestartCheck(c)
  BY <1>0, <1>5 DEF RestartCheck, ServerInv
<1>6. CASE StopCancel(c)
  BY <1>0, <1>6 DEF StopCancel, ServerInv
<1>7. CASE StopClose(c)
  BY <1>0, <1>7 DEF StopClose, ServerInv, Free
<1>8. CASE StopEnd(c)
  BY <1>0, <1>8 DEF StopEnd, ServerInv
<1>9. CASE Update(c)
  <2>1. CASE UNCHANGED <<clock, updates>>
    BY <1>0, <1>9, <2>1 DEF Update, ServerInv
  <2>2. CASE ~UNCHANGED <<clock, updates>>
    <3>1. PICK m \in Multipliers \cup {NotFinite} :
            /\ server # None /\ SetMultiplier(server, m) /\ UNCHANGED dead
            /\ updates' = [updates EXCEPT ![server] = @ + 1]
      BY <1>9, <2>2 DEF Update
    <3>2. server \in Runners
      BY <3>1
    <3>3. ASSUME NEW r \in Runners
          PROVE  /\ clock'[r] \in Clocks \cup {NoTime}
                 /\ clock'[r] # NoTime => clock'[r].real <= now
      <4>1. CASE r # server \/ clock[r] = NoTime
        BY <3>1, <3>2, <4>1 DEF SetMultiplier, ServerInv
      <4>2. CASE r = server /\ clock[r] # NoTime
        <5>1. AdjustedTime(r) \in Int /\ now \in Nat
          BY <4>2, TimeType
        <5>2. clock'[r] = Clock(AdjustedTime(r), now, m)
          BY <3>1, <3>2, <4>2 DEF SetMultiplier
        <5>3. clock'[r] # NoTime => clock'[r].real = now
          <6>1. /\ AdjustedTime(r) \in Int /\ now \in Nat
                /\ m \in Multipliers \cup {NotFinite}
            BY <5>1
          <6>2. clock'[r] # NoTime =>
                  clock'[r] = [base |-> AdjustedTime(r), real |-> now, multiplier |-> m]
            BY <5>2, <6>1, ClockType
          <6> QED
            BY <6>2
        <5> QED
          BY <5>1, <5>2, <5>3, ClockType
      <4> QED
        BY <4>1, <4>2
    <3>4. clock' \in [Runners -> Clocks \cup {NoTime}]
      BY <3>1, <3>3 DEF SetMultiplier
    <3>6. updates' \in [Runners -> Nat]
      BY <3>1
    <3> QED
      BY <1>0, <1>9, <3>1, <3>3, <3>4, <3>6 DEF Update, ServerInv
  <2> QED
    BY <2>1, <2>2
<1> QED
  BY <1>1, <1>2, <1>3, <1>4, <1>5, <1>6, <1>7, <1>8, <1>9 DEF ClientStep

LEMMA RunnerType ==
    ASSUME TypeInv, NEW r \in Runners, RunnerStep(r)
    PROVE  TypeInv'
<1> USE DEF TypeInv, TypeOK, Become, life, clients, loops, times
<1>0. \A s \in Runners : UNCHANGED <<spc, target>> => Working(s)' = Working(s)
  BY WorkingKept
<1>1. CASE Load(r)
  <2>1. spc[r] = "none" /\ server \in Runners
    BY <1>1 DEF Load, ServerInv
  <2>2. \A q \in Runners : q # r => target'[q] = target[q]
    BY <1>1 DEF Load
  <2>3. \A s \in Runners : Working(s)' = Working(s)
    BY <1>1, <2>1, <2>2 DEF Load, Working
  <2>4. target' \in [Runners -> Runners \cup {None}] /\ target'[r] # None
    BY <1>1, <2>1, RunnersAre DEF Load
  <2>5. rpc' \in [Runners -> RPCs] /\ rpc'[r] = "loaded" /\ rpc[r] = "spawned"
    BY <1>1 DEF Load, RPCs
  <2>6. TypeOK'
    BY <1>1, <2>4, <2>5 DEF Load
  <2>7. ServerInv'
    BY <1>1, <2>1, <2>2, <2>3, <2>4, <2>5 DEF Load, ServerInv
  <2> QED
    BY <2>6, <2>7
<1>2. CASE Listen(r)
  BY <1>0, <1>2 DEF Listen, ServerInv, RPCs
<1>3. CASE Assign(r)
  <2>1. conn' \in [Runners -> Runners \cup {None}]
    BY <1>3 DEF Assign
  <2>2. \E l \in {"bound", "failed"} : Become(r, l) /\ rpc[r] \in {"opened", "refused"}
    BY <1>3 DEF Assign
  <2>3. TypeOK'
    BY <1>3, <2>1, <2>2 DEF Assign, RPCs
  <2>4. ServerInv'
    BY <1>0, <1>3, <2>2 DEF Assign, ServerInv
  <2> QED
    BY <2>3, <2>4
<1>4. CASE Serve(r)
  <2>1. spc[r] = "none" /\ target[r] \in Runners
    BY <1>4 DEF Serve, ServerInv
  <2>2. /\ spc' = [spc EXCEPT ![r] = "poll"]
        /\ wg' = [wg EXCEPT ![target[r]] = @ + 1] /\ UNCHANGED target
    BY <1>4 DEF Serve
  <2>3. \A s \in Runners : Working(s)' = IF s = target[r] THEN Working(s) \cup {r} ELSE Working(s)
    BY <2>1, <2>2 DEF Working
  <2>4. /\ r \notin Working(target[r]) /\ IsFiniteSet(Working(target[r]))
        /\ Cardinality(Working(target[r])) \in Nat
    BY <2>1, RunnersAre DEF Working
  <2>5. Cardinality(Working(target[r]) \cup {r}) = Cardinality(Working(target[r])) + 1
    BY <2>4, FS_AddElement
  <2>6. \A s \in Runners : wg'[s] = Cardinality(Working(s)')
    BY <2>1, <2>2, <2>3, <2>5 DEF ServerInv
  <2>7. rpc' = [rpc EXCEPT ![r] = "settled"] /\ rpc[r] = "bound"
    BY <1>4 DEF Serve
  <2>8. TypeOK'
    BY <1>4, <2>1, <2>2, <2>7 DEF Serve, RPCs, SPCs
  <2>9. ServerInv'
    BY <1>4, <2>1, <2>2, <2>6, <2>7 DEF Serve, ServerInv
  <2> QED
    BY <2>8, <2>9
<1>5. CASE SetError(r)
  BY <1>0, <1>5 DEF SetError, ServerInv, RPCs
<1> QED
  BY <1>1, <1>2, <1>3, <1>4, <1>5 DEF RunnerStep

LEMMA LoopType ==
    ASSUME TypeInv, NEW r \in Runners, LoopStep(r) \/ Reply(r)
    PROVE  TypeInv'
<1> USE DEF TypeInv, TypeOK, Loop, life, clients, runners, times
<1>1. /\ spc[r] \in {"poll", "deadline", "reading"} /\ target[r] \in Runners
      /\ UNCHANGED <<life, clients, runners, conn, cancelled, times>>
  BY DEF LoopStep, Poll, Deadline, Timeout, ReadClosed, Reply, ServerInv
<1>2. sock' \in [Runners -> Runners \cup {None}] /\ dead' \in BOOLEAN
  <2>1. dead' = TRUE \/ dead' = dead
    BY DEF LoopStep, Poll, Deadline, Timeout, ReadClosed, Reply
  <2>2. sock' = sock \/ sock' = [sock EXCEPT ![r] = conn[target[r]]]
    BY DEF LoopStep, Poll, Deadline, Timeout, ReadClosed, Reply
  <2>3. conn[target[r]] \in Runners \cup {None}
    BY <1>1
  <2>4. sock' \in [Runners -> Runners \cup {None}]
    BY <2>2, <2>3
  <2>5. dead' \in BOOLEAN
    BY <2>1
  <2> QED
    BY <2>4, <2>5
<1>3. CASE Leave(r)
  <2>1. /\ spc' = [spc EXCEPT ![r] = "done"] /\ UNCHANGED target
        /\ wg' = [wg EXCEPT ![target[r]] = @ - 1]
    BY <1>1, <1>3 DEF Leave
  <2>2. \A s \in Runners : Working(s)' = IF s = target[r] THEN Working(s) \ {r} ELSE Working(s)
    BY <1>1, <2>1 DEF Working
  <2>3. /\ r \in Working(target[r]) /\ IsFiniteSet(Working(target[r]))
        /\ Cardinality(Working(target[r])) \in Nat
    BY <1>1, RunnersAre DEF Working
  <2>4. /\ Cardinality(Working(target[r]) \ {r}) = Cardinality(Working(target[r])) - 1
        /\ Cardinality(Working(target[r]) \ {r}) \in Nat
    BY <2>3, FS_RemoveElement, FS_CardinalityType
  <2>5. \A s \in Runners : wg'[s] = Cardinality(Working(s)')
    BY <1>1, <2>1, <2>2, <2>4 DEF ServerInv
  <2>6. wg[target[r]] - 1 \in Nat
    BY <1>1, <2>4 DEF ServerInv
  <2>7. TypeOK'
    BY <1>1, <1>2, <2>1, <2>6 DEF SPCs
  <2>8. ServerInv'
    BY <1>1, <2>1, <2>5 DEF ServerInv
  <2> QED
    BY <2>7, <2>8
<1>4. ASSUME NEW l \in {"poll", "deadline", "reading"}, Loop(r, l), UNCHANGED wg
      PROVE  TypeInv'
  <2>1. \A s \in Runners : Working(s)' = Working(s)
    BY <1>1, <1>4 DEF Working
  <2>2. TypeOK'
    BY <1>1, <1>2, <1>4 DEF SPCs
  <2>3. ServerInv'
    BY <1>1, <1>4, <2>1 DEF ServerInv
  <2> QED
    BY <2>2, <2>3
<1>5. CASE UNCHANGED <<spc, wg>>
  <2>1. \A s \in Runners : Working(s)' = Working(s)
    BY <1>1, <1>5, WorkingKept
  <2> QED
    BY <1>1, <1>2, <1>5, <2>1 DEF ServerInv
<1> QED
  BY <1>3, <1>4, <1>5 DEF LoopStep, Poll, Deadline, Timeout, ReadClosed, Reply

LEMMA TickType ==
    ASSUME TypeInv, Tick
    PROVE  TypeInv'
<1> USE DEF TypeInv, TypeOK, life, clients, runners, loops
<1>1. \A s \in Runners : Working(s)' = Working(s)
  BY WorkingKept DEF Tick
<1>2. now' \in 0..MaxNow /\ now' = now + 1 /\ now \in Nat
  BY NtpAssumption DEF Tick
<1>3. \A s \in Runners :
        clock[s] # NoTime => clock[s].multiplier \in Int /\ clock[s].real \in Nat
  BY DEF Clocks
<1>4. ideal' \in [Runners -> Int]
  BY <1>3 DEF Tick, Ticks
<1>5. \A s \in Runners : clock'[s] # NoTime => clock'[s].real <= now'
  BY <1>2, <1>3 DEF Tick, ServerInv
<1>6. TypeOK'
  BY <1>2, <1>4 DEF Tick
<1>7. ServerInv'
  BY <1>1, <1>5 DEF Tick, ServerInv
<1> QED
  BY <1>6, <1>7

LEMMA TypeInvariant == Spec => []TypeInv
<1>1. TypeInv /\ UNCHANGED vars => TypeInv'
  BY WorkingKept DEF TypeInv, TypeOK, ServerInv, vars, life, clients, runners, loops, times
<1>2. TypeInv /\ [Next]_vars => TypeInv'
  BY <1>1, ClientType, RunnerType, LoopType, TickType DEF Next
<1> QED
  BY <1>2, TypeInit, PTL DEF Spec

\* Every variable keeps its type; above all the wait group does not become
\* negative.
THEOREM TypeCorrect == Spec => []TypeOK
<1>1. TypeInv => TypeOK
  BY DEF TypeInv
<1> QED
  BY <1>1, TypeInvariant, PTL

-----------------------------------------------------------------------------
(* The clock.                                                               *)

\* How far the exact time is from the simulated one, not counting what is gone
\* since the multiplier was set: a SetMultiplier drops less than a unit, and
\* nothing else does.
Behind(s) ==
    ideal[s] - (clock[s].base * Unit + (now - clock[s].real) * clock[s].multiplier)

\* What k multipliers may drop.
Dropped(k) == (Unit - 1) * k

DriftInv ==
    \A s \in Runners :
       /\ rpc[s] = "none" => updates[s] = 0
       /\ Ticks(s) => -Dropped(updates[s]) <= Behind(s) /\ Behind(s) <= Dropped(updates[s])

LEMMA DroppedIs ==
    ASSUME NEW k \in Nat
    PROVE  Dropped(k) \in Nat /\ Dropped(k + 1) = Dropped(k) + (Unit - 1) /\ Dropped(0) = 0
<1>1. Unit - 1 \in Nat
  BY NtpAssumption
<1>2. (Unit - 1) * (k + 1) = (Unit - 1) * k + (Unit - 1) /\ (Unit - 1) * 0 = 0
  BY <1>1
<1> QED
  BY <1>1, <1>2, ProductIsNat DEF Dropped

\* A clock that is not set.
LEMMA DriftFrame ==
    ASSUME TypeInv, DriftInv, UNCHANGED times,
           \A s \in Runners : rpc'[s] = "none" <=> rpc[s] = "none"
    PROVE  DriftInv'
BY DEF DriftInv, Behind, Ticks, times

LEMMA DriftStart ==
    ASSUME TypeInv, DriftInv, NEW c \in Clients, Start(c)
    PROVE  DriftInv'
<1>1. PICK r \in Runners :
        /\ rpc[r] = "none"
        /\ rpc' = [rpc EXCEPT ![r] = "spawned"]
        /\ clock' = [clock EXCEPT ![r] = Clock(now, now, Configured)]
        /\ ideal' = [ideal EXCEPT ![r] = now * Unit]
        /\ UNCHANGED <<now, updates>>
  BY DEF Start
<1>2. now \in Nat /\ Unit \in Nat /\ now \in Int
  BY NtpAssumption DEF TypeInv, TypeOK
<1>3. updates'[r] = 0 /\ Dropped(0) = 0
  BY <1>1, DroppedIs DEF DriftInv
<1>4. ASSUME clock'[r] # NoTime
      PROVE  Behind(r)' = 0
  <2>1. clock'[r] = Clock(now, now, Configured) /\ ideal'[r] = now * Unit
    BY <1>1 DEF TypeInv, TypeOK
  <2>2. /\ Configured \in Int
        /\ clock'[r] = [base |-> now, real |-> now, multiplier |-> Configured]
    BY <1>2, <1>4, <2>1, NtpAssumption, ClockType
  <2>3. Behind(r)' = now * Unit - (now * Unit + (now - now) * Configured)
    BY <1>1, <2>1, <2>2 DEF Behind
  <2>4. now * Unit \in Nat /\ (now - now) * Configured = 0
    BY <1>2, <2>2, ProductIsNat
  <2> QED
    BY <2>3, <2>4
<1>5. rpc'[r] # "none"
  BY <1>1 DEF TypeInv, TypeOK
<1>6. ASSUME NEW s \in Runners, s # r
      PROVE  rpc'[s] = rpc[s] /\ Ticks(s)' = Ticks(s) /\ Behind(s)' = Behind(s)
             /\ updates'[s] = updates[s]
  BY <1>1, <1>6 DEF Behind, Ticks, TypeInv, TypeOK
<1> QED
  BY <1>3, <1>4, <1>5, <1>6 DEF DriftInv, Ticks

LEMMA DriftUpdate ==
    ASSUME TypeInv, DriftInv, NEW m \in Multipliers \cup {NotFinite},
           server # None, SetMultiplier(server, m),
           updates' = [updates EXCEPT ![server] = @ + 1],
           UNCHANGED <<now, ideal, rpc, server>>
    PROVE  DriftInv'
<1>1. server \in Runners /\ rpc[server] # "none" /\ updates[server] \in Nat
  BY DEF TypeInv, TypeOK, ServerInv
<1>2. updates'[server] = updates[server] + 1
  BY <1>1 DEF TypeInv, TypeOK
<1>3. ASSUME NEW s \in Runners, s # server
      PROVE  Ticks(s)' = Ticks(s) /\ Behind(s)' = Behind(s) /\ updates'[s] = updates[s]
  BY <1>1, <1>3 DEF Behind, Ticks, SetMultiplier, TypeInv, TypeOK
<1>4. ASSUME clock'[server] # NoTime
      PROVE  /\ -Dropped(updates'[server]) <= Behind(server)'
             /\ Behind(server)' <= Dropped(updates'[server])
  <2> DEFINE x == (now - clock[server].real) * clock[server].multiplier
             q == Trunc(x)
             b == clock[server].base
             i == ideal[server]
             d == Dropped(updates[server])
  <2>1. /\ clock[server] # NoTime
        /\ clock'[server] = Clock(AdjustedTime(server), now, m)
    BY <1>1, <1>4 DEF SetMultiplier, TypeInv, TypeOK
  <2>2. x \in Int /\ b \in Int /\ now \in Nat /\ AdjustedTime(server) \in Int
    BY <1>1, <2>1, TimeType DEF TypeInv
  <2>3. m \in Int /\ clock'[server] = [base |-> AdjustedTime(server), real |-> now, multiplier |-> m]
    BY <1>4, <2>1, <2>2, ClockType
  <2>4. AdjustedTime(server) = b + q
    BY DEF AdjustedTime, Elapsed
  <2>5. Behind(server) = i - (b * Unit + x)
    BY DEF Behind
  <2>6. Behind(server)' = i - ((b + q) * Unit + (now - now) * m)
    BY <2>3, <2>4 DEF Behind
  <2>7. i \in Int /\ Unit \in Int
    BY <1>1, NtpAssumption DEF TypeInv, TypeOK
  <2>8. d \in Nat /\ Dropped(updates'[server]) = d + (Unit - 1)
    BY <1>1, <1>2, DroppedIs
  <2>9. -d <= Behind(server) /\ Behind(server) <= d
    BY <1>1, <2>1 DEF DriftInv, Ticks
  <2> HIDE DEF x, b, i, d
  <2>10. q \in Int /\ -(Unit - 1) <= x - q * Unit /\ x - q * Unit <= Unit - 1
    BY <2>2, Truncation
  <2> HIDE DEF q
  <2>11. (b + q) * Unit = b * Unit + q * Unit /\ (now - now) * m = 0
    BY <2>2, <2>3, <2>7, <2>10
  <2>12. b * Unit \in Int /\ q * Unit \in Int
    BY <2>2, <2>7, <2>10, ProductIsInt
  <2>13. Behind(server)' = Behind(server) + (x - q * Unit) /\ Behind(server) \in Int
    BY <2>2, <2>5, <2>6, <2>7, <2>11, <2>12
  <2> QED
    BY <2>2, <2>7, <2>8, <2>9, <2>10, <2>12, <2>13
<1> QED
  BY <1>1, <1>3, <1>4 DEF DriftInv, Ticks

LEMMA DriftTick ==
    ASSUME TypeInv, DriftInv, Tick
    PROVE  DriftInv'
<1>1. now' = now + 1 /\ UNCHANGED <<rpc, clock, updates>>
  BY DEF Tick, runners
<1>2. ASSUME NEW s \in Runners, Ticks(s)
      PROVE  Behind(s)' = Behind(s)
  <2> DEFINE e == now - clock[s].real
             m == clock[s].multiplier
             z == clock[s].base * Unit
  <2>1. ideal'[s] = ideal[s] + m /\ ideal[s] \in Int
    BY <1>2 DEF Tick, TypeInv, TypeOK
  <2>2. e \in Int /\ m \in Int /\ z \in Int /\ now' - clock[s].real = e + 1
    <3>1. now \in Nat /\ clock[s].real \in Nat /\ clock[s].base \in Int /\ m \in Int
      BY <1>2, TimeType DEF TypeInv, Ticks
    <3> QED
      BY <1>1, <3>1, ProductIsInt, NtpAssumption
  <2>3. Behind(s) = ideal[s] - (z + e * m)
    BY DEF Behind
  <2>4. Behind(s)' = (ideal[s] + m) - (z + (e + 1) * m)
    BY <1>1, <2>1, <2>2 DEF Behind
  <2> HIDE DEF e, m, z
  <2>5. (e + 1) * m = e * m + m /\ e * m \in Int
    BY <2>2, ProductIsInt
  <2> QED
    BY <2>1, <2>2, <2>3, <2>4, <2>5
<1>3. \A s \in Runners : Ticks(s)' = Ticks(s)
  BY <1>1 DEF Ticks
<1> QED
  BY <1>1, <1>2, <1>3 DEF DriftInv

LEMMA DriftInvariant == Spec => []DriftInv
<1>1. Init => DriftInv
  BY DEF Init, DriftInv, Ticks
<1>2. TypeInv /\ DriftInv /\ [Next]_vars => DriftInv'
  <2> SUFFICES ASSUME TypeInv, DriftInv, [Next]_vars
               PROVE  DriftInv'
    OBVIOUS
  <2>1. ASSUME UNCHANGED <<times, rpc>>
        PROVE  DriftInv'
    BY <2>1, DriftFrame
  <2>2. ASSUME NEW c \in Clients, NEW a \in Commands, Command(c, a)
        PROVE  DriftInv'
    BY <2>1, <2>2 DEF Command, runners
  <2>3. ASSUME NEW c \in Clients, ClientStep(c)
        PROVE  DriftInv'
    <3>1. CASE Start(c)
      BY <3>1, DriftStart
    <3>2. CASE Update(c)
      <4>1. CASE UNCHANGED <<clock, updates>>
        BY <2>1, <3>2, <4>1 DEF Update, runners, times
      <4>2. CASE ~UNCHANGED <<clock, updates>>
        <5>1. PICK m \in Multipliers \cup {NotFinite} :
                /\ server # None /\ SetMultiplier(server, m)
                /\ updates' = [updates EXCEPT ![server] = @ + 1]
          BY <3>2, <4>2 DEF Update
        <5>2. UNCHANGED <<now, ideal, rpc, server>>
          BY <3>2 DEF Update, runners, life
        <5> QED
          BY <5>1, <5>2, DriftUpdate
      <4> QED
        BY <4>1, <4>2
    <3>3. CASE StartRefused(c) \/ StopRefused(c) \/ RestartCheck(c)
      BY <2>1, <3>3 DEF StartRefused, StopRefused, RestartCheck, runners
    <3>4. CASE StopCancel(c) \/ StopClose(c) \/ StopEnd(c)
      BY <2>1, <3>4 DEF StopCancel, StopClose, StopEnd, runners
    <3> QED
      BY <2>3, <3>1, <3>2, <3>3, <3>4 DEF ClientStep
  <2>4. ASSUME NEW r \in Runners, RunnerStep(r)
        PROVE  DriftInv'
    <3>1. rpc[r] # "none" /\ UNCHANGED times /\ \E l \in RPCs \ {"none"} : Become(r, l)
      BY <2>4 DEF RunnerStep, Load, Listen, Assign, Serve, SetError, Become, RPCs
    <3>2. \A s \in Runners : rpc'[s] = "none" <=> rpc[s] = "none"
      BY <3>1 DEF Become, TypeInv, TypeOK
    <3> QED
      BY <3>1, <3>2, DriftFrame
  <2>5. ASSUME NEW r \in Runners, LoopStep(r) \/ Reply(r)
        PROVE  DriftInv'
    BY <2>1, <2>5 DEF LoopStep, Poll, Deadline, Timeout, ReadClosed, Reply, runners
  <2>6. CASE Tick
    BY <2>6, DriftTick
  <2>7. CASE UNCHANGED vars
    BY <2>1, <2>7 DEF vars, runners
  <2> QED
    BY <2>2, <2>3, <2>4, <2>5, <2>6, <2>7 DEF Next
<1> QED
  BY <1>1, <1>2, TypeInvariant, PTL DEF Spec

\* The simulated time differs from the exact one by less than a second for each
\* multiplier that was set, of any sign, and one (SetMultiplier and adjustedTime
\* of ntp/server.go).
THEOREM ClockFollowsMultipliers == Spec => []ClockDrift
<1>1. ASSUME TypeInv, DriftInv, NEW s \in Runners, Ticks(s)
      PROVE  LET off == ideal[s] - AdjustedTime(s) * Unit
                 bound == Unit * (updates[s] + 1)
             IN  -bound < off /\ off < bound
  <2> DEFINE x == (now - clock[s].real) * clock[s].multiplier
             q == Trunc(x)
             b == clock[s].base
             u == updates[s]
             d == Dropped(u)
             i == ideal[s]
  <2>1. x \in Int /\ b \in Int
    BY <1>1, TimeType DEF TypeInv, Ticks
  <2>2. i \in Int /\ u \in Nat /\ Unit \in Nat /\ Unit > 0
    BY <1>1, NtpAssumption DEF TypeInv, TypeOK
  <2>3. /\ AdjustedTime(s) = b + q
        /\ -d <= i - (b * Unit + x) /\ i - (b * Unit + x) <= d
    BY <1>1 DEF AdjustedTime, Elapsed, DriftInv, Behind
  <2> HIDE DEF x, b, i
  <2>4. q \in Int /\ -(Unit - 1) <= x - q * Unit /\ x - q * Unit <= Unit - 1
    BY <2>1, Truncation
  <2> HIDE DEF q
  <2>5. (b + q) * Unit = b * Unit + q * Unit /\ b * Unit \in Int /\ q * Unit \in Int
    BY <2>1, <2>2, <2>4, ProductIsInt
  <2>6. Unit * (u + 1) = d + u + Unit /\ d \in Nat
    <3>1. Unit * (u + 1) = (Unit - 1) * u + u + Unit
      BY <2>2
    <3> QED
      BY <2>2, <3>1, DroppedIs DEF Dropped
  <2> HIDE DEF d, u
  <2>7. i - (b + q) * Unit = (i - (b * Unit + x)) + (x - q * Unit)
    BY <2>1, <2>2, <2>5
  <2>8. /\ -(Unit * (u + 1)) < i - (b + q) * Unit
        /\ i - (b + q) * Unit < Unit * (u + 1)
    BY <2>1, <2>2, <2>3, <2>4, <2>5, <2>6, <2>7
  <2> QED
    BY <2>3, <2>8 DEF i, u
<1>2. TypeInv /\ DriftInv => ClockDrift
  BY <1>1 DEF ClockDrift
<1> QED
  BY <1>2, TypeInvariant, DriftInvariant, PTL

\* What TimeNeverLeaps says of one Server.
NoLeap(s) ==
    Ticks(s) /\ Ticks(s)' =>
        /\ now' = now => AdjustedTime(s)' = AdjustedTime(s)
        /\ clock[s].multiplier >= 0 => AdjustedTime(s)' >= AdjustedTime(s)
        /\ clock[s].multiplier <= 0 => AdjustedTime(s)' <= AdjustedTime(s)

LEMMA SameTimeNoLeap ==
    ASSUME TypeInv, NEW s \in Runners, Ticks(s) /\ Ticks(s)' => AdjustedTime(s)' = AdjustedTime(s)
    PROVE  NoLeap(s)
<1>1. Ticks(s) => AdjustedTime(s) \in Int
  BY TimeType DEF TypeInv, Ticks
<1> QED
  BY <1>1 DEF NoLeap

\* Time that passes moves a clock in the direction of its multiplier.
LEMMA TickNoLeap ==
    ASSUME TypeInv, Tick, NEW s \in Runners
    PROVE  NoLeap(s)
<1> SUFFICES ASSUME Ticks(s)
             PROVE  /\ now' # now
                    /\ clock[s].multiplier >= 0 => AdjustedTime(s)' >= AdjustedTime(s)
                    /\ clock[s].multiplier <= 0 => AdjustedTime(s)' <= AdjustedTime(s)
  BY DEF NoLeap
<1> DEFINE e == now - clock[s].real
           m == clock[s].multiplier
           b == clock[s].base
<1>1. now' = now + 1 /\ clock' = clock
  BY DEF Tick
<1>2. /\ e \in Int /\ m \in Int /\ b \in Int /\ now \in Nat
      /\ now' - clock[s].real = e + 1
  <2>1. clock[s].real \in Nat /\ now \in Nat /\ m \in Int /\ b \in Int
    BY TimeType DEF TypeInv, Ticks
  <2> QED
    BY <1>1, <2>1
<1>3. AdjustedTime(s) = b + Trunc(e * m)
  BY DEF AdjustedTime, Elapsed
<1>4. AdjustedTime(s)' = b + Trunc((e + 1) * m)
  BY <1>1, <1>2 DEF AdjustedTime, Elapsed, Trunc
<1> HIDE DEF e, b
<1>5. (e + 1) * m = e * m + m /\ e * m \in Int /\ (e + 1) * m \in Int
  BY <1>2, ProductIsInt
<1>6. Trunc(e * m) \in Int /\ Trunc((e + 1) * m) \in Int
  BY <1>5, Truncation
<1>7. m >= 0 => Trunc(e * m) <= Trunc((e + 1) * m)
  BY <1>2, <1>5, TruncationMonotone
<1>8. m <= 0 => Trunc((e + 1) * m) <= Trunc(e * m)
  BY <1>2, <1>5, TruncationMonotone
<1> QED
  BY <1>1, <1>2, <1>3, <1>4, <1>6, <1>7, <1>8

\* An update counts the time so far at the old multiplier.
LEMMA UpdateNoLeap ==
    ASSUME TypeInv, NEW c \in Clients, Update(c), NEW s \in Runners
    PROVE  NoLeap(s)
<1>1. now' = now /\ runners' = runners
  BY DEF Update
<1>2. CASE clock'[s] = clock[s]
  <2>1. AdjustedTime(s)' = AdjustedTime(s)
    BY <1>1, <1>2 DEF AdjustedTime, Elapsed, Trunc
  <2> QED
    BY <2>1, SameTimeNoLeap
<1>3. CASE clock'[s] # clock[s] /\ Ticks(s)'
  <2>1. PICK k \in Multipliers \cup {NotFinite} : server # None /\ SetMultiplier(server, k)
    BY <1>3 DEF Update
  <2>2. s = server /\ clock[s] # NoTime /\ clock'[s] = Clock(AdjustedTime(s), now, k)
    BY <1>3, <2>1 DEF SetMultiplier, TypeInv, TypeOK
  <2>3. AdjustedTime(s) \in Int /\ now \in Nat
    BY <2>2, TimeType DEF TypeInv
  <2>4. k \in Int /\ clock'[s] = [base |-> AdjustedTime(s), real |-> now, multiplier |-> k]
    BY <1>3, <2>2, <2>3, ClockType DEF Ticks
  <2>5. AdjustedTime(s)' = AdjustedTime(s) + Trunc((now - now) * k)
    BY <1>1, <2>4 DEF AdjustedTime, Elapsed, Trunc
  <2>6. (now - now) * k = 0
    BY <2>3, <2>4
  <2>7. AdjustedTime(s)' = AdjustedTime(s)
    BY <2>3, <2>5, <2>6, TruncationOfZero
  <2> QED
    BY <2>7, SameTimeNoLeap
<1> QED
  BY <1>2, <1>3 DEF NoLeap

\* A start touches no clock but the one of the Server that it makes.
LEMMA StartNoLeap ==
    ASSUME TypeInv, NEW c \in Clients, Start(c), NEW s \in Runners
    PROVE  NoLeap(s)
<1>1. ASSUME Ticks(s)
      PROVE  AdjustedTime(s)' = AdjustedTime(s)
  <2>1. clock'[s] = clock[s] /\ now' = now
    BY <1>1 DEF Start, Ticks, TypeInv, TypeOK
  <2> QED
    BY <2>1 DEF AdjustedTime, Elapsed, Trunc
<1> QED
  BY <1>1, SameTimeNoLeap

\* The time that a Server answers takes no leap: a command does not move it,
\* and with the wall clock it moves in the direction of the multiplier in force
\* (SetMultiplier and adjustedTime).
THEOREM TimeTakesNoLeap == Spec => TimeNeverLeaps
<1>1. ASSUME TypeInv, [Next]_vars, NEW s \in Runners
      PROVE  NoLeap(s)
  <2>1. ASSUME UNCHANGED times
        PROVE  NoLeap(s)
    <3>1. AdjustedTime(s)' = AdjustedTime(s)
      BY <2>1 DEF AdjustedTime, Elapsed, Trunc, times
    <3> QED
      BY <1>1, <3>1, SameTimeNoLeap
  <2>2. ASSUME NEW c \in Clients, ClientStep(c)
        PROVE  NoLeap(s)
    BY <1>1, <2>1, <2>2, UpdateNoLeap, StartNoLeap
    DEF ClientStep, StartRefused, StopRefused, RestartCheck, StopCancel, StopClose, StopEnd
  <2>3. ASSUME NEW r \in Runners, RunnerStep(r) \/ LoopStep(r) \/ Reply(r)
        PROVE  NoLeap(s)
    BY <2>1, <2>3 DEF RunnerStep, Load, Listen, Assign, Serve, SetError,
                      LoopStep, Poll, Deadline, Timeout, ReadClosed, Reply
  <2>4. ASSUME NEW c \in Clients, NEW a \in Commands, Command(c, a)
        PROVE  NoLeap(s)
    BY <2>1, <2>4 DEF Command
  <2>5. CASE UNCHANGED vars
    BY <2>1, <2>5 DEF vars
  <2> QED
    BY <1>1, <2>2, <2>3, <2>4, <2>5, TickNoLeap DEF Next
<1>2. TypeInv /\ [Next]_vars =>
        [\A s \in Runners : Ticks(s) /\ Ticks(s)' =>
           /\ now' = now => AdjustedTime(s)' = AdjustedTime(s)
           /\ clock[s].multiplier >= 0 => AdjustedTime(s)' >= AdjustedTime(s)
           /\ clock[s].multiplier <= 0 => AdjustedTime(s)' <= AdjustedTime(s)]_vars
  BY <1>1 DEF NoLeap
<1> QED
  BY <1>2, TypeInvariant, PTL DEF Spec, TimeNeverLeaps

-----------------------------------------------------------------------------
(* Stops, runners and sockets.                                              *)

Stopping(c) == cpc[c] \in {"close", "wait"}
Bound == {"bound", "settled"}
Work == {"poll", "deadline", "reading"}

\* One stop at a time is under the mutex, on the Server that it cancelled.
MutexInv ==
    /\ \A c \in Clients : Stopping(c) => mu /\ state = "running" /\ cancelled[server]
    /\ \A c, d \in Clients : Stopping(c) /\ Stopping(d) => c = d
    /\ mu => \E c \in Clients : Stopping(c)

\* s.server is the last Server that was made, and a runner works for its own
\* or a later one.
OrderInv ==
    /\ \A r \in Runners : rpc[r] # "none" <=> r <= server
    /\ \A r \in Runners : target[r] = None <=> rpc[r] \in {"none", "spawned"}
    /\ \A r \in Runners : target[r] # None => r <= target[r] /\ target[r] <= server
    /\ \A s \in Runners : cancelled[s] => s <= server

\* A Server whose Stop has returned is cancelled, and no loop of it reads or
\* is about to.
OverInv ==
    \A s \in over :
       /\ cancelled[s]
       /\ \A r \in Runners : target[r] = s => spc[r] \notin {"deadline", "reading"}

\* A Server's conn, and the socket that a serve loop reads, were opened by a
\* runner of that Server.  The port's socket is of a runner that serves or will.
SocketInv ==
    /\ \A s \in Runners : conn[s] # None => target[conn[s]] = s /\ rpc[conn[s]] \in Bound
    /\ \A r \in Runners : spc[r] = "reading" =>
          sock[r] # None /\ target[sock[r]] = target[r] /\ rpc[sock[r]] \in Bound
    /\ port # Free =>
          /\ rpc[port] \in {"opened"} \cup Bound
          /\ rpc[port] = "settled" => spc[port] # "none"

\* As long as the service runs and no stop has begun, a runner of its Server
\* that got the port still has it and serves, with the Server's conn, unless
\* another one has failed and is about to report that.
RunInv ==
    state = "running" /\ ~mu =>
      /\ ~cancelled[server]
      /\ \A q \in Runners : target[q] = server =>
           /\ rpc[q] = "settled" => spc[q] \in Work
           /\ rpc[q] \in {"opened"} \cup Bound => port = q
           /\ rpc[q] \in Bound =>
                conn[server] = q \/ \E p \in Runners : target[p] = server /\ rpc[p] = "failed"

\* When no stop met a runner on its way, the only such runner is that of a
\* service that runs, every runner works for its own Server, and the port is
\* that of the Server that runs, until a stop has closed it.
OrderlyInv ==
    ~raced =>
      /\ \A r \in Runners : rpc[r] \notin Settled => r = server /\ state = "running" /\ ~mu
      /\ \A r \in Runners : target[r] \in {None, r}
      /\ \A r \in Runners : rpc[r] = "bound" \/ spc[r] # "none" => conn[r] = r
      /\ port # Free => port = server /\ state = "running"
      /\ \A c \in Clients : cpc[c] = "wait" => port = Free

\* Steps that touch none of this: commands that come, are refused or set a
\* clock, and time.
Quiet ==
    /\ UNCHANGED <<life, runners, conn, cancelled, loops>>
    /\ \A d \in Clients : \A l \in {"close", "wait"} : cpc'[d] = l <=> cpc[d] = l

LEMMA StepCases ==
    ASSUME TypeInv, [Next]_vars
    PROVE  \/ Quiet
           \/ \E c \in Clients : Start(c) \/ StopCancel(c) \/ StopClose(c) \/ StopEnd(c)
           \/ \E r \in Runners : RunnerStep(r) \/ LoopStep(r) \/ Reply(r)
<1> USE DEF TypeInv, TypeOK, Quiet, Goto
<1>1. ASSUME NEW c \in Clients, NEW a \in Commands, Command(c, a)
      PROVE  Quiet
  BY <1>1 DEF Command, Commands
<1>2. ASSUME NEW c \in Clients,
             StartRefused(c) \/ StopRefused(c) \/ RestartCheck(c) \/ Update(c)
      PROVE  Quiet
  BY <1>2 DEF StartRefused, StopRefused, RestartCheck, Update
<1>3. CASE Tick \/ UNCHANGED vars
  BY <1>3 DEF Tick, vars, clients
<1> QED
  BY <1>1, <1>2, <1>3 DEF Next, ClientStep

\* What a turn of a serve loop does.
LEMMA LoopDoes ==
    ASSUME TypeInv, NEW r \in Runners, LoopStep(r) \/ Reply(r)
    PROVE  /\ spc[r] \in Work /\ rpc[r] = "settled" /\ target[r] \in Runners
           /\ UNCHANGED <<life, clients, runners, conn, cancelled>>
           /\ \A q \in Runners : q # r => spc'[q] = spc[q] /\ sock'[q] = sock[q]
           /\ spc'[r] \in Work \cup {"done"}
           /\ spc'[r] = "deadline" => spc[r] = "deadline" \/ ~cancelled[target[r]]
           /\ spc'[r] = "reading" =>
                \/ spc[r] = "reading" /\ sock'[r] = sock[r]
                \/ /\ spc[r] = "deadline" /\ sock'[r] = conn[target[r]]
                   /\ sock'[r] # None
           /\ spc'[r] = "done" =>
                \/ cancelled[target[r]]
                \/ conn[target[r]] # None /\ port # conn[target[r]]
                \/ spc[r] = "reading" /\ port # sock[r]
           /\ dead' => dead \/ conn[target[r]] = None
<1> USE DEF TypeInv, TypeOK, Loop, Leave, Work
<1>1. CASE Poll(r)
  BY <1>1 DEF Poll, ServerInv
<1>2. CASE Deadline(r)
  BY <1>2 DEF Deadline, ServerInv
<1>3. CASE Reply(r)
  BY <1>3 DEF Reply, ServerInv
<1>4. CASE Timeout(r)
  BY <1>4 DEF Timeout, ServerInv
<1>5. CASE ReadClosed(r)
  BY <1>5 DEF ReadClosed, ServerInv
<1> QED
  BY <1>1, <1>2, <1>3, <1>4, <1>5 DEF LoopStep

LEMMA MutexInvariant == Spec => []MutexInv
<1>1. Init => MutexInv
  BY DEF Init, MutexInv, Stopping
<1>2. TypeInv /\ MutexInv /\ [Next]_vars => MutexInv'
  <2> SUFFICES ASSUME TypeInv, MutexInv, [Next]_vars
               PROVE  MutexInv'
    OBVIOUS
  <2> USE DEF TypeInv, TypeOK, MutexInv, Stopping, Goto
  <2>1. CASE Quiet
    BY <2>1 DEF Quiet, life
  <2>2. ASSUME NEW c \in Clients, Start(c)
        PROVE  MutexInv'
    BY <2>2 DEF Start
  <2>3. ASSUME NEW c \in Clients, StopCancel(c)
        PROVE  MutexInv'
    BY <2>3 DEF StopCancel, ServerInv
  <2>4. ASSUME NEW c \in Clients, StopClose(c)
        PROVE  MutexInv'
    BY <2>4 DEF StopClose, life
  <2>5. ASSUME NEW c \in Clients, StopEnd(c)
        PROVE  MutexInv'
    BY <2>5 DEF StopEnd
  <2>6. ASSUME NEW r \in Runners, RunnerStep(r)
        PROVE  MutexInv'
    BY <2>6 DEF RunnerStep, Load, Listen, Assign, Serve, SetError, life, clients
  <2>7. ASSUME NEW r \in Runners, LoopStep(r) \/ Reply(r)
        PROVE  MutexInv'
    BY <2>7, LoopDoes DEF life, clients
  <2> QED
    BY <2>1, <2>2, <2>3, <2>4, <2>5, <2>6, <2>7, StepCases
<1> QED
  BY <1>1, <1>2, TypeInvariant, PTL DEF Spec

LEMMA OrderInvariant == Spec => []OrderInv
<1>1. Init => OrderInv
  BY RunnersAre DEF Init, OrderInv, None
<1>2. TypeInv /\ OrderInv /\ [Next]_vars => OrderInv'
  <2> SUFFICES ASSUME TypeInv, OrderInv, [Next]_vars
               PROVE  OrderInv'
    OBVIOUS
  <2> USE DEF TypeInv, TypeOK, OrderInv
  <2>1. CASE Quiet
    BY <2>1 DEF Quiet, life, runners
  <2>2. ASSUME NEW c \in Clients, Start(c)
        PROVE  OrderInv'
    <3>1. PICK r \in Runners :
            /\ rpc[r] = "none" /\ \A q \in Runners : q < r => rpc[q] # "none"
            /\ server' = r /\ rpc' = [rpc EXCEPT ![r] = "spawned"]
      BY <2>2 DEF Start
    <3>2. UNCHANGED <<target, cancelled>>
      BY <2>2 DEF Start
    <3>3. /\ r \in Nat /\ server \in Nat /\ server < r
          /\ \A q \in Runners : q \in Nat /\ (q < r => q <= server) /\ (q <= server => q < r)
      BY <3>1, RunnersAre DEF None
    <3>4. \A q \in Runners : rpc'[q] # "none" <=> q <= r
      BY <3>1, <3>3
    <3>5. \A q \in Runners : q # r => rpc'[q] = rpc[q]
      BY <3>1
    <3>6. \A q \in Runners : target[q] = None <=> rpc'[q] \in {"none", "spawned"}
      BY <3>1, <3>5
    <3>7. \A q \in Runners : target[q] # None => q <= target[q] /\ target[q] <= r
      <4> SUFFICES ASSUME NEW q \in Runners, target[q] # None
                   PROVE  q <= target[q] /\ target[q] <= r
        OBVIOUS
      <4>1. target[q] \in Nat /\ q <= target[q] /\ target[q] <= server
        BY RunnersAre
      <4> QED
        BY <3>3, <4>1
    <3>8. \A s \in Runners : cancelled[s] => s <= r
      BY <3>3
    <3> QED
      BY <3>1, <3>2, <3>4, <3>6, <3>7, <3>8
  <2>3. ASSUME NEW c \in Clients, StopCancel(c)
        PROVE  OrderInv'
    <3>1. server \in Runners /\ cancelled' = [cancelled EXCEPT ![server] = TRUE]
      BY <2>3 DEF StopCancel, ServerInv
    <3>2. server <= server
      BY <3>1, RunnersAre
    <3> QED
      BY <2>3, <3>1, <3>2 DEF StopCancel, runners
  <2>4. ASSUME NEW c \in Clients, StopClose(c) \/ StopEnd(c)
        PROVE  OrderInv'
    BY <2>4 DEF StopClose, StopEnd, life, runners
  <2>5. ASSUME NEW r \in Runners, Load(r)
        PROVE  OrderInv'
    <3>1. server \in Runners /\ r <= server /\ server <= server /\ target'[r] = server
      BY <2>5, RunnersAre DEF Load, ServerInv
    <3>2. rpc[r] = "spawned" /\ rpc' = [rpc EXCEPT ![r] = "loaded"]
      BY <2>5 DEF Load, Become
    <3>3. UNCHANGED <<server, cancelled>> /\ target' = [target EXCEPT ![r] = server]
      BY <2>5 DEF Load, life
    <3> QED
      BY <3>1, <3>2, <3>3, RunnersAre
  <2>6. ASSUME NEW r \in Runners, Listen(r) \/ Assign(r) \/ Serve(r) \/ SetError(r)
        PROVE  OrderInv'
    <3>1. /\ UNCHANGED <<server, target, cancelled>> /\ rpc[r] \notin {"none", "spawned"}
          /\ \E l \in RPCs \ {"none", "spawned"} : rpc' = [rpc EXCEPT ![r] = l]
      BY <2>6 DEF Listen, Assign, Serve, SetError, Become, RPCs, life
    <3> QED
      BY <3>1
  <2>7. ASSUME NEW r \in Runners, LoopStep(r) \/ Reply(r)
        PROVE  OrderInv'
    BY <2>7, LoopDoes DEF life, runners
  <2> QED
    BY <2>1, <2>2, <2>3, <2>4, <2>5, <2>6, <2>7, StepCases DEF RunnerStep
<1> QED
  BY <1>1, <1>2, TypeInvariant, PTL DEF Spec

LEMMA OverInvariant == Spec => []OverInv
<1>1. Init => OverInv
  BY DEF Init, OverInv
<1>2. TypeInv /\ MutexInv /\ OverInv /\ [Next]_vars => OverInv'
  <2> SUFFICES ASSUME TypeInv, MutexInv, OverInv, [Next]_vars
               PROVE  OverInv'
    OBVIOUS
  <2> USE DEF TypeInv, TypeOK, OverInv
  <2>1. CASE Quiet
    BY <2>1 DEF Quiet, life, runners, loops
  <2>2. ASSUME NEW c \in Clients, Start(c) \/ StopClose(c)
        PROVE  OverInv'
    BY <2>2 DEF Start, StopClose, life, loops
  <2>3. ASSUME NEW c \in Clients, StopCancel(c)
        PROVE  OverInv'
    BY <2>3 DEF StopCancel, runners, loops, ServerInv
  <2>4. ASSUME NEW c \in Clients, StopEnd(c)
        PROVE  OverInv'
    <3>1. /\ server \in Runners /\ cancelled[server] /\ wg[server] = 0
          /\ over' = over \cup {server} /\ UNCHANGED <<target, spc, cancelled>>
      BY <2>4 DEF StopEnd, MutexInv, Stopping, ServerInv, runners, loops
    <3>2. Working(server) = {}
      <4>1. IsFiniteSet(Working(server)) /\ Cardinality(Working(server)) = 0
        BY <3>1, RunnersAre DEF ServerInv, Working
      <4> QED
        BY <4>1, FS_EmptySet
    <3> QED
      BY <3>1, <3>2 DEF Working
  <2>5. ASSUME NEW r \in Runners, Load(r)
        PROVE  OverInv'
    <3>1. spc[r] = "none" /\ \A q \in Runners : q # r => target'[q] = target[q]
      BY <2>5 DEF Load, ServerInv
    <3>2. UNCHANGED <<over, spc, cancelled>>
      BY <2>5 DEF Load, life, loops
    <3> QED
      BY <3>1, <3>2
  <2>6. ASSUME NEW r \in Runners, Serve(r)
        PROVE  OverInv'
    BY <2>6 DEF Serve, life
  <2>7. ASSUME NEW r \in Runners, Listen(r) \/ Assign(r) \/ SetError(r)
        PROVE  OverInv'
    BY <2>7 DEF Listen, Assign, SetError, life, loops
  <2>8. ASSUME NEW r \in Runners, LoopStep(r) \/ Reply(r)
        PROVE  OverInv'
    <3>1. \A s \in over : cancelled'[s] /\ over' = over /\ target' = target
      BY <2>8, LoopDoes DEF life, runners
    <3>2. ASSUME target[r] \in over
          PROVE  spc'[r] \notin {"deadline", "reading"}
      BY <2>8, <3>2, LoopDoes
    <3> QED
      BY <2>8, <3>1, <3>2, LoopDoes DEF life, runners
  <2> QED
    BY <2>1, <2>2, <2>3, <2>4, <2>5, <2>6, <2>7, <2>8, StepCases DEF RunnerStep
<1> QED
  BY <1>1, <1>2, TypeInvariant, MutexInvariant, PTL DEF Spec

LEMMA SocketInvariant == Spec => []SocketInv
<1>1. Init => SocketInv
  BY DEF Init, SocketInv
<1>2. TypeInv /\ OrderInv /\ SocketInv /\ [Next]_vars => SocketInv'
  <2> SUFFICES ASSUME TypeInv, OrderInv, SocketInv, [Next]_vars
               PROVE  SocketInv'
    OBVIOUS
  <2> USE DEF TypeInv, TypeOK, SocketInv, Bound, Free, None
  <2>1. CASE Quiet
    BY <2>1 DEF Quiet, runners, loops
  <2>2. ASSUME NEW c \in Clients, Start(c)
        PROVE  SocketInv'
    <3>1. PICK r \in Runners : rpc[r] = "none" /\ rpc' = [rpc EXCEPT ![r] = "spawned"]
      BY <2>2 DEF Start
    <3>2. UNCHANGED <<target, port, conn, spc, sock>>
      BY <2>2 DEF Start, loops
    <3> QED
      BY <3>1, <3>2
  <2>3. ASSUME NEW c \in Clients, StopCancel(c) \/ StopClose(c) \/ StopEnd(c)
        PROVE  SocketInv'
    BY <2>3 DEF StopCancel, StopClose, StopEnd, runners, loops
  <2>4. ASSUME NEW r \in Runners, Load(r)
        PROVE  SocketInv'
    <3>1. /\ rpc[r] = "spawned" /\ spc[r] = "none" /\ rpc' = [rpc EXCEPT ![r] = "loaded"]
          /\ target' = [target EXCEPT ![r] = server] /\ UNCHANGED <<port, conn, spc, sock>>
      BY <2>4 DEF Load, Become, ServerInv, loops
    <3> QED
      BY <3>1
  <2>5. ASSUME NEW r \in Runners, Listen(r)
        PROVE  SocketInv'
    BY <2>5 DEF Listen, Become, loops, ServerInv
  <2>6. ASSUME NEW r \in Runners, Assign(r)
        PROVE  SocketInv'
    <3>1. target[r] \in Runners /\ UNCHANGED <<target, port, spc, sock>>
      BY <2>6 DEF Assign, ServerInv, loops
    <3>2. CASE rpc[r] = "opened"
      <4>1. conn' = [conn EXCEPT ![target[r]] = r] /\ rpc' = [rpc EXCEPT ![r] = "bound"]
        BY <2>6, <3>2 DEF Assign, Become
      <4> QED
        BY <3>1, <3>2, <4>1
    <3>3. CASE rpc[r] = "refused"
      <4>1. conn' = [conn EXCEPT ![target[r]] = None] /\ rpc' = [rpc EXCEPT ![r] = "failed"]
        BY <2>6, <3>3 DEF Assign, Become
      <4> QED
        BY <3>1, <3>3, <4>1
    <3> QED
      BY <2>6, <3>2, <3>3 DEF Assign
  <2>7. ASSUME NEW r \in Runners, Serve(r)
        PROVE  SocketInv'
    <3>1. /\ rpc[r] = "bound" /\ rpc' = [rpc EXCEPT ![r] = "settled"]
          /\ spc' = [spc EXCEPT ![r] = "poll"] /\ UNCHANGED <<target, port, conn, sock>>
      BY <2>7 DEF Serve, Become
    <3> QED
      BY <3>1
  <2>8. ASSUME NEW r \in Runners, SetError(r)
        PROVE  SocketInv'
    BY <2>8 DEF SetError, Become, loops
  <2>9. ASSUME NEW r \in Runners, LoopStep(r) \/ Reply(r)
        PROVE  SocketInv'
    <3>1. /\ spc'[r] # "none" /\ UNCHANGED <<rpc, target, port, conn>>
          /\ target[r] \in Runners
          /\ \A q \in Runners : q # r => spc'[q] = spc[q] /\ sock'[q] = sock[q]
      BY <2>9, LoopDoes DEF runners, Work
    <3>2. spc'[r] = "reading" =>
            \/ spc[r] = "reading" /\ sock'[r] = sock[r]
            \/ sock'[r] = conn[target[r]] /\ sock'[r] # None
      BY <2>9, LoopDoes
    <3>3. spc'[r] = "reading" =>
            sock'[r] # None /\ target[sock'[r]] = target[r] /\ rpc[sock'[r]] \in Bound
      BY <3>1, <3>2
    <3> QED
      BY <3>1, <3>3
  <2> QED
    BY <2>1, <2>2, <2>3, <2>4, <2>5, <2>6, <2>7, <2>8, <2>9, StepCases DEF RunnerStep
<1> QED
  BY <1>1, <1>2, TypeInvariant, OrderInvariant, PTL DEF Spec

LEMMA RunInvariant == Spec => []RunInv
<1>1. Init => RunInv
  BY DEF Init, RunInv
<1>2. TypeInv /\ MutexInv /\ OrderInv /\ SocketInv /\ RunInv /\ [Next]_vars => RunInv'
  <2> SUFFICES ASSUME TypeInv, MutexInv, OrderInv, SocketInv, RunInv, [Next]_vars,
                      state' = "running", ~mu'
               PROVE  RunInv'
    BY DEF RunInv
  <2> USE DEF TypeInv, TypeOK, RunInv
  <2>1. CASE Quiet
    BY <2>1 DEF Quiet, life, runners, loops
  <2>2. ASSUME NEW c \in Clients, Start(c)
        PROVE  RunInv'
    <3>1. PICK r \in Runners : rpc[r] = "none" /\ server' = r /\ UNCHANGED <<target, cancelled>>
      BY <2>2 DEF Start
    <3>2. /\ server \in Nat /\ server < r
          /\ \A q \in Runners : target[q] # r
      BY <3>1, RunnersAre DEF OrderInv, None
    <3>3. ~cancelled[r]
      BY <3>1, <3>2, RunnersAre DEF OrderInv
    <3> QED
      BY <3>1, <3>2, <3>3
  <2>3. ASSUME NEW c \in Clients, StopCancel(c) \/ StopClose(c) \/ StopEnd(c)
        PROVE  FALSE
    BY <2>3 DEF StopCancel, StopClose, StopEnd, MutexInv, Stopping, life
  <2>4. ASSUME NEW r \in Runners, Load(r)
        PROVE  RunInv'
    <3>1. /\ rpc[r] = "spawned" /\ spc[r] = "none" /\ rpc' = [rpc EXCEPT ![r] = "loaded"]
          /\ target[r] = None
          /\ target' = [target EXCEPT ![r] = server]
          /\ UNCHANGED <<state, server, mu, cancelled, port, conn, spc>>
      BY <2>4 DEF Load, Become, ServerInv, OrderInv, life, loops
    <3>2. server # None
      BY <3>1 DEF ServerInv
    <3> QED
      BY <3>1, <3>2 DEF Bound
  <2>5. ASSUME NEW r \in Runners, Listen(r)
        PROVE  RunInv'
    <3>1. /\ rpc[r] = "loaded" /\ UNCHANGED <<state, server, mu, cancelled, target, conn, spc>>
      BY <2>5 DEF Listen, life, loops
    <3>2. CASE port = Free /\ port' = r /\ Become(r, "opened")
      <4>1. \A q \in Runners : target[q] = server => rpc[q] \notin {"opened"} \cup Bound
        BY <2>5, <3>1, <3>2, RunnersAre DEF Free, None
      <4> QED
        BY <3>1, <3>2, <4>1 DEF Become, Bound
    <3>3. CASE Become(r, "refused") /\ UNCHANGED port
      BY <3>1, <3>3 DEF Become, Bound
    <3> QED
      BY <2>5, <3>2, <3>3 DEF Listen
  <2>6. ASSUME NEW r \in Runners, Assign(r)
        PROVE  RunInv'
    <3>1. /\ target[r] \in Runners
          /\ UNCHANGED <<state, server, mu, cancelled, target, port, spc>>
      BY <2>6 DEF Assign, ServerInv, life, loops
    <3>2. CASE rpc[r] = "opened"
      <4>1. conn' = [conn EXCEPT ![target[r]] = r] /\ rpc' = [rpc EXCEPT ![r] = "bound"]
        BY <2>6, <3>2 DEF Assign, Become
      <4>2. \A q \in Runners : target[q] = server /\ rpc'[q] \in {"opened"} \cup Bound => port = q
        BY <3>1, <3>2, <4>1 DEF Bound
      <4>3. ASSUME NEW q \in Runners, target[q] = server, rpc'[q] \in Bound
            PROVE  \/ conn'[server] = q
                   \/ \E p \in Runners : target[p] = server /\ rpc'[p] = "failed"
        <5>1. CASE target[r] = server
          BY <3>1, <4>1, <4>2, <4>3, <5>1 DEF Bound
        <5>2. CASE target[r] # server
          BY <3>1, <4>1, <4>3, <5>2 DEF Bound
        <5> QED
          BY <5>1, <5>2
      <4> QED
        BY <3>1, <4>1, <4>2, <4>3
    <3>3. CASE rpc[r] = "refused"
      <4>1. conn' = [conn EXCEPT ![target[r]] = None] /\ rpc' = [rpc EXCEPT ![r] = "failed"]
        BY <2>6, <3>3 DEF Assign, Become
      <4> QED
        BY <3>1, <3>3, <4>1 DEF Bound
    <3> QED
      BY <2>6, <3>2, <3>3 DEF Assign
  <2>7. ASSUME NEW r \in Runners, Serve(r)
        PROVE  RunInv'
    <3>1. /\ rpc[r] = "bound" /\ rpc' = [rpc EXCEPT ![r] = "settled"]
          /\ spc' = [spc EXCEPT ![r] = "poll"]
          /\ UNCHANGED <<state, server, mu, cancelled, target, port, conn>>
      BY <2>7 DEF Serve, Become, life
    <3> QED
      BY <3>1 DEF Bound, Work
  <2>8. ASSUME NEW r \in Runners, SetError(r)
        PROVE  FALSE
    BY <2>8 DEF SetError
  <2>9. ASSUME NEW r \in Runners, LoopStep(r) \/ Reply(r)
        PROVE  RunInv'
    <3>1. UNCHANGED <<state, server, mu, cancelled, rpc, target, port, conn>>
      BY <2>9, LoopDoes DEF life, runners
    <3>2. ASSUME target[r] = server
          PROVE  spc'[r] # "done"
      <4>1. /\ ~cancelled[server] /\ server \in Runners /\ target[r] = server
            /\ \A q \in Runners : target[q] = server /\ rpc[q] \in Bound => port = q
        BY <2>9, <3>1, <3>2, LoopDoes DEF Bound
      <4>2. conn[server] # None => port = conn[server]
        BY <4>1 DEF SocketInv
      <4>3. spc[r] = "reading" => port = sock[r]
        BY <4>1 DEF SocketInv
      <4> QED
        BY <2>9, <4>1, <4>2, <4>3, LoopDoes
    <3>3. target[r] = server => spc'[r] \in Work
      BY <2>9, <3>2, LoopDoes
    <3>4. \A q \in Runners : target[q] = server /\ rpc[q] = "settled" => spc'[q] \in Work
      BY <2>9, <3>1, <3>3, LoopDoes
    <3> QED
      BY <3>1, <3>4
  <2> QED
    BY <2>1, <2>2, <2>3, <2>4, <2>5, <2>6, <2>7, <2>8, <2>9, StepCases DEF RunnerStep
<1> QED
  BY <1>1, <1>2, TypeInvariant, MutexInvariant, OrderInvariant, SocketInvariant, PTL DEF Spec

LEMMA OrderlyInvariant == Spec => []OrderlyInv
<1>1. Init => OrderlyInv
  BY DEF Init, OrderlyInv, Settled
<1>2. TypeInv /\ MutexInv /\ OrderInv /\ SocketInv /\ OrderlyInv /\ [Next]_vars => OrderlyInv'
  <2> SUFFICES ASSUME TypeInv, MutexInv, OrderInv, SocketInv, OrderlyInv, [Next]_vars, ~raced'
               PROVE  OrderlyInv'
    BY DEF OrderlyInv
  <2> USE DEF TypeInv, TypeOK, OrderlyInv, Settled
  <2>1. CASE Quiet
    BY <2>1 DEF Quiet, life, runners, loops
  <2>2. ASSUME NEW c \in Clients, Start(c)
        PROVE  OrderlyInv'
    <3>1. PICK r \in Runners :
            rpc[r] = "none" /\ server' = r /\ rpc' = [rpc EXCEPT ![r] = "spawned"]
      BY <2>2 DEF Start
    <3>2. /\ state # "running" /\ state' = "running" /\ ~mu /\ ~mu'
          /\ UNCHANGED <<raced, target, port, conn, spc>>
          /\ \A d \in Clients : cpc'[d] = "wait" => cpc[d] = "wait"
      BY <2>2 DEF Start, Goto, loops
    <3> QED
      BY <3>1, <3>2
  <2>3. ASSUME NEW c \in Clients, StopCancel(c)
        PROVE  OrderlyInv'
    <3>1. /\ ~raced /\ \A r \in Runners : rpc[r] \in Settled
          /\ UNCHANGED <<state, server, rpc, target, port, conn, spc>>
          /\ \A d \in Clients : cpc'[d] = "wait" => cpc[d] = "wait"
      BY <2>3 DEF StopCancel, Goto, runners, loops
    <3> QED
      BY <3>1
  <2>4. ASSUME NEW c \in Clients, StopClose(c)
        PROVE  OrderlyInv'
    <3>1. /\ port' = IF conn[server] # None /\ port = conn[server] THEN Free ELSE port
          /\ UNCHANGED <<raced, state, server, mu, rpc, target, conn, spc>>
      BY <2>4 DEF StopClose, life, loops
    <3>2. mu /\ ~raced /\ \A r \in Runners : rpc[r] \in Settled
      BY <2>4, <3>1 DEF StopClose, MutexInv, Stopping
    <3>3. port' = Free
      <4> SUFFICES ASSUME port # Free
                   PROVE  conn[server] # None /\ port = conn[server]
        BY <3>1
      <4>1. port = server /\ server \in Runners /\ rpc[port] = "settled" /\ spc[port] # "none"
        BY <3>2 DEF SocketInv, Bound, Free, None
      <4> QED
        BY <3>2, <4>1, RunnersAre
    <3> QED
      BY <3>1, <3>2, <3>3
  <2>5. ASSUME NEW c \in Clients, StopEnd(c)
        PROVE  OrderlyInv'
    <3>1. mu /\ ~raced /\ port = Free /\ \A r \in Runners : rpc[r] \in Settled
      BY <2>5 DEF StopEnd, MutexInv, Stopping
    <3>2. UNCHANGED <<raced, rpc, target, port, conn, spc>>
      BY <2>5 DEF StopEnd, runners, loops
    <3> QED
      BY <3>1, <3>2
  <2>6. ASSUME NEW r \in Runners, RunnerStep(r)
        PROVE  OrderlyInv'
    <3>1. ~raced /\ rpc[r] \notin Settled /\ UNCHANGED <<raced, server, mu, cpc>>
      BY <2>6 DEF RunnerStep, Load, Listen, Assign, Serve, SetError, life, clients
    <3>2. /\ r = server /\ state = "running" /\ ~mu
          /\ \A q \in Runners : q # r => rpc[q] \in Settled
          /\ \A c \in Clients : cpc[c] # "wait"
      BY <3>1 DEF MutexInv, Stopping
    <3>3. spc[r] = "none"
      BY <3>1 DEF ServerInv
    <3>4. \A q \in Runners : q # r => rpc'[q] = rpc[q]
      BY <2>6 DEF RunnerStep, Load, Listen, Assign, Serve, SetError, Become
    <3>5. CASE Load(r)
      <4>1. /\ target' = [target EXCEPT ![r] = r] /\ rpc'[r] = "loaded"
            /\ UNCHANGED <<state, port, conn, spc>>
        BY <3>2, <3>5 DEF Load, Become, life, loops
      <4> QED
        BY <3>1, <3>2, <3>3, <3>4, <4>1
    <3>6. CASE Listen(r)
      <4>1. port' \in {port, r} /\ rpc'[r] # "bound" /\ UNCHANGED <<state, target, conn, spc>>
        BY <3>6 DEF Listen, Become, life, loops
      <4> QED
        BY <3>1, <3>2, <3>3, <3>4, <4>1
    <3>7. CASE Assign(r)
      <4>1. target[r] = r /\ UNCHANGED <<state, target, port, spc>>
        BY <3>1, <3>7 DEF Assign, ServerInv, life, loops
      <4>2. /\ \A q \in Runners : q # r => conn'[q] = conn[q]
            /\ rpc'[r] = "bound" => conn'[r] = r
        BY <3>7, <4>1 DEF Assign, Become
      <4> QED
        BY <3>1, <3>2, <3>3, <3>4, <4>1, <4>2
    <3>8. CASE Serve(r)
      <4>1. /\ rpc[r] = "bound" /\ rpc'[r] = "settled" /\ UNCHANGED <<state, target, port, conn>>
            /\ \A q \in Runners : q # r => spc'[q] = spc[q]
        BY <3>8 DEF Serve, Become, life
      <4> QED
        BY <3>1, <3>2, <3>4, <4>1
    <3>9. CASE SetError(r)
      <4>1. rpc[r] = "failed" /\ rpc'[r] = "settled" /\ UNCHANGED <<target, port, conn, spc>>
        BY <3>9 DEF SetError, Become, loops
      <4>2. port = Free
        BY <3>1, <3>2, <4>1 DEF SocketInv, Bound, Free
      <4> QED
        BY <3>1, <3>2, <3>3, <3>4, <4>1, <4>2
    <3> QED
      BY <2>6, <3>5, <3>6, <3>7, <3>8, <3>9 DEF RunnerStep
  <2>7. ASSUME NEW r \in Runners, LoopStep(r) \/ Reply(r)
        PROVE  OrderlyInv'
    <3>1. /\ UNCHANGED <<raced, state, server, mu, cpc, rpc, target, port, conn>>
          /\ \A q \in Runners : spc'[q] # "none" => spc[q] # "none"
      BY <2>7, LoopDoes DEF life, clients, runners, Work
    <3> QED
      BY <3>1
  <2> QED
    BY <2>1, <2>2, <2>3, <2>4, <2>5, <2>6, <2>7, StepCases
<1> QED
  BY <1>1, <1>2, TypeInvariant, MutexInvariant, OrderInvariant, SocketInvariant, PTL DEF Spec

\* A service that is "running" with nothing under way has a Server whose socket
\* has the port and is read by a serve loop, whatever starts and stops met
\* runners on their way (Server.Start and setState).
THEOREM RunningServes == Spec => []RunningMeansServing
<1>1. ASSUME TypeInv, MutexInv, OrderInv, RunInv, AtRest, state = "running"
      PROVE  /\ port \in Runners /\ conn[server] = port
             /\ target[port] = server /\ spc[port] \in {"poll", "deadline", "reading"}
  <2>1. server \in Runners /\ rpc[server] # "none"
    BY <1>1 DEF TypeInv, TypeOK, ServerInv
  <2>2. rpc[server] = "settled" /\ target[server] # None
    BY <1>1, <2>1 DEF AtRest, Settled, OrderInv
  <2>3. target[server] = server
    <3>1. target[server] \in Nat /\ server \in Nat
      BY <1>1, <2>1, <2>2, RunnersAre DEF TypeInv, TypeOK
    <3> QED
      BY <1>1, <2>1, <2>2, <3>1 DEF OrderInv
  <2>4. \A p \in Runners : rpc[p] # "failed"
    BY <1>1 DEF AtRest, Settled
  <2>5. port = server /\ conn[server] = server /\ spc[server] \in Work
    BY <1>1, <2>1, <2>2, <2>3, <2>4 DEF RunInv, AtRest, Bound
  <2> QED
    BY <2>1, <2>3, <2>5 DEF Work
<1>2. TypeInv /\ MutexInv /\ OrderInv /\ RunInv => RunningMeansServing
  BY <1>1 DEF RunningMeansServing
<1> QED
  BY <1>2, TypeInvariant, MutexInvariant, OrderInvariant, RunInvariant, PTL

\* As long as no stop met a runner on its way, the UDP port is ours exactly
\* when the service says "running" (Stop and stop).
THEOREM OrderlyStateIsRight == Spec => []OrderlyStateMatchesPort
<1>1. TypeInv /\ OrderlyInv /\ RunningMeansServing => OrderlyStateMatchesPort
  BY RunnersAre DEF OrderlyStateMatchesPort, OrderlyInv, RunningMeansServing, AtRest, Free, None
<1> QED
  BY <1>1, TypeInvariant, OrderlyInvariant, RunningServes, PTL

\* Once a Stop has returned no serve loop of its Server reads, one that Start
\* spawns only then included (Stop and serve).
THEOREM NoLateReply == Spec => []NoReplyAfterStop
<1>1. TypeInv /\ OverInv => NoReplyAfterStop
  BY DEF TypeInv, TypeOK, OverInv, NoReplyAfterStop
<1> QED
  BY <1>1, TypeInvariant, OverInvariant, PTL

\* A serve loop finds Server.conn nil only after a stop that overtook a runner;
\* otherwise only an update before the first start kills the process.
THEOREM NilNeedsRace == Spec => []DeathNeedsRace
<1>1. Init => DeathNeedsRace
  BY DEF Init, DeathNeedsRace
<1>2. TypeInv /\ OrderlyInv /\ DeathNeedsRace /\ [Next]_vars => DeathNeedsRace'
  <2> SUFFICES ASSUME TypeInv, OrderlyInv, DeathNeedsRace, [Next]_vars
               PROVE  DeathNeedsRace'
    OBVIOUS
  <2> USE DEF DeathNeedsRace
  <2>1. CASE ~dead'
    BY <2>1
  <2>2. CASE UNCHANGED vars
    BY <2>2 DEF vars, life
  <2>3. ASSUME NEW r \in Runners, LoopStep(r) \/ Reply(r), ~dead, dead'
        PROVE  raced'
    <3>1. conn[target[r]] = None /\ target[r] \in Runners /\ spc[r] # "none" /\ raced' = raced
      BY <2>3, LoopDoes DEF life, Work
    <3>2. ASSUME ~raced
          PROVE  FALSE
      <4>1. target[r] = r /\ conn[r] = r
        BY <3>1, <3>2, RunnersAre DEF OrderlyInv
      <4> QED
        BY <3>1, <4>1, RunnersAre
    <3> QED
      BY <3>1, <3>2 DEF TypeInv, TypeOK
  <2>4. ASSUME NEW c \in Clients, Update(c), ~dead, dead'
        PROVE  server' = None
    BY <2>4 DEF Update, life
  <2>5. ASSUME NEW c \in Clients, ClientStep(c), ~Update(c)
        PROVE  dead' = dead
    BY <2>5 DEF ClientStep, StartRefused, Start, StopRefused, RestartCheck,
                StopCancel, StopClose, StopEnd
  <2>6. ASSUME NEW r \in Runners, RunnerStep(r)
        PROVE  dead' = dead
    BY <2>6 DEF RunnerStep, Load, Listen, Assign, Serve, SetError
  <2>7. ASSUME Tick \/ \E c \in Clients, a \in Commands : Command(c, a)
        PROVE  dead' = dead
    BY <2>7 DEF Tick, Command
  <2> QED
    BY <2>1, <2>2, <2>3, <2>4, <2>5, <2>6, <2>7 DEF Next
<1> QED
  BY <1>1, <1>2, TypeInvariant, OrderlyInvariant, PTL DEF Spec
=============================================================================
