---------------------------- MODULE LookupProofs ----------------------------
(***************************************************************************)
(* Theorems about Lookup, for every set of names, every directory of rules *)
(* and everything upstream may answer: the upstream check of a query asks  *)
(* at most six times and never twice for the same name, its verdict and    *)
(* address are those of the end of the chain of CNAME records, and the     *)
(* rule that is found is the most specific one.                            *)
(***************************************************************************)
EXTENDS Lookup, NaturalsInduction, WellFoundedInduction, TLAPS

IsScript(i) == listing[i].kind = "lua"

\* Upstream was asked for names that were visited, once for each hop.
AskedInv ==
    /\ pc \in {"load", "verify"} => asked = <<>> /\ depth = 0 /\ visited = {}
    /\ pc \in {"resolve", "exchange"} => Len(asked) = depth
    /\ pc = "exchange" =>
         /\ name \in visited /\ depth <= MaxCNAMEHops
         /\ \A i \in 1..Len(asked) : asked[i] # name
    /\ \A i \in 1..Len(asked) : asked[i] \in visited
    /\ AskedOnce

\* The rules are the scripts that were loaded, each under its name in lower
\* case, and the rule of the query was found among them.
RulesInv ==
    /\ \A k \in Names : rules[k] # NoRule =>
         \E i \in 1..loaded :
            IsScript(i) /\ rules[k] = listing[i] /\ Lower(listing[i].name) = k
    /\ \A i \in 1..loaded : IsScript(i) => rules[Lower(listing[i].name)] # NoRule
    /\ pc # "load" => loaded = Len(listing)
    /\ pc = "end" /\ verdict => rule = GetRule(qname)

-----------------------------------------------------------------------------
(* Names and candidates.                                                    *)

\* Lower case changes neither the kind of thing a name is nor its length.
LEMMA LowerIsName ==
    ASSUME NEW n \in Names
    PROVE  Lower(n) \in Names /\ n \in Seq(Labels) /\ Len(n) \in Nat /\ Len(Lower(n)) = Len(n)
<1>1. n \in Seq(Labels) /\ Lower(n) \in Names /\ Lower(n) \in Seq(Labels)
  BY LookupAssumption
<1>2. DOMAIN n = 1..Len(n) /\ Len(n) \in Nat
  BY <1>1
<1>3. DOMAIN Lower(n) = 1..Len(n)
  BY <1>2 DEF Lower
<1>4. DOMAIN Lower(n) = 1..Len(Lower(n)) /\ Len(Lower(n)) \in Nat
  BY <1>1
<1>5. Len(Lower(n)) = Len(n)
  BY <1>2, <1>3, <1>4
<1> QED
  BY <1>1, <1>2, <1>5

\* What is left of a name without its first labels is a name, and shorter.
LEMMA FromIsName ==
    ASSUME NEW n \in Names, NEW i \in 1..Len(n)
    PROVE  From(n, i) \in Names /\ Len(From(n, i)) = Len(n) - i + 1
<1>1. n \in Seq(Labels) /\ Len(n) \in Nat /\ From(n, i) \in Names
  BY LookupAssumption
<1>2. Len(From(n, i)) = Len(n) - i + 1
  BY <1>1 DEF From
<1> QED
  BY <1>1, <1>2

\* Every candidate is a name: the parents first, then the default.
LEMMA CandidatesAreNames ==
    ASSUME NEW n \in Names
    PROVE  /\ DOMAIN Candidates(n) = 1..(Len(n) + 1)
           /\ \A i \in 1..Len(n) : Candidates(n)[i] = From(n, i)
           /\ Candidates(n)[Len(n) + 1] = Default
           /\ \A i \in DOMAIN Candidates(n) : Candidates(n)[i] \in Names
<1>1. Len(n) \in Nat
  BY LowerIsName
<1>2. DOMAIN Candidates(n) = 1..(Len(n) + 1)
  BY DEF Candidates
<1>3. \A i \in 1..Len(n) : Candidates(n)[i] = From(n, i)
  BY <1>1 DEF Candidates
<1>4. Candidates(n)[Len(n) + 1] = Default
  BY <1>1 DEF Candidates
<1>5. ASSUME NEW i \in 1..(Len(n) + 1)
      PROVE  Candidates(n)[i] \in Names
  <2>1. CASE i \in 1..Len(n)
    BY <1>3, <2>1, FromIsName
  <2>2. CASE i = Len(n) + 1
    BY <1>4, <2>2, LookupAssumption
  <2> QED
    BY <1>1, <2>1, <2>2
<1> QED
  BY <1>2, <1>3, <1>4, <1>5

\* A set of natural numbers that is not empty has a least one.
LEMMA LeastNumber ==
    ASSUME NEW T \in SUBSET Nat, T # {}
    PROVE  \E i \in T : \A j \in T : i <= j
<1>1. \E i \in T : \A j \in T : ~(<<j, i>> \in OpToRel(<, Nat))
  BY WFMin, NatLessThanWellFounded
<1>2. PICK i \in T : \A j \in T : ~(<<j, i>> \in OpToRel(<, Nat))
  BY <1>1
<1>3. ASSUME NEW j \in T
      PROVE  i <= j
  <2>1. i \in Nat /\ j \in Nat
    OBVIOUS
  <2>2. <<j, i>> \in OpToRel(<, Nat) <=> j < i
    BY <2>1, Zenon DEF OpToRel
  <2>3. ~(j < i)
    BY <1>2, <2>2, Zenon
  <2> QED
    BY <2>1, <2>3
<1> QED
  BY <1>3

\* The rule that is found is that of the first candidate that has one.
LEMMA GetRuleIs ==
    ASSUME NEW n \in Names
    PROVE  \/ Hits(Lower(n)) = {} /\ GetRule(n) = NoRule
           \/ \E i \in Hits(Lower(n)) :
                /\ \A j \in Hits(Lower(n)) : i <= j
                /\ GetRule(n) = rules[Candidates(Lower(n))[i]]
<1>1. Lower(n) \in Names
  BY LowerIsName
<1>2. Hits(Lower(n)) \in SUBSET Nat
  BY <1>1, CandidatesAreNames, LowerIsName DEF Hits
<1>3. CASE Hits(Lower(n)) = {}
  BY <1>3 DEF GetRule
<1>4. CASE Hits(Lower(n)) # {}
  <2> DEFINE First == CHOOSE i \in Hits(Lower(n)) : \A j \in Hits(Lower(n)) : i <= j
  <2>1. \E i \in Hits(Lower(n)) : \A j \in Hits(Lower(n)) : i <= j
    BY <1>2, <1>4, LeastNumber
  <2>2. First \in Hits(Lower(n)) /\ \A j \in Hits(Lower(n)) : First <= j
    BY <2>1
  <2>3. GetRule(n) = rules[Candidates(Lower(n))[First]]
    BY <1>4 DEF GetRule
  <2> HIDE DEF First
  <2> QED
    BY <2>2, <2>3
<1> QED
  BY <1>3, <1>4

-----------------------------------------------------------------------------
(* The invariants.                                                          *)

\* The hops are counted before upstream is asked.
TypeInv == TypeOK /\ (pc = "exchange" => depth <= MaxCNAMEHops)

LEMMA TypeInvariant == Spec => []TypeInv
<1>1. Init => TypeInv
  <2> SUFFICES ASSUME Init
               PROVE  TypeInv
    OBVIOUS
  <2>1. listing \in Seq(Entries)
    BY LookupAssumption DEF Init
  <2>2. 0 \in 0..Len(listing) /\ 0 \in 0..(MaxCNAMEHops + 1)
    BY <2>1 DEF MaxCNAMEHops
  <2>3. rules \in [Names -> Entries \cup {NoRule}]
    BY DEF Init
  <2>4. <<>> \in Seq(Names) /\ asked = <<>>
    BY DEF Init
  <2>5. listing \in Listings /\ zone \in Zones /\ verify \in BOOLEAN /\ loaded = 0
    BY DEF Init
  <2>6. /\ pc = "load" /\ qname \in Names /\ name \in Names /\ qtype = "A"
        /\ depth = 0 /\ visited = {} /\ verdict = TRUE /\ failed = FALSE
        /\ ip = NilIP /\ rule = NoRule
    BY LookupAssumption DEF Init
  <2> QED
    BY <2>2, <2>3, <2>4, <2>5, <2>6 DEF TypeInv, TypeOK
<1>2. TypeInv /\ [Next]_vars => TypeInv'
  <2> SUFFICES ASSUME TypeInv, [Next]_vars
               PROVE  TypeInv'
    OBVIOUS
  <2> USE DEF TypeInv, TypeOK
  <2>1. CASE LoadScript
    <3>1. listing \in Seq(Entries) /\ Len(listing) \in Nat
      BY LookupAssumption
    <3>2. loaded + 1 \in 1..Len(listing)
      BY <2>1, <3>1 DEF LoadScript
    <3>3. listing[loaded + 1] \in Entries
      BY <3>1, <3>2
    <3>4. rules' \in [Names -> Entries \cup {NoRule}]
      BY <2>1, <3>3 DEF LoadScript
    <3>5. loaded' \in 0..Len(listing')
      BY <2>1, <3>1, <3>2 DEF LoadScript, config
    <3> QED
      BY <2>1, <3>4, <3>5 DEF LoadScript, config, walk, result
  <2>2. ASSUME NEW n \in Names, NEW t \in {"A", "other"}, Receive(n, t)
        PROVE  TypeInv'
    BY <2>2 DEF Receive, config, result
  <2>3. ASSUME NEW tunnel \in BOOLEAN, Verify(tunnel)
        PROVE  TypeInv'
    <3>1. Apex[qname] # NoApex => Apex[qname] \in Names
      BY LookupAssumption
    <3> QED
      BY <2>3, <3>1 DEF Verify, Verdict, config, NilIP
  <2>4. CASE Resolve
    BY <2>4 DEF Resolve, Verdict, config, NilIP
  <2>5. CASE Exchange
    <3>1. Lower(name) \in Names
      BY LowerIsName
    <3>2. zone[Lower(name)].name \in Names
      BY <3>1, LookupAssumption DEF Answers
    <3>3. asked' \in Seq(Names)
      BY <2>5 DEF Exchange
    <3>4. depth + 1 \in 0..(MaxCNAMEHops + 1)
      BY <2>5 DEF Exchange, MaxCNAMEHops
    <3> QED
      BY <2>5, <3>1, <3>2, <3>3, <3>4 DEF Exchange, Verdict, config, NilIP
  <2>6. CASE ExchangeFails
    BY <2>6 DEF ExchangeFails, Verdict, config, NilIP
  <2>7. CASE Rule
    <3>1. \A i \in Hits(Lower(qname)) : Candidates(Lower(qname))[i] \in Names
      BY LowerIsName, CandidatesAreNames DEF Hits
    <3>2. GetRule(qname) \in Entries \cup {NoRule}
      BY <3>1, GetRuleIs
    <3> QED
      BY <2>7, <3>2 DEF Rule, config, walk, result
  <2>8. CASE UNCHANGED vars
    BY <2>8 DEF vars, config, walk, result
  <2> QED
    BY <2>1, <2>2, <2>3, <2>4, <2>5, <2>6, <2>7, <2>8 DEF Next
<1> QED
  BY <1>1, <1>2, PTL DEF Spec

\* Every variable keeps its type.
THEOREM TypeCorrect == Spec => []TypeOK
<1>1. TypeInv => TypeOK
  BY DEF TypeInv
<1> QED
  BY <1>1, TypeInvariant, PTL

LEMMA AskedInvariant == Spec => []AskedInv
<1>1. Init => AskedInv
  BY DEF Init, AskedInv, AskedOnce, MaxCNAMEHops
<1>2. TypeInv /\ AskedInv /\ [Next]_vars => AskedInv'
  <2> SUFFICES ASSUME TypeInv, AskedInv, [Next]_vars
               PROVE  AskedInv'
    OBVIOUS
  <2>1. asked \in Seq(Names) /\ Len(asked) \in Nat /\ depth \in Nat
    BY DEF TypeInv, TypeOK
  <2>2. ASSUME UNCHANGED asked, UNCHANGED visited,
               pc' \notin {"load", "verify", "resolve", "exchange"}
        PROVE  AskedInv'
    BY <2>2 DEF AskedInv, AskedOnce
  <2>3. CASE LoadScript
    BY <2>3 DEF LoadScript, walk, AskedInv, AskedOnce
  <2>4. ASSUME NEW n \in Names, NEW t \in {"A", "other"}, Receive(n, t)
        PROVE  AskedInv'
    BY <2>4 DEF Receive, AskedInv, AskedOnce
  <2>5. ASSUME NEW tunnel \in BOOLEAN, Verify(tunnel)
        PROVE  AskedInv'
    BY <2>1, <2>5 DEF Verify, Verdict, AskedInv, AskedOnce
  <2>6. CASE Resolve
    <3>1. UNCHANGED <<asked, depth, name>> /\ visited \subseteq visited'
      BY <2>6 DEF Resolve
    <3>2. CASE pc' = "exchange"
      <4>1. name \in visited' /\ name \notin visited /\ depth <= MaxCNAMEHops
        BY <2>6, <3>2 DEF Resolve, Verdict
      <4> QED
        BY <2>6, <3>1, <3>2, <4>1 DEF Resolve, AskedInv, AskedOnce
    <3>3. CASE pc' # "exchange"
      <4>1. pc' \in {"rule", "end"}
        BY <2>6, <3>3 DEF Resolve, Verdict
      <4> QED
        BY <3>1, <4>1 DEF AskedInv, AskedOnce
    <3> QED
      BY <3>2, <3>3
  <2>7. ASSUME pc = "exchange", asked' = Append(asked, name), UNCHANGED visited,
               pc' = "resolve" => depth' = depth + 1,
               pc' \in {"resolve", "rule", "end"}
        PROVE  AskedInv'
    <3>1. name \in Names
      BY DEF TypeInv, TypeOK
    <3>2. /\ Len(asked') = Len(asked) + 1
          /\ \A i \in 1..Len(asked) : asked'[i] = asked[i]
          /\ asked'[Len(asked) + 1] = name
      BY <2>1, <2>7, <3>1
    <3>3. Len(asked) = depth /\ depth <= MaxCNAMEHops
      BY <2>7 DEF AskedInv
    <3>4. Len(asked') <= MaxCNAMEHops + 1
      BY <2>1, <3>2, <3>3 DEF MaxCNAMEHops
    <3>5. \A i \in 1..Len(asked') : i \in 1..Len(asked) \/ i = Len(asked) + 1
      BY <2>1, <3>2
    <3>6. \A i \in 1..Len(asked') : asked'[i] \in visited'
      BY <2>7, <3>2, <3>5 DEF AskedInv
    <3>7. \A i, j \in 1..Len(asked') : asked'[i] = asked'[j] => i = j
      BY <2>7, <3>2, <3>5 DEF AskedInv, AskedOnce
    <3> QED
      BY <2>7, <3>2, <3>3, <3>4, <3>6, <3>7 DEF AskedInv, AskedOnce
  <2>8. CASE Exchange
    BY <2>7, <2>8 DEF Exchange, Verdict
  <2>9. CASE ExchangeFails
    BY <2>7, <2>9 DEF ExchangeFails, Verdict
  <2>10. CASE Rule
    BY <2>2, <2>10 DEF Rule, walk
  <2>11. CASE UNCHANGED vars
    BY <2>11 DEF vars, walk, AskedInv, AskedOnce
  <2> QED
    BY <2>3, <2>4, <2>5, <2>6, <2>8, <2>9, <2>10, <2>11 DEF Next
<1> QED
  BY <1>1, <1>2, TypeInvariant, PTL DEF Spec

\* Upstream is asked at most six times for a query, and never twice for the
\* same name, whatever it answers (resolveUpstreamIP).
THEOREM UpstreamIsAskedOnce == Spec => []AskedOnce
<1>1. AskedInv => AskedOnce
  BY DEF AskedInv
<1> QED
  BY <1>1, AskedInvariant, PTL

-----------------------------------------------------------------------------
(* The rule of a query.                                                     *)

LEMMA EntryIs ==
    ASSUME NEW e \in Entries
    PROVE  e.name \in Names /\ e.kind \in Kinds /\ e # NoRule
BY DEF Entries, Kinds, NoRule

\* Loading a script adds its rule and keeps the others.
LEMMA LoadKeepsRules ==
    ASSUME TypeOK, RulesInv, LoadScript
    PROVE  RulesInv'
<1>1. listing \in Seq(Entries) /\ Len(listing) \in Nat /\ loaded \in Nat
  BY LookupAssumption DEF TypeOK
<1>2. /\ loaded + 1 \in 1..Len(listing)
      /\ loaded' = loaded + 1 /\ UNCHANGED <<listing, pc, rule, qname, verdict>> /\ pc = "load"
  BY <1>1 DEF LoadScript, config, walk, result
<1> DEFINE e == listing[loaded + 1]
<1>3. e \in Entries
  BY <1>1, <1>2
<1>4. Lower(e.name) \in Names /\ e # NoRule
  BY <1>3, EntryIs, LowerIsName
<1>5. \A i \in 1..loaded' : i \in 1..loaded \/ i = loaded + 1
  BY <1>1, <1>2
<1>6. \A i \in 1..loaded : i \in 1..loaded'
  BY <1>1, <1>2
<1>7. CASE e.kind = "lua"
  <2>1. rules' = [rules EXCEPT ![Lower(e.name)] = e]
    BY <1>7 DEF LoadScript
  <2>2. /\ rules'[Lower(e.name)] = e
        /\ \A k \in Names : k # Lower(e.name) => rules'[k] = rules[k]
    BY <1>4, <2>1 DEF TypeOK
  <2>3. \A i \in 1..loaded : listing[i] \in Entries
    BY <1>1, <1>2
  <2>4. \A i \in 1..loaded : Lower(listing[i].name) \in Names
    BY <2>3, EntryIs, LowerIsName
  <2>5. \A i \in 1..loaded' : IsScript(i)' => rules'[Lower(listing[i].name)] # NoRule
    BY <1>2, <1>4, <1>5, <2>2, <2>4 DEF RulesInv, IsScript
  <2>6. ASSUME NEW k \in Names, rules'[k] # NoRule
        PROVE  \E i \in 1..loaded' :
                  IsScript(i)' /\ rules'[k] = listing[i] /\ Lower(listing[i].name) = k
    <3>1. CASE k = Lower(e.name)
      <4>1. loaded + 1 \in 1..loaded'
        BY <1>1, <1>2
      <4> QED
        BY <1>2, <1>7, <2>2, <3>1, <4>1 DEF IsScript
    <3>2. CASE k # Lower(e.name)
      <4>1. PICK i \in 1..loaded :
               IsScript(i) /\ rules[k] = listing[i] /\ Lower(listing[i].name) = k
        BY <2>2, <2>6, <3>2 DEF RulesInv
      <4> QED
        BY <1>2, <1>6, <2>2, <3>2, <4>1 DEF IsScript
    <3> QED
      BY <3>1, <3>2
  <2>7. \A i \in 1..loaded' : Lower(listing[i].name)' = Lower(listing[i].name)
    BY <1>2 DEF Lower
  <2>8. pc' = "load"
    BY <1>2
  <2> QED
    BY <1>2, <2>5, <2>6, <2>7, <2>8 DEF RulesInv
<1>8. CASE e.kind # "lua"
  <2>1. rules' = rules
    BY <1>8 DEF LoadScript
  <2>2. \A i \in 1..loaded' : IsScript(i)' => i \in 1..loaded /\ IsScript(i)
    BY <1>2, <1>5, <1>8 DEF IsScript
  <2>3. \A i \in 1..loaded : IsScript(i)' <=> IsScript(i)
    BY <1>2 DEF IsScript
  <2>4. \A i \in 1..loaded' : Lower(listing[i].name)' = Lower(listing[i].name)
    BY <1>2 DEF Lower
  <2>5. pc' = "load"
    BY <1>2
  <2> QED
    BY <1>2, <1>6, <2>1, <2>2, <2>3, <2>4, <2>5 DEF RulesInv
<1> QED
  BY <1>7, <1>8

LEMMA RulesInvariant == Spec => []RulesInv
<1>1. Init => RulesInv
  BY DEF Init, RulesInv
<1>2. TypeInv /\ RulesInv /\ [Next]_vars => RulesInv'
  <2> SUFFICES ASSUME TypeInv, RulesInv, [Next]_vars
               PROVE  RulesInv'
    OBVIOUS
  <2>1. ASSUME UNCHANGED <<listing, loaded, rules, qname>>,
               pc' # "load" => loaded = Len(listing),
               pc' = "end" /\ verdict' => rule' = GetRule(qname)
        PROVE  RulesInv'
    <3>1. GetRule(qname)' = GetRule(qname)
      BY <2>1 DEF GetRule, Hits
    <3> QED
      BY <2>1, <3>1 DEF RulesInv, IsScript
  <2>2. CASE LoadScript
    BY <2>2, LoadKeepsRules DEF TypeInv
  <2>3. ASSUME NEW n \in Names, NEW t \in {"A", "other"}, Receive(n, t)
        PROVE  RulesInv'
    <3>1. pc' \in {"verify", "rule"} /\ UNCHANGED <<listing, loaded, rules>> /\ loaded = Len(listing)
      BY <2>3 DEF Receive, config
    <3> QED
      BY <3>1 DEF RulesInv, IsScript
  <2>4. ASSUME NEW tunnel \in BOOLEAN, Verify(tunnel)
        PROVE  RulesInv'
    BY <2>1, <2>4 DEF Verify, Verdict, config, RulesInv
  <2>5. CASE Resolve
    BY <2>1, <2>5 DEF Resolve, Verdict, config, RulesInv
  <2>6. CASE Exchange
    BY <2>1, <2>6 DEF Exchange, Verdict, config, RulesInv
  <2>7. CASE ExchangeFails
    BY <2>1, <2>7 DEF ExchangeFails, Verdict, config, RulesInv
  <2>8. CASE Rule
    BY <2>1, <2>8 DEF Rule, config, walk, RulesInv
  <2>9. CASE UNCHANGED vars
    BY <2>1, <2>9 DEF vars, config, walk, result, RulesInv
  <2> QED
    BY <2>2, <2>3, <2>4, <2>5, <2>6, <2>7, <2>8, <2>9 DEF Next
<1> QED
  BY <1>1, <1>2, TypeInvariant, PTL DEF Spec

\* A rule fits a query exactly when its name is one of the candidates.
LEMMA FitsIsCandidate ==
    ASSUME NEW k \in Names, NEW n \in Names, Len(k) > 0, IsParent(k, n)
    PROVE  /\ Len(n) - Len(k) + 1 \in 1..Len(n)
           /\ Candidates(n)[Len(n) - Len(k) + 1] = k
<1>1. Len(n) \in Nat /\ Len(k) \in Nat
  BY LowerIsName
<1>2. Len(n) - Len(k) + 1 \in 1..Len(n)
  BY <1>1 DEF IsParent
<1> QED
  BY <1>2, CandidatesAreNames DEF IsParent

\* The rule of a query is the most specific one that was loaded, or that of
\* the default name (LoadScripts and GetRule).
THEOREM MostSpecificRule == Spec => []RuleIsMostSpecific
<1>1. ASSUME TypeOK, RulesInv, pc = "end", verdict
      PROVE  RuleIsMostSpecific
  <2> DEFINE m == Lower(qname)
             scripts == {i \in DOMAIN listing : listing[i].kind = "lua"}
             fits(i) == Len(listing[i].name) > 0 /\ IsParent(Lower(listing[i].name), m)
  <2> USE DEF Scripts, Fits
  <2>1. listing \in Seq(Entries) /\ loaded = Len(listing) /\ DOMAIN listing = 1..loaded
    BY <1>1, LookupAssumption DEF TypeOK, RulesInv
  <2>2. m \in Names /\ Len(m) \in Nat
    BY <1>1, LowerIsName DEF TypeOK
  <2>3. \A i \in DOMAIN listing : listing[i] \in Entries
    BY <2>1
  <2>4. ASSUME NEW i \in DOMAIN listing
        PROVE  /\ Lower(listing[i].name) \in Names
               /\ Len(listing[i].name) \in Nat
               /\ Len(Lower(listing[i].name)) = Len(listing[i].name)
    BY <2>3, <2>4, EntryIs, LowerIsName
  <2>5. \A i \in scripts : rules[Lower(listing[i].name)] # NoRule
    BY <1>1, <2>1 DEF RulesInv, IsScript
  <2>6. ASSUME NEW i \in scripts, fits(i)
        PROVE  /\ Len(m) - Len(listing[i].name) + 1 \in Hits(m)
               /\ Len(m) - Len(listing[i].name) + 1 \in 1..Len(m)
    <3>1. /\ Len(m) - Len(listing[i].name) + 1 \in 1..Len(m)
          /\ Candidates(m)[Len(m) - Len(listing[i].name) + 1] = Lower(listing[i].name)
      BY <2>2, <2>4, <2>6, FitsIsCandidate
    <3>2. Len(m) - Len(listing[i].name) + 1 \in DOMAIN Candidates(m)
      <4>1. DOMAIN Candidates(m) = 1..(Len(m) + 1)
        BY <2>2, CandidatesAreNames
      <4>2. \A x \in 1..Len(m) : x \in 1..(Len(m) + 1)
        BY <2>2
      <4> QED
        BY <3>1, <4>1, <4>2
    <3>3. rules[Candidates(m)[Len(m) - Len(listing[i].name) + 1]] # NoRule
      BY <2>5, <3>1
    <3>4. Len(m) - Len(listing[i].name) + 1 \in Hits(m)
      BY <3>2, <3>3 DEF Hits
    <3> QED
      BY <3>1, <3>4
  <2>7. ASSUME NEW i \in scripts, Lower(listing[i].name) = Default
        PROVE  Len(m) + 1 \in Hits(m)
    BY <2>2, <2>5, <2>7, CandidatesAreNames DEF Hits
  <2>8. CASE Hits(m) = {}
    <3>1. rule = NoRule
      BY <1>1, <2>8, GetRuleIs DEF RulesInv, TypeOK
    <3> QED
      BY <2>6, <2>7, <2>8, <3>1 DEF RuleIsMostSpecific
  <2>9. CASE Hits(m) # {}
    <3>1. PICK h \in Hits(m) :
             (\A j \in Hits(m) : h <= j) /\ rule = rules[Candidates(m)[h]]
      BY <1>1, <2>9, GetRuleIs DEF RulesInv, TypeOK
    <3>2. h \in 1..(Len(m) + 1) /\ rule # NoRule /\ Candidates(m)[h] \in Names
      BY <2>2, <3>1, CandidatesAreNames DEF Hits
    <3>3. PICK i \in scripts : rule = listing[i] /\ Lower(listing[i].name) = Candidates(m)[h]
      BY <1>1, <2>1, <3>1, <3>2 DEF RulesInv, IsScript
    <3>4. CASE h \in 1..Len(m)
      <4>1. Lower(rule.name) = From(m, h) /\ Len(From(m, h)) = Len(m) - h + 1
        BY <2>2, <3>3, <3>4, CandidatesAreNames, FromIsName
      <4>2. Len(rule.name) = Len(m) - h + 1
        BY <2>4, <3>3, <4>1
      <4>3. fits(i)
        <5>1. Len(m) - (Len(m) - h + 1) + 1 = h
          BY <2>2, <3>4
        <5>2. From(m, Len(m) - Len(Lower(rule.name)) + 1) = Lower(rule.name)
          BY <4>1, <5>1
        <5>3. Len(Lower(rule.name)) <= Len(m) /\ Len(rule.name) > 0
          BY <2>2, <3>4, <4>1, <4>2
        <5> QED
          BY <3>3, <5>2, <5>3 DEF IsParent
      <4>4. \A j \in scripts : fits(j) => Len(listing[j].name) <= Len(rule.name)
        <5> SUFFICES ASSUME NEW j \in scripts, fits(j)
                     PROVE  Len(listing[j].name) <= Len(rule.name)
          OBVIOUS
        <5>1. h <= Len(m) - Len(listing[j].name) + 1
          BY <2>6, <3>1
        <5>2. j \in DOMAIN listing
          OBVIOUS
        <5>3. Len(listing[j].name) \in Nat
          BY <2>4, <5>2
        <5> QED
          BY <2>2, <3>4, <4>2, <5>1, <5>3
      <4> QED
        BY <3>3, <4>3, <4>4 DEF RuleIsMostSpecific
    <3>5. CASE h = Len(m) + 1
      <4>1. \A j \in scripts : ~fits(j)
        <5> SUFFICES ASSUME NEW j \in scripts, fits(j)
                     PROVE  FALSE
          OBVIOUS
        <5>1. /\ h <= Len(m) - Len(listing[j].name) + 1
              /\ Len(m) - Len(listing[j].name) + 1 \in 1..Len(m)
          BY <2>6, <3>1
        <5>2. \A x \in 1..Len(m) : ~(h <= x)
          BY <2>2, <3>5
        <5> QED
          BY <5>1, <5>2
      <4>2. Lower(rule.name) = Default
        BY <2>2, <3>3, <3>5, CandidatesAreNames
      <4> QED
        BY <3>3, <4>1, <4>2 DEF RuleIsMostSpecific
    <3> QED
      BY <2>2, <3>2, <3>4, <3>5
  <2> QED
    BY <2>8, <2>9
<1>2. TypeInv /\ RulesInv => RuleIsMostSpecific
  BY <1>1 DEF RuleIsMostSpecific, TypeInv
<1> QED
  BY <1>2, TypeInvariant, RulesInvariant, PTL

-----------------------------------------------------------------------------
(* The verdict.                                                             *)

Last == asked[Len(asked)]
NextName(n) == zone[Lower(n)].name
Kind(n) == zone[Lower(n)].kind

\* What the query is about to ask for: the end of the CNAME records so far.
LinkInv ==
    asked # <<>> => qtype = "A" /\ Kind(Last) = "cname" /\ name = NextName(Last)

\* How the check of a query that was asked for ended.
EndInv ==
    \/ ~verdict /\ ip = NilIP /\ Kind(Last) = "nxdomain"
    \/ verdict /\ ip = Lower(Last) /\ Kind(Last) = "a" /\ qtype = "A"
    \/ verdict /\ ip = NilIP /\ Kind(Last) \in {"none", "other"}
    \/ verdict /\ ip = NilIP /\ Kind(Last) # "nxdomain" /\ qtype # "A"
    \/ /\ verdict /\ ip = NilIP /\ Kind(Last) = "cname" /\ qtype = "A"
       /\ \/ NextName(Last) = <<>>
          \/ \E k \in 1..Len(asked) : asked[k] = NextName(Last)
          \/ Len(asked) > MaxCNAMEHops

\* The names that upstream was asked for are a chain of CNAME records.
Chained ==
    \A k \in 1..Len(asked) :
       /\ asked[k] # <<>>
       /\ k < Len(asked) => Kind(asked[k]) = "cname" /\ asked[k + 1] = NextName(asked[k])

\* The verdict depends on what is at the end of the chain.
ChainInv ==
    /\ Chained
    /\ qtype # "A" => Len(asked) <= 1
    /\ pc \in {"load", "verify", "resolve", "exchange"} => verdict /\ ~failed /\ ip = NilIP
    /\ pc \in {"resolve", "exchange"} => LinkInv
    /\ pc = "resolve" => \A v \in visited : \E k \in 1..Len(asked) : asked[k] = v
    /\ pc = "exchange" => name # <<>>
    /\ pc = "exchange" =>
          \A v \in visited : v = name \/ \E k \in 1..Len(asked) : asked[k] = v
    /\ ~verdict => asked # <<>> /\ ~failed
    /\ pc \in {"rule", "end"} /\ asked # <<>> /\ ~failed => EndInv

\* The exchange, whatever comes of it, leaves a chain.
LEMMA AskKeepsChain ==
    ASSUME TypeInv, AskedInv, ChainInv, pc = "exchange", asked' = Append(asked, name),
           UNCHANGED <<zone, qtype>>
    PROVE  /\ asked' # <<>> /\ Chained'
           /\ Last' = name /\ Kind(Last)' = Kind(name) /\ NextName(Last)' = NextName(name)
           /\ qtype # "A" => Len(asked') <= 1
           /\ \A v \in visited : \E k \in 1..Len(asked') : asked'[k] = v
<1>1. asked \in Seq(Names) /\ name \in Names /\ Len(asked) \in Nat
  BY DEF TypeInv, TypeOK
<1>2. /\ Len(asked') = Len(asked) + 1 /\ asked' \in Seq(Names)
      /\ \A k \in 1..Len(asked) : asked'[k] = asked[k] /\ asked[k] \in Names
      /\ asked'[Len(asked) + 1] = name
  BY <1>1
<1>3. asked' # <<>> /\ Last' = name
  BY <1>1, <1>2 DEF Last
<1>4. Kind(Last)' = Kind(name) /\ NextName(Last)' = NextName(name)
  BY <1>3 DEF NextName, Kind, Lower
<1>5. \A k \in 1..Len(asked') : k \in 1..Len(asked) \/ k = Len(asked) + 1
  BY <1>1, <1>2
<1>6. \A k \in 1..Len(asked') : asked'[k] # <<>>
  BY <1>2, <1>5 DEF ChainInv, Chained
<1>7. ASSUME NEW k \in 1..Len(asked'), k < Len(asked')
      PROVE  zone[Lower(asked'[k])].kind = "cname" /\ asked'[k + 1] = zone[Lower(asked'[k])].name
  <2>1. k \in 1..Len(asked) /\ asked'[k] = asked[k] /\ asked[k] \in Names
    BY <1>1, <1>2, <1>7
  <2>2. CASE k < Len(asked)
    <3>1. k + 1 \in 1..Len(asked)
      BY <1>1, <2>1, <2>2
    <3> QED
      BY <1>2, <2>1, <2>2, <3>1 DEF ChainInv, Chained, Kind, NextName
  <2>3. CASE k = Len(asked)
    <3>1. asked # <<>> /\ asked[k] = Last
      BY <1>1, <2>1, <2>3 DEF Last
    <3> QED
      BY <1>2, <2>1, <2>3, <3>1 DEF ChainInv, LinkInv, Kind, NextName
  <2> QED
    BY <1>1, <2>1, <2>2, <2>3
<1>8. Chained'
  BY <1>6, <1>7 DEF Chained, Kind, NextName, Lower
<1>9. qtype # "A" => Len(asked') <= 1
  BY <1>1, <1>2 DEF ChainInv, LinkInv
<1>10. ASSUME NEW v \in visited
       PROVE  \E k \in 1..Len(asked') : asked'[k] = v
  <2>1. CASE v = name
    <3>1. Len(asked) + 1 \in 1..Len(asked')
      BY <1>1, <1>2
    <3> QED
      BY <1>2, <2>1, <3>1
  <2>2. CASE \E k \in 1..Len(asked) : asked[k] = v
    <3>1. PICK k \in 1..Len(asked) : asked[k] = v
      BY <2>2
    <3>2. k \in 1..Len(asked')
      BY <1>1, <1>2
    <3> QED
      BY <1>2, <3>1, <3>2
  <2> QED
    BY <2>1, <2>2 DEF ChainInv
<1> QED
  BY <1>3, <1>4, <1>8, <1>9, <1>10

LEMMA ChainInvariant == Spec => []ChainInv
<1>1. Init => ChainInv
  <2> SUFFICES ASSUME Init
               PROVE  ChainInv
    OBVIOUS
  <2>1. asked = <<>> /\ pc = "load" /\ verdict = TRUE /\ failed = FALSE /\ ip = NilIP
    BY DEF Init
  <2>2. Len(asked) = 0
    BY <2>1
  <2> QED
    BY <2>1, <2>2 DEF ChainInv, Chained
<1>2. TypeInv /\ AskedInv /\ ChainInv /\ [Next]_vars => ChainInv'
  <2> SUFFICES ASSUME TypeInv, AskedInv, ChainInv, [Next]_vars
               PROVE  ChainInv'
    OBVIOUS
  <2>1. asked \in Seq(Names) /\ Len(asked) \in Nat
    BY DEF TypeInv, TypeOK
  <2>2. ASSUME UNCHANGED <<asked, zone, qtype, verdict, failed, ip>>,
               pc' \in {"load", "verify", "rule", "end"},
               pc' \in {"rule", "end"} => (pc \in {"rule", "end"} \/ asked = <<>>),
               pc' \in {"load", "verify"} => pc \in {"load", "verify"}
        PROVE  ChainInv'
    BY <2>2 DEF ChainInv, Chained, EndInv, Kind, NextName, Last, Lower
  <2>3. CASE LoadScript
    BY <2>2, <2>3 DEF LoadScript, config, walk, result
  <2>4. ASSUME NEW n \in Names, NEW t \in {"A", "other"}, Receive(n, t)
        PROVE  ChainInv'
    <3>1. asked = <<>> /\ Len(asked) = 0
      BY <2>4 DEF Receive, AskedInv
    <3>2. UNCHANGED <<asked, verdict, failed, ip>> /\ pc' \in {"verify", "rule"} /\ verdict
      BY <2>4 DEF Receive, result, ChainInv
    <3> QED
      BY <3>1, <3>2, <2>4 DEF ChainInv, Chained, Receive
  <2>5. ASSUME NEW tunnel \in BOOLEAN, Verify(tunnel)
        PROVE  ChainInv'
    <3>1. asked = <<>> /\ Len(asked) = 0 /\ visited = {} /\ verdict /\ ~failed /\ ip = NilIP
      BY <2>5 DEF Verify, AskedInv, ChainInv
    <3>2. UNCHANGED <<asked, visited, failed>> /\ verdict' /\ ip' = NilIP
      BY <2>5, <3>1 DEF Verify, Verdict
    <3>3. pc' \in {"resolve", "rule"}
      BY <2>5 DEF Verify, Verdict
    <3> QED
      BY <3>1, <3>2, <3>3 DEF ChainInv, Chained, LinkInv
  <2>6. CASE Resolve
    <3>1. UNCHANGED <<asked, zone, qtype, name, failed>> /\ verdict /\ ~failed /\ ip = NilIP
      BY <2>6 DEF Resolve, config, ChainInv
    <3>2. verdict' /\ ip' = NilIP /\ pc' \in {"rule", "exchange"}
      BY <2>6, <3>1 DEF Resolve, Verdict
    <3>3. LinkInv /\ LinkInv'
      BY <2>6, <3>1 DEF Resolve, ChainInv, LinkInv, Kind, NextName, Last, Lower
    <3>4. CASE pc' = "exchange"
      <4>1. name # <<>> /\ visited' = visited \cup {name}
        BY <2>6, <3>4 DEF Resolve, Verdict
      <4> QED
        BY <2>6, <3>1, <3>2, <3>3, <3>4, <4>1
        DEF Resolve, ChainInv, Chained, Kind, NextName, Lower
    <3>5. CASE pc' = "rule"
      <4>1. name = <<>> \/ name \in visited \/ depth > MaxCNAMEHops
        BY <2>6, <3>5 DEF Resolve
      <4>2. depth > MaxCNAMEHops => Len(asked) > MaxCNAMEHops
        BY <2>6 DEF Resolve, AskedInv
      <4>3. name \in visited => \E k \in 1..Len(asked) : asked[k] = name
        BY <2>6 DEF Resolve, ChainInv
      <4>4. asked # <<>> => EndInv
        <5> SUFFICES ASSUME asked # <<>>
                     PROVE  EndInv
          OBVIOUS
        <5>1. qtype = "A" /\ Kind(Last) = "cname" /\ name = NextName(Last)
          BY <3>3 DEF LinkInv
        <5> QED
          BY <3>1, <4>1, <4>2, <4>3, <5>1 DEF EndInv
      <4>5. EndInv => EndInv'
        BY <3>1, <3>2 DEF EndInv, Kind, NextName, Last, Lower
      <4> QED
        BY <3>1, <3>2, <3>5, <4>4, <4>5 DEF ChainInv, Chained, Kind, NextName, Lower
    <3> QED
      BY <3>2, <3>4, <3>5
  <2>7. CASE Exchange
    <3>1. asked' = Append(asked, name) /\ UNCHANGED <<zone, qtype, visited, failed>> /\ pc = "exchange"
      BY <2>7 DEF Exchange, config
    <3>2. verdict /\ ~failed /\ ip = NilIP /\ name \in Names /\ Lower(name) \in Names
      BY <3>1, LowerIsName DEF ChainInv, TypeInv, TypeOK
    <3>3. /\ asked' # <<>> /\ Chained'
          /\ Last' = name /\ Kind(Last)' = Kind(name) /\ NextName(Last)' = NextName(name)
          /\ qtype # "A" => Len(asked') <= 1
          /\ \A v \in visited : \E k \in 1..Len(asked') : asked'[k] = v
      BY <3>1, AskKeepsChain
    <3>4. CASE /\ Kind(name) = "cname" /\ qtype = "A" /\ name' = NextName(name)
               /\ pc' = "resolve" /\ UNCHANGED <<verdict, ip>>
      <4>1. LinkInv'
        BY <3>1, <3>3, <3>4 DEF LinkInv
      <4> QED
        BY <3>1, <3>2, <3>3, <3>4, <4>1 DEF ChainInv
    <3>5. CASE /\ \/ Verdict(FALSE, NilIP) /\ Kind(name) = "nxdomain"
                  \/ Verdict(TRUE, Lower(name)) /\ Kind(name) = "a" /\ qtype = "A"
                  \/ Verdict(TRUE, NilIP) /\ Kind(name) \in {"none", "other"}
                  \/ Verdict(TRUE, NilIP) /\ qtype # "A" /\ Kind(name) # "nxdomain"
      <4>1. EndInv'
        <5>1. Lower(Last)' = Lower(name)
          BY <3>3 DEF Lower
        <5> QED
          BY <3>1, <3>3, <3>5, <5>1 DEF EndInv, Verdict
      <4>2. pc' \in {"rule", "end"}
        BY <3>5 DEF Verdict
      <4> QED
        BY <3>1, <3>2, <3>3, <4>1, <4>2 DEF ChainInv
    <3> QED
      BY <2>7, <3>4, <3>5 DEF Exchange, Kind, NextName
  <2>8. CASE ExchangeFails
    <3>1. /\ asked' = Append(asked, name) /\ UNCHANGED <<zone, qtype>> /\ pc = "exchange"
          /\ verdict' /\ failed' /\ pc' = "rule"
      BY <2>8 DEF ExchangeFails, config, Verdict
    <3>2. Chained' /\ (qtype' # "A" => Len(asked') <= 1)
      BY <3>1, AskKeepsChain
    <3> QED
      BY <3>1, <3>2 DEF ChainInv
  <2>9. CASE Rule
    BY <2>2, <2>9 DEF Rule, config, walk, result
  <2>10. CASE UNCHANGED vars
    BY <2>10 DEF vars, config, walk, result, ChainInv, Chained, LinkInv, EndInv, Kind, NextName, Last, Lower
  <2> QED
    BY <2>3, <2>4, <2>5, <2>6, <2>7, <2>8, <2>9, <2>10 DEF Next
<1> QED
  BY <1>1, <1>2, TypeInvariant, AskedInvariant, PTL DEF Spec

\* The recursion that defines Hop has a solution: five steps can be written down.
LEMMA HopIs ==
    /\ Hop[0] = asked[1]
    /\ \A i \in 1..MaxCNAMEHops : Hop[i] = NextName(Hop[i - 1])
<1> DEFINE F(g) == [i \in 0..MaxCNAMEHops |->
                      IF i = 0 THEN asked[1] ELSE zone[Lower(g[i - 1])].name]
           h1 == NextName(asked[1])
           h2 == NextName(h1)
           h3 == NextName(h2)
           h4 == NextName(h3)
           h5 == NextName(h4)
           f == [i \in 0..MaxCNAMEHops |->
                   IF i = 0 THEN asked[1] ELSE IF i = 1 THEN h1 ELSE IF i = 2 THEN h2
                   ELSE IF i = 3 THEN h3 ELSE IF i = 4 THEN h4 ELSE h5]
<1>1. f = F(f)
  <2> HIDE DEF h1, h2, h3, h4, h5
  <2>1. f[0] = asked[1] /\ f[1] = h1 /\ f[2] = h2 /\ f[3] = h3 /\ f[4] = h4 /\ f[5] = h5
    BY DEF MaxCNAMEHops
  <2>2. /\ h1 = zone[Lower(asked[1])].name /\ h2 = zone[Lower(h1)].name
        /\ h3 = zone[Lower(h2)].name /\ h4 = zone[Lower(h3)].name /\ h5 = zone[Lower(h4)].name
    BY DEF NextName, h1, h2, h3, h4, h5
  <2> HIDE DEF f
  <2>3. ASSUME NEW i \in 0..MaxCNAMEHops
        PROVE  f[i] = IF i = 0 THEN asked[1] ELSE zone[Lower(f[i - 1])].name
    <3>1. i \in {0, 1, 2, 3, 4, 5}
      BY DEF MaxCNAMEHops
    <3>2. CASE i = 0
      BY <2>1, <3>2
    <3>3. CASE i = 1
      <4>1. i # 0 /\ i - 1 = 0
        BY <3>3
      <4> QED
        BY <2>1, <2>2, <3>3, <4>1
    <3>4. CASE i = 2
      <4>1. i # 0 /\ i - 1 = 1
        BY <3>4
      <4> QED
        BY <2>1, <2>2, <3>4, <4>1
    <3>5. CASE i = 3
      <4>1. i # 0 /\ i - 1 = 2
        BY <3>5
      <4> QED
        BY <2>1, <2>2, <3>5, <4>1
    <3>6. CASE i = 4
      <4>1. i # 0 /\ i - 1 = 3
        BY <3>6
      <4> QED
        BY <2>1, <2>2, <3>6, <4>1
    <3>7. CASE i = 5
      <4>1. i # 0 /\ i - 1 = 4
        BY <3>7
      <4> QED
        BY <2>1, <2>2, <3>7, <4>1
    <3> QED
      BY <3>1, <3>2, <3>3, <3>4, <3>5, <3>6, <3>7
  <2>4. f = [i \in 0..MaxCNAMEHops |-> f[i]]
    BY DEF f
  <2> QED
    BY <2>3, <2>4, Zenon
<1>2. \E g : g = F(g)
  BY <1>1
<1> HIDE DEF f
<1>3. Hop = F(Hop)
  BY <1>2 DEF Hop
<1>4. \A i \in 0..MaxCNAMEHops :
        Hop[i] = IF i = 0 THEN asked[1] ELSE zone[Lower(Hop[i - 1])].name
  BY <1>3
<1> QED
  BY <1>4 DEF NextName, MaxCNAMEHops

\* Every hop is a name, and the first ones are those that upstream was asked for.
LEMMA HopsAreAsked ==
    ASSUME TypeInv, ChainInv, asked # <<>>
    PROVE  \A i \in 0..MaxCNAMEHops : i < Len(asked) => Hop[i] = asked[i + 1]
<1>1. asked \in Seq(Names) /\ Len(asked) \in Nat /\ Len(asked) >= 1
  BY DEF TypeInv, TypeOK
<1>2. Hop[0] = asked[0 + 1]
  BY HopIs
<1>3. ASSUME NEW i \in 1..MaxCNAMEHops, i < Len(asked), Hop[i - 1] = asked[(i - 1) + 1]
      PROVE  Hop[i] = asked[i + 1]
  <2>1. Hop[i] = NextName(Hop[i - 1])
    BY HopIs
  <2>2. (i - 1) + 1 = i /\ i \in 1..Len(asked)
    BY <1>1, <1>3 DEF MaxCNAMEHops
  <2> QED
    BY <1>3, <2>1, <2>2 DEF ChainInv, Chained
<1>4. 1 < Len(asked) => Hop[1] = asked[1 + 1]
  BY <1>2, <1>3 DEF MaxCNAMEHops
<1>5. 2 < Len(asked) => Hop[2] = asked[2 + 1]
  BY <1>1, <1>3, <1>4 DEF MaxCNAMEHops
<1>6. 3 < Len(asked) => Hop[3] = asked[3 + 1]
  BY <1>1, <1>3, <1>5 DEF MaxCNAMEHops
<1>7. 4 < Len(asked) => Hop[4] = asked[4 + 1]
  BY <1>1, <1>3, <1>6 DEF MaxCNAMEHops
<1>8. 5 < Len(asked) => Hop[5] = asked[5 + 1]
  BY <1>1, <1>3, <1>7 DEF MaxCNAMEHops
<1>9. \A i \in 0..MaxCNAMEHops : i \in {0, 1, 2, 3, 4, 5}
  BY DEF MaxCNAMEHops
<1> QED
  BY <1>2, <1>4, <1>5, <1>6, <1>7, <1>8, <1>9

\* When the chain returns to a name that was asked for, it never leaves them.
LEMMA LoopStays ==
    ASSUME TypeInv, ChainInv, asked # <<>>,
           \E k \in 1..Len(asked) : asked[k] = NextName(Last)
    PROVE  \A i \in 0..MaxCNAMEHops : \E k \in 1..Len(asked) : Hop[i] = asked[k]
<1> DEFINE In(n) == \E k \in 1..Len(asked) : n = asked[k]
<1>1. asked \in Seq(Names) /\ Len(asked) \in Nat /\ Len(asked) >= 1
  BY DEF TypeInv, TypeOK
<1>2. In(Hop[0])
  BY <1>1, HopIs
<1>3. ASSUME NEW i \in 1..MaxCNAMEHops, In(Hop[i - 1])
      PROVE  In(Hop[i])
  <2>1. PICK k \in 1..Len(asked) : Hop[i - 1] = asked[k]
    BY <1>3
  <2>2. Hop[i] = NextName(asked[k])
    BY <2>1, HopIs
  <2>3. CASE k < Len(asked)
    <3>1. asked[k + 1] = NextName(asked[k]) /\ k + 1 \in 1..Len(asked)
      BY <1>1, <2>3 DEF ChainInv, Chained
    <3> QED
      BY <2>2, <3>1
  <2>4. CASE k = Len(asked)
    <3>1. asked[k] = Last
      BY <2>4 DEF Last
    <3> QED
      BY <2>2, <3>1
  <2> QED
    BY <1>1, <2>3, <2>4
<1> HIDE DEF In
<1>4. In(Hop[1])
  BY <1>2, <1>3 DEF MaxCNAMEHops
<1>5. In(Hop[2])
  BY <1>3, <1>4 DEF MaxCNAMEHops
<1>6. In(Hop[3])
  BY <1>3, <1>5 DEF MaxCNAMEHops
<1>7. In(Hop[4])
  BY <1>3, <1>6 DEF MaxCNAMEHops
<1>8. In(Hop[5])
  BY <1>3, <1>7 DEF MaxCNAMEHops
<1>9. \A i \in 0..MaxCNAMEHops : i \in {0, 1, 2, 3, 4, 5}
  BY DEF MaxCNAMEHops
<1> QED
  BY <1>2, <1>4, <1>5, <1>6, <1>7, <1>8, <1>9 DEF In

\* A hop past the n-th name, of five at most.
LEMMA PastTheEnd ==
    ASSUME NEW n \in Nat, NEW i \in 0..5, n >= 1, i > n - 1
    PROVE  /\ i >= n /\ n - 1 < n /\ n <= 5
           /\ n - 1 \in 0..(i - 1) /\ n - 1 \in 0..5 /\ n \in 0..i /\ n \in 1..5
  OBVIOUS

\* A chain of CNAME records that has an address, a refusal or something else at
\* its end was followed to that end.
LEMMA LeadsToLast ==
    ASSUME TypeInv, AskedInv, ChainInv, EndInv, asked # <<>>,
           NEW i \in Hops, NEW kind \in {"a", "nxdomain"}, Leads(i, kind)
    PROVE  i = Len(asked) - 1 /\ Hop[i] = Last /\ Kind(Last) = kind
<1>1. asked \in Seq(Names) /\ Len(asked) \in Nat /\ Len(asked) >= 1 /\ Len(asked) <= MaxCNAMEHops + 1
  BY DEF TypeInv, TypeOK, AskedInv, AskedOnce
<1>2. i \in 0..MaxCNAMEHops /\ i \in Nat /\ (qtype # "A" => i = 0)
  BY DEF Hops, MaxCNAMEHops
<1>3. /\ Kind(Hop[i]) = kind
      /\ \A j \in 0..(i - 1) : Kind(Hop[j]) = "cname"
      /\ \A j \in 0..i : Hop[j] # <<>>
  BY DEF Leads, Kind
<1>4. \A j \in 0..MaxCNAMEHops : j < Len(asked) => Hop[j] = asked[j + 1]
  BY HopsAreAsked
<1>5. CASE i < Len(asked) - 1
  <2>1. i + 1 \in 1..Len(asked) /\ i + 1 < Len(asked) /\ Hop[i] = asked[i + 1]
    BY <1>1, <1>2, <1>4, <1>5
  <2>2. Kind(asked[i + 1]) = "cname"
    BY <2>1 DEF ChainInv, Chained
  <2> QED
    BY <1>3, <2>1, <2>2
<1>6. CASE i = Len(asked) - 1
  <2>1. Hop[i] = asked[Len(asked)]
    BY <1>1, <1>2, <1>4, <1>6
  <2> QED
    BY <1>3, <1>6, <2>1 DEF Last
<1>7. CASE i > Len(asked) - 1
  <2> DEFINE n == Len(asked)
  <2>a. MaxCNAMEHops = 5 /\ n \in Nat /\ n >= 1 /\ i > n - 1 /\ i \in 0..5
    BY <1>1, <1>2, <1>7 DEF MaxCNAMEHops
  <2>b. /\ i >= n /\ n - 1 < n /\ n <= 5
        /\ n - 1 \in 0..(i - 1) /\ n - 1 \in 0..5 /\ n \in 0..i /\ n \in 1..5
    <3> HIDE DEF n
    <3> QED
      BY <2>a, PastTheEnd
  <2>1. i >= n /\ n - 1 \in 0..(i - 1) /\ n - 1 \in 0..MaxCNAMEHops /\ n - 1 < Len(asked)
        /\ n \in 0..i /\ n <= MaxCNAMEHops /\ n \in 1..MaxCNAMEHops
    BY <2>a, <2>b
  <2>2. Hop[n - 1] = Last
    <3>1. Hop[n - 1] = asked[(n - 1) + 1] /\ (n - 1) + 1 = n
      BY <1>1, <1>4, <2>1
    <3> QED
      BY <3>1 DEF Last
  <2>3. Kind(Last) = "cname"
    BY <1>3, <2>1, <2>2
  <2>4. qtype = "A"
    BY <1>1, <1>2, <2>1
  <2>5. Hop[n] = NextName(Last)
    BY <2>1, <2>2, HopIs
  <2>6. NextName(Last) # <<>>
    BY <1>3, <2>1, <2>5
  <2>7. \E k \in 1..Len(asked) : asked[k] = NextName(Last)
    <3>1. ~(Len(asked) > MaxCNAMEHops)
      BY <1>1, <2>1 DEF MaxCNAMEHops
    <3> QED
      BY <2>3, <2>4, <2>6, <3>1 DEF EndInv
  <2>8. PICK k \in 1..Len(asked) : Hop[i] = asked[k]
    BY <1>2, <2>7, LoopStays
  <2>9. Kind(asked[k]) = "cname"
    <3>1. CASE k < Len(asked)
      BY <3>1 DEF ChainInv, Chained
    <3>2. CASE k = Len(asked)
      BY <2>3, <3>2 DEF Last
    <3> QED
      BY <1>1, <3>1, <3>2
  <2> QED
    BY <1>3, <2>8, <2>9
<1> QED
  BY <1>1, <1>2, <1>5, <1>6, <1>7

\* The end of the chain is a hop that the records lead to.
LEMMA LastLeads ==
    ASSUME TypeInv, AskedInv, ChainInv, asked # <<>>
    PROVE  \E i \in Hops : Hop[i] = Last /\ Leads(i, Kind(Last))
<1> DEFINE i == Len(asked) - 1
<1>1. asked \in Seq(Names) /\ Len(asked) \in Nat /\ Len(asked) >= 1 /\ Len(asked) <= MaxCNAMEHops + 1
  BY DEF TypeInv, TypeOK, AskedInv, AskedOnce
<1>2. i \in Hops /\ i \in 0..MaxCNAMEHops /\ i < Len(asked) /\ i + 1 = Len(asked)
  <2>1. qtype # "A" => Len(asked) <= 1
    BY DEF ChainInv
  <2> DEFINE n == Len(asked)
  <2>2. n \in Nat /\ 1 <= n /\ n <= 6 /\ MaxCNAMEHops = 5 /\ (qtype # "A" => n <= 1)
    BY <1>1, <2>1 DEF MaxCNAMEHops
  <2> HIDE DEF n
  <2>3. n - 1 \in 0..MaxCNAMEHops /\ n - 1 < n /\ (n - 1) + 1 = n
    BY <2>2
  <2>4. qtype # "A" => n - 1 = 0
    BY <2>2
  <2>5. i = n - 1
    BY DEF n
  <2> HIDE DEF i
  <2> QED
    BY <2>3, <2>4, <2>5 DEF Hops, n
<1>3. \A j \in 0..i : j \in 0..MaxCNAMEHops /\ j < Len(asked) /\ j + 1 \in 1..Len(asked)
  BY <1>1, <1>2 DEF MaxCNAMEHops
<1>4. \A j \in 0..i : Hop[j] = asked[j + 1]
  BY <1>3, HopsAreAsked
<1>5. Hop[i] = Last
  BY <1>1, <1>2, <1>4 DEF Last
<1>6. \A j \in 0..i : Hop[j] # <<>>
  BY <1>3, <1>4 DEF ChainInv, Chained
<1>7. ASSUME NEW j \in 0..(i - 1)
      PROVE  Kind(Hop[j]) = "cname"
  <2>1. j \in 0..i /\ j + 1 < Len(asked)
    BY <1>1
  <2> QED
    BY <1>3, <1>4, <2>1 DEF ChainInv, Chained
<1>8. Leads(i, Kind(Last))
  BY <1>5, <1>6, <1>7 DEF Leads, Kind
<1> QED
  BY <1>2, <1>5, <1>8

\* A name is refused exactly when the chain of CNAME records from it ends in a
\* name that does not exist, and the address is that of the end of the chain
\* (verifyUpstreamDNS and resolveUpstreamIP).
THEOREM VerdictIsThatOfTheChain == Spec => []VerdictFollowsChain
<1>1. ASSUME TypeInv, AskedInv, ChainInv
      PROVE  VerdictFollowsChain
  <2>1. ~verdict => asked # <<>> /\ ~failed
    BY <1>1 DEF ChainInv
  <2>2. ASSUME pc \in {"rule", "end"}, asked # <<>>, ~failed
        PROVE  /\ ~verdict <=> \E i \in Hops : Leads(i, "nxdomain")
               /\ ip # NilIP <=> qtype = "A" /\ \E i \in Hops : Leads(i, "a")
               /\ \A i \in Hops : qtype = "A" /\ Leads(i, "a") => ip = Lower(Hop[i])
    <3>1. EndInv
      BY <1>1, <2>2 DEF ChainInv
    <3>2. \A i \in Hops : Leads(i, "nxdomain") => Kind(Last) = "nxdomain"
      BY <1>1, <2>2, <3>1, LeadsToLast
    <3>3. \A i \in Hops : Leads(i, "a") => Kind(Last) = "a" /\ Hop[i] = Last
      BY <1>1, <2>2, <3>1, LeadsToLast
    <3>4. \E i \in Hops : Leads(i, Kind(Last))
      BY <1>1, <2>2, LastLeads
    <3>5. Lower(Last) # NilIP
      <4>1. Last \in Names
        BY <1>1, <2>2 DEF Last, TypeInv, TypeOK
      <4> QED
        BY <4>1, LowerIsName, LookupAssumption
    <3>6. ~verdict <=> Kind(Last) = "nxdomain"
      BY <3>1 DEF EndInv
    <3>7. ip # NilIP <=> qtype = "A" /\ Kind(Last) = "a"
      BY <3>1, <3>5 DEF EndInv
    <3>8. qtype = "A" /\ Kind(Last) = "a" => ip = Lower(Last)
      BY <3>1 DEF EndInv
    <3> QED
      BY <3>2, <3>3, <3>4, <3>6, <3>7, <3>8
  <2> QED
    BY <2>1, <2>2 DEF VerdictFollowsChain
<1> QED
  BY <1>1, TypeInvariant, AskedInvariant, ChainInvariant, PTL
=============================================================================
