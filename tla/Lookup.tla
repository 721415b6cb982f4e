------------------------------- MODULE Lookup -------------------------------
(***************************************************************************)
(* What the name of a DNS query decides before a script runs: whether the  *)
(* upstream resolver knows it (verifyUpstreamDNS and resolveUpstreamIP of  *)
(* src/internal/services/dns/server.go) and which rule is its own          *)
(* (src/internal/services/responder/resolver.go).                          *)
(*                                                                         *)
(* The rules are loaded once; then one query is looked up.  A name is a    *)
(* sequence of labels, and the root is the empty one.  Spelling matters: a *)
(* label may be written in upper case, to which the upstream resolver is   *)
(* indifferent, and so is the resolver of rules.                           *)
(***************************************************************************)
EXTENDS Naturals, Sequences

CONSTANTS
    Labels,     \* labels in every spelling
    LowerOf,    \* a label in lower case
    Names,      \* names that a query, a CNAME record or a file may have
    Listings,   \* what the directory of rules may hold, in ReadDir's order:
                \* sequences of entries [name, kind]
    Zones,      \* what upstream may answer: for a name in lower case, [kind, name]
    Apex,       \* EffectiveTLDPlusOne of each name, or NoApex
    NoApex,
    Default     \* the name of the rule for every other name

MaxCNAMEHops == 5
Kinds == {"lua", "dir", "other"}
Entries == [name : Names, kind : Kinds]
Answers == [kind : {"a", "cname", "none", "nxdomain", "other"}, name : Names]
NoRule == [name |-> <<>>, kind |-> "none"]

\* No address: the nil net.IP.
NilIP == <<"nil">>

\* strings.ToLower.
Lower(n) == [i \in DOMAIN n |-> LowerOf[n[i]]]

\* The name without its first i - 1 labels.
From(n, i) == SubSeq(n, i, Len(n))

ASSUME LookupAssumption ==
    /\ LowerOf \in [Labels -> Labels]
    /\ Names \subseteq Seq(Labels)
    /\ Default \in Names /\ NilIP \notin Names
    /\ \A n \in Names : Lower(n) \in Names /\ \A i \in 1..Len(n) : From(n, i) \in Names
    /\ Listings \subseteq Seq(Entries)
    /\ Zones \subseteq [Names -> Answers]
    /\ Apex \in [Names -> Names \cup {NoApex}] /\ NoApex \notin Names

VARIABLES
    listing, loaded,    \* the directory, and how far LoadScripts has come
    rules,              \* Resolver.Rules
    zone,               \* what upstream answers, as long as it does
    verify,             \* the configuration's verify_upstream
    pc,                 \* where the query is
    qname, qtype,       \* its question; qtype is of the request under way
    name, depth, visited, \* the arguments of resolveUpstreamIP
    verdict, ip,        \* what verifyUpstreamDNS returns; the address is that of a name
    rule,               \* what GetRule returns
    failed,             \* history: an exchange failed
    asked               \* history: names that upstream was asked for

config == <<listing, zone, verify>>
walk == <<qname, qtype, name, depth, visited, asked>>
result == <<verdict, ip, failed>>
vars == <<config, loaded, rules, pc, walk, result, rule>>

TypeOK ==
    /\ listing \in Listings /\ zone \in Zones /\ verify \in BOOLEAN
    /\ loaded \in 0..Len(listing)
    /\ rules \in [Names -> Entries \cup {NoRule}]
    /\ pc \in {"load", "verify", "resolve", "exchange", "rule", "end"}
    /\ qname \in Names /\ name \in Names
    /\ qtype \in {"A", "other"}
    /\ depth \in 0..(MaxCNAMEHops + 1)
    /\ visited \subseteq Names
    /\ asked \in Seq(Names)
    /\ verdict \in BOOLEAN /\ failed \in BOOLEAN
    /\ ip \in Names \cup {NilIP}
    /\ rule \in Entries \cup {NoRule}

\* EnsureDefaultRules has seen something with the name of the default rule.
Init ==
    /\ listing \in Listings
    /\ \E i \in DOMAIN listing : listing[i].name = Default /\ listing[i].kind # "other"
    /\ zone \in Zones /\ verify \in BOOLEAN
    /\ loaded = 0
    /\ rules = [n \in Names |-> NoRule]
    /\ pc = "load"
    /\ qname = Default /\ name = Default /\ qtype = "A"
    /\ depth = 0 /\ visited = {} /\ asked = <<>>
    /\ verdict = TRUE /\ ip = NilIP /\ failed = FALSE
    /\ rule = NoRule

-----------------------------------------------------------------------------
(* The rules.                                                               *)

\* One turn of the loop in LoadScripts: a file with the extension ".lua" is the
\* rule of its name, over an earlier one that differs in its spelling.
LoadScript ==
    /\ pc = "load" /\ loaded < Len(listing)
    /\ loaded' = loaded + 1
    /\ LET e == listing[loaded + 1]
       IN  rules' = IF e.kind = "lua" THEN [rules EXCEPT ![Lower(e.name)] = e] ELSE rules
    /\ UNCHANGED <<config, pc, walk, result, rule>>

\* ruleCandidates of a name in lower case: itself, its parents, the default.
Candidates(n) == [i \in 1..(Len(n) + 1) |-> IF i <= Len(n) THEN From(n, i) ELSE Default]

\* The candidates that have a rule.
Hits(n) == {i \in DOMAIN Candidates(n) : rules[Candidates(n)[i]] # NoRule}

\* Mutant: the last candidate with a rule, not the first.
GetRuleLast(n) ==
    IF Hits(Lower(n)) = {}
      THEN NoRule
      ELSE LET i == CHOOSE i \in Hits(Lower(n)) : \A j \in Hits(Lower(n)) : j <= i
           IN  rules[Candidates(Lower(n))[i]]

\* GetRule: the rule of the first of them.
GetRule(n) ==
    IF Hits(Lower(n)) = {}
      THEN NoRule
      ELSE LET i == CHOOSE i \in Hits(Lower(n)) : \A j \in Hits(Lower(n)) : i <= j
           IN  rules[Candidates(Lower(n))[i]]

-----------------------------------------------------------------------------
(* The upstream check.                                                      *)

\* A query for n comes once the rules are there; without verification the
\* check always succeeds.
Receive(n, t) ==
    /\ pc = "load" /\ loaded = Len(listing)
    /\ qname' = n /\ qtype' = t
    /\ pc' = IF verify THEN "verify" ELSE "rule"
    /\ UNCHANGED <<config, loaded, rules, name, depth, visited, asked, result, rule>>

\* verifyUpstreamDNS returns.
Verdict(ok, a) ==
    /\ verdict' = ok /\ ip' = a
    /\ pc' = IF ok THEN "rule" ELSE "end"

\* A suspected tunnel has only its apex asked for, if it has one.
Verify(tunnel) ==
    /\ pc = "verify"
    /\ \/ /\ tunnel => Apex[qname] # NoApex
          /\ name' = IF tunnel THEN Apex[qname] ELSE qname
          /\ pc' = "resolve"
          /\ UNCHANGED <<verdict, ip>>
       \/ /\ tunnel /\ Apex[qname] = NoApex
          /\ Verdict(TRUE, NilIP)
          /\ UNCHANGED name
    /\ UNCHANGED <<config, loaded, rules, qname, qtype, depth, visited, asked, failed, rule>>

\* Mutant: the hops are not counted.
ResolveOn ==
    /\ pc = "resolve"
    /\ visited' = visited \cup {name}
    /\ \/ /\ name = <<>> \/ name \in visited
          /\ Verdict(TRUE, NilIP)
       \/ /\ name # <<>> /\ name \notin visited
          /\ pc' = "exchange"
          /\ UNCHANGED <<verdict, ip>>
    /\ UNCHANGED <<config, loaded, rules, qname, qtype, name, depth, asked, failed, rule>>

\* resolveUpstreamIP up to the exchange: the root, a name that was visited in
\* this spelling and one too far away are not asked for.
Resolve ==
    /\ pc = "resolve"
    /\ visited' = IF name = <<>> THEN visited ELSE visited \cup {name}
    /\ \/ /\ name = <<>> \/ name \in visited \/ depth > MaxCNAMEHops
          /\ Verdict(TRUE, NilIP)
       \/ /\ name # <<>> /\ name \notin visited /\ depth <= MaxCNAMEHops
          /\ pc' = "exchange"
          /\ UNCHANGED <<verdict, ip>>
    /\ UNCHANGED <<config, loaded, rules, qname, qtype, name, depth, asked, failed, rule>>

\* Mutant: every failure that upstream reports refuses the name.
ExchangeStrict ==
    /\ pc = "exchange"
    /\ asked' = Append(asked, name)
    /\ LET ans == zone[Lower(name)]
       IN  \/ /\ ans.kind \in {"nxdomain", "other"}
              /\ Verdict(FALSE, NilIP)
              /\ UNCHANGED <<name, depth>>
           \/ /\ ans.kind = "cname"
              /\ name' = ans.name
              /\ depth' = depth + 1
              /\ pc' = "resolve"
              /\ UNCHANGED <<verdict, ip>>
           \/ /\ ans.kind \in {"a", "none"}
              /\ Verdict(TRUE, IF ans.kind = "a" /\ qtype = "A" THEN Lower(name) ELSE NilIP)
              /\ UNCHANGED <<name, depth>>
    /\ UNCHANGED <<config, loaded, rules, qname, qtype, visited, failed, rule>>

\* The exchange.  A CNAME record is followed only if an address was wanted and
\* none came.  Only NXDOMAIN refuses the name.
Exchange ==
    /\ pc = "exchange"
    /\ asked' = Append(asked, name)
    /\ LET ans == zone[Lower(name)]
       IN  \/ /\ ans.kind = "nxdomain"
              /\ Verdict(FALSE, NilIP)
              /\ UNCHANGED <<name, depth>>
           \/ /\ ans.kind = "a" /\ qtype = "A"
              /\ Verdict(TRUE, Lower(name))
              /\ UNCHANGED <<name, depth>>
           \/ /\ ans.kind = "cname" /\ qtype = "A"
              /\ name' = ans.name
              /\ depth' = depth + 1
              /\ pc' = "resolve"
              /\ UNCHANGED <<verdict, ip>>
           \/ /\ ans.kind \in {"none", "other"} \/ (qtype # "A" /\ ans.kind # "nxdomain")
              /\ Verdict(TRUE, NilIP)
              /\ UNCHANGED <<name, depth>>
    /\ UNCHANGED <<config, loaded, rules, qname, qtype, visited, failed, rule>>

\* A timeout or another error: the check fails open.
ExchangeFails ==
    /\ pc = "exchange"
    /\ asked' = Append(asked, name)
    /\ Verdict(TRUE, NilIP)
    /\ failed' = TRUE
    /\ UNCHANGED <<config, loaded, rules, qname, qtype, name, depth, visited, rule>>

\* Manager.Handle looks for the rule of the name that was asked for, whatever
\* the upstream check came to.
Rule ==
    /\ pc = "rule"
    /\ rule' = GetRule(qname)
    /\ pc' = "end"
    /\ UNCHANGED <<config, loaded, rules, walk, result>>

Next ==
    \/ LoadScript
    \/ \E n \in Names, t \in {"A", "other"} : Receive(n, t)
    \/ \E tunnel \in BOOLEAN : Verify(tunnel)
    \/ Resolve \/ Exchange \/ ExchangeFails \/ Rule

Spec == Init /\ [][Next]_vars

-----------------------------------------------------------------------------
(* Properties.                                                              *)

\* The name that i CNAME records lead to from the one asked first.
Hop[i \in 0..MaxCNAMEHops] ==
    IF i = 0 THEN asked[1] ELSE zone[Lower(Hop[i - 1])].name

\* They do, with an address or a refusal at the end.
Leads(i, kind) ==
    /\ zone[Lower(Hop[i])].kind = kind
    /\ \A j \in 0..(i - 1) : zone[Lower(Hop[j])].kind = "cname"
    /\ <<>> \notin {Hop[j] : j \in 0..i}

Hops == IF qtype = "A" THEN 0..MaxCNAMEHops ELSE {0}

\* A name is refused exactly when upstream was asked, always answered, and the
\* chain of at most five CNAME records from it ends in a name that does not
\* exist; no failure, loop, long chain or missing apex refuses it.  An address
\* is that of the end of the chain (server.go:206-296).
VerdictFollowsChain ==
    /\ ~verdict => asked # <<>> /\ ~failed
    /\ pc \in {"rule", "end"} /\ asked # <<>> /\ ~failed =>
        /\ ~verdict <=> \E i \in Hops : Leads(i, "nxdomain")
        /\ ip # NilIP <=> qtype = "A" /\ \E i \in Hops : Leads(i, "a")
        /\ \A i \in Hops : qtype = "A" /\ Leads(i, "a") => ip = Lower(Hop[i])

\* Upstream is asked at most six times for one query, and for no name twice in
\* one spelling: a loop of CNAME records ends, however it is spelled.
AskedOnce ==
    /\ Len(asked) <= MaxCNAMEHops + 1
    /\ \A i, j \in 1..Len(asked) : asked[i] = asked[j] => i = j

IsParent(k, n) == Len(k) <= Len(n) /\ From(n, Len(n) - Len(k) + 1) = k

\* The scripts of the directory, and those of them that match the query: their
\* name is a parent of its own, in any spelling.
Scripts == {i \in DOMAIN listing : listing[i].kind = "lua"}
Fits(i) == Len(listing[i].name) > 0 /\ IsParent(Lower(listing[i].name), Lower(qname))

\* The rule of a query is the file that matches it with the longest name of all
\* that do, or else the default; it has one unless default.lua is a directory
\* (resolver.go:66-93).  This is the code's order and not the documentation's,
\* which announces that "if multiple scripts match a domain, the highest weight
\* wins" (OPEN-BETA.md:21): no script has a weight that the code reads.
RuleIsMostSpecific ==
    pc = "end" /\ verdict =>
        \/ \E i \in Scripts :
             /\ rule = listing[i]
             /\ Fits(i)
             /\ \A j \in Scripts : Fits(j) => Len(listing[j].name) <= Len(rule.name)
        \/ /\ \A j \in Scripts : ~Fits(j)
           /\ \E i \in Scripts : rule = listing[i] /\ Lower(rule.name) = Default
        \/ /\ \A j \in Scripts : ~Fits(j) /\ Lower(listing[j].name) # Default
           /\ rule = NoRule
=============================================================================
