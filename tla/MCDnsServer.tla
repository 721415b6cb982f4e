----------------------------- MODULE MCDnsServer -----------------------------
(* A small DnsServer: the tables cover every branch of Respond.             *)
EXTENDS DnsServer, TLC

SpoofTable(prov) ==
    [mode |-> "spoof", hasResponse |-> TRUE, rcode |-> "NOERROR", rtype |-> "A",
     provisioning |-> prov]

PlainTable(m) ==
    [mode |-> m, hasResponse |-> FALSE, rcode |-> Absent, rtype |-> Absent,
     provisioning |-> Absent]

\* Every mode, with a provisioning that an ignored name takes either way: for
\* the liveness run on one name.
MCTables ==
    {SpoofTable("dynamic")} \cup {PlainTable(m) : m \in {"proxy", "ignore", "error"}}

\* Every provisioning, a TXT record and, as default.lua answers an AAAA question,
\* a type that Bridge.Result refuses: without the ignore list, for the runs on two
\* names.
MCSpoofTables ==
    {SpoofTable(p) : p \in {Absent, "static", "dynamic", "proxy"}}
    \cup {[SpoofTable("static") EXCEPT !.rtype = t] : t \in {"TXT", "AAAA"}}

\* Handlers, names, pool addresses and Servers are interchangeable (safety runs
\* only).
MCSymmetry ==
    Permutations(Handlers) \cup Permutations(Domains) \cup Permutations(PoolIPs)
        \cup Permutations(Instances)
=============================================================================
