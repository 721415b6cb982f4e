----------------------------- MODULE Certificates -----------------------------
(***************************************************************************)
(* The root certificate on disk and the leaves that a program mints for    *)
(* TLS handshakes: src/internal/services/ca/manager.go and                 *)
(* src/internal/core/tlscert/cache.go.                                     *)
(*                                                                         *)
(* A process loads the root or, when neither file exists, makes one and    *)
(* writes its certificate and its key, one after the other.  It may die    *)
(* anywhere, and nothing keeps a second process from starting in the same  *)
(* directory.  Once up it answers handshakes, each in a goroutine.  A root *)
(* is a key pair; a file holds one, is absent (None), or was opened and    *)
(* not yet written (Partial).                                              *)
(***************************************************************************)
CONSTANTS
    Processes,  \* instances of the program in one directory
    Roots,      \* key pairs of roots; an unused one is drawn again
    Names,      \* server names as the cache spells them
    Spellings,  \* server names as clients spell them
    Canon,      \* NormalizeServerName: a name, or None for an error
    Handshakers,\* goroutines of handshakes
    Faults,     \* what may go wrong: subset of {"crash", "write", "issue"}
    None, Partial

Contents == Roots \cup {None, Partial}

\* A leaf: the name it is for, the root whose key signed it, and the root
\* certificate that is sent along.
Leaves == [name : Names, signer : Contents, chain : Contents]

ASSUME CertAssumption ==
    /\ None # Partial /\ {None, Partial} \cap Roots = {}
    /\ None \notin Names /\ None \notin Leaves
    /\ Canon \in [Spellings -> Names \cup {None}]
    /\ Faults \subseteq {"crash", "write", "issue"}

VARIABLES
    certFile, keyFile,  \* what the two files hold
    phase,      \* where each process is
    certSeen,   \* whether its Stat found the certificate
    hand,       \* the root it is writing, reading or has loaded
    cache,      \* CachingProvider.cache of each process
    hpc,        \* where each handshake is
    host,       \* the process that answers it
    asked,      \* the spelling its client sent
    leaf,       \* the leaf it has minted or was answered
    minted      \* history: which handshakers minted a leaf for a name

files == <<certFile, keyFile>>
processes == <<phase, certSeen, hand>>
handshakes == <<hpc, host, asked, leaf>>
vars == <<files, processes, cache, handshakes, minted>>

Phases == {"down", "statCert", "statKey", "openCert", "writeCert", "openKey",
           "writeKey", "readCert", "readKey", "up", "failed"}

TypeOK ==
    /\ certFile \in Contents
    /\ keyFile \in Contents
    /\ phase \in [Processes -> Phases]
    /\ certSeen \in [Processes -> BOOLEAN]
    /\ hand \in [Processes -> Contents]
    /\ cache \in [Processes -> [Names -> Leaves \cup {None}]]
    /\ hpc \in [Handshakers -> {"idle", "issue", "store"}]
    /\ host \in [Handshakers -> Processes]
    /\ asked \in [Handshakers -> Spellings]
    /\ leaf \in [Handshakers -> Leaves \cup {None}]
    /\ minted \in [Processes -> [Names -> SUBSET Handshakers]]

EmptyCache == [n \in Names |-> None]
NothingMinted == [n \in Names |-> {}]

Init ==
    /\ certFile = None
    /\ keyFile = None
    /\ phase = [p \in Processes |-> "down"]
    /\ certSeen = [p \in Processes |-> FALSE]
    /\ hand = [p \in Processes |-> None]
    /\ cache = [p \in Processes |-> EmptyCache]
    /\ hpc = [h \in Handshakers |-> "idle"]
    /\ host \in [Handshakers -> Processes]
    /\ asked \in [Handshakers -> Spellings]
    /\ leaf = [h \in Handshakers |-> None]
    /\ minted = [p \in Processes |-> NothingMinted]

-----------------------------------------------------------------------------
(* A process starts: NewManager.                                            *)

Goto(p, l) == phase' = [phase EXCEPT ![p] = l]
Take(p, r) == hand' = [hand EXCEPT ![p] = r]

\* NewManager failed: run returns and the process exits.
Fail(p) == Goto(p, "failed") /\ Take(p, None)

Launch(p) ==
    /\ phase[p] \in {"down", "failed"}
    /\ Goto(p, "statCert")
    /\ certSeen' = [certSeen EXCEPT ![p] = FALSE]
    /\ UNCHANGED <<files, hand, cache, handshakes, minted>>

StatCert(p) ==
    /\ phase[p] = "statCert"
    /\ certSeen' = [certSeen EXCEPT ![p] = certFile # None]
    /\ Goto(p, "statKey")
    /\ UNCHANGED <<files, hand, cache, handshakes, minted>>

\* Root key pairs that nobody has.
Unused == Roots \ ({certFile, keyFile} \cup {hand[p] : p \in Processes})

\* Both files: load them; neither: make a root; one of them: an error.
StatKey(p) ==
    /\ phase[p] = "statKey"
    /\ \/ /\ certSeen[p] /\ keyFile # None
          /\ Goto(p, "readCert")
          /\ UNCHANGED hand
       \/ /\ ~certSeen[p] /\ keyFile = None
          /\ \E r \in Unused : Take(p, r)
          /\ Goto(p, "openCert")
       \/ /\ certSeen[p] # (keyFile # None)
          /\ Fail(p)
    /\ UNCHANGED <<files, certSeen, cache, handshakes, minted>>

\* Mutant: an existing certificate is truncated.
OpenCertTruncating(p) ==
    /\ phase[p] = "openCert"
    /\ certFile' = Partial
    /\ Goto(p, "writeCert")
    /\ UNCHANGED <<keyFile, certSeen, hand, cache, handshakes, minted>>

\* O_CREATE|O_EXCL: the certificate file must not exist.
OpenCert(p) ==
    /\ phase[p] = "openCert"
    /\ \/ /\ certFile = None
          /\ certFile' = Partial
          /\ Goto(p, "writeCert")
          /\ UNCHANGED hand
       \/ /\ certFile # None
          /\ Fail(p)
          /\ UNCHANGED certFile
    /\ UNCHANGED <<keyFile, certSeen, cache, handshakes, minted>>

WriteCert(p) ==
    /\ phase[p] = "writeCert"
    /\ \/ /\ certFile' = hand[p]
          /\ Goto(p, "openKey")
          /\ UNCHANGED hand
       \/ /\ "write" \in Faults
          /\ Fail(p)
          /\ UNCHANGED certFile
    /\ UNCHANGED <<keyFile, certSeen, cache, handshakes, minted>>

OpenKey(p) ==
    /\ phase[p] = "openKey"
    /\ \/ /\ keyFile = None
          /\ keyFile' = Partial
          /\ Goto(p, "writeKey")
          /\ UNCHANGED hand
       \/ /\ keyFile # None
          /\ Fail(p)
          /\ UNCHANGED keyFile
    /\ UNCHANGED <<certFile, certSeen, cache, handshakes, minted>>

WriteKey(p) ==
    /\ phase[p] = "writeKey"
    /\ \/ /\ keyFile' = hand[p]
          /\ Goto(p, "readCert")
          /\ UNCHANGED hand
       \/ /\ "write" \in Faults
          /\ Fail(p)
          /\ UNCHANGED keyFile
    /\ UNCHANGED <<certFile, certSeen, cache, handshakes, minted>>

ReadCert(p) ==
    /\ phase[p] = "readCert"
    /\ Take(p, certFile)
    /\ Goto(p, "readKey")
    /\ UNCHANGED <<files, certSeen, cache, handshakes, minted>>

\* Mutant: the key is not compared with the certificate.
ReadKeyUnmatched(p) ==
    /\ phase[p] = "readKey"
    /\ Take(p, keyFile)
    /\ Goto(p, "up")
    /\ UNCHANGED <<files, certSeen, cache, handshakes, minted>>

\* X509KeyPair takes a key that parses and belongs to the certificate.
ReadKey(p) ==
    /\ phase[p] = "readKey"
    /\ \/ /\ hand[p] \in Roots /\ keyFile = hand[p]
          /\ Goto(p, "up")
          /\ UNCHANGED hand
       \/ /\ ~(hand[p] \in Roots /\ keyFile = hand[p])
          /\ Fail(p)
    /\ UNCHANGED <<files, certSeen, cache, handshakes, minted>>

\* The process is killed, or ends; its files stay as they are.
Crash(p) ==
    /\ "crash" \in Faults
    /\ phase[p] \notin {"down", "failed"}
    /\ Goto(p, "down") /\ Take(p, None)
    /\ cache' = [cache EXCEPT ![p] = EmptyCache]
    /\ minted' = [minted EXCEPT ![p] = NothingMinted]
    /\ hpc' = [h \in Handshakers |-> IF host[h] = p THEN "idle" ELSE hpc[h]]
    /\ leaf' = [h \in Handshakers |-> IF host[h] = p THEN None ELSE leaf[h]]
    /\ UNCHANGED <<files, certSeen, host, asked>>

ProcessStep(p) ==
    \/ Launch(p) \/ StatCert(p) \/ StatKey(p) \/ OpenCert(p) \/ WriteCert(p)
    \/ OpenKey(p) \/ WriteKey(p) \/ ReadCert(p) \/ ReadKey(p) \/ Crash(p)

-----------------------------------------------------------------------------
(* A handshake: CachingProvider.GetCertificate.                             *)

Ask(h, p, s) ==
    /\ hpc[h] = "idle" /\ phase[p] = "up"
    /\ host' = [host EXCEPT ![h] = p]
    /\ asked' = [asked EXCEPT ![h] = s]

\* The name of a handshake past normalisation.
NameOf(h) == Canon[asked[h]]

\* A name that cannot be normalised fails the handshake.
Refuse(h, p, s) ==
    /\ Ask(h, p, s)
    /\ Canon[s] = None
    /\ leaf' = [leaf EXCEPT ![h] = None]
    /\ UNCHANGED <<files, processes, cache, hpc, minted>>

Hit(h, p, s) ==
    /\ Ask(h, p, s)
    /\ Canon[s] # None /\ cache[p][Canon[s]] # None
    /\ leaf' = [leaf EXCEPT ![h] = cache[p][Canon[s]]]
    /\ UNCHANGED <<files, processes, cache, hpc, minted>>

Miss(h, p, s) ==
    /\ Ask(h, p, s)
    /\ Canon[s] # None /\ cache[p][Canon[s]] = None
    /\ hpc' = [hpc EXCEPT ![h] = "issue"]
    /\ leaf' = [leaf EXCEPT ![h] = None]
    /\ UNCHANGED <<files, processes, cache, minted>>

\* IssueServerCertificate signs with the root in memory and reads the root's
\* certificate from the disk; no lock is held.
Issue(h) ==
    /\ hpc[h] = "issue"
    /\ leaf' = [leaf EXCEPT ![h] =
                  [name |-> NameOf(h), signer |-> hand[host[h]], chain |-> certFile]]
    /\ hpc' = [hpc EXCEPT ![h] = "store"]
    /\ minted' = [minted EXCEPT ![host[h]][NameOf(h)] = @ \cup {h}]
    /\ UNCHANGED <<files, processes, cache, host, asked>>

IssueFails(h) ==
    /\ "issue" \in Faults
    /\ hpc[h] = "issue"
    /\ hpc' = [hpc EXCEPT ![h] = "idle"]
    /\ UNCHANGED <<files, processes, cache, host, asked, leaf, minted>>

\* Mutant: the leaf is answered and not kept.
StoreNothing(h) ==
    /\ hpc[h] = "store"
    /\ hpc' = [hpc EXCEPT ![h] = "idle"]
    /\ UNCHANGED <<files, processes, cache, host, asked, leaf, minted>>

\* The last of several handshakes that missed wins the cache.
Store(h) ==
    /\ hpc[h] = "store"
    /\ cache' = [cache EXCEPT ![host[h]][NameOf(h)] = leaf[h]]
    /\ hpc' = [hpc EXCEPT ![h] = "idle"]
    /\ UNCHANGED <<files, processes, host, asked, leaf, minted>>

HandshakeStep(h) ==
    \/ \E p \in Processes, s \in Spellings : Refuse(h, p, s) \/ Hit(h, p, s) \/ Miss(h, p, s)
    \/ Issue(h) \/ IssueFails(h) \/ Store(h)

Next ==
    \/ \E p \in Processes : ProcessStep(p)
    \/ \E h \in Handshakers : HandshakeStep(h)

Spec == Init /\ [][Next]_vars

-----------------------------------------------------------------------------
(* Properties.                                                              *)

\* Whatever processes start together and die, a certificate file and a key
\* file that are both written hold the two halves of one root.
RootPairMatches == {certFile, keyFile} \subseteq Roots => certFile = keyFile

\* A leaf that is cached or answered is for the name that its client asked
\* for, is signed by the root that is on the disk, which is the one analysts
\* install on the target, and brings that root along: in every life of every
\* process, without anyone reading the root again.
LeavesChainToRoot ==
    /\ \A p \in Processes, n \in Names : cache[p][n] # None =>
          cache[p][n] = [name |-> n, signer |-> certFile, chain |-> certFile]
    /\ \A h \in Handshakers : leaf[h] # None =>
          leaf[h] = [name |-> NameOf(h), signer |-> certFile, chain |-> certFile]

\* Concurrent handshakes may mint one leaf each for a name, but none that has
\* minted one mints another while the process lives, in any spelling: at most
\* as many leaves as handshakes that run at a time.
MintedOnce ==
    \A h \in Handshakers : hpc[h] = "issue" => h \notin minted[host[h]][NameOf(h)]
=============================================================================
