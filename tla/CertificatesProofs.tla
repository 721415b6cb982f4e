-------------------------- MODULE CertificatesProofs --------------------------
(***************************************************************************)
(* Proofs about Certificates, for any number of processes, handshakes,     *)
(* roots and names: the two files stay a pair, and every leaf chains to    *)
(* the root on the disk.                                                   *)
(***************************************************************************)
EXTENDS Certificates, TLAPS

\* What each writer of the files finds there.
Writing(p) ==
    /\ phase[p] = "openCert" => hand[p] \in Roots
    /\ phase[p] = "writeCert" => certFile = Partial /\ keyFile = None /\ hand[p] \in Roots
    /\ phase[p] = "openKey" => certFile = hand[p] /\ keyFile = None /\ hand[p] \in Roots
    /\ phase[p] = "writeKey" => certFile = hand[p] /\ keyFile = Partial /\ hand[p] \in Roots

Writers == {"writeCert", "openKey", "writeKey"}

OneWriter == \A p, q \in Processes : phase[p] \in Writers /\ phase[q] \in Writers => p = q

\* A key is never there without its certificate.
Files ==
    /\ keyFile # None => certFile \in Roots
    /\ keyFile \in Roots => certFile = keyFile

\* A process that is up has the root of the files.
Loaded == \A p \in Processes : phase[p] = "up" => hand[p] \in Roots /\ certFile = hand[p]

\* The invariant of the files.
RootInv == TypeOK /\ OneWriter /\ Files /\ Loaded /\ \A p \in Processes : Writing(p)

\* A handshake under way has a name and a process that is up.
Serving ==
    \A h \in Handshakers : hpc[h] # "idle" => NameOf(h) \in Names /\ phase[host[h]] = "up"

\* There is no leaf before there is a root.
LeavesAfterRoot ==
    /\ \A p \in Processes, n \in Names : cache[p][n] # None => certFile \in Roots
    /\ \A h \in Handshakers : leaf[h] # None => certFile \in Roots

LeafInv == RootInv /\ Serving /\ LeavesAfterRoot /\ LeavesChainToRoot

\* Whoever minted a leaf is about to store it, or some leaf has been stored.
Minters ==
    \A h \in Handshakers, p \in Processes, n \in Names : h \in minted[p][n] =>
       cache[p][n] # None \/ (hpc[h] = "store" /\ host[h] = p /\ NameOf(h) = n)

HasLeaf == \A h \in Handshakers : hpc[h] = "store" => leaf[h] # None

MintInv == TypeOK /\ Serving /\ HasLeaf /\ Minters /\ MintedOnce

-----------------------------------------------------------------------------
(* The files.                                                               *)

LEMMA RootInit == Init => RootInv
BY CertAssumption DEF Init, RootInv, TypeOK, OneWriter, Writers, Files, Loaded, Writing,
   Contents, Leaves, Phases, EmptyCache, NothingMinted

\* A process that gives up leaves nothing but its files.
GivesUp(p) ==
    /\ phase[p] # "up"
    /\ Fail(p)
    /\ UNCHANGED <<files, certSeen, cache, handshakes, minted>>

\* Steps of a process keep the types, those of its own variables first.
LEMMA OwnTypes ==
  ASSUME TypeOK, NEW p \in Processes, NEW l \in Phases, NEW r \in Contents,
         phase' = [phase EXCEPT ![p] = l],
         hand' = [hand EXCEPT ![p] = r] \/ hand' = hand,
         certFile' \in Contents, keyFile' \in Contents,
         UNCHANGED <<certSeen, cache, handshakes, minted>>
  PROVE  TypeOK'
<1>1. hand' \in [Processes -> Contents] BY DEF TypeOK
<1>2. phase' \in [Processes -> Phases] BY DEF TypeOK
<1> QED BY <1>1, <1>2 DEF TypeOK, handshakes

LEMMA GivingUp ==
  ASSUME RootInv, NEW p \in Processes, GivesUp(p)
  PROVE  RootInv'
<1>1. TypeOK' BY OwnTypes DEF RootInv, TypeOK, GivesUp, Fail, Goto, Take, Contents, Phases, files
<1> QED
  BY <1>1 DEF GivesUp, RootInv, TypeOK, Fail, Goto, Take, files, OneWriter, Writers, Files,
     Loaded, Writing

\* The steps that look at the files.
LEMMA Looking ==
  ASSUME RootInv, NEW p \in Processes,
         Launch(p) \/ StatCert(p) \/ ReadCert(p) \/ Crash(p)
  PROVE  RootInv'
<1> USE CertAssumption DEF RootInv, TypeOK, Goto, Take, Contents, Phases, files, handshakes
<1> USE DEF OneWriter, Writers, Files, Loaded, Writing
<1>1. CASE Launch(p) BY <1>1 DEF Launch
<1>2. CASE StatCert(p) BY <1>2 DEF StatCert
<1>3. CASE ReadCert(p) BY <1>3 DEF ReadCert
<1>4. CASE Crash(p) BY <1>4 DEF Crash, EmptyCache, NothingMinted
<1> QED BY <1>1, <1>2, <1>3, <1>4

\* StatKey and ReadKey decide; a failure gives up.
LEMMA Deciding ==
  ASSUME RootInv, NEW p \in Processes, StatKey(p) \/ ReadKey(p), ~GivesUp(p)
  PROVE  RootInv'
<1>0. StatKey(p) \/ (ReadKey(p) /\ Goto(p, "up"))
  BY DEF ReadKey, GivesUp
<1>1. CASE StatKey(p) /\ Goto(p, "readCert") /\ UNCHANGED hand
  <2>1. UNCHANGED <<files, certSeen, cache, handshakes, minted>> BY <1>1 DEF StatKey
  <2>2. TypeOK' BY <1>1, <2>1, OwnTypes DEF RootInv, TypeOK, Goto, Contents, Phases, files
  <2> QED BY <1>1, <2>1, <2>2 DEF RootInv, TypeOK, Goto, files, OneWriter, Writers, Files,
     Loaded, Writing
<1>2. CASE StatKey(p) /\ Goto(p, "openCert") /\ \E r \in Unused : Take(p, r)
  <2>1. UNCHANGED <<files, certSeen, cache, handshakes, minted>> BY <1>2 DEF StatKey
  <2>2. PICK r \in Roots : Take(p, r) BY <1>2 DEF Unused
  <2>3. TypeOK' BY <1>2, <2>1, <2>2, OwnTypes DEF RootInv, TypeOK, Goto, Take, Contents, Phases,
     files
  <2> QED BY <1>2, <2>1, <2>2, <2>3 DEF StatKey, RootInv, TypeOK, Goto, Take, files, OneWriter,
     Writers, Files, Loaded, Writing
<1>3. CASE ReadKey(p) /\ Goto(p, "up")
  <2>1. /\ UNCHANGED <<files, hand, certSeen, cache, handshakes, minted>>
        /\ hand[p] \in Roots /\ keyFile = hand[p]
    BY <1>3 DEF ReadKey, Fail, Goto, RootInv, TypeOK
  <2>2. TypeOK' BY <1>3, <2>1, OwnTypes DEF RootInv, TypeOK, Goto, Contents, Phases, files
  <2> QED BY <1>3, <2>1, <2>2, CertAssumption DEF RootInv, TypeOK, Goto, files, OneWriter,
     Writers, Files, Loaded, Writing
<1>4. StatKey(p) => \/ Goto(p, "readCert") /\ UNCHANGED hand
                    \/ Goto(p, "openCert") /\ \E r \in Unused : Take(p, r)
  BY DEF StatKey, GivesUp
<1> QED BY <1>0, <1>1, <1>2, <1>3, <1>4

\* The steps that write them.
LEMMA Opening ==
  ASSUME RootInv, NEW p \in Processes, OpenCert(p) \/ OpenKey(p), ~GivesUp(p)
  PROVE  RootInv'
<1>1. CASE OpenCert(p)
  <2>1. /\ phase[p] = "openCert" /\ certFile = None /\ certFile' = Partial
        /\ Goto(p, "writeCert")
        /\ UNCHANGED <<keyFile, hand, certSeen, cache, handshakes, minted>>
    BY <1>1 DEF OpenCert, GivesUp, files
  <2>2. TypeOK' BY <2>1, OwnTypes DEF RootInv, TypeOK, Goto, Contents, Phases
  <2>3. \A q \in Processes : phase[q] \notin Writers
    BY <2>1, CertAssumption DEF RootInv, Writing, Writers
  <2>4. keyFile = None /\ \A q \in Processes : phase[q] # "up"
    BY <2>1, CertAssumption DEF RootInv, Files, Loaded
  <2> QED BY <2>1, <2>2, <2>3, <2>4, CertAssumption DEF RootInv, TypeOK, Goto, OneWriter,
     Writers, Files, Loaded, Writing
<1>2. CASE OpenKey(p)
  <2>1. /\ phase[p] = "openKey" /\ keyFile = None /\ keyFile' = Partial
        /\ Goto(p, "writeKey")
        /\ UNCHANGED <<certFile, hand, certSeen, cache, handshakes, minted>>
    BY <1>2 DEF OpenKey, GivesUp, files
  <2>2. TypeOK' BY <2>1, OwnTypes DEF RootInv, TypeOK, Goto, Contents, Phases
  <2>3. \A q \in Processes : phase[q] \in Writers => q = p
    BY <2>1 DEF RootInv, OneWriter, Writers
  <2> QED BY <2>1, <2>2, <2>3, CertAssumption DEF RootInv, TypeOK, Goto, OneWriter,
     Writers, Files, Loaded, Writing
<1> QED BY <1>1, <1>2

LEMMA Filling ==
  ASSUME RootInv, NEW p \in Processes, WriteCert(p) \/ WriteKey(p), ~GivesUp(p)
  PROVE  RootInv'
<1>1. CASE WriteCert(p)
  <2>1. /\ phase[p] = "writeCert" /\ certFile' = hand[p]
        /\ Goto(p, "openKey")
        /\ UNCHANGED <<keyFile, hand, certSeen, cache, handshakes, minted>>
    BY <1>1 DEF WriteCert, GivesUp, files
  <2>2. certFile = Partial /\ keyFile = None /\ hand[p] \in Roots
    BY <2>1 DEF RootInv, Writing
  <2>3. TypeOK' BY <2>1, OwnTypes DEF RootInv, TypeOK, Goto, Contents, Phases
  <2>4. \A q \in Processes : phase[q] \in Writers => q = p
    BY <2>1 DEF RootInv, OneWriter, Writers
  <2>5. \A q \in Processes : phase[q] # "up"
    BY <2>2, CertAssumption DEF RootInv, Loaded
  <2> QED BY <2>1, <2>2, <2>3, <2>4, <2>5, CertAssumption DEF RootInv, TypeOK, Goto, OneWriter,
     Writers, Files, Loaded, Writing
<1>2. CASE WriteKey(p)
  <2>1. /\ phase[p] = "writeKey" /\ keyFile' = hand[p]
        /\ Goto(p, "readCert")
        /\ UNCHANGED <<certFile, hand, certSeen, cache, handshakes, minted>>
    BY <1>2 DEF WriteKey, GivesUp, files
  <2>2. certFile = hand[p] /\ hand[p] \in Roots
    BY <2>1 DEF RootInv, Writing
  <2>3. TypeOK' BY <2>1, OwnTypes DEF RootInv, TypeOK, Goto, Contents, Phases
  <2>4. \A q \in Processes : phase[q] \in Writers => q = p
    BY <2>1 DEF RootInv, OneWriter, Writers
  <2> QED BY <2>1, <2>2, <2>3, <2>4, CertAssumption DEF RootInv, TypeOK, Goto, OneWriter,
     Writers, Files, Loaded, Writing
<1> QED BY <1>1, <1>2

LEMMA ProcessRoot ==
  ASSUME RootInv, NEW p \in Processes, ProcessStep(p)
  PROVE  RootInv'
BY GivingUp, Looking, Deciding, Opening, Filling DEF ProcessStep

\* A handshake touches no file, and issues what its types allow.
LEMMA HandshakeRoot ==
  ASSUME RootInv, NEW h \in Handshakers, HandshakeStep(h), Serving
  PROVE  RootInv' /\ UNCHANGED <<files, processes>>
<1>1. UNCHANGED <<files, processes>>
  BY DEF HandshakeStep, Refuse, Hit, Miss, Issue, IssueFails, Store
<1>2. /\ certFile' \in Contents /\ keyFile' \in Contents
      /\ phase' \in [Processes -> Phases] /\ certSeen' \in [Processes -> BOOLEAN]
      /\ hand' \in [Processes -> Contents]
  BY <1>1 DEF RootInv, TypeOK, files, processes
<1>3. /\ cache' \in [Processes -> [Names -> Leaves \cup {None}]]
      /\ hpc' \in [Handshakers -> {"idle", "issue", "store"}]
      /\ host' \in [Handshakers -> Processes]
      /\ asked' \in [Handshakers -> Spellings]
      /\ leaf' \in [Handshakers -> Leaves \cup {None}]
      /\ minted' \in [Processes -> [Names -> SUBSET Handshakers]]
  <2> USE DEF RootInv, TypeOK
  <2>1. ASSUME NEW p \in Processes, NEW s \in Spellings, Refuse(h, p, s) PROVE <1>3!:
    BY <2>1 DEF Refuse, Ask
  <2>2. ASSUME NEW p \in Processes, NEW s \in Spellings, Hit(h, p, s) PROVE <1>3!:
    <3>1. Canon[s] \in Names BY <2>2, CertAssumption DEF Hit
    <3> QED BY <2>2, <3>1 DEF Hit, Ask
  <2>3. ASSUME NEW p \in Processes, NEW s \in Spellings, Miss(h, p, s) PROVE <1>3!:
    BY <2>3 DEF Miss, Ask
  <2>4. CASE Issue(h)
    <3>1. NameOf(h) \in Names /\ hand[host[h]] \in Contents
      BY <2>4 DEF Issue, Serving
    <3>2. [name |-> NameOf(h), signer |-> hand[host[h]], chain |-> certFile] \in Leaves
      BY <3>1 DEF Leaves
    <3> QED BY <2>4, <3>1, <3>2 DEF Issue
  <2>5. CASE IssueFails(h) BY <2>5 DEF IssueFails
  <2>6. CASE Store(h) BY <2>6 DEF Store
  <2> QED BY <2>1, <2>2, <2>3, <2>4, <2>5, <2>6 DEF HandshakeStep
<1>4. TypeOK' BY <1>2, <1>3 DEF TypeOK
<1> QED
  BY <1>1, <1>4 DEF RootInv, files, processes, OneWriter, Writers, Files, Loaded, Writing

-----------------------------------------------------------------------------
(* The leaves.                                                              *)

LEMMA LeafInit == Init => LeafInv
<1> SUFFICES ASSUME Init PROVE LeafInv OBVIOUS
<1>1. RootInv BY RootInit
<1> QED BY <1>1 DEF Init, LeafInv, Serving, LeavesAfterRoot, LeavesChainToRoot, EmptyCache

\* The certificate is written before anybody has a leaf, and never again.
LEMMA CertKept ==
  ASSUME RootInv, NEW p \in Processes, ProcessStep(p), certFile \in Roots
  PROVE  certFile' = certFile
BY CertAssumption DEF RootInv, Writing, ProcessStep, Launch, StatCert, StatKey, OpenCert,
   WriteCert, OpenKey, WriteKey, ReadCert, ReadKey, Crash, files

\* A process changes the cache and the handshakes when it dies, and only then
\* does it stop being up.
LEMMA ProcessLeaves ==
  ASSUME RootInv, NEW p \in Processes, ProcessStep(p)
  PROVE  \/ /\ UNCHANGED <<cache, handshakes, minted>>
            /\ \A q \in Processes : phase[q] = "up" => phase'[q] = "up"
         \/ Crash(p)
BY DEF RootInv, TypeOK, ProcessStep, Launch, StatCert, StatKey, OpenCert, WriteCert, OpenKey,
   WriteKey, ReadCert, ReadKey, Goto, Fail

LEMMA ServingKept ==
  ASSUME TypeOK, Serving, [Next]_vars, RootInv
  PROVE  Serving'
<1>1. ASSUME NEW p \in Processes, ProcessStep(p) PROVE Serving'
  <2>1. CASE /\ UNCHANGED <<cache, handshakes, minted>>
             /\ \A q \in Processes : phase[q] = "up" => phase'[q] = "up"
    BY <2>1 DEF Serving, handshakes, NameOf, TypeOK
  <2>2. CASE Crash(p)
    BY <2>2 DEF Crash, Goto, Serving, NameOf, TypeOK
  <2> QED BY <1>1, <2>1, <2>2, ProcessLeaves
<1>2. ASSUME NEW h \in Handshakers, HandshakeStep(h) PROVE Serving'
  <2> USE CertAssumption DEF Serving, TypeOK, NameOf, processes
  <2>1. ASSUME NEW p \in Processes, NEW s \in Spellings, Refuse(h, p, s) PROVE Serving'
    BY <2>1 DEF Refuse, Ask
  <2>2. ASSUME NEW p \in Processes, NEW s \in Spellings, Hit(h, p, s) PROVE Serving'
    BY <2>2 DEF Hit, Ask
  <2>3. ASSUME NEW p \in Processes, NEW s \in Spellings, Miss(h, p, s) PROVE Serving'
    BY <2>3 DEF Miss, Ask
  <2>4. CASE Issue(h) BY <2>4 DEF Issue
  <2>5. CASE IssueFails(h) BY <2>5 DEF IssueFails
  <2>6. CASE Store(h) BY <2>6 DEF Store
  <2> QED BY <1>2, <2>1, <2>2, <2>3, <2>4, <2>5, <2>6 DEF HandshakeStep
<1>3. CASE UNCHANGED vars
  BY <1>3 DEF vars, processes, handshakes, Serving, NameOf
<1> QED BY <1>1, <1>2, <1>3 DEF Next

LEMMA RootKept == ASSUME RootInv, Serving, [Next]_vars PROVE RootInv'
<1>1. CASE UNCHANGED vars
  BY <1>1 DEF vars, files, processes, handshakes, RootInv, TypeOK, OneWriter, Files, Loaded,
     Writing
<1> QED BY <1>1, ProcessRoot, HandshakeRoot DEF Next

LEMMA LeavesKept ==
  ASSUME LeafInv, [Next]_vars
  PROVE  (LeavesAfterRoot /\ LeavesChainToRoot)'
<1> USE DEF LeafInv, LeavesAfterRoot, LeavesChainToRoot
<1>t. TypeOK /\ RootInv BY DEF RootInv
<1>1. ASSUME NEW p \in Processes, ProcessStep(p)
      PROVE (LeavesAfterRoot /\ LeavesChainToRoot)'
  <2>0. certFile \in Roots => certFile' = certFile BY <1>1, CertKept
  <2>1. CASE UNCHANGED <<cache, handshakes, minted>>
    BY <2>0, <2>1 DEF handshakes, NameOf
  <2>2. CASE Crash(p)
    <3>1. \A q \in Processes, n \in Names : cache'[q][n] \in {None, cache[q][n]}
      BY <1>t, <2>2 DEF Crash, EmptyCache, TypeOK
    <3>2. \A h \in Handshakers : leaf'[h] \in {None, leaf[h]}
      BY <2>2 DEF Crash
    <3>3. UNCHANGED asked BY <2>2 DEF Crash
    <3> QED BY <2>0, <3>1, <3>2, <3>3 DEF NameOf
  <2> QED BY <1>1, <2>1, <2>2, ProcessLeaves
<1>2. ASSUME NEW h \in Handshakers, HandshakeStep(h)
      PROVE (LeavesAfterRoot /\ LeavesChainToRoot)'
  <2>0. certFile' = certFile BY <1>2, HandshakeRoot DEF files
  <2> USE <1>t DEF TypeOK, NameOf
  <2>1. ASSUME NEW p \in Processes, NEW s \in Spellings, Refuse(h, p, s)
        PROVE (LeavesAfterRoot /\ LeavesChainToRoot)'
    BY <2>0, <2>1 DEF Refuse, Ask
  <2>2. ASSUME NEW p \in Processes, NEW s \in Spellings, Hit(h, p, s)
        PROVE (LeavesAfterRoot /\ LeavesChainToRoot)'
    <3>1. Canon[s] \in Names BY <2>2, CertAssumption DEF Hit
    <3> QED BY <2>0, <2>2, <3>1 DEF Hit, Ask
  <2>3. ASSUME NEW p \in Processes, NEW s \in Spellings, Miss(h, p, s)
        PROVE (LeavesAfterRoot /\ LeavesChainToRoot)'
    BY <2>0, <2>3 DEF Miss, Ask
  <2>4. CASE Issue(h)
    <3>1. hand[host[h]] = certFile /\ certFile \in Roots
      BY <2>4 DEF Issue, Serving, RootInv, Loaded
    <3> QED BY <2>0, <2>4, <3>1 DEF Issue
  <2>5. CASE IssueFails(h) BY <2>0, <2>5 DEF IssueFails
  <2>6. CASE Store(h)
    <3>1. NameOf(h) \in Names BY <2>6 DEF Store, Serving
    <3> QED BY <2>0, <2>6, <3>1 DEF Store
  <2> QED BY <1>2, <2>1, <2>2, <2>3, <2>4, <2>5, <2>6 DEF HandshakeStep
<1>3. CASE UNCHANGED vars
  BY <1>3 DEF vars, files, handshakes, NameOf
<1> QED BY <1>1, <1>2, <1>3 DEF Next

LEMMA LeafInvariance == Spec => []LeafInv
<1>1. LeafInv /\ [Next]_vars => LeafInv'
  BY RootKept, ServingKept, LeavesKept DEF LeafInv, RootInv
<1> QED BY <1>1, LeafInit, PTL DEF Spec

\* Every variable keeps its type.
THEOREM TypeCorrect == Spec => []TypeOK
<1>1. LeafInv => TypeOK BY DEF LeafInv, RootInv
<1> QED BY <1>1, LeafInvariance, PTL

\* The two files hold the halves of one root, whatever processes start
\* together, fail to write and die (ca/manager.go:58 to 132).
THEOREM RootsPaired == Spec => []RootPairMatches
<1>1. LeafInv => RootPairMatches
  BY DEF LeafInv, RootInv, Files, RootPairMatches
<1> QED BY <1>1, LeafInvariance, PTL

\* Every leaf in a cache or in a handshake is for its name and chains to the
\* root on the disk (tlscert/cache.go:39, ca/manager.go:171).
THEOREM LeavesChained == Spec => []LeavesChainToRoot
<1>1. LeafInv => LeavesChainToRoot BY DEF LeafInv
<1> QED BY <1>1, LeafInvariance, PTL

-----------------------------------------------------------------------------
(* Minting.                                                                 *)

LEMMA MintInit == Init => MintInv
<1> SUFFICES ASSUME Init PROVE MintInv OBVIOUS
<1>1. TypeOK BY RootInit DEF RootInv
<1> QED BY <1>1 DEF Init, MintInv, Serving, HasLeaf, Minters, MintedOnce, NothingMinted

\* A life that ends takes the cache, the mints and the handshakes together.
LEMMA MintProcess ==
  ASSUME MintInv, RootInv, NEW p \in Processes, ProcessStep(p)
  PROVE  (HasLeaf /\ Minters /\ MintedOnce)'
<1>1. CASE UNCHANGED <<cache, handshakes, minted>>
  BY <1>1 DEF MintInv, handshakes, NameOf, HasLeaf, Minters, MintedOnce
<1>2. CASE Crash(p)
  <2>1. \A h \in Handshakers : hpc'[h] # "idle" => host[h] # p /\ hpc'[h] = hpc[h]
    BY <1>2 DEF Crash
  <2>2. \A h \in Handshakers : host[h] # p => hpc'[h] = hpc[h] /\ leaf'[h] = leaf[h]
    BY <1>2 DEF Crash
  <2>3. \A n \in Names : minted'[p][n] = {}
    BY <1>2 DEF Crash, MintInv, TypeOK, NothingMinted
  <2>4. \A q \in Processes : q # p => cache'[q] = cache[q] /\ minted'[q] = minted[q]
    BY <1>2 DEF Crash, MintInv, TypeOK
  <2>5. UNCHANGED <<host, asked>> BY <1>2 DEF Crash
  <2>6. HasLeaf' BY <2>1, <2>2 DEF MintInv, HasLeaf
  <2>7. Minters' BY <2>2, <2>3, <2>4, <2>5 DEF MintInv, Minters, NameOf
  <2>8. MintedOnce'
    BY <2>1, <2>4, <2>5 DEF MintInv, MintedOnce, NameOf, TypeOK
  <2> QED BY <2>6, <2>7, <2>8
<1> QED BY <1>1, <1>2, ProcessLeaves

\* Only the handshaker that mints joins the minters, and what it stores stays.
LEMMA MintHandshake ==
  ASSUME MintInv, NEW h \in Handshakers, HandshakeStep(h)
  PROVE  (HasLeaf /\ Minters /\ MintedOnce)'
<1> USE CertAssumption DEF MintInv, TypeOK, NameOf, HasLeaf, Minters, MintedOnce
<1>1. ASSUME NEW p \in Processes, NEW s \in Spellings, Refuse(h, p, s)
      PROVE (HasLeaf /\ Minters /\ MintedOnce)'
  BY <1>1 DEF Refuse, Ask
<1>2. ASSUME NEW p \in Processes, NEW s \in Spellings, Hit(h, p, s)
      PROVE (HasLeaf /\ Minters /\ MintedOnce)'
  BY <1>2 DEF Hit, Ask
<1>3. ASSUME NEW p \in Processes, NEW s \in Spellings, Miss(h, p, s)
      PROVE (HasLeaf /\ Minters /\ MintedOnce)'
  <2>1. Canon[s] \in Names /\ h \notin minted[p][Canon[s]]
    BY <1>3 DEF Miss, Ask
  <2> QED BY <1>3, <2>1 DEF Miss, Ask
<1>4. CASE Issue(h)
  <2>1. NameOf(h) \in Names BY <1>4 DEF Issue, Serving
  <2>2. leaf'[h] # None
    <3>1. hand[host[h]] \in Contents /\ certFile \in Contents OBVIOUS
    <3>2. [name |-> NameOf(h), signer |-> hand[host[h]], chain |-> certFile] \in Leaves
      BY <2>1, <3>1 DEF Leaves
    <3> QED BY <1>4, <3>2 DEF Issue
  <2> QED BY <1>4, <2>1, <2>2 DEF Issue
<1>5. CASE IssueFails(h) BY <1>5 DEF IssueFails
<1>6. CASE Store(h)
  <2>1. NameOf(h) \in Names BY <1>6 DEF Store, Serving
  <2> QED BY <1>6, <2>1 DEF Store
<1> QED BY <1>1, <1>2, <1>3, <1>4, <1>5, <1>6 DEF HandshakeStep

\* A handshaker that has minted a leaf for a name mints no other for it while
\* the process lives (tlscert/cache.go:45 to 63).
THEOREM LeavesMintedOnce == Spec => []MintedOnce
<1>1. MintInv /\ LeafInv /\ [Next]_vars => MintInv'
  <2> SUFFICES ASSUME MintInv, LeafInv, [Next]_vars PROVE MintInv' OBVIOUS
  <2>1. (TypeOK /\ Serving)' BY RootKept, ServingKept DEF LeafInv, RootInv
  <2>2. CASE UNCHANGED vars
    BY <2>1, <2>2 DEF vars, handshakes, MintInv, NameOf, HasLeaf, Minters, MintedOnce
  <2> QED BY <2>1, <2>2, MintProcess, MintHandshake DEF MintInv, LeafInv, Next
<1>2. MintInv => MintedOnce BY DEF MintInv
<1> QED BY <1>1, <1>2, MintInit, LeafInvariance, PTL DEF Spec
=============================================================================
