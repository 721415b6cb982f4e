--------------------------- MODULE WebCaptureProofs ---------------------------
(***************************************************************************)
(* Proofs about WebCapture, for any bodies, limits and number of requests: *)
(* no race leaves a torn file, and what is answered is captured.           *)
(***************************************************************************)
EXTENDS WebCapture, SequenceTheorems, TLAPS

-----------------------------------------------------------------------------
(* Prefixes.                                                                *)

\* A prefix is a sequence as long as it says.
LEMMA PrefixLength ==
  ASSUME NEW S, NEW b \in Seq(S), NEW n \in 0..Len(b)
  PROVE  SubSeq(b, 1, n) \in Seq(S) /\ Len(SubSeq(b, 1, n)) = n
<1>1. \A i \in 1..n : b[i] \in S OBVIOUS
<1> QED BY <1>1, SubSeqProperties

\* A prefix of a prefix is one.
LEMMA PrefixOfPrefix ==
  ASSUME NEW S, NEW b \in Seq(S), NEW n \in 0..Len(b), NEW m \in 0..n
  PROVE  SubSeq(SubSeq(b, 1, n), 1, m) = SubSeq(b, 1, m)
<1>1. CASE m = 0
  <2>1. SubSeq(SubSeq(b, 1, n), 1, 0) = <<>> BY SubSeqEmpty
  <2>2. SubSeq(b, 1, 0) = <<>> BY SubSeqEmpty
  <2> QED BY <1>1, <2>1, <2>2
<1>2. CASE m # 0
  <2>1. 1 \in 1..Len(b) /\ n \in 1..Len(b) /\ 1 \in 1..(n - 1 + 1) /\ m \in 1..(n - 1 + 1)
    BY <1>2
  <2>2. SubSeq(SubSeq(b, 1, n), 1, m) = SubSeq(b, 1 + 1 - 1, 1 + m - 1)
    BY <2>1, SubSeqOfSubSeq
  <2> QED BY <2>2
<1> QED BY <1>1, <1>2

\* What is a prefix, and what is data.
LEMMA PrefixIs ==
  ASSUME NEW b, NEW d
  PROVE  d \in Prefixes(b) <=> \E n \in 0..Len(b) : d = SubSeq(b, 1, n)
BY DEF Prefixes

LEMMA DataIs ==
  ASSUME NEW d
  PROVE  d \in Data <=> d = <<>> \/ \E b \in Bodies : d \in Prefixes(b)
<1> DEFINE U == UNION {Prefixes(b) : b \in Bodies}
<1>1. d \in U <=> \E b \in Bodies : d \in Prefixes(b) OBVIOUS
<1>2. Data = {<<>>} \cup U BY DEF Data
<1> HIDE DEF U
<1> QED BY <1>1, <1>2

\* Data are sequences, with the prefixes of the bodies and of each other.
LEMMA DataClosed ==
  /\ Data \subseteq Seq(Chunks)
  /\ \A b \in Bodies : \A n \in 0..Len(b) : SubSeq(b, 1, n) \in Data
  /\ \A d \in Data : \A n \in 0..Len(d) : SubSeq(d, 1, n) \in Data
<1>1. ASSUME NEW b \in Bodies, NEW n \in 0..Len(b)
      PROVE  SubSeq(b, 1, n) \in Data /\ SubSeq(b, 1, n) \in Seq(Chunks)
  <2>1. b \in Seq(Chunks) BY WebAssumption
  <2>2. SubSeq(b, 1, n) \in Seq(Chunks) BY <2>1, PrefixLength
  <2> QED BY <2>2, PrefixIs, DataIs
<1>2. Data \subseteq Seq(Chunks)
  <2>1. <<>> \in Seq(Chunks) OBVIOUS
  <2>2. SUFFICES ASSUME NEW d \in Data PROVE d \in Seq(Chunks) OBVIOUS
  <2>3. CASE \E b \in Bodies : d \in Prefixes(b) BY <1>1, <2>3, PrefixIs
  <2> QED BY <2>1, <2>3, DataIs
<1>3. ASSUME NEW d \in Data, NEW n \in 0..Len(d)
      PROVE  SubSeq(d, 1, n) \in Data
  <2>1. CASE d = <<>>
    <3>1. n = 0 BY <2>1
    <3>2. SubSeq(d, 1, n) = <<>> BY <3>1, SubSeqEmpty
    <3> QED BY <3>2, DataIs
  <2>2. CASE d # <<>>
    <3>0. PICK b \in Bodies : d \in Prefixes(b) BY <2>2, DataIs
    <3>1. PICK k \in 0..Len(b) : d = SubSeq(b, 1, k) BY <3>0, PrefixIs
    <3>2. b \in Seq(Chunks) BY WebAssumption
    <3>3. Len(d) = k BY <3>1, <3>2, PrefixLength
    <3>4. SubSeq(d, 1, n) = SubSeq(b, 1, n) BY <3>1, <3>2, <3>3, PrefixOfPrefix
    <3>5. n \in 0..Len(b) BY <3>2, <3>3
    <3> QED BY <1>1, <3>4, <3>5
  <2> QED BY <2>1, <2>2
<1> QED BY <1>1, <1>2, <1>3

\* The limit keeps data data, and cuts a whole read to what may be kept.
LEMMA LimitKeeps ==
  ASSUME max \in Limits, max >= 0, NEW d \in Data
  PROVE  /\ Limit(d) \in Data
         /\ \A b \in Bodies :
              d = SubSeq(b, 1, Smaller(Len(b), max + 1)) => Limit(d) = Kept(b)
<1> USE WebAssumption
<1>1. d \in Seq(Chunks) /\ Len(d) \in Nat BY DataClosed
<1>2. Limit(d) \in Data BY <1>1, DataClosed DEF Limit
<1>3. ASSUME NEW b \in Bodies, d = SubSeq(b, 1, Smaller(Len(b), max + 1))
      PROVE  Limit(d) = Kept(b)
  <2>1. b \in Seq(Chunks) /\ Len(b) \in Nat OBVIOUS
  <2>2. CASE Len(b) <= max
    <3>1. Smaller(Len(b), max + 1) = Len(b) /\ Smaller(Len(b), max) = Len(b)
      BY <2>1, <2>2 DEF Smaller
    <3>2. Len(d) = Len(b) BY <1>3, <2>1, <3>1, PrefixLength
    <3> QED BY <1>3, <2>1, <2>2, <3>1, <3>2 DEF Limit, Kept
  <2>3. CASE Len(b) > max
    <3>1. Smaller(Len(b), max + 1) = max + 1 /\ Smaller(Len(b), max) = max
      BY <2>1, <2>3 DEF Smaller
    <3>2. max + 1 \in 0..Len(b) /\ max \in 0..(max + 1) BY <2>1, <2>3
    <3>3. Len(d) = max + 1 BY <1>3, <2>1, <3>1, <3>2, PrefixLength
    <3>4. SubSeq(d, 1, max) = SubSeq(b, 1, max) BY <1>3, <2>1, <3>1, <3>2, PrefixOfPrefix
    <3> QED BY <3>1, <3>3, <3>4 DEF Limit, Kept
  <2> QED BY <2>1, <2>2, <2>3
<1> QED BY <1>2, <1>3

-----------------------------------------------------------------------------
(* The invariant.                                                           *)

\* A handler at the disk has a capture, a limit that is not negative, and a
\* file when it writes.
AtDisk(h) ==
    /\ pc[h] \in {"stat", "open", "write"} => max >= 0 /\ data[h] \in Captures
    /\ pc[h] = "write" => files[data[h]] # NoFile

\* A read without an error has all that the limit lets it read, and then keep.
ReadWhole(h) ==
    /\ pc[h] = "limit" /\ whole[h] /\ max >= 0 =>
         data[h] = SubSeq(body[h], 1, Smaller(Len(body[h]), max + 1))
    /\ pc[h] \in {"stat", "open", "write", "reply"} /\ whole[h] => data[h] = Kept(body[h])

\* A handler has a body, and when it replies its capture has a file that is
\* whole, is being written, or was spoiled, unless it failed.
Replies(h) ==
    /\ pc[h] # "idle" => body[h] \in Bodies
    /\ pc[h] = "reply" /\ ~failed[h] /\ data[h] # <<>> =>
         files[data[h]] = data[h] \/ data[h] \in Writing \cup spoiled

HandlerInv(h) == AtDisk(h) /\ ReadWhole(h) /\ Replies(h)

CaptureInv ==
    /\ TypeOK /\ FileIsCapture /\ AnsweredIsCaptured
    /\ \A h \in Handlers : HandlerInv(h)

\* Every capture of n that is whole, being written or spoiled.
Safe(n) == files[n] = n \/ n \in Writing \cup spoiled

LEMMA InvInit == Init => CaptureInv
<1> SUFFICES ASSUME Init PROVE CaptureInv OBVIOUS
<1>1. <<>> \in Data /\ NoFile \notin Data BY WebAssumption, DataIs
<1>2. TypeOK BY <1>1, WebAssumption DEF Init, TypeOK, PCs, Captures
<1> QED BY <1>2 DEF Init, CaptureInv, FileIsCapture, AnsweredIsCaptured, HandlerInv, AtDisk,
     ReadWhole, Replies, Captures

\* Steps that leave the files, the writers and the answers alone.
LEMMA QuietStep ==
  ASSUME CaptureInv, TypeOK', UNCHANGED <<files, answered, max>>, Writing' = Writing,
         spoiled' = spoiled, NEW h \in Handlers, HandlerInv(h)',
         \A g \in Handlers \ {h} : /\ pc'[g] = pc[g] /\ body'[g] = body[g]
                                   /\ whole'[g] = whole[g] /\ data'[g] = data[g]
                                   /\ failed'[g] = failed[g]
  PROVE  CaptureInv'
<1>1. ASSUME NEW g \in Handlers \ {h} PROVE HandlerInv(g)'
  BY <1>1 DEF CaptureInv, HandlerInv, AtDisk, ReadWhole, Replies, Kept, Smaller
<1>2. FileIsCapture' /\ AnsweredIsCaptured'
  BY DEF CaptureInv, FileIsCapture, AnsweredIsCaptured
<1> QED BY <1>1, <1>2 DEF CaptureInv

LEMMA PostStep ==
  ASSUME CaptureInv, NEW h \in Handlers, NEW b \in Bodies, Post(h, b)
  PROVE  CaptureInv'
<1>1. TypeOK' BY WebAssumption DEF CaptureInv, TypeOK, Post, Goto, PCs
<1>2. Writing' = Writing BY DEF CaptureInv, TypeOK, Post, Goto, Writing
<1>3. HandlerInv(h)'
  BY DEF CaptureInv, TypeOK, Post, Goto, HandlerInv, AtDisk, ReadWhole, Replies
<1> QED BY <1>1, <1>2, <1>3, QuietStep DEF CaptureInv, TypeOK, Post, Goto

LEMMA ReadStep ==
  ASSUME CaptureInv, NEW h \in Handlers, Read(h)
  PROVE  CaptureInv'
<1> DEFINE most == IF max + 1 <= 0 THEN 0 ELSE Smaller(Len(body[h]), max + 1)
<1>0. /\ pc[h] = "read" /\ body[h] \in Bodies /\ body[h] \in Seq(Chunks)
      /\ max \in Int /\ Len(body[h]) \in Nat
  BY WebAssumption DEF CaptureInv, TypeOK, Read, HandlerInv, Replies
<1>1. most \in 0..Len(body[h]) BY <1>0 DEF Smaller
<1>2. PICK n \in 0..most : /\ data' = [data EXCEPT ![h] = SubSeq(body[h], 1, n)]
                           /\ whole' = [whole EXCEPT ![h] = n = most]
  BY DEF Read
<1>3. SubSeq(body[h], 1, n) \in Data
  <2>1. n \in 0..Len(body[h]) BY <1>0, <1>1
  <2> QED BY <1>0, <2>1, DataClosed
<1>4. TypeOK' BY <1>2, <1>3 DEF CaptureInv, TypeOK, Read, Goto, PCs
<1>5. Writing' = Writing
  <2>1. \A g \in Handlers : pc'[g] = "write" <=> pc[g] = "write"
    BY DEF CaptureInv, TypeOK, Read, Goto
  <2>2. \A g \in Handlers : pc[g] = "write" => data'[g] = data[g]
    BY <1>0, <1>2 DEF CaptureInv, TypeOK
  <2> QED BY <2>1, <2>2 DEF Writing
<1>6. HandlerInv(h)'
  <2>1. /\ pc'[h] = "limit" /\ body'[h] = body[h] /\ max' = max
        /\ data'[h] = SubSeq(body[h], 1, n) /\ (whole'[h] <=> n = most)
    BY <1>2 DEF CaptureInv, TypeOK, Read, Goto
  <2>2. max >= 0 => most = Smaller(Len(body[h]), max + 1) BY <1>0
  <2> HIDE DEF most
  <2>3. whole'[h] /\ max >= 0 =>
          SubSeq(body[h], 1, n) = SubSeq(body[h], 1, Smaller(Len(body[h]), max + 1))
    BY <2>1, <2>2
  <2>4. ReadWhole(h)' BY <2>1, <2>3 DEF ReadWhole, Smaller
  <2> QED BY <1>0, <2>1, <2>4 DEF HandlerInv, AtDisk, Replies
<1> QED BY <1>2, <1>4, <1>5, <1>6, QuietStep DEF CaptureInv, TypeOK, Read, Goto

LEMMA CutStep ==
  ASSUME CaptureInv, NEW h \in Handlers, Cut(h)
  PROVE  CaptureInv'
<1>0. max \in Limits /\ max \in Int /\ data[h] \in Data /\ body[h] \in Bodies /\ <<>> \in Data
  BY WebAssumption, DataIs DEF CaptureInv, TypeOK, Cut, HandlerInv, Replies
<1>1. CASE max < 0
  <2>1. /\ pc[h] = "limit" /\ Return(h)
        /\ UNCHANGED <<posts, max, files, spoiled, answered>>
    BY <1>0, <1>1 DEF Cut
  <2>2. TypeOK' BY <1>0, <2>1 DEF CaptureInv, TypeOK, Return, Goto, PCs
  <2>3. Writing' = Writing BY <2>1 DEF CaptureInv, TypeOK, Return, Goto, Writing
  <2>4. HandlerInv(h)' BY <2>1 DEF CaptureInv, TypeOK, Return, Goto, HandlerInv, AtDisk,
     ReadWhole, Replies
  <2> QED BY <2>1, <2>2, <2>3, <2>4, QuietStep DEF CaptureInv, TypeOK, Return, Goto
<1>2. CASE max >= 0
  <2>1. /\ pc[h] = "limit" /\ UNCHANGED <<posts, max, files, spoiled, answered, body, whole, failed>>
        /\ data' = [data EXCEPT ![h] = Limit(data[h])]
        /\ Goto(h, IF Limit(data[h]) = <<>> THEN "reply" ELSE "stat")
    BY <1>0, <1>2 DEF Cut
  <2>2. /\ Limit(data[h]) \in Data
        /\ data[h] = SubSeq(body[h], 1, Smaller(Len(body[h]), max + 1))
             => Limit(data[h]) = Kept(body[h])
    BY <1>0, <1>2, LimitKeeps
  <2>3. TypeOK' BY <2>1, <2>2 DEF CaptureInv, TypeOK, Goto, PCs
  <2>4. Writing' = Writing
    <3>1. \A g \in Handlers : pc'[g] = "write" <=> pc[g] = "write"
      BY <2>1 DEF CaptureInv, TypeOK, Goto
    <3>2. \A g \in Handlers : pc[g] = "write" => data'[g] = data[g]
      BY <2>1 DEF CaptureInv, TypeOK
    <3> QED BY <3>1, <3>2 DEF Writing
  <2>5. HandlerInv(h)'
    <3>1. /\ data'[h] = Limit(data[h]) /\ body'[h] = body[h] /\ whole'[h] = whole[h]
          /\ pc'[h] = IF Limit(data[h]) = <<>> THEN "reply" ELSE "stat"
          /\ Kept(body[h])' = Kept(body[h])
      BY <2>1 DEF CaptureInv, TypeOK, Goto, Kept, Smaller
    <3>2. AtDisk(h)' BY <1>2, <2>1, <2>2, <3>1 DEF AtDisk, Captures
    <3>3. whole[h] => Limit(data[h]) = Kept(body[h])
      BY <1>2, <2>1, <2>2 DEF CaptureInv, HandlerInv, ReadWhole
    <3>4. ReadWhole(h)' BY <3>1, <3>3 DEF ReadWhole
    <3>5. Replies(h)' BY <1>0, <3>1 DEF Replies
    <3> QED BY <3>2, <3>4, <3>5 DEF HandlerInv
  <2> QED BY <2>1, <2>3, <2>4, <2>5, QuietStep DEF CaptureInv, TypeOK, Goto
<1> QED BY <1>0, <1>1, <1>2

\* A handler that leaves "stat", or "open" in failure, for another place.
LEMMA MoveStep ==
  ASSUME CaptureInv, NEW h \in Handlers, pc[h] \in {"stat", "open"},
         NEW l \in {"open", "reply"}, Goto(h, l),
         UNCHANGED <<posts, max, files, body, whole, data, spoiled, answered>>,
         \/ failed' = failed /\ (l = "reply" => files[data[h]] # NoFile)
         \/ failed' = [failed EXCEPT ![h] = TRUE] /\ l = "reply"
  PROVE  CaptureInv'
<1>1. TypeOK' BY DEF CaptureInv, TypeOK, Goto, PCs
<1>2. Writing' = Writing BY DEF CaptureInv, TypeOK, Goto, Writing
<1>3. data[h] \in Captures /\ (l = "reply" /\ ~failed'[h] => Safe(data[h]))
  BY DEF CaptureInv, TypeOK, HandlerInv, AtDisk, FileIsCapture, Safe
<1>4. HandlerInv(h)'
  <2>1. pc'[h] = l BY DEF CaptureInv, TypeOK, Goto
  <2>2. AtDisk(h)' BY <1>3, <2>1 DEF AtDisk, CaptureInv, HandlerInv
  <2>3. ReadWhole(h)' BY <2>1 DEF ReadWhole, CaptureInv, HandlerInv, Kept, Smaller
  <2>4. Replies(h)'
    BY <1>2, <1>3, <2>1 DEF Replies, CaptureInv, HandlerInv, TypeOK, Safe
  <2> QED BY <2>2, <2>3, <2>4 DEF HandlerInv
<1> QED BY <1>1, <1>2, <1>4, QuietStep DEF CaptureInv, TypeOK, Goto

LEMMA StatStep ==
  ASSUME CaptureInv, NEW h \in Handlers, Stat(h)
  PROVE  CaptureInv'
<1>1. CASE files[data[h]] = NoFile /\ Goto(h, "open") /\ UNCHANGED failed
  BY <1>1, MoveStep DEF Stat
<1>2. CASE files[data[h]] # NoFile /\ Goto(h, "reply") /\ UNCHANGED failed
  BY <1>2, MoveStep DEF Stat
<1>3. CASE Fail(h) BY <1>3, MoveStep DEF Stat, Fail
<1> QED BY <1>1, <1>2, <1>3 DEF Stat

\* Steps of h that change the file of its capture and keep it safe.
LEMMA FileStep ==
  ASSUME CaptureInv, TypeOK', NEW h \in Handlers, pc[h] \in {"open", "write"},
         NEW f, f # NoFile, files' = [files EXCEPT ![data[h]] = f],
         f = data[h] \/ data[h] \in Writing' \cup spoiled',
         spoiled \subseteq spoiled', NEW l \in {"write", "reply"}, Goto(h, l),
         failed' = failed \/ failed' = [failed EXCEPT ![h] = TRUE],
         UNCHANGED <<posts, max, body, whole, data, answered>>
  PROVE  CaptureInv'
<1>1. data[h] \in Captures /\ files'[data[h]] = f
  BY DEF CaptureInv, HandlerInv, AtDisk, TypeOK
<1>2. \A n \in Captures : n # data[h] => files'[n] = files[n] BY DEF CaptureInv, TypeOK
<1>3. \A n \in Captures : n # data[h] /\ n \in Writing => n \in Writing'
  <2>1. \A g \in Handlers : g # h => pc'[g] = pc[g] BY DEF CaptureInv, TypeOK, Goto
  <2> QED BY <2>1 DEF Writing
<1>4. \A n \in Captures : Safe(n) => Safe(n)' BY <1>1, <1>2, <1>3 DEF Safe
<1>5. Safe(data[h])' BY <1>1 DEF Safe
<1>6. FileIsCapture'
  <2> SUFFICES ASSUME NEW n \in Captures, files'[n] \notin {NoFile, n}
               PROVE  n \in Writing' \cup spoiled'
    BY DEF FileIsCapture
  <2>1. CASE n = data[h] BY <1>1, <2>1
  <2>2. CASE n # data[h] BY <1>2, <1>3, <2>2 DEF CaptureInv, FileIsCapture
  <2> QED BY <2>1, <2>2
<1>7. AnsweredIsCaptured'
  BY <1>4 DEF CaptureInv, TypeOK, AnsweredIsCaptured, Safe, Captures
<1>8. ASSUME NEW g \in Handlers PROVE HandlerInv(g)'
  <2>1. pc'[g] = IF g = h THEN l ELSE pc[g] BY DEF CaptureInv, TypeOK, Goto
  <2>2. AtDisk(g)'
    <3>1. pc'[g] = "write" => files'[data[g]] # NoFile
      BY <1>1, <1>2, <2>1 DEF CaptureInv, HandlerInv, AtDisk
    <3> QED BY <2>1, <3>1 DEF CaptureInv, HandlerInv, AtDisk
  <2>5. ReadWhole(g)' BY <2>1 DEF CaptureInv, HandlerInv, ReadWhole, Kept, Smaller
  <2>3. Replies(g)'
    <3>1. ASSUME pc'[g] = "reply", ~failed'[g], data[g] # <<>> PROVE Safe(data[g])'
      <4>1. data[g] \in Captures BY <3>1 DEF CaptureInv, TypeOK, Captures
      <4>2. CASE g = h BY <1>5, <4>2
      <4>3. CASE g # h
        <5>1. pc[g] = "reply" /\ ~failed[g] BY <2>1, <3>1, <4>3 DEF CaptureInv, TypeOK
        <5> QED BY <1>4, <3>1, <4>1, <5>1 DEF CaptureInv, HandlerInv, Replies, Safe
      <4> QED BY <4>2, <4>3
    <3> QED BY <2>1, <3>1 DEF CaptureInv, HandlerInv, Replies, Safe
  <2> QED BY <2>2, <2>3, <2>5 DEF HandlerInv
<1> QED BY <1>6, <1>7, <1>8 DEF CaptureInv

LEMMA OpenStep ==
  ASSUME CaptureInv, NEW h \in Handlers, Open(h)
  PROVE  CaptureInv'
<1>1. CASE Fail(h) /\ UNCHANGED files BY <1>1, MoveStep DEF Open, Fail
<1>2. CASE /\ files' = [files EXCEPT ![data[h]] = <<>>]
           /\ Goto(h, "write") /\ UNCHANGED failed
  <2>1. data[h] \in Captures BY DEF CaptureInv, HandlerInv, AtDisk, Open
  <2>2. <<>> \in Prefixes(data[h])
    <3>1. data[h] \in Seq(Chunks) BY <2>1, DataClosed DEF Captures
    <3>2. 0 \in 0..Len(data[h]) /\ SubSeq(data[h], 1, 0) = <<>> BY <3>1, SubSeqEmpty
    <3> QED BY <3>2, PrefixIs
  <2>3. TypeOK' BY <1>2, <2>1, <2>2, DataIs DEF CaptureInv, TypeOK, Open, Goto, PCs
  <2>5. <<>> # NoFile BY WebAssumption, DataIs
  <2>4. data[h] \in Writing' BY <1>2 DEF CaptureInv, TypeOK, Open, Goto, Writing
  <2> QED BY <1>2, <2>3, <2>4, <2>5, FileStep DEF Open
<1> QED BY <1>1, <1>2 DEF Open

LEMMA WriteStep ==
  ASSUME CaptureInv, NEW h \in Handlers, Write(h)
  PROVE  CaptureInv'
<1>1. data[h] \in Captures /\ data[h] \in Data /\ data[h] \in Seq(Chunks)
  BY DataClosed DEF CaptureInv, HandlerInv, AtDisk, Write, Captures
<1>2. ASSUME NEW d \in Prefixes(data[h]) PROVE d \in Data
  <2>1. PICK k \in 0..Len(data[h]) : d = SubSeq(data[h], 1, k) BY <1>2, PrefixIs
  <2> QED BY <1>1, <2>1, DataClosed
<1>3. CASE /\ files' = [files EXCEPT ![data[h]] = data[h]]
           /\ Goto(h, "reply") /\ UNCHANGED <<failed, spoiled>>
  <2>1. data[h] \in Prefixes(data[h]) BY <1>1, SubSeqFull, PrefixIs
  <2>2. TypeOK' BY <1>1, <1>3, <2>1 DEF CaptureInv, TypeOK, Write, Goto, PCs
  <2>3. data[h] # NoFile BY <1>1, WebAssumption
  <2> QED BY <1>3, <2>2, <2>3, FileStep DEF Write
<1>4. CASE /\ \E d \in Prefixes(data[h]) \ {data[h]} :
                files' = [files EXCEPT ![data[h]] = Over(files[data[h]], d)]
           /\ spoiled' = spoiled \cup {data[h]} /\ Fail(h)
  <2>1. PICK d \in Prefixes(data[h]) :
          files' = [files EXCEPT ![data[h]] = Over(files[data[h]], d)]
    BY <1>4
  <2>2. Over(files[data[h]], d) \in Prefixes(data[h])
    <3>1. files[data[h]] \in Prefixes(data[h])
      BY <1>1 DEF CaptureInv, TypeOK, HandlerInv, AtDisk, Write
    <3> QED BY <2>1, <3>1 DEF Over
  <2>3. TypeOK' BY <1>1, <1>2, <1>4, <2>1, <2>2 DEF CaptureInv, TypeOK, Write, Fail, Goto, PCs
  <2>4. Over(files[data[h]], d) # NoFile BY <1>2, <2>2, WebAssumption
  <2> QED BY <1>4, <2>1, <2>3, <2>4, FileStep DEF Write, Fail
<1> QED BY <1>3, <1>4 DEF Write

LEMMA ReplyStep ==
  ASSUME CaptureInv, NEW h \in Handlers, Reply(h)
  PROVE  CaptureInv'
<1>1. body[h] \in Bodies /\ data[h] \in Data /\ <<>> \in Data
  BY DataIs DEF CaptureInv, TypeOK, HandlerInv, Replies, Reply
<1>2. whole[h] => Kept(body[h]) = data[h]
  BY DEF CaptureInv, HandlerInv, ReadWhole, Reply
<1>3. answered' \subseteq answered \cup {data[h]} /\ (answered' # answered => ~failed[h])
  BY <1>2 DEF Reply
<1>4. TypeOK' BY <1>1, <1>3 DEF CaptureInv, TypeOK, Reply, Return, Goto, PCs
<1>5. Writing' = Writing BY DEF CaptureInv, TypeOK, Reply, Return, Goto, Writing
<1>6. AnsweredIsCaptured'
  BY <1>3, <1>5 DEF CaptureInv, AnsweredIsCaptured, HandlerInv, Replies, Reply
<1>7. FileIsCapture' BY <1>5 DEF CaptureInv, FileIsCapture, Reply
<1>8. ASSUME NEW g \in Handlers PROVE HandlerInv(g)'
  <2>1. CASE g = h
    BY <2>1 DEF CaptureInv, TypeOK, Reply, Return, Goto, HandlerInv, AtDisk, ReadWhole, Replies
  <2>2. CASE g # h
    <3>1. /\ pc'[g] = pc[g] /\ body'[g] = body[g] /\ whole'[g] = whole[g]
          /\ data'[g] = data[g] /\ failed'[g] = failed[g]
          /\ UNCHANGED <<files, max, spoiled>>
      BY <2>2 DEF CaptureInv, TypeOK, Reply, Return, Goto
    <3> QED BY <1>5, <3>1 DEF CaptureInv, HandlerInv, AtDisk, ReadWhole, Replies, Kept, Smaller
  <2> QED BY <2>1, <2>2
<1> QED BY <1>4, <1>6, <1>7, <1>8 DEF CaptureInv

LEMMA CrashStep ==
  ASSUME CaptureInv, Crash
  PROVE  CaptureInv'
<1>1. Writing \subseteq Captures
  BY DEF CaptureInv, HandlerInv, AtDisk, Writing
<1>2. <<>> \in Data BY DataIs
<1>3. TypeOK' BY <1>1, <1>2 DEF CaptureInv, TypeOK, Crash, PCs
<1>4. FileIsCapture' /\ AnsweredIsCaptured'
  BY DEF CaptureInv, FileIsCapture, AnsweredIsCaptured, Crash
<1>5. \A h \in Handlers : HandlerInv(h)' BY DEF Crash, HandlerInv, AtDisk, ReadWhole, Replies
<1> QED BY <1>3, <1>4, <1>5 DEF CaptureInv

LEMMA InvNext == CaptureInv /\ [Next]_vars => CaptureInv'
<1> SUFFICES ASSUME CaptureInv, [Next]_vars PROVE CaptureInv' OBVIOUS
<1>1. ASSUME NEW h \in Handlers, NEW b \in Bodies, Post(h, b) PROVE CaptureInv'
  BY <1>1, PostStep
<1>2. ASSUME NEW h \in Handlers, HandlerStep(h) PROVE CaptureInv'
  BY <1>2, ReadStep, CutStep, StatStep, OpenStep, WriteStep, ReplyStep DEF HandlerStep
<1>3. CASE Crash BY <1>3, CrashStep
<1>4. CASE UNCHANGED vars
  BY <1>4 DEF vars, locals, CaptureInv, TypeOK, FileIsCapture, AnsweredIsCaptured, HandlerInv,
     AtDisk, ReadWhole, Replies, Writing, Kept, Smaller
<1> QED BY <1>1, <1>2, <1>3, <1>4 DEF Next

-----------------------------------------------------------------------------
(* The theorems.                                                            *)

\* Every reachable state has the types that common.go gives its data.
THEOREM TypeCorrect == Spec => []TypeOK
<1>1. CaptureInv => TypeOK BY DEF CaptureInv
<1> QED BY <1>1, InvInit, InvNext, PTL DEF Spec

\* A torn file has a writer at work, or one that failed or died.
THEOREM NoTornFiles == Spec => []FileIsCapture
<1>1. CaptureInv => FileIsCapture BY DEF CaptureInv
<1> QED BY <1>1, InvInit, InvNext, PTL DEF Spec

\* A post that was answered and did not fail is captured up to the limit.
THEOREM AnswersAreCaptured == Spec => []AnsweredIsCaptured
<1>1. CaptureInv => AnsweredIsCaptured BY DEF CaptureInv
<1> QED BY <1>1, InvInit, InvNext, PTL DEF Spec

LEMMA SettledStep ==
  ASSUME CaptureInv, [Next]_vars, NEW n \in Captures, Settled(n)
  PROVE  Settled(n)'
<1>0. n # NoFile BY WebAssumption DEF Captures
<1>1. ASSUME NEW h \in Handlers, HandlerStep(h) PROVE Settled(n)'
  <2>1. files'[n] = n
    BY <1>1 DEF CaptureInv, TypeOK, HandlerInv, AtDisk, Settled, HandlerStep, Read, Cut, Stat,
       Open, Write, Reply
  <2>2. \A g \in Handlers \ {h} : pc'[g] = pc[g] /\ data'[g] = data[g]
    BY <1>1 DEF CaptureInv, TypeOK, HandlerStep, Read, Cut, Stat, Open, Write, Reply, Fail,
       Return, Goto
  <2>3. ASSUME pc'[h] \in {"open", "write"} PROVE data'[h] # n
    <3>1. CASE Stat(h)
      BY <1>0, <2>3, <3>1 DEF CaptureInv, TypeOK, Stat, Fail, Goto, Settled
    <3>2. CASE Open(h) BY <2>3, <3>2 DEF CaptureInv, TypeOK, Open, Fail, Goto, Settled
    <3>3. CASE Read(h) \/ Cut(h) \/ Write(h) \/ Reply(h)
      BY <2>3, <3>3 DEF CaptureInv, TypeOK, Read, Cut, Write, Reply, Fail, Return, Goto
    <3> QED BY <1>1, <3>1, <3>2, <3>3 DEF HandlerStep
  <2> QED BY <2>1, <2>2, <2>3 DEF Settled
<1>2. ASSUME NEW h \in Handlers, NEW b \in Bodies, Post(h, b) PROVE Settled(n)'
  BY <1>2 DEF CaptureInv, TypeOK, Settled, Post, Goto
<1>3. CASE Crash BY <1>3 DEF Settled, Crash
<1>4. CASE UNCHANGED vars BY <1>4 DEF Settled, vars, locals
<1> QED BY <1>1, <1>2, <1>3, <1>4 DEF Next

\* A capture that is whole stays so.
THEOREM CapturesStay == Spec => CaptureStays
<1>1. CaptureInv /\ [Next]_vars => [\A n \in Captures : Settled(n) => Settled(n)']_vars
  BY SettledStep
<1> QED BY <1>1, InvInit, InvNext, PTL DEF Spec, CaptureStays
=============================================================================
