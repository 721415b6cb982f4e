------------------------------ MODULE WebCapture ------------------------------
(***************************************************************************)
(* Capture of POST bodies: src/internal/services/web/common.go.            *)
(*                                                                         *)
(* The HTTP and the HTTPS service run one such handler each, net/http runs *)
(* it in a goroutine per request, and all of them write to ./captures/.    *)
(* A body is a sequence of chunks.  What is kept of it is its capture, and *)
(* the file is named by the capture's hash, for which the capture itself   *)
(* stands: two captures with one 64-bit hash are left out.                 *)
(***************************************************************************)
EXTENDS Integers, Sequences

CONSTANTS
    Handlers,   \* goroutines in HandlePost, of both services
    Chunks,     \* what bodies are made of
    Bodies,     \* what clients send: sequences of chunks
    Limits,     \* values of MaxBodyKb * 1024, in chunks
    MaxPosts,   \* bound: requests
    Faults      \* what may go wrong: subset of {"read", "disk", "crash"}

Prefixes(b) == {SubSeq(b, 1, n) : n \in 0..Len(b)}
Data == {<<>>} \cup UNION {Prefixes(b) : b \in Bodies}

\* Captures that have a file name: HandlePost writes no empty one.
Captures == Data \ {<<>>}

\* No such file.
NoFile == <<"no file">>

ASSUME WebAssumption ==
    /\ Bodies \subseteq Seq(Chunks)
    /\ Limits \subseteq Int
    /\ MaxPosts \in Nat
    /\ NoFile \notin Data

VARIABLES
    posts,      \* requests so far
    max,        \* maxBodyBytes: the configuration does not change
    files,      \* the directory: for each name, what its file holds
    pc,         \* where each handler is
    body,       \* what its client sends
    whole,      \* history: whether its read met no error
    data,       \* what it has read, and then the capture
    failed,     \* whether CapturePostBody returned an error
    spoiled,    \* history: names of files that a write left unfinished
    answered    \* history: captures whose posts were answered and did not fail

locals == <<body, whole, data, failed>>
vars == <<posts, max, files, pc, locals, spoiled, answered>>

PCs == {"idle", "read", "limit", "stat", "open", "write", "reply"}

TypeOK ==
    /\ posts \in 0..MaxPosts
    /\ max \in Limits
    /\ files \in [Captures -> Data \cup {NoFile}]
    /\ \A n \in Captures : files[n] \in Prefixes(n) \cup {NoFile}
    /\ pc \in [Handlers -> PCs]
    /\ body \in [Handlers -> Bodies \cup {<<>>}]
    /\ whole \in [Handlers -> BOOLEAN]
    /\ data \in [Handlers -> Data]
    /\ failed \in [Handlers -> BOOLEAN]
    /\ spoiled \subseteq Captures
    /\ answered \subseteq Data

Init ==
    /\ posts = 0
    /\ max \in Limits
    /\ files = [n \in Captures |-> NoFile]
    /\ pc = [h \in Handlers |-> "idle"]
    /\ body = [h \in Handlers |-> <<>>]
    /\ whole = [h \in Handlers |-> TRUE]
    /\ data = [h \in Handlers |-> <<>>]
    /\ failed = [h \in Handlers |-> FALSE]
    /\ spoiled = {}
    /\ answered = {}

-----------------------------------------------------------------------------
Goto(h, l) == pc' = [pc EXCEPT ![h] = l]

Smaller(a, b) == IF a < b THEN a ELSE b

\* The request is over, and its locals are gone.
Return(h) ==
    /\ Goto(h, "idle")
    /\ body' = [body EXCEPT ![h] = <<>>]
    /\ whole' = [whole EXCEPT ![h] = TRUE]
    /\ data' = [data EXCEPT ![h] = <<>>]
    /\ failed' = [failed EXCEPT ![h] = FALSE]

Post(h, b) ==
    /\ pc[h] = "idle"
    /\ posts < MaxPosts
    /\ posts' = posts + 1
    /\ body' = [body EXCEPT ![h] = b]
    /\ Goto(h, "read")
    /\ UNCHANGED <<max, files, whole, data, failed, spoiled, answered>>

\* ReadAll behind a LimitReader of one more than the limit, which reads
\* nothing at all when that is not positive.  After an error the handler goes
\* on with what has come.
Read(h) ==
    /\ pc[h] = "read"
    /\ LET most == IF max + 1 <= 0 THEN 0 ELSE Smaller(Len(body[h]), max + 1)
       IN  \E n \in 0..most :
             /\ n = most \/ "read" \in Faults
             /\ data' = [data EXCEPT ![h] = SubSeq(body[h], 1, n)]
             /\ whole' = [whole EXCEPT ![h] = n = most]
    /\ Goto(h, "limit")
    /\ UNCHANGED <<posts, max, files, body, failed, spoiled, answered>>

\* Mutant: the chunk that only shows that there is more is kept.
Limited(d) == d

\* data[:maxBodyBytes].
Limit(d) == IF Len(d) > max THEN SubSeq(d, 1, max) ELSE d

\* What is read is cut to the limit.  A negative limit makes the slice panic,
\* and net/http drops the connection.  An empty capture is not written.
Cut(h) ==
    /\ pc[h] = "limit"
    /\ \/ /\ max < 0
          /\ Return(h)
       \/ /\ max >= 0
          /\ data' = [data EXCEPT ![h] = Limit(data[h])]
          /\ Goto(h, IF Limit(data[h]) = <<>> THEN "reply" ELSE "stat")
          /\ UNCHANGED <<body, whole, failed>>
    /\ UNCHANGED <<posts, max, files, spoiled, answered>>

\* CapturePostBody returns an error, which is only logged.
Fail(h) ==
    /\ "disk" \in Faults
    /\ failed' = [failed EXCEPT ![h] = TRUE]
    /\ Goto(h, "reply")

\* Mutant: an existing file is written again.
StatNot(h) ==
    /\ pc[h] = "stat"
    /\ Goto(h, "open")
    /\ UNCHANGED <<posts, max, files, body, whole, data, failed, spoiled, answered>>

\* MkdirAll and Stat: a capture that has a file is a duplicate and skipped.
Stat(h) ==
    /\ pc[h] = "stat"
    /\ \/ /\ Goto(h, IF files[data[h]] = NoFile THEN "open" ELSE "reply")
          /\ UNCHANGED failed
       \/ Fail(h)
    /\ UNCHANGED <<posts, max, files, body, whole, data, spoiled, answered>>

\* WriteFile opens the file, which another handler may have made meanwhile,
\* and truncates it,
Open(h) ==
    /\ pc[h] = "open"
    /\ \/ /\ files' = [files EXCEPT ![data[h]] = <<>>]
          /\ Goto(h, "write")
          /\ UNCHANGED failed
       \/ Fail(h) /\ UNCHANGED files
    /\ UNCHANGED <<posts, max, body, whole, data, spoiled, answered>>

\* A write of d from the beginning of a file that holds f.
Over(f, d) == IF Len(f) > Len(d) THEN f ELSE d

\* Mutant: a write that was cut short counts as done.
WriteShort(h) ==
    /\ pc[h] = "write"
    /\ \E d \in Prefixes(data[h]) :
         files' = [files EXCEPT ![data[h]] = Over(files[data[h]], d)]
    /\ Goto(h, "reply")
    /\ UNCHANGED <<posts, max, locals, spoiled, answered>>

\* and writes all of the capture, or a part of it when the disk is full.
Write(h) ==
    /\ pc[h] = "write"
    /\ \/ /\ files' = [files EXCEPT ![data[h]] = data[h]]
          /\ Goto(h, "reply")
          /\ UNCHANGED <<failed, spoiled>>
       \/ /\ \E d \in Prefixes(data[h]) \ {data[h]} :
               files' = [files EXCEPT ![data[h]] = Over(files[data[h]], d)]
          /\ spoiled' = spoiled \cup {data[h]}
          /\ Fail(h)
    /\ UNCHANGED <<posts, max, body, whole, data, answered>>

\* What the limit lets a body keep.
Kept(b) == SubSeq(b, 1, Smaller(Len(b), max))

\* 200, whatever happened.
Reply(h) ==
    /\ pc[h] = "reply"
    /\ answered' = IF whole[h] /\ ~failed[h]
                     THEN answered \cup {Kept(body[h])}
                     ELSE answered
    /\ Return(h)
    /\ UNCHANGED <<posts, max, files, spoiled>>

\* The names whose file is open in a handler that has yet to write it.
Writing == {data[h] : h \in {g \in Handlers : pc[g] = "write"}}

\* The process dies, or exits with requests under way: the files remain.
Crash ==
    /\ "crash" \in Faults
    /\ \E h \in Handlers : pc[h] # "idle"
    /\ spoiled' = spoiled \cup Writing
    /\ pc' = [h \in Handlers |-> "idle"]
    /\ body' = [h \in Handlers |-> <<>>]
    /\ whole' = [h \in Handlers |-> TRUE]
    /\ data' = [h \in Handlers |-> <<>>]
    /\ failed' = [h \in Handlers |-> FALSE]
    /\ UNCHANGED <<posts, max, files, answered>>

HandlerStep(h) == Read(h) \/ Cut(h) \/ Stat(h) \/ Open(h) \/ Write(h) \/ Reply(h)

Next ==
    \/ \E h \in Handlers, b \in Bodies : Post(h, b)
    \/ \E h \in Handlers : HandlerStep(h)
    \/ Crash

Spec == Init /\ [][Next]_vars

-----------------------------------------------------------------------------
(* Properties.                                                              *)

\* A file that is not the whole capture that names it has a writer that is
\* about to make it so, or one that failed or died: racing posts of one body
\* (common.go:229-239) leave no torn file behind by themselves.
FileIsCapture ==
    \A n \in Captures : files[n] \notin {NoFile, n} => n \in Writing \cup spoiled

\* A post whose own steps succeeded and which is answered has as much of its
\* body on the disk as the limit allows, under its name, or a post of the same
\* capture is still writing or has failed (the duplicate that was skipped
\* relied on it).
AnsweredIsCaptured ==
    \A d \in answered \ {<<>>} : files[d] = d \/ d \in Writing \cup spoiled

\* The file of n is whole and no handler is on its way to open or write it.
Settled(n) ==
    /\ files[n] = n
    /\ \A h \in Handlers : pc[h] \in {"open", "write"} => data[h] # n

\* What is settled stays: only posts that looked before a file was there may
\* still truncate it, and later posts, failures and restarts leave it alone.
CaptureStays == [][\A n \in Captures : Settled(n) => Settled(n)']_vars
=============================================================================
