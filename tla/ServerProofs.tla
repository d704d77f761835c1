----------------------------- MODULE ServerProofs -----------------------------
(***************************************************************************)
(* The HTTP handlers beside the queue: every step of theirs is a step of    *)
(* the queue, none finds it closed, and what they answer is true.           *)
(***************************************************************************)
EXTENDS Server, QueueProofs, FiniteSetTheorems, WellFoundedInduction

-----------------------------------------------------------------------------
(* The mappings.                                                              *)

LEMMA MappingFacts ==
  /\ DOMAIN PathMappings \subseteq Nat
  /\ \A i \in DOMAIN PathMappings : /\ PathMappings[i].from \in Seq(STRING)
                                    /\ Len(PathMappings[i].from) \in Nat
<1> DEFINE Mapping == [from : Seq(STRING), to : Seq(STRING)]
<1>1. PathMappings \in Seq(Mapping)
  BY MappingAssumption
<1>2. DOMAIN PathMappings = 1..Len(PathMappings) /\ Len(PathMappings) \in Nat
  BY <1>1, LenProperties
<1>3. ASSUME NEW i \in DOMAIN PathMappings PROVE PathMappings[i] \in Mapping
  BY <1>1, <1>2, <1>3, ElementOfSeq
<1>4. ASSUME NEW i \in DOMAIN PathMappings
      PROVE  PathMappings[i].from \in Seq(STRING) /\ Len(PathMappings[i].from) \in Nat
  <2>1. PathMappings[i].from \in Seq(STRING)
    BY <1>3
  <2> QED
    BY <2>1, LenProperties
<1> QED
  BY <1>2, <1>4

\* Two prefixes of one path are prefixes of one another, the shorter of the longer.
LEMMA PrefixesNest ==
  ASSUME NEW S, NEW t \in Seq(S), NEW a \in Seq(S), NEW b \in Seq(S),
         IsPrefix(a, t), IsPrefix(b, t), Len(a) <= Len(b)
  PROVE  IsPrefix(a, b)
<1>1. /\ Len(a) \in Nat /\ Len(b) \in Nat /\ Len(t) \in Nat
      /\ Len(a) <= Len(t) /\ Len(b) <= Len(t)
      /\ SubSeq(a, 1, Len(a)) = SubSeq(t, 1, Len(a))
      /\ SubSeq(b, 1, Len(b)) = SubSeq(t, 1, Len(b))
  BY LenProperties DEF IsPrefix
<1>2. SubSeq(a, 1, Len(a)) = a /\ SubSeq(b, 1, Len(b)) = b
  BY <1>1, SubSeqFull
<1>3. SubSeq(b, 1, Len(a)) = SubSeq(t, 1, Len(a))
  BY <1>1, <1>2
<1> QED
  BY <1>1, <1>3 DEF IsPrefix

\* No two mappings have one prefix, and the first that matches a path is the longest.
LEMMA FirstIsLongest ==
  ASSUME NEW path \in Seq(STRING), NEW i \in FirstMatch(path),
         NEW j \in DOMAIN PathMappings, IsPrefix(PathMappings[j].from, path), j # i
  PROVE  /\ i \in DOMAIN PathMappings
         /\ PathMappings[i].from \in Seq(STRING) /\ PathMappings[j].from \in Seq(STRING)
         /\ Len(PathMappings[j].from) < Len(PathMappings[i].from)
<1>1. /\ i \in DOMAIN PathMappings /\ IsPrefix(PathMappings[i].from, path)
      /\ i \in Nat /\ j \in Nat /\ i < j
  BY MappingFacts DEF FirstMatch
<1>2. PathMappings[i].from \in Seq(STRING) /\ PathMappings[j].from \in Seq(STRING)
  BY <1>1, MappingFacts
<1>3. Len(PathMappings[i].from) \in Nat /\ Len(PathMappings[j].from) \in Nat
  BY <1>1, MappingFacts
<1>4. ~IsPrefix(PathMappings[i].from, PathMappings[j].from)
  BY <1>1, MappingAssumption
<1>5. ~(Len(PathMappings[i].from) <= Len(PathMappings[j].from))
  BY <1>1, <1>2, <1>4, PrefixesNest
<1> QED
  BY <1>1, <1>2, <1>3, <1>5

\* Where the first mapping that matches a path's text ends with one of the path's
\* components, if any does, the code's answer is where docker put the file.
ComponentsMatch(path) == \A i \in FirstMatch(path) : Under(path, PathMappings[i].from)

\* A path that some mapping matches is matched by a first one.
LEMMA SomeFirst ==
  ASSUME NEW path, NEW i \in DOMAIN PathMappings, IsPrefix(PathMappings[i].from, path)
  PROVE  FirstMatch(path) # {}
<1> DEFINE M == {j \in DOMAIN PathMappings : IsPrefix(PathMappings[j].from, path)}
<1>1. M \subseteq Nat /\ i \in M
  BY MappingFacts
<1>2. PICK n \in M : \A j \in M : ~(j < n)
  <2> HIDE DEF M
  <2>1. \E n \in M : \A j \in M : <<j, n>> \notin OpToRel(<, Nat)
    BY <1>1, NatLessThanWellFounded, WFMin
  <2> QED
    BY <1>1, <2>1 DEF OpToRel
<1>3. n \in FirstMatch(path)
  BY <1>1, <1>2 DEF FirstMatch
<1> QED
  BY <1>3

LEMMA MapsWhereDenoted ==
  ASSUME NEW path \in Seq(STRING), ComponentsMatch(path)
  PROVE  MapToHostPath(path) = Denoted(path)
<1> DEFINE over == {i \in DOMAIN PathMappings : Under(path, PathMappings[i].from)}
           Deepest(i) == \A j \in over : Len(PathMappings[j].from) <= Len(PathMappings[i].from)
<1>1. \A i \in over : IsPrefix(PathMappings[i].from, path)
  BY DEF Under
<1>2. CASE FirstMatch(path) = {}
  <2>1. over = {}
    BY <1>1, <1>2, SomeFirst
  <2> QED
    BY <1>2, <2>1 DEF MapToHostPath, Denoted
<1>3. ASSUME NEW i \in FirstMatch(path) PROVE MapToHostPath(path) = Denoted(path)
  <2>1. i \in DOMAIN PathMappings /\ i \in over
    BY <1>3 DEF ComponentsMatch, FirstMatch
  <2>2. ASSUME NEW j \in over, j # i
        PROVE  /\ Len(PathMappings[j].from) < Len(PathMappings[i].from)
               /\ Len(PathMappings[j].from) \in Nat /\ Len(PathMappings[i].from) \in Nat
    <3>1. j \in DOMAIN PathMappings /\ IsPrefix(PathMappings[j].from, path)
      BY <1>1, <2>2
    <3>2. /\ Len(PathMappings[j].from) < Len(PathMappings[i].from)
          /\ PathMappings[i].from \in Seq(STRING) /\ PathMappings[j].from \in Seq(STRING)
      BY <1>3, <2>2, <3>1, FirstIsLongest
    <3> QED
      BY <3>2, LenProperties
  <2>3. Len(PathMappings[i].from) \in Nat
    BY <2>1, MappingFacts
  <2>4. Deepest(i) /\ \A j \in over : Deepest(j) => j = i
    BY <2>1, <2>2, <2>3
  <2>5. (CHOOSE j \in over : Deepest(j)) = i
    BY <2>1, <2>4
  <2>6. \A j \in FirstMatch(path) : j = i
    <3> SUFFICES ASSUME NEW j \in FirstMatch(path), j # i PROVE FALSE
      OBVIOUS
    <3>1. i \in Nat /\ j \in Nat /\ ~(i < j) /\ ~(j < i)
      BY <1>3, MappingFacts DEF FirstMatch
    <3> QED
      BY <3>1
  <2>7. (CHOOSE j \in FirstMatch(path) : TRUE) = i
    BY <1>3, <2>6
  <2>8. MapToHostPath(path) = PathMappings[i].to
                               \o SubSeq(path, Len(PathMappings[i].from) + 1, Len(path))
    BY <1>3, <2>7 DEF MapToHostPath
  <2>9. Denoted(path) = PathMappings[i].to
                         \o SubSeq(path, Len(PathMappings[i].from) + 1, Len(path))
    BY <2>1, <2>5 DEF Denoted
  <2> QED
    BY <2>8, <2>9
<1> QED
  BY <1>2, <1>3

-----------------------------------------------------------------------------
(* The table.                                                                 *)

LEMMA SeenStays ==
  ASSUME QueueInv, [QueueNext]_queueVars, NEW k, Seen(k)
  PROVE  Seen(k)'
BY RowsStay DEF Seen

LEMMA DoneFacts ==
  ASSUME NEW t \in Seq(Job)
  PROVE  LET D == {i \in DOMAIN t : t[i].status = "done"}
         IN IsFiniteSet(D) /\ Cardinality(D) \in Nat
<1> DEFINE D == {i \in DOMAIN t : t[i].status = "done"}
<1>1. DOMAIN t = 1..Len(t) /\ Len(t) \in Nat
  BY LenProperties
<1>2. IsFiniteSet(1..Len(t))
  BY <1>1, FS_Interval
<1>3. D \in SUBSET (1..Len(t))
  BY <1>1
<1>4. IsFiniteSet(D)
  BY <1>2, <1>3, FS_Subset
<1> QED
  BY <1>4, FS_CardinalityType

\* What is done stays done, so its number does not fall.
LEMMA DoneGrows ==
  ASSUME QueueInv, QueueInv', [QueueNext]_queueVars
  PROVE  /\ Cardinality(Done) \in Nat /\ Cardinality(Done)' \in Nat
         /\ ~OtherOpens => Cardinality(Done) <= Cardinality(Done)'
<1>1. jobs \in Seq(Job) /\ jobs' \in Seq(Job)
  BY DEF QueueInv, QueueTypeOK
<1>2. /\ Cardinality(Done) \in Nat
      /\ IsFiniteSet(Done') /\ Cardinality(Done') \in Nat
  BY <1>1, DoneFacts DEF Done, Rows
<1>3. ASSUME ~OtherOpens PROVE Done \in SUBSET Done'
  <2> SUFFICES ASSUME NEW i \in Rows, jobs[i].status = "done"
               PROVE  i \in Rows' /\ jobs'[i].status = "done"
    BY DEF Done
  <2>1. jobs[i].status \in Ended
    BY DEF Ended
  <2> QED
    BY <1>3, <2>1, RowsStay, EndedStay
<1>4. ASSUME ~OtherOpens PROVE Cardinality(Done) <= Cardinality(Done)'
  <2>1. Done \in SUBSET Done' /\ IsFiniteSet(Done')
    BY <1>2, <1>3, <1>4
  <2>2. Cardinality(Done) <= Cardinality(Done')
    BY <2>1, FS_Subset
  <2> QED
    BY <2>2
<1> QED
  BY <1>2, <1>4

-----------------------------------------------------------------------------
(* Whatever the server does to the queue, a queue does.                       *)

LEMMA StepOfQueue ==
  ASSUME [ServerNext]_serverVars
  PROVE  [QueueNext]_queueVars
<1>1. ASSUME NEW h \in Handler, EnqueueFile(h) PROVE QueueNext
  <2>1. FileAt[MapToHostPath(request[h].path)] \in Key
    BY <1>1, FileAtAssumption DEF EnqueueFile
  <2> QED
    BY <1>1, <2>1 DEF EnqueueFile, QueueNext
<1>2. ASSUME NEW h \in Handler, HandlerStep(h), ~EnqueueFile(h) PROVE UNCHANGED queueVars
  BY <1>2 DEF HandlerStep, Refuse, Dispatch, EnqueueFails, ReadCounts, ReadBytes,
              SummarizeFails, Respond
<1>3. ASSUME NEW h \in Handler, NEW r \in Request, Receive(h, r) PROVE UNCHANGED queueVars
  BY <1>3 DEF Receive
<1>4. CASE Exit \/ Die \/ Beside
  BY <1>4 DEF Exit, Die, Beside, QueueNext
<1>5. CASE Listen \/ ShutdownWeb \/ UNCHANGED serverVars
  BY <1>5 DEF Listen, ShutdownWeb, serverVars
<1> QED
  BY <1>1, <1>2, <1>3, <1>4, <1>5 DEF ServerNext

\* What QueueProofs proves of every queue holds of the one behind the server, and
\* of its users, the handlers among them (server.go:115-149, queue.go:67-121).
THEOREM ServerImplementsQueue == ServerSpec => QueueSpec
<1>1. ServerInit => QueueInit
  BY DEF ServerInit
<1>2. [ServerNext]_serverVars => [QueueNext]_queueVars
  BY StepOfQueue
<1> QED
  BY <1>1, <1>2, PTL DEF ServerSpec, QueueSpec

\* A file version is known once and ends once, one way, with any number of
\* webhooks, retried or not, beside the workers (queue.go:1-4, 67-84).
THEOREM ServerKeepsLedger ==
  ASSUME ~OtherOpens
  PROVE  ServerSpec => ImplementsLedger /\ [](JobHeldOnce /\ HeldIsRunning)
<1> QED
  BY ServerImplementsQueue, QueueImplementsLedger, ClaimsAreExclusive

-----------------------------------------------------------------------------
(* The invariant.                                                             *)

ReplyAddsUp(h) == reply[h].code = 200 => reply[h].done <= reply[h].saved

\* The part of the invariant that is about one request.
RequestInv(h) == HandlerInv(h) /\ (at[h] # "idle" => storeOpen)
                   /\ (~OtherOpens => ReplyAddsUp(h))

Kept(h) == /\ at'[h] = at[h] /\ request'[h] = request[h]
           /\ counted'[h] = counted[h] /\ reply'[h] = reply[h]

LEMMA ServerParts ==
  ServerInv <=> /\ ServerTypeOK /\ QueueInv
                /\ web # "off" => storeOpen
                /\ \A h \in Handler : RequestInv(h)
BY DEF ServerInv, StoreOpenWhileServed, StatusIsConsistent, RequestInv, ReplyAddsUp

LEMMA ServerPartsNext ==
  ServerInv' <=> /\ ServerTypeOK' /\ QueueInv'
                 /\ web' # "off" => storeOpen'
                 /\ \A h \in Handler : RequestInv(h)'
BY DEF ServerInv, StoreOpenWhileServed,
       StatusIsConsistent, RequestInv, ReplyAddsUp

LEMMA QueueStep ==
  ASSUME ServerInv, [ServerNext]_serverVars
  PROVE  /\ QueueInv' /\ QueueTypeOK'
         /\ Cardinality(Done) \in Nat /\ Cardinality(Done)' \in Nat
         /\ ~OtherOpens => Cardinality(Done) <= Cardinality(Done)'
<1>1. QueueInv /\ [QueueNext]_queueVars /\ QueueInv'
  BY StepOfQueue, QueueInvNext DEF ServerInv
<1> QED
  BY <1>1, DoneGrows DEF QueueInv

\* A request that a step is not about.
LEMMA KeptRequest ==
  ASSUME ServerInv, [ServerNext]_serverVars, NEW h \in Handler, Kept(h),
         at[h] = "idle" \/ storeOpen' = storeOpen
  PROVE  RequestInv(h)'
<1>1. RequestInv(h) /\ counted[h] \in Nat
  BY ServerParts DEF ServerTypeOK
<1>2. /\ Cardinality(Done) \in Nat /\ Cardinality(Done)' \in Nat
      /\ ~OtherOpens => Cardinality(Done) <= Cardinality(Done)'
  BY QueueStep
<1> QED
  BY <1>1, <1>2 DEF RequestInv, HandlerInv, ReplyAddsUp, Kept

\* A step about one request only.
LEMMA RequestStep ==
  ASSUME ServerInv, [ServerNext]_serverVars, NEW h \in Handler,
         web' = web, storeOpen' = storeOpen,
         at' \in [Handler -> At], request' \in [Handler -> Request \cup {NoRequest}],
         counted' \in [Handler -> Nat], reply' \in [Handler -> Reply],
         \A x \in Handler \ {h} : Kept(x),
         RequestInv(h)'
  PROVE  ServerInv'
<1>1. QueueInv' /\ QueueTypeOK'
  BY QueueStep
<1>2. \A x \in Handler : RequestInv(x)'
  BY KeptRequest
<1>3. ServerTypeOK'
  BY <1>1 DEF ServerInv, ServerTypeOK
<1> QED
  BY <1>1, <1>2, <1>3, ServerPartsNext DEF ServerInv

LEMMA SummaryFacts ==
  ASSUME NEW n \in Nat, NEW bytes \in Nat
  PROVE  /\ Summary(n, bytes) \in Reply
         /\ Summary(n, bytes).code = 200
         /\ Summary(n, bytes).done = n /\ Summary(n, bytes).saved = bytes
BY DEF Summary, Reply

LEMMA HandlerStepKeepsInv ==
  ASSUME ServerInv, [ServerNext]_serverVars, NEW h \in Handler, HandlerStep(h)
  PROVE  ServerInv'
<1>1. /\ ServerTypeOK /\ RequestInv(h)
      /\ Cardinality(Done) \in Nat /\ Cardinality(Done)' \in Nat
  BY ServerParts, QueueStep
<1>2. /\ at[h] # "idle" /\ storeOpen /\ request[h] \in Request
      /\ UNCHANGED <<web, storeOpen>>
  <2>1. at[h] # "idle" /\ UNCHANGED <<web, storeOpen>>
    BY DEF HandlerStep, Refuse, Dispatch, EnqueueFile, EnqueueFails, ReadCounts, ReadBytes,
           SummarizeFails, Respond, Enqueue, queueVars
  <2> QED
    BY <1>1, <2>1 DEF RequestInv, HandlerInv
<1>3. ASSUME NEW r \in Reply, Answer(h, r), UNCHANGED request,
             counted' = counted \/ counted' = [counted EXCEPT ![h] = 0],
             ~OtherOpens /\ r.code = 200 => r.done <= r.saved
      PROVE  ServerInv'
  <2>1. /\ at' \in [Handler -> At] /\ request' \in [Handler -> Request \cup {NoRequest}]
        /\ counted' \in [Handler -> Nat] /\ reply' \in [Handler -> Reply]
        /\ \A x \in Handler \ {h} : Kept(x)
        /\ at'[h] = "answered" /\ request'[h] = request[h] /\ reply'[h] = r
    BY <1>1, <1>3 DEF Answer, ServerTypeOK, At, Kept
  <2>2. RequestInv(h)'
    BY <1>2, <1>3, <2>1 DEF RequestInv, HandlerInv, ReplyAddsUp
  <2> QED
    BY <1>2, <2>1, <2>2, RequestStep
<1>4. NoReply \in Reply /\ NoReply.done = 0 /\ NoReply.saved = 0
  BY DEF NoReply, Reply
<1>5. CASE Refuse(h)
  <2> DEFINE c == Refusal(request[h])
  <2>1. c \in {200, 400, 401}
    BY DEF Refusal
  <2>2. [NoReply EXCEPT !.code = c] \in Reply
    BY <2>1 DEF NoReply, Reply
  <2>3. [NoReply EXCEPT !.code = c].done <= [NoReply EXCEPT !.code = c].saved
    BY DEF NoReply
  <2>4. Answer(h, [NoReply EXCEPT !.code = c]) /\ UNCHANGED <<request, counted>>
    BY <1>5 DEF Refuse
  <2> HIDE DEF c
  <2> QED
    BY <1>3, <2>2, <2>3, <2>4
<1>6. CASE Dispatch(h)
  <2>1. /\ \E l \in {"counts", "enqueue"} : at' = [at EXCEPT ![h] = l]
        /\ UNCHANGED <<request, counted, reply>>
    BY <1>6 DEF Dispatch, callVars
  <2>2. /\ at' \in [Handler -> At] /\ at'[h] \in {"counts", "enqueue"}
        /\ request' \in [Handler -> Request \cup {NoRequest}]
        /\ counted' \in [Handler -> Nat] /\ reply' \in [Handler -> Reply]
        /\ \A x \in Handler \ {h} : Kept(x)
    BY <1>1, <2>1 DEF ServerTypeOK, At, Kept
  <2>3. reply'[h].code = 0
    BY <1>1, <1>6, <2>1 DEF Dispatch, RequestInv, HandlerInv
  <2>4. RequestInv(h)'
    BY <1>2, <2>1, <2>2, <2>3 DEF RequestInv, HandlerInv, ReplyAddsUp
  <2> QED
    BY <1>2, <2>2, <2>4, RequestStep
<1>7. CASE EnqueueFile(h)
  <2> DEFINE q == ~Seen(FileAt[MapToHostPath(request[h].path)])
             r == [code |-> 202, queued |-> q, done |-> 0, saved |-> 0]
  <2>2. q \in BOOLEAN
    BY DEF Seen
  <2>3. Answer(h, r) /\ UNCHANGED <<request, counted>>
    BY <1>7 DEF EnqueueFile
  <2> HIDE DEF q
  <2>4. r \in Reply /\ r.code = 202
    BY <2>2 DEF Reply
  <2> HIDE DEF r
  <2> QED
    BY <1>3, <2>3, <2>4
<1>8. CASE EnqueueFails(h) \/ SummarizeFails(h)
  <2>1. CASE EnqueueFails(h)
    <3> DEFINE r == [NoReply EXCEPT !.code = 422]
    <3>1. r \in Reply /\ r.code = 422
      BY DEF NoReply, Reply
    <3>2. Answer(h, r) /\ UNCHANGED <<request, counted>>
      BY <2>1 DEF EnqueueFails
    <3> HIDE DEF r
    <3> QED
      BY <1>3, <3>1, <3>2
  <2>2. CASE SummarizeFails(h)
    <3> DEFINE r == [NoReply EXCEPT !.code = 500]
    <3>1. r \in Reply /\ r.code = 500
      BY DEF NoReply, Reply
    <3>2. Answer(h, r) /\ UNCHANGED request /\ counted' = [counted EXCEPT ![h] = 0]
      BY <2>2 DEF SummarizeFails
    <3> HIDE DEF r
    <3> QED
      BY <1>3, <3>1, <3>2
  <2> QED
    BY <1>8, <2>1, <2>2
<1>9. CASE ReadCounts(h)
  <2>1. /\ at' = [at EXCEPT ![h] = "bytes"]
        /\ counted' = [counted EXCEPT ![h] = Cardinality(Done)]
        /\ UNCHANGED <<jobs, request, reply>>
    BY <1>9 DEF ReadCounts, queueVars
  <2>2. /\ at' \in [Handler -> At] /\ at'[h] = "bytes"
        /\ request' \in [Handler -> Request \cup {NoRequest}]
        /\ counted' \in [Handler -> Nat] /\ counted'[h] = Cardinality(Done)
        /\ reply' \in [Handler -> Reply]
        /\ \A x \in Handler \ {h} : Kept(x)
    BY <1>1, <2>1 DEF ServerTypeOK, At, Kept
  <2>3. reply'[h].code = 0
    BY <1>1, <1>9, <2>1 DEF ReadCounts, RequestInv, HandlerInv
  <2>4. Done' = Done
    BY <2>1 DEF Done, Rows
  <2>5. RequestInv(h)'
    BY <1>1, <1>2, <2>1, <2>2, <2>3, <2>4 DEF RequestInv, HandlerInv, ReplyAddsUp
  <2> QED
    BY <1>2, <2>2, <2>5, RequestStep
<1>10. CASE ReadBytes(h)
  <2> DEFINE r == Summary(counted[h], Cardinality(Done))
  <2>1. r \in Reply /\ r.done = counted[h] /\ r.saved = Cardinality(Done)
    <3>1. counted[h] \in Nat
      BY <1>1 DEF ServerTypeOK
    <3> QED
      BY <1>1, <3>1, SummaryFacts
  <2>2. /\ Answer(h, r) /\ UNCHANGED request
        /\ counted' = [counted EXCEPT ![h] = 0] /\ at[h] = "bytes"
    BY <1>10 DEF ReadBytes
  <2> HIDE DEF r
  <2>3. ~OtherOpens => r.done <= r.saved
    BY <1>1, <2>1, <2>2 DEF RequestInv, HandlerInv
  <2> QED
    BY <1>3, <2>1, <2>2, <2>3
<1>11. CASE Respond(h)
  <2>1. /\ at' = [at EXCEPT ![h] = "idle"]
        /\ reply' = [reply EXCEPT ![h] = NoReply]
        /\ request' = [request EXCEPT ![h] = NoRequest]
        /\ UNCHANGED counted
    BY <1>11 DEF Respond
  <2>2. /\ at' \in [Handler -> At] /\ at'[h] = "idle"
        /\ request' \in [Handler -> Request \cup {NoRequest}]
        /\ counted' \in [Handler -> Nat]
        /\ reply' \in [Handler -> Reply] /\ reply'[h] = NoReply
        /\ \A x \in Handler \ {h} : Kept(x)
    BY <1>1, <1>4, <2>1 DEF ServerTypeOK, At, Kept
  <2>3. RequestInv(h)'
    BY <2>2 DEF RequestInv, HandlerInv, ReplyAddsUp, NoReply
  <2> QED
    BY <1>2, <2>2, <2>3, RequestStep
<1> QED
  BY <1>5, <1>6, <1>7, <1>8, <1>9, <1>10, <1>11 DEF HandlerStep

LEMMA ReceiveKeepsInv ==
  ASSUME ServerInv, [ServerNext]_serverVars, NEW h \in Handler, NEW r \in Request, Receive(h, r)
  PROVE  ServerInv'
<1>1. ServerTypeOK /\ RequestInv(h) /\ storeOpen
  BY ServerParts DEF Receive
<1>2. /\ at' = [at EXCEPT ![h] = "received"]
      /\ request' = [request EXCEPT ![h] = r]
      /\ UNCHANGED <<web, storeOpen, counted, reply>> /\ at[h] = "idle"
  BY DEF Receive, queueVars
<1>3. /\ at' \in [Handler -> At] /\ at'[h] = "received"
      /\ request' \in [Handler -> Request \cup {NoRequest}] /\ request'[h] = r
      /\ counted' \in [Handler -> Nat] /\ reply' \in [Handler -> Reply]
      /\ \A x \in Handler \ {h} : Kept(x)
  BY <1>1, <1>2 DEF ServerTypeOK, At, Kept
<1>4. RequestInv(h)'
  BY <1>1, <1>2, <1>3 DEF RequestInv, HandlerInv, ReplyAddsUp
<1> QED
  BY <1>2, <1>3, <1>4, RequestStep

\* A step that is not about the requests: none is being served when the store
\* closes.
LEMMA BesideRequests ==
  ASSUME ServerInv, [ServerNext]_serverVars, UNCHANGED <<at, callVars>>,
         web' \in {"off", "listening", "failed", "draining"},
         web' # "off" => storeOpen',
         \A h \in Handler : at[h] = "idle" \/ storeOpen' = storeOpen
  PROVE  ServerInv'
<1>1. QueueInv' /\ QueueTypeOK'
  BY QueueStep
<1>2. \A h \in Handler : Kept(h)
  BY DEF Kept, callVars
<1>3. \A h \in Handler : RequestInv(h)'
  BY <1>2, KeptRequest
<1>4. ServerTypeOK'
  BY <1>1 DEF ServerInv, ServerTypeOK, callVars
<1> QED
  BY <1>1, <1>3, <1>4, ServerPartsNext

LEMMA DieKeepsInv ==
  ASSUME ServerInv, [ServerNext]_serverVars, Die
  PROVE  ServerInv'
<1>1. QueueInv' /\ QueueTypeOK'
  BY QueueStep
<1>2. NoReply \in Reply /\ NoReply.code = 0
  BY DEF NoReply, Reply
<1>3. ServerTypeOK'
  BY <1>1, <1>2 DEF Die, ServerTypeOK, At
<1>4. ASSUME NEW h \in Handler PROVE RequestInv(h)'
  <2>1. at'[h] = "idle" /\ reply'[h].code = 0
    BY <1>2 DEF Die
  <2> QED
    BY <2>1 DEF RequestInv, HandlerInv, ReplyAddsUp
<1>5. web' = "off"
  BY DEF Die
<1> QED
  BY <1>1, <1>3, <1>4, <1>5, ServerPartsNext

LEMMA ServerInvInit == ServerInit => ServerInv
<1> SUFFICES ASSUME ServerInit PROVE ServerInv
  OBVIOUS
<1>1. QueueInv /\ QueueTypeOK
  BY QueueInvInit DEF ServerInit, QueueInv
<1>2. NoReply \in Reply /\ NoReply.code = 0
  BY DEF NoReply, Reply
<1>3. ServerTypeOK
  BY <1>1, <1>2 DEF ServerInit, ServerTypeOK, At
<1>4. \A h \in Handler : at[h] = "idle" /\ reply[h].code = 0
  BY <1>2 DEF ServerInit
<1>5. \A h \in Handler : RequestInv(h)
  BY <1>4 DEF RequestInv, HandlerInv, ReplyAddsUp
<1> QED
  BY <1>1, <1>3, <1>5, ServerParts DEF ServerInit

LEMMA ServerInvNext == ServerInv /\ [ServerNext]_serverVars => ServerInv'
<1> SUFFICES ASSUME ServerInv, [ServerNext]_serverVars PROVE ServerInv'
  OBVIOUS
<1>1. /\ web \in {"off", "listening", "failed", "draining"}
      /\ web # "off" => storeOpen
      /\ \A h \in Handler : at[h] # "idle" => storeOpen
  BY DEF ServerInv, ServerTypeOK, StoreOpenWhileServed
<1>2. CASE Listen \/ ShutdownWeb \/ UNCHANGED serverVars
  <2>1. /\ UNCHANGED <<storeOpen, at, callVars>>
        /\ web' \in {"off", "listening", "failed", "draining"}
        /\ web' # "off" => storeOpen
    BY <1>1, <1>2 DEF Listen, ShutdownWeb, serverVars, queueVars, callVars
  <2> QED
    BY <2>1, BesideRequests
<1>3. CASE Exit
  <2>1. UNCHANGED <<at, callVars>> /\ web' = "off" /\ \A h \in Handler : at[h] = "idle"
    BY <1>3 DEF Exit
  <2> QED
    BY <2>1, BesideRequests
<1>4. CASE Beside
  <2>1. UNCHANGED <<web, at, callVars>>
    BY <1>4 DEF Beside
  <2>2. CASE web = "off" /\ Open
    <3>1. ~storeOpen /\ \A h \in Handler : at[h] = "idle"
      BY <1>1, <2>2 DEF Open
    <3> QED
      BY <1>1, <2>1, <2>2, <3>1, BesideRequests
  <2>3. CASE storeOpen' = storeOpen
    BY <1>1, <2>1, <2>3, BesideRequests
  <2>4. (web = "off" /\ Open) \/ storeOpen' = storeOpen
    BY <1>4 DEF Beside, Enqueue, WorkerStep, ClaimNext, RecordResult, RecordFails, Abandon,
                Cancel, OtherOpen
  <2> QED
    BY <2>2, <2>3, <2>4
<1>5. CASE Die
  BY <1>5, DieKeepsInv
<1>6. ASSUME NEW h \in Handler, HandlerStep(h) PROVE ServerInv'
  BY <1>6, HandlerStepKeepsInv
<1>7. ASSUME NEW h \in Handler, NEW r \in Request, Receive(h, r) PROVE ServerInv'
  BY <1>7, ReceiveKeepsInv
<1> QED
  BY <1>2, <1>3, <1>4, <1>5, <1>6, <1>7 DEF ServerNext

\* The inductive invariant of requests beside workers, commands and crashes
\* (server.go:35-149, main.go:299-324).
THEOREM ServerInvariance == ServerSpec => []ServerInv
<1> QED
  BY ServerInvInit, ServerInvNext, PTL DEF ServerSpec

\* No handler finds the queue closed: the server is shut down, and the requests
\* it is serving are waited for, before the queue is closed (main.go:303, 319-321).
THEOREM HandlersFindTheQueueOpen == ServerSpec => []StoreOpenWhileServed
<1>1. ServerInv => StoreOpenWhileServed
  BY DEF ServerInv
<1> QED
  BY <1>1, ServerInvariance, PTL

\* What a status says of the done jobs and of their savings fits together, though
\* jobs end between the two statements, if no other process makes the workers do
\* a done job again (queue.go:128-152, server.go:138-149).
THEOREM StatusAddsUp ==
  ASSUME ~OtherOpens
  PROVE  ServerSpec => []StatusIsConsistent
<1>1. ServerInv => StatusIsConsistent
  BY DEF ServerInv
<1> QED
  BY <1>1, ServerInvariance, PTL

-----------------------------------------------------------------------------
(* What is queued is what was imported.                                       *)

\* The file that an accepted request names has a row.
RowOf(h) == /\ MapToHostPath(request[h].path) \in DOMAIN FileAt
            /\ Seen(FileAt[MapToHostPath(request[h].path)])

AcceptedHasRow == \A h \in Handler : reply[h].code = 202 => RowOf(h)

LEMMA RowOfStays ==
  ASSUME ServerInv, [ServerNext]_serverVars, NEW h \in Handler, RowOf(h),
         request'[h] = request[h]
  PROVE  RowOf(h)'
<1> DEFINE host == MapToHostPath(request[h].path)
<1>1. QueueInv /\ [QueueNext]_queueVars
  BY StepOfQueue DEF ServerInv
<1>2. MapToHostPath(request'[h].path) = host
  OBVIOUS
<1>3. \A k : Seen(k) => Seen(k)'
  BY <1>1, SeenStays
<1> QED
  BY <1>2, <1>3 DEF RowOf

LEMMA EnqueuedHasRow ==
  ASSUME ServerInv, NEW h \in Handler, EnqueueFile(h)
  PROVE  RowOf(h)'
<1> DEFINE host == MapToHostPath(request[h].path)
           k    == FileAt[host]
<1>1. /\ host \in DOMAIN FileAt /\ jobs' = Inserted(k) /\ request' = request
  BY DEF EnqueueFile, Enqueue
<1>2. k \in Key /\ jobs \in Seq(Job)
  BY <1>1, FileAtAssumption DEF ServerInv, QueueInv, QueueTypeOK
<1>3. ASSUME NEW c \in Key, jobs' = Inserted(c) PROVE \E n \in DOMAIN jobs' : jobs'[n].key = c
  <2>1. CASE Seen(c)
    <3>1. jobs' = jobs
      BY <1>3, <2>1 DEF Inserted
    <3> QED
      BY <2>1, <3>1 DEF Seen, Rows
  <2>2. CASE ~Seen(c)
    <3>1. \E n \in DOMAIN jobs' : jobs'[n] = [key |-> c, status |-> "pending"]
      BY <1>2, <1>3, <2>2, InsertedRow
    <3> QED
      BY <3>1
  <2> QED
    BY <2>1, <2>2
<1>4. \E n \in DOMAIN jobs' : jobs'[n].key = k
  <2> HIDE DEF k
  <2> QED
    BY <1>1, <1>2, <1>3
<1> QED
  BY <1>1, <1>4 DEF RowOf, Seen, Rows

LEMMA AcceptedNext ==
  ServerInv /\ AcceptedHasRow /\ [ServerNext]_serverVars => AcceptedHasRow'
<1> SUFFICES ASSUME ServerInv, AcceptedHasRow, [ServerNext]_serverVars,
                    NEW h \in Handler, reply'[h].code = 202
             PROVE  RowOf(h)'
  BY DEF AcceptedHasRow
<1>1. ServerTypeOK
  BY DEF ServerInv
<1>2. CASE reply'[h] = reply[h] /\ request'[h] = request[h]
  BY <1>2, RowOfStays DEF AcceptedHasRow
<1>3. ASSUME NEW x \in Handler, EnqueueFile(x) PROVE RowOf(h)'
  <2>1. CASE x = h
    BY <1>3, <2>1, EnqueuedHasRow
  <2>2. CASE x # h
    <3>1. reply'[h] = reply[h] /\ request'[h] = request[h]
      BY <1>1, <1>3, <2>2 DEF EnqueueFile, Answer, ServerTypeOK
    <3> QED
      BY <1>2, <3>1
  <2> QED
    BY <2>1, <2>2
<1>4. ASSUME NEW x \in Handler, NEW r, r.code # 202, Answer(x, r), UNCHANGED request
      PROVE  RowOf(h)'
  <2>1. x # h
    BY <1>1, <1>4 DEF Answer, ServerTypeOK
  <2>2. reply'[h] = reply[h] /\ request'[h] = request[h]
    BY <1>1, <1>4, <2>1 DEF Answer, ServerTypeOK
  <2> QED
    BY <1>2, <2>2
<1>5. ASSUME NEW x \in Handler, Refuse(x) PROVE RowOf(h)'
  <2> DEFINE r == [NoReply EXCEPT !.code = Refusal(request[x])]
  <2>1. r.code # 202
    BY DEF NoReply, Refusal
  <2>2. Answer(x, r) /\ UNCHANGED request
    BY <1>5 DEF Refuse
  <2> HIDE DEF r
  <2> QED
    BY <1>4, <2>1, <2>2
<1>6. ASSUME NEW x \in Handler, EnqueueFails(x) PROVE RowOf(h)'
  <2> DEFINE r == [NoReply EXCEPT !.code = 422]
  <2>1. r.code # 202
    BY DEF NoReply
  <2>2. Answer(x, r) /\ UNCHANGED request
    BY <1>6 DEF EnqueueFails
  <2> HIDE DEF r
  <2> QED
    BY <1>4, <2>1, <2>2
<1>7. ASSUME NEW x \in Handler, ReadBytes(x) PROVE RowOf(h)'
  <2> DEFINE r == Summary(counted[x], Cardinality(Done))
  <2>1. r.code # 202
    BY DEF Summary
  <2>2. Answer(x, r) /\ UNCHANGED request
    BY <1>7 DEF ReadBytes
  <2> HIDE DEF r
  <2> QED
    BY <1>4, <2>1, <2>2
<1>8. ASSUME NEW x \in Handler, SummarizeFails(x) PROVE RowOf(h)'
  <2> DEFINE r == [NoReply EXCEPT !.code = 500]
  <2>1. r.code # 202
    BY DEF NoReply
  <2>2. Answer(x, r) /\ UNCHANGED request
    BY <1>8 DEF SummarizeFails
  <2> HIDE DEF r
  <2> QED
    BY <1>4, <2>1, <2>2
<1>9. NoReply.code = 0
  BY DEF NoReply
<1>10. ASSUME NEW x \in Handler, Respond(x) PROVE RowOf(h)'
  <2>1. x # h
    BY <1>1, <1>9, <1>10 DEF Respond, ServerTypeOK
  <2>2. reply'[h] = reply[h] /\ request'[h] = request[h]
    BY <1>1, <1>10, <2>1 DEF Respond, ServerTypeOK
  <2> QED
    BY <1>2, <2>2
<1>11. ASSUME NEW x \in Handler, Dispatch(x) \/ ReadCounts(x) PROVE RowOf(h)'
  BY <1>2, <1>11 DEF Dispatch, ReadCounts, callVars
<1>12. ASSUME NEW x \in Handler, NEW r \in Request, Receive(x, r) PROVE RowOf(h)'
  <2>1. x # h
    <3>1. at[x] = "idle" /\ reply' = reply
      BY <1>12 DEF Receive
    <3>2. reply[x].code # 0 => at[x] = "answered"
      BY DEF ServerInv, HandlerInv
    <3> QED
      BY <3>1, <3>2
  <2>2. reply'[h] = reply[h] /\ request'[h] = request[h]
    BY <1>1, <1>12, <2>1 DEF Receive, ServerTypeOK
  <2> QED
    BY <1>2, <2>2
<1>13. CASE Die
  BY <1>9, <1>13 DEF Die
<1>14. CASE Listen \/ ShutdownWeb \/ Exit \/ Beside \/ UNCHANGED serverVars
  BY <1>2, <1>14 DEF Listen, ShutdownWeb, Exit, Beside, callVars, serverVars
<1> QED
  BY <1>3, <1>5, <1>6, <1>7, <1>8, <1>10, <1>11, <1>12, <1>13, <1>14
     DEF ServerNext, HandlerStep

LEMMA AcceptedInvariant == ServerSpec => []AcceptedHasRow
<1>1. ServerInit => AcceptedHasRow
  BY DEF ServerInit, AcceptedHasRow, NoReply
<1> QED
  BY <1>1, AcceptedNext, ServerInvariance, PTL DEF ServerSpec

\* The file queued for a request is the file that was imported, for every mapping
\* that is listed the most specific first: where the first match ends with one of
\* the path's components. The code does not look for that: it takes
\* /data/movies2 to lie under /data/movies (server.go:127-136).
THEOREM QueuedFilesAreImported ==
  ASSUME \A r \in Request : ComponentsMatch(r.path)
  PROVE  ServerSpec => []QueuedIsImported
<1>1. ServerInv /\ AcceptedHasRow => QueuedIsImported
  <2> SUFFICES ASSUME ServerInv, AcceptedHasRow, NEW h \in Handler, reply[h].code = 202
               PROVE  /\ Denoted(request[h].path) \in DOMAIN FileAt
                      /\ Seen(FileAt[Denoted(request[h].path)])
    BY DEF QueuedIsImported
  <2>1. request[h] \in Request
    BY DEF ServerInv, HandlerInv
  <2>2. MapToHostPath(request[h].path) = Denoted(request[h].path)
    BY <2>1, RequestAssumption, MapsWhereDenoted
  <2> QED
    BY <2>2 DEF AcceptedHasRow, RowOf
<1> QED
  BY <1>1, ServerInvariance, AcceptedInvariant, PTL
=============================================================================
