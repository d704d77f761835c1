-------------------------------- MODULE Server --------------------------------
(***************************************************************************)
(* internal/server and what main's `serve` does around it: HTTP handlers,   *)
(* each a goroutine of its own, use the queue beside the workers; when the  *)
(* daemon stops, the server is shut down before the queue is closed.        *)
(*                                                                          *)
(* The table and its other users are Queue's. A path is a sequence of       *)
(* pieces of text, cut wherever some prefix of a mapping ends; a piece that *)
(* does not begin with a slash goes on with a name.                         *)
(***************************************************************************)
EXTENDS Queue, FiniteSets, SequencesExt

CONSTANTS
  Handler,       \* requests served at the same time
  Request,       \* the requests that may arrive
  WebhookToken,  \* the configured token, NoToken when there is none
  NoToken,
  PathMappings,  \* the configured prefixes: a sequence of [from, to]
  Continuation,  \* the pieces that go on with a name
  FileAt,        \* FileAt[path]: the file version a stat of the host path finds
  Locked         \* may a handler's statement fail, the database being locked?

Under(path, dir) == /\ IsPrefix(dir, path)
                    /\ Len(path) > Len(dir) => path[Len(dir) + 1] \notin Continuation

\* The code takes the first mapping that matches, and matches text: the most
\* specific one has to be listed first.
ASSUME MappingAssumption ==
  /\ PathMappings \in Seq([from : Seq(STRING), to : Seq(STRING)])
  /\ \A i, j \in DOMAIN PathMappings :
        i < j => ~IsPrefix(PathMappings[i].from, PathMappings[j].from)
ASSUME RequestAssumption == \A r \in Request : r.path \in Seq(STRING)
ASSUME FileAtAssumption  == \A host \in DOMAIN FileAt : FileAt[host] \in Key
ASSUME LockedAssumption == Locked \in BOOLEAN

VARIABLES
  web,      \* the HTTP server: "off", "listening", "failed" or "draining"
  at,       \* where in its handler a request is
  request,  \* the request
  counted,  \* the number of done jobs that GET /status has read
  reply     \* the answer

serverVars == <<queueVars, web, at, request, counted, reply>>
callVars   == <<request, counted, reply>>

At == {"idle", "received", "enqueue", "counts", "bytes", "answered"}

NoRequest == <<>>
Reply   == [code : {0, 200, 202, 400, 401, 422, 500}, queued : BOOLEAN,
            done : Nat, saved : Nat]
NoReply == [code |-> 0, queued |-> FALSE, done |-> 0, saved |-> 0]
Summary(n, bytes) == [code |-> 200, queued |-> FALSE, done |-> n, saved |-> bytes]
Done    == {i \in Rows : jobs[i].status = "done"}

ServerInit == /\ QueueInit
              /\ web = "off"
              /\ at = [h \in Handler |-> "idle"]
              /\ request = [h \in Handler |-> NoRequest]
              /\ counted = [h \in Handler |-> 0]
              /\ reply = [h \in Handler |-> NoReply]

-----------------------------------------------------------------------------
\* A token is presented as the basic-auth password or in a header.
Admitted(r) == \/ r.endpoint = "/status"
               \/ WebhookToken = NoToken
               \/ WebhookToken \in {r.password, r.header}

\* A body: an event and the path of the imported file, <<>> when there is none,
\* or nothing that can be decoded. Only /webhook looks at the event.
Refusal(r) ==
  CASE ~Admitted(r)                                          -> 401
    [] Admitted(r) /\ r.event = "garbled"                    -> 400
    [] Admitted(r) /\ r.endpoint = "/webhook"
         /\ r.event \notin {"garbled", "Download"}           -> 200
    [] OTHER                                                 -> 400

Acceptable(r) == /\ Admitted(r)
                 /\ r.event # "garbled" /\ r.path # <<>>
                 /\ r.endpoint = "/webhook" => r.event = "Download"

\* Mutant: the last mapping that matches.
LastMatch(path) == {i \in DOMAIN PathMappings : IsPrefix(PathMappings[i].from, path)
                      /\ \A j \in DOMAIN PathMappings :
                           j > i => ~IsPrefix(PathMappings[j].from, path)}

\* The index of the first mapping that matches, if any does.
FirstMatch(path) == {i \in DOMAIN PathMappings : IsPrefix(PathMappings[i].from, path)
                      /\ \A j \in DOMAIN PathMappings :
                           j < i => ~IsPrefix(PathMappings[j].from, path)}

MapToHostPath(path) ==
  IF FirstMatch(path) = {} THEN path
  ELSE LET m == PathMappings[CHOOSE i \in FirstMatch(path) : TRUE]
       IN m.to \o SubSeq(path, Len(m.from) + 1, Len(path))

-----------------------------------------------------------------------------
Answer(h, r) == /\ at' = [at EXCEPT ![h] = "answered"]
                /\ reply' = [reply EXCEPT ![h] = r]

Listen == /\ storeOpen /\ web = "off"
          /\ web' \in {"listening", "failed"}
          /\ UNCHANGED <<queueVars, at, callVars>>

Receive(h, r) ==
  /\ web = "listening" /\ at[h] = "idle"
  /\ at' = [at EXCEPT ![h] = "received"]
  /\ request' = [request EXCEPT ![h] = r]
  /\ UNCHANGED <<queueVars, web, counted, reply>>

\* requireToken, and what the two POST handlers make of the body.
Refuse(h) ==
  /\ at[h] = "received" /\ request[h].endpoint # "/status"
  /\ ~Acceptable(request[h])
  /\ Answer(h, [NoReply EXCEPT !.code = Refusal(request[h])])
  /\ UNCHANGED <<queueVars, web, request, counted>>

Dispatch(h) ==
  /\ at[h] = "received"
  /\ \/ request[h].endpoint = "/status" /\ at' = [at EXCEPT ![h] = "counts"]
     \/ request[h].endpoint # "/status" /\ Acceptable(request[h])
        /\ at' = [at EXCEPT ![h] = "enqueue"]
  /\ UNCHANGED <<queueVars, web, callVars>>

\* Store.Enqueue inserts, or finds the version known: 202 either way.
EnqueueFile(h) ==
  LET host == MapToHostPath(request[h].path)
  IN /\ at[h] = "enqueue" /\ host \in DOMAIN FileAt
     /\ Enqueue(FileAt[host])
     /\ Answer(h, [code |-> 202, queued |-> ~Seen(FileAt[host]), done |-> 0, saved |-> 0])
     /\ UNCHANGED <<web, request, counted>>

\* The file cannot be stat'ed, or the store is busy or closed.
EnqueueFails(h) ==
  /\ at[h] = "enqueue"
  /\ MapToHostPath(request[h].path) \notin DOMAIN FileAt \/ Locked \/ ~storeOpen
  /\ Answer(h, [NoReply EXCEPT !.code = 422])
  /\ UNCHANGED <<queueVars, web, request, counted>>

\* Summarize: the jobs per status, then the bytes saved by the done ones (here
\* their number), in two statements.
ReadCounts(h) ==
  /\ at[h] = "counts" /\ storeOpen
  /\ counted' = [counted EXCEPT ![h] = Cardinality(Done)]
  /\ at' = [at EXCEPT ![h] = "bytes"]
  /\ UNCHANGED <<queueVars, web, request, reply>>

\* Mutant: the two statements in the other order.
ReadCountsLast(h) ==
  /\ at[h] = "bytes" /\ storeOpen
  /\ Answer(h, Summary(Cardinality(Done), counted[h]))
  /\ counted' = [counted EXCEPT ![h] = 0]
  /\ UNCHANGED <<queueVars, web, request>>

ReadBytes(h) ==
  /\ at[h] = "bytes" /\ storeOpen
  /\ Answer(h, Summary(counted[h], Cardinality(Done)))
  /\ counted' = [counted EXCEPT ![h] = 0]
  /\ UNCHANGED <<queueVars, web, request>>

SummarizeFails(h) ==
  /\ at[h] \in {"counts", "bytes"} /\ (Locked \/ ~storeOpen)
  /\ Answer(h, [NoReply EXCEPT !.code = 500])
  /\ counted' = [counted EXCEPT ![h] = 0]
  /\ UNCHANGED <<queueVars, web, request>>

\* The client has the answer and the connection is idle.
Respond(h) ==
  /\ at[h] = "answered"
  /\ at' = [at EXCEPT ![h] = "idle"]
  /\ reply' = [reply EXCEPT ![h] = NoReply]
  /\ request' = [request EXCEPT ![h] = NoRequest]
  /\ UNCHANGED <<queueVars, web, counted>>

-----------------------------------------------------------------------------
\* Mutant: the workers go on until the queue is empty.
ShutdownWhenEmpty ==
  /\ storeOpen /\ cancelled /\ web # "draining"
  /\ Pending = {}
  /\ \A w \in Worker : ~Holding(w)
  /\ web' = "draining"
  /\ UNCHANGED <<queueVars, at, callVars>>

\* Run has returned and main calls web.Shutdown, which closes the listener.
ShutdownWeb ==
  /\ storeOpen /\ cancelled /\ web # "draining"
  /\ \A w \in Worker : ~Holding(w)
  /\ web' = "draining"
  /\ UNCHANGED <<queueVars, at, callVars>>

\* Mutant: web.Close in the place of web.Shutdown, which waits for no handler.
ExitAtOnce ==
  /\ web = "draining"
  /\ Close
  /\ web' = "off"
  /\ UNCHANGED <<at, callVars>>

\* Shutdown returns when no request is being served; the deferred Close runs.
Exit ==
  /\ web = "draining"
  /\ \A h \in Handler : at[h] = "idle"
  /\ Close
  /\ web' = "off"
  /\ UNCHANGED <<at, callVars>>

Die ==
  /\ Crash
  /\ web' = "off"
  /\ at' = [h \in Handler |-> "idle"]
  /\ request' = [h \in Handler |-> NoRequest]
  /\ counted' = [h \in Handler |-> 0]
  /\ reply' = [h \in Handler |-> NoReply]

HandlerStep(h) == \/ Refuse(h) \/ Dispatch(h)
                  \/ EnqueueFile(h) \/ EnqueueFails(h)
                  \/ ReadCounts(h) \/ ReadBytes(h) \/ SummarizeFails(h)
                  \/ Respond(h)

\* What the rest of the daemon and other processes do to the table.
Beside == /\ \/ web = "off" /\ Open
             \/ \E k \in Key : Enqueue(k)
             \/ \E w \in Worker : WorkerStep(w)
             \/ Cancel
             \/ OtherOpen
          /\ UNCHANGED <<web, at, callVars>>

ServerNext == \/ Listen
              \/ \E h \in Handler : (\E r \in Request : Receive(h, r)) \/ HandlerStep(h)
              \/ ShutdownWeb
              \/ Exit
              \/ Die
              \/ Beside

ServerSpec == ServerInit /\ [][ServerNext]_serverVars

CallReturns(w) == (\E outcome \in Ended : RecordResult(w, outcome)) \/ Abandon(w)

\* Handlers run on and clients read their answers; a worker's call returns also
\* after a cancellation; main goes on when Run and Shutdown return.
ServerFairness ==
  /\ \A h \in Handler : WF_serverVars(HandlerStep(h))
  /\ \A w \in Worker : /\ WF_serverVars(ClaimNext(w) /\ UNCHANGED <<web, at, callVars>>)
                       /\ WF_serverVars(CallReturns(w) /\ UNCHANGED <<web, at, callVars>>)
  /\ WF_serverVars(ShutdownWeb)
  /\ WF_serverVars(Exit)

FairServerSpec == ServerSpec /\ ServerFairness

-----------------------------------------------------------------------------
ServerTypeOK ==
  /\ QueueTypeOK
  /\ web \in {"off", "listening", "failed", "draining"}
  /\ at \in [Handler -> At]
  /\ request \in [Handler -> Request \cup {NoRequest}]
  /\ counted \in [Handler -> Nat]
  /\ reply \in [Handler -> Reply]

\* No handler finds the queue closed: main shuts the server down, and waits for
\* the requests being served, between the workers' return and the deferred
\* Close (main.go:303, 319-321).
StoreOpenWhileServed == \A h \in Handler : at[h] # "idle" => storeOpen

\* The jobs a status reports as done are among those whose savings it reports,
\* although jobs end between its two statements (queue.go:128-152).
StatusIsConsistent ==
  \A h \in Handler : reply[h].code = 200 => reply[h].done <= reply[h].saved

\* Where docker's mounts, which the mappings repeat, put a container's path: under
\* the deepest directory it lies in.
Denoted(path) ==
  LET over == {i \in DOMAIN PathMappings : Under(path, PathMappings[i].from)}
  IN IF over = {} THEN path
     ELSE LET m == PathMappings[CHOOSE i \in over :
                     \A j \in over : Len(PathMappings[j].from) <= Len(PathMappings[i].from)]
          IN m.to \o SubSeq(path, Len(m.from) + 1, Len(path))

\* The file that is queued is the file that Sonarr or Radarr imported
\* (server.go:127 "as the dockerized *arr stack sees it into this host's view").
QueuedIsImported ==
  \A h \in Handler : reply[h].code = 202 =>
     /\ Denoted(request[h].path) \in DOMAIN FileAt
     /\ Seen(FileAt[Denoted(request[h].path)])

\* A cancelled daemon stops: workers, handlers, main and the store do not wait for
\* one another in a circle (main.go:318-321).
ServeEnds == (storeOpen /\ cancelled) ~> ~storeOpen

-----------------------------------------------------------------------------
(* The inductive invariant.                                                  *)

\* A request is there until it is answered, an answer until it is sent; and what
\* a status has counted is still done when it adds up the savings, as long as no
\* other process makes the workers do a job twice.
HandlerInv(h) ==
  /\ at[h] # "idle" => request[h] \in Request
  /\ reply[h].code # 0 => at[h] = "answered"
  /\ (~OtherOpens /\ at[h] = "bytes") => counted[h] <= Cardinality(Done)

ServerInv ==
  /\ ServerTypeOK
  /\ QueueInv
  /\ StoreOpenWhileServed
  /\ web # "off" => storeOpen
  /\ \A h \in Handler : HandlerInv(h)
  /\ ~OtherOpens => StatusIsConsistent
=============================================================================
