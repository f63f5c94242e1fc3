------------------------------- MODULE Proxy -------------------------------
(***************************************************************************)
(* The attempt-bound responses proxy (attempt_responses_proxy.py): one     *)
(* host process forwards the requests of one attempt, one at a time, to a  *)
(* metered upstream.  Each request is a chain of ledger transactions with  *)
(* effects between them: a credentialed worker process sends the bytes,    *)
(* events are streamed to the child, the completion is withheld until it   *)
(* is durable.  The process may be lost anywhere; recovery works from a    *)
(* receipt of its death and the rows alone.                                *)
(***************************************************************************)
EXTENDS Integers, Sequences, FiniteSets

CONSTANTS
    MaxRequests,    \* contract.max_requests
    TokenLimit,     \* contract.max_total_tokens
    MaxReserve,     \* bound: the tokens one request may reserve
    Receipts        \* terminal receipts of the proxy process

ASSUME ProxyAssumption == MaxRequests \in Nat /\ TokenLimit \in Nat /\ MaxReserve \in Nat

VARIABLES
    proxy,      \* executor_attempt_response_proxies, the row
    reqs,       \* executor_attempt_response_requests, by sequence
    pc,         \* the step of the proxy process; "lost" once it died
    worker,     \* the request whose credentialed worker is alive, or 0
    opened,     \* what the worker answered to the open
    sse,        \* SSECompletionTracker: how far the event stream got
    prev,       \* _host_previous_response_id: the request it came from, or 0
    wire,       \* requests with bytes on the wire, and the predecessor sent
    child       \* requests whose completion reached the child

rows == <<proxy, reqs>>
vars == <<proxy, reqs, pc, worker, opened, sse, prev, wire, child>>

None == "none"
Ids == 1..MaxRequests
TerminalRequest == {"COMPLETE", "SAFE_NOT_SENT", "AMBIGUOUS", "FAILED"}
ActiveRequest == {"CREATED", "UPSTREAM_STARTED", "STREAMING"}
Unopened == [sent |-> FALSE, stream |-> FALSE, status |-> 0, bound |-> FALSE]
Answers == [sent : BOOLEAN, stream : BOOLEAN, status : {0, 200, 500}, bound : BOOLEAN]
n == Len(reqs)
At(step) == pc = step

Init ==
    /\ proxy = [state |-> "ABSENT", bound |-> FALSE, receipt |-> None, tokens |-> 0]
    /\ reqs = << >> /\ pc = "register" /\ worker = 0 /\ opened = Unopened
    /\ sse = None /\ prev = 0 /\ child = {}
    /\ wire = [i \in Ids |-> [sent |-> FALSE, prev |-> 0]]

-----------------------------------------------------------------------------
(* The ledger's updates.                                                    *)

\* Mutant: an unknown outcome does not hold the proxy.
UnheldProxy == proxy

HeldProxy == [proxy EXCEPT !.state = IF @ \in {"READY", "RUNNING"} THEN "HOLD" ELSE @]

\* transition_request: an ambiguous request holds its proxy in the same
\* transaction; a safe one needs recorded evidence of zero bytes.
Transition(s) ==
    /\ s = "SAFE_NOT_SENT" => reqs[n].evidence = "zero"
    /\ reqs' = [reqs EXCEPT ![n].state = s]
    /\ proxy' = IF s = "AMBIGUOUS" THEN HeldProxy ELSE proxy

\* How an exception settles the request: only CREATED proves nothing was sent.
Settle == Transition(IF reqs[n].state = "CREATED" THEN "FAILED" ELSE "AMBIGUOUS")

-----------------------------------------------------------------------------
(* start(): three transactions.                                             *)

Register ==
    /\ At("register") /\ pc' = "activate"
    /\ proxy' = [proxy EXCEPT !.state = "READY"]
    /\ UNCHANGED <<reqs, worker, opened, sse, prev, wire, child>>

Activate ==
    /\ At("activate") /\ pc' = "bind"
    /\ proxy' = [proxy EXCEPT !.state = "RUNNING"]
    /\ UNCHANGED <<reqs, worker, opened, sse, prev, wire, child>>

BindProcessIdentity ==
    /\ At("bind") /\ pc' = "idle"
    /\ proxy.state = "RUNNING" /\ ~proxy.bound
    /\ proxy' = [proxy EXCEPT !.bound = TRUE]
    /\ UNCHANGED <<reqs, worker, opened, sse, prev, wire, child>>

-----------------------------------------------------------------------------
(* handle_raw_request: one request.                                         *)

BeginRequest ==
    /\ At("idle") /\ pc' = "parse"
    /\ proxy.state = "RUNNING" /\ n < MaxRequests
    /\ \A i \in DOMAIN reqs : reqs[i].state \notin ActiveRequest
    /\ reqs' = Append(reqs, [state |-> "CREATED", reserved |-> 0, evidence |-> None,
                             prepared |-> FALSE, tokens |-> 0])
    /\ opened' = Unopened /\ sse' = None
    /\ UNCHANGED <<proxy, worker, prev, wire, child>>

\* parse_http_request: framing, size, headers; a malformed request has failed.
Parse ==
    /\ At("parse")
    /\ \/ pc' = "policy" /\ UNCHANGED rows
       \/ pc' = "idle" /\ Transition("FAILED")
    /\ UNCHANGED <<worker, opened, sse, prev, wire, child>>

\* _prepare_upstream_request: fields, input, tools, output limit, wall timeout.
Reject ==
    /\ At("policy") /\ pc' = "idle"
    /\ Transition("FAILED")
    /\ UNCHANGED <<worker, opened, sse, prev, wire, child>>

ReserveBudget(k) ==
    /\ At("policy")
    /\ reqs[n].state = "CREATED" /\ reqs[n].reserved = 0 /\ proxy.state = "RUNNING"
    /\ IF proxy.tokens + k > TokenLimit
       THEN Transition("FAILED") /\ pc' = "idle"
       ELSE /\ reqs' = [reqs EXCEPT ![n].reserved = k]
            /\ pc' = "reserved" /\ UNCHANGED proxy
    /\ UNCHANGED <<worker, opened, sse, prev, wire, child>>

StartUpstream ==
    /\ At("reserved") /\ pc' = "open"
    /\ Transition("UPSTREAM_STARTED")
    /\ UNCHANGED <<worker, opened, sse, prev, wire, child>>

\* The worker is spawned with the request; from here it acts on its own.
OpenWorker ==
    /\ At("open") /\ pc' = "opening"
    /\ worker' = n
    /\ UNCHANGED <<rows, opened, sse, prev, wire, child>>

WorkerSends ==
    /\ worker # 0 /\ ~wire[worker].sent /\ opened = Unopened
    /\ wire' = [wire EXCEPT ![worker] = [sent |-> TRUE, prev |-> prev]]
    /\ UNCHANGED <<rows, pc, worker, opened, sse, prev, child>>

\* The worker's own account of the open; without a stream it has ended.
WorkerAnswers(a) ==
    /\ At("opening") /\ opened = Unopened
    /\ a.sent = wire[n].sent /\ (a.stream = (a.status # 0))
    /\ opened' = a /\ pc' = "opened"
    /\ worker' = IF a.stream THEN worker ELSE 0
    /\ UNCHANGED <<rows, sse, prev, wire, child>>

\* Mutant: the answer is given up on, the worker is not.
OpenFailsLax ==
    /\ pc \in {"open", "opening"} /\ pc' = "idle" /\ Settle
    /\ UNCHANGED <<worker, opened, sse, prev, wire, child>>

\* No usable answer in time: the worker is killed and proven dead first.
OpenFails ==
    /\ pc \in {"open", "opening"} /\ pc' = "idle"
    /\ worker' = 0 /\ Settle
    /\ UNCHANGED <<opened, sse, prev, wire, child>>

\* The evidence is durable before it is interpreted.
RecordSendEvidence ==
    /\ At("opened")
    /\ IF opened.bound
       THEN /\ reqs' = [reqs EXCEPT ![n].evidence = IF opened.sent THEN "bytes" ELSE "zero"]
            /\ pc' = "recorded" /\ UNCHANGED proxy
       ELSE Settle /\ pc' = "close"
    /\ UNCHANGED <<worker, opened, sse, prev, wire, child>>

\* 0 bytes is safe; a status other than 200 fails and holds; a conflict, a wrong
\* content type or a head the child does not take is ambiguous.
Interpret ==
    /\ At("recorded")
    /\ \/ /\ ~opened.sent /\ ~opened.stream
          /\ Transition("SAFE_NOT_SENT") /\ pc' = "idle"
       \/ /\ opened.sent /\ opened.stream /\ opened.status # 200
          /\ Transition("FAILED") /\ pc' = "hold"
       \/ /\ opened.sent = opened.stream => opened.status = 200
          /\ Settle /\ pc' = "close"
       \/ /\ opened.sent /\ opened.status = 200
          /\ pc' = "stream" /\ UNCHANGED rows
    /\ UNCHANGED <<worker, opened, sse, prev, wire, child>>

HoldProxy ==
    /\ At("hold") /\ pc' = "close"
    /\ proxy' = HeldProxy
    /\ UNCHANGED <<reqs, worker, opened, sse, prev, wire, child>>

\* SSECompletionTracker._consume_event: where an event leaves the stream.
Consume(event) ==
    CASE event = "created" /\ sse = None          -> "created"
      [] event = "delta" /\ sse = "created"       -> "created"
      [] event = "completed" /\ sse = "created"   -> "completed"
      [] event = "done" /\ sse = "completed"      -> "done"
      [] event = "failed" /\ sse = "created"      -> "failed"
      [] OTHER                                    -> "invalid"

\* One chunk with one event; the first makes the request STREAMING.
Receive(event) ==
    /\ At("stream")
    /\ LET next == Consume(event)
           s == IF next = "failed" THEN "FAILED"
                ELSE IF next = "invalid" THEN "AMBIGUOUS" ELSE "STREAMING"
       IN /\ Transition(s)
          /\ pc' = CASE s = "FAILED" -> "hold" [] s = "AMBIGUOUS" -> "close" [] OTHER -> "stream"
          /\ sse' = IF s = "STREAMING" THEN next ELSE sse
    /\ UNCHANGED <<worker, opened, prev, wire, child>>

\* The stream ends; it must have been completed.
EndOfStream ==
    /\ At("stream")
    /\ IF sse \in {"completed", "done"} THEN pc' = "finish" /\ UNCHANGED rows
       ELSE Settle /\ pc' = "close"
    /\ UNCHANGED <<worker, opened, sse, prev, wire, child>>

\* Idle or wall timeout, a chunk or response limit, a child that stopped reading.
StreamFails ==
    /\ At("stream") /\ pc' = "close"
    /\ Settle
    /\ UNCHANGED <<worker, opened, sse, prev, wire, child>>

\* Mutant: the usage reported is taken as it is.
PrepareUnchecked(used) ==
    /\ At("finish") /\ pc' = "prepared"
    /\ reqs[n].state = "STREAMING" /\ ~reqs[n].prepared
    /\ reqs' = [reqs EXCEPT ![n].prepared = TRUE, ![n].tokens = used]
    /\ proxy' = [proxy EXCEPT !.tokens = @ + used]
    /\ UNCHANGED <<worker, opened, sse, prev, wire, child>>

PrepareCompletion(used) ==
    /\ At("finish")
    /\ reqs[n].state = "STREAMING" /\ ~reqs[n].prepared
    /\ IF used > reqs[n].reserved \/ proxy.tokens + used > TokenLimit
       THEN Transition("FAILED") /\ pc' = "hold"
       ELSE /\ reqs' = [reqs EXCEPT ![n].prepared = TRUE, ![n].tokens = used]
            /\ proxy' = [proxy EXCEPT !.tokens = @ + used]
            /\ pc' = "prepared"
    /\ UNCHANGED <<worker, opened, sse, prev, wire, child>>

\* Mutant: the completion is shown first and finalized by a later call.
FinalizeLater ==
    /\ At("prepared") /\ pc' = "emit"
    /\ UNCHANGED <<rows, worker, opened, sse, prev, wire, child>>

FinalizePreparedCompletion ==
    /\ At("prepared") /\ pc' = "emit"
    /\ reqs[n].state = "STREAMING" /\ reqs[n].prepared
    /\ reqs' = [reqs EXCEPT ![n].state = "COMPLETE"]
    /\ UNCHANGED <<proxy, worker, opened, sse, prev, wire, child>>

\* Mutant: the response is remembered before it is delivered.
EmitEarly ==
    /\ At("emit") /\ pc' = "close" /\ prev' = n
    /\ \/ child' = child \cup {n} /\ UNCHANGED proxy
       \/ UNCHANGED <<proxy, child>>
    /\ UNCHANGED <<reqs, worker, opened, sse, wire>>

\* The withheld bytes: delivered, timed out (perhaps delivered later), or refused.
EmitCompletion ==
    /\ At("emit") /\ pc' = "close"
    /\ \/ child' = child \cup {n} /\ prev' = n /\ UNCHANGED proxy
       \/ child' \in {child, child \cup {n}} /\ proxy' = HeldProxy /\ UNCHANGED prev
       \/ UNCHANGED <<proxy, prev, child>>
    /\ UNCHANGED <<reqs, worker, opened, sse, wire>>

\* close_with_deadline, or else kill and verify.
CloseWorker ==
    /\ At("close") /\ pc' = "idle"
    /\ worker' = 0
    /\ UNCHANGED <<rows, opened, sse, prev, wire, child>>

CompleteProxy ==
    /\ At("idle") /\ pc' = "finished"
    /\ proxy.state = "RUNNING"
    /\ \A i \in DOMAIN reqs : reqs[i].state \notin ActiveRequest \cup {"AMBIGUOUS"}
    /\ proxy' = [proxy EXCEPT !.state = "COMPLETE"]
    /\ UNCHANGED <<reqs, worker, opened, sse, prev, wire, child>>

-----------------------------------------------------------------------------
(* The process ends or dies (a worker it cannot prove dead makes it exit);  *)
(* parent-death SIGKILL takes the worker with it.                           *)
ProcessLost ==
    /\ pc # "lost" /\ pc' = "lost" /\ worker' = 0
    /\ UNCHANGED <<rows, opened, sse, prev, wire, child>>

\* Mutant: a request without recorded evidence is taken for not sent.
RecoveredLax(q) ==
    IF q.state = "CREATED" \/ (q.state = "UPSTREAM_STARTED" /\ q.evidence = None)
    THEN [q EXCEPT !.state = "SAFE_NOT_SENT", !.evidence = "zero"] ELSE q

\* Mutant: whatever is not complete becomes ambiguous.
RecoveredAll(q) == [q EXCEPT !.state = IF @ = "COMPLETE" THEN @ ELSE "AMBIGUOUS"]

Recovered(q) ==
    CASE q.state = "CREATED" -> [q EXCEPT !.state = "SAFE_NOT_SENT",
                                          !.evidence = IF @ = None THEN "zero" ELSE @]
      [] q.state \in {"UPSTREAM_STARTED", "STREAMING"} -> [q EXCEPT !.state = "AMBIGUOUS"]
      [] OTHER -> q

\* recover_after_confirmed_process_loss: once terminal, a hold only takes its
\* first receipt.
Recover(r) ==
    /\ pc = "lost" /\ proxy.bound
    /\ \/ /\ proxy.state \in {"READY", "RUNNING"}
          /\ reqs' = [i \in DOMAIN reqs |-> Recovered(reqs[i])]
          /\ proxy' = [proxy EXCEPT !.state = "HOLD", !.receipt = r]
       \/ /\ proxy.state = "HOLD" /\ proxy.receipt = None
          /\ proxy' = [proxy EXCEPT !.receipt = r] /\ UNCHANGED reqs
    /\ UNCHANGED <<pc, worker, opened, sse, prev, wire, child>>

\* Nothing else is left to do once the process is gone and recovery has run, or
\* cannot: an identity that was never bound matches no receipt.
Rest ==
    /\ pc = "lost" /\ (~proxy.bound \/ proxy.receipt # None \/ proxy.state = "COMPLETE")
    /\ UNCHANGED vars

Handle ==
    \/ Register \/ Activate \/ BindProcessIdentity
    \/ Parse \/ Reject \/ (\E k \in 1..MaxReserve : ReserveBudget(k))
    \/ StartUpstream \/ OpenWorker \/ OpenFails
    \/ (\E a \in Answers : WorkerAnswers(a))
    \/ RecordSendEvidence \/ Interpret \/ HoldProxy
    \/ (\E e \in {"created", "delta", "completed", "done", "failed"} : Receive(e))
    \/ EndOfStream \/ StreamFails
    \/ (\E k \in 0..MaxReserve + 1 : PrepareCompletion(k))
    \/ FinalizePreparedCompletion \/ EmitCompletion \/ CloseWorker

Next ==
    \/ Handle
    \/ WorkerSends
    \/ BeginRequest \/ CompleteProxy
    \/ ProcessLost
    \/ \E r \in Receipts : Recover(r)
    \/ Rest

Spec == Init /\ [][Next]_vars

\* A request is bounded by deadlines, and the broker reports a lost process.
Progress == Parse \/ Reject \/ OpenFails \/ RecordSendEvidence \/ Interpret \/ HoldProxy \/ EndOfStream
            \/ StartUpstream \/ FinalizePreparedCompletion \/ EmitCompletion \/ CloseWorker
            \/ (\E k \in 0..MaxReserve + 1 : PrepareCompletion(k)) \/ StreamFails

FairSpec == Spec /\ WF_vars(Progress) /\ WF_vars(\E r \in Receipts : Recover(r))

-----------------------------------------------------------------------------
Steps == {"register", "activate", "bind", "idle", "parse", "policy", "reserved", "open", "opening",
          "opened", "recorded", "hold", "stream", "finish", "prepared", "emit", "close",
          "finished", "lost"}

TypeOK ==
    /\ proxy \in [state : {"ABSENT", "READY", "RUNNING", "HOLD", "COMPLETE"}, bound : BOOLEAN,
                  receipt : Receipts \cup {None}, tokens : 0..TokenLimit]
    /\ reqs \in Seq([state : TerminalRequest \cup ActiveRequest, reserved : 0..MaxReserve,
                     evidence : {None, "zero", "bytes"}, prepared : BOOLEAN,
                     tokens : 0..TokenLimit])
    /\ n <= MaxRequests
    /\ pc \in Steps /\ worker \in 0..MaxRequests
    /\ opened \in Answers /\ sse \in {None, "created", "completed", "done"}
    /\ prev \in 0..MaxRequests
    /\ wire \in [Ids -> [sent : BOOLEAN, prev : 0..MaxRequests]]
    /\ child \subseteq Ids

\* SAFE_NOT_SENT is what permits a replay: no byte of the request ever left the
\* host, whether the proxy, its evidence or the recovery of a lost process said so.
SafeMeansUnsent ==
    \A i \in DOMAIN reqs : reqs[i].state = "SAFE_NOT_SENT" => ~wire[i].sent

\* A request whose bytes left the host without a completion is the last one of
\* the attempt: nothing is forwarded on top of an outcome nobody knows.
NothingFollowsUnknown ==
    \A i \in DOMAIN reqs : i < n /\ wire[i].sent => reqs[i].state = "COMPLETE"

\* The child sees a completion only once COMPLETE is durable, so neither a write
\* timeout nor a crash turns a delivered success into a failed request.
DeliveredIsDurable == \A i \in child : i \in DOMAIN reqs /\ reqs[i].state = "COMPLETE"

\* Each forwarded request continues the last response the child was given: the
\* host's lineage and the child's never part.
LineageIsDelivered ==
    \A i \in Ids : wire[i].sent =>
        /\ wire[i].prev \in {0} \cup child
        /\ \A j \in child : j < i => j <= wire[i].prev

\* A credentialed worker never outlives the decision on its request.
NoWorkerAfterDecision ==
    worker # 0 => /\ worker = n
                  /\ pc \in {"opening", "opened", "recorded", "hold", "stream", "finish",
                             "prepared", "emit", "close"}

\* The tokens charged to requests, one by one.
Charged == UNION {{i} \X (1..reqs[i].tokens) : i \in DOMAIN reqs}

\* The proxy's spent tokens are those of its requests and never pass the limit,
\* although the actual usage arrives after the reservation was checked.
BudgetKept == proxy.tokens <= TokenLimit /\ proxy.tokens = Cardinality(Charged)

\* What a terminal row says is final: recovery and late handlers leave it alone.
TerminalIsFinal ==
    [][\A i \in DOMAIN reqs : reqs[i].state \in TerminalRequest =>
           reqs'[i].state = reqs[i].state]_vars

\* Every request that begins becomes terminal, if need be by recovery.
RequestEnds ==
    \A i \in Ids : (i <= n) ~> (i <= n /\ reqs[i].state \in TerminalRequest)

\* What the rows say of a request is what happened on the wire and at the child,
\* and it is charged once, whenever the host process is lost.
RequestsAccounted ==
    /\ SafeMeansUnsent /\ NothingFollowsUnknown /\ NoWorkerAfterDecision
    /\ DeliveredIsDurable /\ LineageIsDelivered /\ BudgetKept

\* Every request comes to an end, and to one end only.
RequestsSettle == TerminalIsFinal /\ RequestEnds
=============================================================================
