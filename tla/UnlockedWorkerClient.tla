------------------------ MODULE UnlockedWorkerClient ------------------------
(***************************************************************************)
(* The main-thread proxy of the model worker                               *)
(* (unlockedBrowserTransformerWorkerClient.ts) together with the worker it *)
(* talks to (unlockedTransformer.worker.ts).                               *)
(*                                                                         *)
(* Callers issue init, stream, clear and flush requests.  beginRequest     *)
(* makes them take turns on a chain of promises; the request at the head   *)
(* posts one message to the worker, whose operationQueue handles messages  *)
(* one by one and answers on a FIFO message port.  streamChat is an async  *)
(* generator: it is suspended either waiting for the worker ("parked") or  *)
(* at a yield, waiting for its consumer ("yielded").                       *)
(*                                                                         *)
(* A step of this module is one run-to-suspension of the JavaScript code:  *)
(* a message handler, or a function from one await or yield to the next.   *)
(* terminate() may come between any two of them.                           *)
(***************************************************************************)
EXTENDS Naturals, Sequences, FiniteSets

CONSTANTS
    Requests,   \* identities of the calls made on the client
    None,       \* "no request": the null of lastDecodeProof
    MaxChunks,  \* bound: chunks one generation produces
    MayCrash    \* whether the worker thread may die without a message

ASSUME NoneIsNoRequest == None \notin Requests
ASSUME ChunkBound == MaxChunks \in Nat
ASSUME CrashChoice == MayCrash \in BOOLEAN

VARIABLES
    \* The main thread.
    phase,       \* where each call stands
    kind,        \* which method each call is
    chain,       \* activeRequest: calls that began and have not released, in order
    pending,     \* keys of the pending map
    chunks,      \* PendingStream.chunks: received, not yet yielded
    ended,       \* PendingStream.done and .error
    delivered,   \* what the consumer of each stream has been given
    initialized,
    terminated,
    proof,       \* lastDecodeProof, named by the stream that produced it
    \* The port and the worker.
    inbox,       \* messages for the worker; the head is the running operation
    wire,        \* messages for the main thread
    client,      \* the worker's client: none, broken (init threw) or ready
    workerProof, \* client.lastDecodeProof inside the worker
    made,        \* chunks each stream has generated
    crashed

callVars   == <<phase, kind, chain>>
streamVars == <<chunks, ended, delivered>>
portVars   == <<inbox, wire>>
workerVars == <<client, workerProof, made, crashed>>
vars == <<callVars, pending, streamVars, initialized, terminated, proof,
          portVars, workerVars>>

Kinds   == {"init", "stream", "clear", "flush"}
Settled == {"ok", "failed", "abandoned"}
Serving == {"granted", "parked", "yielded"}
Phases  == {"idle", "waiting"} \cup Serving \cup Settled

Upto(n) == [i \in 1..n |-> i]

Messages ==
    [type : {"ready", "cleared", "flushed", "error", "chunk", "done"},
     id : Requests, n : 0..MaxChunks, proof : Requests \cup {None}]

Msg(type, r, n, p) == [type |-> type, id |-> r, n |-> n, proof |-> p]

Init ==
    /\ phase = [r \in Requests |-> "idle"]
    /\ kind = [r \in Requests |-> "init"]
    /\ chain = <<>>
    /\ pending = {}
    /\ chunks = [r \in Requests |-> <<>>]
    /\ ended = [r \in Requests |-> "no"]
    /\ delivered = [r \in Requests |-> <<>>]
    /\ initialized = FALSE
    /\ terminated = FALSE
    /\ proof = None
    /\ inbox = <<>>
    /\ wire = <<>>
    /\ client = "none"
    /\ workerProof = None
    /\ made = [r \in Requests |-> 0]
    /\ crashed = FALSE

-----------------------------------------------------------------------------
(* beginRequest: take a place on the chain, or throw at once.              *)

Refused(k) == terminated \/ (k = "stream" /\ ~initialized)

Call(r) ==
    \E k \in Kinds :
        /\ phase[r] = "idle"
        /\ kind' = [kind EXCEPT ![r] = k]
        /\ \/ /\ Refused(k)
              /\ phase' = [phase EXCEPT ![r] = "failed"]
              /\ UNCHANGED chain
           \/ /\ ~Refused(k)
              /\ phase' = [phase EXCEPT ![r] = "waiting"]
              /\ chain' = Append(chain, r)
        /\ UNCHANGED <<pending, streamVars, initialized, terminated, proof,
                       portVars, workerVars>>

\* Mutant: no waiting for the predecessor.
PassAnytime(r) == chain # <<>>

\* The predecessor's release lets its successor through.
CanPass(r) == chain # <<>> /\ Head(chain) = r

\* `await previous` resumes; a client terminated meanwhile releases and throws.
Grant(r) ==
    /\ phase[r] = "waiting"
    /\ CanPass(r)
    /\ \/ /\ terminated
          /\ phase' = [phase EXCEPT ![r] = "failed"]
          /\ chain' = Tail(chain)
       \/ /\ ~terminated
          /\ phase' = [phase EXCEPT ![r] = "granted"]
          /\ UNCHANGED chain
    /\ UNCHANGED <<kind, pending, streamVars, initialized, terminated, proof,
                   portVars, workerVars>>

\* The place on the chain a throwing nextRequestId() gives back: streamChat
\* calls it before its try block and so never releases.
ChainAfterThrow(r) == IF kind[r] = "stream" THEN chain ELSE Tail(chain)

\* The caller resumes one microtask after Grant, draws an id and posts.
Post(r) ==
    /\ phase[r] = "granted"
    /\ proof' = IF kind[r] = "stream" THEN None ELSE proof
    /\ \/ /\ terminated
          /\ phase' = [phase EXCEPT ![r] = "failed"]
          /\ chain' = ChainAfterThrow(r)
          /\ UNCHANGED <<pending, inbox>>
       \/ /\ ~terminated
          /\ phase' = [phase EXCEPT ![r] = "parked"]
          /\ pending' = pending \cup {r}
          /\ inbox' = Append(inbox, r)
          /\ UNCHANGED chain
    /\ UNCHANGED <<kind, streamVars, initialized, terminated, wire, workerVars>>

-----------------------------------------------------------------------------
(* The worker: handleWorkerMessage on the head of operationQueue.          *)

Running(r) == ~terminated /\ ~crashed /\ inbox # <<>> /\ Head(inbox) = r

Reply(m) == wire' = Append(wire, m)

\* A new client replaces the old one before client.init() is awaited, so a
\* failed init leaves a client that is set but not ready.
WorkerInit(r) ==
    /\ Running(r)
    /\ kind[r] = "init"
    /\ workerProof' = None
    /\ \/ client' = "ready"  /\ Reply(Msg("ready", r, 0, None))
       \/ client' = "broken" /\ Reply(Msg("error", r, 0, None))
    /\ inbox' = Tail(inbox)
    /\ UNCHANGED <<callVars, pending, streamVars, initialized, terminated,
                   proof, made, crashed>>

\* streamChat starts with a null proof and replaces it after each decode.
StreamProofs(r) == IF workerProof = r THEN {r} ELSE {None, r}

WorkerChunk(r) ==
    /\ Running(r)
    /\ kind[r] = "stream"
    /\ client = "ready"
    /\ made[r] < MaxChunks
    /\ made' = [made EXCEPT ![r] = @ + 1]
    /\ workerProof' \in StreamProofs(r)
    /\ Reply(Msg("chunk", r, made[r] + 1, workerProof'))
    /\ UNCHANGED <<callVars, pending, streamVars, initialized, terminated,
                   proof, inbox, client, crashed>>

WorkerDone(r) ==
    /\ Running(r)
    /\ kind[r] = "stream"
    /\ client = "ready"
    /\ workerProof' \in StreamProofs(r)
    /\ Reply(Msg("done", r, made[r], workerProof'))
    /\ inbox' = Tail(inbox)
    /\ UNCHANGED <<callVars, pending, streamVars, initialized, terminated,
                   proof, client, made, crashed>>

WorkerKv(r) ==
    /\ Running(r)
    /\ kind[r] \in {"clear", "flush"}
    /\ client # "none"
    /\ IF kind[r] = "clear" THEN Reply(Msg("cleared", r, 0, None))
                            ELSE Reply(Msg("flushed", r, 0, workerProof))
    /\ inbox' = Tail(inbox)
    /\ UNCHANGED <<callVars, pending, streamVars, initialized, terminated,
                   proof, workerVars>>

\* Any exception in a stream, clear or flush becomes an error message.
WorkerError(r) ==
    /\ Running(r)
    /\ kind[r] # "init"
    /\ workerProof' = IF kind[r] = "stream" /\ client = "ready"
                         /\ workerProof # r THEN None ELSE workerProof
    /\ Reply(Msg("error", r, 0, None))
    /\ inbox' = Tail(inbox)
    /\ UNCHANGED <<callVars, pending, streamVars, initialized, terminated,
                   proof, client, made, crashed>>

\* The worker thread dies; the proxy installs no onerror handler.
WorkerCrash ==
    /\ MayCrash
    /\ ~crashed
    /\ ~terminated
    /\ crashed' = TRUE
    /\ UNCHANGED <<callVars, pending, streamVars, initialized, terminated,
                   proof, portVars, client, workerProof, made>>

-----------------------------------------------------------------------------
(* handleMessage, and for all but streams the await it resolves.           *)

\* A call leaves the pending map and its finally block releases the chain.
Settle(r, outcome) ==
    /\ phase' = [phase EXCEPT ![r] = outcome]
    /\ pending' = pending \ {r}
    /\ chain' = Tail(chain)

\* The messages a pending entry of each kind reacts to.
Answers ==
    [init   |-> {"ready", "error"},
     stream |-> {"chunk", "done", "error"},
     clear  |-> {"cleared", "error"},
     flush  |-> {"flushed", "error"}]

\* Mutant: for streams, no lookup in the pending map.
ListenToAll(m) ==
    /\ m.type \in Answers[kind[m.id]]
    /\ kind[m.id] = "stream" \/ m.id \in pending

\* Progress is only shown; a message for an id no longer pending is dropped.
Listening(m) == m.id \in pending /\ m.type \in Answers[kind[m.id]]

Drop(m) ==
    /\ ~Listening(m)
    /\ UNCHANGED <<phase, chain, pending, chunks, ended, initialized, proof>>

SettleByMessage(m) ==
    /\ Listening(m)
    /\ kind[m.id] # "stream"
    /\ Settle(m.id, IF m.type = "error" THEN "failed" ELSE "ok")
    /\ initialized' = (initialized \/ m.type = "ready")
    /\ proof' = IF m.type = "flushed" THEN m.proof ELSE proof
    /\ UNCHANGED <<chunks, ended>>

\* Mutant: no return behind the "chunk" branch of the handler.
EveryMessageEnds(m) ==
    /\ Listening(m)
    /\ kind[m.id] = "stream"
    /\ chunks' = IF m.type = "chunk"
                 THEN [chunks EXCEPT ![m.id] = Append(@, m.n)] ELSE chunks
    /\ ended' = [ended EXCEPT ![m.id] = m.type]
    /\ proof' = IF m.type = "error" THEN proof ELSE m.proof
    /\ UNCHANGED <<phase, chain, pending, initialized>>

StreamMessage(m) ==
    /\ Listening(m)
    /\ kind[m.id] = "stream"
    /\ chunks' = IF m.type = "chunk"
                 THEN [chunks EXCEPT ![m.id] = Append(@, m.n)] ELSE chunks
    /\ ended' = IF m.type = "chunk"
                THEN ended ELSE [ended EXCEPT ![m.id] = m.type]
    /\ proof' = IF m.type = "error" THEN proof ELSE m.proof
    /\ UNCHANGED <<phase, chain, pending, initialized>>

HandleMessage ==
    /\ wire # <<>>
    /\ wire' = Tail(wire)
    /\ LET m == Head(wire)
       IN Drop(m) \/ SettleByMessage(m) \/ StreamMessage(m)
    /\ UNCHANGED <<kind, delivered, terminated, inbox, workerVars>>

-----------------------------------------------------------------------------
(* The generator of streamChat and the consumer that iterates it.          *)

\* Mutant: pop() for shift(), the newest chunk first.
YieldNewest(r) ==
    /\ chunks[r] # <<>>
    /\ phase' = [phase EXCEPT ![r] = "yielded"]
    /\ delivered' = [delivered EXCEPT ![r] = Append(@, chunks[r][Len(chunks[r])])]
    /\ chunks' = [chunks EXCEPT ![r] = SubSeq(@, 1, Len(@) - 1)]
    /\ UNCHANGED <<pending, chain>>

Yield(r) ==
    /\ chunks[r] # <<>>
    /\ phase' = [phase EXCEPT ![r] = "yielded"]
    /\ delivered' = [delivered EXCEPT ![r] = Append(@, Head(chunks[r]))]
    /\ chunks' = [chunks EXCEPT ![r] = Tail(@)]
    /\ UNCHANGED <<pending, chain>>

FinishStream(r, outcome) ==
    /\ Settle(r, outcome)
    /\ UNCHANGED <<chunks, delivered>>

\* Mutant: the loop ends on `done` with chunks still buffered.
WakeIgnoringBuffer(r) ==
    /\ phase[r] = "parked"
    /\ kind[r] = "stream"
    /\ \/ ended[r] = "error" /\ FinishStream(r, "failed")
       \/ ended[r] = "no" /\ Yield(r)
       \/ ended[r] = "done" /\ FinishStream(r, "ok")
    /\ UNCHANGED <<kind, ended, initialized, terminated, proof, portVars,
                   workerVars>>

\* notify() woke the loop: an error is thrown first, then the loop goes on.
Wake(r) ==
    /\ phase[r] = "parked"
    /\ kind[r] = "stream"
    /\ \/ ended[r] = "error" /\ FinishStream(r, "failed")
       \/ ended[r] # "error" /\ Yield(r)
       \/ ended[r] = "done" /\ chunks[r] = <<>> /\ FinishStream(r, "ok")
    /\ UNCHANGED <<kind, ended, initialized, terminated, proof, portVars,
                   workerVars>>

\* The consumer asks for more: the loop condition is evaluated with no look
\* at stream.error.
ConsumerNext(r) ==
    /\ phase[r] = "yielded"
    /\ \/ Yield(r)
       \/ chunks[r] = <<>> /\ ended[r] # "no" /\ FinishStream(r, "ok")
       \/ /\ chunks[r] = <<>> /\ ended[r] = "no"
          /\ phase' = [phase EXCEPT ![r] = "parked"]
          /\ UNCHANGED <<pending, chain, chunks, delivered>>
    /\ UNCHANGED <<kind, ended, initialized, terminated, proof, portVars,
                   workerVars>>

\* Mutant: the release is not in a finally block.
ReturnWithoutRelease(r) ==
    /\ phase[r] = "yielded"
    /\ phase' = [phase EXCEPT ![r] = "abandoned"]
    /\ pending' = pending \ {r}
    /\ UNCHANGED <<chain, chunks, delivered>>
    /\ UNCHANGED <<kind, ended, initialized, terminated, proof, portVars,
                   workerVars>>

\* The consumer leaves its for-await loop early: return() runs the finally.
ConsumerReturn(r) ==
    /\ phase[r] = "yielded"
    /\ FinishStream(r, "abandoned")
    /\ UNCHANGED <<kind, ended, initialized, terminated, proof, portVars,
                   workerVars>>

-----------------------------------------------------------------------------
(* terminate(), which dispose() calls without taking a turn.               *)

Terminate ==
    /\ ~terminated
    /\ terminated' = TRUE
    /\ pending' = {}
    /\ ended' = [r \in Requests |->
                    IF r \in pending /\ kind[r] = "stream" THEN "error" ELSE ended[r]]
    /\ LET rejected == {r \in pending : kind[r] # "stream"}
       IN /\ phase' = [r \in Requests |->
                          IF r \in rejected THEN "failed" ELSE phase[r]]
          /\ chain' = IF rejected = {} THEN chain ELSE Tail(chain)
    /\ UNCHANGED <<kind, chunks, delivered, initialized, proof, portVars,
                   workerVars>>

-----------------------------------------------------------------------------
WorkerStep(r) ==
    WorkerInit(r) \/ WorkerChunk(r) \/ WorkerDone(r) \/ WorkerKv(r) \/ WorkerError(r)

Next ==
    \/ \E r \in Requests :
          \/ Call(r) \/ Grant(r) \/ Post(r)
          \/ WorkerStep(r)
          \/ Wake(r) \/ ConsumerNext(r) \/ ConsumerReturn(r)
    \/ HandleMessage
    \/ WorkerCrash
    \/ Terminate

Spec == Init /\ [][Next]_vars

\* The event loops run: continuations resume, messages are delivered, a
\* generation of at most MaxChunks chunks finishes, and a consumer that got a
\* chunk comes back (for-await does).  Nobody has to call, crash, terminate.
Fairness ==
    /\ \A r \in Requests :
          /\ WF_vars(Grant(r)) /\ WF_vars(Post(r)) /\ WF_vars(WorkerStep(r))
          /\ WF_vars(Wake(r)) /\ WF_vars(ConsumerNext(r))
    /\ WF_vars(HandleMessage)

FairSpec == Spec /\ Fairness

-----------------------------------------------------------------------------
(* Properties.                                                             *)

\* Every variable holds a value of its kind.
TypeOK ==
    /\ phase \in [Requests -> Phases]
    /\ kind \in [Requests -> Kinds]
    /\ chain \in Seq(Requests)
    /\ pending \subseteq Requests
    /\ chunks \in [Requests -> Seq(Nat)]
    /\ ended \in [Requests -> {"no", "done", "error"}]
    /\ delivered \in [Requests -> Seq(Nat)]
    /\ initialized \in BOOLEAN
    /\ terminated \in BOOLEAN
    /\ proof \in Requests \cup {None}
    /\ inbox \in Seq(Requests)
    /\ wire \in Seq(Messages)
    /\ client \in {"none", "broken", "ready"}
    /\ workerProof \in Requests \cup {None}
    /\ made \in [Requests -> 0..MaxChunks]
    /\ crashed \in BOOLEAN

\* At most one call is past the promise chain, and only that call has an
\* entry in the pending map: this is what lets the proxy keep one set of
\* last* fields for all its callers.
OneAtATime ==
    /\ \A r, s \in Requests :
          phase[r] \in Serving /\ phase[s] \in Serving => r = s
    /\ \A r \in pending : phase[r] \in Serving

\* While a stream is pending, lastDecodeProof is null or that stream's own,
\* although the worker may still be answering a stream its consumer left.
OwnProof ==
    \A r \in pending : kind[r] = "stream" => proof \in {None, r}

\* Where the chunks of r are that are still on the port.
OnWire(r) == {i \in 1..Len(wire) : wire[i].id = r /\ wire[i].type = "chunk"}

\* No chunk is lost, duplicated or reordered between the worker and the
\* consumer: what was delivered and what is buffered are the first chunks the
\* worker made, and the port holds the others, each once and in order.
ChunksConserved ==
    \A r \in pending :
        kind[r] = "stream" =>
            LET got == Len(delivered[r]) + Len(chunks[r])
            IN /\ got <= made[r]
               /\ delivered[r] \o chunks[r] = Upto(got)
               /\ {wire[i].n : i \in OnWire(r)} = (got + 1)..made[r]
               /\ \A i, j \in OnWire(r) : i < j => wire[i].n < wire[j].n

\* A stream that returns normally because the worker said `done` has given
\* its consumer every chunk.
DoneMeansComplete ==
    \A r \in Requests :
        kind[r] = "stream" /\ phase[r] = "ok" /\ ended[r] = "done"
            => delivered[r] = Upto(made[r])

\* The queue head is a stream that threw between the turn it was given and
\* its try block: it will never release.
Leaked == chain # <<>> /\ phase[Head(chain)] = "failed"

\* Every call that waits for its turn is eventually settled, unless the
\* worker died silently or the chain was leaked.
WaitingSettles ==
    \A r \in Requests :
        phase[r] = "waiting" ~> phase[r] \in Settled \/ crashed \/ Leaked

\* Callers take turns in the order of their calls (TurnService).  A head that
\* leaked has left, although those behind it will never know.
Turns == INSTANCE TurnService WITH
    Callers <- Requests,
    line <- IF Leaked THEN Tail(chain) ELSE chain,
    serving <- chain # <<>> /\ phase[Head(chain)] \in {"parked", "yielded"},
    gone <- {r \in Requests : phase[r] \in Settled}
TakeTurns == Turns!Spec

-----------------------------------------------------------------------------
(* What the tests and documents say and the code does not do.              *)

\* unlockedBrowserTransformerWorkerClient.test.ts:35, "rejects pending
\* requests when the worker is terminated": after terminate() no call waits
\* for ever, and no stream it failed returns normally.
TerminateRejects ==
    \A r \in Requests :
        terminated /\ (phase[r] = "waiting" \/ ended[r] = "error") ~> phase[r] \in Settled \ {"ok"}
=============================================================================
