--------------------- MODULE UnlockedWorkerClient_proof ---------------------
(***************************************************************************)
(* Theorems about UnlockedWorkerClient, for any number of calls and chunks *)
(* and whether or not the worker may crash.                                *)
(***************************************************************************)
EXTENDS UnlockedWorkerClient, SequenceTheorems, TLAPS

\* The call that is past the promise chain stands at its head.
HolderIsHead ==
    \A r \in Requests : phase[r] \in Serving => chain # <<>> /\ Head(chain) = r

\* Only posted calls have an entry in the pending map.
PendingIsPosted == \A r \in pending : phase[r] \in {"parked", "yielded"}

\* A chunk or done message carries no proof but that of its own stream.
WireProofs ==
    \A i \in 1..Len(wire) :
        wire[i].type \in {"chunk", "done"} => wire[i].proof \in {None, wire[i].id}

\* The inductive invariant behind OneAtATime.
TurnInv == TypeOK /\ HolderIsHead /\ PendingIsPosted

-----------------------------------------------------------------------------
LEMMA HeadTail ==
    ASSUME NEW S, NEW s \in Seq(S), s # <<>>
    PROVE  Head(s) \in S /\ Tail(s) \in Seq(S)
  OBVIOUS

LEMMA AppendType ==
    ASSUME NEW S, NEW s \in Seq(S), NEW e \in S
    PROVE  Append(s, e) \in Seq(S)
  OBVIOUS

\* Every message the worker posts is a message.
LEMMA MsgType ==
    ASSUME NEW t \in {"ready", "cleared", "flushed", "error", "chunk", "done"},
           NEW r \in Requests, NEW n \in 0..MaxChunks, NEW p \in Requests \cup {None}
    PROVE  Msg(t, r, n, p) \in Messages
  BY DEF Msg, Messages

LEMMA InitType == Init => TypeOK
  <1> SUFFICES ASSUME Init PROVE TypeOK
    OBVIOUS
  <1>1. 0 \in 0..MaxChunks
    BY ChunkBound DEF ChunkBound
  <1>2. <<>> \in Seq(Requests) /\ <<>> \in Seq(Nat) /\ <<>> \in Seq(Messages)
    OBVIOUS
  <1> QED
    BY <1>1, <1>2 DEF Init, TypeOK, Phases, Kinds


LEMMA InitTurns == Init => TurnInv
  BY InitType DEF Init, TurnInv, HolderIsHead, PendingIsPosted, Serving

\* The one call past the chain leaves it: nobody else was past it, and
\* nobody else becomes so.
LEMMA ReleaseHead ==
    ASSUME TurnInv, NEW r \in Requests, phase[r] \in Serving,
           NEW o \in Settled, phase' = [phase EXCEPT ![r] = o], chain' = Tail(chain)
    PROVE  /\ chain' \in Seq(Requests)
           /\ phase' \in [Requests -> Phases]
           /\ HolderIsHead'
  <1>1. chain \in Seq(Requests) /\ chain # <<>> /\ phase \in [Requests -> Phases]
    BY DEF TurnInv, TypeOK, HolderIsHead
  <1>2. \A s \in Requests : s # r => phase[s] \notin Serving
    BY DEF TurnInv, HolderIsHead
  <1>3. \A s \in Requests : phase'[s] \notin Serving
    BY <1>1, <1>2 DEF Settled, Serving
  <1>4. chain' \in Seq(Requests)
    BY <1>1, HeadTail
  <1> QED
    BY <1>1, <1>3, <1>4 DEF HolderIsHead, Phases, Settled

\* Pending calls are past the chain, so at most one is pending.
LEMMA PendingIsHead ==
    ASSUME TurnInv
    PROVE  \A r, s \in pending : r \in Requests /\ phase[r] \in Serving /\ r = s
  BY DEF TurnInv, TypeOK, HolderIsHead, PendingIsPosted, Serving

LEMMA SettleKeeps ==
    ASSUME TurnInv, NEW r \in Requests, phase[r] \in Serving,
           NEW o \in Settled, Settle(r, o)
    PROVE  /\ chain' \in Seq(Requests)
           /\ phase' \in [Requests -> Phases]
           /\ pending' \subseteq Requests
           /\ HolderIsHead'
           /\ PendingIsPosted'
  <1>1. chain' \in Seq(Requests) /\ phase' \in [Requests -> Phases] /\ HolderIsHead'
    BY ReleaseHead DEF Settle
  <1>2. \A s \in pending : s = r
    BY DEF TurnInv, TypeOK, HolderIsHead, PendingIsPosted, Serving
  <1> QED
    BY <1>1, <1>2 DEF Settle, PendingIsPosted

LEMMA CallTurns ==
    ASSUME TurnInv, NEW r \in Requests, Call(r)
    PROVE  TurnInv'
  <1>1. PICK k \in Kinds :
            /\ kind' = [kind EXCEPT ![r] = k]
            /\ phase[r] = "idle"
            /\ \/ phase' = [phase EXCEPT ![r] = "failed"] /\ chain' = chain
               \/ phase' = [phase EXCEPT ![r] = "waiting"] /\ chain' = Append(chain, r)
            /\ UNCHANGED <<pending, streamVars, initialized, terminated, proof,
                           portVars, workerVars>>
    BY DEF Call
  <1>0. chain \in Seq(Requests)
    BY DEF TurnInv, TypeOK
  <1>2. chain' \in Seq(Requests)
    <2>1. Append(chain, r) \in Seq(Requests)
      BY <1>0, AppendType
    <2> QED
      BY <1>0, <1>1, <2>1
  <1>3. TypeOK'
    BY <1>1, <1>2 DEF TurnInv, TypeOK, streamVars, portVars, workerVars,
                      Phases, Settled
  <1>4. chain # <<>> => chain' # <<>> /\ Head(chain') = Head(chain)
    BY <1>0, <1>1
  <1>5. HolderIsHead'
    BY <1>1, <1>4 DEF TurnInv, TypeOK, HolderIsHead, Serving
  <1>6. PendingIsPosted'
    BY <1>1 DEF TurnInv, TypeOK, PendingIsPosted
  <1> QED
    BY <1>3, <1>5, <1>6 DEF TurnInv

LEMMA GrantTurns ==
    ASSUME TurnInv, NEW r \in Requests, Grant(r)
    PROVE  TurnInv'
  <1>1. chain \in Seq(Requests) /\ chain # <<>> /\ Head(chain) = r
    BY DEF TurnInv, TypeOK, Grant, CanPass
  <1>2. \A s \in Requests : phase[s] \notin Serving
    BY <1>1 DEF TurnInv, Grant, HolderIsHead, Serving
  <1>3. chain' \in Seq(Requests)
    <2>1. Tail(chain) \in Seq(Requests)
      BY <1>1, HeadTail
    <2> QED
      BY <1>1, <2>1 DEF Grant
  <1>4. TypeOK'
    BY <1>3 DEF TurnInv, TypeOK, Grant, callVars, streamVars, portVars, workerVars, Phases,
                Settled, Serving
  <1>5. HolderIsHead'
    BY <1>1, <1>2 DEF TurnInv, TypeOK, Grant, HolderIsHead, Serving
  <1>6. PendingIsPosted'
    BY <1>2 DEF TurnInv, TypeOK, Grant, PendingIsPosted, Serving
  <1> QED
    BY <1>4, <1>5, <1>6 DEF TurnInv

LEMMA PostTurns ==
    ASSUME TurnInv, NEW r \in Requests, Post(r)
    PROVE  TurnInv'
  <1>1. /\ phase[r] \in Serving
        /\ \A s \in Requests : s # r => phase[s] \notin Serving
    BY DEF Post, TurnInv, TypeOK, HolderIsHead, Serving
  <1>2. chain \in Seq(Requests) /\ chain # <<>> /\ Head(chain) = r
    BY <1>1 DEF TurnInv, TypeOK, HolderIsHead
  <1>3. CASE terminated
    <2>1. chain' \in Seq(Requests)
      BY <1>2, <1>3, HeadTail DEF Post, ChainAfterThrow
    <2>2. TypeOK'
      BY <1>3, <2>1 DEF Post, TurnInv, TypeOK, callVars, streamVars, portVars,
                        workerVars, Phases, Settled
    <2>3. HolderIsHead'
      BY <1>1, <1>3 DEF Post, TurnInv, TypeOK, HolderIsHead, Serving
    <2>4. PendingIsPosted'
      BY <1>3 DEF Post, TurnInv, TypeOK, PendingIsPosted
    <2> QED
      BY <2>2, <2>3, <2>4 DEF TurnInv
  <1>4. CASE ~terminated
    <2>1. inbox' \in Seq(Requests)
      <3>1. inbox \in Seq(Requests)
        BY DEF TurnInv, TypeOK
      <3>2. Append(inbox, r) \in Seq(Requests)
        BY <3>1, AppendType
      <3> QED
        BY <1>4, <3>2 DEF Post
    <2>2. TypeOK'
      BY <1>4, <2>1 DEF Post, TurnInv, TypeOK, callVars, streamVars, portVars,
                        workerVars, Phases, Serving
    <2>3. HolderIsHead'
      BY <1>1, <1>2, <1>4 DEF Post, TurnInv, TypeOK, HolderIsHead
    <2>4. PendingIsPosted'
      BY <1>4 DEF Post, TurnInv, TypeOK, PendingIsPosted
    <2> QED
      BY <2>2, <2>3, <2>4 DEF TurnInv
  <1> QED
    BY <1>3, <1>4

-----------------------------------------------------------------------------
\* A step of the worker leaves every variable of the main thread alone.
LEMMA WorkerTurns ==
    ASSUME TurnInv, NEW r \in Requests, WorkerStep(r)
    PROVE  TurnInv'
  <1>1. UNCHANGED <<callVars, pending, streamVars, initialized, terminated, proof>>
    BY DEF WorkerStep, WorkerInit, WorkerChunk, WorkerDone, WorkerKv, WorkerError
  <1>2. /\ inbox \in Seq(Requests)
        /\ wire \in Seq(Messages)
        /\ workerProof \in Requests \cup {None}
        /\ made \in [Requests -> 0..MaxChunks]
        /\ 0 \in 0..MaxChunks
    BY ChunkBound DEF ChunkBound, TurnInv, TypeOK
  <1>3. inbox' \in Seq(Requests)
    BY <1>2, HeadTail DEF WorkerStep, WorkerInit, WorkerChunk, WorkerDone, WorkerKv,
                          WorkerError, Running
  <1>4. /\ workerProof' \in Requests \cup {None}
        /\ made' \in [Requests -> 0..MaxChunks]
        /\ client' \in {"none", "broken", "ready"}
        /\ crashed' \in BOOLEAN
        /\ \E m \in Messages : Reply(m)
    <2>1. CASE WorkerInit(r)
      <3>1. Msg("ready", r, 0, None) \in Messages /\ Msg("error", r, 0, None) \in Messages
        BY <1>2, MsgType
      <3> QED
        BY <2>1, <1>2, <3>1 DEF WorkerInit, TurnInv, TypeOK
    <2>2. CASE WorkerChunk(r)
      <3>1. workerProof' \in Requests \cup {None}
        BY <2>2 DEF WorkerChunk, StreamProofs
      <3>2. made[r] + 1 \in 0..MaxChunks
        BY <2>2, <1>2, ChunkBound DEF ChunkBound, WorkerChunk
      <3>3. Msg("chunk", r, made[r] + 1, workerProof') \in Messages
        BY <3>1, <3>2, MsgType
      <3>4. made' \in [Requests -> 0..MaxChunks]
        BY <2>2, <1>2, <3>2 DEF WorkerChunk
      <3> QED
        BY <2>2, <3>1, <3>3, <3>4 DEF WorkerChunk, TurnInv, TypeOK
    <2>3. CASE WorkerDone(r)
      <3>1. workerProof' \in Requests \cup {None}
        BY <2>3 DEF WorkerDone, StreamProofs
      <3>2. Msg("done", r, made[r], workerProof') \in Messages
        BY <1>2, <3>1, MsgType
      <3> QED
        BY <2>3, <3>1, <3>2 DEF WorkerDone, TurnInv, TypeOK
    <2>4. CASE WorkerKv(r)
      <3>1. Msg("cleared", r, 0, None) \in Messages /\ Msg("flushed", r, 0, workerProof) \in Messages
        BY <1>2, MsgType
      <3> QED
        BY <2>4, <3>1 DEF WorkerKv, TurnInv, TypeOK, workerVars
    <2>5. CASE WorkerError(r)
      <3>1. Msg("error", r, 0, None) \in Messages
        BY <1>2, MsgType
      <3> QED
        BY <2>5, <1>2, <3>1 DEF WorkerError, TurnInv, TypeOK
    <2> QED
      BY <2>1, <2>2, <2>3, <2>4, <2>5 DEF WorkerStep
  <1>5. wire' \in Seq(Messages)
    BY <1>2, <1>4, AppendType DEF Reply
  <1>6. TypeOK'
    BY <1>1, <1>3, <1>4, <1>5 DEF TurnInv, TypeOK, callVars, streamVars
  <1> QED
    BY <1>1, <1>6 DEF TurnInv, HolderIsHead, PendingIsPosted, callVars

-----------------------------------------------------------------------------
LEMMA HandleMessageTurns ==
    ASSUME TurnInv, HandleMessage
    PROVE  TurnInv'
  <1> DEFINE m == Head(wire)
  <1>1. m \in Messages /\ wire' \in Seq(Messages)
    <2>1. wire \in Seq(Messages) /\ wire # <<>>
      BY DEF TurnInv, TypeOK, HandleMessage
    <2>2. Head(wire) \in Messages /\ Tail(wire) \in Seq(Messages)
      BY <2>1, HeadTail
    <2> QED
      BY <2>2 DEF HandleMessage
  <1>2. UNCHANGED <<kind, delivered, terminated, inbox, workerVars>>
    BY DEF HandleMessage
  <1>3. m.id \in Requests /\ m.n \in Nat /\ m.proof \in Requests \cup {None}
    BY <1>1, ChunkBound DEF Messages, ChunkBound
  <1> HIDE DEF m
  <1>4. CASE Drop(m)
    <2>1. TypeOK'
      BY <1>1, <1>2, <1>4 DEF Drop, TurnInv, TypeOK, workerVars
    <2> QED
      BY <1>4, <2>1 DEF Drop, TurnInv, HolderIsHead, PendingIsPosted
  <1>5. CASE SettleByMessage(m)
    <2>1. phase[m.id] \in Serving
      BY <1>5, PendingIsHead DEF SettleByMessage, Listening
    <2>2. PICK o \in Settled : Settle(m.id, o)
      BY <1>5 DEF SettleByMessage, Settled
    <2>3. /\ chain' \in Seq(Requests)
          /\ phase' \in [Requests -> Phases]
          /\ pending' \subseteq Requests
          /\ HolderIsHead'
          /\ PendingIsPosted'
      BY <1>3, <2>1, <2>2, SettleKeeps
    <2>4. /\ proof' \in Requests \cup {None}
          /\ initialized' \in BOOLEAN
          /\ UNCHANGED <<chunks, ended>>
      BY <1>3, <1>5 DEF SettleByMessage, TurnInv, TypeOK
    <2>5. TypeOK'
      BY <1>1, <1>2, <2>3, <2>4 DEF TurnInv, TypeOK, workerVars
    <2> QED
      BY <2>3, <2>5 DEF TurnInv
  <1>6. CASE StreamMessage(m)
    <2>1. /\ UNCHANGED <<phase, chain, pending, initialized>>
          /\ proof' \in Requests \cup {None}
      BY <1>3, <1>6 DEF StreamMessage, TurnInv, TypeOK
    <2>2. chunks' \in [Requests -> Seq(Nat)]
      <3>1. chunks \in [Requests -> Seq(Nat)] /\ chunks[m.id] \in Seq(Nat)
        BY <1>3 DEF TurnInv, TypeOK
      <3>2. Append(chunks[m.id], m.n) \in Seq(Nat)
        BY <1>3, <3>1, AppendType
      <3> QED
        BY <1>6, <3>1, <3>2 DEF StreamMessage
    <2>3. m.type \in {"chunk", "done", "error"}
          => ended' \in [Requests -> {"no", "done", "error"}]
      BY <1>6 DEF StreamMessage, TurnInv, TypeOK
    <2>4. m.type \in {"chunk", "done", "error"}
      BY <1>6 DEF StreamMessage, Listening, Answers
    <2>5. TypeOK'
      BY <1>1, <1>2, <2>1, <2>2, <2>3, <2>4 DEF TurnInv, TypeOK, workerVars
    <2> QED
      BY <2>1, <2>5 DEF TurnInv, HolderIsHead, PendingIsPosted
  <1> QED
    BY <1>4, <1>5, <1>6 DEF HandleMessage, m

-----------------------------------------------------------------------------
LEMMA YieldType ==
    ASSUME TypeOK, NEW r \in Requests, Yield(r)
    PROVE  /\ delivered' \in [Requests -> Seq(Nat)]
           /\ chunks' \in [Requests -> Seq(Nat)]
           /\ UNCHANGED <<pending, chain>>
           /\ phase' = [phase EXCEPT ![r] = "yielded"]
  <1>1. /\ chunks \in [Requests -> Seq(Nat)] /\ delivered \in [Requests -> Seq(Nat)]
        /\ chunks[r] \in Seq(Nat) /\ chunks[r] # <<>> /\ delivered[r] \in Seq(Nat)
    BY DEF TypeOK, Yield
  <1>2. Head(chunks[r]) \in Nat /\ Tail(chunks[r]) \in Seq(Nat)
    BY <1>1, HeadTail
  <1>3. Append(delivered[r], Head(chunks[r])) \in Seq(Nat)
    BY <1>1, <1>2, AppendType
  <1> QED
    BY <1>1, <1>2, <1>3 DEF Yield

\* What the steps of the generator and its consumer leave alone.
GeneratorFrame ==
    UNCHANGED <<kind, ended, initialized, terminated, proof, portVars, workerVars>>

LEMMA FinishTurns ==
    ASSUME TurnInv, NEW r \in Requests, phase[r] \in Serving,
           NEW o \in Settled, FinishStream(r, o), GeneratorFrame
    PROVE  TurnInv'
  <1>1. /\ chain' \in Seq(Requests)
        /\ phase' \in [Requests -> Phases]
        /\ pending' \subseteq Requests
        /\ HolderIsHead'
        /\ PendingIsPosted'
    BY SettleKeeps DEF FinishStream
  <1>2. TypeOK'
    BY <1>1 DEF TurnInv, TypeOK, FinishStream, GeneratorFrame, portVars, workerVars
  <1> QED
    BY <1>1, <1>2 DEF TurnInv

\* A stream that goes on keeps its turn and its pending entry.
LEMMA SuspendTurns ==
    ASSUME TurnInv, NEW r \in Requests, phase[r] \in Serving,
           NEW p \in {"parked", "yielded"}, phase' = [phase EXCEPT ![r] = p],
           UNCHANGED <<pending, chain>>,
           chunks' \in [Requests -> Seq(Nat)], delivered' \in [Requests -> Seq(Nat)],
           GeneratorFrame
    PROVE  TurnInv'
  <1>1. TypeOK'
    BY DEF TurnInv, TypeOK, GeneratorFrame, portVars, workerVars, Phases, Serving
  <1>2. HolderIsHead'
    BY DEF TurnInv, TypeOK, HolderIsHead
  <1>3. PendingIsPosted'
    BY DEF TurnInv, TypeOK, PendingIsPosted
  <1> QED
    BY <1>1, <1>2, <1>3 DEF TurnInv

LEMMA GeneratorTurns ==
    ASSUME TurnInv, NEW r \in Requests, Wake(r) \/ ConsumerNext(r) \/ ConsumerReturn(r)
    PROVE  TurnInv'
  <1>1. GeneratorFrame /\ phase[r] \in Serving
    BY DEF Wake, ConsumerNext, ConsumerReturn, GeneratorFrame, Serving
  <1>2. CASE \E o \in Settled : FinishStream(r, o)
    BY <1>1, <1>2, FinishTurns
  <1>3. CASE Yield(r)
    <2>1. TypeOK
      BY DEF TurnInv
    <2>2. /\ delivered' \in [Requests -> Seq(Nat)]
          /\ chunks' \in [Requests -> Seq(Nat)]
          /\ UNCHANGED <<pending, chain>>
          /\ phase' = [phase EXCEPT ![r] = "yielded"]
      BY <1>3, <2>1, YieldType
    <2> QED
      BY <1>1, <2>2, SuspendTurns
  <1>4. CASE /\ phase' = [phase EXCEPT ![r] = "parked"]
             /\ UNCHANGED <<pending, chain, chunks, delivered>>
    <2>1. chunks' \in [Requests -> Seq(Nat)] /\ delivered' \in [Requests -> Seq(Nat)]
      BY <1>4 DEF TurnInv, TypeOK
    <2> QED
      BY <1>1, <1>4, <2>1, SuspendTurns
  <1> QED
    BY <1>2, <1>3, <1>4 DEF Wake, ConsumerNext, ConsumerReturn, Settled

LEMMA TerminateTurns ==
    ASSUME TurnInv, Terminate
    PROVE  TurnInv'
  <1> DEFINE rejected == {r \in pending : kind[r] # "stream"}
  <1>1. /\ ended' \in [Requests -> {"no", "done", "error"}]
        /\ phase' = [r \in Requests |-> IF r \in rejected THEN "failed" ELSE phase[r]]
        /\ chain' = IF rejected = {} THEN chain ELSE Tail(chain)
        /\ pending' = {} /\ terminated' \in BOOLEAN
        /\ UNCHANGED <<kind, chunks, delivered, initialized, proof, portVars, workerVars>>
    BY DEF Terminate, TurnInv, TypeOK
  <1>2. chain \in Seq(Requests) /\ phase \in [Requests -> Phases] /\ rejected \subseteq Requests
    BY DEF TurnInv, TypeOK
  <1>3. \A r \in rejected : /\ chain # <<>>
                            /\ \A s \in Requests : phase[s] \in Serving => s = r
    BY PendingIsHead DEF TurnInv, TypeOK, HolderIsHead
  <1> HIDE DEF rejected
  <1>4. chain' \in Seq(Requests)
    <2>1. CASE rejected = {}
      BY <1>1, <1>2, <2>1
    <2>2. CASE rejected # {}
      BY <1>1, <1>2, <1>3, <2>2, HeadTail
    <2> QED
      BY <2>1, <2>2
  <1>5. phase' \in [Requests -> Phases]
    BY <1>1, <1>2 DEF Phases, Settled
  <1>6. TypeOK'
    BY <1>1, <1>4, <1>5 DEF TurnInv, TypeOK, portVars, workerVars
  <1>7. HolderIsHead'
    <2>1. CASE rejected = {}
      BY <1>1, <1>2, <2>1 DEF TurnInv, HolderIsHead
    <2>2. CASE rejected # {}
      BY <1>1, <1>2, <1>3, <2>2 DEF HolderIsHead, Serving
    <2> QED
      BY <2>1, <2>2
  <1>8. PendingIsPosted'
    BY <1>1 DEF PendingIsPosted
  <1> QED
    BY <1>6, <1>7, <1>8 DEF TurnInv

LEMMA TurnStep == TurnInv /\ [Next]_vars => TurnInv'
  <1> SUFFICES ASSUME TurnInv, [Next]_vars PROVE TurnInv'
    OBVIOUS
  <1>1. ASSUME NEW r \in Requests, Call(r) \/ Grant(r) \/ Post(r) PROVE TurnInv'
    BY <1>1, CallTurns, GrantTurns, PostTurns
  <1>2. ASSUME NEW r \in Requests, WorkerStep(r) PROVE TurnInv'
    BY <1>2, WorkerTurns
  <1>3. ASSUME NEW r \in Requests, Wake(r) \/ ConsumerNext(r) \/ ConsumerReturn(r)
        PROVE  TurnInv'
    BY <1>3, GeneratorTurns
  <1>4. CASE HandleMessage
    BY <1>4, HandleMessageTurns
  <1>5. CASE WorkerCrash
    BY <1>5 DEF WorkerCrash, TurnInv, TypeOK, HolderIsHead, PendingIsPosted,
                callVars, streamVars, portVars
  <1>6. CASE Terminate
    BY <1>6, TerminateTurns
  <1>7. CASE UNCHANGED vars
    BY <1>7 DEF vars, TurnInv, TypeOK, HolderIsHead, PendingIsPosted,
                callVars, streamVars, portVars, workerVars
  <1> QED
    BY <1>1, <1>2, <1>3, <1>4, <1>5, <1>6, <1>7 DEF Next

\* Every variable keeps its type; TypeOK alone is not inductive, because a
\* release takes the head of the chain and HolderIsHead says there is one.
THEOREM TypeCorrect == Spec => []TypeOK
  <1>1. TurnInv => TypeOK
    BY DEF TurnInv
  <1> QED
    BY InitTurns, TurnStep, <1>1, PTL DEF Spec

\* For any number of callers, at most one is past the promise chain, and only
\* that one has an entry in the pending map (beginRequest, handleMessage).
THEOREM TurnsExclude == Spec => []OneAtATime
  <1>1. TurnInv => OneAtATime
    BY PendingIsHead DEF TurnInv, HolderIsHead, OneAtATime
  <1> QED
    BY InitTurns, TurnStep, <1>1, PTL DEF Spec

-----------------------------------------------------------------------------
(* OwnProof: the proof a caller reads belongs to its own stream.           *)

ProofInv == TurnInv /\ WireProofs /\ OwnProof

LEMMA WireAppend ==
    ASSUME TypeOK, WireProofs, NEW m, Reply(m),
           m.type \in {"chunk", "done"} => m.proof \in {None, m.id}
    PROVE  WireProofs'
  <1>1. wire \in Seq(Messages) /\ wire' = Append(wire, m)
    BY DEF TypeOK, Reply
  <1>2. /\ Len(wire') = Len(wire) + 1
        /\ \A i \in 1..Len(wire) : wire'[i] = wire[i]
        /\ wire'[Len(wire) + 1] = m
    BY <1>1
  <1>3. ASSUME NEW i \in 1..Len(wire')
        PROVE  i \in 1..Len(wire) \/ wire'[i] = m
    BY <1>1, <1>2
  <1> QED
    BY <1>2, <1>3 DEF WireProofs

LEMMA WireTail ==
    ASSUME TypeOK, WireProofs, wire # <<>>, wire' = Tail(wire)
    PROVE  WireProofs'
  <1>1. wire \in Seq(Messages)
    BY DEF TypeOK
  <1>2. \A i \in 1..Len(wire') : i + 1 \in 1..Len(wire) /\ wire'[i] = wire[i + 1]
    BY <1>1
  <1> QED
    BY <1>2 DEF WireProofs

LEMMA WorkerWire ==
    ASSUME TurnInv, WireProofs, NEW r \in Requests, WorkerStep(r)
    PROVE  WireProofs'
  <1>1. TypeOK
    BY DEF TurnInv
  <1>2. PICK m : Reply(m) /\ (m.type \in {"chunk", "done"} => m.proof \in {None, m.id})
    <2>1. CASE WorkerInit(r)
      BY <2>1 DEF WorkerInit, Msg
    <2>2. CASE WorkerChunk(r)
      BY <2>2 DEF WorkerChunk, Msg, StreamProofs
    <2>3. CASE WorkerDone(r)
      BY <2>3 DEF WorkerDone, Msg, StreamProofs
    <2>4. CASE WorkerKv(r)
      BY <2>4 DEF WorkerKv, Msg
    <2>5. CASE WorkerError(r)
      BY <2>5 DEF WorkerError, Msg
    <2> QED
      BY <2>1, <2>2, <2>3, <2>4, <2>5 DEF WorkerStep
  <1> QED
    BY <1>1, <1>2, WireAppend

LEMMA HandleMessageProof ==
    ASSUME ProofInv, HandleMessage
    PROVE  WireProofs' /\ OwnProof'
  <1> DEFINE m == Head(wire)
  <1>1. wire \in Seq(Messages) /\ wire # <<>> /\ UNCHANGED kind
    BY DEF ProofInv, TurnInv, TypeOK, HandleMessage
  <1>2. m.type \in {"chunk", "done"} => m.proof \in {None, m.id}
    <2>1. 1 \in 1..Len(wire) /\ m = wire[1]
      BY <1>1
    <2> HIDE DEF m
    <2> QED
      BY <2>1 DEF ProofInv, WireProofs
  <1>3. WireProofs'
    BY <1>1, WireTail DEF ProofInv, TurnInv, HandleMessage
  <1> HIDE DEF m
  <1>4. \A r, s \in pending : r = s
    BY PendingIsHead DEF ProofInv
  <1>5. CASE Drop(m)
    BY <1>1, <1>3, <1>5 DEF Drop, ProofInv, OwnProof
  <1>6. CASE SettleByMessage(m)
    <2>1. pending' = {}
      BY <1>4, <1>6 DEF SettleByMessage, Settle, Listening
    <2> QED
      BY <1>3, <2>1 DEF OwnProof
  <1>7. CASE StreamMessage(m)
    <2>1. m.type \in {"chunk", "done", "error"} /\ m.id \in pending
      BY <1>7 DEF StreamMessage, Listening, Answers
    <2>2. \A r \in pending' : r = m.id
      BY <1>4, <1>7, <2>1 DEF StreamMessage
    <2>3. m.type # "error" => proof' \in {None, m.id}
      BY <1>2, <1>7, <2>1 DEF StreamMessage
    <2>4. m.type = "error" => UNCHANGED <<proof, pending>>
      BY <1>7 DEF StreamMessage
    <2> QED
      BY <1>1, <1>3, <2>2, <2>3, <2>4 DEF ProofInv, OwnProof
  <1> QED
    BY <1>3, <1>5, <1>6, <1>7 DEF HandleMessage, m

LEMMA ProofStep == ProofInv /\ [Next]_vars => ProofInv'
  <1> SUFFICES ASSUME ProofInv, [Next]_vars PROVE ProofInv'
    OBVIOUS
  <1>1. TurnInv'
    BY TurnStep DEF ProofInv
  <1>2. WireProofs' /\ OwnProof'
    <2>1. ASSUME NEW r \in Requests, Call(r) PROVE WireProofs' /\ OwnProof'
      <3>1. \A s \in pending : s # r
        BY <2>1 DEF Call, ProofInv, TurnInv, PendingIsPosted
      <3>2. UNCHANGED <<wire, pending, proof>> /\ \A s \in Requests : s # r => kind'[s] = kind[s]
        BY <2>1 DEF Call, ProofInv, TurnInv, TypeOK, portVars
      <3> QED
        BY <3>1, <3>2 DEF ProofInv, TurnInv, TypeOK, WireProofs, OwnProof
    <2>2. ASSUME NEW r \in Requests, Grant(r) PROVE WireProofs' /\ OwnProof'
      BY <2>2 DEF Grant, ProofInv, WireProofs, OwnProof, portVars
    <2>3. ASSUME NEW r \in Requests, Post(r) PROVE WireProofs' /\ OwnProof'
      <3>1. pending = {} /\ UNCHANGED <<wire, kind>>
        BY <2>3 DEF Post, ProofInv, TurnInv, TypeOK, HolderIsHead, PendingIsPosted, Serving
      <3> QED
        BY <2>3, <3>1 DEF Post, ProofInv, WireProofs, OwnProof
    <2>4. ASSUME NEW r \in Requests, WorkerStep(r) PROVE WireProofs' /\ OwnProof'
      <3>1. UNCHANGED <<kind, pending, proof>>
        BY <2>4 DEF WorkerStep, WorkerInit, WorkerChunk, WorkerDone, WorkerKv,
                    WorkerError, callVars
      <3> QED
        BY <2>4, <3>1, WorkerWire DEF ProofInv, OwnProof
    <2>5. ASSUME NEW r \in Requests, Wake(r) \/ ConsumerNext(r) \/ ConsumerReturn(r)
          PROVE  WireProofs' /\ OwnProof'
      <3>1. UNCHANGED <<kind, proof, wire>> /\ pending' \subseteq pending
        BY <2>5 DEF Wake, ConsumerNext, ConsumerReturn, Yield, FinishStream, Settle,
                    portVars
      <3> QED
        BY <3>1 DEF ProofInv, WireProofs, OwnProof
    <2>6. CASE HandleMessage
      BY <2>6, HandleMessageProof
    <2>7. CASE WorkerCrash \/ UNCHANGED vars
      BY <2>7 DEF WorkerCrash, vars, callVars, portVars, ProofInv, WireProofs, OwnProof
    <2>8. CASE Terminate
      BY <2>8 DEF Terminate, portVars, ProofInv, WireProofs, OwnProof
    <2> QED
      BY <2>1, <2>2, <2>3, <2>4, <2>5, <2>6, <2>7, <2>8 DEF Next
  <1> QED
    BY <1>1, <1>2 DEF ProofInv

\* Whoever waits for a stream finds in lastDecodeProof null or the proof of
\* that stream, even when the worker still answers an abandoned one.
THEOREM ProofsAreOwn == Spec => []OwnProof
  <1>1. Init => ProofInv
    BY InitTurns DEF Init, ProofInv, WireProofs, OwnProof
  <1>2. ProofInv => OwnProof
    BY DEF ProofInv
  <1> QED
    BY ProofStep, <1>1, <1>2, PTL DEF Spec

-----------------------------------------------------------------------------
(* ChunksConserved and DoneMeansComplete: what a stream is given is what   *)
(* the worker made of it.                                                  *)

Unposted == {"idle", "waiting", "granted"}

\* Neither side has anything of r under way.
Silent(r) ==
    /\ \A i \in 1..Len(inbox) : inbox[i] # r
    /\ \A i \in 1..Len(wire) : wire[i].id # r

\* A call is posted once.
PostedOnce == \A i, j \in 1..Len(inbox) : inbox[i] = inbox[j] => i = j

\* A call that is not posted has made nothing.
UnpostedIsSilent ==
    \A r \in Requests : phase[r] \in Unposted =>
        /\ made[r] = 0 /\ delivered[r] = <<>> /\ chunks[r] = <<>> /\ ended[r] = "no"
        /\ Silent(r)

\* `done` is the last the worker has to say of a stream ...
DoneIsLast ==
    \A i \in 1..Len(wire) : wire[i].type = "done" =>
        /\ \A j \in 1..Len(inbox) : inbox[j] # wire[i].id
        /\ \A j \in 1..Len(wire) : j > i => wire[j].id # wire[i].id

\* ... also when it has arrived.
DoneIsSilent == \A r \in Requests : ended[r] = "done" => Silent(r)

\* A stream that still runs has its entry, or terminate took it.
RunsOrFails ==
    \A r \in Requests :
        kind[r] = "stream" /\ phase[r] \in {"parked", "yielded"} /\ r \notin pending
            => ended[r] = "error"

PortInv == PostedOnce /\ UnpostedIsSilent /\ DoneIsLast /\ DoneIsSilent /\ RunsOrFails

StreamInv == TurnInv /\ PortInv /\ ChunksConserved /\ DoneMeansComplete

LEMMA AppendElements ==
    ASSUME NEW S, NEW s \in Seq(S), NEW e
    PROVE  /\ Len(Append(s, e)) = Len(s) + 1 /\ Len(s) \in Nat
           /\ \A i \in 1..Len(s) : Append(s, e)[i] = s[i]
           /\ Append(s, e)[Len(s) + 1] = e
           /\ \A i \in 1..(Len(s) + 1) : i \in 1..Len(s) \/ i = Len(s) + 1
  OBVIOUS

LEMMA TailElements ==
    ASSUME NEW S, NEW s \in Seq(S), s # <<>>
    PROVE  /\ Len(Tail(s)) = Len(s) - 1 /\ Len(s) \in Nat \ {0}
           /\ Head(s) = s[1] /\ 1 \in 1..Len(s)
           /\ \A i \in 1..Len(Tail(s)) :
                 i \in Nat \ {0} /\ i + 1 \in 1..Len(s) /\ Tail(s)[i] = s[i + 1]
           /\ \A i \in 1..Len(s) :
                 i \in Nat \ {0} /\ (i = 1 \/ (i - 1 \in 1..Len(Tail(s)) /\ Tail(s)[i - 1] = s[i]))
  OBVIOUS

\* A step of the worker that makes a chunk, or that answers for good.
Makes(r, m) ==
    /\ inbox # <<>> /\ r = Head(inbox) /\ m \in Messages /\ m.id = r /\ Reply(m)
    /\ m.type = "chunk" /\ m.n = made[r] + 1
    /\ made' = [made EXCEPT ![r] = @ + 1]
    /\ inbox' = inbox

Finishes(r, m) ==
    /\ inbox # <<>> /\ r = Head(inbox) /\ m \in Messages /\ m.id = r /\ Reply(m)
    /\ m.type # "chunk"
    /\ made' = made
    /\ inbox' = Tail(inbox)

LEMMA WorkerSays ==
    ASSUME TurnInv, NEW r \in Requests, WorkerStep(r)
    PROVE  /\ UNCHANGED <<phase, kind, chain, pending, chunks, ended, delivered>>
           /\ \E m : Makes(r, m) \/ Finishes(r, m)
  <1>1. UNCHANGED <<phase, kind, chain, pending, chunks, ended, delivered>>
    BY DEF WorkerStep, WorkerInit, WorkerChunk, WorkerDone, WorkerKv, WorkerError,
           callVars, streamVars
  <1>2. inbox # <<>> /\ r = Head(inbox)
    BY DEF WorkerStep, WorkerInit, WorkerChunk, WorkerDone, WorkerKv, WorkerError, Running
  <1>3. /\ workerProof \in Requests \cup {None} /\ made \in [Requests -> 0..MaxChunks]
        /\ 0 \in 0..MaxChunks
    BY ChunkBound DEF ChunkBound, TurnInv, TypeOK
  <1>4. CASE WorkerInit(r)
    <2>1. Msg("ready", r, 0, None) \in Messages /\ Msg("error", r, 0, None) \in Messages
      BY <1>3, MsgType
    <2>2. PICK t \in {"ready", "error"} : Reply(Msg(t, r, 0, None))
      BY <1>4 DEF WorkerInit
    <2>3. Finishes(r, Msg(t, r, 0, None))
      BY <1>2, <1>4, <2>1, <2>2 DEF Finishes, WorkerInit, Msg
    <2> QED
      BY <1>1, <2>3
  <1>5. CASE WorkerChunk(r)
    <2> DEFINE m == Msg("chunk", r, made[r] + 1, workerProof')
    <2>1. made[r] + 1 \in 0..MaxChunks
      BY <1>3, <1>5, ChunkBound DEF ChunkBound, WorkerChunk
    <2>2. workerProof' \in Requests \cup {None}
      BY <1>5 DEF WorkerChunk, StreamProofs
    <2>3. m \in Messages
      BY <2>1, <2>2, MsgType
    <2>4. Makes(r, m)
      BY <1>2, <1>5, <2>3 DEF Makes, WorkerChunk, Msg
    <2> QED
      BY <1>1, <2>4
  <1>6. CASE WorkerDone(r)
    <2> DEFINE m == Msg("done", r, made[r], workerProof')
    <2>1. workerProof' \in Requests \cup {None}
      BY <1>6 DEF WorkerDone, StreamProofs
    <2>2. m \in Messages
      BY <1>3, <2>1, MsgType
    <2>3. Finishes(r, m)
      BY <1>2, <1>6, <2>2 DEF Finishes, WorkerDone, Msg
    <2> QED
      BY <1>1, <2>3
  <1>7. CASE WorkerKv(r)
    <2> DEFINE m == IF kind[r] = "clear" THEN Msg("cleared", r, 0, None)
                                         ELSE Msg("flushed", r, 0, workerProof)
    <2>1. m \in Messages /\ m.id = r /\ m.type # "chunk"
      BY <1>3, MsgType DEF Msg
    <2>2. Reply(m)
      BY <1>7 DEF WorkerKv
    <2> HIDE DEF m
    <2>3. Finishes(r, m)
      BY <1>2, <1>7, <2>1, <2>2 DEF Finishes, WorkerKv, workerVars
    <2> QED
      BY <1>1, <2>3
  <1>8. CASE WorkerError(r)
    <2>1. Msg("error", r, 0, None) \in Messages
      BY <1>3, MsgType
    <2>2. Finishes(r, Msg("error", r, 0, None))
      BY <1>2, <1>8, <2>1 DEF Finishes, WorkerError, Msg
    <2> QED
      BY <1>1, <2>2
  <1> QED
    BY <1>4, <1>5, <1>6, <1>7, <1>8 DEF WorkerStep

\* Whoever is in the inbox has not been answered for good.
LEMMA RunningIsOpen ==
    ASSUME TurnInv, PortInv, inbox # <<>>, NEW r, r = Head(inbox)
    PROVE  /\ r \in Requests /\ phase[r] \notin Unposted /\ ended[r] # "done"
           /\ \A i \in 1..Len(wire) : wire[i].type = "done" => wire[i].id # r
  <1>1. inbox \in Seq(Requests)
    BY DEF TurnInv, TypeOK
  <1>2. 1 \in 1..Len(inbox) /\ r = inbox[1] /\ r \in Requests
    BY <1>1
  <1> QED
    BY <1>2 DEF PortInv, UnpostedIsSilent, DoneIsLast, DoneIsSilent, Silent

\* A message that the worker posts changes nobody else's part of the port.
LEMMA PortOfWorker ==
    ASSUME TurnInv, PortInv, NEW r, NEW m, Makes(r, m) \/ Finishes(r, m),
           UNCHANGED <<phase, kind, chain, pending, chunks, ended, delivered>>
    PROVE  PortInv'
  <1>1. /\ inbox \in Seq(Requests) /\ wire \in Seq(Messages) /\ inbox # <<>> /\ r = Head(inbox)
        /\ wire' = Append(wire, m) /\ m.id = r
    BY DEF TurnInv, TypeOK, Makes, Finishes, Reply
  <1>2. /\ r \in Requests /\ phase[r] \notin Unposted /\ ended[r] # "done"
        /\ \A i \in 1..Len(wire) : wire[i].type = "done" => wire[i].id # r
    BY <1>1, RunningIsOpen
  <1>3. /\ Len(wire') = Len(wire) + 1 /\ Len(wire) \in Nat
        /\ \A i \in 1..Len(wire) : wire'[i] = wire[i]
        /\ wire'[Len(wire) + 1] = m
        /\ \A i \in 1..(Len(wire) + 1) : i \in 1..Len(wire) \/ i = Len(wire) + 1
    BY <1>1, AppendElements
  <1>4. \/ inbox' = inbox /\ m.type = "chunk"
        \/ inbox' = Tail(inbox)
    BY DEF Makes, Finishes
  <1>5. /\ \A i \in 1..Len(inbox') : \E j \in 1..Len(inbox) : inbox'[i] = inbox[j]
        /\ PostedOnce'
        /\ m.type = "done" => \A i \in 1..Len(inbox') : inbox'[i] # r
    <2>1. CASE inbox' = inbox /\ m.type = "chunk"
      BY <2>1 DEF PortInv, PostedOnce
    <2>2. CASE inbox' = Tail(inbox)
      <3>1. /\ r = inbox[1] /\ 1 \in 1..Len(inbox) /\ Len(inbox) \in Nat
            /\ \A i \in 1..Len(inbox') : i + 1 \in 1..Len(inbox) /\ inbox'[i] = inbox[i + 1]
        BY <1>1, <2>2, TailElements
      <3>2. \A i \in 1..Len(inbox') : i + 1 # 1 /\ i \in Nat
        BY <3>1
      <3> QED
        BY <3>1, <3>2 DEF PortInv, PostedOnce
    <2> QED
      BY <1>4, <2>1, <2>2
  <1>6. \A s : s # r /\ Silent(s) => Silent(s)'
    BY <1>1, <1>3, <1>5 DEF Silent
  <1>7. UnpostedIsSilent'
    <2>1. \A s \in Requests : s # r => made'[s] = made[s]
      BY DEF Makes, Finishes, TurnInv, TypeOK
    <2> QED
      BY <1>2, <1>6, <2>1 DEF PortInv, UnpostedIsSilent
  <1>8. DoneIsSilent'
    BY <1>2, <1>6 DEF PortInv, DoneIsSilent
  <1>9. RunsOrFails'
    BY DEF PortInv, RunsOrFails
  <1>10. DoneIsLast'
    <2> SUFFICES ASSUME NEW i \in 1..Len(wire'), wire'[i].type = "done"
                 PROVE  /\ \A j \in 1..Len(inbox') : inbox'[j] # wire'[i].id
                        /\ \A j \in 1..Len(wire') : j > i => wire'[j].id # wire'[i].id
      BY DEF DoneIsLast
    <2>1. CASE i \in 1..Len(wire)
      <3>1. wire'[i] = wire[i] /\ wire[i].id # r
        BY <1>2, <1>3, <2>1
      <3>2. /\ \A j \in 1..Len(inbox) : inbox[j] # wire[i].id
            /\ \A j \in 1..Len(wire) : j > i => wire[j].id # wire[i].id
        BY <2>1, <3>1 DEF PortInv, DoneIsLast
      <3> QED
        BY <1>1, <1>3, <1>5, <3>1, <3>2
    <2>2. CASE i = Len(wire) + 1
      <3>1. wire'[i] = m
        BY <1>3, <2>2
      <3>2. \A j \in 1..Len(wire') : ~(j > i)
        BY <1>3, <2>2
      <3> QED
        BY <1>1, <1>5, <3>1, <3>2
    <2> QED
      BY <1>3, <2>1, <2>2
  <1> QED
    BY <1>5, <1>7, <1>8, <1>9, <1>10 DEF PortInv

\* The chunks of a stream that are on the port, after a message was posted.
LEMMA ChunksOfWorker ==
    ASSUME StreamInv, NEW r, NEW m, Makes(r, m) \/ Finishes(r, m),
           UNCHANGED <<phase, kind, chain, pending, chunks, ended, delivered>>
    PROVE  ChunksConserved'
  <1>1. /\ inbox \in Seq(Requests) /\ wire \in Seq(Messages) /\ inbox # <<>> /\ r = Head(inbox)
        /\ wire' = Append(wire, m) /\ m.id = r /\ made \in [Requests -> 0..MaxChunks]
        /\ delivered \in [Requests -> Seq(Nat)] /\ chunks \in [Requests -> Seq(Nat)]
        /\ pending \subseteq Requests
    BY DEF StreamInv, TurnInv, TypeOK, Makes, Finishes, Reply
  <1>2. /\ Len(wire') = Len(wire) + 1 /\ Len(wire) \in Nat
        /\ \A i \in 1..Len(wire) : wire'[i] = wire[i]
        /\ wire'[Len(wire) + 1] = m
        /\ \A i \in 1..(Len(wire) + 1) : i \in 1..Len(wire) \/ i = Len(wire) + 1
    <2>1. wire \in Seq(Messages) /\ wire' = Append(wire, m)
      BY <1>1
    <2> QED
      BY <2>1, AppendElements
  <1> SUFFICES ASSUME NEW s \in pending, kind[s] = "stream"
               PROVE  LET got == Len(delivered[s]) + Len(chunks[s])
                      IN /\ got <= made'[s]
                         /\ delivered[s] \o chunks[s] = Upto(got)
                         /\ {wire'[i].n : i \in OnWire(s)'} = (got + 1)..made'[s]
                         /\ \A i, j \in OnWire(s)' : i < j => wire'[i].n < wire'[j].n
    BY DEF ChunksConserved
  <1> DEFINE got == Len(delivered[s]) + Len(chunks[s])
  <1> DEFINE before == OnWire(s)
  <1> DEFINE after == OnWire(s)'
  <1>3. /\ got <= made[s] /\ delivered[s] \o chunks[s] = Upto(got)
        /\ {wire[i].n : i \in before} = (got + 1)..made[s]
        /\ \A i, j \in before : i < j => wire[i].n < wire[j].n
    BY DEF StreamInv, ChunksConserved
  <1>4. got \in Nat /\ made[s] \in Nat /\ s \in Requests
    BY <1>1, ChunkBound DEF ChunkBound
  <1>5. /\ before = {i \in 1..Len(wire) : wire[i].id = s /\ wire[i].type = "chunk"}
        /\ after = {i \in 1..Len(wire') : wire'[i].id = s /\ wire'[i].type = "chunk"}
    BY DEF OnWire
  <1> HIDE DEF got, before, after
  <1>6. CASE Finishes(r, m) \/ s # r
    <2>1. made'[s] = made[s]
      BY <1>1, <1>4, <1>6 DEF Makes, Finishes
    <2>2. after = before
      BY <1>1, <1>2, <1>5, <1>6, SMTT(30) DEF Finishes
    <2>3. \A i \in before : wire'[i] = wire[i]
      BY <1>2, <1>5
    <2>4. {wire'[i].n : i \in after} = {wire[i].n : i \in before}
      BY <2>2, <2>3
    <2> QED
      BY <1>3, <2>1, <2>2, <2>3, <2>4 DEF got, after
  <1>7. CASE Makes(r, m) /\ s = r
    <2> DEFINE k == Len(wire) + 1
    <2>1. made'[s] = made[s] + 1 /\ m.n = made[s] + 1 /\ m.type = "chunk"
      BY <1>1, <1>4, <1>7 DEF Makes
    <2>2. after = before \cup {k}
      BY <1>1, <1>2, <1>5, <1>7, <2>1
    <2>3. \A i \in before : wire'[i] = wire[i] /\ i \in 1..Len(wire) /\ wire[i].n \in (got + 1)..made[s]
      BY <1>2, <1>3, <1>5
    <2>4. wire'[k].n = made[s] + 1
      BY <1>2, <2>1
    <2>5. {wire'[i].n : i \in after} = {wire[i].n : i \in before} \cup {made[s] + 1}
      BY <2>2, <2>3, <2>4
    <2>6. {wire'[i].n : i \in after} = (got + 1)..made'[s]
      <3> DEFINE n == made[s]
      <3>1. (got + 1)..(n + 1) = ((got + 1)..n) \cup {n + 1}
        <4>1. n \in Nat /\ got \in Nat /\ got <= n
          BY <1>3, <1>4
        <4> HIDE DEF n
        <4> QED
          BY <4>1
      <3>2. {wire'[i].n : i \in after} = ((got + 1)..n) \cup {n + 1}
        BY <1>3, <2>5
      <3> QED
        BY <2>1, <3>1, <3>2
    <2>7. ASSUME NEW i \in after, NEW j \in after, i < j PROVE wire'[i].n < wire'[j].n
      <3>1. CASE j = k
        <4>1. i \in before
          BY <1>2, <2>2, <2>7, <3>1
        <4> QED
          BY <1>4, <2>3, <2>4, <3>1, <4>1
      <3>2. CASE j \in before
        <4>1. i \in before
          BY <1>2, <2>2, <2>3, <2>7, <3>2
        <4> QED
          BY <1>3, <2>3, <2>7, <3>2, <4>1
      <3> QED
        BY <2>2, <3>1, <3>2
    <2>8. got <= made'[s]
      BY <1>3, <1>4, <2>1
    <2> QED
      BY <1>3, <2>6, <2>7, <2>8 DEF got, after
  <1> QED
    BY <1>6, <1>7

LEMMA WorkerStreams ==
    ASSUME StreamInv, NEW r \in Requests, WorkerStep(r)
    PROVE  PortInv' /\ ChunksConserved' /\ DoneMeansComplete'
  <1>1. UNCHANGED <<phase, kind, chain, pending, chunks, ended, delivered>>
    BY WorkerSays DEF StreamInv
  <1>2. PICK q, m : q = r /\ (Makes(q, m) \/ Finishes(q, m))
    BY WorkerSays DEF StreamInv
  <1>3. PortInv' /\ ChunksConserved'
    BY <1>1, <1>2, PortOfWorker, ChunksOfWorker DEF StreamInv
  <1>4. ended[r] # "done"
    <2>1. inbox # <<>> /\ q = Head(inbox)
      BY <1>2 DEF Makes, Finishes
    <2> QED
      BY <1>2, <2>1, RunningIsOpen DEF StreamInv
  <1>5. \A s \in Requests : s # r => made'[s] = made[s]
    BY <1>2 DEF Makes, Finishes, StreamInv, TurnInv, TypeOK
  <1>6. DoneMeansComplete'
    BY <1>1, <1>4, <1>5 DEF StreamInv, DoneMeansComplete, Upto
  <1> QED
    BY <1>3, <1>6

-----------------------------------------------------------------------------
\* A message that was taken from the port leaves the others as they were.
LEMMA PortTaken ==
    ASSUME TypeOK, PostedOnce, DoneIsLast, wire # <<>>, wire' = Tail(wire), inbox' = inbox
    PROVE  /\ PostedOnce' /\ DoneIsLast'
           /\ \A s : Silent(s) => Silent(s)'
           /\ \A s : Head(wire).type = "done" /\ Head(wire).id = s => Silent(s)'
  <1>1. wire \in Seq(Messages)
    BY DEF TypeOK
  <1>2. /\ Len(wire) \in Nat \ {0} /\ Head(wire) = wire[1] /\ 1 \in 1..Len(wire)
        /\ \A i \in 1..Len(wire') :
              i \in Nat \ {0} /\ i + 1 \in 1..Len(wire) /\ wire'[i] = wire[i + 1]
    BY <1>1, TailElements
  <1>3. PostedOnce'
    BY DEF PostedOnce
  <1>4. \A s : Silent(s) => Silent(s)'
    BY <1>2 DEF Silent
  <1>5. DoneIsLast'
    <2> SUFFICES ASSUME NEW i \in 1..Len(wire'), wire'[i].type = "done"
                 PROVE  /\ \A j \in 1..Len(inbox') : inbox'[j] # wire'[i].id
                        /\ \A j \in 1..Len(wire') : j > i => wire'[j].id # wire'[i].id
      BY DEF DoneIsLast
    <2>1. i + 1 \in 1..Len(wire) /\ wire'[i] = wire[i + 1]
      BY <1>2
    <2>2. /\ \A j \in 1..Len(inbox) : inbox[j] # wire[i + 1].id
          /\ \A j \in 1..Len(wire) : j > i + 1 => wire[j].id # wire[i + 1].id
      BY <2>1 DEF DoneIsLast
    <2>3. ASSUME NEW j \in 1..Len(wire'), j > i PROVE wire'[j].id # wire'[i].id
      <3>1. j + 1 \in 1..Len(wire) /\ wire'[j] = wire[j + 1] /\ j + 1 > i + 1
        BY <1>2, <2>3
      <3> QED
        BY <2>1, <2>2, <3>1
    <2> QED
      BY <2>1, <2>2, <2>3
  <1>6. ASSUME NEW s, Head(wire).type = "done", Head(wire).id = s PROVE Silent(s)'
    <2>1. /\ \A j \in 1..Len(inbox) : inbox[j] # s
          /\ \A j \in 1..Len(wire) : j > 1 => wire[j].id # s
      BY <1>2, <1>6 DEF DoneIsLast
    <2>2. ASSUME NEW j \in 1..Len(wire') PROVE wire'[j].id # s
      <3>1. j + 1 \in 1..Len(wire) /\ wire'[j] = wire[j + 1] /\ j + 1 > 1
        BY <1>2
      <3> QED
        BY <2>1, <3>1
    <2> QED
      BY <2>1, <2>2 DEF Silent
  <1> QED
    BY <1>3, <1>4, <1>5, <1>6

\* The chunks of a stream are on the port in the places that follow, when what
\* was taken is none of them.
LEMMA OthersTaken ==
    ASSUME TypeOK, wire # <<>>, wire' = Tail(wire), NEW s,
           ~(Head(wire).id = s /\ Head(wire).type = "chunk"),
           \A i, j \in OnWire(s) : i < j => wire[i].n < wire[j].n
    PROVE  /\ {wire'[i].n : i \in OnWire(s)'} = {wire[i].n : i \in OnWire(s)}
           /\ \A i, j \in OnWire(s)' : i < j => wire'[i].n < wire'[j].n
  <1> DEFINE before == OnWire(s)
  <1> DEFINE after == OnWire(s)'
  <1>1. wire \in Seq(Messages)
    BY DEF TypeOK
  <1>2. /\ Head(wire) = wire[1]
        /\ \A i \in 1..Len(wire') :
              i \in Nat \ {0} /\ i + 1 \in 1..Len(wire) /\ wire'[i] = wire[i + 1]
        /\ \A i \in 1..Len(wire) :
              i \in Nat \ {0} /\ (i = 1 \/ (i - 1 \in 1..Len(wire') /\ wire'[i - 1] = wire[i]))
    BY <1>1, TailElements
  <1>3. /\ before = {i \in 1..Len(wire) : wire[i].id = s /\ wire[i].type = "chunk"}
        /\ after = {i \in 1..Len(wire') : wire'[i].id = s /\ wire'[i].type = "chunk"}
    BY DEF OnWire
  <1>4. \A i, j \in before : i < j => wire[i].n < wire[j].n
    OBVIOUS
  <1> HIDE DEF before, after
  <1>5. \A i \in after : i \in Nat /\ i + 1 \in before /\ wire'[i].n = wire[i + 1].n
    BY <1>2, <1>3
  <1>6. \A i \in before : i - 1 \in after /\ wire'[i - 1].n = wire[i].n
    BY <1>2, <1>3
  <1>7. {wire'[i].n : i \in after} = {wire[i].n : i \in before}
    <2>1. ASSUME NEW i \in after PROVE wire'[i].n \in {wire[k].n : k \in before}
      BY <1>5
    <2>2. ASSUME NEW i \in before PROVE wire[i].n \in {wire'[k].n : k \in after}
      BY <1>6
    <2> QED
      BY <2>1, <2>2
  <1>8. \A i, j \in after : i < j => wire'[i].n < wire'[j].n
    <2> SUFFICES ASSUME NEW i \in after, NEW j \in after, i < j PROVE wire'[i].n < wire'[j].n
      OBVIOUS
    <2>1. i + 1 \in before /\ j + 1 \in before /\ i + 1 < j + 1
      BY <1>5
    <2> QED
      BY <1>4, <1>5, <2>1
  <1> QED
    BY <1>7, <1>8 DEF before, after

\* The chunk that is taken is the next one.
LEMMA NextTaken ==
    ASSUME TypeOK, wire # <<>>, wire' = Tail(wire), NEW s,
           Head(wire).id = s /\ Head(wire).type = "chunk",
           NEW got \in Nat, NEW n \in Nat, got <= n,
           {wire[i].n : i \in OnWire(s)} = (got + 1)..n,
           \A i, j \in OnWire(s) : i < j => wire[i].n < wire[j].n
    PROVE  /\ Head(wire).n = got + 1 /\ got + 1 <= n
           /\ {wire'[i].n : i \in OnWire(s)'} = (got + 2)..n
           /\ \A i, j \in OnWire(s)' : i < j => wire'[i].n < wire'[j].n
  <1> DEFINE before == OnWire(s)
  <1> DEFINE after == OnWire(s)'
  <1> DEFINE f == [i \in 1..Len(wire) |-> wire[i].n]
  <1> DEFINE g == [i \in 1..Len(wire') |-> wire'[i].n]
  <1>1. wire \in Seq(Messages)
    BY DEF TypeOK
  <1>2. /\ Head(wire) = wire[1] /\ 1 \in 1..Len(wire)
        /\ \A i \in 1..Len(wire') :
              i \in Nat \ {0} /\ i + 1 \in 1..Len(wire) /\ wire'[i] = wire[i + 1]
        /\ \A i \in 1..Len(wire) :
              i \in Nat \ {0} /\ (i = 1 \/ (i - 1 \in 1..Len(wire') /\ wire'[i - 1] = wire[i]))
    BY <1>1, TailElements
  <1>3. /\ before = {i \in 1..Len(wire) : wire[i].id = s /\ wire[i].type = "chunk"}
        /\ after = {i \in 1..Len(wire') : wire'[i].id = s /\ wire'[i].type = "chunk"}
    BY DEF OnWire
  <1>4. /\ {wire[i].n : i \in before} = (got + 1)..n
        /\ \A i, j \in before : i < j => wire[i].n < wire[j].n
    OBVIOUS
  <1>5. /\ \A i \in before : i \in 1..Len(wire) /\ f[i] = wire[i].n
        /\ \A i \in after : i \in 1..Len(wire') /\ g[i] = wire'[i].n
    BY <1>3
  <1> HIDE DEF before, after, f, g
  <1>6. 1 \in before
    BY <1>2, <1>3
  <1>7. \A i \in after : i \in Nat \ {0} /\ i + 1 \in before /\ g[i] = f[i + 1]
    BY <1>2, <1>3, <1>5
  <1>8. \A i \in before : i \in Nat \ {0} /\ (i # 1 => i - 1 \in after /\ g[i - 1] = f[i])
    BY <1>2, <1>3, <1>5
  <1>9. \A i \in before : f[i] \in (got + 1)..n
    BY <1>4, <1>5
  <1>10. \A x \in (got + 1)..n : \E i \in before : f[i] = x
    BY <1>4, <1>5
  <1>11. \A i, j \in before : i < j => f[i] < f[j]
    BY <1>4, <1>5
  <1>12. f[1] = got + 1 /\ got + 1 <= n
    <2>1. f[1] \in (got + 1)..n /\ got + 1 <= n
      BY <1>6, <1>9
    <2>2. PICK i \in before : f[i] = got + 1
      BY <1>10, <2>1
    <2>3. i = 1 \/ f[1] < f[i]
      BY <1>6, <1>8, <1>11
    <2> QED
      BY <2>1, <2>2, <2>3
  <1>13. {wire'[i].n : i \in after} = (got + 2)..n
    <2>1. ASSUME NEW i \in after PROVE wire'[i].n \in (got + 2)..n
      <3>1. i + 1 \in before /\ 1 < i + 1 /\ g[i] = f[i + 1]
        BY <1>7
      <3>2. f[i + 1] \in (got + 1)..n /\ f[1] < f[i + 1]
        BY <1>6, <1>9, <1>11, <3>1
      <3> QED
        BY <1>5, <1>12, <3>1, <3>2
    <2>2. ASSUME NEW x \in (got + 2)..n PROVE x \in {wire'[i].n : i \in after}
      <3>1. x \in (got + 1)..n /\ x # got + 1
        OBVIOUS
      <3>2. PICK i \in before : f[i] = x
        BY <1>10, <3>1
      <3>3. i - 1 \in after /\ g[i - 1] = x
        BY <1>8, <1>12, <3>1, <3>2
      <3> QED
        BY <1>5, <3>3
    <2> QED
      BY <2>1, <2>2
  <1>14. ASSUME NEW i \in after, NEW j \in after, i < j PROVE wire'[i].n < wire'[j].n
    <2>1. i + 1 \in before /\ j + 1 \in before /\ i + 1 < j + 1 /\ g[i] = f[i + 1] /\ g[j] = f[j + 1]
      BY <1>7, <1>14
    <2> QED
      BY <1>5, <1>11, <2>1
  <1> QED
    BY <1>2, <1>5, <1>6, <1>12, <1>13, <1>14 DEF before, after

\* A message that arrives changes only the call it is for, and that call is
\* past the chain.
LEMMA HandleMessagePort ==
    ASSUME StreamInv, HandleMessage
    PROVE  PortInv' /\ DoneMeansComplete'
  <1> DEFINE m == Head(wire)
  <1>1. /\ wire # <<>> /\ wire' = Tail(wire)
        /\ UNCHANGED <<kind, delivered, inbox, made>>
        /\ Drop(m) \/ SettleByMessage(m) \/ StreamMessage(m)
    BY DEF HandleMessage, workerVars
  <1>2. TypeOK /\ PostedOnce /\ DoneIsLast
    BY DEF StreamInv, TurnInv, PortInv
  <1>3. /\ PostedOnce' /\ DoneIsLast'
        /\ \A s : Silent(s) => Silent(s)'
        /\ \A s : m.type = "done" /\ m.id = s => Silent(s)'
    BY <1>1, <1>2, PortTaken
  <1> HIDE DEF m
  <1>4. m.id \in pending => m.id \in Requests /\ phase[m.id] \in Serving
    BY PendingIsHead DEF StreamInv
  <1>5. \A s \in Requests : m.id # s \/ s \notin pending =>
            /\ phase'[s] = phase[s] /\ chunks'[s] = chunks[s] /\ ended'[s] = ended[s]
            /\ s \in pending <=> s \in pending'
    <2>1. CASE Drop(m)
      BY <2>1 DEF Drop
    <2>2. CASE SettleByMessage(m)
      BY <1>2, <1>4, <2>2 DEF SettleByMessage, Settle, TypeOK, Listening
    <2>3. CASE StreamMessage(m)
      BY <1>2, <1>4, <2>3 DEF StreamMessage, TypeOK, Listening
    <2> QED
      BY <1>1, <2>1, <2>2, <2>3
  <1>6. ASSUME NEW s \in Requests, m.id = s, s \in pending
        PROVE  \/ phase'[s] = phase[s] /\ s \in pending' /\ (ended'[s] = ended[s] \/ ended'[s] = m.type)
               \/ phase'[s] \in Settled /\ kind[s] # "stream" /\ ended'[s] = ended[s]
    <2>1. CASE Drop(m)
      BY <1>6, <2>1 DEF Drop
    <2>2. CASE SettleByMessage(m)
      BY <1>2, <1>6, <2>2 DEF SettleByMessage, Settle, Settled, TypeOK
    <2>3. CASE StreamMessage(m)
      BY <1>2, <1>6, <2>3 DEF StreamMessage, TypeOK
    <2> QED
      BY <1>1, <2>1, <2>2, <2>3
  <1>7. UnpostedIsSilent'
    <2>1. \A s \in Requests : phase'[s] \in Unposted => m.id # s \/ s \notin pending
      BY <1>6 DEF Unposted, Settled, StreamInv, TurnInv, PendingIsPosted
    <2> QED
      BY <1>1, <1>3, <1>5, <2>1 DEF StreamInv, PortInv, UnpostedIsSilent
  <1>8. DoneIsSilent'
    <2> SUFFICES ASSUME NEW s \in Requests, ended'[s] = "done" PROVE Silent(s)'
      BY DEF DoneIsSilent
    <2>1. CASE m.id # s \/ s \notin pending
      BY <1>3, <1>5, <2>1 DEF StreamInv, PortInv, DoneIsSilent
    <2>2. CASE m.id = s /\ s \in pending
      <3>1. ended[s] = "done" \/ m.type = "done"
        BY <1>6, <2>2
      <3> QED
        BY <1>3, <2>2, <3>1 DEF StreamInv, PortInv, DoneIsSilent
    <2> QED
      BY <2>1, <2>2
  <1>9. RunsOrFails'
    <2> SUFFICES ASSUME NEW s \in Requests, kind[s] = "stream",
                        phase'[s] \in {"parked", "yielded"}, s \notin pending'
                 PROVE  ended'[s] = "error"
      BY <1>1 DEF RunsOrFails
    <2>1. m.id # s \/ s \notin pending
      BY <1>6 DEF Settled
    <2> QED
      BY <1>5, <2>1 DEF StreamInv, PortInv, RunsOrFails
  <1>10. DoneMeansComplete'
    <2> SUFFICES ASSUME NEW s \in Requests, kind[s] = "stream", phase'[s] = "ok", ended'[s] = "done"
                 PROVE  delivered[s] = Upto(made[s])
      BY <1>1 DEF DoneMeansComplete, Upto
    <2>1. m.id # s \/ s \notin pending
      BY <1>4, <1>6 DEF Serving
    <2>2. phase[s] = "ok" /\ ended[s] = "done"
      BY <1>5, <2>1
    <2> QED
      BY <2>2 DEF StreamInv, DoneMeansComplete
  <1> QED
    BY <1>3, <1>7, <1>8, <1>9, <1>10 DEF PortInv

LEMMA UptoNext ==
    ASSUME NEW d \in Seq(Nat), NEW c \in Seq(Nat), NEW got \in Nat, d \o c = Upto(got)
    PROVE  d \o Append(c, got + 1) = Upto(got + 1)
  <1> DEFINE e == d \o Append(c, got + 1)
  <1> DEFINE u == d \o c
  <1>1. /\ e \in Seq(Nat) /\ Len(e) = Len(u) + 1
        /\ \A i \in 1..Len(u) : e[i] = u[i]
        /\ e[Len(u) + 1] = got + 1
    OBVIOUS
  <1>2. Len(u) = got /\ \A i \in 1..got : u[i] = i
    BY DEF Upto
  <1> HIDE DEF e, u
  <1>3. Len(e) = got + 1 /\ \A i \in 1..(got + 1) : e[i] = i
    BY <1>1, <1>2
  <1>4. e = Upto(got + 1)
    BY <1>1, <1>3 DEF Upto
  <1> QED
    BY <1>4 DEF e

LEMMA HandleMessageChunks ==
    ASSUME StreamInv, HandleMessage
    PROVE  ChunksConserved'
  <1> DEFINE m == Head(wire)
  <1>1. /\ wire # <<>> /\ wire' = Tail(wire)
        /\ UNCHANGED <<kind, delivered, inbox, made>>
        /\ Drop(m) \/ SettleByMessage(m) \/ StreamMessage(m)
    BY DEF HandleMessage, workerVars
  <1>2. /\ TypeOK /\ delivered \in [Requests -> Seq(Nat)] /\ chunks \in [Requests -> Seq(Nat)]
        /\ made \in [Requests -> 0..MaxChunks] /\ pending \subseteq Requests
    BY DEF StreamInv, TurnInv, TypeOK
  <1>3. \A s \in pending' : s \in pending
    BY <1>1 DEF Drop, SettleByMessage, StreamMessage, Settle
  <1> SUFFICES ASSUME NEW s \in pending', kind[s] = "stream"
               PROVE  LET got == Len(delivered[s]) + Len(chunks'[s])
                      IN /\ got <= made[s]
                         /\ delivered[s] \o chunks'[s] = Upto(got)
                         /\ {wire'[i].n : i \in OnWire(s)'} = (got + 1)..made[s]
                         /\ \A i, j \in OnWire(s)' : i < j => wire'[i].n < wire'[j].n
    BY <1>1 DEF ChunksConserved
  <1> DEFINE got == Len(delivered[s]) + Len(chunks[s])
  <1>4. /\ got <= made[s] /\ delivered[s] \o chunks[s] = Upto(got)
        /\ {wire[i].n : i \in OnWire(s)} = (got + 1)..made[s]
        /\ \A i, j \in OnWire(s) : i < j => wire[i].n < wire[j].n
    BY <1>3 DEF StreamInv, ChunksConserved
  <1>5. got \in Nat /\ made[s] \in Nat /\ s \in Requests
    BY <1>2, <1>3, ChunkBound DEF ChunkBound
  <1>6. CASE ~(m.id = s /\ m.type = "chunk")
    <2>1. /\ {wire'[i].n : i \in OnWire(s)'} = {wire[i].n : i \in OnWire(s)}
          /\ \A i, j \in OnWire(s)' : i < j => wire'[i].n < wire'[j].n
      BY <1>1, <1>2, <1>4, <1>6, OthersTaken
    <2> HIDE DEF m
    <2>2. chunks'[s] = chunks[s]
      <3>1. CASE m.type = "chunk"
        BY <1>1, <1>2, <1>5, <1>6, <3>1 DEF Drop, SettleByMessage, StreamMessage
      <3>2. CASE m.type # "chunk"
        BY <1>1, <3>2 DEF Drop, SettleByMessage, StreamMessage
      <3> QED
        BY <3>1, <3>2
    <2> QED
      BY <1>4, <2>1, <2>2
  <1>7. CASE m.id = s /\ m.type = "chunk"
    <2> DEFINE n == made[s]
    <2>1. got \in Nat /\ n \in Nat /\ got <= n /\ {wire[i].n : i \in OnWire(s)} = (got + 1)..n
      BY <1>4, <1>5
    <2> HIDE DEF got, n
    <2>2. /\ m.n = got + 1 /\ got + 1 <= n
          /\ {wire'[i].n : i \in OnWire(s)'} = (got + 2)..n
          /\ \A i, j \in OnWire(s)' : i < j => wire'[i].n < wire'[j].n
      <3>1. TypeOK /\ wire # <<>> /\ wire' = Tail(wire)
        BY <1>1, <1>2
      <3>2. Head(wire).id = s /\ Head(wire).type = "chunk"
        BY <1>7
      <3>3. \A i, j \in OnWire(s) : i < j => wire[i].n < wire[j].n
        BY <1>4
      <3>4. /\ Head(wire).n = got + 1 /\ got + 1 <= n
            /\ {wire'[i].n : i \in OnWire(s)'} = (got + 2)..n
            /\ \A i, j \in OnWire(s)' : i < j => wire'[i].n < wire'[j].n
        BY <2>1, <3>1, <3>2, <3>3, NextTaken, ZenonT(60)
      <3> QED
        BY <3>4
    <2> HIDE DEF m
    <2>3. chunks'[s] = Append(chunks[s], got + 1)
      <3>1. s \in pending /\ "chunk" \in Answers["stream"]
        BY <1>3 DEF Answers
      <3>2. Listening(m)
        BY <1>7, <3>1 DEF Listening
      <3>3. StreamMessage(m)
        BY <1>1, <1>7, <3>2 DEF Drop, SettleByMessage
      <3> QED
        BY <1>2, <1>5, <1>7, <2>2, <3>3 DEF StreamMessage
    <2>4. delivered[s] \in Seq(Nat) /\ chunks[s] \in Seq(Nat)
      BY <1>2, <1>5
    <2>5. delivered[s] \o chunks'[s] = Upto(got + 1)
      <3> DEFINE d == delivered[s]
      <3> DEFINE c == chunks[s]
      <3>1. d \in Seq(Nat) /\ c \in Seq(Nat) /\ d \o c = Upto(got)
        BY <1>4, <2>4
      <3> HIDE DEF d, c
      <3>2. d \o Append(c, got + 1) = Upto(got + 1)
        BY <2>1, <3>1, UptoNext
      <3> QED
        BY <2>3, <3>2 DEF d, c
    <2>6. Len(delivered[s]) + Len(chunks'[s]) = got + 1
      <3> DEFINE c == chunks[s]
      <3>1. c \in Seq(Nat)
        BY <2>4
      <3>2. Len(delivered[s]) \in Nat
        BY <2>4
      <3>3. got = Len(delivered[s]) + Len(c)
        BY DEF got
      <3> HIDE DEF c
      <3>4. Len(Append(c, got + 1)) = Len(c) + 1 /\ Len(c) \in Nat
        BY <3>1
      <3>5. Len(chunks'[s]) = Len(c) + 1
        BY <2>3, <3>4 DEF c
      <3> DEFINE a == Len(delivered[s])
      <3> DEFINE b == Len(c)
      <3>6. a \in Nat /\ b \in Nat /\ got = a + b /\ Len(chunks'[s]) = b + 1
        BY <3>2, <3>3, <3>4, <3>5
      <3> HIDE DEF a, b
      <3>7. a + (b + 1) = got + 1
        BY <3>6
      <3> QED
        BY <3>6, <3>7 DEF a
    <2>7. (got + 1) + 1 = got + 2
      BY <2>1
    <2> QED
      BY <2>2, <2>5, <2>6, <2>7 DEF n
  <1> QED
    BY <1>6, <1>7

-----------------------------------------------------------------------------
\* The steps of a generator do not touch the port.
LEMMA GeneratorPort ==
    ASSUME StreamInv, NEW r \in Requests, phase[r] \notin Unposted, phase'[r] \notin Unposted,
           UNCHANGED <<kind, ended, inbox, wire, made>>,
           \A s \in Requests : s # r =>
               /\ phase'[s] = phase[s] /\ chunks'[s] = chunks[s]
               /\ delivered'[s] = delivered[s] /\ (s \in pending <=> s \in pending'),
           \/ pending' = pending /\ phase[r] \in {"parked", "yielded"}
           \/ phase'[r] \in Settled
    PROVE  PortInv' /\ (\A s : OnWire(s)' = OnWire(s))
  <1>1. \A s : (Silent(s)' <=> Silent(s)) /\ OnWire(s)' = OnWire(s)
    BY DEF Silent, OnWire
  <1>2. PostedOnce' /\ DoneIsLast' /\ DoneIsSilent'
    BY <1>1 DEF StreamInv, PortInv, PostedOnce, DoneIsLast, DoneIsSilent
  <1>3. UnpostedIsSilent'
    BY <1>1 DEF StreamInv, PortInv, UnpostedIsSilent
  <1>4. RunsOrFails'
    BY DEF StreamInv, PortInv, RunsOrFails, Settled
  <1> QED
    BY <1>1, <1>2, <1>3, <1>4 DEF PortInv

\* A chunk that is yielded goes from the end of one sequence to the start of
\* the other.
LEMMA ShiftKeeps ==
    ASSUME NEW d \in Seq(Nat), NEW c \in Seq(Nat), c # <<>>
    PROVE  /\ Append(d, Head(c)) \o Tail(c) = d \o c
           /\ Len(Append(d, Head(c))) + Len(Tail(c)) = Len(d) + Len(c)
  OBVIOUS

LEMMA YieldStreams ==
    ASSUME StreamInv, NEW r \in Requests, phase[r] \in {"parked", "yielded"},
           Yield(r), GeneratorFrame
    PROVE  PortInv' /\ ChunksConserved' /\ DoneMeansComplete'
  <1>1. /\ delivered \in [Requests -> Seq(Nat)] /\ chunks \in [Requests -> Seq(Nat)]
        /\ phase \in [Requests -> Phases] /\ pending \subseteq Requests
    BY DEF StreamInv, TurnInv, TypeOK
  <1>2. /\ UNCHANGED <<kind, ended, inbox, wire, made, pending>>
        /\ phase'[r] = "yielded" /\ chunks[r] # <<>>
        /\ delivered'[r] = Append(delivered[r], Head(chunks[r]))
        /\ chunks'[r] = Tail(chunks[r])
        /\ \A s \in Requests : s # r =>
              /\ phase'[s] = phase[s] /\ chunks'[s] = chunks[s]
              /\ delivered'[s] = delivered[s] /\ (s \in pending <=> s \in pending')
    BY <1>1 DEF Yield, GeneratorFrame, portVars, workerVars
  <1>3. PortInv' /\ (\A s : OnWire(s)' = OnWire(s))
    BY <1>2, GeneratorPort DEF Unposted
  <1>4. ChunksConserved'
    <2>1. ASSUME NEW s \in Requests
          PROVE  /\ delivered'[s] \o chunks'[s] = delivered[s] \o chunks[s]
                 /\ Len(delivered'[s]) + Len(chunks'[s]) = Len(delivered[s]) + Len(chunks[s])
      <3>1. CASE s # r
        BY <1>2, <3>1
      <3>2. CASE s = r
        <4> DEFINE d == delivered[r]
        <4> DEFINE c == chunks[r]
        <4>1. d \in Seq(Nat) /\ c \in Seq(Nat) /\ c # <<>>
          BY <1>1, <1>2
        <4> HIDE DEF d, c
        <4>2. /\ Append(d, Head(c)) \o Tail(c) = d \o c
              /\ Len(Append(d, Head(c))) + Len(Tail(c)) = Len(d) + Len(c)
          BY <4>1, ShiftKeeps
        <4> QED
          BY <1>2, <3>2, <4>2 DEF c, d
      <3> QED
        BY <3>1, <3>2
    <2> SUFFICES ASSUME NEW s \in pending, kind[s] = "stream"
                 PROVE  LET got == Len(delivered'[s]) + Len(chunks'[s])
                        IN /\ got <= made[s]
                           /\ delivered'[s] \o chunks'[s] = Upto(got)
                           /\ {wire[i].n : i \in OnWire(s)} = (got + 1)..made[s]
                           /\ \A i, j \in OnWire(s) : i < j => wire[i].n < wire[j].n
      BY <1>2, <1>3, ZenonT(60) DEF ChunksConserved
    <2> QED
      BY <1>1, <2>1 DEF StreamInv, ChunksConserved
  <1>5. DoneMeansComplete'
    BY <1>2 DEF StreamInv, DoneMeansComplete, Upto
  <1> QED
    BY <1>3, <1>4, <1>5

\* What ChunksConserved says of a stream.
IsConserved(r) ==
    LET got == Len(delivered[r]) + Len(chunks[r])
    IN /\ got <= made[r]
       /\ delivered[r] \o chunks[r] = Upto(got)
       /\ {wire[i].n : i \in OnWire(r)} = (got + 1)..made[r]
       /\ \A i, j \in OnWire(r) : i < j => wire[i].n < wire[j].n

LEMMA ConservedSame ==
    ASSUME UNCHANGED <<chunks, delivered, wire, made>>
    PROVE  \A s : IsConserved(s)' <=> IsConserved(s)
  BY DEF IsConserved, OnWire, Upto

LEMMA ConservedEach ==
    ChunksConserved <=> \A s \in pending : kind[s] = "stream" => IsConserved(s)
  BY DEF ChunksConserved, IsConserved

\* A step that moves no chunk leaves them conserved.
LEMMA ConservedKept ==
    ASSUME ChunksConserved, UNCHANGED <<chunks, delivered, wire, made>>,
           \A s \in pending' : s \in pending /\ kind'[s] = kind[s]
    PROVE  ChunksConserved'
  <1>1. \A s : IsConserved(s)' <=> IsConserved(s)
    BY ConservedSame
  <1>2. \A s \in pending : kind[s] = "stream" => IsConserved(s)
    BY ConservedEach
  <1>3. (\A s \in pending' : kind'[s] = "stream" => IsConserved(s)') => ChunksConserved'
    BY DEF ChunksConserved, IsConserved
  <1> QED
    BY <1>1, <1>2, <1>3

\* A stream that ends well has been given all that was made of it.
LEMMA EndsComplete ==
    ASSUME StreamInv, NEW r \in Requests, kind[r] = "stream",
           phase[r] \in {"parked", "yielded"}, chunks[r] = <<>>, ended[r] = "done"
    PROVE  delivered[r] = Upto(made[r])
  <1> DEFINE d == delivered[r]
  <1> DEFINE n == made[r]
  <1>1. d \in Seq(Nat) /\ n \in Nat
    BY ChunkBound DEF ChunkBound, StreamInv, TurnInv, TypeOK
  <1>2. r \in pending
    BY DEF StreamInv, PortInv, RunsOrFails
  <1>3. OnWire(r) = {}
    BY DEF StreamInv, PortInv, DoneIsSilent, Silent, OnWire
  <1>4. /\ Len(d) + Len(<<>>) <= n /\ d \o <<>> = Upto(Len(d) + Len(<<>>))
        /\ {} = ((Len(d) + Len(<<>>)) + 1)..n
    BY <1>2, <1>3 DEF StreamInv, ChunksConserved
  <1> HIDE DEF d, n
  <1>5. d \o <<>> = d /\ Len(d) + Len(<<>>) = Len(d) /\ Len(d) \in Nat
    BY <1>1
  <1>6. Len(d) = n
    <2> DEFINE k == Len(d)
    <2>1. k \in Nat /\ k <= n /\ {} = (k + 1)..n
      BY <1>4, <1>5
    <2> HIDE DEF k
    <2>2. n \notin (k + 1)..n
      BY <2>1
    <2>3. k = n
      BY <1>1, <2>1, <2>2
    <2> QED
      BY <2>3 DEF k
  <1> QED
    BY <1>4, <1>5, <1>6 DEF d, n

LEMMA FinishStreams ==
    ASSUME StreamInv, NEW r \in Requests, phase[r] \in {"parked", "yielded"},
           NEW o \in Settled, FinishStream(r, o), GeneratorFrame,
           o = "ok" => chunks[r] = <<>>
    PROVE  PortInv' /\ ChunksConserved' /\ DoneMeansComplete'
  <1>1. /\ UNCHANGED <<kind, ended, inbox, wire, made, chunks, delivered>>
        /\ phase \in [Requests -> Phases] /\ phase' = [phase EXCEPT ![r] = o]
        /\ pending' = pending \ {r}
    BY DEF StreamInv, TurnInv, TypeOK, FinishStream, Settle, GeneratorFrame, portVars, workerVars
  <1>2. PortInv' /\ (\A s : OnWire(s)' = OnWire(s))
    BY <1>1, GeneratorPort DEF Unposted, Settled
  <1>3. ChunksConserved'
    BY <1>1, ConservedKept DEF StreamInv
  <1>4. DoneMeansComplete'
    <2> SUFFICES ASSUME NEW s \in Requests, kind[s] = "stream", phase'[s] = "ok", ended[s] = "done"
                 PROVE  delivered[s] = Upto(made[s])
      BY <1>1 DEF DoneMeansComplete, Upto
    <2>1. CASE s = r
      BY <1>1, <2>1, EndsComplete
    <2>2. CASE s # r
      BY <1>1, <2>2 DEF StreamInv, DoneMeansComplete
    <2> QED
      BY <2>1, <2>2
  <1> QED
    BY <1>2, <1>3, <1>4

LEMMA GeneratorStreams ==
    ASSUME StreamInv, NEW r \in Requests, Wake(r) \/ ConsumerNext(r) \/ ConsumerReturn(r)
    PROVE  PortInv' /\ ChunksConserved' /\ DoneMeansComplete'
  <1>1. GeneratorFrame /\ phase[r] \in {"parked", "yielded"}
    BY DEF Wake, ConsumerNext, ConsumerReturn, GeneratorFrame
  <1>2. CASE \E o \in Settled : FinishStream(r, o) /\ (o = "ok" => chunks[r] = <<>>)
    BY <1>1, <1>2, FinishStreams
  <1>3. CASE Yield(r)
    BY <1>1, <1>3, YieldStreams
  <1>4. CASE /\ phase' = [phase EXCEPT ![r] = "parked"]
             /\ UNCHANGED <<pending, chain, chunks, delivered>>
    <2>1. /\ UNCHANGED <<kind, ended, inbox, wire, made, chunks, delivered, pending>>
          /\ phase \in [Requests -> Phases] /\ phase' = [phase EXCEPT ![r] = "parked"]
      BY <1>1, <1>4 DEF StreamInv, TurnInv, TypeOK, GeneratorFrame, portVars, workerVars
    <2>2. PortInv' /\ (\A s : OnWire(s)' = OnWire(s))
      BY <1>1, <2>1, GeneratorPort DEF Unposted
    <2>3. ChunksConserved'
      BY <2>1, ConservedKept DEF StreamInv
    <2>4. DoneMeansComplete'
      BY <2>1 DEF StreamInv, DoneMeansComplete, Upto
    <2> QED
      BY <2>2, <2>3, <2>4
  <1> QED
    BY <1>2, <1>3, <1>4 DEF Wake, ConsumerNext, ConsumerReturn, Settled

-----------------------------------------------------------------------------
\* A call that comes, or goes before it posted, does not disturb the streams.
LEMMA CallerStreams ==
    ASSUME StreamInv, NEW r \in Requests, phase[r] \in Unposted,
           phase'[r] \in Unposted \cup {"failed"},
           UNCHANGED <<pending, chunks, ended, delivered, inbox, wire, made>>,
           \A s \in Requests : s # r => phase'[s] = phase[s] /\ kind'[s] = kind[s]
    PROVE  PortInv' /\ ChunksConserved' /\ DoneMeansComplete'
  <1>1. \A s : (Silent(s)' <=> Silent(s)) /\ OnWire(s)' = OnWire(s)
    BY DEF Silent, OnWire
  <1>2. PostedOnce' /\ DoneIsLast' /\ DoneIsSilent'
    BY <1>1 DEF StreamInv, PortInv, PostedOnce, DoneIsLast, DoneIsSilent
  <1>3. UnpostedIsSilent'
    BY <1>1 DEF StreamInv, PortInv, UnpostedIsSilent, Unposted
  <1>4. RunsOrFails'
    BY DEF StreamInv, PortInv, RunsOrFails, Unposted
  <1>5. r \notin pending /\ pending \subseteq Requests
    BY DEF StreamInv, TurnInv, TypeOK, PendingIsPosted, Unposted
  <1>6. ChunksConserved'
    BY <1>5, ConservedKept DEF StreamInv
  <1>7. DoneMeansComplete'
    BY DEF StreamInv, DoneMeansComplete, Unposted, Upto
  <1> QED
    BY <1>2, <1>3, <1>4, <1>6, <1>7 DEF PortInv

LEMMA CallStreams ==
    ASSUME StreamInv, NEW r \in Requests, Call(r) \/ Grant(r)
    PROVE  PortInv' /\ ChunksConserved' /\ DoneMeansComplete'
  <1>1. phase \in [Requests -> Phases] /\ kind \in [Requests -> Kinds]
    BY DEF StreamInv, TurnInv, TypeOK
  <1>2. /\ phase[r] \in Unposted /\ phase'[r] \in Unposted \cup {"failed"}
        /\ UNCHANGED <<pending, chunks, ended, delivered, inbox, wire, made>>
        /\ \A s \in Requests : s # r => phase'[s] = phase[s] /\ kind'[s] = kind[s]
    BY <1>1 DEF Call, Grant, Unposted, streamVars, portVars, workerVars
  <1> QED
    BY <1>2, CallerStreams

LEMMA PostStreams ==
    ASSUME StreamInv, NEW r \in Requests, Post(r)
    PROVE  PortInv' /\ ChunksConserved' /\ DoneMeansComplete'
  <1>1. /\ phase \in [Requests -> Phases] /\ inbox \in Seq(Requests) /\ pending \subseteq Requests
        /\ wire \in Seq(Messages)
    BY DEF StreamInv, TurnInv, TypeOK
  <1>2. /\ phase[r] = "granted"
        /\ UNCHANGED <<kind, chunks, ended, delivered, wire, made>>
    BY DEF Post, streamVars, workerVars
  <1>3. /\ made[r] = 0 /\ delivered[r] = <<>> /\ chunks[r] = <<>> /\ ended[r] = "no"
        /\ Silent(r)
    BY <1>2 DEF StreamInv, PortInv, UnpostedIsSilent, Unposted
  <1>4. CASE terminated
    <2>1. /\ phase'[r] = "failed" /\ UNCHANGED <<pending, inbox>>
          /\ \A s \in Requests : s # r => phase'[s] = phase[s] /\ kind'[s] = kind[s]
      BY <1>1, <1>2, <1>4 DEF Post
    <2> QED
      BY <1>2, <2>1, CallerStreams DEF Unposted
  <1>5. CASE ~terminated
    <2>1. /\ phase' = [phase EXCEPT ![r] = "parked"]
          /\ pending' = pending \cup {r} /\ inbox' = Append(inbox, r)
      BY <1>5 DEF Post
    <2>2. /\ Len(inbox') = Len(inbox) + 1 /\ Len(inbox) \in Nat
          /\ \A i \in 1..Len(inbox) : inbox'[i] = inbox[i]
          /\ inbox'[Len(inbox) + 1] = r
          /\ \A i \in 1..(Len(inbox) + 1) : i \in 1..Len(inbox) \/ i = Len(inbox) + 1
      BY <1>1, <2>1, AppendElements
    <2>3. \A s : s # r => (Silent(s)' <=> Silent(s))
      BY <1>2, <2>2, SMTT(30) DEF Silent
    <2>4. \A s : OnWire(s)' = OnWire(s)
      BY <1>2 DEF OnWire
    <2>5. PostedOnce'
      BY <1>3, <2>2 DEF StreamInv, PortInv, PostedOnce, Silent
    <2>6. UnpostedIsSilent'
      BY <1>1, <1>2, <2>1, <2>3 DEF StreamInv, PortInv, UnpostedIsSilent, Unposted
    <2>7. DoneIsLast'
      BY <1>2, <1>3, <2>2 DEF StreamInv, PortInv, DoneIsLast, Silent
    <2>8. DoneIsSilent'
      BY <1>2, <1>3, <2>3 DEF StreamInv, PortInv, DoneIsSilent
    <2>9. RunsOrFails'
      BY <1>1, <1>2, <2>1 DEF StreamInv, PortInv, RunsOrFails
    <2>10. ChunksConserved'
      <3> SUFFICES ASSUME NEW s \in pending \cup {r}, kind[s] = "stream"
                   PROVE  IsConserved(s)
        <4>1. pending' = pending \cup {r} /\ kind' = kind
          BY <1>2, <2>1
        <4>2. \A s : IsConserved(s)' <=> IsConserved(s)
          BY <1>2, ConservedSame
        <4>3. ChunksConserved' <=> \A s \in pending' : kind'[s] = "stream" => IsConserved(s)'
          BY DEF ChunksConserved, IsConserved
        <4> QED
          BY <4>1, <4>2, <4>3
      <3>1. CASE s # r
        BY <3>1 DEF StreamInv, ChunksConserved, IsConserved
      <3>2. CASE s = r
        <4>1. OnWire(r) = {}
          BY <1>3 DEF Silent, OnWire
        <4>2. /\ Len(<<>>) + Len(<<>>) = 0 /\ <<>> \o <<>> = Upto(0)
              /\ (0 + 1)..0 = {} /\ 0 <= 0
          BY DEF Upto
        <4> QED
          BY <1>3, <3>2, <4>1, <4>2 DEF IsConserved
      <3> QED
        BY <3>1, <3>2
    <2>11. DoneMeansComplete'
      BY <1>1, <1>2, <2>1 DEF StreamInv, DoneMeansComplete, Upto
    <2> QED
      BY <2>5, <2>6, <2>7, <2>8, <2>9, <2>10, <2>11 DEF PortInv
  <1> QED
    BY <1>4, <1>5

LEMMA TerminateStreams ==
    ASSUME StreamInv, Terminate
    PROVE  PortInv' /\ ChunksConserved' /\ DoneMeansComplete'
  <1>1. /\ pending' = {} /\ UNCHANGED <<kind, chunks, delivered, inbox, wire, made>>
        /\ ended' = [s \in Requests |->
                        IF s \in pending /\ kind[s] = "stream" THEN "error" ELSE ended[s]]
        /\ phase' = [s \in Requests |->
                        IF s \in {q \in pending : kind[q] # "stream"} THEN "failed" ELSE phase[s]]
    BY DEF Terminate, portVars, workerVars
  <1>2. /\ \A s \in pending : phase[s] \in {"parked", "yielded"}
        /\ \A s : Silent(s)' <=> Silent(s)
    BY <1>1 DEF StreamInv, TurnInv, PendingIsPosted, Silent
  <1>3. \A s \in Requests :
            /\ s \in pending /\ kind[s] = "stream" => ended'[s] = "error" /\ phase'[s] = phase[s]
            /\ s \in pending /\ kind[s] # "stream" => ended'[s] = ended[s] /\ phase'[s] = "failed"
            /\ s \notin pending => ended'[s] = ended[s] /\ phase'[s] = phase[s]
    BY <1>1
  <1>4. PostedOnce' /\ DoneIsLast' /\ ChunksConserved'
    <2>1. PostedOnce' /\ DoneIsLast'
      BY <1>1 DEF StreamInv, PortInv, PostedOnce, DoneIsLast
    <2>2. ChunksConserved'
      BY <1>1, ConservedKept DEF StreamInv
    <2> QED
      BY <2>1, <2>2
  <1>5. UnpostedIsSilent'
    BY <1>1, <1>2, <1>3 DEF StreamInv, PortInv, UnpostedIsSilent, Unposted
  <1>6. DoneIsSilent'
    BY <1>2, <1>3 DEF StreamInv, PortInv, DoneIsSilent
  <1>7. RunsOrFails'
    BY <1>1, <1>3 DEF StreamInv, PortInv, RunsOrFails
  <1>8. DoneMeansComplete'
    BY <1>1, <1>2, <1>3 DEF StreamInv, DoneMeansComplete, Upto
  <1> QED
    BY <1>4, <1>5, <1>6, <1>7, <1>8 DEF PortInv

LEMMA InitStreams == Init => StreamInv
  <1> SUFFICES ASSUME Init PROVE StreamInv
    OBVIOUS
  <1>1. TurnInv
    BY InitTurns
  <1>2. \A s : Silent(s)
    BY DEF Init, Silent
  <1>3. PortInv
    BY <1>2 DEF Init, PortInv, PostedOnce, UnpostedIsSilent, DoneIsLast, DoneIsSilent, RunsOrFails
  <1>4. ChunksConserved /\ DoneMeansComplete
    BY DEF Init, ChunksConserved, DoneMeansComplete
  <1> QED
    BY <1>1, <1>3, <1>4 DEF StreamInv

LEMMA StreamStep == StreamInv /\ [Next]_vars => StreamInv'
  <1> DEFINE Kept == PortInv' /\ ChunksConserved' /\ DoneMeansComplete'
  <1> SUFFICES ASSUME StreamInv, [Next]_vars PROVE Kept
    BY TurnStep DEF StreamInv
  <1>1. ASSUME NEW r \in Requests, Call(r) \/ Grant(r) PROVE Kept
    BY <1>1, CallStreams
  <1>2. ASSUME NEW r \in Requests, Post(r) PROVE Kept
    BY <1>2, PostStreams
  <1>3. ASSUME NEW r \in Requests, WorkerStep(r) PROVE Kept
    BY <1>3, WorkerStreams
  <1>4. ASSUME NEW r \in Requests, Wake(r) \/ ConsumerNext(r) \/ ConsumerReturn(r) PROVE Kept
    BY <1>4, GeneratorStreams
  <1>5. CASE HandleMessage
    BY <1>5, HandleMessagePort, HandleMessageChunks
  <1>6. CASE Terminate
    BY <1>6, TerminateStreams
  <1>7. CASE WorkerCrash \/ UNCHANGED vars
    <2>1. UNCHANGED <<phase, kind, pending, chunks, ended, delivered, inbox, wire, made>>
      BY <1>7 DEF WorkerCrash, vars, callVars, streamVars, portVars, workerVars
    <2>2. \A s : (Silent(s)' <=> Silent(s)) /\ OnWire(s)' = OnWire(s)
      BY <2>1 DEF Silent, OnWire
    <2>3. PortInv'
      BY <2>1, <2>2 DEF StreamInv, PortInv, PostedOnce, UnpostedIsSilent, DoneIsLast,
                       DoneIsSilent, RunsOrFails
    <2>4. ChunksConserved'
      BY <2>1, ConservedKept DEF StreamInv
    <2>5. DoneMeansComplete'
      BY <2>1 DEF StreamInv, DoneMeansComplete, Upto
    <2> QED
      BY <2>3, <2>4, <2>5
  <1> HIDE DEF Kept
  <1> QED
    BY <1>1, <1>2, <1>3, <1>4, <1>5, <1>6, <1>7 DEF Next

\* Between the worker and the consumer of a stream no chunk is lost, repeated
\* or reordered, whoever terminates, abandons or crashes meanwhile.  The
\* invariant adds what a call may have on the port: nothing before it posted
\* and nothing after its `done`, so that what is there is what was made since.
THEOREM ChunksAreConserved == Spec => []ChunksConserved
  <1>1. StreamInv => ChunksConserved
    BY DEF StreamInv
  <1> QED
    BY InitStreams, StreamStep, <1>1, PTL DEF Spec

\* A stream that returned normally behind a `done` of the worker handed its
\* consumer every chunk the worker made.
THEOREM DoneIsComplete == Spec => []DoneMeansComplete
  <1>1. StreamInv => DoneMeansComplete
    BY DEF StreamInv
  <1> QED
    BY InitStreams, StreamStep, <1>1, PTL DEF Spec

-----------------------------------------------------------------------------
(* TakeTurns: seen from outside, the proxy is the service of TurnService.  *)

\* Calls that are on the chain and not at its head wait; none is there twice.
ChainOrder ==
    /\ \A i, j \in 1..Len(chain) : chain[i] = chain[j] => i = j
    /\ \A i \in 1..Len(chain) : i > 1 => phase[chain[i]] = "waiting"
    /\ chain # <<>> => phase[Head(chain)] \in {"waiting", "failed"} \cup Serving

ChainInv == TurnInv /\ ChainOrder

\* What a step can do to the phases and the chain.
Stays == phase' = phase /\ chain' = chain

Comes(r) ==
    /\ phase[r] = "idle"
    /\ \/ phase' = [phase EXCEPT ![r] = "failed"] /\ chain' = chain
       \/ phase' = [phase EXCEPT ![r] = "waiting"] /\ chain' = Append(chain, r)

Advances(r) ==
    /\ chain # <<>> /\ Head(chain) = r
    /\ \/ phase[r] = "waiting" /\ phase' = [phase EXCEPT ![r] = "granted"]
       \/ /\ phase[r] \in Serving
          /\ \E p \in {"parked", "yielded"} : phase' = [phase EXCEPT ![r] = p]
    /\ chain' = chain

Leaves(r) ==
    /\ chain # <<>> /\ Head(chain) = r
    /\ phase[r] \in {"waiting"} \cup Serving
    /\ \E o \in Settled : phase' = [phase EXCEPT ![r] = o]
    /\ chain' = Tail(chain)

Leaks(r) ==
    /\ chain # <<>> /\ Head(chain) = r
    /\ phase[r] \in Serving
    /\ phase' = [phase EXCEPT ![r] = "failed"]
    /\ chain' = chain

LEMMA StepMoves ==
    ASSUME TurnInv, [Next]_vars
    PROVE  Stays \/ \E r \in Requests : Comes(r) \/ Advances(r) \/ Leaves(r) \/ Leaks(r)
  <1>1. ASSUME NEW r \in Requests, phase[r] \in Serving
        PROVE  chain # <<>> /\ Head(chain) = r
    BY <1>1 DEF TurnInv, HolderIsHead
  <1>2. ASSUME NEW r \in Requests, Call(r) PROVE Comes(r)
    BY <1>2 DEF Call, Comes
  <1>3. ASSUME NEW r \in Requests, Grant(r) PROVE Advances(r) \/ Leaves(r)
    BY <1>3 DEF Grant, CanPass, Advances, Leaves, Settled
  <1>4. ASSUME NEW r \in Requests, Post(r) PROVE Advances(r) \/ Leaves(r) \/ Leaks(r)
    BY <1>1, <1>4 DEF Post, ChainAfterThrow, Advances, Leaves, Leaks, Settled, Serving
  <1>5. ASSUME NEW r \in Requests, WorkerStep(r) PROVE Stays
    BY <1>5, WorkerSays DEF Stays
  <1>6. ASSUME NEW r \in Requests, Wake(r) \/ ConsumerNext(r) \/ ConsumerReturn(r)
        PROVE  Advances(r) \/ Leaves(r)
    <2>1. phase[r] \in Serving
      BY <1>6 DEF Wake, ConsumerNext, ConsumerReturn, Serving
    <2> QED
      BY <1>1, <1>6, <2>1 DEF Wake, ConsumerNext, ConsumerReturn, Yield, FinishStream, Settle,
                              Advances, Leaves, Settled
  <1>7. CASE HandleMessage
    <2> DEFINE m == Head(wire)
    <2>1. Drop(m) \/ SettleByMessage(m) \/ StreamMessage(m)
      BY <1>7 DEF HandleMessage
    <2> HIDE DEF m
    <2>2. CASE Drop(m) \/ StreamMessage(m)
      BY <2>2 DEF Drop, StreamMessage, Stays
    <2>3. CASE SettleByMessage(m)
      <3>1. m.id \in Requests /\ phase[m.id] \in Serving
        BY <2>3, PendingIsHead DEF SettleByMessage, Listening
      <3>2. Leaves(m.id)
        BY <1>1, <2>3, <3>1 DEF SettleByMessage, Settle, Leaves, Settled
      <3> QED
        BY <3>1, <3>2
    <2> QED
      BY <2>1, <2>2, <2>3
  <1>8. CASE WorkerCrash \/ UNCHANGED vars
    BY <1>8 DEF WorkerCrash, vars, callVars, Stays
  <1>9. CASE Terminate
    <2> DEFINE rejected == {r \in pending : kind[r] # "stream"}
    <2>1. /\ phase' = [r \in Requests |-> IF r \in rejected THEN "failed" ELSE phase[r]]
          /\ chain' = IF rejected = {} THEN chain ELSE Tail(chain)
      BY <1>9 DEF Terminate
    <2>2. phase \in [Requests -> Phases]
      BY DEF TurnInv, TypeOK
    <2>3. \A r, s \in rejected : r \in Requests /\ phase[r] \in Serving /\ r = s
      BY PendingIsHead
    <2> HIDE DEF rejected
    <2>4. CASE rejected = {}
      BY <2>1, <2>2, <2>4 DEF Stays
    <2>5. CASE rejected # {}
      <3>1. PICK r : r \in rejected
        BY <2>5
      <3>2. r \in Requests /\ phase[r] \in Serving /\ chain # <<>> /\ Head(chain) = r
        BY <1>1, <2>3, <3>1
      <3>3. phase' = [phase EXCEPT ![r] = "failed"]
        BY <2>1, <2>2, <2>3, <3>1
      <3>4. Leaves(r)
        BY <2>1, <2>5, <3>2, <3>3 DEF Leaves, Settled
      <3> QED
        BY <3>2, <3>4
    <2> QED
      BY <2>4, <2>5
  <1> QED
    BY <1>2, <1>3, <1>4, <1>5, <1>6, <1>7, <1>8, <1>9 DEF Next

\* Who stands where: the head first, the others behind it and waiting.
LEMMA ChainElements ==
    ASSUME ChainInv
    PROVE  /\ chain \in Seq(Requests) /\ phase \in [Requests -> Phases] /\ Len(chain) \in Nat
           /\ \A i \in 1..Len(chain) : chain[i] \in Requests /\ phase[chain[i]] # "idle"
           /\ chain # <<>> => /\ 1 \in 1..Len(chain) /\ Head(chain) = chain[1]
                             /\ \A i \in 1..Len(chain) :
                                   i # 1 => chain[i] # Head(chain) /\ phase[chain[i]] = "waiting"
  <1>1. chain \in Seq(Requests) /\ phase \in [Requests -> Phases]
    BY DEF ChainInv, TurnInv, TypeOK
  <1>2. Len(chain) \in Nat /\ \A i \in 1..Len(chain) : chain[i] \in Requests
    BY <1>1
  <1>3. ASSUME chain # <<>> PROVE 1 \in 1..Len(chain) /\ Head(chain) = chain[1]
    BY <1>1, <1>3
  <1>4. \A i \in 1..Len(chain) : i = 1 \/ i > 1
    BY <1>2
  <1>5. ASSUME NEW i \in 1..Len(chain), i # 1 PROVE phase[chain[i]] = "waiting"
    BY <1>4, <1>5 DEF ChainInv, ChainOrder
  <1>6. ASSUME NEW i \in 1..Len(chain) PROVE phase[chain[i]] # "idle"
    <2>1. chain # <<>>
      BY <1>2
    <2> QED
      BY <1>3, <1>5, <2>1 DEF ChainInv, ChainOrder, Serving
  <1> QED
    BY <1>1, <1>2, <1>3, <1>5, <1>6 DEF ChainInv, ChainOrder

LEMMA ComesOrder ==
    ASSUME ChainInv, NEW r \in Requests, Comes(r)
    PROVE  ChainOrder'
  <1>1. /\ chain \in Seq(Requests) /\ phase \in [Requests -> Phases] /\ Len(chain) \in Nat
        /\ \A i \in 1..Len(chain) : chain[i] # r /\ chain[i] \in Requests
        /\ chain # <<>> => 1 \in 1..Len(chain) /\ Head(chain) = chain[1]
    BY ChainElements DEF Comes
  <1>2. CASE chain' = chain
    BY <1>1, <1>2 DEF Comes, ChainInv, ChainOrder, Serving
  <1>3. CASE chain' = Append(chain, r) /\ phase' = [phase EXCEPT ![r] = "waiting"]
    <2>1. /\ Len(chain') = Len(chain) + 1 /\ Len(chain) \in Nat
          /\ \A i \in 1..Len(chain) : chain'[i] = chain[i]
          /\ chain'[Len(chain) + 1] = r
          /\ \A i \in 1..(Len(chain) + 1) : i \in 1..Len(chain) \/ i = Len(chain) + 1
      BY <1>1, <1>3, AppendElements
    <2>2. \A i, j \in 1..Len(chain') : chain'[i] = chain'[j] => i = j
      BY <1>1, <2>1 DEF ChainInv, ChainOrder
    <2>3. \A i \in 1..Len(chain') : i > 1 => phase'[chain'[i]] = "waiting"
      BY <1>1, <1>3, <2>1 DEF ChainInv, ChainOrder
    <2>4. phase'[Head(chain')] \in {"waiting", "failed"} \cup Serving
      <3>1. CASE chain = <<>>
        <4>1. Head(chain') = r
          BY <1>3, <3>1
        <4> QED
          BY <1>1, <1>3, <4>1
      <3>2. CASE chain # <<>>
        <4>1. Head(chain') = Head(chain) /\ Head(chain) # r
          BY <1>1, <1>3, <3>2
        <4> QED
          BY <1>1, <1>3, <3>2, <4>1 DEF ChainInv, ChainOrder
      <3> QED
        BY <3>1, <3>2
    <2> QED
      BY <2>2, <2>3, <2>4 DEF ChainOrder
  <1> QED
    BY <1>2, <1>3 DEF Comes

\* A new phase for the head disturbs nobody behind it.
LEMMA StaysOrder ==
    ASSUME ChainInv, NEW r \in Requests, Advances(r) \/ Leaks(r)
    PROVE  ChainOrder'
  <1>1. /\ chain # <<>> /\ Head(chain) = r /\ chain' = chain /\ phase \in [Requests -> Phases]
        /\ \A i \in 1..Len(chain) : i # 1 => chain[i] # r /\ phase[chain[i]] = "waiting"
        /\ Len(chain) \in Nat
    BY ChainElements DEF Advances, Leaks
  <1>2. /\ phase'[r] \in {"waiting", "failed"} \cup Serving
        /\ \A s \in Requests : s # r => phase'[s] = phase[s]
    BY <1>1 DEF Advances, Leaks, Serving
  <1>3. \A i \in 1..Len(chain) : chain[i] \in Requests /\ (i > 1 => i # 1)
    BY ChainElements
  <1> QED
    BY <1>1, <1>2, <1>3 DEF ChainInv, ChainOrder

LEMMA LeavesOrder ==
    ASSUME ChainInv, NEW r \in Requests, Leaves(r)
    PROVE  /\ ChainOrder'
           /\ chain' # <<>> => phase'[Head(chain')] = "waiting"
  <1>1. /\ chain # <<>> /\ Head(chain) = r /\ chain' = Tail(chain) /\ phase \in [Requests -> Phases]
        /\ \A i \in 1..Len(chain) : i # 1 => chain[i] # r /\ phase[chain[i]] = "waiting"
        /\ chain \in Seq(Requests) /\ \A i \in 1..Len(chain) : chain[i] \in Requests
    BY ChainElements DEF Leaves
  <1>2. \A s \in Requests : s # r => phase'[s] = phase[s]
    BY <1>1 DEF Leaves
  <1>3. /\ Len(chain') = Len(chain) - 1 /\ Len(chain) \in Nat \ {0}
        /\ \A i \in 1..Len(chain') :
              i \in Nat \ {0} /\ i + 1 \in 1..Len(chain) /\ chain'[i] = chain[i + 1]
    BY <1>1, TailElements
  <1>4. \A i \in 1..Len(chain') : i + 1 # 1
    BY <1>3
  <1>5. \A i \in 1..Len(chain') : phase'[chain'[i]] = "waiting"
    BY <1>1, <1>2, <1>3, <1>4
  <1>6. \A i, j \in 1..Len(chain') : chain'[i] = chain'[j] => i = j
    <2> SUFFICES ASSUME NEW i \in 1..Len(chain'), NEW j \in 1..Len(chain'), chain'[i] = chain'[j]
                 PROVE  i = j
      OBVIOUS
    <2>1. i + 1 = j + 1
      BY <1>3 DEF ChainInv, ChainOrder
    <2> QED
      BY <1>3, <2>1
  <1>7. chain' # <<>> => phase'[Head(chain')] = "waiting"
    <2> SUFFICES ASSUME chain' # <<>> PROVE phase'[Head(chain')] = "waiting"
      OBVIOUS
    <2>1. chain' \in Seq(Requests)
      BY <1>1, HeadTail
    <2>2. 1 \in 1..Len(chain') /\ Head(chain') = chain'[1]
      BY <2>1
    <2> QED
      BY <1>5, <2>2
  <1> QED
    BY <1>5, <1>6, <1>7 DEF ChainOrder

LEMMA ChainStep == ChainInv /\ [Next]_vars => ChainInv'
  <1> SUFFICES ASSUME ChainInv, [Next]_vars PROVE ChainOrder'
    BY TurnStep DEF ChainInv
  <1>1. CASE Stays
    BY <1>1 DEF Stays, ChainInv, ChainOrder
  <1> QED
    BY <1>1, StepMoves, ComesOrder, StaysOrder, LeavesOrder DEF ChainInv

-----------------------------------------------------------------------------
\* The refinement mapping of Turns, by name.
Line == IF Leaked THEN Tail(chain) ELSE chain
ServingHead == chain # <<>> /\ phase[Head(chain)] \in {"parked", "yielded"}
Gone == {r \in Requests : phase[r] \in Settled}

\* The steps of the service, in these names.
LEMMA ServiceSteps ==
    /\ Line # <<>> /\ Line' = Tail(Line) /\ Gone' = Gone \cup {Head(Line)} /\ ~ServingHead'
          => [Turns!Next]_Turns!vars
    /\ Line # <<>> /\ ~ServingHead /\ ServingHead' /\ Line' = Line /\ Gone' = Gone
          => [Turns!Next]_Turns!vars
    /\ Line' = Line /\ Gone' = Gone /\ ServingHead' = ServingHead => [Turns!Next]_Turns!vars
    /\ \A r \in Requests :
          /\ \A i \in DOMAIN Line : Line[i] # r
          /\ r \notin Gone
          /\ ServingHead' = ServingHead
          /\ \/ Line' = Append(Line, r) /\ Gone' = Gone
             \/ Line' = Line /\ Gone' = Gone \cup {r}
          => [Turns!Next]_Turns!vars
  <1>1. Line # <<>> /\ Line' = Tail(Line) /\ Gone' = Gone \cup {Head(Line)} /\ ~ServingHead'
          => Turns!Leave
    BY DEF Turns!Leave, Line, ServingHead, Gone
  <1>2. Line # <<>> /\ ~ServingHead /\ ServingHead' /\ Line' = Line /\ Gone' = Gone
          => Turns!Serve
    BY DEF Turns!Serve, Line, ServingHead, Gone
  <1>3. Line' = Line /\ Gone' = Gone /\ ServingHead' = ServingHead => Turns!vars' = Turns!vars
    BY DEF Turns!vars, Line, ServingHead, Gone
  <1>4. ASSUME NEW r \in Requests, \A i \in DOMAIN Line : Line[i] # r, r \notin Gone,
               ServingHead' = ServingHead,
               \/ Line' = Append(Line, r) /\ Gone' = Gone
               \/ Line' = Line /\ Gone' = Gone \cup {r}
        PROVE  Turns!Join(r) \/ Turns!TurnAway(r)
    <2>1. Turns!New(r)
      BY <1>4 DEF Turns!New, Turns!InLine, Line, Gone
    <2> QED
      BY <1>4, <2>1 DEF Turns!Join, Turns!TurnAway, Line, ServingHead, Gone
  <1> QED
    BY <1>1, <1>2, <1>3, <1>4 DEF Turns!Next

LEMMA ComesServes ==
    ASSUME ChainInv, NEW r \in Requests, Comes(r)
    PROVE  [Turns!Next]_Turns!vars
  <1>1. /\ chain \in Seq(Requests) /\ phase \in [Requests -> Phases] /\ Len(chain) \in Nat
        /\ \A i \in 1..Len(chain) : chain[i] # r /\ chain[i] \in Requests
        /\ chain # <<>> => 1 \in 1..Len(chain) /\ Head(chain) = chain[1]
    BY ChainElements DEF Comes
  <1>2. phase[r] = "idle" /\ \A s \in Requests : s # r => phase'[s] = phase[s]
    BY <1>1 DEF Comes
  <1>3. Line \in Seq(Requests) /\ \A i \in 1..Len(Line) : Line[i] # r
    <2>1. CASE chain # <<>> /\ Line = Tail(chain)
      <3>1. \A i \in 1..Len(Line) : i + 1 \in 1..Len(chain) /\ Line[i] = chain[i + 1]
        BY <1>1, <2>1, TailElements
      <3> QED
        BY <1>1, <2>1, <3>1, HeadTail
    <2>2. CASE Line = chain
      BY <1>1, <2>2
    <2> QED
      BY <2>1, <2>2 DEF Line, Leaked
  <1>4. r \notin Gone /\ \A i \in DOMAIN Line : Line[i] # r
    BY <1>2, <1>3 DEF Gone, Settled
  <1>5. CASE phase' = [phase EXCEPT ![r] = "failed"] /\ chain' = chain
    <2>1. Gone' = Gone \cup {r}
      BY <1>1, <1>5 DEF Gone, Settled
    <2>2. chain # <<>> => phase'[Head(chain)] = phase[Head(chain)]
      BY <1>1, <1>2
    <2>3. Line' = Line /\ ServingHead' = ServingHead
      BY <1>5, <2>2 DEF Line, Leaked, ServingHead
    <2> QED
      BY <1>4, <2>1, <2>3, ServiceSteps
  <1>6. CASE phase' = [phase EXCEPT ![r] = "waiting"] /\ chain' = Append(chain, r)
    <2>1. Gone' = Gone
      BY <1>1, <1>2, <1>6 DEF Gone, Settled
    <2>2. CASE chain = <<>>
      <3>1. chain' # <<>> /\ Head(chain') = r
        BY <1>6, <2>2
      <3>2. phase'[r] = "waiting"
        BY <1>1, <1>6
      <3>3. ~ServingHead /\ ~ServingHead' /\ Line = chain /\ Line' = chain'
        BY <2>2, <3>1, <3>2 DEF Line, Leaked, ServingHead
      <3>4. ServingHead' = ServingHead /\ Line' = Append(Line, r)
        BY <1>6, <3>3 DEF ServingHead
      <3> QED
        BY <1>4, <2>1, <3>4, ServiceSteps
    <2>3. CASE chain # <<>>
      <3>1. chain' # <<>> /\ Head(chain') = Head(chain) /\ Tail(chain') = Append(Tail(chain), r)
        BY <1>1, <1>6, <2>3
      <3>2. phase'[Head(chain')] = phase[Head(chain)]
        BY <1>1, <1>2, <2>3, <3>1
      <3>3. Leaked' = Leaked /\ ServingHead' = ServingHead
        BY <2>3, <3>1, <3>2 DEF Leaked, ServingHead
      <3>4. Line' = Append(Line, r)
        BY <1>6, <3>1, <3>3 DEF Line
      <3> QED
        BY <1>4, <2>1, <3>3, <3>4, ServiceSteps
    <2> QED
      BY <2>2, <2>3
  <1> QED
    BY <1>5, <1>6 DEF Comes

LEMMA AdvancesServes ==
    ASSUME ChainInv, NEW r \in Requests, Advances(r)
    PROVE  [Turns!Next]_Turns!vars
  <1>1. chain # <<>> /\ Head(chain) = r /\ chain' = chain /\ phase \in [Requests -> Phases]
    BY ChainElements DEF Advances
  <1>2. phase[r] \notin Settled /\ phase'[r] \notin Settled
    BY <1>1 DEF Advances, Serving, Settled
  <1>3. \A s \in Requests : s # r => phase'[s] = phase[s]
    BY <1>1 DEF Advances
  <1>4. Line' = Line /\ Line = chain
    BY <1>1, <1>2 DEF Line, Leaked, Settled
  <1>5. Gone' = Gone
    BY <1>2, <1>3 DEF Gone
  <1>6. CASE phase[r] = "waiting" /\ phase' = [phase EXCEPT ![r] = "granted"]
    <2>1. ~ServingHead /\ ~ServingHead'
      BY <1>1, <1>6 DEF ServingHead
    <2> QED
      BY <1>4, <1>5, <2>1, ServiceSteps DEF ServingHead
  <1>7. CASE phase[r] \in Serving /\ \E p \in {"parked", "yielded"} : phase' = [phase EXCEPT ![r] = p]
    <2>1. ServingHead'
      BY <1>1, <1>7 DEF ServingHead
    <2> QED
      BY <1>1, <1>4, <1>5, <2>1, ServiceSteps DEF ServingHead
  <1> QED
    BY <1>6, <1>7 DEF Advances

LEMMA LeavesServes ==
    ASSUME ChainInv, NEW r \in Requests, Leaves(r) \/ Leaks(r)
    PROVE  [Turns!Next]_Turns!vars
  <1>1. chain # <<>> /\ Head(chain) = r /\ phase \in [Requests -> Phases]
    BY ChainElements DEF Leaves, Leaks
  <1>2. /\ phase[r] \notin Settled /\ phase'[r] \in Settled
        /\ \A s \in Requests : s # r => phase'[s] = phase[s]
    BY <1>1 DEF Leaves, Leaks, Serving, Settled
  <1>3. Line = chain /\ Line # <<>> /\ Head(Line) = r
    BY <1>1, <1>2 DEF Line, Leaked, Settled
  <1>4. Gone' = Gone \cup {r}
    BY <1>2 DEF Gone
  <1>5. Line' = Tail(chain) /\ ~ServingHead'
    <2>1. CASE Leaves(r)
      <3>1. chain' # <<>> => phase'[Head(chain')] = "waiting"
        BY <2>1, LeavesOrder
      <3> QED
        BY <2>1, <3>1 DEF Leaves, Line, Leaked, ServingHead
    <2>2. CASE Leaks(r)
      <3>1. chain' = chain /\ phase'[r] = "failed"
        BY <1>1, <2>2 DEF Leaks
      <3> QED
        BY <1>1, <3>1 DEF Line, Leaked, ServingHead
    <2> QED
      BY <2>1, <2>2
  <1> QED
    BY <1>3, <1>4, <1>5, ServiceSteps

\* Callers are served one at a time and in the order in which they called:
\* beginRequest, the finally blocks, terminate and the throw of streamChat in
\* front of its try block implement TurnService.
THEOREM TurnsAreTaken == Spec => TakeTurns
  <1>1. Init => ChainInv
    BY InitTurns DEF Init, ChainInv, ChainOrder
  <1>2. Init => Turns!Init
    BY DEF Init, Turns!Init, Leaked, Settled
  <1>3. ChainInv /\ [Next]_vars => [Turns!Next]_Turns!vars
    <2> SUFFICES ASSUME ChainInv, [Next]_vars PROVE [Turns!Next]_Turns!vars
      OBVIOUS
    <2>1. CASE Stays
      <3>1. Line' = Line /\ Gone' = Gone /\ ServingHead' = ServingHead
        BY <2>1 DEF Stays, Line, Leaked, Gone, ServingHead
      <3> QED
        BY <3>1, ServiceSteps
    <2> QED
      BY <2>1, StepMoves, ComesServes, AdvancesServes, LeavesServes DEF ChainInv
  <1> QED
    BY ChainStep, <1>1, <1>2, <1>3, PTL DEF Spec, TakeTurns, Turns!Spec
=============================================================================
