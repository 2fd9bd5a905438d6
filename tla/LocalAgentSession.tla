------------------------- MODULE LocalAgentSession -------------------------
(***************************************************************************)
(* One chat session in one tab: the app's buttons (App.tsx) and the agent  *)
(* behind them (localAgent.ts) - turns, "Clear memory", "Delete session",  *)
(* document uploads - with the background ingestion queue                  *)
(* (MemoryIngestionQueue), the memory store and the chain of requests to   *)
(* the model worker, which also holds the persisted KV blocks.             *)
(*                                                                         *)
(* Nothing here takes a lock: every await lets the other handlers run.     *)
(* What keeps the handlers apart is isGenerating, which disables buttons   *)
(* while a turn runs, and the order of the two queues.  The memory store   *)
(* is a set of items, each standing for the chunks of one message or       *)
(* document; the model worker's requests wait in a line, as TurnService    *)
(* promises.                                                               *)
(***************************************************************************)
EXTENDS Naturals, Sequences, FiniteSets

CONSTANTS
    Turns,   \* identities of the submitUserMessage() calls
    Docs,    \* identities of the uploaded documents
    Clears,  \* identities of the clearMemory() calls
    Deletes, \* identities of the deleteScopedMemory() calls for this session
    Fallible, \* bound: the messages whose ingestion jobs may fail
    MaxPresses, \* bound: how many of these calls are started
    None     \* no job

ASSUME FallibleMessages == Fallible \subseteq Turns \X {"user", "assistant"}
ASSUME PressesAreBounded == MaxPresses \in Nat
ASSUME NoneIsNoJob == None \notin Turns \X {"user", "assistant"}
ASSUME DocsAreNotMessages == Docs \cap (Turns \X {"user", "assistant"}) = {}
ASSUME ClearsAreNotDeletes == Clears \cap Deletes = {}

VARIABLES
    \* The app and the agent.
    generating,  \* isGenerating
    turn,        \* where each turn stands
    prompt,      \* messages whose text each running turn's prompt may hold
    transcript,  \* LocalAgent.messages
    doc, clear, delete, \* where each upload, clear and delete stands
    \* The ingestion queue.
    line, running, enqueued, stats, flush, drain, ahead,
    upserted,    \* whether the running job has written its chunks
    \* The memory store and the model worker.
    memory,      \* items whose chunks are stored
    llm,         \* requests to the worker's client, in order
    kvSlot,      \* the prompt whose prefill waits to be persisted, or {}
    kvStored,    \* prompts whose KV blocks, the rows of their text, are persisted
    \* History.
    before,      \* items accepted when each clear or delete was pressed
    disturbed,   \* turns during which the transcript was reset
    taken        \* messages that turns took while each clear was yet to forget them

Messages == Turns \X {"user", "assistant"}
Items    == Messages \cup Docs

queueVars == <<line, running, enqueued, stats, upserted>>
flushVars == <<flush, drain, ahead>>
kvVars    == <<llm, kvSlot, kvStored>>
promptVars == <<prompt, taken>>
vars == <<generating, turn, transcript, doc, clear, delete, queueVars, flushVars,
          memory, kvVars, promptVars, before, disturbed>>

Q == INSTANCE MemoryIngestionQueue WITH
        Jobs <- Messages, NoJob <- None, Flushers <- Clears

User(t)      == <<t, "user">>
Assistant(t) == <<t, "assistant">>

Active(t)   == turn[t] \in {"retrieving", "planning", "streaming", "tracing"}
Pressed     == Cardinality({t \in Turns : turn[t] # "idle"}) + Cardinality({d \in Docs : doc[d] # "idle"})
                 + Cardinality({c \in Clears : clear[c] # "idle"})
                 + Cardinality({x \in Deletes : delete[x] # "idle"})
Accepted    == {i \in Messages : i[2] = "user" /\ turn[i[1]] # "idle"}
               \cup {i \in Messages : i[2] = "assistant" /\ turn[i[1]] = "done"}
               \cup {d \in Docs : doc[d] # "idle"}

Init ==
    /\ generating = FALSE
    /\ turn = [t \in Turns |-> "idle"]
    /\ prompt = [t \in Turns |-> {}]
    /\ transcript = <<>>
    /\ doc = [d \in Docs |-> "idle"]
    /\ clear = [c \in Clears |-> "idle"]
    /\ delete = [x \in Deletes |-> "idle"]
    /\ Q!Init
    /\ upserted = FALSE
    /\ memory = {}
    /\ llm = <<>>
    /\ kvSlot = {}
    /\ kvStored = {}
    /\ before = [x \in Clears \cup Deletes |-> {}]
    /\ disturbed = {}
    /\ taken = [c \in Clears |-> {}]

-----------------------------------------------------------------------------
(* A turn: App.sendMessage around LocalAgent.submitUserMessage.            *)

\* Mutant: sendMessage without the isGenerating check.
AlwaysEnabled == TRUE

\* The controls that isGenerating disables.
Enabled == ~generating

Press == Enabled /\ Pressed < MaxPresses

Send(t) ==
    /\ Press
    /\ turn[t] = "idle"
    /\ generating' = TRUE
    /\ turn' = [turn EXCEPT ![t] = "retrieving"]
    /\ prompt' = [prompt EXCEPT ![t] = {User(t)}]
    /\ transcript' = Append(transcript, User(t))
    /\ Q!Enqueue(User(t))
    /\ UNCHANGED <<doc, clear, delete, flushVars, upserted, memory, kvVars,
                   before, disturbed, taken>>

Waits(c) == clear[c] \in {"draining", "wiping"}

\* The messages the turn has read go into its prompt.
Gather(t, read) ==
    /\ prompt' = [prompt EXCEPT ![t] = @ \cup read]
    /\ taken' = [c \in Clears |->
                    IF Waits(c) THEN taken[c] \cup (read \cap before[c]) ELSE taken[c]]

\* The search, or a read of the raw texts behind pins and audits for the
\* plan, may return anything that is stored.
Recall(t) ==
    /\ turn[t] \in {"retrieving", "planning"}
    /\ Gather(t, memory \cap Messages)
    /\ UNCHANGED <<generating, turn, transcript, doc, clear, delete, queueVars,
                   flushVars, memory, kvVars, before, disturbed>>

\* The search is over: the plan is asked for, with the conversation before
\* the question.
Plan(t) ==
    /\ turn[t] = "retrieving"
    /\ turn' = [turn EXCEPT ![t] = "planning"]
    /\ Gather(t, {transcript[i] : i \in 1..Len(transcript) - 1})
    /\ UNCHANGED <<generating, transcript, doc, clear, delete, queueVars,
                   flushVars, memory, kvVars, before, disturbed>>

\* The plan is made; streamChat is called.
StartStream(t) ==
    /\ turn[t] = "planning"
    /\ turn' = [turn EXCEPT ![t] = "streaming"]
    /\ llm' = Append(llm, <<"stream", t>>)
    /\ UNCHANGED <<generating, transcript, doc, clear, delete, queueVars,
                   flushVars, memory, kvSlot, kvStored, before, disturbed, promptVars>>

\* The turn has no more use for its prompt.
DropPrompt(t) == prompt' = [prompt EXCEPT ![t] = {}]

\* Mutant: setIsGenerating(false) is not in the finally block.
ThrowStaysDisabled(t) ==
    turn' = [turn EXCEPT ![t] = "failed"] /\ UNCHANGED generating

\* Any await of the turn may throw: App's finally re-enables the controls,
\* the user message stays.
Throw(t) == turn' = [turn EXCEPT ![t] = "failed"] /\ generating' = FALSE

TurnThrows(t) ==
    /\ turn[t] \in {"retrieving", "planning", "tracing"}
    /\ Throw(t)
    /\ DropPrompt(t)
    /\ UNCHANGED <<transcript, doc, clear, delete, queueVars, flushVars, memory,
                   kvVars, before, disturbed, taken>>

Serving(op, id) == llm # <<>> /\ Head(llm) = <<op, id>>

\* The model ran: unless it reused a persisted prefill it left one to persist,
\* the rows of all the prompt shows.
\* A finished stream is followed by a flush nobody waits for.
Stream(t) ==
    /\ turn[t] = "streaming"
    /\ Serving("stream", t)
    /\ kvSlot' \in {kvSlot, prompt[t]}
    /\ DropPrompt(t)
    /\ \/ /\ turn' = [turn EXCEPT ![t] = "tracing"]
          /\ llm' = Append(Tail(llm), <<"flush", t>>)
          /\ UNCHANGED generating
       \/ /\ Throw(t)
          /\ llm' = Tail(llm)
    /\ UNCHANGED <<transcript, doc, clear, delete, queueVars, flushVars, memory,
                   kvStored, before, disturbed, taken>>

\* The runtime trace is written; the assistant message is pushed and queued.
Answer(t) ==
    /\ turn[t] = "tracing"
    /\ turn' = [turn EXCEPT ![t] = "done"]
    /\ generating' = FALSE
    /\ transcript' = Append(transcript, Assistant(t))
    /\ Q!Enqueue(Assistant(t))
    /\ UNCHANGED <<doc, clear, delete, flushVars, upserted, memory, kvVars,
                   before, disturbed, promptVars>>

-----------------------------------------------------------------------------
(* Background ingestion: rememberMessage as the job of the queue.          *)

JobStart ==
    /\ Q!Start
    /\ UNCHANGED <<generating, turn, transcript, doc, clear, delete, flushVars,
                   upserted, memory, kvVars, before, disturbed, promptVars>>

JobUpsert ==
    /\ running
    /\ ~upserted
    /\ upserted' = TRUE
    /\ memory' = memory \cup {Head(line)}
    /\ UNCHANGED <<generating, turn, transcript, doc, clear, delete, line, running,
                   enqueued, stats, flushVars, kvVars, before, disturbed, promptVars>>

\* The job ends after its writes, fails before or after the upsert, or had
\* no text worth a chunk.
JobSettle ==
    /\ \E ok \in BOOLEAN : Q!Settle(ok) /\ (ok \/ Head(line) \in Fallible)
    /\ upserted' = FALSE
    /\ UNCHANGED <<generating, turn, transcript, doc, clear, delete, flushVars,
                   memory, kvVars, before, disturbed, promptVars>>

-----------------------------------------------------------------------------
(* Clear memory: flush the queue, forget the transcript, empty the store,  *)
(* clear the persisted KV blocks.                                          *)

\* Mutant: clearMemory leaves the agent's messages.
TranscriptStays == UNCHANGED <<transcript, disturbed>>

ResetTranscript ==
    /\ transcript' = <<>>
    /\ disturbed' = disturbed \cup {t \in Turns : Active(t)}

ClearStart(c) ==
    /\ Press
    /\ clear[c] = "idle"
    /\ clear' = [clear EXCEPT ![c] = "draining"]
    /\ before' = [before EXCEPT ![c] = Accepted]
    /\ Q!BeginFlush(c)
    /\ UNCHANGED <<generating, turn, transcript, doc, delete, queueVars, memory,
                   kvVars, disturbed, promptVars>>

\* Mutant: memory.clear() without waiting for the ingestion queue.
ClearAtOnce(c) ==
    /\ clear[c] = "draining"
    /\ clear' = [clear EXCEPT ![c] = "wiping"]
    /\ flush' = [flush EXCEPT ![c] = "returned"]
    /\ ResetTranscript
    /\ UNCHANGED <<drain, ahead, generating, turn, doc, delete, queueVars, memory,
                   kvVars, before, promptVars>>

ClearDrained(c) ==
    /\ clear[c] = "draining"
    /\ Q!EndFlush(c)
    /\ clear' = [clear EXCEPT ![c] = "wiping"]
    /\ ResetTranscript
    /\ UNCHANGED <<generating, turn, doc, delete, queueVars, memory, kvVars, before,
                   promptVars>>

ClearStore(c) ==
    /\ clear[c] = "wiping"
    /\ \/ /\ memory' = {}
          /\ clear' = [clear EXCEPT ![c] = "clearingKv"]
          /\ llm' = Append(llm, <<"clear", c>>)
       \/ /\ clear' = [clear EXCEPT ![c] = "failed"]
          /\ UNCHANGED <<memory, llm>>
    /\ UNCHANGED <<generating, turn, transcript, doc, delete, queueVars, flushVars,
                   kvSlot, kvStored, before, disturbed, promptVars>>

\* The pending prefill, if any, reaches the store, or the store refuses it
\* (recorded, not thrown).
Persisted == kvStored' \in {kvStored, kvStored \cup ({kvSlot} \ {{}})}

\* The client persists what is pending, then clears the namespace; a store
\* that throws leaves the blocks and fails the clear.
ClearKv(c) ==
    /\ clear[c] = "clearingKv"
    /\ Serving("clear", c)
    /\ llm' = Tail(llm)
    /\ kvSlot' = {}
    /\ \/ /\ kvStored' = {}
          /\ clear' = [clear EXCEPT ![c] = "done"]
       \/ /\ Persisted
          /\ clear' = [clear EXCEPT ![c] = "failed"]
    /\ UNCHANGED <<generating, turn, transcript, doc, delete, queueVars, flushVars,
                   memory, before, disturbed, promptVars>>

\* Mutant: no null check on the pending starter.
FlushNothing(t) ==
    /\ Serving("flush", t)
    /\ llm' = Tail(llm)
    /\ kvSlot' = {}
    /\ kvStored' = kvStored \cup {kvSlot}
    /\ UNCHANGED <<generating, turn, transcript, doc, clear, delete, queueVars,
                   flushVars, memory, before, disturbed, promptVars>>

\* The flush a turn left behind.
FlushKv(t) ==
    /\ Serving("flush", t)
    /\ llm' = Tail(llm)
    /\ kvSlot' = {}
    /\ Persisted
    /\ UNCHANGED <<generating, turn, transcript, doc, clear, delete, queueVars,
                   flushVars, memory, before, disturbed, promptVars>>

-----------------------------------------------------------------------------
(* Delete session (deleteScopedMemory), and document upload.               *)

DeleteStart(x) ==
    /\ Press
    /\ delete[x] = "idle"
    /\ delete' = [delete EXCEPT ![x] = "deleting"]
    /\ before' = [before EXCEPT ![x] = Accepted]
    /\ UNCHANGED <<generating, turn, transcript, doc, clear, queueVars, flushVars,
                   memory, kvVars, disturbed, promptVars>>

DeleteStore(x) ==
    /\ delete[x] = "deleting"
    /\ \/ memory' = {} /\ delete' = [delete EXCEPT ![x] = "deleted"]
       \/ delete' = [delete EXCEPT ![x] = "failed"] /\ UNCHANGED memory
    /\ UNCHANGED <<generating, turn, transcript, doc, clear, queueVars, flushVars,
                   kvVars, before, disturbed, promptVars>>

DeleteTranscript(x) ==
    /\ delete[x] = "deleted"
    /\ delete' = [delete EXCEPT ![x] = "done"]
    /\ ResetTranscript
    /\ UNCHANGED <<generating, turn, doc, clear, queueVars, flushVars, memory,
                   kvVars, before, promptVars>>

Uploading == \E d \in Docs : doc[d] = "embedding"

UploadStart(d) ==
    /\ Press
    /\ ~Uploading
    /\ doc[d] = "idle"
    /\ doc' = [doc EXCEPT ![d] = "embedding"]
    /\ UNCHANGED <<generating, turn, transcript, clear, delete, queueVars, flushVars,
                   memory, kvVars, before, disturbed, promptVars>>

\* The embeddings arrived and the chunks are upserted, or either failed.
UploadWrite(d) ==
    /\ doc[d] = "embedding"
    /\ \/ doc' = [doc EXCEPT ![d] = "done"] /\ memory' = memory \cup {d}
       \/ doc' = [doc EXCEPT ![d] = "failed"] /\ UNCHANGED memory
    /\ UNCHANGED <<generating, turn, transcript, clear, delete, queueVars, flushVars,
                   kvVars, before, disturbed, promptVars>>

-----------------------------------------------------------------------------
TurnStep(t)  ==
    \/ Recall(t) \/ Plan(t) \/ StartStream(t) \/ TurnThrows(t)
    \/ Stream(t) \/ Answer(t) \/ FlushKv(t)
ClearStep(c) == ClearDrained(c) \/ ClearStore(c) \/ ClearKv(c)
DeleteStep(x) == DeleteStore(x) \/ DeleteTranscript(x)
JobStep      == JobStart \/ JobUpsert \/ JobSettle

Next ==
    \/ \E t \in Turns : Send(t) \/ TurnStep(t)
    \/ \E c \in Clears : ClearStart(c) \/ ClearStep(c)
    \/ \E x \in Deletes : DeleteStart(x) \/ DeleteStep(x)
    \/ \E d \in Docs : UploadStart(d) \/ UploadWrite(d)
    \/ JobStep

Spec == Init /\ [][Next]_vars

\* Every await ends: the embedding worker, the store and the model answer or
\* throw.  Nobody has to press a button.
Fairness ==
    /\ \A t \in Turns : WF_vars(TurnStep(t))
    /\ \A c \in Clears : WF_vars(ClearStep(c))
    /\ WF_vars(JobStep)

FairSpec == Spec /\ Fairness

-----------------------------------------------------------------------------
(* Properties.                                                             *)

TypeOK ==
    /\ generating \in BOOLEAN
    /\ turn \in [Turns -> {"idle", "retrieving", "planning", "streaming", "tracing",
                         "done", "failed"}]
    /\ prompt \in [Turns -> SUBSET Messages]
    /\ taken \in [Clears -> SUBSET Messages]
    /\ transcript \in Seq(Messages)
    /\ doc \in [Docs -> {"idle", "embedding", "done", "failed"}]
    /\ clear \in [Clears -> {"idle", "draining", "wiping", "clearingKv", "done", "failed"}]
    /\ delete \in [Deletes -> {"idle", "deleting", "deleted", "done", "failed"}]
    /\ Q!TypeOK
    /\ upserted \in BOOLEAN
    /\ memory \subseteq Items
    /\ llm \in Seq(({"stream", "flush"} \X Turns) \cup ({"clear"} \X Clears))
    /\ kvSlot \subseteq Messages
    /\ kvStored \subseteq (SUBSET Messages) \ {{}}

\* The counters the app shows ("memory syncing..." while pending > 0) agree
\* with the chain of promises, whether jobs succeed or fail, and a clear's
\* flush that ended left none of the jobs that were in the queue when the
\* clear was pressed unsettled.
QueueKeepsCount == Q!StatsAgree /\ Q!FlushDrains

\* Once "Clear memory" has finished, what was said before it was pressed is
\* neither in the store nor in a KV block that is persisted or waits to be:
\* no job of an earlier message writes behind the clear, although the flush a
\* turn leaves behind is awaited by nobody, and no later prompt is made of
\* the old conversation.  Excepted is what a turn that was sent while the
\* clear waited took into its prompt before transcript and store were emptied:
\* its prefill may be persisted behind the clear.
ClearForgets ==
    \A c \in Clears :
        LET said == before[c] \cap Messages
        IN /\ clear[c] \in {"clearingKv", "done"} => memory \cap said = {}
           /\ clear[c] = "done" =>
                \A p \in kvStored \cup {kvSlot} : p \cap said \subseteq taken[c]

\* The agent's transcript shows an answer right behind its question, unless
\* a clear or delete emptied the transcript while the turn was running.
AnswerFollowsQuestion ==
    \A i \in DOMAIN transcript :
        LET t == transcript[i][1]
        IN transcript[i] = Assistant(t) /\ t \notin disturbed =>
              i > 1 /\ transcript[i - 1] = User(t)

\* A clear always gets past the ingestion queue and the worker, although
\* jobs fail and turns may be sent while it waits.
ClearEnds ==
    \A c \in Clears : clear[c] = "draining" ~> clear[c] \in {"done", "failed"}

\* The controls come back: every turn ends, with an answer or an error.
TurnEnds == generating ~> ~generating

-----------------------------------------------------------------------------
(* What the documents list and the code does not do.                       *)

\* docs/03_MEMORY_MODEL.md:79-80, "Clear all memory", "Delete memory by
\* session": an upload in progress is not waited for, and a delete does not
\* flush the ingestion queue, so either writes after its memory was removed.
ForgottenStaysForgotten ==
    /\ \A c \in Clears : clear[c] = "done" => memory \cap before[c] = {}
    /\ \A x \in Deletes : delete[x] = "done" => memory \cap before[x] \cap Messages = {}
=============================================================================
