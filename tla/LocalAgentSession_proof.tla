----------------------- MODULE LocalAgentSession_proof -----------------------
(***************************************************************************)
(* Theorems about LocalAgentSession, for any number of turns, documents,   *)
(* clears and deletes: the counters of the ingestion queue, what a clear   *)
(* forgets, and the order of the transcript.                               *)
(***************************************************************************)
EXTENDS LocalAgentSession, SequenceTheorems, FiniteSetTheorems, TLAPS

\* The job that runs is the oldest one in the chain.
RunnerHasJob == running => line # <<>>

QueueType == Q!TypeOK /\ RunnerHasJob
TypeInv   == TypeOK /\ RunnerHasJob

\* A job is chained once, so no job stands twice in the chain.
LineIsEnqueued ==
    /\ \A i \in 1..Len(line) : line[i] \in enqueued
    /\ \A i, j \in 1..Len(line) : line[i] = line[j] => i = j

\* What a flush waits for was enqueued before it was called.
AheadIsEnqueued == \A c \in Clears : ahead[c] \subseteq enqueued

\* The jobs a waiting flush is to outlast stand at or before the one it
\* awaits.
DrainIsLast ==
    \A c \in Clears : flush[c] = "waiting" =>
        \A i \in 1..Len(line) : line[i] \in ahead[c] =>
            \E k \in i..Len(line) : line[k] = drain[c]

\* The inductive invariant behind QueueKeepsCount.
QueueInv ==
    /\ QueueType
    /\ LineIsEnqueued
    /\ AheadIsEnqueued
    /\ DrainIsLast
    /\ IsFiniteSet(enqueued)
    /\ QueueKeepsCount

\* isGenerating is true while a turn runs, and one turn runs at a time.
OneTurn ==
    /\ \A t \in Turns : Active(t) => generating
    /\ \A t, s \in Turns : Active(t) /\ Active(s) => t = s

\* The turns that were on the screen when a clear was pressed are over.
PressedIsOver ==
    \A c \in Clears : \A t \in Turns :
        /\ User(t) \in before[c] => turn[t] \in {"done", "failed"}
        /\ Assistant(t) \in before[c] => turn[t] = "done"

\* Every message of the conversation has been handed to the queue, and what
\* was on the screen when a button was pressed consists of such messages
\* and documents.
AcceptedIsEnqueued ==
    /\ \A t \in Turns : turn[t] # "idle" => User(t) \in enqueued
    /\ \A t \in Turns : turn[t] = "done" => Assistant(t) \in enqueued
    /\ before \in [Clears \cup Deletes -> SUBSET Items]
    /\ \A c \in Clears : before[c] \cap Messages \subseteq enqueued

\* A clear waits in the flush it called, and not before it was pressed.
ClearIsFlush ==
    \A c \in Clears :
        /\ clear[c] = "idle" <=> flush[c] = "idle"
        /\ clear[c] = "draining" <=> flush[c] = "waiting"

\* The jobs a clear is to outlast are those of the messages on the screen.
BeforeIsAhead ==
    \A c \in Clears : clear[c] # "idle" =>
        \A i \in 1..Len(line) : line[i] \in before[c] => line[i] \in ahead[c]

\* A turn has a prompt until the model has read it.
PromptIsOwn ==
    \A t \in Turns : turn[t] \notin {"retrieving", "planning", "streaming"} => prompt[t] = {}

\* Once a clear has emptied the transcript, what was said before is no more
\* in it.
ScreenForgets ==
    \A c \in Clears : clear[c] \in {"wiping", "clearingKv", "done"} =>
        \A i \in 1..Len(transcript) : transcript[i] \notin before[c]

\* What was said before a clear is in no prompt that was begun behind it,
\* but for what was taken while it waited.
PromptForgets ==
    \A c \in Clears : clear[c] \notin {"idle", "failed"} =>
        \A t \in Turns : prompt[t] \cap before[c] \subseteq taken[c]

\* The two halves of ClearForgets.
StoreForgets ==
    \A c \in Clears :
        clear[c] \in {"clearingKv", "done"} => memory \cap before[c] \cap Messages = {}
KvForgets ==
    \A c \in Clears :
        clear[c] = "done" => \A p \in kvStored \cup {kvSlot} : p \cap before[c] \subseteq taken[c]

\* The inductive invariant behind ClearForgets.
ClearInv ==
    /\ OneTurn
    /\ PressedIsOver
    /\ AcceptedIsEnqueued
    /\ ClearIsFlush
    /\ BeforeIsAhead
    /\ PromptIsOwn
    /\ ScreenForgets
    /\ PromptForgets
    /\ StoreForgets
    /\ KvForgets

\* The question of the turn that runs is the last message on the screen.
LastIsQuestion ==
    \A t \in Turns : Active(t) /\ t \notin disturbed =>
        transcript # <<>> /\ transcript[Len(transcript)] = User(t)

\* The inductive invariant behind AnswerFollowsQuestion.
AnswerInv == OneTurn /\ LastIsQuestion /\ AnswerFollowsQuestion

-----------------------------------------------------------------------------
(* Messages, sequences.                                                    *)

LEMMA MessageFacts ==
    /\ \A t \in Turns : User(t) \in Messages /\ Assistant(t) \in Messages
    /\ \A t, s \in Turns : User(t) # Assistant(s)
    /\ \A t, s \in Turns : User(t) = User(s) => t = s
    /\ \A t, s \in Turns : Assistant(t) = Assistant(s) => t = s
  BY DEF User, Assistant, Messages

LEMMA MessageParts ==
    ASSUME NEW t \in Turns
    PROVE  /\ User(t)[1] = t /\ User(t)[2] = "user"
           /\ Assistant(t)[1] = t /\ Assistant(t)[2] = "assistant"
  BY DEF User, Assistant

LEMMA HeadTail ==
    ASSUME NEW S, NEW s \in Seq(S), s # <<>>
    PROVE  /\ Head(s) \in S /\ Head(s) = s[1] /\ 1 \in 1..Len(s)
           /\ Tail(s) \in Seq(S) /\ Len(Tail(s)) = Len(s) - 1
           /\ \A i \in 1..Len(Tail(s)) : i + 1 \in 1..Len(s) /\ Tail(s)[i] = s[i + 1]
  OBVIOUS

LEMMA AppendFacts ==
    ASSUME NEW S, NEW s \in Seq(S), NEW e \in S
    PROVE  /\ Append(s, e) \in Seq(S) /\ Append(s, e) # <<>>
           /\ Len(Append(s, e)) = Len(s) + 1
           /\ \A i \in 1..Len(s) : Append(s, e)[i] = s[i]
           /\ Append(s, e)[Len(s) + 1] = e
  OBVIOUS

-----------------------------------------------------------------------------
(* The queue, one operation at a time.                                     *)

LEMMA InitQueueType == Q!Init => QueueType
  <1> SUFFICES ASSUME Q!Init PROVE QueueType
    OBVIOUS
  <1>1. line \in Seq(Messages)
    BY DEF Q!Init
  <1> QED
    BY <1>1 DEF Q!Init, QueueType, Q!TypeOK, RunnerHasJob

Counts == [pending : Nat, completed : Nat, failed : Nat]

LEMMA CountsFields ==
    ASSUME NEW s \in Counts
    PROVE  s.pending \in Nat /\ s.completed \in Nat /\ s.failed \in Nat
  BY DEF Counts

\* Settling a job that is pending moves it to one of the other counters.
LEMMA CountKeeps ==
    ASSUME stats \in Counts, NEW ok \in BOOLEAN, Q!Count(ok)
    PROVE  /\ stats' \in Counts
           /\ stats.pending > 0 =>
                 /\ stats'.pending = stats.pending - 1
                 /\ stats'.completed + stats'.failed = stats.completed + stats.failed + 1
  <1> DEFINE left == IF stats.pending = 0 THEN 0 ELSE stats.pending - 1
  <1>1. stats.pending \in Nat /\ stats.completed \in Nat /\ stats.failed \in Nat
    BY CountsFields
  <1>2. left \in Nat /\ stats.completed + 1 \in Nat /\ stats.failed + 1 \in Nat
    BY <1>1
  <1>3. stats' = IF ok THEN [stats EXCEPT !.completed = @ + 1, !.pending = left]
                       ELSE [stats EXCEPT !.failed = @ + 1, !.pending = left]
    BY Zenon DEF Q!Count
  <1>4. CASE ok
    <2>1. stats' = [stats EXCEPT !.completed = stats.completed + 1, !.pending = left]
      BY <1>3, <1>4, Zenon
    <2> HIDE DEF left
    <2>2. /\ stats' \in Counts
          /\ stats'.pending = left
          /\ stats'.completed = stats.completed + 1
          /\ stats'.failed = stats.failed
      BY <1>2, <2>1, Zenon DEF Counts
    <2> QED
      BY <1>1, <2>2 DEF left
  <1>5. CASE ~ok
    <2>1. stats' = [stats EXCEPT !.failed = stats.failed + 1, !.pending = left]
      BY <1>3, <1>5, Zenon
    <2> HIDE DEF left
    <2>2. /\ stats' \in Counts
          /\ stats'.pending = left
          /\ stats'.completed = stats.completed
          /\ stats'.failed = stats.failed + 1
      BY <1>2, <2>1, Zenon DEF Counts
    <2> QED
      BY <1>1, <2>2 DEF left
  <1> QED
    BY <1>4, <1>5

LEMMA EnqueueCounts ==
    ASSUME stats \in Counts, NEW j, Q!Enqueue(j)
    PROVE  /\ stats' \in Counts
           /\ stats'.pending = stats.pending + 1
           /\ stats'.completed = stats.completed /\ stats'.failed = stats.failed
  <1>1. stats' = [stats EXCEPT !.pending = stats.pending + 1]
    BY Zenon DEF Q!Enqueue
  <1>2. stats.pending + 1 \in Nat
    BY CountsFields
  <1> QED
    BY <1>1, <1>2, CountsFields, Zenon DEF Counts

LEMMA EnqueueType ==
    ASSUME QueueType, NEW j \in Messages, Q!Enqueue(j), UNCHANGED flushVars
    PROVE  QueueType'
  <1>1. line' \in Seq(Messages) /\ line' # <<>>
    BY AppendFacts DEF QueueType, Q!TypeOK, Q!Enqueue
  <1>2. stats' \in [pending : Nat, completed : Nat, failed : Nat]
    BY EnqueueCounts DEF QueueType, Q!TypeOK, Counts
  <1> QED
    BY <1>1, <1>2 DEF QueueType, Q!TypeOK, RunnerHasJob, Q!Enqueue, flushVars

LEMMA StartType ==
    ASSUME QueueType, Q!Start, UNCHANGED flushVars
    PROVE  QueueType'
  BY DEF QueueType, Q!TypeOK, RunnerHasJob, Q!Start, flushVars

LEMMA SettleType ==
    ASSUME QueueType, NEW ok \in BOOLEAN, Q!Settle(ok), UNCHANGED flushVars
    PROVE  QueueType'
  <1>1. line' \in Seq(Messages)
    BY HeadTail DEF QueueType, Q!TypeOK, RunnerHasJob, Q!Settle
  <1>2. stats' \in [pending : Nat, completed : Nat, failed : Nat]
    BY CountKeeps DEF QueueType, Q!TypeOK, Q!Settle, Counts
  <1> QED
    BY <1>1, <1>2 DEF QueueType, Q!TypeOK, RunnerHasJob, Q!Settle, flushVars

LEMMA CurrentDrainType ==
    ASSUME QueueType
    PROVE  Q!CurrentDrain \in Messages \cup {None}
  <1>1. CASE line = <<>>
    BY <1>1 DEF Q!CurrentDrain
  <1>2. CASE line # <<>>
    <2>1. line[Len(line)] \in Messages
      BY <1>2 DEF QueueType, Q!TypeOK
    <2> QED
      BY <1>2, <2>1 DEF Q!CurrentDrain
  <1> QED
    BY <1>1, <1>2

LEMMA BeginFlushType ==
    ASSUME QueueType, NEW c \in Clears, Q!BeginFlush(c),
           UNCHANGED <<line, running, enqueued, stats>>
    PROVE  QueueType'
  <1>1. {line[i] : i \in DOMAIN line} \subseteq Messages
    BY DEF QueueType, Q!TypeOK
  <1> QED
    BY <1>1, CurrentDrainType DEF QueueType, Q!TypeOK, RunnerHasJob, Q!BeginFlush

LEMMA EndFlushType ==
    ASSUME QueueType, NEW c \in Clears, Q!EndFlush(c),
           UNCHANGED <<line, running, enqueued, stats>>
    PROVE  QueueType'
  BY DEF QueueType, Q!TypeOK, RunnerHasJob, Q!EndFlush

LEMMA LineDomain ==
    ASSUME QueueType
    PROVE  line \in Seq(Messages) /\ DOMAIN line = 1..Len(line) /\ Len(line) \in Nat
  BY DEF QueueType, Q!TypeOK

LEMMA SameCardinality ==
    ASSUME NEW S
    PROVE  Q!Cardinality(S) = Cardinality(S)
  BY DEF Q!Cardinality, Cardinality

LEMMA InitQueue == Q!Init => QueueInv
  <1> SUFFICES ASSUME Q!Init PROVE QueueInv
    OBVIOUS
  <1>1. line = <<>> /\ Len(line) = 0 /\ enqueued = {}
    BY DEF Q!Init
  <1>2. IsFiniteSet(enqueued) /\ Cardinality(enqueued) = 0
    BY <1>1, FS_EmptySet
  <1>3. LineIsEnqueued /\ AheadIsEnqueued /\ DrainIsLast
    BY <1>1 DEF LineIsEnqueued, AheadIsEnqueued, DrainIsLast, Q!Init
  <1>4. stats.pending = 0 /\ stats.completed = 0 /\ stats.failed = 0
    BY DEF Q!Init
  <1>5. QueueKeepsCount
    BY <1>1, <1>2, <1>4, SameCardinality
    DEF QueueKeepsCount, Q!StatsAgree, Q!FlushDrains, Q!Waiting, Q!Init
  <1> QED
    BY <1>2, <1>3, <1>5, InitQueueType DEF QueueInv

LEMMA EnqueueQueue ==
    ASSUME QueueInv, NEW j \in Messages, Q!Enqueue(j), UNCHANGED flushVars
    PROVE  QueueInv'
  <1>1. line \in Seq(Messages) /\ line' = Append(line, j) /\ QueueType'
    BY LineDomain, EnqueueType DEF QueueInv, Q!Enqueue
  <1>2. /\ Len(line) \in Nat /\ Len(line') = Len(line) + 1
        /\ DOMAIN line = 1..Len(line) /\ DOMAIN line' = 1..Len(line')
        /\ \A i \in 1..Len(line) : line'[i] = line[i]
        /\ line'[Len(line) + 1] = j
    BY <1>1, AppendFacts, LineDomain DEF QueueInv
  <1>3. /\ j \notin enqueued /\ enqueued' = enqueued \cup {j}
        /\ flush' = flush /\ drain' = drain /\ ahead' = ahead
    BY DEF Q!Enqueue, flushVars
  <1>4. LineIsEnqueued'
    BY <1>2, <1>3 DEF QueueInv, LineIsEnqueued
  <1>5. AheadIsEnqueued'
    BY <1>3 DEF QueueInv, AheadIsEnqueued
  <1>6. \A c \in Clears : \A i \in 1..Len(line') :
            line'[i] \in ahead[c] => i \in 1..Len(line) /\ line[i] \in ahead[c]
    BY <1>2, <1>3 DEF QueueInv, AheadIsEnqueued
  <1>7. DrainIsLast'
    <2> SUFFICES ASSUME NEW c \in Clears, flush[c] = "waiting",
                        NEW i \in 1..Len(line'), line'[i] \in ahead[c]
                 PROVE  \E k \in i..Len(line') : line'[k] = drain[c]
      BY <1>3 DEF DrainIsLast
    <2>1. PICK k \in i..Len(line) : line[k] = drain[c]
      BY <1>6 DEF QueueInv, DrainIsLast
    <2>2. k \in i..Len(line') /\ line'[k] = line[k]
      BY <1>2, <2>1
    <2> QED
      BY <2>1, <2>2
  <1>8. IsFiniteSet(enqueued') /\ Cardinality(enqueued') = Cardinality(enqueued) + 1
    BY <1>3, FS_AddElement DEF QueueInv
  <1>9. Q!StatsAgree'
    <2>1. Cardinality(enqueued) \in Nat
      BY FS_CardinalityType DEF QueueInv
    <2>2. /\ stats'.pending = stats.pending + 1 /\ stats'.completed = stats.completed
          /\ stats'.failed = stats.failed
      BY EnqueueCounts DEF QueueInv, QueueType, Q!TypeOK, Counts
    <2>3. stats.pending \in Nat /\ stats.completed \in Nat /\ stats.failed \in Nat
      BY CountsFields DEF QueueInv, QueueType, Q!TypeOK, Counts
    <2>4. /\ stats.pending = Len(line)
          /\ stats.completed + stats.failed + stats.pending = Cardinality(enqueued)
      BY SameCardinality DEF QueueInv, QueueKeepsCount, Q!StatsAgree
    <2>5. stats'.pending = Len(line')
      BY <1>2, <2>2, <2>4
    <2>6. stats'.completed + stats'.failed + stats'.pending = Cardinality(enqueued')
      BY <1>8, <2>1, <2>2, <2>3, <2>4
    <2> QED
      BY <2>5, <2>6, SameCardinality DEF Q!StatsAgree
  <1>10. Q!FlushDrains'
    BY <1>2, <1>3, <1>6 DEF QueueInv, QueueKeepsCount, Q!FlushDrains, Q!Waiting
  <1> QED
    BY <1>1, <1>4, <1>5, <1>7, <1>8, <1>9, <1>10 DEF QueueInv, QueueKeepsCount

LEMMA StartQueue ==
    ASSUME QueueInv, Q!Start, UNCHANGED flushVars
    PROVE  QueueInv'
  <1>1. /\ line' = line /\ enqueued' = enqueued /\ stats' = stats
        /\ flush' = flush /\ drain' = drain /\ ahead' = ahead /\ QueueType'
    BY StartType DEF QueueInv, Q!Start, flushVars
  <1> QED
    BY <1>1 DEF QueueInv, LineIsEnqueued, AheadIsEnqueued, DrainIsLast, QueueKeepsCount,
                Q!StatsAgree, Q!FlushDrains, Q!Waiting

LEMMA SettleQueue ==
    ASSUME QueueInv, NEW ok \in BOOLEAN, Q!Settle(ok), UNCHANGED flushVars
    PROVE  QueueInv'
  <1>1. line \in Seq(Messages) /\ line # <<>> /\ line' = Tail(line) /\ QueueType'
    BY LineDomain, SettleType DEF QueueInv, QueueType, RunnerHasJob, Q!Settle
  <1>2. /\ Len(line) \in Nat /\ Len(line') = Len(line) - 1 /\ Len(line') \in Nat
        /\ DOMAIN line = 1..Len(line) /\ DOMAIN line' = 1..Len(line')
        /\ \A i \in 1..Len(line') : i + 1 \in 1..Len(line) /\ line'[i] = line[i + 1]
    BY <1>1, HeadTail, LineDomain DEF QueueInv
  <1>3. /\ enqueued' = enqueued
        /\ flush' = flush /\ drain' = drain /\ ahead' = ahead
    BY DEF Q!Settle, flushVars
  <1>4. LineIsEnqueued'
    BY <1>2, <1>3 DEF QueueInv, LineIsEnqueued
  <1>5. AheadIsEnqueued' /\ IsFiniteSet(enqueued')
    BY <1>3 DEF QueueInv, AheadIsEnqueued
  <1>6. DrainIsLast'
    <2> SUFFICES ASSUME NEW c \in Clears, flush[c] = "waiting",
                        NEW i \in 1..Len(line'), line'[i] \in ahead[c]
                 PROVE  \E k \in i..Len(line') : line'[k] = drain[c]
      BY <1>3 DEF DrainIsLast
    <2>1. PICK k \in (i + 1)..Len(line) : line[k] = drain[c]
      BY <1>2 DEF QueueInv, DrainIsLast
    <2>2. k - 1 \in i..Len(line') /\ k - 1 \in 1..Len(line') /\ (k - 1) + 1 = k
      BY <1>2, <2>1
    <2>3. line'[k - 1] = line[k]
      BY <1>2, <2>2
    <2> QED
      BY <2>1, <2>2, <2>3
  <1>7. Q!StatsAgree'
    <2>1. Cardinality(enqueued) \in Nat /\ Len(line) > 0
      BY <1>1, FS_CardinalityType DEF QueueInv
    <2>2. stats.pending \in Nat /\ stats.completed \in Nat /\ stats.failed \in Nat
      BY CountsFields DEF QueueInv, QueueType, Q!TypeOK, Counts
    <2>3. stats'.pending \in Nat /\ stats'.completed \in Nat /\ stats'.failed \in Nat
      BY <1>1, CountsFields DEF QueueType, Q!TypeOK, Counts
    <2>4. stats.pending = Len(line)
      BY DEF QueueInv, QueueKeepsCount, Q!StatsAgree
    <2>5. /\ stats'.pending = stats.pending - 1
          /\ stats'.completed + stats'.failed = stats.completed + stats.failed + 1
      BY <2>1, <2>4, CountKeeps DEF QueueInv, QueueType, Q!TypeOK, Counts, Q!Settle
    <2> QED
      BY <1>2, <1>3, <2>1, <2>2, <2>3, <2>5 DEF QueueInv, QueueKeepsCount, Q!StatsAgree
  <1>8. Q!FlushDrains'
    BY <1>2, <1>3 DEF QueueInv, QueueKeepsCount, Q!FlushDrains, Q!Waiting
  <1> QED
    BY <1>1, <1>4, <1>5, <1>6, <1>7, <1>8 DEF QueueInv, QueueKeepsCount

LEMMA BeginFlushQueue ==
    ASSUME QueueInv, NEW c \in Clears, Q!BeginFlush(c),
           UNCHANGED <<line, running, enqueued, stats>>
    PROVE  QueueInv'
  <1>1. /\ line \in Seq(Messages) /\ DOMAIN line = 1..Len(line) /\ Len(line) \in Nat
        /\ QueueType'
    BY LineDomain, BeginFlushType DEF QueueInv
  <1>2. /\ flush \in [Clears -> {"idle", "waiting", "returned"}]
        /\ drain \in [Clears -> Messages \cup {None}]
        /\ ahead \in [Clears -> SUBSET Messages]
    BY DEF QueueInv, QueueType, Q!TypeOK
  <1>3. /\ line' = line /\ enqueued' = enqueued /\ stats' = stats
        /\ ahead'[c] = {line[i] : i \in 1..Len(line)} /\ flush'[c] = "waiting"
        /\ drain'[c] = Q!CurrentDrain
        /\ \A d \in Clears : d # c =>
              flush'[d] = flush[d] /\ drain'[d] = drain[d] /\ ahead'[d] = ahead[d]
    BY <1>1, <1>2 DEF Q!BeginFlush
  <1>4. AheadIsEnqueued'
    BY <1>3 DEF QueueInv, AheadIsEnqueued, LineIsEnqueued
  <1>5. DrainIsLast'
    <2> SUFFICES ASSUME NEW d \in Clears, flush'[d] = "waiting",
                        NEW i \in 1..Len(line), line[i] \in ahead'[d]
                 PROVE  \E k \in i..Len(line) : line[k] = drain'[d]
      BY <1>3 DEF DrainIsLast
    <2>1. CASE d = c
      <3>1. line # <<>> /\ Len(line) \in i..Len(line)
        BY <1>1
      <3> QED
        BY <1>3, <2>1, <3>1 DEF Q!CurrentDrain
    <2>2. CASE d # c
      BY <1>3, <2>2 DEF QueueInv, DrainIsLast
    <2> QED
      BY <2>1, <2>2
  <1>6. QueueKeepsCount'
    BY <1>3 DEF QueueInv, QueueKeepsCount, Q!StatsAgree, Q!FlushDrains, Q!Waiting
  <1> QED
    BY <1>1, <1>3, <1>4, <1>5, <1>6 DEF QueueInv, LineIsEnqueued

LEMMA EndFlushQueue ==
    ASSUME QueueInv, NEW c \in Clears, Q!EndFlush(c),
           UNCHANGED <<line, running, enqueued, stats>>
    PROVE  QueueInv'
  <1>1. /\ line \in Seq(Messages) /\ DOMAIN line = 1..Len(line) /\ Len(line) \in Nat
        /\ QueueType'
    BY LineDomain, EndFlushType DEF QueueInv
  <1>2. /\ line' = line /\ enqueued' = enqueued /\ stats' = stats
        /\ ahead' = ahead /\ drain' = drain /\ flush[c] = "waiting"
        /\ \A d \in Clears : d # c => flush'[d] = flush[d]
        /\ flush'[c] = "returned"
    BY DEF QueueInv, QueueType, Q!TypeOK, Q!EndFlush
  <1>3. \A i \in 1..Len(line) : line[i] \notin ahead[c]
    BY <1>1, <1>2 DEF QueueInv, DrainIsLast, Q!EndFlush, Q!Waiting
  <1>4. DrainIsLast'
    BY <1>2 DEF QueueInv, DrainIsLast
  <1>5. Q!FlushDrains'
    BY <1>1, <1>2, <1>3 DEF QueueInv, QueueKeepsCount, Q!FlushDrains, Q!Waiting
  <1> QED
    BY <1>1, <1>2, <1>4, <1>5
    DEF QueueInv, QueueKeepsCount, Q!StatsAgree, LineIsEnqueued, AheadIsEnqueued

-----------------------------------------------------------------------------
(* What each step of the session does to the queue.                        *)

QueueStep ==
    \/ \E j \in Messages : Q!Enqueue(j) /\ UNCHANGED flushVars
    \/ Q!Start /\ UNCHANGED flushVars
    \/ \E ok \in BOOLEAN : Q!Settle(ok) /\ UNCHANGED flushVars
    \/ \E c \in Clears : Q!BeginFlush(c) /\ UNCHANGED <<line, running, enqueued, stats>>
    \/ \E c \in Clears : Q!EndFlush(c) /\ UNCHANGED <<line, running, enqueued, stats>>
    \/ UNCHANGED <<line, running, enqueued, stats, flushVars>>

LEMMA NextIsQueueStep == [Next]_vars => QueueStep
  <1> SUFFICES ASSUME [Next]_vars PROVE QueueStep
    OBVIOUS
  <1>1. ASSUME NEW t \in Turns, Send(t) PROVE QueueStep
    BY <1>1, MessageFacts DEF Send, QueueStep
  <1>2. ASSUME NEW t \in Turns, TurnStep(t) PROVE QueueStep
    <2>1. CASE Answer(t)
      BY <2>1, MessageFacts DEF Answer, QueueStep
    <2>2. CASE Recall(t) \/ Plan(t) \/ StartStream(t) \/ TurnThrows(t) \/ Stream(t) \/ FlushKv(t)
      BY <2>2 DEF Recall, Plan, StartStream, TurnThrows, Stream, FlushKv, QueueStep, queueVars
    <2> QED
      BY <1>2, <2>1, <2>2 DEF TurnStep
  <1>3. ASSUME NEW c \in Clears, ClearStart(c) PROVE QueueStep
    BY <1>3 DEF ClearStart, QueueStep, queueVars
  <1>4. ASSUME NEW c \in Clears, ClearStep(c) PROVE QueueStep
    <2>1. CASE ClearDrained(c)
      BY <2>1 DEF ClearDrained, QueueStep, queueVars
    <2>2. CASE ClearStore(c) \/ ClearKv(c)
      BY <2>2 DEF ClearStore, ClearKv, QueueStep, queueVars
    <2> QED
      BY <1>4, <2>1, <2>2 DEF ClearStep
  <1>5. ASSUME NEW x \in Deletes, DeleteStart(x) \/ DeleteStep(x) PROVE QueueStep
    BY <1>5 DEF DeleteStart, DeleteStep, DeleteStore, DeleteTranscript, QueueStep, queueVars
  <1>6. ASSUME NEW d \in Docs, UploadStart(d) \/ UploadWrite(d) PROVE QueueStep
    BY <1>6 DEF UploadStart, UploadWrite, QueueStep, queueVars
  <1>7. CASE JobStep
    BY <1>7 DEF JobStep, JobStart, JobUpsert, JobSettle, QueueStep
  <1>8. CASE UNCHANGED vars
    BY <1>8 DEF vars, queueVars, QueueStep
  <1> QED
    BY <1>1, <1>2, <1>3, <1>4, <1>5, <1>6, <1>7, <1>8 DEF Next

LEMMA QueueStepKeeps ==
    ASSUME QueueInv, QueueStep
    PROVE  QueueInv'
  <1>1. ASSUME NEW j \in Messages, Q!Enqueue(j), UNCHANGED flushVars PROVE QueueInv'
    BY <1>1, EnqueueQueue
  <1>2. CASE Q!Start /\ UNCHANGED flushVars
    BY <1>2, StartQueue
  <1>3. ASSUME NEW ok \in BOOLEAN, Q!Settle(ok), UNCHANGED flushVars PROVE QueueInv'
    BY <1>3, SettleQueue
  <1>4. ASSUME NEW c \in Clears, Q!BeginFlush(c), UNCHANGED <<line, running, enqueued, stats>>
        PROVE  QueueInv'
    BY <1>4, BeginFlushQueue
  <1>5. ASSUME NEW c \in Clears, Q!EndFlush(c), UNCHANGED <<line, running, enqueued, stats>>
        PROVE  QueueInv'
    BY <1>5, EndFlushQueue
  <1>6. CASE UNCHANGED <<line, running, enqueued, stats, flushVars>>
    BY <1>6 DEF QueueInv, QueueType, Q!TypeOK, RunnerHasJob, LineIsEnqueued, AheadIsEnqueued,
                DrainIsLast, QueueKeepsCount, Q!StatsAgree, Q!FlushDrains, Q!Waiting, flushVars
  <1> QED
    BY <1>1, <1>2, <1>3, <1>4, <1>5, <1>6 DEF QueueStep

\* The counters of the ingestion queue (pendingJobs, completedJobs and
\* failedJobs of memoryIngestionQueue.ts) agree with the chain of promises,
\* and a flush that ended left none of the jobs that were in the queue
\* when it was called unsettled.
THEOREM CountIsKept == Spec => []QueueKeepsCount
  <1>1. Init => QueueInv
    BY InitQueue DEF Init
  <1>2. QueueInv /\ [Next]_vars => QueueInv'
    BY NextIsQueueStep, QueueStepKeeps
  <1>3. QueueInv => QueueKeepsCount
    BY DEF QueueInv
  <1> QED
    BY <1>1, <1>2, <1>3, PTL DEF Spec

-----------------------------------------------------------------------------
(* Types of the rest of the session.                                       *)

LEMMA SessionInit == Init => TypeOK
  <1> SUFFICES ASSUME Init PROVE TypeOK
    OBVIOUS
  <1>1. transcript \in Seq(Messages)
    BY DEF Init
  <1>2. llm \in Seq(({"stream", "flush"} \X Turns) \cup ({"clear"} \X Clears))
    BY DEF Init
  <1>3. Q!TypeOK
    BY InitQueueType DEF Init, QueueType
  <1> QED
    BY <1>1, <1>2, <1>3 DEF Init, TypeOK

Requests == ({"stream", "flush"} \X Turns) \cup ({"clear"} \X Clears)

\* The parts of TypeOK that are not about the queue, by handler.
TurnTypes ==
    /\ generating \in BOOLEAN
    /\ turn \in [Turns -> {"idle", "retrieving", "planning", "streaming", "tracing",
                         "done", "failed"}]
    /\ prompt \in [Turns -> SUBSET Messages]
    /\ taken \in [Clears -> SUBSET Messages]
    /\ transcript \in Seq(Messages)
ButtonTypes ==
    /\ doc \in [Docs -> {"idle", "embedding", "done", "failed"}]
    /\ clear \in [Clears -> {"idle", "draining", "wiping", "clearingKv", "done", "failed"}]
    /\ delete \in [Deletes -> {"idle", "deleting", "deleted", "done", "failed"}]
StoreTypes ==
    /\ upserted \in BOOLEAN
    /\ memory \subseteq Items
    /\ llm \in Seq(Requests)
    /\ kvSlot \subseteq Messages
    /\ kvStored \subseteq (SUBSET Messages) \ {{}}

LEMMA TypeParts == TypeOK <=> TurnTypes /\ ButtonTypes /\ StoreTypes /\ Q!TypeOK
  BY DEF TypeOK, TurnTypes, ButtonTypes, StoreTypes, Requests

LEMMA AskFacts ==
    ASSUME StoreTypes
    PROVE  /\ \A t \in Turns : Append(llm, <<"stream", t>>) \in Seq(Requests)
           /\ \A c \in Clears : Append(llm, <<"clear", c>>) \in Seq(Requests)
           /\ llm # <<>> => Tail(llm) \in Seq(Requests)
           /\ llm # <<>> =>
                 \A t \in Turns : Append(Tail(llm), <<"flush", t>>) \in Seq(Requests)
  <1>1. \A t \in Turns : <<"stream", t>> \in Requests /\ <<"flush", t>> \in Requests
    BY DEF Requests
  <1>2. \A c \in Clears : <<"clear", c>> \in Requests
    BY DEF Requests
  <1> QED
    BY <1>1, <1>2, HeadTail, AppendFacts DEF StoreTypes

LEMMA GatherTypes ==
    ASSUME TurnTypes, NEW t \in Turns, NEW read \in SUBSET Messages, Gather(t, read)
    PROVE  prompt' \in [Turns -> SUBSET Messages] /\ taken' \in [Clears -> SUBSET Messages]
  BY DEF TurnTypes, Gather

LEMMA TurnStepTypes ==
    ASSUME TypeOK, NEW t \in Turns, Send(t) \/ TurnStep(t)
    PROVE  TurnTypes' /\ ButtonTypes' /\ StoreTypes'
  <1>0. TurnTypes /\ ButtonTypes /\ StoreTypes
    BY TypeParts
  <1>1. Append(transcript, User(t)) \in Seq(Messages)
        /\ Append(transcript, Assistant(t)) \in Seq(Messages)
    BY <1>0, MessageFacts, AppendFacts DEF TurnTypes
  <1>2. CASE Send(t)
    BY <1>0, <1>1, <1>2, MessageFacts DEF TurnTypes, ButtonTypes, StoreTypes, Send, kvVars
  <1>3. CASE StartStream(t)
    BY <1>0, <1>3, AskFacts
    DEF TurnTypes, ButtonTypes, StoreTypes, StartStream, queueVars, promptVars
  <1>4. CASE TurnThrows(t)
    BY <1>0, <1>4
    DEF TurnTypes, ButtonTypes, StoreTypes, TurnThrows, Throw, DropPrompt, queueVars, kvVars
  <1>5. CASE Stream(t)
    <2>1. llm' \in Seq(Requests)
      BY <1>0, <1>5, AskFacts DEF Stream, Serving
    <2> QED
      BY <1>0, <1>5, <2>1
      DEF TurnTypes, ButtonTypes, StoreTypes, Stream, Throw, DropPrompt, queueVars
  <1>6. CASE Answer(t)
    BY <1>0, <1>1, <1>6 DEF TurnTypes, ButtonTypes, StoreTypes, Answer, kvVars, promptVars
  <1>7. CASE FlushKv(t)
    <2>1. llm' \in Seq(Requests)
      BY <1>0, <1>7, AskFacts DEF FlushKv, Serving
    <2> QED
      BY <1>0, <1>7, <2>1
      DEF TurnTypes, ButtonTypes, StoreTypes, FlushKv, Persisted, queueVars, promptVars
  <1>8. CASE Recall(t)
    <2>1. prompt' \in [Turns -> SUBSET Messages] /\ taken' \in [Clears -> SUBSET Messages]
      BY <1>0, <1>8, GatherTypes DEF Recall
    <2> QED
      BY <1>0, <1>8, <2>1 DEF TurnTypes, ButtonTypes, StoreTypes, Recall, queueVars, kvVars
  <1>9. CASE Plan(t)
    <2>1. {transcript[i] : i \in 1..Len(transcript) - 1} \in SUBSET Messages
      BY <1>0 DEF TurnTypes
    <2>2. prompt' \in [Turns -> SUBSET Messages] /\ taken' \in [Clears -> SUBSET Messages]
      BY <1>0, <1>9, <2>1, GatherTypes DEF Plan
    <2> QED
      BY <1>0, <1>9, <2>2 DEF TurnTypes, ButtonTypes, StoreTypes, Plan, queueVars, kvVars
  <1> QED
    BY <1>2, <1>3, <1>4, <1>5, <1>6, <1>7, <1>8, <1>9 DEF TurnStep

LEMMA ClearStepTypes ==
    ASSUME TypeOK, NEW c \in Clears, ClearStart(c) \/ ClearStep(c)
    PROVE  TurnTypes' /\ ButtonTypes' /\ StoreTypes'
  <1>0. TurnTypes /\ ButtonTypes /\ StoreTypes
    BY TypeParts
  <1>1. <<>> \in Seq(Messages)
    OBVIOUS
  <1>2. CASE ClearStart(c)
    BY <1>0, <1>2 DEF TurnTypes, ButtonTypes, StoreTypes, ClearStart, queueVars, kvVars, promptVars
  <1>3. CASE ClearDrained(c)
    BY <1>0, <1>1, <1>3
    DEF TurnTypes, ButtonTypes, StoreTypes, ClearDrained, ResetTranscript, queueVars, kvVars, promptVars
  <1>4. CASE ClearStore(c)
    <2>1. llm' \in Seq(Requests)
      BY <1>0, <1>4, AskFacts DEF ClearStore, StoreTypes
    <2> QED
      BY <1>0, <1>4, <2>1 DEF TurnTypes, ButtonTypes, StoreTypes, ClearStore, queueVars, promptVars
  <1>5. CASE ClearKv(c)
    <2>1. llm' \in Seq(Requests)
      BY <1>0, <1>5, AskFacts DEF ClearKv, Serving
    <2> QED
      BY <1>0, <1>5, <2>1
      DEF TurnTypes, ButtonTypes, StoreTypes, ClearKv, Persisted, queueVars, promptVars
  <1> QED
    BY <1>2, <1>3, <1>4, <1>5 DEF ClearStep

LEMMA OtherStepTypes ==
    ASSUME TypeInv,
           \/ \E x \in Deletes : DeleteStart(x) \/ DeleteStep(x)
           \/ \E d \in Docs : UploadStart(d) \/ UploadWrite(d)
           \/ JobStep
    PROVE  TurnTypes' /\ ButtonTypes' /\ StoreTypes'
  <1>0. TurnTypes /\ ButtonTypes /\ StoreTypes
    BY TypeParts DEF TypeInv
  <1>1. <<>> \in Seq(Messages)
    OBVIOUS
  <1>2. ASSUME NEW x \in Deletes, DeleteStart(x) \/ DeleteStep(x)
        PROVE  TurnTypes' /\ ButtonTypes' /\ StoreTypes'
    BY <1>0, <1>1, <1>2
    DEF TurnTypes, ButtonTypes, StoreTypes, DeleteStart, DeleteStep, DeleteStore,
        DeleteTranscript, ResetTranscript, queueVars, kvVars, promptVars
  <1>3. ASSUME NEW d \in Docs, UploadStart(d) \/ UploadWrite(d)
        PROVE  TurnTypes' /\ ButtonTypes' /\ StoreTypes'
    BY <1>0, <1>3
    DEF TurnTypes, ButtonTypes, StoreTypes, Items, UploadStart, UploadWrite, queueVars, kvVars, promptVars
  <1>4. CASE JobStart
    BY <1>0, <1>4 DEF TurnTypes, ButtonTypes, StoreTypes, JobStart, kvVars, promptVars
  <1>5. CASE JobUpsert
    <2>1. Head(line) \in Messages
      BY <1>5, HeadTail DEF JobUpsert, TypeInv, TypeOK, Q!TypeOK, RunnerHasJob
    <2> QED
      BY <1>0, <1>5, <2>1 DEF TurnTypes, ButtonTypes, StoreTypes, Items, JobUpsert, kvVars, promptVars
  <1>6. CASE JobSettle
    BY <1>0, <1>6 DEF TurnTypes, ButtonTypes, StoreTypes, JobSettle, kvVars, promptVars
  <1> QED
    BY <1>2, <1>3, <1>4, <1>5, <1>6 DEF JobStep

LEMMA NextTypes ==
    ASSUME QueueInv, TypeOK, [Next]_vars
    PROVE  TypeOK' /\ QueueInv'
  <1>1. QueueInv'
    BY NextIsQueueStep, QueueStepKeeps
  <1>2. TypeInv
    BY DEF QueueInv, QueueType, TypeInv
  <1>3. TurnTypes' /\ ButtonTypes' /\ StoreTypes'
    <2>1. CASE UNCHANGED vars
      BY <2>1, TypeParts DEF vars, queueVars, kvVars, promptVars, TurnTypes, ButtonTypes, StoreTypes
    <2> QED
      BY <1>2, <2>1, TurnStepTypes, ClearStepTypes, OtherStepTypes DEF Next
  <1>4. TypeOK' <=> (TurnTypes /\ ButtonTypes /\ StoreTypes /\ Q!TypeOK)'
    BY DEF TypeOK, TurnTypes, ButtonTypes, StoreTypes, Requests
  <1> QED
    BY <1>1, <1>3, <1>4 DEF QueueInv, QueueType

SessionInv == TypeOK /\ QueueInv

LEMMA SessionIsTyped == Spec => []SessionInv
  <1>1. Init => SessionInv
    BY SessionInit, InitQueue DEF Init, SessionInv
  <1>2. SessionInv /\ [Next]_vars => SessionInv'
    BY NextTypes DEF SessionInv
  <1> QED
    BY <1>1, <1>2, PTL DEF Spec

\* Every variable of the session keeps its type; the chain of a running
\* job is never empty.
THEOREM SessionTypes == Spec => []TypeOK
  <1>1. SessionInv => TypeOK
    BY DEF SessionInv
  <1> QED
    BY <1>1, SessionIsTyped, PTL

-----------------------------------------------------------------------------
(* Turns and what is on the screen.                                        *)

\* What a step may do to the turns and the controls.
TurnMove ==
    \/ UNCHANGED <<turn, generating>>
    \/ \E t \in Turns :
          /\ ~generating /\ turn[t] = "idle" /\ generating'
          /\ turn' = [turn EXCEPT ![t] = "retrieving"]
          /\ User(t) \in enqueued'
    \/ \E t \in Turns, s \in {"planning", "streaming", "tracing"} :
          Active(t) /\ turn' = [turn EXCEPT ![t] = s] /\ UNCHANGED generating
    \/ \E t \in Turns, s \in {"done", "failed"} :
          /\ Active(t) /\ turn' = [turn EXCEPT ![t] = s] /\ generating' = FALSE
          /\ s = "done" => Assistant(t) \in enqueued'

LEMMA NextIsTurnMove == [Next]_vars => TurnMove
  <1> SUFFICES ASSUME [Next]_vars PROVE TurnMove
    OBVIOUS
  <1>1. ASSUME NEW t \in Turns, Send(t) \/ TurnStep(t) PROVE TurnMove
    <2>1. CASE Send(t)
      BY <2>1 DEF Send, Press, Enabled, TurnMove, Q!Enqueue
    <2>2. CASE Recall(t) \/ Plan(t) \/ StartStream(t)
      BY <2>2 DEF Recall, Plan, StartStream, TurnMove, Active
    <2>3. CASE TurnThrows(t)
      BY <2>3 DEF TurnThrows, Throw, TurnMove, Active
    <2>4. CASE Stream(t)
      BY <2>4 DEF Stream, Throw, TurnMove, Active
    <2>5. CASE Answer(t)
      BY <2>5 DEF Answer, TurnMove, Active, Q!Enqueue
    <2>6. CASE FlushKv(t)
      BY <2>6 DEF FlushKv, TurnMove
    <2> QED
      BY <1>1, <2>1, <2>2, <2>3, <2>4, <2>5, <2>6 DEF TurnStep
  <1>2. ASSUME NEW c \in Clears, ClearStart(c) \/ ClearStep(c) PROVE TurnMove
    BY <1>2 DEF ClearStart, ClearStep, ClearDrained, ClearStore, ClearKv, TurnMove
  <1>3. ASSUME NEW x \in Deletes, DeleteStart(x) \/ DeleteStep(x) PROVE TurnMove
    BY <1>3 DEF DeleteStart, DeleteStep, DeleteStore, DeleteTranscript, TurnMove
  <1>4. ASSUME NEW d \in Docs, UploadStart(d) \/ UploadWrite(d) PROVE TurnMove
    BY <1>4 DEF UploadStart, UploadWrite, TurnMove
  <1>5. CASE JobStep
    BY <1>5 DEF JobStep, JobStart, JobUpsert, JobSettle, TurnMove
  <1>6. CASE UNCHANGED vars
    BY <1>6 DEF vars, TurnMove
  <1> QED
    BY <1>1, <1>2, <1>3, <1>4, <1>5, <1>6 DEF Next

LEMMA OneTurnKept ==
    ASSUME TypeOK, OneTurn, TurnMove
    PROVE  OneTurn'
  BY DEF TypeOK, OneTurn, TurnMove, Active

\* A turn that is over stays over.
LEMMA OverStaysOver ==
    ASSUME TypeOK, TurnMove, NEW t \in Turns, turn[t] \in {"done", "failed"}
    PROVE  turn'[t] = turn[t]
  BY DEF TypeOK, TurnMove, Active

LEMMA AcceptedFacts ==
    ASSUME TypeOK, AcceptedIsEnqueued
    PROVE  /\ Accepted \subseteq Items
           /\ Accepted \cap Messages \subseteq enqueued
           /\ \A t \in Turns : User(t) \in Accepted => turn[t] # "idle"
           /\ \A t \in Turns : Assistant(t) \in Accepted => turn[t] = "done"
           /\ \A d \in Docs : d \notin Messages
  <1>1. \A d \in Docs : d \notin Messages
    BY DocsAreNotMessages DEF Messages
  <1>2. ASSUME NEW m \in Messages
        PROVE  \E t \in Turns : m \in {User(t), Assistant(t)} /\ m[1] = t
    BY DEF Messages, User, Assistant
  <1>3. Accepted \subseteq Items
    BY DEF Accepted, Items
  <1>4. ASSUME NEW m \in Messages, m \in Accepted PROVE m \in enqueued
    <2>1. PICK t \in Turns : m \in {User(t), Assistant(t)} /\ m[1] = t
      BY <1>2
    <2>2. CASE m = User(t)
      BY <1>1, <1>4, <2>1, <2>2, MessageParts DEF Accepted, AcceptedIsEnqueued
    <2>3. CASE m = Assistant(t)
      BY <1>1, <1>4, <2>1, <2>3, MessageParts DEF Accepted, AcceptedIsEnqueued
    <2> QED
      BY <2>1, <2>2, <2>3
  <1>5. ASSUME NEW t \in Turns, User(t) \in Accepted PROVE turn[t] # "idle"
    BY <1>1, <1>5, MessageFacts, MessageParts DEF Accepted
  <1>6. ASSUME NEW t \in Turns, Assistant(t) \in Accepted PROVE turn[t] = "done"
    BY <1>1, <1>6, MessageFacts, MessageParts DEF Accepted
  <1> QED
    BY <1>1, <1>3, <1>4, <1>5, <1>6

\* Only a press changes what was on the screen at a press.
BeforeMove ==
    \/ UNCHANGED before
    \/ \E c \in Clears : ClearStart(c)
    \/ \E x \in Deletes : before' = [before EXCEPT ![x] = Accepted]

LEMMA NextIsBeforeMove == [Next]_vars => BeforeMove
  <1> SUFFICES ASSUME [Next]_vars PROVE BeforeMove
    OBVIOUS
  <1>1. ASSUME NEW t \in Turns, Send(t) \/ TurnStep(t) PROVE BeforeMove
    BY <1>1 DEF Send, TurnStep, Recall, Plan, StartStream, TurnThrows, Stream, Answer, FlushKv,
                BeforeMove
  <1>2. ASSUME NEW c \in Clears, ClearStart(c) \/ ClearStep(c) PROVE BeforeMove
    BY <1>2 DEF ClearStep, ClearDrained, ClearStore, ClearKv, BeforeMove
  <1>3. ASSUME NEW x \in Deletes, DeleteStart(x) \/ DeleteStep(x) PROVE BeforeMove
    BY <1>3 DEF DeleteStart, DeleteStep, DeleteStore, DeleteTranscript, BeforeMove
  <1>4. ASSUME NEW d \in Docs, UploadStart(d) \/ UploadWrite(d) PROVE BeforeMove
    BY <1>4 DEF UploadStart, UploadWrite, BeforeMove
  <1>5. CASE JobStep
    BY <1>5 DEF JobStep, JobStart, JobUpsert, JobSettle, BeforeMove
  <1>6. CASE UNCHANGED vars
    BY <1>6 DEF vars, BeforeMove
  <1> QED
    BY <1>1, <1>2, <1>3, <1>4, <1>5, <1>6 DEF Next

\* What each kind of step leaves in before, seen from the clears.
LEMMA BeforeFacts ==
    ASSUME TypeOK, AcceptedIsEnqueued, BeforeMove
    PROVE  /\ before' \in [Clears \cup Deletes -> SUBSET Items]
           /\ \A c \in Clears : before'[c] = before[c] \/ (ClearStart(c) /\ before'[c] = Accepted)
  <1>1. Accepted \subseteq Items /\ before \in [Clears \cup Deletes -> SUBSET Items]
    BY AcceptedFacts DEF AcceptedIsEnqueued
  <1> HIDE DEF Accepted
  <1>2. CASE UNCHANGED before
    BY <1>1, <1>2
  <1>3. ASSUME NEW c \in Clears, ClearStart(c)
        PROVE  /\ before' \in [Clears \cup Deletes -> SUBSET Items]
               /\ before'[c] = Accepted
               /\ \A d \in Clears : d # c => before'[d] = before[d]
    BY <1>1, <1>3 DEF ClearStart
  <1>4. ASSUME NEW x \in Deletes, before' = [before EXCEPT ![x] = Accepted]
        PROVE  /\ before' \in [Clears \cup Deletes -> SUBSET Items]
               /\ \A c \in Clears : before'[c] = before[c]
    BY <1>1, <1>4, ClearsAreNotDeletes
  <1> QED
    BY <1>2, <1>3, <1>4 DEF BeforeMove

LEMMA PressedIsOverKept ==
    ASSUME TypeOK, OneTurn, PressedIsOver, AcceptedIsEnqueued, TurnMove, BeforeMove
    PROVE  PressedIsOver'
  <1> SUFFICES ASSUME NEW c \in Clears, NEW t \in Turns
               PROVE  /\ User(t) \in before'[c] => turn'[t] \in {"done", "failed"}
                      /\ Assistant(t) \in before'[c] => turn'[t] = "done"
    BY DEF PressedIsOver, User, Assistant
  <1>1. CASE before'[c] = before[c]
    BY <1>1, OverStaysOver DEF PressedIsOver
  <1>2. CASE ClearStart(c) /\ before'[c] = Accepted
    <2>1. ~generating /\ turn' = turn
      BY <1>2 DEF ClearStart, Press, Enabled
    <2>2. /\ User(t) \in Accepted => turn[t] # "idle" /\ ~Active(t)
          /\ Assistant(t) \in Accepted => turn[t] = "done"
      BY <2>1, AcceptedFacts DEF OneTurn
    <2> QED
      BY <1>2, <2>1, <2>2 DEF TypeOK, Active
  <1> QED
    BY <1>1, <1>2, BeforeFacts

LEMMA EnqueuedGrows ==
    ASSUME QueueStep
    PROVE  enqueued \subseteq enqueued'
  BY DEF QueueStep, Q!Enqueue, Q!Start, Q!Settle

LEMMA AcceptedIsEnqueuedKept ==
    ASSUME TypeOK, AcceptedIsEnqueued, TurnMove, BeforeMove, QueueStep
    PROVE  AcceptedIsEnqueued'
  <1>1. /\ \A t \in Turns : turn'[t] # "idle" => User(t) \in enqueued'
        /\ \A t \in Turns : turn'[t] = "done" => Assistant(t) \in enqueued'
    BY EnqueuedGrows DEF TypeOK, AcceptedIsEnqueued, TurnMove, Active
  <1>2. \A c \in Clears : before'[c] \cap Messages \subseteq enqueued'
    BY AcceptedFacts, BeforeFacts, EnqueuedGrows DEF AcceptedIsEnqueued
  <1> QED
    BY <1>1, <1>2, BeforeFacts DEF AcceptedIsEnqueued, User, Assistant

\* What a step other than Send and Answer may do to the transcript: nothing,
\* or empty it and note the turn that runs.
TranscriptMove ==
    \/ /\ UNCHANGED <<transcript, disturbed>>
       /\ \A t \in Turns : Active(t)' => Active(t)
    \/ ResetTranscript /\ UNCHANGED turn
    \/ \E t \in Turns : Send(t) \/ Answer(t)

LEMMA NextIsTranscriptMove == TypeOK /\ [Next]_vars => TranscriptMove
  <1> SUFFICES ASSUME TypeOK, [Next]_vars PROVE TranscriptMove
    OBVIOUS
  <1>0. CASE UNCHANGED <<transcript, disturbed, turn>>
    BY <1>0 DEF TranscriptMove, Active
  <1>1. ASSUME NEW t \in Turns, TurnStep(t) PROVE TranscriptMove
    <2>1. CASE Recall(t) \/ Plan(t) \/ StartStream(t) \/ TurnThrows(t) \/ Stream(t)
      BY <2>1
      DEF TypeOK, Recall, Plan, StartStream, TurnThrows, Throw, Stream, TranscriptMove, Active
    <2>2. CASE Answer(t)
      BY <2>2 DEF TranscriptMove
    <2>3. CASE FlushKv(t)
      BY <1>0, <2>3 DEF FlushKv
    <2> QED
      BY <1>1, <2>1, <2>2, <2>3 DEF TurnStep
  <1>2. ASSUME NEW c \in Clears, ClearStart(c) \/ ClearStep(c) PROVE TranscriptMove
    <2>1. CASE ClearDrained(c)
      BY <2>1 DEF ClearDrained, TranscriptMove
    <2>2. CASE ClearStart(c) \/ ClearStore(c) \/ ClearKv(c)
      BY <1>0, <2>2 DEF ClearStart, ClearStore, ClearKv
    <2> QED
      BY <1>2, <2>1, <2>2 DEF ClearStep
  <1>3. ASSUME NEW x \in Deletes, DeleteStart(x) \/ DeleteStep(x) PROVE TranscriptMove
    <2>1. CASE DeleteTranscript(x)
      BY <2>1 DEF DeleteTranscript, TranscriptMove
    <2>2. CASE DeleteStart(x) \/ DeleteStore(x)
      BY <1>0, <2>2 DEF DeleteStart, DeleteStore
    <2> QED
      BY <1>3, <2>1, <2>2 DEF DeleteStep
  <1>4. ASSUME NEW d \in Docs, UploadStart(d) \/ UploadWrite(d) PROVE TranscriptMove
    BY <1>0, <1>4 DEF UploadStart, UploadWrite
  <1>5. CASE JobStep
    BY <1>0, <1>5 DEF JobStep, JobStart, JobUpsert, JobSettle
  <1>6. CASE UNCHANGED vars
    BY <1>0, <1>6 DEF vars
  <1> QED
    BY <1>1, <1>2, <1>3, <1>4, <1>5, <1>6 DEF Next, TranscriptMove

-----------------------------------------------------------------------------
(* Clears.                                                                 *)

\* What a step may do to the clears and their flushes.
ClearMove ==
    \/ UNCHANGED <<clear, flush, ahead>>
    \/ \E c \in Clears : ClearStart(c) \/ ClearStep(c)

LEMMA NextIsClearMove == [Next]_vars => ClearMove
  <1> SUFFICES ASSUME [Next]_vars PROVE ClearMove
    OBVIOUS
  <1>1. ASSUME NEW t \in Turns, Send(t) \/ TurnStep(t) PROVE ClearMove
    BY <1>1 DEF Send, TurnStep, Recall, Plan, StartStream, TurnThrows, Stream, Answer, FlushKv,
                ClearMove, flushVars
  <1>2. ASSUME NEW x \in Deletes, DeleteStart(x) \/ DeleteStep(x) PROVE ClearMove
    BY <1>2 DEF DeleteStart, DeleteStep, DeleteStore, DeleteTranscript, ClearMove, flushVars
  <1>3. ASSUME NEW d \in Docs, UploadStart(d) \/ UploadWrite(d) PROVE ClearMove
    BY <1>3 DEF UploadStart, UploadWrite, ClearMove, flushVars
  <1>4. CASE JobStep
    BY <1>4 DEF JobStep, JobStart, JobUpsert, JobSettle, ClearMove, flushVars
  <1>5. CASE UNCHANGED vars
    BY <1>5 DEF vars, ClearMove, flushVars
  <1> QED
    BY <1>1, <1>2, <1>3, <1>4, <1>5 DEF Next, ClearMove

LEMMA ClearIsFlushKept ==
    ASSUME TypeOK, ClearIsFlush, ClearMove
    PROVE  ClearIsFlush'
  <1>0. /\ clear \in [Clears -> {"idle", "draining", "wiping", "clearingKv", "done", "failed"}]
        /\ flush \in [Clears -> {"idle", "waiting", "returned"}]
    BY DEF TypeOK, Q!TypeOK
  <1>1. CASE UNCHANGED <<clear, flush, ahead>>
    BY <1>1 DEF ClearIsFlush
  <1>2. ASSUME NEW c \in Clears, ClearStart(c) PROVE ClearIsFlush'
    BY <1>0, <1>2 DEF ClearStart, Q!BeginFlush, ClearIsFlush
  <1>3. ASSUME NEW c \in Clears, ClearDrained(c) PROVE ClearIsFlush'
    BY <1>0, <1>3 DEF ClearDrained, Q!EndFlush, ClearIsFlush
  <1>4. ASSUME NEW c \in Clears, ClearStore(c) \/ ClearKv(c) PROVE ClearIsFlush'
    BY <1>0, <1>4 DEF ClearStore, ClearKv, flushVars, ClearIsFlush
  <1> QED
    BY <1>1, <1>2, <1>3, <1>4 DEF ClearMove, ClearStep

\* A job in the chain after a step was there before, or has just been
\* enqueued for the first time.
LEMMA LineFacts ==
    ASSUME QueueInv, QueueStep, NEW i \in 1..Len(line')
    PROVE  line'[i] \notin enqueued \/ \E k \in 1..Len(line) : line[k] = line'[i]
  <1>0. line \in Seq(Messages) /\ Len(line) \in Nat
    BY LineDomain DEF QueueInv
  <1>1. ASSUME NEW j \in Messages, Q!Enqueue(j)
        PROVE  line'[i] \notin enqueued \/ \E k \in 1..Len(line) : line[k] = line'[i]
    <2>1. line' = Append(line, j) /\ j \notin enqueued
      BY <1>1 DEF Q!Enqueue
    <2> QED
      BY <1>0, <2>1, AppendFacts
  <1>2. ASSUME NEW ok \in BOOLEAN, Q!Settle(ok)
        PROVE  \E k \in 1..Len(line) : line[k] = line'[i]
    <2>1. line # <<>> /\ line' = Tail(line)
      BY <1>2 DEF Q!Settle, QueueInv, QueueType, RunnerHasJob
    <2> QED
      BY <1>0, <2>1, HeadTail
  <1>3. CASE line' = line
    BY <1>0, <1>3
  <1> QED
    BY <1>1, <1>2, <1>3 DEF QueueStep, Q!Start

LEMMA BeforeIsAheadKept ==
    ASSUME TypeOK, QueueInv, AcceptedIsEnqueued, BeforeIsAhead,
           BeforeMove, ClearMove, QueueStep
    PROVE  BeforeIsAhead'
  <1> SUFFICES ASSUME NEW c \in Clears, clear'[c] # "idle",
                      NEW i \in 1..Len(line'), line'[i] \in before'[c]
               PROVE  line'[i] \in ahead'[c]
    BY DEF BeforeIsAhead
  <1>0. /\ clear \in [Clears -> {"idle", "draining", "wiping", "clearingKv", "done", "failed"}]
        /\ ahead \in [Clears -> SUBSET Messages]
    BY DEF TypeOK, Q!TypeOK
  <1>1. CASE ClearStart(c)
    <2>1. line' = line /\ ahead'[c] = {line[k] : k \in DOMAIN line}
      BY <1>0, <1>1 DEF ClearStart, queueVars, Q!BeginFlush
    <2> QED
      BY <2>1, LineDomain DEF QueueInv
  <1>2. CASE ~ClearStart(c)
    <2>1. before'[c] = before[c]
      BY <1>2, BeforeFacts
    <2>2. clear[c] # "idle" /\ ahead'[c] = ahead[c]
      BY <1>0, <1>2
      DEF ClearMove, ClearStart, ClearStep, ClearDrained, ClearStore, ClearKv, Q!BeginFlush,
          Q!EndFlush, flushVars
    <2>3. line'[i] \in Messages
      <3>1. line' \in Seq(Messages)
        BY QueueStepKeeps DEF QueueInv, QueueType, Q!TypeOK
      <3> QED
        BY <3>1
    <2>4. line'[i] \in enqueued
      BY <2>1, <2>3 DEF AcceptedIsEnqueued
    <2>5. PICK k \in 1..Len(line) : line[k] = line'[i]
      BY <2>4, LineFacts
    <2> QED
      BY <2>1, <2>2, <2>5 DEF BeforeIsAhead
  <1> QED
    BY <1>1, <1>2

\* The job that runs writes nothing a finished clear has forgotten.
LEMMA HeadIsNew ==
    ASSUME TypeOK, QueueInv, ClearIsFlush, BeforeIsAhead, running,
           NEW c \in Clears, clear[c] \in {"clearingKv", "done"}
    PROVE  Head(line) \notin before[c]
  <1>1. /\ line \in Seq(Messages) /\ DOMAIN line = 1..Len(line)
        /\ Head(line) = line[1] /\ 1 \in 1..Len(line)
    BY LineDomain, HeadTail DEF QueueInv, QueueType, RunnerHasJob
  <1>2. flush[c] = "returned"
    BY DEF TypeOK, Q!TypeOK, ClearIsFlush
  <1>3. line[1] \notin ahead[c]
    BY <1>1, <1>2 DEF QueueInv, QueueKeepsCount, Q!FlushDrains, Q!Waiting
  <1> QED
    BY <1>1, <1>3 DEF BeforeIsAhead

\* A clear that is past its start was past it before or has just started.
LEMMA BeforeStays ==
    ASSUME TypeOK, AcceptedIsEnqueued, BeforeMove,
           NEW c \in Clears, clear'[c] \in {"wiping", "clearingKv", "done"}
    PROVE  before'[c] = before[c]
  BY BeforeFacts DEF TypeOK, ClearStart

\* Where a clear that is past its press, or past its flush, was before.
LEMMA ClearGoesOn ==
    ASSUME TypeOK, ClearMove, NEW c \in Clears
    PROVE  /\ clear'[c] \notin {"idle", "failed"} => ClearStart(c) \/ clear[c] \notin {"idle", "failed"}
           /\ clear'[c] \in {"wiping", "clearingKv", "done"} =>
                ClearDrained(c) \/ clear[c] \in {"wiping", "clearingKv", "done"}
           /\ clear'[c] = "done" => ClearKv(c) \/ clear[c] = "done"
  <1>0. clear \in [Clears -> {"idle", "draining", "wiping", "clearingKv", "done", "failed"}]
    BY DEF TypeOK
  <1>1. CASE UNCHANGED <<clear, flush, ahead>>
    BY <1>1
  <1>2. ASSUME NEW d \in Clears, ClearStart(d) PROVE clear' = [clear EXCEPT ![d] = "draining"]
    BY <1>2 DEF ClearStart
  <1>3. ASSUME NEW d \in Clears, ClearDrained(d)
        PROVE  clear[d] = "draining" /\ clear' = [clear EXCEPT ![d] = "wiping"]
    BY <1>3 DEF ClearDrained
  <1>4. ASSUME NEW d \in Clears, ClearStore(d)
        PROVE  clear[d] = "wiping" /\ clear'[d] \in {"clearingKv", "failed"}
               /\ \A e \in Clears : e # d => clear'[e] = clear[e]
    BY <1>0, <1>4 DEF ClearStore
  <1>5. ASSUME NEW d \in Clears, ClearKv(d)
        PROVE  clear[d] = "clearingKv" /\ clear'[d] \in {"done", "failed"}
               /\ \A e \in Clears : e # d => clear'[e] = clear[e]
    BY <1>0, <1>5 DEF ClearKv
  <1> QED
    BY <1>0, <1>1, <1>2, <1>3, <1>4, <1>5 DEF ClearMove, ClearStep

LEMMA StoreForgetsKept ==
    ASSUME TypeOK, QueueInv, ClearIsFlush, BeforeIsAhead, AcceptedIsEnqueued,
           StoreForgets, BeforeMove, [Next]_vars
    PROVE  StoreForgets'
  <1> SUFFICES ASSUME NEW c \in Clears, clear'[c] \in {"clearingKv", "done"}
               PROVE  memory' \cap before[c] \cap Messages = {}
    BY BeforeStays DEF StoreForgets
  <1> DEFINE Goal == memory' \cap before[c] \cap Messages = {}
  <1>0. clear \in [Clears -> {"idle", "draining", "wiping", "clearingKv", "done", "failed"}]
    BY DEF TypeOK
  <1>1. CASE clear'[c] = clear[c] /\ memory' \subseteq memory
    BY <1>1 DEF StoreForgets
  <1>2. ASSUME NEW t \in Turns, Send(t) \/ TurnStep(t) PROVE Goal
    BY <1>1, <1>2
    DEF Send, TurnStep, Recall, Plan, StartStream, TurnThrows, Stream, Answer, FlushKv
  <1>3. ASSUME NEW d \in Clears, ClearStart(d) \/ ClearStep(d) PROVE Goal
    <2>1. CASE ClearStart(d) \/ ClearDrained(d)
      BY <1>0, <1>1, <2>1 DEF ClearStart, ClearDrained
    <2>2. CASE ClearStore(d)
      BY <1>0, <1>1, <2>2 DEF ClearStore
    <2>3. CASE ClearKv(d)
      BY <1>0, <2>3 DEF ClearKv, StoreForgets
    <2> QED
      BY <1>3, <2>1, <2>2, <2>3 DEF ClearStep
  <1>4. ASSUME NEW x \in Deletes, DeleteStart(x) \/ DeleteStep(x) PROVE Goal
    BY <1>1, <1>4 DEF DeleteStart, DeleteStep, DeleteStore, DeleteTranscript
  <1>5. ASSUME NEW d \in Docs, UploadStart(d) \/ UploadWrite(d) PROVE Goal
    BY <1>1, <1>5, AcceptedFacts DEF UploadStart, UploadWrite, StoreForgets
  <1>6. CASE JobStep
    <2>1. CASE JobStart \/ JobSettle
      BY <1>1, <2>1 DEF JobStart, JobSettle
    <2>2. CASE JobUpsert
      BY <2>2, HeadIsNew DEF JobUpsert, StoreForgets
    <2> QED
      BY <1>6, <2>1, <2>2 DEF JobStep
  <1>7. CASE UNCHANGED vars
    BY <1>1, <1>7 DEF vars
  <1> QED
    BY <1>2, <1>3, <1>4, <1>5, <1>6, <1>7 DEF Next

LEMMA ScreenForgetsKept ==
    ASSUME TypeOK, PressedIsOver, AcceptedIsEnqueued, ScreenForgets,
           BeforeMove, ClearMove, TranscriptMove
    PROVE  ScreenForgets'
  <1> SUFFICES ASSUME NEW c \in Clears, clear'[c] \in {"wiping", "clearingKv", "done"},
                      NEW i \in 1..Len(transcript')
               PROVE  transcript'[i] \notin before[c]
    BY BeforeStays DEF ScreenForgets
  <1>0. transcript \in Seq(Messages) /\ Len(transcript) \in Nat
    BY DEF TypeOK
  <1>1. CASE transcript' = <<>>
    BY <1>1
  <1>2. CASE ClearDrained(c)
    BY <1>1, <1>2 DEF ClearDrained, ResetTranscript
  <1>3. CASE ~ClearDrained(c) /\ transcript' # <<>>
    <2>1. \A k \in 1..Len(transcript) : transcript[k] \notin before[c]
      BY <1>3, ClearGoesOn DEF ScreenForgets
    <2>2. CASE UNCHANGED transcript
      BY <2>1, <2>2
    <2>3. ASSUME NEW t \in Turns, Send(t) \/ Answer(t) PROVE transcript'[i] \notin before[c]
      <3>1. PICK m \in Messages : transcript' = Append(transcript, m) /\ m \notin before[c]
        <4>1. User(t) \in Messages /\ Assistant(t) \in Messages
          BY MessageFacts
        <4>2. CASE Send(t)
          BY <4>1, <4>2 DEF Send, PressedIsOver
        <4>3. CASE Answer(t)
          BY <4>1, <4>3 DEF Answer, PressedIsOver
        <4> QED
          BY <2>3, <4>2, <4>3
      <3> QED
        BY <1>0, <2>1, <3>1, AppendFacts
    <2> QED
      BY <1>3, <2>2, <2>3 DEF TranscriptMove, ResetTranscript
  <1> QED
    BY <1>1, <1>2, <1>3

\* What a step may do to the prompts.
PromptMove ==
    \/ UNCHANGED <<prompt, taken, turn>>
    \/ \E t \in Turns :
        \/ Send(t) \/ Recall(t) \/ Plan(t) \/ StartStream(t)
        \/ TurnThrows(t) \/ Stream(t) \/ Answer(t)

LEMMA NextIsPromptMove == [Next]_vars => PromptMove
  <1> SUFFICES ASSUME [Next]_vars PROVE PromptMove
    OBVIOUS
  <1>1. ASSUME NEW t \in Turns, Send(t) \/ TurnStep(t) PROVE PromptMove
    BY <1>1 DEF TurnStep, FlushKv, PromptMove, promptVars
  <1>2. ASSUME NEW c \in Clears, ClearStart(c) \/ ClearStep(c) PROVE PromptMove
    BY <1>2
    DEF ClearStart, ClearStep, ClearDrained, ClearStore, ClearKv, PromptMove, promptVars
  <1>3. ASSUME NEW x \in Deletes, DeleteStart(x) \/ DeleteStep(x) PROVE PromptMove
    BY <1>3 DEF DeleteStart, DeleteStep, DeleteStore, DeleteTranscript, PromptMove, promptVars
  <1>4. ASSUME NEW d \in Docs, UploadStart(d) \/ UploadWrite(d) PROVE PromptMove
    BY <1>4 DEF UploadStart, UploadWrite, PromptMove, promptVars
  <1>5. CASE JobStep
    BY <1>5 DEF JobStep, JobStart, JobUpsert, JobSettle, PromptMove, promptVars
  <1>6. CASE UNCHANGED vars
    BY <1>6 DEF vars, PromptMove, promptVars
  <1> QED
    BY <1>1, <1>2, <1>3, <1>4, <1>5, <1>6 DEF Next

LEMMA PromptIsOwnKept ==
    ASSUME TypeOK, PromptIsOwn, PromptMove
    PROVE  PromptIsOwn'
  <1>0. turn \in [Turns -> {"idle", "retrieving", "planning", "streaming", "tracing",
                            "done", "failed"}]
        /\ prompt \in [Turns -> SUBSET Messages]
    BY DEF TypeOK
  <1>1. CASE UNCHANGED <<prompt, taken, turn>>
    BY <1>1 DEF PromptIsOwn
  <1>2. ASSUME NEW t \in Turns, Send(t) \/ Recall(t) \/ Plan(t) PROVE PromptIsOwn'
    BY <1>0, <1>2 DEF Send, Recall, Plan, Gather, PromptIsOwn
  <1>3. ASSUME NEW t \in Turns, StartStream(t) \/ Answer(t) PROVE PromptIsOwn'
    BY <1>0, <1>3 DEF StartStream, Answer, PromptIsOwn, promptVars
  <1>4. ASSUME NEW t \in Turns, TurnThrows(t) \/ Stream(t) PROVE PromptIsOwn'
    BY <1>0, <1>4 DEF TurnThrows, Stream, Throw, DropPrompt, PromptIsOwn
  <1> QED
    BY <1>1, <1>2, <1>3, <1>4 DEF PromptMove

\* What a turn reads behind a clear was not said before it.
LEMMA ReadIsNew ==
    ASSUME TypeOK, ScreenForgets, StoreForgets, NEW c \in Clears,
           clear[c] \in {"clearingKv", "done"}
    PROVE  /\ memory \cap Messages \cap before[c] = {}
           /\ {transcript[i] : i \in 1..Len(transcript) - 1} \cap before[c] = {}
  <1>1. 1..Len(transcript) - 1 \subseteq 1..Len(transcript)
    BY DEF TypeOK
  <1> QED
    BY <1>1 DEF ScreenForgets, StoreForgets

LEMMA PromptForgetsKept ==
    ASSUME TypeOK, OneTurn, PressedIsOver, AcceptedIsEnqueued, PromptIsOwn, ScreenForgets,
           PromptForgets, StoreForgets, BeforeMove, ClearMove, PromptMove
    PROVE  PromptForgets'
  <1> SUFFICES ASSUME NEW c \in Clears, clear'[c] \notin {"idle", "failed"}, NEW t \in Turns
               PROVE  prompt'[t] \cap before'[c] \subseteq taken'[c]
    BY DEF PromptForgets
  <1>0. /\ prompt \in [Turns -> SUBSET Messages] /\ taken \in [Clears -> SUBSET Messages]
        /\ clear \in [Clears -> {"idle", "draining", "wiping", "clearingKv", "done", "failed"}]
    BY DEF TypeOK
  <1>1. CASE ClearStart(c)
    <2>1. prompt' = prompt /\ ~Active(t)
      BY <1>1 DEF ClearStart, Press, Enabled, OneTurn, promptVars
    <2> QED
      BY <2>1 DEF PromptIsOwn, Active
  <1>2. CASE ~ClearStart(c)
    <2>1. before'[c] = before[c] /\ clear[c] \notin {"idle", "failed"}
      BY <1>2, BeforeFacts, ClearGoesOn
    <2>2. prompt[t] \cap before[c] \subseteq taken[c]
      BY <2>1 DEF PromptForgets
    <2>3. CASE UNCHANGED promptVars
      BY <2>1, <2>2, <2>3 DEF promptVars
    <2>4. ASSUME NEW s \in Turns, Send(s) PROVE prompt'[t] \cap before[c] \subseteq taken'[c]
      <3>1. User(s) \notin before[c]
        BY <2>4 DEF Send, PressedIsOver
      <3> QED
        BY <1>0, <2>2, <2>4, <3>1 DEF Send
    <2>5. ASSUME NEW s \in Turns, NEW read \in SUBSET Messages, Gather(s, read),
                 clear[c] \in {"clearingKv", "done"} => read \cap before[c] = {}
          PROVE  prompt'[t] \cap before[c] \subseteq taken'[c]
      <3>1. taken[c] \subseteq taken'[c] /\ read \cap before[c] \subseteq taken'[c]
        BY <1>0, <2>1, <2>5 DEF Gather, Waits
      <3>2. prompt'[t] \subseteq prompt[t] \cup read
        BY <1>0, <2>5 DEF Gather
      <3> QED
        BY <2>2, <3>1, <3>2
    <2>6. ASSUME NEW s \in Turns, Recall(s) PROVE prompt'[t] \cap before[c] \subseteq taken'[c]
      <3>1. memory \cap Messages \in SUBSET Messages /\ Gather(s, memory \cap Messages)
        BY <2>6 DEF Recall
      <3> QED
        BY <2>5, <3>1, ReadIsNew
    <2>7. ASSUME NEW s \in Turns, Plan(s) PROVE prompt'[t] \cap before[c] \subseteq taken'[c]
      <3> DEFINE read == {transcript[i] : i \in 1..Len(transcript) - 1}
      <3>1. read \in SUBSET Messages /\ Gather(s, read)
        BY <2>7 DEF Plan, TypeOK
      <3>2. clear[c] \in {"clearingKv", "done"} => read \cap before[c] = {}
        BY ReadIsNew
      <3> HIDE DEF read
      <3> QED
        BY <2>5, <3>1, <3>2
    <2>8. ASSUME NEW s \in Turns, DropPrompt(s), UNCHANGED taken
          PROVE  prompt'[t] \cap before[c] \subseteq taken'[c]
      BY <1>0, <2>2, <2>8 DEF DropPrompt
    <2> QED
      BY <2>1, <2>3, <2>4, <2>6, <2>7, <2>8
      DEF PromptMove, StartStream, Answer, TurnThrows, Stream, promptVars
  <1> QED
    BY <1>1, <1>2

LEMMA KvForgetsKept ==
    ASSUME TypeOK, AcceptedIsEnqueued, PromptForgets, KvForgets, BeforeMove, ClearMove,
           PromptMove, [Next]_vars
    PROVE  KvForgets'
  <1> SUFFICES ASSUME NEW c \in Clears, clear'[c] = "done", NEW p \in kvStored' \cup {kvSlot'}
               PROVE  p \cap before[c] \subseteq taken'[c]
    BY BeforeStays DEF KvForgets
  <1>1. CASE ClearKv(c)
    <2>1. clear'[c] # "failed"
      OBVIOUS
    <2>2. clear' # [clear EXCEPT ![c] = "failed"]
      BY <2>1 DEF TypeOK
    <2> QED
      BY <1>1, <2>2 DEF ClearKv
  <1>2. CASE ~ClearKv(c)
    <2>1. clear[c] = "done" /\ \A q \in kvStored \cup {kvSlot} : q \cap before[c] \subseteq taken[c]
      BY <1>2, ClearGoesOn DEF KvForgets
    <2>2. taken[c] \subseteq taken'[c]
      BY DEF TypeOK, PromptMove, Send, Recall, Plan, Gather, StartStream, TurnThrows, Stream,
             Answer, promptVars
    <2>3. CASE kvStored' \cup {kvSlot'} \subseteq kvStored \cup {kvSlot, {}}
      BY <2>1, <2>2, <2>3
    <2>4. ASSUME NEW s \in Turns, Send(s) \/ TurnStep(s) PROVE p \cap before[c] \subseteq taken'[c]
      <3>1. CASE Send(s) \/ Recall(s) \/ Plan(s) \/ StartStream(s) \/ TurnThrows(s) \/ Answer(s)
        BY <2>3, <3>1 DEF Send, Recall, Plan, StartStream, TurnThrows, Answer, kvVars
      <3>2. CASE Stream(s)
        <4>1. prompt[s] \cap before[c] \subseteq taken[c]
          BY <2>1 DEF PromptForgets
        <4> QED
          BY <2>1, <2>2, <3>2, <4>1 DEF Stream
      <3>3. CASE FlushKv(s)
        BY <2>3, <3>3 DEF FlushKv, Persisted
      <3> QED
        BY <2>4, <3>1, <3>2, <3>3 DEF TurnStep
    <2>5. ASSUME NEW d \in Clears, ClearStart(d) \/ ClearStep(d)
          PROVE  p \cap before[c] \subseteq taken'[c]
      <3>1. CASE ClearStart(d) \/ ClearDrained(d) \/ ClearStore(d)
        BY <2>3, <3>1 DEF ClearStart, ClearDrained, ClearStore, kvVars
      <3>2. CASE ClearKv(d)
        BY <2>3, <3>2 DEF ClearKv, Persisted
      <3> QED
        BY <2>5, <3>1, <3>2 DEF ClearStep
    <2>6. CASE ~(\E s \in Turns : Send(s) \/ TurnStep(s))
                /\ ~(\E d \in Clears : ClearStart(d) \/ ClearStep(d))
      <3>1. UNCHANGED <<kvSlot, kvStored>>
        BY <2>6
        DEF Next, vars, kvVars, DeleteStart, DeleteStep, DeleteStore, DeleteTranscript,
            UploadStart, UploadWrite, JobStep, JobStart, JobUpsert, JobSettle
      <3> QED
        BY <2>3, <3>1
    <2> QED
      BY <2>4, <2>5, <2>6
  <1> QED
    BY <1>1, <1>2

LEMMA ClearInit == Init => ClearInv
  <1> SUFFICES ASSUME Init PROVE ClearInv
    OBVIOUS
  <1>1. OneTurn /\ PromptIsOwn
    BY DEF Init, OneTurn, Active, PromptIsOwn
  <1>2. \A c \in Clears : before[c] = {} /\ clear[c] = "idle" /\ flush[c] = "idle"
    BY DEF Init, Q!Init
  <1>3. PressedIsOver /\ ClearIsFlush /\ BeforeIsAhead
    BY <1>2 DEF PressedIsOver, ClearIsFlush, BeforeIsAhead
  <1>4. ScreenForgets /\ PromptForgets /\ StoreForgets /\ KvForgets
    BY <1>2 DEF ScreenForgets, PromptForgets, StoreForgets, KvForgets
  <1>5. AcceptedIsEnqueued
    BY <1>2 DEF Init, AcceptedIsEnqueued
  <1> QED
    BY <1>1, <1>3, <1>4, <1>5 DEF ClearInv

LEMMA ClearStepKeeps ==
    ASSUME SessionInv, ClearInv, [Next]_vars
    PROVE  ClearInv'
  <1>1. TypeOK /\ QueueInv
    BY DEF SessionInv
  <1>2. TurnMove /\ BeforeMove /\ ClearMove /\ QueueStep /\ TranscriptMove /\ PromptMove
    BY <1>1, NextIsTurnMove, NextIsBeforeMove, NextIsClearMove, NextIsQueueStep,
       NextIsTranscriptMove, NextIsPromptMove
  <1>3. OneTurn' /\ PressedIsOver' /\ AcceptedIsEnqueued'
    BY <1>1, <1>2, OneTurnKept, PressedIsOverKept, AcceptedIsEnqueuedKept DEF ClearInv
  <1>4. ClearIsFlush' /\ BeforeIsAhead'
    BY <1>1, <1>2, ClearIsFlushKept, BeforeIsAheadKept DEF ClearInv
  <1>5. PromptIsOwn' /\ ScreenForgets' /\ PromptForgets'
    BY <1>1, <1>2, PromptIsOwnKept, ScreenForgetsKept, PromptForgetsKept DEF ClearInv
  <1>6. StoreForgets' /\ KvForgets'
    BY <1>1, <1>2, StoreForgetsKept, KvForgetsKept DEF ClearInv
  <1> QED
    BY <1>3, <1>4, <1>5, <1>6 DEF ClearInv

\* After "Clear memory" neither the store nor a KV block holds what was said
\* before it was pressed (LocalAgent.clearMemory), but for what a turn that
\* was sent while it waited took into its prompt before the transcript and
\* the store were emptied: the flush outlasts every job of an earlier message,
\* the blocks go behind those of earlier turns, and a later prompt is made of
\* what came later.
THEOREM ClearIsFinal == Spec => []ClearForgets
  <1>1. ClearInv => ClearForgets
    BY DEF ClearInv, StoreForgets, KvForgets, ClearForgets
  <1>2. SessionInv /\ ClearInv /\ [Next]_vars => ClearInv'
    BY ClearStepKeeps
  <1> QED
    BY <1>1, <1>2, ClearInit, SessionIsTyped, PTL DEF Spec

-----------------------------------------------------------------------------
(* The transcript.                                                         *)

LEMMA SendAnswers ==
    ASSUME TypeOK, AnswerInv, NEW t \in Turns, Send(t)
    PROVE  LastIsQuestion' /\ AnswerFollowsQuestion'
  <1>1. /\ transcript \in Seq(Messages) /\ transcript' = Append(transcript, User(t))
        /\ User(t) \in Messages
    BY MessageFacts DEF TypeOK, Send
  <1>2. /\ DOMAIN transcript = 1..Len(transcript) /\ Len(transcript) \in Nat
        /\ DOMAIN transcript' = 1..Len(transcript) + 1
        /\ transcript' # <<>> /\ Len(transcript') = Len(transcript) + 1
        /\ transcript'[Len(transcript) + 1] = User(t)
        /\ \A i \in 1..Len(transcript) : transcript'[i] = transcript[i]
    BY <1>1, AppendFacts
  <1>3. \A s \in Turns : turn'[s] = IF s = t THEN "retrieving" ELSE turn[s]
    BY DEF TypeOK, Send
  <1>4. \A s \in Turns : ~Active(s)
    BY DEF AnswerInv, OneTurn, Send, Press, Enabled
  <1>5. LastIsQuestion'
    BY <1>2, <1>3, <1>4 DEF LastIsQuestion, Active, User
  <1>6. AnswerFollowsQuestion'
    <2> SUFFICES ASSUME NEW i \in 1..Len(transcript) + 1,
                        transcript'[i] = Assistant(transcript'[i][1]),
                        transcript'[i][1] \notin disturbed
                 PROVE  i > 1 /\ transcript'[i - 1] = User(transcript'[i][1])
      BY <1>2 DEF AnswerFollowsQuestion, User, Assistant, Send
    <2>1. CASE i = Len(transcript) + 1
      BY <1>2, <2>1 DEF User, Assistant
    <2>2. CASE i \in 1..Len(transcript)
      <3>1. i > 1 /\ transcript[i - 1] = User(transcript[i][1])
        BY <1>2, <2>2 DEF AnswerInv, AnswerFollowsQuestion
      <3>2. i - 1 \in 1..Len(transcript)
        BY <1>2, <2>2, <3>1
      <3> QED
        BY <1>2, <2>2, <3>1, <3>2
    <2> QED
      BY <1>2, <2>1, <2>2
  <1> QED
    BY <1>5, <1>6

LEMMA AnswerAnswers ==
    ASSUME TypeOK, AnswerInv, NEW t \in Turns, Answer(t)
    PROVE  LastIsQuestion' /\ AnswerFollowsQuestion'
  <1>1. /\ transcript \in Seq(Messages) /\ transcript' = Append(transcript, Assistant(t))
        /\ Assistant(t) \in Messages /\ disturbed' = disturbed
    BY MessageFacts DEF TypeOK, Answer
  <1>2. /\ DOMAIN transcript = 1..Len(transcript) /\ Len(transcript) \in Nat
        /\ DOMAIN transcript' = 1..Len(transcript) + 1
        /\ transcript' # <<>> /\ Len(transcript') = Len(transcript) + 1
        /\ transcript'[Len(transcript) + 1] = Assistant(t)
        /\ \A i \in 1..Len(transcript) : transcript'[i] = transcript[i]
    BY <1>1, AppendFacts
  <1>3. Active(t) /\ \A s \in Turns : turn'[s] = IF s = t THEN "done" ELSE turn[s]
    BY DEF TypeOK, Answer, Active
  <1>4. \A s \in Turns : Active(s) => s = t
    BY <1>3 DEF AnswerInv, OneTurn
  <1>5. LastIsQuestion'
    BY <1>3, <1>4 DEF LastIsQuestion, Active
  <1>6. t \notin disturbed => transcript # <<>> /\ transcript[Len(transcript)] = User(t)
    BY <1>3 DEF AnswerInv, LastIsQuestion
  <1>7. AnswerFollowsQuestion'
    <2> SUFFICES ASSUME NEW i \in 1..Len(transcript) + 1,
                        transcript'[i] = Assistant(transcript'[i][1]),
                        transcript'[i][1] \notin disturbed
                 PROVE  i > 1 /\ transcript'[i - 1] = User(transcript'[i][1])
      BY <1>1, <1>2 DEF AnswerFollowsQuestion, User, Assistant
    <2>1. CASE i = Len(transcript) + 1
      <3>1. transcript'[i][1] = t
        BY <1>2, <2>1, MessageParts
      <3>2. transcript # <<>> /\ transcript[Len(transcript)] = User(t)
        BY <1>6, <3>1
      <3>3. Len(transcript) \in 1..Len(transcript)
        BY <1>1, <1>2, <3>2
      <3> QED
        BY <1>2, <2>1, <3>1, <3>2, <3>3
    <2>2. CASE i \in 1..Len(transcript)
      <3>1. i > 1 /\ transcript[i - 1] = User(transcript[i][1])
        BY <1>2, <2>2 DEF AnswerInv, AnswerFollowsQuestion
      <3>2. i - 1 \in 1..Len(transcript)
        BY <1>2, <2>2, <3>1
      <3> QED
        BY <1>2, <2>2, <3>1, <3>2
    <2> QED
      BY <1>2, <2>1, <2>2
  <1> QED
    BY <1>5, <1>7

LEMMA AnswerStepKeeps ==
    ASSUME SessionInv, AnswerInv, [Next]_vars
    PROVE  AnswerInv'
  <1>1. OneTurn'
    BY NextIsTurnMove, OneTurnKept DEF SessionInv, AnswerInv
  <1>2. CASE UNCHANGED <<transcript, disturbed>> /\ \A t \in Turns : Active(t)' => Active(t)
    BY <1>1, <1>2 DEF AnswerInv, LastIsQuestion, AnswerFollowsQuestion
  <1>3. CASE ResetTranscript /\ UNCHANGED turn
    <2>1. LastIsQuestion'
      BY <1>3 DEF ResetTranscript, LastIsQuestion, Active
    <2>2. AnswerFollowsQuestion'
      BY <1>3 DEF ResetTranscript, AnswerFollowsQuestion
    <2> QED
      BY <1>1, <2>1, <2>2 DEF AnswerInv
  <1>4. ASSUME NEW t \in Turns, Send(t) \/ Answer(t) PROVE AnswerInv'
    BY <1>1, <1>4, SendAnswers, AnswerAnswers DEF SessionInv, AnswerInv
  <1> QED
    BY <1>2, <1>3, <1>4, NextIsTranscriptMove DEF SessionInv, TranscriptMove

\* The agent's transcript shows an answer right behind its question unless
\* it was emptied while the turn ran: isGenerating lets one turn run at a
\* time.
THEOREM AnswersFollow == Spec => []AnswerFollowsQuestion
  <1>1. Init => AnswerInv
    BY DEF Init, AnswerInv, OneTurn, Active, LastIsQuestion, AnswerFollowsQuestion
  <1>2. SessionInv /\ AnswerInv /\ [Next]_vars => AnswerInv'
    BY AnswerStepKeeps
  <1>3. AnswerInv => AnswerFollowsQuestion
    BY DEF AnswerInv
  <1> QED
    BY <1>1, <1>2, <1>3, SessionIsTyped, PTL DEF Spec
=============================================================================
