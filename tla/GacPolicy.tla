----------------------------- MODULE GacPolicy -----------------------------
(***************************************************************************)
(* gacIngestion.ts as functions of a memory: what its text and source make *)
(* of it - the risk, the pin, the metadata its chunk carries to retrieval  *)
(* - and which memories a consolidation may take.                          *)
(*                                                                         *)
(* Risks, strengths and trust are in hundredths.  What the patterns find   *)
(* in a text is the set Cues of it.                                        *)
(***************************************************************************)
EXTENDS Integers, Sequences, FiniteSets, FiniteSetsExt

CONSTANTS
    Memories,  \* identities of the stored chunks; a raw memory has its chunk's id
    Cues,      \* per memory: the patterns found in its text
    Source,    \* per memory: "chat", "file", "tool" or "external"
    Chars      \* per memory: the length of its text

Weight == [named |-> 20, instruction |-> 30, legal |-> 30, architecture |-> 25, poor |-> 0 - 25]

ASSUME MemoryTexts ==
    /\ Cues \in [Memories -> SUBSET DOMAIN Weight]
    /\ Source \in [Memories -> {"chat", "file", "tool", "external"}]
    /\ Chars \in [Memories -> Nat]

AtLeast(low, n) == IF n < low THEN low ELSE n
AtMost(high, n) == IF n > high THEN high ELSE n
Unit(one, n)    == AtLeast(0, AtMost(one, n))

Risk(m) ==
    Unit(100, 20 + MapThenSumSet(LAMBDA c : Weight[c], Cues[m])
                 + (IF Source[m] = "external" THEN 20 ELSE 0))

\* Mutant: external texts are not quarantined.
PinnedFromAnywhere(m) ==
    \/ Cues[m] \cap {"instruction", "architecture", "legal", "named"} # {}
    \/ Source[m] \in {"file", "tool"}

\* A pin is made unless the text came from outside and says nothing that
\* the policy keeps exactly; files and tools are sources of truth.
PolicyPins(m) ==
    /\ Source[m] # "external"
    /\ \/ Cues[m] \cap {"instruction", "architecture", "legal", "named"} # {}
       \/ Source[m] \in {"file", "tool"}

Strength(m) ==
    CASE ~PolicyPins(m) -> 0
      [] PolicyPins(m) /\ "instruction" \in Cues[m] -> 100
      [] OTHER -> AtLeast(72, Risk(m))

Importance(m) == AtLeast(35, Risk(m))

\* The raw memory's text as it comes back from search, with the metadata that
\* ingestion put on its chunk.  direct: rawMemoryId or rawMemoryIds; lineage
\* adds lineageRawMemoryIds; broad: it names a representative; score: what the
\* search will say.
Ingested(m) ==
    [id |-> m, chars |-> Chars[m], direct |-> {m}, lineage |-> {m}, broad |-> FALSE,
     class |-> IF PolicyPins(m) THEN "PINNED_EXACT"
               ELSE IF Risk(m) >= 55 THEN "HIGH_RISK_RAW" ELSE "RECENT_SESSION",
     risk |-> Risk(m), strength |-> Strength(m), must |-> PolicyPins(m),
     trust |-> IF Source[m] = "external" THEN 20 ELSE 100, score |-> 0]

\* Mutant: only the policy's own pins are protected.
ProtectedByPolicy(raw, pinned, failed) == {m \in raw : PolicyPins(m)}

\* retentionClass pinned, an identity pin, or a failed retrieval audit.
Protected(raw, pinned, failed) == {m \in raw : PolicyPins(m)} \cup (raw \cap (pinned \cup failed))

Candidates(raw, pinned, failed) == raw \ Protected(raw, pinned, failed)

\* buildAdaptiveConsolidationJobPlan with minCandidateCount 2.
WorthConsolidating(raw, pinned, failed) == Cardinality(Candidates(raw, pinned, failed)) >= 2
=============================================================================
