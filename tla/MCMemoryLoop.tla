--------------------------- MODULE MCMemoryLoop ---------------------------
(***************************************************************************)
(* A small instance of MemoryLoop.  p, x and y are the chunks of one       *)
(* message; p is an instruction, which policy pins.  r is a representative *)
(* that names x as a raw memory and p only in its lineage; a tag is on x   *)
(* and on r.                                                               *)
(* The prompt has 42 tokens, 24 of them for memories: three memories, or r *)
(* and one more, do not fit, nor does the whole message.                   *)
(***************************************************************************)
EXTENDS MemoryLoop

CONSTANTS p, x, y, r, j

MCMemories == {p, x, y}
MCCues     == [m \in MCMemories |-> IF m = p THEN {"instruction"} ELSE IF m = x THEN {"poor"} ELSE {}]
MCSource   == [m \in MCMemories |-> "chat"]
MCChars    == [m \in MCMemories |-> IF m = y THEN 44 ELSE 24]
MCJobs     == {j}
MCContents == [i \in MCJobs |-> MCMemories]
MCStored   == {[id |-> r, chars |-> 60, direct |-> {x}, lineage |-> {x, p}, broad |-> TRUE,
                class |-> "LOW_RISK_REPRESENTATIVE", risk |-> 40, strength |-> 0, must |-> FALSE,
                trust |-> 60, score |-> 0]}
MCEarlier  == {[included |-> {r}, raws |-> {x}]}
MCTagged   == {{p}, {x, r}}
MCScores   == {300, 960}
MCMessages == {100}
MCRecents  == {<<40, 30>>}
=============================================================================
