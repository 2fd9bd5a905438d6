----------------------------- MODULE MCKvReuse -----------------------------
EXTENDS KvReuse, TLC

CONSTANTS v1, v2, t1, t2, t3

MCVersions == {v1, v2}

\* Two prompts with one hash.
MCPrompts == {<<t1, t2>>, <<t2, t1>>}

Symmetry == Permutations(MCVersions) \cup Permutations({t1, t2})
=============================================================================
