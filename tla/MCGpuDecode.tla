---------------------------- MODULE MCGpuDecode ----------------------------
EXTENDS GpuDecode

Qwen == [norm |-> TRUE, post |-> TRUE, mlp |-> TRUE, qwen |-> TRUE]
NoPost == [norm |-> TRUE, post |-> FALSE, mlp |-> TRUE, qwen |-> TRUE]
NoMlp == [norm |-> TRUE, post |-> TRUE, mlp |-> FALSE, qwen |-> TRUE]
Plain == [norm |-> FALSE, post |-> FALSE, mlp |-> TRUE, qwen |-> FALSE]
Bare == [norm |-> FALSE, post |-> FALSE, mlp |-> FALSE, qwen |-> FALSE]

Models == {<<Qwen, Qwen>>, <<NoMlp, NoPost>>, <<NoPost, NoMlp>>, <<Plain, Bare>>, <<Bare, Plain>>}

Backends(modes, there, candidates, most) ==
    [mode : modes, gpu : there, candidates : candidates, layers : Models, finalNorm : BOOLEAN,
     maxFaults : most]

\* The chat: kernels required, any of which may fail.  Without a preference
\* each command is submitted at once.  Without a GPU all falls back.
MCSetups ==
    Backends({"required"}, {TRUE}, {FALSE}, {1})
    \cup Backends({"auto"}, {TRUE}, BOOLEAN, {0})
    \cup Backends({"required", "preferred", "auto"}, {FALSE}, {FALSE}, {0})

\* WebGPU preferred, and there, but not required: ReadsAreSound does not hold.
MCPreferred == Backends({"preferred"}, {TRUE}, {FALSE}, {0})
=============================================================================
