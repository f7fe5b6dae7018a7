----------------------------- MODULE MCChunkScan -----------------------------
(***************************************************************************)
(* Every backend at its real widths.  Lengths go past every width and every *)
(* sum of rungs that share a chunk; there is no stop, one stop anywhere, or *)
(* a second one close behind it or at the end.                              *)
(***************************************************************************)
EXTENDS ChunkScan

AllEntries == {e \in Functions \X Backends : e[2] \in DOMAIN LadderOf[e[1]]}

MCLengths == 0 .. 34 \union {47, 48, 49, 64, 65, 79, 81, 96, 113, 120, 128, 137}

MCStarts == {0, 1, 3}

MCStopSets(n) ==
  {{}} \union
  UNION {{{p, q} : q \in {p, p + 1, n - 1} \intersect (0 .. n - 1)} : p \in 0 .. n - 1}

NoNuls == {{}}

\* skip_equal of the SSE4.2 backend on strings that share a NUL.
NulEntries == {<<"skip_equal", "sse42">>}

NulLengths == {32, 40}

OneNul == {{z} : z \in {0, 3, 16, 20}}
==============================================================================
