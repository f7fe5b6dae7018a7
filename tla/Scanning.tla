------------------------------- MODULE Scanning -------------------------------
(***************************************************************************)
(* What a forward scan of bytes finds.  The comparison walks byte slices    *)
(* with loops of one shape, `while k < n && !stop(k) { k += 1 }`, written   *)
(* in scalar code or in SIMD (module ChunkScan); all of them promise        *)
(* FirstStop.  Positions count from 0, as the code's offsets do.            *)
(***************************************************************************)
EXTENDS Naturals, Sequences

At(s, k) == s[k + 1]

Smaller(m, n) == IF m < n THEN m ELSE n

Least(S) == CHOOSE m \in S : \A n \in S : m <= n

\* The first position of start .. end that is in `stops`, or `end`.
FirstStop(start, end, stops) ==
  Least({k \in start .. end : k = end \/ k \in stops})
==============================================================================
