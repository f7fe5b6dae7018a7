------------------------------ MODULE ChunkScan ------------------------------
(***************************************************************************)
(* The scanning loops of byte_utils: simd_skip_equal,                       *)
(* simd_skip_while_digit, simd_is_ascii and compare_word_at_a_time, in all  *)
(* their backends.  Each is a ladder of rungs.  A rung loads `width` bytes  *)
(* at a time while they fit; what a chunk that holds a stop (a difference,  *)
(* a byte that is no digit, a byte above 127) makes it do is its kind.      *)
(*                                                                          *)
(* The bytes themselves are abstracted to the positions that stop the scan, *)
(* `stops`, and those where both strings hold a NUL, `nuls`, which only the *)
(* SSE4.2 string instruction takes notice of.                               *)
(***************************************************************************)
EXTENDS Scanning

CONSTANTS
  Entries,        \* the pairs <<function, backend>> that are called
  Lengths,        \* the lengths of the slices
  Starts,         \* where skip_while_digit may start
  StopSets(_),    \* for a length, the sets of positions that stop the scan
  NulSets         \* the sets of positions where both strings hold a NUL

Functions == {"skip_equal", "skip_while_digit", "is_ascii", "compare_words"}

Backends == {"sse2", "sse41", "sse42", "avx2", "avx512", "neon", "wasm", "scalar"}

\* kind "exact" returns the position of the stop, "coarse" goes on to the next
\* rung with it, "verdict" returns at once, "istri" is PCMPISTRI.
Rung(width, kind) == [width |-> width, kind |-> kind]

Exact(width) == Rung(width, "exact")

(***************************************************************************)
(* The ladders.                                                             *)
(***************************************************************************)

\* The word loop without the byte loop after it.
FinishNoBytes == <<Rung(16, "coarse"), Exact(8)>>

\* finish_scalar: the word loops only break; the byte loop finds the position.
FinishScalar == <<Rung(16, "coarse"), Rung(8, "coarse"), Exact(1)>>

\* SIMD loops that leave the remaining bytes to finish_scalar.
Finished(rungs) == rungs \o FinishScalar

SkipEqualLadder ==
  [sse2   |-> Finished(<<Exact(16)>>),
   sse41  |-> Finished(<<Exact(16)>>),
   sse42  |-> Finished(<<Rung(16, "istri")>>),
   avx2   |-> Finished(<<Exact(32), Exact(16)>>),
   avx512 |-> Finished(<<Exact(64), Exact(32), Exact(16)>>),
   neon   |-> Finished(<<Exact(16)>>),
   wasm   |-> Finished(<<Exact(16)>>),
   scalar |-> FinishScalar]

DigitLadder ==
  [sse2   |-> <<Exact(16), Exact(1)>>,
   avx2   |-> <<Exact(32), Exact(16), Exact(1)>>,
   avx512 |-> <<Exact(64), Exact(32), Exact(16), Exact(1)>>,
   neon   |-> <<Exact(16), Exact(1)>>,
   wasm   |-> <<Exact(16), Exact(1)>>,
   scalar |-> <<Exact(1)>>]

Verdict(width) == Rung(width, "verdict")

AsciiLadder ==
  [sse2   |-> <<Verdict(16), Verdict(1)>>,
   sse41  |-> <<Verdict(16), Verdict(1)>>,
   avx2   |-> <<Verdict(32), Verdict(16), Verdict(1)>>,
   avx512 |-> <<Verdict(64), Verdict(32), Verdict(16), Verdict(1)>>,
   neon   |-> <<Verdict(16), Verdict(1)>>,
   wasm   |-> <<Verdict(16), Verdict(1)>>,
   scalar |-> <<Verdict(1)>>]

WordLadder == [scalar |-> <<Exact(16), Exact(8), Exact(1)>>]

LadderOf ==
  [skip_equal |-> SkipEqualLadder, skip_while_digit |-> DigitLadder,
   is_ascii |-> AsciiLadder, compare_words |-> WordLadder]

X86 == {"sse2", "sse41", "sse42", "avx2", "avx512"}

\* Inputs too short for a SIMD call; only x86_64 has the test in skip_equal.
ShortInput(call) ==
  CASE call.fn = "skip_equal" -> call.backend \in X86 /\ call.n < 32
    [] call.fn = "skip_while_digit" -> call.n - call.start < 16
    [] call.fn = "is_ascii" -> call.n < 16
    [] call.fn = "compare_words" -> FALSE

Ladder(call) ==
  LadderOf[call.fn][IF ShortInput(call) THEN "scalar" ELSE call.backend]

Calls ==
  {c \in [fn : Functions, backend : Backends, n : Nat, start : Nat,
          stops : SUBSET Nat, nuls : SUBSET Nat] :
     /\ c.backend \in DOMAIN LadderOf[c.fn]
     /\ c.start <= c.n
     /\ c.fn = "is_ascii" => c.start = 0
     /\ c.stops \intersect c.nuls = {}}

ASSUME ParametersAssumption ==
  /\ Entries \subseteq Functions \X Backends
  /\ \A e \in Entries : e[2] \in DOMAIN LadderOf[e[1]]
  /\ Lengths \subseteq Nat /\ Starts \subseteq Nat
  /\ \A n \in Lengths : StopSets(n) \subseteq SUBSET Nat
  /\ NulSets \subseteq SUBSET Nat

(***************************************************************************)
(* The loop.                                                                *)
(***************************************************************************)
VARIABLES
  call,     \* the arguments
  k,        \* the scan's position; in the end, the position returned
  rung,     \* the loop it is in
  returned  \* whether the call has returned

vars == <<call, k, rung, returned>>

Width == Ladder(call)[rung].width

Kind == Ladder(call)[rung].kind

\* The loop condition with k < n in place of k + width <= n.
FitsPartly == k < call.n

Fits == k + Width <= call.n

Chunk == k .. k + Width - 1

\* Past a NUL common to both operands PCMPISTRI takes the bytes to be equal:
\* they are beyond the end of both implicit-length strings.
Seen(position) ==
  Kind = "istri" => ~ \E z \in call.nuls : k <= z /\ z < position

ChunkStops == {p \in call.stops \intersect Chunk : Seen(p)}

Init ==
  /\ \E e \in Entries, n \in Lengths, nuls \in NulSets :
       \E start \in IF e[1] = "skip_while_digit" THEN Starts \intersect (0 .. n) ELSE {0},
          stops \in StopSets(n) :
         /\ stops \intersect nuls = {}
         /\ call = [fn |-> e[1], backend |-> e[2], n |-> n, start |-> start,
                    stops |-> stops, nuls |-> nuls]
  /\ k = call.start
  /\ rung = 1
  /\ returned = FALSE

\* The chunk holds no stop that the rung sees.
NextChunk ==
  /\ ~ returned /\ Fits
  /\ ChunkStops = {}
  /\ k' = k + Width
  /\ UNCHANGED <<call, rung, returned>>

NextRung ==
  /\ rung' = rung + 1
  /\ UNCHANGED <<call, k, returned>>

\* Too few bytes are left for the rung.
FallThrough ==
  /\ ~ returned /\ ~ Fits
  /\ rung < Len(Ladder(call))
  /\ NextRung

Break ==
  /\ ~ returned /\ Fits
  /\ ChunkStops # {} /\ Kind = "coarse"
  /\ NextRung

Return(position) ==
  /\ k' = position
  /\ returned' = TRUE
  /\ UNCHANGED <<call, rung>>

\* The last stop of the chunk: leading_zeros in place of trailing_zeros.
LastStop == CHOOSE p \in ChunkStops : \A q \in ChunkStops : q <= p

FirstInChunk == Least(ChunkStops)

\* (~mask).trailing_zeros(), tzcnt or the index PCMPISTRI returns.
ReturnStop ==
  /\ ~ returned /\ Fits
  /\ ChunkStops # {} /\ Kind \in {"exact", "istri"}
  /\ Return(FirstInChunk)

\* `continue` for `return false`.
VerdictIgnored ==
  /\ ~ returned /\ Fits
  /\ ChunkStops # {} /\ Kind = "verdict"
  /\ k' = k + Width
  /\ UNCHANGED <<call, rung, returned>>

ReturnVerdict ==
  /\ ~ returned /\ Fits
  /\ ChunkStops # {} /\ Kind = "verdict"
  /\ Return(k)

ReturnEnd ==
  /\ ~ returned /\ ~ Fits
  /\ rung = Len(Ladder(call))
  /\ Return(k)

Step ==
  \/ NextChunk \/ FallThrough \/ Break
  \/ ReturnStop \/ ReturnVerdict \/ ReturnEnd

Idle == returned /\ UNCHANGED vars

Next == Step \/ Idle

Spec == Init /\ [][Next]_vars

(***************************************************************************)
(* Properties.                                                              *)
(***************************************************************************)

\* The range of every variable.  No rung carries the scan, and so no load
\* reaches, past the end of the slice.
TypeOK ==
  /\ call \in Calls
  /\ k \in call.start .. call.n
  /\ rung \in 1 .. Len(Ladder(call))
  /\ returned \in BOOLEAN

\* The string instruction is not used, or meets no NUL.
NulSafe(c) == c.nuls = {} \/ \A r \in 1 .. Len(Ladder(c)) : Ladder(c)[r].kind # "istri"

\* No rung passes over a stop, whatever the alignment of the chunks to it.
NothingPassed ==
  NulSafe(call) => \A p \in call.stops : p < call.start \/ p >= k

\* The result is that of the plain byte loop, on every backend: the comparison
\* does not depend on the processor nor on which rung meets the stop.
FindsFirstStop ==
  returned /\ NulSafe(call) /\ call.fn # "is_ascii" =>
    k = FirstStop(call.start, call.n, call.stops)

\* is_ascii says yes exactly of slices without a byte above 127.
AsciiVerdict ==
  returned /\ call.fn = "is_ascii" =>
    (k = call.n <=> call.stops \intersect (0 .. call.n - 1) = {})

\* The contract of skip_equal, for SSE4.2 as for the others: the bytes before the
\* returned position are equal ("byte {i} differs but skip returned {k}" is the
\* complaint of the crate's own tests).
SkipsOnlyEqual ==
  returned /\ call.fn = "skip_equal" =>
    \A p \in call.stops : p < call.start \/ p >= k
==============================================================================
