---------------------------- MODULE ChunkScanProofs ----------------------------
(***************************************************************************)
(* For slices of any length, stops anywhere, and every backend: a ladder of *)
(* rungs computes what the plain byte loop does.  The reasons are that no   *)
(* rung passes over a stop, and that the last rung of every ladder goes     *)
(* byte by byte and decides.                                                *)
(***************************************************************************)
EXTENDS ChunkScan, BasicLemmas

-------------------------------------------------------------------------------
(***************************************************************************)
(* The ladders.                                                             *)
(***************************************************************************)
Rungs(kinds) == [width : Nat \ {0}, kind : kinds]

\* Rungs of these kinds, the last of them one byte wide and deciding.
Sound(ladder, kinds, last) ==
  /\ ladder \in Seq(Rungs(kinds))
  /\ ladder # <<>>
  /\ ladder[Len(ladder)] = Rung(1, last)

PositionKinds == {"exact", "coarse", "istri"}

LEMMA Prefixed ==
  ASSUME NEW kinds, NEW last, NEW top \in Seq(Rungs(kinds)),
         NEW ladder, Sound(ladder, kinds, last)
  PROVE  Sound(top \o ladder, kinds, last)
<1>1. /\ ladder \in Seq(Rungs(kinds)) /\ Len(ladder) \in Nat \ {0}
      /\ ladder[Len(ladder)] = Rung(1, last)
  BY DEF Sound
<1>2. /\ top \o ladder \in Seq(Rungs(kinds))
      /\ Len(top \o ladder) = Len(top) + Len(ladder)
      /\ Len(top) \in Nat
  BY <1>1
<1>3. (top \o ladder)[Len(top) + Len(ladder)] = ladder[Len(ladder)]
  BY <1>1, <1>2
<1>4. top \o ladder # <<>>
  BY <1>1, <1>2
<1> QED
  BY <1>1, <1>2, <1>3, <1>4 DEF Sound

LEMMA FinishScalarSound == Sound(FinishScalar, PositionKinds, "exact")
BY DEF Sound, FinishScalar, Rungs, Rung, Exact, PositionKinds

LEMMA SkipEqualSound ==
  \A backend \in Backends : Sound(SkipEqualLadder[backend], PositionKinds, "exact")
<1>1. /\ <<Exact(16)>> \in Seq(Rungs(PositionKinds))
      /\ <<Rung(16, "istri")>> \in Seq(Rungs(PositionKinds))
      /\ <<Exact(32), Exact(16)>> \in Seq(Rungs(PositionKinds))
      /\ <<Exact(64), Exact(32), Exact(16)>> \in Seq(Rungs(PositionKinds))
  BY DEF Rungs, Rung, Exact, PositionKinds
<1>2. /\ Sound(Finished(<<Exact(16)>>), PositionKinds, "exact")
      /\ Sound(Finished(<<Rung(16, "istri")>>), PositionKinds, "exact")
      /\ Sound(Finished(<<Exact(32), Exact(16)>>), PositionKinds, "exact")
      /\ Sound(Finished(<<Exact(64), Exact(32), Exact(16)>>), PositionKinds, "exact")
  BY <1>1, Prefixed, FinishScalarSound DEF Finished
<1> QED
  <2> SUFFICES ASSUME NEW backend \in Backends
               PROVE  Sound(SkipEqualLadder[backend], PositionKinds, "exact")
    OBVIOUS
  <2>1. SkipEqualLadder[backend] \in
          {Finished(<<Exact(16)>>), Finished(<<Rung(16, "istri")>>),
           Finished(<<Exact(32), Exact(16)>>),
           Finished(<<Exact(64), Exact(32), Exact(16)>>), FinishScalar}
    BY DEF SkipEqualLadder, Backends
  <2> QED
    BY <1>2, <2>1, FinishScalarSound

LEMMA DigitSound ==
  \A backend \in DOMAIN DigitLadder : Sound(DigitLadder[backend], PositionKinds, "exact")
<1>1. /\ Sound(<<Exact(1)>>, PositionKinds, "exact")
      /\ Sound(<<Exact(16), Exact(1)>>, PositionKinds, "exact")
      /\ Sound(<<Exact(32), Exact(16), Exact(1)>>, PositionKinds, "exact")
      /\ Sound(<<Exact(64), Exact(32), Exact(16), Exact(1)>>, PositionKinds, "exact")
  BY DEF Sound, Rungs, Rung, Exact, PositionKinds
<1> QED
  BY <1>1 DEF DigitLadder

LEMMA AsciiSound ==
  \A backend \in DOMAIN AsciiLadder : Sound(AsciiLadder[backend], {"verdict"}, "verdict")
<1>1. /\ Sound(<<Verdict(1)>>, {"verdict"}, "verdict")
      /\ Sound(<<Verdict(16), Verdict(1)>>, {"verdict"}, "verdict")
      /\ Sound(<<Verdict(32), Verdict(16), Verdict(1)>>, {"verdict"}, "verdict")
      /\ Sound(<<Verdict(64), Verdict(32), Verdict(16), Verdict(1)>>, {"verdict"}, "verdict")
  BY DEF Sound, Rungs, Rung, Verdict
<1> QED
  BY <1>1 DEF AsciiLadder

LEMMA WordSound ==
  \A backend \in DOMAIN WordLadder : Sound(WordLadder[backend], PositionKinds, "exact")
<1>1. Sound(<<Exact(16), Exact(8), Exact(1)>>, PositionKinds, "exact")
  BY DEF Sound, Rungs, Rung, Exact, PositionKinds
<1> QED
  BY <1>1 DEF WordLadder

Kinds(c) == IF c.fn = "is_ascii" THEN {"verdict"} ELSE PositionKinds

Deciding(c) == IF c.fn = "is_ascii" THEN "verdict" ELSE "exact"

LEMMA LadderSound == \A c \in Calls : Sound(Ladder(c), Kinds(c), Deciding(c))
<1> SUFFICES ASSUME NEW c \in Calls PROVE Sound(Ladder(c), Kinds(c), Deciding(c))
  OBVIOUS
<1> DEFINE via == IF ShortInput(c) THEN "scalar" ELSE c.backend
<1>1. c.fn \in Functions /\ c.backend \in DOMAIN LadderOf[c.fn] /\ c.backend \in Backends
  BY DEF Calls
<1>2. Ladder(c) = LadderOf[c.fn][via]
  BY DEF Ladder
<1>3. CASE c.fn = "skip_equal"
  <2>1. LadderOf[c.fn] = SkipEqualLadder /\ via \in Backends
    BY <1>1, <1>3 DEF LadderOf, Backends
  <2> HIDE DEF via
  <2> QED
    BY <1>2, <1>3, <2>1, SkipEqualSound DEF Kinds, Deciding
<1>4. CASE c.fn = "skip_while_digit"
  <2>1. LadderOf[c.fn] = DigitLadder /\ via \in DOMAIN DigitLadder
    BY <1>1, <1>4 DEF LadderOf, DigitLadder
  <2> HIDE DEF via
  <2> QED
    BY <1>2, <1>4, <2>1, DigitSound DEF Kinds, Deciding
<1>5. CASE c.fn = "is_ascii"
  <2>1. LadderOf[c.fn] = AsciiLadder /\ via \in DOMAIN AsciiLadder
    BY <1>1, <1>5 DEF LadderOf, AsciiLadder
  <2> HIDE DEF via
  <2> QED
    BY <1>2, <1>5, <2>1, AsciiSound DEF Kinds, Deciding
<1>6. CASE c.fn = "compare_words"
  <2>1. LadderOf[c.fn] = WordLadder /\ via \in DOMAIN WordLadder
    BY <1>1, <1>6 DEF LadderOf, WordLadder
  <2> HIDE DEF via
  <2> QED
    BY <1>2, <1>6, <2>1, WordSound DEF Kinds, Deciding
<1> QED
  BY <1>1, <1>3, <1>4, <1>5, <1>6 DEF Functions

-------------------------------------------------------------------------------
(***************************************************************************)
(* The inductive invariant: what has been passed holds no stop, and a scan  *)
(* that has returned is at the end or at a stop.                            *)
(***************************************************************************)
Landed ==
  returned /\ NulSafe(call) /\ call.fn # "is_ascii" => k = call.n \/ k \in call.stops

Refused ==
  returned /\ call.fn = "is_ascii" /\ k # call.n =>
    call.stops \intersect (0 .. call.n - 1) # {}

IInv == TypeOK /\ NothingPassed /\ Landed /\ Refused

\* What a step may rely on: the rung it is on and the chunk before it.
LEMMA Positioned ==
  ASSUME TypeOK
  PROVE  /\ call.n \in Nat /\ call.start \in Nat /\ call.stops \in SUBSET Nat
         /\ k \in Nat /\ call.start <= k /\ k <= call.n
         /\ Width \in Nat \ {0} /\ Kind \in Kinds(call)
         /\ Len(Ladder(call)) \in Nat \ {0}
         /\ rung = Len(Ladder(call)) => Width = 1 /\ Kind = Deciding(call)
         /\ NulSafe(call) => ChunkStops = call.stops \intersect Chunk
<1>1. call \in Calls /\ k \in call.start .. call.n /\ rung \in 1 .. Len(Ladder(call))
  BY DEF TypeOK
<1>2. call.n \in Nat /\ call.start \in Nat /\ call.stops \in SUBSET Nat
  BY <1>1 DEF Calls
<1>3. Sound(Ladder(call), Kinds(call), Deciding(call))
  BY <1>1, LadderSound
<1>4. /\ Ladder(call)[rung] \in Rungs(Kinds(call)) /\ Len(Ladder(call)) \in Nat \ {0}
      /\ Ladder(call)[Len(Ladder(call))] = Rung(1, Deciding(call))
  BY <1>1, <1>3 DEF Sound
<1>5. Width \in Nat \ {0} /\ Kind \in Kinds(call)
  BY <1>4 DEF Width, Kind, Rungs
<1>6. rung = Len(Ladder(call)) => Width = 1 /\ Kind = Deciding(call)
  BY <1>4 DEF Width, Kind, Rung
<1>7. ASSUME NulSafe(call) PROVE ChunkStops = call.stops \intersect Chunk
  <2>1. call.nuls = {} \/ Kind # "istri"
    BY <1>1, <1>7 DEF NulSafe, Kind
  <2> QED
    BY <2>1 DEF ChunkStops, Seen
<1> QED
  BY <1>1, <1>2, <1>4, <1>5, <1>6, <1>7

\* The first stop of a chunk that has one.
LEMMA FirstOfChunk ==
  ASSUME TypeOK, ChunkStops # {}
  PROVE  /\ FirstInChunk \in ChunkStops
         /\ FirstInChunk \in Nat /\ k <= FirstInChunk /\ FirstInChunk < k + Width
         /\ \A p \in ChunkStops : FirstInChunk <= p
<1>1. k \in Nat /\ Width \in Nat \ {0}
  BY Positioned
<1>2. ChunkStops \in SUBSET Nat /\ ChunkStops \subseteq Chunk
  BY <1>1 DEF ChunkStops, Chunk
<1>3. FirstInChunk \in ChunkStops /\ \A p \in ChunkStops : FirstInChunk <= p
  BY <1>2, LeastOf DEF FirstInChunk
<1> QED
  BY <1>1, <1>2, <1>3 DEF Chunk

LEMMA InitInv == Init => IInv
<1> SUFFICES ASSUME Init PROVE IInv
  OBVIOUS
<1>1. PICK e \in Entries, n \in Lengths, nuls \in NulSets :
        \E start \in IF e[1] = "skip_while_digit" THEN Starts \intersect (0 .. n) ELSE {0},
           stops \in StopSets(n) :
          /\ stops \intersect nuls = {}
          /\ call = [fn |-> e[1], backend |-> e[2], n |-> n, start |-> start,
                     stops |-> stops, nuls |-> nuls]
  BY DEF Init
<1>2. PICK start \in IF e[1] = "skip_while_digit" THEN Starts \intersect (0 .. n) ELSE {0},
           stops \in StopSets(n) :
          /\ stops \intersect nuls = {}
          /\ call = [fn |-> e[1], backend |-> e[2], n |-> n, start |-> start,
                     stops |-> stops, nuls |-> nuls]
  BY <1>1
<1>3. /\ e \in Functions \X Backends /\ e[2] \in DOMAIN LadderOf[e[1]]
      /\ n \in Nat /\ stops \in SUBSET Nat /\ nuls \in SUBSET Nat
  BY ParametersAssumption
<1>4. start \in Nat /\ start <= n /\ (e[1] = "is_ascii" => start = 0)
  BY <1>3, ParametersAssumption
<1>5. call \in Calls
  BY <1>2, <1>3, <1>4 DEF Calls
<1>6. k = call.start /\ rung = 1 /\ returned = FALSE
  BY DEF Init
<1>7. Len(Ladder(call)) \in Nat \ {0}
  BY <1>5, LadderSound DEF Sound
<1>8. call.start \in Nat /\ call.n \in Nat /\ call.start <= call.n /\ call.stops \in SUBSET Nat
  BY <1>5 DEF Calls
<1>9. TypeOK
  <2>1. k \in call.start .. call.n
    BY <1>6, <1>8
  <2>2. rung \in 1 .. Len(Ladder(call))
    BY <1>6, <1>7
  <2> QED
    BY <1>5, <1>6, <2>1, <2>2 DEF TypeOK
<1>10. NothingPassed
  BY <1>6, <1>8 DEF NothingPassed
<1> QED
  BY <1>6, <1>9, <1>10 DEF IInv, Landed, Refused

LEMMA Inductive == IInv /\ [Next]_vars => IInv'
<1> SUFFICES ASSUME IInv, [Next]_vars PROVE IInv'
  OBVIOUS
<1>1. TypeOK /\ NothingPassed /\ Landed /\ Refused
  BY DEF IInv
<1> DEFINE n == call.n
<1>2. /\ n \in Nat /\ call.start \in Nat /\ call.stops \in SUBSET Nat
      /\ k \in Nat /\ call.start <= k /\ k <= n
      /\ Width \in Nat \ {0} /\ Kind \in Kinds(call)
      /\ Len(Ladder(call)) \in Nat \ {0}
      /\ rung = Len(Ladder(call)) => Width = 1 /\ Kind = Deciding(call)
      /\ NulSafe(call) => ChunkStops = call.stops \intersect Chunk
  BY <1>1, Positioned
<1>3. call \in Calls /\ rung \in 1 .. Len(Ladder(call)) /\ returned \in BOOLEAN
  BY <1>1 DEF TypeOK
<1>4. CASE NextChunk
  <2>1. k' = k + Width /\ k + Width <= n /\ ChunkStops = {} /\ ~ returned
        /\ call' = call /\ rung' = rung /\ returned' = returned
    BY <1>4 DEF NextChunk, Fits
  <2>2. TypeOK'
    BY <1>2, <1>3, <2>1 DEF TypeOK
  <2>3. NothingPassed'
    <3> SUFFICES ASSUME NulSafe(call), NEW p \in call.stops PROVE p < call.start \/ p >= k + Width
      BY <2>1 DEF NothingPassed
    <3>1. p \notin Chunk
      BY <1>2, <2>1
    <3> QED
      BY <1>1, <1>2, <3>1 DEF NothingPassed, Chunk
  <2> QED
    BY <2>1, <2>2, <2>3 DEF IInv, Landed, Refused
<1>5. CASE FallThrough \/ Break
  <2>1. /\ rung' = rung + 1 /\ call' = call /\ k' = k /\ returned' = returned
        /\ rung < Len(Ladder(call)) \/ Kind = "coarse"
    BY <1>5 DEF FallThrough, Break, NextRung
  <2>2. rung < Len(Ladder(call))
    BY <1>2, <1>3, <2>1 DEF Deciding
  <2>3. TypeOK'
    BY <1>2, <1>3, <2>1, <2>2 DEF TypeOK
  <2> QED
    BY <1>1, <2>1, <2>3 DEF IInv, NothingPassed, Landed, Refused
<1>6. CASE ReturnStop
  <2>1. /\ k' = FirstInChunk /\ returned' = TRUE /\ call' = call /\ rung' = rung
        /\ ChunkStops # {} /\ k + Width <= n /\ Kind \in {"exact", "istri"}
    BY <1>6 DEF ReturnStop, Return, Fits
  <2>2. /\ FirstInChunk \in ChunkStops
        /\ FirstInChunk \in Nat /\ k <= FirstInChunk /\ FirstInChunk < k + Width
        /\ \A p \in ChunkStops : FirstInChunk <= p
    BY <1>1, <2>1, FirstOfChunk
  <2>3. FirstInChunk \in call.stops
    BY <2>2 DEF ChunkStops
  <2>4. TypeOK'
    BY <1>2, <1>3, <2>1, <2>2 DEF TypeOK
  <2>5. NothingPassed'
    <3> SUFFICES ASSUME NulSafe(call), NEW p \in call.stops
                 PROVE  p < call.start \/ p >= FirstInChunk
      BY <2>1 DEF NothingPassed
    <3>1. p < call.start \/ p >= k
      BY <1>1 DEF NothingPassed
    <3>2. p \in Chunk => p \in ChunkStops
      BY <1>2
    <3>3. p \in Nat
      BY <1>2
    <3> QED
      BY <1>2, <2>2, <3>1, <3>2, <3>3 DEF Chunk
  <2>6. call.fn # "is_ascii"
    BY <1>2, <2>1 DEF Kinds
  <2> QED
    BY <2>1, <2>3, <2>4, <2>5, <2>6 DEF IInv, Landed, Refused
<1>7. CASE ReturnVerdict
  <2>1. /\ k' = k /\ returned' = TRUE /\ call' = call /\ rung' = rung
        /\ ChunkStops # {} /\ k + Width <= n /\ Kind = "verdict"
    BY <1>7 DEF ReturnVerdict, Return, Fits
  <2>2. call.fn = "is_ascii"
    BY <1>2, <2>1 DEF Kinds, PositionKinds
  <2>3. FirstInChunk \in call.stops \intersect (0 .. n - 1)
    <3>1. FirstInChunk \in ChunkStops /\ FirstInChunk \in Nat /\ FirstInChunk < k + Width
      BY <1>1, <2>1, FirstOfChunk
    <3> QED
      BY <1>2, <2>1, <3>1 DEF ChunkStops
  <2> QED
    BY <1>1, <2>1, <2>2, <2>3 DEF IInv, TypeOK, NothingPassed, Landed, Refused
<1>8. CASE ReturnEnd
  <2>1. /\ k' = k /\ returned' = TRUE /\ call' = call /\ rung' = rung
        /\ ~ (k + Width <= n) /\ rung = Len(Ladder(call))
    BY <1>8 DEF ReturnEnd, Return, Fits
  <2>2. k = n
    BY <1>2, <2>1
  <2> QED
    BY <1>1, <2>1, <2>2 DEF IInv, TypeOK, NothingPassed, Landed, Refused
<1>9. CASE UNCHANGED vars
  BY <1>1, <1>9 DEF vars, IInv, TypeOK, NothingPassed, Landed, Refused
<1> QED
  BY <1>4, <1>5, <1>6, <1>7, <1>8, <1>9 DEF Next, Step, Idle

-------------------------------------------------------------------------------
(***************************************************************************)
(* The theorems.                                                            *)
(***************************************************************************)

\* The strengthened invariant holds of every call, for slices of any length.
THEOREM Invariance == Spec => []IInv
<1> QED
  BY InitInv, Inductive, PTL DEF Spec

\* No backend's loads reach past the slices, and its result lies within them.
THEOREM TypeCorrect == Spec => []TypeOK
<1>1. IInv => TypeOK
  BY DEF IInv
<1> QED
  BY <1>1, Invariance, PTL

\* The scan is ahead of no stop it has not reported.
THEOREM PassesNothing == Spec => []NothingPassed
<1>1. IInv => NothingPassed
  BY DEF IInv
<1> QED
  BY <1>1, Invariance, PTL

\* Every backend computes what the plain byte loop computes: the comparison is the
\* same on all processors (SSE4.2 on strings that share no NUL).
THEOREM BackendsAgree == Spec => []FindsFirstStop
<1>1. IInv => FindsFirstStop
  <2> SUFFICES ASSUME IInv, returned, NulSafe(call), call.fn # "is_ascii"
               PROVE  k = FirstStop(call.start, call.n, call.stops)
    BY DEF FindsFirstStop
  <2>1. /\ call.n \in Nat /\ call.start \in Nat
        /\ k \in Nat /\ call.start <= k /\ k <= call.n
    BY Positioned DEF IInv
  <2>2. k = call.n \/ k \in call.stops
    BY DEF IInv, Landed
  <2>3. \A p \in call.start .. call.n : p < k => p \notin call.stops
    BY <2>1 DEF IInv, NothingPassed
  <2>4. call.start <= call.n /\ k \in call.start .. call.n
    BY <2>1
  <2> QED
    BY <2>1, <2>2, <2>3, <2>4, FirstStopUnique
<1> QED
  BY <1>1, Invariance, PTL

\* simd_is_ascii says yes exactly of slices without a byte above 127.
THEOREM AsciiDecided == Spec => []AsciiVerdict
<1>1. IInv => AsciiVerdict
  <2> SUFFICES ASSUME IInv, returned, call.fn = "is_ascii"
               PROVE  k = call.n <=> call.stops \intersect (0 .. call.n - 1) = {}
    BY DEF AsciiVerdict
  <2>1. call \in Calls /\ call.start = 0 /\ call.n \in Nat /\ call.stops \in SUBSET Nat
    BY DEF IInv, TypeOK, Calls
  <2>2. NulSafe(call)
    <3>1. Sound(Ladder(call), {"verdict"}, "verdict")
      BY <2>1, LadderSound DEF Kinds, Deciding
    <3>2. \A r \in 1 .. Len(Ladder(call)) : Ladder(call)[r] \in Rungs({"verdict"})
      BY <3>1 DEF Sound
    <3> QED
      BY <3>2 DEF NulSafe, Rungs
  <2>3. k = call.n => call.stops \intersect (0 .. call.n - 1) = {}
    BY <2>1, <2>2 DEF IInv, NothingPassed
  <2> QED
    BY <2>3 DEF IInv, Refused
<1> QED
  BY <1>1, Invariance, PTL
==============================================================================
