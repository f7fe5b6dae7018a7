------------------------------ MODULE NatCompare ------------------------------
(***************************************************************************)
(* The case-sensitive comparison: compare_impl of src/src/compare/mod.rs    *)
(* with the CompareCtx of compare/common.rs and the digit runs of           *)
(* byte_utils/digit_run.rs.  One call compares a and b; each action is one  *)
(* way through the body of its loop.  A string is a sequence of byte        *)
(* values, and the pointers pa and pb are offsets into a and b.             *)
(*                                                                          *)
(* simd_skip_equal and simd_skip_while_digit are their contract, FirstStop; *)
(* ChunkScan shows which backends keep it.                                  *)
(***************************************************************************)
EXTENDS Scanning, Orderings

CONSTANTS
  Strings,    \* the strings that may be compared
  ShortRun    \* remainders below this take the short paths: 16 in the code

ASSUME ShortRunAssumption == ShortRun \in Nat

Byte == 0 .. 255

ASSUME StringsAssumption == Strings \subseteq Seq(Byte)

VARIABLES
  a, b,       \* the arguments
  pa, pb,     \* CompareCtx: how much of each is consumed
  pc,         \* "new", "loop", "done"
  res         \* the Ordering returned

vars == <<a, b, pa, pb, pc, res>>

(***************************************************************************)
(* Bytes.                                                                   *)
(***************************************************************************)
Zero == 48

IsDigit(c) == c \in 48 .. 57

\* Vertical tab (11) is not among them.
IsWs(c) == c \in {9, 10, 12, 13, 32}

DigitAt(s, k) == k < Len(s) /\ IsDigit(At(s, k))

\* The end of the run of digits (of white space) of s that starts at p.
DigitEnd(s, p) ==
  FirstStop(p, Len(s), {k \in 0 .. Len(s) - 1 : ~ IsDigit(At(s, k))})

\* Only blanks are skipped, although IsWs admits more.
WsEndBlanks(s, p) ==
  FirstStop(p, Len(s), {k \in 0 .. Len(s) - 1 : At(s, k) # 32})

\* A do-while: one byte is skipped before the first is looked at.
WsEndEager(s, p) ==
  FirstStop(Smaller(p + 1, Len(s)), Len(s), {k \in 0 .. Len(s) - 1 : ~ IsWs(At(s, k))})

WsEnd(s, p) ==
  FirstStop(p, Len(s), {k \in 0 .. Len(s) - 1 : ~ IsWs(At(s, k))})

\* How many bytes of s from p and of t from q are equal, n at most.
EqualBytes(s, p, t, q, n) ==
  FirstStop(0, n, {k \in 0 .. n - 1 : At(s, p + k) # At(t, q + k)})

SkipEqual(s, t) == EqualBytes(s, 0, t, 0, Smaller(Len(s), Len(t)))

(***************************************************************************)
(* Two digit runs.  An outcome is the Ordering that settles the comparison, *)
(* or "Undecided" and the length `by` of the two equal runs.                *)
(***************************************************************************)
\* The pointer left on the byte after the one that ended the run.
OutcomePast(order, by) == [order |-> order, by |-> by + 1]

Outcome(order, by) == [order |-> order, by |-> by]

CompareWords(s, p, t, q, n) ==
  LET k == EqualBytes(s, p, t, q, n)
  IN  IF k = n THEN "Undecided" ELSE Cmp(At(s, p + k), At(t, q + k))

\* The two runs walked in step up to `stops`; a run that goes on is Greater.
WalkEnd(s, p, t, q, stops) ==
  FirstStop(0, Smaller(Len(s) - p, Len(t) - q), stops)

BothDigitAt(s, p, t, q, k) == DigitAt(s, p + k) /\ DigitAt(t, q + k)

LeftShort(s, p, t, q) ==
  LET k == WalkEnd(s, p, t, q,
             {i \in 0 .. Len(s) : ~ BothDigitAt(s, p, t, q, i)
                                    \/ At(s, p + i) # At(t, q + i)})
      da == DigitAt(s, p + k)
      db == DigitAt(t, q + k)
  IN  Outcome(CASE da /\ db -> Cmp(At(s, p + k), At(t, q + k))
                [] da /\ ~db -> "Greater"
                [] ~da /\ db -> "Less"
                [] ~da /\ ~db -> "Undecided", k)

RightShort(s, p, t, q) ==
  LET k == WalkEnd(s, p, t, q, {i \in 0 .. Len(s) : ~ BothDigitAt(s, p, t, q, i)})
      da == DigitAt(s, p + k)
      db == DigitAt(t, q + k)
  IN  Outcome(CASE da /\ ~db -> "Greater"
                [] ~da /\ db -> "Less"
                [] ~da /\ ~db -> CompareWords(s, p, t, q, k), k)

\* The lengths are compared before the digits.
LeftLongByLength(s, p, t, q) ==
  LET ka == DigitEnd(s, p) - p
      kb == DigitEnd(t, q) - q
  IN  Outcome(IF ka # kb THEN Cmp(ka, kb) ELSE CompareWords(s, p, t, q, ka), ka)

\* The long paths scan both runs to their ends first.
LeftLong(s, p, t, q) ==
  LET ka == DigitEnd(s, p) - p
      kb == DigitEnd(t, q) - q
      head == CompareWords(s, p, t, q, Smaller(ka, kb))
  IN  Outcome(CASE head # "Undecided" -> head
                [] head = "Undecided" /\ ka # kb -> Cmp(ka, kb)
                [] head = "Undecided" /\ ka = kb -> "Undecided", ka)

RightLong(s, p, t, q) ==
  LET ka == DigitEnd(s, p) - p
      kb == DigitEnd(t, q) - q
  IN  Outcome(IF ka # kb THEN Cmp(ka, kb) ELSE CompareWords(s, p, t, q, ka), ka)

Short(s, p, t, q) == Len(s) - p < ShortRun /\ Len(t) - q < ShortRun

LeftAligned(s, p, t, q) ==
  IF Short(s, p, t, q) THEN LeftShort(s, p, t, q) ELSE LeftLong(s, p, t, q)

\* The length of the runs forgotten: 9 comes after 10.
RightAlignedByDigits(s, p, t, q) ==
  IF Short(s, p, t, q) THEN LeftShort(s, p, t, q) ELSE LeftLong(s, p, t, q)

RightAligned(s, p, t, q) ==
  IF Short(s, p, t, q) THEN RightShort(s, p, t, q) ELSE RightLong(s, p, t, q)

\* A zero with no digit before it.
LeadingZero(s, p) ==
  At(s, p) = Zero /\ (p = 0 \/ ~ IsDigit(At(s, p - 1)))

HandleDigits(s, p, t, q) ==
  IF LeadingZero(s, p) \/ LeadingZero(t, q)
  THEN LeftAligned(s, p, t, q)
  ELSE RightAligned(s, p, t, q)

(***************************************************************************)
(* CompareCtx::new.                                                         *)
(***************************************************************************)

\* The common prefix ends inside a run of digits on both sides.
MidRun(s, t, k) ==
  /\ k > 0 /\ k < Smaller(Len(s), Len(t))
  /\ IsDigit(At(s, k)) /\ IsDigit(At(t, k))
  /\ IsDigit(At(s, k - 1)) /\ IsDigit(At(t, k - 1))

Start(s, t) ==
  LET adv == SkipEqual(s, t) IN IF MidRun(s, t, adv) THEN adv - 1 ELSE adv

Init ==
  /\ a \in Strings /\ b \in Strings
  /\ pa = 0 /\ pb = 0
  /\ pc = "new"
  /\ res = "Undecided"

Settle(order) ==
  /\ res' = order
  /\ pc' = "done"
  /\ UNCHANGED <<a, b, pa, pb>>

Consume(x, y) ==
  /\ pa' = x /\ pb' = y
  /\ pc' = "loop"
  /\ UNCHANGED <<a, b, res>>

\* Both arguments are one slice (which equal strings may or may not be).
SamePointer ==
  /\ pc = "new"
  /\ a = b
  /\ Settle("Equal")

New ==
  /\ pc = "new"
  /\ Consume(Start(a, b), Start(a, b))

(***************************************************************************)
(* The loop.                                                                *)
(***************************************************************************)
AtEnd == pa >= Len(a) \/ pb >= Len(b)

InLoop == pc = "loop" /\ ~ AtEnd

ca == At(a, pa)
cb == At(b, pb)

\* try_current: one side is exhausted, the longer remainder is Greater.
End ==
  /\ pc = "loop"
  /\ AtEnd
  /\ Settle(Cmp(Len(a) - pa, Len(b) - pb))

BothDigits == IsDigit(ca) /\ IsDigit(cb)

DigitsSettle ==
  /\ InLoop
  /\ BothDigits
  /\ HandleDigits(a, pa, b, pb).order # "Undecided"
  /\ Settle(HandleDigits(a, pa, b, pb).order)

DigitsContinue ==
  /\ InLoop
  /\ BothDigits
  /\ HandleDigits(a, pa, b, pb).order = "Undecided"
  /\ LET by == HandleDigits(a, pa, b, pb).by IN Consume(pa + by, pb + by)

SkipWs ==
  /\ InLoop
  /\ ~ BothDigits
  /\ IsWs(ca) \/ IsWs(cb)
  /\ Consume(WsEnd(a, pa), WsEnd(b, pb))

Differ == InLoop /\ ~ BothDigits /\ ca # cb /\ ~ IsWs(ca) /\ ~ IsWs(cb)

\* The boundary rule for a digit on the left only, and no boundary rule.
BoundaryOneSided == IsDigit(ca) /\ ~ IsDigit(cb) /\ pa > 0 /\ IsDigit(At(a, pa - 1))

NoBoundary == FALSE

\* check_digit_boundary: the byte before pa is a digit and one side goes on.
AtBoundary == IsDigit(ca) # IsDigit(cb) /\ pa > 0 /\ IsDigit(At(a, pa - 1))

Boundary ==
  /\ Differ
  /\ AtBoundary
  /\ Settle(IF IsDigit(ca) THEN "Greater" ELSE "Less")

Mismatch ==
  /\ Differ
  /\ ~ AtBoundary
  /\ Settle(Cmp(ca, cb))

Advance ==
  /\ InLoop
  /\ ~ BothDigits
  /\ ca = cb /\ ~ IsWs(ca)
  /\ Consume(pa + 1, pb + 1)

Iterate ==
  \/ End \/ DigitsSettle \/ DigitsContinue \/ SkipWs
  \/ Boundary \/ Mismatch \/ Advance

Step == SamePointer \/ New \/ Iterate

\* The call has returned.
Idle == pc = "done" /\ UNCHANGED vars

Next == Step \/ Idle

Spec == Init /\ [][Next]_vars

(***************************************************************************)
(* Properties.                                                              *)
(***************************************************************************)

\* The range of every variable: the pointers stay within their slices.
TypeOK ==
  /\ a \in Seq(Byte) /\ b \in Seq(Byte)
  /\ pa \in 0 .. Len(a) /\ pb \in 0 .. Len(b)
  /\ pc \in {"new", "loop", "done"}
  /\ res \in Orders \union {"Undecided"}

NotWs(c) == ~ IsWs(c)

KeepByte(bytes, c) == IF IsWs(c) THEN bytes ELSE Append(bytes, c)

\* The first n bytes of s without the white space among them, for every n.
Stripped(s) ==
  LET kept[n \in 0 .. Len(s)] == IF n = 0 THEN <<>> ELSE KeepByte(kept[n - 1], s[n])
  IN  kept

Strip(s) == Stripped(s)[Len(s)]

WsFree(s) == \A k \in 1 .. Len(s) : NotWs(s[k])

\* Nothing that tells the strings apart is ever skipped: up to white space, what
\* the loop has consumed of a is what it has consumed of b, through the prefix
\* skip, the rewind, equal digit runs and the skipping of white space; and strings
\* that come out Equal have been consumed, so they differ in white space at most.
ConsumedEqual ==
  /\ pc = "loop" => Stripped(a)[pa] = Stripped(b)[pb]
  /\ res = "Equal" => Strip(a) = Strip(b)

\* Byte n of s with what came right before it: does it go on with a run of digits?
Glyph(s, n) == <<s[n], n > 1 /\ IsDigit(s[n - 1]) /\ IsDigit(s[n])>>

NextGlyphs(read, s, n) == IF IsWs(s[n]) THEN read ELSE Append(read, Glyph(s, n))

\* The first n bytes of s without the white space, which shows where it parts digits.
Glyphs(s) ==
  LET read[n \in 0 .. Len(s)] == IF n = 0 THEN <<>> ELSE NextGlyphs(read[n - 1], s, n)
  IN  read

Trimmed(s) == s # <<>> => NotWs(s[Len(s)])

\* How much white space there is, and whether there is any but between two digits and
\* at the end, makes no difference: such strings are Equal, although the prefix skip may
\* end amid white space and the pointers then go on, and look back, at different offsets.
SpacingIgnored ==
  Trimmed(a) /\ Trimmed(b) /\ Glyphs(a)[Len(a)] = Glyphs(b)[Len(b)]
    => res \in {"Undecided", "Equal"}

\* Which path compares two digit runs depends on the lengths of what follows
\* them, so both paths must tell the same: the order cannot change because a
\* suffix is appended to the strings.
PathsAgree ==
  InLoop /\ BothDigits =>
    /\ LeftShort(a, pa, b, pb).order = LeftLong(a, pa, b, pb).order
    /\ RightShort(a, pa, b, pb).order = RightLong(a, pa, b, pb).order
    /\ HandleDigits(a, pa, b, pb).order = "Undecided" =>
         DigitEnd(a, pa) - pa = HandleDigits(a, pa, b, pb).by

\* Every round of the loop that does not settle the comparison consumes a byte of
\* a or of b, so the loop ends after at most Len(a) + Len(b) rounds: whatever the
\* guards let through, the skips behind them find something to skip.
RoundConsumes ==
  InLoop =>
    /\ BothDigits /\ HandleDigits(a, pa, b, pb).order = "Undecided" =>
         HandleDigits(a, pa, b, pb).by > 0
    /\ ~ BothDigits /\ (IsWs(ca) \/ IsWs(cb)) =>
         WsEnd(a, pa) + WsEnd(b, pb) > pa + pb
==============================================================================
