# fast-natord in TLA+

A verification development for `fast-natord`, a Rust crate that compares strings
in natural order (`file9` before `file10`) with SIMD scans chosen at run time.
It holds TLA+ modules translated from the source, TLC configurations that check
them on small instances, and proofs, checked by TLAPS, for all instances.
Paths below are relative to the repository.

Contents: 1 the system, 2 the modules, 3 the runs, 4 the proofs, 5 where the
code and its tests disagree, 6 what is abstracted, 7 the plan.

## 1. The system

### Components

| Component | Source | State | Operations |
|---|---|---|---|
| SIMD dispatch table | `src/byte_utils/dispatch.rs` | the static `DISPATCH_VALUE`, an uninitialised cell, and the atomic `DISPATCH_STATE` (UNINIT, LOCKED, DONE) | `get_dispatch`: one Acquire load, else `init_dispatch_lock`: compare-exchange, write, Release store, or spin |
| byte scans | `src/byte_utils/{basic,skip_equal,skip_while_digit,is_ascii,compare_word_at_a_time}.rs` | the position `k` of one call | first difference, end of a digit run, "all ASCII?", order of two equally long runs; each as scalar, SSE2, SSE4.1, SSE4.2, AVX2, AVX-512, NEON and simd128 code as far as it exists |
| digit runs | `src/byte_utils/digit_run.rs` | none (a function of two positions) | left-aligned (a leading zero is involved) and right-aligned comparison, a byte loop when both remainders are below 16 and a scan otherwise |
| `compare` | `src/compare/{mod,common}.rs` | `CompareCtx`: two raw pointers and the ends of the slices | prefix skip and rewind, then a loop: end, both digits, white space, digit boundary, mismatch, advance |
| `compare_iter` | `src/compare_iter.rs` | two iterators, one item read ahead of each | the same order on any items, by three callbacks |
| `compare_ignore_case` and the ASCII-only comparison | `src/compare_ignore_case/mod.rs` | a `CompareCtx` | as `compare`, letters folded, characters above 127 decoded |
| UTF-8 decoding | `src/unicode/mod.rs` | none | `decode_char`, `utf8_char_len` |
| `Normalizer` | `src/normalizer/{mod,enums}.rs` | its configuration | `normalize`, `compare`, ASCII fast paths |
| public API | `src/lib.rs` | none | wrappers |

### How they interact

`compare`, `compare_ignore_case` and the ASCII-only comparison construct a
`CompareCtx`, whose constructor calls `simd_skip_equal` on the common length.
Within the loop `handle_both_digits` calls `handle_digit_case`, which calls
`simd_skip_while_digit_both` and `compare_word_at_a_time`. On x86_64 the scans
fetch their backend from the table with `get_dispatch` unless the input is
short; that table is the only state that threads share, and the only one that
outlives a call. The normalizer calls `simd_is_ascii` and then one of the
comparisons. There is no I/O, nothing is persisted, and nothing is sent.

### What is hard about it, and what makes it correct

* **Dispatch table.** Written by whoever comes first while others read, spin or
  load stale states. Correct: it is written once, by one thread; nobody reads
  it before the write happens before the read; it fits the processor; every
  call returns; all calls return the same table.
* **Byte scans.** Ladders of loops of 64, 32, 16, 8 and 1 bytes. An error shows
  for particular lengths on particular processors. Correct: no load leaves the
  slice, no rung passes over what the scan is to find, all backends return what
  the byte loop returns.
* **Digit runs.** Two implementations each of two orders, chosen by the lengths
  of what follows the runs. Correct: both implementations agree.
* **`compare`.** Unchecked pointers; a prefix skip that may land inside a run;
  three `continue`s that rely on a callee to consume something. Correct: the
  pointers stay within the slices, the loop ends, nothing that tells two
  strings apart is skipped, the result is the natural order, and the answers of
  many calls are those of one total order, on which sorting depends.
* **`compare_iter`.** Two iterators read in step inside a run of digits, each
  with a flag that it has ended. Correct: no iterator is asked again after
  `None`, no item is lost, the answer is the order of what the streams mean and
  agrees with `compare`, and it is antisymmetric for every `cmp`.
* **`compare_ignore_case`.** The pointers go by bytes where the bytes are equal
  and by characters where they are not. Correct: `decode_char` is given the start
  of a whole character, the pointers stay within the slices, nothing panics.
* **`Normalizer`.** Three settings (form, case mode, build feature), four paths
  through `compare`, shortcuts for ASCII, a borrowed or an owned result. Correct:
  the shortcuts give what the long way gives, an unchanged text is borrowed, and
  the answer is the order of the normalized texts whichever path is taken.

`PROJECT.json` lists each of these hazards at its line, with the properties
that cover it.

## 2. The modules

| Module | Content |
|---|---|
| `OnceTable` | abstract: a value decided once, returned by every call |
| `Dispatch` | `get_dispatch` and `init_dispatch_lock` under a weak memory model; refines `OnceTable` |
| `DispatchProofs` | its proofs |
| `Scanning` | `FirstStop`, the contract of every scan |
| `Orderings` | `std::cmp::Ordering` |
| `BasicLemmas` | what `FirstStop`, `Cmp` and `Reversed` do, proved once |
| `ChunkScan` | every backend of every scan as a ladder of rungs |
| `ChunkScanProofs` | every ladder implements the byte loop |
| `NatCompare` | one call of `compare_impl`, with `CompareCtx` and the digit runs |
| `NatCompareProofs` | its proofs, and those of the two ways to compare runs |
| `NaturalOrder` | reference definition: strings cut into numbers and characters |
| `NaturalOrderProofs` | on plain strings the loop computes that reference |
| `OrderLaws` | a caller that makes four calls and compares the answers; the abstract order of strings without white space |
| `OrderLawsProofs` | a call and its mirror image; the loop computes the abstract order, which is a strict order; the laws over four calls |
| `CompareIter` | one call of `compare_iter`, over any items and callbacks |
| `IterMirror` | the call with its arguments exchanged |
| `IterLaws` | `compare` and then `compare_iter` on the same text; the meaning of a stream |
| `CompareIterProofs` | types, mirror image and meaning of `compare_iter`; its agreement with `compare` |
| `Utf8` | `decode_char` and `utf8_char_len` |
| `CompareIgnoreCase` | one call of `compare_impl_inner`, on the actions of `NatCompare` |
| `Normalizer` | a normalizer is configured and compares two texts |
| `NormalizerProofs` | the proofs of the last three modules |
| `MC*` | instances for TLC |

`NatCompare` uses the scans by their contract, `FirstStop`; `ChunkScan` shows
which backends keep that contract; `Dispatch` shows that the backend that runs
is one the processor has. `OrderLaws` extends `NatCompare` by a caller.
`CompareIgnoreCase` extends `NatCompare` and `Utf8` and replaces `Mismatch` by its
own cases, as the code shares `CompareCtx`. `Normalizer` extends that: a call of its
`compare` sets the slices and then runs the steps of the comparison it chose.
`IterLaws` composes `CompareIter` with an instance of `NaturalOrder` (and so of
`NatCompare`) on the same strings.

### Dispatch

| Model | Code (`src/byte_utils/dispatch.rs`) |
|---|---|
| `mo` | the modification order of `DISPATCH_STATE`; a message has a value and says whether an Acquire load of it synchronises with the write of the cell |
| `cell`, `WriteTable` | `DISPATCH_VALUE` and the write of it, lines 61-97 |
| `view[t]` | the newest message `t` has seen: a load returns that one or any later one |
| `sees[t]` | the write of the cell happens before what `t` does now |
| `FastLoad` | lines 110-118 |
| `CasWin`, `CasLose` | the two outcomes of the compare-exchange, lines 52-60 |
| `StoreDone` | line 98, a Release store |
| `SpinAgain`, `SpinDone` | one turn of the spin loop, lines 99-104 |
| `Return` | `assume_init_ref`; it yields `Poison` unless the thread `sees` the write |
| `Best`, `Offered`, `Detects`, `Requires` | the `if` chains, the backends that exist, the `cpufeatures` tokens, the `target_feature` attributes |

The orderings are modelled and not assumed away: with a Relaxed store in place
of the Release one, `NoRacyRead` fails. A compare-exchange that fails reads
any visible message other than UNINIT, because the code uses the strong one;
with the weak one, `SpinHasOwner` fails.

### ChunkScan

The bytes are abstracted to the set `stops` of positions at which the scan must
end (a difference, a byte that is no digit, a byte above 127) and the set `nuls`
of positions where both strings hold a NUL. A backend is a sequence of rungs
with a width and a kind: `exact` returns the position of the stop, `coarse`
leaves it to the next rung (the word loops of `finish_scalar`, which `break`),
`verdict` returns `false` at once, `istri` is `PCMPISTRI`. Widths, the order of
the loops and the short-input thresholds are the code's.

### NatCompare

| Model | Code |
|---|---|
| `a`, `b`, `pa`, `pb` | the slices and `CompareCtx.pa`, `.pb` as offsets |
| `SamePointer`, `New`, `Start` | `CompareCtx::new`: same slice, prefix skip, rewind into a digit run |
| `End` | `try_current` |
| `DigitsSettle`, `DigitsContinue` | `handle_both_digits` and `handle_digit_case`, whether they settle it or not |
| `SkipWs` | `skip_ws` |
| `Boundary`, `Mismatch` | `check_digit_boundary` and the comparison of two bytes |
| `Advance` | `advance` |

A byte is a number from 0 to 255, so that the order of letters, digits and
punctuation is that of the code. Each action is one way through the loop's body.

### CompareIter

| Model | Code (`src/compare_iter.rs`) |
|---|---|
| `left`, `right` | what the two iterators will yield |
| `nl`, `nr` | how often `next` has been called; the items held are the `nl`-th and the `nr`-th, or `None` |
| `pc` | which of the labelled loops `'nondigits`, `'digits_left`, `'digits_right` is running |
| `lastcmp` | the local of that name |
| `Start` | the two reads before the loop |
| `SkipItems` | the two `while` loops over skippable items, run to their ends |
| `End`, `ItemsDiffer`, `ItemsEqual` | the arms of the outer match |
| `EnterLeft`, `ZeroSettles`, `EnterRight` | both are digits: which loop starts, or what two different first digits with a zero settle |
| `DigitsEqual`, `DigitsDiffer`, `DigitsRight` | both runs go on |
| `RunLonger`, `RunsEnd`, `RunsSettle` | one run ends, or both do |

`Read` is the macro that calls `next` unless `left_done` or `right_done` is set: the
flag is set exactly when the item held is `None`, that is `n > Len(s)`.

### CompareIgnoreCase and Utf8

`End`, `DigitsSettle`, `DigitsContinue`, `SkipWs`, `Boundary` and `Advance` are
`NatCompare`'s, as the functions of `compare/common.rs` are shared.

| Model | Code (`src/compare_ignore_case/mod.rs`) |
|---|---|
| `mode` | the parameter `full_case_fold`, which tells `compare_ignore_case` from the ASCII-only comparison |
| `DigitMismatch` | one byte is a digit, no run is going on |
| `FoldEqual`, `FoldDiffer` | two bytes below 128 |
| `OneWide` | a byte below 128 against one above |
| `WideEqual`, `WideDiffer` | two characters decoded; `WideEqual` advances each pointer by the length of its own |
| `Panic` | a slice `..len` that reaches past the end |
| `CharLen`, `Cut`, `Decoded` | `utf8_char_len`, the slice expression and `from_utf8_unchecked` of `src/unicode/mod.rs` |

### Normalizer

| Model | Code (`src/normalizer/{mod,enums}.rs`) |
|---|---|
| `feature` | whether the crate is built with `normalize` |
| `form`, `caseMode`, `SetForm`, `SetCase` | the builder |
| `left`, `right` | the texts, as sequences of characters; the comparisons see `Bytes` |
| `Normalize`, `ApplyNormalization`, `ApplyCase`, `Fold*`, `LowerEach` | `normalize` and its helpers; a `Cow` is a text and whether it is `owned` |
| `Active`, `CompareDirectly`, `CompareNormalized` | the choice of path in `compare` |
| `Comparing` | a step of the comparison chosen |

## 3. The runs

| Run | Question | Bounds | States |
|---|---|---|---|
| `dispatch` | Is the table written once, race-free, fit for the processor, and does every call return? Does it implement `OnceTable`? | 3 threads, 6 processors, calls without limit | 5,766 |
| `chunk_scan` | Does every backend return what the byte loop returns? | real widths; lengths 0-34 and 12 others to 137; one stop anywhere, or two | 1.4 million |
| `chunk_scan_nul` | Does that hold of the SSE4.2 backend with NULs? (no) | lengths 32 and 40, one common NUL | violation |
| `compare` | Is the result the natural order, are the pointers in range, does each round consume, do the two ways to compare runs agree, does the amount of white space make no difference? | all pairs of strings of up to 4 (5) bytes from small alphabets | 778,331 |
| `order_laws` | Are the answers of four calls those of a total order, and which one? | triples of strings without white space, up to 4 bytes | 1.25 million |
| `order_laws_spaced` | Is the order antisymmetric with white space? (no) | strings of up to 3 bytes | violation |
| `order_laws_trailing` | Are strings equal to one another equal to the same strings? (no) | strings of up to 3 bytes | violation |
| `iter` | Is the answer of `compare_iter` the order of the streams' meanings, that of `compare` where both are plain, antisymmetric, and always there? | pairs of strings: up to 3 items of 4 kinds, 2 of 6, 4 of two digits | 94,965 |
| `iter_zeros` | Do `compare` and `compare_iter` agree on letters and digits? (no) | up to 4 items of 3 kinds | violation |
| `normalizer` | Is the answer the order of the normalized texts on every path; are shortcuts and `Cow` right; are characters decoded at their starts; does every call end? | every configuration of both builds, all pairs of 37 texts of up to 3 characters | 166,724 |
| `fold_panic` | Does no comparison panic? (one does) | as `normalizer` | violation |
| `fold_once` | Are texts equal that normalize alike? (no) | as `normalizer` | violation |

**Dispatch.** Three threads are the smallest number with a winner, one thread
that loses the exchange and one that arrives late with a stale view. There is no
bound on calls: the modification order never grows beyond three messages, which
is an invariant. The processors are one for each answer the `if` chains can
give, and one with AVX-512F but not AVX-512BW.

**ChunkScan.** The longest ladder (64, 32, 16, 16, 8, 1) goes through all its
rungs at 137 = 64 + 32 + 16 + 16 + 8 + 1 bytes. A second stop right after the
first, or at the end, tells "the first of the chunk" from "a stop of the chunk".

**NatCompare.** The alphabets hold a zero, two other digits, a letter (above the
digits), a hyphen (below them), a blank and a tab. `ShortRun` stands for the 16
of `digit_run.rs` and is 3 (2 in `iter` and `normalizer`), so that strings of four
bytes take both paths; the code's thresholds matter for speed only exactly if
the two paths agree, and that is `PathsAgree`. Four bytes are enough for a
prefix that ends inside a run or amid white space, a run with a leading zero, white
space on one side, and something after it.

**CompareIter.** Items are bytes here, skipped, ordered and read as digits as the
differential test does (the one white space among them is the blank: of the vertical
tab, which `char::is_whitespace` skips and `compare` does not, nothing is claimed).
Three items are enough for a run that ends while the other goes on and for an item
after it; four digits for two runs that differ twice.

**Normalizer.** The texts hold characters of one to four bytes, pairs of them with
one lead byte and pairs that fold to each other with one and with different encoded
lengths, a composed letter and its two parts, a character that only a
compatibility form changes (into a digit), and one that folds into ASCII. The
normal forms are given for these.

Properties worth a second look:

* `RefinesOnce`: safety and liveness of the abstract once-table, under the
  mapping that decides when DONE is stored.
* `PathsAgree`: the order of two names does not change because a suffix is
  appended that moves the comparison from the byte loop to the scan.
* `ConsumedEqual`: what has been consumed of both strings is the same, white
  space left out. This is what the prefix skip, the rewind and the equal runs
  have to keep. For strings that come out Equal it says that they are the same but
  for white space.
* `SpacingIgnored`: the converse, as far as it holds. Strings with the same bytes, which
  differ in how much white space there is between them, come out Equal, unless white space
  parts two digits or ends a string. The loop meets such strings at different offsets,
  and starts amid white space when the prefix skip ends there, so every look back reads
  other bytes in the one than in the other. The exceptions are the code's: `1 23` and
  `12 3` hold different numbers, and white space at the end counts as bytes left
  (section 5).
* `NaturalOnPlain`: on strings whose numbers have no superfluous zeros, and
  whose white space does not follow a digit or end the string, the result is that
  of comparing numbers by value. The restriction is where section 5 begins.
* `Antisymmetric`, `Transitive`: over several calls, as `slice::sort_by` needs.
* `FirstDifferenceDecides`: on strings without white space the loop, the prefix skip,
  the rewind and both ways to compare runs come down to one definition without a
  loop: what the first difference and the run it stands in say. `Ordered` is that
  definition; it is also what makes the laws provable.
* `MirrorImage` (of `compare` and of `compare_iter`) and `FoldMirrorImage`: each
  step of a call is a step of the call with its arguments exchanged, although the
  code tests the left argument first and looks back in it alone.
* `IterIsNatural`: reading in step loses no item and compares no two items of
  different tokens; the reference cuts each stream into tokens on its own.
  `AgreeOnPlain` relates it to the answer of `compare`.
* `DecodesCharacters`: `decode_char` is given the start of a whole character
  although the pointers got there by bytes, if no two different characters of the two
  texts share a first byte. Without that premise it fails (section 5).
* `NormalizedOrder`, `ShortcutsAgree`, `OwnedIffChanged`: all paths of the normalizer
  are one function.

Every property of a passing run has a mutant in `PROJECT.json`: an alternative
definition in the module (a weak exchange, an off-by-one, a dropped rule) under
which TLC finds that property violated.

**Fairness.** `Dispatch` assumes weak fairness of the steps of each thread
inside a call (the operating system schedules it) and of `SpinDone`: a store
becomes visible to other threads in finite time, as the memory model requires,
so a thread does not load the stale value for ever. Weak fairness is enough
since `SpinDone` stays enabled once DONE is stored. No thread has to call.
`CompareIter` and `IterLaws` assume that the one thread goes on and that the
iterators answer: weak fairness of the steps of the calls. `Normalizer` assumes the
same of a comparison that has begun, and does not assume that anybody calls. The
other modules assume none and state no liveness; that a call of `compare` returns is
`Returns` in the run `iter`, where it comes first, and `CompareReturns` in
`normalizer`.

## 4. The proofs

All proofs are of the specifications TLC checks, with the constants left open.

**`DispatchProofs`**: for any set of threads and any processors whose features
are closed downwards (`CpuAssumption`). The invariant `IInv` says that the
modification order is a prefix of UNINIT, LOCKED, DONE and only DONE carries the
table (`OrderInv`), that there is an owner exactly while LOCKED is the newest
message, and one only (`OwnerInv`), that the cell holds the table from the write
on (`CellInv`), and that who has seen DONE sees the write (`ViewInv`). None of
the safety properties is inductive without these: `NoRacyRead` needs to know
that the only message with value DONE is a publishing one, which needs the
uniqueness of the owner. The safety properties, `HandedOutImmutable` and the
refinement `Spec => Once!SafeSpec` follow.

**`ChunkScanProofs`**: for slices of any length, any sets of stops, every
backend. Every ladder ends in a rung one byte wide that decides, and has only
rungs of positive width (`LadderSound`); `IInv` says that nothing is passed
over, where a call that has returned landed, and what an `is_ascii` that said no
has seen. With the uniqueness of `FirstStop` (`BasicLemmas`) it follows that all
backends agree. The SSE4.2 string instruction is excluded by `NulSafe` when there
is a common NUL, where the claim is false.

**`NatCompareProofs`**: for strings of any bytes and length and any `ShortRun`.
`Fine` says what two digit runs may come out as: Less or Greater, or undecided with
a common length above zero, within both slices, and equal bytes; it is proved for
the four implementations. `IInv` is the types, "no result before done", and, for
strings without white space, that both pointers are at the same offset with equal
bytes before it. It yields the range of the pointers and the progress of every
round. With white space the pointers drift apart, and the invariant is about
readings instead: a function that takes a string byte by byte, with any step and
with white space changing nothing (`Reads`), and `InSync` says that no reading tells
what has been consumed of the one string from what has been consumed of the other
(`ReadInSync`). Each way to go on keeps it so: white space changes no reading, equal
runs and equal bytes change both alike. `NothingSkipped` turns that into
`ConsumedEqual`. Last, `PathsNeverDisagree`: the byte loop of a digit run and its
scan come to one answer for all strings and any `ShortRun`, from the `Fine` of both
and a case for each way a run can end; and the four of them give the reverse answer
when their arguments are exchanged. `SpacingNeverDecides` rests on the agreement:
`GlyphCount` is how many bytes come before an offset, white space left out, and as
counting is a reading, the pointers in sync have the same count. A byte that is no
white space stands at its count in `Glyphs` (`GlyphPlaced`), so strings with the
same glyphs show the loop the same byte on both sides (`SameByte`), which leaves no
mismatch and no boundary; and as each glyph tells whether it goes on with a run, the
runs are the same (`RunInOther`), which leaves them undecided on every path.

**`NaturalOrderProofs`**: `IsNaturalOrder`. The reference cuts both strings into
numbers and characters and compares the numbers by value, the loop never computes a
number. The proof keeps two things apart. Of the tokens: reading a byte, with a
digit either beginning a number or multiplying the one under way by ten, is
followed through white space, runs and single bytes; where a run is longer than
another by a digit that is no leading zero its number is greater, where two runs of
one length differ the first different digit decides, and a run with a leading zero
is, on plain strings, a lone zero. Of the state: what has been read of both strings
is the same list of tokens, with the same number under way or none (`SameRead`).
Every step that settles the comparison does so at the token under way or at the next
one, which makes the first difference of the two lists. The prefixes are of any
length, so these lemmas are inductions; the library's induction theorems being out of
reach, they take the least element of a set of numbers that fail instead (`LeastOf`,
`Induction`), and the functions by recursion of the reference are unfolded once and
for all by lemmas about them.

**`OrderLawsProofs`**: `Mirrored`, action by action, on strings without white space.
Where `New` looks back, the identity of the bytes before the first difference makes
it the same look in both strings; where `Boundary` looks back in `a` alone, the
invariant says that the pointers are at one offset behind equal bytes. Then the laws
over several calls, for strings of any length without white space, in three parts.
First, `Ordered` is a strict order (`BelowAsymmetric`, `OrderedTransitive`): of two
first differences the earlier one decides, and the run it stands in is kept by the
third string. Second, the loop computes it: the invariant `DInv` adds to `IInv` that
without white space every round begins where the constructor left the pointers
(`OneRound`), so that the first round settles everything; `DecidedByFirstDifference`
is the result. Third, `LInv` says of the caller that each answer it remembers is what
`Says` gives for the words of that call, and with the first part `NeverBothLess` and
`NoCircle` follow, under `NoWsAnywhere`, that no string of the set has white space.
With white space they are false (section 5).

**`CompareIterProofs`**: for any items, streams and callbacks that are functions
with `cmp` antisymmetric (`CallbackAssumption`). `TypeCorrect` includes that
`next` is not called after `None`; the invariant adds that both streams have been
read once the loop runs, so that an item is held or known to be missing. `Mirrored`
is the antisymmetry of `compare_iter`.

`ReadsNumbers` is `IterIsNatural`: the answer is the order of what the two streams
mean, although `compare_iter` holds one item of each and computes no number. `RInv`
says what has been read at each place of the loop: where items are compared, as many
tokens of either stream, pairwise equal, with no run under way that the item held
would prolong (`Between`); in a run, equal tokens and then two runs of one length
(`Running`), with equal digits in `'digits_left` and with the difference remembered
in `'digits_right`. An invariant about the items read alone would not do, as a run
that is under way is not yet the token it will be. The theorem has two premises.
`Decimal`: a digit is worth 0 to 9, without which the longer of two runs need not be
the greater number. `Alike`: `cmp` calls no digit equal to an item that is none. If it
did, `compare_iter` would pass such a pair as equal items, and the digit in it would
begin a run in one stream only.

`AgreesWithCompare` is `AgreeOnPlain`, the agreement of two functions that share no
code, for the callbacks that read text (`TextCallbacks`: bytes, the white space of
`compare` skipped, decimal digits, order by code), which implies both premises. On plain
text the tokens of `IterLaws` and those of `NaturalOrder` are the same (`PlainRead`): a
list of digits renders a number (`Renders`), which has no leading zero, so comparing
fractions and comparing values come to one, and the white space that ends a run of the
one and not of the other never stands behind a digit. The invariant `TextInv` carries
the one of `NaturalOrderProofs` through the turn of `compare` and leaves it alone during
that of `compare_iter`.

**`NormalizerProofs`**: first the comparison that folds, on arbitrary bytes.
`FoldTypeCorrect`: whatever the lengths that the bytes announce, the pointers stay
within their slices or the call has panicked. `WideEqual` is the case that needs an
argument (`SliceWhole`): a slice that is not cut holds all that its first byte announces.
The digit runs and the skip over white space bring theirs from `NatCompareProofs`.

Then the normalizer on all texts of `Texts`, of any length. The bytes of a text are
cut at its characters in one way only: a first byte is never a continuation byte and
announces as many bytes as its character has, so a byte position is a character
boundary or lies inside one character. The invariant `NInv` says of a call on two
texts without shared lead bytes that both pointers are at boundaries, or equally far
inside characters with the same bytes, hence the same character (`Aligned`). Equal
bytes keep it, and so do white space, digits and folded letters, which are boundaries
themselves. It yields `CharactersDecoded`: a character is decoded at its start, whole.
`SensitiveIsNatural` carries `IsNaturalOrder` over to the texts a normalizer hands to
`compare`, on whichever path it does so.

`NormalizedIsNatural` is the whole of `NormalizedOrder`, for the comparisons that fold
as they go too. Here the answer concerns texts the program never builds: `Down(left)`
and `Down(right)`, the texts folded character by character. The invariant
(`FoldNatural`) is `FoldLinked`: both pointers are equally far (`k` bytes) into the
i + 1st and the j + 1st character, what precedes these characters in the folded texts
has the same tokens (`ReadSame`), and if `k` is not 0 they are the same character.
`Pos(text, i)` is where a character begins, in the text and in its folding, which need
not be the same byte: a character may be folded to a longer one. A step over equal
bytes goes on inside a character or ends it (`LinkedStep`); where the bytes differ, or
one is below 128, or a text is at its end, the pointers are at characters
(`LinkedHere`). There, runs of digits and of white space are copied by folding
(`CaselessRun`), so `HandleDigits` sees what it would see in the folded texts
(`HandleDigitsAlike`), and the lemmas of `NaturalOrderProofs` on the token a string goes
on with say which text comes first (`Told`). Two wide characters have the order of their
encodings (`EncodeOrder`). The premises are those of the property: plain and tame texts
without shared lead bytes.

`ShortcutsSound`: what `normalize` returns is
the normal form folded character by character, through every shortcut for ASCII, for
a text that is normal already and for characters that are their own lower case.
`FoldMirrored` is the mirror image of the comparison that folds; as characters that
fold to each other may have encodings of different lengths, the pointers may be apart,
and the invariant `Behind` says what `Boundary` needs: a digit stands before both or
before neither. `OwnedUnlessUndone`: `normalize` makes a new string exactly if it
changes the text, except where folding gives back what the normal form had changed,
where the code returns an owned copy of what it was given. No such text is known, and
nothing the model assumes of Unicode rules one out, so the theorem names the exception;
`OwnedIffChanged` without it is model-checked.

The proofs assume the named assumptions on the constants, which TLC evaluates in
every run, and nothing else. Those about Unicode are weak: `LowercaseAssumption`,
`TextsAssumption`, `NormalAssumption` and `FoldingAssumption` say that texts,
normal forms and folded characters consist of characters, that a text of ASCII is its
own normal form, and that ASCII is folded as `LowerAscii` does.

**Model-checked only.** Liveness (`CallsReturn`, `Returns`, `CompareReturns`, the
fairness part of `RefinesOnce`): ENABLED and fairness are outside what the prover
handles. `OwnedIffChanged` without the exception that `OwnedUnlessUndone` names. The
invariant `FoldNatural` is proved and not run: it places characters by prefix functions
picked with an unbounded CHOOSE (`Before`), which TLC cannot evaluate; what follows
from it, `NormalizedOrder`, is run.

## 5. Where code and tests disagree

Six runs end in a violation, each of a statement of the repository's own tests
or documents.

1. `chunk_scan_nul`. `skip_sse42` uses `_mm_cmpistri`, whose operands end at a
   NUL. If both strings hold a NUL at the same place of a 16-byte chunk, the rest
   of the chunk counts as equal. It takes strings with 32 or more bytes in common
   length and a processor with SSE4.2 but without AVX2.
2. `order_laws_spaced`. `check_digit_boundary` looks at the byte before `pa`
   only. After white space is skipped on one side, the byte before `pb` is
   another: `compare("1 a", "12")` and `compare("12", "1 a")` are both Greater.
3. `order_laws_trailing`. White space in the middle is skipped in runs, at the
   end it counts by length: a tab equals a blank, a blank equals two tabs, one
   tab is Less than two.
4. `iter_zeros`. `CompareCtx::new` goes back by one digit only. For `001` and
   `0001` the prefix is `00`, the comparison resumes at the second zero, and with a
   zero before it that one is no longer taken for a leading one: `compare`
   says Less (the shorter number) and `compare_iter` Greater (1 after 0 in a fraction).
   `tests/proptests.rs:275` says "Without whitespace the two agree."
5. `fold_panic`. The letters `É` and `é` share their first byte; the prefix skip
   passes it, `decode_char` starts at the second, takes it for the start of a
   two-byte character and slices past the end. `src/lib.rs:98` says that public
   functions do not panic. Inside a longer text the slice is long enough, and bytes
   that are no UTF-8 go to `from_utf8_unchecked`.
6. `fold_once`. Without a normal form, `compare` in mode `Fold` calls
   `compare_ignore_case` in place of folding first, and that one compares a byte
   below 128 with one above as they are: `k` and the Kelvin sign differ, though both
   normalize to `k`. `src/normalizer/mod.rs:9-11` says that folding happens once and
   the case-sensitive comparator is used after it.

On strings without white space the laws hold (`order_laws`, proved). On texts that
are tame (every character above 127 folds to one above 127) and have no two different
characters with one first byte, the comparisons that fold agree with the
normalized texts (`NormalizedOrder`); items 5 and 6 are why that
premise is there.

Two more disagreements have no run of their own:

* The lower-casing of a build without `normalize` tests `folded.len() != 1`
  (`src/normalizer/mod.rs:282`), which counts bytes: any character above 127, changed
  or not, makes the result an owned one, while `src/lib.rs:99-100` promises a borrowed
  one for an unchanged text. It is why `OwnedIffChanged` has its premise.
* The rewind of item 4 also tells `compare_ignore_case("x001", "X0001")` (Greater:
  the prefix is empty, so both runs are read from their starts) from
  `compare_normalized` on the same texts (Less: they are folded first, and `x00` is
  common), where `prop_normalized_matches_ignore_case_ascii`
  (`tests/proptests.rs:255-263`) says that they agree. It is why `NormalizedOrder`
  asks for strings without superfluous zeros.

## 6. What is abstracted, and what is left out

* Bit tricks inside one chunk (range checks by saturating subtraction, masks,
  the SWAR digit test) are taken to find the stops of the chunk.
* Words are little-endian, as on all targets the crate names; on a big-endian
  one `trailing_zeros` would find the last difference of a word.
* The table is written in one step. Nobody can see it half-written, since nobody
  reads before DONE; that is what `NoRacyRead` says.
* A call of `get_dispatch` that interrupts its own thread between the exchange
  and the store (a signal handler) would spin for ever; threads here are not
  interrupted.
* `cpufeatures` is external: it reports the features of the processor.
* Equal strings may or may not be one slice: `SamePointer` is a choice.
* When a comparison is settled inside a digit run, the code leaves the pointers
  where they are; nobody reads them again, and the model leaves them too.
* In `compare_iter` the callbacks are functions of their arguments. A callback with
  a state of its own could answer differently each time, and nothing could be said.
* Decoding from a continuation byte is undefined behaviour in the code; the model
  lets any character of `AnyChar` come out.
* The tables of Unicode (`char::to_lowercase`, `simd-normalizer`'s normal forms and
  case folding) are external: constants, cut down in the checks to the characters
  of the texts. A normal form is taken to be borrowed where it changes nothing.
* Not modelled: benches, fuzz targets, examples and build files, which call the public
  functions and keep no state. The Kani harnesses and unit tests are read as
  statements about the code; the callers of `proptests.rs` that make several calls
  are `OrderLaws` and `IterLaws`.

## 7. Plan

Done, in this order:

1. `OnceTable`, `Dispatch`: the only shared state, with refinement and proofs.
2. `Scanning`, `ChunkScan`: the scans at their real widths, with proofs.
3. `NatCompare`, `NaturalOrder`, `OrderLaws`: the comparison, its types, progress and
   white space; then the laws over several calls, proved.
4. `CompareIter`, `IterMirror`, `IterLaws`: the comparison of streams, alone and next
   to `compare`, and the proof that it reads numbers and agrees with `compare`.
5. `Utf8`, `CompareIgnoreCase`, `Normalizer`: characters, folding, and the choice
   among the comparisons.

Left:

* The word loops on a big-endian machine.
