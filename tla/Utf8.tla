--------------------------------- MODULE Utf8 ---------------------------------
(***************************************************************************)
(* Characters in byte slices: utf8_char_len and decode_char of              *)
(* src/src/unicode/mod.rs.  A character is its code point.                  *)
(***************************************************************************)
EXTENDS Scanning

\* char::MAX.
LastChar == 1114111

\* What a char may be; the surrogates among them never come up.
CodePoint == 0 .. LastChar

\* UTF-8 itself, as core::str has it.
Encode(ch) ==
  CASE ch < 128           -> <<ch>>
    [] 128 <= ch /\ ch < 2048 -> <<192 + ch \div 64, 128 + (ch % 64)>>
    [] 2048 <= ch /\ ch < 65536 ->
         <<224 + ch \div 4096, 128 + ((ch \div 64) % 64), 128 + (ch % 64)>>
    [] OTHER ->
         <<240 + ch \div 262144, 128 + ((ch \div 4096) % 64),
           128 + ((ch \div 64) % 64), 128 + (ch % 64)>>

Continuation(c) == c \in 128 .. 191

\* utf8_char_len: of a continuation byte too it says two.
CharLen(first) ==
  CASE first < 128            -> 1
    [] first \in 128 .. 223   -> 2
    [] first \in 224 .. 239   -> 3
    [] OTHER                  -> 4

\* Only the first byte has to be there.
CutByOne(s, p) == p + 1 > Len(s)

\* Where decode_char finds the character that starts at p of s, a slice ends too early
\* for it: the range ..len is out of bounds, and the call panics.
Cut(s, p) == p + CharLen(At(s, p)) > Len(s)

\* The character whose first byte is at p.
CharAt(s, p) ==
  LET c0 == At(s, p)
      c(k) == At(s, p + k) % 64
  IN  CASE CharLen(c0) = 1 -> c0
        [] CharLen(c0) = 2 -> (c0 % 32) * 64 + c(1)
        [] CharLen(c0) = 3 -> (c0 % 16) * 4096 + c(1) * 64 + c(2)
        [] CharLen(c0) = 4 -> (c0 % 8) * 262144 + c(1) * 4096 + c(2) * 64 + c(3)

\* What decode_char may return at p.  From a continuation byte it hands bytes that are
\* no UTF-8 to from_utf8_unchecked, and any character may come out.
Decoded(s, p, anyChar) ==
  IF Continuation(At(s, p)) THEN anyChar ELSE {CharAt(s, p)}
==============================================================================
