----------------------------- MODULE MCNormalizer -----------------------------
(***************************************************************************)
(* Texts over some characters that case folding and the normal forms treat  *)
(* differently, with the tables of Unicode cut down to them.                *)
(***************************************************************************)
EXTENDS Normalizer

LOCAL INSTANCE SequencesExt

Acute == 769           \* the combining accent, U+0301
eAcute == 233          \* e with acute, U+00E9
EAcute == 201          \* E with acute, U+00C9
Omega == 937           \* U+03A9
omega == 969           \* U+03C9
Kelvin == 8490         \* the unit sign, U+212A
CircledOne == 9312     \* U+2460
SharpS == 223          \* two bytes, U+00DF
CapitalSharpS == 7838  \* three bytes, U+1E9E
LongI == 66560         \* a Deseret letter, four bytes, U+10400
longI == 66600         \* U+10428

MCCaseFold(c) ==
  CASE c \in 65 .. 90 -> c + 32
    [] c = EAcute     -> eAcute
    [] c = Omega      -> omega
    [] c = Kelvin     -> 107
    [] c = LongI      -> longI
    [] c = CapitalSharpS -> SharpS
    [] OTHER          -> c

\* On these characters char::to_lowercase is the case folding.
MCLowercase(c) == <<MCCaseFold(c)>>

Decomposed(c) ==
  CASE c = eAcute -> <<101, Acute>>
    [] c = EAcute -> <<69, Acute>>
    [] c = Kelvin -> <<75>>
    [] OTHER      -> <<c>>

Compatible(c) == IF c = CircledOne THEN <<49>> ELSE Decomposed(c)

\* Every composed character has two parts here, and no text more than one accent.
Compose(t) ==
  LET Accented(k) == k < Len(t) /\ t[k] \in {69, 101} /\ t[k + 1] = Acute
      Part(k) == CASE Accented(k) -> <<IF t[k] = 101 THEN eAcute ELSE EAcute>>
                   [] k > 1 /\ Accented(k - 1) -> <<>>
                   [] OTHER -> <<t[k]>>
  IN  FlattenSeq([k \in 1 .. Len(t) |-> Part(k)])

MCNormal(f, t) ==
  LET canonical  == FlattenSeq([k \in 1 .. Len(t) |-> Decomposed(t[k])])
      compatible == FlattenSeq([k \in 1 .. Len(t) |-> Compatible(t[k])])
  IN  CASE f = "Nfd"  -> canonical
        [] f = "Nfc"  -> Compose(canonical)
        [] f = "Nfkd" -> compatible
        [] f = "Nfkc" -> Compose(compatible)

MCAnyChar == {eAcute, EAcute, Omega}

Wide == {eAcute, EAcute, Omega, omega, Kelvin, CircledOne, SharpS, CapitalSharpS, LongI}

MCTexts ==
  {<<>>} \union {<<c>> : c \in Wide \union {49, 65, 97, 101, 107}}
    \union {<<101, Acute>>, <<69, Acute>>, <<75, 49>>, <<107, 49, 50>>, <<65, 32, 49>>,
            <<97, 9, 49>>, <<eAcute, 49>>, <<EAcute, 50>>, <<Omega, 49, 48>>, <<omega, 50>>,
            <<CircledOne, 50>>, <<49, CircledOne>>, <<49, 97>>, <<Omega, EAcute>>,
            <<97, omega, 49>>, <<49, Omega>>,
            <<CapitalSharpS, 49>>, <<SharpS, 50>>, <<Omega, LongI>>, <<49, 49>>,
            <<CapitalSharpS, omega>>, <<SharpS, Omega>>}

MCStrings == {Bytes(t) : t \in MCTexts}

MCEncodes == \A c \in Wide \union {49, 97, Acute} :
               CharAt(Encode(c), 0) = c /\ Len(Encode(c)) = CharLen(Encode(c)[1])

ASSUME EncodesAssumption == MCEncodes
==============================================================================
