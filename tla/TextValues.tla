----------------------------- MODULE TextValues -----------------------------
(***************************************************************************)
(* What the loaders of the configuration and of the rules, and the patches,*)
(* do with text.  Text is trimmed and, where the code compares without     *)
(* case, lowered before anything looks at it: one value stands for all its *)
(* spellings.  What is left is comments and quotes, the reading of numbers,*)
(* the replacement of one run of bytes by another, and hexadecimal text.   *)
(***************************************************************************)
EXTENDS HttpFraming, Integers

CONSTANTS
  UlongModulus,  \* 2^32: unsigned long on Windows
  PortMax        \* 65535

ASSUME NumberAssumption ==
  /\ UlongModulus \in Nat \ {0}
  /\ PortMax \in 0..(UlongModulus - 1)

(* g, overwritten by f, and the function of one value: @@ and :> of TLC, with
   definitions that a proof can expand. *)
f ++ g == [x \in (DOMAIN f) \cup (DOMAIN g) |-> IF x \in DOMAIN f THEN f[x] ELSE g[x]]
Only(x, value) == [y \in {x} |-> value]

(* std::string{}. *)
NoText == ""

(* A word of a text where no byte of it matters, and any number. *)
Word(word) == T(word, 0)
Digits == Word("number")

(* Three bytes with a meaning in a file, and what an odd digit, or a character
   that is none, is in a hexadecimal text. *)
Hash == T("data", 100)
Quote == T("data", 101)
Colon == T("data", 103)
NoDigit == T("data", 102)

(* strip_comment: a line ends at its first #, quoted or not. *)
StripComment(text) ==
  LET at == SelectInSeq(text, LAMBDA t : t = Hash)
  IN  IF at = 0 THEN text ELSE SubSeq(text, 1, at - 1)

Unquote(text) ==
  IF Len(text) >= 2 /\ text[1] = Quote /\ text[Len(text)] = Quote
    THEN SubSeq(text, 2, Len(text) - 1) ELSE text

(* std::stoul of a text that begins with the number n: a minus sign negates
   in unsigned arithmetic, a value that does not fit throws. *)
StoUl(n) == IF n > -UlongModulus /\ n < UlongModulus THEN {n % UlongModulus} ELSE {}

(* Mutant of ParseU16: no bound is tested. *)
ParseU16Any(n) == StoUl(n)

(* parse_u16 and parse_u32: the number read, or nothing where they fail. *)
ParseU16(n) == {v \in StoUl(n) : v <= PortMax}
ParseU32(n) == StoUl(n)

(* find occurs in source at i. *)
OccursAt(source, find, i) ==
  /\ i + Len(find) - 1 <= Len(source)
  /\ SubSeq(source, i, i + Len(find) - 1) = find

(* replace_all counts a replacement. *)
Occurs(source, find) ==
  find # <<>> /\ \E i \in 1..Len(source) : OccursAt(source, find, i)

(* replace_all: from left to right, going on behind what was put in.
   rest[i] is what becomes of source from its i-th byte on. *)
ReplaceEvery(source, find, replace) ==
  LET rest[i \in 1..Len(source) + 1] ==
        IF i > Len(source) THEN <<>>
        ELSE IF OccursAt(source, find, i) THEN replace \o rest[i + Len(find)]
        ELSE <<source[i]>> \o rest[i + 1]
  IN  IF find = <<>> THEN source ELSE rest[1]

(* decode_hex_string of a text, which is here the bytes its digits stand for;
   nothing where it fails. *)
DecodeHexString(text) ==
  {b \in {text} : \A i \in DOMAIN text : text[i] \notin {NoDigit, Hash, Quote, Colon}}

(* What is looked for when find and replace are hexadecimal: nothing, if
   either cannot be decoded. *)
HexFind(find, replace) ==
  IF DecodeHexString(find) = {} \/ DecodeHexString(replace) = {} THEN <<>> ELSE find

=============================================================================
