---------------------------- MODULE ByteArrayHelpers ----------------------------
(***************************************************************************)
(* Text as the library sees it (pillowcore/ByteArrayHelpers.h,             *)
(* HttpHeader.cpp).  A text is a sequence of symbols: single characters    *)
(* where the code looks at them one by one (digits, separators, line       *)
(* ends), whole words or halves of words where it only compares them.      *)
(* Integers have the width of their C++ types, scaled down.                *)
(***************************************************************************)
EXTENDS Integers, Sequences

CONSTANTS
  IntWidth,     \* bits of an int
  LengthWidth   \* bits of the uint64_t of a parsed length

ASSUME WidthAssumption ==
  IntWidth \in Nat \ {0} /\ LengthWidth \in Nat /\ LengthWidth > IntWidth

(***************************************************************************)
(* Symbols.                                                                *)
(***************************************************************************)

DigitSymbols ==
  <<"0", "1", "2", "3", "4", "5", "6", "7", "8", "9", "a", "b", "c", "d", "e", "f">>

Decimals == {DigitSymbols[i] : i \in 1 .. 10}
Hexadecimals == {DigitSymbols[i] : i \in 1 .. 16}

\* The value of a digit; unhex() makes 0 of everything else.
Unhex(ch) ==
  IF ch \in Hexadecimals
  THEN (CHOOSE i \in 1 .. 16 : DigitSymbols[i] = ch) - 1
  ELSE 0

\* Words that occur in either case, upper-case ones first.
Cases ==
  {<<"CON", "con">>, <<"TENT-LENGTH", "tent-length">>, <<"NECTION", "nection">>,
   <<"CLOSE", "close">>, <<"CHUNKED", "chunked">>, <<"GET", "get">>, <<"ID", "id">>}

Lower(ch) ==
  IF \E pair \in Cases : pair[1] = ch
  THEN (CHOOSE pair \in Cases : pair[1] = ch)[2]
  ELSE ch

\* asciiEqualsCaseInsensitive()
SameWord(s, t) ==
  /\ Len(s) = Len(t)
  /\ \A i \in DOMAIN s : Lower(s[i]) = Lower(t[i])

(***************************************************************************)
(* Numbers.                                                                *)
(***************************************************************************)

\* What remains of n in an int.
Narrowed(n) ==
  ((n + 2 ^ (IntWidth - 1)) % 2 ^ IntWidth) - 2 ^ (IntWidth - 1)

\* -n, which for the least int is no number an int can be.
Negated(n) == Narrowed(-n)

DigitsOf(n, base) ==
  LET digits[m \in Nat] ==
        IF m < base THEN <<DigitSymbols[m + 1]>>
        ELSE Append(digits[m \div base], DigitSymbols[(m % base) + 1])
  IN digits[n]

\* appendNumber<int, base>(): the remainders of the least int are negative and
\* stand for characters that are no digits.
Number(number, base) ==
  LET n == Narrowed(number)
      magnitude == IF n < 0 THEN Negated(n) ELSE n
      sign == IF n < 0 THEN <<"-">> ELSE <<>>
  IN sign \o (IF magnitude < 0 THEN <<"garbage">> ELSE DigitsOf(magnitude, base))

(***************************************************************************)
(* Percent encoding.                                                       *)
(***************************************************************************)

\* The characters the models write with a percent sign, and their codes.
Characters == {<<"LF", 10>>, <<"%", 37>>, <<"/", 47>>, <<"g", 103>>}

Decoded(high, low) ==
  LET code == Unhex(high) * 16 + Unhex(low)
  IN IF \E c \in Characters : c[2] = code
     THEN (CHOOSE c \in Characters : c[2] = code)[1]
     ELSE "other"

\* percentDecodeInPlace(): a sequence that is cut off is kept as it is.
PercentDecode(s) ==
  LET from[i \in 1 .. Len(s) + 1] ==
        IF i > Len(s) THEN <<>>
        ELSE IF s[i] = "%" /\ i + 2 <= Len(s)
             THEN <<Decoded(s[i + 1], s[i + 2])>> \o from[i + 3]
             ELSE <<s[i]>> \o from[i + 1]
  IN from[1]

(***************************************************************************)
(* Headers.                                                                *)
(***************************************************************************)

\* getFieldValue(): of the first field of that name.
FieldValue(headers, name) ==
  IF \E i \in DOMAIN headers : SameWord(headers[i][1], name)
  THEN headers[CHOOSE i \in DOMAIN headers :
                 /\ SameWord(headers[i][1], name)
                 /\ \A j \in 1 .. i - 1 : ~SameWord(headers[j][1], name)][2]
  ELSE <<>>

NameOf(word) ==
  CASE word = "content-length"    -> <<"con", "tent-length">>
    [] word = "connection"        -> <<"con", "nection">>
    [] word = "transfer-encoding" -> <<"transfer-", "encoding">>
    [] word = "proxy-connection"  -> <<"proxy-", "con", "nection">>
    [] word = "upgrade"           -> <<"up", "grade">>

KnownNames ==
  {"content-length", "connection", "transfer-encoding", "proxy-connection", "upgrade"}

\* Which of the known names a field has, in any case.
Known(field) ==
  IF \E w \in KnownNames : SameWord(NameOf(w), field)
  THEN CHOOSE w \in KnownNames : SameWord(NameOf(w), field)
  ELSE "general"
================================================================================
