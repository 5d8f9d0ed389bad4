------------------------------- MODULE Digest -------------------------------
(***************************************************************************)
(* src/digest.rs: the text of a digest, its validation (TryFrom<String>),  *)
(* and the comparison with the bytes that the hasher computed (check_hash),*)
(* which reads two characters for each byte and nothing after the last one.*)
(* A text is a sequence of characters after the name of the algorithm,     *)
(* which is one symbol.                                                    *)
(***************************************************************************)
EXTENDS Integers, Sequences

CONSTANT HashBytes    \* the size of the hash of each algorithm
ASSUME HashBytesAssumption == \A a \in DOMAIN HashBytes : HashBytes[a] \in Nat

Lower == <<"0", "1", "2", "3", "4", "5", "6", "7", "8", "9", "a", "b", "c", "d", "e", "f">>
Upper == <<"0", "1", "2", "3", "4", "5", "6", "7", "8", "9", "A", "B", "C", "D", "E", "F">>
Nibble == 0..15
Byte   == 0..255

\* char::is_ascii_hexdigit, and the value of a digit
IsHexDigit(c) == \E n \in Nibble : c \in {Lower[n + 1], Upper[n + 1]}
DigitValue(c) == CHOOSE n \in Nibble : c \in {Lower[n + 1], Upper[n + 1]}

Algorithm(text) == text[1]
HashValue(text) == SubSeq(text, 3, Len(text))

HasAlgorithm(text) == /\ Len(text) >= 2
                      /\ text[1] \in DOMAIN HashBytes
                      /\ text[2] = ":"

\* Fault: the digits are left to the comparison, which parses them anyway.
AcceptedByLength(text) == /\ HasAlgorithm(text)
                          /\ Len(HashValue(text)) = 2 * HashBytes[Algorithm(text)]

\* Digest::try_from is Ok.
Accepted(text) == /\ HasAlgorithm(text)
                  /\ Len(HashValue(text)) = 2 * HashBytes[Algorithm(text)]
                  /\ \A i \in DOMAIN HashValue(text) : IsHexDigit(HashValue(text)[i])

\* u8::from_str_radix(<<a, b>>, 16), which accepts a plus sign; -1 is an error.
FromStrRadix(a, b) == IF ~IsHexDigit(b) THEN -1
                      ELSE IF IsHexDigit(a) THEN 16 * DigitValue(a) + DigitValue(b)
                      ELSE IF a = "+" THEN DigitValue(b) ELSE -1

\* check_hash: the loop over the bytes of out.
CheckHash(value, out) ==
    \A i \in DOMAIN out :
        2 * i <= Len(value) /\ FromStrRadix(value[2 * i - 1], value[2 * i]) = out[i]

\* HexString: two lowercase digits for each byte.
HexString(out) ==
    [k \in 1..2 * Len(out) |->
        LET byte == out[(k + 1) \div 2]
        IN  Lower[1 + (IF k % 2 = 1 THEN byte \div 16 ELSE byte % 16)]]
-----------------------------------------------------------------------------
\* The two spellings of the same digits.
SameDigits(s, t) == /\ Len(s) = Len(t)
                    /\ \A i \in DOMAIN s : IsHexDigit(s[i]) /\ DigitValue(s[i]) = DigitValue(t[i])

\* An accepted digest is matched by the bytes whose HexString it spells, in upper
\* or lower case, and by no others: none of the liberties of the comparison
\* (a sign, a value that is too long) is reachable through TryFrom.
DigestIsExact(text, out) ==
    Accepted(text) /\ Len(out) = HashBytes[Algorithm(text)] =>
        (CheckHash(HashValue(text), out) <=> SameDigits(HashValue(text), HexString(out)))
=============================================================================
