-------------------------------- MODULE Text --------------------------------
(***************************************************************************)
(* The methods of str that the parsers are built from.  A text is a        *)
(* sequence of symbols, each a separator or a run of characters that no    *)
(* parser looks into.  An Option is a sequence of length 0 or 1.           *)
(***************************************************************************)
EXTENDS Integers, Sequences, SequencesExt

CONSTANT Symbol       \* the separators, and the runs of characters

None    == <<>>
Some(v) == <<v>>

Places(s, S) == {i \in DOMAIN s : s[i] \in S}
FirstAt(s, S) == IF Places(s, S) = {} THEN 0 ELSE Min(Places(s, S))
LastAt(s, S)  == IF Places(s, S) = {} THEN 0 ELSE Max(Places(s, S))
Before(s, i) == SubSeq(s, 1, i - 1)
After(s, i)  == SubSeq(s, i + 1, Len(s))

Split(s, i) == IF i = 0 THEN None ELSE Some(<<Before(s, i), After(s, i)>>)

\* str::split_once and str::rsplit_once
SplitOnce(s, c)  == Split(s, FirstAt(s, {c}))
RSplitOnce(s, c) == Split(s, LastAt(s, {c}))

\* str::strip_prefix, with a prefix of one symbol
StripPrefix(s, c) == IF s # <<>> /\ Head(s) = c THEN Some(Tail(s)) ELSE None

\* trim_ascii_start and trim_ascii
Blank == " "
TrimStart(s) ==
    LET i == FirstAt(s, Range(s) \ {Blank})
    IN  IF i = 0 THEN <<>> ELSE SubSeq(s, i, Len(s))
Trim(s) == Reverse(TrimStart(Reverse(TrimStart(s))))
=============================================================================
