------------------------------ MODULE Encoding ------------------------------
(* Encoding: the check of a text's bytes.  A byte is what its upper bits   *)
(* say: the first of a sequence of 1 to 4 bytes, one that continues a      *)
(* sequence ("c"), or none of these ("x").                                 *)
EXTENDS Text

Bytes == {"1", "2", "3", "4", "c", "x"}
Length(b) == CASE b = "1" -> 1 [] b = "2" -> 2 [] b = "3" -> 3 [] b = "4" -> 4 [] OTHER -> 0
Whole(s, i) == Length(s[i]) > 0 /\ i + Length(s[i]) - 1 <= Len(s)

ValidStep(s) ==
    [x \in Reading(Bytes) |->
        IF x.open = "bad" \/ x.i > Len(s) THEN x
        ELSE IF Whole(s, x.i) /\ \A j \in (x.i + 1)..(x.i + Length(s[x.i]) - 1) : s[j] = "c"
          THEN Take(x, Length(s[x.i]), <<>>)
        ELSE [x EXCEPT !.open = "bad"]]
IsValidUTF8(s) == Loop(Begin(1, "none"), ValidStep(s), Len(s)).open # "bad"

\* Mutation: of a sequence of four bytes only three are taken.
EncodeStepShort(s) ==
    [x \in Reading(Bytes) |->
        IF x.i > Len(s) THEN x
        ELSE IF Whole(s, x.i)
          THEN LET n == IF s[x.i] = "4" THEN 3 ELSE Length(s[x.i]) IN
               Take(x, n, SubSeq(s, x.i, x.i + n - 1))
        ELSE Take(x, 1, <<>>)]

\* A first byte without enough bytes behind it is left out, and so is a byte
\* that begins nothing; what follows a first byte is not looked at.
EncodeStep(s) ==
    [x \in Reading(Bytes) |->
        IF x.i > Len(s) THEN x
        ELSE IF Whole(s, x.i)
          THEN Take(x, Length(s[x.i]), SubSeq(s, x.i, x.i + Length(s[x.i]) - 1))
        ELSE Take(x, 1, <<>>)]
EncodeForUTF8(s) == Loop(Begin(1, "none"), EncodeStep(s), Len(s)).out

EncodeString(s) == EscapeForSQL(s)
DecodeString(s) == UnescapeFromJSON(s)

-----------------------------------------------------------------------------
(* A valid text stays as it is, and what encoding makes of any text it     *)
(* makes again.                                                            *)
BytesReadBack(s) ==
    /\ IsValidUTF8(s) => EncodeForUTF8(s) = s
    /\ EncodeForUTF8(EncodeForUTF8(s)) = EncodeForUTF8(s)

(* A text comes back from EncodeString and DecodeString unless it has a    *)
(* single quote, which the one doubles, or a NUL, which it writes as a     *)
(* backslash and a zero: the other undoes neither.                         *)
StringsReadBack(s) ==
    (\A i \in 1..Len(s) : s[i] \notin {"'", "nul"}) => DecodeString(EncodeString(s)) = s
=============================================================================
