-------------------------------- MODULE Text --------------------------------
(* StringUtils: quoting and escaping, comments, names and wildcards.  A    *)
(* text is a sequence of characters, and a character is what the functions *)
(* tell apart:                                                             *)
(*   "'"  "\""  "bq"  "\\"   quotes (bq: the backquote) and the backslash  *)
(*   "nl", "nul", "ct"       a line's end, NUL, another control character  *)
(*   " "  "-"  "/"  "*"  "?" as they are                                   *)
(*   "n"  "u"  "0"  "1"      letters and digits that escapes use           *)
EXTENDS Integers, Sequences

CONSTANT Characters

ASSUME CharactersAssumption ==
    {"'", "\"", "bq", "\\", "nl", "nul", "ct", "n", "u", "0", "1"} \subseteq Characters

Quotes == {"'", "\"", "bq"}
Least(S) == CHOOSE i \in S : \A j \in S : i <= j
\* At its position i, s reads p.
Starts(s, i, p) == i + Len(p) - 1 <= Len(s) /\ \A j \in 1..Len(p) : s[i + j - 1] = p[j]

\* Each character of s written as e says.
Each(s, e) ==
    LET F[i \in 0..Len(s)] == IF i = 0 THEN <<>> ELSE F[i - 1] \o e[s[i]] IN F[Len(s)]

\* A loop: what n times step makes of x.  A step from where the loop ends
\* changes nothing, and n is a number of steps after which it has ended.
Loop(x, step, n) ==
    LET F[k \in 0..n] == IF k = 0 THEN x ELSE step[F[k - 1]] IN F[n]

\* The state of a loop that reads s: its next position, what it has made of
\* those before, and the quote that is open.
Reading(C) == [i : Nat, out : Seq(C), open : Quotes \union {"none", "closed", "bad"}]
Begin(i, open) == [i |-> i, out |-> <<>>, open |-> open]
Take(x, n, piece) == [i |-> x.i + n, out |-> x.out \o piece, open |-> x.open]

-----------------------------------------------------------------------------
(* SQL.                                                                    *)

\* Mutation: backslashes are left alone.
SQLEscapesQuotesOnly ==
    [c \in Characters |-> CASE c = "'"  -> <<"'", "'">>
                       [] c = "\"" -> <<"\\", "\"">>
                       [] c = "nl" -> <<"\\", "n">>
                       [] c = "nul" -> <<"\\", "0">>
                       [] OTHER    -> <<c>>]

SQLEscapes ==
    [c \in Characters |-> CASE c = "'"  -> <<"'", "'">>
                       [] c = "\"" -> <<"\\", "\"">>
                       [] c = "\\" -> <<"\\", "\\">>
                       [] c = "nl" -> <<"\\", "n">>
                       [] c = "nul" -> <<"\\", "0">>
                       [] OTHER    -> <<c>>]
EscapeForSQL(s) == Each(s, SQLEscapes)
QuoteForSQL(s) == <<"'">> \o EscapeForSQL(s) \o <<"'">>

NameEscapes == [c \in Characters |-> IF c = "bq" THEN <<"bq", "bq">> ELSE <<c>>]
QuoteIdentifier(s) == <<"bq">> \o Each(s, NameEscapes) \o <<"bq">>

\* What MySQL reads of a backslash and c.
Escaped(c) == CASE c = "n" -> "nl" [] c = "0" -> "nul" [] OTHER -> c

\* What MySQL reads of a text that begins with an opening quote: the value, or
\* "bad" when the quote is closed before the end or not at all.
LiteralStep(s, quote) ==
    [x \in Reading(Characters) |->
        IF x.open # quote THEN x
        ELSE IF x.i > Len(s) THEN [x EXCEPT !.open = "bad"]
        ELSE IF Starts(s, x.i, <<quote, quote>>) THEN Take(x, 2, <<quote>>)
        ELSE IF s[x.i] = quote THEN [x EXCEPT !.open = IF x.i = Len(s) THEN "closed" ELSE "bad"]
        ELSE IF s[x.i] = "\\" /\ quote # "bq" /\ x.i < Len(s)
          THEN Take(x, 2, <<Escaped(s[x.i + 1])>>)
        ELSE Take(x, 1, <<s[x.i]>>)]
ReadLiteral(s, quote) ==
    LET end == Loop(Begin(2, quote), LiteralStep(s, quote), Len(s) + 1) IN
    IF s # <<>> /\ s[1] = quote /\ end.open = "closed" THEN end.out ELSE <<"bad">>

\* Where the first p begins in s from position i on, behind s if nowhere.
Find(s, i, p) == Least({j \in i..Len(s) : Starts(s, j, p)} \union {Len(s) + 1})

\* in_string and string_char: the quote that is open, or "none".  Inside a
\* string a doubled quote is kept, a backslash is a character like others.
StripStep(s) ==
    [x \in Reading(Characters) |->
        IF x.i > Len(s) THEN x
        ELSE IF x.open # "none" THEN
          IF Starts(s, x.i, <<x.open, x.open>>) THEN Take(x, 2, <<x.open, x.open>>)
          ELSE [Take(x, 1, <<s[x.i]>>) EXCEPT !.open = IF s[x.i] = @ THEN "none" ELSE @]
        ELSE IF s[x.i] \in {"'", "\""} THEN [Take(x, 1, <<s[x.i]>>) EXCEPT !.open = s[x.i]]
        ELSE IF Starts(s, x.i, <<"-", "-">>) THEN [x EXCEPT !.i = Find(s, @, <<"nl">>)]
        ELSE IF Starts(s, x.i, <<"/", "*">>) THEN
          LET end == Find(s, x.i + 2, <<"*", "/">>) IN
          [x EXCEPT !.i = IF end > Len(s) THEN end ELSE end + 2]
        ELSE Take(x, 1, <<s[x.i]>>)]

RemoveSQLComments(s) == Loop(Begin(1, "none"), StripStep(s), Len(s)).out

-----------------------------------------------------------------------------
(* JSON.                                                                   *)

JSONEscapes ==
    [c \in Characters |-> CASE c \in {"\"", "\\"} -> <<"\\", c>>
                       [] c = "nl" -> <<"\\", "n">>
                       [] c = "nul" -> <<"\\", "u", "0", "0", "0", "0">>
                       [] c = "ct" -> <<"\\", "u", "0", "0", "0", "1">>
                       [] OTHER    -> <<c>>]
EscapeForJSON(s) == Each(s, JSONEscapes)

\* The character of the code at positions i to i + 3: it is read as far as
\* it has digits, the last two make the character, and one without is lost.
\* A blank or sign before the digits, which stoul skips, is left out: no
\* escape of EscapeForJSON has one.
Decoded(s, i) ==
    LET read == {n \in i..(i + 3) : \A j \in i..n : s[j] \in {"0", "1"}}
        low  == {n \in read : n + 2 \notin read} IN
    IF read = {} THEN "\\" ELSE IF \A n \in low : s[n] = "0" THEN "nul" ELSE "ct"

\* An escape nobody knows, or one that the text ends in, stays as it is.
UnescapeStep(s) ==
    [x \in Reading(Characters) |->
        LET next == s[x.i + 1] IN
        IF x.i > Len(s) THEN x
        ELSE IF s[x.i] # "\\" \/ x.i = Len(s) THEN Take(x, 1, <<s[x.i]>>)
        ELSE CASE next \in {"\"", "\\"} -> Take(x, 2, <<next>>)
               [] next = "n" -> Take(x, 2, <<"nl">>)
               [] next = "u" /\ x.i + 5 <= Len(s) -> Take(x, 6, <<Decoded(s, x.i + 2)>>)
               [] OTHER -> Take(x, 1, <<"\\">>)]

UnescapeFromJSON(s) == Loop(Begin(1, "none"), UnescapeStep(s), Len(s)).out

-----------------------------------------------------------------------------
(* Names and wildcards.                                                    *)

Blanks == {" ", "nl"}

Trim(s) ==
    LET kept == {i \in 1..Len(s) : s[i] \notin Blanks} IN
    IF kept = {} THEN <<>>
    ELSE SubSeq(s, CHOOSE i \in kept : \A j \in kept : i <= j,
                   CHOOSE i \in kept : \A j \in kept : i >= j)

\* The quotes around a name are taken off, those within stay doubled.
NormalizeTableName(s) ==
    LET t == Trim(s) IN
    IF Len(t) >= 2 /\ t[1] \in Quotes /\ t[1] = t[Len(t)] THEN SubSeq(t, 2, Len(t) - 1) ELSE t

\* The state of the loop: s and p, star_pos and match_pos, and whether it
\* has returned false; star is 0 until there is one.
Matching == [s : Nat, p : Nat, star : Nat, match : Nat, failed : BOOLEAN]
At(s, p, star, match) == [s |-> s, p |-> p, star |-> star, match |-> match, failed |-> FALSE]

\* Mutation: after a mismatch the search goes on behind it.
WildcardStepOn(str, pattern) ==
    [x \in Matching |->
        LET more == x.p <= Len(pattern) IN
        IF x.failed \/ x.s > Len(str) THEN x
        ELSE IF more /\ pattern[x.p] \in {"?", str[x.s]} THEN At(x.s + 1, x.p + 1, x.star, x.match)
        ELSE IF more /\ pattern[x.p] = "*" THEN At(x.s, x.p + 1, x.p, x.s)
        ELSE IF x.star # 0 THEN At(x.s + 1, x.star + 1, x.star, x.match)
        ELSE [x EXCEPT !.failed = TRUE]]

WildcardStep(str, pattern) ==
    [x \in Matching |->
        LET more == x.p <= Len(pattern) IN
        IF x.failed \/ x.s > Len(str) THEN x
        ELSE IF more /\ pattern[x.p] \in {"?", str[x.s]} THEN At(x.s + 1, x.p + 1, x.star, x.match)
        ELSE IF more /\ pattern[x.p] = "*" THEN At(x.s, x.p + 1, x.p, x.s)
        ELSE IF x.star # 0 THEN At(x.match + 1, x.star + 1, x.star, x.match + 1)
        ELSE [x EXCEPT !.failed = TRUE]]

\* Each step raises match, or p and not match.
MatchesWildcard(str, pattern) ==
    LET end == Loop(At(1, 1, 0, 0), WildcardStep(str, pattern), (Len(str) + 2) * (Len(pattern) + 1)) IN
    ~end.failed /\ \A i \in end.p..Len(pattern) : pattern[i] = "*"

-----------------------------------------------------------------------------
(* A pattern matches if the text can be cut into one piece for each of its *)
(* characters: any piece for a star, one character for a question mark,    *)
(* that character for another.  A text that itself has a star is left out: *)
(* there the code takes the pattern's star for that one character.         *)
WildcardMatchesPieces(str, pattern) ==
    LET n == Len(pattern) IN
    MatchesWildcard(str, pattern) <=>
        \E cut \in [0..n -> 0..Len(str)] :
            /\ cut[0] = 0 /\ cut[n] = Len(str)
            /\ \A i \in 1..n :
                IF pattern[i] = "*" THEN cut[i - 1] <= cut[i]
                ELSE cut[i] = cut[i - 1] + 1 /\ pattern[i] \in {"?", str[cut[i]]}

(* Every text comes back: from a literal and a quoted identifier as MySQL  *)
(* reads them, from JSON, and a literal that looks like a comment within   *)
(* survives the removal of comments.  A name without backquotes comes back *)
(* from NormalizeTableName.                                                *)
TextReadsBack(s) ==
    /\ ReadLiteral(QuoteForSQL(s), "'") = s
    /\ ReadLiteral(QuoteIdentifier(s), "bq") = s
    /\ RemoveSQLComments(QuoteForSQL(s)) = QuoteForSQL(s)
    /\ UnescapeFromJSON(EscapeForJSON(s)) = s
    /\ (\A i \in 1..Len(s) : s[i] # "bq") => NormalizeTableName(QuoteIdentifier(s)) = s
=============================================================================
