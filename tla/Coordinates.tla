----------------------------- MODULE Coordinates -----------------------------
(* Binlog coordinates, GTIDs and their sets, instance keys, and the        *)
(* numbers of versions.  A text is a sequence of tokens: names, numerals   *)
(* and the characters between them.                                        *)
EXTENDS Integers, Sequences

CONSTANTS
    Value,     \* the number that each numeral stands for
    Wide,      \* bound: the number of values of uint64_t
    PortWidth  \* bound: the number of values of uint16_t

None == -1
Comma == ","
Blank == " "
Numeral(n) == CHOOSE t \in DOMAIN Value : Value[t] = n
Drop(s, n) == SubSeq(s, n + 1, Len(s))
Places(s, t) == {i \in 1..Len(s) : s[i] = t}
Least(S) == CHOOSE i \in S : \A j \in S : i <= j
Greatest(S) == CHOOSE i \in S : \A j \in S : i >= j

Trim(s) ==
    LET kept == 1..Len(s) \ Places(s, Blank) IN
    IF kept = {} THEN <<>> ELSE SubSeq(s, Least(kept), Greatest(kept))

\* StringUtils::Split: a separator ends a part, and what is behind the last
\* separator is one too unless it is empty.
ReadOn(q, c, separator) ==
    IF c = separator THEN [parts |-> Append(q.parts, q.rest), rest |-> <<>>]
    ELSE [parts |-> q.parts, rest |-> Append(q.rest, c)]
Parted(s, separator) ==
    LET F[i \in 0..Len(s)] ==
            IF i = 0 THEN [parts |-> <<>>, rest |-> <<>>] ELSE ReadOn(F[i - 1], s[i], separator)
    IN F[Len(s)]
Split(s, separator) ==
    LET end == Parted(s, separator) IN
    IF end.rest = <<>> THEN end.parts ELSE Append(end.parts, end.rest)

\* ParseUInt64 and ParseUInt16: blanks may stand around the numeral, nothing
\* else behind it; a minus wraps around, and what does not fit is cut.
ParseUInt(s, width) ==
    LET t == Trim(s)
        negative == t # <<>> /\ t[1] = "-"
        digits == IF negative THEN Tail(t) ELSE t IN
    IF Len(digits) # 1 \/ digits[1] \notin DOMAIN Value THEN None
    ELSE (IF negative THEN (Wide - Value[digits[1]]) % Wide ELSE Value[digits[1]]) % width

OrZero(n) == IF n = None THEN 0 ELSE n

-----------------------------------------------------------------------------
(* BinlogCoordinates.                                                      *)

At(file, position) == [file |-> file, position |-> position]
IsValid(c) == c.file # <<>> /\ c.position > 0
ToString(c) == IF IsValid(c) THEN c.file \o <<":", Numeral(c.position)>> ELSE <<>>

Parse(s) ==
    LET parts == Split(s, ":") IN
    IF Len(parts) # 2 \/ ParseUInt(parts[2], Wide) = None THEN {}
    ELSE {At(parts[1], ParseUInt(parts[2], Wide))}

\* The number behind the last dot of a file's name, 0 for none.
ParseSequence(file) ==
    LET dots == Places(file, ".") IN
    IF dots = {} THEN 0 ELSE OrZero(ParseUInt(Drop(file, Greatest(dots)), Wide))

\* Mutation: the position is compared before the file.
LessByPosition(a, b) ==
    IF a.position # b.position THEN a.position < b.position
    ELSE ParseSequence(a.file) < ParseSequence(b.file)

Less(a, b) ==
    IF ParseSequence(a.file) # ParseSequence(b.file)
      THEN ParseSequence(a.file) < ParseSequence(b.file)
      ELSE a.position < b.position
LessEqual(a, b) == a = b \/ Less(a, b)
Greater(a, b) == ~LessEqual(a, b)
GreaterEqual(a, b) == ~Less(a, b)
IsLaterFile(a, b) == ParseSequence(a.file) > ParseSequence(b.file)

\* Two statements, between which the server may have gone on.
GetCurrentBinlogCoordinates(first, second) == At(first.file, second.position)

-----------------------------------------------------------------------------
(* GTIDs.                                                                  *)

GTID(domain, sequence) == [domain |-> domain, sequence |-> sequence]
IsValidGTID(g) == g.domain # <<>> /\ g.sequence > 0
GTIDToString(g) == g.domain \o <<":", Numeral(g.sequence)>>

ParseGTID(s) ==
    LET colons == Places(s, ":") IN
    IF colons = {} \/ ParseUInt(Drop(s, Least(colons)), Wide) = None THEN {}
    ELSE {GTID(SubSeq(s, 1, Least(colons) - 1), ParseUInt(Drop(s, Least(colons)), Wide))}

\* Mutation: the last one of a domain is kept.
AddLast(gtids, g) ==
    LET at == {i \in 1..Len(gtids) : gtids[i].domain = g.domain} IN
    IF ~IsValidGTID(g) THEN gtids
    ELSE IF at = {} THEN Append(gtids, g)
    ELSE [gtids EXCEPT ![Least(at)] = g]

\* A set is a sequence with the newest of each domain.
Add(gtids, g) ==
    LET at == {i \in 1..Len(gtids) : gtids[i].domain = g.domain} IN
    IF ~IsValidGTID(g) THEN gtids
    ELSE IF at = {} THEN Append(gtids, g)
    ELSE IF gtids[Least(at)].sequence < g.sequence THEN [gtids EXCEPT ![Least(at)] = g]
    ELSE gtids

Contains(gtids, g) ==
    \E i \in 1..Len(gtids) : gtids[i].domain = g.domain /\ gtids[i].sequence >= g.sequence

AddAll(gtids, added) ==
    LET F[i \in 0..Len(added)] == IF i = 0 THEN gtids ELSE Add(F[i - 1], added[i])
    IN F[Len(added)]

WriteOn(s, i, g) == s \o (IF i = 1 THEN <<>> ELSE <<Comma>>) \o GTIDToString(g)
SetToString(gtids) ==
    LET F[i \in 0..Len(gtids)] == IF i = 0 THEN <<>> ELSE WriteOn(F[i - 1], i, gtids[i])
    IN F[Len(gtids)]

\* What is no GTID, an interval too, is left out.
AddParsed(gtids, s) ==
    IF ParseGTID(s) = {} THEN gtids ELSE Add(gtids, CHOOSE g \in ParseGTID(s) : TRUE)
ParseSet(gtids, s) ==
    LET parts == Split(s, Comma)
        F[i \in 0..Len(parts)] == IF i = 0 THEN gtids ELSE AddParsed(F[i - 1], Trim(parts[i]))
    IN F[Len(parts)]

-----------------------------------------------------------------------------
(* Instance keys and versions.                                             *)

Key(host, port) == [host |-> host, port |-> port]
KeyToString(k) ==
    IF k.host # <<>> /\ k.port > 0 THEN k.host \o <<":", Numeral(k.port)>> ELSE <<>>

\* A port that does not fit is cut, not refused.
ParseKey(s) ==
    LET parts == Split(s, ":") IN
    IF Len(parts) # 2 \/ ParseUInt(parts[2], PortWidth) = None THEN {}
    ELSE {Key(Trim(parts[1]), ParseUInt(parts[2], PortWidth))}

\* InstanceKeyMap, a sequence without duplicates.
AddKey(keys, k) == IF \E i \in 1..Len(keys) : keys[i] = k THEN keys ELSE Append(keys, k)
KeepOther(keys, k, other) == IF other = k THEN keys ELSE Append(keys, other)
Remove(keys, k) ==
    LET F[i \in 0..Len(keys)] == IF i = 0 THEN <<>> ELSE KeepOther(F[i - 1], k, keys[i])
    IN F[Len(keys)]
FindByHost(keys, host) ==
    LET at == {i \in 1..Len(keys) : keys[i].host = host} IN
    IF at = {} THEN {} ELSE {keys[Least(at)]}

\* Digits and dots at the beginning; a part that is no number counts as 0.
VersionEnd(t) == Least({i \in 1..Len(t) : t[i] \notin DOMAIN Value \union {"."}} \union {Len(t) + 1})
ParseVersion(s) ==
    LET t == Trim(s)
        parts == Split(SubSeq(t, 1, VersionEnd(t) - 1), ".")
        Part(i) == IF i <= Len(parts) THEN OrZero(ParseUInt(parts[i], Wide)) ELSE 0
    IN IF parts = <<>> THEN None ELSE Part(1) * 10000 + Part(2) * 100 + Part(3)

-----------------------------------------------------------------------------
(* Among the coordinates of one server, whose files have one base name,    *)
(* the operators are one total order, that of the files first; and the     *)
(* coordinates that two statements have read are never later than the      *)
(* server's at the second, whatever it has done between.                   *)
CoordinatesAreOrdered(a, b, c) ==
    /\ ~Less(a, a)
    /\ Less(a, b) <=> Greater(b, a)
    /\ LessEqual(a, b) <=> GreaterEqual(b, a)
    /\ Less(a, b) /\ Less(b, c) => Less(a, c)
    /\ IsLaterFile(a, b) => Greater(a, b)
    /\ LessEqual(a, b) => LessEqual(GetCurrentBinlogCoordinates(a, b), b)

(* A set contains a GTID exactly if one as new of its domain has been      *)
(* added, in whatever order; and its text gives the same set.              *)
ContainsNewest(added, g) ==
    Contains(AddAll(<<>>, added), g) <=>
        \E i \in 1..Len(added) : /\ IsValidGTID(added[i]) /\ added[i].domain = g.domain
                                 /\ added[i].sequence >= g.sequence
SetKeepsNewest(added, g) ==
    LET gtids == AddAll(<<>>, added) IN
    ContainsNewest(added, g) /\ ParseSet(<<>>, SetToString(gtids)) = gtids

(* Coordinates and instance keys come back from their texts, and so does a *)
(* key from the map it is in; versions are ordered as their parts are.     *)
PlacesReadBack(c, port, other) ==
    /\ IsValid(c) => Parse(ToString(c)) = {c}
    /\ port \in 1..(PortWidth - 1) => ParseKey(KeyToString(Key(<<"host">>, port))) = {Key(<<"host">>, port)}
    /\ LET keys == AddKey(AddKey(<<>>, Key(<<"host">>, port)), Key(<<"host">>, other)) IN
        /\ FindByHost(keys, <<"host">>) = {Key(<<"host">>, port)}
        /\ FindByHost(Remove(keys, Key(<<"host">>, port)), <<"host">>)
             = {Key(<<"host">>, other)} \ {Key(<<"host">>, port)}
    /\ LET Version(n) == ParseVersion(<<"10", ".", Numeral(n), "-", "name">>) IN
        Version(port) < Version(other) <=> port < other
=============================================================================
