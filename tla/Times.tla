-------------------------------- MODULE Times --------------------------------
(* TimeUtils: times and durations as texts.  A time is a number of         *)
(* seconds and of microseconds since the epoch, in a year of four digits;  *)
(* zone is the seconds that local standard time is ahead of UTC, saving    *)
(* those that daylight saving adds at that time.  A time's text is the     *)
(* date and time it shows (counted in seconds as well), the digits behind  *)
(* its dot and what stands at its end.                                     *)
EXTENDS Integers, Sequences

Micros == {n \in Nat : n < 10^6}
Stamp(shown, fraction, suffix) == [shown |-> shown, fraction |-> fraction, suffix |-> suffix]
Fraction(value, digits) == [value |-> value, digits |-> digits]
NoFraction == Fraction(0, 0)

Local(time, zone, saving) == time.seconds + zone + saving
FormatMySQLTimestampWithMicros(time, zone, saving) ==
    Stamp(Local(time, zone, saving), Fraction(time.micros, 6), "none")
FormatMySQLTimestamp(time, zone, saving) ==
    Stamp(Local(time, zone, saving), NoFraction, "none")
FormatISO8601(time, zone, saving) == Stamp(Local(time, zone, saving), NoFraction, "offset")
FormatISO8601UTC(time) == Stamp(time.seconds, NoFraction, "Z")
FormatISO8601WithMillis(time, zone, saving) ==
    Stamp(Local(time, zone, saving), Fraction(time.micros \div 1000, 3), "offset")

\* Mutation: what is shown is taken for UTC.
ParseMySQLDateTimeUTC(stamp, zone) ==
    [seconds |-> stamp.shown, micros |-> stamp.fraction.value]

\* What is shown is taken for standard time (tm_isdst is 0).  The digits
\* behind the dot are taken for microseconds, however many they are; a
\* number of them above a second's is carried.
ParseMySQLDateTime(stamp, zone) ==
    [seconds |-> stamp.shown - zone + stamp.fraction.value \div 10^6,
     micros  |-> stamp.fraction.value % 10^6]

\* Whatever stands at the end, "Z" or an offset, what is shown is taken for
\* local standard time; a fraction is not read.
ParseISO8601(stamp, zone) == [seconds |-> stamp.shown - zone, micros |-> 0]

-----------------------------------------------------------------------------
(* A duration is a number of milliseconds, its text a sequence of numbers  *)
(* and their units.                                                        *)

Unit == [d |-> 86400000, h |-> 3600000, m |-> 60000, s |-> 1000, ms |-> 1]
Shown(n, unit, also) == IF n > 0 \/ also THEN <<[n |-> n, unit |-> unit]>> ELSE <<>>
WholeSeconds(duration) == IF duration < 0 THEN 0 ELSE duration \div 1000

FormatDuration(duration) ==
    LET total   == WholeSeconds(duration)
        hours   == total \div 3600
        minutes == (total % 3600) \div 60 IN
    Shown(hours, "h", FALSE) \o Shown(minutes, "m", hours > 0) \o Shown(total % 60, "s", TRUE)

FormatDurationHuman(duration) ==
    LET total   == WholeSeconds(duration)
        days    == total \div 86400
        hours   == (total % 86400) \div 3600
        minutes == (total % 3600) \div 60 IN
    IF duration \in 0..999 THEN Shown(duration, "ms", TRUE)
    ELSE Shown(days, "d", FALSE) \o Shown(hours, "h", days > 0)
             \o Shown(minutes, "m", days + hours > 0) \o Shown(total % 60, "s", TRUE)

ReadDuration(text) ==
    LET Sum[i \in 0..Len(text)] ==
            IF i = 0 THEN 0 ELSE Sum[i - 1] + text[i].n * Unit[text[i].unit]
    IN Sum[Len(text)]

-----------------------------------------------------------------------------
(* A time comes back from its MySQL text to the microsecond, and from an   *)
(* ISO 8601 text in local time to the second, later by what daylight       *)
(* saving added to it; from one in UTC only where local standard time is   *)
(* UTC.                                                                    *)
TimesReadBack(time, zone, saving) ==
    LET whole    == [time EXCEPT !.micros = 0]
        Later(t) == [t EXCEPT !.seconds = @ + saving] IN
    /\ ParseMySQLDateTime(FormatMySQLTimestampWithMicros(time, zone, saving), zone) = Later(time)
    /\ ParseMySQLDateTime(FormatMySQLTimestamp(time, zone, saving), zone) = Later(whole)
    /\ ParseISO8601(FormatISO8601(time, zone, saving), zone) = Later(whole)
    /\ ParseISO8601(FormatISO8601WithMillis(time, zone, saving), zone) = Later(whole)
    /\ ParseISO8601(FormatISO8601UTC(time), zone) = whole <=> zone = 0

(* The text of a duration says its whole seconds, below one second the one *)
(* for people says its milliseconds; no unit is shown with as much as the  *)
(* next larger one.                                                        *)
DurationsReadBack(duration) ==
    LET whole == 1000 * WholeSeconds(duration)
        human == FormatDurationHuman(duration) IN
    /\ ReadDuration(FormatDuration(duration)) = whole
    /\ ReadDuration(human) = IF duration \in 0..999 THEN duration ELSE whole
    /\ \A text \in {FormatDuration(duration), human} : \A i \in 2..Len(text) :
          text[i].n * Unit[text[i].unit] < Unit[text[i - 1].unit]
=============================================================================
