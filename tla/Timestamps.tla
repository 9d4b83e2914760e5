----------------------------- MODULE Timestamps -----------------------------
(***************************************************************************)
(* A timestamp's way through the driver: a cell, milliseconds since 1970   *)
(* (a number, or the text of one) or the text of a date, becomes an        *)
(* SQL_TIMESTAMP_STRUCT (timestampFromCell in convert.cpp,                 *)
(* timestampFromEpochMillis and parseTimestampString in api_helpers.cpp);  *)
(* the application binds it as a parameter, formatTimestamp renders it as a*)
(* literal, and the broker reads that as the driver would.                 *)
(*                                                                         *)
(* A text is its date, its time if it has one, and the digits of its       *)
(* fraction.  The calendar is the C library's.                             *)
(***************************************************************************)
EXTENDS Integers, Sequences

CONSTANTS
    Calendar(_),  \* the date of a day since 1970, as gmtime_r has it
    Millis,       \* the cells in milliseconds
    Dates, Times, \* what stands in texts
    MaxDigits     \* bound: digits of a fraction

ASSUME TimestampsAssumption ==
    /\ Millis \subseteq Int /\ MaxDigits \in Nat
    /\ \A ms \in Millis : LET date == Calendar(ms \div 86400000) IN
           /\ date \in [year : Int, month : Int, day : Int]
           /\ 1 <= date.month /\ date.month <= 12 /\ 1 <= date.day /\ date.day <= 31
    /\ Dates \subseteq [year : Int, month : Int, day : Int]
    /\ Times \subseteq [hour : Int, minute : Int, second : Int]

VARIABLES
    answer,   \* what the broker answered
    text,   \* the text being read
    pos,    \* the next digit of the fraction
    digits, value,
    ts,     \* the struct that is being filled
    given,  \* the struct the application has, once it has one
    stage

stampVars == <<answer, text, pos, digits, value, ts, given, stage>>

-----------------------------------------------------------------------------
(* Arithmetic *)

\* Division of C: the quotient is cut off, the remainder has the dividend's sign.
Quotient(x, n) == IF x < 0 THEN -((-x) \div n) ELSE x \div n
Remainder(x, n) == x - n * Quotient(x, n)

\* SQLSMALLINT
Short(x) == ((x + 32768) % 65536) - 32768
ShortDate(d) == [d EXCEPT !.year = Short(d.year)]

Struct(date, time, fraction) == [date |-> date, time |-> time, fraction |-> fraction]

Midnight == [hour |-> 0, minute |-> 0, second |-> 0]
Nothing == Struct([year |-> 0, month |-> 0, day |-> 0], Midnight, 0)

-----------------------------------------------------------------------------
(* Init *)

Digits == {0, 7}
Fractions == UNION {[1..k -> Digits] : k \in 0..MaxDigits}
Texts == [date : Dates, form : {"timestamp"}, time : Times, fraction : Fractions]
         \cup [date : Dates, form : {"date"}, time : {Midnight}, fraction : {<<>>}]
NoText == [date |-> Nothing.date, form |-> "date", time |-> Midnight, fraction |-> <<>>]

StampInit ==
    /\ \/ \E ms \in Millis : answer = [kind |-> "millis", ms |-> ms] /\ text = NoText /\ stage = "millis"
       \/ \E t \in Texts : answer = [kind |-> "text", text |-> t] /\ text = t /\ stage = "text"
    /\ pos = 1 /\ digits = 0 /\ value = 0
    /\ ts = Nothing /\ given = Nothing

-----------------------------------------------------------------------------
(* timestampFromEpochMillis *)

\* A remainder below zero borrows a second; the variant borrows none.
SecondsCut(ms) == Quotient(ms, 1000)
Seconds(ms) == Quotient(ms, 1000) - (IF Remainder(ms, 1000) < 0 THEN 1 ELSE 0)
Rest(ms) == Remainder(ms, 1000) + (IF Remainder(ms, 1000) < 0 THEN 1000 ELSE 0)

\* gmtime_r
DayOf(secs) == secs \div 86400
TimeOf(secs) ==
    [hour |-> (secs % 86400) \div 3600, minute |-> (secs % 3600) \div 60, second |-> secs % 60]

FromEpochMillis ==
    LET secs == Seconds(answer.ms) IN
    /\ stage = "millis"
    /\ ts' = Struct(ShortDate(Calendar(DayOf(secs))), TimeOf(secs), Rest(answer.ms) * 1000000)
    /\ stage' = "made"
    /\ UNCHANGED <<answer, text, pos, digits, value, given>>

-----------------------------------------------------------------------------
(* parseTimestampString *)

DateOk(d) == 1 <= d.month /\ d.month <= 12 /\ 1 <= d.day /\ d.day <= 31

\* A minute may have a leap second.
NoneBelow(t) == 0 <= t.hour /\ 0 <= t.minute /\ 0 <= t.second
TimeOk(t) == NoneBelow(t) /\ t.hour <= 23 /\ t.minute <= 59 /\ t.second <= 60

Accepted == DateOk(text.date) /\ (text.form = "timestamp" => TimeOk(text.time))

\* 22018: a text with dashes is not a number of milliseconds either.
Refuse ==
    /\ stage = "text" /\ ~Accepted
    /\ stage' = "refused"
    /\ UNCHANGED <<answer, text, pos, digits, value, ts, given>>

\* The fields; digits of a fraction follow only a time.
Fields ==
    /\ stage = "text" /\ Accepted
    /\ ts' = Struct(ShortDate(text.date), text.time, 0)
    /\ pos' = 1 /\ digits' = 0 /\ value' = 0
    /\ stage' = "digits"
    /\ UNCHANGED <<answer, text, given>>

\* Nine digits, which 32 bits hold.  The variant stops before the last.
FewerThanEight == digits < 8
FewerThanNine == digits < 9

ReadDigit ==
    /\ stage = "digits" /\ pos <= Len(text.fraction) /\ FewerThanNine
    /\ value' = value * 10 + text.fraction[pos]
    /\ digits' = digits + 1 /\ pos' = pos + 1
    /\ UNCHANGED <<answer, text, ts, given, stage>>

\* The digits beyond the ninth are skipped.
DigitsRead ==
    /\ stage = "digits" /\ (pos > Len(text.fraction) \/ ~FewerThanNine)
    /\ pos' = Len(text.fraction) + 1
    /\ stage' = "pad"
    /\ UNCHANGED <<answer, text, digits, value, ts, given>>

Pad ==
    /\ stage = "pad" /\ FewerThanNine
    /\ value' = value * 10
    /\ digits' = digits + 1
    /\ UNCHANGED <<answer, text, pos, ts, given, stage>>

Padded ==
    /\ stage = "pad" /\ ~FewerThanNine
    /\ ts' = [ts EXCEPT !.fraction = value]
    /\ stage' = IF given = Nothing THEN "made" ELSE "read"
    /\ UNCHANGED <<answer, text, pos, digits, value, given>>

-----------------------------------------------------------------------------
(* convertCell and renderParameter *)

\* SQL_C_TYPE_TIMESTAMP; a date or a time is the fields of their names.
Deliver ==
    /\ stage = "made"
    /\ given' = ts
    /\ stage' = "bound"
    /\ UNCHANGED <<answer, text, pos, digits, value, ts>>

\* %03u; the variant prints no zeros in front.
ThreeDigits(m) == <<m \div 100, (m \div 10) % 10, m % 10>>
AsFewDigits(m) == IF m < 10 THEN <<m>> ELSE IF m < 100 THEN <<m \div 10, m % 10>> ELSE ThreeDigits(m)
Printed(m) == ThreeDigits(m)

FormatTimestamp ==
    LET millis == given.fraction \div 1000000 IN
    /\ stage = "bound"
    /\ text' = [date |-> given.date, form |-> "timestamp", time |-> given.time,
                fraction |-> IF millis > 0 THEN Printed(millis) ELSE <<>>]
    /\ ts' = Nothing
    /\ stage' = "text"
    /\ UNCHANGED <<answer, pos, digits, value, given>>

StampNext ==
    \/ FromEpochMillis \/ Refuse \/ Fields \/ ReadDigit \/ DigitsRead \/ Pad \/ Padded
    \/ Deliver \/ FormatTimestamp

StampSpec == StampInit /\ [][StampNext]_stampVars

-----------------------------------------------------------------------------
(* Properties *)

DateInRange(d) ==
    /\ d \in [year : Int, month : Int, day : Int]
    /\ -32768 <= d.year /\ d.year < 32768
    /\ 1 <= d.month /\ d.month <= 12 /\ 1 <= d.day /\ d.day <= 31
TimeInRange(t) ==
    /\ t \in [hour : Int, minute : Int, second : Int]
    /\ 0 <= t.hour /\ t.hour < 24
    /\ 0 <= t.minute /\ t.minute < 60 /\ 0 <= t.second /\ t.second <= 60
InRange(s) ==
    /\ s = Struct(s.date, s.time, s.fraction)
    /\ DateInRange(s.date) /\ TimeInRange(s.time)
    /\ s.fraction \in Nat /\ s.fraction < 1000000000

\* Every struct that is made has fields that SQL allows, whatever the
\* milliseconds, the text and the number of its digits.
StampTypeOK ==
    /\ digits \in 0..9
    /\ stage \in {"made", "read"} => InRange(ts)

TimeOfDay(t) == (t.hour * 60 + t.minute) * 60 + t.second

\* Milliseconds, before 1970 too, become the moment they count: the day they
\* fall into and the part of it that has passed.
MomentKept ==
    answer.kind = "millis" /\ stage = "made" =>
        /\ ts.date = ShortDate(Calendar(answer.ms \div 86400000))
        /\ TimeOfDay(ts.time) * 1000 + (ts.fraction \div 1000000) = answer.ms % 86400000
        /\ ts.fraction % 1000000 = 0

\* The value of a fraction's first nine digits, in nanoseconds.
Powers == <<100000000, 10000000, 1000000, 100000, 10000, 1000, 100, 10, 1>>
Nanoseconds(f) ==
    LET sum[k \in 0..9] ==
            IF k = 0 THEN 0 ELSE sum[k - 1] + (IF k <= Len(f) THEN f[k] * Powers[k] ELSE 0)
    IN  sum[9]

\* A fraction is read to nine places, with as many digits as it has; and what
\* the application gives back as a parameter names the moment that it was
\* given, to the millisecond.
LiteralNamesMoment ==
    /\ answer.kind = "text" /\ stage = "made" =>
           ts.fraction = Nanoseconds(answer.text.fraction)
    /\ stage = "read" => ts = [given EXCEPT !.fraction = @ - (@ % 1000000)]
    /\ stage = "refused" => given = Nothing

=============================================================================
