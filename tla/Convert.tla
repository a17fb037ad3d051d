------------------------------ MODULE Convert ------------------------------
(***************************************************************************)
(* What R gets to see of the documents of a page: bson2list() converts the *)
(* values of each, with the widths that BSON and R give their numbers.     *)
(* The widths are parameters, so that small words have all the edges of    *)
(* the real ones: the integer that is R's NA, numbers a double does not    *)
(* hold, unsigned words in signed integers, times before 1970.             *)
(*                                                                         *)
(* Strings, symbols, code, binaries, booleans and null keep their value    *)
(* and are left out; so are decimals, which R reads as doubles.            *)
(***************************************************************************)
EXTENDS Paging, Sequences

CONSTANTS Bits,      \* 32: an int32, a word of a timestamp, R's integer
          Wide,      \* 64: an int64, a date
          TimeBits,  \* 32 or 64: a time_t
          Mantissa,  \* 53: integers up to 2^Mantissa are exact in a double
          Base,      \* 10
          Digits,    \* 3: of the milliseconds in a date
          SecBits,   \* 10: 2^SecBits is more than the milliseconds in a second
          Year(_),   \* gmtime: the year of a time_t, and the rest of its text
          InYear(_)  \* ("01-31T23:59:59", which has a fixed width) as a number

\* b to the n.
Power(b, n) ==
    LET power[k \in Nat] == IF k = 0 THEN 1 ELSE b * power[k - 1]
    IN  power[n]

Half(w)   == Power(2, w - 1)
Words(w)  == -Half(w) .. Half(w) - 1
Unsigned  == 0 .. Power(2, Bits) - 1
PerSecond == Power(Base, Digits)

ASSUME ConvertAssumption ==
    /\ {Bits, Wide, TimeBits, Mantissa, Base, Digits, SecBits} \subseteq Nat
    /\ 1 < Bits /\ Bits <= Mantissa /\ Mantissa < Wide
    /\ 1 < TimeBits
    /\ Base > 1 /\ Digits > 1
    /\ SecBits <= Mantissa /\ PerSecond < Power(2, SecBits)

\* Times have a year and a place in it, and go on from year to year.
ASSUME CalendarAssumption ==
    /\ Year(0) \in Nat
    /\ \A s \in Words(TimeBits) : Year(s) \in Words(Wide) /\ InYear(s) \in Nat
    /\ \A s, t \in Words(TimeBits) : s < t =>
          \/ Year(s) < Year(t)
          \/ Year(s) = Year(t) /\ InYear(s) < InYear(t)

NA == -Half(Bits)

\* The values of R, each with its class.
Integer(n) == [class |-> "integer", val |-> n]
Real(n)    == [class |-> "numeric", val |-> n]
String(s)  == [class |-> "character", val |-> s]
POSIXct(n) == [class |-> "POSIXct", val |-> n]

Abs(n)  == IF n < 0 THEN -n ELSE n
Sign(n) == IF n < 0 THEN -1 ELSE 1

\* a / d as a double: the nearest number with Mantissa bits, the even one of two.
Round(a, d) ==
    LET shift == CHOOSE k \in 0 .. Wide + Mantissa + SecBits :
                    /\ a < d * Power(2, Mantissa + k)
                    /\ k > 0 => a >= d * Power(2, Mantissa + k - 1)
        unit  == d * Power(2, shift)
        low   == a \div unit
        rest  == 2 * (a % unit)
        up    == rest > unit \/ (rest = unit /\ low % 2 = 1)
    IN  (IF up THEN low + 1 ELSE low) * Power(2, shift)

\* (double) n
Double(n) == Sign(n) * Round(Abs(n), 1)

\* n / 1000.0, in units of 2^-(Mantissa + SecBits), which are small enough for
\* every double there is between the quotients of two integers.
PerThousand(n) ==
    Sign(n) * Round(Abs(Double(n)) * Power(2, Mantissa + SecBits), PerSecond)

\* C's quotient and remainder, which is negative for a negative n.
Quot(n, m) == Sign(n) * (Abs(n) \div m)
Rem(n, m)  == Sign(n) * (Abs(n) % m)

\* (int) of an unsigned word.
ToInt(u) == IF u < Half(Bits) THEN u ELSE u - Power(2, Bits)

\* Conversion to a signed word of w bits.
ToWord(n, w) == ((n + Half(w)) % Power(2, w)) - Half(w)

\* A text is a sequence of digits and of minus signs, -1, which are smaller than
\* every digit.
Digit(n, i) == (n \div Power(Base, i)) % Base
Padded(n, w) == [i \in 1 .. w |-> Digit(n, w - i)]

\* "%d", and the "%Y" of strftime.
Width(a) == CHOOSE k \in 1 .. Wide :
                a < Power(Base, k) /\ (k > 1 => a >= Power(Base, k - 1))
Decimal(n) ==
    (IF n < 0 THEN <<-1>> ELSE <<>>) \o Padded(Abs(n), Width(Abs(n)))

\* "%03d"
Millis(n) ==
    IF n >= 0 THEN Padded(n, Digits)
    ELSE <<-1>> \o Padded(-n, IF -n < Power(Base, Digits - 1) THEN Digits - 1
                                                              ELSE Digits)

-----------------------------------------------------------------------------
NeverNA(n) == Integer(n)

\* An int32 that R would take for NA becomes a double.
ConvertInt32(n) == IF n = NA THEN Real(n) ELSE Integer(n)

ConvertInt64(n, bigint_as_char) ==
    IF bigint_as_char THEN String(n) ELSE Real(Double(n))

ConvertTimestamp(t, i) == <<Integer(ToInt(t)), Integer(ToInt(i))>>

SecondsAsInt(n) == ToWord(Quot(n, PerSecond), Bits)

\* time_t secs = epoch / 1000.  A comment there says "coerce int64 to int32",
\* which is the case only where a time_t has 32 bits.
Seconds(n) == ToWord(Quot(n, PerSecond), TimeBits)

NoPadding(s, ms) == Decimal(Year(s)) \o <<-1, InYear(s)>> \o Decimal(ms)

\* "%Y-%m-%dT%H:%M:%S.%03dZ": the year has as many digits as it needs.
DateText(s, ms) == Decimal(Year(s)) \o <<-1, InYear(s)>> \o Millis(ms)

ConvertDate(n, date_as_char) ==
    IF date_as_char THEN String(DateText(Seconds(n), Rem(n, PerSecond)))
                    ELSE POSIXct(PerThousand(n))

-----------------------------------------------------------------------------
(* Properties, of the documents in the pages that R lists were made of.     *)

\* Whether a sequence of numbers comes before another.
Before(s, t) ==
    \E i \in 1 .. Len(t) :
        /\ \A j \in 1 .. i - 1 : j <= Len(s) /\ s[j] = t[j]
        /\ i > Len(s) \/ s[i] < t[i]

Int32Kept ==
    \A n \in Words(Bits) :
        LET r == ConvertInt32(n)
        IN  r.val = n /\ ~(r.class = "integer" /\ r.val = NA)

Int64Kept ==
    \A n \in Words(Wide) :
        /\ ConvertInt64(n, TRUE) = String(n)
        /\ Abs(n) <= Power(2, Mantissa) => ConvertInt64(n, FALSE) = Real(n)

TimestampsDistinct ==
    \A t, u \in Unsigned : t # u =>
        /\ ConvertTimestamp(t, 0) # ConvertTimestamp(u, 0)
        /\ ConvertTimestamp(0, t) # ConvertTimestamp(0, u)

\* The dates whose seconds a time_t holds: all of them if it has 64 bits.
Timely == {n \in Words(Wide) : Quot(n, PerSecond) \in Words(TimeBits)}

DatesDistinct ==
    \A n, m \in Timely : n # m => ConvertDate(n, TRUE) # ConvertDate(m, TRUE)

SameWidth(n, m) == Width(Year(Seconds(n))) = Width(Year(Seconds(m)))

TextsOrdered ==
    \A n, m \in Timely : 0 <= n /\ n < m /\ SameWidth(n, m) =>
        Before(ConvertDate(n, TRUE).val, ConvertDate(m, TRUE).val)

\* The milliseconds that doubles keep apart after the division.
Near(n) == Abs(n) < PerSecond * Power(2, Mantissa - SecBits)

TimesOrdered ==
    \A n, m \in Words(Wide) : n < m =>
        /\ ConvertDate(n, FALSE).val <= ConvertDate(m, FALSE).val
        /\ Near(n) /\ Near(m) => ConvertDate(n, FALSE) # ConvertDate(m, FALSE)

\* R_mongo_cursor_next_page has made a list of every document of a page.
ListsMade == who # "lines" /\ out # {}

\* An integer is the same number in R, and no number is missing: an int32
\* always, an int64 up to 2^53, and beyond that if bigint_as_char is set.
NumbersKept == ListsMade => Int32Kept /\ Int64Kept

\* Different values are different in R: timestamps in all 32 bits, although the
\* larger ones become negative or NA, and dates as text before 1970 and long after
\* 2038, although their milliseconds are then negative and their years have more
\* or fewer digits, as long as a time_t holds their seconds (bson.c:143).
ValuesDistinct == ListsMade => TimestampsDistinct /\ DatesDistinct

\* Dates sort as text as they do as times, from 1970 on, while their years have
\* the same number of digits (to the end of 9999); as POSIXct (bson.c:154) they
\* never change places, and are different up to 1000 * 2^43 milliseconds, which
\* is less than the 2^53 that doubles hold: the division by 1000.0 rounds.
DatesSorted == ListsMade => TextsOrdered /\ TimesOrdered
=============================================================================
