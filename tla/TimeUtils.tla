----------------------------- MODULE TimeUtils -----------------------------
(***************************************************************************)
(* Times of a collector: the intervals of common/src/c++/utils/            *)
(* time_utils.cpp, and the ways between a timespec, a FIX timestamp and a  *)
(* ptime of fix_convertors.cpp, by which the sending time of a message     *)
(* gets into the books.                                                    *)
(*                                                                         *)
(* External: the calendar (gmtime, FIX::DateTime) and the decimal digits   *)
(* of a timestamp.                                                         *)
(***************************************************************************)
EXTENDS Integers

CONSTANTS
  K,        \* 1000: nanoseconds in a microsecond, and so on
  Day,      \* seconds in a day
  IntMod,   \* an int counts modulo this, half of it below zero
  LongMod,  \* a uint64_t counts modulo this
  Times     \* the times looked at

Micro == K
Milli == K * K
NANOS_PER_SECOND == K * K * K

ASSUME TimeAssumption == /\ K \in Nat \ {0, 1} /\ Day \in Nat \ {0}
                         /\ IntMod \in Nat \ {0} /\ LongMod \in Nat \ {0}
                         /\ Times \subseteq [sec : Nat, nsec : 0 .. NANOS_PER_SECOND - 1]

VARIABLES from, to, made

timeVars == <<from, to, made>>

(* A time as one number (timespec2int64_t), for as long as an int64_t      *)
(* holds it.                                                               *)
Nanos(ts) == ts.sec * NANOS_PER_SECOND + ts.nsec

-----------------------------------------------------------------------------
(* Mutant of Delta: no second is borrowed.                                 *)
DeltaWithoutBorrow(start, end) ==
  [sec |-> end.sec - start.sec, nsec |-> (end.nsec - start.nsec) % NANOS_PER_SECOND]

Delta(start, end) ==
  IF end.nsec - start.nsec < 0
  THEN [sec |-> end.sec - start.sec - 1, nsec |-> NANOS_PER_SECOND + end.nsec - start.nsec]
  ELSE [sec |-> end.sec - start.sec, nsec |-> end.nsec - start.nsec]

(* Each time is cut to microseconds before they are subtracted.            *)
Micros(ts) == ts.sec * Milli + ts.nsec \div Micro

DeltaMillis(start, end) == ((Micros(end) - Micros(start)) % LongMod) \div K

-----------------------------------------------------------------------------
UtcTimeStamp == [date : Nat, second : 0 .. Day - 1, millis : 0 .. K - 1]

AsInt(n) == ((n + IntMod \div 2) % IntMod) - IntMod \div 2

(* Mutant of MillisOf: only the first of the code's cases is left.         *)
MillisRounded(nanos) == (nanos + Milli \div 10) \div Milli

(* The rounding of the first case is for nanoseconds that make a second.   *)
MillisOf(nanos) ==
  IF nanos <= Milli - 1 THEN 0
  ELSE IF nanos <= NANOS_PER_SECOND - 1 THEN nanos \div Milli
  ELSE (nanos + Milli \div 10) \div Milli

ToUtc(ts) ==
  LET seconds == AsInt(ts.sec)
  IN  [date |-> seconds \div Day, second |-> seconds % Day, millis |-> MillisOf(ts.nsec)]

FromUtc(t) == [sec |-> t.date * Day + t.second, nsec |-> t.millis * Milli]

(* The timestamp's digits are copied, three zeros are put behind them, and *)
(* the whole is read as a date, a time and microseconds.                   *)
ToPTime(t) == [sec |-> t.date * Day + t.second, micros |-> t.millis * K]

-----------------------------------------------------------------------------
Makes(what, value) == made' = [what |-> what, value |-> value] /\ UNCHANGED <<from, to>>

TimeInit == from \in Times /\ to \in Times /\ made = [what |-> "none"]

TimespecDelta == Makes("delta", Delta(from, to))
TimespecDeltaMillis == Makes("millis", DeltaMillis(from, to))
TimespecToUTCTimeStamp == Makes("utc", ToUtc(to))
UTCTimeStampToTimespec == made.what = "utc" /\ Makes("timespec", FromUtc(made.value))

(* The digits need 27 characters: in a shorter buffer nothing is written,  *)
(* and the ptime stays as it was.                                          *)
UTCTimeStampToPTime ==
  /\ made.what = "utc"
  /\ \E buflen \in {0, 26, 27} : IF buflen < 27 THEN Makes("noPTime", made.value)
                                ELSE Makes("ptime", ToPTime(made.value))

TimeNext ==
  \/ TimespecDelta \/ TimespecDeltaMillis
  \/ TimespecToUTCTimeStamp \/ UTCTimeStampToTimespec \/ UTCTimeStampToPTime

TimeSpec == TimeInit /\ [][TimeNext]_timeVars

-----------------------------------------------------------------------------
(* An interval added to its start is its end, whichever is the later and   *)
(* whether a second was borrowed or not, and its nanoseconds are less than *)
(* a second.  Counted in milliseconds, with three divisions that cut, it   *)
(* is less than a millisecond too short and less than a microsecond too    *)
(* long; this is of times in their order, and of no more microseconds than *)
(* the counter has.                                                        *)
IntervalsAdd ==
  /\ made.what = "delta" =>
       /\ Nanos(from) + Nanos(made.value) = Nanos(to)
       /\ made.value.nsec \in 0 .. NANOS_PER_SECOND - 1
  /\ made.what = "millis" /\ Nanos(from) <= Nanos(to) /\ Micros(to) < LongMod =>
       LET exact == Nanos(to) - Nanos(from)
       IN  exact - Milli < made.value * Milli /\ made.value * Milli < exact + Micro

(* A time that goes out as a FIX timestamp and comes back has lost less    *)
(* than a millisecond and is never ahead of what it was, so that times     *)
(* keep their order; a ptime made of the timestamp is the same instant.    *)
(* This is of seconds that an int holds, until 2038.                       *)
SendingTimeSurvives ==
  /\ made.what = "timespec" /\ to.sec < IntMod \div 2 =>
       /\ Nanos(made.value) <= Nanos(to) /\ Nanos(to) < Nanos(made.value) + Milli
       /\ Nanos(from) <= Nanos(to) => Nanos(FromUtc(ToUtc(from))) <= Nanos(made.value)
  /\ made.what = "ptime" /\ to.sec < IntMod \div 2 =>
       /\ made.value.sec = to.sec
       /\ made.value.micros * Micro <= to.nsec /\ to.nsec < made.value.micros * Micro + Milli
=============================================================================
