----------------------------- MODULE MarketHours -----------------------------
(***************************************************************************)
(* The trading week of market_hours.py: when the market is open, and the   *)
(* key that names a closure.  Time is counted from the midnight before a   *)
(* Monday, in a zone without daylight saving; a week is seven days.        *)
(***************************************************************************)
EXTENDS Integers

CONSTANTS
  Day,          \* units of time in a day
  WeeklyOpen,   \* market_weekly_open, from the start of the week
  WeeklyClose,  \* market_weekly_close
  BreakEnabled, \* market_daily_break_enabled
  BreakStart,   \* market_daily_break_start, from midnight
  BreakEnd,     \* market_daily_break_end
  NoKey         \* closure_key of an open market

ASSUME HoursAssumption ==
  /\ Day \in Nat \ {0} /\ BreakEnabled \in BOOLEAN
  /\ WeeklyOpen \in 0..(7 * Day - 1) /\ WeeklyClose \in 0..(7 * Day - 1)
  /\ BreakStart \in 0..(Day - 1) /\ BreakEnd \in 0..(Day - 1)
  /\ NoKey \notin Int

Week == 7 * Day

WeekStart(now) == now - (now % Week)

OpenAt(key) == [open |-> TRUE, key |-> key]
ClosedAt(key) == [open |-> FALSE, key |-> key]

\* The trading window of the week: it may reach over the end of the week.
Weekly(now) ==
  LET minute == now % Week
      inside == IF WeeklyOpen < WeeklyClose
                THEN WeeklyOpen <= minute /\ minute < WeeklyClose
                ELSE minute >= WeeklyOpen \/ minute < WeeklyClose
      before == WeeklyOpen < WeeklyClose /\ minute < WeeklyOpen
  IN  IF inside THEN OpenAt(NoKey)
      ELSE ClosedAt(WeekStart(now) + WeeklyClose - (IF before THEN Week ELSE 0))

\* The broker's daily break that now is in, by its start: it may reach over
\* midnight.
BreakBegan(now) ==
  LET midnight == now - (now % Day)
      start == midnight + BreakStart
      end == midnight + BreakEnd
  IN  IF end > start
      THEN IF start <= now /\ now < end THEN start ELSE NoKey
      ELSE IF now >= start THEN start
      ELSE IF now < end THEN start - Day ELSE NoKey

market_hours_state(now) ==
  IF Weekly(now).open /\ BreakEnabled /\ BreakBegan(now) # NoKey
  THEN ClosedAt(BreakBegan(now))
  ELSE Weekly(now)

-------------------------------------------------------------------------------
(* A closure at a time                                                     *)

\* How long the market is closed after the weekly close, and in a daily break.
WeeklyRest == (WeeklyOpen - WeeklyClose) % Week
BreakRest == BreakEnd - BreakStart + (IF BreakEnd > BreakStart THEN 0 ELSE Day)

\* A daily break is no longer than the weekend, as with the defaults of config.py
\* (160-164: an hour and two days, and no break at all unless it is enabled); a closure
\* could come back after another one.
ASSUME RestAssumption ==
  BreakEnabled => WeeklyRest = 0 \/ BreakRest <= WeeklyRest
=============================================================================
