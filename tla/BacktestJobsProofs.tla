-------------------------- MODULE BacktestJobsProofs --------------------------
(***************************************************************************)
(* What the backtest jobs leave right for any hours of the market, any ids *)
(* that clients post, free, used or a closure's, any number of jobs,       *)
(* folds, failures and restarts: a closure has one job at work, jobs meet  *)
(* on a run only when a client has posted its id, a COMPLETED run at rest  *)
(* is whole, and its stored trades are its job's own, with the exceptions  *)
(* that the properties name. That a closure has one job rests on the       *)
(* hours: the supervisor remembers one closure only, so a closure must not *)
(* come back after another one.                                            *)
(***************************************************************************)
EXTENDS BacktestJobs, SequenceTheorems, FiniteSetTheorems, TLAPS

-------------------------------------------------------------------------------
(* Time counted in days and weeks                                          *)

\* A time is a number of whole units and a rest smaller than the unit.
LEMMA Division ==
  ASSUME NEW d \in Nat \ {0}, NEW t \in Int
  PROVE  /\ t \div d \in Int /\ t % d \in 0..d-1
         /\ t % d = t - d * (t \div d)
<1>1. t \div d \in Int /\ t % d \in 0..d-1
  OBVIOUS
<1>2. t % d = t - d * (t \div d)
  OBVIOUS
<1> QED
  BY <1>1, <1>2

\* Multiples of a unit are a unit apart.
LEMMA Multiples ==
  ASSUME NEW d \in Nat \ {0}, NEW p \in Int, NEW q \in Int, p < q
  PROVE  d * p + d <= d * q
OBVIOUS

\* There is one way to write a time in whole units and a rest.
LEMMA Remainder ==
  ASSUME NEW d \in Nat \ {0}, NEW p \in Int, NEW r \in 0..d-1, NEW t \in Int, t = d * p + r
  PROVE  /\ d * p \in Int
         /\ t % d = r
         /\ t - (t % d) = d * p
<1> DEFINE q == t \div d
           m == t % d
<1>2. m = t - d * q /\ q \in Int /\ m \in 0..d-1
  BY Division
<1> HIDE DEF q, m
<1>3. ~(p < q)
  <2> SUFFICES ASSUME p < q  PROVE FALSE
    OBVIOUS
  <2>1. d * p + d <= d * q
    BY <1>2, Multiples
  <2> QED
    BY <2>1, <1>2
<1>4. ~(q < p)
  <2> SUFFICES ASSUME q < p  PROVE FALSE
    OBVIOUS
  <2>1. d * q + d <= d * p
    BY <1>2, Multiples
  <2> QED
    BY <2>1, <1>2
<1>5. p = q
  BY <1>2, <1>3, <1>4
<1>6. d * p \in Int
  OBVIOUS
<1>7. m = r
  BY <1>2, <1>5, <1>6
<1> QED
  <2>1. t - m = d * p
    BY <1>6, <1>7
  <2> QED
    BY <2>1, <1>6, <1>7 DEF m

\* How long the market is closed after the weekly close and in a daily break.
LEMMA RestRange ==
  /\ Week \in Nat \ {0} /\ Week = 7 * Day
  /\ WeeklyRest \in 0..Week-1
  /\ WeeklyOpen >= WeeklyClose => WeeklyRest = WeeklyOpen - WeeklyClose
  /\ WeeklyOpen < WeeklyClose => WeeklyRest = WeeklyOpen - WeeklyClose + Week
  /\ BreakRest \in 1..Day
<1> USE HoursAssumption DEF Week
<1>1. Week \in Nat \ {0}
  OBVIOUS
<1>2. CASE WeeklyOpen >= WeeklyClose
  <2>1. (Week * 0 + (WeeklyOpen - WeeklyClose)) % Week = WeeklyOpen - WeeklyClose
    BY <1>1, <1>2, Remainder
  <2> QED
    BY <2>1, <1>1, <1>2 DEF WeeklyRest, BreakRest
<1>3. CASE WeeklyOpen < WeeklyClose
  <2>1. (Week * (-1) + (WeeklyOpen - WeeklyClose + Week)) % Week
          = WeeklyOpen - WeeklyClose + Week
    BY <1>1, <1>3, Remainder
  <2> QED
    BY <2>1, <1>1, <1>3 DEF WeeklyRest, BreakRest
<1> QED
  BY <1>2, <1>3

\* The week a time is in, and its place in it.
LEMMA RemainderIs ==
  ASSUME NEW p \in Int, NEW r \in 0..Week-1, NEW s \in Int, s = Week * p + r
  PROVE  s % Week = r /\ WeekStart(s) = Week * p
<1>1. Week \in Nat \ {0}
  BY RestRange
<1>2. s % Week = r /\ s - (s % Week) = Week * p
  BY ONLY <1>1, p \in Int, s \in Int, r \in 0..Week-1, s = Week * p + r, Remainder
<1> QED
  BY <1>2 DEF WeekStart

\* A time outside of the trading window is within WeeklyRest after its key, a weekly close.
LEMMA WeeklyClosure ==
  ASSUME NEW t \in Int, ~Weekly(t).open
  PROVE  \E n \in Int : LET key == Week * n + WeeklyClose
                       IN  Weekly(t).key = key /\ key <= t /\ t < key + WeeklyRest
<1> USE HoursAssumption, RestRange
<1> DEFINE m == t % Week
           q == t \div Week
           inside == IF WeeklyOpen < WeeklyClose
                     THEN WeeklyOpen <= m /\ m < WeeklyClose
                     ELSE m >= WeeklyOpen \/ m < WeeklyClose
           before == WeeklyOpen < WeeklyClose /\ m < WeeklyOpen
           n == IF before THEN q - 1 ELSE q
<1>1. q \in Int /\ m \in 0..Week-1 /\ t - m = Week * q
  <2>1. q \in Int /\ m \in 0..Week-1 /\ m = t - Week * q
    BY Division
  <2> HIDE DEF q, m
  <2>2. Week * q \in Int
    BY <2>1
  <2> QED
    BY <2>1, <2>2
<1>2. ~inside
  <2> HIDE DEF m, q
  <2> SUFFICES ASSUME inside  PROVE FALSE
    OBVIOUS
  <2>1. Weekly(t) = OpenAt(NoKey)
    BY DEF Weekly, m
  <2> QED
    BY <2>1 DEF OpenAt
<1>3. Weekly(t).key = Week * q + WeeklyClose - (IF before THEN Week ELSE 0)
  BY <1>1, <1>2 DEF Weekly, ClosedAt, WeekStart
<1> HIDE DEF m, q
<1>4. Week * q \in Int /\ Week * (q - 1) = Week * q - Week
  BY <1>1 DEF Week
<1>5. n \in Int /\ Week * n = Week * q - (IF before THEN Week ELSE 0)
  BY <1>1, <1>4
<1>6. Weekly(t).key = Week * n + WeeklyClose
  BY <1>3, <1>4, <1>5
<1>7. Week * n + WeeklyClose <= t /\ t < Week * n + WeeklyClose + WeeklyRest
  BY <1>1, <1>2, <1>4, <1>5
<1> QED
  BY <1>5, <1>6, <1>7

\* Every time within WeeklyRest after a weekly close has that close as its key.
LEMMA WithinWeekly ==
  ASSUME NEW n \in Int, NEW s \in Int,
         Week * n + WeeklyClose <= s, s < Week * n + WeeklyClose + WeeklyRest
  PROVE  Weekly(s) = ClosedAt(Week * n + WeeklyClose)
<1> USE HoursAssumption, RestRange
<1>1. Week * n \in Int /\ Week * (n + 1) = Week * n + Week
  BY DEF Week
<1> DEFINE r == s - Week * n
<1>2. CASE r < Week
  <2>1. r \in 0..Week-1 /\ s = Week * n + r
    BY <1>1, <1>2
  <2>2. s % Week = r /\ WeekStart(s) = Week * n
    <3> HIDE DEF r
    <3> QED
      BY ONLY <2>1, n \in Int, s \in Int, RemainderIs
  <2> QED
    <3> HIDE DEF r
    <3>1. ~(IF WeeklyOpen < WeeklyClose
            THEN WeeklyOpen <= r /\ r < WeeklyClose
            ELSE r >= WeeklyOpen \/ r < WeeklyClose)
      BY <2>1, <1>1
    <3>2. ~(WeeklyOpen < WeeklyClose /\ r < WeeklyOpen)
      BY <2>1, <1>1
    <3>3. Weekly(s) = ClosedAt(Week * n + WeeklyClose - 0)
      BY <2>2, <3>1, <3>2 DEF Weekly
    <3> QED
      BY <3>3, <1>1
<1>3. CASE r >= Week
  <2> DEFINE u == r - Week
             p == n + 1
  <2>0. p \in Int /\ Week * p = Week * n + Week
    BY <1>1
  <2> HIDE DEF p
  <2>1. u \in 0..Week-1 /\ s = Week * p + u
    BY <1>1, <1>3, <2>0
  <2>2. s % Week = u /\ WeekStart(s) = Week * p
    <3> HIDE DEF u
    <3> QED
      BY ONLY <2>0, <2>1, s \in Int, RemainderIs
  <2> QED
    <3>0. u < WeeklyClose /\ u < WeeklyOpen /\ WeeklyOpen < WeeklyClose
      BY <2>1, <1>1
    <3> HIDE DEF u, r
    <3>1. ~(IF WeeklyOpen < WeeklyClose
            THEN WeeklyOpen <= u /\ u < WeeklyClose
            ELSE u >= WeeklyOpen \/ u < WeeklyClose)
      BY <2>1, <3>0
    <3>3. Weekly(s) = ClosedAt(Week * p + WeeklyClose - Week)
      BY <2>2, <3>0, <3>1 DEF Weekly
    <3> QED
      BY <3>3, <1>1, <2>0
<1> QED
  BY <1>1, <1>2, <1>3
\* A time in a daily break is within BreakRest after the break began.
LEMMA DailyBreak ==
  ASSUME NEW t \in Int, BreakBegan(t) # NoKey
  PROVE  \E n \in Int : LET key == Day * n + BreakStart
                       IN  BreakBegan(t) = key /\ key <= t /\ t < key + BreakRest
<1> USE HoursAssumption
<1> DEFINE m == t % Day
           q == t \div Day
<1>1. q \in Int /\ m \in 0..Day-1 /\ m = t - Day * q
  BY Division
<1>2. Day * q \in Int /\ Day * (q - 1) = Day * q - Day
  <2> HIDE DEF m, q
  <2> QED
    BY <1>1
<1>3. t - (t % Day) = Day * q
  BY <1>1, <1>2
<1> DEFINE start == Day * q + BreakStart
           end == Day * q + BreakEnd
<1>4. BreakBegan(t) = IF end > start
                      THEN IF start <= t /\ t < end THEN start ELSE NoKey
                      ELSE IF t >= start THEN start
                      ELSE IF t < end THEN start - Day ELSE NoKey
  BY <1>3, Zenon DEF BreakBegan
<1> HIDE DEF m, q
<1>5. CASE BreakBegan(t) = start
  <2>1. start \in Int /\ end \in Int /\ end - start = BreakEnd - BreakStart
    BY <1>2
  <2>2. start <= t /\ t < start + BreakRest
    <3>1. IF end > start THEN start <= t /\ t < end ELSE t >= start
      <4> HIDE DEF start, end
      <4> QED
        BY <1>4, <1>5, <2>1
    <3>2. t < Day * q + Day
      BY <1>1, <1>2
    <3> QED
      BY <1>2, <2>1, <3>1, <3>2 DEF BreakRest
  <2> QED
    BY <1>1, <1>5, <2>2
<1>6. CASE BreakBegan(t) # start
  <2>1. /\ BreakBegan(t) = start - Day
        /\ ~(BreakEnd > BreakStart)
        /\ t < end
    <3>1. start \in Int /\ end \in Int /\ end - start = BreakEnd - BreakStart
      BY <1>2
    <3>2. BreakBegan(t) = start - Day /\ ~(end > start) /\ t < end
      <4> HIDE DEF start, end
      <4> QED
        BY <1>4, <1>6, <3>1
    <3> QED
      BY <3>1, <3>2
  <2>2. start - Day = Day * (q - 1) + BreakStart
    BY <1>2
  <2>3. start - Day <= t /\ t < start - Day + BreakRest
    BY <1>1, <1>2, <2>1 DEF BreakRest
  <2> QED
    BY <1>1, <2>1, <2>2, <2>3
<1> QED
  BY <1>5, <1>6

\* The midnight before a time.
LEMMA DayOf ==
  ASSUME NEW p \in Int, NEW r \in 0..Day-1, NEW s \in Int, s = Day * p + r
  PROVE  s - (s % Day) = Day * p
<1>1. Day \in Nat \ {0}
  BY HoursAssumption
<1> QED
  BY ONLY <1>1, p \in Int, s \in Int, r \in 0..Day-1, s = Day * p + r, Remainder

\* Every time within BreakRest after a break began is in that break.
LEMMA WithinBreak ==
  ASSUME NEW n \in Int, NEW s \in Int,
         Day * n + BreakStart <= s, s < Day * n + BreakStart + BreakRest
  PROVE  BreakBegan(s) = Day * n + BreakStart
<1> USE HoursAssumption, RestRange
<1>1. Day * n \in Int /\ Day * (n + 1) = Day * n + Day
  OBVIOUS
<1> DEFINE r == s - Day * n
<1>2. CASE r < Day
  <2>1. r \in 0..Day-1 /\ s = Day * n + r
    BY <1>1, <1>2
  <2>2. s - (s % Day) = Day * n
    <3> HIDE DEF r
    <3> QED
      BY ONLY <2>1, n \in Int, s \in Int, DayOf
  <2>3. Day * n + BreakEnd > Day * n + BreakStart => s < Day * n + BreakEnd
    BY <2>1, <1>1 DEF BreakRest
  <2>4. s >= Day * n + BreakStart
    OBVIOUS
  <2> QED
    BY <2>2, <2>3, <2>4 DEF BreakBegan
<1>3. CASE r >= Day
  <2> DEFINE u == r - Day
             p == n + 1
  <2>0. p \in Int /\ Day * p = Day * n + Day
    BY <1>1
  <2> HIDE DEF p
  <2>1. u \in 0..Day-1 /\ s = Day * p + u
    BY <1>1, <1>3, <2>0
  <2>2. s - (s % Day) = Day * p
    <3> HIDE DEF u
    <3> QED
      BY ONLY <2>0, <2>1, s \in Int, DayOf
  <2>3. /\ ~(Day * p + BreakEnd > Day * p + BreakStart)
        /\ ~(s >= Day * p + BreakStart)
        /\ s < Day * p + BreakEnd
    BY <1>1, <1>3, <2>0, <2>1 DEF BreakRest
  <2>4. BreakBegan(s) = Day * p + BreakStart - Day
    BY <2>2, <2>3 DEF BreakBegan
  <2> QED
    BY <2>0, <2>4, <1>1
<1> QED
  BY <1>1, <1>2, <1>3

\* The closure_key at a time.
KeyAt(t) == market_hours_state(t).key

\* The weekly closure comes before the daily break.
LEMMA KeyOf ==
  ASSUME NEW t \in Int
  PROVE  /\ ~Weekly(t).open => KeyAt(t) = Weekly(t).key
         /\ Weekly(t).open => KeyAt(t) = IF BreakEnabled THEN BreakBegan(t) ELSE NoKey
<1>1. Weekly(t).open => Weekly(t) = OpenAt(NoKey)
  BY DEF Weekly, OpenAt, ClosedAt
<1> QED
  BY <1>1 DEF KeyAt, market_hours_state, OpenAt, ClosedAt

\* A closure is over when it is over: its key does not come back after another's.
THEOREM ClosureIsContiguous ==
  ASSUME NEW i \in Int, NEW j \in Int, NEW k \in Int, i <= j, j <= k,
         KeyAt(i) = KeyAt(k), KeyAt(k) # NoKey, KeyAt(j) # NoKey
  PROVE  KeyAt(j) = KeyAt(k)
<1> USE HoursAssumption
<1>1. CASE ~Weekly(k).open
  <2>1. PICK n \in Int : LET key == Week * n + WeeklyClose
                        IN  Weekly(k).key = key /\ key <= k /\ k < key + WeeklyRest
    BY <1>1, WeeklyClosure
  <2> DEFINE key == Week * n + WeeklyClose
  <2>2. KeyAt(k) = key /\ key \in Int
    BY <2>1, <1>1, KeyOf, RestRange DEF Week
  <2>3. KeyAt(i) <= i
    <3>1. CASE ~Weekly(i).open
      BY <3>1, KeyOf, WeeklyClosure
    <3>2. CASE Weekly(i).open
      BY <3>2, KeyOf, DailyBreak
    <3> QED
      BY <3>1, <3>2
  <2>4. key <= j /\ j < key + WeeklyRest
    <3> HIDE DEF key
    <3> QED
      BY <2>1, <2>2, <2>3, RestRange DEF key
  <2>5. Weekly(j) = ClosedAt(key)
    BY <2>4, WithinWeekly
  <2> QED
    BY <2>2, <2>5, KeyOf DEF ClosedAt
<1>2. CASE Weekly(k).open
  <2>1. BreakEnabled /\ KeyAt(k) = BreakBegan(k)
    BY <1>2, KeyOf
  <2>2. PICK n \in Int : LET key == Day * n + BreakStart
                        IN  BreakBegan(k) = key /\ key <= k /\ k < key + BreakRest
    BY <2>1, DailyBreak
  <2> DEFINE key == Day * n + BreakStart
  <2>3. KeyAt(k) = key /\ key \in Int /\ k < key + BreakRest
    BY <2>1, <2>2, RestRange
  <2>4. KeyAt(i) <= i
    <3>1. CASE ~Weekly(i).open
      BY <3>1, KeyOf, WeeklyClosure
    <3>2. CASE Weekly(i).open
      BY <3>2, KeyOf, DailyBreak
    <3> QED
      BY <3>1, <3>2
  <2>5. key <= i
    BY <2>3, <2>4
  <2>6. key <= j /\ j < key + BreakRest
    <3> HIDE DEF key
    <3> QED
      BY <2>3, <2>5, RestRange
  <2>7. BreakBegan(j) = key
    BY <2>6, WithinBreak
  <2>8. CASE Weekly(j).open
    BY <2>1, <2>3, <2>7, <2>8, KeyOf
  <2>9. CASE ~Weekly(j).open
    <3>1. PICK w \in Int : LET close == Week * w + WeeklyClose
                          IN  Weekly(j).key = close /\ close <= j /\ j < close + WeeklyRest
      BY <2>9, WeeklyClosure
    <3> DEFINE close == Week * w + WeeklyClose
    <3>2. close \in Int
      BY RestRange DEF Week
    <3>3. close + WeeklyRest <= k
      <4> SUFFICES ASSUME k < close + WeeklyRest, close <= k  PROVE FALSE
        <5> HIDE DEF close
        <5> QED
          BY <3>1, <3>2, RestRange DEF close
      <4> QED
        BY WithinWeekly, <1>2 DEF ClosedAt
    <3>4. close <= key
      <4> HIDE DEF close, key
      <4> QED
        BY <2>1, <2>3, <3>1, <3>2, <3>3, RestRange, RestAssumption DEF close
    <3>5. Weekly(i) = ClosedAt(close)
      <4>1. close <= i /\ i < close + WeeklyRest
        <5> HIDE DEF close, key
        <5> QED
          BY <2>3, <2>5, <3>1, <3>2, <3>4, RestRange DEF close
      <4> QED
        BY <4>1, WithinWeekly
    <3>6. KeyAt(i) = close
      BY <3>5, KeyOf DEF ClosedAt
    <3>7. Weekly(j).key = close
      BY <3>1
    <3> QED
      BY <2>3, <2>9, <3>6, <3>7, KeyOf
  <2> QED
    BY <2>8, <2>9
<1> QED
  BY <1>1, <1>2
-------------------------------------------------------------------------------
(* The invariant                                                           *)

Points == {"none", "create", "replay", "update", "trades", "insert", "children", "failing",
           "returned", "raised"}

\* The points of a job that has a thread.
RunPoints == Points \ {"none", "create", "returned", "raised"}

ThreadStates == [pc : Points, folds : Nat, made : Nat, taken : Seq(Threads)]

Items == [by : Threads, of : Runs \cup {None}]

\* As many trades as a job has made, all of its own.
Own(t, n) == [i \in 1..n |-> t]

TypeOK ==
  /\ now \in Instants
  /\ lastKey \in Keys \cup {NoKey}
  /\ task \in Threads \cup {None}
  /\ threads \in [Threads -> ThreadStates]
  /\ pool \in Seq(Items)
  /\ status \in [Runs -> {None, "RUNNING", "COMPLETED", "FAILED", "INTERRUPTED"}]
  /\ summary \in [Runs -> Results \cup {None}]
  /\ trades \in [Runs -> Seq(Threads)]
  /\ metrics \in [Runs -> Threads \cup {None}]
  /\ begun \subseteq Threads /\ cut \subseteq Threads
  /\ met \subseteq Threads /\ doubled \subseteq Threads
  /\ mixed \subseteq {t \in Threads : t[2] # "BACKTEST"}
  /\ mishaps \in Nat

\* No closure that is still to come, or is now, has this key.
Past(key) == \A i \in Instants : i >= now => KeyAt(i) # key

\* The job of a closure is of the one noted last or of one that does not come back,
\* so that a closure that is triggered has no job.
ThreadInv ==
  /\ \A t \in AtWork :
       /\ t \in begun
       /\ t[2] = "CLOSURE" => t[3] = 1 /\ (t[1] = lastKey \/ Past(t[1]))
  /\ lastKey # NoKey => \E i \in Instants : i <= now /\ KeyAt(i) = lastKey

\* Jobs of one run that run at once are noted, and one of them is a client's.
MetInv ==
  /\ \A t, u \in Running : t # u /\ t[1] = u[1] => t \in met
  /\ \A t \in met : \E u \in begun : u[1] = t[1] /\ u[2] # "CLOSURE"

\* The rows of its run are what a job that has completed it leaves, or will leave.
Stands(job) ==
  LET r == job[1]
  IN  /\ job \notin cut =>
           \/ threads[job].pc \in {"trades", "insert", "children", "failing"}
           \/ metrics[r] # None /\ (job \notin met => metrics[r] = job)
      /\ job \notin cut \cup met \cup mixed \cup doubled =>
           \/ threads[job].pc \in {"trades", "insert", "failing"}
           \/ trades[r] = Own(job, summary[r].total)

RowInv(r) ==
  status[r] = "COMPLETED" =>
    summary[r] \in Results /\ summary[r].by[1] = r /\ Stands(summary[r].by)

\* The job's own trades are at the end of the list as long as it replays alone.
OwnEnd(t) ==
  /\ threads[t].made <= Len(pool)
  /\ \A i \in 1..Len(pool) : i > Len(pool) - threads[t].made => pool[i].by = t

\* What a job has done at each point, and who can have completed its run meanwhile.
PointInv(t) ==
  /\ threads[t].pc = "create" => threads[t] = At("create")
  /\ threads[t].pc \in RunPoints =>
       /\ status[t[1]] # None
       /\ status[t[1]] = "COMPLETED" => summary[t[1]].by = t \/ summary[t[1]].by \in met
  /\ threads[t].pc = "replay" /\ t[2] # "BACKTEST" /\ t \notin mixed => OwnEnd(t)
  /\ threads[t].pc \in {"update", "trades", "insert"} /\ t \notin mixed \cup met =>
       threads[t].taken = Own(t, threads[t].made)
  /\ threads[t].pc \in {"trades", "insert"} /\ status[t[1]] = "COMPLETED"
       /\ summary[t[1]].by = t => summary[t[1]].total = threads[t].made
  /\ threads[t].pc = "insert" /\ t \notin met => trades[t[1]] = <<>>

IInv ==
  /\ TypeOK /\ ThreadInv /\ MetInv
  /\ \A r \in Runs : RowInv(r)
  /\ \A t \in Threads : PointInv(t)

-------------------------------------------------------------------------------
(* The threads                                                             *)

\* A closed market has a key, which is the id of its run.
LEMMA ClosedHasKey ==
  ASSUME NEW t \in Instants, ~market_hours_state(t).open
  PROVE  /\ KeyAt(t) = market_hours_state(t).key
         /\ KeyAt(t) \in Keys /\ KeyAt(t) # NoKey
<1>1. t \in Int
  BY JobsAssumption
<1>2. KeyAt(t) \in Int
  <2>1. CASE ~Weekly(t).open
    BY <1>1, <2>1, KeyOf, WeeklyClosure, RestRange, HoursAssumption
  <2>2. CASE Weekly(t).open
    <3>1. BreakEnabled /\ BreakBegan(t) # NoKey
      BY <2>2 DEF market_hours_state
    <3> QED
      BY <1>1, <2>2, <3>1, KeyOf, DailyBreak, HoursAssumption
  <2> QED
    BY <2>1, <2>2
<1> QED
  BY <1>2, HoursAssumption DEF KeyAt, Keys

\* A job is a run, what has asked for it and a number.
LEMMA JobIs ==
  /\ \A t \in Threads :
       /\ t = <<t[1], t[2], t[3]>> /\ t[1] \in Runs
       /\ t[2] \in {"CLOSURE", "BACKTEST", "WALK_FORWARD"}
       /\ t[2] = "CLOSURE" => t[1] \in Keys
  /\ \A key \in Keys :
       <<key, "CLOSURE", 1>> \in Threads /\ <<key, "CLOSURE", 2>> \in Threads /\ key \in Runs
  /\ None \notin Threads
<1>1. \A t \in Threads :
        \/ t \in Keys \X {"CLOSURE"} \X (1..2)
        \/ t \in Backtests \X {"BACKTEST"} \X (1..Posts)
        \/ t \in WalkForwards \X {"WALK_FORWARD"} \X (1..Posts)
  BY DEF Threads
<1>2. Keys \subseteq Runs /\ Backtests \subseteq Runs /\ WalkForwards \subseteq Runs
  BY DEF Runs
<1>3. \A t \in Threads :
       /\ t = <<t[1], t[2], t[3]>> /\ t[1] \in Runs
       /\ t[2] \in {"CLOSURE", "BACKTEST", "WALK_FORWARD"}
       /\ t[2] = "CLOSURE" => t[1] \in Keys
  BY <1>1, <1>2
<1>4. \A key \in Keys :
       <<key, "CLOSURE", 1>> \in Threads /\ <<key, "CLOSURE", 2>> \in Threads /\ key \in Runs
  BY <1>2 DEF Threads
<1> QED
  BY <1>3, <1>4, JobsAssumption

\* The jobs that have a thread are at work.
LEMMA RunningIs ==
  ASSUME threads \in [Threads -> ThreadStates], NEW t \in Threads
  PROVE  /\ t \in AtWork <=> threads[t].pc \in RunPoints \cup {"create"}
         /\ t \in Running <=> threads[t].pc \in RunPoints
         /\ t \notin Running <=> threads[t].pc \in {"none", "create", "returned", "raised"}
<1>1. threads[t].pc \in Points
  BY DEF ThreadStates
<1> QED
  BY <1>1 DEF AtWork, Running, RunPoints, Points

\* A closure has one job at work.
LEMMA OneThread ==
  ASSUME TypeOK, ThreadInv, NEW t \in AtWork, NEW u \in AtWork,
         t[1] = u[1], t[2] = "CLOSURE", u[2] = "CLOSURE"
  PROVE  t = u
<1>1. t \in Threads /\ u \in Threads /\ t[3] = 1 /\ u[3] = 1
  BY DEF ThreadInv, AtWork
<1> QED
  BY <1>1, JobIs

\* What a thread becomes is seen at that thread only.
LEMMA PutIs ==
  ASSUME threads \in [Threads -> ThreadStates], NEW t \in Threads,
         NEW state \in ThreadStates, threads' = [threads EXCEPT ![t] = state]
  PROVE  /\ threads' \in [Threads -> ThreadStates]
         /\ threads'[t] = state
         /\ \A u \in Threads \ {t} : threads'[u] = threads[u]
OBVIOUS

\* A thread that has done nothing but be at a point.
LEMMA AtIs ==
  ASSUME NEW point \in Points
  PROVE  At(point) \in ThreadStates /\ At(point).pc = point
BY DEF At, ThreadStates

\* A thread goes on and keeps what it has done.
LEMMA GotoIs ==
  ASSUME threads \in [Threads -> ThreadStates], NEW t \in Threads,
         NEW point \in Points, Goto(t, point)
  PROVE  /\ threads' \in [Threads -> ThreadStates]
         /\ threads'[t].pc = point /\ threads'[t].folds = threads[t].folds
         /\ threads'[t].made = threads[t].made /\ threads'[t].taken = threads[t].taken
         /\ \A u \in Threads \ {t} : threads'[u] = threads[u]
<1> DEFINE state == [threads[t] EXCEPT !.pc = point]
<1>1. state \in ThreadStates /\ state.pc = point /\ state.folds = threads[t].folds
      /\ state.made = threads[t].made /\ state.taken = threads[t].taken
  BY DEF ThreadStates
<1>2. threads' = [threads EXCEPT ![t] = state]
  BY DEF Goto
<1> QED
  BY <1>1, <1>2, PutIs

\* A thread ends.
LEMMA EndIs ==
  ASSUME threads \in [Threads -> ThreadStates], NEW t \in Threads,
         NEW how \in {"returned", "raised"}, End(t, how)
  PROVE  /\ threads' \in [Threads -> ThreadStates]
         /\ threads'[t].pc \in {"none", how}
         /\ \A u \in Threads \ {t} : threads'[u] = threads[u]
<1> DEFINE state == At(IF task = t THEN how ELSE "none")
<1>1. state \in ThreadStates /\ state.pc \in {"none", how}
  BY AtIs DEF Points
<1>2. threads' = [threads EXCEPT ![t] = state]
  BY DEF End
<1> QED
  BY <1>1, <1>2, PutIs

\* A thread has replayed a fold.
LEMMA FoldIs ==
  ASSUME threads \in [Threads -> ThreadStates], NEW t \in Threads, NEW n \in Nat,
         threads' = [threads EXCEPT ![t].folds = @ + 1, ![t].made = @ + n]
  PROVE  /\ threads' \in [Threads -> ThreadStates]
         /\ threads'[t].pc = threads[t].pc /\ threads'[t].folds = threads[t].folds + 1
         /\ threads'[t].made = threads[t].made + n
         /\ \A u \in Threads \ {t} : threads'[u] = threads[u]
<1> DEFINE half == [threads[t] EXCEPT !.folds = @ + 1]
           state == [half EXCEPT !.made = @ + n]
<1>0. threads[t].folds + 1 \in Nat /\ threads[t].made + n \in Nat
  BY DEF ThreadStates
<1>1. half \in ThreadStates /\ half.pc = threads[t].pc
      /\ half.folds = threads[t].folds + 1 /\ half.made = threads[t].made
  <2> DEFINE more == threads[t].folds + 1
  <2>1. half = [threads[t] EXCEPT !.folds = more]
    OBVIOUS
  <2> HIDE DEF half, more
  <2>2. more \in Nat
    BY <1>0 DEF more
  <2>3. half \in ThreadStates /\ half.pc = threads[t].pc
        /\ half.folds = more /\ half.made = threads[t].made
    BY <2>1, <2>2 DEF ThreadStates
  <2> QED
    BY <2>3 DEF more
<1>2. state \in ThreadStates /\ state.pc = threads[t].pc
      /\ state.folds = threads[t].folds + 1 /\ state.made = threads[t].made + n
  <2> HIDE DEF half
  <2> QED
    BY <1>0, <1>1 DEF ThreadStates
<1>3. threads' = [threads EXCEPT ![t] = state]
  OBVIOUS
<1> QED
  BY <1>2, <1>3, PutIs

-------------------------------------------------------------------------------
(* What a step leaves alone                                                *)

\* The histories only grow.
Grow ==
  /\ begun \subseteq begun' /\ cut \subseteq cut' /\ met \subseteq met'
  /\ mixed \subseteq mixed' /\ doubled \subseteq doubled'

\* A row keeps its part of the invariant as long as it says the same, and the job that
\* completed it is where it was if it still has something to write.
LEMMA RowKept ==
  ASSUME NEW r \in Runs, RowInv(r), Grow,
         \A u \in Threads :
           u[1] = r /\ threads[u].pc \in {"trades", "insert", "children", "failing"} =>
             threads'[u].pc = threads[u].pc,
         trades'[r] = trades[r], metrics'[r] = metrics[r],
         \/ status'[r] # "COMPLETED"
         \/ status'[r] = status[r] /\ summary'[r] = summary[r]
  PROVE  RowInv(r)'
<1> SUFFICES ASSUME status'[r] = "COMPLETED"  PROVE RowInv(r)'
  BY DEF RowInv
<1>0. /\ status[r] = "COMPLETED" /\ summary'[r] = summary[r]
      /\ summary[r] \in Results /\ summary[r].by \in Threads
  BY DEF RowInv, Results
<1>1. PICK job \in Threads : summary[r].by = job
  BY <1>0
<1>2. job[1] = r /\ Stands(job)
  BY <1>0, <1>1 DEF RowInv
<1>3. Stands(job)'
  BY <1>0, <1>1, <1>2 DEF Stands, Grow
<1> QED
  BY <1>0, <1>1, <1>2, <1>3 DEF RowInv

\* A job that runs leaves the row of another one's completion to be as it was, since they
\* have met.
LEMMA RowOfStep ==
  ASSUME IInv, NEW t \in Running, Grow,
         \A u \in Threads \ {t} : threads'[u].pc = threads[u].pc,
         status'[t[1]] = status[t[1]], summary'[t[1]] = summary[t[1]],
         metrics'[t[1]] \in {metrics[t[1]], t},
         status[t[1]] = "COMPLETED" /\ summary[t[1]].by = t /\ Stands(t) => Stands(t)'
  PROVE  RowInv(t[1])'
<1> DEFINE r == t[1]
<1>1. t \in Threads /\ r \in Runs /\ t # None
  BY JobIs DEF Running, AtWork
<1> SUFFICES ASSUME status'[r] = "COMPLETED"  PROVE RowInv(r)'
  BY DEF RowInv
<1>2. /\ status[r] = "COMPLETED"
      /\ summary[r] \in Results /\ summary[r].by \in Threads
  BY <1>1 DEF RowInv, Results, IInv
<1>3. PICK job \in Threads : summary[r].by = job
  BY <1>2
<1>4. job[1] = r /\ Stands(job)
  BY <1>1, <1>3, <1>2 DEF RowInv, IInv
<1>5. Stands(job)'
  <2>1. CASE job = t
    BY <1>4, <1>3, <1>2, <2>1
  <2>2. CASE job # t
    <3>1. threads[t].pc \in RunPoints /\ PointInv(t)
      BY <1>1, RunningIs DEF IInv, TypeOK
    <3>2. job \in met
      BY <1>3, <1>2, <2>2, <3>1 DEF PointInv
    <3>3. job \in met' /\ threads'[job].pc = threads[job].pc
      BY <1>4, <2>2, <3>2 DEF Grow
    <3>4. ASSUME job \notin cut'
          PROVE  \/ threads'[job].pc \in {"trades", "insert", "children", "failing"}
                 \/ metrics'[r] # None
      BY <1>1, <1>4, <3>3, <3>4 DEF Stands, Grow
    <3> QED
      BY <1>4, <3>3, <3>4 DEF Stands
  <2> QED
    BY <2>1, <2>2
<1> QED
  BY <1>4, <1>5, <1>3, <1>2 DEF RowInv

\* A job keeps its part of the invariant while others replay and while another one of its
\* run, which it has met, completes it.
LEMMA PointKept ==
  ASSUME NEW u \in Threads, PointInv(u), Grow,
         \/ threads'[u] = threads[u]
         \/ u \in met' \cup mixed' /\ threads[u].pc = "update" /\ threads'[u].pc = "update",
         trades'[u[1]] = trades[u[1]] \/ u \in met',
         pool' = pool \/ (threads[u].pc = "replay" => u[2] = "BACKTEST" \/ u \in mixed'),
         \/ status'[u[1]] \in {"RUNNING", "FAILED"}
         \/ status'[u[1]] = status[u[1]] /\ summary'[u[1]] = summary[u[1]]
         \/ status'[u[1]] = "COMPLETED" /\ summary'[u[1]].by \in met' \ {u}
  PROVE  PointInv(u)'
<1> USE JobsAssumption DEF Grow
<1>1. threads'[u].pc = threads[u].pc
  OBVIOUS
<1>2. threads'[u].pc = "create" => threads'[u] = At("create")'
  BY DEF PointInv, At
<1>3. threads'[u].pc \in RunPoints =>
       /\ status'[u[1]] # None
       /\ status'[u[1]] = "COMPLETED" => summary'[u[1]].by = u \/ summary'[u[1]].by \in met'
  BY <1>1 DEF PointInv
<1>4. threads'[u].pc = "replay" /\ u[2] # "BACKTEST" /\ u \notin mixed' => OwnEnd(u)'
  BY <1>1 DEF PointInv, OwnEnd
<1>5. threads'[u].pc \in {"update", "trades", "insert"} /\ u \notin mixed' \cup met' =>
        threads'[u].taken = Own(u, threads'[u].made)
  BY DEF PointInv
<1>6. threads'[u].pc \in {"trades", "insert"} /\ status'[u[1]] = "COMPLETED"
        /\ summary'[u[1]].by = u => summary'[u[1]].total = threads'[u].made
  BY DEF PointInv
<1>7. threads'[u].pc = "insert" /\ u \notin met' => trades'[u[1]] = <<>>
  BY DEF PointInv
<1> QED
  BY ONLY <1>2, <1>3, <1>4, <1>5, <1>6, <1>7 DEF PointInv, At

\* A job without a thread has done nothing.
LEMMA PointAtRest ==
  ASSUME NEW u \in Threads,
         \/ threads'[u].pc \in {"none", "returned", "raised"}
         \/ threads'[u].pc = "create" /\ threads'[u] = At("create")
  PROVE  PointInv(u)'
BY DEF PointInv, RunPoints, At

\* A step that starts no job and leaves the clock and the noted closure alone.
LEMMA ThreadsKept ==
  ASSUME ThreadInv, UNCHANGED <<now, lastKey>>, begun \subseteq begun',
         AtWork' \subseteq AtWork
  PROVE  ThreadInv'
BY DEF ThreadInv, Past

\* A step that gives no job a thread.
LEMMA MetKept ==
  ASSUME MetInv, met' = met, begun \subseteq begun', Running' \subseteq Running
  PROVE  MetInv'
BY DEF MetInv

\* A step of a job keeps the invariant when it does for its run and itself.
LEMMA StepOfThread ==
  ASSUME IInv, NEW t \in AtWork, TypeOK', MetInv', Grow,
         UNCHANGED <<now, lastKey, begun>>,
         \A u \in Threads \ {t} :
           \/ threads'[u] = threads[u]
           \/ u \in met' \cup mixed' /\ threads[u].pc = "update" /\ threads'[u].pc = "update",
         \A r \in Runs \ {t[1]} :
           /\ status'[r] = status[r] /\ summary'[r] = summary[r]
           /\ trades'[r] = trades[r] /\ metrics'[r] = metrics[r],
         \/ pool' = pool
         \/ \A u \in Threads \ {t} :
              threads[u].pc = "replay" => u[2] = "BACKTEST" \/ u \in mixed',
         \/ \A u \in Running \ {t} : u[1] = t[1] => u \in met' /\ t \in met'
         \/ UNCHANGED <<status, summary, trades>>,
         \/ status'[t[1]] \in {"RUNNING", "FAILED"}
         \/ status'[t[1]] = status[t[1]] /\ summary'[t[1]] = summary[t[1]]
         \/ status'[t[1]] = "COMPLETED" /\ summary'[t[1]].by = t,
         RowInv(t[1])', PointInv(t)'
  PROVE  IInv'
<1>1. t \in Threads /\ t[1] \in Runs
  BY JobIs DEF AtWork
<1>2. ThreadInv'
  <2>1. AtWork' \subseteq AtWork
    BY DEF AtWork
  <2> QED
    BY <2>1, ThreadsKept DEF IInv
<1>3. ASSUME NEW r \in Runs  PROVE RowInv(r)'
  <2>1. CASE r # t[1]
    <3>1. \A u \in Threads : u[1] = r => threads'[u].pc = threads[u].pc
      BY <2>1
    <3> QED
      BY <2>1, <3>1, RowKept DEF IInv
  <2>2. CASE r = t[1]
    BY <2>2
  <2> QED
    BY <2>1, <2>2
<1>4. ASSUME NEW u \in Threads  PROVE PointInv(u)'
  <2>0. PointInv(u) /\ u[1] \in Runs /\ threads \in [Threads -> ThreadStates]
    BY JobIs DEF IInv, TypeOK
  <2>1. CASE u # t /\ u \in Running
    <3>1. CASE u[1] # t[1]
      BY <2>0, <2>1, <3>1, PointKept
    <3>2. CASE u[1] = t[1] /\ UNCHANGED <<status, summary, trades>>
      BY <2>0, <2>1, <3>2, PointKept
    <3>3. CASE u[1] = t[1] /\ u \in met' /\ t \in met'
      BY <2>0, <2>1, <3>3, PointKept
    <3> QED
      BY <2>1, <3>1, <3>2, <3>3
  <2>2. CASE u # t /\ u \notin Running
    <3>1. threads[u].pc \in {"none", "create", "returned", "raised"}
      BY <2>0, <2>2, RunningIs
    <3>2. threads'[u] = threads[u]
      BY <2>2, <3>1
    <3>3. threads[u].pc = "create" => threads[u] = At("create")
      BY <2>0 DEF PointInv
    <3> QED
      BY <3>1, <3>2, <3>3, PointAtRest
  <2>3. CASE u = t
    BY <2>3
  <2> QED
    BY <2>1, <2>2, <2>3
<1> QED
  BY <1>2, <1>3, <1>4 DEF IInv

\* The jobs that run beside one on its run have met it.
LEMMA RunningMet ==
  ASSUME MetInv, Grow, NEW t \in Running
  PROVE  \A u \in Running \ {t} : u[1] = t[1] => u \in met' /\ t \in met'
BY DEF MetInv, Grow

\* A step that leaves the jobs that run to themselves keeps the invariant, and so does
\* one that says FAILED of a run.
LEMMA OtherStep ==
  ASSUME IInv, TypeOK', ThreadInv', Grow,
         UNCHANGED <<pool, trades, metrics, met>>,
         \A u \in Threads :
           \/ threads'[u] = threads[u]
           \/ u \notin Running /\ (threads'[u] = At("create") \/ threads'[u] = At("none")),
         \A r \in Runs : \/ status'[r] = "FAILED"
                         \/ status'[r] = status[r] /\ summary'[r] = summary[r]
  PROVE  IInv'
<1>0. threads \in [Threads -> ThreadStates] /\ threads' \in [Threads -> ThreadStates]
  BY DEF IInv, TypeOK
<1>1. At("create").pc = "create" /\ At("none").pc = "none"
  BY DEF At
<1>2. MetInv'
  <2>1. ASSUME NEW u \in Running'  PROVE u \in Running
    <3>1. u \in Threads
      BY <2>1 DEF Running, AtWork
    <3>2. threads'[u].pc \notin {"none", "create"}
      BY <2>1 DEF Running, AtWork
    <3>3. CASE threads'[u] = threads[u]
      BY <2>1, <3>1, <3>3 DEF Running, AtWork
    <3> QED
      BY <1>1, <3>1, <3>2, <3>3
  <2> QED
    BY <2>1, MetKept DEF IInv, Grow
<1>3. ASSUME NEW r \in Runs  PROVE RowInv(r)'
  <2>1. ASSUME NEW u \in Threads,
               threads[u].pc \in {"trades", "insert", "children", "failing"}
        PROVE  threads'[u].pc = threads[u].pc
    <3>1. u \in Running
      BY <1>0, <2>1, RunningIs DEF RunPoints, Points
    <3> QED
      BY <3>1
  <2> QED
    BY <2>1, RowKept DEF IInv
<1>4. ASSUME NEW u \in Threads  PROVE PointInv(u)'
  <2>1. PointInv(u) /\ u[1] \in Runs
    BY JobIs DEF IInv
  <2>2. CASE threads'[u] = threads[u]
    BY <2>1, <2>2, PointKept
  <2>3. CASE threads'[u] = At("create") \/ threads'[u] = At("none")
    BY <1>1, <2>3, PointAtRest
  <2> QED
    BY <2>2, <2>3
<1> QED
  BY <1>2, <1>3, <1>4 DEF IInv

-------------------------------------------------------------------------------
(* Rows                                                                    *)

\* An UPDATE sets the row of the run, or finds none.
LEMMA UpdateIs ==
  ASSUME TypeOK, NEW r \in Runs, NEW value \in {"COMPLETED", "FAILED"},
         NEW result \in Results \cup {None}, Update(r, value, result)
  PROVE  /\ status' \in [Runs -> {None, "RUNNING", "COMPLETED", "FAILED", "INTERRUPTED"}]
         /\ summary' \in [Runs -> Results \cup {None}]
         /\ \A q \in Runs \ {r} : status'[q] = status[q] /\ summary'[q] = summary[q]
         /\ \/ status'[r] = value /\ summary'[r] = result
            \/ status[r] = None /\ status'[r] = None /\ summary'[r] = summary[r]
BY DEF TypeOK, Update, rowVars

\* A job that is given up is FAILED, or it is noted that its row cannot say so.
LEMMA GiveUpIs ==
  ASSUME TypeOK, NEW t \in Threads, GiveUp(t)
  PROVE  /\ status' \in [Runs -> {None, "RUNNING", "COMPLETED", "FAILED", "INTERRUPTED"}]
         /\ summary' \in [Runs -> Results \cup {None}]
         /\ mishaps' \in Nat /\ cut' \subseteq Threads /\ cut \subseteq cut'
         /\ \A q \in Runs \ {t[1]} : status'[q] = status[q] /\ summary'[q] = summary[q]
         /\ \/ status'[t[1]] = "FAILED"
            \/ /\ status'[t[1]] = status[t[1]] /\ summary'[t[1]] = summary[t[1]]
               /\ t \in cut' \/ status[t[1]] # "COMPLETED"
<1>0. t[1] \in Runs
  BY JobIs
<1>1. CASE Update(t[1], "FAILED", None) /\ UNCHANGED <<mishaps, cut>>
  BY <1>0, <1>1, UpdateIs, JobsAssumption DEF TypeOK
<1>2. CASE Fault /\ cut' = cut \cup {t} /\ UNCHANGED rowVars
  BY <1>2 DEF Fault, rowVars, TypeOK
<1> QED
  BY <1>1, <1>2 DEF GiveUp

-------------------------------------------------------------------------------
(* Every step of a job preserves the invariant                             *)

\* A job that gets a thread meets those that have one on its run, and at most one of
\* them is the closure's.
LEMMA CreateStep ==
  ASSUME IInv, NEW t \in Threads, Create(t)
  PROVE  IInv'
<1> USE DEF IInv
<1>0. /\ t[1] \in Runs /\ threads \in [Threads -> ThreadStates]
      /\ threads[t].pc = "create" /\ threads[t] = At("create")
      /\ t \in AtWork /\ t \notin Running
  BY JobIs, RunningIs DEF Create, TypeOK, PointInv
<1>2. UNCHANGED <<now, lastKey, task, pool, summary, trades, metrics, folders, copies,
                  begun, cut, mixed, doubled>>
  BY DEF Create, jobVars, childVars, fileVars
<1>3. CASE /\ status' = [status EXCEPT ![t[1]] = "RUNNING"] /\ Goto(t, "replay")
           /\ met' = IF Beside(t) = {} THEN met ELSE met \cup Beside(t) \cup {t}
           /\ mishaps' = mishaps
  <2>1. /\ threads' \in [Threads -> ThreadStates]
        /\ threads'[t].pc = "replay" /\ threads'[t].made = 0
        /\ \A u \in Threads \ {t} : threads'[u] = threads[u]
    BY <1>0, <1>3, GotoIs DEF Points, At
  <2>2. Beside(t) \subseteq Threads /\ met' \subseteq Threads /\ met \subseteq met'
    BY <1>3 DEF Beside, Running, AtWork, TypeOK
  <2>3. /\ status'[t[1]] = "RUNNING"
        /\ status' \in [Runs -> {None, "RUNNING", "COMPLETED", "FAILED", "INTERRUPTED"}]
        /\ \A r \in Runs \ {t[1]} : status'[r] = status[r]
    BY <1>0, <1>3 DEF TypeOK
  <2>4. TypeOK'
    BY <1>2, <1>3, <2>1, <2>2, <2>3 DEF TypeOK
  <2>5. Running' \subseteq Running \cup {t}
    BY <2>1 DEF Running, AtWork
  <2>6. ASSUME NEW u \in Running, u[1] = t[1]  PROVE u \in met' /\ t \in met'
    BY <1>3, <2>6 DEF Beside
  <2>7. \A u, v \in Running' : u # v /\ u[1] = v[1] => u \in met'
    BY <2>2, <2>5, <2>6 DEF MetInv
  <2>8. ASSUME NEW u \in met'
        PROVE  \E v \in begun' : v[1] = u[1] /\ v[2] # "CLOSURE"
    <3>1. CASE u \in met
      BY <1>2, <3>1 DEF MetInv
    <3>2. CASE u \notin met
      <4>1. PICK v \in Beside(t) : TRUE
        BY <1>3, <3>2
      <4>2. v \in AtWork /\ v[1] = t[1] /\ v # t /\ u[1] = t[1]
        BY <1>0, <1>3, <3>2, <4>1 DEF Beside, Running
      <4>3. v[2] # "CLOSURE" \/ t[2] # "CLOSURE"
        BY <1>0, <4>2, OneThread
      <4>4. v \in begun /\ t \in begun
        BY <1>0, <4>2 DEF ThreadInv
      <4> QED
        BY <1>2, <4>2, <4>3, <4>4
    <3> QED
      BY <3>1, <3>2
  <2>9. MetInv'
    BY <2>7, <2>8 DEF MetInv
  <2>10. RowInv(t[1])'
    BY <2>3 DEF RowInv
  <2>11. PointInv(t)'
    <3>1. Len(pool) \in Nat
      BY DEF TypeOK
    <3>2. OwnEnd(t)'
      BY <1>2, <2>1, <3>1 DEF OwnEnd
    <3> QED
      BY <2>1, <2>3, <3>2, JobsAssumption DEF PointInv
  <2>12. Grow
    BY <1>2, <2>2 DEF Grow
  <2> QED
    BY <1>0, <1>2, <2>1, <2>3, <2>4, <2>6, <2>9, <2>10, <2>11, <2>12, StepOfThread
<1>4. CASE Fault /\ End(t, "raised") /\ UNCHANGED <<status, met>>
  <2>1. /\ threads' \in [Threads -> ThreadStates]
        /\ threads'[t].pc \in {"none", "raised"}
        /\ \A u \in Threads \ {t} : threads'[u] = threads[u]
    BY <1>0, <1>4, EndIs
  <2>2. TypeOK'
    BY <1>2, <1>4, <2>1 DEF TypeOK, Fault
  <2>3. Grow
    BY <1>2, <1>4 DEF Grow
  <2>4. MetInv'
    <3>1. Running' \subseteq Running
      BY <2>1 DEF Running, AtWork
    <3> QED
      BY <1>2, <1>4, <3>1, MetKept
  <2>5. RowInv(t[1])'
    BY <1>0, <1>2, <1>4, <2>1, <2>3, RowKept
  <2>6. PointInv(t)'
    BY <2>1, PointAtRest
  <2> QED
    BY <1>0, <1>2, <1>4, <2>1, <2>2, <2>3, <2>4, <2>5, <2>6, StepOfThread
<1> QED
  BY <1>3, <1>4 DEF Create

\* What every further step of a job starts from.
LEMMA RunningStep ==
  ASSUME IInv, NEW t \in Threads, threads[t].pc \in RunPoints
  PROVE  /\ t \in Running /\ t \in AtWork /\ t[1] \in Runs /\ t # None
         /\ threads \in [Threads -> ThreadStates]
         /\ threads[t].made \in Nat /\ threads[t].folds \in Nat
         /\ threads[t].taken \in Seq(Threads)
         /\ PointInv(t) /\ RowInv(t[1]) /\ status[t[1]] # None
BY JobIs, RunningIs DEF IInv, TypeOK, ThreadStates, PointInv

\* A step of a job that runs leaves the others as they have met.
LEMMA StepAlone ==
  ASSUME IInv, NEW t \in Threads, t \in Running, t \in AtWork, Grow, met' = met,
         \A u \in Threads \ {t} : threads'[u].pc = threads[u].pc
  PROVE  /\ MetInv'
         /\ \A u \in Running \ {t} : u[1] = t[1] => u \in met' /\ t \in met'
<1>1. Running' \subseteq Running
  BY DEF Running, AtWork
<1> QED
  BY <1>1, MetKept, RunningMet DEF IInv, Grow

\* The row is COMPLETED with the number of trades made; the job goes on to store them.
LEMMA CompleteStep ==
  ASSUME IInv, NEW t \in Threads, Complete(t)
  PROVE  IInv'
<1>0. /\ threads[t].pc = "update" /\ threads[t].pc \in RunPoints
  BY DEF Complete, RunPoints, Points
<1>1. /\ t \in Running /\ t \in AtWork /\ t[1] \in Runs
      /\ threads \in [Threads -> ThreadStates] /\ threads[t].made \in Nat
      /\ PointInv(t) /\ status[t[1]] # None
  BY <1>0, RunningStep
<1>2. UNCHANGED <<now, lastKey, task, pool, trades, metrics, folders, copies, mishaps,
                  begun, cut, met, mixed, doubled>>
  BY DEF Complete, jobVars, childVars, fileVars, ghostVars
<1>3. /\ threads' \in [Threads -> ThreadStates]
      /\ threads'[t].pc = "trades" /\ threads'[t].made = threads[t].made
      /\ threads'[t].taken = threads[t].taken
      /\ \A u \in Threads \ {t} : threads'[u] = threads[u]
  BY <1>1, GotoIs DEF Complete, Points
<1>4. /\ [by |-> t, total |-> threads[t].made] \in Results
      /\ status' \in [Runs -> {None, "RUNNING", "COMPLETED", "FAILED", "INTERRUPTED"}]
      /\ summary' \in [Runs -> Results \cup {None}]
      /\ \A q \in Runs \ {t[1]} : status'[q] = status[q] /\ summary'[q] = summary[q]
      /\ status'[t[1]] = "COMPLETED"
      /\ summary'[t[1]] = [by |-> t, total |-> threads[t].made]
  <2>1. [by |-> t, total |-> threads[t].made] \in Results
    BY <1>1 DEF Results
  <2> QED
    BY <1>1, <2>1, UpdateIs DEF Complete, IInv
<1>5. TypeOK'
  BY <1>2, <1>3, <1>4 DEF TypeOK, IInv
<1>6. Grow
  BY <1>2 DEF Grow
<1>7. RowInv(t[1])'
  BY <1>3, <1>4 DEF RowInv, Stands
<1>8. PointInv(t)'
  BY <1>0, <1>1, <1>2, <1>3, <1>4, JobsAssumption DEF PointInv
<1>9. /\ MetInv'
      /\ \A u \in Running \ {t} : u[1] = t[1] => u \in met' /\ t \in met'
  BY <1>1, <1>2, <1>3, <1>6, StepAlone
<1> QED
  BY <1>1, <1>2, <1>3, <1>4, <1>5, <1>6, <1>7, <1>8, <1>9, StepOfThread

\* The last step of a job stores what makes the run whole.
LEMMA StoreChildrenStep ==
  ASSUME IInv, NEW t \in Threads, StoreChildren(t)
  PROVE  IInv'
<1>0. /\ threads[t].pc = "children" /\ threads[t].pc \in RunPoints
  BY DEF StoreChildren, RunPoints, Points
<1>1. /\ t \in Running /\ t \in AtWork /\ t[1] \in Runs /\ t # None
      /\ threads \in [Threads -> ThreadStates]
  BY <1>0, RunningStep
<1>2. /\ UNCHANGED <<now, lastKey, task, pool, status, summary, trades, folders, copies,
                     mishaps, begun, cut, met, mixed, doubled>>
      /\ metrics' = [metrics EXCEPT ![t[1]] = t]
  BY DEF StoreChildren, jobVars, rowVars, fileVars, ghostVars
<1>3. /\ threads' \in [Threads -> ThreadStates]
      /\ threads'[t].pc \in {"none", "returned"}
      /\ \A u \in Threads \ {t} : threads'[u] = threads[u]
  BY <1>1, EndIs DEF StoreChildren
<1>4. TypeOK' /\ metrics'[t[1]] = t /\ \A r \in Runs \ {t[1]} : metrics'[r] = metrics[r]
  BY <1>1, <1>2, <1>3 DEF TypeOK, IInv
<1>5. Grow
  BY <1>2 DEF Grow
<1>6. Stands(t) => Stands(t)'
  BY <1>0, <1>1, <1>2, <1>4 DEF Stands
<1>7. RowInv(t[1])'
  BY <1>1, <1>2, <1>3, <1>4, <1>5, <1>6, RowOfStep
<1>8. PointInv(t)'
  BY <1>3, PointAtRest
<1>9. /\ MetInv'
      /\ \A u \in Running \ {t} : u[1] = t[1] => u \in met' /\ t \in met'
  BY <1>1, <1>2, <1>3, <1>5, StepAlone
<1> QED
  BY <1>1, <1>2, <1>3, <1>4, <1>5, <1>7, <1>8, <1>9, StepOfThread

\* A failing statement leads to the except clause, with the row as it is.
LEMMA FailsStep ==
  ASSUME IInv, NEW t \in Threads, Fails(t)
  PROVE  IInv'
<1>0. threads[t].pc \in RunPoints
  BY DEF Fails, RunPoints, Points
<1>1. /\ t \in Running /\ t \in AtWork /\ t[1] \in Runs
      /\ threads \in [Threads -> ThreadStates] /\ PointInv(t)
  BY <1>0, RunningStep
<1>2. /\ UNCHANGED <<now, lastKey, task, pool, status, summary, trades, metrics, copies,
                     begun, cut, met, mixed, doubled>>
      /\ mishaps' = mishaps + 1
  BY DEF Fails, jobVars, rowVars, childVars, ghostVars, Fault
<1>3. /\ threads' \in [Threads -> ThreadStates]
      /\ threads'[t].pc = "failing"
      /\ \A u \in Threads \ {t} : threads'[u] = threads[u]
  BY <1>1, GotoIs DEF Fails, Caught, Points
<1>4. TypeOK'
  BY <1>2, <1>3 DEF TypeOK, IInv
<1>5. Grow
  BY <1>2 DEF Grow
<1>6. Stands(t)'
  BY <1>3 DEF Stands
<1>7. RowInv(t[1])'
  BY <1>1, <1>2, <1>3, <1>5, <1>6, RowOfStep
<1>8. PointInv(t)'
  BY <1>0, <1>1, <1>2, <1>3 DEF PointInv
<1>9. /\ MetInv'
      /\ \A u \in Running \ {t} : u[1] = t[1] => u \in met' /\ t \in met'
  BY <1>1, <1>2, <1>3, <1>5, StepAlone
<1> QED
  BY <1>1, <1>2, <1>3, <1>4, <1>5, <1>7, <1>8, <1>9, StepOfThread

\* The except clause leaves a FAILED row, or the job is noted.
LEMMA MarkFailedStep ==
  ASSUME IInv, NEW t \in Threads, MarkFailed(t)
  PROVE  IInv'
<1>0. threads[t].pc \in RunPoints
  BY DEF MarkFailed, RunPoints, Points
<1>1. /\ t \in Running /\ t \in AtWork /\ t[1] \in Runs
      /\ threads \in [Threads -> ThreadStates] /\ TypeOK
  BY <1>0, RunningStep DEF IInv
<1>2. UNCHANGED <<now, lastKey, task, pool, trades, metrics, folders, copies, begun, met,
                  mixed, doubled>>
  BY DEF MarkFailed, jobVars, childVars, fileVars
<1>3. /\ threads' \in [Threads -> ThreadStates]
      /\ threads'[t].pc \in {"none", "returned", "raised"}
      /\ \A u \in Threads \ {t} : threads'[u] = threads[u]
  <2>1. PICK how \in {"returned", "raised"} : End(t, how)
    BY DEF MarkFailed
  <2> QED
    BY <1>1, <2>1, EndIs
<1>4. /\ mishaps' \in Nat /\ cut' \subseteq Threads /\ cut \subseteq cut'
      /\ status' \in [Runs -> {None, "RUNNING", "COMPLETED", "FAILED", "INTERRUPTED"}]
      /\ summary' \in [Runs -> Results \cup {None}]
      /\ \A q \in Runs \ {t[1]} : status'[q] = status[q] /\ summary'[q] = summary[q]
      /\ \/ status'[t[1]] = "FAILED"
         \/ /\ status'[t[1]] = status[t[1]] /\ summary'[t[1]] = summary[t[1]]
            /\ t \in cut' \/ status[t[1]] # "COMPLETED"
  BY <1>1, GiveUpIs DEF MarkFailed
<1>5. TypeOK'
  BY <1>1, <1>2, <1>3, <1>4 DEF TypeOK
<1>6. Grow
  BY <1>2, <1>4 DEF Grow
<1>7. RowInv(t[1])'
  <2>1. CASE status'[t[1]] = "FAILED"
    BY <2>1 DEF RowInv
  <2>2. CASE /\ status'[t[1]] = status[t[1]] /\ summary'[t[1]] = summary[t[1]]
             /\ t \in cut' \/ status[t[1]] # "COMPLETED"
    <3>1. status[t[1]] = "COMPLETED" => Stands(t)'
      BY <2>2 DEF Stands
    <3> QED
      BY <1>1, <1>2, <1>3, <1>6, <2>2, <3>1, RowOfStep
  <2> QED
    BY <1>4, <2>1, <2>2
<1>8. PointInv(t)'
  BY <1>3, PointAtRest
<1>9. /\ MetInv'
      /\ \A u \in Running \ {t} : u[1] = t[1] => u \in met' /\ t \in met'
  BY <1>1, <1>2, <1>3, <1>6, StepAlone
<1> QED
  BY <1>1, <1>2, <1>3, <1>4, <1>5, <1>6, <1>7, <1>8, <1>9, StepOfThread

\* The report of a BACKTEST replay holds what it has made.
LEMMA CollectReportStep ==
  ASSUME IInv, NEW t \in Threads, CollectReport(t)
  PROVE  IInv'
<1> DEFINE items == Own(t, threads[t].made)
           state == [At("update") EXCEPT !.made = threads[t].made, !.taken = items]
<1>0. /\ threads[t].pc = "replay" /\ threads[t].pc \in RunPoints
  BY DEF CollectReport, RunPoints, Points
<1>1. /\ t \in Running /\ t \in AtWork /\ t[1] \in Runs
      /\ threads \in [Threads -> ThreadStates] /\ threads[t].made \in Nat /\ PointInv(t)
  BY <1>0, RunningStep
<1>2. UNCHANGED <<now, lastKey, task, pool, status, summary, trades, metrics, folders,
                  copies, mishaps, begun, cut, met, mixed, doubled>>
  BY DEF CollectReport, jobVars, rowVars, childVars, fileVars, ghostVars
<1>3. /\ threads' \in [Threads -> ThreadStates]
      /\ threads'[t].pc = "update" /\ threads'[t].taken = Own(t, threads'[t].made)
      /\ \A u \in Threads \ {t} : threads'[u] = threads[u]
  <2>1. items \in Seq(Threads)
    BY <1>1 DEF Own
  <2>2. /\ state \in ThreadStates /\ state.pc = "update"
        /\ state.made = threads[t].made /\ state.taken = items
    <3> HIDE DEF items
    <3> QED
      BY <1>1, <2>1 DEF ThreadStates, At, Points
  <2>3. threads' = [threads EXCEPT ![t] = state]
    BY DEF CollectReport, Own
  <2> HIDE DEF state
  <2> QED
    BY <1>1, <2>2, <2>3, PutIs
<1>4. TypeOK'
  BY <1>2, <1>3 DEF TypeOK, IInv
<1>5. Grow
  BY <1>2 DEF Grow
<1>7. RowInv(t[1])'
  <2>1. Stands(t) => Stands(t)'
    BY <1>0, <1>2, <1>3 DEF Stands
  <2> QED
    BY <1>1, <1>2, <1>3, <1>5, <2>1, RowOfStep, RowKept DEF IInv
<1>8. PointInv(t)'
  BY <1>0, <1>1, <1>2, <1>3 DEF PointInv
<1>9. /\ MetInv'
      /\ \A u \in Running \ {t} : u[1] = t[1] => u \in met' /\ t \in met'
  BY <1>1, <1>2, <1>3, <1>5, StepAlone
<1> QED
  BY <1>1, <1>2, <1>3, <1>4, <1>5, <1>7, <1>8, <1>9, StepOfThread

-------------------------------------------------------------------------------
(* The list of the process                                                 *)

\* What a job finds at the end of the list is its own if the end is.
LEMMA LastIs ==
  ASSUME TypeOK, NEW t \in Threads, NEW total \in Nat
  PROVE  /\ Origins(LastOf(total)) \in Seq(Threads)
         /\ (/\ total <= Len(pool)
             /\ \A i \in 1..Len(pool) : i > Len(pool) - total => pool[i].by = t) =>
              Origins(LastOf(total)) = Own(t, total)
<1>1. pool \in Seq(Items) /\ Len(pool) \in Nat
  BY DEF TypeOK
<1>2. CASE total = 0
  BY <1>2 DEF LastOf, Origins, Own
<1>3. CASE total # 0
  <2> DEFINE first == IF Len(pool) < total THEN 1 ELSE Len(pool) - total + 1
             last == SubSeq(pool, first, Len(pool))
  <2>1. first \in 1..Len(pool)+1 /\ Len(pool) - first + 1 \in 0..total
    BY <1>1, <1>3
  <2>2. total <= Len(pool) => first = Len(pool) - total + 1
    BY <1>1
  <2> HIDE DEF first
  <2>3. /\ last \in Seq(Items)
        /\ Len(last) = Len(pool) - first + 1
        /\ \A i \in 1..Len(pool)-first+1 : last[i] = pool[first + i - 1]
    <3>1. \A i \in first..Len(pool) : pool[i] \in Items
      BY <1>1, <2>1
    <3> QED
      BY <1>1, <2>1, <3>1, SubSeqProperties
  <2>4. LastOf(total) = last
    BY <1>3 DEF LastOf, first
  <2> HIDE DEF last
  <2>5. Origins(last) = [i \in 1..Len(last) |-> last[i].by] /\ Len(last) \in Nat
    BY <2>3 DEF Origins
  <2>6. \A i \in 1..Len(last) : last[i].by \in Threads
    <3>1. \A i \in 1..Len(last) : last[i] \in Items
      BY <2>3
    <3> QED
      BY <3>1 DEF Items
  <2>7. Origins(last) \in Seq(Threads)
    BY <2>5, <2>6
  <2>8. ASSUME total <= Len(pool),
               \A i \in 1..Len(pool) : i > Len(pool) - total => pool[i].by = t
        PROVE  Origins(last) = Own(t, total)
    <3>1. Len(last) = total /\ first = Len(pool) - total + 1
      BY <1>1, <2>2, <2>3, <2>8
    <3>2. ASSUME NEW i \in 1..total  PROVE last[i].by = t
      <4>1. last[i] = pool[first + i - 1]
        BY <2>3, <3>1, <3>2
      <4>2. first + i - 1 \in 1..Len(pool) /\ first + i - 1 > Len(pool) - total
        BY <1>1, <2>8, <3>1, <3>2
      <4> QED
        BY <2>8, <4>1, <4>2
    <3> QED
      BY <2>5, <3>1, <3>2 DEF Own
  <2> QED
    BY <2>4, <2>7, <2>8
<1> QED
  BY <1>2, <1>3

\* A walk-forward job takes its own trades from the list, unless it is noted as mixed;
\* what it leaves in the tables of the service is read by jobs that are noted.
LEMMA CollectFoldsStep ==
  ASSUME IInv, NEW t \in Threads, CollectFolds(t)
  PROVE  IInv'
<1> DEFINE items == Origins(LastOf(threads[t].made))
           state == [At("update") EXCEPT !.made = threads[t].made, !.taken = items]
<1>0. /\ threads[t].pc = "replay" /\ threads[t].pc \in RunPoints /\ t[2] # "BACKTEST"
  BY DEF CollectFolds, RunPoints, Points
<1>1. /\ t \in Running /\ t \in AtWork /\ t[1] \in Runs
      /\ threads \in [Threads -> ThreadStates] /\ threads[t].made \in Nat /\ PointInv(t)
  BY <1>0, RunningStep
<1>2. /\ UNCHANGED <<now, lastKey, task, pool, status, summary, trades, metrics,
                     copies, mishaps, begun, cut, met, doubled>>
      /\ mixed \subseteq mixed'
  BY DEF CollectFolds, jobVars, rowVars, childVars
<1>3. Grow
  BY <1>2 DEF Grow
<1>4. /\ items \in Seq(Threads)
      /\ t \notin mixed => items = Own(t, threads[t].made)
  <2>1. t \notin mixed => OwnEnd(t)
    BY <1>0, <1>1 DEF PointInv
  <2> QED
    BY <1>1, <2>1, LastIs DEF OwnEnd, IInv
<1>5. /\ state \in ThreadStates /\ state.pc = "update"
      /\ state.made = threads[t].made /\ state.taken = items
  <2> HIDE DEF items
  <2> QED
    BY <1>1, <1>4 DEF ThreadStates, At, Points
<1>6. PICK others \in SUBSET Readers(t) :
        /\ threads' = [u \in Threads |->
             IF u = t THEN state
             ELSE IF u \in others THEN [threads[u] EXCEPT !.taken = items]
             ELSE threads[u]]
        /\ mixed' = mixed \cup {u \in others : u[1] # t[1]}
  BY DEF CollectFolds
<1> HIDE DEF items, state
<1>7. ASSUME NEW u \in others
      PROVE  /\ u \in Threads /\ u # t /\ u[2] # "BACKTEST" /\ threads[u].pc = "update"
             /\ u \in met \cup mixed'
  <2>1. u \in Running /\ u # t /\ u[2] # "BACKTEST" /\ threads[u].pc = "update"
    BY <1>7 DEF Readers
  <2>2. u[1] = t[1] => u \in met
    BY <1>1, <2>1 DEF MetInv, IInv
  <2>3. u[1] # t[1] => u \in mixed'
    BY <1>6, <1>7
  <2> QED
    BY <2>1, <2>2, <2>3 DEF Running, AtWork
<1>8. /\ threads' \in [Threads -> ThreadStates]
      /\ threads'[t] = state
      /\ \A u \in Threads \ {t} :
           \/ threads'[u] = threads[u]
           \/ u \in met' \cup mixed' /\ threads[u].pc = "update" /\ threads'[u].pc = "update"
  <2>1. ASSUME NEW u \in others
        PROVE  /\ [threads[u] EXCEPT !.taken = items] \in ThreadStates
               /\ [threads[u] EXCEPT !.taken = items].pc = "update"
    BY <1>1, <1>4, <1>7 DEF ThreadStates
  <2>2. \A u \in Threads \ {t} :
           \/ threads'[u] = threads[u]
           \/ u \in met' \cup mixed' /\ threads[u].pc = "update" /\ threads'[u].pc = "update"
    BY <1>2, <1>6, <1>7, <2>1
  <2>3. threads' \in [Threads -> ThreadStates] /\ threads'[t] = state
    BY <1>1, <1>5, <1>6, <2>1
  <2> QED
    BY <2>2, <2>3
<1>9. TypeOK'
  <2>1. mixed' \subseteq {u \in Threads : u[2] # "BACKTEST"}
    BY <1>6, <1>7 DEF TypeOK, IInv
  <2> QED
    BY <1>2, <1>8, <2>1 DEF TypeOK, IInv
<1>10. \A u \in Threads \ {t} : threads'[u].pc = threads[u].pc
  BY <1>8
<1>11. RowInv(t[1])'
  <2>1. Stands(t) => Stands(t)'
    BY <1>0, <1>2, <1>5, <1>8 DEF Stands
  <2> QED
    BY <1>1, <1>2, <1>3, <1>10, <2>1, RowOfStep
<1>12. PointInv(t)'
  BY <1>0, <1>1, <1>2, <1>4, <1>5, <1>8 DEF PointInv
<1>13. /\ MetInv'
       /\ \A u \in Running \ {t} : u[1] = t[1] => u \in met' /\ t \in met'
  BY <1>1, <1>2, <1>3, <1>10, StepAlone
<1> QED
  BY <1>1, <1>2, <1>3, <1>8, <1>9, <1>11, <1>12, <1>13, StepOfThread

\* The walk-forward jobs that are replaying are noted when the list changes.
LEMMA OverrunIs ==
  ASSUME TypeOK, NEW t \in Threads, Overrun(t)
  PROVE  /\ mixed \subseteq mixed' /\ mixed' \subseteq {u \in Threads : u[2] # "BACKTEST"}
         /\ \A u \in Threads \ {t} :
              threads[u].pc = "replay" => u[2] = "BACKTEST" \/ u \in mixed'
BY DEF Overrun, TypeOK

\* A fold adds its trades at the end of the list.
LEMMA PoolAfterFold ==
  ASSUME TypeOK, NEW t \in Threads, NEW n \in Nat,
         pool' = pool \o [i \in 1..n |-> [by |-> t, of |-> None]]
  PROVE  /\ pool' \in Seq(Items) /\ Len(pool') = Len(pool) + n /\ Len(pool) \in Nat
         /\ \A i \in 1..Len(pool') :
              pool'[i].by = IF i <= Len(pool) THEN pool[i].by ELSE t
<1> DEFINE found == [i \in 1..n |-> [by |-> t, of |-> None]]
<1>1. pool \in Seq(Items) /\ Len(pool) \in Nat /\ n \in Nat
  BY DEF TypeOK
<1>2. [by |-> t, of |-> None] \in Items
  BY DEF Items
<1>3. found \in Seq(Items) /\ Len(found) = n /\ \A i \in 1..n : found[i].by = t
  BY <1>1, <1>2
<1>4. pool' = pool \o found
  OBVIOUS
<1> HIDE DEF found
<1>5. /\ pool' \in Seq(Items)
      /\ Len(pool') = Len(pool) + n
      /\ \A i \in 1..Len(pool)+n :
           pool'[i] = IF i <= Len(pool) THEN pool[i] ELSE found[i - Len(pool)]
  <2>1. found \in Seq(Items) /\ pool \in Seq(Items)
    BY <1>1, <1>3
  <2>2. /\ pool \o found \in Seq(Items)
        /\ Len(pool \o found) = Len(pool) + Len(found)
        /\ \A i \in 1..Len(pool)+Len(found) :
             (pool \o found)[i] = IF i <= Len(pool) THEN pool[i] ELSE found[i - Len(pool)]
    BY <2>1, ConcatProperties
  <2> QED
    BY <1>3, <1>4, <2>2
<1>6. ASSUME NEW i \in 1..Len(pool')
      PROVE  pool'[i].by = IF i <= Len(pool) THEN pool[i].by ELSE t
  <2>1. i \in 1..Len(pool)+n
    BY <1>5
  <2>2. CASE i <= Len(pool)
    BY <1>5, <2>1, <2>2
  <2>3. CASE ~(i <= Len(pool))
    <3>1. i - Len(pool) \in 1..n
      BY <1>1, <2>1, <2>3
    <3> QED
      BY <1>3, <1>5, <2>1, <2>3, <3>1
  <2> QED
    BY <2>2, <2>3
<1> QED
  BY <1>1, <1>5, <1>6

\* A fold adds to the end of the list what its job has made.
LEMMA FoldStep ==
  ASSUME IInv, NEW t \in Threads, Fold(t)
  PROVE  IInv'
<1>0. /\ threads[t].pc = "replay" /\ threads[t].pc \in RunPoints
  BY DEF Fold, RunPoints, Points
<1>1. /\ t \in Running /\ t \in AtWork /\ t[1] \in Runs
      /\ threads \in [Threads -> ThreadStates] /\ threads[t].made \in Nat /\ PointInv(t)
      /\ TypeOK
  BY <1>0, RunningStep DEF IInv
<1>2. UNCHANGED <<now, lastKey, task, status, summary, trades, metrics, folders, copies,
                  mishaps, begun, cut, met, doubled>>
  BY DEF Fold, jobVars, rowVars, childVars, fileVars
<1>3. PICK n \in Finds :
        /\ pool' = pool \o [i \in 1..n |-> [by |-> t, of |-> None]]
        /\ threads' = [threads EXCEPT ![t].folds = @ + 1, ![t].made = @ + n]
  BY DEF Fold
<1> n \in Nat
  BY JobsAssumption
<1>4. /\ threads' \in [Threads -> ThreadStates]
      /\ threads'[t].pc = "replay"
      /\ threads'[t].made = threads[t].made + n
      /\ \A u \in Threads \ {t} : threads'[u] = threads[u]
  BY <1>0, <1>1, <1>3, FoldIs
<1>5. /\ pool' \in Seq(Items) /\ Len(pool') = Len(pool) + n /\ Len(pool) \in Nat
      /\ \A i \in 1..Len(pool') : pool'[i].by = IF i <= Len(pool) THEN pool[i].by ELSE t
  BY <1>1, <1>3, PoolAfterFold
<1>6. /\ mixed \subseteq mixed' /\ mixed' \subseteq {u \in Threads : u[2] # "BACKTEST"}
      /\ \A u \in Threads \ {t} :
           threads[u].pc = "replay" => u[2] = "BACKTEST" \/ u \in mixed'
  BY <1>1, OverrunIs DEF Fold
<1>7. TypeOK'
  BY <1>1, <1>2, <1>4, <1>5, <1>6 DEF TypeOK
<1>8. Grow
  BY <1>2, <1>6 DEF Grow
<1>9. RowInv(t[1])'
  <2>1. Stands(t) => Stands(t)'
    BY <1>0, <1>2, <1>6 DEF Stands
  <2> QED
    BY <1>1, <1>2, <1>4, <1>8, <2>1, RowOfStep
<1>10. OwnEnd(t) => OwnEnd(t)'
  <2> SUFFICES ASSUME OwnEnd(t)  PROVE OwnEnd(t)'
    OBVIOUS
  <2> SUFFICES ASSUME NEW i \in 1..Len(pool'), i > Len(pool') - (threads[t].made + n)
               PROVE  pool'[i].by = t
    <3>1. threads'[t].made <= Len(pool')
      BY <1>1, <1>4, <1>5 DEF OwnEnd
    <3> QED
      BY <1>4, <3>1 DEF OwnEnd
  <2>1. i > Len(pool) - threads[t].made /\ i \in Nat /\ i >= 1
    BY <1>1, <1>5
  <2>2. CASE i <= Len(pool)
    BY <1>5, <2>1, <2>2 DEF OwnEnd
  <2>3. CASE ~(i <= Len(pool))
    BY <1>5, <2>3
  <2> QED
    BY <2>2, <2>3
<1>11. PointInv(t)'
  BY <1>0, <1>1, <1>2, <1>4, <1>6, <1>10 DEF PointInv
<1>12. /\ MetInv'
       /\ \A u \in Running \ {t} : u[1] = t[1] => u \in met' /\ t \in met'
  BY <1>1, <1>2, <1>4, <1>8, StepAlone
<1> QED
  BY <1>1, <1>2, <1>4, <1>6, <1>7, <1>8, <1>9, <1>11, <1>12, StepOfThread

\* The list that replaces the old one.
LEMMA ReplacedIs ==
  ASSUME TypeOK, NEW t \in Threads, Replaced(t)
  PROVE  pool' \in Seq(Items)
<1> DEFINE saved == [i \in DOMAIN threads[t].taken |->
                       [by |-> threads[t].taken[i], of |-> t[1]]]
           Others(n) == {i \in 1..n : pool[i].of # t[1]}
<1>1. PICK n \in 0..Len(pool) :
        \E kept \in InOrder(Others(n)) :
          pool' = [i \in DOMAIN kept |-> pool[kept[i]]] \o saved
  BY DEF Replaced
<1> DEFINE some == Others(n)
<1>2. PICK kept \in InOrder(some) :
        pool' = [i \in DOMAIN kept |-> pool[kept[i]]] \o saved
  BY <1>1
<1>3. threads[t].taken \in Seq(Threads) /\ t[1] \in Runs
  BY JobIs DEF TypeOK, ThreadStates
<1>4. saved \in Seq(Items)
  <2>1. \A i \in 1..Len(threads[t].taken) : threads[t].taken[i] \in Threads
    BY <1>3
  <2>2. DOMAIN threads[t].taken = 1..Len(threads[t].taken) /\ Len(threads[t].taken) \in Nat
    BY <1>3
  <2> QED
    BY <1>3, <2>1, <2>2 DEF Items
<1>5. some \subseteq 1..Len(pool) /\ Cardinality(some) \in Nat
  <2>1. some \subseteq 1..n /\ n \in Nat /\ 1..n \subseteq 1..Len(pool)
    BY DEF TypeOK
  <2>2. IsFiniteSet(1..n)
    BY <2>1, FS_Interval
  <2>3. IsFiniteSet(some)
    BY <2>1, <2>2, FS_Subset
  <2> QED
    BY <2>1, <2>3, FS_CardinalityType
<1> HIDE DEF some
<1>6. [i \in DOMAIN kept |-> pool[kept[i]]] \in Seq(Items)
  <2>1. kept \in [1..Cardinality(some) -> some]
    BY DEF InOrder
  <2>2. DOMAIN kept = 1..Cardinality(some)
        /\ \A i \in 1..Cardinality(some) : pool[kept[i]] \in Items
    <3>1. \A i \in 1..Cardinality(some) : kept[i] \in 1..Len(pool)
      BY <1>5, <2>1
    <3>2. \A i \in 1..Len(pool) : pool[i] \in Items
      BY DEF TypeOK
    <3> QED
      BY <2>1, <3>1, <3>2
  <2> QED
    BY <1>5, <2>2
<1> HIDE DEF saved
<1> QED
  BY <1>2, <1>4, <1>6, ConcatProperties

\* The trades of the run are gone, and those taken come next.
LEMMA DeleteTradesStep ==
  ASSUME IInv, NEW t \in Threads, DeleteTrades(t)
  PROVE  IInv'
<1>0. /\ threads[t].pc = "trades" /\ threads[t].pc \in RunPoints
  BY DEF DeleteTrades, RunPoints, Points
<1>1. /\ t \in Running /\ t \in AtWork /\ t[1] \in Runs
      /\ threads \in [Threads -> ThreadStates] /\ PointInv(t) /\ TypeOK
  BY <1>0, RunningStep DEF IInv
<1>2. UNCHANGED <<now, lastKey, task, status, summary, metrics, folders, copies, begun,
                  cut, met, doubled>>
  BY DEF DeleteTrades, jobVars, rowVars, fileVars
<1>3. pool' \in Seq(Items)
  BY <1>1, ReplacedIs DEF DeleteTrades
<1>4. /\ mixed \subseteq mixed' /\ mixed' \subseteq {u \in Threads : u[2] # "BACKTEST"}
      /\ \A u \in Threads \ {t} :
           threads[u].pc = "replay" => u[2] = "BACKTEST" \/ u \in mixed'
  BY <1>1, OverrunIs DEF DeleteTrades
<1>5. Grow
  BY <1>2, <1>4 DEF Grow
<1>6. PICK point \in {"insert", "children", "failing"} :
        /\ Goto(t, point) /\ mishaps' \in Nat
        /\ \/ point # "failing" /\ trades' = [trades EXCEPT ![t[1]] = <<>>]
           \/ point = "failing" /\ trades' = trades
        /\ point = "children" => threads[t].taken = <<>>
  BY <1>1 DEF DeleteTrades, Caught, Fault, TypeOK
<1>7. /\ threads' \in [Threads -> ThreadStates]
      /\ threads'[t].pc = point /\ threads'[t].made = threads[t].made
      /\ threads'[t].taken = threads[t].taken
      /\ \A u \in Threads \ {t} : threads'[u] = threads[u]
  BY <1>1, <1>6, GotoIs DEF Points
<1>8. /\ trades' \in [Runs -> Seq(Threads)]
      /\ \A r \in Runs \ {t[1]} : trades'[r] = trades[r]
      /\ point # "failing" => trades'[t[1]] = <<>>
  <2>1. <<>> \in Seq(Threads)
    OBVIOUS
  <2> QED
    BY <1>1, <1>6, <2>1 DEF TypeOK
<1>9. TypeOK'
  BY <1>1, <1>2, <1>3, <1>4, <1>6, <1>7, <1>8 DEF TypeOK
<1>10. RowInv(t[1])'
  <2>1. ASSUME status[t[1]] = "COMPLETED", summary[t[1]].by = t  PROVE Stands(t)'
    <3>1. CASE point \in {"insert", "failing"}
      BY <1>7, <3>1 DEF Stands
    <3>2. CASE point = "children"
      <4>1. ASSUME t \notin cut' \cup met' \cup mixed' \cup doubled'
            PROVE  trades'[t[1]] = Own(t, summary'[t[1]].total)
        <5>1. threads[t].taken = Own(t, threads[t].made)
          BY <1>0, <1>1, <1>2, <1>4, <4>1 DEF PointInv
        <5>2. summary'[t[1]].total = threads[t].made
          BY <1>0, <1>1, <1>2, <2>1 DEF PointInv
        <5>3. trades'[t[1]] = <<>> /\ threads[t].taken = <<>>
          BY <1>6, <1>8, <3>2
        <5> QED
          BY <5>1, <5>2, <5>3
      <4> QED
        BY <1>7, <3>2, <4>1 DEF Stands
    <3> QED
      BY <3>1, <3>2
  <2> QED
    BY <1>1, <1>2, <1>5, <1>7, <2>1, RowOfStep
<1>11. PointInv(t)'
  BY <1>0, <1>1, <1>2, <1>4, <1>7, <1>8 DEF PointInv
<1>12. /\ MetInv'
       /\ \A u \in Running \ {t} : u[1] = t[1] => u \in met' /\ t \in met'
  BY <1>1, <1>2, <1>5, <1>7, StepAlone
<1> QED
  BY <1>1, <1>2, <1>4, <1>5, <1>7, <1>8, <1>9, <1>10, <1>11, <1>12, StepOfThread

\* The stored trades are those taken, as many as the summary says.
LEMMA InsertTradesStep ==
  ASSUME IInv, NEW t \in Threads, InsertTrades(t)
  PROVE  IInv'
<1> DEFINE r == t[1]
           taken == threads[t].taken
<1>0. /\ threads[t].pc = "insert" /\ threads[t].pc \in RunPoints
  BY DEF InsertTrades, RunPoints, Points
<1>1. /\ t \in Running /\ t \in AtWork /\ r \in Runs
      /\ threads \in [Threads -> ThreadStates] /\ PointInv(t) /\ TypeOK
      /\ taken \in Seq(Threads) /\ threads[t].made \in Nat
  BY <1>0, RunningStep DEF IInv
<1>2. UNCHANGED <<now, lastKey, task, pool, status, summary, metrics, folders, copies,
                  begun, cut, met, mixed>>
  BY DEF InsertTrades, jobVars, rowVars, fileVars
<1>3. /\ trades[r] \in Seq(Threads) /\ trades[r] \o taken \in Seq(Threads)
      /\ (trades[r] \o taken) \o taken \in Seq(Threads)
  <2>1. trades[r] \in Seq(Threads)
    BY <1>1 DEF TypeOK
  <2>2. trades[r] \o taken \in Seq(Threads)
    BY <1>1, <2>1, ConcatProperties
  <2>3. (trades[r] \o taken) \o taken \in Seq(Threads)
    BY <1>1, <2>2, ConcatProperties
  <2> QED
    BY <2>1, <2>2, <2>3
<1>4. PICK point \in {"children", "failing"},
           rows \in {trades[r], trades[r] \o taken, (trades[r] \o taken) \o taken} :
        /\ Goto(t, point) /\ mishaps' \in Nat
        /\ trades' = [trades EXCEPT ![r] = rows]
        /\ doubled' = doubled \/ doubled' = doubled \cup {t}
        /\ point = "children" => rows = trades[r] \o taken \/ t \in doubled'
  <2>1. /\ Added(t) = [trades EXCEPT ![r] = trades[r] \o taken]
        /\ Added(t)[r] = trades[r] \o taken
        /\ trades = [trades EXCEPT ![r] = trades[r]]
    BY <1>1 DEF Added, TypeOK
  <2>2. CASE trades' = Added(t) /\ Goto(t, "children") /\ UNCHANGED <<mishaps, doubled>>
    BY <1>1, <2>1, <2>2 DEF TypeOK
  <2>3. CASE /\ Fault /\ trades' = [trades EXCEPT ![r] = Added(t)[r] \o taken]
             /\ Goto(t, "children") /\ doubled' = doubled \cup {t}
    BY <1>1, <2>1, <2>3 DEF TypeOK, Fault
  <2>4. CASE Fault /\ trades' \in {trades, Added(t)} /\ Caught(t) /\ UNCHANGED doubled
    <3>1. mishaps' \in Nat /\ Goto(t, "failing") /\ doubled' = doubled
      BY <1>1, <2>4 DEF TypeOK, Fault, Caught
    <3>2. \/ trades' = [trades EXCEPT ![r] = trades[r]]
          \/ trades' = [trades EXCEPT ![r] = trades[r] \o taken]
      BY <2>1, <2>4
    <3> QED
      BY <3>1, <3>2
  <2> QED
    BY <2>2, <2>3, <2>4 DEF InsertTrades
<1>5. /\ threads' \in [Threads -> ThreadStates]
      /\ threads'[t].pc = point
      /\ \A u \in Threads \ {t} : threads'[u] = threads[u]
  BY <1>1, <1>4, GotoIs DEF Points
<1>6. /\ trades' \in [Runs -> Seq(Threads)]
      /\ \A q \in Runs \ {r} : trades'[q] = trades[q]
      /\ trades'[r] = rows
  BY <1>1, <1>3, <1>4 DEF TypeOK
<1>7. TypeOK'
  BY <1>1, <1>2, <1>4, <1>5, <1>6 DEF TypeOK
<1>8. Grow
  BY <1>2, <1>4 DEF Grow
<1>9. RowInv(r)'
  <2>1. ASSUME status[r] = "COMPLETED", summary[r].by = t  PROVE Stands(t)'
    <3>1. CASE point = "failing"
      BY <1>5, <3>1 DEF Stands
    <3>2. CASE point = "children"
      <4>1. ASSUME t \notin cut' \cup met' \cup mixed' \cup doubled'
            PROVE  trades'[r] = Own(t, summary'[r].total)
        <5>1. /\ trades[r] = <<>> /\ taken = Own(t, threads[t].made)
              /\ summary[r].total = threads[t].made
          BY <1>0, <1>1, <1>2, <2>1, <4>1 DEF PointInv
        <5>2. rows = <<>> \o taken
          BY <1>4, <3>2, <4>1, <5>1
        <5>3. <<>> \o taken = taken
          BY <1>1, ConcatEmptySeq
        <5> QED
          BY <1>2, <1>6, <5>1, <5>2, <5>3
      <4> QED
        BY <1>5, <3>2, <4>1 DEF Stands
    <3> QED
      BY <3>1, <3>2
  <2> QED
    BY <1>1, <1>2, <1>5, <1>8, <2>1, RowOfStep
<1>10. PointInv(t)'
  BY <1>0, <1>1, <1>2, <1>5 DEF PointInv
<1>11. /\ MetInv'
       /\ \A u \in Running \ {t} : u[1] = t[1] => u \in met' /\ t \in met'
  BY <1>1, <1>2, <1>5, <1>8, StepAlone
<1> QED
  BY <1>1, <1>2, <1>5, <1>6, <1>7, <1>8, <1>9, <1>10, <1>11, StepOfThread

-------------------------------------------------------------------------------
(* The other steps preserve the invariant                                   *)

\* A job that was not at work is at its first point.
LEMMA StartIs ==
  ASSUME threads \in [Threads -> ThreadStates], NEW t \in Threads, Start(t)
  PROVE  /\ threads' \in [Threads -> ThreadStates]
         /\ threads'[t] = At("create") /\ At("create").pc = "create"
         /\ \A u \in Threads \ {t} : threads'[u] = threads[u]
         /\ begun' = begun \cup {t} /\ AtWork' \subseteq AtWork \cup {t}
<1>1. At("create") \in ThreadStates /\ At("create").pc = "create"
  BY AtIs DEF Points
<1>2. /\ threads' \in [Threads -> ThreadStates]
      /\ threads'[t] = At("create")
      /\ \A u \in Threads \ {t} : threads'[u] = threads[u]
  BY <1>1, PutIs DEF Start
<1> QED
  BY <1>1, <1>2 DEF Start, AtWork

\* A run that a client starts may have any id, and jobs that work on it.
LEMMA StartManualStep ==
  ASSUME IInv, NEW t \in Threads, StartManual(t)
  PROVE  IInv'
<1>1. /\ threads \in [Threads -> ThreadStates] /\ TypeOK /\ ThreadInv
  BY DEF IInv, TypeOK
<1>2. /\ t[2] # "CLOSURE" /\ t \notin begun /\ Start(t)
      /\ UNCHANGED <<now, lastKey, task, pool, status, summary, trades, metrics, folders,
                     copies, mishaps, cut, met, mixed, doubled>>
  BY DEF StartManual, jobVars, rowVars, childVars, fileVars
<1>3. /\ threads' \in [Threads -> ThreadStates]
      /\ threads'[t] = At("create")
      /\ \A u \in Threads \ {t} : threads'[u] = threads[u]
      /\ begun' = begun \cup {t} /\ AtWork' \subseteq AtWork \cup {t}
  BY <1>1, <1>2, StartIs
<1>4. TypeOK'
  BY <1>1, <1>2, <1>3 DEF TypeOK
<1>5. ThreadInv'
  BY <1>1, <1>2, <1>3 DEF ThreadInv, Past
<1>6. t \notin Running
  BY <1>1, <1>2 DEF ThreadInv, Running
<1>7. Grow
  BY <1>2, <1>3 DEF Grow
<1> QED
  BY <1>2, <1>3, <1>4, <1>5, <1>6, <1>7, OtherStep

\* Time passes: what was past stays past.
LEMMA PassStep ==
  ASSUME IInv, Pass
  PROVE  IInv'
<1>1. /\ now' \in Instants /\ now' > now
      /\ UNCHANGED <<lastKey, task, threads, pool, status, summary, trades, metrics,
                     folders, copies, mishaps, begun, cut, met, mixed, doubled>>
  BY DEF Pass, jobVars, rowVars, childVars, fileVars, ghostVars
<1>2. TypeOK'
  BY <1>1 DEF TypeOK, IInv
<1>3. ThreadInv'
  <2>1. now \in Int /\ now' \in Int /\ \A i \in Instants : i \in Int
    BY <1>1, JobsAssumption DEF TypeOK, IInv
  <2> QED
    BY <1>1, <2>1 DEF ThreadInv, Past, AtWork, IInv
<1>4. Grow
  BY <1>1 DEF Grow
<1> QED
  BY <1>1, <1>2, <1>3, <1>4, OtherStep

\* The closure noted before this one does not come back.
LEMMA ClosureIsPast ==
  ASSUME TypeOK, ThreadInv, lastKey # NoKey, KeyAt(now) # NoKey, KeyAt(now) # lastKey
  PROVE  Past(lastKey)
<1> SUFFICES ASSUME NEW i \in Instants, i >= now, KeyAt(i) = lastKey
             PROVE  FALSE
  BY DEF Past
<1>1. PICK j \in Instants : j <= now /\ KeyAt(j) = lastKey
  BY DEF ThreadInv
<1>2. i \in Int /\ j \in Int /\ now \in Int
  BY JobsAssumption DEF TypeOK
<1> QED
  BY <1>1, <1>2, ClosureIsContiguous

\* A closure that is triggered has no job: the closure noted before does not come back.
LEMMA TriggerStep ==
  ASSUME IInv, Trigger
  PROVE  IInv'
<1> USE DEF IInv
<1> DEFINE key == KeyAt(now)
           first == <<key, "CLOSURE", 1>>
<1>1. /\ now \in Instants /\ now \in Int
      /\ Hours.key = key /\ key \in Keys /\ key # NoKey /\ lastKey # key
      /\ threads \in [Threads -> ThreadStates]
  <2>1. now \in Instants /\ now \in Int /\ threads \in [Threads -> ThreadStates]
    BY JobsAssumption DEF TypeOK
  <2>2. ~market_hours_state(now).open /\ lastKey # market_hours_state(now).key
    BY DEF Trigger, Hours, Unhandled
  <2> QED
    BY <2>1, <2>2, ClosedHasKey DEF Hours
<1>2. UNCHANGED <<now, pool, status, summary, trades, metrics, folders, copies, mishaps,
                  cut, met, mixed, doubled>>
  BY DEF Trigger, rowVars, childVars, fileVars
<1>3. ASSUME NEW u \in AtWork, u[2] = "CLOSURE"  PROVE Past(u[1]) /\ u # first
  <2>1. u \in Threads /\ u[1] \in Keys /\ u[1] # NoKey
    BY <1>3, JobIs DEF AtWork, Keys
  <2>2. Past(u[1])
    BY <1>1, <1>3, <2>1, ClosureIsPast DEF ThreadInv
  <2>3. u[1] # key
    BY <1>1, <2>2 DEF Past
  <2> QED
    BY <2>2, <2>3
<1>4. first \in Threads /\ first \notin AtWork /\ first[1] = key /\ first[2] = "CLOSURE"
      /\ first[3] = 1
  <2>1. first \in Threads /\ first[1] = key /\ first[2] = "CLOSURE" /\ first[3] = 1
    BY <1>1, JobIs
  <2> QED
    BY <1>3, <2>1
<1>5. lastKey' = key => \E i \in Instants : i <= now' /\ KeyAt(i) = lastKey'
  BY <1>1, <1>2
<1> HIDE DEF key, first
<1>6. CASE UNCHANGED <<lastKey, task, threads, begun>>
  <2>1. TypeOK'
    BY <1>2, <1>6 DEF TypeOK
  <2>2. ThreadInv'
    BY <1>2, <1>6, ThreadsKept DEF AtWork
  <2>3. Grow
    BY <1>2, <1>6 DEF Grow
  <2> QED
    BY <1>2, <1>6, <2>1, <2>2, <2>3, OtherStep
<1>7. CASE lastKey' = key /\ UNCHANGED <<task, threads, begun>>
  <2>1. TypeOK'
    BY <1>1, <1>2, <1>7 DEF TypeOK
  <2>2. ThreadInv'
    <3>1. AtWork' = AtWork
      BY <1>7 DEF AtWork
    <3> QED
      BY <1>2, <1>3, <1>5, <1>7, <3>1 DEF ThreadInv, Past
  <2>3. Grow
    BY <1>2, <1>7 DEF Grow
  <2> QED
    BY <1>2, <1>7, <2>1, <2>2, <2>3, OtherStep
<1>8. CASE lastKey' = key /\ Start(ThreadFor(key)) /\ task' = ThreadFor(key)
  <2>1. ThreadFor(key) = first
    BY <1>4 DEF ThreadFor, first
  <2>2. /\ threads' \in [Threads -> ThreadStates]
        /\ threads'[first] = At("create")
        /\ \A u \in Threads \ {first} : threads'[u] = threads[u]
        /\ begun' = begun \cup {first} /\ AtWork' \subseteq AtWork \cup {first}
    BY <1>1, <1>4, <1>8, <2>1, StartIs
  <2>3. TypeOK'
    BY <1>1, <1>2, <1>4, <1>8, <2>1, <2>2 DEF TypeOK
  <2>4. ASSUME NEW u \in AtWork'
        PROVE  /\ u \in begun'
               /\ u[2] = "CLOSURE" => u[3] = 1 /\ (u[1] = lastKey' \/ Past(u[1]))
    <3>1. CASE u = first
      BY <1>4, <1>8, <2>2, <3>1
    <3>2. CASE u \in AtWork
      BY <1>3, <2>2, <3>2 DEF ThreadInv
    <3> QED
      BY <2>2, <3>1, <3>2
  <2>5. ThreadInv'
    BY <1>2, <1>5, <1>8, <2>4 DEF ThreadInv, Past
  <2>6. Grow
    BY <1>2, <2>2 DEF Grow
  <2>7. first \notin Running
    BY <1>4 DEF Running
  <2> QED
    BY <1>2, <2>2, <2>3, <2>5, <2>6, <2>7, OtherStep
<1> QED
  BY <1>1, <1>6, <1>7, <1>8 DEF Trigger, Busy

\* A timeout leaves a job that has a thread at work.
LEMMA TimeoutStep ==
  ASSUME IInv, Timeout
  PROVE  IInv'
<1>1. /\ task \in AtWork /\ task \in Threads /\ task[1] \in Runs /\ GiveUp(task)
      /\ threads \in [Threads -> ThreadStates] /\ TypeOK
  BY JobIs DEF Timeout, AtWork, IInv, TypeOK
<1>2. /\ UNCHANGED <<now, lastKey, pool, trades, metrics, folders, copies, begun, met,
                     mixed, doubled>>
      /\ task' = None
  BY DEF Timeout, childVars, fileVars
<1>3. /\ threads' \in [Threads -> ThreadStates]
      /\ \A u \in Threads : \/ threads'[u] = threads[u]
                            \/ u \notin Running /\ threads'[u] = At("none")
  <2>1. CASE UNCHANGED threads
    BY <1>1, <2>1
  <2>2. CASE threads[task].pc = "create" /\ threads' = [threads EXCEPT ![task] = At("none")]
    <3>1. /\ threads' \in [Threads -> ThreadStates]
          /\ threads'[task] = At("none")
          /\ \A u \in Threads \ {task} : threads'[u] = threads[u]
      BY <1>1, <2>2, PutIs, AtIs DEF Points
    <3>2. task \notin Running
      BY <2>2 DEF Running
    <3> QED
      BY <3>1, <3>2
  <2> QED
    BY <2>1, <2>2 DEF Timeout
<1>4. /\ cut \subseteq cut'
      /\ \A r \in Runs : \/ status'[r] = "FAILED"
                         \/ status'[r] = status[r] /\ summary'[r] = summary[r]
  BY <1>1, GiveUpIs
<1>5. TypeOK'
  BY <1>1, <1>2, <1>3, GiveUpIs DEF TypeOK
<1>6. ThreadInv'
  <2>1. At("none").pc = "none"
    BY DEF At
  <2>2. AtWork' \subseteq AtWork
    BY <1>3, <2>1 DEF AtWork
  <2> QED
    BY <1>2, <2>2, ThreadsKept DEF IInv
<1>7. Grow
  BY <1>2, <1>4 DEF Grow
<1> QED
  BY <1>2, <1>3, <1>4, <1>5, <1>6, <1>7, OtherStep

\* An answer comes from a job that is over.
LEMMA AnswerStep ==
  ASSUME IInv, Answer
  PROVE  IInv'
<1>1. /\ task \in Threads /\ task \notin AtWork /\ task \notin Running
      /\ threads \in [Threads -> ThreadStates] /\ TypeOK
      /\ threads' = [threads EXCEPT ![task] = At("none")]
  BY DEF Answer, Running, IInv, TypeOK
<1>2. /\ UNCHANGED <<now, lastKey, pool, trades, metrics, folders, copies, begun, met,
                     mixed, doubled>>
      /\ task' = None
  BY DEF Answer, childVars, fileVars
<1>3. /\ threads' \in [Threads -> ThreadStates]
      /\ threads'[task] = At("none") /\ At("none").pc = "none"
      /\ \A u \in Threads \ {task} : threads'[u] = threads[u]
  BY <1>1, PutIs, AtIs DEF Points
<1>4. ThreadInv'
  <2>1. AtWork' \subseteq AtWork
    BY <1>3 DEF AtWork
  <2> QED
    BY <1>2, <2>1, ThreadsKept DEF IInv
<1>5. /\ mishaps' \in Nat /\ cut' \subseteq Threads /\ cut \subseteq cut'
      /\ status' \in [Runs -> {None, "RUNNING", "COMPLETED", "FAILED", "INTERRUPTED"}]
      /\ summary' \in [Runs -> Results \cup {None}]
      /\ \A r \in Runs : \/ status'[r] = "FAILED"
                         \/ status'[r] = status[r] /\ summary'[r] = summary[r]
  <2>1. CASE GiveUp(task)
    BY <1>1, <2>1, GiveUpIs
  <2>2. CASE UNCHANGED <<rowVars, mishaps, cut>>
    BY <1>1, <2>2 DEF rowVars, TypeOK
  <2> QED
    BY <2>1, <2>2 DEF Answer
<1>6. TypeOK'
  BY <1>1, <1>2, <1>3, <1>5 DEF TypeOK
<1>7. Grow
  BY <1>2, <1>5 DEF Grow
<1> QED
  BY <1>1, <1>2, <1>3, <1>4, <1>5, <1>6, <1>7, OtherStep

\* What has no thread left is noted.
LEMMA RestartStep ==
  ASSUME IInv, Restart
  PROVE  IInv'
<1> USE DEF IInv
<1>1. /\ threads' = [t \in Threads |-> At("none")]
      /\ cut' = cut \cup AtWork
      /\ lastKey' = NoKey /\ task' = None /\ pool' = <<>> /\ mishaps' = mishaps + 1
      /\ UNCHANGED <<now, summary, trades, metrics, folders, begun, met, mixed, doubled>>
  BY DEF Restart, childVars, Fault
<1>2. /\ threads' \in [Threads -> ThreadStates]
      /\ \A t \in Threads : threads'[t].pc = "none"
  BY <1>1, AtIs DEF Points
<1>3. /\ status' \in [Runs -> {None, "RUNNING", "COMPLETED", "FAILED", "INTERRUPTED"}]
      /\ \A r \in Runs : \/ status'[r] = status[r]
                         \/ status[r] = "RUNNING" /\ status'[r] = "INTERRUPTED"
  <2>1. CASE status' = status
    BY <2>1 DEF TypeOK
  <2>2. CASE status' = [r \in Runs |->
                          IF status[r] = "RUNNING" THEN "INTERRUPTED" ELSE status[r]]
    BY <2>2 DEF TypeOK
  <2> QED
    BY <2>1, <2>2 DEF Restart
<1>4. TypeOK'
  <2>1. AtWork \subseteq Threads
    BY DEF AtWork
  <2>2. <<>> \in Seq(Items)
    OBVIOUS
  <2> QED
    BY <1>1, <1>2, <1>3, <2>1, <2>2 DEF TypeOK
<1>5. AtWork' = {} /\ Running' = {}
  BY <1>2 DEF AtWork, Running
<1>6. ThreadInv' /\ MetInv'
  BY <1>1, <1>5 DEF ThreadInv, MetInv
<1>7. ASSUME NEW r \in Runs  PROVE RowInv(r)'
  <2> SUFFICES ASSUME status'[r] = "COMPLETED"  PROVE RowInv(r)'
    BY DEF RowInv
  <2>1. /\ status[r] = "COMPLETED" /\ summary'[r] = summary[r]
        /\ summary[r] \in Results /\ summary[r].by \in Threads
    BY <1>1, <1>3 DEF RowInv, Results
  <2>2. PICK job \in Threads : summary[r].by = job
    BY <2>1
  <2>3. job[1] = r /\ Stands(job)
    BY <2>1, <2>2 DEF RowInv
  <2>4. job \notin cut' =>
          job \notin cut
          /\ threads[job].pc \notin {"trades", "insert", "children", "failing"}
    <3> SUFFICES ASSUME threads[job].pc \in {"trades", "insert", "children", "failing"}
                 PROVE  job \in cut'
      BY <1>1
    <3>1. job \in AtWork
      BY <1>1 DEF AtWork
    <3> QED
      BY <1>1, <3>1
  <2>5. Stands(job)'
    BY <1>1, <2>1, <2>3, <2>4 DEF Stands
  <2> QED
    BY <2>1, <2>2, <2>3, <2>5 DEF RowInv
<1>8. \A t \in Threads : PointInv(t)'
  BY <1>2, PointAtRest
<1> QED
  BY <1>4, <1>6, <1>7, <1>8

-------------------------------------------------------------------------------

\* Nothing has run.
LEMMA InitInv == Init => IInv
<1> SUFFICES ASSUME Init  PROVE IInv
  OBVIOUS
<1>1. /\ \A t \in Threads : threads[t].pc = "none"
      /\ threads \in [Threads -> ThreadStates]
  BY AtIs DEF Init, Points
<1>2. TypeOK
  <2>1. <<>> \in Seq(Items) /\ <<>> \in Seq(Threads)
    OBVIOUS
  <2> QED
    BY <1>1, <2>1 DEF Init, TypeOK
<1>3. ThreadInv /\ MetInv
  <2>1. AtWork = {} /\ Running = {}
    BY <1>1 DEF AtWork, Running
  <2> QED
    BY <2>1 DEF Init, ThreadInv, MetInv
<1>4. \A r \in Runs : RowInv(r)
  BY JobsAssumption DEF Init, RowInv
<1>5. \A t \in Threads : PointInv(t)
  BY <1>1 DEF PointInv, RunPoints
<1> QED
  BY <1>2, <1>3, <1>4, <1>5 DEF IInv

\* Every step preserves the invariant.
LEMMA NextInv == IInv /\ [Next]_vars => IInv'
<1> SUFFICES ASSUME IInv, [Next]_vars  PROVE IInv'
  OBVIOUS
<1>1. CASE UNCHANGED vars
  <2>1. UNCHANGED <<now, lastKey, task, threads, pool, status, summary, trades, metrics,
                    folders, copies, mishaps, begun, cut, met, mixed, doubled>>
    BY <1>1 DEF vars, jobVars, rowVars, childVars, fileVars, ghostVars
  <2>2. TypeOK'
    BY <2>1 DEF TypeOK, IInv
  <2>3. ThreadInv'
    BY <2>1, ThreadsKept DEF AtWork, IInv
  <2>4. Grow
    BY <2>1 DEF Grow
  <2> QED
    BY <2>1, <2>2, <2>3, <2>4, OtherStep
<1>2. ASSUME NEW t \in Threads, ThreadStep(t)  PROVE IInv'
  BY <1>2, CreateStep, FoldStep, CollectFoldsStep, CollectReportStep, CompleteStep,
     DeleteTradesStep, InsertTradesStep, StoreChildrenStep, FailsStep, MarkFailedStep
     DEF ThreadStep
<1> QED
  BY <1>1, <1>2, PassStep, TriggerStep, AnswerStep, TimeoutStep, RestartStep, StartManualStep
     DEF Next

\* The invariant holds.
LEMMA Invariance == Spec => []IInv
BY InitInv, NextInv, PTL DEF Spec

\* The types of the state, for any hours of the market, clients, folds and mishaps.
THEOREM TypeCorrect == Spec => []TypeOK
<1>1. IInv => TypeOK
  BY DEF IInv
<1> QED
  BY <1>1, Invariance, PTL

\* The supervisor never has two jobs at work for one closure, whatever the clock, the
\* timeouts, the clients that use its id and the restarts do (api.py 409-468).
THEOREM ClosuresAreAlone == Spec => []OneThreadPerClosure
<1>1. IInv => OneThreadPerClosure
  BY OneThread DEF IInv, OneThreadPerClosure
<1> QED
  BY <1>1, Invariance, PTL

\* Jobs run at once on one run only if a client has posted its id: the supervisor's
\* timeouts, retries and restarts never make two of them meet.
THEOREM OnlyPostsMeet ==
  Spec => [](\A t \in met : \E u \in begun : u[1] = t[1] /\ u[2] # "CLOSURE")
<1>1. IInv => \A t \in met : \E u \in begun : u[1] = t[1] /\ u[2] # "CLOSURE"
  BY DEF IInv, MetInv
<1> QED
  BY <1>1, Invariance, PTL

\* A COMPLETED run at rest is whole, and of the job whose summary it has unless that one
\* had met another, although its row is COMPLETED before its metrics are written and any
\* number of jobs may use its id; unless a restart or an unnoted failure cut it off.
THEOREM CompletedRunsAreWhole == Spec => []CompletedIsWhole
<1>1. IInv => CompletedIsWhole
  <2> SUFFICES ASSUME IInv, NEW r \in Runs, status[r] = "COMPLETED",
                      summary[r].by \notin cut, \A t \in AtWork : t[1] # r
               PROVE  /\ metrics[r] # None
                      /\ summary[r].by \notin met => metrics[r] = summary[r].by
    BY DEF CompletedIsWhole
  <2>1. /\ summary[r].by \in Threads /\ summary[r].by[1] = r /\ Stands(summary[r].by)
    BY DEF IInv, RowInv, Results
  <2>2. threads[summary[r].by].pc \notin {"trades", "insert", "children", "failing"}
    BY <2>1 DEF AtWork
  <2> QED
    BY <2>1, <2>2 DEF Stands
<1> QED
  BY <1>1, Invariance, PTL

\* No job of the run is about to store its trades or to fail.
TradesSettled(r) ==
  \A t \in AtWork : t[1] = r => threads[t].pc \notin {"trades", "insert", "failing"}

\* What the invariant says of the stored trades.
LEMMA SettledTrades ==
  ASSUME IInv, NEW r \in Runs, status[r] = "COMPLETED", TradesSettled(r),
         summary[r].by \notin cut \cup met \cup mixed \cup doubled
  PROVE  trades[r] = [i \in 1..summary[r].total |-> summary[r].by]
<1>1. /\ summary[r].by \in Threads /\ summary[r].by[1] = r /\ Stands(summary[r].by)
  BY DEF IInv, RowInv, Results
<1>2. threads[summary[r].by].pc \notin {"trades", "insert", "failing"}
  BY <1>1 DEF TradesSettled, AtWork
<1> QED
  BY <1>1, <1>2 DEF Stands, Own

\* The stored trades of a COMPLETED run are those that the job of its summary has
\* replayed, as many as the summary says, also when its id has been used before: unless
\* that job died, met another one of its run, had its INSERT repeated, or replayed folds
\* while another thread changed the list they share.
THEOREM StoredTradesAreOwn == Spec => []TradesAreItsOwn
<1>1. IInv => TradesAreItsOwn
  BY SettledTrades DEF TradesAreItsOwn, TradesSettled
<1> QED
  BY <1>1, Invariance, PTL

\* When a BACKTEST job has completed a run, the stored trades are its own whatever replays
\* under other ids meanwhile: unless it died, met another job of its run or had its
\* INSERT repeated.
THEOREM BacktestsStoreTheirOwn ==
  Spec => [](\A r \in Runs :
               /\ status[r] = "COMPLETED" /\ summary[r].by[2] = "BACKTEST"
               /\ summary[r].by \notin cut \cup met \cup doubled
               /\ TradesSettled(r)
               => trades[r] = [i \in 1..summary[r].total |-> summary[r].by])
<1>1. IInv => \A r \in Runs :
               /\ status[r] = "COMPLETED" /\ summary[r].by[2] = "BACKTEST"
               /\ summary[r].by \notin cut \cup met \cup doubled
               /\ TradesSettled(r)
               => trades[r] = [i \in 1..summary[r].total |-> summary[r].by]
  <2> SUFFICES ASSUME IInv, NEW r \in Runs, status[r] = "COMPLETED",
                      summary[r].by[2] = "BACKTEST",
                      summary[r].by \notin cut \cup met \cup doubled, TradesSettled(r)
               PROVE  trades[r] = [i \in 1..summary[r].total |-> summary[r].by]
    OBVIOUS
  <2>1. summary[r].by \notin mixed
    BY DEF IInv, TypeOK
  <2> QED
    BY <2>1, SettledTrades
<1> QED
  BY <1>1, Invariance, PTL
===============================================================================
