---------------------------- MODULE ReportsProofs ----------------------------
(***************************************************************************)
(* Which fills the reports count, and when reports are made, for any bots, *)
(* any fills, any calendar with months and weeks of any length, and any    *)
(* delays, failures and restarts.                                          *)
(***************************************************************************)
EXTENDS Reports, SequenceTheorems, TLAPS

(* Quotients *)

\* What the quotient of a number is.
LEMMA Quotient ==
    ASSUME NEW n \in Int, NEW m \in Nat \ {0}
    PROVE  n \div m \in Int /\ m * (n \div m) <= n /\ n < m * (n \div m) + m
OBVIOUS

\* Of two multiples, the one of the greater number is a multiplicand ahead.
LEMMA MultiplesApart ==
    ASSUME NEW m \in Nat \ {0}, NEW a \in Int, NEW b \in Int, a < b
    PROVE  m * a \in Int /\ m * b \in Int /\ m * a + m <= m * b
<1> DEFINE k == b - a - 1
<1>1. k \in Nat /\ b = a + 1 + k
  OBVIOUS
<1> HIDE DEF k
<1>2. m * b = m * a + m + m * k /\ m * k \in Nat /\ m * a \in Int
  BY <1>1
<1> QED
  BY <1>2

\* Only one number is it.
LEMMA QuotientIs ==
    ASSUME NEW n \in Int, NEW m \in Nat \ {0}, NEW q \in Int, m * q <= n, n < m * q + m
    PROVE  n \div m = q
<1> DEFINE p == n \div m
<1>1. p \in Int /\ m * p <= n /\ n < m * p + m
  BY Quotient
<1> HIDE DEF p
<1>2. m * p \in Int /\ m * q \in Int
  BY <1>1
<1>3. ~(p < q) /\ ~(q < p)
  <2>1. p < q => m * p + m <= m * q
    BY <1>1, MultiplesApart
  <2>2. q < p => m * q + m <= m * p
    BY <1>1, MultiplesApart
  <2> QED
    BY <1>1, <1>2, <2>1, <2>2
<1> QED
  BY <1>1, <1>3 DEF p

\* The quotient of a greater number is no smaller.
LEMMA QuotientOrder ==
    ASSUME NEW a \in Int, NEW b \in Int, a <= b, NEW m \in Nat \ {0}
    PROVE  a \div m <= b \div m
<1> DEFINE p == a \div m
           q == b \div m
<1>1. p \in Int /\ m * p <= a /\ q \in Int /\ b < m * q + m
  BY Quotient
<1> HIDE DEF p, q
<1>2. ~(q < p)
  <2>1. m * p \in Int /\ m * q \in Int
    BY <1>1
  <2>2. q < p => m * q + m <= m * p
    BY <1>1, MultiplesApart
  <2> QED
    BY <1>1, <2>1, <2>2
<1> QED
  BY <1>1, <1>2 DEF p, q
------------------------------------------------------------------------------
(* The calendar *)

\* Later instants are of later days.
LEMMA DayOfMonotone ==
    ASSUME NEW a \in Nat, NEW b \in Nat, a <= b
    PROVE  DayOf(a) \in Int /\ DayOf(b) \in Int /\ DayOf(a) <= DayOf(b)
<1>1. Day \in Nat \ {0}
  BY ReportsAssumption
<1> QED
  BY <1>1, Quotient, QuotientOrder DEF DayOf

\* Days are whole numbers.
LEMMA DaysAreInt == Days \subseteq Int
<1>1. DayOf(MinTime) \in Int /\ DayOf(MaxTime) \in Int
  BY DayOfMonotone, ReportsAssumption
<1> QED
  BY <1>1 DEF Days

\* What the assumption says of the numbers alone.
LEMMA Bounds ==
    /\ Minute \in Nat \ {0} /\ MaxLate \in Nat /\ MaxLate < Minute
    /\ MinTime \in Nat /\ MaxTime \in Nat /\ MaxFaults \in Nat /\ MaxStarts \in Nat
    /\ None \notin Nat
BY ReportsAssumption

\* Where the clock, the ticker and a tick in the channel are.
LEMMA Times ==
    ASSUME TypeOK
    PROVE  /\ now \in Nat /\ Minute \in Nat \ {0} /\ MaxLate \in Nat /\ MaxLate < Minute
           /\ nextTick \in Int /\ now - MaxLate <= nextTick /\ nextTick <= now + Minute
           /\ channel # None => channel \in Nat /\ channel <= now
           /\ \A j \in owed : j.end \in Int
<1>1. /\ now \in MinTime .. MaxTime /\ nextTick \in now - MaxLate .. now + Minute
      /\ channel \in MinTime .. now \cup {None} /\ owed \subseteq Job
  BY DEF TypeOK
<1>2. now \in Nat
  BY <1>1, Bounds
<1>3. \A j \in owed : j.end \in Int
  BY <1>1, DaysAreInt DEF Job
<1>4. nextTick \in Int /\ now - MaxLate <= nextTick /\ nextTick <= now + Minute
  BY <1>1, <1>2, Bounds
<1>5. channel # None => channel \in Nat /\ channel <= now
  BY <1>1, <1>2, Bounds
<1> QED
  BY <1>2, <1>3, <1>4, <1>5, Bounds

\* A window begins on the last day before its end on which a report of its
\* period is due.
LEMMA WindowStarts ==
    ASSUME NEW period \in Period, NEW d \in Days, DueDay(period, d)
    PROVE  /\ windowStart(period, d) \in Int /\ windowStart(period, d) < d
           /\ DueDay(period, windowStart(period, d))
           /\ \A e \in Int : DueDay(period, e) /\ e < d => e <= windowStart(period, d)
<1>1. d \in Int /\ Week \in Nat \ {0} /\ Mondays \subseteq Int /\ Firsts \subseteq Int
  BY DaysAreInt, ReportsAssumption
<1>2. CASE period = "daily"
  BY <1>1, <1>2 DEF windowStart, DueDay
<1>3. CASE period = "weekly"
  <2>1. d \in Mondays /\ windowStart(period, d) = d - Week
    BY <1>3 DEF windowStart, DueDay
  <2>2. d - Week \in Mondays /\ \A e \in Mondays : e < d => e + Week <= d
    BY <2>1, CalendarAssumption
  <2> QED
    BY <1>1, <1>3, <2>1, <2>2 DEF DueDay
<1>4. CASE period = "monthly"
  <2> DEFINE S == {m \in Firsts : m < d}
  <2>1. d \in Firsts /\ windowStart(period, d) = Max(S)
    BY <1>4 DEF windowStart, DueDay
  <2>2. PICK m \in Firsts : m < d /\ \A n \in Firsts : n < d => n <= m
    BY <2>1, CalendarAssumption
  <2>3. m \in S /\ \A n \in S : m >= n
    BY <1>1, <2>2
  <2>4. Max(S) \in S /\ \A n \in S : Max(S) >= n
    <3> HIDE DEF S
    <3> QED
      BY <2>3 DEF Max
  <2> QED
    BY <1>1, <1>4, <2>1, <2>4 DEF DueDay
<1> QED
  BY <1>2, <1>3, <1>4 DEF Period

\* A job of any day.
AnyJob == [bot : Range(Bot), period : Period, end : Int]

\* runAll goes through all bots.
LEMMA RunAllJobs ==
    ASSUME NEW period \in Period, NEW d \in Int
    PROVE  /\ runAll(period, d) \in Seq({j \in AnyJob : j.period = period /\ j.end = d})
           /\ \A b \in Range(Bot) : [bot |-> b, period |-> period, end |-> d] \in Range(runAll(period, d))
<1>1. Bot \in Seq(Range(Bot))
  BY ReportsAssumption
<1>2. Len(Bot) \in Nat /\ DOMAIN Bot = 1 .. Len(Bot) /\ \A i \in 1 .. Len(Bot) : Bot[i] \in Range(Bot)
  BY <1>1, LenProperties DEF Range
<1>3. runAll(period, d) = [i \in 1 .. Len(Bot) |-> [bot |-> Bot[i], period |-> period, end |-> d]]
  BY <1>2 DEF runAll
<1>4. \A b \in Range(Bot) : [bot |-> b, period |-> period, end |-> d] \in Range(runAll(period, d))
  BY <1>2, <1>3 DEF Range
<1>5. runAll(period, d) \in [1 .. Len(Bot) -> {j \in AnyJob : j.period = period /\ j.end = d}]
  BY <1>2, <1>3 DEF AnyJob
<1>6. runAll(period, d) \in Seq({j \in AnyJob : j.period = period /\ j.end = d})
  BY <1>2, <1>5
<1> QED
  BY <1>4, <1>6

\* Schedule makes a job of every bot and every period due, and no others.
LEMMA JobsAreDue ==
    ASSUME NEW d \in Int
    PROVE  /\ JobsOf(d) \in Seq({j \in AnyJob : DueDay(j.period, j.end) /\ j.end = d})
           /\ \A b \in Range(Bot), period \in Period :
                 DueDay(period, d) => [bot |-> b, period |-> period, end |-> d] \in Range(JobsOf(d))
<1> DEFINE S == {j \in AnyJob : DueDay(j.period, j.end) /\ j.end = d}
           daily   == runAll("daily", d)
           weekly  == IF d \in Mondays THEN runAll("weekly", d) ELSE << >>
           monthly == IF d \in Firsts THEN runAll("monthly", d) ELSE << >>
<1>1. "daily" \in Period /\ "weekly" \in Period /\ "monthly" \in Period
  BY DEF Period
<1>2. ASSUME NEW period \in Period, DueDay(period, d)
      PROVE  runAll(period, d) \in Seq(S)
  <2>1. {j \in AnyJob : j.period = period /\ j.end = d} \subseteq S
    BY <1>2
  <2> QED
    BY <2>1, RunAllJobs, SeqMonotonic
<1>3. daily \in Seq(S) /\ weekly \in Seq(S) /\ monthly \in Seq(S)
  <2>1. DueDay("daily", d) /\ (d \in Mondays => DueDay("weekly", d)) /\ (d \in Firsts => DueDay("monthly", d))
    BY DEF DueDay
  <2>2. << >> \in Seq(S)
    BY EmptySeq
  <2> HIDE DEF S
  <2> QED
    BY <1>1, <1>2, <2>1, <2>2
<1>4. ASSUME NEW b \in Range(Bot), NEW period \in Period, DueDay(period, d)
      PROVE  [bot |-> b, period |-> period, end |-> d] \in Range(daily) \cup Range(weekly) \cup Range(monthly)
  <2>1. [bot |-> b, period |-> period, end |-> d] \in Range(runAll(period, d))
    BY RunAllJobs
  <2>2. \/ period = "daily"
        \/ period = "weekly" /\ d \in Mondays
        \/ period = "monthly" /\ d \in Firsts
    BY <1>4 DEF Period, DueDay
  <2> QED
    BY <2>1, <2>2
<1>5. JobsOf(d) = (daily \o weekly) \o monthly
  BY DEF JobsOf
<1> HIDE DEF S, daily, weekly, monthly
<1>6. daily \o weekly \in Seq(S) /\ Range(daily \o weekly) = Range(daily) \cup Range(weekly)
  BY <1>3, ConcatProperties, RangeConcatenation
<1>7. JobsOf(d) \in Seq(S) /\ Range(JobsOf(d)) = Range(daily) \cup Range(weekly) \cup Range(monthly)
  <2> DEFINE dw == daily \o weekly
  <2>1. dw \in Seq(S) /\ JobsOf(d) = dw \o monthly
    BY <1>5, <1>6
  <2> HIDE DEF dw
  <2>2. JobsOf(d) \in Seq(S) /\ Range(JobsOf(d)) = Range(dw) \cup Range(monthly)
    BY <1>3, <2>1, ConcatProperties, RangeConcatenation
  <2> QED
    BY <1>6, <2>2 DEF dw
<1>8. \A b \in Range(Bot), period \in Period :
         DueDay(period, d) => [bot |-> b, period |-> period, end |-> d] \in Range(JobsOf(d))
  BY <1>4, <1>7
<1> QED
  BY <1>7, <1>8 DEF S
------------------------------------------------------------------------------
(* The inductive invariant *)

\* On day today, with the fills fl and the records rc, report r counts fills of
\* its bot that happened in its window, all those among them that were recorded
\* before the window closed.
Honest(r, fl, rc, today) ==
    /\ r.job \in DueJob /\ r.job.end <= today
    /\ \A f \in r.fills : botOf[f] = r.job.bot /\ rc[f] # None /\ fl[f] \in Window(r.job)
    /\ \A f \in Fill : botOf[f] = r.job.bot /\ fl[f] \in Window(r.job)
                       /\ rc[f] # None /\ rc[f] < r.job.end => f \in r.fills

\* The jobs that may be on the list: their windows have closed.
PastJob == {j \in DueJob : j.end <= DayOf(now)}

ReportsInv ==
    /\ now \in MinTime .. MaxTime
    /\ channel # None => channel \in MinTime .. now
    /\ jobs \in Seq(PastJob)
    /\ filled \in [Fill -> Days \cup {None}]
    /\ recorded \in [Fill -> Days \cup {None}]
    /\ \A f \in Fill : recorded[f] # None => filled[f] # None
    /\ report # None => report \in Report /\ Honest(report, filled, recorded, DayOf(now))
    /\ reports \in Seq(Report)
    /\ \A r \in Range(reports) : Honest(r, filled, recorded, DayOf(now))

\* The clock does not go back, and now is one of the days.
LEMMA ClockStep ==
    ASSUME ReportsInv, [Next]_vars
    PROVE  /\ now' \in MinTime .. MaxTime /\ now <= now'
           /\ DayOf(now) \in Days /\ DayOf(now') \in Int /\ DayOf(now) <= DayOf(now')
           /\ PastJob \subseteq PastJob'
<1>1. MinTime \in Nat /\ MaxTime \in Nat /\ MinTime <= MaxTime
  BY ReportsAssumption
<1>2. now \in Nat /\ MinTime <= now /\ now <= MaxTime
  BY <1>1 DEF ReportsInv
<1>3. now' = now \/ (now' = now + 1 /\ now < MaxTime)
  BY DEF Next, Pass, Stop, Start, StartWithTick, Tick, TickThen, Receive, Generate, Insert,
         Happen, Record, vars
<1>4. now' \in Nat /\ now' \in MinTime .. MaxTime /\ now <= now'
  BY <1>1, <1>2, <1>3
<1>5. /\ DayOf(now) \in Int /\ DayOf(now') \in Int /\ DayOf(now) <= DayOf(now')
      /\ DayOf(MinTime) \in Int /\ DayOf(MinTime) <= DayOf(now)
      /\ DayOf(MaxTime) \in Int /\ DayOf(now) <= DayOf(MaxTime)
  BY <1>1, <1>2, <1>4, DayOfMonotone
<1>6. DayOf(now) \in Days
  BY <1>5 DEF Days
<1>7. PastJob' = {j \in DueJob : j.end <= DayOf(now')}
  BY DEF PastJob
<1>8. ASSUME NEW j \in PastJob
      PROVE  j \in PastJob'
  <2>1. j \in DueJob /\ j.end <= DayOf(now) /\ j.end \in Int
    BY DaysAreInt DEF PastJob, DueJob, Job
  <2>2. j.end <= DayOf(now')
    BY <1>5, <2>1
  <2> QED
    BY <1>7, <2>1, <2>2 DEF PastJob
<1> QED
  BY <1>4, <1>5, <1>6, <1>7, <1>8

\* A report stays honest whatever happens after it was made: a fill recorded
\* later is recorded after the window has closed.
LEMMA HonestStep ==
    ASSUME ReportsInv, [Next]_vars, NEW r \in Report, Honest(r, filled, recorded, DayOf(now))
    PROVE  Honest(r, filled', recorded', DayOf(now'))
<1>1. /\ r.job \in DueJob /\ r.job.end <= DayOf(now) /\ r.job.end \in Int /\ r.fills \subseteq Fill
      /\ DayOf(now) \in Int
  BY ClockStep, DaysAreInt DEF Honest, Report, Job
<1>2. r.job.end <= DayOf(now')
  BY <1>1, ClockStep
<1>3. CASE UNCHANGED fills
  BY <1>1, <1>2, <1>3 DEF Honest, fills
<1>4. ASSUME NEW g \in Fill, Happen(g)
      PROVE  Honest(r, filled', recorded', DayOf(now'))
  <2>1. recorded[g] = None /\ recorded' = recorded /\ filled' = [filled EXCEPT ![g] = DayOf(now)]
    BY <1>4 DEF Happen, ReportsInv
  <2>2. \A f \in Fill : recorded[f] # None => filled'[f] = filled[f]
    BY <2>1 DEF ReportsInv
  <2> QED
    BY <1>1, <1>2, <2>1, <2>2 DEF Honest
<1>5. ASSUME NEW g \in Fill, Record(g)
      PROVE  Honest(r, filled', recorded', DayOf(now'))
  <2>1. /\ recorded[g] = None /\ filled' = filled
        /\ recorded' = [recorded EXCEPT ![g] = DayOf(now)]
    BY <1>5 DEF Record
  <2>2. /\ recorded'[g] = DayOf(now)
        /\ \A f \in Fill \ {g} : recorded'[f] = recorded[f]
    BY <2>1 DEF ReportsInv
  <2>3. \A f \in r.fills : botOf[f] = r.job.bot /\ recorded'[f] # None /\ filled'[f] \in Window(r.job)
    BY <1>1, <2>1, <2>2 DEF Honest
  <2>4. ASSUME NEW f \in Fill, botOf[f] = r.job.bot, filled'[f] \in Window(r.job),
               recorded'[f] # None, recorded'[f] < r.job.end
        PROVE  f \in r.fills
    <3>1. f # g
      BY <1>1, <2>2, <2>4
    <3> QED
      BY <2>1, <2>2, <2>4, <3>1 DEF Honest
  <2> QED
    BY <1>1, <1>2, <2>3, <2>4 DEF Honest
<1> QED
  BY <1>3, <1>4, <1>5
  DEF Next, Pass, Stop, Start, StartWithTick, Tick, TickThen, Receive, Generate, Insert, vars, fills

\* The jobs of a tick are jobs whose windows have closed.
LEMMA ReceiveStep ==
    ASSUME ReportsInv, Receive
    PROVE  jobs' \in Seq(PastJob')
<1>1. channel \in MinTime .. now /\ now \in MinTime .. MaxTime
  BY DEF ReportsInv, Receive
<1>2. MinTime \in Nat /\ MaxTime \in Nat /\ channel \in Nat /\ now \in Nat /\ channel <= now
  BY <1>1, ReportsAssumption
<1> DEFINE d == DayOf(channel)
<1>3. d \in Int /\ d <= DayOf(now) /\ d \in Days /\ DayOf(now) \in Int
  BY <1>1, <1>2, DayOfMonotone DEF Days
<1> HIDE DEF d
<1>4. {j \in AnyJob : DueDay(j.period, j.end) /\ j.end = d} \subseteq PastJob
  BY <1>3 DEF AnyJob, PastJob, DueJob, Job
<1>5. JobsOf(d) \in Seq(PastJob)
  BY <1>3, <1>4, JobsAreDue, SeqMonotonic
<1>6. << >> \in Seq(PastJob)
  BY EmptySeq
<1>7. jobs' \in Seq(PastJob)
  BY <1>5, <1>6 DEF Receive, d
<1>8. PastJob' = PastJob
  BY DEF Receive, PastJob, DayOf
<1> QED
  BY <1>7, <1>8

\* Generate makes an honest report.
LEMMA GenerateStep ==
    ASSUME ReportsInv, NEW ok \in BOOLEAN, Generate(ok), report' # None
    PROVE  report' \in Report /\ Honest(report', filled', recorded', DayOf(now'))
<1> DEFINE j == Head(jobs)
           r == report'
<1>1. j \in PastJob
  BY HeadTailProperties DEF ReportsInv, Generate
<1>2. r = [job |-> j, fills |-> {f \in Fill : /\ botOf[f] = j.bot
                                              /\ recorded[f] # None
                                              /\ filled[f] \in Window(j)}]
  BY DEF Generate, Window
<1>3. filled' = filled /\ recorded' = recorded /\ now' = now
  BY DEF Generate, fills
<1> HIDE DEF j, r
<1>4. j \in DueJob /\ j \in Job /\ j.end <= DayOf(now)
  BY <1>1 DEF PastJob, DueJob
<1>5. r \in Report
  BY <1>2, <1>4 DEF Report
<1>6. /\ r.job = j /\ r.fills \subseteq Fill
      /\ \A f \in Fill : f \in r.fills <=> botOf[f] = j.bot /\ recorded[f] # None /\ filled[f] \in Window(j)
  BY <1>2
<1>7. Honest(r, filled, recorded, DayOf(now))
  BY <1>4, <1>6 DEF Honest
<1> QED
  BY <1>3, <1>5, <1>7 DEF r

\* Every step keeps the invariant.
LEMMA ReportsStep == ReportsInv /\ [Next]_vars => ReportsInv'
<1> SUFFICES ASSUME ReportsInv, [Next]_vars PROVE ReportsInv'
  OBVIOUS
<1>1. now' \in MinTime .. MaxTime /\ now <= now' /\ PastJob \subseteq PastJob' /\ DayOf(now) \in Days
  BY ClockStep
<1>2. channel' # None => channel' \in MinTime .. now'
  <2>1. \/ channel' = channel
        \/ channel' = None
        \/ channel' = now
    BY DEF Next, Pass, Stop, Start, StartWithTick, Tick, TickThen, Receive, Generate, Insert,
           Happen, Record, vars, scheduler
  <2> QED
    <3>1. now \in MinTime .. MaxTime /\ channel \in MinTime .. now \cup {None}
      BY DEF ReportsInv
    <3> QED
      BY <1>1, <2>1, <3>1, Bounds
<1>3. jobs' \in Seq(PastJob')
  <2>1. CASE Receive
    BY <2>1, ReceiveStep
  <2>2. CASE jobs' = jobs \/ jobs' = << >> \/ (jobs # << >> /\ jobs' = Tail(jobs))
    <3>1. << >> \in Seq(PastJob) /\ (jobs # << >> => Tail(jobs) \in Seq(PastJob)) /\ jobs \in Seq(PastJob)
      BY EmptySeq, HeadTailProperties DEF ReportsInv
    <3>2. jobs' \in Seq(PastJob)
      BY <2>2, <3>1
    <3> QED
      BY <1>1, <3>2, SeqMonotonic
  <2> QED
    BY <2>1, <2>2
    DEF Next, Pass, Stop, Start, StartWithTick, Tick, TickThen, Generate, Insert, Happen, Record, vars, scheduler
<1>4. /\ filled' \in [Fill -> Days \cup {None}] /\ recorded' \in [Fill -> Days \cup {None}]
      /\ \A f \in Fill : recorded'[f] # None => filled'[f] # None
  <2>1. CASE UNCHANGED fills
    BY <2>1 DEF fills, ReportsInv
  <2>2. ASSUME NEW g \in Fill, Happen(g) \/ Record(g)
        PROVE  /\ filled' \in [Fill -> Days \cup {None}] /\ recorded' \in [Fill -> Days \cup {None}]
               /\ \A f \in Fill : recorded'[f] # None => filled'[f] # None
    <3>1. CASE Happen(g)
      <4>1. recorded[g] = None
        BY <3>1 DEF Happen, ReportsInv
      <4> QED
        BY <1>1, <3>1, <4>1 DEF Happen, ReportsInv
    <3>2. CASE Record(g)
      BY <1>1, <3>2 DEF Record, ReportsInv
    <3> QED
      BY <2>2, <3>1, <3>2
  <2> QED
    BY <2>1, <2>2
    DEF Next, Pass, Stop, Start, StartWithTick, Tick, TickThen, Receive, Generate, Insert, vars, fills
<1>5. \A r \in Report : Honest(r, filled, recorded, DayOf(now)) => Honest(r, filled', recorded', DayOf(now'))
  BY HonestStep
<1>6. report' # None => report' \in Report /\ Honest(report', filled', recorded', DayOf(now'))
  <2>1. CASE report' = report
    BY <1>5, <2>1 DEF ReportsInv
  <2>2. CASE report' = None
    BY <2>2
  <2>3. ASSUME NEW ok \in BOOLEAN, Generate(ok)
        PROVE  report' # None => report' \in Report /\ Honest(report', filled', recorded', DayOf(now'))
    BY <2>3, GenerateStep
  <2> QED
    BY <2>1, <2>2, <2>3
    DEF Next, Pass, Stop, Start, StartWithTick, Tick, TickThen, Receive, Insert, Happen, Record, vars, scheduler
<1>7. /\ reports' \in Seq(Report)
      /\ \A r \in Range(reports') : Honest(r, filled', recorded', DayOf(now'))
  <2>1. Range(reports) \subseteq Report
    BY RangeOfSeq DEF ReportsInv
  <2>2. CASE reports' = reports
    BY <1>5, <2>1, <2>2 DEF ReportsInv
  <2>3. CASE report # None /\ reports' = Append(reports, report)
    <3>1. report \in Report /\ reports \in Seq(Report)
      BY <2>3 DEF ReportsInv
    <3>2. reports' \in Seq(Report) /\ Range(reports') \subseteq Range(reports) \cup {report}
      <4>1. /\ reports' \in Seq(Report) /\ Len(reports') = Len(reports) + 1 /\ Len(reports) \in Nat
            /\ \A i \in 1 .. Len(reports) : reports'[i] = reports[i]
            /\ reports'[Len(reports) + 1] = report
        BY <2>3, <3>1, AppendProperties, LenProperties
      <4>2. DOMAIN reports' = 1 .. Len(reports) + 1 /\ DOMAIN reports = 1 .. Len(reports)
        BY <3>1, <4>1, LenProperties
      <4> QED
        BY <4>1, <4>2 DEF Range
    <3> QED
      BY <1>5, <2>1, <2>3, <3>1, <3>2 DEF ReportsInv
  <2> QED
    BY <2>2, <2>3
    DEF Next, Pass, Stop, Start, StartWithTick, Tick, TickThen, Receive, Generate, Insert, Happen, Record, vars, scheduler
<1> QED
  BY <1>1, <1>2, <1>3, <1>4, <1>6, <1>7 DEF ReportsInv

\* The invariant holds at the start.
LEMMA ReportsInit == Init => ReportsInv
<1> SUFFICES ASSUME Init PROVE ReportsInv
  OBVIOUS
<1>1. \A S : << >> \in Seq(S) /\ DOMAIN << >> = {}
  BY EmptySeq
<1> QED
  BY <1>1, ReportsAssumption DEF Init, ReportsInv, Range
------------------------------------------------------------------------------
(* What the windows promise *)

\* A fill counts in one window of a period: of two windows the later one begins
\* when the earlier one has ended.
LEMMA WindowsApart ==
    ASSUME NEW i \in DueJob, NEW j \in DueJob, i.period = j.period,
           NEW d \in Window(i), d \in Window(j)
    PROVE  i.end = j.end
<1>1. /\ i.period \in Period /\ i.end \in Days /\ j.end \in Days /\ i.end \in Int /\ j.end \in Int
      /\ DueDay(i.period, i.end) /\ DueDay(i.period, j.end)
  BY DaysAreInt DEF DueJob, Job
<1> DEFINE a == windowStart(i.period, i.end)
           b == windowStart(i.period, j.end)
<1>2. /\ a \in Int /\ (j.end < i.end => j.end <= a)
      /\ b \in Int /\ (i.end < j.end => i.end <= b)
  BY <1>1, WindowStarts
<1>3. d \in a .. i.end - 1 /\ d \in b .. j.end - 1
  BY DEF Window
<1> HIDE DEF a, b
<1> QED
  BY <1>1, <1>2, <1>3

\* ReportsInv holds of every run.
THEOREM ReportsInvariance == Spec => []ReportsInv
  BY ReportsInit, ReportsStep, PTL DEF Spec

\* No fill is counted in two reports of one period, however long the months and
\* weeks are.
THEOREM FillsCountedOnce == Spec => []CountedOnce
<1>1. ReportsInv => CountedOnce
  <2> SUFFICES ASSUME ReportsInv, NEW r \in Range(reports), NEW s \in Range(reports),
                      r.job.period = s.job.period, NEW f \in r.fills, f \in s.fills
               PROVE  r.job = s.job
    BY DEF CountedOnce
  <2>1. r \in Report /\ s \in Report
    BY RangeOfSeq DEF ReportsInv
  <2>2. /\ r.job \in DueJob /\ botOf[f] = r.job.bot /\ filled[f] \in Window(r.job)
        /\ s.job \in DueJob /\ botOf[f] = s.job.bot /\ filled[f] \in Window(s.job)
    BY DEF ReportsInv, Honest
  <2>3. r.job.end = s.job.end
    BY <2>2, WindowsApart
  <2> DEFINE i == r.job
             j == s.job
  <2>4. i \in Job /\ j \in Job /\ i.bot = j.bot /\ i.period = j.period /\ i.end = j.end
    BY <2>1, <2>2, <2>3 DEF Report
  <2> HIDE DEF i, j
  <2>5. i = j
    BY <2>4 DEF Job
  <2> QED
    BY <2>5 DEF i, j
<1> QED
  BY <1>1, ReportsInvariance, PTL

\* No fill that is recorded in time falls between two windows of a period.
THEOREM NoFillFallsBetween == Spec => []NothingFallsBetween
<1>1. ReportsInv => NothingFallsBetween
  <2> SUFFICES ASSUME ReportsInv, NEW r \in Range(reports), NEW f \in Fill,
                      botOf[f] = r.job.bot, recorded[f] # None,
                      filled[f] < r.job.end, recorded[f] < r.job.end,
                      \A d \in filled[f] + 1 .. r.job.end - 1 :
                         [r.job EXCEPT !.end = d] \notin Range(JobsOf(d))
               PROVE  f \in r.fills
    BY DEF NothingFallsBetween
  <2> DEFINE j == r.job
             w == windowStart(j.period, j.end)
  <2>1. Honest(r, filled, recorded, DayOf(now))
    BY DEF ReportsInv
  <2>2. /\ j \in Job /\ j.period \in Period /\ j.end \in Days /\ j.end \in Int
        /\ j.bot \in Range(Bot) /\ DueDay(j.period, j.end)
    BY <2>1, DaysAreInt DEF Honest, DueJob, Job
  <2>3. w \in Int /\ w < j.end /\ DueDay(j.period, w)
    BY <2>2, WindowStarts
  <2>4. filled[f] \in Int
    BY DaysAreInt DEF ReportsInv
  <2>5. [j EXCEPT !.end = w] \in Range(JobsOf(w))
    <3>1. [j EXCEPT !.end = w] = [bot |-> j.bot, period |-> j.period, end |-> w]
      <4> HIDE DEF j, w
      <4> QED
        BY <2>2 DEF Job
    <3>2. [bot |-> j.bot, period |-> j.period, end |-> w] \in Range(JobsOf(w))
      BY <2>2, <2>3, JobsAreDue
    <3> QED
      BY <3>1, <3>2
  <2>6. filled[f] >= w
    <3> SUFFICES ASSUME filled[f] < w PROVE FALSE
      BY <2>3, <2>4
    <3>1. w \in filled[f] + 1 .. j.end - 1
      BY <2>2, <2>3, <2>4
    <3> QED
      BY <2>5, <3>1
  <2>7. filled[f] \in Window(j)
    BY <2>2, <2>3, <2>4, <2>6 DEF Window
  <2> QED
    BY <2>1, <2>7 DEF Honest
<1> QED
  BY <1>1, ReportsInvariance, PTL
------------------------------------------------------------------------------
(* Types *)

\* Sequences without repetition, with nothing in common, make one without.
LEMMA InjectiveConcat ==
    ASSUME NEW S, NEW s \in Seq(S), NEW t \in Seq(S), IsInjective(s), IsInjective(t),
           \A x \in Range(s) : x \notin Range(t)
    PROVE  IsInjective(s \o t)
<1> DEFINE c == s \o t
<1>1. /\ Len(s) \in Nat /\ Len(t) \in Nat /\ DOMAIN s = 1 .. Len(s) /\ DOMAIN t = 1 .. Len(t)
  BY LenProperties
<1>2. /\ c \in Seq(S) /\ Len(c) = Len(s) + Len(t)
      /\ \A i \in 1 .. Len(s) + Len(t) : c[i] = IF i <= Len(s) THEN s[i] ELSE t[i - Len(s)]
  BY ConcatProperties
<1> HIDE DEF c
<1>3. DOMAIN c = 1 .. Len(s) + Len(t)
  BY <1>2, LenProperties
<1>4. ASSUME NEW i \in DOMAIN c
      PROVE  \/ i \in DOMAIN s /\ c[i] = s[i] /\ c[i] \in Range(s)
             \/ i - Len(s) \in DOMAIN t /\ c[i] = t[i - Len(s)] /\ c[i] \in Range(t)
  <2>1. i \in 1 .. Len(s) + Len(t)
    BY <1>3
  <2>2. CASE i <= Len(s)
    BY <1>1, <1>2, <2>1, <2>2 DEF Range
  <2>3. CASE ~(i <= Len(s))
    <3>1. i - Len(s) \in 1 .. Len(t)
      BY <1>1, <2>1, <2>3
    <3> QED
      BY <1>1, <1>2, <2>1, <2>3, <3>1 DEF Range
  <2> QED
    BY <2>2, <2>3
<1>5. ASSUME NEW i \in DOMAIN c, NEW j \in DOMAIN c, c[i] = c[j]
      PROVE  i = j
  <2>1. CASE /\ i \in DOMAIN s /\ c[i] = s[i]
             /\ j \in DOMAIN s /\ c[j] = s[j]
    BY <1>5, <2>1 DEF IsInjective
  <2>2. CASE /\ i - Len(s) \in DOMAIN t /\ c[i] = t[i - Len(s)]
             /\ j - Len(s) \in DOMAIN t /\ c[j] = t[j - Len(s)]
    <3>1. i - Len(s) = j - Len(s)
      BY <1>5, <2>2 DEF IsInjective
    <3> QED
      BY <1>1, <1>3, <3>1
  <2> QED
    BY <1>4, <1>5, <2>1, <2>2
<1> QED
  BY <1>5 DEF IsInjective, c

\* The head of a sequence without repetition is not in its tail, which has none.
LEMMA InjectiveTail ==
    ASSUME NEW S, NEW s \in Seq(S), s # << >>, IsInjective(s)
    PROVE  IsInjective(Tail(s)) /\ Head(s) \notin Range(Tail(s)) /\ Range(Tail(s)) \subseteq Range(s)
<1> DEFINE t == Tail(s)
<1>1. /\ t \in Seq(S) /\ Len(t) = Len(s) - 1 /\ Len(s) \in Nat \ {0}
      /\ \A i \in 1 .. Len(t) : t[i] = s[i + 1]
      /\ Head(s) = s[1] /\ DOMAIN s = 1 .. Len(s)
  BY HeadTailProperties, EmptySeq, LenProperties
<1> HIDE DEF t
<1>2. DOMAIN t = 1 .. Len(t) /\ \A i \in 1 .. Len(t) : i + 1 \in DOMAIN s /\ t[i] = s[i + 1]
  BY <1>1, LenProperties
<1>3. 1 \in DOMAIN s /\ \A i \in 1 .. Len(t) : i \in Int /\ i + 1 # 1
  BY <1>1
<1>4. ASSUME NEW i \in DOMAIN t, NEW j \in DOMAIN t, t[i] = t[j]
      PROVE  i = j
  <2>1. i + 1 = j + 1
    BY <1>2, <1>4 DEF IsInjective
  <2> QED
    BY <1>2, <1>3, <2>1
<1>5. s[1] \notin Range(t)
  BY <1>2, <1>3 DEF IsInjective, Range
<1>6. Range(t) \subseteq Range(s)
  BY <1>2 DEF Range
<1> QED
  BY <1>1, <1>4, <1>5, <1>6 DEF IsInjective, t

\* Schedule does not ask for a report twice in one tick.
LEMMA JobsAreDistinct ==
    ASSUME NEW d \in Int
    PROVE  IsInjective(JobsOf(d))
<1> DEFINE daily   == runAll("daily", d)
           weekly  == IF d \in Mondays THEN runAll("weekly", d) ELSE << >>
           monthly == IF d \in Firsts THEN runAll("monthly", d) ELSE << >>
<1>1. ASSUME NEW period \in Period
      PROVE  /\ runAll(period, d) \in Seq(AnyJob) /\ IsInjective(runAll(period, d))
             /\ \A j \in Range(runAll(period, d)) : j.period = period
  <2>1. runAll(period, d) \in Seq({j \in AnyJob : j.period = period /\ j.end = d})
    BY RunAllJobs
  <2>2. runAll(period, d) \in Seq(AnyJob)
    BY <2>1, SeqMonotonic
  <2>3. \A j \in Range(runAll(period, d)) : j.period = period
    BY <2>1, RangeOfSeq
  <2>4. IsInjective(runAll(period, d))
    BY ReportsAssumption DEF runAll, IsInjective
  <2> QED
    BY <2>2, <2>3, <2>4
<1>2. << >> \in Seq(AnyJob) /\ IsInjective(<< >>) /\ Range(<< >>) = {}
  <2>1. DOMAIN << >> = {}
    OBVIOUS
  <2> QED
    BY <2>1, EmptySeq DEF IsInjective, Range
<1>3. /\ daily \in Seq(AnyJob) /\ weekly \in Seq(AnyJob) /\ monthly \in Seq(AnyJob)
      /\ IsInjective(daily) /\ IsInjective(weekly) /\ IsInjective(monthly)
      /\ \A j \in Range(daily) : j.period = "daily"
      /\ \A j \in Range(weekly) : j.period = "weekly"
      /\ \A j \in Range(monthly) : j.period = "monthly"
  BY <1>1, <1>2 DEF Period
<1>4. JobsOf(d) = (daily \o weekly) \o monthly
  BY DEF JobsOf
<1> HIDE DEF daily, weekly, monthly
<1> DEFINE dw == daily \o weekly
<1>5. /\ dw \in Seq(AnyJob) /\ Range(dw) = Range(daily) \cup Range(weekly)
      /\ IsInjective(dw)
  <2>1. \A j \in Range(daily) : j \notin Range(weekly)
    BY <1>3
  <2> QED
    BY <1>3, <2>1, ConcatProperties, RangeConcatenation, InjectiveConcat
<1>6. JobsOf(d) = dw \o monthly
  BY <1>4
<1> HIDE DEF dw
<1>7. \A j \in Range(dw) : j \notin Range(monthly)
  BY <1>3, <1>5
<1> QED
  BY <1>3, <1>5, <1>6, <1>7, InjectiveConcat

\* Every step keeps the variables in their types.
LEMMA TypeStep == TypeOK /\ ReportsInv /\ [Next]_vars => TypeOK'
<1> SUFFICES ASSUME TypeOK, ReportsInv, [Next]_vars PROVE TypeOK'
  OBVIOUS
<1>0. /\ ReportsInv' /\ now' \in MinTime .. MaxTime
  BY ReportsStep, ClockStep
<1>1. /\ channel' \in MinTime .. now' \cup {None}
      /\ Range(reports') \subseteq Report
      /\ filled' \in [Fill -> Days \cup {None}] /\ recorded' \in [Fill -> Days \cup {None}]
      /\ report' \in Report \cup {None}
      /\ jobs' \in Seq(PastJob')
  BY <1>0, RangeOfSeq DEF ReportsInv
<1>2. Range(jobs') \subseteq Job
  <2>1. Range(jobs') \subseteq PastJob'
    BY <1>1, RangeOfSeq
  <2> QED
    BY <2>1 DEF PastJob, DueJob
<1>3. up' \in BOOLEAN /\ nextTick' \in now' - MaxLate .. now' + Minute
  <2>1. /\ now \in Nat /\ now' \in Nat /\ Minute \in Nat \ {0} /\ MaxLate \in Nat /\ MaxLate < Minute
        /\ nextTick \in Int /\ now - MaxLate <= nextTick /\ nextTick <= now + Minute
    <3>1. Minute \in Nat \ {0} /\ MaxLate \in 0 .. Minute - 1 /\ MinTime \in Nat /\ MaxTime \in Nat
      BY ReportsAssumption
    <3>2. nextTick \in now - MaxLate .. now + Minute /\ now \in MinTime .. MaxTime
      BY DEF TypeOK
    <3> QED
      BY <1>0, <3>1, <3>2
  <2>2. CASE Pass
    BY <2>1, <2>2 DEF Pass, TypeOK
  <2>3. CASE Tick
    BY <2>1, <2>3 DEF Tick, TickThen, TypeOK
  <2>4. CASE Start
    BY <2>1, <2>4 DEF Start, StartWithTick
  <2>5. CASE Stop
    <3>1. nextTick' = now /\ now' = now /\ up' = FALSE
      BY <2>5 DEF Stop
    <3>2. now \in now - MaxLate .. now + Minute
      BY <2>1
    <3> QED
      BY <3>1, <3>2, Zenon
  <2>6. CASE UNCHANGED <<now, up, nextTick>>
    BY <2>6 DEF TypeOK
  <2> QED
    BY <2>2, <2>3, <2>4, <2>5, <2>6
    DEF Next, Receive, Generate, Insert, Happen, Record, vars, scheduler
<1>4. /\ IsInjective(jobs')
      /\ report' # None => report'.job \notin Range(jobs')
      /\ ~up' => channel' = None /\ jobs' = << >> /\ report' = None
  <2>1. CASE Receive
    <3>1. channel \in Nat /\ channel # None
      BY <2>1, ReportsAssumption DEF Receive, ReportsInv
    <3>2. DayOf(channel) \in Int
      BY <3>1, DayOfMonotone
    <3>3. IsInjective(<< >>)
      BY DEF IsInjective
    <3> QED
      BY <2>1, <3>2, <3>3, JobsAreDistinct DEF Receive
  <2>2. ASSUME NEW ok \in BOOLEAN, Generate(ok)
        PROVE  /\ IsInjective(jobs')
               /\ report' # None => report'.job \notin Range(jobs')
               /\ ~up' => channel' = None /\ jobs' = << >> /\ report' = None
    <3>1. jobs \in Seq(PastJob) /\ jobs # << >> /\ IsInjective(jobs)
      BY <2>2 DEF ReportsInv, TypeOK, Generate
    <3>2. IsInjective(Tail(jobs)) /\ Head(jobs) \notin Range(Tail(jobs))
      BY <3>1, InjectiveTail
    <3> QED
      BY <2>2, <3>2 DEF Generate, TypeOK
  <2>3. CASE Stop
    <3>1. IsInjective(<< >>)
      BY DEF IsInjective
    <3> QED
      BY <2>3, <3>1 DEF Stop
  <2>4. ASSUME NEW ok \in BOOLEAN, Insert(ok)
        PROVE  /\ IsInjective(jobs')
               /\ report' # None => report'.job \notin Range(jobs')
               /\ ~up' => channel' = None /\ jobs' = << >> /\ report' = None
    BY <2>4 DEF Insert, TypeOK
  <2>5. CASE Pass \/ Start \/ Tick \/ UNCHANGED vars \/ \E f \in Fill : Happen(f) \/ Record(f)
    BY <2>5 DEF Pass, Start, StartWithTick, Tick, TickThen, Happen, Record, vars, scheduler, TypeOK
  <2> QED
    BY <2>1, <2>2, <2>3, <2>4, <2>5 DEF Next
<1>5. owed' \subseteq Job
  <2>1. CASE Pass
    <3>1. MinTime \in Nat /\ MaxTime \in Nat /\ now' \in Nat /\ MinTime <= now' /\ now' <= MaxTime
      BY <1>0, ReportsAssumption
    <3> DEFINE d == DayOf(now')
    <3>2. d \in Days /\ d \in Int
      BY <3>1, DayOfMonotone DEF Days
    <3> HIDE DEF d
    <3>3. Range(JobsOf(d)) \subseteq Job
      <4>1. Range(JobsOf(d)) \subseteq {j \in AnyJob : DueDay(j.period, j.end) /\ j.end = d}
        BY <3>2, JobsAreDue, RangeOfSeq
      <4> QED
        BY <3>2, <4>1 DEF AnyJob, Job
    <3> QED
      BY <2>1, <3>3 DEF Pass, TypeOK, d
  <2>2. CASE ~Pass
    BY <2>2 DEF Next, Stop, Start, StartWithTick, Tick, TickThen, Receive, Generate, Insert,
                Happen, Record, vars, TypeOK
  <2> QED
    BY <2>1, <2>2
<1>6. skewed' \in BOOLEAN
  BY DEF Next, Pass, Stop, Start, StartWithTick, Tick, TickThen, Receive, Generate, Insert,
         Happen, Record, vars, TypeOK
<1>7. faults' \in 0 .. MaxFaults /\ starts' \in 0 .. MaxStarts
  <2>1. MaxFaults \in Nat /\ MaxStarts \in Nat /\ faults \in 0 .. MaxFaults /\ starts \in 0 .. MaxStarts
    BY Bounds DEF TypeOK
  <2>2. ASSUME NEW ok \in BOOLEAN, Generate(ok) \/ Insert(ok)
        PROVE  faults' \in 0 .. MaxFaults /\ starts' = starts
    <3>1. (faults' = faults \/ faults' = faults + 1) /\ faults' <= MaxFaults /\ starts' = starts
      BY <2>2 DEF Generate, Insert
    <3> QED
      BY <2>1, <3>1
  <2>3. CASE Start
    <3>1. starts' = starts + 1 /\ starts < MaxStarts /\ faults' = faults
      BY <2>3 DEF Start, StartWithTick
    <3> QED
      BY <2>1, <3>1
  <2>4. CASE UNCHANGED bounds
    BY <2>1, <2>4 DEF bounds
  <2> QED
    BY <2>1, <2>2, <2>3, <2>4 DEF Next, Pass, Stop, Tick, TickThen, Receive, Happen, Record, vars
<1> QED
  BY <1>0, <1>1, <1>2, <1>3, <1>4, <1>5, <1>6, <1>7 DEF TypeOK

\* The scheduler's variables keep their types: no report is on the list twice.
THEOREM ReportsTypeCorrect == Spec => []TypeOK
<1>1. Init => TypeOK
  <2> SUFFICES ASSUME Init PROVE TypeOK
    OBVIOUS
  <2>1. IsInjective(<< >>) /\ Range(<< >>) = {}
    <3>1. DOMAIN << >> = {}
      OBVIOUS
    <3> QED
      BY <3>1 DEF IsInjective, Range
  <2>2. now \in MinTime .. MaxTime /\ nextTick \in now - MaxLate .. now + Minute
    <3>1. /\ MinTime \in Nat /\ MaxTime \in Nat /\ MinTime <= MaxTime
          /\ Minute \in Nat /\ MaxLate \in Nat
      BY ReportsAssumption
    <3>2. now = MinTime /\ nextTick = MinTime
      BY DEF Init
    <3> QED
      BY <3>1, <3>2
  <2>3. faults \in 0 .. MaxFaults /\ starts \in 0 .. MaxStarts
    BY ReportsAssumption DEF Init
  <2> QED
    BY <2>1, <2>2, <2>3 DEF Init, TypeOK
<1>2. TypeOK /\ ReportsInv /\ [Next]_vars => TypeOK'
  BY TypeStep
<1> QED
  BY <1>1, <1>2, ReportsInvariance, PTL DEF Spec
------------------------------------------------------------------------------
(* Minutes *)

\* The minute of an instant.
minuteOf(t) == t \div Minute

\* The minute in which the reports of day d are made.
FireAt(d) == (Day \div Minute) * d + FireMinute

\* A minute later it is the next minute; a tick that is in phase and late is in the
\* same one.
LEMMA Minutes ==
    ASSUME NEW a \in Int
    PROVE  /\ minuteOf(a) \in Int
           /\ minuteOf(a + Minute) = minuteOf(a) + 1
           /\ ~(a % Minute >= Minute - MaxLate) => minuteOf(a + MaxLate) = minuteOf(a)
<1> DEFINE p == minuteOf(a)
<1>0. Minute \in Nat \ {0} /\ MaxLate \in Nat
  BY ReportsAssumption
<1>1. p \in Int /\ Minute * p <= a /\ a < Minute * p + Minute /\ a % Minute = a - Minute * p
  <2>1. \A n \in Int : n % Minute = n - Minute * (n \div Minute)
    BY <1>0
  <2> QED
    BY <1>0, <2>1, Quotient DEF minuteOf
<1> HIDE DEF p
<1>2. Minute * p \in Int
  BY <1>0, <1>1
<1>3. (a + Minute) \div Minute = p + 1
  <2>1. Minute * (p + 1) = Minute * p + Minute
    BY <1>0, <1>1
  <2>2. Minute * (p + 1) <= a + Minute /\ a + Minute < Minute * (p + 1) + Minute
    BY <1>0, <1>1, <1>2, <2>1
  <2> QED
    BY <1>0, <1>1, <2>2, QuotientIs
<1>4. ASSUME ~(a % Minute >= Minute - MaxLate)
      PROVE  (a + MaxLate) \div Minute = p
  <2>1. Minute * p <= a + MaxLate /\ a + MaxLate < Minute * p + Minute
    BY <1>0, <1>1, <1>2, <1>4
  <2> QED
    BY <1>0, <1>1, <2>1, QuotientIs
<1> QED
  BY <1>1, <1>3, <1>4 DEF minuteOf, p

\* Later instants are of later minutes.
LEMMA MinutesOrder ==
    ASSUME NEW a \in Int, NEW b \in Int, a <= b
    PROVE  minuteOf(a) <= minuteOf(b)
<1>1. Minute \in Nat \ {0}
  BY ReportsAssumption
<1> QED
  BY <1>1, QuotientOrder DEF minuteOf

\* A day has one fire minute, which ends when DueIsServed says.
LEMMA FireMinutes ==
    ASSUME NEW t \in Nat, NEW d \in Int
    PROVE  /\ FireAt(d) \in Int /\ DayOf(t) \in Int
           /\ InFireMinute(t) <=> minuteOf(t) = FireAt(DayOf(t))
           /\ minuteOf(t) = FireAt(d) => DayOf(t) = d /\ t < d * Day + (FireMinute + 1) * Minute
<1> DEFINE K == Day \div Minute
           e == DayOf(t)
           m == minuteOf(t)
<1>1. /\ Minute \in Nat \ {0} /\ Day \in Nat \ {0} /\ FireMinute \in Nat
      /\ FireMinute * Minute + Minute <= Day /\ Day % Minute = 0
  BY ReportsAssumption
<1>2. K \in Int /\ Day = Minute * K
  <2>1. Day % Minute = Day - Minute * (Day \div Minute)
    BY <1>1
  <2> QED
    BY <1>1, <2>1, Quotient
<1>3. /\ e \in Int /\ Day * e <= t /\ t < Day * e + Day /\ t % Day = t - Day * e
      /\ m \in Int /\ Minute * m <= t /\ t < Minute * m + Minute
  <2>1. t % Day = t - Day * (t \div Day)
    BY <1>1
  <2> QED
    BY <1>1, <2>1, Quotient DEF DayOf, minuteOf
<1>4. /\ FireAt(d) = K * d + FireMinute /\ FireAt(e) = K * e + FireMinute
      /\ InFireMinute(t) <=> (t % Day) \div Minute = FireMinute
      /\ minuteOf(t) = m /\ DayOf(t) = e
  BY DEF FireAt, InFireMinute
<1>10. e = t \div Day /\ m = t \div Minute
  BY DEF DayOf, minuteOf
<1> HIDE DEF K, e, m
<1>5. ASSUME NEW c \in Int
      PROVE  /\ K * c \in Int /\ Minute * (K * c + FireMinute) = Day * c + FireMinute * Minute
             /\ Day * c \in Int
  BY <1>1, <1>2
<1>6. FireMinute * Minute \in Nat /\ Minute * FireMinute = FireMinute * Minute
  BY <1>1
<1>7. ASSUME InFireMinute(t)
      PROVE  m = K * e + FireMinute
  <2> DEFINE r == t - Day * e
  <2>1. r \in Int /\ r \div Minute = FireMinute
    BY <1>3, <1>4, <1>5, <1>7
  <2> HIDE DEF r
  <2>2. Minute * FireMinute <= r /\ r < Minute * FireMinute + Minute
    BY <1>1, <2>1, Quotient
  <2>3. /\ Minute * (K * e + FireMinute) <= t /\ t < Minute * (K * e + FireMinute) + Minute
        /\ K * e + FireMinute \in Int
    <3>1. /\ Minute * (K * e + FireMinute) = Day * e + FireMinute * Minute
          /\ K * e \in Int /\ Day * e \in Int
      BY <1>3, <1>5
    <3>2. Minute * FireMinute <= t - Day * e /\ t - Day * e < Minute * FireMinute + Minute
      BY <2>2 DEF r
    <3>3. Day * e + FireMinute * Minute <= t /\ t < Day * e + FireMinute * Minute + Minute
      BY <1>1, <1>6, <3>1, <3>2
    <3> QED
      BY <1>1, <3>1, <3>3
  <2> QED
    BY <1>1, <1>10, <2>3, QuotientIs
<1>8. ASSUME m = K * e + FireMinute
      PROVE  InFireMinute(t)
  <2> DEFINE r == t - Day * e
  <2>1. r \in Int /\ t % Day = r
    BY <1>3, <1>5
  <2>2. Minute * FireMinute <= r /\ r < Minute * FireMinute + Minute
    BY <1>1, <1>3, <1>5, <1>6, <1>8
  <2> HIDE DEF r
  <2>3. r \div Minute = FireMinute
    BY <1>1, <2>1, <2>2, QuotientIs
  <2> QED
    BY <1>4, <2>1, <2>3
<1>9. ASSUME m = K * d + FireMinute
      PROVE  e = d /\ t < d * Day + (FireMinute + 1) * Minute
  <2>1. Day * d + FireMinute * Minute <= t /\ t < Day * d + FireMinute * Minute + Minute
    BY <1>1, <1>3, <1>5, <1>9
  <2>2. Day * d <= t /\ t < Day * d + Day
    BY <1>1, <1>5, <1>6, <2>1
  <2>3. t \div Day = d
    BY <1>1, <2>2, QuotientIs
  <2>4. d * Day = Day * d /\ (FireMinute + 1) * Minute = FireMinute * Minute + Minute
    BY <1>1
  <2>5. t < Day * d + (FireMinute * Minute + Minute)
    BY <1>1, <1>5, <1>6, <2>1
  <2> QED
    BY <1>10, <2>3, <2>4, <2>5
<1> QED
  BY <1>1, <1>3, <1>4, <1>5, <1>7, <1>8, <1>9

\* The fire minutes of later days are later.
LEMMA FireOrder ==
    ASSUME NEW d \in Int, NEW e \in Int, FireAt(d) < FireAt(e)
    PROVE  d < e
<1> DEFINE K == Day \div Minute
<1>1. K \in Nat /\ FireMinute \in Nat
  <2>1. Minute \in Nat \ {0} /\ Day \in Nat \ {0} /\ FireMinute \in Nat
    BY ReportsAssumption
  <2> QED
    BY <2>1
<1>2. K * d + FireMinute < K * e + FireMinute
  BY DEF FireAt
<1> HIDE DEF K
<1> SUFFICES ASSUME e <= d PROVE FALSE
  OBVIOUS
<1> DEFINE k == d - e
<1>3. k \in Nat /\ d = e + k
  OBVIOUS
<1> HIDE DEF k
<1>4. K * d = K * e + K * k /\ K * k \in Nat /\ K * e \in Int
  BY <1>1, <1>3
<1> QED
  BY <1>1, <1>2, <1>4
------------------------------------------------------------------------------
(* What has begun *)

\* The reports that are made, those lost in a failing call or a stop left out.
Made == Range(reports) \cup (IF report = None THEN {} ELSE {report})

\* The jobs a tick has asked for.
Begun == Range(jobs) \cup {r.job : r \in Made}

\* They are jobs and reports.
LEMMA BegunType ==
    ASSUME TypeOK
    PROVE  Made \subseteq Report /\ Begun \subseteq Job /\ \A j \in Begun : j.end \in Int
<1>1. Made \subseteq Report
  BY DEF TypeOK, Made
<1>2. Begun \subseteq Job
  BY <1>1 DEF TypeOK, Begun, Report
<1> QED
  BY <1>1, <1>2, DaysAreInt DEF Job

\* What a sequence holds after Append.
LEMMA AppendRange ==
    ASSUME NEW S, NEW s \in Seq(S), NEW x \in S
    PROVE  Range(Append(s, x)) = Range(s) \cup {x}
<1> DEFINE t == Append(s, x)
<1>1. /\ t \in Seq(S) /\ Len(t) = Len(s) + 1 /\ Len(s) \in Nat
      /\ \A i \in 1 .. Len(s) : t[i] = s[i]
      /\ t[Len(s) + 1] = x
      /\ DOMAIN t = 1 .. Len(s) + 1 /\ DOMAIN s = 1 .. Len(s)
  BY AppendProperties, LenProperties
<1> HIDE DEF t
<1>2. DOMAIN t = DOMAIN s \cup {Len(s) + 1}
  BY <1>1
<1> QED
  BY <1>1, <1>2 DEF Range, t

\* What Generate does to the jobs and the reports.
LEMMA GenerateBegins ==
    ASSUME ReportsInv, NEW ok \in BOOLEAN, Generate(ok)
    PROVE  /\ Head(jobs) \in Range(jobs) /\ Range(jobs') \subseteq Range(jobs)
           /\ \A r \in Made' : r \in Made \/ (report' # None /\ r = report' /\ r.job = Head(jobs))
<1>1. jobs \in Seq(PastJob) /\ jobs # << >> /\ jobs' = Tail(jobs)
  BY DEF ReportsInv, Generate
<1>2. /\ Len(jobs) \in Nat \ {0} /\ Head(jobs) = jobs[1] /\ DOMAIN jobs = 1 .. Len(jobs)
      /\ Tail(jobs) \in Seq(PastJob) /\ Len(Tail(jobs)) = Len(jobs) - 1
      /\ \A i \in 1 .. Len(Tail(jobs)) : Tail(jobs)[i] = jobs[i + 1]
  BY <1>1, HeadTailProperties, EmptySeq, LenProperties
<1>3. /\ 1 \in DOMAIN jobs /\ DOMAIN Tail(jobs) = 1 .. Len(Tail(jobs))
      /\ \A i \in 1 .. Len(Tail(jobs)) : i + 1 \in DOMAIN jobs
  BY <1>2, LenProperties
<1>4. Head(jobs) \in Range(jobs) /\ Range(Tail(jobs)) \subseteq Range(jobs)
  BY <1>2, <1>3 DEF Range
<1>5. report' # None => report'.job = Head(jobs)
  BY DEF Generate
<1>6. reports' = reports
  BY DEF Generate
<1>7. \A r \in Made' : r \in Made \/ (report' # None /\ r = report' /\ r.job = Head(jobs))
  <2>1. Made' = Range(reports) \cup (IF report' = None THEN {} ELSE {report'})
    BY <1>6 DEF Made, Range
  <2>2. Range(reports) \subseteq Made
    BY DEF Made
  <2> QED
    BY <1>5, <2>1, <2>2
<1> QED
  BY <1>1, <1>4, <1>7

\* What Insert does to the reports.
LEMMA InsertMade ==
    ASSUME ReportsInv, NEW ok \in BOOLEAN, Insert(ok)
    PROVE  Made' \subseteq Made /\ jobs' = jobs
<1>1. reports \in Seq(Report) /\ report \in Report
  BY DEF ReportsInv, Insert
<1>2. Range(Append(reports, report)) = Range(reports) \cup {report}
  BY <1>1, AppendRange
<1> QED
  BY <1>2 DEF Insert, Made

\* Steps that begin no job.
LEMMA NothingBegins ==
    ASSUME ReportsInv, [Next]_vars, ~Receive, ~(\E ok \in BOOLEAN : Generate(ok))
    PROVE  Made' \subseteq Made /\ Range(jobs') \subseteq Range(jobs)
<1>1. Range(<< >>) = {}
  <2>1. DOMAIN << >> = {}
    OBVIOUS
  <2> QED
    BY <2>1 DEF Range
<1>2. CASE Stop
  BY <1>1, <1>2 DEF Stop, Made
<1>3. CASE \E ok \in BOOLEAN : Insert(ok)
  BY <1>3, InsertMade
<1>4. CASE UNCHANGED <<jobs, report, reports>>
  BY <1>4 DEF Made
<1> QED
  BY <1>2, <1>3, <1>4
  DEF Next, Pass, Start, StartWithTick, Tick, TickThen, Happen, Record, vars, scheduler

\* A tick asks for the jobs of its day, in its fire minute and when the ones
\* before it are done.
LEMMA ReceiveBegins ==
    ASSUME TypeOK, Receive
    PROVE  /\ channel \in Nat /\ channel <= now /\ DayOf(channel) \in Int
           /\ Range(jobs) = {} /\ Made' = Made
           /\ \A j \in Range(jobs') :
                 /\ j.end = DayOf(channel) /\ j \in AnyJob
                 /\ FireAt(j.end) = minuteOf(channel)
<1>1. channel \in Nat /\ channel <= now
  BY Times DEF Receive
<1> DEFINE d == DayOf(channel)
<1>2. d \in Int
  BY <1>1, DayOfMonotone
<1>3. Range(<< >>) = {}
  <2>1. DOMAIN << >> = {}
    OBVIOUS
  <2> QED
    BY <2>1 DEF Range
<1>4. Made' = Made
  BY DEF Receive, Made
<1>5. ASSUME NEW j \in Range(jobs')
      PROVE  j.end = d /\ j \in AnyJob /\ FireAt(j.end) = minuteOf(channel)
  <2>1. InFireMinute(channel) /\ j \in Range(JobsOf(d))
    BY <1>3 DEF Receive
  <2> HIDE DEF d
  <2>2. Range(JobsOf(d)) \subseteq {i \in AnyJob : DueDay(i.period, i.end) /\ i.end = d}
    BY <1>2, JobsAreDue, RangeOfSeq
  <2>3. j.end = d /\ j \in AnyJob
    BY <2>1, <2>2
  <2>4. FireAt(d) = minuteOf(channel)
    BY <1>1, <1>2, <2>1, FireMinutes DEF d
  <2> QED
    BY <2>3, <2>4
<1> QED
  BY <1>1, <1>2, <1>3, <1>4, <1>5 DEF Receive
------------------------------------------------------------------------------
(* The ticker *)

\* Each tick is in a minute of its own: the ticker keeps its phase, which is
\* such that a late tick is in the same minute as one in time, and jobs have
\* begun in earlier minutes only.
TickerInv ==
    /\ up /\ ~skewed => minuteOf(nextTick + MaxLate) = minuteOf(nextTick)
    /\ \A j \in Begun : FireAt(j.end) <= minuteOf(now)
    /\ up /\ ~skewed =>
          /\ \A j \in Begun : FireAt(j.end) < minuteOf(nextTick)
          /\ channel # None => minuteOf(channel) < minuteOf(nextTick)
    /\ ~skewed /\ channel # None => \A j \in Begun : FireAt(j.end) < minuteOf(channel)

\* Every step keeps it.
LEMMA TickerStep == TypeOK /\ ReportsInv /\ TickerInv /\ [Next]_vars => TickerInv'
<1> SUFFICES ASSUME TypeOK, ReportsInv, TickerInv, [Next]_vars PROVE TickerInv'
  OBVIOUS
<1>1. /\ now \in Nat /\ Minute \in Nat \ {0} /\ MaxLate \in Nat
      /\ nextTick \in Int /\ now - MaxLate <= nextTick /\ nextTick <= now + Minute
      /\ channel # None => channel \in Nat /\ channel <= now
  BY Times
<1>2. \A j \in Begun : FireAt(j.end) \in Int /\ j.end \in Int
  BY BegunType, FireMinutes
<1>3. CASE Receive
  <2>1. /\ channel \in Nat /\ channel <= now /\ channel' = None /\ channel # None
        /\ UNCHANGED <<now, up, nextTick, skewed>> /\ (~up => channel = None)
    BY <1>3, ReceiveBegins DEF Receive, TypeOK
  <2>2. \A j \in Begun' : j \in Begun \/ FireAt(j.end) = minuteOf(channel)
    BY <1>3, ReceiveBegins DEF Begun
  <2>3. minuteOf(channel) <= minuteOf(now) /\ minuteOf(channel) \in Int
    BY <1>1, <2>1, Minutes, MinutesOrder
  <2> QED
    BY <2>1, <2>2, <2>3 DEF TickerInv, minuteOf
<1>4. CASE ~Receive
  <2>1. Begun' \subseteq Begun
    <3>1. CASE \E ok \in BOOLEAN : Generate(ok)
      BY <3>1, GenerateBegins DEF Begun
    <3>2. CASE ~\E ok \in BOOLEAN : Generate(ok)
      BY <1>4, <3>2, NothingBegins DEF Begun
    <3> QED
      BY <3>1, <3>2
  <2>2. CASE Pass
    <3>1. /\ now' = now + 1 /\ UNCHANGED <<up, channel, skewed>> /\ (up => nextTick' = nextTick)
          /\ (~up => channel = None)
      BY <2>2 DEF Pass, TypeOK
    <3>2. /\ minuteOf(now) <= minuteOf(now + 1)
          /\ minuteOf(now) \in Int /\ minuteOf(now + 1) \in Int
      BY <1>1, Minutes, MinutesOrder
    <3>3. minuteOf(now)' = minuteOf(now + 1)
      BY <3>1 DEF minuteOf
    <3> QED
      BY <1>2, <2>1, <3>1, <3>2, <3>3 DEF TickerInv, minuteOf
  <2>3. CASE Stop
    BY <2>1, <2>3 DEF Stop, TickerInv, minuteOf
  <2>4. CASE Start
    <3>1. /\ nextTick' = now + Minute /\ up' = TRUE /\ UNCHANGED <<now, channel>> /\ channel = None
          /\ ~skewed' => ~skewed /\ ~(now % Minute >= Minute - MaxLate)
      BY <2>4 DEF Start, StartWithTick, TypeOK
    <3>2. /\ minuteOf(now) \in Int /\ minuteOf(now + Minute) = minuteOf(now) + 1
          /\ ~(now % Minute >= Minute - MaxLate) => minuteOf(now + MaxLate) = minuteOf(now)
          /\ minuteOf((now + MaxLate) + Minute) = minuteOf(now + MaxLate) + 1
      <4>1. now + MaxLate \in Int
        BY <1>1
      <4> QED
        BY <1>1, <4>1, Minutes
    <3>3. (now + MaxLate) + Minute = (now + Minute) + MaxLate
      BY <1>1
    <3>4. ~skewed' => minuteOf((now + Minute) + MaxLate) = minuteOf(now + Minute)
      BY <3>1, <3>2, <3>3
    <3> QED
      BY <1>2, <2>1, <3>1, <3>2, <3>4 DEF TickerInv, minuteOf
  <2>5. CASE Tick
    <3>1. /\ nextTick' = nextTick + Minute /\ up /\ up' /\ now >= nextTick /\ UNCHANGED <<now, skewed>>
          /\ channel' = IF channel = None THEN now ELSE channel
      BY <2>5 DEF Tick, TickThen
    <3>2. /\ minuteOf(nextTick) \in Int /\ minuteOf(nextTick + Minute) = minuteOf(nextTick) + 1
          /\ minuteOf((nextTick + MaxLate) + Minute) = minuteOf(nextTick + MaxLate) + 1
          /\ minuteOf(now) <= minuteOf(nextTick + MaxLate)
          /\ minuteOf(nextTick) <= minuteOf(now)
          /\ minuteOf(now) \in Int /\ (channel # None => minuteOf(channel) \in Int)
      <4>1. now <= nextTick + MaxLate /\ nextTick <= now /\ nextTick + MaxLate \in Int
        BY <1>1, <3>1
      <4>2. minuteOf(now) <= minuteOf(nextTick + MaxLate) /\ minuteOf(nextTick) <= minuteOf(now)
        BY <1>1, <4>1, MinutesOrder
      <4> QED
        BY <1>1, <4>1, <4>2, Minutes
    <3>3. (nextTick + MaxLate) + Minute = (nextTick + Minute) + MaxLate
      BY <1>1
    <3>4. CASE skewed
      BY <2>1, <3>1, <3>4 DEF TickerInv, minuteOf
    <3>5. CASE ~skewed
      <4>1. /\ minuteOf(nextTick + MaxLate) = minuteOf(nextTick)
            /\ \A j \in Begun : FireAt(j.end) < minuteOf(nextTick) /\ FireAt(j.end) <= minuteOf(now)
            /\ channel # None => /\ minuteOf(channel) < minuteOf(nextTick)
                                 /\ \A j \in Begun : FireAt(j.end) < minuteOf(channel)
        BY <3>1, <3>5 DEF TickerInv
      <4>2. minuteOf(channel') < minuteOf(nextTick + Minute)
        BY <3>1, <3>2, <4>1
      <4>3. \A j \in Begun : FireAt(j.end) < minuteOf(channel')
        BY <1>2, <3>1, <3>2, <4>1
      <4>4. \A j \in Begun : FireAt(j.end) < minuteOf(nextTick + Minute)
        BY <1>2, <3>2, <4>1
      <4>5. minuteOf((nextTick + Minute) + MaxLate) = minuteOf(nextTick + Minute)
        BY <3>2, <3>3, <4>1
      <4>6. /\ minuteOf(nextTick + MaxLate)' = minuteOf((nextTick + Minute) + MaxLate)
            /\ minuteOf(nextTick)' = minuteOf(nextTick + Minute)
            /\ minuteOf(now)' = minuteOf(now) /\ minuteOf(channel)' = minuteOf(channel')
        BY <3>1 DEF minuteOf
      <4>7. \A j : FireAt(j.end)' = FireAt(j.end)
        BY DEF FireAt
      <4> QED
        BY <2>1, <4>1, <4>2, <4>3, <4>4, <4>5, <4>6, <4>7 DEF TickerInv
    <3> QED
      BY <3>4, <3>5
  <2>6. CASE UNCHANGED <<now, up, nextTick, channel, skewed>>
    BY <2>1, <2>6 DEF TickerInv, minuteOf
  <2> QED
    BY <1>4, <2>2, <2>3, <2>4, <2>5, <2>6
    DEF Next, Generate, Insert, Happen, Record, vars, scheduler
<1> QED
  BY <1>3, <1>4

\* Every report is made at most once: the one at hand is not among those made,
\* and those still to be made are neither.
OnceInv ==
    ~skewed =>
        /\ \A j \in Range(jobs), r \in Made : j # r.job
        /\ report # None => \A r \in Range(reports) : r.job # report.job
        /\ NoDuplicateReport

\* Jobs of a later tick are of a later day.
LEMMA ReceiveIsLater ==
    ASSUME TypeOK, TickerInv, Receive, ~skewed, NEW j \in Range(jobs'), NEW r \in Made
    PROVE  r.job.end < j.end
<1>1. r.job \in Begun
  BY DEF Begun
<1>2. FireAt(r.job.end) < FireAt(j.end)
  BY <1>1, ReceiveBegins DEF TickerInv, Receive
<1>3. r.job.end \in Int /\ j.end \in Int
  BY <1>1, BegunType, ReceiveBegins
<1> QED
  BY <1>2, <1>3, FireOrder

\* Every step keeps OnceInv.
LEMMA OnceStep ==
    TypeOK /\ ReportsInv /\ TickerInv /\ OnceInv /\ [Next]_vars => OnceInv'
<1> SUFFICES ASSUME TypeOK, ReportsInv, TickerInv, OnceInv, [Next]_vars, ~skewed'
             PROVE  /\ \A j \in Range(jobs'), r \in Made' : j # r.job
                    /\ report' # None => \A r \in Range(reports') : r.job # report'.job
                    /\ IsInjective([i \in DOMAIN reports' |-> reports'[i].job])
  BY DEF OnceInv, NoDuplicateReport, Range
<1>1. ~skewed
  BY DEF Next, Pass, Stop, Start, StartWithTick, Tick, TickThen, Receive, Generate, Insert,
         Happen, Record, vars
<1>2. /\ \A j \in Range(jobs), r \in Made : j # r.job
      /\ report # None => \A r \in Range(reports) : r.job # report.job
      /\ IsInjective([i \in DOMAIN reports |-> reports[i].job])
  BY <1>1 DEF OnceInv, NoDuplicateReport
<1>3. Range(reports) \subseteq Made
  BY DEF Made
<1>4. CASE Receive
  <2>1. \A j \in Range(jobs'), r \in Made' : j # r.job
    <3> SUFFICES ASSUME NEW j \in Range(jobs'), NEW r \in Made', j = r.job PROVE FALSE
      OBVIOUS
    <3>1. r \in Made /\ j.end \in Int
      BY <1>4, ReceiveBegins
    <3>2. r.job.end < j.end
      BY <1>1, <1>4, <3>1, ReceiveIsLater
    <3> QED
      BY <3>1, <3>2
  <2>2. report' = report /\ reports' = reports
    BY <1>4 DEF Receive
  <2> QED
    BY <1>2, <2>1, <2>2
<1>5. ASSUME NEW ok \in BOOLEAN, Generate(ok)
      PROVE  /\ \A j \in Range(jobs'), r \in Made' : j # r.job
             /\ report' # None => \A r \in Range(reports') : r.job # report'.job
             /\ IsInjective([i \in DOMAIN reports' |-> reports'[i].job])
  <2>1. /\ Head(jobs) \in Range(jobs) /\ Range(jobs') \subseteq Range(jobs)
        /\ \A r \in Made' : r \in Made \/ (report' # None /\ r = report' /\ r.job = Head(jobs))
    BY <1>5, GenerateBegins
  <2>2. Head(jobs) \notin Range(jobs')
    <3>1. jobs \in Seq(PastJob) /\ jobs # << >> /\ IsInjective(jobs) /\ jobs' = Tail(jobs)
      BY <1>5 DEF ReportsInv, TypeOK, Generate
    <3> QED
      BY <3>1, InjectiveTail
  <2>3. reports' = reports /\ (report' # None => report'.job = Head(jobs))
    BY <1>5 DEF Generate
  <2> QED
    BY <1>2, <1>3, <2>1, <2>2, <2>3
<1>6. ASSUME NEW ok \in BOOLEAN, Insert(ok)
      PROVE  /\ \A j \in Range(jobs'), r \in Made' : j # r.job
             /\ report' # None => \A r \in Range(reports') : r.job # report'.job
             /\ IsInjective([i \in DOMAIN reports' |-> reports'[i].job])
  <2>1. Made' \subseteq Made /\ jobs' = jobs /\ report' = None /\ report # None
    BY <1>6, InsertMade DEF Insert
  <2>2. CASE reports' = reports
    BY <1>2, <2>1, <2>2
  <2>3. CASE reports' = Append(reports, report)
    <3>1. reports \in Seq(Report) /\ report \in Report
      BY <2>1 DEF ReportsInv
    <3>2. /\ Len(reports) \in Nat /\ DOMAIN reports = 1 .. Len(reports)
          /\ DOMAIN reports' = 1 .. Len(reports) + 1
          /\ \A i \in 1 .. Len(reports) : reports'[i] = reports[i]
          /\ reports'[Len(reports) + 1] = report
      BY <2>3, <3>1, AppendProperties, LenProperties
    <3>3. /\ DOMAIN reports' = DOMAIN reports \cup {Len(reports) + 1}
          /\ \A i \in DOMAIN reports : reports'[i] = reports[i] /\ reports[i].job # report.job
      BY <1>2, <2>1, <3>2 DEF Range
    <3>4. \A i, k \in DOMAIN reports : reports[i].job = reports[k].job => i = k
      BY <1>2 DEF IsInjective
    <3>5. \A i, k \in DOMAIN reports' : reports'[i].job = reports'[k].job => i = k
      BY <3>2, <3>3, <3>4
    <3>6. IsInjective([i \in DOMAIN reports' |-> reports'[i].job])
      BY <3>5 DEF IsInjective
    <3> QED
      BY <1>2, <2>1, <3>6
  <2> QED
    BY <1>6, <2>2, <2>3 DEF Insert
<1>7. CASE /\ ~Receive /\ ~(\E ok \in BOOLEAN : Generate(ok)) /\ ~(\E ok \in BOOLEAN : Insert(ok))
  <2>1. Made' \subseteq Made /\ Range(jobs') \subseteq Range(jobs)
    BY <1>7, NothingBegins
  <2>2. reports' = reports /\ (report' = report \/ report' = None)
    BY <1>7 DEF Next, Pass, Stop, Start, StartWithTick, Tick, TickThen, Happen, Record, vars, scheduler
  <2> QED
    BY <1>2, <2>1, <2>2
<1> QED
  BY <1>4, <1>5, <1>6, <1>7

\* The reports a tick has still to make are the daily ones first; none of them
\* is of a day that has a longer report already; and a longer report counts
\* what the daily ones of its days count.
CoverInv ==
    ~skewed =>
        /\ \A i, k \in DOMAIN jobs :
              i < k /\ jobs[k].period = "daily" => jobs[i].period = "daily"
        /\ \A j \in Range(jobs), r \in Made :
              j.period = "daily" /\ r.job.period # "daily" => r.job.end < j.end
        /\ \A r, s \in Made :
              /\ r.job.period = "daily" /\ s.job.period # "daily"
              /\ r.job.bot = s.job.bot
              /\ r.job.end \in windowStart(s.job.period, s.job.end) + 1 .. s.job.end
              => r.fills \subseteq s.fills

\* Schedule puts the daily jobs first.
LEMMA JobsDailyFirst ==
    ASSUME NEW d \in Int, NEW i \in DOMAIN JobsOf(d), NEW k \in DOMAIN JobsOf(d),
           i < k, JobsOf(d)[k].period = "daily"
    PROVE  JobsOf(d)[i].period = "daily"
<1> DEFINE daily   == runAll("daily", d)
           weekly  == IF d \in Mondays THEN runAll("weekly", d) ELSE << >>
           monthly == IF d \in Firsts THEN runAll("monthly", d) ELSE << >>
           Kept(b) == {j \in AnyJob : (j.period = "daily") = b}
<1>1. ASSUME NEW period \in Period
      PROVE  runAll(period, d) \in Seq(Kept(period = "daily"))
  <2>1. {j \in AnyJob : j.period = period /\ j.end = d} \subseteq Kept(period = "daily")
    OBVIOUS
  <2> QED
    BY <2>1, RunAllJobs, SeqMonotonic
<1>2. daily \in Seq(Kept(TRUE)) /\ weekly \in Seq(Kept(FALSE)) /\ monthly \in Seq(Kept(FALSE))
  <2>1. /\ "daily" \in Period /\ "weekly" \in Period /\ "monthly" \in Period
        /\ ("daily" = "daily") = TRUE /\ ("weekly" = "daily") = FALSE /\ ("monthly" = "daily") = FALSE
    BY DEF Period
  <2>2. << >> \in Seq(Kept(FALSE))
    BY EmptySeq
  <2> HIDE DEF Kept
  <2> QED
    BY <1>1, <2>1, <2>2
<1>3. JobsOf(d) = (daily \o weekly) \o monthly
  BY DEF JobsOf
<1>4. Kept(TRUE) \subseteq AnyJob /\ Kept(FALSE) \subseteq AnyJob
  OBVIOUS
<1> HIDE DEF daily, weekly, monthly
<1> DEFINE dw == daily \o weekly
<1>5. /\ daily \in Seq(AnyJob) /\ weekly \in Seq(AnyJob) /\ monthly \in Seq(AnyJob)
      /\ Len(daily) \in Nat /\ Len(weekly) \in Nat /\ Len(monthly) \in Nat
      /\ \A n \in 1 .. Len(daily) : daily[n].period = "daily"
      /\ \A n \in 1 .. Len(weekly) : weekly[n].period # "daily"
      /\ \A n \in 1 .. Len(monthly) : monthly[n].period # "daily"
  BY <1>2, <1>4, SeqMonotonic, LenProperties, ElementOfSeq
<1>6. /\ dw \in Seq(AnyJob) /\ Len(dw) = Len(daily) + Len(weekly)
      /\ \A n \in 1 .. Len(daily) + Len(weekly) :
            dw[n] = IF n <= Len(daily) THEN daily[n] ELSE weekly[n - Len(daily)]
  BY <1>5, ConcatProperties
<1>7. \A n \in 1 .. Len(dw) : dw[n].period = "daily" <=> n <= Len(daily)
  <2> TAKE n \in 1 .. Len(dw)
  <2>1. n \in Int /\ 1 <= n /\ n <= Len(daily) + Len(weekly)
    BY <1>5, <1>6
  <2>2. CASE n <= Len(daily)
    BY <1>5, <1>6, <2>1, <2>2
  <2>3. CASE n > Len(daily)
    <3>1. n - Len(daily) \in 1 .. Len(weekly)
      BY <1>5, <2>1, <2>3
    <3>2. dw[n] = weekly[n - Len(daily)]
      BY <1>5, <1>6, <2>1, <2>3
    <3> QED
      BY <1>5, <2>1, <2>3, <3>1, <3>2
  <2> QED
    BY <1>5, <2>1, <2>2, <2>3
<1> DEFINE all == JobsOf(d)
<1>8. all = dw \o monthly
  BY <1>3
<1> HIDE DEF dw, all
<1>9. /\ all \in Seq(AnyJob) /\ Len(all) = Len(dw) + Len(monthly) /\ Len(dw) \in Nat
      /\ \A n \in 1 .. Len(dw) + Len(monthly) :
            all[n] = IF n <= Len(dw) THEN dw[n] ELSE monthly[n - Len(dw)]
      /\ DOMAIN all = 1 .. Len(dw) + Len(monthly)
  <2>1. /\ all \in Seq(AnyJob) /\ Len(all) = Len(dw) + Len(monthly)
        /\ \A n \in 1 .. Len(dw) + Len(monthly) :
              all[n] = IF n <= Len(dw) THEN dw[n] ELSE monthly[n - Len(dw)]
    <3>1. dw \in Seq(AnyJob) /\ monthly \in Seq(AnyJob)
      BY <1>5, <1>6
    <3> QED
      BY <1>8, <3>1, ConcatProperties
  <2> QED
    BY <1>5, <1>6, <2>1, LenProperties
<1>10. \A n \in 1 .. Len(dw) + Len(monthly) : all[n].period = "daily" <=> n <= Len(daily)
  <2> TAKE n \in 1 .. Len(dw) + Len(monthly)
  <2>1. n \in Int /\ 1 <= n /\ n <= Len(dw) + Len(monthly) /\ Len(daily) <= Len(dw)
    BY <1>5, <1>6, <1>9
  <2>2. CASE n <= Len(dw)
    <3>1. n \in 1 .. Len(dw) /\ all[n] = dw[n]
      BY <1>9, <2>1, <2>2
    <3> QED
      BY <1>7, <3>1
  <2>3. CASE n > Len(dw)
    <3>1. n - Len(dw) \in 1 .. Len(monthly)
      BY <1>5, <1>9, <2>1, <2>3
    <3>2. all[n] = monthly[n - Len(dw)]
      BY <1>5, <1>9, <2>1, <2>3
    <3>3. ~(n <= Len(daily))
      BY <1>5, <1>9, <2>1, <2>3
    <3> QED
      BY <1>5, <3>1, <3>2, <3>3
  <2> QED
    BY <1>9, <2>1, <2>2, <2>3
<1>11. /\ i \in 1 .. Len(dw) + Len(monthly) /\ k \in 1 .. Len(dw) + Len(monthly)
       /\ all[k].period = "daily"
  BY <1>9 DEF all
<1>12. all[i].period = "daily"
  BY <1>5, <1>9, <1>10, <1>11
<1> QED
  BY <1>12 DEF all

\* Every step keeps CoverInv.
LEMMA CoverStep ==
    TypeOK /\ ReportsInv /\ TickerInv /\ CoverInv /\ [Next]_vars => CoverInv'
<1> DEFINE Covers(r, s) ==
              /\ r.job.period = "daily" /\ s.job.period # "daily"
              /\ r.job.bot = s.job.bot
              /\ r.job.end \in windowStart(s.job.period, s.job.end) + 1 .. s.job.end
              => r.fills \subseteq s.fills
<1> SUFFICES ASSUME TypeOK, ReportsInv, TickerInv, CoverInv, [Next]_vars, ~skewed'
             PROVE  /\ \A i, k \in DOMAIN jobs' :
                          i < k /\ jobs'[k].period = "daily" => jobs'[i].period = "daily"
                    /\ \A j \in Range(jobs'), r \in Made' :
                          j.period = "daily" /\ r.job.period # "daily" => r.job.end < j.end
                    /\ \A r, s \in Made' : Covers(r, s)
  BY DEF CoverInv, Range, windowStart
<1>1. ~skewed
  BY DEF Next, Pass, Stop, Start, StartWithTick, Tick, TickThen, Receive, Generate, Insert,
         Happen, Record, vars
<1>2. /\ \A i, k \in DOMAIN jobs :
            i < k /\ jobs[k].period = "daily" => jobs[i].period = "daily"
      /\ \A j \in Range(jobs), r \in Made :
            j.period = "daily" /\ r.job.period # "daily" => r.job.end < j.end
      /\ \A r, s \in Made : Covers(r, s)
  BY <1>1 DEF CoverInv
<1> HIDE DEF Covers
<1>3. \A i, k \in DOMAIN << >> : FALSE
  OBVIOUS
<1>4. CASE Receive
  <2>1. Made' = Made /\ channel \in Nat /\ DayOf(channel) \in Int
    BY <1>4, ReceiveBegins
  <2>2. \A j \in Range(jobs'), r \in Made' : r.job.end < j.end
    BY <1>1, <1>4, <2>1, ReceiveIsLater
  <2>3. \A i, k \in DOMAIN jobs' :
           i < k /\ jobs'[k].period = "daily" => jobs'[i].period = "daily"
    <3>1. jobs' = JobsOf(DayOf(channel)) \/ jobs' = << >>
      BY <1>4 DEF Receive
    <3> QED
      BY <1>3, <2>1, <3>1, JobsDailyFirst
  <2> QED
    BY <1>2, <2>1, <2>2, <2>3
<1>5. ASSUME NEW ok \in BOOLEAN, Generate(ok)
      PROVE  /\ \A i, k \in DOMAIN jobs' :
                   i < k /\ jobs'[k].period = "daily" => jobs'[i].period = "daily"
             /\ \A j \in Range(jobs'), r \in Made' :
                   j.period = "daily" /\ r.job.period # "daily" => r.job.end < j.end
             /\ \A r, s \in Made' : Covers(r, s)
  <2> DEFINE h == Head(jobs)
  <2>1. /\ h \in Range(jobs) /\ Range(jobs') \subseteq Range(jobs)
        /\ \A r \in Made' : r \in Made \/ (report' # None /\ r = report' /\ r.job = h)
    BY <1>5, GenerateBegins
  <2>2. /\ Len(jobs) \in Nat \ {0} /\ h = jobs[1] /\ DOMAIN jobs = 1 .. Len(jobs)
        /\ DOMAIN jobs' = 1 .. Len(jobs) - 1
        /\ \A i \in 1 .. Len(jobs) - 1 : jobs'[i] = jobs[i + 1]
    <3>1. jobs \in Seq(PastJob) /\ jobs # << >> /\ jobs' = Tail(jobs)
      BY <1>5 DEF ReportsInv, Generate
    <3>2. /\ Len(jobs) \in Nat \ {0} /\ Head(jobs) = jobs[1] /\ DOMAIN jobs = 1 .. Len(jobs)
          /\ Tail(jobs) \in Seq(PastJob) /\ Len(Tail(jobs)) = Len(jobs) - 1
          /\ \A i \in 1 .. Len(Tail(jobs)) : Tail(jobs)[i] = jobs[i + 1]
      BY <3>1, HeadTailProperties, EmptySeq, LenProperties
    <3> QED
      BY <3>1, <3>2, LenProperties
  <2>3. \A i \in DOMAIN jobs' : /\ i \in Int /\ i + 1 \in DOMAIN jobs /\ jobs'[i] = jobs[i + 1]
                                /\ 1 \in DOMAIN jobs /\ 1 < i + 1
    BY <2>2
  <2>4. \A i, k \in DOMAIN jobs' :
           i < k /\ jobs'[k].period = "daily" => jobs'[i].period = "daily"
    <3> TAKE i \in DOMAIN jobs', k \in DOMAIN jobs'
    <3>1. i < k => i + 1 < k + 1
      BY <2>3
    <3> QED
      BY <1>2, <2>3, <3>1
  <2>5. \A j \in Range(jobs') : j.period = "daily" => h.period = "daily"
    BY <1>2, <2>2, <2>3 DEF Range
  <2> HIDE DEF h
  <2>6. \A j \in Range(jobs'), r \in Made' :
           j.period = "daily" /\ r.job.period # "daily" => r.job.end < j.end
    BY <1>2, <2>1, <2>5
  <2>7. ASSUME NEW r \in Made', NEW s \in Made'
        PROVE  Covers(r, s)
    <3> SUFFICES ASSUME r.job.period = "daily", s.job.period # "daily",
                        r.job.bot = s.job.bot,
                        r.job.end \in windowStart(s.job.period, s.job.end) + 1 .. s.job.end
                 PROVE  r.fills \subseteq s.fills
      BY DEF Covers
    <3>1. CASE r \in Made /\ s \in Made
      BY <1>2, <3>1 DEF Covers
    <3>2. CASE r \in Made /\ report' # None /\ s = report' /\ s.job = h
      <4>1. /\ r \in Report /\ Honest(r, filled, recorded, DayOf(now))
        BY <3>2, BegunType DEF ReportsInv, Made
      <4>2. /\ h \in DueJob /\ h \in Job
        <5>1. Range(jobs) \subseteq PastJob
          BY RangeOfSeq DEF ReportsInv
        <5> QED
          BY <2>1, <5>1 DEF PastJob, DueJob
      <4>3. /\ windowStart("daily", r.job.end) = r.job.end - 1
            /\ windowStart(h.period, h.end) \in Int /\ h.end \in Int /\ r.job.end \in Int
        <5>1. h.period \in Period /\ h.end \in Days /\ DueDay(h.period, h.end) /\ r.job.end \in Days
          BY <4>1, <4>2 DEF DueJob, Job, Honest
        <5> QED
          BY <5>1, WindowStarts, DaysAreInt DEF windowStart
      <4>4. s.fills = {f \in Fill : /\ botOf[f] = h.bot
                                    /\ recorded[f] # None
                                    /\ filled[f] \in windowStart(h.period, h.end) .. h.end - 1}
        BY <1>5, <3>2 DEF Generate, h
      <4>5. ASSUME NEW f \in r.fills
            PROVE  f \in s.fills
        <5>1. /\ f \in Fill /\ botOf[f] = r.job.bot /\ recorded[f] # None
              /\ filled[f] \in r.job.end - 1 .. r.job.end - 1
          BY <4>1, <4>3 DEF Honest, Window, Report
        <5>2. filled[f] \in windowStart(h.period, h.end) .. h.end - 1
          BY <3>2, <4>3, <5>1
        <5> QED
          BY <3>2, <4>4, <5>1, <5>2
      <4> QED
        BY <4>5
    <3>3. CASE r = report' /\ r.job = h /\ s \in Made
      <4>1. s.job.end < h.end
        BY <1>2, <2>1, <3>3
      <4>2. s.job.end \in Int /\ h.end \in Int
        BY <2>1, <3>3, BegunType DEF Begun
      <4>3. h.end <= s.job.end
        BY <3>3
      <4> QED
        BY <4>1, <4>2, <4>3
    <3>4. CASE r.job = h /\ s.job = h
      BY <3>4
    <3> QED
      BY <2>1, <3>1, <3>2, <3>3, <3>4
  <2> QED
    BY <2>4, <2>6, <2>7
<1>6. CASE ~Receive /\ ~(\E ok \in BOOLEAN : Generate(ok))
  <2>1. Made' \subseteq Made /\ Range(jobs') \subseteq Range(jobs)
    BY <1>6, NothingBegins
  <2>2. jobs' = jobs \/ jobs' = << >>
    BY <1>6 DEF Next, Pass, Stop, Start, StartWithTick, Tick, TickThen, Insert, Happen, Record,
                vars, scheduler
  <2> QED
    BY <1>2, <1>3, <2>1, <2>2
<1> QED
  BY <1>4, <1>5, <1>6

\* A report that came due is about to be asked for by a tick of its fire minute,
\* or the tick is in the channel, or the report is on the list.
OwedInv ==
    ~skewed =>
        \A j \in owed :
            /\ j \in Range(JobsOf(j.end))
            /\ \/ /\ up /\ channel = None
                  /\ minuteOf(now) = FireAt(j.end) /\ minuteOf(nextTick) = FireAt(j.end)
               \/ channel # None /\ minuteOf(channel) = FireAt(j.end)
               \/ j \in Range(jobs)

\* When the fire minute begins, the next tick is due in it.
LEMMA TickIsDue ==
    ASSUME TypeOK, TickerInv, up, ~skewed, Pass,
           InFireMinute(now + 1), ~InFireMinute(now)
    PROVE  /\ DayOf(now + 1) \in Int
           /\ minuteOf(now + 1) = FireAt(DayOf(now + 1))
           /\ minuteOf(nextTick) = FireAt(DayOf(now + 1))
<1> DEFINE d == DayOf(now + 1)
<1>1. /\ now \in Nat /\ now + 1 \in Nat /\ Minute \in Nat \ {0} /\ MaxLate \in Nat
      /\ nextTick \in Int /\ nextTick <= now + Minute /\ now < nextTick + MaxLate
  BY Times DEF Pass
<1>2. minuteOf(nextTick + MaxLate) = minuteOf(nextTick)
  BY DEF TickerInv
<1>3. d \in Int /\ FireAt(d) \in Int /\ minuteOf(now + 1) = FireAt(d)
  BY <1>1, FireMinutes
<1> HIDE DEF d
<1>4. /\ minuteOf(now) \in Int /\ minuteOf(nextTick) \in Int
      /\ minuteOf(now + Minute) = minuteOf(now) + 1
  BY <1>1, Minutes
<1>5. minuteOf(now) # FireAt(d)
  BY <1>1, <1>3, FireMinutes
<1>6. minuteOf(now) <= minuteOf(now + 1)
  BY <1>1, MinutesOrder
<1>7. minuteOf(nextTick) <= minuteOf(now + Minute)
  BY <1>1, MinutesOrder
<1>8. minuteOf(now + 1) <= minuteOf(nextTick)
  <2>1. now + 1 <= nextTick + MaxLate /\ nextTick + MaxLate \in Int
    BY <1>1
  <2> QED
    BY <1>1, <1>2, <2>1, MinutesOrder
<1> QED
  BY <1>3, <1>4, <1>5, <1>6, <1>7, <1>8 DEF d

\* Every step keeps OwedInv.
LEMMA OwedStep ==
    TypeOK /\ ReportsInv /\ TickerInv /\ OwedInv /\ [Next]_vars => OwedInv'
<1> DEFINE Awaited(j) == /\ up /\ channel = None
                         /\ minuteOf(now) = FireAt(j.end) /\ minuteOf(nextTick) = FireAt(j.end)
           Sent(j)    == channel # None /\ minuteOf(channel) = FireAt(j.end)
<1> SUFFICES ASSUME TypeOK, ReportsInv, TickerInv, OwedInv, [Next]_vars, ~skewed',
                    NEW j \in owed'
             PROVE  j \in Range(JobsOf(j.end)) /\ (Awaited(j)' \/ Sent(j)' \/ j \in Range(jobs'))
  BY DEF OwedInv, Range, JobsOf, runAll, FireAt, minuteOf
<1>1. ~skewed
  BY DEF Next, Pass, Stop, Start, StartWithTick, Tick, TickThen, Receive, Generate, Insert,
         Happen, Record, vars
<1>2. j \in owed => j \in Range(JobsOf(j.end)) /\ (Awaited(j) \/ Sent(j) \/ j \in Range(jobs))
  BY <1>1 DEF OwedInv
<1>3. /\ now \in Nat /\ Minute \in Nat \ {0} /\ MaxLate \in Nat
      /\ nextTick \in Int /\ now - MaxLate <= nextTick /\ nextTick <= now + Minute
      /\ channel # None => channel \in Nat
      /\ ~up => channel = None /\ jobs = << >>
      /\ j \in owed => j.end \in Int
  BY Times DEF TypeOK
<1>4. CASE Pass
  <2>1. /\ now' = now + 1 /\ UNCHANGED <<up, channel, jobs>> /\ (up => nextTick' = nextTick)
        /\ up => now < nextTick + MaxLate
    BY <1>4 DEF Pass
  <2>2. CASE j \in owed
    <3>1. CASE Awaited(j)
      <4>1. minuteOf(nextTick + MaxLate) = minuteOf(nextTick)
        BY <1>1, <3>1 DEF TickerInv
      <4>2. minuteOf(now) <= minuteOf(now + 1) /\ minuteOf(now + 1) <= minuteOf(nextTick + MaxLate)
        <5>1. /\ now + 1 <= nextTick + MaxLate /\ now <= now + 1
              /\ now \in Int /\ nextTick + MaxLate \in Int /\ now + 1 \in Int
          BY <1>3, <2>1, <3>1
        <5> QED
          BY <5>1, MinutesOrder
      <4>3. minuteOf(now) \in Int /\ minuteOf(now + 1) \in Int
        BY <1>3, Minutes
      <4>4. minuteOf(now + 1) = FireAt(j.end)
        BY <3>1, <4>1, <4>2, <4>3
      <4> QED
        BY <1>2, <2>1, <2>2, <3>1, <4>4 DEF minuteOf
    <3>2. CASE Sent(j) \/ j \in Range(jobs)
      BY <1>2, <2>1, <2>2, <3>2 DEF minuteOf
    <3> QED
      BY <1>2, <2>2, <3>1, <3>2
  <2>3. CASE j \notin owed
    <3> DEFINE d == DayOf(now + 1)
    <3>1. /\ InFireMinute(now + 1) /\ ~InFireMinute(now) /\ up /\ channel = None
          /\ j \in Range(JobsOf(d))
      BY <1>4, <2>3 DEF Pass
    <3>2. d \in Int /\ minuteOf(now + 1) = FireAt(d) /\ minuteOf(nextTick) = FireAt(d)
      BY <1>1, <1>4, <3>1, TickIsDue
    <3> HIDE DEF d
    <3>3. j.end = d
      <4>1. Range(JobsOf(d)) \subseteq {i \in AnyJob : DueDay(i.period, i.end) /\ i.end = d}
        BY <3>2, JobsAreDue, RangeOfSeq
      <4> QED
        BY <3>1, <4>1
    <3> QED
      BY <2>1, <3>1, <3>2, <3>3 DEF minuteOf
  <2> QED
    BY <2>2, <2>3
<1>5. CASE Stop
  BY <1>5 DEF Stop
<1>6. CASE Start
  <2>1. ~up /\ owed' = owed
    BY <1>6 DEF Start, StartWithTick
  <2>2. Range(<< >>) = {}
    <3>1. DOMAIN << >> = {}
      OBVIOUS
    <3> QED
      BY <3>1 DEF Range
  <2> QED
    BY <1>2, <1>3, <2>1, <2>2
<1>7. CASE Tick
  <2>1. /\ channel' = IF channel = None THEN now ELSE channel
        /\ UNCHANGED <<now, jobs, owed>>
    BY <1>7 DEF Tick, TickThen
  <2>2. now # None
    BY <1>3, ReportsAssumption
  <2> QED
    BY <1>2, <2>1, <2>2 DEF minuteOf
<1>8. CASE Receive
  <2>1. channel # None /\ jobs = << >> /\ owed' = owed
    BY <1>8 DEF Receive
  <2>2. Range(jobs) = {}
    BY <1>8, ReceiveBegins
  <2>3. Sent(j) /\ j \in owed
    BY <1>2, <2>1, <2>2
  <2>4. DayOf(channel) = j.end /\ InFireMinute(channel)
    BY <1>3, <2>3, FireMinutes
  <2> QED
    BY <1>2, <1>8, <2>3, <2>4 DEF Receive
<1>9. ASSUME NEW ok \in BOOLEAN, Generate(ok)
      PROVE  j \in Range(JobsOf(j.end)) /\ (Awaited(j)' \/ Sent(j)' \/ j \in Range(jobs'))
  <2>1. j \in owed /\ j # Head(jobs) /\ jobs' = Tail(jobs) /\ UNCHANGED <<now, up, nextTick, channel>>
    BY <1>9 DEF Generate
  <2>2. j \in Range(jobs) => j \in Range(jobs')
    <3>1. jobs \in Seq(PastJob) /\ jobs # << >>
      BY <1>9 DEF ReportsInv, Generate
    <3>2. /\ Len(jobs) \in Nat \ {0} /\ Head(jobs) = jobs[1] /\ DOMAIN jobs = 1 .. Len(jobs)
          /\ Tail(jobs) \in Seq(PastJob) /\ Len(Tail(jobs)) = Len(jobs) - 1
          /\ \A i \in 1 .. Len(Tail(jobs)) : Tail(jobs)[i] = jobs[i + 1]
      BY <3>1, HeadTailProperties, EmptySeq, LenProperties
    <3>3. DOMAIN Tail(jobs) = 1 .. Len(jobs) - 1
      BY <3>2, LenProperties
    <3> SUFFICES ASSUME NEW i \in DOMAIN jobs, j = jobs[i]
                 PROVE  j \in Range(Tail(jobs))
      BY <2>1 DEF Range
    <3>4. i - 1 \in DOMAIN Tail(jobs) /\ Tail(jobs)[i - 1] = j
      BY <2>1, <3>2, <3>3
    <3> QED
      BY <3>4 DEF Range
  <2> QED
    BY <1>2, <2>1, <2>2 DEF minuteOf
<1>10. ASSUME NEW ok \in BOOLEAN, Insert(ok)
       PROVE  j \in Range(JobsOf(j.end)) /\ (Awaited(j)' \/ Sent(j)' \/ j \in Range(jobs'))
  BY <1>2, <1>10 DEF Insert, minuteOf
<1>11. CASE UNCHANGED vars \/ \E f \in Fill : Happen(f) \/ Record(f)
  BY <1>2, <1>11 DEF Happen, Record, vars, scheduler, minuteOf
<1> QED
  BY <1>4, <1>5, <1>6, <1>7, <1>8, <1>9, <1>10, <1>11 DEF Next
------------------------------------------------------------------------------
(* What the ticker promises *)

ScheduleInv == TickerInv /\ OnceInv /\ CoverInv /\ OwedInv

\* ScheduleInv holds of every run.
THEOREM ScheduleInvariance == Spec => []ScheduleInv
<1>1. Init => ScheduleInv
  <2> SUFFICES ASSUME Init PROVE ScheduleInv
    OBVIOUS
  <2>1. Range(<< >>) = {} /\ \A i \in DOMAIN << >> : FALSE
    <3>1. DOMAIN << >> = {}
      OBVIOUS
    <3> QED
      BY <3>1 DEF Range
  <2>2. /\ jobs = << >> /\ reports = << >> /\ report = None /\ up = FALSE /\ channel = None /\ owed = {}
    BY DEF Init
  <2>3. Made = {} /\ Begun = {}
    BY <2>1, <2>2 DEF Made, Begun
  <2>4. NoDuplicateReport
    BY <2>1, <2>2 DEF NoDuplicateReport, IsInjective
  <2> QED
    BY <2>1, <2>2, <2>3, <2>4 DEF ScheduleInv, TickerInv, OnceInv, CoverInv, OwedInv
<1>2. TypeOK /\ ReportsInv /\ ScheduleInv /\ [Next]_vars => ScheduleInv'
  BY TickerStep, OnceStep, CoverStep, OwedStep DEF ScheduleInv
<1> QED
  BY <1>1, <1>2, ReportsTypeCorrect, ReportsInvariance, PTL DEF Spec

\* No report is made twice of one bot, period and window, over any number of
\* restarts, unless a process ticks too close to the end of the minute.
THEOREM NoReportTwice == Spec => []NoDuplicateReport
<1>1. ScheduleInv => NoDuplicateReport
  BY DEF ScheduleInv, OnceInv, NoDuplicateReport
<1> QED
  BY <1>1, ScheduleInvariance, PTL

\* The exception is for late ticks alone: while every tick is sent on time, no
\* process is one, and NoDuplicateReport, LongPeriodsCoverDays and DueIsServed hold
\* of every minute and second that Schedule may be started in.
THEOREM PunctualIsNeverSkewed ==
    ASSUME MaxLate = 0
    PROVE  Spec => []~skewed
<1>1. Init => ~skewed
  BY DEF Init
<1>2. TypeOK /\ ~skewed /\ [Next]_vars => ~skewed'
  <2> SUFFICES ASSUME TypeOK, ~skewed, [Next]_vars PROVE ~skewed'
    OBVIOUS
  <2>1. CASE Start
    <3>1. skewed' = (skewed \/ now % Minute >= Minute)
      <4>1. Minute - MaxLate = Minute
        BY Bounds
      <4> QED
        BY <2>1, <4>1 DEF Start, StartWithTick
    <3>2. ~(now % Minute >= Minute)
      <4>1. now \in Nat /\ Minute \in Nat \ {0}
        BY Times
      <4> QED
        BY <4>1
    <3> QED
      BY <3>1, <3>2
  <2>2. CASE ~Start
    BY <2>2 DEF Next, Pass, Stop, Tick, TickThen, Receive, Generate, Insert, Happen, Record, vars
  <2> QED
    BY <2>1, <2>2
<1> QED
  BY <1>1, <1>2, ReportsTypeCorrect, PTL DEF Spec

\* A weekly or monthly report counts what the daily reports of its days count.
THEOREM LongReportsCover == Spec => []LongPeriodsCoverDays
<1>1. ScheduleInv => LongPeriodsCoverDays
  <2>1. Range(reports) \subseteq Made
    BY DEF Made
  <2> QED
    BY <2>1 DEF ScheduleInv, CoverInv, LongPeriodsCoverDays
<1> QED
  BY <1>1, ScheduleInvariance, PTL

\* Every report that comes due while the process runs and keeps up is attempted.
THEOREM DueReportsServed == Spec => []DueIsServed
<1>1. TypeOK /\ ScheduleInv => DueIsServed
  <2> SUFFICES ASSUME TypeOK, ScheduleInv, ~skewed, NEW j \in owed
               PROVE  \/ now < j.end * Day + (FireMinute + 1) * Minute
                      \/ channel # None /\ InFireMinute(channel) /\ DayOf(channel) = j.end
                      \/ j \in Range(jobs)
    BY DEF DueIsServed
  <2>1. now \in Nat /\ j.end \in Int /\ (channel # None => channel \in Nat)
    BY Times
  <2>2. \/ minuteOf(now) = FireAt(j.end)
        \/ channel # None /\ minuteOf(channel) = FireAt(j.end)
        \/ j \in Range(jobs)
    BY DEF ScheduleInv, OwedInv
  <2> QED
    BY <2>1, <2>2, FireMinutes
<1> QED
  BY <1>1, ScheduleInvariance, ReportsTypeCorrect, PTL
------------------------------------------------------------------------------
(* The Reports collection is a ledger. *)

\* The reports still to be made are all of one day, and none that is made is of
\* a later one.
LaterInv ==
    /\ \A i, j \in Range(jobs) : i.end = j.end
    /\ ~skewed => \A j \in Range(jobs), r \in Made : r.job.end <= j.end

\* Every step keeps LaterInv.
LEMMA LaterStep ==
    TypeOK /\ ReportsInv /\ TickerInv /\ LaterInv /\ [Next]_vars => LaterInv'
<1> SUFFICES ASSUME TypeOK, ReportsInv, TickerInv, LaterInv, [Next]_vars PROVE LaterInv'
  OBVIOUS
<1>1. ~skewed' => ~skewed
  BY DEF Next, Pass, Stop, Start, StartWithTick, Tick, TickThen, Receive, Generate, Insert,
         Happen, Record, vars
<1>2. CASE Receive
  <2>1. ASSUME NEW i \in Range(jobs'), NEW j \in Range(jobs')
        PROVE  i.end = j.end
    BY <1>2, ReceiveBegins
  <2>2. ASSUME NEW j \in Range(jobs'), NEW r \in Made', ~skewed
        PROVE  r.job.end <= j.end
    <3>1. r \in Made /\ j.end \in Int
      BY <1>2, <2>2, ReceiveBegins
    <3>2. r.job \in Begun /\ r.job.end \in Int
      BY <3>1, BegunType DEF Begun
    <3>3. r.job.end < j.end
      BY <1>2, <2>2, <3>1, ReceiveIsLater
    <3> QED
      BY <3>1, <3>2, <3>3
  <2> QED
    BY <1>1, <2>1, <2>2 DEF LaterInv
<1>3. ASSUME NEW ok \in BOOLEAN, Generate(ok)
      PROVE  LaterInv'
  <2>1. /\ Head(jobs) \in Range(jobs) /\ Range(jobs') \subseteq Range(jobs)
        /\ \A r \in Made' : r \in Made \/ r.job = Head(jobs)
    BY <1>3, GenerateBegins
  <2>2. \A j \in Range(jobs) : j.end \in Int
    BY BegunType DEF Begun
  <2> QED
    BY <1>1, <2>1, <2>2 DEF LaterInv
<1>4. CASE ~Receive /\ ~(\E ok \in BOOLEAN : Generate(ok))
  BY <1>1, <1>4, NothingBegins DEF LaterInv
<1> QED
  BY <1>2, <1>3, <1>4

\* Of a day's reports there are none in the ledger when the first is drawn up,
\* and none of a later day.
LEMMA DrawUpRefines ==
    ASSUME ReportsInv, OnceInv, LaterInv, Generate(TRUE)
    PROVE  Ledger!Next
<1> DEFINE j == Head(jobs)
<1>1. j \in PastJob /\ j \in Range(jobs)
  <2>1. jobs \in Seq(PastJob) /\ jobs # << >>
    BY DEF ReportsInv, Generate
  <2> QED
    BY <2>1, GenerateBegins, HeadTailProperties
<1>2. j \in DueJob /\ j.end <= DayOf(now)
  BY <1>1 DEF PastJob
<1>3. report' = [job   |-> j,
                 fills |-> {f \in Fill : /\ botOf[f] = j.bot
                                         /\ recorded[f] # None
                                         /\ filled[f] \in Window(j)}]
  BY DEF Generate, Window
<1>4. skewed \/ \A r \in Range(reports) : r.job # j /\ r.job.end <= j.end
  BY <1>1 DEF OnceInv, LaterInv, Made
<1>5. report = None /\ UNCHANGED <<now, reports, filled, recorded, skewed>>
  BY DEF Generate, fills
<1> HIDE DEF j
<1>6. Ledger!DrawUp(j)
  BY <1>2, <1>3, <1>4, <1>5 DEF Ledger!DrawUp, DayOf, Ledger!Range, Range
<1> QED
  BY <1>2, <1>6 DEF Ledger!Next

\* Every step is one of the ledger, or leaves it alone.
LEMMA LedgerStep ==
    TypeOK /\ ReportsInv /\ OnceInv /\ LaterInv /\ [Next]_vars => [Ledger!Next]_(Ledger!vars)
<1> SUFFICES ASSUME TypeOK, ReportsInv, OnceInv, LaterInv, [Next]_vars
             PROVE  [Ledger!Next]_(Ledger!vars)
  OBVIOUS
<1>1. CASE Pass
  <2>1. now \in Nat /\ now' \in Nat /\ now <= now' /\ now' <= MaxTime /\ MinTime <= now'
        /\ MinTime \in Nat /\ MaxTime \in Nat
    <3>1. now \in MinTime .. MaxTime /\ now' \in MinTime .. MaxTime /\ now <= now'
      BY ClockStep DEF ReportsInv
    <3> QED
      BY <3>1, Bounds
  <2>2. DayOf(now') \in Days /\ DayOf(now) <= DayOf(now') /\ DayOf(now) \in Int /\ DayOf(now') \in Int
    <3>1. DayOf(MinTime) <= DayOf(now') /\ DayOf(now') <= DayOf(MaxTime)
          /\ DayOf(MinTime) \in Int /\ DayOf(MaxTime) \in Int /\ DayOf(now') \in Int
      BY <2>1, DayOfMonotone
    <3> QED
      BY <2>1, <3>1, DayOfMonotone DEF Days
  <2>3. UNCHANGED <<report, reports, filled, recorded, skewed>> /\ DayOf(now)' = DayOf(now')
    BY <1>1 DEF Pass, fills, DayOf
  <2>4. DayOf(now)' = DayOf(now) \/ (DayOf(now)' > DayOf(now) /\ DayOf(now)' \in Days)
    BY <2>2, <2>3
  <2> QED
    BY <2>3, <2>4 DEF Ledger!Next, Ledger!Dawn, Ledger!vars
<1>2. CASE Stop
  <2>1. report' = None /\ UNCHANGED <<now, reports, filled, recorded, skewed>>
    BY <1>2 DEF Stop, fills
  <2> QED
    BY <2>1 DEF Ledger!Next, Ledger!Drop, Ledger!vars, DayOf
<1>3. CASE Start
  <2>1. /\ UNCHANGED <<now, report, reports, filled, recorded>>
        /\ skewed' = skewed \/ skewed' = TRUE
    BY <1>3 DEF Start, StartWithTick, fills, TypeOK
  <2> QED
    BY <2>1 DEF Ledger!Next, Ledger!Exempt, Ledger!vars, DayOf
<1>4. CASE Tick \/ Receive \/ Generate(FALSE) \/ UNCHANGED vars
  <2>1. UNCHANGED <<now, report, reports, filled, recorded, skewed>>
    BY <1>4 DEF Tick, TickThen, Receive, Generate, vars, scheduler, fills
  <2> QED
    BY <2>1 DEF Ledger!vars, DayOf
<1>5. CASE Generate(TRUE)
  BY <1>5, DrawUpRefines
<1>6. ASSUME NEW ok \in BOOLEAN, Insert(ok)
      PROVE  Ledger!Next
  <2>1. /\ report # None /\ report' = None /\ UNCHANGED <<now, filled, recorded, skewed>>
        /\ reports' = reports \/ reports' = Append(reports, report)
    BY <1>6 DEF Insert, fills
  <2> QED
    BY <2>1 DEF Ledger!Next, Ledger!Enter, Ledger!Drop, DayOf
<1>7. ASSUME NEW f \in Fill, Happen(f) \/ Record(f)
      PROVE  Ledger!Next
  <2>1. Ledger!Happen(f) \/ Ledger!Record(f)
    BY <1>7 DEF Happen, Record, scheduler, Ledger!Happen, Ledger!Record, DayOf
  <2> QED
    BY <2>1 DEF Ledger!Next
<1> QED
  BY <1>1, <1>2, <1>3, <1>4, <1>5, <1>6, <1>7 DEF Next

\* However its process is stopped and started, and however late its ticks are,
\* the scheduler implements ReportLedger.
THEOREM LedgerRefinement == Spec => ImplementsLedger
<1>1. Init => LaterInv /\ Ledger!Init
  <2> SUFFICES ASSUME Init PROVE LaterInv /\ Ledger!Init
    OBVIOUS
  <2>1. Range(jobs) = {}
    <3>1. DOMAIN << >> = {}
      OBVIOUS
    <3> QED
      BY <3>1 DEF Init, Range
  <2>2. DayOf(now) \in Days
    <3>1. MinTime \in Nat /\ MaxTime \in Nat /\ MinTime <= MaxTime
      BY ReportsAssumption
    <3>2. DayOf(MinTime) \in Int /\ DayOf(MaxTime) \in Int /\ DayOf(MinTime) <= DayOf(MaxTime)
      BY <3>1, DayOfMonotone
    <3> QED
      BY <3>2 DEF Init, Days
  <2> QED
    BY <2>1, <2>2 DEF Init, LaterInv, Ledger!Init
<1>2. ScheduleInv => TickerInv /\ OnceInv
  BY DEF ScheduleInv
<1> QED
  BY <1>1, <1>2, LaterStep, LedgerStep, ReportsTypeCorrect, ReportsInvariance,
     ScheduleInvariance, PTL
     DEF Spec, ImplementsLedger, Ledger!Spec
==============================================================================
