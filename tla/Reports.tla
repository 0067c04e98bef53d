------------------------------- MODULE Reports -------------------------------
(***************************************************************************)
(* The report scheduler (internal/report/reporter.go): a goroutine that    *)
(* looks at the wall clock once a minute, and in the minute 00:05 makes a  *)
(* daily report of every bot, a weekly one on Mondays and a monthly one on *)
(* the first.  The ticker's channel holds one tick: those that come while  *)
(* the goroutine works and the channel is full are dropped.  A tick may    *)
(* come late, a call to MongoDB may fail, and the process may end and be   *)
(* started again at any point; it remembers nothing.  Fills are recorded   *)
(* some time after they happen.                                            *)
(*                                                                         *)
(* Time is a number of instants.  The calendar is a parameter: a minute    *)
(* has several instants, a day several minutes, a week several days, and   *)
(* months begin on given days.                                             *)
(***************************************************************************)
EXTENDS Integers, FiniteSetsExt, SequencesExt

CONSTANTS Bot,         \* a sequence: botIDs, in the order Schedule is given
          Fill,        \* fills that may happen
          botOf,       \* botOf[f]: the bot whose order is filled in f
          Minute,      \* instants in a minute, the period of the ticker
          Day,         \* instants in a day
          FireMinute,  \* the minute of the day in which reports are made (5)
          Week,        \* days in a week
          Mondays, Firsts, \* the days that are Mondays, and firsts of a month
          MaxLate,     \* instants a tick may come late (a bound)
          MinTime, MaxTime, \* when the clock starts and stops (bounds)
          MaxFaults,   \* calls to MongoDB that fail, at most (a bound)
          MaxStarts,   \* times the process is started, at most (a bound)
          None         \* no time, day or report

ASSUME ReportsAssumption ==
    /\ Bot \in Seq(Range(Bot)) /\ IsInjective(Bot)
    /\ botOf \in [Fill -> Range(Bot)]
    /\ {Minute, Day, FireMinute, Week} \subseteq Nat \ {0}
    /\ Day % Minute = 0 /\ (FireMinute + 1) * Minute <= Day
    /\ None \notin Nat
    /\ Mondays \subseteq Int /\ Firsts \subseteq Int
    /\ MaxLate \in 0 .. Minute - 1
    /\ {MinTime, MaxTime, MaxFaults, MaxStarts} \subseteq Nat /\ MinTime <= MaxTime

VARIABLES now,      \* the wall clock
          up,       \* the process runs
          nextTick, \* when the ticker's next tick is due
          channel,  \* the tick in the ticker's channel: when it was sent
          jobs,     \* reports of this tick still to be made, in order
          report,   \* the report that is made and not inserted yet
          reports,  \* the Reports collection, in the order of insertion
          filled,   \* filled[f]: the day f happened on (its Timestamp)
          recorded, \* recorded[f]: the day f was inserted into TradeHistory
          owed,     \* history: jobs that came due with the process ready
          skewed,   \* history: a process began within MaxLate of a minute's end
          faults, starts

scheduler == <<up, nextTick, channel, jobs, report>>
fills     == <<filled, recorded>>
bounds    == <<faults, starts>>
vars      == <<now, scheduler, reports, fills, owed, skewed, bounds>>

Period == {"daily", "weekly", "monthly"}
DayOf(t) == t \div Day
Days     == DayOf(MinTime) .. DayOf(MaxTime)

\* Mondays are a week apart, without an end to the past, and there is a first
\* of a month before every other.
ASSUME CalendarAssumption ==
    /\ \A d, e \in Mondays : d < e => d + Week <= e
    /\ \A d \in Mondays \cap Days : d - Week \in Mondays
    /\ \A d \in Firsts \cap Days :
          \E m \in Firsts : m < d /\ \A n \in Firsts : n < d => n <= m

\* A report to make: end is the day whose midnight ends its window.
Job == [bot : Range(Bot), period : Period, end : Days]

\* A report: the job, and the fills it counts.
Report == [job : Job, fills : SUBSET Fill]

TypeOK ==
    /\ now \in MinTime .. MaxTime
    /\ up \in BOOLEAN
    /\ nextTick \in now - MaxLate .. now + Minute
    /\ channel \in MinTime .. now \cup {None}
    /\ IsInjective(jobs) /\ Range(jobs) \subseteq Job
    /\ report \in Report \cup {None}
    /\ report # None => report.job \notin Range(jobs)
    /\ ~up => channel = None /\ jobs = << >> /\ report = None
    /\ Range(reports) \subseteq Report
    /\ filled \in [Fill -> Days \cup {None}]
    /\ recorded \in [Fill -> Days \cup {None}]
    /\ owed \subseteq Job
    /\ skewed \in BOOLEAN
    /\ faults \in 0 .. MaxFaults
    /\ starts \in 0 .. MaxStarts

Init ==
    /\ now = MinTime
    /\ up = FALSE
    /\ nextTick = now
    /\ channel = None
    /\ jobs = << >>
    /\ report = None
    /\ reports = << >>
    /\ filled = [f \in Fill |-> None]
    /\ recorded = [f \in Fill |-> None]
    /\ owed = {}
    /\ skewed = FALSE
    /\ faults = 0
    /\ starts = 0
------------------------------------------------------------------------------
\* The definitions named Wrong... are no part of the specification: each is the
\* definition after it with one slip, kept to see that a property notices.

(* The calendar *)

InFireMinute(t) == (t % Day) \div Minute = FireMinute

\* (A month is always three days long, and a week one day short.)
WrongWindowStart(period, d) ==
    CASE period = "daily"   -> d - 1
      [] period = "weekly"  -> d - Week + 1
      [] period = "monthly" -> d - 3

\* The day the window of a report that ends with day d begins on.  (A month
\* before the first of a month is the first of the month before.)
windowStart(period, d) ==
    CASE period = "daily"   -> d - 1
      [] period = "weekly"  -> d - Week
      [] period = "monthly" -> Max({m \in Firsts : m < d})

\* The reports of one period that end with day d, one of each bot.
runAll(period, d) == [i \in DOMAIN Bot |-> [bot |-> Bot[i], period |-> period, end |-> d]]

\* (The long periods first, and one of them only.)
WrongJobsOf(d) ==
    (CASE d \in Mondays -> runAll("weekly", d)
       [] d \in Firsts \ Mondays -> runAll("monthly", d)
       [] OTHER -> << >>)
    \o runAll("daily", d)

\* The reports a tick in the fire minute of day d asks for: three conditions of
\* their own, each with a loop over the bots.
JobsOf(d) ==
    runAll("daily", d)
    \o (IF d \in Mondays THEN runAll("weekly", d) ELSE << >>)
    \o (IF d \in Firsts THEN runAll("monthly", d) ELSE << >>)
------------------------------------------------------------------------------
(* The world *)

\* Time passes, but not by a tick that is as late as it may be.  When the fire
\* minute begins, the day's reports are owed if the process runs and its
\* channel can take a tick.
Pass ==
    /\ now < MaxTime
    /\ up => now < nextTick + MaxLate
    /\ now' = now + 1
    /\ nextTick' = IF up THEN nextTick ELSE now'
    /\ owed' = IF /\ InFireMinute(now') /\ ~InFireMinute(now)
                  /\ up /\ channel = None
               THEN owed \cup Range(JobsOf(DayOf(now')))
               ELSE owed
    /\ UNCHANGED <<up, channel, jobs, report, reports, fills, skewed, bounds>>

\* An order is filled, and the bot records the fill, maybe much later.
Happen(f) ==
    /\ filled[f] = None
    /\ filled' = [filled EXCEPT ![f] = DayOf(now)]
    /\ UNCHANGED <<now, scheduler, reports, recorded, owed, skewed, bounds>>

Record(f) ==
    /\ filled[f] # None
    /\ recorded[f] = None
    /\ recorded' = [recorded EXCEPT ![f] = DayOf(now)]
    /\ UNCHANGED <<now, scheduler, reports, filled, owed, skewed, bounds>>

\* The process ends, because its context was cancelled or because it died.
Stop ==
    /\ up
    /\ up' = FALSE
    /\ nextTick' = now
    /\ channel' = None
    /\ jobs' = << >>
    /\ report' = None
    /\ owed' = {}
    /\ UNCHANGED <<now, reports, fills, skewed, bounds>>
------------------------------------------------------------------------------
(* Schedule *)

\* Schedule is called, and its ticker is to tick first at the given time.
StartWithTick(first) ==
    /\ ~up
    /\ starts < MaxStarts
    /\ up' = TRUE
    /\ nextTick' = first
    /\ skewed' = (skewed \/ now % Minute >= Minute - MaxLate)
    /\ starts' = starts + 1
    /\ UNCHANGED <<now, channel, jobs, report, reports, fills, owed, faults>>

\* (The ticker ticks at once; it waits for two minutes.)
WrongStart == StartWithTick(now)
WrongStartLate == StartWithTick(now + 2 * Minute)

\* The first tick comes a minute after the start.
Start == StartWithTick(now + Minute)

\* The ticker sends a tick, unless its channel is full, and sets the next.
TickThen(next) ==
    /\ up
    /\ now >= nextTick
    /\ channel' = IF channel = None THEN now ELSE channel
    /\ nextTick' = next
    /\ UNCHANGED <<now, up, jobs, report, reports, fills, owed, skewed, bounds>>

\* (The next tick is due a minute after this one.)
WrongTick == TickThen(now + Minute)

\* The next tick is due a minute after this one was, late as it may be.
Tick == TickThen(nextTick + Minute)

\* The goroutine is done with the tick before, and goes by the time this one
\* was sent.
Receive ==
    /\ up
    /\ jobs = << >> /\ report = None
    /\ channel # None
    /\ jobs' = IF InFireMinute(channel) THEN JobsOf(DayOf(channel)) ELSE << >>
    /\ channel' = None
    /\ UNCHANGED <<now, up, nextTick, report, reports, fills, owed, skewed, bounds>>

\* Generate counts the fills of the bot that are recorded and happened in the
\* window.  If it fails, there is no report.
Generate(ok) ==
    LET j == Head(jobs)
        window == windowStart(j.period, j.end) .. j.end - 1
    IN
    /\ jobs # << >> /\ report = None
    /\ report' = IF ok THEN [job |-> j,
                             fills |-> {f \in Fill : /\ botOf[f] = j.bot
                                                     /\ recorded[f] # None
                                                     /\ filled[f] \in window}]
                       ELSE None
    /\ faults' = IF ok THEN faults ELSE faults + 1
    /\ faults' <= MaxFaults
    /\ jobs' = Tail(jobs)
    /\ owed' = owed \ {j}
    /\ UNCHANGED <<now, up, nextTick, channel, reports, fills, skewed, starts>>

\* InsertOne stores the report or does not; its error is ignored.
Insert(ok) ==
    /\ report # None
    /\ reports' = IF ok THEN Append(reports, report) ELSE reports
    /\ faults' = IF ok THEN faults ELSE faults + 1
    /\ faults' <= MaxFaults
    /\ report' = None
    /\ UNCHANGED <<now, up, nextTick, channel, jobs, fills, owed, skewed, starts>>
------------------------------------------------------------------------------
Next == \/ Pass \/ Stop \/ Start \/ Tick \/ Receive
        \/ \E ok \in BOOLEAN : Generate(ok) \/ Insert(ok)
        \/ \E f \in Fill : Happen(f) \/ Record(f)

Spec == Init /\ [][Next]_vars
------------------------------------------------------------------------------
(* Properties *)

\* No report is made twice of the same bot, period and window, whatever the
\* process goes through: ticks are a whole minute apart and the first comes a
\* minute after the start.  A process whose ticks fall so close to the end of
\* a minute that a late one is in the next minute is the exception.  This is what
\* ImplementsLedger, below, says of the entries.
NoDuplicateReport ==
    ~skewed => IsInjective([i \in DOMAIN reports |-> reports[i].job])

\* The windows of a period do not overlap: no fill is counted in two reports
\* of one period, however long the months are.
CountedOnce ==
    \A r, s \in Range(reports) :
        r.job.period = s.job.period /\ r.fills \cap s.fills # {} => r.job = s.job

\* Nor do they leave a gap: a fill recorded in time is in the report of each
\* period that is the first to come due after it.
NothingFallsBetween ==
    \A r \in Range(reports), f \in Fill :
        /\ botOf[f] = r.job.bot
        /\ recorded[f] # None
        /\ filled[f] < r.job.end /\ recorded[f] < r.job.end
        /\ \A d \in filled[f] + 1 .. r.job.end - 1 :
              [r.job EXCEPT !.end = d] \notin Range(JobsOf(d))
        => f \in r.fills

\* A weekly or a monthly report counts every fill that the daily reports of
\* its days count, though fills are recorded while the reports are made: the
\* daily report comes first.
LongPeriodsCoverDays ==
    ~skewed =>
        \A r, s \in Range(reports) :
            /\ r.job.period = "daily" /\ s.job.period # "daily"
            /\ r.job.bot = s.job.bot
            /\ r.job.end \in windowStart(s.job.period, s.job.end) + 1 .. s.job.end
            => r.fills \subseteq s.fills

\* Every report that comes due while the process runs and keeps up is
\* attempted: by the end of the fire minute a tick of that minute has been
\* sent, and it is served.
DueIsServed ==
    ~skewed =>
        \A j \in owed :
            \/ now < j.end * Day + (FireMinute + 1) * Minute
            \/ channel # None /\ InFireMinute(channel) /\ DayOf(channel) = j.end
            \/ j \in Range(jobs)

\* The jobs that may come due: a weekly report ends with a Monday, a monthly
\* one with a first.
DueDay(period, d) == /\ period = "weekly"  => d \in Mondays
                     /\ period = "monthly" => d \in Firsts
DueJob == {j \in Job : DueDay(j.period, j.end)}

\* The days of a report's window.
Window(j) == windowStart(j.period, j.end) .. j.end - 1

\* The Reports collection is a ledger: however the process is stopped and
\* started, and late as its ticks and the fills may be, it grows by reports of
\* windows that have closed, no one twice, day after day.
Ledger == INSTANCE ReportLedger WITH
              Due    <- DueJob,
              today  <- DayOf(now),
              draft  <- report,
              ledger <- reports,
              exempt <- skewed

ImplementsLedger == Ledger!Spec
==============================================================================
