---------------------------- MODULE RiskWatchdog -----------------------------
(***************************************************************************)
(* The risk watchdog (cmd/watchdog/main.go): a process of its own that     *)
(* shares nothing with the bots but MongoDB.  Every cycle it walks the     *)
(* session documents that are not STOPPED with a cursor, reads the bot's   *)
(* limit from its config document, and writes the risk state the two give  *)
(* if the session does not have it already.  The documents come from the   *)
(* cursor in batches and go stale while the batch is worked off; the bots  *)
(* and the API go on writing theirs; each call may fail; the process may   *)
(* be killed and started again at any point.                               *)
(*                                                                         *)
(* Percentages are whole numbers of percent here.  The code divides the    *)
(* limit by two; the model compares with twice the drawdown instead.       *)
(***************************************************************************)
EXTENDS Naturals, FiniteSets

CONSTANTS Bot,         \* bots with a session and a config document
          Drawdown,    \* the drawdowns that occur
          Limit,       \* the limits that occur, 0 for none
          NoJob,       \* no bot in hand
          Batch,       \* documents a batch of the cursor holds (101 in MongoDB)
          MaxChanges,  \* changes the bots and the API make at most (a bound)
          MaxFaults    \* calls that fail and restarts, at most (a bound)

ASSUME WatchdogAssumption ==
    /\ IsFiniteSet(Bot)
    /\ Drawdown \subseteq Nat /\ Limit \subseteq Nat
    /\ Batch \in Nat \ {0}
    /\ MaxChanges \in Nat /\ MaxFaults \in Nat

\* The definitions named Wrong... are no part of the specification: each is the
\* definition after it with one slip, kept to see that a property notices.

VARIABLES session,   \* session[b]: the session document of b
          limit,     \* limit[b]: max_drawdown_pct_24h in b's config document
          pc,        \* "idle", "loop", "config" or "write"
          rest,      \* bots the cursor has not come to yet
          batch,     \* batch[b]: documents fetched and not decoded yet
          job,       \* the bot in hand, its document as read, and the verdict
          seen,      \* history: seen[b]: the values b's documents had since Find
          failed,    \* history: bots the cycle did not see through
          changes, faults

documents == <<session, limit, seen, changes>>
watchdog  == <<pc, rest, batch, job, failed>>
vars == <<documents, watchdog, faults>>

Risk == {"RUNNING", "SLOW", "PAUSED"}

\* The fields that matter here; a new session has no risk state yet.
Session == [stopped : BOOLEAN, drawdown : Drawdown, risk : Risk \cup {"unset"}]

\* What the verdict on a bot depends on.
Value == [stopped : BOOLEAN, drawdown : Drawdown, limit : Limit]

\* The bot in hand; the risk is "unset" until the verdict is known.
Job == [bot : Bot, doc : Session, risk : Risk \cup {"unset"}]
NoDocs == [b \in {} |-> NoJob]

TypeOK ==
    /\ session \in [Bot -> Session]
    /\ limit \in [Bot -> Limit]
    /\ pc \in {"idle", "loop", "config", "write"}
    /\ rest \subseteq Bot
    /\ DOMAIN batch \subseteq Bot \ rest
    /\ batch \in [DOMAIN batch -> Session]
    /\ Cardinality(DOMAIN batch) <= Batch
    /\ pc = "idle" => rest = {} /\ batch = NoDocs
    /\ IF pc \in {"config", "write"} THEN job \in Job ELSE job = NoJob
    /\ seen \in [Bot -> SUBSET Value]
    /\ failed \subseteq Bot
    /\ changes \in 0 .. MaxChanges
    /\ faults \in 0 .. MaxFaults
------------------------------------------------------------------------------
\* The thresholds: 5 percent where the config has none, and half the limit for
\* SLOW, but 3 percent at least.
pauseThreshold == 5
slowThreshold  == 3

PauseLimit(l) == IF l = 0 THEN pauseThreshold ELSE l
TwiceSlowLimit(l) ==
    IF PauseLimit(l) < 2 * slowThreshold THEN 2 * slowThreshold ELSE PauseLimit(l)

\* computeRiskState.
computeRiskState(drawdown, l) ==
    CASE drawdown >= PauseLimit(l) -> "PAUSED"
      [] drawdown < PauseLimit(l) /\ 2 * drawdown >= TwiceSlowLimit(l) -> "SLOW"
      [] OTHER -> "RUNNING"

ValueOf(b) == [stopped  |-> session[b].stopped,
               drawdown |-> session[b].drawdown,
               limit    |-> limit[b]]

\* The bots have opened their sessions when the watchdog comes up.
Init ==
    /\ session \in [Bot -> {d \in Session : d.risk = "unset" /\ ~d.stopped}]
    /\ limit \in [Bot -> Limit]
    /\ pc = "idle"
    /\ rest = {}
    /\ batch = NoDocs
    /\ job = NoJob
    /\ seen = [b \in Bot |-> {ValueOf(b)}]
    /\ failed = Bot
    /\ changes = 0
    /\ faults = 0
------------------------------------------------------------------------------
(* The other writers of the documents: the bot goroutine and the API *)

Change(b) ==
    /\ changes < MaxChanges
    /\ changes' = changes + 1
    /\ seen' = [seen EXCEPT ![b] = @ \cup {ValueOf(b)'}]
    /\ UNCHANGED <<watchdog, faults>>

\* The bot goroutine reports a drawdown; a session that was stopped is running
\* again.
Report(b, d) ==
    /\ session' = [session EXCEPT ![b].drawdown = d, ![b].stopped = FALSE]
    /\ UNCHANGED limit
    /\ Change(b)

\* DeleteBot marks the session as stopped.
MarkStopped(b) ==
    /\ ~session[b].stopped
    /\ session' = [session EXCEPT ![b].stopped = TRUE]
    /\ UNCHANGED limit
    /\ Change(b)

\* UpdateConfig gives the bot another limit.
SetLimit(b, l) ==
    /\ limit' = [limit EXCEPT ![b] = l]
    /\ UNCHANGED session
    /\ Change(b)
------------------------------------------------------------------------------
(* The cycle *)

\* A call of the watchdog fails.
Fault ==
    /\ faults < MaxFaults
    /\ faults' = faults + 1

\* The ticker fires, and runCycle opens its cursor.
Find ==
    /\ pc = "idle"
    /\ pc' = "loop"
    /\ rest' = Bot
    /\ failed' = {}
    /\ seen' = [b \in Bot |-> {ValueOf(b)}]
    /\ UNCHANGED <<session, limit, changes, batch, job, faults>>

\* The cursor fetches the next documents: those in S, but for the stopped ones.
Fetch(S) ==
    /\ pc = "loop"
    /\ batch = NoDocs
    /\ S # {} /\ S \subseteq rest /\ Cardinality(S) <= Batch
    /\ rest' = rest \ S
    /\ batch' = [b \in {c \in S : ~session[c].stopped} |-> session[b]]
    /\ UNCHANGED <<documents, pc, job, failed, faults>>

Others(b) == [c \in DOMAIN batch \ {b} |-> batch[c]]

\* The next document is decoded ...
Decode(b) ==
    /\ pc = "loop"
    /\ b \in DOMAIN batch
    /\ batch' = Others(b)
    /\ job' = [bot |-> b, doc |-> batch[b], risk |-> "unset"]
    /\ pc' = "config"
    /\ UNCHANGED <<documents, rest, failed, faults>>

\* ... or cannot be, and the loop goes on with the one after it.
DecodeFails(b) ==
    /\ Fault
    /\ pc = "loop"
    /\ b \in DOMAIN batch
    /\ batch' = Others(b)
    /\ failed' = failed \cup {b}
    /\ UNCHANGED <<documents, pc, rest, job>>

\* (The variables of the body are declared outside of the loop.)
WrongContinue == pc' = "loop" /\ UNCHANGED job

\* The body of the loop ends, and the watchdog turns to the next document.
Continue == pc' = "loop" /\ job' = NoJob

\* (The config is decoded into a variable that outlives the loop's body, and a
\* document without a limit leaves another bot's in it.)
WrongReadConfigReused ==
    /\ pc = "config"
    /\ \E c \in Bot :
          LET risk == computeRiskState(job.doc.drawdown,
                          IF limit[job.bot] = 0 THEN limit[c] ELSE limit[job.bot])
          IN  \/ /\ risk = job.doc.risk
                 /\ Continue
              \/ /\ risk # job.doc.risk
                 /\ job' = [job EXCEPT !.risk = risk]
                 /\ pc' = "write"
    /\ UNCHANGED <<documents, rest, batch, failed, faults>>

\* (A risk state is only ever made worse.)
WrongReadConfig ==
    /\ pc = "config"
    /\ LET risk == computeRiskState(job.doc.drawdown, limit[job.bot])
       IN  \/ /\ risk = job.doc.risk \/ job.doc.risk = "PAUSED"
              /\ Continue
           \/ /\ risk # job.doc.risk /\ job.doc.risk # "PAUSED"
              /\ job' = [job EXCEPT !.risk = risk]
              /\ pc' = "write"
    /\ UNCHANGED <<documents, rest, batch, failed, faults>>

\* The config is read and the verdict found; if the document, as it was read,
\* has it already, nothing is written.
ReadConfig ==
    /\ pc = "config"
    /\ LET risk == computeRiskState(job.doc.drawdown, limit[job.bot])
       IN  \/ /\ risk = job.doc.risk
              /\ Continue
           \/ /\ risk # job.doc.risk
              /\ job' = [job EXCEPT !.risk = risk]
              /\ pc' = "write"
    /\ UNCHANGED <<documents, rest, batch, failed, faults>>

\* (The error ends the cycle, as one of Find does.)
WrongReadConfigFails ==
    /\ Fault
    /\ pc = "config"
    /\ failed' = failed \cup {job.bot}
    /\ pc' = "idle" /\ job' = NoJob
    /\ rest' = {} /\ batch' = NoDocs
    /\ UNCHANGED documents

\* (The error is not looked at, and an empty config has no limit.)
WrongReadConfigEmpty ==
    /\ Fault
    /\ pc = "config"
    /\ failed' = failed \cup {job.bot}
    /\ LET risk == computeRiskState(job.doc.drawdown, 0)
       IN  \/ risk = job.doc.risk /\ Continue
           \/ risk # job.doc.risk /\ job' = [job EXCEPT !.risk = risk] /\ pc' = "write"
    /\ UNCHANGED <<documents, rest, batch>>

\* FindOne fails: this bot is left out.
ReadConfigFails ==
    /\ Fault
    /\ pc = "config"
    /\ failed' = failed \cup {job.bot}
    /\ Continue
    /\ UNCHANGED <<documents, rest, batch>>

\* The verdict is written to the document of that bot, whatever it holds by now.
Write ==
    /\ pc = "write"
    /\ session' = [session EXCEPT ![job.bot].risk = job.risk]
    /\ Continue
    /\ UNCHANGED <<limit, seen, changes, rest, batch, failed, faults>>

\* UpdateOne fails, before the document has changed or after.
WriteFails ==
    /\ Fault
    /\ pc = "write"
    /\ session' \in {session, [session EXCEPT ![job.bot].risk = job.risk]}
    /\ failed' = failed \cup {job.bot}
    /\ Continue
    /\ UNCHANGED <<limit, seen, changes, rest, batch>>

\* cursor.Next says that there are no more documents.
EndCycle ==
    /\ pc = "loop"
    /\ rest = {} /\ batch = NoDocs
    /\ pc' = "idle"
    /\ UNCHANGED <<documents, rest, batch, job, failed, faults>>

\* Find or the cursor fails, which ends the cycle where it is, or the process
\* is killed and started again.
Abort ==
    /\ Fault
    /\ pc' = "idle"
    /\ rest' = {}
    /\ batch' = NoDocs
    /\ job' = NoJob
    /\ failed' = Bot
    /\ UNCHANGED documents
------------------------------------------------------------------------------
Cycle == \/ Find
         \/ \E S \in SUBSET Bot : Fetch(S)
         \/ \E b \in Bot : Decode(b)
         \/ ReadConfig \/ Write \/ EndCycle

Next == \/ Cycle
        \/ \E b \in Bot : DecodeFails(b)
        \/ ReadConfigFails \/ WriteFails \/ Abort
        \/ \E b \in Bot, d \in Drawdown : Report(b, d)
        \/ \E b \in Bot, l \in Limit : SetLimit(b, l)
        \/ \E b \in Bot : MarkStopped(b)

Spec == Init /\ [][Next]_vars

\* The ticker goes on firing, and no call takes forever.
FairSpec == Spec /\ WF_vars(Cycle)
------------------------------------------------------------------------------
(* Properties *)

\* A verdict is no more than one cycle stale: the risk state about to be written
\* is the one for a drawdown and a limit the bot's documents had, one and then
\* the other, since this cycle's Find.
VerdictIsOfThisCycle ==
    pc = "write" =>
        \E v, w \in seen[job.bot] :
            /\ ~v.stopped
            /\ v.drawdown = job.doc.drawdown
            /\ job.risk = computeRiskState(v.drawdown, w.limit)

\* The risk state b's documents call for.
Due(b) == computeRiskState(session[b].drawdown, limit[b])

\* One bot's trouble is its own: once a cycle is over, every session that was
\* not stopped and has not changed since its Find has the risk state due, but
\* for the bots whose own calls failed.
CycleSettles ==
    pc = "idle" =>
        \A b \in Bot \ failed :
            seen[b] = {ValueOf(b)} /\ ~session[b].stopped => session[b].risk = Due(b)

\* A right risk state stays: whatever of an older document the watchdog still
\* has in hand, and whatever call fails or is cut short, a bot whose documents
\* have not changed since Find is not taken from the risk state due to another.
RightVerdictStays ==
    [][\A b \in Bot :
          /\ seen[b] = {ValueOf(b)} /\ ValueOf(b)' = ValueOf(b)
          /\ session[b].risk = Due(b)
          => session'[b].risk = Due(b)]_vars

\* Once the documents and the faults have come to rest, every running session
\* gets the risk state due, up or down, and keeps it.
RiskStateSettles ==
    <>[](\A b \in Bot : session[b].stopped \/ session[b].risk = Due(b))
==============================================================================
