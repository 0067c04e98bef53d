-------------------------- MODULE RiskWatchdogProofs -------------------------
(***************************************************************************)
(* Proofs about the risk watchdog, for any number of bots, changes, faults *)
(* and documents a batch: what its verdict is, and that it is neither      *)
(* stale nor kept from a bot by the trouble of another.                    *)
(***************************************************************************)
EXTENDS RiskWatchdog, FiniteSetTheorems, TLAPS

Severity(r) == CASE r = "RUNNING" -> 0 [] r = "SLOW" -> 1 [] r = "PAUSED" -> 2

\* A greater drawdown never makes the verdict milder.
THEOREM VerdictMonotone ==
    ASSUME NEW d \in Nat, NEW e \in Nat, NEW l \in Nat, d <= e
    PROVE  Severity(computeRiskState(d, l)) <= Severity(computeRiskState(e, l))
  BY DEF Severity, computeRiskState, PauseLimit, TwiceSlowLimit, pauseThreshold, slowThreshold

\* A greater limit, where there is one, never makes the verdict harder.
THEOREM VerdictAntitone ==
    ASSUME NEW d \in Nat, NEW l \in Nat \ {0}, NEW m \in Nat, l <= m
    PROVE  Severity(computeRiskState(d, m)) <= Severity(computeRiskState(d, l))
  BY DEF Severity, computeRiskState, PauseLimit, TwiceSlowLimit, pauseThreshold, slowThreshold

\* Between RUNNING and PAUSED there is a SLOW just if the limit is above the
\* floor of 3 percent: below, a bot is paused with no throttling before.
THEOREM SlowBand ==
    ASSUME NEW l \in Nat \ {0}
    PROVE  (\E d \in Nat : computeRiskState(d, l) = "SLOW") <=> l > slowThreshold
<1>1. ASSUME l > slowThreshold
      PROVE  \E d \in Nat : computeRiskState(d, l) = "SLOW"
  <2>1. computeRiskState(l - 1, l) = "SLOW"
    BY <1>1 DEF computeRiskState, PauseLimit, TwiceSlowLimit, slowThreshold
  <2>2. l - 1 \in Nat
    OBVIOUS
  <2> QED
    BY <2>1, <2>2
<1>2. ASSUME NEW d \in Nat, computeRiskState(d, l) = "SLOW"
      PROVE  l > slowThreshold
  BY <1>2 DEF computeRiskState, PauseLimit, TwiceSlowLimit, slowThreshold
<1> QED
  BY <1>1, <1>2
------------------------------------------------------------------------------
\* A verdict is a risk state, whatever it is computed from.
LEMMA VerdictType == \A d, l : computeRiskState(d, l) \in Risk
BY DEF computeRiskState, Risk

\* A set of bots within a batch is within a batch when some are taken out.
LEMMA SmallerBatch ==
    ASSUME NEW S \in SUBSET Bot, NEW T \in SUBSET S, Cardinality(S) <= Batch
    PROVE  Cardinality(T) <= Batch
<1>1. IsFiniteSet(S)
  BY FS_Subset, WatchdogAssumption
<1>2. IsFiniteSet(T) /\ Cardinality(T) <= Cardinality(S)
  BY <1>1, FS_Subset
<1>3. Cardinality(S) \in Nat /\ Cardinality(T) \in Nat /\ Batch \in Nat
  BY <1>1, <1>2, FS_CardinalityType, WatchdogAssumption
<1> QED
  BY <1>2, <1>3

\* The batch without documents is a batch.
LEMMA EmptyBatch == /\ DOMAIN NoDocs = {}
                    /\ NoDocs \in [DOMAIN NoDocs -> Session]
                    /\ Cardinality(DOMAIN NoDocs) <= Batch
<1>1. Cardinality({}) = 0
  BY FS_EmptySet
<1> QED
  BY <1>1, WatchdogAssumption DEF NoDocs

\* Batches without one of their documents.
LEMMA OthersType ==
    ASSUME TypeOK, NEW b \in DOMAIN batch
    PROVE  /\ DOMAIN Others(b) \subseteq Bot \ rest
           /\ Others(b) \in [DOMAIN Others(b) -> Session]
           /\ Cardinality(DOMAIN Others(b)) <= Batch
<1>1. DOMAIN Others(b) = DOMAIN batch \ {b}
  BY DEF Others
<1>2. Cardinality(DOMAIN Others(b)) <= Batch
  BY <1>1, SmallerBatch DEF TypeOK
<1> QED
  BY <1>1, <1>2 DEF Others, TypeOK

\* What the documents of a bot say is a value.
LEMMA ValueType ==
    ASSUME session \in [Bot -> Session], limit \in [Bot -> Limit], NEW b \in Bot
    PROVE  ValueOf(b) \in Value
BY DEF ValueOf, Session, Value

\* A change to the documents of one bot, by the bot or the API.
LEMMA ChangeType ==
    ASSUME TypeOK, NEW b \in Bot, Change(b),
           session' \in [Bot -> Session], limit' \in [Bot -> Limit]
    PROVE  TypeOK'
<1>1. ValueOf(b)' \in Value
  BY DEF ValueOf, Session, Value
<1>2. seen' \in [Bot -> SUBSET Value]
  BY <1>1 DEF Change, TypeOK
<1>3. changes' \in 0 .. MaxChanges
  BY WatchdogAssumption DEF Change, TypeOK
<1> QED
  BY <1>2, <1>3 DEF Change, TypeOK, watchdog

\* One step keeps every variable in its type.
LEMMA TypeStep == TypeOK /\ [Next]_vars => TypeOK'
<1> SUFFICES ASSUME TypeOK, [Next]_vars PROVE TypeOK'
  OBVIOUS
<1>0. ASSUME Fault PROVE faults' \in 0 .. MaxFaults
  BY <1>0, WatchdogAssumption DEF Fault, TypeOK
<1>1. CASE Find
  <2>1. seen' \in [Bot -> SUBSET Value]
    BY <1>1, ValueType DEF Find, TypeOK
  <2> QED
    BY <1>1, <2>1, EmptyBatch DEF Find, TypeOK
<1>2. ASSUME NEW S \in SUBSET Bot, Fetch(S)
      PROVE  TypeOK'
  <2> DEFINE T == {c \in S : ~session[c].stopped}
  <2>1. DOMAIN batch' = T /\ batch' \in [T -> Session]
    BY <1>2 DEF Fetch, TypeOK
  <2>2. Cardinality(T) <= Batch
    BY <1>2, SmallerBatch DEF Fetch
  <2>3. T \subseteq Bot \ rest'
    BY <1>2 DEF Fetch
  <2> QED
    BY <1>2, <2>1, <2>2, <2>3 DEF Fetch, TypeOK, documents
<1>3. ASSUME NEW b \in Bot, Decode(b)
      PROVE  TypeOK'
  <2>1. job' \in Job
    BY <1>3 DEF Decode, TypeOK, Job
  <2> QED
    BY <1>3, <2>1, OthersType DEF Decode, TypeOK, documents
<1>4. CASE ReadConfig
  <2>2. job \in Job
    BY <1>4 DEF ReadConfig, TypeOK
  <2>3. CASE Continue
    BY <1>4, <2>3 DEF ReadConfig, Continue, TypeOK, documents
  <2>4. CASE pc' = "write" /\ \E r \in Risk : job' = [job EXCEPT !.risk = r]
    <3>1. job' \in Job
      BY <2>2, <2>4 DEF Job
    <3> QED
      BY <1>4, <2>4, <3>1 DEF ReadConfig, TypeOK, documents
  <2> QED
    BY <1>4, <2>3, <2>4, VerdictType DEF ReadConfig
<1>5. CASE Write \/ WriteFails
  <2>1. job \in Job
    BY <1>5 DEF Write, WriteFails, TypeOK
  <2>2. [session EXCEPT ![job.bot].risk = job.risk] \in [Bot -> Session]
    BY <2>1 DEF Job, Session, TypeOK
  <2>3. session' \in [Bot -> Session]
    BY <1>5, <2>2 DEF Write, WriteFails, TypeOK
  <2>4. failed' \subseteq Bot
    BY <1>5, <2>1 DEF Write, WriteFails, TypeOK, Job
  <2>5. faults' \in 0 .. MaxFaults
    BY <1>0, <1>5 DEF Write, WriteFails, TypeOK
  <2> QED
    BY <1>5, <2>3, <2>4, <2>5 DEF Write, WriteFails, Continue, TypeOK
<1>6. CASE EndCycle
  BY <1>6 DEF EndCycle, TypeOK, documents
<1>7. ASSUME NEW b \in Bot, DecodeFails(b)
      PROVE  TypeOK'
  BY <1>0, <1>7, OthersType DEF DecodeFails, TypeOK, documents
<1>8. CASE ReadConfigFails
  BY <1>0, <1>8 DEF ReadConfigFails, Continue, TypeOK, documents, Job
<1>9. CASE Abort
  BY <1>0, <1>9, EmptyBatch DEF Abort, TypeOK, documents
<1>10. ASSUME NEW b \in Bot, NEW d \in Drawdown, Report(b, d)
       PROVE  TypeOK'
  <2>1. session' \in [Bot -> Session]
    <3>1. session \in [Bot -> Session]
      BY DEF TypeOK
    <3>2. [session[b] EXCEPT !.drawdown = d, !.stopped = FALSE] \in Session
      BY <3>1 DEF Session
    <3>3. session' = [session EXCEPT ![b] = [session[b] EXCEPT !.drawdown = d, !.stopped = FALSE]]
      BY <1>10, <3>1 DEF Report
    <3> QED
      BY <3>1, <3>2, <3>3
  <2> QED
    BY <1>10, <2>1, ChangeType DEF Report, TypeOK
<1>11. ASSUME NEW b \in Bot, NEW l \in Limit, SetLimit(b, l)
       PROVE  TypeOK'
  BY <1>11, ChangeType DEF SetLimit, TypeOK
<1>12. ASSUME NEW b \in Bot, MarkStopped(b)
       PROVE  TypeOK'
  <2>1. session' \in [Bot -> Session]
    BY <1>12 DEF MarkStopped, TypeOK, Session
  <2> QED
    BY <1>12, <2>1, ChangeType DEF MarkStopped, TypeOK
<1>13. CASE UNCHANGED vars
  BY <1>13 DEF vars, documents, watchdog, TypeOK
<1> QED
  BY <1>1, <1>2, <1>3, <1>4, <1>5, <1>6, <1>7, <1>8, <1>9, <1>10, <1>11, <1>12, <1>13
     DEF Next, Cycle

\* The variables start in their types.
LEMMA TypeInit == Init => TypeOK
<1> SUFFICES ASSUME Init PROVE TypeOK
  OBVIOUS
<1>1. session \in [Bot -> Session] /\ limit \in [Bot -> Limit]
  BY DEF Init
<1>2. seen \in [Bot -> SUBSET Value]
  BY <1>1, ValueType DEF Init
<1> QED
  BY <1>1, <1>2, EmptyBatch, WatchdogAssumption DEF Init, TypeOK

\* The watchdog's variables keep their types.
THEOREM TypeCorrect == Spec => []TypeOK
  BY TypeInit, TypeStep, PTL DEF Spec
------------------------------------------------------------------------------
(* A verdict is of this cycle, and one bot's trouble is its own. *)

\* A document the watchdog holds is one that b had since Find.
FromSeen(b, doc) == \E v \in seen[b] : ~v.stopped /\ v.drawdown = doc.drawdown

\* The history is up to date, and what the watchdog holds is in it.
HeldIsSeen ==
    /\ \A b \in Bot : ValueOf(b) \in seen[b]
    /\ \A b \in DOMAIN batch : FromSeen(b, batch[b])
    /\ pc \in {"config", "write"} => FromSeen(job.bot, job.doc)

\* The documents of b have not changed since Find, and call for a verdict.
Quiet(b) == seen[b] = {ValueOf(b)} /\ ~session[b].stopped

\* Such a b is still to come, or in hand with its documents as they are, or
\* about to get the risk state due, or has it.
Settling(b) ==
    \/ b \in rest
    \/ b \in DOMAIN batch /\ batch[b].risk = session[b].risk
    \/ pc = "config" /\ job.bot = b /\ job.doc.risk = session[b].risk
    \/ pc = "write" /\ job.bot = b
    \/ session[b].risk = Due(b)

WInv == /\ TypeOK
        /\ HeldIsSeen
        /\ VerdictIsOfThisCycle
        /\ \A b \in Bot \ failed : Quiet(b) => Settling(b)

\* The invariant holds at first.
LEMMA WInvInit == Init => WInv
<1> SUFFICES ASSUME Init PROVE WInv
  OBVIOUS
<1>1. TypeOK
  BY TypeInit
<1>2. HeldIsSeen
  BY EmptyBatch DEF Init, HeldIsSeen
<1> QED
  BY <1>1, <1>2 DEF Init, WInv, VerdictIsOfThisCycle

\* The verdict about to be written on a quiet bot is the one due.
LEMMA WriteIsDue ==
    ASSUME WInv, pc = "write", Quiet(job.bot)
    PROVE  job.risk = Due(job.bot)
BY DEF WInv, VerdictIsOfThisCycle, Quiet, Due, ValueOf

\* So is the verdict found for one whose config is being read.
LEMMA VerdictIsDue ==
    ASSUME WInv, pc = "config", Quiet(job.bot)
    PROVE  computeRiskState(job.doc.drawdown, limit[job.bot]) = Due(job.bot)
BY DEF WInv, HeldIsSeen, FromSeen, Quiet, Due, ValueOf

\* A change to the documents of a bot keeps the invariant: the bot is no longer
\* quiet, or its values are what they were.
LEMMA ChangeStep ==
    ASSUME WInv, TypeOK', NEW b \in Bot, Change(b),
           \A c \in Bot \ {b} : ValueOf(c)' = ValueOf(c),
           \A c \in Bot : session'[c].risk = session[c].risk
    PROVE  WInv'
<1> USE DEF WInv
<1>1. /\ seen \in [Bot -> SUBSET Value]
      /\ seen' = [seen EXCEPT ![b] = @ \cup {ValueOf(b)'}]
      /\ UNCHANGED <<pc, rest, batch, job, failed>>
  BY DEF Change, watchdog, TypeOK
<1>2. \A c \in Bot : seen[c] \subseteq seen'[c] /\ ValueOf(c)' \in seen'[c]
  BY <1>1 DEF HeldIsSeen
<1>3. DOMAIN batch \subseteq Bot /\ (pc \in {"config", "write"} => job.bot \in Bot)
  BY DEF TypeOK, Job
<1>4. HeldIsSeen'
  BY <1>1, <1>2, <1>3 DEF HeldIsSeen, FromSeen
<1>5. VerdictIsOfThisCycle'
  BY <1>1, <1>2, <1>3 DEF VerdictIsOfThisCycle
<1>6. ASSUME NEW c \in Bot \ failed, Quiet(c)'
      PROVE  Settling(c)'
  <2>1. ValueOf(c)' = ValueOf(c)
    BY <1>1, <1>2, <1>6 DEF Quiet, HeldIsSeen
  <2>2. /\ session'[c].stopped = session[c].stopped
        /\ session'[c].drawdown = session[c].drawdown
        /\ limit'[c] = limit[c]
    BY <2>1 DEF ValueOf
  <2>3. seen[c] = {ValueOf(c)}
    BY <1>2, <1>6, <2>1 DEF Quiet, HeldIsSeen
  <2>4. Settling(c)
    BY <1>6, <2>2, <2>3 DEF Quiet
  <2> QED
    BY <1>1, <2>2, <2>4 DEF Settling, Due
<1> QED
  BY <1>1, <1>4, <1>5, <1>6

\* The steps of the cycle that write nothing leave the documents, and so what
\* bots are quiet and what is due, as they are.
LEMMA ReadStep ==
    ASSUME WInv, TypeOK', UNCHANGED documents,
           \A b \in DOMAIN batch' : FromSeen(b, batch'[b]),
           pc' \in {"config", "write"} => FromSeen(job'.bot, job'.doc),
           VerdictIsOfThisCycle',
           \A b \in Bot \ failed' : Quiet(b) /\ (b \in failed \/ Settling(b)) => Settling(b)'
    PROVE  WInv'
<1> USE DEF WInv
<1>1. HeldIsSeen'
  BY DEF HeldIsSeen, FromSeen, documents, ValueOf
<1>2. \A b \in Bot : Quiet(b)' => Quiet(b)
  BY DEF Quiet, documents, ValueOf
<1> QED
  BY <1>1, <1>2

\* Every step preserves it, one case for each action.
LEMMA WInvStep == WInv /\ [Next]_vars => WInv'
<1> SUFFICES ASSUME WInv, [Next]_vars PROVE WInv'
  OBVIOUS
<1> USE DEF WInv
<1>0. TypeOK'
  BY TypeStep
<1>1. CASE Find
  <2>1. HeldIsSeen' /\ VerdictIsOfThisCycle'
    BY <1>1 DEF Find, HeldIsSeen, VerdictIsOfThisCycle, ValueOf, TypeOK, EmptyBatch, NoDocs
  <2>2. \A b \in Bot : Settling(b)'
    BY <1>1 DEF Find, Settling
  <2> QED
    BY <1>0, <2>1, <2>2
<1>2. ASSUME NEW S \in SUBSET Bot, Fetch(S)
      PROVE  WInv'
  <2>1. \A b \in DOMAIN batch' : b \in Bot /\ batch'[b] = session[b] /\ ~session[b].stopped
    BY <1>2 DEF Fetch
  <2>2. \A b \in DOMAIN batch' : FromSeen(b, batch'[b])
    BY <2>1 DEF FromSeen, HeldIsSeen, ValueOf
  <2>3. pc' = "loop"
    BY <1>2 DEF Fetch
  <2>4. ASSUME NEW b \in Bot \ failed', Quiet(b)
        PROVE  Settling(b)'
    <3>1. Settling(b)
      BY <1>2, <2>4 DEF Fetch
    <3>2. CASE b \in S
      BY <1>2, <2>4, <3>2 DEF Fetch, Quiet, Settling, documents
    <3>3. CASE b \notin S
      BY <1>2, <3>1, <3>3 DEF Fetch, Settling, documents, NoDocs, Due
    <3> QED
      BY <3>2, <3>3
  <2> QED
    BY <1>0, <1>2, <2>2, <2>3, <2>4, ReadStep DEF Fetch, VerdictIsOfThisCycle
<1>3. ASSUME NEW b \in Bot, Decode(b)
      PROVE  WInv'
  <2>1. /\ \A c \in DOMAIN batch' : FromSeen(c, batch'[c])
        /\ FromSeen(job'.bot, job'.doc)
    BY <1>3 DEF Decode, Others, HeldIsSeen
  <2>2. \A c \in Bot \ failed' : Settling(c) => Settling(c)'
    BY <1>3 DEF Decode, Others, Settling, Due, documents
  <2>3. pc' = "config" /\ failed' = failed /\ UNCHANGED documents
    BY <1>3 DEF Decode
  <2>4. VerdictIsOfThisCycle'
    BY <2>3 DEF VerdictIsOfThisCycle
  <2> QED
    BY <1>0, <2>1, <2>2, <2>3, <2>4, ReadStep
<1>4. CASE ReadConfig
  <2> DEFINE risk == computeRiskState(job.doc.drawdown, limit[job.bot])
  <2>1. /\ pc = "config" /\ job \in Job
        /\ UNCHANGED <<documents, rest, batch, failed>>
    BY <1>4 DEF ReadConfig, TypeOK
  <2>2. \/ risk = job.doc.risk /\ Continue
        \/ pc' = "write" /\ job' = [job EXCEPT !.risk = risk]
    BY <1>4 DEF ReadConfig
  <2>3. \A c \in DOMAIN batch' : FromSeen(c, batch'[c])
    BY <2>1 DEF HeldIsSeen
  <2>4. pc' = "write" => /\ job'.bot = job.bot /\ job'.doc = job.doc /\ job'.risk = risk
    BY <2>1, <2>2 DEF Job, Continue
  <2>5. pc' \in {"loop", "write"}
    BY <2>2 DEF Continue
  <2>6. VerdictIsOfThisCycle'
    <3>1. ValueOf(job.bot) \in seen[job.bot] /\ FromSeen(job.bot, job.doc)
      BY <2>1 DEF HeldIsSeen, Job
    <3>2. ValueOf(job.bot).limit = limit[job.bot]
      BY DEF ValueOf
    <3>3. seen' = seen
      BY <2>1 DEF documents
    <3> QED
      BY <2>4, <3>1, <3>2, <3>3 DEF VerdictIsOfThisCycle, FromSeen
  <2>7. ASSUME NEW c \in Bot \ failed', Quiet(c), Settling(c)
        PROVE  Settling(c)'
    <3>1. Due(c)' = Due(c) /\ session' = session
      BY <2>1 DEF Due, documents
    <3>2. CASE c = job.bot /\ job.doc.risk = session[c].risk
      BY <2>1, <2>2, <2>4, <2>7, <3>1, <3>2, VerdictIsDue DEF Settling
    <3>3. CASE ~(c = job.bot /\ job.doc.risk = session[c].risk)
      BY <2>1, <2>7, <3>1, <3>3 DEF Settling
    <3> QED
      BY <3>2, <3>3
  <2> QED
    BY <1>0, <2>1, <2>3, <2>4, <2>5, <2>6, <2>7, ReadStep DEF HeldIsSeen
<1>5. CASE Write \/ WriteFails
  <2>1. /\ pc = "write" /\ job \in Job /\ job.bot \in Bot
        /\ UNCHANGED <<limit, seen, rest, batch>>
        /\ pc' = "loop"
    BY <1>5 DEF Write, WriteFails, Continue, TypeOK, Job
  <2>2. /\ \A b \in Bot : ValueOf(b)' = ValueOf(b)
        /\ \A b \in Bot \ {job.bot} : session'[b] = session[b]
        /\ \/ job.bot \in failed'
           \/ session'[job.bot].risk = job.risk
        /\ failed \subseteq failed'
    <3>1. session \in [Bot -> Session] /\ failed \subseteq failed'
      BY <1>5 DEF Write, WriteFails, TypeOK
    <3>2. \/ session' = session /\ job.bot \in failed'
          \/ session' = [session EXCEPT ![job.bot].risk = job.risk]
      BY <1>5 DEF Write, WriteFails
    <3>3. CASE session' = session /\ job.bot \in failed'
      BY <2>1, <3>1, <3>3 DEF ValueOf
    <3>4. CASE session' = [session EXCEPT ![job.bot].risk = job.risk]
      <4>1. \A b \in Bot : /\ session'[b].stopped = session[b].stopped
                           /\ session'[b].drawdown = session[b].drawdown
                           /\ b # job.bot => session'[b] = session[b]
        BY <2>1, <3>1, <3>4 DEF Session
      <4>2. session'[job.bot].risk = job.risk
        BY <2>1, <3>1, <3>4 DEF Session
      <4> QED
        BY <2>1, <3>1, <4>1, <4>2 DEF ValueOf
    <3> QED
      BY <3>2, <3>3, <3>4
  <2>3. HeldIsSeen'
    BY <2>1, <2>2 DEF HeldIsSeen, FromSeen
  <2>4. ASSUME NEW b \in Bot \ failed', Quiet(b)'
        PROVE  Settling(b)'
    <3>1. Quiet(b) /\ Due(b)' = Due(b) /\ b \in Bot \ failed
      BY <2>1, <2>2, <2>4 DEF Quiet, ValueOf, Due
    <3>2. CASE b = job.bot
      BY <2>1, <2>2, <2>4, <3>1, <3>2, WriteIsDue DEF Settling
    <3>3. CASE b # job.bot
      BY <2>1, <2>2, <3>1, <3>3 DEF Settling
    <3> QED
      BY <3>2, <3>3
  <2> QED
    BY <1>0, <2>1, <2>3, <2>4 DEF VerdictIsOfThisCycle
<1>6. CASE EndCycle
  <2>1. \A b \in Bot \ failed' : Settling(b) => Settling(b)'
    BY <1>6 DEF EndCycle, Settling, NoDocs, Due, documents
  <2> QED
    BY <1>0, <1>6, <2>1, ReadStep DEF EndCycle, HeldIsSeen, VerdictIsOfThisCycle
<1>7. ASSUME NEW b \in Bot, DecodeFails(b)
      PROVE  WInv'
  <2>1. /\ \A c \in DOMAIN batch' : FromSeen(c, batch'[c])
        /\ pc' = "loop" /\ UNCHANGED documents
        /\ b \in failed' /\ failed \subseteq failed'
    BY <1>7 DEF DecodeFails, Others, HeldIsSeen
  <2>2. \A c \in Bot \ failed' : Settling(c) => Settling(c)'
    BY <1>7, <2>1 DEF DecodeFails, Others, Settling, Due, documents
  <2>3. VerdictIsOfThisCycle'
    BY <2>1 DEF VerdictIsOfThisCycle
  <2> QED
    BY <1>0, <2>1, <2>2, <2>3, ReadStep
<1>8. CASE ReadConfigFails
  <2>1. /\ \A c \in DOMAIN batch' : FromSeen(c, batch'[c])
        /\ pc = "config" /\ pc' = "loop" /\ UNCHANGED documents
        /\ job.bot \in failed' /\ failed \subseteq failed'
    BY <1>8 DEF ReadConfigFails, Continue, HeldIsSeen
  <2>2. \A c \in Bot \ failed' : Settling(c) => Settling(c)'
    BY <1>8, <2>1 DEF ReadConfigFails, Settling, Due, documents
  <2>3. VerdictIsOfThisCycle'
    BY <2>1 DEF VerdictIsOfThisCycle
  <2> QED
    BY <1>0, <2>1, <2>2, <2>3, ReadStep
<1>9. CASE Abort
  <2>1. /\ DOMAIN batch' = {} /\ pc' = "idle" /\ failed' = Bot /\ UNCHANGED documents
    BY <1>9, EmptyBatch DEF Abort
  <2>2. VerdictIsOfThisCycle'
    BY <2>1 DEF VerdictIsOfThisCycle
  <2> QED
    BY <1>0, <2>1, <2>2, ReadStep
<1>10. ASSUME NEW b \in Bot, NEW d \in Drawdown, Report(b, d)
       PROVE  WInv'
  <2>1. /\ \A c \in Bot \ {b} : session'[c] = session[c] /\ limit' = limit
        /\ \A c \in Bot : session'[c].risk = session[c].risk
    BY <1>10 DEF Report, TypeOK, Session
  <2>2. \A c \in Bot \ {b} : ValueOf(c)' = ValueOf(c)
    BY <2>1 DEF ValueOf
  <2> QED
    BY <1>0, <1>10, <2>1, <2>2, ChangeStep DEF Report
<1>11. ASSUME NEW b \in Bot, NEW l \in Limit, SetLimit(b, l)
       PROVE  WInv'
  <2>1. \A c \in Bot \ {b} : ValueOf(c)' = ValueOf(c)
    BY <1>11 DEF SetLimit, ValueOf, TypeOK
  <2> QED
    BY <1>0, <1>11, <2>1, ChangeStep DEF SetLimit
<1>12. ASSUME NEW b \in Bot, MarkStopped(b)
       PROVE  WInv'
  <2>1. /\ \A c \in Bot \ {b} : session'[c] = session[c] /\ limit' = limit
        /\ \A c \in Bot : session'[c].risk = session[c].risk
    BY <1>12 DEF MarkStopped, TypeOK, Session
  <2>2. \A c \in Bot \ {b} : ValueOf(c)' = ValueOf(c)
    BY <2>1 DEF ValueOf
  <2> QED
    BY <1>0, <1>12, <2>1, <2>2, ChangeStep DEF MarkStopped
<1>13. CASE UNCHANGED vars
  <2>1. UNCHANGED <<documents, pc, rest, batch, job, failed>>
    BY <1>13 DEF vars, watchdog
  <2>2. VerdictIsOfThisCycle'
    BY <2>1 DEF VerdictIsOfThisCycle, documents
  <2>3. \A b \in Bot : Settling(b) => Settling(b)'
    BY <2>1 DEF Settling, Due, documents
  <2> QED
    BY <1>0, <2>1, <2>2, <2>3, ReadStep DEF HeldIsSeen
<1> QED
  BY <1>1, <1>2, <1>3, <1>4, <1>5, <1>6, <1>7, <1>8, <1>9, <1>10, <1>11, <1>12, <1>13
     DEF Next, Cycle

\* The inductive invariant WInv holds throughout: what the watchdog holds was
\* true since this cycle's Find, and the bots it is done with are settled.
THEOREM WatchdogInvariance == Spec => []WInv
  BY WInvInit, WInvStep, PTL DEF Spec

\* The verdict about to be written is one for values of the bot's documents
\* since this cycle's Find.
THEOREM VerdictFresh == Spec => []VerdictIsOfThisCycle
<1>1. WInv => VerdictIsOfThisCycle
  BY DEF WInv
<1> QED
  BY <1>1, WatchdogInvariance, PTL

\* After a cycle, every bot that was quiet and whose own calls did not fail has
\* the risk state due, whatever befell the others.
THEOREM CycleSettlesAll == Spec => []CycleSettles
<1>1. ASSUME WInv PROVE CycleSettles
  <2>1. SUFFICES ASSUME pc = "idle", NEW b \in Bot \ failed, Quiet(b)
                 PROVE  session[b].risk = Due(b)
    BY DEF CycleSettles, Quiet
  <2>2. rest = {} /\ DOMAIN batch = {}
    BY <1>1, <2>1, EmptyBatch DEF WInv, TypeOK
  <2> QED
    BY <1>1, <2>1, <2>2 DEF WInv, Settling
<1> QED
  BY <1>1, WatchdogInvariance, PTL

\* The risk state of a session is written by the watchdog alone, and it writes
\* nothing but the verdict it has in hand.
LEMMA RiskStep ==
    ASSUME TypeOK, [Next]_vars, NEW b \in Bot
    PROVE  \/ session'[b].risk = session[b].risk
           \/ pc = "write" /\ job.bot = b /\ session'[b].risk = job.risk
<1> DEFINE Goal == \/ session'[b].risk = session[b].risk
                   \/ pc = "write" /\ job.bot = b /\ session'[b].risk = job.risk
<1>0. session \in [Bot -> Session]
  BY DEF TypeOK
<1>1. CASE Write \/ WriteFails
  <2>1. pc = "write" /\ session' \in {session, [session EXCEPT ![job.bot].risk = job.risk]}
    BY <1>1 DEF Write, WriteFails
  <2> QED
    BY <1>0, <2>1 DEF Session
<1>2. ASSUME NEW c \in Bot, NEW d \in Drawdown, Report(c, d) PROVE Goal
  BY <1>0, <1>2 DEF Report, Session
<1>3. ASSUME NEW c \in Bot, MarkStopped(c) PROVE Goal
  BY <1>0, <1>3 DEF MarkStopped, Session
<1>4. CASE UNCHANGED session
  BY <1>4
<1>5. CASE \/ Find \/ ReadConfig \/ EndCycle \/ ReadConfigFails \/ Abort \/ UNCHANGED vars
           \/ \E S \in SUBSET Bot : Fetch(S)
           \/ \E c \in Bot : Decode(c) \/ DecodeFails(c) \/ \E l \in Limit : SetLimit(c, l)
  BY <1>4, <1>5
     DEF Find, ReadConfig, EndCycle, ReadConfigFails, Abort, Fetch, Decode, DecodeFails,
         SetLimit, vars, documents
<1> QED
  BY <1>1, <1>2, <1>3, <1>5 DEF Next, Cycle

\* A right risk state stays: what is stale in the watchdog's hands does no harm
\* to a bot whose documents have come to rest.
THEOREM RightVerdictKept == Spec => RightVerdictStays
<1> DEFINE Kept(b) == /\ seen[b] = {ValueOf(b)} /\ ValueOf(b)' = ValueOf(b)
                      /\ session[b].risk = Due(b)
                      => session'[b].risk = Due(b)
<1>1. ASSUME WInv, [Next]_vars, NEW b \in Bot
      PROVE  Kept(b)
  <2>1. pc = "write" /\ job.bot = b /\ seen[b] = {ValueOf(b)} => job.risk = Due(b)
    BY <1>1 DEF WInv, VerdictIsOfThisCycle, Due, ValueOf
  <2> QED
    BY <1>1, <2>1, RiskStep DEF WInv
<1>2. WInv /\ [Next]_vars => [\A b \in Bot : Kept(b)]_vars
  BY <1>1
<1> QED
  BY <1>2, WatchdogInvariance, PTL DEF Spec, RightVerdictStays
------------------------------------------------------------------------------
(* A cycle comes to its end *)

\* What a cycle has still to do, at most: fetch a document, decode it, read its
\* config and write it, for each that the cursor has not come to.
Stage == CASE pc = "idle" -> 0 [] pc = "loop" -> 1 [] pc = "write" -> 2 [] pc = "config" -> 3
Left  == 4 * Cardinality(rest) + 3 * Cardinality(DOMAIN batch) + Stage

\* It is a number.
LEMMA LeftType ==
    ASSUME TypeOK
    PROVE  /\ IsFiniteSet(rest) /\ Cardinality(rest) \in Nat
           /\ IsFiniteSet(DOMAIN batch) /\ Cardinality(DOMAIN batch) \in Nat
           /\ Stage \in 0 .. 3 /\ Left \in Nat /\ (pc # "idle" => Left > 0)
<1>1. IsFiniteSet(rest) /\ IsFiniteSet(DOMAIN batch)
  BY FS_Subset, WatchdogAssumption DEF TypeOK
<1>2. Cardinality(rest) \in Nat /\ Cardinality(DOMAIN batch) \in Nat
  BY <1>1, FS_CardinalityType
<1>3. Stage \in 0 .. 3 /\ (pc # "idle" => Stage > 0)
  BY DEF TypeOK, Stage
<1> QED
  BY <1>1, <1>2, <1>3 DEF Left

\* A document out of the batch is less to do.
LEMMA OneDocumentLess ==
    ASSUME TypeOK, NEW b \in DOMAIN batch, batch' = Others(b)
    PROVE  Cardinality(DOMAIN batch') = Cardinality(DOMAIN batch) - 1
<1>1. DOMAIN batch' = DOMAIN batch \ {b}
  BY DEF Others
<1> QED
  BY <1>1, LeftType, FS_RemoveElement

\* A stage further, or a document fewer in the batch, is less to do.
LEMMA LessToDo ==
    \A r, d \in Nat : \A s, t \in Int :
        /\ t < s => 4 * r + 3 * d + t < 4 * r + 3 * d + s
        /\ t <= 3 => 4 * r + 3 * (d - 1) + t < 4 * r + 3 * d + 1
OBVIOUS

\* A step of the watchdog opens a cycle or takes it on, whoever changes the
\* documents meanwhile and whatever fails.
LEMMA CycleStep ==
    TypeOK /\ [Next]_vars =>
        \/ UNCHANGED watchdog
        \/ pc = "idle" /\ Left' \in {0, 4 * Cardinality(Bot) + 1}
        \/ pc # "idle" /\ Left' < Left
<1> SUFFICES ASSUME TypeOK, [Next]_vars
             PROVE  \/ UNCHANGED watchdog
                    \/ pc = "idle" /\ Left' \in {0, 4 * Cardinality(Bot) + 1}
                    \/ pc # "idle" /\ Left' < Left
  OBVIOUS
<1> DEFINE r == Cardinality(rest)
           d == Cardinality(DOMAIN batch)
<1>0. /\ r \in Nat /\ d \in Nat /\ Left \in Nat /\ (pc # "idle" => Left > 0)
      /\ IsFiniteSet(rest) /\ Left = 4 * r + 3 * d + Stage
  BY LeftType DEF Left
<1>e. DOMAIN NoDocs = {} /\ Cardinality({}) = 0
  BY FS_EmptySet DEF NoDocs
<1> HIDE DEF r, d
<1>1. CASE Find
  <2>1. d = 0 /\ batch' = batch /\ rest' = Bot /\ pc = "idle" /\ pc' = "loop"
    BY <1>1, <1>e DEF Find, TypeOK, d
  <2>2. Cardinality(Bot) \in Nat /\ Cardinality(DOMAIN batch') = 0
    BY <2>1, FS_CardinalityType, WatchdogAssumption DEF d
  <2> QED
    BY <2>1, <2>2 DEF Left, Stage
<1>2. ASSUME NEW S \in SUBSET Bot, Fetch(S)
      PROVE  pc # "idle" /\ Left' < Left
  <2>1. /\ S # {} /\ S \subseteq rest /\ rest' = rest \ S /\ pc = "loop" /\ pc' = "loop"
        /\ DOMAIN batch' \subseteq S /\ d = 0
    BY <1>2, <1>e DEF Fetch, d
  <2>2. IsFiniteSet(S) /\ Cardinality(S) \in Nat /\ Cardinality(S) # 0
    BY <1>0, <2>1, FS_Subset, FS_CardinalityType, FS_EmptySet
  <2>3. Cardinality(rest') = r - Cardinality(S)
    <3>1. rest \cap S = S
      BY <2>1
    <3> QED
      BY <1>0, <2>1, <3>1, FS_Difference DEF r
  <2>4. Cardinality(DOMAIN batch') \in Nat /\ Cardinality(DOMAIN batch') <= Cardinality(S)
    BY <2>1, <2>2, FS_Subset, FS_CardinalityType
  <2>5. Stage = 1 /\ Stage' = 1
    BY <2>1 DEF Stage
  <2>6. Left' = 4 * (r - Cardinality(S)) + 3 * Cardinality(DOMAIN batch') + 1
    BY <2>3, <2>5 DEF Left
  <2> QED
    BY <1>0, <2>1, <2>2, <2>4, <2>5, <2>6
<1>3. ASSUME NEW b \in Bot, Decode(b) \/ DecodeFails(b)
      PROVE  pc # "idle" /\ Left' < Left
  <2>1. /\ b \in DOMAIN batch /\ batch' = Others(b) /\ rest' = rest
        /\ pc = "loop" /\ pc' \in {"loop", "config"}
    BY <1>3 DEF Decode, DecodeFails
  <2>2. Cardinality(DOMAIN batch') = d - 1
    BY <2>1, OneDocumentLess DEF d
  <2>3. Stage = 1 /\ Stage' \in Int /\ Stage' <= 3
    BY <2>1 DEF Stage
  <2>4. Left' = 4 * r + 3 * (d - 1) + Stage'
    BY <2>1, <2>2 DEF Left, r
  <2>5. 4 * r + 3 * (d - 1) + Stage' < 4 * r + 3 * d + 1
    BY <1>0, <2>3, LessToDo
  <2> QED
    BY <1>0, <2>1, <2>3, <2>4, <2>5
<1>4. CASE ReadConfig \/ ReadConfigFails \/ Write \/ WriteFails \/ EndCycle
  <2>1. /\ UNCHANGED <<rest, batch>> /\ pc # "idle"
        /\ Stage \in Int /\ Stage' \in Int /\ Stage' < Stage
    BY <1>4
       DEF ReadConfig, ReadConfigFails, Write, WriteFails, EndCycle, Continue, Stage
  <2>2. Left' = 4 * r + 3 * d + Stage'
    BY <2>1 DEF Left, r, d
  <2>3. 4 * r + 3 * d + Stage' < 4 * r + 3 * d + Stage
    BY <1>0, <2>1, LessToDo
  <2> QED
    BY <1>0, <2>1, <2>2, <2>3
<1>5. CASE Abort
  <2>1. rest' = {} /\ DOMAIN batch' = {} /\ Stage' = 0
    BY <1>5, <1>e DEF Abort, Stage
  <2>2. Left' = 0
    BY <1>e, <2>1 DEF Left
  <2> QED
    BY <1>0, <2>2
<1>6. ASSUME \/ \E b \in Bot, x \in Drawdown : Report(b, x)
             \/ \E b \in Bot, l \in Limit : SetLimit(b, l)
             \/ \E b \in Bot : MarkStopped(b)
      PROVE  UNCHANGED watchdog
  BY <1>6 DEF Report, SetLimit, MarkStopped, Change
<1>7. CASE UNCHANGED vars
  BY <1>7 DEF vars
<1> QED
  BY <1>1, <1>2, <1>3, <1>4, <1>5, <1>6, <1>7 DEF Next, Cycle

\* While a cycle is under way, whatever the watchdog does takes it nearer to its
\* end: no document, however it changes, is gone over twice, and no fault sends
\* the cycle back.
THEOREM CycleAdvances ==
    Spec => [][pc # "idle" => UNCHANGED watchdog \/ Left' < Left]_vars
<1>1. TypeOK /\ [Next]_vars => [pc # "idle" => UNCHANGED watchdog \/ Left' < Left]_vars
  BY CycleStep
<1> QED
  BY <1>1, TypeCorrect, PTL DEF Spec

\* And it ends after four steps for each bot and one more, at the most.
THEOREM CycleIsBounded == Spec => [](Left \in 0 .. 4 * Cardinality(Bot) + 1)
<1> DEFINE Bounded == Left \in 0 .. 4 * Cardinality(Bot) + 1
<1>0. Cardinality(Bot) \in Nat
  BY FS_CardinalityType, WatchdogAssumption
<1>1. Init => Bounded
  <2> SUFFICES ASSUME Init PROVE Bounded
    OBVIOUS
  <2>1. rest = {} /\ DOMAIN batch = {} /\ Stage = 0
    BY DEF Init, NoDocs, Stage
  <2> QED
    BY <1>0, <2>1, FS_EmptySet DEF Left
<1>2. TypeOK => Left \in Nat
  BY LeftType
<1>3. TypeOK /\ (Left \in Nat)' /\ Bounded /\ [Next]_vars => Bounded'
  <2> SUFFICES ASSUME TypeOK, Left' \in Nat, Bounded, [Next]_vars PROVE Bounded'
    OBVIOUS
  <2>1. CASE UNCHANGED watchdog
    BY <2>1 DEF watchdog, Left, Stage
  <2>2. CASE ~UNCHANGED watchdog
    BY <1>0, <2>2, CycleStep
  <2> QED
    BY <2>1, <2>2
<1> QED
  BY <1>1, <1>2, <1>3, TypeCorrect, PTL DEF Spec
==============================================================================
