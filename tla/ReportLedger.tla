---------------------------- MODULE ReportLedger -----------------------------
(***************************************************************************)
(* What the report scheduler promises about the Reports collection: it is  *)
(* a ledger.  A report is drawn up when its window has closed, of the      *)
(* fills that are on record by then; it is entered at the end of the       *)
(* ledger or not at all; none is made twice, or after one of a later day;  *)
(* and nothing that was entered is ever changed.  There is no process here *)
(* that starts and stops, no ticker, and no list of jobs.  Reports.tla is  *)
(* shown to implement this module.                                         *)
(***************************************************************************)
EXTENDS Integers, SequencesExt

CONSTANTS Fill, botOf,  \* as in Reports
          Days,         \* days of the calendar
          Due,          \* the jobs that may come due
          Window(_),    \* the days a job's report is about
          None

VARIABLES today,
          filled,   \* filled[f]: the day f happened on
          recorded, \* recorded[f]: the day f was put on record
          draft,    \* the report that is drawn up
          ledger,   \* the reports, in the order they were entered
          exempt    \* the clock has been such that reports may be made twice

vars == <<today, filled, recorded, draft, ledger, exempt>>

Init ==
    /\ today \in Days
    /\ filled = [f \in Fill |-> None]
    /\ recorded = [f \in Fill |-> None]
    /\ draft = None
    /\ ledger = << >>
    /\ exempt = FALSE

Dawn ==
    /\ today' \in {d \in Days : d > today}
    /\ UNCHANGED <<filled, recorded, draft, ledger, exempt>>

Happen(f) ==
    /\ filled[f] = None
    /\ filled' = [filled EXCEPT ![f] = today]
    /\ UNCHANGED <<today, recorded, draft, ledger, exempt>>

Record(f) ==
    /\ filled[f] # None /\ recorded[f] = None
    /\ recorded' = [recorded EXCEPT ![f] = today]
    /\ UNCHANGED <<today, filled, draft, ledger, exempt>>

DrawUp(j) ==
    /\ draft = None
    /\ j.end <= today
    /\ exempt \/ \A r \in Range(ledger) : r.job # j /\ r.job.end <= j.end
    /\ draft' = [job   |-> j,
                 fills |-> {f \in Fill : /\ botOf[f] = j.bot
                                         /\ recorded[f] # None
                                         /\ filled[f] \in Window(j)}]
    /\ UNCHANGED <<today, filled, recorded, ledger, exempt>>

Enter ==
    /\ draft # None
    /\ ledger' = Append(ledger, draft)
    /\ draft' = None
    /\ UNCHANGED <<today, filled, recorded, exempt>>

Drop ==
    /\ draft # None
    /\ draft' = None
    /\ UNCHANGED <<today, filled, recorded, ledger, exempt>>

Exempt ==
    /\ exempt' = TRUE
    /\ UNCHANGED <<today, filled, recorded, draft, ledger>>

Next == \/ Dawn \/ Enter \/ Drop \/ Exempt
        \/ \E f \in Fill : Happen(f) \/ Record(f)
        \/ \E j \in Due : DrawUp(j)

Spec == Init /\ [][Next]_vars
==============================================================================
