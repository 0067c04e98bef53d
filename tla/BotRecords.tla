---------------------------- MODULE BotRecords -------------------------------
(***************************************************************************)
(* What the management API promises of each bot's records, without calls   *)
(* in progress: a worker is started only for a bot that has a config and   *)
(* no worker yet, and a config is not taken from under a worker; a session *)
(* says RUNNING only if a goroutine of the bot was started since the last  *)
(* crash, and whoever takes a worker away owes its session a mark, as does *)
(* a goroutine that reports without a worker.  No step but a crash touches *)
(* two bots.  ControlPlane.tla is shown to implement this module.          *)
(***************************************************************************)

CONSTANTS Bot,      \* the bot ids
          Config,   \* the configs
          None      \* no document, no worker

VARIABLES config,   \* config[b]: the config document of b
          worker,   \* worker[b]: the config b's worker has
          session,  \* session[b]: the state in b's session document
          started,  \* bots of which a goroutine was started since the last crash
          owed      \* bots that lost a worker and have a mark to come, or lost

vars == <<config, worker, session, started, owed>>

Running == {b \in Bot : worker[b] # None}

Init ==
    /\ config = [b \in Bot |-> None]
    /\ worker = [b \in Bot |-> None]
    /\ session = [b \in Bot |-> None]
    /\ started = {}
    /\ owed = {}

\* The first config of b is persisted.
Persist(b, c) ==
    /\ config[b] = None
    /\ config' = [config EXCEPT ![b] = c]
    /\ UNCHANGED <<worker, session, started, owed>>

\* Another one replaces it.
Replace(b, c) ==
    /\ config[b] # None
    /\ config' = [config EXCEPT ![b] = c]
    /\ UNCHANGED <<worker, session, started, owed>>

\* The config of a bot without a worker is removed, as the tests of DeleteBot want
\* it; the code makes no use of this.
Remove(b) ==
    /\ b \notin Running
    /\ config' = [config EXCEPT ![b] = None]
    /\ UNCHANGED <<worker, session, started, owed>>

\* b gets a worker.
Start(b, c) ==
    /\ config[b] # None
    /\ b \notin Running
    /\ worker' = [worker EXCEPT ![b] = c]
    /\ started' = started \cup {b}
    /\ UNCHANGED <<config, session, owed>>

\* The worker gets another config.
Push(b, c) ==
    /\ b \in Running
    /\ worker' = [worker EXCEPT ![b] = c]
    /\ UNCHANGED <<config, session, started, owed>>

\* The worker is taken away.
Stop(b) ==
    /\ b \in Running
    /\ worker' = [worker EXCEPT ![b] = None]
    /\ owed' = owed \cup {b}
    /\ UNCHANGED <<config, session, started>>

\* The session is marked, for one of those that stopped the worker.
Mark(b) ==
    /\ b \in owed
    /\ session' = [session EXCEPT ![b] = IF @ = None THEN None ELSE "STOPPED"]
    /\ owed' \in {owed, owed \ {b}}
    /\ UNCHANGED <<config, worker, started>>

\* The goroutine of b reports, whether or not b still has its worker.
Beat(b) ==
    /\ b \in started
    /\ session' = [session EXCEPT ![b] = "RUNNING"]
    /\ owed' = IF b \in Running THEN owed ELSE owed \cup {b}
    /\ UNCHANGED <<config, worker, started>>

\* All workers and goroutines are lost, the documents are not.
Crash ==
    /\ worker' = [b \in Bot |-> None]
    /\ started' = {}
    /\ owed' = owed \cup Running
    /\ UNCHANGED <<config, session>>

Next == \/ \E b \in Bot, c \in Config : \/ Persist(b, c) \/ Replace(b, c)
                                        \/ Start(b, c) \/ Push(b, c)
        \/ \E b \in Bot : Remove(b) \/ Stop(b) \/ Mark(b) \/ Beat(b)
        \/ Crash

Spec == Init /\ [][Next]_vars
==============================================================================
