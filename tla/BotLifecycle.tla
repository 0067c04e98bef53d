---------------------------- MODULE BotLifecycle -----------------------------
(***************************************************************************)
(* What the Bot Registry promises to the outside world, without locks,     *)
(* shards or calls in progress: a bot is absent or in one of the worker    *)
(* states; it appears in NORMAL, moves only along the edges of the worker  *)
(* state machine, and disappears from any state.  Orchestrator.tla is      *)
(* shown to implement this module.                                         *)
(***************************************************************************)
EXTENDS WorkerFSM

CONSTANT Bot      \* the bot ids

VARIABLE status   \* status[b]: "ABSENT", or the state of b's worker

Status == WorkerState \cup {"ABSENT"}

TypeOK == status \in [Bot -> Status]

Present == {b \in Bot : status[b] # "ABSENT"}

Init == status = [b \in Bot |-> "ABSENT"]

\* One successful StartBot: only an absent bot can be registered.
Register(b) ==
    /\ b \notin Present
    /\ status' = [status EXCEPT ![b] = StateOfNewWorker]

\* One successful Transition of the worker of a present bot.
Move(b) ==
    /\ b \in Present
    /\ \E next \in validTransitions[status[b]] :
          status' = [status EXCEPT ![b] = next]

\* StopBot removes one bot; StopAll removes all bots of one shard at a time.
Remove(B) ==
    /\ B # {}
    /\ B \subseteq Present
    /\ status' = [b \in Bot |-> IF b \in B THEN "ABSENT" ELSE status[b]]

Next == \/ \E b \in Bot : Register(b) \/ Move(b)
        \/ \E B \in SUBSET Bot : Remove(B)

Spec == Init /\ [][Next]_status
==============================================================================
