-------------------------- MODULE OrchestratorProofs -------------------------
(***************************************************************************)
(* The theorems about the Bot Registry, for any set of bots, workers and   *)
(* callers and any number of shards.  IndInv is the inductive invariant:   *)
(* the safety properties need each other and three facts more, that a      *)
(* worker is in the map, or in a history, only after it was allocated,     *)
(* that the entry a call holds is registered under no other bot, and that  *)
(* a call which is not a sweep has visited no shard.                       *)
(***************************************************************************)
EXTENDS Orchestrator, TLAPS

\* What is registered, and what a sweep remembers, was allocated before.
OnlyAllocated ==
    /\ WorkersOf(registry) \subseteq allocated
    /\ \A c \in Caller : always[c] \subseteq allocated

\* The entry that PauseBot or ResumeBot goes on with is its own bot's, or is no
\* longer registered.
HandleIsOwn ==
    \A c \in Caller : pc[c] \in {"pausing", "resuming"} =>
        /\ handle[c] \in allocated
        /\ \A b \in Bot : registry[b] = handle[c] => b = bot[c]

\* Only a sweep has a position.
OnlySweepsMove ==
    \A c \in Caller : pc[c] \notin Sweeps => at[c] = 0 /\ ids[c] = {}

IndInv == /\ TypeOK
          /\ LockProtectsCheck
          /\ NoSharedWorker
          /\ OnlyAllocated
          /\ HandleIsOwn
          /\ OnlySweepsMove
          /\ StopAllSweeps
          /\ ListingIsWeakSnapshot

USE ConstantsAssumption
------------------------------------------------------------------------------
\* The worker state machine stays within its states, whatever is asked of it.
LEMMA TransitionType ==
    \A s \in WorkerState : \A next \in WorkerState :
        Transition(s, next) \in WorkerState
BY DEF Transition, Allowed, WorkerState

\* The histories are well typed after any step that leaves pc and the
\* registry well typed.
LEMMA ObserveType ==
    ASSUME TypeOK, Observe, registry' \in [Bot -> Worker \cup {NoWorker}]
    PROVE  /\ always' \in [Caller -> SUBSET Worker]
           /\ ever' \in [Caller -> SUBSET Bot]
<1>1. /\ WorkersOf(registry') \subseteq Worker
      /\ Registered(registry') \subseteq Bot
  BY DEF WorkersOf, Registered
<1>2. /\ always \in [Caller -> SUBSET Worker]
      /\ ever \in [Caller -> SUBSET Bot]
  BY DEF TypeOK
<1>3. always' \in [Caller -> SUBSET Worker]
  BY <1>1, <1>2 DEF Observe
<1>4. ever' \in [Caller -> SUBSET Bot]
  BY <1>1, <1>2 DEF Observe
<1> QED
  BY <1>3, <1>4

\* One step keeps every variable in its type.
LEMMA TypeStep == TypeOK /\ [Next]_vars => TypeOK'
<1> SUFFICES ASSUME TypeOK, [Next]_vars PROVE TypeOK'
  OBVIOUS
<1> USE DEF TypeOK, PC, AboutBot, Lookup, Sweeps, Shard
<1>1. ASSUME NEW c \in Caller, NEW op \in Lookup, NEW b \in Bot, Call(c, op, b)
      PROVE  TypeOK'
  BY <1>1, ObserveType DEF Call
<1>2. ASSUME NEW c \in Caller, NEW op \in Sweeps, CallSweep(c, op)
      PROVE  TypeOK'
  BY <1>2, ObserveType DEF CallSweep, Goto
<1>3. ASSUME NEW c \in Caller, StartLock(c)
      PROVE  TypeOK'
  <2>1. bot[c] \in Bot /\ bucket[bot[c]] \in Shard
    BY <1>3 DEF StartLock
  <2>2. holder' \in [Shard -> Caller \cup {NoCaller}]
    BY <1>3, <2>1 DEF StartLock
  <2>3. CASE Return(c)
    BY <1>3, <2>1, <2>2, <2>3, ObserveType DEF StartLock, Return
  <2>4. CASE Goto(c, "factory")
    BY <1>3, <2>1, <2>2, <2>4, ObserveType DEF StartLock, Goto
  <2> QED
    BY <1>3, <2>3, <2>4 DEF StartLock
<1>4. ASSUME NEW c \in Caller, StartReturn(c)
      PROVE  TypeOK'
  <2>1. bot[c] \in Bot /\ bucket[bot[c]] \in Shard
    BY <1>4 DEF StartReturn
  <2>2. /\ registry' \in [Bot -> Worker \cup {NoWorker}]
        /\ state' \in [Worker -> WorkerState]
        /\ allocated' \in SUBSET Worker
    <3>1. CASE UNCHANGED <<registry, state, allocated>>
      BY <3>1
    <3>2. ASSUME NEW w \in Worker \ allocated,
                 registry' = [registry EXCEPT ![bot[c]] = w],
                 state' = [state EXCEPT ![w] = StateOfNewWorker],
                 allocated' = allocated \cup {w}
          PROVE  /\ registry' \in [Bot -> Worker \cup {NoWorker}]
                 /\ state' \in [Worker -> WorkerState]
                 /\ allocated' \in SUBSET Worker
      BY <2>1, <3>2 DEF StateOfNewWorker, WorkerState
    <3> QED
      BY <1>4, <3>1, <3>2 DEF StartReturn
  <2>3. holder' \in [Shard -> Caller \cup {NoCaller}]
    BY <1>4, <2>1 DEF StartReturn
  <2>4. /\ pc' = [pc EXCEPT ![c] = "idle"]
        /\ bot' = [bot EXCEPT ![c] = NoBot]
        /\ UNCHANGED <<handle, at, ids>>
        /\ Observe
    BY <1>4 DEF StartReturn, Return
  <2> QED
    BY <2>2, <2>3, <2>4, ObserveType
<1>5. ASSUME NEW c \in Caller, GetEntry(c)
      PROVE  TypeOK'
  <2>1. /\ bot[c] \in Bot
        /\ registry[bot[c]] \in Worker \cup {NoWorker}
        /\ handle' = [handle EXCEPT ![c] = registry[bot[c]]]
        /\ UNCHANGED <<registry, state, allocated, holder, at, ids>>
        /\ Observe
    BY <1>5 DEF GetEntry
  <2>2. handle' \in [Caller -> Worker \cup {NoWorker}]
    BY <2>1
  <2>3. CASE Return(c)
    <3>1. /\ pc' \in [Caller -> PC] /\ bot' \in [Caller -> Bot \cup {NoBot}]
          /\ pc' = [pc EXCEPT ![c] = "idle"] /\ bot' = [bot EXCEPT ![c] = NoBot]
      BY <2>3 DEF Return
    <3>2. ASSUME NEW d \in Caller
          PROVE  /\ pc'[d] \in AboutBot => bot'[d] \in Bot
                 /\ pc'[d] \in {"pausing", "resuming"} => handle'[d] \in Worker
      BY <2>1, <3>1
    <3> QED
      BY <2>1, <2>2, <3>1, <3>2, ObserveType
  <2>4. CASE /\ registry[bot[c]] # NoWorker
             /\ Goto(c, IF pc[c] = "pause" THEN "pausing" ELSE "resuming")
    <3>1. /\ pc' \in [Caller -> PC]
          /\ pc' = [pc EXCEPT ![c] = IF pc[c] = "pause" THEN "pausing" ELSE "resuming"]
          /\ UNCHANGED bot
      BY <2>4 DEF Goto
    <3>2. ASSUME NEW d \in Caller
          PROVE  /\ pc'[d] \in AboutBot => bot'[d] \in Bot
                 /\ pc'[d] \in {"pausing", "resuming"} => handle'[d] \in Worker
      BY <2>1, <2>4, <3>1
    <3> QED
      BY <2>1, <2>2, <3>1, <3>2, ObserveType
  <2> QED
    BY <1>5, <2>3, <2>4 DEF GetEntry
<1>6. ASSUME NEW c \in Caller, MoveWorker(c)
      PROVE  TypeOK'
  BY <1>6, ObserveType, TransitionType DEF MoveWorker, Return, WorkerState
<1>7. ASSUME NEW c \in Caller, StopBot(c)
      PROVE  TypeOK'
  BY <1>7, ObserveType DEF StopBot, Return, Without
<1>8. ASSUME NEW c \in Caller, SweepShard(c)
      PROVE  TypeOK'
  BY <1>8, ObserveType DEF SweepShard, Without
<1>9. ASSUME NEW c \in Caller, ListShard(c)
      PROVE  TypeOK'
  BY <1>9, ObserveType DEF ListShard, InShard
<1>10. ASSUME NEW c \in Caller, SweepReturn(c)
       PROVE  TypeOK'
  BY <1>10, ObserveType DEF SweepReturn, Return
<1>11. ASSUME NEW w \in Worker, Throttle(w)
       PROVE  TypeOK'
  BY <1>11, ObserveType, TransitionType DEF Throttle, callVars, WorkerState
<1>12. CASE UNCHANGED vars
  BY <1>12 DEF vars, callVars
<1> HIDE DEF TypeOK
<1> QED
  BY <1>1, <1>2, <1>3, <1>4, <1>5, <1>6, <1>7, <1>8, <1>9, <1>10, <1>11, <1>12
  DEF Next, Proceed
------------------------------------------------------------------------------
(* What one step can do to the map, and to the position of a sweep. *)

\* Entries only disappear, ...
Shrinks == /\ allocated' = allocated
           /\ \A b \in Bot : registry'[b] \in {registry[b], NoWorker}

\* ... or one absent bot gets a worker that is new.
Inserts(b, w) == /\ w \notin allocated
                 /\ allocated' = allocated \cup {w}
                 /\ registry[b] = NoWorker
                 /\ registry' = [registry EXCEPT ![b] = w]
                 /\ state' = [state EXCEPT ![w] = StateOfNewWorker]

LEMMA RegistryStep ==
    ASSUME TypeOK, LockProtectsCheck, [Next]_vars
    PROVE  Shrinks \/ \E b \in Bot, w \in Worker : Inserts(b, w)
<1>1. ASSUME registry' = registry, allocated' = allocated
      PROVE  Shrinks
  BY <1>1 DEF Shrinks
<1>2. ASSUME NEW B \in SUBSET Bot, registry' = Without(registry, B),
             allocated' = allocated
      PROVE  Shrinks
  BY <1>2 DEF Shrinks, Without
<1>3. ASSUME NEW c \in Caller, StartReturn(c)
      PROVE  Shrinks \/ \E b \in Bot, w \in Worker : Inserts(b, w)
  <2>1. bot[c] \in Bot /\ registry[bot[c]] = NoWorker
    BY <1>3 DEF StartReturn, TypeOK, AboutBot, LockProtectsCheck
  <2>2. CASE UNCHANGED <<registry, state, allocated>>
    BY <1>1, <2>2
  <2>3. ASSUME NEW w \in Worker \ allocated,
               registry' = [registry EXCEPT ![bot[c]] = w],
               state' = [state EXCEPT ![w] = StateOfNewWorker],
               allocated' = allocated \cup {w}
        PROVE  Inserts(bot[c], w)
    BY <2>1, <2>3 DEF Inserts
  <2> QED
    BY <1>3, <2>1, <2>2, <2>3 DEF StartReturn
<1>4. ASSUME NEW c \in Caller, StopBot(c)
      PROVE  Shrinks
  <2>1. {bot[c]} \in SUBSET Bot
    BY <1>4 DEF StopBot, TypeOK, AboutBot, Lookup
  <2> QED
    BY <1>2, <1>4, <2>1 DEF StopBot
<1>5. ASSUME NEW c \in Caller, SweepShard(c)
      PROVE  Shrinks
  <2>1. InShard(at[c]) \in SUBSET Bot
    BY DEF InShard
  <2> QED
    BY <1>2, <1>5, <2>1 DEF SweepShard
<1>6. ASSUME NEW c \in Caller,
             \/ StartLock(c) \/ GetEntry(c) \/ MoveWorker(c)
             \/ ListShard(c) \/ SweepReturn(c)
      PROVE  Shrinks
  BY <1>1, <1>6 DEF StartLock, GetEntry, MoveWorker, ListShard, SweepReturn
<1>7. ASSUME NEW c \in Caller, NEW op \in Lookup, NEW b \in Bot,
             Call(c, op, b)
      PROVE  Shrinks
  BY <1>1, <1>7 DEF Call
<1>8. ASSUME NEW c \in Caller, NEW op \in Sweeps, CallSweep(c, op)
      PROVE  Shrinks
  BY <1>1, <1>8 DEF CallSweep
<1>9. ASSUME NEW w \in Worker, Throttle(w)
      PROVE  Shrinks
  BY <1>1, <1>9 DEF Throttle
<1>10. CASE UNCHANGED vars
  BY <1>1, <1>10 DEF vars
<1> QED
  BY <1>3, <1>4, <1>5, <1>6, <1>7, <1>8, <1>9, <1>10 DEF Next, Proceed

\* A sweep that is under way after the step has just begun, has not moved, has
\* emptied its shard, or has listed it.
LEMMA SweepStep ==
    ASSUME TypeOK, [Next]_vars, NEW c \in Caller, pc'[c] \in Sweeps
    PROVE  \/ /\ pc[c] \notin Sweeps \/ pc[c] = pc'[c]
              /\ at'[c] = at[c]
              /\ ids'[c] = ids[c]
           \/ /\ pc[c] = "stopall" /\ pc'[c] = "stopall"
              /\ at'[c] = at[c] + 1
              /\ ids'[c] = ids[c]
              /\ \A b \in InShard(at[c]) : registry'[b] = NoWorker
           \/ /\ pc[c] = "list" /\ pc'[c] = "list"
              /\ at'[c] = at[c] + 1
              /\ ids'[c] = ids[c] \cup (InShard(at[c]) \cap Registered(registry))
              /\ registry' = registry
<1> DEFINE Stays == /\ pc[c] \notin Sweeps \/ pc[c] = pc'[c]
                    /\ at'[c] = at[c]
                    /\ ids'[c] = ids[c]
<1>1. ASSUME NEW d \in Caller, NEW op \in Lookup, NEW b \in Bot,
             Call(d, op, b)
      PROVE  Stays
  BY <1>1 DEF Call, TypeOK, Sweeps
<1>2. ASSUME NEW d \in Caller, NEW op \in Sweeps, CallSweep(d, op)
      PROVE  Stays
  BY <1>2 DEF CallSweep, Goto, TypeOK, Sweeps
<1>3. ASSUME NEW d \in Caller,
             StartLock(d) \/ StartReturn(d) \/ GetEntry(d) \/ MoveWorker(d) \/ StopBot(d)
      PROVE  Stays
  BY <1>3 DEF StartLock, StartReturn, GetEntry, MoveWorker, StopBot,
              Goto, Return, TypeOK, Sweeps
<1>4. ASSUME NEW d \in Caller, SweepReturn(d)
      PROVE  Stays
  BY <1>4 DEF SweepReturn, Return, TypeOK, Sweeps
<1>5. ASSUME NEW d \in Caller, d # c, SweepShard(d) \/ ListShard(d)
      PROVE  Stays
  BY <1>5 DEF SweepShard, ListShard, TypeOK
<1>6. ASSUME SweepShard(c)
      PROVE  /\ pc[c] = "stopall" /\ pc'[c] = "stopall"
             /\ at'[c] = at[c] + 1
             /\ ids'[c] = ids[c]
             /\ \A b \in InShard(at[c]) : registry'[b] = NoWorker
  BY <1>6 DEF SweepShard, TypeOK, Without, InShard
<1>7. ASSUME ListShard(c)
      PROVE  /\ pc[c] = "list" /\ pc'[c] = "list"
             /\ at'[c] = at[c] + 1
             /\ ids'[c] = ids[c] \cup (InShard(at[c]) \cap Registered(registry))
             /\ registry' = registry
  BY <1>7 DEF ListShard, TypeOK
<1>8. ASSUME NEW w \in Worker, Throttle(w)
      PROVE  Stays
  BY <1>8 DEF Throttle, callVars
<1>9. ASSUME UNCHANGED vars
      PROVE  Stays
  BY <1>9 DEF vars, callVars
<1> HIDE DEF Stays
<1>10. ASSUME NEW d \in Caller, Proceed(d)
       PROVE  Stays \/ SweepShard(c) \/ ListShard(c)
  BY <1>3, <1>4, <1>5, <1>10 DEF Proceed
<1>11. Stays \/ SweepShard(c) \/ ListShard(c)
  BY <1>1, <1>2, <1>8, <1>9, <1>10 DEF Next
<1> QED
  BY <1>6, <1>7, <1>11 DEF Stays
------------------------------------------------------------------------------
(* The histories, and the inductive invariant part by part. *)

\* What a history becomes in a step: it is cut to, or extended by, what is
\* registered after the step.
LEMMA ObserveStep ==
    ASSUME TypeOK, [Next]_vars, NEW c \in Caller, pc'[c] \in Sweeps
    PROVE  /\ pc[c] \in Sweeps =>
                 always'[c] \subseteq always[c] /\ ever[c] \subseteq ever'[c]
           /\ ~(UNCHANGED vars) =>
                 /\ always'[c] \subseteq WorkersOf(registry')
                 /\ Registered(registry') \subseteq ever'[c]
<1>1. Observe \/ UNCHANGED vars
  BY DEF Next, Proceed, Call, CallSweep, StartLock, StartReturn, GetEntry,
         MoveWorker, StopBot, SweepShard, ListShard, SweepReturn, Throttle
<1>2. CASE Observe
  BY <1>2 DEF Observe
<1>3. CASE UNCHANGED vars
  BY <1>3 DEF vars
<1> QED
  BY <1>1, <1>2, <1>3

LEMMA LockStep ==
    TypeOK /\ TypeOK' /\ LockProtectsCheck /\ [Next]_vars => LockProtectsCheck'
<1> SUFFICES ASSUME TypeOK, TypeOK', LockProtectsCheck, [Next]_vars
             PROVE  LockProtectsCheck'
  OBVIOUS
<1> USE DEF LockProtectsCheck
<1>1. ASSUME NEW c \in Caller, NEW op \in Lookup, NEW b \in Bot, Call(c, op, b)
      PROVE  LockProtectsCheck'
  BY <1>1 DEF Call, TypeOK, Lookup
<1>2. ASSUME NEW c \in Caller, NEW op \in Sweeps, CallSweep(c, op)
      PROVE  LockProtectsCheck'
  BY <1>2 DEF CallSweep, Goto, TypeOK, Sweeps
<1>3. ASSUME NEW c \in Caller, StartLock(c)
      PROVE  LockProtectsCheck'
  <2>1. bot[c] \in Bot /\ bucket[bot[c]] \in Shard
    BY <1>3 DEF StartLock, TypeOK, AboutBot, Lookup, Shard
  <2>2. CASE Return(c) /\ UNCHANGED holder
    BY <1>3, <2>1, <2>2 DEF StartLock, Return, TypeOK
  <2>3. CASE /\ registry[bot[c]] = NoWorker
             /\ Goto(c, "factory")
             /\ holder' = [holder EXCEPT ![bucket[bot[c]]] = c]
    BY <1>3, <2>1, <2>3 DEF StartLock, Goto, Free, TypeOK
  <2> QED
    BY <1>3, <2>2, <2>3 DEF StartLock
<1>4. ASSUME NEW c \in Caller, StartReturn(c)
      PROVE  LockProtectsCheck'
  <2>1. bot[c] \in Bot /\ bucket[bot[c]] \in Shard
    BY <1>4 DEF StartReturn, TypeOK, AboutBot, Shard
  <2>2. \A b \in Bot \ {bot[c]} : registry'[b] = registry[b]
    BY <1>4, <2>1 DEF StartReturn, TypeOK
  <2>3. ASSUME NEW d \in Caller, pc'[d] = "factory"
        PROVE  holder'[bucket[bot'[d]]] = d /\ registry'[bot'[d]] = NoWorker
    <3>1. d # c /\ pc[d] = "factory" /\ bot'[d] = bot[d]
      BY <1>4, <2>3 DEF StartReturn, Return, TypeOK
    <3>2. bot[d] \in Bot /\ bucket[bot[d]] \in Shard
      BY <3>1 DEF TypeOK, AboutBot, Shard
    <3>3. bucket[bot[d]] # bucket[bot[c]]
      BY <1>4, <3>1 DEF StartReturn
    <3> QED
      BY <1>4, <2>1, <2>2, <3>1, <3>2, <3>3 DEF StartReturn, TypeOK
  <2>4. ASSUME NEW d \in Caller, NEW s \in Shard, holder'[s] = d
        PROVE  pc'[d] = "factory" /\ bucket[bot'[d]] = s
    <3>1. s # bucket[bot[c]] /\ holder[s] = d
      BY <1>4, <2>1, <2>4 DEF StartReturn, TypeOK
    <3>2. d # c
      BY <2>1, <3>1
    <3> QED
      BY <1>4, <3>1, <3>2 DEF StartReturn, Return, TypeOK
  <2> QED
    BY <2>3, <2>4
<1>5. ASSUME NEW c \in Caller, GetEntry(c) \/ MoveWorker(c) \/ SweepReturn(c)
      PROVE  LockProtectsCheck'
  BY <1>5 DEF GetEntry, MoveWorker, SweepReturn, Goto, Return, TypeOK, Sweeps
<1>6. ASSUME NEW c \in Caller, StopBot(c)
      PROVE  LockProtectsCheck'
  BY <1>6 DEF StopBot, Return, Without, TypeOK, AboutBot, Lookup
<1>7. ASSUME NEW c \in Caller, SweepShard(c) \/ ListShard(c)
      PROVE  LockProtectsCheck'
  BY <1>7 DEF SweepShard, ListShard, Without, TypeOK, AboutBot
<1>8. ASSUME NEW w \in Worker, Throttle(w)
      PROVE  LockProtectsCheck'
  BY <1>8 DEF Throttle, callVars
<1>9. CASE UNCHANGED vars
  BY <1>9 DEF vars, callVars
<1> HIDE DEF LockProtectsCheck
<1> QED
  BY <1>1, <1>2, <1>3, <1>4, <1>5, <1>6, <1>7, <1>8, <1>9 DEF Next, Proceed

LEMMA WorkerStep ==
    ASSUME TypeOK, TypeOK', LockProtectsCheck, [Next]_vars,
           NoSharedWorker, OnlyAllocated
    PROVE  NoSharedWorker' /\ OnlyAllocated'
<1>1. NoSharedWorker' /\ WorkersOf(registry') \subseteq allocated'
  <2>1. CASE Shrinks
    BY <2>1 DEF Shrinks, NoSharedWorker, OnlyAllocated, WorkersOf, Registered, TypeOK
  <2>2. ASSUME NEW b \in Bot, NEW w \in Worker, Inserts(b, w)
        PROVE  NoSharedWorker' /\ WorkersOf(registry') \subseteq allocated'
    <3>1. \A a \in Bot : registry'[a] = IF a = b THEN w ELSE registry[a]
      BY <2>2 DEF Inserts, TypeOK
    <3>2. \A a \in Bot : registry[a] # w
      BY <2>2 DEF Inserts, OnlyAllocated, WorkersOf, Registered
    <3> QED
      BY <2>2, <3>1, <3>2
      DEF Inserts, NoSharedWorker, OnlyAllocated, WorkersOf, Registered
  <2> QED
    BY <2>1, <2>2, RegistryStep
<1>2. ASSUME NEW c \in Caller
      PROVE  always'[c] \subseteq allocated'
  <2>1. CASE UNCHANGED vars
    BY <2>1 DEF vars, OnlyAllocated
  <2>2. CASE Observe
    BY <1>1, <2>2 DEF Observe
  <2> QED
    BY <2>1, <2>2 DEF Next, Proceed, Call, CallSweep, StartLock, StartReturn,
         GetEntry, MoveWorker, StopBot, SweepShard, ListShard, SweepReturn, Throttle
<1> QED
  BY <1>1, <1>2 DEF OnlyAllocated

LEMMA PositionStep ==
    ASSUME TypeOK, OnlySweepsMove, [Next]_vars
    PROVE  OnlySweepsMove'
<1> USE DEF OnlySweepsMove, TypeOK, Sweeps
<1>1. ASSUME NEW c \in Caller, NEW op \in Lookup, NEW b \in Bot, Call(c, op, b)
      PROVE  OnlySweepsMove'
  BY <1>1 DEF Call
<1>2. ASSUME NEW c \in Caller, NEW op \in Sweeps, CallSweep(c, op)
      PROVE  OnlySweepsMove'
  BY <1>2 DEF CallSweep, Goto
<1>3. ASSUME NEW c \in Caller,
             StartLock(c) \/ StartReturn(c) \/ GetEntry(c) \/ MoveWorker(c) \/ StopBot(c)
      PROVE  OnlySweepsMove'
  BY <1>3 DEF StartLock, StartReturn, GetEntry, MoveWorker, StopBot, Goto, Return
<1>4. ASSUME NEW c \in Caller, SweepShard(c) \/ ListShard(c) \/ SweepReturn(c)
      PROVE  OnlySweepsMove'
  BY <1>4 DEF SweepShard, ListShard, SweepReturn, Return
<1>5. ASSUME NEW w \in Worker, Throttle(w)
      PROVE  OnlySweepsMove'
  BY <1>5 DEF Throttle, callVars
<1>6. CASE UNCHANGED vars
  BY <1>6 DEF vars, callVars
<1> HIDE DEF OnlySweepsMove, TypeOK
<1> QED
  BY <1>1, <1>2, <1>3, <1>4, <1>5, <1>6 DEF Next, Proceed

\* A worker that a history still names after the step was registered under the
\* same bot before it, or the sweep has just begun.
LEMMA OldWorker ==
    ASSUME TypeOK, TypeOK', LockProtectsCheck, OnlyAllocated, [Next]_vars,
           NEW c \in Caller, pc[c] \in Sweeps, pc'[c] \in Sweeps,
           NEW b \in Bot, registry'[b] \in always'[c]
    PROVE  registry[b] = registry'[b] /\ registry[b] \in always[c]
<1>1. registry'[b] \in always[c] /\ registry'[b] \in Worker
  BY ObserveStep DEF TypeOK
<1>2. CASE Shrinks
  BY <1>1, <1>2 DEF Shrinks
<1>3. ASSUME NEW d \in Bot, NEW w \in Worker, Inserts(d, w)
      PROVE  registry[b] = registry'[b]
  BY <1>1, <1>3 DEF Inserts, OnlyAllocated, TypeOK
<1> QED
  BY <1>1, <1>2, <1>3, RegistryStep

\* A call that holds an entry after the step has just got it, or held it before.
LEMMA HandleStep ==
    ASSUME IndInv, TypeOK', [Next]_vars
    PROVE  HandleIsOwn'
<1> USE DEF IndInv
<1> SUFFICES ASSUME NEW c \in Caller, pc'[c] \in {"pausing", "resuming"}
             PROVE  /\ handle'[c] \in allocated'
                    /\ \A b \in Bot : registry'[b] = handle'[c] => b = bot'[c]
  BY DEF HandleIsOwn
<1> DEFINE Kept == /\ pc[c] = pc'[c]
                   /\ handle'[c] = handle[c]
                   /\ bot'[c] = bot[c]
<1>1. CASE GetEntry(c)
  <2>1. /\ registry' = registry /\ allocated' = allocated
        /\ handle'[c] = registry[bot[c]] /\ bot'[c] = bot[c]
        /\ bot[c] \in Bot /\ registry[bot[c]] # NoWorker
    BY <1>1 DEF GetEntry, Goto, Return, TypeOK, AboutBot, Lookup
  <2> QED
    BY <2>1 DEF NoSharedWorker, OnlyAllocated, WorkersOf, Registered
<1>2. ASSUME Kept
      PROVE  /\ handle'[c] \in allocated'
             /\ \A b \in Bot : registry'[b] = handle'[c] => b = bot'[c]
  <2>1. /\ handle[c] \in allocated /\ handle[c] \in Worker
        /\ \A b \in Bot : registry[b] = handle[c] => b = bot[c]
    BY <1>2 DEF HandleIsOwn, TypeOK
  <2>2. CASE Shrinks
    BY <1>2, <2>1, <2>2 DEF Shrinks
  <2>3. ASSUME NEW d \in Bot, NEW w \in Worker, Inserts(d, w)
        PROVE  /\ handle'[c] \in allocated'
               /\ \A b \in Bot : registry'[b] = handle'[c] => b = bot'[c]
    BY <1>2, <2>1, <2>3 DEF Inserts, TypeOK
  <2> QED
    BY <2>2, <2>3, RegistryStep
<1>3. ASSUME NEW d \in Caller, NEW op \in Lookup, NEW b \in Bot, Call(d, op, b)
      PROVE  Kept
  BY <1>3 DEF Call, TypeOK, Lookup
<1>4. ASSUME NEW d \in Caller, NEW op \in Sweeps, CallSweep(d, op)
      PROVE  Kept
  BY <1>4 DEF CallSweep, Goto, TypeOK, Sweeps
<1>5. ASSUME NEW d \in Caller,
             \/ StartLock(d) \/ StartReturn(d) \/ MoveWorker(d) \/ StopBot(d)
             \/ SweepShard(d) \/ ListShard(d) \/ SweepReturn(d)
      PROVE  Kept
  BY <1>5 DEF StartLock, StartReturn, MoveWorker, StopBot, SweepShard,
              ListShard, SweepReturn, Goto, Return, TypeOK
<1>6. ASSUME NEW d \in Caller, d # c, GetEntry(d)
      PROVE  Kept
  BY <1>6 DEF GetEntry, Goto, Return, TypeOK
<1>7. ASSUME NEW w \in Worker, Throttle(w)
      PROVE  Kept
  BY <1>7 DEF Throttle, callVars
<1>8. ASSUME UNCHANGED vars
      PROVE  Kept
  BY <1>8 DEF vars, callVars
<1> HIDE DEF Kept
<1>9. ASSUME NEW d \in Caller, Proceed(d)
      PROVE  Kept \/ GetEntry(c)
  BY <1>5, <1>6, <1>9 DEF Proceed
<1>10. Kept \/ GetEntry(c)
  BY <1>3, <1>4, <1>7, <1>8, <1>9 DEF Next
<1> QED
  BY <1>1, <1>2, <1>10

LEMMA StopAllStep ==
    ASSUME IndInv, TypeOK', [Next]_vars
    PROVE  StopAllSweeps'
<1> SUFFICES ASSUME NEW c \in Caller, pc'[c] = "stopall",
                    NEW b \in Bot, bucket[b] < at'[c],
                    registry'[b] \in always'[c]
             PROVE  FALSE
  BY DEF StopAllSweeps
<1> USE DEF IndInv
<1>1. at[c] \in Nat /\ bucket[b] \in Nat /\ registry'[b] # NoWorker
  BY DEF TypeOK
<1>2. CASE pc[c] \notin Sweeps
  BY <1>1, <1>2, SweepStep DEF OnlySweepsMove, Sweeps
<1>3. CASE pc[c] \in Sweeps
  <2>1. registry[b] = registry'[b] /\ registry[b] \in always[c]
    BY <1>3, OldWorker DEF Sweeps
  <2>2. pc[c] = "stopall" /\ ~(bucket[b] < at[c])
    BY <1>3, <2>1, SweepStep DEF StopAllSweeps, Sweeps
  <2>3. b \in InShard(at[c]) /\ at'[c] = at[c] + 1
    BY <1>1, <2>2, SweepStep DEF InShard, Sweeps
  <2> QED
    BY <1>1, <2>2, <2>3, SweepStep DEF Sweeps
<1> QED
  BY <1>2, <1>3

LEMMA ListStep ==
    ASSUME IndInv, TypeOK', [Next]_vars
    PROVE  ListingIsWeakSnapshot'
<1> USE DEF IndInv
<1>1. ASSUME NEW c \in Caller, pc'[c] = "list"
      PROVE  ids'[c] \subseteq ever'[c]
  <2>1. CASE pc[c] \notin Sweeps
    BY <1>1, <2>1, SweepStep DEF OnlySweepsMove, Sweeps
  <2>2. CASE pc[c] \in Sweeps
    <3>1. pc[c] = "list" /\ ever[c] \subseteq ever'[c] /\ ids[c] \subseteq ever[c]
      BY <1>1, <2>2, SweepStep, ObserveStep DEF Sweeps, ListingIsWeakSnapshot
    <3>2. CASE ids'[c] = ids[c]
      BY <3>1, <3>2
    <3>3. CASE /\ at'[c] = at[c] + 1
               /\ ids'[c] = ids[c] \cup (InShard(at[c]) \cap Registered(registry))
               /\ registry' = registry
      <4>1. ~(UNCHANGED vars)
        BY <3>3 DEF vars, callVars, TypeOK
      <4> QED
        BY <1>1, <3>1, <3>3, <4>1, ObserveStep DEF Sweeps
    <3> QED
      BY <1>1, <3>1, <3>2, <3>3, SweepStep DEF Sweeps
  <2> QED
    BY <2>1, <2>2
<1>2. ASSUME NEW c \in Caller, pc'[c] = "list",
             NEW b \in Bot, bucket[b] < at'[c], registry'[b] \in always'[c]
      PROVE  b \in ids'[c]
  <2>1. at[c] \in Nat /\ bucket[b] \in Nat /\ registry'[b] # NoWorker
    BY <1>2 DEF TypeOK
  <2>2. CASE pc[c] \notin Sweeps
    BY <1>2, <2>1, <2>2, SweepStep DEF OnlySweepsMove, Sweeps
  <2>3. CASE pc[c] \in Sweeps
    <3>1. registry[b] = registry'[b] /\ registry[b] \in always[c] /\ pc[c] = "list"
      BY <1>2, <2>3, OldWorker, SweepStep DEF Sweeps
    <3>2. CASE bucket[b] < at[c]
      BY <1>2, <3>1, <3>2, SweepStep DEF ListingIsWeakSnapshot, Sweeps
    <3>3. CASE ~(bucket[b] < at[c])
      <4>1. b \in InShard(at[c]) /\ at'[c] = at[c] + 1
        BY <1>2, <2>1, <3>1, <3>3, SweepStep DEF InShard, Sweeps
      <4>2. b \in Registered(registry)
        BY <2>1, <3>1 DEF Registered
      <4> QED
        BY <1>2, <2>1, <3>1, <4>1, <4>2, SweepStep DEF Sweeps
    <3> QED
      BY <3>2, <3>3
  <2> QED
    BY <2>2, <2>3
<1> QED
  BY <1>1, <1>2 DEF ListingIsWeakSnapshot
------------------------------------------------------------------------------
(* The theorems *)

LEMMA InitInv == Init => IndInv
<1> SUFFICES ASSUME Init PROVE IndInv
  OBVIOUS
<1>1. TypeOK
  BY DEF Init, TypeOK, StateOfNewWorker, WorkerState, PC, AboutBot, Lookup, Sweeps
<1>2. LockProtectsCheck
  BY DEF Init, LockProtectsCheck
<1>3. NoSharedWorker /\ OnlyAllocated /\ OnlySweepsMove
  BY DEF Init, NoSharedWorker, OnlyAllocated, OnlySweepsMove, WorkersOf, Registered
<1>4. StopAllSweeps /\ ListingIsWeakSnapshot /\ HandleIsOwn
  BY DEF Init, StopAllSweeps, ListingIsWeakSnapshot, HandleIsOwn
<1> QED
  BY <1>1, <1>2, <1>3, <1>4 DEF IndInv

LEMMA NextInv == IndInv /\ [Next]_vars => IndInv'
<1> SUFFICES ASSUME IndInv, [Next]_vars PROVE IndInv'
  OBVIOUS
<1>1. TypeOK'
  BY TypeStep DEF IndInv
<1> QED
  BY <1>1, LockStep, WorkerStep, HandleStep, PositionStep, StopAllStep, ListStep
  DEF IndInv

\* In every reachable state the variables have their types, and a call that is
\* past get holds a worker.
THEOREM TypeCorrect == Spec => []TypeOK
<1>1. Init => TypeOK
  BY InitInv DEF IndInv
<1> QED
  BY <1>1, TypeStep, PTL DEF Spec

\* The inductive invariant holds in every reachable state.
THEOREM Invariance == Spec => []IndInv
BY InitInv, NextInv, PTL DEF Spec

\* StartBot's check for the bot still holds when it inserts the worker.
THEOREM LockCorrect == Spec => []LockProtectsCheck
<1>1. IndInv => LockProtectsCheck
  BY DEF IndInv
<1> QED
  BY <1>1, Invariance, PTL

\* No two bots share a worker.
THEOREM NoSharing == Spec => []NoSharedWorker
<1>1. IndInv => NoSharedWorker
  BY DEF IndInv
<1> QED
  BY <1>1, Invariance, PTL

\* StopAll misses no worker that was registered when it was called.
THEOREM StopAllCorrect == Spec => []StopAllSweeps
<1>1. IndInv => StopAllSweeps
  BY DEF IndInv
<1> QED
  BY <1>1, Invariance, PTL

\* ActiveBotIDs lists what was there throughout, and nothing that never was.
THEOREM ListingCorrect == Spec => []ListingIsWeakSnapshot
<1>1. IndInv => ListingIsWeakSnapshot
  BY DEF IndInv
<1> QED
  BY <1>1, Invariance, PTL

\* StartBot never replaces a registered worker.
THEOREM OverwriteFree == Spec => NoOverwrite
<1>1. ASSUME IndInv, [Next]_vars, NEW b \in Registered(registry)
      PROVE  registry'[b] \in {registry[b], NoWorker}
  <2>1. CASE Shrinks
    BY <2>1 DEF Shrinks, Registered
  <2>2. ASSUME NEW d \in Bot, NEW w \in Worker, Inserts(d, w)
        PROVE  registry'[b] = registry[b]
    BY <1>1, <2>2 DEF Inserts, Registered, IndInv, TypeOK
  <2> QED
    BY <1>1, <2>1, <2>2, RegistryStep DEF IndInv
<1>2. IndInv /\ [Next]_vars =>
         [\A b \in Registered(registry) : registry'[b] \in {registry[b], NoWorker}]_vars
  BY <1>1
<1> QED
  BY <1>2, Invariance, PTL DEF Spec, NoOverwrite

\* What a step can do to the states of the workers: nothing, the one edge of a
\* PauseBot or ResumeBot, a throttle, or a fresh worker's first state.
LEMMA StateStep ==
    ASSUME TypeOK, [Next]_vars
    PROVE  \/ state' = state
           \/ \E c \in Caller : MoveWorker(c)
           \/ \E w \in Worker : Throttle(w)
           \/ \E c \in Caller, w \in Worker :
                 /\ pc[c] = "factory"
                 /\ w \notin allocated
                 /\ allocated' = allocated \cup {w}
                 /\ registry' = [registry EXCEPT ![bot[c]] = w]
                 /\ state' = [state EXCEPT ![w] = StateOfNewWorker]
<1>1. ASSUME NEW c \in Caller, StartReturn(c)
      PROVE  \/ state' = state
             \/ \E w \in Worker :
                   /\ pc[c] = "factory"
                   /\ w \notin allocated
                   /\ allocated' = allocated \cup {w}
                   /\ registry' = [registry EXCEPT ![bot[c]] = w]
                   /\ state' = [state EXCEPT ![w] = StateOfNewWorker]
  BY <1>1 DEF StartReturn
<1>2. ASSUME NEW c \in Caller,
             \/ StartLock(c) \/ GetEntry(c) \/ StopBot(c)
             \/ SweepShard(c) \/ ListShard(c) \/ SweepReturn(c)
      PROVE  state' = state
  BY <1>2 DEF StartLock, GetEntry, StopBot, SweepShard, ListShard, SweepReturn
<1>3. ASSUME NEW c \in Caller, NEW op \in Lookup, NEW b \in Bot, Call(c, op, b)
      PROVE  state' = state
  BY <1>3 DEF Call
<1>4. ASSUME NEW c \in Caller, NEW op \in Sweeps, CallSweep(c, op)
      PROVE  state' = state
  BY <1>4 DEF CallSweep
<1>5. ASSUME UNCHANGED vars
      PROVE  state' = state
  BY <1>5 DEF vars
<1> QED
  BY <1>1, <1>2, <1>3, <1>4, <1>5 DEF Next, Proceed

\* A paused worker that stays registered is released by nobody but a ResumeBot
\* that looked this worker up.
THEOREM PauseHolds == Spec => PauseHoldsUntilResume
<1> DEFINE Released(b) == /\ ~CanPlaceOrders(state[registry[b]])
                          /\ registry'[b] = registry[b]
                          /\ CanPlaceOrders(state'[registry[b]])
           ByResume(b) == \E c \in Caller : /\ pc[c] = "resuming"
                                           /\ bot[c] = b
                                           /\ handle[c] = registry[b]
<1>1. ASSUME IndInv, [Next]_vars, NEW b \in Registered(registry), Released(b)
      PROVE  ByResume(b)
  <2>1. /\ b \in Bot /\ registry[b] \in Worker /\ registry[b] \in allocated
        /\ state[registry[b]] = "PAUSE" /\ state'[registry[b]] # "PAUSE"
        /\ state \in [Worker -> WorkerState]
    BY <1>1 DEF IndInv, TypeOK, OnlyAllocated, WorkersOf, Registered, CanPlaceOrders
  <2>2. ASSUME NEW c \in Caller, MoveWorker(c)
        PROVE  ByResume(b)
    <3>1. handle[c] = registry[b]
      BY <2>1, <2>2 DEF MoveWorker
    <3>2. pc[c] = "resuming"
      BY <2>1, <2>2, <3>1 DEF MoveWorker, Transition, Allowed, validTransitions
    <3>3. bot[c] = b
      BY <1>1, <2>1, <3>1, <3>2 DEF IndInv, HandleIsOwn
    <3> QED
      BY <3>1, <3>2, <3>3
  <2>3. ASSUME NEW w \in Worker, Throttle(w)
        PROVE  FALSE
    BY <2>1, <2>3 DEF Throttle, Transition, Allowed, validTransitions
  <2>4. ASSUME NEW w \in Worker, w \notin allocated,
               state' = [state EXCEPT ![w] = StateOfNewWorker]
        PROVE  FALSE
    BY <2>1, <2>4
  <2> QED
    BY <1>1, <2>1, <2>2, <2>3, <2>4, StateStep DEF IndInv
<1>2. IndInv /\ [Next]_vars =>
         [\A b \in Registered(registry) :
             (/\ ~CanPlaceOrders(state[registry[b]])
              /\ registry'[b] = registry[b]
              /\ CanPlaceOrders(state'[registry[b]]))
             => \E c \in Caller : /\ pc[c] = "resuming"
                                  /\ bot[c] = b
                                  /\ handle[c] = registry[b]]_vars
  BY <1>1
<1> QED
  BY <1>2, Invariance, PTL DEF Spec, PauseHoldsUntilResume

\* A step in which one worker follows the table of allowed edges is a Move of
\* the one bot it belongs to, or is not seen.
LEMMA MoveRefines ==
    ASSUME IndInv, IndInv', NEW w \in Worker, NEW next \in WorkerState,
           registry' = registry,
           state' = [state EXCEPT ![w] = Transition(state[w], next)]
    PROVE  [Lifecycle!Next]_botStatus
<1> USE DEF IndInv
<1>1. CASE ~Allowed(state[w], next)
  <2>1. state' = state
    BY <1>1 DEF Transition, TypeOK
  <2> QED
    BY <2>1 DEF botStatus
<1>2. CASE Allowed(state[w], next) /\ \A b \in Bot : registry[b] # w
  <2>1. botStatus' = botStatus
    BY <1>2 DEF botStatus, TypeOK
  <2> QED
    BY <2>1
<1>3. ASSUME Allowed(state[w], next), NEW b \in Bot, registry[b] = w
      PROVE  Lifecycle!Move(b)
  <2>1. \A a \in Bot : registry[a] = w => a = b
    BY <1>3 DEF NoSharedWorker, Registered
  <2>2. botStatus[b] = state[w] /\ state[w] \in WorkerState
    BY <1>3 DEF botStatus, TypeOK
  <2>3. next \in Lifecycle!validTransitions[botStatus[b]]
    BY <1>3, <2>2 DEF Allowed, validTransitions, Lifecycle!validTransitions
  <2>4. botStatus' = [botStatus EXCEPT ![b] = next]
    BY <1>3, <2>1 DEF botStatus, Transition, TypeOK
  <2>5. b \in Lifecycle!Present
    BY <2>2 DEF Lifecycle!Present, WorkerState
  <2> QED
    BY <2>3, <2>4, <2>5 DEF Lifecycle!Move
<1> QED
  BY <1>1, <1>2, <1>3 DEF Lifecycle!Next

\* Every step of the registry is a step of the lifecycle, or is not seen there.
LEMMA NextRefines ==
    ASSUME IndInv, IndInv', [Next]_vars
    PROVE  [Lifecycle!Next]_botStatus
<1> USE DEF IndInv
<1>1. ASSUME state' = state, Shrinks
      PROVE  [Lifecycle!Next]_botStatus
  <2> DEFINE B == {b \in Bot : registry[b] # NoWorker /\ registry'[b] = NoWorker}
  <2>1. botStatus' = [b \in Bot |-> IF b \in B THEN "ABSENT" ELSE botStatus[b]]
    BY <1>1 DEF botStatus, Shrinks
  <2>2. B \subseteq Lifecycle!Present
    BY DEF Lifecycle!Present, botStatus, TypeOK, WorkerState
  <2>3. CASE B = {}
    BY <2>1, <2>3 DEF botStatus
  <2>4. CASE B # {}
    BY <2>1, <2>2, <2>4 DEF Lifecycle!Next, Lifecycle!Remove
  <2> QED
    BY <2>3, <2>4
<1>2. ASSUME NEW b \in Bot, NEW w \in Worker, Inserts(b, w)
      PROVE  Lifecycle!Register(b)
  <2>1. \A a \in Bot : registry[a] # w
    BY <1>2 DEF Inserts, OnlyAllocated, WorkersOf, Registered
  <2>2. botStatus' = [botStatus EXCEPT ![b] = StateOfNewWorker]
    BY <1>2, <2>1 DEF Inserts, botStatus, TypeOK
  <2>3. b \notin Lifecycle!Present
    BY <1>2 DEF Inserts, Lifecycle!Present, botStatus
  <2> QED
    BY <2>2, <2>3 DEF Lifecycle!Register, StateOfNewWorker, Lifecycle!StateOfNewWorker
<1>3. ASSUME NEW c \in Caller, MoveWorker(c)
      PROVE  [Lifecycle!Next]_botStatus
  <2>1. handle[c] \in Worker
    BY <1>3 DEF MoveWorker, TypeOK
  <2>2. {"PAUSE", "NORMAL"} \subseteq WorkerState
    BY DEF WorkerState
  <2>3. PICK next \in {"PAUSE", "NORMAL"} :
           state' = [state EXCEPT ![handle[c]] = Transition(state[handle[c]], next)]
    BY <1>3 DEF MoveWorker
  <2>4. registry' = registry
    BY <1>3 DEF MoveWorker
  <2> QED
    BY <2>1, <2>2, <2>3, <2>4, MoveRefines
<1>4. ASSUME NEW w \in Worker, Throttle(w)
      PROVE  [Lifecycle!Next]_botStatus
  BY <1>4, MoveRefines DEF Throttle, WorkerState
<1>5. CASE Shrinks
  <2>1. ASSUME NEW w, w \notin allocated, allocated' = allocated \cup {w}
        PROVE  FALSE
    BY <1>5, <2>1 DEF Shrinks
  <2> QED
    BY <1>1, <1>3, <1>4, <1>5, <2>1, StateStep
<1> QED
  BY <1>2, <1>5, RegistryStep DEF Lifecycle!Next

\* The registry, with all its locks and calls in progress, implements the
\* lifecycle of a bot.
THEOREM Refinement == Spec => ImplementsLifecycle
<1>1. Init => Lifecycle!Init
  BY DEF Init, Lifecycle!Init, botStatus
<1>2. IndInv /\ IndInv' /\ [Next]_vars => [Lifecycle!Next]_botStatus
  BY NextRefines
<1> QED
  BY <1>1, <1>2, Invariance, PTL DEF Spec, ImplementsLifecycle, Lifecycle!Spec
==============================================================================
