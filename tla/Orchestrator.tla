----------------------------- MODULE Orchestrator ----------------------------
(***************************************************************************)
(* The Bot Registry (internal/orchestrator/orchestrator.go): a map from    *)
(* bot id to worker, split over shards that each have a lock, called by    *)
(* many goroutines at once.  A step is one critical section.               *)
(*                                                                         *)
(*  - StartBot keeps its shard's write lock while the adapter factory      *)
(*    runs, so other callers of that shard wait in between.                *)
(*  - PauseBot and ResumeBot look the worker up under the shard's lock,    *)
(*    let go of it, and move the worker they got afterwards: the bot may   *)
(*    be stopped, or stopped and started again, in between.                *)
(*  - StopAll and ActiveBotIDs visit the shards one after the other.       *)
(*                                                                         *)
(* BotState and Adapter look a worker up and change nothing: no action.    *)
(***************************************************************************)
EXTENDS Naturals, WorkerFSM

CONSTANTS Bot,        \* bot ids
          Worker,     \* the workers NewWorker can ever allocate (a bound)
          Caller,     \* goroutines calling the registry, one call at a time
          NumShards,  \* number of shards (16 in the code)
          bucket,     \* bucket[b]: the shard of b (FNV hash modulo shards)
          NoWorker,   \* "no entry in the map"
          NoBot,      \* "no call about a bot"
          NoCaller    \* "lock free"

ASSUME ConstantsAssumption ==
    /\ NumShards \in Nat \ {0}
    /\ bucket \in [Bot -> 0 .. NumShards - 1]
    /\ NoWorker \notin Worker
    /\ NoBot \notin Bot
    /\ NoCaller \notin Caller

\* The definitions named Wrong... are no part of the specification: each is the
\* definition after it with one slip, kept to see that a property notices.

VARIABLES registry,   \* registry[b]: the worker of b in its shard's map
          state,      \* state[w]: the state of worker w
          allocated,  \* workers NewWorker has returned so far
          holder,     \* holder[s]: the StartBot call that holds shard s
          pc,         \* pc[c]: where the call of c is
          bot,        \* bot[c]: the bot id the call of c is about
          handle,     \* handle[c]: the entry that get returned to c
          at,         \* at[c]: the next shard of a StopAll or ActiveBotIDs
          ids,        \* ids[c]: the bot ids ActiveBotIDs has collected
          always,     \* history: workers registered all through c's sweep
          ever        \* history: bots registered at some time in c's sweep

callVars == <<pc, bot, handle, at, ids>>
vars == <<registry, state, allocated, holder, callVars, always, ever>>

Shard  == 0 .. NumShards - 1
Sweeps == {"stopall", "list"}
Lookup == {"pause", "resume", "stop", "start"}
AboutBot == Lookup \cup {"factory", "pausing", "resuming"}
PC     == {"idle"} \cup AboutBot \cup Sweeps

TypeOK ==
    /\ registry \in [Bot -> Worker \cup {NoWorker}]
    /\ state \in [Worker -> WorkerState]
    /\ allocated \in SUBSET Worker
    /\ holder \in [Shard -> Caller \cup {NoCaller}]
    /\ pc \in [Caller -> PC]
    /\ bot \in [Caller -> Bot \cup {NoBot}]
    /\ handle \in [Caller -> Worker \cup {NoWorker}]
    /\ at \in [Caller -> 0 .. NumShards]
    /\ ids \in [Caller -> SUBSET Bot]
    /\ always \in [Caller -> SUBSET Worker]
    /\ ever \in [Caller -> SUBSET Bot]
    /\ \A c \in Caller :
          /\ pc[c] \in AboutBot => bot[c] \in Bot
          /\ pc[c] \in {"pausing", "resuming"} => handle[c] \in Worker
------------------------------------------------------------------------------
Registered(r) == {b \in Bot : r[b] # NoWorker}
WorkersOf(r)  == {r[b] : b \in Registered(r)}
InShard(s)    == {b \in Bot : bucket[b] = s}
Free(s)       == holder[s] = NoCaller
Without(r, B) == [b \in Bot |-> IF b \in B THEN NoWorker ELSE r[b]]

\* The histories of the calls that are inside a sweep after the step.
Observe ==
    /\ always' = [c \in Caller |->
          IF pc'[c] \notin Sweeps THEN {}
          ELSE WorkersOf(registry') \cap
                  (IF pc[c] \in Sweeps THEN always[c] ELSE Worker)]
    /\ ever' = [c \in Caller |->
          IF pc'[c] \notin Sweeps THEN {}
          ELSE Registered(registry') \cup ever[c]]

Goto(c, label) == /\ pc' = [pc EXCEPT ![c] = label]
                  /\ UNCHANGED bot

\* The call of c returns: its locals are gone.
Return(c) == /\ pc' = [pc EXCEPT ![c] = "idle"]
             /\ bot' = [bot EXCEPT ![c] = NoBot]

Init ==
    /\ registry = [b \in Bot |-> NoWorker]
    /\ state = [w \in Worker |-> StateOfNewWorker]
    /\ allocated = {}
    /\ holder = [s \in Shard |-> NoCaller]
    /\ pc = [c \in Caller |-> "idle"]
    /\ bot = [c \in Caller |-> NoBot]
    /\ handle = [c \in Caller |-> NoWorker]
    /\ at = [c \in Caller |-> 0]
    /\ ids = [c \in Caller |-> {}]
    /\ always = [c \in Caller |-> {}]
    /\ ever = [c \in Caller |-> {}]
------------------------------------------------------------------------------
\* A goroutine calls StartBot, PauseBot, ResumeBot or StopBot for b ...
Call(c, op, b) ==
    /\ pc[c] = "idle"
    /\ op \in Lookup
    /\ pc' = [pc EXCEPT ![c] = op]
    /\ bot' = [bot EXCEPT ![c] = b]
    /\ UNCHANGED <<registry, state, allocated, holder, handle, at, ids>>
    /\ Observe

\* ... or StopAll or ActiveBotIDs.
CallSweep(c, op) ==
    /\ pc[c] = "idle"
    /\ op \in Sweeps
    /\ Goto(c, op)
    /\ UNCHANGED <<registry, state, allocated, holder, handle, at, ids>>
    /\ Observe

\* (The lock is let go of before the factory runs.)
WrongStartLock(c) ==
    /\ pc[c] = "start"
    /\ Free(bucket[bot[c]])
    /\ IF registry[bot[c]] = NoWorker THEN Goto(c, "factory") ELSE Return(c)
    /\ UNCHANGED <<registry, state, allocated, holder, handle, at, ids>>
    /\ Observe

\* StartBot takes the shard's lock; a registered bot is an error.
StartLock(c) ==
    LET s == bucket[bot[c]] IN
    /\ pc[c] = "start"
    /\ Free(s)
    /\ \/ /\ registry[bot[c]] # NoWorker
          /\ Return(c)
          /\ UNCHANGED holder
       \/ /\ registry[bot[c]] = NoWorker
          /\ Goto(c, "factory")
          /\ holder' = [holder EXCEPT ![s] = c]
    /\ UNCHANGED <<registry, state, allocated, handle, at, ids>>
    /\ Observe

\* (Workers are pooled, and taken from the pool as they are.)
WrongStartReturnPooled(c) ==
    /\ pc[c] = "factory"
    /\ Return(c)
    /\ holder' = [holder EXCEPT ![bucket[bot[c]]] = NoCaller]
    /\ \E w \in Worker :
          /\ registry' = [registry EXCEPT ![bot[c]] = w]
          /\ allocated' = allocated \cup {w}
    /\ UNCHANGED <<state, handle, at, ids>>
    /\ Observe

\* (The factory's error path forgets to unlock.)
WrongStartReturnLocked(c) ==
    /\ pc[c] = "factory"
    /\ Return(c)
    /\ UNCHANGED <<registry, state, allocated, holder, handle, at, ids>>
    /\ Observe

\* The adapter factory returns to StartBot, which inserts a new worker or
\* passes the error on, and unlocks the shard.
StartReturn(c) ==
    /\ pc[c] = "factory"
    /\ Return(c)
    /\ holder' = [holder EXCEPT ![bucket[bot[c]]] = NoCaller]
    /\ \/ UNCHANGED <<registry, state, allocated>>
       \/ \E w \in Worker \ allocated :
             /\ registry' = [registry EXCEPT ![bot[c]] = w]
             /\ state' = [state EXCEPT ![w] = StateOfNewWorker]
             /\ allocated' = allocated \cup {w}
    /\ UNCHANGED <<handle, at, ids>>
    /\ Observe

\* (The result of get is used without looking at its error.)
WrongGetEntry(c) ==
    /\ pc[c] \in {"pause", "resume"}
    /\ Free(bucket[bot[c]])
    /\ handle' = [handle EXCEPT ![c] = registry[bot[c]]]
    /\ Goto(c, IF pc[c] = "pause" THEN "pausing" ELSE "resuming")
    /\ UNCHANGED <<registry, state, allocated, holder, at, ids>>
    /\ Observe

\* PauseBot and ResumeBot call get: the entry is read under the shard's read
\* lock and used after it is released.
GetEntry(c) ==
    /\ pc[c] \in {"pause", "resume"}
    /\ Free(bucket[bot[c]])
    /\ handle' = [handle EXCEPT ![c] = registry[bot[c]]]
    /\ IF registry[bot[c]] = NoWorker
          THEN Return(c)
          ELSE Goto(c, IF pc[c] = "pause" THEN "pausing" ELSE "resuming")
    /\ UNCHANGED <<registry, state, allocated, holder, at, ids>>
    /\ Observe

\* (The worker is looked up again, without the lock, when it is moved.)
WrongMoveWorker(c) ==
    /\ pc[c] \in {"pausing", "resuming"}
    /\ LET next == IF pc[c] = "pausing" THEN "PAUSE" ELSE "NORMAL"
           w    == IF registry[bot[c]] = NoWorker THEN handle[c]
                                                  ELSE registry[bot[c]]
       IN state' = [state EXCEPT ![w] = Transition(state[w], next)]
    /\ handle' = [handle EXCEPT ![c] = NoWorker]
    /\ Return(c)
    /\ UNCHANGED <<registry, allocated, holder, at, ids>>
    /\ Observe

\* Worker.Transition on that entry, under the worker's own lock; an edge that
\* is not in the table is an error and moves nothing.
MoveWorker(c) ==
    /\ pc[c] \in {"pausing", "resuming"}
    /\ LET next == IF pc[c] = "pausing" THEN "PAUSE" ELSE "NORMAL"
           w    == handle[c]
       IN state' = [state EXCEPT ![w] = Transition(state[w], next)]
    /\ handle' = [handle EXCEPT ![c] = NoWorker]
    /\ Return(c)
    /\ UNCHANGED <<registry, allocated, holder, at, ids>>
    /\ Observe

\* StopBot deletes the entry; an absent bot is an error.
StopBot(c) ==
    /\ pc[c] = "stop"
    /\ Free(bucket[bot[c]])
    /\ registry' = Without(registry, {bot[c]})
    /\ Return(c)
    /\ UNCHANGED <<state, allocated, holder, handle, at, ids>>
    /\ Observe

\* (A shard that is locked is passed over.)
WrongSweepShard(c) ==
    /\ pc[c] = "stopall"
    /\ at[c] < NumShards
    /\ registry' = IF Free(at[c]) THEN Without(registry, InShard(at[c]))
                                  ELSE registry
    /\ at' = [at EXCEPT ![c] = @ + 1]
    /\ UNCHANGED <<state, allocated, holder, pc, bot, handle, ids>>
    /\ Observe

\* StopAll empties the next shard.
SweepShard(c) ==
    /\ pc[c] = "stopall"
    /\ at[c] < NumShards
    /\ Free(at[c])
    /\ registry' = Without(registry, InShard(at[c]))
    /\ at' = [at EXCEPT ![c] = @ + 1]
    /\ UNCHANGED <<state, allocated, holder, pc, bot, handle, ids>>
    /\ Observe

\* (The slice is made anew for each shard.)
WrongListShard(c) ==
    /\ pc[c] = "list"
    /\ at[c] < NumShards
    /\ Free(at[c])
    /\ ids' = [ids EXCEPT ![c] = InShard(at[c]) \cap Registered(registry)]
    /\ at' = [at EXCEPT ![c] = @ + 1]
    /\ UNCHANGED <<registry, state, allocated, holder, pc, bot, handle>>
    /\ Observe

\* ActiveBotIDs copies the ids of the next shard.
ListShard(c) ==
    /\ pc[c] = "list"
    /\ at[c] < NumShards
    /\ Free(at[c])
    /\ ids' = [ids EXCEPT ![c] = @ \cup (InShard(at[c]) \cap Registered(registry))]
    /\ at' = [at EXCEPT ![c] = @ + 1]
    /\ UNCHANGED <<registry, state, allocated, holder, pc, bot, handle>>
    /\ Observe

\* StopAll or ActiveBotIDs returns after the last shard.
SweepReturn(c) ==
    /\ pc[c] \in Sweeps
    /\ at[c] = NumShards
    /\ Return(c)
    /\ at' = [at EXCEPT ![c] = 0]
    /\ ids' = [ids EXCEPT ![c] = {}]
    /\ UNCHANGED <<registry, state, allocated, holder, handle>>
    /\ Observe

\* The bot's own goroutine, which is not in the repository, throttles its
\* worker with Transition(StateSlow), whether or not it is still registered.  It is
\* assumed to leave NORMAL to ResumeBot: the table of edges would let a goroutine that
\* asks for NORMAL lift a pause as well as its own throttle.
Throttle(w) ==
    /\ w \in allocated
    /\ state' = [state EXCEPT ![w] = Transition(state[w], "SLOW")]
    /\ UNCHANGED <<registry, allocated, holder, callVars>>
    /\ Observe
------------------------------------------------------------------------------
\* The steps a call in progress takes until it has returned.
Proceed(c) == \/ StartLock(c) \/ StartReturn(c)
              \/ GetEntry(c)  \/ MoveWorker(c)
              \/ StopBot(c)
              \/ SweepShard(c) \/ ListShard(c) \/ SweepReturn(c)

Next == \/ \E c \in Caller :
              \/ \E op \in Lookup, b \in Bot : Call(c, op, b)
              \/ \E op \in Sweeps : CallSweep(c, op)
              \/ Proceed(c)
        \/ \E w \in Worker : Throttle(w)

Spec == Init /\ [][Next]_vars

\* The factory only constructs an adapter, so it returns; sync.RWMutex starves
\* no waiter, so a call that can go on again and again does go on.
FairSpec == Spec /\ \A c \in Caller : SF_vars(Proceed(c))
------------------------------------------------------------------------------
(* Properties *)

\* A shard is write-locked exactly by the StartBot call that is inside the
\* factory, and while it is there its bot is not registered by anyone else
\* (StartBot checks for the bot before the factory and inserts after it).  The
\* proofs of NoOverwrite and of the refinement rest on it.
LockProtectsCheck ==
    \A c \in Caller :
       /\ pc[c] = "factory" =>
             /\ holder[bucket[bot[c]]] = c
             /\ registry[bot[c]] = NoWorker
       /\ \A s \in Shard : holder[s] = c => /\ pc[c] = "factory"
                                            /\ bucket[bot[c]] = s

\* No worker is in the map twice: pausing one bot cannot pause another, as
\* ImplementsLifecycle, whose proof rests on this, says of the lifecycles.
NoSharedWorker ==
    \A a, b \in Registered(registry) : registry[a] = registry[b] => a = b

\* StartBot never replaces a registered worker by another one: the worker that
\* holds the live orders of a bot is not lost from the map without a stop.
NoOverwrite ==
    [][\A b \in Registered(registry) :
          registry'[b] \in {registry[b], NoWorker}]_vars

\* Once a bot's worker is paused it stays so, while it is registered, until a
\* ResumeBot that looked up this very worker (not an earlier one of the same
\* bot id) moves it.  (That the goroutine does not ask for NORMAL is assumed: see
\* Throttle.)
PauseHoldsUntilResume ==
    [][\A b \in Registered(registry) :
          (/\ ~CanPlaceOrders(state[registry[b]])
           /\ registry'[b] = registry[b]
           /\ CanPlaceOrders(state'[registry[b]]))
          => \E c \in Caller : /\ pc[c] = "resuming"
                               /\ bot[c] = b
                               /\ handle[c] = registry[b]]_vars

\* StopAll misses no worker that was there when it was called: whatever is
\* registered in a shard it has passed was started during the sweep.
StopAllSweeps ==
    \A c \in Caller : pc[c] = "stopall" =>
       \A b \in Bot : bucket[b] < at[c] => registry[b] \notin always[c]

\* ActiveBotIDs is no atomic snapshot, but it lists every bot whose worker was
\* registered throughout, and none that was never registered during the call.
ListingIsWeakSnapshot ==
    \A c \in Caller : pc[c] = "list" =>
       /\ ids[c] \subseteq ever[c]
       /\ \A b \in Bot : (bucket[b] < at[c] /\ registry[b] \in always[c])
                            => b \in ids[c]

\* The registry implements the lifecycle of BotLifecycle: whatever calls are
\* in progress, each bot is seen to move along that specification.
botStatus == [b \in Bot |-> IF registry[b] = NoWorker THEN "ABSENT"
                                                      ELSE state[registry[b]]]
Lifecycle == INSTANCE BotLifecycle WITH status <- botStatus
ImplementsLifecycle == Lifecycle!Spec

\* Every call returns: no shard lock is left taken (StartBot unlocks on all
\* its paths, the factory's error among them) and no two calls wait for each
\* other.
EveryCallReturns ==
    \A c \in Caller : pc[c] # "idle" ~> pc[c] = "idle"
==============================================================================
