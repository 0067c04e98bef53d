---------------------------- MODULE ControlPlane -----------------------------
(***************************************************************************)
(* The management API (internal/api/grpc_server.go): each RPC is a handler *)
(* goroutine that makes a few calls, one after the other, to MongoDB and   *)
(* to the registry.  Handlers interleave between these calls, any of which *)
(* may fail, and the server may die between two of them: the registry is   *)
(* then empty, the documents are still there.                              *)
(*                                                                         *)
(* A call to the registry is one step here: Orchestrator.tla takes it      *)
(* apart, and implements BotLifecycle, in which it is one.  A request that *)
(* lacks its bot id or its pair is refused before anything is done, and is *)
(* left out.  A document is found by its bot id, which is taken to be      *)
(* unique, as internal/models says it is.  The goroutine of a bot and its  *)
(* orders on the exchange are outside of this code: nothing here tells     *)
(* either that the bot was deleted.                                        *)
(***************************************************************************)
EXTENDS Naturals, FiniteSets

CONSTANTS Bot,         \* bot ids
          Call,        \* RPCs
          Setting,     \* the spreads and the risk limits that occur
          Omit,        \* a field that the request leaves out
          None,        \* no document, no worker
          MaxRestarts  \* restarts of the server at most (a bound)

Config  == [spread : Setting, risk : Setting]
Partial == [spread : Setting \cup {Omit}, risk : Setting \cup {Omit}]

Rpc == {"CreateBot", "PauseBot", "ResumeBot", "DeleteBot", "UpdateConfig"}

ASSUME ControlPlaneAssumption ==
    /\ Omit \notin Setting
    /\ None \notin Config \cup Partial \cup Rpc \cup {"RUNNING", "STOPPED"}
    /\ MaxRestarts \in Nat

\* The definitions named Wrong... are no part of the specification: each is the
\* definition after it with one slip, kept to see that a property notices.

VARIABLES config,   \* config[b]: the config document of b
          session,  \* session[b]: the state in b's session document
          running,  \* running[b]: the config b's worker in the registry has
          rpc,      \* rpc[c]: what call c is
          bot,      \* bot[c]: the bot it is about
          req,      \* req[c]: the config in the request
          cancelOpenOrders, \* DeleteBots that ask for the bot's orders to be cancelled
          pc,       \* pc[c]: the next call its handler makes
          cfg,      \* cfg[c]: the handler's own copy of the config
          result,   \* result[c]: the status it returned
          audit,    \* the calls with an entry in the audit log
          restarts,
          goroutines, \* bots of which a goroutine was started, and never told to stop
          orders,   \* bots with orders on the book, placed while they were registered
          past,     \* history: calls from before the last restart
          unmarked  \* history: bots without a worker whose session may stay RUNNING

documents == <<config, session, audit>>
handler   == <<rpc, bot, req, cancelOpenOrders>>
outside   == <<goroutines, orders>>
vars == <<documents, running, handler, pc, cfg, result, restarts, outside, past, unmarked>>

Pc  == {"unborn", "persist", "register", "move", "stop", "mark",
        "read", "write", "push", "audit", "done"}
Result == {"none", "OK", "Internal", "AlreadyExists", "NotFound", "lost"}

TypeOK ==
    /\ config \in [Bot -> Config \cup {None}]
    /\ session \in [Bot -> {None, "RUNNING", "STOPPED"}]
    /\ running \in [Bot -> Config \cup {None}]
    /\ rpc \in [Call -> Rpc \cup {None}]
    /\ bot \in [Call -> Bot \cup {None}]
    /\ req \in [Call -> Partial \cup {None}]
    /\ pc \in [Call -> Pc]
    /\ cfg \in [Call -> Config \cup {None}]
    /\ result \in [Call -> Result]
    /\ audit \in SUBSET Call
    /\ restarts \in 0 .. MaxRestarts
    /\ goroutines \in SUBSET Bot /\ orders \in SUBSET Bot
    /\ cancelOpenOrders \in SUBSET Call /\ past \in SUBSET Call
    /\ unmarked \in SUBSET Bot
    /\ \A c \in Call :
          /\ pc[c] = "unborn" <=> rpc[c] = None
          /\ pc[c] = "done" <=> result[c] # "none"
          /\ rpc[c] = "CreateBot" => req[c] \in Config
          /\ pc[c] \in {"write", "push"} => cfg[c] # None

Init ==
    /\ config = [b \in Bot |-> None]
    /\ session = [b \in Bot |-> None]
    /\ running = [b \in Bot |-> None]
    /\ rpc = [c \in Call |-> None]
    /\ bot = [c \in Call |-> None]
    /\ req = [c \in Call |-> None]
    /\ pc = [c \in Call |-> "unborn"]
    /\ cfg = [c \in Call |-> None]
    /\ result = [c \in Call |-> "none"]
    /\ audit = {}
    /\ restarts = 0
    /\ goroutines = {} /\ orders = {}
    /\ cancelOpenOrders = {} /\ past = {}
    /\ unmarked = {}
------------------------------------------------------------------------------
Goto(c, label) == /\ pc' = [pc EXCEPT ![c] = label]
                  /\ UNCHANGED result

Return(c, status) == /\ pc' = [pc EXCEPT ![c] = "done"]
                     /\ result' = [result EXCEPT ![c] = status]

\* The first call each handler makes.
Entry(r) == CASE r = "CreateBot" -> "persist"
              [] r = "DeleteBot" -> "stop"
              [] r = "UpdateConfig" -> "read"
              [] OTHER -> "move"

\* A request comes in; that of a DeleteBot may ask for the orders too.
Receive(c, r, b, q, cancel) ==
    /\ pc[c] = "unborn"
    /\ r = "CreateBot" => q \in Config
    /\ r \notin {"CreateBot", "UpdateConfig"} => q = None
    /\ r = "UpdateConfig" => q # None
    /\ cancel => r = "DeleteBot"
    /\ rpc' = [rpc EXCEPT ![c] = r]
    /\ bot' = [bot EXCEPT ![c] = b]
    /\ req' = [req EXCEPT ![c] = q]
    /\ cancelOpenOrders' = IF cancel THEN cancelOpenOrders \cup {c} ELSE cancelOpenOrders
    /\ Goto(c, Entry(r))
    /\ UNCHANGED <<documents, running, cfg, restarts, outside, past, unmarked>>
------------------------------------------------------------------------------
(* CreateBot *)

\* (The upsert sets the document even if there is one.)
WrongSetOnInsert(b, doc) == [config EXCEPT ![b] = doc]

\* The config document after an upsert that sets nothing if there is one.
SetOnInsert(b, doc) == IF config[b] = None THEN [config EXCEPT ![b] = doc] ELSE config

\* (The error is logged, and the bot is started all the same.)
WrongCreatePersist(c) ==
    /\ pc[c] = "persist"
    /\ config' \in {config, SetOnInsert(bot[c], req[c])}
    /\ Goto(c, "register")
    /\ UNCHANGED <<session, audit, running, handler, cfg, restarts, outside, past, unmarked>>

\* The config is persisted; or the update fails, before the document has
\* changed or after.
CreatePersist(c) ==
    /\ pc[c] = "persist"
    /\ \/ /\ config' = SetOnInsert(bot[c], req[c])
          /\ Goto(c, "register")
       \/ /\ config' \in {config, SetOnInsert(bot[c], req[c])}
          /\ Return(c, "Internal")
    /\ UNCHANGED <<session, audit, running, handler, cfg, restarts, outside, past, unmarked>>

\* StartBot registers a worker with the config of the request; it fails if the
\* bot is there already, or if the adapter factory fails.  The worker is driven by
\* a goroutine of the bot.
CreateStart(c) ==
    /\ pc[c] = "register"
    /\ \/ /\ running[bot[c]] = None
          /\ running' = [running EXCEPT ![bot[c]] = req[c]]
          /\ goroutines' = goroutines \cup {bot[c]}
          /\ Goto(c, "audit")
       \/ /\ Return(c, "AlreadyExists")
          /\ UNCHANGED <<running, goroutines>>
    /\ UNCHANGED <<documents, handler, cfg, restarts, orders, past, unmarked>>
------------------------------------------------------------------------------
(* PauseBot, ResumeBot *)

\* The registry moves the worker: not if there is none, and perhaps not if
\* there is one (its state is left out here).
MoveWorker(c) ==
    /\ pc[c] = "move"
    /\ \/ running[bot[c]] # None /\ Goto(c, "audit")
       \/ Return(c, "NotFound")
    /\ UNCHANGED <<documents, running, handler, cfg, restarts, outside, past, unmarked>>
------------------------------------------------------------------------------
(* DeleteBot *)

\* (A bot that is not there is as good as deleted.)
WrongDeleteStop(c) ==
    /\ pc[c] = "stop"
    /\ running' = [running EXCEPT ![bot[c]] = None]
    /\ Goto(c, "mark")
    /\ UNCHANGED <<documents, handler, cfg, restarts, outside, past, unmarked>>

\* StopBot takes the worker out of the registry, if there is one.
DeleteStop(c) ==
    /\ pc[c] = "stop"
    /\ \/ /\ running[bot[c]] # None
          /\ running' = [running EXCEPT ![bot[c]] = None]
          /\ Goto(c, "mark")
       \/ /\ running[bot[c]] = None
          /\ Return(c, "NotFound")
          /\ UNCHANGED running
    /\ UNCHANGED <<documents, handler, cfg, restarts, outside, past, unmarked>>

\* (The filter asks for a session that is not RUNNING.)
WrongDeleteMark(c) ==
    LET b == bot[c] IN
    /\ pc[c] = "mark"
    /\ \/ /\ session' = [session EXCEPT ![b] = IF @ = "RUNNING" THEN @ ELSE "STOPPED"]
          /\ unmarked' = unmarked \ {b}
       \/ /\ UNCHANGED session
          /\ unmarked' = unmarked \cup {b}
    /\ Goto(c, "audit")
    /\ UNCHANGED <<config, audit, running, handler, cfg, restarts, outside, past>>

\* The session is marked as stopped, if there is one; nobody looks at the error.
\* Nothing is done about the config, the goroutine, or the orders, although the
\* handler goes on to answer OrdersCancelled if it was asked to cancel them.
DeleteMark(c) ==
    LET b == bot[c] IN
    /\ pc[c] = "mark"
    /\ \/ /\ session' = [session EXCEPT ![b] = IF @ = None THEN None ELSE "STOPPED"]
          /\ unmarked' = unmarked \ {b}
       \/ /\ UNCHANGED session
          /\ unmarked' = unmarked \cup {b}
    /\ Goto(c, "audit")
    /\ UNCHANGED <<config, audit, running, handler, cfg, restarts, outside, past>>
------------------------------------------------------------------------------
(* UpdateConfig *)

\* The fields of the request replace those of the document.
Merge(doc, q) == [f \in DOMAIN doc |-> IF q[f] = Omit THEN doc[f] ELSE q[f]]

\* (The error of FindOne is not looked at.)
WrongUpdateRead(c) ==
    /\ pc[c] = "read"
    /\ cfg' \in IF config[bot[c]] = None
                   THEN {cfg}
                   ELSE {cfg, [cfg EXCEPT ![c] = Merge(config[bot[c]], req[c])]}
    /\ Goto(c, "write")
    /\ UNCHANGED <<documents, running, handler, restarts, outside, past, unmarked>>

\* The document is read, and the request merged into the copy.
UpdateRead(c) ==
    /\ pc[c] = "read"
    /\ \/ /\ config[bot[c]] # None
          /\ cfg' = [cfg EXCEPT ![c] = Merge(config[bot[c]], req[c])]
          /\ Goto(c, "write")
       \/ /\ Return(c, "NotFound")
          /\ UNCHANGED cfg
    /\ UNCHANGED <<documents, running, handler, restarts, outside, past, unmarked>>

\* The whole copy is written back.
UpdateWrite(c) ==
    /\ pc[c] = "write"
    /\ \/ /\ config' = [config EXCEPT ![bot[c]] = cfg[c]]
          /\ Goto(c, "push")
       \/ /\ config' \in {config, [config EXCEPT ![bot[c]] = cfg[c]]}
          /\ Return(c, "Internal")
    /\ UNCHANGED <<session, audit, running, handler, cfg, restarts, outside, past, unmarked>>

\* The registry is told (its UpdateConfig, which is called but does not exist,
\* is taken to replace the config of the worker, and to fail without one).
UpdatePush(c) ==
    /\ pc[c] = "push"
    /\ \/ /\ running[bot[c]] # None
          /\ running' = [running EXCEPT ![bot[c]] = cfg[c]]
          /\ Goto(c, "audit")
       \/ /\ running[bot[c]] = None
          /\ Return(c, "NotFound")
          /\ UNCHANGED running
    /\ UNCHANGED <<documents, handler, cfg, restarts, outside, past, unmarked>>
------------------------------------------------------------------------------
\* writeAudit inserts the entry, or fails and nobody looks; the handler returns.
WriteAudit(c) ==
    /\ pc[c] = "audit"
    /\ audit' \in {audit, audit \cup {c}}
    /\ Return(c, "OK")
    /\ UNCHANGED <<config, session, running, handler, cfg, restarts, outside, past, unmarked>>

\* The goroutine of a bot writes its session: also after the bot was deleted, and
\* then nobody is to mark it again.
Heartbeat(b) ==
    /\ b \in goroutines
    /\ session' = [session EXCEPT ![b] = "RUNNING"]
    /\ unmarked' = IF running[b] = None THEN unmarked \cup {b} ELSE unmarked
    /\ UNCHANGED <<config, audit, running, handler, pc, cfg, result, restarts, outside, past>>

\* It places orders (those it places after the bot was deleted no DeleteBot could
\* cancel, and they are not counted); and the last of a bot's orders is filled.
Trade(b) ==
    /\ b \in goroutines /\ running[b] # None
    /\ orders' = orders \cup {b}
    /\ UNCHANGED <<documents, running, handler, pc, cfg, result, restarts,
                   goroutines, past, unmarked>>

Fill(b) ==
    /\ b \in orders
    /\ orders' = orders \ {b}
    /\ UNCHANGED <<documents, running, handler, pc, cfg, result, restarts,
                   goroutines, past, unmarked>>

\* The server dies and comes up again, with no bots and no calls; the orders stay.
Restart ==
    /\ restarts < MaxRestarts
    /\ restarts' = restarts + 1
    /\ running' = [b \in Bot |-> None]
    /\ pc' = [c \in Call |-> IF pc[c] = "unborn" THEN "unborn" ELSE "done"]
    /\ result' = [c \in Call |-> IF pc[c] \in {"unborn", "done"} THEN result[c] ELSE "lost"]
    /\ unmarked' = unmarked \cup {b \in Bot : running[b] # None}
                            \cup {bot[c] : c \in {d \in Call : pc[d] = "mark"}}
    /\ goroutines' = {}
    /\ past' = {c \in Call : pc[c] # "unborn"}
    /\ UNCHANGED <<documents, handler, cfg, orders>>
------------------------------------------------------------------------------
Handle(c) == \/ CreatePersist(c) \/ CreateStart(c)
             \/ MoveWorker(c)
             \/ DeleteStop(c) \/ DeleteMark(c)
             \/ UpdateRead(c) \/ UpdateWrite(c) \/ UpdatePush(c)
             \/ WriteAudit(c)

Next == \/ \E c \in Call, r \in Rpc, b \in Bot, q \in Partial \cup {None}, cancel \in BOOLEAN :
              Receive(c, r, b, q, cancel)
        \/ \E c \in Call : Handle(c)
        \/ \E b \in Bot : Heartbeat(b) \/ Trade(b) \/ Fill(b)
        \/ Restart

Spec == Init /\ [][Next]_vars
------------------------------------------------------------------------------
(* Properties *)

\* The config is persisted first: whatever fails, and wherever the server dies,
\* no bot trades for which there is no config document (the watchdog would skip
\* it, and nothing could bring it back).
ConfigBeforeWorker == \A b \in Bot : running[b] # None => config[b] # None

\* A deleted bot's session does not stay RUNNING, where the watchdog would go on
\* judging it: if the bot is gone from the registry and its session says
\* RUNNING, a DeleteBot is still to mark it, or that update failed, the server
\* died first, or the bot's goroutine wrote after it.  ImplementsRecords has it.
SessionFollowsDelete ==
    \A b \in Bot :
        running[b] = None /\ session[b] = "RUNNING" =>
            b \in unmarked \/ \E c \in Call : pc[c] = "mark" /\ bot[c] = b

\* The calls r of b, since the server came up, that answered OK or will.
Succeeded(r, b) ==
    {c \in Call \ past : /\ rpc[c] = r /\ bot[c] = b
                         /\ pc[c] \in {"mark", "audit"} \/ result[c] = "OK"}

\* What callers are told adds up, in any order of overlapping calls: since the
\* server came up, as many CreateBots as DeleteBots of a bot succeeded, and one
\* more just if the bot has a worker.  No two are told of one start or one stop,
\* and a call that was refused has not changed the registry.
AnswersAddUp ==
    \A b \in Bot :
        Cardinality(Succeeded("CreateBot", b))
            = Cardinality(Succeeded("DeleteBot", b)) + (IF running[b] = None THEN 0 ELSE 1)

\* "Omit a field to leave it unchanged": the write of an UpdateConfig changes
\* no field that its request left out.
OmittedFieldsStay ==
    [][\A c \in Call, f \in {"spread", "risk"} :
          pc[c] = "write" /\ pc'[c] = "push" /\ req[c][f] = Omit
            => config'[bot[c]][f] = config[bot[c]][f]]_vars

\* A bot that was deleted can be created again: its "config must be gone after
\* delete", its orders too if the answer was "orders_cancelled", and CreateBot is to
\* "persist config first".  So if every call before was answered OK and none was an
\* UpdateConfig, the document now holds the config of the request, and the book is
\* clear.  This asks for one of the two only: the new bot does not find both the
\* config and the orders of the deleted one.
DeletedBotIsGone ==
    [][\A c \in Call :
          LET b == bot[c] IN
          /\ pc[c] = "persist" /\ pc'[c] = "register"
          /\ \A d \in Call \ {c} : bot[d] = b => result[d] = "OK" /\ rpc[d] # "UpdateConfig"
          /\ \E d \in cancelOpenOrders : bot[d] = b
          => config'[b] = req[c] \/ b \notin orders]_vars

\* The UpdateConfigs of b that have read its document and have been at writing it.
Updated(b) == {c \in Call : /\ rpc[c] = "UpdateConfig" /\ bot[c] = b
                            /\ pc[c] \in {"push", "audit", "done"} /\ cfg[c] # None}

\* What becomes of OmittedFieldsStay when handlers overlap: a write that does
\* change a field its request left out takes away, or brings back, a value that
\* another UpdateConfig of the bot was asked to set.  No CreateBot, failure or
\* crash makes a field change behind the caller's back.
FieldsLostToUpdatesOnly ==
    [][\A c \in Call, f \in {"spread", "risk"} :
          LET b == bot[c] IN
          /\ pc[c] = "write" /\ req[c][f] = Omit
          /\ pc'[c] # "write" /\ config'[b][f] # config[b][f]
          => \E d \in Updated(b) : req[d][f] \in {config[b][f], config'[b][f]}]_vars

\* The registry is told what is persisted: the config that an UpdateConfig is
\* about to push is the one in the document, unless another UpdateConfig of the
\* bot has replaced it since (and then which of the two the bot ends up with is
\* for their pushes to decide).
PushesWhatIsPersisted ==
    \A c \in Call :
        pc[c] = "push" =>
            \E d \in Updated(bot[c]) : config[bot[c]] = cfg[d]

\* And a bot that runs on another config than its document holds was updated, or
\* two CreateBots asked for different ones.
DivergesByRequestOnly ==
    \A b \in Bot :
        running[b] # None /\ running[b] # config[b] =>
            \/ \E c \in Call : bot[c] = b /\ rpc[c] = "UpdateConfig"
            \/ \E c, d \in Call : /\ bot[c] = b /\ rpc[c] = "CreateBot"
                                  /\ bot[d] = b /\ rpc[d] = "CreateBot"
                                  /\ req[c] # req[d]

\* Bots whose session is to be marked by a DeleteBot, or may stay as it is.
toBeMarked == unmarked \cup {bot[c] : c \in {d \in Call : pc[d] = "mark"}}

\* Whatever handlers overlap, fail or are cut short, each bot's config, worker
\* and session are seen to move along BotRecords.  No other bot's record changes
\* with them.
Records == INSTANCE BotRecords WITH worker <- running, started <- goroutines, owed <- toBeMarked
ImplementsRecords == Records!Spec
==============================================================================
