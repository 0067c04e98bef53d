-------------------------- MODULE ControlPlaneProofs -------------------------
(***************************************************************************)
(* The safety of the management API, for any bots, calls and settings and  *)
(* any number of restarts.                                                 *)
(***************************************************************************)
EXTENDS ControlPlane, FiniteSetTheorems, TLAPS

\* Which handler is where, and what it works with there.
HandlersKnow ==
    \A c \in Call :
        /\ pc[c] # "unborn" => bot[c] \in Bot
        /\ pc[c] \in {"persist", "register"} => req[c] \in Config
        /\ pc[c] \in {"read", "write", "push"} => req[c] \in Partial

TInv == TypeOK /\ HandlersKnow

\* A handler's request merged into a document is a config.
LEMMA MergeType ==
    ASSUME NEW doc \in Config, NEW q \in Partial
    PROVE  Merge(doc, q) \in Config
<1>1. DOMAIN doc = {"spread", "risk"}
  BY DEF Config
<1>2. /\ doc.spread \in Setting /\ doc.risk \in Setting
      /\ q.spread \in Setting \cup {Omit} /\ q.risk \in Setting \cup {Omit}
  BY DEF Config, Partial
<1> QED
  BY <1>1, <1>2 DEF Merge, Config

\* The variables start in their types.
LEMMA TypeInit == Init => TInv
BY ControlPlaneAssumption DEF Init, TInv, TypeOK, HandlersKnow, Pc, Result, Rpc

\* Every step keeps them there, one case for each action.
LEMMA TypeStep == TInv /\ [Next]_vars => TInv'
<1> SUFFICES ASSUME TInv, [Next]_vars PROVE TInv'
  OBVIOUS
<1> USE ControlPlaneAssumption DEF TInv
<1>1. ASSUME NEW c \in Call, NEW r \in Rpc, NEW b \in Bot, NEW q \in Partial \cup {None},
             NEW cancel \in BOOLEAN, Receive(c, r, b, q, cancel)
      PROVE  TInv'
  <2>1. Entry(r) \in Pc \ {"unborn", "write", "push", "done"}
    BY DEF Entry, Pc, Rpc
  <2>2. /\ Entry(r) \in {"persist", "register"} => q \in Config
        /\ Entry(r) \in {"read", "write", "push"} => q \in Partial
        /\ r = "CreateBot" => q \in Config
    BY <1>1 DEF Receive, Entry, Rpc
  <2>3. /\ rpc' = [rpc EXCEPT ![c] = r] /\ bot' = [bot EXCEPT ![c] = b]
        /\ req' = [req EXCEPT ![c] = q] /\ pc' = [pc EXCEPT ![c] = Entry(r)]
        /\ UNCHANGED <<documents, running, cfg, result, restarts, outside, past, unmarked>>
        /\ pc[c] = "unborn"
    BY <1>1 DEF Receive, Goto
  <2>4. TypeOK'
    BY <2>1, <2>2, <2>3, <1>1 DEF TypeOK, documents, outside, Receive
  <2>5. HandlersKnow'
    BY <2>1, <2>2, <2>3 DEF TypeOK, HandlersKnow
  <2> QED
    BY <2>4, <2>5
<1>2. ASSUME NEW c \in Call, CreatePersist(c) PROVE TInv'
  <2>1. config' \in {config, [config EXCEPT ![bot[c]] = req[c]]}
    BY <1>2 DEF CreatePersist, SetOnInsert
  <2>2. config' \in [Bot -> Config \cup {None}]
    BY <1>2, <2>1 DEF CreatePersist, TypeOK, HandlersKnow
  <2> QED
    BY <1>2, <2>2
    DEF CreatePersist, Goto, Return, TypeOK, HandlersKnow, handler, outside, Pc, Result
<1>3. ASSUME NEW c \in Call, CreateStart(c) PROVE TInv'
  <2>1. running' \in [Bot -> Config \cup {None}]
    BY <1>3 DEF CreateStart, TypeOK, HandlersKnow
  <2> QED
    BY <1>3, <2>1
    DEF CreateStart, Goto, Return, TypeOK, HandlersKnow, handler, outside, documents, Pc, Result
<1>4. ASSUME NEW c \in Call, MoveWorker(c) PROVE TInv'
  BY <1>4
  DEF MoveWorker, Goto, Return, TypeOK, HandlersKnow, handler, outside, documents, Pc, Result
<1>5. ASSUME NEW c \in Call, DeleteStop(c) PROVE TInv'
  BY <1>5
  DEF DeleteStop, Goto, Return, TypeOK, HandlersKnow, handler, outside, documents, Pc, Result
<1>6. ASSUME NEW c \in Call, DeleteMark(c) PROVE TInv'
  <2>1. session' \in [Bot -> {None, "RUNNING", "STOPPED"}] /\ unmarked' \in SUBSET Bot
    BY <1>6 DEF DeleteMark, TypeOK, HandlersKnow
  <2> QED
    BY <1>6, <2>1 DEF DeleteMark, Goto, TypeOK, HandlersKnow, handler, outside, Pc
<1>7. ASSUME NEW c \in Call, UpdateRead(c) PROVE TInv'
  <2>1. config[bot[c]] # None => Merge(config[bot[c]], req[c]) \in Config
    BY <1>7, MergeType DEF UpdateRead, TypeOK, HandlersKnow
  <2>2. cfg' \in [Call -> Config \cup {None}] /\ (pc'[c] = "write" => cfg'[c] # None)
    BY <1>7, <2>1 DEF UpdateRead, TypeOK, Goto, Return
  <2> QED
    BY <1>7, <2>2
    DEF UpdateRead, Goto, Return, TypeOK, HandlersKnow, handler, outside, documents, Pc, Result
<1>8. ASSUME NEW c \in Call, UpdateWrite(c) PROVE TInv'
  <2>1. config' \in [Bot -> Config \cup {None}]
    BY <1>8 DEF UpdateWrite, TypeOK, HandlersKnow
  <2> QED
    BY <1>8, <2>1
    DEF UpdateWrite, Goto, Return, TypeOK, HandlersKnow, handler, outside, Pc, Result
<1>9. ASSUME NEW c \in Call, UpdatePush(c) PROVE TInv'
  <2>1. running' \in [Bot -> Config \cup {None}]
    BY <1>9 DEF UpdatePush, TypeOK, HandlersKnow
  <2> QED
    BY <1>9, <2>1
    DEF UpdatePush, Goto, Return, TypeOK, HandlersKnow, handler, outside, documents, Pc, Result
<1>10. ASSUME NEW c \in Call, WriteAudit(c) PROVE TInv'
  BY <1>10 DEF WriteAudit, Return, TypeOK, HandlersKnow, handler, outside, Pc, Result
<1>11. ASSUME NEW b \in Bot, Heartbeat(b) \/ Trade(b) \/ Fill(b) PROVE TInv'
  <2>1. CASE Heartbeat(b)
    BY <2>1 DEF Heartbeat, TypeOK, HandlersKnow, handler, outside
  <2>2. CASE Trade(b)
    BY <2>2 DEF Trade, TypeOK, HandlersKnow, handler, documents
  <2>3. CASE Fill(b)
    BY <2>3 DEF Fill, TypeOK, HandlersKnow, handler, documents
  <2> QED
    BY <1>11, <2>1, <2>2, <2>3
<1>12. CASE Restart
  BY <1>12 DEF Restart, TypeOK, HandlersKnow, handler, outside, documents, Pc, Result
<1>13. CASE UNCHANGED vars
  BY <1>13 DEF vars, TypeOK, HandlersKnow, handler, outside, documents
<1> QED
  BY <1>1, <1>2, <1>3, <1>4, <1>5, <1>6, <1>7, <1>8, <1>9, <1>10, <1>11, <1>12, <1>13
     DEF Next, Handle

\* The variables of the API keep their types.
THEOREM TypeCorrect == Spec => []TypeOK
<1>1. TInv => TypeOK
  BY DEF TInv
<1> QED
  BY <1>1, TypeInit, TypeStep, PTL DEF Spec
------------------------------------------------------------------------------
(* A bot has its config. *)

\* No config document is ever removed, so the one a CreateBot has found or made
\* is there when it registers the bot.
ConfigKept == \A c \in Call : pc[c] = "register" => config[bot[c]] # None

\* Every step keeps the documents, and adds no worker without one.
LEMMA ConfigStep ==
    TInv /\ ConfigKept /\ ConfigBeforeWorker /\ [Next]_vars
        => ConfigKept' /\ ConfigBeforeWorker'
<1> SUFFICES ASSUME TInv, ConfigKept, ConfigBeforeWorker, [Next]_vars
             PROVE  ConfigKept' /\ ConfigBeforeWorker'
  OBVIOUS
<1> USE ControlPlaneAssumption DEF TInv
<1> DEFINE NoConfigRemoved == \A b \in Bot : config[b] # None => config'[b] # None
           NoWorkerAdded == \A b \in Bot : running'[b] # None => running[b] # None
<1>0. /\ pc \in [Call -> Pc] /\ bot \in [Call -> Bot \cup {None}]
      /\ config \in [Bot -> Config \cup {None}] /\ running \in [Bot -> Config \cup {None}]
      /\ \A c \in Call : pc[c] # "unborn" => bot[c] \in Bot
      /\ \A c \in Call : pc[c] \in {"write", "push"} => cfg[c] \in Config
  BY DEF TypeOK, HandlersKnow
<1>1. ASSUME NoConfigRemoved, NoWorkerAdded,
             \A c \in Call : pc'[c] = "register" => pc[c] = "register" /\ bot'[c] = bot[c]
      PROVE  ConfigKept' /\ ConfigBeforeWorker'
  BY <1>0, <1>1 DEF ConfigKept, ConfigBeforeWorker
<1>2. ASSUME NEW c \in Call, NEW r \in Rpc, NEW b \in Bot, NEW q \in Partial \cup {None},
             NEW cancel \in BOOLEAN, Receive(c, r, b, q, cancel)
      PROVE  ConfigKept' /\ ConfigBeforeWorker'
  <2>1. Entry(r) # "register"
    BY DEF Entry
  <2> QED
    BY <1>0, <1>1, <1>2, <2>1 DEF Receive, Goto, documents
<1>3. ASSUME NEW c \in Call, CreatePersist(c)
      PROVE  ConfigKept' /\ ConfigBeforeWorker'
  <2>1. req[c] \in Config /\ bot[c] \in Bot
    BY <1>3 DEF CreatePersist, HandlersKnow
  <2>2. config' \in {config, SetOnInsert(bot[c], req[c])}
    BY <1>3 DEF CreatePersist
  <2>3. NoConfigRemoved
    BY <1>0, <2>1, <2>2 DEF SetOnInsert
  <2>4. NoWorkerAdded /\ UNCHANGED bot /\ UNCHANGED running
    BY <1>3 DEF CreatePersist, handler
  <2>5. pc'[c] = "register" => config'[bot[c]] # None
    BY <1>0, <1>3, <2>1 DEF CreatePersist, SetOnInsert, Goto, Return
  <2>6. \A d \in Call \ {c} : pc'[d] = pc[d]
    BY <1>0, <1>3 DEF CreatePersist, Goto, Return
  <2> QED
    BY <1>0, <2>3, <2>4, <2>5, <2>6 DEF ConfigKept, ConfigBeforeWorker
<1>4. ASSUME NEW c \in Call, CreateStart(c)
      PROVE  ConfigKept' /\ ConfigBeforeWorker'
  <2>1. UNCHANGED <<config, bot>> /\ config[bot[c]] # None /\ bot[c] \in Bot
    BY <1>4 DEF CreateStart, documents, handler, ConfigKept, HandlersKnow
  <2>2. \A d \in Call : pc'[d] = "register" => pc[d] = "register"
    BY <1>0, <1>4 DEF CreateStart, Goto, Return
  <2>3. \A b \in Bot \ {bot[c]} : running'[b] = running[b]
    BY <1>0, <1>4 DEF CreateStart
  <2> QED
    BY <2>1, <2>2, <2>3 DEF ConfigKept, ConfigBeforeWorker
<1>5. ASSUME NEW c \in Call, UpdateWrite(c)
      PROVE  ConfigKept' /\ ConfigBeforeWorker'
  <2>1. config' \in {config, [config EXCEPT ![bot[c]] = cfg[c]]} /\ cfg[c] \in Config
    BY <1>0, <1>5 DEF UpdateWrite
  <2>2. NoConfigRemoved
    BY <1>0, <2>1
  <2> QED
    BY <1>0, <1>1, <1>5, <2>2 DEF UpdateWrite, Goto, Return, handler
<1>6. ASSUME NEW c \in Call, DeleteStop(c) \/ UpdatePush(c)
      PROVE  ConfigKept' /\ ConfigBeforeWorker'
  <2>1. NoWorkerAdded
    BY <1>0, <1>6 DEF DeleteStop, UpdatePush
  <2> QED
    BY <1>0, <1>1, <1>6, <2>1
    DEF DeleteStop, UpdatePush, Goto, Return, documents, handler
<1>7. ASSUME NEW c \in Call, MoveWorker(c) \/ DeleteMark(c) \/ UpdateRead(c) \/ WriteAudit(c)
      PROVE  ConfigKept' /\ ConfigBeforeWorker'
  BY <1>0, <1>1, <1>7
     DEF MoveWorker, DeleteMark, UpdateRead, WriteAudit, Goto, Return, documents, handler
<1>8. ASSUME NEW b \in Bot, Heartbeat(b) \/ Trade(b) \/ Fill(b)
      PROVE  ConfigKept' /\ ConfigBeforeWorker'
  BY <1>1, <1>8 DEF Heartbeat, Trade, Fill, handler, documents
<1>9. CASE Restart
  BY <1>1, <1>9 DEF Restart, documents, handler
<1>10. CASE UNCHANGED vars
  BY <1>1, <1>10 DEF vars, documents, handler
<1> QED
  BY <1>2, <1>3, <1>4, <1>5, <1>6, <1>7, <1>8, <1>9, <1>10 DEF Next, Handle

\* Whatever fails and wherever the server dies, no bot trades without a config
\* document.
THEOREM ConfigFirst == Spec => []ConfigBeforeWorker
<1>1. Init => ConfigKept /\ ConfigBeforeWorker
  BY DEF Init, ConfigKept, ConfigBeforeWorker
<1> QED
  BY <1>1, TypeInit, TypeStep, ConfigStep, PTL DEF Spec
------------------------------------------------------------------------------
(* A deleted bot is not watched. *)

\* A DeleteBot of b has yet to mark b's session.
Marking(b) == \E c \in Call : pc[c] = "mark" /\ bot[c] = b

\* Every step keeps SessionFollowsDelete: a bot leaves the registry with a
\* DeleteBot that goes on to mark it, or with the server.
LEMMA SessionStep == TInv /\ SessionFollowsDelete /\ [Next]_vars => SessionFollowsDelete'
<1> SUFFICES ASSUME TInv, SessionFollowsDelete, [Next]_vars,
                    NEW b \in Bot, running'[b] = None, session'[b] = "RUNNING"
             PROVE  b \in unmarked' \/ Marking(b)'
  BY DEF SessionFollowsDelete, Marking
<1> USE ControlPlaneAssumption DEF TInv
<1>0. /\ pc \in [Call -> Pc] /\ bot \in [Call -> Bot \cup {None}]
      /\ running \in [Bot -> Config \cup {None}]
      /\ session \in [Bot -> {None, "RUNNING", "STOPPED"}]
      /\ \A c \in Call : pc[c] # "unborn" => bot[c] \in Bot
  BY DEF TypeOK, HandlersKnow
<1>1. running[b] = None /\ session[b] = "RUNNING" => b \in unmarked \/ Marking(b)
  BY DEF SessionFollowsDelete, Marking
<1>2. ASSUME running[b] = None, session[b] = "RUNNING", unmarked \subseteq unmarked',
             \A d \in Call : pc[d] = "mark" => pc'[d] = "mark" /\ bot'[d] = bot[d]
      PROVE  b \in unmarked' \/ Marking(b)'
  BY <1>1, <1>2 DEF Marking
<1>3. ASSUME NEW c \in Call, NEW r \in Rpc, NEW a \in Bot, NEW q \in Partial \cup {None},
             NEW cancel \in BOOLEAN, Receive(c, r, a, q, cancel)
      PROVE  b \in unmarked' \/ Marking(b)'
  BY <1>0, <1>2, <1>3 DEF Receive, Goto, documents
<1>4. ASSUME NEW c \in Call, CreateStart(c) \/ UpdatePush(c)
      PROVE  b \in unmarked' \/ Marking(b)'
  <2>1. running[b] = None
    BY <1>0, <1>4 DEF CreateStart, UpdatePush, HandlersKnow, TypeOK
  <2> QED
    BY <1>0, <1>2, <1>4, <2>1
    DEF CreateStart, UpdatePush, Goto, Return, documents, handler
<1>5. ASSUME NEW c \in Call, DeleteStop(c)
      PROVE  b \in unmarked' \/ Marking(b)'
  <2>1. CASE running[b] # None
    <3>1. bot[c] = b /\ pc'[c] = "mark" /\ bot' = bot
      BY <1>0, <1>5, <2>1 DEF DeleteStop, Goto, handler
    <3> QED
      BY <3>1 DEF Marking
  <2>2. CASE running[b] = None
    BY <1>0, <1>2, <1>5, <2>2 DEF DeleteStop, Goto, Return, documents, handler
  <2> QED
    BY <2>1, <2>2
<1>6. ASSUME NEW c \in Call, DeleteMark(c)
      PROVE  b \in unmarked' \/ Marking(b)'
  <2>1. bot[c] \in Bot /\ bot' = bot /\ running' = running
    BY <1>6 DEF DeleteMark, HandlersKnow, handler
  <2>2. CASE bot[c] = b
    BY <1>0, <1>6, <2>1, <2>2 DEF DeleteMark
  <2>3. CASE bot[c] # b
    <3>1. session'[b] = session[b] /\ (b \in unmarked => b \in unmarked')
      BY <1>0, <1>6, <2>1, <2>3 DEF DeleteMark
    <3>2. \A d \in Call : pc[d] = "mark" /\ bot[d] = b => pc'[d] = "mark"
      BY <1>0, <1>6, <2>3 DEF DeleteMark, Goto
    <3> QED
      BY <1>1, <2>1, <3>1, <3>2 DEF Marking
  <2> QED
    BY <2>2, <2>3
<1>7. ASSUME NEW c \in Call,
             CreatePersist(c) \/ MoveWorker(c) \/ UpdateRead(c) \/ UpdateWrite(c) \/ WriteAudit(c)
      PROVE  b \in unmarked' \/ Marking(b)'
  BY <1>0, <1>2, <1>7
     DEF CreatePersist, MoveWorker, UpdateRead, UpdateWrite, WriteAudit, Goto, Return,
         documents, handler
<1>8. ASSUME NEW a \in Bot, Heartbeat(a) \/ Trade(a) \/ Fill(a)
      PROVE  b \in unmarked' \/ Marking(b)'
  <2>1. UNCHANGED <<running, handler, pc>> /\ unmarked \subseteq unmarked'
    BY <1>8 DEF Heartbeat, Trade, Fill
  <2>2. CASE a = b /\ Heartbeat(a)
    BY <2>1, <2>2 DEF Heartbeat
  <2>3. CASE session'[b] = session[b]
    BY <1>2, <2>1, <2>3 DEF handler
  <2> QED
    BY <1>0, <1>8, <2>2, <2>3 DEF Heartbeat, Trade, Fill, documents
<1>9. CASE Restart
  <2>1. session[b] = "RUNNING" /\ bot \in [Call -> Bot \cup {None}]
    BY <1>0, <1>9 DEF Restart, documents
  <2>2. running[b] = None => b \in unmarked \/ Marking(b)
    BY <1>1, <2>1
  <2> QED
    BY <1>9, <2>2 DEF Restart, Marking
<1>10. CASE UNCHANGED vars
  BY <1>2, <1>10 DEF vars, documents, handler
<1> QED
  BY <1>3, <1>4, <1>5, <1>6, <1>7, <1>8, <1>9, <1>10 DEF Next, Handle

\* A bot that is gone has no session that says RUNNING, unless its DeleteBot is
\* still at it, that update failed, or the server died.
THEOREM DeleteIsFollowed == Spec => []SessionFollowsDelete
<1>1. Init => SessionFollowsDelete
  BY ControlPlaneAssumption DEF Init, SessionFollowsDelete
<1> QED
  BY <1>1, TypeInit, TypeStep, SessionStep, PTL DEF Spec
------------------------------------------------------------------------------
(* The answers add up. *)

\* What a call is, by the call its handler makes next; a call from before the
\* last restart has ended.
CallsAreNamed ==
    /\ \A c \in Call :
          /\ pc[c] \in {"persist", "register"} => rpc[c] = "CreateBot"
          /\ pc[c] \in {"stop", "mark"} => rpc[c] = "DeleteBot"
          /\ pc[c] = "move" => rpc[c] \in {"PauseBot", "ResumeBot"}
          /\ pc[c] \in {"read", "write", "push"} => rpc[c] = "UpdateConfig"
    /\ \A c \in past : pc[c] = "done"

\* Every step keeps that.
LEMMA NamesStep == TInv /\ CallsAreNamed /\ [Next]_vars => CallsAreNamed'
<1> SUFFICES ASSUME TInv, CallsAreNamed, [Next]_vars PROVE CallsAreNamed'
  OBVIOUS
<1>0. /\ pc \in [Call -> Pc] /\ rpc \in [Call -> Rpc \cup {None}] /\ past \in SUBSET Call
  BY DEF TInv, TypeOK
<1>1. ASSUME NEW c \in Call, NEW r \in Rpc, NEW b \in Bot, NEW q \in Partial \cup {None},
             NEW cancel \in BOOLEAN, Receive(c, r, b, q, cancel)
      PROVE  CallsAreNamed'
  BY <1>0, <1>1 DEF Receive, Goto, Entry, Rpc, CallsAreNamed
<1>2. ASSUME NEW c \in Call, Handle(c)
      PROVE  CallsAreNamed'
  <2> DEFINE Goes(from, to) == pc[c] \in from /\ pc' = [pc EXCEPT ![c] = to]
  <2>1. /\ UNCHANGED <<rpc, past>>
        /\ \/ Goes(Pc \ {"unborn", "done"}, "done") \/ Goes(Pc \ {"unborn", "done"}, "audit")
           \/ Goes({"persist"}, "register") \/ Goes({"stop"}, "mark")
           \/ Goes({"read"}, "write") \/ Goes({"write"}, "push")
    BY <1>2
       DEF Handle, CreatePersist, CreateStart, MoveWorker, DeleteStop, DeleteMark, UpdateRead,
           UpdateWrite, UpdatePush, WriteAudit, Goto, Return, Pc, handler
  <2> QED
    BY <1>0, <2>1 DEF CallsAreNamed
<1>3. CASE Restart
  BY <1>0, <1>3 DEF Restart, handler, CallsAreNamed
<1>4. CASE ~Restart /\ UNCHANGED <<pc, rpc, past>>
  BY <1>4 DEF CallsAreNamed
<1>5. ASSUME NEW b \in Bot, Heartbeat(b) \/ Trade(b) \/ Fill(b)
      PROVE  UNCHANGED <<pc, rpc, past>>
  BY <1>5 DEF Heartbeat, Trade, Fill, handler
<1> QED
  BY <1>1, <1>2, <1>3, <1>4, <1>5 DEF Next, vars, handler

\* The sums for one bot, which are of finitely many calls.
Balanced(b) ==
    /\ IsFiniteSet(Succeeded("CreateBot", b)) /\ IsFiniteSet(Succeeded("DeleteBot", b))
    /\ Cardinality(Succeeded("CreateBot", b))
         = Cardinality(Succeeded("DeleteBot", b)) + (IF running[b] = None THEN 0 ELSE 1)

\* Every step keeps them even: a CreateBot comes to count in the step in which it
\* registers the bot, a DeleteBot in that in which it takes it out, and no other
\* step makes a difference to either side.
LEMMA AnswersStep ==
    ASSUME TInv, CallsAreNamed, [Next]_vars, NEW b \in Bot, Balanced(b)
    PROVE  Balanced(b)'
<1> DEFINE Counts(c) == pc[c] \in {"mark", "audit"} \/ result[c] = "OK"
           Made == Succeeded("CreateBot", b)
           Deleted == Succeeded("DeleteBot", b)
<1>0. /\ pc \in [Call -> Pc] /\ rpc \in [Call -> Rpc \cup {None}]
      /\ bot \in [Call -> Bot \cup {None}] /\ result \in [Call -> Result]
      /\ running \in [Bot -> Config \cup {None}] /\ past \in SUBSET Call
      /\ \A c \in Call : pc[c] = "done" <=> result[c] # "none"
      /\ \A c \in Call : pc[c] = "unborn" <=> rpc[c] = None
      /\ \A c \in Call : pc[c] \in {"register"} => req[c] \in Config
      /\ \A c \in Call : pc[c] = "push" => cfg[c] \in Config
      /\ \A c \in Call : pc[c] # "unborn" => bot[c] \in Bot
      /\ None \notin Config \cup Rpc
  BY ControlPlaneAssumption DEF TInv, TypeOK, HandlersKnow
<1>1. ASSUME Made' = Made, Deleted' = Deleted, running'[b] = None <=> running[b] = None
      PROVE  Balanced(b)'
  BY <1>1 DEF Balanced
<1>2. ASSUME NEW c \in Call, CreateStart(c), running[bot[c]] = None, bot[c] = b,
             running' = [running EXCEPT ![b] = req[c]], pc' = [pc EXCEPT ![c] = "audit"],
             UNCHANGED result
      PROVE  Balanced(b)'
  <2>1. /\ UNCHANGED <<handler, past>> /\ pc[c] = "register" /\ rpc[c] = "CreateBot"
        /\ c \notin past /\ c \notin Made
    BY <1>0, <1>2 DEF CreateStart, CallsAreNamed, Succeeded
  <2>2. Made' = Made \cup {c} /\ Deleted' = Deleted
    BY <1>0, <1>2, <2>1 DEF Succeeded, handler
  <2>3. running[b] = None /\ running'[b] # None
    BY <1>0, <1>2, <2>1
  <2>4. /\ IsFiniteSet(Made) /\ IsFiniteSet(Deleted)
        /\ Cardinality(Deleted) \in Nat /\ Cardinality(Made) = Cardinality(Deleted)
    BY <2>3, FS_CardinalityType DEF Balanced
  <2>5. IsFiniteSet(Made \cup {c}) /\ Cardinality(Made \cup {c}) = Cardinality(Made) + 1
    BY <2>1, <2>4, FS_AddElement
  <2> HIDE DEF Made, Deleted
  <2>6. /\ IsFiniteSet(Made') /\ IsFiniteSet(Deleted')
        /\ Cardinality(Made') = Cardinality(Deleted') + 1
    BY <2>2, <2>4, <2>5
  <2> QED
    BY <2>3, <2>6 DEF Balanced, Made, Deleted
<1>3. ASSUME NEW c \in Call, DeleteStop(c), running[bot[c]] # None, bot[c] = b
      PROVE  Balanced(b)'
  <2>1. /\ UNCHANGED <<handler, past, result>> /\ pc[c] = "stop" /\ rpc[c] = "DeleteBot"
        /\ pc' = [pc EXCEPT ![c] = "mark"] /\ c \notin past /\ c \notin Deleted
    BY <1>0, <1>3 DEF DeleteStop, Goto, CallsAreNamed, Succeeded
  <2>2. Deleted' = Deleted \cup {c} /\ Made' = Made
    BY <1>0, <1>3, <2>1 DEF Succeeded, handler
  <2>3. running[b] # None /\ running'[b] = None
    BY <1>0, <1>3 DEF DeleteStop
  <2>4. /\ IsFiniteSet(Made) /\ IsFiniteSet(Deleted)
        /\ Cardinality(Deleted) \in Nat /\ Cardinality(Made) = Cardinality(Deleted) + 1
    BY <2>3, FS_CardinalityType DEF Balanced
  <2>5. IsFiniteSet(Deleted \cup {c}) /\ Cardinality(Deleted \cup {c}) = Cardinality(Deleted) + 1
    BY <2>1, <2>4, FS_AddElement
  <2> HIDE DEF Made, Deleted
  <2>6. /\ IsFiniteSet(Made') /\ IsFiniteSet(Deleted')
        /\ Cardinality(Made') = Cardinality(Deleted')
    BY <2>2, <2>4, <2>5
  <2>7. Cardinality(Deleted') + 0 = Cardinality(Deleted')
    BY <2>2, <2>4, <2>5
  <2> QED
    BY <2>3, <2>6, <2>7 DEF Balanced, Made, Deleted
\* One that does not come to count, or is of another kind or about another bot.
<1>4. ASSUME NEW c \in Call, UNCHANGED <<handler, past>>,
             \A d \in Call \ {c} : pc'[d] = pc[d] /\ result'[d] = result[d],
             bot[c] # b \/ rpc[c] \notin {"CreateBot", "DeleteBot"} \/ (Counts(c)' <=> Counts(c)),
             running'[b] = None <=> running[b] = None
      PROVE  Balanced(b)'
  <2>1. Made' = Made /\ Deleted' = Deleted
    BY <1>4 DEF Succeeded, handler
  <2> QED
    BY <1>1, <1>4, <2>1
<1>5. ASSUME NEW c \in Call, Handle(c)
      PROVE  Balanced(b)'
  <2>1. /\ UNCHANGED <<handler, past>>
        /\ \E l \in Pc : pc' = [pc EXCEPT ![c] = l]
        /\ result' = result \/ \E v \in Result : result' = [result EXCEPT ![c] = v]
    BY <1>5
       DEF Handle, CreatePersist, CreateStart, MoveWorker, DeleteStop, DeleteMark, UpdateRead,
           UpdateWrite, UpdatePush, WriteAudit, Goto, Return, Pc, Result
  <2>2. \A d \in Call \ {c} : pc'[d] = pc[d] /\ result'[d] = result[d]
    BY <1>0, <2>1
  <2>3. CASE CreateStart(c)
    <3>1. CASE /\ running[bot[c]] = None /\ running' = [running EXCEPT ![bot[c]] = req[c]]
               /\ Goto(c, "audit")
      <4>1. CASE bot[c] = b
        BY <1>2, <2>3, <3>1, <4>1 DEF Goto
      <4>2. CASE bot[c] # b
        BY <1>0, <1>4, <2>1, <2>2, <3>1, <4>2
      <4> QED
        BY <4>1, <4>2
    <3>2. CASE Return(c, "AlreadyExists") /\ UNCHANGED running
      <4>1. ~Counts(c) /\ ~Counts(c)'
        BY <1>0, <2>3, <3>2 DEF CreateStart, Return
      <4> QED
        BY <1>4, <2>1, <2>2, <3>2, <4>1
    <3> QED
      BY <2>3, <3>1, <3>2 DEF CreateStart
  <2>4. CASE DeleteStop(c)
    <3>1. CASE running[bot[c]] # None
      <4>1. CASE bot[c] = b
        BY <1>3, <2>4, <3>1, <4>1
      <4>2. CASE bot[c] # b
        BY <1>0, <1>4, <2>1, <2>2, <2>4, <4>2 DEF DeleteStop
      <4> QED
        BY <4>1, <4>2
    <3>2. CASE running[bot[c]] = None
      <4>1. ~Counts(c) /\ ~Counts(c)' /\ UNCHANGED running
        BY <1>0, <2>4, <3>2 DEF DeleteStop, Return
      <4> QED
        BY <1>4, <2>1, <2>2, <4>1
    <3> QED
      BY <3>1, <3>2
  <2>5. CASE MoveWorker(c) \/ UpdatePush(c)
    <3>1. rpc[c] \notin {"CreateBot", "DeleteBot"}
      BY <2>5 DEF MoveWorker, UpdatePush, CallsAreNamed
    <3>2. running'[b] = None <=> running[b] = None
      BY <1>0, <2>5 DEF MoveWorker, UpdatePush
    <3> QED
      BY <1>4, <2>1, <2>2, <3>1, <3>2
  <2>6. CASE CreatePersist(c) \/ DeleteMark(c) \/ UpdateRead(c) \/ UpdateWrite(c) \/ WriteAudit(c)
    <3>1. UNCHANGED running
      BY <2>6 DEF CreatePersist, DeleteMark, UpdateRead, UpdateWrite, WriteAudit
    <3>2. Counts(c)' <=> Counts(c)
      BY <1>0, <2>6
         DEF CreatePersist, DeleteMark, UpdateRead, UpdateWrite, WriteAudit, Goto, Return
    <3> QED
      BY <1>4, <2>1, <2>2, <3>1, <3>2
  <2> QED
    BY <1>5, <2>3, <2>4, <2>5, <2>6 DEF Handle
<1>6. ASSUME NEW c \in Call, NEW r \in Rpc, NEW a \in Bot, NEW q \in Partial \cup {None},
             NEW cancel \in BOOLEAN, Receive(c, r, a, q, cancel)
      PROVE  Balanced(b)'
  <2>1. /\ rpc' = [rpc EXCEPT ![c] = r] /\ bot' = [bot EXCEPT ![c] = a]
        /\ pc' = [pc EXCEPT ![c] = Entry(r)] /\ UNCHANGED <<running, result, past>>
        /\ pc[c] = "unborn"
    BY <1>6 DEF Receive, Goto
  <2>2. ~Counts(c) /\ ~Counts(c)'
    BY <1>0, <2>1 DEF Entry, Rpc
  <2>3. Made' = Made /\ Deleted' = Deleted
    BY <1>0, <2>1, <2>2 DEF Succeeded
  <2> QED
    BY <1>1, <2>1, <2>3
<1>7. CASE Restart
  <2>1. \A c \in Call \ past' : pc[c] = "unborn"
    BY <1>7 DEF Restart
  <2>2. Made' = {} /\ Deleted' = {}
    BY <1>0, <1>7, <2>1 DEF Restart, Succeeded, handler
  <2>3. running'[b] = None
    BY <1>7 DEF Restart
  <2> QED
    BY <2>2, <2>3, FS_EmptySet DEF Balanced
<1>8. ASSUME NEW a \in Bot, Heartbeat(a) \/ Trade(a) \/ Fill(a)
      PROVE  Balanced(b)'
  <2>1. UNCHANGED <<running, handler, pc, result, past>>
    BY <1>8 DEF Heartbeat, Trade, Fill
  <2> QED
    BY <1>1, <2>1 DEF Succeeded, handler
<1>9. CASE UNCHANGED vars
  <2>1. UNCHANGED <<running, handler, pc, result, past>>
    BY <1>9 DEF vars
  <2> QED
    BY <1>1, <2>1 DEF Succeeded, handler
<1> QED
  BY <1>5, <1>6, <1>7, <1>8, <1>9 DEF Next

\* What callers are told adds up, over any number of overlapping calls, failures
\* and restarts: since the server came up, a bot has been created once more than
\* deleted if it has a worker, and as often if it has none.
THEOREM AnswersAccount == Spec => []AnswersAddUp
<1> DEFINE AllBalanced == \A b \in Bot : Balanced(b)
<1>1. Init => CallsAreNamed /\ AllBalanced
  <2>1. Init => CallsAreNamed
    BY DEF Init, CallsAreNamed
  <2>2. ASSUME Init, NEW b \in Bot PROVE Balanced(b)
    <3>1. Succeeded("CreateBot", b) = {} /\ Succeeded("DeleteBot", b) = {}
      BY <2>2 DEF Init, Succeeded
    <3>2. running[b] = None
      BY <2>2 DEF Init
    <3> QED
      BY <3>1, <3>2, FS_EmptySet DEF Balanced
  <2> QED
    BY <2>1, <2>2
<1>2. TInv /\ CallsAreNamed /\ AllBalanced /\ [Next]_vars => AllBalanced'
  BY AnswersStep
<1>3. AllBalanced => AnswersAddUp
  BY DEF Balanced, AnswersAddUp
<1> QED
  BY <1>1, <1>2, <1>3, TypeInit, TypeStep, NamesStep, PTL DEF Spec
------------------------------------------------------------------------------
(* What overlapping handlers can do to a config. *)

\* A call stays what it is, an UpdateConfig does not unwrite its document, and a
\* handler that is to write holds the copy it read.
LEMMA CallsStay ==
    ASSUME TInv, [Next]_vars, NEW c \in Call
    PROVE  /\ pc[c] # "unborn" => rpc'[c] = rpc[c] /\ bot'[c] = bot[c] /\ req'[c] = req[c]
           /\ pc[c] \in {"push", "audit", "done"} => pc'[c] \in {"push", "audit", "done"}
           /\ pc'[c] = "write" => UpdateRead(c) \/ (pc[c] = "write" /\ cfg'[c] = cfg[c])
           /\ pc[c] # "read" => cfg'[c] = cfg[c]
<1> DEFINE Stays(d) ==
      /\ pc[d] # "unborn" => rpc'[d] = rpc[d] /\ bot'[d] = bot[d] /\ req'[d] = req[d]
      /\ pc[d] \in {"push", "audit", "done"} => pc'[d] \in {"push", "audit", "done"}
      /\ pc'[d] = "write" => UpdateRead(d) \/ (pc[d] = "write" /\ cfg'[d] = cfg[d])
      /\ pc[d] # "read" => cfg'[d] = cfg[d]
<1> SUFFICES Stays(c)
  OBVIOUS
<1>0. /\ pc \in [Call -> Pc] /\ cfg \in [Call -> Config \cup {None}]
      /\ rpc \in [Call -> Rpc \cup {None}] /\ bot \in [Call -> Bot \cup {None}]
      /\ req \in [Call -> Partial \cup {None}]
  BY DEF TInv, TypeOK
<1>1. ASSUME NEW d \in Call, NEW r \in Rpc, NEW b \in Bot, NEW q \in Partial \cup {None},
             NEW cancel \in BOOLEAN, Receive(d, r, b, q, cancel)
      PROVE  Stays(c)
  <2>1. Entry(r) # "write"
    BY DEF Entry
  <2> QED
    BY <1>0, <1>1, <2>1 DEF Receive, Goto
<1>2. ASSUME NEW d \in Call, Handle(d) /\ ~UpdateRead(d)
      PROVE  Stays(c)
  <2>1. UNCHANGED <<handler, cfg>>
    BY <1>2
       DEF Handle, CreatePersist, CreateStart, MoveWorker, DeleteStop, DeleteMark, UpdateWrite,
           UpdatePush, WriteAudit
  <2>2. \E l \in Pc \ {"write"} :
           /\ pc' = [pc EXCEPT ![d] = l]
           /\ pc[d] \in {"push", "audit", "done"} => l \in {"push", "audit", "done"}
    BY <1>2
       DEF Handle, CreatePersist, CreateStart, MoveWorker, DeleteStop, DeleteMark, UpdateWrite,
           UpdatePush, WriteAudit, Goto, Return, Pc
  <2> QED
    BY <1>0, <2>1, <2>2 DEF handler
<1>3. ASSUME NEW d \in Call, UpdateRead(d)
      PROVE  Stays(c)
  BY <1>0, <1>3 DEF UpdateRead, Goto, Return, handler
<1>4. ASSUME NEW b \in Bot, Heartbeat(b) \/ Trade(b) \/ Fill(b)
      PROVE  Stays(c)
  BY <1>4 DEF Heartbeat, Trade, Fill, handler
<1>5. CASE Restart
  BY <1>5 DEF Restart, handler
<1>6. CASE UNCHANGED vars
  BY <1>6 DEF vars, handler
<1> QED
  BY <1>1, <1>2, <1>3, <1>4, <1>5, <1>6 DEF Next

\* What a step does to a config document ...
LEMMA DocumentStep ==
    ASSUME TInv, [Next]_vars, NEW b \in Bot
    PROVE  \/ config'[b] = config[b]
           \/ \E c \in Call : /\ CreatePersist(c) /\ bot[c] = b
                              /\ config[b] = None /\ config'[b] = req[c]
           \/ \E c \in Call : UpdateWrite(c) /\ bot[c] = b /\ config'[b] = cfg[c]
<1> DEFINE Goal == \/ config'[b] = config[b]
                   \/ \E c \in Call : /\ CreatePersist(c) /\ bot[c] = b
                                      /\ config[b] = None /\ config'[b] = req[c]
                   \/ \E c \in Call : UpdateWrite(c) /\ bot[c] = b /\ config'[b] = cfg[c]
<1>0. config \in [Bot -> Config \cup {None}]
  BY DEF TInv, TypeOK
<1>1. ASSUME NEW c \in Call, CreatePersist(c) PROVE Goal
  <2>1. config' \in {config, SetOnInsert(bot[c], req[c])}
    BY <1>1 DEF CreatePersist
  <2> QED
    BY <1>0, <1>1, <2>1 DEF SetOnInsert
<1>2. ASSUME NEW c \in Call, UpdateWrite(c) PROVE Goal
  <2>1. config' \in {config, [config EXCEPT ![bot[c]] = cfg[c]]}
    BY <1>2 DEF UpdateWrite
  <2> QED
    BY <1>0, <1>2, <2>1
<1>3. CASE UNCHANGED config
  BY <1>3
<1>4. ASSUME NEW c \in Call, Handle(c), ~CreatePersist(c), ~UpdateWrite(c)
      PROVE  UNCHANGED config
  BY <1>4
     DEF Handle, CreateStart, MoveWorker, DeleteStop, DeleteMark, UpdateRead, UpdatePush,
         WriteAudit, documents
<1>5. CASE ~\E c \in Call : Handle(c)
  BY <1>5 DEF Next, Receive, Heartbeat, Trade, Fill, Restart, vars, documents
<1> QED
  BY <1>1, <1>2, <1>3, <1>4, <1>5

\* ... and to the registry.
LEMMA RegistryStep ==
    ASSUME TInv, [Next]_vars, NEW b \in Bot
    PROVE  \/ running'[b] \in {running[b], None}
           \/ \E c \in Call : CreateStart(c) /\ bot[c] = b /\ running'[b] = req[c]
           \/ \E c \in Call : UpdatePush(c) /\ bot[c] = b
<1> DEFINE Goal == \/ running'[b] \in {running[b], None}
                   \/ \E c \in Call : CreateStart(c) /\ bot[c] = b /\ running'[b] = req[c]
                   \/ \E c \in Call : UpdatePush(c) /\ bot[c] = b
<1>0. running \in [Bot -> Config \cup {None}]
  BY DEF TInv, TypeOK
<1>1. ASSUME NEW c \in Call, CreateStart(c) PROVE Goal
  BY <1>0, <1>1 DEF CreateStart
<1>2. ASSUME NEW c \in Call, UpdatePush(c) PROVE Goal
  BY <1>0, <1>2 DEF UpdatePush
<1>3. ASSUME NEW c \in Call, DeleteStop(c) PROVE Goal
  BY <1>0, <1>3 DEF DeleteStop
<1>4. ASSUME NEW c \in Call, Handle(c), ~CreateStart(c), ~UpdatePush(c), ~DeleteStop(c)
      PROVE  UNCHANGED running
  BY <1>4
     DEF Handle, CreatePersist, MoveWorker, DeleteMark, UpdateRead, UpdateWrite, WriteAudit
<1>5. CASE ~\E c \in Call : Handle(c)
  BY <1>5 DEF Next, Receive, Heartbeat, Trade, Fill, Restart, vars
<1> QED
  BY <1>1, <1>2, <1>3, <1>4, <1>5

\* Who persists, registers, reads, writes or pushes is what it says it is, and
\* the copy to be written is that of a document, with what was asked for in it.
Handling ==
    \A c \in Call :
        /\ pc[c] \in {"persist", "register"} => rpc[c] = "CreateBot"
        /\ pc[c] \in {"read", "write", "push"} => rpc[c] = "UpdateConfig"
        /\ pc[c] = "write" =>
              /\ config[bot[c]] # None
              /\ \A f \in {"spread", "risk"} : req[c][f] # Omit => cfg[c][f] = req[c][f]

\* Every step keeps that.
LEMMA HandlingStep == TInv /\ Handling /\ [Next]_vars => Handling'
<1> SUFFICES ASSUME TInv, Handling, [Next]_vars, NEW c \in Call
             PROVE  /\ pc'[c] \in {"persist", "register"} => rpc'[c] = "CreateBot"
                    /\ pc'[c] \in {"read", "write", "push"} => rpc'[c] = "UpdateConfig"
                    /\ pc'[c] = "write" =>
                         /\ config'[bot'[c]] # None
                         /\ \A f \in {"spread", "risk"} :
                               req'[c][f] # Omit => cfg'[c][f] = req'[c][f]
  BY DEF Handling
<1> USE ControlPlaneAssumption
<1>0. /\ pc \in [Call -> Pc] /\ rpc \in [Call -> Rpc \cup {None}]
      /\ config \in [Bot -> Config \cup {None}] /\ cfg \in [Call -> Config \cup {None}]
      /\ pc[c] # "unborn" => bot[c] \in Bot
      /\ pc[c] \in {"persist", "register"} => req[c] \in Config
      /\ \A d \in Call : pc[d] \in {"write", "push"} => cfg[d] \in Config
  BY DEF TInv, TypeOK, HandlersKnow
<1> DEFINE Named == /\ pc'[c] \in {"persist", "register"} => rpc'[c] = "CreateBot"
                    /\ pc'[c] \in {"read", "write", "push"} => rpc'[c] = "UpdateConfig"
<1>1. Named
  <2>1. ASSUME NEW d \in Call, NEW r \in Rpc, NEW b \in Bot, NEW q \in Partial \cup {None},
               NEW cancel \in BOOLEAN, Receive(d, r, b, q, cancel)
        PROVE  Named
    BY <1>0, <2>1 DEF Receive, Goto, Entry, Rpc, Handling
  <2>2. ASSUME NEW d \in Call, Handle(d)
        PROVE  Named
    <3>1. /\ UNCHANGED rpc
          /\ \E l \in Pc : /\ pc' = [pc EXCEPT ![d] = l]
                           /\ l \in {"persist", "register"} => pc[d] \in {"persist", "register"}
                           /\ l \in {"read", "write", "push"} => pc[d] \in {"read", "write", "push"}
      BY <2>2
         DEF Handle, CreatePersist, CreateStart, MoveWorker, DeleteStop, DeleteMark, UpdateRead,
             UpdateWrite, UpdatePush, WriteAudit, Goto, Return, Pc, handler
    <3> QED
      BY <1>0, <3>1 DEF Handling
  <2>3. CASE ~\E d \in Call : Handle(d)
    BY <1>0, <2>1, <2>3
    DEF Next, Heartbeat, Trade, Fill, Restart, vars, handler, Handling
  <2> QED
    BY <2>2, <2>3
<1>2. ASSUME pc'[c] = "write"
      PROVE  /\ config'[bot'[c]] # None
             /\ \A f \in {"spread", "risk"} : req'[c][f] # Omit => cfg'[c][f] = req'[c][f]
  <2>1. UpdateRead(c) \/ (pc[c] = "write" /\ cfg'[c] = cfg[c])
    BY <1>2, CallsStay
  <2>2. bot'[c] = bot[c] /\ req'[c] = req[c] /\ bot[c] \in Bot
    BY <1>0, <2>1, CallsStay DEF UpdateRead
  <2>3. config[bot[c]] # None
    BY <1>0, <1>2, <2>1 DEF UpdateRead, Return, Handling
  <2>4. config'[bot[c]] # None
    <3>1. \A d \in Call : CreatePersist(d) \/ UpdateWrite(d) => req[d] # None
      BY DEF CreatePersist, UpdateWrite, TInv, HandlersKnow
    <3> QED
      BY <1>0, <2>2, <2>3, DocumentStep DEF UpdateWrite
  <2>5. \A f \in {"spread", "risk"} : req[c][f] # Omit => cfg'[c][f] = req[c][f]
    <3>1. CASE UpdateRead(c)
      <4>1. config[bot[c]] \in Config /\ cfg'[c] = Merge(config[bot[c]], req[c])
        BY <1>0, <1>2, <2>2, <2>3, <3>1 DEF UpdateRead, Return
      <4> QED
        BY <4>1 DEF Merge, Config
    <3>2. CASE pc[c] = "write" /\ cfg'[c] = cfg[c]
      BY <3>2 DEF Handling
    <3> QED
      BY <2>1, <3>1, <3>2
  <2> QED
    BY <2>2, <2>4, <2>5
<1> QED
  BY <1>1, <1>2

\* What the UpdateConfigs that have written were asked to set field f of b to,
\* the copies from which field f of b is to be written back as it was read, and
\* all values of the field that are about.
Demand(b, f) == {req[c][f] : c \in {d \in Updated(b) : req[d][f] # Omit}}
Copies(b, f) == {c \in Call : bot[c] = b /\ pc[c] = "write" /\ req[c][f] = Omit}
InUse(b, f)  == {config[b][f]} \cup {cfg[c][f] : c \in Copies(b, f)}

\* Of all the values that are about at most one, that of the CreateBot, is none
\* that an UpdateConfig was asked to set.
OneOriginal ==
    \A b \in Bot, f \in {"spread", "risk"} :
        config[b] # None =>
            \A x, y \in InUse(b, f) : x # y => x \in Demand(b, f) \/ y \in Demand(b, f)

\* What is demanded stays so.
LEMMA DemandStays ==
    ASSUME TInv, [Next]_vars, NEW b \in Bot, NEW f
    PROVE  Demand(b, f) \subseteq Demand(b, f)'
<1> SUFFICES ASSUME NEW d \in Updated(b), req[d][f] # Omit
             PROVE  d \in Updated(b)' /\ req'[d][f] = req[d][f]
  BY DEF Demand
<1> QED
  BY CallsStay DEF Updated

\* Who holds a copy after a step held it before, or has just read it.
LEMMA CopiesStay ==
    ASSUME TInv, [Next]_vars, NEW b \in Bot, NEW f, NEW c \in Copies(b, f)'
    PROVE  \/ c \in Copies(b, f) /\ cfg'[c] = cfg[c]
           \/ UpdateRead(c) /\ bot[c] = b /\ req[c][f] = Omit /\ pc'[c] = "write"
<1>1. c \in Call /\ pc'[c] = "write" /\ bot'[c] = b /\ req'[c][f] = Omit
  BY DEF Copies
<1>2. UpdateRead(c) \/ (pc[c] = "write" /\ cfg'[c] = cfg[c])
  BY <1>1, CallsStay
<1>3. bot'[c] = bot[c] /\ req'[c] = req[c]
  BY <1>1, <1>2, CallsStay DEF UpdateRead
<1> QED
  BY <1>1, <1>2, <1>3 DEF Copies

\* A step brings no value of the field about but one that is demanded.
LEMMA ValuesStay ==
    ASSUME TInv, Handling, [Next]_vars, NEW b \in Bot, NEW f \in {"spread", "risk"},
           config[b] # None
    PROVE  InUse(b, f)' \subseteq InUse(b, f) \cup Demand(b, f)'
<1>1. config'[b][f] \in InUse(b, f) \cup Demand(b, f)'
  <2>1. ASSUME NEW c \in Call, UpdateWrite(c), bot[c] = b, config'[b] = cfg[c]
        PROVE  cfg[c][f] \in InUse(b, f) \cup Demand(b, f)'
    <3>1. CASE req[c][f] = Omit
      BY <2>1, <3>1 DEF UpdateWrite, InUse, Copies
    <3>2. CASE req[c][f] # Omit
      <4>1. cfg[c][f] = req[c][f] /\ rpc[c] = "UpdateConfig" /\ pc[c] = "write"
        BY <2>1, <3>2 DEF UpdateWrite, Handling
      <4>2. rpc'[c] = rpc[c] /\ bot'[c] = bot[c] /\ req'[c] = req[c]
        BY <4>1, CallsStay
      <4>3. pc'[c] \in {"push", "done"}
        BY <2>1 DEF UpdateWrite, Goto, Return, TInv, TypeOK
      <4>4. c \in Updated(b)' /\ req'[c][f] # Omit
        BY <2>1, <3>2, <4>1, <4>2, <4>3, CallsStay DEF Updated, TInv, TypeOK
      <4> QED
        BY <4>1, <4>2, <4>4 DEF Demand
    <3> QED
      BY <3>1, <3>2
  <2>2. config'[b] = config[b] \/ \E c \in Call : UpdateWrite(c) /\ bot[c] = b /\ config'[b] = cfg[c]
    BY DocumentStep
  <2> QED
    BY <2>1, <2>2 DEF InUse
<1>2. ASSUME NEW c \in Copies(b, f)'
      PROVE  cfg'[c][f] \in InUse(b, f)
  <2>1. CASE c \in Copies(b, f) /\ cfg'[c] = cfg[c]
    BY <2>1 DEF InUse
  <2>2. CASE UpdateRead(c) /\ bot[c] = b /\ req[c][f] = Omit /\ pc'[c] = "write"
    <3>1. c \in Call /\ config[b] \in Config
      BY DEF Copies, TInv, TypeOK
    <3>2. cfg'[c] = Merge(config[b], req[c])
      BY <2>2, <3>1 DEF UpdateRead, Return, TInv, TypeOK
    <3> QED
      BY <2>2, <3>1, <3>2 DEF Merge, Config, InUse
  <2> QED
    BY <2>1, <2>2, CopiesStay
<1> QED
  BY <1>1, <1>2 DEF InUse

\* Every step keeps OneOriginal.
LEMMA OriginalStep == TInv /\ Handling /\ OneOriginal /\ [Next]_vars => OneOriginal'
<1> SUFFICES ASSUME TInv, Handling, OneOriginal, [Next]_vars,
                    NEW b \in Bot, NEW f \in {"spread", "risk"}, config'[b] # None,
                    NEW x \in InUse(b, f)', NEW y \in InUse(b, f)', x # y
             PROVE  x \in Demand(b, f)' \/ y \in Demand(b, f)'
  BY DEF OneOriginal
<1>1. CASE config[b] # None
  BY <1>1, DemandStays, ValuesStay DEF OneOriginal
<1>2. CASE config[b] = None
  <2>1. Copies(b, f)' = {}
    <3> SUFFICES ASSUME NEW c \in Copies(b, f)' PROVE FALSE
      OBVIOUS
    <3>1. c \in Call
      BY DEF Copies
    <3>2. pc[c] = "write" /\ bot[c] = b => config[b] # None
      BY <3>1 DEF Handling
    <3>3. UpdateRead(c) /\ bot[c] = b /\ pc'[c] = "write" => config[b] # None
      BY <3>1 DEF UpdateRead, Return, TInv, TypeOK
    <3> QED
      BY <1>2, <3>2, <3>3, CopiesStay DEF Copies
  <2> QED
    BY <2>1 DEF InUse
<1> QED
  BY <1>1, <1>2

\* A write changes no field behind the caller's back but for the values that
\* overlapping UpdateConfigs were asked to set.
THEOREM FieldsLost == Spec => FieldsLostToUpdatesOnly
<1> DEFINE Loss(c, f) ==
        LET b == bot[c] IN
        /\ pc[c] = "write" /\ req[c][f] = Omit
        /\ pc'[c] # "write" /\ config'[b][f] # config[b][f]
        => \E d \in Updated(b) : req[d][f] \in {config[b][f], config'[b][f]}
<1>1. Init => Handling /\ OneOriginal
  BY ControlPlaneAssumption DEF Init, Handling, OneOriginal
<1>2. ASSUME TInv, Handling, OneOriginal, [Next]_vars,
             NEW c \in Call, NEW f \in {"spread", "risk"}, NEW b, b = bot[c],
             pc[c] = "write", req[c][f] = Omit, pc'[c] # "write", config'[b][f] # config[b][f]
      PROVE  \E d \in Updated(b) : req[d][f] \in {config[b][f], config'[b][f]}
  <2>1. b \in Bot /\ config[b] # None
    BY <1>2 DEF TInv, HandlersKnow, Handling
  <2>2. PICK d \in Call : UpdateWrite(d) /\ bot[d] = b /\ config'[b] = cfg[d]
    BY <1>2, <2>1, DocumentStep
  <2>3. d = c
    BY <1>2, <2>2 DEF UpdateWrite, Goto, Return, TInv, TypeOK
  <2>4. config[b][f] \in InUse(b, f) /\ config'[b][f] \in InUse(b, f)
    BY <1>2, <2>2, <2>3 DEF InUse, Copies
  <2>5. config[b][f] \in Demand(b, f) \/ config'[b][f] \in Demand(b, f)
    BY <1>2, <2>1, <2>4 DEF OneOriginal
  <2> QED
    BY <2>5 DEF Demand
<1>3. TInv /\ Handling /\ OneOriginal /\ [Next]_vars
        => [\A c \in Call, f \in {"spread", "risk"} : Loss(c, f)]_vars
  BY <1>2
<1> QED
  BY <1>1, <1>3, TypeInit, TypeStep, HandlingStep, OriginalStep, PTL
     DEF Spec, FieldsLostToUpdatesOnly

\* Every step keeps PushesWhatIsPersisted: a document that an UpdateConfig has
\* written is replaced by what another one writes, and by nothing else.
LEMMA PushStep ==
    TInv /\ Handling /\ PushesWhatIsPersisted /\ [Next]_vars => PushesWhatIsPersisted'
<1> SUFFICES ASSUME TInv, Handling, PushesWhatIsPersisted, [Next]_vars,
                    NEW c \in Call, pc'[c] = "push"
             PROVE  \E d \in Updated(bot[c])' : config'[bot'[c]] = cfg'[d]
  BY DEF PushesWhatIsPersisted
<1>1. ASSUME NEW d \in Call, UpdateWrite(d), bot[d] = bot[c], config'[bot[c]] = cfg[d],
             pc[c] # "unborn"
      PROVE  \E e \in Updated(bot[c])' : config'[bot'[c]] = cfg'[e]
  <2>1. pc[d] = "write" /\ pc'[d] \in {"push", "done"} /\ rpc[d] = "UpdateConfig"
    BY <1>1 DEF UpdateWrite, Goto, Return, TInv, TypeOK, Handling
  <2>2. rpc'[d] = rpc[d] /\ bot'[d] = bot[d] /\ cfg'[d] = cfg[d] /\ bot'[c] = bot[c]
    BY <1>1, <2>1, CallsStay
  <2>3. d \in Updated(bot[c])'
    BY <1>1, <2>1, <2>2 DEF Updated, TInv, TypeOK
  <2> QED
    BY <1>1, <2>2, <2>3
<1>2. pc[c] = "push" \/ UpdateWrite(c)
  <2>1. ASSUME NEW d \in Call, NEW r \in Rpc, NEW b \in Bot, NEW q \in Partial \cup {None},
               NEW cancel \in BOOLEAN, Receive(d, r, b, q, cancel)
        PROVE  pc[c] = "push"
    BY <2>1 DEF Receive, Goto, Entry, TInv, TypeOK
  <2>2. ASSUME NEW d \in Call, Handle(d)
        PROVE  pc[c] = "push" \/ UpdateWrite(c)
    BY <2>2
       DEF Handle, CreatePersist, CreateStart, MoveWorker, DeleteStop, DeleteMark, UpdateRead,
           UpdateWrite, UpdatePush, WriteAudit, Goto, Return, TInv, TypeOK
  <2>3. CASE ~\E d \in Call : Handle(d)
    BY <2>1, <2>3 DEF Next, Heartbeat, Trade, Fill, Restart, vars
  <2> QED
    BY <2>2, <2>3
<1>3. CASE UpdateWrite(c)
  <2>1. config'[bot[c]] = cfg[c] /\ pc[c] = "write"
    BY <1>3 DEF UpdateWrite, Return, TInv, TypeOK, HandlersKnow
  <2> QED
    BY <1>1, <1>3, <2>1
<1>4. CASE pc[c] = "push"
  <2>1. PICK d \in Updated(bot[c]) : config[bot[c]] = cfg[d]
    BY <1>4 DEF PushesWhatIsPersisted
  <2>2. /\ d \in Call /\ d \in Updated(bot[c])' /\ cfg'[d] = cfg[d] /\ bot'[c] = bot[c]
        /\ bot[c] \in Bot /\ config[bot[c]] # None
    BY <1>4, <2>1, CallsStay DEF Updated, TInv, HandlersKnow
  <2> QED
    BY <1>1, <1>4, <2>1, <2>2, DocumentStep
<1> QED
  BY <1>2, <1>3, <1>4

\* What is pushed to the registry is persisted, or was until another
\* UpdateConfig of the same bot wrote.
THEOREM PushesPersisted == Spec => []PushesWhatIsPersisted
<1>1. Init => Handling /\ PushesWhatIsPersisted
  BY ControlPlaneAssumption DEF Init, Handling, PushesWhatIsPersisted
<1> QED
  BY <1>1, TypeInit, TypeStep, HandlingStep, PushStep, PTL DEF Spec

\* The CreateBots and the UpdateConfigs of b.
Creates(b) == {c \in Call : bot[c] = b /\ rpc[c] = "CreateBot"}
Updates(b) == {c \in Call : bot[c] = b /\ rpc[c] = "UpdateConfig"}

\* As long as nobody updates a bot, its document and its worker have a config
\* that a CreateBot asked for.
AsCreated ==
    \A b \in Bot : Updates(b) = {} =>
        {config[b], running[b]} \subseteq {None} \cup {req[c] : c \in Creates(b)}

\* Every step keeps that.
LEMMA CreatedStep == TInv /\ Handling /\ AsCreated /\ [Next]_vars => AsCreated'
<1> SUFFICES ASSUME TInv, Handling, AsCreated, [Next]_vars, NEW b \in Bot, Updates(b)' = {}
             PROVE  {config'[b], running'[b]}
                      \subseteq {None} \cup {req'[c] : c \in Creates(b)'}
  BY DEF AsCreated
<1> DEFINE Asked == {req[c] : c \in Creates(b)}
<1>1. \A c \in Call : rpc[c] # None => rpc'[c] = rpc[c] /\ bot'[c] = bot[c] /\ req'[c] = req[c]
  BY CallsStay DEF TInv, TypeOK
<1>2. None \notin Rpc
  BY ControlPlaneAssumption
<1>3. Updates(b) = {}
  BY <1>1, <1>2 DEF Updates, Rpc
<1>4. Asked \subseteq {req'[c] : c \in Creates(b)'}
  BY <1>1, <1>2 DEF Creates, Rpc
<1>5. {config[b], running[b]} \subseteq {None} \cup Asked
  BY <1>3 DEF AsCreated
<1>6. ASSUME NEW c \in Call, bot[c] = b PROVE ~UpdateWrite(c) /\ ~UpdatePush(c)
  BY <1>3, <1>6 DEF UpdateWrite, UpdatePush, Handling, Updates
<1>7. ASSUME NEW c \in Call, bot[c] = b, CreatePersist(c) \/ CreateStart(c)
      PROVE  req[c] \in Asked
  BY <1>7 DEF CreatePersist, CreateStart, Handling, Creates
<1>8. config'[b] \in {None} \cup Asked
  BY <1>5, <1>6, <1>7, DocumentStep
<1>9. running'[b] \in {None} \cup Asked
  BY <1>5, <1>6, <1>7, RegistryStep
<1> QED
  BY <1>4, <1>8, <1>9

\* A bot that runs on another config than its document holds was updated, or
\* was created twice, with different configs.
THEOREM DivergesByRequest == Spec => []DivergesByRequestOnly
<1>1. Init => ConfigKept /\ ConfigBeforeWorker /\ Handling /\ AsCreated
  BY ControlPlaneAssumption
  DEF Init, ConfigKept, ConfigBeforeWorker, Handling, AsCreated
<1>2. AsCreated /\ ConfigBeforeWorker => DivergesByRequestOnly
  <2> SUFFICES ASSUME AsCreated, ConfigBeforeWorker, NEW b \in Bot,
                      running[b] # None, running[b] # config[b], Updates(b) = {}
               PROVE  \E c, d \in Creates(b) : req[c] # req[d]
    BY DEF DivergesByRequestOnly, Updates, Creates
  <2>1. {config[b], running[b]} \subseteq {req[c] : c \in Creates(b)}
    BY DEF AsCreated, ConfigBeforeWorker
  <2> QED
    BY <2>1
<1> QED
  BY <1>1, <1>2, TypeInit, TypeStep, ConfigStep, HandlingStep, CreatedStep, PTL DEF Spec
------------------------------------------------------------------------------
(* What keeps an omitted field as it is *)

\* No two UpdateConfigs of one bot are between their read and their write at the
\* same time, as a lock for each bot in the handler would have it.
OneWriter ==
    \A c, d \in Call : pc[c] = "write" /\ pc[d] = "write" /\ bot[c] = bot[d] => c = d

\* The fields left out in the copy to be written are those of the document.
CopyIsCurrent ==
    \A c \in Call, f \in {"spread", "risk"} :
        pc[c] = "write" /\ req[c][f] = Omit => cfg[c][f] = config[bot[c]][f]

\* As long as there is one writer at a time, every step keeps that.
LEMMA CurrentStep ==
    TInv /\ Handling /\ OneWriter /\ CopyIsCurrent /\ [Next]_vars => CopyIsCurrent'
<1> SUFFICES ASSUME TInv, Handling, OneWriter, CopyIsCurrent, [Next]_vars,
                    NEW c \in Call, NEW f \in {"spread", "risk"},
                    pc'[c] = "write", req'[c][f] = Omit
             PROVE  cfg'[c][f] = config'[bot'[c]][f]
  BY DEF CopyIsCurrent
<1>1. CASE UpdateRead(c)
  <2>1. config[bot[c]] \in Config /\ cfg'[c] = Merge(config[bot[c]], req[c])
    BY <1>1 DEF UpdateRead, Return, TInv, TypeOK, HandlersKnow
  <2>2. UNCHANGED <<config, bot, req>>
    BY <1>1 DEF UpdateRead, documents, handler
  <2> QED
    BY <2>1, <2>2 DEF Merge, Config
<1>2. CASE pc[c] = "write" /\ cfg'[c] = cfg[c]
  <2>1. bot'[c] = bot[c] /\ req'[c] = req[c] /\ bot[c] \in Bot
    BY <1>2, CallsStay DEF TInv, HandlersKnow
  <2>2. cfg[c][f] = config[bot[c]][f] /\ config[bot[c]] # None
    BY <1>2, <2>1 DEF CopyIsCurrent, Handling
  <2>3. ASSUME NEW d \in Call, UpdateWrite(d), bot[d] = bot[c]
        PROVE  FALSE
    <3>1. d = c
      BY <1>2, <2>3 DEF OneWriter, UpdateWrite
    <3> QED
      BY <2>3, <3>1 DEF UpdateWrite, Goto, Return, TInv, TypeOK
  <2>4. config'[bot[c]] = config[bot[c]]
    BY <2>1, <2>2, <2>3, DocumentStep
  <2> QED
    BY <1>2, <2>1, <2>2, <2>4
<1> QED
  BY <1>1, <1>2, CallsStay

\* What the API promises of omitted fields is lost to overlapping UpdateConfigs
\* of one bot, and to nothing else: with one writer at a time it holds, whatever
\* other handlers, failures and restarts come in between.
THEOREM OmittedStayWithOneWriter == Spec /\ []OneWriter => OmittedFieldsStay
<1> DEFINE Kept(c, f) == pc[c] = "write" /\ pc'[c] = "push" /\ req[c][f] = Omit
                           => config'[bot[c]][f] = config[bot[c]][f]
<1>1. Init => Handling /\ CopyIsCurrent
  BY DEF Init, Handling, CopyIsCurrent
<1>2. ASSUME TInv, Handling, CopyIsCurrent, [Next]_vars,
             NEW c \in Call, NEW f \in {"spread", "risk"},
             pc[c] = "write", pc'[c] = "push", req[c][f] = Omit
      PROVE  config'[bot[c]][f] = config[bot[c]][f]
  <2>1. bot[c] \in Bot /\ config[bot[c]] # None /\ cfg[c][f] = config[bot[c]][f]
    BY <1>2 DEF TInv, HandlersKnow, Handling, CopyIsCurrent
  <2>2. ASSUME NEW d \in Call, UpdateWrite(d) PROVE d = c
    BY <1>2, <2>2 DEF UpdateWrite, Goto, Return, TInv, TypeOK
  <2> QED
    BY <2>1, <2>2, <1>2, DocumentStep
<1>3. TInv /\ Handling /\ CopyIsCurrent /\ [Next]_vars
        => [\A c \in Call, f \in {"spread", "risk"} : Kept(c, f)]_vars
  BY <1>2
<1> QED
  BY <1>1, <1>3, TypeInit, TypeStep, HandlingStep, CurrentStep, PTL
     DEF Spec, OmittedFieldsStay
------------------------------------------------------------------------------
(* The API implements BotRecords *)

\* A handler that neither comes to its mark nor leaves it leaves the bots that
\* are to be marked as they are.
LEMMA MarksStay ==
    ASSUME pc \in [Call -> Pc], NEW c \in Call, NEW l, pc' = [pc EXCEPT ![c] = l],
           pc[c] # "mark", l # "mark", UNCHANGED unmarked,
           \A d \in Call \ {c} : bot'[d] = bot[d]
    PROVE  UNCHANGED toBeMarked
<1>1. ASSUME NEW d \in Call
      PROVE  /\ pc'[d] = "mark" <=> pc[d] = "mark"
             /\ pc[d] = "mark" => bot'[d] = bot[d]
  OBVIOUS
<1> QED
  BY <1>1 DEF toBeMarked

\* One that marks its bot's session takes no other bot off them.
LEMMA OneMarkLess ==
    ASSUME pc \in [Call -> Pc], NEW c \in Call, NEW l, pc' = [pc EXCEPT ![c] = l],
           pc[c] = "mark", l # "mark", unmarked' = unmarked \ {bot[c]}, UNCHANGED bot
    PROVE  toBeMarked' \in {toBeMarked, toBeMarked \ {bot[c]}}
<1>1. ASSUME NEW b, b # bot[c]
      PROVE  b \in toBeMarked' <=> b \in toBeMarked
  BY <1>1 DEF toBeMarked
<1>2. bot[c] \in toBeMarked
  BY DEF toBeMarked
<1> QED
  BY <1>1, <1>2

\* Every step is a step of BotRecords, or none.
LEMMA RecordsStep ==
    TInv /\ Handling /\ ConfigKept /\ [Next]_vars => [Records!Next]_(Records!vars)
<1> SUFFICES ASSUME TInv, Handling, ConfigKept, [Next]_vars
             PROVE  Records!Next \/ UNCHANGED Records!vars
  OBVIOUS
<1> DEFINE Goal == Records!Next \/ UNCHANGED Records!vars
<1>0. /\ pc \in [Call -> Pc] /\ bot \in [Call -> Bot \cup {None}]
      /\ config \in [Bot -> Config \cup {None}] /\ running \in [Bot -> Config \cup {None}]
      /\ \A c \in Call : pc[c] # "unborn" => bot[c] \in Bot
      /\ \A c \in Call : pc[c] \in {"write", "push"} => cfg[c] \in Config
      /\ \A c \in Call : pc[c] \in {"persist", "register"} => req[c] \in Config
  BY DEF TInv, TypeOK, HandlersKnow
<1>1. CASE UNCHANGED <<config, running, session, goroutines, toBeMarked>>
  BY <1>1 DEF Records!vars
<1>2. ASSUME NEW c \in Call, NEW r \in Rpc, NEW b \in Bot, NEW q \in Partial \cup {None},
             NEW cancel \in BOOLEAN, Receive(c, r, b, q, cancel)
      PROVE  Goal
  <2>1. Entry(r) # "mark"
    BY DEF Entry
  <2>2. UNCHANGED toBeMarked
    BY <1>0, <1>2, <2>1, MarksStay DEF Receive, Goto
  <2> QED
    BY <1>1, <1>2, <2>2 DEF Receive, documents, outside
<1>3. ASSUME NEW c \in Call, CreatePersist(c)
      PROVE  Goal
  <2>1. bot[c] \in Bot /\ req[c] \in Config
    BY <1>0, <1>3 DEF CreatePersist
  <2>2. UNCHANGED toBeMarked
    BY <1>0, <1>3, MarksStay DEF CreatePersist, Goto, Return, handler
  <2>3. /\ UNCHANGED <<running, session, goroutines>>
        /\ config' \in {config, SetOnInsert(bot[c], req[c])}
    BY <1>3 DEF CreatePersist, outside
  <2>4. UNCHANGED config \/ Records!Persist(bot[c], req[c])
    BY <2>2, <2>3 DEF SetOnInsert, Records!Persist
  <2> QED
    BY <1>1, <2>1, <2>2, <2>3, <2>4 DEF Records!Next
<1>4. ASSUME NEW c \in Call, CreateStart(c)
      PROVE  Goal
  <2>1. bot[c] \in Bot /\ req[c] \in Config /\ config[bot[c]] # None
    BY <1>0, <1>4 DEF CreateStart, ConfigKept
  <2>2. UNCHANGED toBeMarked
    BY <1>0, <1>4, MarksStay DEF CreateStart, Goto, Return, handler
  <2>3. UNCHANGED <<config, session>>
    BY <1>4 DEF CreateStart, documents
  <2>4. UNCHANGED <<running, goroutines>> \/ Records!Start(bot[c], req[c])
    BY <1>4, <2>1, <2>2, <2>3 DEF CreateStart, Records!Start, Records!Running
  <2> QED
    BY <1>1, <2>1, <2>2, <2>3, <2>4 DEF Records!Next
<1>5. ASSUME NEW c \in Call, DeleteStop(c)
      PROVE  Goal
  <2>1. bot[c] \in Bot /\ UNCHANGED <<config, session, goroutines, bot, unmarked>>
    BY <1>0, <1>5 DEF DeleteStop, documents, handler, outside
  <2>2. CASE running[bot[c]] = None
    <3>1. UNCHANGED running /\ pc' = [pc EXCEPT ![c] = "done"] /\ pc[c] = "stop"
      BY <1>5, <2>2 DEF DeleteStop, Return
    <3>2. UNCHANGED toBeMarked
      BY <1>0, <2>1, <3>1, MarksStay
    <3> QED
      BY <1>1, <2>1, <3>1, <3>2
  <2>3. CASE running[bot[c]] # None
    <3>1. /\ running' = [running EXCEPT ![bot[c]] = None]
          /\ pc' = [pc EXCEPT ![c] = "mark"]
      BY <1>5, <2>3 DEF DeleteStop, Goto
    <3>2. \A d \in Call : pc'[d] = "mark" <=> pc[d] = "mark" \/ d = c
      BY <1>0, <3>1
    <3>3. toBeMarked' = toBeMarked \cup {bot[c]}
      BY <2>1, <3>2 DEF toBeMarked
    <3> QED
      BY <2>1, <2>3, <3>1, <3>3 DEF Records!Next, Records!Stop, Records!Running
  <2> QED
    BY <2>2, <2>3
<1>6. ASSUME NEW c \in Call, DeleteMark(c)
      PROVE  Goal
  <2>1. /\ bot[c] \in Bot /\ UNCHANGED <<config, running, goroutines, bot>>
        /\ pc[c] = "mark" /\ pc' = [pc EXCEPT ![c] = "audit"]
    BY <1>0, <1>6 DEF DeleteMark, Goto, handler, outside
  <2>2. bot[c] \in toBeMarked
    BY <2>1 DEF toBeMarked
  <2>3. CASE /\ session' = [session EXCEPT ![bot[c]] = IF @ = None THEN None ELSE "STOPPED"]
             /\ unmarked' = unmarked \ {bot[c]}
    <3>1. toBeMarked' \in {toBeMarked, toBeMarked \ {bot[c]}}
      BY <1>0, <2>1, <2>3, OneMarkLess
    <3> QED
      BY <2>1, <2>2, <2>3, <3>1 DEF Records!Next, Records!Mark
  <2>4. CASE UNCHANGED session /\ unmarked' = unmarked \cup {bot[c]}
    <3>1. \A d \in Call : pc'[d] = "mark" <=> pc[d] = "mark" /\ d # c
      BY <1>0, <2>1
    <3>2. toBeMarked' = toBeMarked
      BY <2>1, <2>2, <2>4, <3>1 DEF toBeMarked
    <3> QED
      BY <1>1, <2>1, <2>4, <3>2
  <2> QED
    BY <1>6, <2>3, <2>4 DEF DeleteMark
<1>7. ASSUME NEW c \in Call, UpdateWrite(c)
      PROVE  Goal
  <2>1. bot[c] \in Bot /\ cfg[c] \in Config /\ config[bot[c]] # None
    BY <1>0, <1>7 DEF UpdateWrite, Handling
  <2>2. UNCHANGED toBeMarked
    BY <1>0, <1>7, MarksStay DEF UpdateWrite, Goto, Return, handler
  <2>3. /\ UNCHANGED <<running, session, goroutines>>
        /\ config' \in {config, [config EXCEPT ![bot[c]] = cfg[c]]}
    BY <1>7 DEF UpdateWrite, outside
  <2> QED
    BY <1>1, <2>1, <2>2, <2>3 DEF Records!Next, Records!Replace
<1>8. ASSUME NEW c \in Call, UpdatePush(c)
      PROVE  Goal
  <2>1. bot[c] \in Bot /\ cfg[c] \in Config
    BY <1>0, <1>8 DEF UpdatePush
  <2>2. UNCHANGED toBeMarked
    BY <1>0, <1>8, MarksStay DEF UpdatePush, Goto, Return, handler
  <2>3. UNCHANGED <<config, session, goroutines>>
    BY <1>8 DEF UpdatePush, documents, outside
  <2>4. \/ UNCHANGED running
        \/ running[bot[c]] # None /\ running' = [running EXCEPT ![bot[c]] = cfg[c]]
    BY <1>8 DEF UpdatePush
  <2>5. UNCHANGED running \/ Records!Push(bot[c], cfg[c])
    BY <2>1, <2>2, <2>3, <2>4 DEF Records!Push, Records!Running
  <2> QED
    BY <1>1, <2>1, <2>2, <2>3, <2>5 DEF Records!Next
<1>9. ASSUME NEW c \in Call, MoveWorker(c) \/ UpdateRead(c) \/ WriteAudit(c)
      PROVE  Goal
  <2>1. UNCHANGED <<config, session, running, goroutines>>
    BY <1>9 DEF MoveWorker, UpdateRead, WriteAudit, documents, outside
  <2>2. UNCHANGED toBeMarked
    BY <1>0, <1>9, MarksStay
    DEF MoveWorker, UpdateRead, WriteAudit, Goto, Return, handler
  <2> QED
    BY <1>1, <2>1, <2>2
<1>10. ASSUME NEW b \in Bot, Heartbeat(b)
       PROVE  Goal
  <2>1. toBeMarked' = IF running[b] = None THEN toBeMarked \cup {b} ELSE toBeMarked
    BY <1>10 DEF Heartbeat, handler, toBeMarked
  <2> QED
    BY <1>10, <2>1 DEF Heartbeat, outside, Records!Next, Records!Beat, Records!Running
<1>11. CASE Restart
  <2>1. \A c \in Call : pc'[c] # "mark"
    BY <1>11 DEF Restart
  <2>2. toBeMarked' = toBeMarked \cup {b \in Bot : running[b] # None}
    BY <1>11, <2>1 DEF Restart, toBeMarked
  <2> QED
    BY <1>11, <2>2 DEF Restart, documents, Records!Next, Records!Crash, Records!Running
<1>12. ASSUME NEW b \in Bot, Trade(b) \/ Fill(b)
       PROVE  Goal
  BY <1>1, <1>12 DEF Trade, Fill, documents, handler, toBeMarked
<1>13. CASE UNCHANGED vars
  BY <1>1, <1>13 DEF vars, documents, handler, outside, toBeMarked
<1> QED
  BY <1>2, <1>3, <1>4, <1>5, <1>6, <1>7, <1>8, <1>9, <1>10, <1>11, <1>12, <1>13
  DEF Next, Handle

\* The API implements BotRecords: however its handlers overlap, fail or are cut
\* short, each bot's config, worker and session only change in the ways of that
\* module, one bot at a time but for a crash.
THEOREM Refinement == Spec => ImplementsRecords
<1>1. Init => Records!Init
  BY DEF Init, Records!Init, toBeMarked
<1>2. Init => ConfigKept /\ ConfigBeforeWorker /\ Handling
  BY ControlPlaneAssumption DEF Init, ConfigKept, ConfigBeforeWorker, Handling
<1> QED
  BY <1>1, <1>2, TypeInit, TypeStep, ConfigStep, HandlingStep, RecordsStep, PTL
     DEF Spec, ImplementsRecords, Records!Spec
==============================================================================
