----------------------------- MODULE Repositories ----------------------------
(***************************************************************************)
(* The repositories of bot configs and sessions (internal/repository):     *)
(* every method is one call to MongoDB about the document of one bot, and  *)
(* no index keeps a second document of a bot out.  MongoDB carries a call  *)
(* out in one step, but for an upsert that matches no document: it inserts *)
(* one in a step of its own.  A caller whose reply is lost may call again. *)
(*                                                                         *)
(* Methods that only read, and the logs of trades and audits, which only   *)
(* grow, are left out.                                                     *)
(***************************************************************************)
EXTENDS FiniteSets

CONSTANTS Config,   \* keys of bot_configs
          Session,  \* keys of active_sessions
          Caller,   \* concurrent callers
          State,    \* states of a session (whatever a config's are)
          Rest,     \* what else a document says
          Id,       \* object ids (a bound on the documents)
          None      \* no upsert under way

Key    == Config \cup Session
Value  == [state : State, rest : Rest]
Doc    == [id : Id, value : Value]
Upsert == [key : Session, value : Value]

ASSUME RepositoriesAssumption ==
    /\ Config \cap Session = {}
    /\ None \notin Upsert

\* The definitions named Wrong... are no part of the specification: each is the
\* definition after it with one slip, kept to see that a property notices.

VARIABLES docs,      \* docs[k]: the documents with key k
          upserting, \* upserting[c]: what the upsert of c is about to insert
          twice,     \* history: keys of which a second document was asked for
          last       \* history: last[k]: what was last written, if not deleted

vars == <<docs, upserting, twice, last>>

TypeOK ==
    /\ docs \in [Key -> SUBSET Doc]
    /\ \A k, l \in Key : \A d \in docs[k], e \in docs[l] : d.id = e.id => k = l /\ d = e
    /\ upserting \in [Caller -> Upsert \cup {None}]
    /\ twice \subseteq Key
    /\ last \in [Key -> SUBSET Value]

Init ==
    /\ docs = [k \in Key |-> {}]
    /\ upserting = [c \in Caller |-> None]
    /\ twice = {}
    /\ last = [k \in Key |-> {}]
------------------------------------------------------------------------------
Upserters(k) == {c \in Caller : upserting[c] # None /\ upserting[c].key = k}

\* (Ids are unique in their collection only.)
WrongFreshId(k) == Id \ {d.id : d \in docs[k]}

FreshId(k) == Id \ {d.id : d \in UNION {docs[l] : l \in Key}}

\* The calls of MongoDB: one document comes, changes or goes.
InsertOne(k, v) ==
    /\ \E id \in FreshId(k) : docs' = [docs EXCEPT ![k] = @ \cup {[id |-> id, value |-> v]}]
    /\ last' = [last EXCEPT ![k] = {v}]

UpdateOne(k, d, v) == docs' = [docs EXCEPT ![k] = (@ \ {d}) \cup {[d EXCEPT !.value = v]}]

\* Insert adds a config, whether the bot has one or not.
Insert(k, v) ==
    /\ InsertOne(k, v)
    /\ twice' = twice \cup {l \in {k} : docs[l] # {}}
    /\ UNCHANGED upserting

\* Update replaces a config of the bot, if there is one.
Update(k, v) ==
    /\ \E d \in docs[k] : UpdateOne(k, d, v)
    /\ last' = [last EXCEPT ![k] = {v}]
    /\ UNCHANGED <<upserting, twice>>

\* Upsert, when the bot has a session: it is written over.
UpsertMatch(k, v) ==
    /\ \E d \in docs[k] : UpdateOne(k, d, v)
    /\ last' = [last EXCEPT ![k] = {v}]
    /\ UNCHANGED <<upserting, twice>>

\* (Upsert does not look for a session.)
WrongUpsertNoMatch(c, k, v) ==
    /\ upserting[c] = None
    /\ upserting' = [upserting EXCEPT ![c] = [key |-> k, value |-> v]]
    /\ twice' = twice \cup {l \in {k} : Upserters(l) # {}}
    /\ UNCHANGED <<docs, last>>

\* Upsert, when the bot has none: it is going to insert one ...
UpsertNoMatch(c, k, v) ==
    /\ upserting[c] = None
    /\ docs[k] = {}
    /\ upserting' = [upserting EXCEPT ![c] = [key |-> k, value |-> v]]
    /\ twice' = twice \cup {l \in {k} : Upserters(l) # {}}
    /\ UNCHANGED <<docs, last>>

\* ... and does, unless the connection or the server fails.
UpsertInsert(c) ==
    /\ upserting[c] # None
    /\ \/ InsertOne(upserting[c].key, upserting[c].value)
       \/ UNCHANGED <<docs, last>>
    /\ upserting' = [upserting EXCEPT ![c] = None]
    /\ UNCHANGED twice

\* (SetState replaces the session.)
WrongSetState(k, s) ==
    /\ \E d \in docs[k], r \in Rest : UpdateOne(k, d, [state |-> s, rest |-> r])
    /\ last' = [last EXCEPT ![k] = {[v EXCEPT !.state = s] : v \in @}]
    /\ UNCHANGED <<upserting, twice>>

\* SetState changes one field of a session of the bot, if there is one.
SetState(k, s) ==
    /\ \E d \in docs[k] : UpdateOne(k, d, [d.value EXCEPT !.state = s])
    /\ last' = [last EXCEPT ![k] = {[v EXCEPT !.state = s] : v \in @}]
    /\ UNCHANGED <<upserting, twice>>

\* Delete removes one document of the bot, if there is one.
Delete(k) ==
    /\ \E d \in docs[k] : docs' = [docs EXCEPT ![k] = @ \ {d}]
    /\ last' = [last EXCEPT ![k] = {}]
    /\ UNCHANGED <<upserting, twice>>

\* What a FindByBotID may give; nothing is ErrNotFound.
FindByBotID(k) == {d.value : d \in docs[k]}

Next ==
    \/ \E k \in Config, v \in Value : Insert(k, v) \/ Update(k, v)
    \/ \E k \in Session, v \in Value :
          UpsertMatch(k, v) \/ \E c \in Caller : UpsertNoMatch(c, k, v)
    \/ \E c \in Caller : UpsertInsert(c)
    \/ \E k \in Session, s \in State : SetState(k, s)
    \/ \E k \in Key : Delete(k)

Spec == Init /\ [][Next]_vars
------------------------------------------------------------------------------
(* Properties *)

\* A bot has one document in a collection at most, unless its config was
\* inserted again while it had one, or two upserts of its first session
\* overlapped: then nothing keeps the second document out.
SingleDocument ==
    \A k \in Key \ twice : \A d, e \in docs[k] : d = e

\* But for those, FindByBotID gives what was written last, with every field
\* that a SetState left alone, and ErrNotFound once Delete has returned nil.
ReadsLastWrite ==
    \A k \in Key \ twice : FindByBotID(k) = last[k]
==============================================================================
