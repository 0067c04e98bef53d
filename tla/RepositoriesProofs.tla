-------------------------- MODULE RepositoriesProofs -------------------------
(***************************************************************************)
(* What the repositories keep to without a unique index, for any number of *)
(* bots, callers and documents.                                            *)
(***************************************************************************)
EXTENDS Repositories, TLAPS

USE RepositoriesAssumption

\* While an upsert is about to insert a bot's first session, no other is, and
\* the bot still has none.
UpsertsAlone ==
    \A c \in Caller : upserting[c] # None /\ upserting[c].key \notin twice =>
        /\ docs[upserting[c].key] = {}
        /\ \A e \in Caller \ {c} :
              upserting[e] # None => upserting[e].key # upserting[c].key

RInv == TypeOK /\ UpsertsAlone /\ SingleDocument /\ ReadsLastWrite

\* Only documents and histories of k change, and upserts as said.
LEMMA UpdateOneStep ==
    ASSUME RInv, NEW k \in Key, NEW d \in docs[k], NEW v \in Value, UpdateOne(k, d, v),
           last' \in [Key -> SUBSET Value],
           \A l \in Key \ {k} : last'[l] = last[l],
           k \notin twice => last'[k] = {v},
           UNCHANGED <<upserting, twice>>
    PROVE  RInv'
<1> USE DEF RInv
<1> DEFINE new == [d EXCEPT !.value = v]
<1>1. docs \in [Key -> SUBSET Doc] /\ d \in Doc
  BY DEF TypeOK
<1>2. new \in Doc /\ new.id = d.id /\ new.value = v
  BY <1>1 DEF Doc
<1> HIDE DEF new
<1>3. docs' = [docs EXCEPT ![k] = (@ \ {d}) \cup {new}]
  BY DEF UpdateOne, new
<1>4. docs' \in [Key -> SUBSET Doc]
  BY <1>1, <1>2, <1>3
<1>5. \A i, j \in Key : \A a \in docs'[i], b \in docs'[j] : a.id = b.id => i = j /\ a = b
  BY <1>1, <1>2, <1>3 DEF TypeOK
<1>6. k \notin twice => docs[k] = {d} /\ docs'[k] = {new}
  BY <1>1, <1>3 DEF SingleDocument
<1>7. \A l \in Key \ {k} : docs'[l] = docs[l]
  BY <1>1, <1>3
<1>8. SingleDocument'
  BY <1>6, <1>7 DEF SingleDocument
<1>9. ReadsLastWrite'
  BY <1>2, <1>6, <1>7 DEF ReadsLastWrite, FindByBotID
<1>10. UpsertsAlone'
  BY <1>6, <1>7 DEF UpsertsAlone, TypeOK, Upsert, Key
<1> QED
  BY <1>4, <1>5, <1>8, <1>9, <1>10 DEF TypeOK

\* A document comes to k: one, or a second one of a k in twice.
LEMMA InsertOneStep ==
    ASSUME RInv, NEW k \in Key, NEW v \in Value, InsertOne(k, v),
           upserting' \in [Caller -> Upsert \cup {None}],
           twice' \subseteq Key, twice \subseteq twice',
           k \notin twice' => docs[k] = {},
           UpsertsAlone'
    PROVE  RInv'
<1> USE DEF RInv
<1>1. docs \in [Key -> SUBSET Doc] /\ last \in [Key -> SUBSET Value]
  BY DEF TypeOK
<1>2. PICK id \in FreshId(k) : docs' = [docs EXCEPT ![k] = @ \cup {[id |-> id, value |-> v]}]
  BY DEF InsertOne
<1> DEFINE new == [id |-> id, value |-> v]
<1>3. new \in Doc /\ new.id = id /\ new.value = v
  BY <1>2 DEF Doc, FreshId
<1>4. \A l \in Key : \A a \in docs[l] : a.id # id
  BY <1>2 DEF FreshId
<1> HIDE DEF new
<1>5. docs' = [docs EXCEPT ![k] = @ \cup {new}]
  BY <1>2 DEF new
<1>6. docs' \in [Key -> SUBSET Doc]
  BY <1>1, <1>3, <1>5
<1>7. \A i, j \in Key : \A a \in docs'[i], b \in docs'[j] : a.id = b.id => i = j /\ a = b
  BY <1>1, <1>3, <1>4, <1>5 DEF TypeOK
<1>8. k \notin twice' => docs'[k] = {new}
  BY <1>1, <1>5
<1>9. \A l \in Key \ {k} : docs'[l] = docs[l]
  BY <1>1, <1>5
<1>10. last' = [last EXCEPT ![k] = {v}]
  BY DEF InsertOne
<1>11. SingleDocument'
  BY <1>8, <1>9 DEF SingleDocument
<1>12. ReadsLastWrite'
  BY <1>1, <1>3, <1>8, <1>9, <1>10 DEF ReadsLastWrite, FindByBotID
<1> QED
  BY <1>1, <1>6, <1>7, <1>10, <1>11, <1>12 DEF TypeOK

\* Every call preserves the invariant.
LEMMA RInvStep == RInv /\ [Next]_vars => RInv'
<1> SUFFICES ASSUME RInv, [Next]_vars PROVE RInv'
  OBVIOUS
<1> USE DEF RInv
<1>0. /\ docs \in [Key -> SUBSET Doc] /\ last \in [Key -> SUBSET Value]
      /\ upserting \in [Caller -> Upsert \cup {None}] /\ twice \subseteq Key
      /\ Config \subseteq Key /\ Session \subseteq Key
  BY DEF TypeOK, Key
<1>1. ASSUME NEW k \in Config, NEW v \in Value, Insert(k, v)
      PROVE  RInv'
  <2>1. k \in Key /\ InsertOne(k, v) /\ UNCHANGED upserting
        /\ twice' = twice \cup {l \in {k} : docs[l] # {}}
    BY <1>0, <1>1 DEF Insert
  <2>2. \A l \in Key \ {k} : docs'[l] = docs[l]
    BY <1>0, <2>1 DEF InsertOne
  <2>3. \A c \in Caller : upserting[c] # None => upserting[c].key \in Key \ {k}
    BY <1>0, <1>1 DEF Upsert
  <2>4. UpsertsAlone'
    BY <2>1, <2>2, <2>3 DEF UpsertsAlone
  <2> QED
    BY <1>0, <2>1, <2>4, InsertOneStep
<1>2. ASSUME NEW k \in Key, NEW v \in Value, Update(k, v) \/ UpsertMatch(k, v)
      PROVE  RInv'
  BY <1>0, <1>2, UpdateOneStep DEF Update, UpsertMatch
<1>3. ASSUME NEW c \in Caller, NEW k \in Session, NEW v \in Value, UpsertNoMatch(c, k, v)
      PROVE  RInv'
  <2>1. /\ upserting[c] = None /\ docs[k] = {} /\ UNCHANGED <<docs, last>>
        /\ upserting' = [upserting EXCEPT ![c] = [key |-> k, value |-> v]]
        /\ twice' = twice \cup {l \in {k} : Upserters(l) # {}}
    BY <1>3 DEF UpsertNoMatch
  <2>2. [key |-> k, value |-> v] \in Upsert
    BY DEF Upsert
  <2>3. upserting' \in [Caller -> Upsert \cup {None}] /\ twice' \subseteq Key
    BY <1>0, <2>1, <2>2
  <2>4. k \notin twice' => \A e \in Caller : upserting[e] # None => upserting[e].key # k
    BY <2>1 DEF Upserters
  <2>5. \A e \in Caller : /\ e # c => upserting'[e] = upserting[e]
                          /\ e = c => upserting'[e].key = k
    BY <1>0, <2>1
  <2>6. twice \subseteq twice'
    BY <2>1
  <2>7. UpsertsAlone'
    BY <2>1, <2>4, <2>5, <2>6 DEF UpsertsAlone
  <2> QED
    BY <2>1, <2>3, <2>6, <2>7 DEF TypeOK, SingleDocument, ReadsLastWrite, FindByBotID
<1>4. ASSUME NEW c \in Caller, UpsertInsert(c)
      PROVE  RInv'
  <2> DEFINE k == upserting[c].key
             v == upserting[c].value
  <2>1. /\ upserting[c] \in Upsert /\ k \in Session /\ v \in Value
        /\ upserting' = [upserting EXCEPT ![c] = None] /\ twice' = twice
        /\ InsertOne(k, v) \/ UNCHANGED <<docs, last>>
    BY <1>0, <1>4 DEF UpsertInsert, Upsert
  <2>2. k \notin twice => docs[k] = {}
    BY <1>4 DEF UpsertInsert, UpsertsAlone
  <2>3. upserting' \in [Caller -> Upsert \cup {None}]
    BY <1>0, <2>1
  <2> HIDE DEF k, v
  <2>4. ASSUME NEW e \in Caller, upserting'[e] # None, upserting'[e].key \notin twice'
        PROVE  docs'[upserting'[e].key] = {}
    <3>1. e # c /\ upserting'[e] = upserting[e] /\ upserting[e].key \notin twice
      BY <1>0, <2>1, <2>4
    <3>2. docs[upserting[e].key] = {} /\ upserting[e].key # k
      BY <2>4, <3>1, <1>4 DEF UpsertsAlone, UpsertInsert, k
    <3>3. CASE InsertOne(k, v)
      BY <1>0, <3>1, <3>2, <3>3 DEF InsertOne
    <3> QED
      BY <2>1, <3>1, <3>2, <3>3
  <2>5. UpsertsAlone'
    BY <1>0, <2>1, <2>4 DEF UpsertsAlone
  <2>6. CASE InsertOne(k, v)
    BY <1>0, <2>1, <2>2, <2>3, <2>5, <2>6, InsertOneStep
  <2>7. CASE UNCHANGED <<docs, last>>
    BY <2>1, <2>3, <2>5, <2>7 DEF TypeOK, SingleDocument, ReadsLastWrite, FindByBotID
  <2> QED
    BY <2>1, <2>6, <2>7
<1>5. ASSUME NEW k \in Session, NEW s \in State, SetState(k, s)
      PROVE  RInv'
  <2>1. PICK d \in docs[k] : UpdateOne(k, d, [d.value EXCEPT !.state = s])
    BY <1>5 DEF SetState
  <2>2. d.value \in Value /\ [d.value EXCEPT !.state = s] \in Value
    BY <1>0, <2>1 DEF Doc, Value
  <2>3. last' = [last EXCEPT ![k] = {[w EXCEPT !.state = s] : w \in @}]
    BY <1>5 DEF SetState
  <2>4. \A w \in Value : [w EXCEPT !.state = s] \in Value
    BY DEF Value
  <2>5. last' \in [Key -> SUBSET Value]
    BY <1>0, <2>3, <2>4
  <2>6. k \notin twice => last[k] = {d.value}
    BY <1>0, <2>1 DEF SingleDocument, ReadsLastWrite, FindByBotID
  <2>7. k \notin twice => last'[k] = {[d.value EXCEPT !.state = s]}
    BY <1>0, <2>3, <2>6
  <2> QED
    BY <1>0, <1>5, <2>1, <2>2, <2>3, <2>5, <2>7, UpdateOneStep DEF SetState
<1>6. ASSUME NEW k \in Key, Delete(k)
      PROVE  RInv'
  <2>1. PICK d \in docs[k] : docs' = [docs EXCEPT ![k] = @ \ {d}]
    BY <1>6 DEF Delete
  <2>2. \A l \in Key : docs'[l] \subseteq docs[l] /\ (l # k => docs'[l] = docs[l])
    BY <1>0, <2>1
  <2>3. k \notin twice => docs'[k] = {}
    BY <1>0, <2>1 DEF SingleDocument
  <2>4. /\ last' = [last EXCEPT ![k] = {}]
        /\ UNCHANGED <<upserting, twice>>
    BY <1>6 DEF Delete
  <2>5. TypeOK'
    BY <1>0, <2>1, <2>2, <2>4 DEF TypeOK
  <2>6. SingleDocument' /\ ReadsLastWrite'
    BY <1>0, <2>2, <2>3, <2>4 DEF SingleDocument, ReadsLastWrite, FindByBotID
  <2>7. UpsertsAlone'
    BY <1>0, <2>2, <2>4 DEF UpsertsAlone, Upsert
  <2> QED
    BY <2>5, <2>6, <2>7
<1>7. CASE UNCHANGED vars
  BY <1>7 DEF vars, TypeOK, UpsertsAlone, SingleDocument, ReadsLastWrite, FindByBotID
<1> QED
  BY <1>0, <1>1, <1>2, <1>3, <1>4, <1>5, <1>6, <1>7 DEF Next

\* The inductive invariant holds throughout.
THEOREM RepositoriesInvariance == Spec => []RInv
<1>1. Init => RInv
  BY DEF Init, RInv, TypeOK, UpsertsAlone, SingleDocument, ReadsLastWrite, FindByBotID
<1> QED
  BY <1>1, RInvStep, PTL DEF Spec

\* The variables keep their types: no id is given to two documents.
THEOREM RepositoriesTypeCorrect == Spec => []TypeOK
  BY RepositoriesInvariance, PTL DEF RInv

\* A second document of a bot needs an Insert over an existing config, or two
\* upserts that overlap.
THEOREM SingleDocumentCorrect == Spec => []SingleDocument
  BY RepositoriesInvariance, PTL DEF RInv

\* But for those, what is read is what was last written.
THEOREM ReadsLastWriteCorrect == Spec => []ReadsLastWrite
  BY RepositoriesInvariance, PTL DEF RInv
==============================================================================
