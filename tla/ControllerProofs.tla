--------------------------- MODULE ControllerProofs ---------------------------
(***************************************************************************)
(* Proofs about the spoofed pings of Controller, for any calls,            *)
(* measurements and keys.                                                  *)
(***************************************************************************)
EXTENDS Controller, FiniteSetTheorems, TLAPS

Looking == {"idle", "cache", "sendCached", "db", "sendStored", "run"}

Hits == UNION {[S -> Key] : S \in SUBSET Meas}
Answers == UNION {[S -> Key \union {Errored}] : S \in SUBSET Meas}
Calls == [pc : Looking \union {"wait", "ended"}, ctx : {"live", "done"}, left : SUBSET Meas,
          toSend : Hits]
Groups == [count : Nat, ch : Seq(Meas), closed : BOOLEAN, kill : BOOLEAN]

LookupTypes ==
  /\ cache \in [Key -> Key \union {None}]
  /\ db \subseteq Key
  /\ writes \subseteq [keys : SUBSET Key, key : Key]
  /\ call \in [Call -> Calls]
  /\ answer \in [Call -> Answers]

GroupTypes ==
  /\ sm \subseteq Call \X Meas
  /\ group \in [Call -> Groups]
  /\ collector \in [Call -> {"none", "receive", "ended"}]

\* The ids of a call that are in the map.
Ids(c) == {m \in Meas : <<c, m>> \in sm}

\* Nothing is registered before a call runs.  From then on a group counts its
\* ids, and has room for them all, until it is killed or they have all come.
GroupInv(c) ==
  /\ call[c].pc \in Looking => Ids(c) = {} /\ group[c].ch = <<>>
  /\ Ids(c) # {} => group[c].count = Cardinality(Ids(c)) /\ ~group[c].closed
  /\ Len(group[c].ch) + Cardinality(Ids(c)) <= Cardinality(Spoofed(c))

\* A spoofed ping is awaited, on its way through the channel, or answered.
Accounted(c) == \A m \in Spoofed(c) : \/ m \in Ids(c) \/ m \in DOMAIN answer[c]
                                      \/ \E i \in 1 .. Len(group[c].ch) : group[c].ch[i] = m

\* While the context lasts no spoofed ping is forgotten, and the collector ends
\* when none is awaited or on its way.
CollectInv(c) ==
  /\ call[c].pc \in Looking => collector[c] = "none"
  /\ call[c].pc = "ended" \/ group[c].kill => collector[c] = "ended"
  /\ Live(c) /\ collector[c] = "ended" => Ids(c) = {} /\ group[c].ch = <<>>
  /\ Live(c) /\ call[c].pc \notin Looking => Accounted(c)

SpoofInv == /\ LookupTypes /\ GroupTypes
            /\ \A c \in Call : GroupInv(c) /\ CollectInv(c)

-----------------------------------------------------------------------------

LEMMA MeasAreFinite ==
  ASSUME NEW S \in SUBSET Meas
  PROVE  IsFiniteSet(S) /\ Cardinality(S) \in Nat
<1>1. IsFiniteSet(Meas)
  BY ControllerAssumption
<1> QED
  BY <1>1, FS_Subset, FS_CardinalityType

LEMMA SpoofedAreMeas ==
  ASSUME LookupTypes, NEW c \in Call
  PROVE  Spoofed(c) \in SUBSET Meas /\ Plain(c) \in SUBSET Meas
  BY DEF LookupTypes, Calls, Spoofed, Plain

LEMMA IdsAreMeas == ASSUME NEW c \in Call PROVE Ids(c) \in SUBSET Meas
  BY DEF Ids

\* Answers are added to those a call has got: results under their keys, or
\* errors.
LEMMA ExtendTypes ==
  ASSUME NEW f \in Answers, NEW S \in SUBSET Meas, NEW key, \A m \in S : key[m] \in Key
  PROVE  [m \in DOMAIN f \union S |-> IF m \in S THEN key[m] ELSE f[m]] \in Answers
<1>1. PICK R \in SUBSET Meas : f \in [R -> Key \union {Errored}]
  BY DEF Answers
<1>2. /\ R \union S \in SUBSET Meas
      /\ [m \in DOMAIN f \union S |-> IF m \in S THEN key[m] ELSE f[m]]
           \in [R \union S -> Key \union {Errored}]
  BY <1>1
<1> QED
  BY <1>2 DEF Answers

LEMMA ErrorTypes ==
  ASSUME NEW f \in Answers, NEW S \in SUBSET Meas
  PROVE  [m \in DOMAIN f \union S |-> IF m \in S THEN Errored ELSE f[m]] \in Answers
<1>1. PICK R \in SUBSET Meas : f \in [R -> Key \union {Errored}]
  BY DEF Answers
<1>2. /\ R \union S \in SUBSET Meas
      /\ [m \in DOMAIN f \union S |-> IF m \in S THEN Errored ELSE f[m]]
           \in [R \union S -> Key \union {Errored}]
  BY <1>1
<1> QED
  BY <1>2 DEF Answers

-----------------------------------------------------------------------------

\* A call looks up what it wants, or goes on to its end; its context may end.
GroupUntouched(c) ==
  /\ call'[c].ctx = "live" => Live(c)
  /\ \/ call[c].pc \in Looking /\ call'[c].pc \in Looking
     \/ /\ call[c].pc \notin Looking /\ call'[c].left = call[c].left
        /\ \/ call'[c].pc = call[c].pc
           \/ call'[c].pc = "ended" /\ collector[c] = "ended"

\* The lookups of a call, its stream and its end leave its group alone; and a
\* step of one call leaves the other calls alone.
LEMMA CallKept ==
  ASSUME SpoofInv, LookupTypes', NEW c \in Call,
         group'[c] = group[c], collector'[c] = collector[c],
         \A m \in Meas : <<c, m>> \in sm' <=> <<c, m>> \in sm,
         DOMAIN answer[c] \subseteq DOMAIN answer'[c],
         GroupUntouched(c)
  PROVE  GroupInv(c)' /\ CollectInv(c)'
<1>1. Ids(c)' = Ids(c)
  BY DEF Ids
<1>2. LookupTypes /\ GroupInv(c) /\ CollectInv(c)
  BY DEF SpoofInv
<1>3. CASE call[c].pc \in Looking /\ call'[c].pc \in Looking
  <2>1. Ids(c) = {} /\ group[c].ch = <<>> /\ collector[c] = "none"
    BY <1>2, <1>3 DEF GroupInv, CollectInv
  <2>2. Cardinality(Ids(c)') = 0 /\ Len(group'[c].ch) = 0
    BY <1>1, <2>1, FS_EmptySet
  <2>3. Cardinality(Spoofed(c)') \in Nat
    BY SpoofedAreMeas, MeasAreFinite DEF LookupTypes, Calls, Spoofed
  <2>4. GroupInv(c)'
    BY <1>1, <2>1, <2>2, <2>3 DEF GroupInv
  <2>5. call'[c].pc # "ended" /\ ~group'[c].kill
    BY <1>2, <1>3, <2>1 DEF CollectInv, Looking
  <2>6. CollectInv(c)'
    BY <1>3, <2>1, <2>5 DEF CollectInv
  <2> QED
    BY <2>4, <2>6
<1>4. CASE /\ call[c].pc \notin Looking /\ call'[c].left = call[c].left
           /\ \/ call'[c].pc = call[c].pc
              \/ call'[c].pc = "ended" /\ collector[c] = "ended"
  <2>1. Spoofed(c)' = Spoofed(c) /\ call'[c].pc \notin Looking
    BY <1>4 DEF Spoofed, Looking
  <2>2. GroupInv(c)'
    BY <1>1, <1>2, <2>1 DEF GroupInv
  <2>3. Accounted(c) => Accounted(c)'
    BY <1>1, <2>1 DEF Accounted
  <2>4. CollectInv(c)'
    BY <1>1, <1>2, <1>4, <2>1, <2>3 DEF CollectInv, GroupUntouched, Live
  <2> QED
    BY <2>2, <2>4
<1> QED
  BY <1>3, <1>4 DEF GroupUntouched

-----------------------------------------------------------------------------

\* A result that is stored is one of the keys.
LEMMA StoredTypes ==
  ASSUME LookupTypes, NEW m \in Meas, Stored(m)
  PROVE  cache' \in [Key -> Key \union {None}] /\ db' \subseteq Key
  BY ControllerAssumption DEF LookupTypes, Stored

\* What is found in the cache or the database has a key, and is answered by it.
LEMMA LookupsTypes ==
  ASSUME LookupTypes, NEW c \in Call, Lookups(c)
  PROVE  LookupTypes'
<1> USE ControllerAssumption DEF LookupTypes
<1>1. call[c] \in Calls
  OBVIOUS
<1>2. CASE LookInCache(c)
  <2>1. PICK R \in SUBSET Meas, found \in SUBSET Meas :
          /\ \A m \in found : cache[KeyOf[m]] # None
          /\ call' = [call EXCEPT ![c].pc = "sendCached",
                        ![c].left = (@ \ CheckCache) \union (R \ found),
                        ![c].toSend = [m \in found |-> cache[KeyOf[m]]]]
    BY <1>1, <1>2 DEF LookInCache, OnePerKey, Calls
  <2>2. [m \in found |-> cache[KeyOf[m]]] \in Hits
    BY <2>1 DEF Hits
  <2>3. PICK h \in Hits, left \in SUBSET Meas :
          call' = [call EXCEPT ![c].pc = "sendCached", ![c].left = left, ![c].toSend = h]
    <3>1. (call[c].left \ CheckCache) \union (R \ found) \in SUBSET Meas
      BY <1>1 DEF Calls
    <3> QED
      BY <2>1, <2>2, <3>1, Zenon
  <2>4. call' \in [Call -> Calls]
    BY <1>1, <2>3 DEF Calls, Looking
  <2> QED
    BY <1>2, <2>4 DEF LookInCache
<1>3. CASE SendHit(c)
  <2>1. PICK m \in DOMAIN call[c].toSend :
          /\ answer' = [answer EXCEPT ![c] =
               [n \in DOMAIN @ \union {m} |-> IF n \in {m} THEN call[c].toSend[n] ELSE @[n]]]
          /\ call' = [call EXCEPT ![c].toSend = [n \in DOMAIN @ \ {m} |-> @[n]]]
    BY <1>3, Zenon DEF SendHit, Extend
  <2>2. PICK S \in SUBSET Meas : call[c].toSend \in [S -> Key]
    BY <1>1 DEF Calls, Hits
  <2>3. PICK h \in Hits : call' = [call EXCEPT ![c].toSend = h]
    <3>1. [n \in DOMAIN call[c].toSend \ {m} |-> call[c].toSend[n]] \in [S \ {m} -> Key]
      BY <2>2
    <3>2. [n \in DOMAIN call[c].toSend \ {m} |-> call[c].toSend[n]] \in Hits
      BY <3>1, Zenon DEF Hits
    <3> QED
      BY <2>1, <3>2, Zenon
  <2>4. call' \in [Call -> Calls]
    BY <1>1, <2>3 DEF Calls
  <2>5. PICK got \in Answers : answer' = [answer EXCEPT ![c] = got]
    <3>1. PICK key : key = call[c].toSend
      OBVIOUS
    <3>2. PICK f \in Answers, T \in SUBSET Meas : f = answer[c] /\ T = {m}
      BY <2>1, <2>2
    <3>3. \A n \in T : key[n] \in Key
      BY <2>1, <2>2, <3>1, <3>2
    <3>4. [n \in DOMAIN f \union T |-> IF n \in T THEN key[n] ELSE f[n]] \in Answers
      BY <3>3, ExtendTypes, Zenon
    <3> QED
      BY <2>1, <3>1, <3>2, <3>4, Zenon
  <2> QED
    BY <1>3, <2>4, <2>5 DEF SendHit
<1>4. CASE HitsSent(c)
  BY <1>1, <1>4 DEF HitsSent, Goto, Calls, Looking
<1>5. CASE LookInDb(c)
  <2>1. PICK R \in SUBSET Meas, found \in SUBSET Meas :
          /\ call' = [call EXCEPT ![c].pc = "sendStored",
                        ![c].left = (@ \ CheckDb) \union (R \ found),
                        ![c].toSend = [m \in found |-> KeyOf[m]]]
          /\ writes' = writes \union {[keys |-> {KeyOf[n] : n \in R}, key |-> KeyOf[m]] : m \in found}
    <3>1. call[c].left \in SUBSET Meas
      BY <1>1 DEF Calls
    <3>2. PICK R \in OnePerKey(call[c].left \intersect CheckDb) :
            \E found \in SUBSET {m \in R : KeyOf[m] = StoredAs[m] /\ KeyOf[m] \in db} :
              /\ call' = [call EXCEPT ![c].pc = "sendStored",
                            ![c].left = (@ \ CheckDb) \union (R \ found),
                            ![c].toSend = [m \in found |-> KeyOf[m]]]
              /\ writes' = writes \union
                             {[keys |-> {KeyOf[n] : n \in R}, key |-> KeyOf[m]] : m \in found}
      BY <1>5, Zenon DEF LookInDb
    <3>3. R \in SUBSET Meas /\ \A found \in SUBSET {m \in R : KeyOf[m] = StoredAs[m] /\ KeyOf[m] \in db} :
                                 found \in SUBSET Meas
      BY <3>1, <3>2 DEF OnePerKey
    <3> QED
      BY <3>2, <3>3, Zenon
  <2>2. [m \in found |-> KeyOf[m]] \in Hits
    BY DEF Hits
  <2>3. PICK h \in Hits, left \in SUBSET Meas :
          call' = [call EXCEPT ![c].pc = "sendStored", ![c].left = left, ![c].toSend = h]
    <3>1. (call[c].left \ CheckDb) \union (R \ found) \in SUBSET Meas
      BY <1>1 DEF Calls
    <3> QED
      BY <2>1, <2>2, <3>1, Zenon
  <2>4. call' \in [Call -> Calls]
    BY <1>1, <2>3 DEF Calls, Looking
  <2>5. writes' \subseteq [keys : SUBSET Key, key : Key]
    BY <2>1
  <2> QED
    BY <1>5, <2>4, <2>5 DEF LookInDb
<1>6. CASE Run(c)
  BY <1>1, <1>6 DEF Run, Goto, Calls
<1> QED
  BY <1>2, <1>3, <1>4, <1>5, <1>6 DEF Lookups

\* A result is stored, and answered under the key of its measurement.
LEMMA ResultTypes ==
  ASSUME LookupTypes, NEW c \in Call, NEW m \in Meas, Stored(m), UNCHANGED <<writes, call>>,
         \/ answer' = [answer EXCEPT ![c] = Extend(@, {m}, LAMBDA n : KeyOf[n])]
         \/ UNCHANGED answer
  PROVE  LookupTypes'
<1> USE ControllerAssumption DEF LookupTypes
<1>1. CASE answer' = [answer EXCEPT ![c] = Extend(@, {m}, LAMBDA n : KeyOf[n])]
  <2>1. PICK f \in Answers, T \in SUBSET Meas : f = answer[c] /\ T = {m}
    OBVIOUS
  <2>2. \A n \in T : KeyOf[n] \in Key
    OBVIOUS
  <2>3. [n \in DOMAIN f \union T |-> IF n \in T THEN KeyOf[n] ELSE f[n]] \in Answers
    BY <2>2, ExtendTypes, Zenon
  <2>4. PICK h \in Answers : answer' = [answer EXCEPT ![c] = h]
    BY <1>1, <2>1, <2>3, Zenon DEF Extend
  <2> QED
    BY <2>4, StoredTypes
<1>2. CASE UNCHANGED answer
  BY <1>2, StoredTypes
<1> QED
  BY <1>1, <1>2

\* errorAllPing adds errors.
LEMMA StartFailsTypes ==
  ASSUME LookupTypes, NEW c \in Call, StartFails(c)
  PROVE  LookupTypes'
<1> USE DEF LookupTypes
<1>1. PICK told \in SUBSET Plain(c) :
        answer' = [answer EXCEPT ![c] = Extend(@, told, LAMBDA m : Errored)]
  BY DEF StartFails
<1>2. PICK f \in Answers, T \in SUBSET Meas : f = answer[c] /\ T = told
  BY <1>1, SpoofedAreMeas
<1>3. [n \in DOMAIN f \union T |-> IF n \in T THEN Errored ELSE f[n]] \in Answers
  BY ErrorTypes, Zenon
<1>4. PICK h \in Answers : answer' = [answer EXCEPT ![c] = h]
  BY <1>1, <1>2, <1>3, Zenon DEF Extend
<1> QED
  BY <1>4 DEF StartFails

LEMMA LookupTypesStep == SpoofInv /\ [Next]_vars => LookupTypes'
<1> SUFFICES ASSUME SpoofInv, [Next]_vars PROVE LookupTypes'
  OBVIOUS
<1> USE DEF SpoofInv
<1>1. ASSUME NEW c \in Call, Begin(c) \/ ContextEnds(c) \/ EndCall(c) PROVE LookupTypes'
  BY <1>1 DEF Begin, ContextEnds, EndCall, Goto, LookupTypes, Calls, Looking, Meas
<1>2. ASSUME NEW c \in Call, NEW m \in Meas, Notify(c, m) PROVE LookupTypes'
  BY <1>2 DEF Notify, LookupTypes
<1>3. ASSUME NEW c \in Call, PingResult(c) PROVE LookupTypes'
  <2>1. PICK m \in Plain(c) :
          /\ Stored(m)
          /\ \/ answer' = [answer EXCEPT ![c] = Extend(@, {m}, LAMBDA n : KeyOf[n])]
             \/ UNCHANGED answer
    BY <1>3, Zenon DEF PingResult
  <2> QED
    BY <1>3, <2>1, SpoofedAreMeas, ResultTypes DEF PingResult
<1>4. ASSUME NEW c \in Call, Collect(c) PROVE LookupTypes'
  <2>1. PICK m : m = Head(group[c].ch)
    OBVIOUS
  <2>2. m \in Meas
    BY <1>4, <2>1 DEF Collect, GroupTypes, Groups
  <2>3. /\ Stored(m)
        /\ \/ answer' = [answer EXCEPT ![c] = Extend(@, {m}, LAMBDA n : KeyOf[n])]
           \/ UNCHANGED answer
    BY <1>4, <2>1, Zenon DEF Collect
  <2> QED
    BY <1>4, <2>2, <2>3, ResultTypes DEF Collect
<1>5. ASSUME NEW w \in writes, CopyToCache(w) PROVE LookupTypes'
  BY <1>5 DEF CopyToCache, LookupTypes
<1>6. ASSUME NEW k \in Key, Expire(k) PROVE LookupTypes'
  BY <1>6 DEF Expire, LookupTypes
<1>7. ASSUME \/ UNCHANGED vars
             \/ \E c \in Call : StartPings(c) \/ PingsEnd(c) \/ Spoofs(c) \/ CollectorEnds(c)
                                \/ RemoveLeftOver(c) \/ AddToBatch(c)
      PROVE  LookupTypes'
  BY <1>7 DEF vars, StartPings, PingsEnd, Spoofs, AskSpoofed, AskedEnds, CollectorEnds, RemoveLeftOver,
              AddToBatch, LookupTypes
<1> QED
  BY <1>1, <1>2, <1>3, <1>4, <1>5, <1>6, <1>7, LookupsTypes, StartFailsTypes
     DEF Next, Pings, Collecting, Ending

-----------------------------------------------------------------------------

\* Answers are added, and none is taken back.
LEMMA AnswersGrow ==
  ASSUME SpoofInv, [Next]_vars, NEW d \in Call
  PROVE  DOMAIN answer[d] \subseteq DOMAIN answer'[d]
<1>1. answer \in [Call -> Answers]
  BY DEF SpoofInv, LookupTypes
<1>2. ASSUME NEW c \in Call, SendHit(c) PROVE DOMAIN answer[d] \subseteq DOMAIN answer'[d]
  <2>1. PICK m : answer' = [answer EXCEPT ![c] =
          [n \in DOMAIN @ \union {m} |-> IF n \in {m} THEN call[c].toSend[n] ELSE @[n]]]
    BY <1>2, Zenon DEF SendHit, Extend
  <2> QED
    BY <1>1, <2>1
<1>3. ASSUME NEW c \in Call, StartFails(c) PROVE DOMAIN answer[d] \subseteq DOMAIN answer'[d]
  <2>1. PICK S : answer' = [answer EXCEPT ![c] =
          [n \in DOMAIN @ \union S |-> IF n \in S THEN Errored ELSE @[n]]]
    BY <1>3, Zenon DEF StartFails, Extend
  <2> QED
    BY <1>1, <2>1
<1>4. ASSUME NEW c \in Call, PingResult(c) \/ Collect(c), answer' # answer
      PROVE  DOMAIN answer[d] \subseteq DOMAIN answer'[d]
  <2>1. PICK m : answer' = [answer EXCEPT ![c] =
          [n \in DOMAIN @ \union {m} |-> IF n \in {m} THEN KeyOf[n] ELSE @[n]]]
    BY <1>4, Zenon DEF PingResult, Collect, Extend
  <2> QED
    BY <1>1, <2>1
<1>5. ASSUME ~\E c \in Call : SendHit(c) \/ StartFails(c) \/ PingResult(c) \/ Collect(c)
      PROVE  answer' = answer
  BY <1>5, Zenon
     DEF Next, vars, Lookups, LookInCache, HitsSent, LookInDb, Run, Pings, StartPings, PingsEnd, Spoofs,
         AskSpoofed, AskedEnds, Collecting, CollectorEnds, Ending, EndCall, AddToBatch, Begin,
         ContextEnds, RemoveLeftOver, Notify, CopyToCache, Expire
<1> QED
  BY <1>2, <1>3, <1>4, <1>5

\* Steps that leave all groups and collectors alone.
LEMMA QuietKeeps ==
  ASSUME SpoofInv, [Next]_vars, LookupTypes', UNCHANGED <<sm, group, collector>>,
         \A d \in Call : GroupUntouched(d)
  PROVE  SpoofInv'
<1>1. GroupTypes'
  BY DEF SpoofInv, GroupTypes
<1>2. ASSUME NEW d \in Call PROVE GroupInv(d)' /\ CollectInv(d)'
  <2>1. /\ group'[d] = group[d] /\ collector'[d] = collector[d]
        /\ \A m \in Meas : <<d, m>> \in sm' <=> <<d, m>> \in sm
    OBVIOUS
  <2> QED
    BY <2>1, AnswersGrow, CallKept
<1> QED
  BY <1>1, <1>2 DEF SpoofInv

LEMMA LookupsKeep ==
  ASSUME SpoofInv, [Next]_vars, NEW c \in Call,
         \/ LookInCache(c) \/ SendHit(c) \/ HitsSent(c) \/ LookInDb(c)
         \/ Begin(c) \/ ContextEnds(c) \/ EndCall(c)
  PROVE  SpoofInv'
<1>1. call \in [Call -> Calls] /\ call' \in [Call -> Calls] /\ LookupTypes'
  BY LookupTypesStep DEF SpoofInv, LookupTypes
<1>2. UNCHANGED <<sm, group, collector>> /\ \A d \in Call : d # c => call'[d] = call[d]
  BY <1>1 DEF LookInCache, SendHit, HitsSent, LookInDb, Begin, ContextEnds, EndCall, Goto
<1>3. GroupUntouched(c)
  <2> USE DEF GroupUntouched
  <2>1. CASE LookInCache(c)
    <3>1. call[c].pc = "cache" /\ \E left, h :
            call' = [call EXCEPT ![c].pc = "sendCached", ![c].left = left, ![c].toSend = h]
      BY <2>1, Zenon DEF LookInCache
    <3> QED
      BY <1>1, <3>1 DEF Live, Looking, Calls
  <2>2. CASE SendHit(c)
    BY <1>1, <2>2 DEF SendHit, Live, Looking, Calls
  <2>3. CASE HitsSent(c)
    BY <1>1, <2>3 DEF HitsSent, Goto, Live, Looking, Calls
  <2>4. CASE LookInDb(c)
    <3>1. call[c].pc = "db" /\ \E left, h :
            call' = [call EXCEPT ![c].pc = "sendStored", ![c].left = left, ![c].toSend = h]
      BY <2>4, Zenon DEF LookInDb
    <3> QED
      BY <1>1, <3>1 DEF Live, Looking, Calls
  <2>5. CASE Begin(c)
    BY <1>1, <2>5 DEF Begin, Live, Looking, Calls
  <2>6. CASE ContextEnds(c)
    <3>1. call'[c].pc = call[c].pc /\ call'[c].left = call[c].left /\ call'[c].ctx = "done"
      BY <1>1, <2>6 DEF ContextEnds, Calls
    <3> QED
      BY <3>1
  <2>7. CASE EndCall(c)
    <3>1. /\ call'[c].pc = "ended" /\ call'[c].left = call[c].left /\ call'[c].ctx = call[c].ctx
          /\ call[c].pc = "wait" /\ collector[c] = "ended"
      BY <1>1, <2>7 DEF EndCall, Goto, Calls
    <3> QED
      BY <3>1 DEF Live, Looking
  <2> QED
    BY <2>1, <2>2, <2>3, <2>4, <2>5, <2>6, <2>7
<1>4. ASSUME NEW d \in Call, d # c PROVE GroupUntouched(d)
  BY <1>2, <1>4 DEF GroupUntouched, Live
<1> QED
  BY <1>1, <1>2, <1>3, <1>4, QuietKeeps

\* The streams, the caches and the batch.
LEMMA StreamsKeep ==
  ASSUME SpoofInv, [Next]_vars, UNCHANGED <<sm, group, collector, call>>
  PROVE  SpoofInv'
<1>1. LookupTypes'
  BY LookupTypesStep
<1>2. ASSUME NEW d \in Call PROVE GroupUntouched(d)
  BY DEF GroupUntouched, Live
<1> QED
  BY <1>1, <1>2, QuietKeeps

-----------------------------------------------------------------------------

\* Add registers an id for every spoofed ping, and nothing is on its way yet.
LEMMA RunKeeps ==
  ASSUME SpoofInv, [Next]_vars, NEW c \in Call, Run(c) PROVE SpoofInv'
<1>1. LookupTypes /\ GroupTypes /\ LookupTypes' /\ call[c] \in Calls /\ group[c] \in Groups
  BY LookupTypesStep DEF SpoofInv, LookupTypes, GroupTypes
<1>2. /\ call[c].pc = "run" /\ call'[c] = [call[c] EXCEPT !.pc = "wait"]
      /\ \A d \in Call : d # c => call'[d] = call[d]
  BY <1>1 DEF Run, Goto, LookupTypes
<1>3. /\ call'[c].pc = "wait" /\ call'[c].left = call[c].left /\ call'[c].ctx = call[c].ctx
      /\ Spoofed(c)' = Spoofed(c)
  BY <1>1, <1>2 DEF Calls, Spoofed
<1>4. PICK n \in Nat : n = Cardinality(Spoofed(c))
  BY <1>1, SpoofedAreMeas, MeasAreFinite
<1>5. /\ group' = [group EXCEPT ![c].count = n, ![c].closed = (Spoofed(c) = {})]
      /\ sm' = sm \union ({c} \X Spoofed(c)) /\ collector' = [collector EXCEPT ![c] = "receive"]
  BY <1>4 DEF Run
<1>6. Ids(c) = {} /\ group[c].ch = <<>> /\ collector[c] = "none" /\ ~group[c].kill
  BY <1>2 DEF SpoofInv, GroupInv, CollectInv, Looking
<1>7. Ids(c)' = Spoofed(c)
  BY <1>1, <1>5, <1>6, SpoofedAreMeas DEF Ids
<1>8. GroupTypes'
  BY <1>1, <1>5, SpoofedAreMeas DEF GroupTypes, Groups
<1>9. /\ group'[c].ch = <<>> /\ group'[c].count = n /\ group'[c].closed = (Spoofed(c) = {})
      /\ ~group'[c].kill /\ collector'[c] = "receive"
  BY <1>1, <1>5, <1>6 DEF GroupTypes, Groups
<1>10. GroupInv(c)'
  <2>1. Len(group'[c].ch) + n <= n
    BY <1>4, <1>9
  <2> QED
    BY <1>3, <1>4, <1>7, <1>9, <2>1 DEF GroupInv, Looking
<1>11. CollectInv(c)'
  BY <1>3, <1>7, <1>9 DEF CollectInv, Accounted, Looking
<1>12. ASSUME NEW d \in Call, d # c PROVE GroupInv(d)' /\ CollectInv(d)'
  <2>1. /\ group'[d] = group[d] /\ collector'[d] = collector[d]
        /\ \A m \in Meas : <<d, m>> \in sm' <=> <<d, m>> \in sm
    BY <1>1, <1>5, <1>12 DEF GroupTypes
  <2>2. GroupUntouched(d)
    BY <1>2, <1>12 DEF GroupUntouched, Live
  <2> QED
    BY <1>1, <2>1, <2>2, AnswersGrow, CallKept
<1> QED
  BY <1>1, <1>8, <1>10, <1>11, <1>12 DEF SpoofInv

\* A probe takes its id out of the map and into the channel of the group: the
\* last id closes it.
LEMMA NotifyKeeps ==
  ASSUME SpoofInv, [Next]_vars, NEW c \in Call, NEW m \in Meas, Notify(c, m) PROVE SpoofInv'
<1>1. LookupTypes /\ GroupTypes /\ LookupTypes' /\ group[c] \in Groups
  BY LookupTypesStep DEF SpoofInv, LookupTypes, GroupTypes
<1>2. PICK sent \in BOOLEAN :
        /\ sent \/ group[c].kill
        /\ group' = [group EXCEPT
                       ![c].count = @ - 1,
                       ![c].ch = IF sent THEN Append(@, m) ELSE @,
                       ![c].closed = @ \/ (sent /\ group[c].count = 1)]
  BY <1>1 DEF Notify, Groups
<1>3. m \in Ids(c) /\ sm' = sm \ {<<c, m>>} /\ UNCHANGED <<call, answer, collector>>
  BY DEF Notify, Ids
<1>4. /\ IsFiniteSet(Ids(c)) /\ Ids(c)' = Ids(c) \ {m}
      /\ Cardinality(Ids(c)) \in Nat /\ Cardinality(Ids(c)') = Cardinality(Ids(c)) - 1
      /\ Cardinality(Ids(c)') \in Nat
  <2>1. IsFiniteSet(Ids(c)) /\ Cardinality(Ids(c)) \in Nat
    BY IdsAreMeas, MeasAreFinite
  <2>2. Ids(c)' = Ids(c) \ {m}
    BY <1>3 DEF Ids
  <2>3. Cardinality(Ids(c) \ {m}) = Cardinality(Ids(c)) - 1
    BY <1>3, <2>1, FS_RemoveElement
  <2>4. Cardinality(Ids(c) \ {m}) \in Nat
    BY <2>1, FS_Subset, FS_CardinalityType, IdsAreMeas, MeasAreFinite
  <2> QED
    BY <2>1, <2>2, <2>3, <2>4
<1>5. /\ call[c].pc \notin Looking /\ group[c].count = Cardinality(Ids(c)) /\ ~group[c].closed
      /\ Len(group[c].ch) + Cardinality(Ids(c)) <= Cardinality(Spoofed(c))
      /\ CollectInv(c) /\ Spoofed(c)' = Spoofed(c)
  BY <1>3 DEF SpoofInv, GroupInv, Spoofed
<1>6. PICK k \in Nat, ch \in Seq(Meas), closed \in BOOLEAN :
        /\ k = group[c].count - 1 /\ ch = (IF sent THEN Append(group[c].ch, m) ELSE group[c].ch)
        /\ closed = (sent /\ group[c].count = 1)
        /\ group' = [group EXCEPT ![c].count = k, ![c].ch = ch, ![c].closed = closed]
  <2>1. group[c].count - 1 \in Nat
    BY <1>4, <1>5
  <2>2. (IF sent THEN Append(group[c].ch, m) ELSE group[c].ch) \in Seq(Meas)
    BY <1>1 DEF Groups
  <2>3. (group[c].closed \/ (sent /\ group[c].count = 1)) = (sent /\ group[c].count = 1)
    BY <1>5
  <2> QED
    BY <1>2, <2>1, <2>2, <2>3
<1>7. GroupTypes' /\ group'[c] = [group[c] EXCEPT !.count = k, !.ch = ch, !.closed = closed]
  BY <1>1, <1>3, <1>6 DEF GroupTypes, Groups
<1>8. /\ group'[c].count = k /\ group'[c].ch = ch /\ group'[c].closed = closed
      /\ group'[c].kill = group[c].kill
  BY <1>1, <1>7 DEF Groups
<1>9. GroupInv(c)'
  <2>1. Ids(c)' # {} => ~closed
    <3>1. Cardinality(Ids(c)') = 0 => Ids(c)' = {}
      BY <1>4, FS_EmptySet, FS_Subset
    <3>2. Cardinality(Ids(c)) = 1 => Cardinality(Ids(c)') = 0
      BY <1>4
    <3> QED
      BY <1>5, <1>6, <3>1, <3>2
  <2>2. Len(ch) + Cardinality(Ids(c)') <= Cardinality(Spoofed(c))
    <3>1. Len(ch) <= Len(group[c].ch) + 1 /\ Len(ch) \in Nat /\ Len(group[c].ch) \in Nat
      BY <1>1, <1>6 DEF Groups
    <3>2. Cardinality(Spoofed(c)) \in Nat
      BY <1>1, SpoofedAreMeas, MeasAreFinite
    <3> QED
      BY <1>4, <1>5, <3>1, <3>2
  <2>3. k = Cardinality(Ids(c)')
    BY <1>4, <1>5, <1>6
  <2> QED
    BY <1>3, <1>5, <1>8, <2>1, <2>2, <2>3 DEF GroupInv
<1>10. CollectInv(c)'
  <2>1. collector[c] # "ended" \/ ~Live(c)
    BY <1>3, <1>5 DEF CollectInv
  <2>2. ASSUME Live(c) PROVE Accounted(c)'
    <3>1. sent /\ Accounted(c)
      BY <1>2, <1>5, <2>1, <2>2 DEF CollectInv
    <3>2. ch = Append(group[c].ch, m) /\ group[c].ch \in Seq(Meas)
      BY <1>1, <1>6, <3>1 DEF Groups
    <3>3. /\ \A i \in 1 .. Len(group[c].ch) : i \in 1 .. Len(ch) /\ ch[i] = group[c].ch[i]
          /\ Len(ch) \in 1 .. Len(ch) /\ ch[Len(ch)] = m
      BY <3>2
    <3>4. \A n \in Ids(c) : n = m \/ n \in Ids(c)'
      BY <1>4
    <3> QED
      BY <1>3, <1>5, <1>8, <3>1, <3>3, <3>4 DEF Accounted
  <2>3. Live(c)' = Live(c)
    BY <1>3 DEF Live
  <2> QED
    BY <1>3, <1>5, <1>8, <2>1, <2>2, <2>3 DEF CollectInv
<1>11. ASSUME NEW d \in Call, d # c PROVE GroupInv(d)' /\ CollectInv(d)'
  <2>1. /\ group'[d] = group[d] /\ collector'[d] = collector[d]
        /\ \A n \in Meas : <<d, n>> \in sm' <=> <<d, n>> \in sm
    BY <1>1, <1>3, <1>6, <1>11 DEF GroupTypes
  <2>2. GroupUntouched(d)
    BY <1>3 DEF GroupUntouched, Live
  <2> QED
    BY <1>1, <2>1, <2>2, AnswersGrow, CallKept
<1> QED
  BY <1>1, <1>7, <1>9, <1>10, <1>11 DEF SpoofInv

-----------------------------------------------------------------------------

\* The collector answers what comes through the channel; only the end of the
\* context makes it drop an answer, and then it ends.
LEMMA CollectKeeps ==
  ASSUME SpoofInv, [Next]_vars, NEW c \in Call, Collect(c) PROVE SpoofInv'
<1>1. LookupTypes /\ GroupTypes /\ LookupTypes' /\ group[c] \in Groups
  BY LookupTypesStep DEF SpoofInv, LookupTypes, GroupTypes
<1>2. PICK m, ch : m = Head(group[c].ch) /\ ch = Tail(group[c].ch)
  OBVIOUS
<1>3. /\ m \in Meas /\ ch \in Seq(Meas) /\ Len(ch) = Len(group[c].ch) - 1
      /\ \A i \in 1 .. Len(group[c].ch) :
           IF i = 1 THEN group[c].ch[i] = m ELSE i - 1 \in 1 .. Len(ch) /\ ch[i - 1] = group[c].ch[i]
      /\ Len(ch) \in Nat /\ Len(group[c].ch) \in Nat
  <2>1. group[c].ch # <<>> /\ group[c].ch \in Seq(Meas)
    BY <1>1 DEF Collect, Groups
  <2>2. ASSUME NEW s \in Seq(Meas), s # <<>>
        PROVE  /\ Head(s) \in Meas /\ Tail(s) \in Seq(Meas) /\ Len(Tail(s)) = Len(s) - 1
               /\ \A i \in 1 .. Len(s) : IF i = 1 THEN s[i] = Head(s)
                                         ELSE i - 1 \in 1 .. Len(Tail(s)) /\ Tail(s)[i - 1] = s[i]
               /\ Len(Tail(s)) \in Nat /\ Len(s) \in Nat
    BY <2>2
  <2> QED
    BY <1>2, <2>1, <2>2
<1>4. UNCHANGED <<sm, call>> /\ collector[c] = "receive"
  BY DEF Collect
<1>5. \/ /\ group' = [group EXCEPT ![c].ch = ch] /\ UNCHANGED collector
         /\ answer' = [answer EXCEPT ![c] = [n \in DOMAIN @ \union {m} |->
                                               IF n \in {m} THEN KeyOf[n] ELSE @[n]]]
      \/ /\ ~Live(c) /\ group' = [group EXCEPT ![c].ch = ch, ![c].kill = TRUE]
         /\ collector' = [collector EXCEPT ![c] = "ended"]
  BY <1>2, Zenon DEF Collect, Extend
<1>6. /\ GroupTypes' /\ group'[c].ch = ch /\ group'[c].count = group[c].count
      /\ group'[c].closed = group[c].closed
  <2>1. PICK kill \in BOOLEAN : group' = [group EXCEPT ![c].ch = ch, ![c].kill = kill]
    <3>1. CASE group' = [group EXCEPT ![c].ch = ch]
      <4>1. group' = [group EXCEPT ![c].ch = ch, ![c].kill = group[c].kill]
        BY <1>1, <3>1 DEF GroupTypes, Groups
      <4> QED
        BY <1>1, <4>1 DEF Groups
    <3>2. CASE group' = [group EXCEPT ![c].ch = ch, ![c].kill = TRUE]
      BY <3>2
    <3> QED
      BY <1>5, <3>1, <3>2
  <2>2. collector' \in [Call -> {"none", "receive", "ended"}]
    BY <1>1, <1>5 DEF GroupTypes
  <2> QED
    BY <1>1, <1>3, <1>4, <2>1, <2>2 DEF GroupTypes, Groups
<1>7. /\ GroupInv(c) /\ CollectInv(c) /\ call[c].pc \notin Looking
      /\ Ids(c)' = Ids(c) /\ Spoofed(c)' = Spoofed(c)
  BY <1>4 DEF SpoofInv, CollectInv, Ids, Spoofed
<1>8. GroupInv(c)'
  <2>1. Cardinality(Ids(c)) \in Nat /\ Cardinality(Spoofed(c)) \in Nat
    BY <1>1, IdsAreMeas, SpoofedAreMeas, MeasAreFinite
  <2>2. Len(ch) + Cardinality(Ids(c)) <= Cardinality(Spoofed(c))
    BY <1>3, <1>7, <2>1 DEF GroupInv
  <2> QED
    BY <1>4, <1>6, <1>7, <2>2 DEF GroupInv
<1>9. CollectInv(c)'
  <2>1. CASE ~Live(c)
    <3>1. call[c].pc # "ended" /\ ~group[c].kill
      BY <1>4, <1>7 DEF CollectInv
    <3>2. group'[c].kill => collector'[c] = "ended"
      BY <1>1, <1>4, <1>5, <3>1 DEF GroupTypes, Groups
    <3> QED
      BY <1>4, <1>7, <2>1, <3>1, <3>2 DEF CollectInv, Live
  <2>2. CASE Live(c)
    <3>1. /\ UNCHANGED collector /\ group'[c].kill = group[c].kill
          /\ m \in DOMAIN answer'[c] /\ DOMAIN answer[c] \subseteq DOMAIN answer'[c]
      BY <1>1, <1>5, <2>2 DEF GroupTypes, Groups, LookupTypes
    <3>2. Accounted(c)
      BY <1>7, <2>2 DEF CollectInv
    <3>3. Accounted(c)'
      <4> SUFFICES ASSUME NEW n \in Spoofed(c), n \notin Ids(c), n \notin DOMAIN answer'[c]
                   PROVE  \E i \in 1 .. Len(ch) : ch[i] = n
        BY <1>6, <1>7 DEF Accounted
      <4>1. PICK i \in 1 .. Len(group[c].ch) : group[c].ch[i] = n
        BY <3>1, <3>2 DEF Accounted
      <4> QED
        BY <1>3, <3>1, <4>1
    <3> QED
      BY <1>4, <1>7, <3>1, <3>3 DEF CollectInv, Live
  <2> QED
    BY <2>1, <2>2
<1>10. ASSUME NEW d \in Call, d # c PROVE GroupInv(d)' /\ CollectInv(d)'
  <2>1. group'[d] = group[d] /\ collector'[d] = collector[d]
    BY <1>1, <1>5, <1>10 DEF GroupTypes
  <2>2. GroupUntouched(d) /\ \A n \in Meas : <<d, n>> \in sm' <=> <<d, n>> \in sm
    BY <1>4 DEF GroupUntouched, Live
  <2> QED
    BY <1>1, <2>1, <2>2, AnswersGrow, CallKept
<1> QED
  BY <1>1, <1>6, <1>8, <1>9, <1>10 DEF SpoofInv

\* The collector ends when all ids have come and their answers been sent.
LEMMA CollectorEndsKeeps ==
  ASSUME SpoofInv, [Next]_vars, NEW c \in Call, CollectorEnds(c) PROVE SpoofInv'
<1>1. LookupTypes /\ GroupTypes /\ LookupTypes' /\ group[c] \in Groups
  BY LookupTypesStep DEF SpoofInv, LookupTypes, GroupTypes
<1>2. /\ collector[c] = "receive" /\ UNCHANGED <<sm, call, answer>>
      /\ ~Live(c) \/ (group[c].closed /\ group[c].ch = <<>>)
      /\ collector' = [collector EXCEPT ![c] = "ended"]
      /\ group' = [group EXCEPT ![c].kill = TRUE]
  BY DEF CollectorEnds
<1>3. /\ GroupTypes' /\ collector'[c] = "ended" /\ group'[c].ch = group[c].ch
      /\ group'[c].count = group[c].count /\ group'[c].closed = group[c].closed
  BY <1>1, <1>2 DEF GroupTypes, Groups
<1>4. /\ GroupInv(c) /\ CollectInv(c) /\ call[c].pc \notin Looking
      /\ Ids(c)' = Ids(c) /\ Spoofed(c)' = Spoofed(c)
  BY <1>2 DEF SpoofInv, CollectInv, Ids, Spoofed
<1>5. GroupInv(c)'
  BY <1>2, <1>3, <1>4 DEF GroupInv
<1>6. CollectInv(c)'
  <2>1. Accounted(c) => Accounted(c)'
    BY <1>2, <1>3, <1>4 DEF Accounted
  <2>2. Live(c) => Ids(c) = {} /\ group[c].ch = <<>>
    BY <1>2, <1>4 DEF GroupInv
  <2> QED
    BY <1>2, <1>3, <1>4, <2>1, <2>2 DEF CollectInv, Live
<1>7. ASSUME NEW d \in Call, d # c PROVE GroupInv(d)' /\ CollectInv(d)'
  <2>1. group'[d] = group[d] /\ collector'[d] = collector[d]
    BY <1>1, <1>2, <1>7 DEF GroupTypes
  <2>2. GroupUntouched(d) /\ \A n \in Meas : <<d, n>> \in sm' <=> <<d, n>> \in sm
    BY <1>2 DEF GroupUntouched, Live
  <2> QED
    BY <1>1, <2>1, <2>2, AnswersGrow, CallKept
<1> QED
  BY <1>1, <1>3, <1>5, <1>6, <1>7 DEF SpoofInv

\* A killed group loses its ids; none are left to lose while its context lasts.
LEMMA RemoveLeftOverKeeps ==
  ASSUME SpoofInv, [Next]_vars, NEW c \in Call, RemoveLeftOver(c) PROVE SpoofInv'
<1>1. LookupTypes /\ GroupTypes /\ LookupTypes'
  BY LookupTypesStep DEF SpoofInv
<1>2. /\ group[c].kill /\ \E m \in Meas : <<c, m>> \in sm
      /\ sm' = sm \ ({c} \X Meas) /\ UNCHANGED <<call, answer, group, collector>>
  BY <1>1 DEF RemoveLeftOver, GroupTypes
<1>3. /\ GroupInv(c) /\ CollectInv(c) /\ Ids(c) # {} /\ Ids(c)' = {}
      /\ Spoofed(c)' = Spoofed(c) /\ GroupTypes'
  BY <1>1, <1>2 DEF SpoofInv, Ids, Spoofed, GroupTypes
<1>4. ~Live(c) /\ call[c].pc \notin Looking
  BY <1>2, <1>3 DEF CollectInv, GroupInv
<1>5. GroupInv(c)'
  <2>1. Cardinality(Ids(c)) \in Nat /\ Cardinality(Spoofed(c)) \in Nat /\ Len(group[c].ch) \in Nat
    BY <1>1, IdsAreMeas, SpoofedAreMeas, MeasAreFinite DEF GroupTypes, Groups
  <2>2. Len(group[c].ch) + 0 <= Cardinality(Spoofed(c))
    BY <1>3, <2>1 DEF GroupInv
  <2> QED
    BY <1>2, <1>3, <1>4, <2>2, FS_EmptySet DEF GroupInv
<1>6. CollectInv(c)'
  BY <1>2, <1>3, <1>4 DEF CollectInv, Live
<1>7. ASSUME NEW d \in Call, d # c PROVE GroupInv(d)' /\ CollectInv(d)'
  <2>1. \A n \in Meas : <<d, n>> \in sm' <=> <<d, n>> \in sm
    BY <1>2, <1>7
  <2>2. GroupUntouched(d)
    BY <1>2 DEF GroupUntouched, Live
  <2> QED
    BY <1>1, <1>2, <2>1, <2>2, AnswersGrow, CallKept
<1> QED
  BY <1>1, <1>3, <1>5, <1>6, <1>7 DEF SpoofInv

-----------------------------------------------------------------------------

LEMMA SpoofStep == SpoofInv /\ [Next]_vars => SpoofInv'
<1> SUFFICES ASSUME SpoofInv, [Next]_vars PROVE SpoofInv'
  OBVIOUS
<1>1. ASSUME NEW c \in Call, Begin(c) \/ ContextEnds(c) \/ Lookups(c) PROVE SpoofInv'
  BY <1>1, LookupsKeep, RunKeeps DEF Lookups
<1>2. ASSUME NEW c \in Call, Pings(c) \/ Spoofs(c) PROVE SpoofInv'
  BY <1>2, StreamsKeep DEF Pings, StartPings, StartFails, PingResult, PingsEnd, Spoofs, AskSpoofed, AskedEnds
<1>3. ASSUME NEW c \in Call, Collecting(c) \/ RemoveLeftOver(c) PROVE SpoofInv'
  BY <1>3, CollectKeeps, CollectorEndsKeeps, RemoveLeftOverKeeps DEF Collecting
<1>4. ASSUME NEW c \in Call, Ending(c) PROVE SpoofInv'
  BY <1>4, LookupsKeep, StreamsKeep DEF Ending, AddToBatch
<1>5. ASSUME NEW c \in Call, NEW m \in Meas, Notify(c, m) PROVE SpoofInv'
  BY <1>5, NotifyKeeps
<1>6. CASE UNCHANGED vars \/ (\E w \in writes : CopyToCache(w)) \/ \E k \in Key : Expire(k)
  BY <1>6, StreamsKeep DEF vars, CopyToCache, Expire
<1> QED
  BY <1>1, <1>2, <1>3, <1>4, <1>5, <1>6 DEF Next

\* The group of a call counts the ids it has in the map, and has accounted for
\* every spoofed ping while the context lasts.
THEOREM SpoofInvariance == Spec => []SpoofInv
<1>1. Init => SpoofInv
  <2> SUFFICES ASSUME Init PROVE SpoofInv
    OBVIOUS
  <2> USE DEF Init
  <2>1. <<>> \in Hits /\ <<>> \in Answers
    <3>1. <<>> \in [{} -> Key] /\ <<>> \in [{} -> Key \union {Errored}] /\ {} \in SUBSET Meas
      OBVIOUS
    <3> QED
      BY <3>1 DEF Hits, Answers
  <2>2. LookupTypes
    BY <2>1, ControllerAssumption DEF LookupTypes, Calls, Looking
  <2>3. GroupTypes
    BY DEF GroupTypes, Groups
  <2>4. ASSUME NEW c \in Call PROVE GroupInv(c) /\ CollectInv(c)
    <3>1. Ids(c) = {} /\ Cardinality({}) = 0 /\ Cardinality(Spoofed(c)) \in Nat
      BY <2>2, SpoofedAreMeas, MeasAreFinite, FS_EmptySet DEF Ids
    <3> QED
      BY <3>1 DEF GroupInv, CollectInv, Looking
  <2> QED
    BY <2>2, <2>3, <2>4 DEF SpoofInv
<1>2. SpoofInv /\ [Next]_vars => SpoofInv'
  BY SpoofStep
<1> QED
  BY <1>1, <1>2, PTL DEF Spec

\* While an id is registered its channel is open and has room.
THEOREM GroupsCanReceive == Spec => []GroupCanReceive
<1>1. SpoofInv => GroupCanReceive
  <2> SUFFICES ASSUME SpoofInv, NEW c \in Call, NEW m \in Meas, <<c, m>> \in sm
               PROVE  ~group[c].closed /\ Len(group[c].ch) < Cardinality(Spoofed(c))
    BY DEF GroupCanReceive
  <2>1. GroupInv(c) /\ Ids(c) # {} /\ Len(group[c].ch) \in Nat
    <3>1. m \in Ids(c) /\ group[c] \in Groups
      BY DEF SpoofInv, Ids, GroupTypes
    <3> QED
      BY <3>1 DEF SpoofInv, Groups
  <2>2. /\ IsFiniteSet(Ids(c)) /\ Cardinality(Ids(c)) \in Nat
        /\ Cardinality(Spoofed(c)) \in Nat
    BY IdsAreMeas, SpoofedAreMeas, MeasAreFinite DEF SpoofInv
  <2>3. Cardinality(Ids(c)) # 0
    BY <2>1, <2>2, FS_EmptySet
  <2> QED
    BY <2>1, <2>2, <2>3 DEF GroupInv
<1> QED
  BY <1>1, SpoofInvariance, PTL

\* A call that ends in time has answered every spoofed ping.
THEOREM SpoofedAreAnswered == Spec => []EndedInTimeIsAnswered
<1>1. SpoofInv => EndedInTimeIsAnswered
  <2> SUFFICES ASSUME SpoofInv, NEW c \in Call, call[c].pc = "ended", Live(c), NEW m \in Spoofed(c)
               PROVE  m \in DOMAIN answer[c]
    BY DEF EndedInTimeIsAnswered
  <2>1. Ids(c) = {} /\ group[c].ch = <<>> /\ Accounted(c)
    BY DEF SpoofInv, CollectInv, Looking
  <2> QED
    BY <2>1 DEF Accounted
<1> QED
  BY <1>1, SpoofInvariance, PTL

===============================================================================
