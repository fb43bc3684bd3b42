------------------------- MODULE FleetIngestProofs -------------------------
(***************************************************************************)
(* Proofs about the ingest gateway, for every set of workers, events and    *)
(* keys and any number of expiries, restarts and failed publications.       *)
(***************************************************************************)
EXTENDS FleetIngest, FiniteSetTheorems, SequenceTheorems, TLAPS

\* The outcomes of one step, without the worker and the event.
LEMMA NextCases ==
  ASSUME [Next]_vars
  PROVE  \/ \E w \in Workers, e \in Events : Accept(w, e) \/ Repeat(w, e) \/ Conflict(w, e)
         \/ \E w \in Workers : Publish(w) \/ PublishRaises(w) \/ Reply(w)
         \/ \E key \in Keys : Expire(key)
         \/ Restart
         \/ UNCHANGED vars
BY DEF Next

\* The purge keeps the table of keys a table of keys.
LEMMA PurgeType ==
  ASSUME TypeOK
  PROVE  purge_expired \in [Keys -> Events \cup {NoEvent}]
BY DEF TypeOK, purge_expired

\* What check_and_record leaves in the store.
LEMMA IngestType ==
  ASSUME TypeOK, NEW w \in Workers, NEW e \in Events, Ingest(w, e)
  PROVE  keys' \in [Keys -> Events \cup {NoEvent}] /\ expired' \subseteq Keys
<1>1. CASE KeyOf[e] = NoKey
  BY <1>1 DEF Ingest, TypeOK
<1>2. CASE KeyOf[e] # NoKey
  <2>1. keys' = [purge_expired EXCEPT ![KeyOf[e]] = e] \/ keys' = purge_expired
    BY <1>2 DEF Ingest
  <2>2. expired' = {}
    BY <1>2 DEF Ingest
  <2> QED
    BY <2>1, <2>2, PurgeType
<1> QED
  BY <1>1, <1>2

\* Every step keeps the types.
LEMMA TypeStep ==
  ASSUME TypeOK, [Next]_vars
  PROVE  TypeOK'
<1> USE FleetAssumption
<1>1. ASSUME NEW w \in Workers, NEW e \in Events, Accept(w, e) PROVE TypeOK'
  BY <1>1, IngestType DEF Accept, TypeOK, bounds
<1>2. ASSUME NEW w \in Workers, NEW e \in Events, Repeat(w, e) PROVE TypeOK'
  BY <1>2, IngestType DEF Repeat, TypeOK, bounds
<1>3. ASSUME NEW w \in Workers, NEW e \in Events, Conflict(w, e) PROVE TypeOK'
  BY <1>3, IngestType DEF Conflict, TypeOK, bounds
<1>4. ASSUME NEW w \in Workers, Publish(w) PROVE TypeOK'
  <2>1. working[w] \in Events
    BY <1>4 DEF Publish, TypeOK
  <2>2. stream' \in Seq(Events)
    BY <1>4, <2>1, AppendProperties DEF Publish, TypeOK
  <2> QED
    BY <1>4, <2>1, <2>2 DEF Publish, TypeOK, bounds
<1>5. ASSUME NEW w \in Workers, PublishRaises(w) PROVE TypeOK'
  BY <1>5 DEF PublishRaises, TypeOK
<1>6. ASSUME NEW w \in Workers, Reply(w) PROVE TypeOK'
  BY <1>6 DEF Reply, TypeOK, bounds
<1>7. ASSUME NEW key \in Keys, Expire(key) PROVE TypeOK'
  BY <1>7 DEF Expire, TypeOK
<1>8. CASE Restart
  BY <1>8 DEF Restart, TypeOK, NoKeys, Idle
<1>9. CASE UNCHANGED vars
  BY <1>9 DEF vars, TypeOK
<1> QED
  BY <1>1, <1>2, <1>3, <1>4, <1>5, <1>6, <1>7, <1>8, <1>9, NextCases

\* The variables of the gateway keep their types.
THEOREM TypeCorrect == Spec => []TypeOK
<1>1. Init => TypeOK
  BY FleetAssumption, EmptySeq DEF Init, TypeOK, NoKeys, Idle
<1>2. TypeOK /\ [Next]_vars => TypeOK'
  BY TypeStep
<1> QED
  BY <1>1, <1>2, PTL DEF Spec
-----------------------------------------------------------------------------
(* A key is published once per time it is recorded.                          *)

Recorded(key) == keys[key] # NoEvent /\ key \notin expired

\* The store remembers a publication, done or under way, unless an expiry or a restart made
\* it forget.
CountedOnce ==
  \A key \in Keys : Published(key) + Underway(key)
                      <= expiries + restarts + (IF Recorded(key) THEN 1 ELSE 0)

\* What the two counts are the cardinalities of.
PublishedAt(key) == {i \in 1 .. Len(stream) : KeyOf[stream[i]] = key}
UnderwayBy(key) == {w \in Workers : working[w] # NoEvent /\ KeyOf[working[w]] = key}

\* Both counts are counts.
LEMMA CountsAreNat ==
  ASSUME TypeOK, NEW key
  PROVE  /\ IsFiniteSet(PublishedAt(key)) /\ Published(key) = Cardinality(PublishedAt(key))
         /\ IsFiniteSet(UnderwayBy(key)) /\ Underway(key) = Cardinality(UnderwayBy(key))
         /\ Published(key) \in Nat /\ Underway(key) \in Nat
<1>1. Len(stream) \in Nat
  BY LenProperties DEF TypeOK
<1>2. IsFiniteSet(1 .. Len(stream)) /\ PublishedAt(key) \in SUBSET (1 .. Len(stream))
  BY <1>1, FS_Interval DEF PublishedAt
<1>3. IsFiniteSet(Workers) /\ UnderwayBy(key) \in SUBSET Workers
  BY FleetAssumption DEF UnderwayBy
<1>4. IsFiniteSet(PublishedAt(key)) /\ IsFiniteSet(UnderwayBy(key))
  BY <1>2, <1>3, FS_Subset
<1> QED
  BY <1>4, FS_CardinalityType DEF Published, Underway, PublishedAt, UnderwayBy

\* A publication counts for the key of its event.
LEMMA PublishedGrows ==
  ASSUME TypeOK, NEW e \in Events, stream' = Append(stream, e), NEW key
  PROVE  Published(key)' = Published(key) + (IF KeyOf[e] = key THEN 1 ELSE 0)
<1> DEFINE n == Len(stream) + 1
<1>1. /\ Len(stream) \in Nat /\ Len(stream') = n
      /\ \A i \in 1 .. Len(stream) : stream'[i] = stream[i]
      /\ stream'[n] = e
  BY LenProperties, AppendProperties DEF TypeOK
<1>2. IsFiniteSet(PublishedAt(key)) /\ Published(key) = Cardinality(PublishedAt(key))
      /\ Published(key) \in Nat
  BY CountsAreNat
<1>3. Published(key)' = Cardinality(PublishedAt(key)')
  BY DEF Published, PublishedAt
<1>4. n \notin PublishedAt(key)
  BY <1>1 DEF PublishedAt
<1>5. CASE KeyOf[e] = key
  <2>1. PublishedAt(key)' = PublishedAt(key) \cup {n}
    BY <1>1, <1>5 DEF PublishedAt
  <2>2. Cardinality(PublishedAt(key) \cup {n}) = Cardinality(PublishedAt(key)) + 1
    BY <1>2, <1>4, FS_AddElement, Zenon
  <2> QED
    BY <1>2, <1>3, <1>5, <2>1, <2>2
<1>6. CASE KeyOf[e] # key
  <2>1. PublishedAt(key)' = PublishedAt(key)
    BY <1>1, <1>6 DEF PublishedAt
  <2> QED
    BY <1>2, <1>3, <1>6, <2>1
<1> QED
  BY <1>5, <1>6

\* A worker that takes an event up counts for its key.
LEMMA UnderwayGrows ==
  ASSUME TypeOK, NEW w \in Workers, NEW e \in Events, working[w] = NoEvent,
         working' = [working EXCEPT ![w] = e], NEW key
  PROVE  Underway(key)' = Underway(key) + (IF KeyOf[e] = key THEN 1 ELSE 0)
<1>1. IsFiniteSet(UnderwayBy(key)) /\ Underway(key) = Cardinality(UnderwayBy(key))
      /\ Underway(key) \in Nat
  BY CountsAreNat
<1>2. Underway(key)' = Cardinality(UnderwayBy(key)')
  BY DEF Underway, UnderwayBy
<1>3. w \notin UnderwayBy(key) /\ e # NoEvent
  BY FleetAssumption DEF UnderwayBy
<1>4. CASE KeyOf[e] = key
  <2>1. UnderwayBy(key)' = UnderwayBy(key) \cup {w}
    BY <1>3, <1>4 DEF UnderwayBy, TypeOK
  <2>2. Cardinality(UnderwayBy(key) \cup {w}) = Cardinality(UnderwayBy(key)) + 1
    BY <1>1, <1>3, FS_AddElement, Zenon
  <2> QED
    BY <1>1, <1>2, <1>4, <2>1, <2>2
<1>5. CASE KeyOf[e] # key
  <2>1. UnderwayBy(key)' = UnderwayBy(key)
    BY <1>3, <1>5 DEF UnderwayBy, TypeOK
  <2> QED
    BY <1>1, <1>2, <1>5, <2>1
<1> QED
  BY <1>4, <1>5

\* A worker that is done with its event no longer does.
LEMMA UnderwayShrinks ==
  ASSUME TypeOK, NEW w \in Workers, working[w] # NoEvent,
         working' = [working EXCEPT ![w] = NoEvent], NEW key
  PROVE  Underway(key)' = Underway(key) - (IF KeyOf[working[w]] = key THEN 1 ELSE 0)
<1>1. IsFiniteSet(UnderwayBy(key)) /\ Underway(key) = Cardinality(UnderwayBy(key))
      /\ Underway(key) \in Nat
  BY CountsAreNat
<1>2. Underway(key)' = Cardinality(UnderwayBy(key)')
  BY DEF Underway, UnderwayBy
<1>3. CASE KeyOf[working[w]] = key
  <2>1. UnderwayBy(key)' = UnderwayBy(key) \ {w} /\ w \in UnderwayBy(key)
    BY <1>3 DEF UnderwayBy, TypeOK
  <2> QED
    BY Zenon, <1>1, <1>2, <1>3, <2>1, FS_RemoveElement
<1>4. CASE KeyOf[working[w]] # key
  <2>1. UnderwayBy(key)' = UnderwayBy(key)
    BY <1>4 DEF UnderwayBy, TypeOK
  <2> QED
    BY <1>1, <1>2, <1>4, <2>1
<1> QED
  BY <1>3, <1>4

\* check_and_record forgets only expired keys and records only an accepted event.
LEMMA IngestRecords ==
  ASSUME TypeOK, NEW w \in Workers, NEW e \in Events, Ingest(w, e), NEW key \in Keys
  PROVE  /\ Recorded(key) => Recorded(key)'
         /\ Recorded(key)' => Recorded(key) \/ (check(e) = "accepted" /\ key = KeyOf[e])
         /\ check(e) = "accepted" => ~ Recorded(KeyOf[e])
         /\ check(e) = "accepted" /\ key = KeyOf[e] => Recorded(key)'
<1>1. e # NoEvent /\ KeyOf[e] \in Keys \cup {NoKey} /\ NoKey \notin Keys
  BY FleetAssumption
<1>2. CASE KeyOf[e] = NoKey
  BY <1>1, <1>2 DEF Ingest, Recorded, check
<1>3. CASE KeyOf[e] # NoKey
  <2>1. KeyOf[e] \in Keys /\ expired' = {}
    BY <1>1, <1>3 DEF Ingest
  <2>2. \A x \in Keys : purge_expired[x] # NoEvent <=> Recorded(x)
    BY DEF purge_expired, Recorded
  <2>3. CASE check(e) = "accepted"
    <3>1. keys' = [purge_expired EXCEPT ![KeyOf[e]] = e] /\ purge_expired[KeyOf[e]] = NoEvent
      BY <1>3, <2>3 DEF Ingest, check
    <3>2. keys'[key] = IF key = KeyOf[e] THEN e ELSE purge_expired[key]
      BY <3>1, PurgeType
    <3> QED
      BY <1>1, <2>1, <2>2, <2>3, <3>1, <3>2 DEF Recorded
  <2>4. CASE check(e) # "accepted"
    <3>1. keys' = purge_expired
      BY <1>3, <2>4 DEF Ingest
    <3> QED
      BY <2>1, <2>2, <2>4, <3>1 DEF Recorded
  <2> QED
    BY <2>3, <2>4
<1> QED
  BY <1>2, <1>3

\* Every step keeps the count: a record is published at most once.
LEMMA CountedStep ==
  ASSUME TypeOK, CountedOnce, [Next]_vars
  PROVE  CountedOnce'
<1> SUFFICES ASSUME NEW key \in Keys
             PROVE  Published(key)' + Underway(key)'
                      <= expiries' + restarts' + (IF Recorded(key)' THEN 1 ELSE 0)
  BY DEF CountedOnce
<1>1. /\ Published(key) + Underway(key)
           <= expiries + restarts + (IF Recorded(key) THEN 1 ELSE 0)
      /\ Published(key) \in Nat /\ Underway(key) \in Nat
      /\ expiries \in Nat /\ restarts \in Nat
  BY CountsAreNat, FleetAssumption DEF CountedOnce, TypeOK
<1>2. stream' = stream => Published(key)' = Published(key)
  BY DEF Published
<1>3. working' = working => Underway(key)' = Underway(key)
  BY DEF Underway
<1>4. keys' = keys /\ expired' = expired => (Recorded(key)' <=> Recorded(key))
  BY DEF Recorded
<1>5. ASSUME NEW w \in Workers, NEW e \in Events, Accept(w, e)
      PROVE  Published(key)' + Underway(key)'
               <= expiries' + restarts' + (IF Recorded(key)' THEN 1 ELSE 0)
  <2>1. /\ stream' = stream /\ expiries' = expiries /\ restarts' = restarts
        /\ working[w] = NoEvent /\ working' = [working EXCEPT ![w] = e]
        /\ check(e) = "accepted" /\ Ingest(w, e)
    BY <1>5 DEF Accept, Ingest, bounds
  <2>2. Underway(key)' = Underway(key) + (IF KeyOf[e] = key THEN 1 ELSE 0)
    BY Zenon, <2>1, UnderwayGrows
  <2>3. /\ Recorded(key) => Recorded(key)'
        /\ key = KeyOf[e] => ~ Recorded(key) /\ Recorded(key)'
    BY <2>1, IngestRecords
  <2> QED
    BY <1>1, <1>2, <2>1, <2>2, <2>3
<1>6. ASSUME NEW w \in Workers, NEW e \in Events, Repeat(w, e) \/ Conflict(w, e)
      PROVE  Published(key)' + Underway(key)'
               <= expiries' + restarts' + (IF Recorded(key)' THEN 1 ELSE 0)
  <2>1. /\ stream' = stream /\ expiries' = expiries /\ restarts' = restarts
        /\ working' = working /\ Ingest(w, e)
    BY <1>6 DEF Repeat, Conflict, bounds
  <2>2. Recorded(key) => Recorded(key)'
    BY <2>1, IngestRecords
  <2> QED
    BY <1>1, <1>2, <1>3, <2>1, <2>2
<1>7. ASSUME NEW w \in Workers, Publish(w) \/ PublishRaises(w)
      PROVE  Published(key)' + Underway(key)'
               <= expiries' + restarts' + (IF Recorded(key)' THEN 1 ELSE 0)
  <2>1. /\ working[w] # NoEvent /\ working' = [working EXCEPT ![w] = NoEvent]
        /\ keys' = keys /\ expired' = expired /\ expiries' = expiries /\ restarts' = restarts
        /\ stream' = Append(stream, working[w]) \/ stream' = stream
    BY <1>7 DEF Publish, PublishRaises, bounds
  <2>2. working[w] \in Events
    BY <2>1 DEF TypeOK
  <2>3. Underway(key)' = Underway(key) - (IF KeyOf[working[w]] = key THEN 1 ELSE 0)
    BY Zenon, <2>1, UnderwayShrinks
  <2>4. \/ Published(key)' = Published(key) + (IF KeyOf[working[w]] = key THEN 1 ELSE 0)
        \/ Published(key)' = Published(key)
    BY <1>2, <2>1, <2>2, PublishedGrows
  <2> QED
    BY <1>1, <1>4, <2>1, <2>3, <2>4
<1>8. ASSUME NEW w \in Workers, Reply(w)
      PROVE  Published(key)' + Underway(key)'
               <= expiries' + restarts' + (IF Recorded(key)' THEN 1 ELSE 0)
  BY <1>1, <1>2, <1>3, <1>4, <1>8 DEF Reply, bounds
<1>9. ASSUME NEW k \in Keys, Expire(k)
      PROVE  Published(key)' + Underway(key)'
               <= expiries' + restarts' + (IF Recorded(key)' THEN 1 ELSE 0)
  BY <1>1, <1>2, <1>3, <1>9 DEF Expire, Recorded
<1>10. CASE Restart
  <2>1. UnderwayBy(key)' = {}
    BY <1>10 DEF Restart, Idle, UnderwayBy
  <2>2. Underway(key)' = 0
    BY <2>1, FS_EmptySet DEF Underway, UnderwayBy
  <2>3. ~ Recorded(key)'
    BY <1>10 DEF Restart, NoKeys, Recorded
  <2> QED
    BY <1>1, <1>2, <1>10, <2>2, <2>3 DEF Restart
<1>11. CASE UNCHANGED vars
  BY <1>1, <1>2, <1>3, <1>4, <1>11 DEF vars
<1> QED
  BY <1>5, <1>6, <1>7, <1>8, <1>9, <1>10, <1>11, NextCases

\* However many workers take repetitions of however many events with one key, the key is
\* published once, plus once for every time the store forgot keys (check_and_record).
THEOREM PublishedOncePerRecord == Spec => []OncePerRecord
<1>1. Init => CountedOnce
  <2> SUFFICES ASSUME Init, NEW key \in Keys
               PROVE  Published(key) = 0 /\ Underway(key) = 0 /\ expiries = 0 /\ restarts = 0
    BY DEF CountedOnce
  <2>1. PublishedAt(key) = {} /\ UnderwayBy(key) = {}
    BY DEF Init, PublishedAt, UnderwayBy, Idle
  <2> QED
    BY Zenon, <2>1, FS_EmptySet DEF Init, Published, Underway, PublishedAt, UnderwayBy
<1>2. TypeOK /\ CountedOnce /\ [Next]_vars => CountedOnce'
  BY CountedStep
<1>3. TypeOK /\ CountedOnce => OncePerRecord
  BY CountsAreNat, FleetAssumption DEF CountedOnce, OncePerRecord, TypeOK
<1> QED
  BY <1>1, <1>2, <1>3, TypeCorrect, PTL DEF Spec
-----------------------------------------------------------------------------
(* What was accepted is kept.                                                *)

\* The producer of e was told accepted, is about to be, or will be when it asks again.
Answered(e) == \/ told[e] = "accepted"
               \/ \E w \in Workers : replying[w] = e
               \/ \E key \in Keys : keys[key] = e
Kept(e) == InStream(e) \/ Publishing(e)

\* The inductive invariant: every answer, given or to be given, is backed.
AnsweredIsKept ==
  (Publishes /\ failures = 0 /\ restarts = 0) => \A e \in Events : Answered(e) => Kept(e)

\* check_and_record puts no event on record but an accepted one, and repeats only what is.
LEMMA IngestAnswers ==
  ASSUME TypeOK, NEW w \in Workers, NEW e \in Events, Ingest(w, e)
  PROVE  /\ \A key \in Keys : keys'[key] \in {keys[key], NoEvent} \/
                                 (check(e) = "accepted" /\ keys'[key] = e)
         /\ check(e) = "duplicate" => \E key \in Keys : keys[key] = e
<1>1. e # NoEvent /\ KeyOf[e] \in Keys \cup {NoKey}
  BY FleetAssumption
<1>2. CASE KeyOf[e] = NoKey
  BY <1>2 DEF Ingest, check
<1>3. CASE KeyOf[e] # NoKey
  <2>1. KeyOf[e] \in Keys
    BY <1>1, <1>3
  <2>2. \A key \in Keys : purge_expired[key] \in {keys[key], NoEvent}
    BY DEF purge_expired
  <2>3. check(e) = "duplicate" => \E key \in Keys : keys[key] = e
    BY <1>1, <1>3, <2>1, <2>2 DEF check
  <2>4. CASE check(e) = "accepted"
    <3>1. keys' = [purge_expired EXCEPT ![KeyOf[e]] = e]
      BY <1>3, <2>4 DEF Ingest
    <3>2. \A key \in Keys : keys'[key] = IF key = KeyOf[e] THEN e ELSE purge_expired[key]
      BY <3>1, PurgeType
    <3> QED
      BY <2>2, <2>3, <2>4, <3>2
  <2>5. CASE check(e) # "accepted"
    <3>1. keys' = purge_expired
      BY <1>3, <2>5 DEF Ingest
    <3> QED
      BY <2>2, <2>3, <3>1
  <2> QED
    BY <2>4, <2>5
<1> QED
  BY <1>2, <1>3

\* Every step keeps what an accepted request was promised.
LEMMA AnsweredStep ==
  ASSUME TypeOK, AnsweredIsKept, [Next]_vars
  PROVE  AnsweredIsKept'
<1> SUFFICES ASSUME Publishes, failures' = 0, restarts' = 0, NEW e \in Events, Answered(e)'
             PROVE  Kept(e)'
  BY DEF AnsweredIsKept
<1>1. failures = 0 /\ restarts = 0
  <2>1. failures \in Nat /\ restarts \in Nat
    BY FleetAssumption DEF TypeOK
  <2> QED
    BY <2>1, NextCases DEF Accept, Repeat, Conflict, Publish, PublishRaises, Reply, Expire,
                           Restart, bounds, vars
<1>2. e # NoEvent /\ (Answered(e) => Kept(e))
  BY <1>1, FleetAssumption DEF AnsweredIsKept
<1>3. ASSUME NEW w \in Workers, NEW f \in Events, Accept(w, f)
      PROVE  Kept(e)'
  <2>1. /\ working' = [working EXCEPT ![w] = f] /\ working[w] = NoEvent
        /\ told' = told /\ replying' = replying /\ stream' = stream /\ Ingest(w, f)
    BY <1>3 DEF Accept, Ingest
  <2>2. Publishing(f)' /\ (Publishing(e) => Publishing(e)')
    BY <1>2, <2>1 DEF Publishing, TypeOK
  <2>3. Answered(e) \/ e = f
    BY <1>2, <2>1, IngestAnswers DEF Answered
  <2> QED
    BY <1>2, <2>1, <2>2, <2>3 DEF Kept, InStream
<1>4. ASSUME NEW w \in Workers, NEW f \in Events, Repeat(w, f) \/ Conflict(w, f)
      PROVE  Kept(e)'
  <2>1. /\ working' = working /\ stream' = stream /\ Ingest(w, f)
        /\ check(f) # "accepted"
        /\ \/ told' = told /\ replying' = [replying EXCEPT ![w] = f] /\ check(f) = "duplicate"
           \/ told' = [told EXCEPT ![f] = "rejected"] /\ replying' = replying
    BY <1>4 DEF Repeat, Conflict
  <2>2. \A key \in Keys : keys'[key] = e => keys[key] = e
    BY <1>2, <2>1, IngestAnswers
  <2>3. told'[e] = "accepted" => told[e] = "accepted"
    BY <2>1 DEF TypeOK
  <2>4. (\E v \in Workers : replying'[v] = e) => Answered(e)
    BY <2>1, IngestAnswers DEF TypeOK, Answered
  <2>5. Answered(e)
    BY <2>2, <2>3, <2>4 DEF Answered
  <2> QED
    BY <1>2, <2>1, <2>5 DEF Kept, InStream, Publishing
<1>5. ASSUME NEW w \in Workers, Publish(w)
      PROVE  Kept(e)'
  <2>1. PICK f \in Events :
          /\ working[w] = f /\ working' = [working EXCEPT ![w] = NoEvent]
          /\ replying' = [replying EXCEPT ![w] = f]
          /\ stream' = Append(stream, f) /\ told' = told /\ keys' = keys
    BY Zenon, <1>5 DEF Publish, TypeOK
  <2>2. InStream(f)' /\ (InStream(e) => InStream(e)')
    BY <2>1, LenProperties, AppendProperties DEF InStream, TypeOK
  <2>3. Publishing(e) => Publishing(e)' \/ e = f
    BY <2>1 DEF Publishing, TypeOK
  <2>4. Answered(e) \/ e = f
    BY <2>1 DEF Answered, TypeOK
  <2> QED
    BY <1>2, <2>2, <2>3, <2>4 DEF Kept
<1>6. ASSUME NEW w \in Workers, PublishRaises(w)
      PROVE  Kept(e)'
  BY <1>1, <1>6 DEF PublishRaises
<1>7. ASSUME NEW w \in Workers, Reply(w)
      PROVE  Kept(e)'
  <2>1. /\ working' = working /\ stream' = stream /\ keys' = keys
        /\ replying' = [replying EXCEPT ![w] = NoEvent]
        /\ told' = [told EXCEPT ![replying[w]] = "accepted"] \/ told' = told
    BY <1>7 DEF Reply
  <2>2. Answered(e)
    BY <1>2, <2>1 DEF Answered, TypeOK
  <2> QED
    BY <1>2, <2>1, <2>2 DEF Kept, InStream, Publishing
<1>8. ASSUME NEW key \in Keys, Expire(key)
      PROVE  Kept(e)'
  BY <1>2, <1>8 DEF Expire, Answered, Kept, InStream, Publishing
<1>9. CASE Restart
  BY <1>1, <1>9 DEF Restart
<1>10. CASE UNCHANGED vars
  BY <1>2, <1>10 DEF vars, Answered, Kept, InStream, Publishing
<1> QED
  BY <1>3, <1>4, <1>5, <1>6, <1>7, <1>8, <1>9, <1>10, NextCases

\* As long as nothing was lost, an event whose producer was told accepted is in the stream or
\* on its way: also when the answer was given to a repetition that overtook the first request.
THEOREM AcceptedStaysKept == Spec => []AcceptedIsKept
<1>1. Init => AnsweredIsKept
  BY FleetAssumption DEF Init, AnsweredIsKept, Answered, NoKeys, Idle
<1>2. TypeOK /\ AnsweredIsKept /\ [Next]_vars => AnsweredIsKept'
  BY AnsweredStep
<1>3. AnsweredIsKept => AcceptedIsKept
  BY DEF AnsweredIsKept, AcceptedIsKept, Answered, Kept
<1> QED
  BY <1>1, <1>2, <1>3, TypeCorrect, PTL DEF Spec
=============================================================================
