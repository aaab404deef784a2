-------------------------- MODULE PublicReadProofs --------------------------
(***************************************************************************)
(* Proofs about PublicRead, for any finite set of readers, any instances,   *)
(* products and timeouts.                                                   *)
(***************************************************************************)
EXTENDS PublicRead, FiniteSetTheorems, TLAPS

Step == Next \/ Quiet

\* The steps of one reader's request or of one flight.
RequestStep(r) ==
    \/ Arrive(r) \/ CacheHit(r) \/ CacheMiss(r) \/ Discard(r) \/ Join(r) \/ Receive(r)
    \/ Disconnect(r)
    \/ LockSet(r) \/ LockGranted(r) \/ LockFailed(r) \/ LockDenied(r)
    \/ PollWake(r) \/ PollHit(r) \/ PollMiss(r) \/ PollDiscard(r)
    \/ TakeSlot(r) \/ NoSlot(r) \/ QueryAnswers(r) \/ QueryFails(r)
    \/ Put(r) \/ Release(r)

\* Every step is one of these.
LEMMA StepCases ==
    ASSUME [Step]_vars
    PROVE  Tick \/ Evict \/ UNCHANGED vars \/ \E r \in Readers : RequestStep(r)
  BY DEF Step, Next, Instant, ReaderStep, FlightStep, Quiet, RequestStep

\* The constants and functions of them that the steps use.
LEMMA Constants ==
    /\ {RedisTimeout, SlotTimeout, QueryTimeout, PollInterval} \subseteq Nat
    /\ LockTTL \in Nat \ {0}
    /\ WaitBudget \in Nat
    /\ \A r \in Readers : InstanceOf[r] \in Instances /\ ProductOf[r] \in Products
    /\ \A p \in Products : Stored[p] \in {"product", "missing"}
  BY TimeAssumption, RequestAssumption, StoredAssumption DEF Values

-----------------------------------------------------------------------------
(* Types.                                                                   *)

\* TypeOK in three parts.  The number of free slots is left unbounded here:
\* SlotsConserved bounds it.
SharedTyped ==
    /\ cache \in [Products -> {"product", "missing", "none", "invalid"}]
    /\ lock \in [Products -> Readers \cup {None}]
    /\ ttl \in [Products -> 0..LockTTL]
    /\ slots \in [Instances -> Nat]
    /\ flights \in [Instances -> [Products -> Readers \cup {None}]]
ReadersTyped ==
    /\ rpc \in [Readers -> ReaderLabels]
    /\ joined \in [Readers -> Readers \cup {None}]
    /\ answer \in [Readers -> {"product", "missing", "unavailable", "none"}]
FlightsTyped ==
    /\ fpc \in [Readers -> FlightLabels]
    /\ timer \in [Readers -> Nat]
    /\ deadline \in [Readers -> 0..WaitBudget]
    /\ populate \in [Readers -> BOOLEAN]
    /\ outcome \in [Readers -> {"product", "missing", "unavailable", "none"}]

LEMMA TypeParts ==
    TypeOK <=> /\ SharedTyped /\ ReadersTyped /\ FlightsTyped
               /\ slots \in [Instances -> 0..Slots]
<1>1. {"product", "missing", "none", "invalid"} = Values \cup {"none", "invalid"}
  BY DEF Values
<1>2. {"product", "missing", "unavailable", "none"} = Outcomes \cup {"none"}
  BY DEF Outcomes, Values
<1>3. slots \in [Instances -> 0..Slots] => slots \in [Instances -> Nat]
  OBVIOUS
<1>4. QED
  BY <1>1, <1>2, <1>3 DEF TypeOK, SharedTyped, ReadersTyped, FlightsTyped

\* Setting off on the next await keeps the types.
LEMMA AwaitTyped ==
    ASSUME FlightsTyped, NEW f \in Readers, NEW where \in FlightLabels, NEW n \in Nat,
           Await(f, where, n)
    PROVE  fpc' \in [Readers -> FlightLabels] /\ timer' \in [Readers -> Nat]
  BY DEF FlightsTyped, Await

LEMMA PollOnTyped ==
    ASSUME FlightsTyped, NEW f \in Readers, NEW budget, PollOn(f, budget)
    PROVE  fpc' \in [Readers -> FlightLabels] /\ timer' \in [Readers -> Nat]
<1>1. "sleep" \in FlightLabels /\ "slot" \in FlightLabels
  BY DEF FlightLabels
<1>2. QED
  BY <1>1, Constants, AwaitTyped DEF PollOn

LEMMA FinishTyped ==
    ASSUME SharedTyped, FlightsTyped, NEW f \in Readers,
           NEW what \in {"product", "missing", "unavailable", "none"},
           Finish(f, what)
    PROVE  /\ FlightsTyped'
           /\ flights' \in [Instances -> [Products -> Readers \cup {None}]]
<1>1. flights' \in [Instances -> [Products -> Readers \cup {None}]]
  BY Constants DEF Finish, SharedTyped
<1>2. fpc' \in [Readers -> FlightLabels] /\ timer' \in [Readers -> Nat]
  BY DEF Finish, FlightsTyped, FlightLabels
<1>3. deadline' \in [Readers -> 0..WaitBudget] /\ populate' \in [Readers -> BOOLEAN]
  BY Constants DEF Finish, FlightsTyped
<1>4. outcome' \in [Readers -> {"product", "missing", "unavailable", "none"}]
  BY DEF Finish, FlightsTyped
<1>5. QED
  BY <1>1, <1>2, <1>3, <1>4 DEF FlightsTyped

LEMMA FoundTyped ==
    ASSUME SharedTyped, FlightsTyped, NEW f \in Readers, Found(f, "unavailable")
    PROVE  /\ FlightsTyped'
           /\ flights' \in [Instances -> [Products -> Readers \cup {None}]]
<1>1. CASE populate[f]
  <2>1. "release" \in FlightLabels
    BY DEF FlightLabels
  <2>2. fpc' \in [Readers -> FlightLabels] /\ timer' \in [Readers -> Nat]
    BY <1>1, <2>1, Constants, AwaitTyped DEF Found
  <2>3. QED
    BY <1>1, <2>2 DEF Found, SharedTyped, FlightsTyped
<1>2. CASE ~populate[f]
  BY <1>2, FinishTyped DEF Found
<1>3. QED
  BY <1>1, <1>2

LEMMA TellTyped ==
    ASSUME ReadersTyped, NEW r \in Readers,
           NEW what \in {"product", "missing", "unavailable", "none"},
           Tell(r, what)
    PROVE  ReadersTyped'
  BY DEF Tell, ReadersTyped, ReaderLabels

Typed == SharedTyped /\ ReadersTyped /\ FlightsTyped

LEMMA TypedPreserved ==
    ASSUME Typed, [Step]_vars,
           \A r \in Readers : FlightInv(r) /\ ReaderInv(r)
    PROVE  Typed'
<1> USE Constants
<1> USE DEF Typed, redis, readers, flight
<1>1. ASSUME NEW r \in Readers, Arrive(r)
      PROVE  Typed'
  BY <1>1 DEF Arrive, SharedTyped, ReadersTyped, FlightsTyped, ReaderLabels
<1>2. ASSUME NEW r \in Readers, CacheHit(r)
      PROVE  Typed'
  <2>1. cache[ProductOf[r]] \in {"product", "missing"}
    BY <1>2 DEF CacheHit, Values
  <2>2. ReadersTyped'
    BY <1>2, <2>1, TellTyped DEF CacheHit
  <2>3. QED
    BY <1>2, <2>2 DEF CacheHit, SharedTyped, FlightsTyped
<1>3. ASSUME NEW r \in Readers, CacheMiss(r)
      PROVE  Typed'
  BY <1>3 DEF CacheMiss, SharedTyped, ReadersTyped, FlightsTyped, ReaderLabels
<1>4. ASSUME NEW r \in Readers, Discard(r)
      PROVE  Typed'
  BY <1>4 DEF Discard, Deleted, SharedTyped, ReadersTyped, FlightsTyped, ReaderLabels
<1>5. ASSUME NEW r \in Readers, Join(r)
      PROVE  Typed'
  <2>1. "acquire" \in FlightLabels
    BY DEF FlightLabels
  <2>2. CASE Joinable(InstanceOf[r], ProductOf[r])
    BY <1>5, <2>2 DEF Join, SharedTyped, ReadersTyped, FlightsTyped, ReaderLabels
  <2>3. CASE ~Joinable(InstanceOf[r], ProductOf[r])
    <3>1. fpc' \in [Readers -> FlightLabels] /\ timer' \in [Readers -> Nat]
      BY <1>5, <2>1, <2>3, AwaitTyped DEF Join
    <3>2. flights' \in [Instances -> [Products -> Readers \cup {None}]]
      BY <1>5, <2>3 DEF Join, SharedTyped
    <3>3. ReadersTyped'
      BY <1>5, <2>3 DEF Join, ReadersTyped, ReaderLabels
    <3>4. QED
      BY <1>5, <2>3, <3>1, <3>2, <3>3 DEF Join, SharedTyped, FlightsTyped
  <2>4. QED
    BY <2>2, <2>3
<1>6. ASSUME NEW r \in Readers, Receive(r)
      PROVE  Typed'
  <2>1. joined[r] \in Readers
    BY <1>6 DEF Receive, ReaderInv
  <2>2. ReadersTyped'
    BY <1>6, <2>1, TellTyped DEF Receive, FlightsTyped
  <2>3. QED
    BY <1>6, <2>2 DEF Receive, SharedTyped, FlightsTyped
<1>7. ASSUME NEW r \in Readers, Disconnect(r)
      PROVE  Typed'
  BY <1>7 DEF Disconnect, CancelAwaited, SharedTyped, ReadersTyped, FlightsTyped, ReaderLabels
<1>8. ASSUME NEW r \in Readers, LockSet(r)
      PROVE  Typed'
  <2>1. fpc' \in [Readers -> FlightLabels]
    BY <1>8 DEF LockSet, FlightsTyped, FlightLabels
  <2>2. lock' \in [Products -> Readers \cup {None}] /\ ttl' \in [Products -> 0..LockTTL]
    <3>1. CASE LockFree(ProductOf[r])
      <4>1. LockTTL \in 0..LockTTL
        OBVIOUS
      <4>2. QED
        BY <1>8, <3>1, <4>1 DEF LockSet, GrantLock, LockFree, SharedTyped
    <3>2. CASE ~LockFree(ProductOf[r])
      BY <1>8, <3>2 DEF LockSet, SharedTyped
    <3>3. QED
      BY <3>1, <3>2
  <2>3. QED
    BY <1>8, <2>1, <2>2 DEF LockSet, SharedTyped, ReadersTyped, FlightsTyped
<1>9. ASSUME NEW r \in Readers, LockGranted(r)
      PROVE  Typed'
  <2>1. "slot" \in FlightLabels
    BY DEF FlightLabels
  <2>2. fpc' \in [Readers -> FlightLabels] /\ timer' \in [Readers -> Nat]
    BY <1>9, <2>1, AwaitTyped DEF LockGranted
  <2>3. QED
    BY <1>9, <2>2 DEF LockGranted, SharedTyped, ReadersTyped, FlightsTyped
<1>10. ASSUME NEW r \in Readers, LockFailed(r)
      PROVE  Typed'
  <2>1. "slot" \in FlightLabels
    BY DEF FlightLabels
  <2>2. fpc' \in [Readers -> FlightLabels] /\ timer' \in [Readers -> Nat]
    BY <1>10, <2>1, AwaitTyped DEF LockFailed
  <2>3. QED
    BY <1>10, <2>2 DEF LockFailed, SharedTyped, ReadersTyped, FlightsTyped
<1>11. ASSUME NEW r \in Readers, LockDenied(r)
      PROVE  Typed'
  <2>1. fpc' \in [Readers -> FlightLabels] /\ timer' \in [Readers -> Nat]
    BY <1>11, PollOnTyped DEF LockDenied
  <2>2. deadline' \in [Readers -> 0..WaitBudget]
    BY <1>11 DEF LockDenied, FlightsTyped
  <2>3. QED
    BY <1>11, <2>1, <2>2 DEF LockDenied, SharedTyped, ReadersTyped, FlightsTyped
<1>12. ASSUME NEW r \in Readers, PollWake(r)
      PROVE  Typed'
  <2>1. "poll" \in FlightLabels
    BY DEF FlightLabels
  <2>2. fpc' \in [Readers -> FlightLabels] /\ timer' \in [Readers -> Nat]
    BY <1>12, <2>1, AwaitTyped DEF PollWake
  <2>3. QED
    BY <1>12, <2>2 DEF PollWake, SharedTyped, ReadersTyped, FlightsTyped
<1>13. ASSUME NEW r \in Readers, PollHit(r)
      PROVE  Typed'
  <2>1. cache[ProductOf[r]] \in {"product", "missing"}
    BY <1>13 DEF PollHit, Values
  <2>2. FlightsTyped' /\ flights' \in [Instances -> [Products -> Readers \cup {None}]]
    BY <1>13, <2>1, FinishTyped DEF PollHit
  <2>3. QED
    BY <1>13, <2>2 DEF PollHit, SharedTyped, ReadersTyped
<1>14. ASSUME NEW r \in Readers, PollMiss(r)
      PROVE  Typed'
  <2>1. "drop" \in FlightLabels
    BY DEF FlightLabels
  <2>2. fpc' \in [Readers -> FlightLabels] /\ timer' \in [Readers -> Nat]
    BY <1>14, <2>1, PollOnTyped, AwaitTyped DEF PollMiss
  <2>3. QED
    BY <1>14, <2>2 DEF PollMiss, SharedTyped, ReadersTyped, FlightsTyped
<1>15. ASSUME NEW r \in Readers, PollDiscard(r)
      PROVE  Typed'
  <2>1. fpc' \in [Readers -> FlightLabels] /\ timer' \in [Readers -> Nat]
    BY <1>15, PollOnTyped DEF PollDiscard
  <2>2. QED
    BY <1>15, <2>1 DEF PollDiscard, Deleted, SharedTyped, ReadersTyped, FlightsTyped
<1>16. ASSUME NEW r \in Readers, TakeSlot(r)
      PROVE  Typed'
  <2>1. "query" \in FlightLabels
    BY DEF FlightLabels
  <2>2. fpc' \in [Readers -> FlightLabels] /\ timer' \in [Readers -> Nat]
    BY <1>16, <2>1, AwaitTyped DEF TakeSlot
  <2>3. slots' \in [Instances -> Nat]
    BY <1>16 DEF TakeSlot, SharedTyped
  <2>4. QED
    BY <1>16, <2>2, <2>3 DEF TakeSlot, SharedTyped, ReadersTyped, FlightsTyped
<1>17. ASSUME NEW r \in Readers, NoSlot(r)
      PROVE  Typed'
  BY <1>17, FoundTyped DEF NoSlot, SharedTyped, ReadersTyped
<1>18. ASSUME NEW r \in Readers, QueryAnswers(r)
      PROVE  Typed'
  <2>1. slots' \in [Instances -> Nat]
    BY <1>18 DEF QueryAnswers, FreeSlot, SharedTyped
  <2>2. CASE populate[r]
    <3>1. "put" \in FlightLabels
      BY DEF FlightLabels
    <3>2. fpc' \in [Readers -> FlightLabels] /\ timer' \in [Readers -> Nat]
      BY <1>18, <2>2, <3>1, AwaitTyped DEF QueryAnswers
    <3>3. outcome' \in [Readers -> {"product", "missing", "unavailable", "none"}]
      BY <1>18, <2>2 DEF QueryAnswers, FlightsTyped
    <3>4. QED
      BY <1>18, <2>1, <2>2, <3>2, <3>3 DEF QueryAnswers, SharedTyped, ReadersTyped, FlightsTyped
  <2>3. CASE ~populate[r]
    <3>1. Stored[ProductOf[r]] \in {"product", "missing", "unavailable", "none"}
      OBVIOUS
    <3>2. FlightsTyped' /\ flights' \in [Instances -> [Products -> Readers \cup {None}]]
      BY <1>18, <2>3, <3>1, FinishTyped DEF QueryAnswers
    <3>3. QED
      BY <1>18, <2>1, <3>2 DEF QueryAnswers, SharedTyped, ReadersTyped
  <2>4. QED
    BY <2>2, <2>3
<1>19. ASSUME NEW r \in Readers, QueryFails(r)
      PROVE  Typed'
  <2>1. slots' \in [Instances -> Nat]
    BY <1>19 DEF QueryFails, FreeSlot, SharedTyped
  <2>2. QED
    BY <1>19, <2>1, FoundTyped DEF QueryFails, SharedTyped, ReadersTyped
<1>20. ASSUME NEW r \in Readers, Put(r)
      PROVE  Typed'
  <2>1. "release" \in FlightLabels
    BY DEF FlightLabels
  <2>2. fpc' \in [Readers -> FlightLabels] /\ timer' \in [Readers -> Nat]
    BY <1>20, <2>1, AwaitTyped DEF Put
  <2>3. outcome[r] \in {"product", "missing"}
    BY <1>20 DEF Put, FlightInv
  <2>4. cache' \in [Products -> {"product", "missing", "none", "invalid"}]
    BY <1>20, <2>3 DEF Put, SharedTyped
  <2>5. QED
    BY <1>20, <2>2, <2>4 DEF Put, SharedTyped, ReadersTyped, FlightsTyped
<1>21. ASSUME NEW r \in Readers, Release(r)
      PROVE  Typed'
  <2>1. lock' \in [Products -> Readers \cup {None}] /\ ttl' \in [Products -> 0..LockTTL]
    BY <1>21 DEF Release, ReleaseScript, SharedTyped
  <2>2. FlightsTyped' /\ flights' \in [Instances -> [Products -> Readers \cup {None}]]
    BY <1>21, FinishTyped DEF Release, FlightsTyped
  <2>3. QED
    BY <1>21, <2>1, <2>2 DEF Release, SharedTyped, ReadersTyped
<1>22. CASE Tick
  <2>1. lock' \in [Products -> Readers \cup {None}] /\ ttl' \in [Products -> 0..LockTTL]
    BY <1>22 DEF Tick, Less, SharedTyped
  <2>2. timer' \in [Readers -> Nat] /\ deadline' \in [Readers -> 0..WaitBudget]
    BY <1>22 DEF Tick, Less, FlightsTyped
  <2>3. QED
    BY <1>22, <2>1, <2>2 DEF Tick, SharedTyped, ReadersTyped, FlightsTyped
<1>23. CASE Evict
  BY <1>23 DEF Evict, SharedTyped, ReadersTyped, FlightsTyped
<1>24. CASE UNCHANGED vars
  BY <1>24 DEF vars, SharedTyped, ReadersTyped, FlightsTyped
<1>25. QED
  BY StepCases, <1>1, <1>2, <1>3, <1>4, <1>5, <1>6, <1>7, <1>8, <1>9, <1>10, <1>11, <1>12,
     <1>13, <1>14, <1>15, <1>16, <1>17, <1>18, <1>19, <1>20, <1>21, <1>22, <1>23, <1>24
     DEF RequestStep
-----------------------------------------------------------------------------
(* The register of flights.                                                 *)

Registered ==
    /\ SingleFlight
    /\ \A i \in Instances, p \in Products :
           flights[i][p] # None =>
               InstanceOf[flights[i][p]] = i /\ ProductOf[flights[i][p]] = p

\* What a step does to the register and to the set of unfinished flights: nothing, the
\* start of one flight or the end of one.
RegisterSame == flights' = flights /\ \A q \in Readers : Unfinished(q)' <=> Unfinished(q)
FlightStarts(r) ==
    /\ ~Unfinished(r)
    /\ ~Joinable(InstanceOf[r], ProductOf[r])
    /\ flights' = [flights EXCEPT ![InstanceOf[r]][ProductOf[r]] = r]
    /\ fpc' = [fpc EXCEPT ![r] = "acquire"]
FlightEnds(r) ==
    /\ Unfinished(r)
    /\ fpc' = [fpc EXCEPT ![r] = "done"]
    /\ flights' = IF flights[InstanceOf[r]][ProductOf[r]] = r
                  THEN [flights EXCEPT ![InstanceOf[r]][ProductOf[r]] = None] ELSE flights

LEMMA RegisterStep ==
    ASSUME Typed, NEW r \in Readers, ReaderInv(r), RequestStep(r)
    PROVE  RegisterSame \/ FlightStarts(r) \/ FlightEnds(r)
<1> USE DEF Typed, FlightsTyped, flight, Unfinished
<1>1. ASSUME Arrive(r)
      PROVE  RegisterSame \/ FlightStarts(r) \/ FlightEnds(r)
  BY <1>1 DEF Arrive, RegisterSame
<1>2. ASSUME CacheHit(r)
      PROVE  RegisterSame \/ FlightStarts(r) \/ FlightEnds(r)
  BY <1>2 DEF CacheHit, RegisterSame
<1>3. ASSUME CacheMiss(r)
      PROVE  RegisterSame \/ FlightStarts(r) \/ FlightEnds(r)
  BY <1>3 DEF CacheMiss, RegisterSame
<1>4. ASSUME Discard(r)
      PROVE  RegisterSame \/ FlightStarts(r) \/ FlightEnds(r)
  BY <1>4 DEF Discard, RegisterSame
<1>5. ASSUME Join(r)
      PROVE  RegisterSame \/ FlightStarts(r) \/ FlightEnds(r)
  BY <1>5 DEF Join, Await, ReaderInv, RegisterSame, FlightStarts
<1>6. ASSUME Receive(r)
      PROVE  RegisterSame \/ FlightStarts(r) \/ FlightEnds(r)
  BY <1>6 DEF Receive, RegisterSame
<1>7. ASSUME Disconnect(r)
      PROVE  RegisterSame \/ FlightStarts(r) \/ FlightEnds(r)
  BY <1>7 DEF Disconnect, CancelAwaited, RegisterSame
<1>8. ASSUME LockSet(r)
      PROVE  RegisterSame \/ FlightStarts(r) \/ FlightEnds(r)
  BY <1>8 DEF LockSet, RegisterSame
<1>9. ASSUME LockGranted(r)
      PROVE  RegisterSame \/ FlightStarts(r) \/ FlightEnds(r)
  BY <1>9 DEF LockGranted, Await, RegisterSame
<1>10. ASSUME LockFailed(r)
      PROVE  RegisterSame \/ FlightStarts(r) \/ FlightEnds(r)
  BY <1>10 DEF LockFailed, Await, RegisterSame
<1>11. ASSUME LockDenied(r)
      PROVE  RegisterSame \/ FlightStarts(r) \/ FlightEnds(r)
  BY <1>11 DEF LockDenied, PollOn, Await, RegisterSame
<1>12. ASSUME PollWake(r)
      PROVE  RegisterSame \/ FlightStarts(r) \/ FlightEnds(r)
  BY <1>12 DEF PollWake, Await, RegisterSame
<1>13. ASSUME PollHit(r)
      PROVE  RegisterSame \/ FlightStarts(r) \/ FlightEnds(r)
  BY <1>13 DEF PollHit, Finish, FlightEnds
<1>14. ASSUME PollMiss(r)
      PROVE  RegisterSame \/ FlightStarts(r) \/ FlightEnds(r)
  BY <1>14 DEF PollMiss, PollOn, Await, RegisterSame
<1>15. ASSUME PollDiscard(r)
      PROVE  RegisterSame \/ FlightStarts(r) \/ FlightEnds(r)
  BY <1>15 DEF PollDiscard, PollOn, Await, RegisterSame
<1>16. ASSUME TakeSlot(r)
      PROVE  RegisterSame \/ FlightStarts(r) \/ FlightEnds(r)
  BY <1>16 DEF TakeSlot, Await, RegisterSame
<1>17. ASSUME NoSlot(r)
      PROVE  RegisterSame \/ FlightStarts(r) \/ FlightEnds(r)
  <2>1. CASE populate[r]
    BY <1>17, <2>1 DEF NoSlot, Found, Await, RegisterSame
  <2>2. CASE ~populate[r]
    BY <1>17, <2>2 DEF NoSlot, Found, Finish, FlightEnds
  <2>3. QED
    BY <2>1, <2>2
<1>18. ASSUME QueryAnswers(r)
      PROVE  RegisterSame \/ FlightStarts(r) \/ FlightEnds(r)
  <2>1. CASE populate[r]
    BY <1>18, <2>1 DEF QueryAnswers, Await, RegisterSame
  <2>2. CASE ~populate[r]
    BY <1>18, <2>2 DEF QueryAnswers, Finish, FlightEnds
  <2>3. QED
    BY <2>1, <2>2
<1>19. ASSUME QueryFails(r)
      PROVE  RegisterSame \/ FlightStarts(r) \/ FlightEnds(r)
  <2>1. CASE populate[r]
    BY <1>19, <2>1 DEF QueryFails, Found, Await, RegisterSame
  <2>2. CASE ~populate[r]
    BY <1>19, <2>2 DEF QueryFails, Found, Finish, FlightEnds
  <2>3. QED
    BY <2>1, <2>2
<1>20. ASSUME Put(r)
      PROVE  RegisterSame \/ FlightStarts(r) \/ FlightEnds(r)
  BY <1>20 DEF Put, Await, RegisterSame
<1>21. ASSUME Release(r)
      PROVE  RegisterSame \/ FlightStarts(r) \/ FlightEnds(r)
  BY <1>21 DEF Release, Finish, FlightEnds
<1>22. QED
  BY <1>1, <1>2, <1>3, <1>4, <1>5, <1>6, <1>7, <1>8, <1>9, <1>10, <1>11, <1>12,
     <1>13, <1>14, <1>15, <1>16, <1>17, <1>18, <1>19, <1>20, <1>21 DEF RequestStep

LEMMA RegisteredPreserved ==
    ASSUME Typed, Registered, [Step]_vars,
           \A r \in Readers : ReaderInv(r)
    PROVE  Registered'
<1> USE Constants, NoneAssumption DEF Typed, SharedTyped, FlightsTyped
<1>1. ASSUME RegisterSame
      PROVE  Registered'
  BY <1>1 DEF RegisterSame, Registered, SingleFlight
<1>2. ASSUME NEW r \in Readers, FlightStarts(r)
      PROVE  Registered'
  <2> DEFINE i == InstanceOf[r]
             p == ProductOf[r]
  <2>1. \A q \in Readers : InstanceOf[q] = i /\ ProductOf[q] = p => ~Unfinished(q)
    BY <1>2 DEF FlightStarts, Joinable, Registered, SingleFlight, Unfinished
  <2>2. \A q \in Readers : Unfinished(q)' <=> q = r \/ Unfinished(q)
    BY <1>2 DEF FlightStarts, Unfinished
  <2>3. \A j \in Instances, x \in Products :
            flights'[j][x] = IF j = i /\ x = p THEN r ELSE flights[j][x]
    BY <1>2 DEF FlightStarts
  <2>4. QED
    BY <2>1, <2>2, <2>3 DEF Registered, SingleFlight
<1>3. ASSUME NEW r \in Readers, FlightEnds(r)
      PROVE  Registered'
  <2> DEFINE i == InstanceOf[r]
             p == ProductOf[r]
  <2>1. flights[i][p] = r
    BY <1>3 DEF FlightEnds, Registered, SingleFlight
  <2>2. \A q \in Readers : Unfinished(q)' <=> q # r /\ Unfinished(q)
    BY <1>3 DEF FlightEnds, Unfinished
  <2>3. \A j \in Instances, x \in Products :
            flights'[j][x] = IF j = i /\ x = p THEN None ELSE flights[j][x]
    BY <1>3, <2>1 DEF FlightEnds
  <2>4. ASSUME NEW q \in Readers
        PROVE  flights'[InstanceOf[q]][ProductOf[q]] = q <=> Unfinished(q)'
    <3>1. flights[InstanceOf[q]][ProductOf[q]] = q <=> Unfinished(q)
      BY DEF Registered, SingleFlight
    <3>2. QED
      BY <2>1, <2>2, <2>3, <3>1
  <2>5. QED
    BY <2>3, <2>4 DEF Registered, SingleFlight
<1>4. CASE Tick \/ Evict \/ UNCHANGED vars
  <2>1. RegisterSame
    BY <1>4 DEF Tick, Evict, vars, flight, RegisterSame, Unfinished
  <2>2. QED
    BY <1>1, <2>1
<1>5. CASE \E r \in Readers : RequestStep(r)
  <2>1. PICK r \in Readers : RequestStep(r)
    BY <1>5
  <2>2. RegisterSame \/ FlightStarts(r) \/ FlightEnds(r)
    BY <2>1, RegisterStep
  <2>3. QED
    BY <1>1, <1>2, <1>3, <2>2
<1>6. QED
  BY <1>4, <1>5, StepCases
-----------------------------------------------------------------------------
(* What flights find and readers are told.                                  *)

Answered(r) == rpc[r] = "done" => answer[r] \in {Stored[ProductOf[r]], "unavailable"}

Truthful ==
    /\ \A p \in Products : cache[p] \in Values => cache[p] = Stored[p]
    /\ \A r \in Readers : FlightInv(r) /\ ReaderInv(r) /\ Answered(r)

LEMMA TruthfulPreserved ==
    ASSUME Typed, Registered, Truthful, [Step]_vars
    PROVE  Truthful'
<1> USE Constants
<1> USE DEF redis, readers, flight, Typed, SharedTyped, ReadersTyped, FlightsTyped,
            Truthful, FlightInv, ReaderInv, Answered, Values
<1>1. ASSUME NEW r \in Readers, Arrive(r)
      PROVE  Truthful'
  BY <1>1 DEF Arrive
<1>2. ASSUME NEW r \in Readers, CacheHit(r)
      PROVE  Truthful'
  BY <1>2 DEF CacheHit, Tell
<1>3. ASSUME NEW r \in Readers, CacheMiss(r)
      PROVE  Truthful'
  BY <1>3 DEF CacheMiss
<1>4. ASSUME NEW r \in Readers, Discard(r)
      PROVE  Truthful'
  BY <1>4 DEF Discard, Deleted
<1>5. ASSUME NEW r \in Readers, Join(r)
      PROVE  Truthful'
  <2>1. ASSUME Joinable(InstanceOf[r], ProductOf[r])
        PROVE  /\ flights[InstanceOf[r]][ProductOf[r]] \in Readers
               /\ ProductOf[flights[InstanceOf[r]][ProductOf[r]]] = ProductOf[r]
    BY <2>1 DEF Joinable, Registered
  <2>2. CASE Joinable(InstanceOf[r], ProductOf[r])
    BY <1>5, <2>1, <2>2 DEF Join
  <2>3. CASE ~Joinable(InstanceOf[r], ProductOf[r])
    BY <1>5, <2>3 DEF Join, Await
  <2>4. QED
    BY <2>2, <2>3
<1>6. ASSUME NEW r \in Readers, Receive(r)
      PROVE  Truthful'
  BY <1>6 DEF Receive, Tell
<1>7. ASSUME NEW r \in Readers, Disconnect(r)
      PROVE  Truthful'
  BY <1>7 DEF Disconnect, CancelAwaited
<1>8. ASSUME NEW r \in Readers, LockSet(r)
      PROVE  Truthful'
  BY <1>8 DEF LockSet, LockFree, GrantLock
<1>9. ASSUME NEW r \in Readers, LockGranted(r)
      PROVE  Truthful'
  BY <1>9 DEF LockGranted, Await
<1>10. ASSUME NEW r \in Readers, LockFailed(r)
      PROVE  Truthful'
  BY <1>10 DEF LockFailed, Await
<1>11. ASSUME NEW r \in Readers, LockDenied(r)
      PROVE  Truthful'
  BY <1>11 DEF LockDenied, PollOn, Await
<1>12. ASSUME NEW r \in Readers, PollWake(r)
      PROVE  Truthful'
  BY <1>12 DEF PollWake, Await
<1>13. ASSUME NEW r \in Readers, PollHit(r)
      PROVE  Truthful'
  BY <1>13 DEF PollHit, Finish
<1>14. ASSUME NEW r \in Readers, PollMiss(r)
      PROVE  Truthful'
  BY <1>14 DEF PollMiss, PollOn, Await
<1>15. ASSUME NEW r \in Readers, PollDiscard(r)
      PROVE  Truthful'
  <2>1. fpc' = [fpc EXCEPT ![r] = "sleep"] \/ fpc' = [fpc EXCEPT ![r] = "slot"]
    BY <1>15 DEF PollDiscard, PollOn, Await
  <2>2. UNCHANGED <<flights, readers, populate, outcome>>
    BY <1>15 DEF PollDiscard
  <2>3. \A p \in Products : cache'[p] \in {cache[p], "none"}
    BY <1>15 DEF PollDiscard, Deleted
  <2>4. fpc[r] = "drop"
    BY <1>15 DEF PollDiscard
  <2>5. \A p \in Products : cache'[p] \in Values => cache'[p] = Stored[p]
    BY <2>3
  <2>6. ASSUME NEW q \in Readers
        PROVE  (FlightInv(q) /\ ReaderInv(q) /\ Answered(q))'
    BY <2>1, <2>2, <2>4
  <2>7. QED
    BY <2>5, <2>6
<1>16. ASSUME NEW r \in Readers, TakeSlot(r)
      PROVE  Truthful'
  BY <1>16 DEF TakeSlot, Await
<1>17. ASSUME NEW r \in Readers, NoSlot(r)
      PROVE  Truthful'
  BY <1>17 DEF NoSlot, Found, Finish, Await
<1>18. ASSUME NEW r \in Readers, QueryAnswers(r)
      PROVE  Truthful'
  BY <1>18 DEF QueryAnswers, FreeSlot, Finish, Await
<1>19. ASSUME NEW r \in Readers, QueryFails(r)
      PROVE  Truthful'
  BY <1>19 DEF QueryFails, FreeSlot, Found, Finish, Await
<1>20. ASSUME NEW r \in Readers, Put(r)
      PROVE  Truthful'
  BY <1>20 DEF Put, Await
<1>21. ASSUME NEW r \in Readers, Release(r)
      PROVE  Truthful'
  BY <1>21 DEF Release, ReleaseScript, Finish
<1>22. CASE Tick
  BY <1>22 DEF Tick
<1>23. CASE Evict
  BY <1>23 DEF Evict
<1>24. CASE UNCHANGED vars
  BY <1>24 DEF vars
<1>25. HIDE DEF Truthful, Typed
<1>26. QED
  BY StepCases, <1>1, <1>2, <1>3, <1>4, <1>5, <1>6, <1>7, <1>8, <1>9, <1>10, <1>11, <1>12,
     <1>13, <1>14, <1>15, <1>16, <1>17, <1>18, <1>19, <1>20, <1>21, <1>22, <1>23, <1>24
     DEF RequestStep
-----------------------------------------------------------------------------
(* The query slots.                                                         *)

\* What a step does to the slots: nothing, or one query takes or frees one.
QueryingBut(r) == \A q \in Readers \ {r} : fpc'[q] = "query" <=> fpc[q] = "query"
SlotsSame == slots' = slots /\ \A q \in Readers : fpc'[q] = "query" <=> fpc[q] = "query"
SlotTaken(r) ==
    /\ fpc[r] # "query" /\ fpc'[r] = "query" /\ QueryingBut(r)
    /\ slots' = [slots EXCEPT ![InstanceOf[r]] = @ - 1]
SlotFreed(r) ==
    /\ fpc[r] = "query" /\ fpc'[r] # "query" /\ QueryingBut(r)
    /\ slots' = [slots EXCEPT ![InstanceOf[r]] = @ + 1]

LEMMA SlotsStep ==
    ASSUME Typed, NEW r \in Readers, ReaderInv(r), RequestStep(r)
    PROVE  SlotsSame \/ SlotTaken(r) \/ SlotFreed(r)
<1> USE DEF Typed, FlightsTyped, flight, QueryingBut
<1>1. ASSUME Arrive(r)
      PROVE  SlotsSame \/ SlotTaken(r) \/ SlotFreed(r)
  BY <1>1 DEF Arrive, SlotsSame
<1>2. ASSUME CacheHit(r)
      PROVE  SlotsSame \/ SlotTaken(r) \/ SlotFreed(r)
  BY <1>2 DEF CacheHit, SlotsSame
<1>3. ASSUME CacheMiss(r)
      PROVE  SlotsSame \/ SlotTaken(r) \/ SlotFreed(r)
  BY <1>3 DEF CacheMiss, SlotsSame
<1>4. ASSUME Discard(r)
      PROVE  SlotsSame \/ SlotTaken(r) \/ SlotFreed(r)
  BY <1>4 DEF Discard, SlotsSame
<1>5. ASSUME Join(r)
      PROVE  SlotsSame \/ SlotTaken(r) \/ SlotFreed(r)
  BY <1>5 DEF Join, Await, ReaderInv, SlotsSame
<1>6. ASSUME Receive(r)
      PROVE  SlotsSame \/ SlotTaken(r) \/ SlotFreed(r)
  BY <1>6 DEF Receive, SlotsSame
<1>7. ASSUME Disconnect(r)
      PROVE  SlotsSame \/ SlotTaken(r) \/ SlotFreed(r)
  BY <1>7 DEF Disconnect, CancelAwaited, SlotsSame
<1>8. ASSUME LockSet(r)
      PROVE  SlotsSame \/ SlotTaken(r) \/ SlotFreed(r)
  BY <1>8 DEF LockSet, SlotsSame
<1>9. ASSUME LockGranted(r)
      PROVE  SlotsSame \/ SlotTaken(r) \/ SlotFreed(r)
  BY <1>9 DEF LockGranted, Await, SlotsSame
<1>10. ASSUME LockFailed(r)
      PROVE  SlotsSame \/ SlotTaken(r) \/ SlotFreed(r)
  BY <1>10 DEF LockFailed, Await, SlotsSame
<1>11. ASSUME LockDenied(r)
      PROVE  SlotsSame \/ SlotTaken(r) \/ SlotFreed(r)
  BY <1>11 DEF LockDenied, PollOn, Await, SlotsSame
<1>12. ASSUME PollWake(r)
      PROVE  SlotsSame \/ SlotTaken(r) \/ SlotFreed(r)
  BY <1>12 DEF PollWake, Await, SlotsSame
<1>13. ASSUME PollHit(r)
      PROVE  SlotsSame \/ SlotTaken(r) \/ SlotFreed(r)
  BY <1>13 DEF PollHit, Finish, SlotsSame
<1>14. ASSUME PollMiss(r)
      PROVE  SlotsSame \/ SlotTaken(r) \/ SlotFreed(r)
  BY <1>14 DEF PollMiss, PollOn, Await, SlotsSame
<1>15. ASSUME PollDiscard(r)
      PROVE  SlotsSame \/ SlotTaken(r) \/ SlotFreed(r)
  BY <1>15 DEF PollDiscard, PollOn, Await, SlotsSame
<1>16. ASSUME TakeSlot(r)
      PROVE  SlotsSame \/ SlotTaken(r) \/ SlotFreed(r)
  BY <1>16 DEF TakeSlot, Await, SlotTaken
<1>17. ASSUME NoSlot(r)
      PROVE  SlotsSame \/ SlotTaken(r) \/ SlotFreed(r)
  BY <1>17 DEF NoSlot, Found, Finish, Await, SlotsSame
<1>18. ASSUME QueryAnswers(r)
      PROVE  SlotsSame \/ SlotTaken(r) \/ SlotFreed(r)
  BY <1>18 DEF QueryAnswers, FreeSlot, Finish, Await, SlotFreed
<1>19. ASSUME QueryFails(r)
      PROVE  SlotsSame \/ SlotTaken(r) \/ SlotFreed(r)
  BY <1>19 DEF QueryFails, FreeSlot, Found, Finish, Await, SlotFreed
<1>20. ASSUME Put(r)
      PROVE  SlotsSame \/ SlotTaken(r) \/ SlotFreed(r)
  BY <1>20 DEF Put, Await, SlotsSame
<1>21. ASSUME Release(r)
      PROVE  SlotsSame \/ SlotTaken(r) \/ SlotFreed(r)
  BY <1>21 DEF Release, Finish, SlotsSame
<1>22. QED
  BY <1>1, <1>2, <1>3, <1>4, <1>5, <1>6, <1>7, <1>8, <1>9, <1>10, <1>11, <1>12,
     <1>13, <1>14, <1>15, <1>16, <1>17, <1>18, <1>19, <1>20, <1>21 DEF RequestStep

LEMMA QueryingFinite ==
    \A i \in Instances : IsFiniteSet(Querying(i)) /\ Cardinality(Querying(i)) \in Nat
<1>1. \A i \in Instances : Querying(i) \subseteq Readers
  BY DEF Querying
<1>2. QED
  BY <1>1, FiniteAssumption, FS_Subset, FS_CardinalityType

LEMMA SlotsPreserved ==
    ASSUME Typed, SlotsConserved, [Step]_vars,
           \A r \in Readers : ReaderInv(r)
    PROVE  SlotsConserved'
<1> USE Constants DEF Typed, SharedTyped
<1>1. ASSUME SlotsSame
      PROVE  SlotsConserved'
  <2>1. \A i \in Instances : Querying(i)' = Querying(i)
    BY <1>1 DEF SlotsSame, Querying
  <2>2. QED
    BY <1>1, <2>1 DEF SlotsSame, SlotsConserved
<1>2. ASSUME NEW r \in Readers, SlotTaken(r)
      PROVE  SlotsConserved'
  <2> SUFFICES ASSUME NEW i \in Instances
               PROVE  slots'[i] + Cardinality(Querying(i)') = Slots
    BY DEF SlotsConserved
  <2>1. slots[i] + Cardinality(Querying(i)) = Slots
    BY DEF SlotsConserved
  <2>2. CASE InstanceOf[r] = i
    <3>1. Querying(i)' = Querying(i) \cup {r} /\ r \notin Querying(i)
      BY <1>2, <2>2 DEF SlotTaken, QueryingBut, Querying
    <3>2. Cardinality(Querying(i)') = Cardinality(Querying(i)) + 1
      BY <3>1, QueryingFinite, FS_AddElement
    <3>3. slots'[i] = slots[i] - 1
      BY <1>2, <2>2 DEF SlotTaken
    <3>4. QED
      BY <2>1, <3>2, <3>3, QueryingFinite
  <2>3. CASE InstanceOf[r] # i
    <3>1. Querying(i)' = Querying(i)
      BY <1>2, <2>3 DEF SlotTaken, QueryingBut, Querying
    <3>2. slots'[i] = slots[i]
      BY <1>2, <2>3 DEF SlotTaken
    <3>3. QED
      BY <2>1, <3>1, <3>2
  <2>4. QED
    BY <2>2, <2>3
<1>3. ASSUME NEW r \in Readers, SlotFreed(r)
      PROVE  SlotsConserved'
  <2> SUFFICES ASSUME NEW i \in Instances
               PROVE  slots'[i] + Cardinality(Querying(i)') = Slots
    BY DEF SlotsConserved
  <2>1. slots[i] + Cardinality(Querying(i)) = Slots
    BY DEF SlotsConserved
  <2>2. CASE InstanceOf[r] = i
    <3>1. Querying(i)' = Querying(i) \ {r} /\ r \in Querying(i)
      BY <1>3, <2>2 DEF SlotFreed, QueryingBut, Querying
    <3>2. Cardinality(Querying(i)') = Cardinality(Querying(i)) - 1
      BY <3>1, QueryingFinite, FS_RemoveElement
    <3>3. slots'[i] = slots[i] + 1
      BY <1>3, <2>2 DEF SlotFreed
    <3>4. QED
      BY <2>1, <3>2, <3>3, QueryingFinite
  <2>3. CASE InstanceOf[r] # i
    <3>1. Querying(i)' = Querying(i)
      BY <1>3, <2>3 DEF SlotFreed, QueryingBut, Querying
    <3>2. slots'[i] = slots[i]
      BY <1>3, <2>3 DEF SlotFreed
    <3>3. QED
      BY <2>1, <3>1, <3>2
  <2>4. QED
    BY <2>2, <2>3
<1>4. CASE Tick \/ Evict \/ UNCHANGED vars
  <2>1. SlotsSame
    BY <1>4 DEF Tick, Evict, vars, flight, SlotsSame
  <2>2. QED
    BY <1>1, <2>1
<1>5. CASE \E r \in Readers : RequestStep(r)
  <2>1. PICK r \in Readers : RequestStep(r)
    BY <1>5
  <2>2. SlotsSame \/ SlotTaken(r) \/ SlotFreed(r)
    BY <2>1, SlotsStep
  <2>3. QED
    BY <1>1, <1>2, <1>3, <2>2
<1>6. QED
  BY <1>4, <1>5, StepCases
-----------------------------------------------------------------------------
(* The invariants of every behaviour.                                       *)

LEMMA InvariantParts ==
    ReadInvariant <=> Typed /\ Registered /\ Truthful /\ SlotsConserved
<1>1. ASSUME Typed, SlotsConserved
      PROVE  slots \in [Instances -> 0..Slots]
  <2>1. \A i \in Instances : slots[i] \in 0..Slots
    BY <1>1, QueryingFinite, SlotAssumption DEF SlotsConserved, Typed, SharedTyped
  <2>2. QED
    BY <1>1, <2>1 DEF Typed, SharedTyped
<1>2. QED
  BY <1>1, TypeParts DEF ReadInvariant, Typed, Registered, Truthful, Answered, AnswersTrue

\* The inductive invariant of the public read.
THEOREM ReadInvariantHolds == Spec => []ReadInvariant
<1>1. Init => ReadInvariant
  <2> SUFFICES ASSUME Init
               PROVE  Typed /\ Registered /\ Truthful /\ SlotsConserved
    BY InvariantParts
  <2>1. Typed
    BY Constants, SlotAssumption
       DEF Init, Typed, SharedTyped, ReadersTyped, FlightsTyped, ReaderLabels, FlightLabels
  <2>2. Registered
    BY Constants, NoneAssumption DEF Init, Registered, SingleFlight, Unfinished
  <2>3. Truthful
    BY Constants DEF Init, Truthful, FlightInv, ReaderInv, Answered, Values
  <2>4. SlotsConserved
    <3>1. \A i \in Instances : Querying(i) = {}
      BY DEF Init, Querying
    <3>2. Cardinality({}) = 0
      BY FS_EmptySet
    <3>3. \A i \in Instances : slots[i] + Cardinality(Querying(i)) = Slots
      <4>1. \A i \in Instances : slots[i] = Slots
        BY DEF Init
      <4>2. Slots + 0 = Slots
        BY SlotAssumption
      <4>3. QED
        BY <3>1, <3>2, <4>1, <4>2
    <3>4. QED
      BY <3>3 DEF SlotsConserved
  <2>5. QED
    BY <2>1, <2>2, <2>3, <2>4
<1>2. ASSUME ReadInvariant, [Step]_vars
      PROVE  ReadInvariant'
  <2>1. Typed /\ Registered /\ Truthful /\ SlotsConserved
    BY <1>2, InvariantParts
  <2>2. \A r \in Readers : FlightInv(r) /\ ReaderInv(r)
    BY <2>1 DEF Truthful
  <2>3. (Typed /\ Registered /\ Truthful /\ SlotsConserved)'
    BY <1>2, <2>1, <2>2, TypedPreserved, RegisteredPreserved, TruthfulPreserved, SlotsPreserved
  <2>4. QED
    BY <2>3, InvariantParts, PTL
<1>3. QED
  BY <1>1, <1>2, PTL DEF Spec, Step

\* TypeOK of PublicRead: every variable has its type, no slot count leaves 0..Slots.
THEOREM TypeCorrect == Spec => []TypeOK
  BY ReadInvariantHolds, PTL DEF ReadInvariant

\* SingleFlight: one unfinished flight per product and instance, the registered one.
THEOREM FlightsAreSingle == Spec => []SingleFlight
  BY ReadInvariantHolds, PTL DEF ReadInvariant

\* SlotsConserved: query slots are neither lost nor duplicated.
THEOREM SlotsAreConserved == Spec => []SlotsConserved
  BY ReadInvariantHolds, PTL DEF ReadInvariant

\* AnswersTrue: readers are told what the database holds, or "unavailable".
THEOREM AnswersAreTrue == Spec => []AnswersTrue
  BY ReadInvariantHolds, PTL DEF ReadInvariant

\* LocksReleasedByOwner: a lock key changes hands by its owner's release or by expiry.
THEOREM OnlyOwnersRelease == Spec => LocksReleasedByOwner
<1>1. ASSUME ReadInvariant, [Step]_vars
      PROVE  [\A p \in Products : lock[p] # None /\ lock'[p] # lock[p] =>
                 \/ fpc[lock[p]] = "release" /\ fpc'[lock[p]] = "done"
                 \/ ttl[p] = 1]_vars
  <2> USE DEF redis
  <2>0. Typed
    BY <1>1, InvariantParts
  <2> SUFFICES ASSUME NEW p \in Products, lock[p] # None, lock'[p] # lock[p]
               PROVE  \/ fpc[lock[p]] = "release" /\ fpc'[lock[p]] = "done"
                      \/ ttl[p] = 1
    OBVIOUS
  <2>1. CASE Tick
    BY <2>0, <2>1 DEF Tick, Typed, SharedTyped
  <2>2. CASE Evict \/ UNCHANGED vars
    BY <2>2 DEF Evict, vars
  <2>3. CASE \E r \in Readers : RequestStep(r)
    <3>1. PICK r \in Readers : RequestStep(r)
      BY <2>3
    <3>2. Release(r) \/ LockSet(r)
      BY <3>1 DEF RequestStep, Arrive, CacheHit, CacheMiss, Discard, Join, Receive, Disconnect,
                  LockGranted, LockFailed, LockDenied, PollWake, PollHit, PollMiss, PollDiscard,
                  TakeSlot, NoSlot, QueryAnswers, QueryFails, Put
    <3>3. CASE Release(r)
      BY <2>0, <3>3, Constants
         DEF Release, ReleaseScript, Finish, Typed, SharedTyped, FlightsTyped
    <3>4. CASE LockSet(r)
      BY <2>0, <3>4, Constants DEF LockSet, LockFree, GrantLock, Typed, SharedTyped
    <3>5. QED
      BY <3>2, <3>3, <3>4
  <2>4. QED
    BY <1>1, <2>1, <2>2, <2>3, StepCases
<1>2. QED
  BY <1>1, ReadInvariantHolds, PTL DEF Spec, Step, LocksReleasedByOwner
-----------------------------------------------------------------------------
(* The rebuild lock.                                                        *)

\* The lock lives longer than a rebuild's awaits can last together: the lock's reply, a
\* query slot, the query and the cache write.
LongLock == LockTTL > RedisTimeout + SlotTimeout + QueryTimeout + RedisTimeout

\* What LockOutlastsRebuild says of one flight.
Holds(q) == fpc[q] = "granted" \/ Rebuilding(q)
Lease(q) ==
    /\ Holds(q) => lock[ProductOf[q]] = q /\ ttl[ProductOf[q]] > RebuildLeft(q)
    /\ fpc[q] = "acquire" => timer[q] <= RedisTimeout

LEMMA LeaseIs == LockOutlastsRebuild <=> \A q \in Readers : Lease(q)
  BY DEF LockOutlastsRebuild, Lease, Holds

\* The step of one flight does not touch the lock another one holds.
LEMMA LeaseFrame ==
    ASSUME Typed, NEW r \in Readers, RequestStep(r), NEW q \in Readers, q # r, Lease(q)
    PROVE  Lease(q)'
<1> USE Constants, NoneAssumption
<1> USE DEF Typed, SharedTyped, FlightsTyped, redis, flight
<1>1. /\ fpc'[q] = fpc[q]
      /\ timer'[q] = timer[q]
      /\ populate'[q] = populate[q]
  <2>1. CASE Arrive(r)
    BY <2>1 DEF Arrive
  <2>2. CASE CacheHit(r)
    BY <2>2 DEF CacheHit
  <2>3. CASE CacheMiss(r)
    BY <2>3 DEF CacheMiss
  <2>4. CASE Discard(r)
    BY <2>4 DEF Discard
  <2>5. CASE Join(r)
    BY <2>5 DEF Join, Await
  <2>6. CASE Receive(r)
    BY <2>6 DEF Receive
  <2>7. CASE Disconnect(r)
    BY <2>7 DEF Disconnect, CancelAwaited
  <2>8. CASE LockSet(r)
    BY <2>8 DEF LockSet
  <2>9. CASE LockGranted(r)
    BY <2>9 DEF LockGranted, Await
  <2>10. CASE LockFailed(r)
    BY <2>10 DEF LockFailed, Await
  <2>11. CASE LockDenied(r)
    BY <2>11 DEF LockDenied, PollOn, Await
  <2>12. CASE PollWake(r)
    BY <2>12 DEF PollWake, Await
  <2>13. CASE PollHit(r)
    BY <2>13 DEF PollHit, Finish
  <2>14. CASE PollMiss(r)
    BY <2>14 DEF PollMiss, PollOn, Await
  <2>15. CASE PollDiscard(r)
    BY <2>15 DEF PollDiscard, PollOn, Await
  <2>16. CASE TakeSlot(r)
    BY <2>16 DEF TakeSlot, Await
  <2>17. CASE NoSlot(r)
    BY <2>17 DEF NoSlot, Found, Finish, Await
  <2>18. CASE QueryAnswers(r)
    BY <2>18 DEF QueryAnswers, Finish, Await
  <2>19. CASE QueryFails(r)
    BY <2>19 DEF QueryFails, Found, Finish, Await
  <2>20. CASE Put(r)
    BY <2>20 DEF Put, Await
  <2>21. CASE Release(r)
    BY <2>21 DEF Release, Finish
  <2>22. QED
    BY <2>1, <2>2, <2>3, <2>4, <2>5, <2>6, <2>7, <2>8, <2>9, <2>10, <2>11, <2>12,
       <2>13, <2>14, <2>15, <2>16, <2>17, <2>18, <2>19, <2>20, <2>21 DEF RequestStep
<1>2. ASSUME lock[ProductOf[q]] = q
      PROVE  lock'[ProductOf[q]] = q /\ ttl'[ProductOf[q]] = ttl[ProductOf[q]]
  <2>1. CASE LockSet(r)
    BY <1>2, <2>1 DEF LockSet, LockFree, GrantLock
  <2>2. CASE Release(r)
    BY <1>2, <2>2 DEF Release, ReleaseScript
  <2>3. CASE ~LockSet(r) /\ ~Release(r)
    <3>1. UNCHANGED <<lock, ttl>>
      BY <2>3 DEF RequestStep, Arrive, CacheHit, CacheMiss, Discard, Join, Receive, Disconnect,
                  LockGranted, LockFailed, LockDenied, PollWake, PollHit, PollMiss, PollDiscard,
                  TakeSlot, NoSlot, QueryAnswers, QueryFails, Put
    <3>2. QED
      BY <1>2, <3>1
  <2>4. QED
    BY <2>1, <2>2, <2>3
<1>3. Holds(q)' = Holds(q) /\ RebuildLeft(q)' = RebuildLeft(q)
  BY <1>1 DEF Holds, Rebuilding, RebuildLeft
<1>4. QED
  BY <1>1, <1>2, <1>3 DEF Lease

\* Each step of a flight spends no more than its share of the time left.
LEMMA LeaseOwnStep ==
    ASSUME LongLock, Typed, NEW r \in Readers, FlightInv(r), ReaderInv(r),
           RequestStep(r), Lease(r)
    PROVE  Lease(r)'
<1> USE Constants DEF Typed, SharedTyped, FlightsTyped, redis, flight
<1>1. CASE Arrive(r)
  BY <1>1 DEF Arrive, Lease, Holds, Rebuilding, RebuildLeft, FlightInv
<1>2. CASE CacheHit(r)
  BY <1>2 DEF CacheHit, Lease, Holds, Rebuilding, RebuildLeft, FlightInv
<1>3. CASE CacheMiss(r)
  BY <1>3 DEF CacheMiss, Lease, Holds, Rebuilding, RebuildLeft, FlightInv
<1>4. CASE Discard(r)
  BY <1>4 DEF Discard, Lease, Holds, Rebuilding, RebuildLeft, FlightInv
<1>5. CASE Join(r)
  BY <1>5 DEF Join, Await, Lease, Holds, Rebuilding, RebuildLeft, FlightInv, ReaderInv
<1>6. CASE Receive(r)
  BY <1>6 DEF Receive, Lease, Holds, Rebuilding, RebuildLeft, FlightInv
<1>7. CASE Disconnect(r)
  BY <1>7 DEF Disconnect, CancelAwaited, Lease, Holds, Rebuilding, RebuildLeft, FlightInv
<1>8. CASE LockSet(r)
  BY <1>8 DEF LockSet, LockFree, GrantLock, Lease, Holds, Rebuilding, RebuildLeft, FlightInv, LongLock
<1>9. CASE LockGranted(r)
  BY <1>9 DEF LockGranted, Await, Lease, Holds, Rebuilding, RebuildLeft, FlightInv
<1>10. CASE LockFailed(r)
  BY <1>10 DEF LockFailed, Await, Lease, Holds, Rebuilding, RebuildLeft, FlightInv
<1>11. CASE LockDenied(r)
  BY <1>11 DEF LockDenied, PollOn, Await, Lease, Holds, Rebuilding, RebuildLeft, FlightInv
<1>12. CASE PollWake(r)
  BY <1>12 DEF PollWake, Await, Lease, Holds, Rebuilding, RebuildLeft, FlightInv
<1>13. CASE PollHit(r)
  BY <1>13 DEF PollHit, Finish, Lease, Holds, Rebuilding, RebuildLeft, FlightInv
<1>14. CASE PollMiss(r)
  BY <1>14 DEF PollMiss, PollOn, Await, Lease, Holds, Rebuilding, RebuildLeft, FlightInv
<1>15. CASE PollDiscard(r)
  BY <1>15 DEF PollDiscard, PollOn, Await, Lease, Holds, Rebuilding, RebuildLeft, FlightInv
<1>16. CASE TakeSlot(r)
  BY <1>16 DEF TakeSlot, Await, Lease, Holds, Rebuilding, RebuildLeft, FlightInv
<1>17. CASE NoSlot(r)
  BY <1>17 DEF NoSlot, Found, Finish, Await, Lease, Holds, Rebuilding, RebuildLeft, FlightInv
<1>18. CASE QueryAnswers(r)
  BY <1>18 DEF QueryAnswers, Finish, Await, Lease, Holds, Rebuilding, RebuildLeft, FlightInv
<1>19. CASE QueryFails(r)
  BY <1>19 DEF QueryFails, Found, Finish, Await, Lease, Holds, Rebuilding, RebuildLeft, FlightInv
<1>20. CASE Put(r)
  BY <1>20 DEF Put, Await, Lease, Holds, Rebuilding, RebuildLeft, FlightInv
<1>21. CASE Release(r)
  BY <1>21 DEF Release, Finish, Lease, Holds, Rebuilding, RebuildLeft, FlightInv
<1>22. QED
  BY <1>1, <1>2, <1>3, <1>4, <1>5, <1>6, <1>7, <1>8, <1>9, <1>10, <1>11, <1>12,
     <1>13, <1>14, <1>15, <1>16, <1>17, <1>18, <1>19, <1>20, <1>21 DEF RequestStep

\* A tick takes one unit from the lock's life and one from the time a rebuild has left.
LEMMA LeaseTick ==
    ASSUME Typed, NEW q \in Readers, Lease(q), Tick
    PROVE  Lease(q)'
<1> USE Constants DEF Typed, SharedTyped, FlightsTyped, Less
<1>1. ASSUME Holds(q)
      PROVE  lock'[ProductOf[q]] = q /\ ttl'[ProductOf[q]] > RebuildLeft(q)'
  <2>1. timer[q] > 0 /\ timer'[q] = timer[q] - 1 /\ fpc'[q] = fpc[q]
    BY <1>1 DEF Tick, Unfinished, Holds, Rebuilding
  <2>2. RebuildLeft(q)' = RebuildLeft(q) - 1 /\ RebuildLeft(q) \in Nat \ {0}
    BY <2>1 DEF RebuildLeft
  <2>3. lock[ProductOf[q]] = q /\ ttl[ProductOf[q]] > RebuildLeft(q)
    BY <1>1 DEF Lease
  <2>4. ttl'[ProductOf[q]] = ttl[ProductOf[q]] - 1 /\ lock'[ProductOf[q]] = lock[ProductOf[q]]
    BY <2>2, <2>3 DEF Tick
  <2>5. QED
    BY <2>2, <2>3, <2>4
<1>2. Holds(q)' <=> Holds(q)
  BY DEF Tick, Holds, Rebuilding
<1>3. fpc'[q] = "acquire" => timer'[q] <= RedisTimeout
  BY DEF Tick, Lease
<1>4. QED
  BY <1>1, <1>2, <1>3 DEF Lease

\* LockOutlastsRebuild: a rebuilder's lock key holds its token and outlives the rebuild.
THEOREM LockOutlasts ==
    ASSUME LongLock
    PROVE  Spec => []LockOutlastsRebuild
<1>1. Init => LockOutlastsRebuild
  BY DEF Init, LockOutlastsRebuild, Rebuilding
<1>2. ASSUME ReadInvariant, LockOutlastsRebuild, [Step]_vars
      PROVE  LockOutlastsRebuild'
  <2>1. Typed /\ \A r \in Readers : FlightInv(r) /\ ReaderInv(r) /\ Lease(r)
    BY <1>2, InvariantParts, LeaseIs DEF Truthful
  <2> SUFFICES ASSUME NEW q \in Readers
               PROVE  Lease(q)'
    BY DEF LockOutlastsRebuild, Lease, Holds
  <2>2. CASE Tick
    BY <2>1, <2>2, LeaseTick
  <2>3. CASE Evict \/ UNCHANGED vars
    <3>1. UNCHANGED <<lock, ttl, fpc, timer, populate>>
      BY <2>3 DEF Evict, vars, redis, flight
    <3>2. QED
      BY <2>1, <3>1 DEF Lease, Holds, Rebuilding, RebuildLeft
  <2>4. CASE \E r \in Readers : RequestStep(r)
    <3>1. PICK r \in Readers : RequestStep(r)
      BY <2>4
    <3>2. QED
      BY <2>1, <3>1, LeaseFrame, LeaseOwnStep
  <2>5. QED
    BY <1>2, <2>2, <2>3, <2>4, StepCases
<1>3. QED
  BY <1>1, <1>2, ReadInvariantHolds, PTL DEF Spec, Step

\* OneRebuilder: no two flights rebuild one product at the same time, across instances.
THEOREM OneRebuilderHolds ==
    ASSUME LongLock
    PROVE  Spec => []OneRebuilder
<1>1. LockOutlastsRebuild => OneRebuilder
  BY DEF LockOutlastsRebuild, OneRebuilder
<1>2. QED
  BY <1>1, LockOutlasts, PTL
=============================================================================
