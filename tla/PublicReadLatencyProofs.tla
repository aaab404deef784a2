----------------------- MODULE PublicReadLatencyProofs -----------------------
(***************************************************************************)
(* Proof that no flight of PublicRead outlives the budgets on its path, for *)
(* all values of the timeouts.                                              *)
(***************************************************************************)
EXTENDS PublicReadLatency, PublicReadProofs

\* The history variable only watches: an aged behaviour is one of PublicRead.
LEMMA AgedImplementsSpec == AgedSpec => Spec
<1>1. AgedInit => Init
  BY DEF AgedInit
<1>2. [AgedNext]_<<vars, age>> => [Next \/ Quiet]_vars
  BY DEF AgedNext, Next
<1>3. QED
  BY <1>1, <1>2, PTL DEF AgedSpec, Spec

AgeTyped == age \in [Readers -> Nat]

\* What one flight's schedule allows; OnSchedule says it of all.
Punctual(f) ==
    /\ Unfinished(f) => age[f] + TimeLeft(f) < LongestFlight
    /\ ~Unfinished(f) => age[f] = 0

\* A step of flight r, or of its reader, spends no time and plans no more than was left.
LEMMA StepKeepsPlan ==
    ASSUME Typed, NEW r \in Readers, FlightInv(r), ReaderInv(r), RequestStep(r),
           Unfinished(r), Unfinished(r)'
    PROVE  TimeLeft(r)' <= TimeLeft(r)
<1> USE Constants, TimeAssumption
<1> USE DEF Typed, FlightsTyped, flight, Unfinished, TimeLeft, PollingLeft, Rebuild, FlightInv
<1>1. CASE Arrive(r)
  BY <1>1 DEF Arrive
<1>2. CASE CacheHit(r)
  BY <1>2 DEF CacheHit
<1>3. CASE CacheMiss(r)
  BY <1>3 DEF CacheMiss
<1>4. CASE Discard(r)
  BY <1>4 DEF Discard
<1>5. CASE Join(r)
  BY <1>5 DEF Join, Await, ReaderInv
<1>6. CASE Receive(r)
  BY <1>6 DEF Receive
<1>7. CASE Disconnect(r)
  BY <1>7 DEF Disconnect, CancelAwaited
<1>8. CASE LockSet(r)
  BY <1>8 DEF LockSet
<1>9. CASE LockGranted(r)
  <2>1. fpc[r] = "granted" /\ fpc'[r] = "slot" /\ timer'[r] = SlotTimeout /\ populate'[r]
    BY <1>9 DEF LockGranted, Await
  <2>2. TimeLeft(r)' = SlotTimeout + QueryTimeout + 2 * RedisTimeout
    BY <2>1
  <2>3. TimeLeft(r) = timer[r] + (WaitBudget + PollInterval + 2 * RedisTimeout - 1)
                         + SlotTimeout + QueryTimeout
    BY <2>1
  <2>4. QED
    BY <2>2, <2>3
<1>10. CASE LockFailed(r)
  BY <1>10 DEF LockFailed, Await
<1>11. CASE LockDenied(r)
  BY <1>11 DEF LockDenied, PollOn, Await
<1>12. CASE PollWake(r)
  BY <1>12 DEF PollWake, Await
<1>13. CASE PollHit(r)
  BY <1>13 DEF PollHit, Finish
<1>14. CASE PollMiss(r)
  BY <1>14 DEF PollMiss, PollOn, Await
<1>15. CASE PollDiscard(r)
  BY <1>15 DEF PollDiscard, PollOn, Await
<1>16. CASE TakeSlot(r)
  BY <1>16 DEF TakeSlot, Await
<1>17. CASE NoSlot(r)
  BY <1>17 DEF NoSlot, Found, Finish, Await
<1>18. CASE QueryAnswers(r)
  BY <1>18 DEF QueryAnswers, Finish, Await
<1>19. CASE QueryFails(r)
  BY <1>19 DEF QueryFails, Found, Finish, Await
<1>20. CASE Put(r)
  BY <1>20 DEF Put, Await
<1>21. CASE Release(r)
  BY <1>21 DEF Release, Finish
<1>22. HIDE DEF TimeLeft
<1>23. QED
  BY <1>1, <1>2, <1>3, <1>4, <1>5, <1>6, <1>7, <1>8, <1>9, <1>10, <1>11, <1>12,
     <1>13, <1>14, <1>15, <1>16, <1>17, <1>18, <1>19, <1>20, <1>21 DEF RequestStep

\* A flight starts with the whole plan before it.
LEMMA StartIsPunctual ==
    ASSUME Typed, NEW r \in Readers, RequestStep(r), ~Unfinished(r), Unfinished(r)'
    PROVE  TimeLeft(r)' < LongestFlight
<1> USE Constants, TimeAssumption DEF Typed, FlightsTyped, flight, Unfinished
<1>1. Join(r) /\ fpc' = [fpc EXCEPT ![r] = "acquire"]
      /\ timer' = [timer EXCEPT ![r] = RedisTimeout]
  <2>1. CASE Arrive(r)
    BY <2>1 DEF Arrive
  <2>2. CASE CacheHit(r)
    BY <2>2 DEF CacheHit
  <2>3. CASE CacheMiss(r)
    BY <2>3 DEF CacheMiss
  <2>4. CASE Discard(r)
    BY <2>4 DEF Discard
  <2>5. CASE Join(r)
    BY <2>5 DEF Join, Await
  <2>6. CASE Receive(r)
    BY <2>6 DEF Receive
  <2>7. CASE Disconnect(r)
    BY <2>7 DEF Disconnect, CancelAwaited
  <2>8. CASE LockSet(r)
    BY <2>8 DEF LockSet
  <2>9. CASE LockGranted(r)
    BY <2>9 DEF LockGranted, Await
  <2>10. CASE LockFailed(r)
    BY <2>10 DEF LockFailed, Await
  <2>11. CASE LockDenied(r)
    BY <2>11 DEF LockDenied, PollOn, Await
  <2>12. CASE PollWake(r)
    BY <2>12 DEF PollWake, Await
  <2>13. CASE PollHit(r)
    BY <2>13 DEF PollHit, Finish
  <2>14. CASE PollMiss(r)
    BY <2>14 DEF PollMiss, PollOn, Await
  <2>15. CASE PollDiscard(r)
    BY <2>15 DEF PollDiscard, PollOn, Await
  <2>16. CASE TakeSlot(r)
    BY <2>16 DEF TakeSlot, Await
  <2>17. CASE NoSlot(r)
    BY <2>17 DEF NoSlot, Found, Finish, Await
  <2>18. CASE QueryAnswers(r)
    BY <2>18 DEF QueryAnswers, Finish, Await
  <2>19. CASE QueryFails(r)
    BY <2>19 DEF QueryFails, Found, Finish, Await
  <2>20. CASE Put(r)
    BY <2>20 DEF Put, Await
  <2>21. CASE Release(r)
    BY <2>21 DEF Release, Finish
  <2>22. QED
    BY <2>1, <2>2, <2>3, <2>4, <2>5, <2>6, <2>7, <2>8, <2>9, <2>10, <2>11, <2>12,
       <2>13, <2>14, <2>15, <2>16, <2>17, <2>18, <2>19, <2>20, <2>21 DEF RequestStep
<1>2. QED
  BY <1>1 DEF TimeLeft, LongestFlight

\* Other flights keep their place and their timers.
LEMMA OthersStay ==
    ASSUME Typed, NEW r \in Readers, RequestStep(r), NEW q \in Readers, q # r
    PROVE  TimeLeft(q)' = TimeLeft(q) /\ (Unfinished(q)' <=> Unfinished(q))
<1> USE DEF Typed, FlightsTyped, flight
<1>1. /\ fpc'[q] = fpc[q]
      /\ timer'[q] = timer[q]
      /\ deadline'[q] = deadline[q]
      /\ populate'[q] = populate[q]
  <2>1. CASE Arrive(r)
    BY <2>1 DEF Arrive
  <2>2. CASE CacheHit(r)
    BY <2>2 DEF CacheHit
  <2>3. CASE CacheMiss(r)
    BY <2>3 DEF CacheMiss
  <2>4. CASE Discard(r)
    BY <2>4 DEF Discard
  <2>5. CASE Join(r)
    BY <2>5 DEF Join, Await
  <2>6. CASE Receive(r)
    BY <2>6 DEF Receive
  <2>7. CASE Disconnect(r)
    BY <2>7 DEF Disconnect, CancelAwaited
  <2>8. CASE LockSet(r)
    BY <2>8 DEF LockSet
  <2>9. CASE LockGranted(r)
    BY <2>9 DEF LockGranted, Await
  <2>10. CASE LockFailed(r)
    BY <2>10 DEF LockFailed, Await
  <2>11. CASE LockDenied(r)
    BY <2>11 DEF LockDenied, PollOn, Await
  <2>12. CASE PollWake(r)
    BY <2>12 DEF PollWake, Await
  <2>13. CASE PollHit(r)
    BY <2>13 DEF PollHit, Finish
  <2>14. CASE PollMiss(r)
    BY <2>14 DEF PollMiss, PollOn, Await
  <2>15. CASE PollDiscard(r)
    BY <2>15 DEF PollDiscard, PollOn, Await
  <2>16. CASE TakeSlot(r)
    BY <2>16 DEF TakeSlot, Await
  <2>17. CASE NoSlot(r)
    BY <2>17 DEF NoSlot, Found, Finish, Await
  <2>18. CASE QueryAnswers(r)
    BY <2>18 DEF QueryAnswers, Finish, Await
  <2>19. CASE QueryFails(r)
    BY <2>19 DEF QueryFails, Found, Finish, Await
  <2>20. CASE Put(r)
    BY <2>20 DEF Put, Await
  <2>21. CASE Release(r)
    BY <2>21 DEF Release, Finish
  <2>22. QED
    BY <2>1, <2>2, <2>3, <2>4, <2>5, <2>6, <2>7, <2>8, <2>9, <2>10, <2>11, <2>12,
       <2>13, <2>14, <2>15, <2>16, <2>17, <2>18, <2>19, <2>20, <2>21 DEF RequestStep
<1>2. QED
  BY <1>1 DEF TimeLeft, PollingLeft, Rebuild, Unfinished

\* A tick passes only while no await has run out, and every plan gets shorter by one.
LEMMA TickKeepsPlan ==
    ASSUME Typed, NEW f \in Readers, Unfinished(f), Tick
    PROVE  TimeLeft(f)' <= TimeLeft(f) - 1
<1> USE Constants, TimeAssumption
<1> USE DEF Typed, FlightsTyped
<1>1. /\ timer[f] > 0
      /\ timer'[f] = timer[f] - 1
      /\ fpc' = fpc
      /\ populate' = populate
      /\ deadline'[f] = IF deadline[f] > 0 THEN deadline[f] - 1 ELSE 0
  BY DEF Tick, Less
<1>2. QED
  BY <1>1 DEF TimeLeft, PollingLeft, Rebuild, Unfinished, FlightLabels

LEMMA TimeLeftIsTime == ASSUME Typed, NEW f \in Readers PROVE TimeLeft(f) \in Nat
  BY Constants, TimeAssumption
     DEF Typed, FlightsTyped, TimeLeft, PollingLeft, Rebuild

LEMMA LongestIsTime == LongestFlight \in Nat \ {0}
  BY TimeAssumption DEF LongestFlight

\* OnSchedule: at each await the time spent and the time left stay within the bound.
THEOREM FlightsStayOnSchedule == AgedSpec => [](AgeTyped /\ OnSchedule)
<1>1. AgedInit => AgeTyped /\ OnSchedule
  BY DEF AgedInit, Init, AgeTyped, OnSchedule, Unfinished
<1>2. ASSUME ReadInvariant, AgeTyped, OnSchedule, [AgedNext]_<<vars, age>>
      PROVE  (AgeTyped /\ OnSchedule)'
  <2>1. Typed /\ \A r \in Readers : FlightInv(r) /\ ReaderInv(r)
    BY <1>2, InvariantParts DEF Truthful
  <2>0. \A f \in Readers : TimeLeft(f)' \in Nat
    <3>1. Typed'
      BY <1>2, <2>1, TypedPreserved DEF AgedNext, Step, Next
    <3>2. QED
      BY <3>1, Constants, TimeAssumption
         DEF Typed, FlightsTyped, TimeLeft, PollingLeft, Rebuild
  <2>2. \A f \in Readers : age[f] \in Nat /\ Punctual(f)
    BY <1>2 DEF AgeTyped, OnSchedule, Punctual
  <2>3. ASSUME UNCHANGED <<vars, age>>
        PROVE  (AgeTyped /\ OnSchedule)'
    BY <1>2, <2>3
       DEF vars, flight, AgeTyped, OnSchedule, Unfinished, TimeLeft, PollingLeft, Rebuild
  <2>4. ASSUME Tick, age' = [f \in Readers |-> IF Unfinished(f) THEN age[f] + 1 ELSE 0]
        PROVE  (AgeTyped /\ OnSchedule)'
    <3>1. AgeTyped'
      BY <2>2, <2>4 DEF AgeTyped
    <3>2. ASSUME NEW f \in Readers
          PROVE  Punctual(f)'
      <4>1. Unfinished(f)' <=> Unfinished(f)
        BY <2>4 DEF Tick, Unfinished
      <4>2. CASE Unfinished(f)
        <5>1. TimeLeft(f)' <= TimeLeft(f) - 1 /\ age'[f] = age[f] + 1
          BY <2>1, <2>4, <4>2, TickKeepsPlan
        <5>2. TimeLeft(f) \in Nat /\ TimeLeft(f)' \in Int
          BY <2>1, <2>0, <5>1, TimeLeftIsTime
        <5>3. QED
          BY <2>2, <4>1, <4>2, <5>1, <5>2, LongestIsTime DEF Punctual
      <4>3. CASE ~Unfinished(f)
        BY <2>4, <4>1, <4>3 DEF Punctual
      <4>4. QED
        BY <4>2, <4>3
    <3>3. QED
      BY <3>1, <3>2 DEF OnSchedule, Punctual
  <2>5. ASSUME Instant \/ Quiet,
               age' = [f \in Readers |-> IF Unfinished(f)' THEN age[f] ELSE 0]
        PROVE  (AgeTyped /\ OnSchedule)'
    <3>1. AgeTyped'
      BY <2>2, <2>5 DEF AgeTyped
    <3>2. ASSUME NEW f \in Readers
          PROVE  Punctual(f)'
      <4>1. CASE ~Unfinished(f)'
        BY <2>5, <4>1 DEF Punctual
      <4>2. ASSUME Unfinished(f)', Unfinished(f), TimeLeft(f)' <= TimeLeft(f)
            PROVE  Punctual(f)'
        BY <2>1, <2>2, <2>5, <4>2, <2>0, TimeLeftIsTime, LongestIsTime DEF Punctual
      <4>3. ASSUME Unfinished(f)', ~Unfinished(f), TimeLeft(f)' < LongestFlight
            PROVE  Punctual(f)'
        BY <2>1, <2>2, <2>5, <4>3, <2>0, TimeLeftIsTime, LongestIsTime DEF Punctual
      <4>4. CASE Evict \/ Quiet
        <5>1. TimeLeft(f)' = TimeLeft(f) /\ (Unfinished(f)' <=> Unfinished(f))
          BY <4>4 DEF Evict, Quiet, vars, flight, TimeLeft, PollingLeft, Rebuild, Unfinished
        <5>2. QED
          BY <2>1, <4>1, <4>2, <5>1, TimeLeftIsTime
      <4>5. CASE \E r \in Readers : RequestStep(r)
        <5>1. PICK r \in Readers : RequestStep(r)
          BY <4>5
        <5>2. CASE r = f
          BY <2>1, <4>1, <4>2, <4>3, <5>1, <5>2, StepKeepsPlan, StartIsPunctual
        <5>3. CASE r # f
          BY <2>1, <4>1, <4>2, <5>1, <5>3, OthersStay, TimeLeftIsTime
        <5>4. QED
          BY <5>2, <5>3
      <4>6. QED
        BY <2>5, <4>4, <4>5 DEF Instant, ReaderStep, FlightStep, RequestStep
    <3>3. QED
      BY <3>1, <3>2 DEF OnSchedule, Punctual
  <2>6. QED
    BY <1>2, <2>3, <2>4, <2>5 DEF AgedNext
<1>3. AgedSpec => []ReadInvariant
  BY AgedImplementsSpec, ReadInvariantHolds, PTL
<1>4. QED
  BY <1>1, <1>2, <1>3, PTL DEF AgedSpec

\* LatencyBounded: no flight outlives the sum of the budgets on its path.
THEOREM LatencyIsBounded == AgedSpec => []LatencyBounded
<1>1. ASSUME Typed, AgeTyped, OnSchedule
      PROVE  LatencyBounded
  <2>1. \A f \in Readers : age[f] \in Nat /\ TimeLeft(f) \in Nat
    BY <1>1, TimeLeftIsTime DEF AgeTyped
  <2>2. QED
    BY <1>1, <2>1, LongestIsTime DEF OnSchedule, LatencyBounded
<1>2. AgedSpec => []Typed
  BY AgedImplementsSpec, ReadInvariantHolds, InvariantParts, PTL
<1>3. QED
  BY <1>1, <1>2, FlightsStayOnSchedule, PTL
=============================================================================
