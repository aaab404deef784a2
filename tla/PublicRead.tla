------------------------------ MODULE PublicRead ------------------------------
(***************************************************************************)
(* The public detail read: PublicProductService (public_service.py) on      *)
(* several application instances that share one Redis (cache.py) and one    *)
(* PostgreSQL.  Readers of a product on one instance share a flight, a task *)
(* that fetches the product on their behalf; flights of different instances *)
(* compete for the product's rebuild lock in Redis; the queries of one      *)
(* instance share a pool of slots.                                          *)
(*                                                                         *)
(* Time is discrete.  Every await of a flight is wrapped in wait_for, so it *)
(* ends within its timeout: timer[f] is what is left of it, and time passes *)
(* (Tick) only while no flight has run out of it.  That is the assumption   *)
(* that the event loop runs a ready task within one tick.                   *)
(*                                                                         *)
(* A flight is named by the reader whose request created it.  What the      *)
(* product looks like is left out: here a product is stored and on shelf    *)
(* ("product") or not ("missing"); CacheCoherence is about its versions.    *)
(***************************************************************************)
EXTENDS Naturals, FiniteSets

CONSTANTS
    Instances,      \* application processes
    Products,       \* product ids
    Readers,        \* public detail requests
    InstanceOf,     \* the instance each request reaches
    ProductOf,      \* the product it asks for
    Stored,         \* what PostgreSQL answers for each product
    None,           \* no flight, no token
    Slots,          \* db_concurrency of each instance
    RedisTimeout,   \* redis_timeout_seconds, in ticks
    SlotTimeout,    \* db_fallback_wait_ms
    QueryTimeout,   \* db_query_timeout_ms
    WaitBudget,     \* wait_budget_ms
    PollInterval,   \* the sleep between two polls of the cache
    LockTTL         \* lock_ttl_ms

ASSUME NoneAssumption == None \notin Readers
ASSUME FiniteAssumption == IsFiniteSet(Readers)
ASSUME RequestAssumption ==
    /\ InstanceOf \in [Readers -> Instances]
    /\ ProductOf \in [Readers -> Products]
ASSUME SlotAssumption == Slots \in Nat \ {0}
ASSUME TimeAssumption ==
    /\ {RedisTimeout, SlotTimeout, QueryTimeout, PollInterval, LockTTL} \subseteq Nat \ {0}
    /\ WaitBudget \in Nat
\* core/config.py:31-35, the only relation between the timeouts the settings require.
ASSUME SettingsAssumption == QueryTimeout < LockTTL

Values == {"product", "missing"}
Outcomes == Values \cup {"unavailable"}

ASSUME StoredAssumption == Stored \in [Products -> Values]

VARIABLES
    cache,      \* the cache entry of each product: "none", a value, or "invalid"
    lock,       \* the token in the product's lock key: the flight that set it
    ttl,        \* ticks until that key expires
    slots,      \* free query slots of each instance
    flights,    \* _flights of each instance: the flight registered for a product
    rpc,        \* where each reader stands
    joined,     \* the flight it waits for
    answer,     \* what it was told
    fpc,        \* where each flight stands
    timer,      \* what is left of the timeout of its current await
    deadline,   \* what is left of its polling budget
    populate,   \* it holds a lock token and so may fill the cache
    outcome     \* what it found

redis == <<cache, lock, ttl>>
readers == <<rpc, joined, answer>>
flight == <<fpc, timer, deadline, populate, outcome>>
vars == <<redis, slots, flights, readers, flight>>

Init ==
    /\ cache \in [Products -> {"none", "invalid"}]
    /\ lock = [p \in Products |-> None]
    /\ ttl = [p \in Products |-> 0]
    /\ slots = [i \in Instances |-> Slots]
    /\ flights = [i \in Instances |-> [p \in Products |-> None]]
    /\ rpc = [r \in Readers |-> "idle"]
    /\ joined = [r \in Readers |-> None]
    /\ answer = [r \in Readers |-> "none"]
    /\ fpc = [f \in Readers |-> "none"]
    /\ timer = [f \in Readers |-> 0]
    /\ deadline = [f \in Readers |-> 0]
    /\ populate = [f \in Readers |-> FALSE]
    /\ outcome = [f \in Readers |-> "none"]

-----------------------------------------------------------------------------
(* Readers: detail and _cache_get.                                          *)

Arrive(r) ==
    /\ rpc[r] = "idle"
    /\ rpc' = [rpc EXCEPT ![r] = "get"]
    /\ UNCHANGED <<redis, slots, flights, joined, answer, flight>>

Tell(r, what) ==
    /\ rpc' = [rpc EXCEPT ![r] = "done"]
    /\ answer' = [answer EXCEPT ![r] = what]
    /\ joined' = [joined EXCEPT ![r] = None]

CacheHit(r) ==
    /\ rpc[r] = "get"
    /\ cache[ProductOf[r]] \in Values
    /\ Tell(r, cache[ProductOf[r]])
    /\ UNCHANGED <<redis, slots, flights, flight>>

\* No entry, a Redis error or a timeout: the reader goes for a flight.  An entry
\* that does not parse or validate is to be deleted first.
CacheMiss(r) ==
    /\ rpc[r] = "get"
    /\ \/ rpc' = [rpc EXCEPT ![r] = "join"]
       \/ cache[ProductOf[r]] = "invalid" /\ rpc' = [rpc EXCEPT ![r] = "discard"]
    /\ UNCHANGED <<redis, slots, flights, joined, answer, flight>>

\* The delete of an invalid entry, best effort; it hits whatever is there by then.
Deleted(p) == cache' = [cache EXCEPT ![p] = "none"] \/ UNCHANGED cache

Discard(r) ==
    /\ rpc[r] = "discard"
    /\ Deleted(ProductOf[r])
    /\ rpc' = [rpc EXCEPT ![r] = "join"]
    /\ UNCHANGED <<lock, ttl, slots, flights, joined, answer, flight>>

Await(f, where, limit) ==
    /\ fpc' = [fpc EXCEPT ![f] = where]
    /\ timer' = [timer EXCEPT ![f] = limit]

\* Mutant: every reader fetches for itself.
NeverJoinable(i, p) == FALSE

\* The registered flight, when it is still worth joining.
Joinable(i, p) == flights[i][p] # None /\ fpc[flights[i][p]] # "done"

\* The block under _flights_lock; nothing in it awaits.
Join(r) ==
    LET i == InstanceOf[r]
        p == ProductOf[r] IN
    /\ rpc[r] = "join"
    /\ rpc' = [rpc EXCEPT ![r] = "wait"]
    /\ \/ /\ Joinable(i, p)
          /\ joined' = [joined EXCEPT ![r] = flights[i][p]]
          /\ UNCHANGED <<flights, fpc, timer>>
       \/ /\ ~Joinable(i, p)
          /\ flights' = [flights EXCEPT ![i][p] = r]
          /\ joined' = [joined EXCEPT ![r] = r]
          /\ Await(r, "acquire", RedisTimeout)
    /\ UNCHANGED <<redis, slots, answer, deadline, populate, outcome>>

\* The task's result reaches its waiters; a cancelled task cancels them.
Receive(r) ==
    /\ rpc[r] = "wait"
    /\ fpc[joined[r]] = "done"
    /\ Tell(r, outcome[joined[r]])
    /\ UNCHANGED <<redis, slots, flights, flight>>

\* Mutant: no shield, the shared task is cancelled with the reader.
CancelShared(r) ==
    IF rpc[r] = "wait" /\ fpc[joined[r]] # "done"
    THEN /\ fpc' = [fpc EXCEPT ![joined[r]] = "done"]
         /\ timer' = [timer EXCEPT ![joined[r]] = 0]
         /\ deadline' = [deadline EXCEPT ![joined[r]] = 0]
         /\ populate' = [populate EXCEPT ![joined[r]] = FALSE]
         /\ outcome' = [outcome EXCEPT ![joined[r]] = "cancelled"]
    ELSE UNCHANGED flight

\* What cancelling a reader does to the flight it waits for: the shield takes the
\* cancellation, the task goes on.
CancelAwaited(r) == UNCHANGED flight

\* The client goes away and its request is cancelled.
Disconnect(r) ==
    /\ rpc[r] \in {"get", "discard", "join", "wait"}
    /\ rpc' = [rpc EXCEPT ![r] = "gone"]
    /\ joined' = [joined EXCEPT ![r] = None]
    /\ CancelAwaited(r)
    /\ UNCHANGED <<redis, slots, flights, answer>>
-----------------------------------------------------------------------------
(* Flights: _run_flight, _load and _query_db.                               *)

\* The task returns or raises; its finally clause takes it off the register.
Finish(f, what) ==
    LET i == InstanceOf[f]
        p == ProductOf[f] IN
    /\ fpc' = [fpc EXCEPT ![f] = "done"]
    /\ timer' = [timer EXCEPT ![f] = 0]
    /\ deadline' = [deadline EXCEPT ![f] = 0]
    /\ outcome' = [outcome EXCEPT ![f] = what]
    /\ flights' = IF flights[i][p] = f THEN [flights EXCEPT ![i][p] = None] ELSE flights
    /\ populate' = [populate EXCEPT ![f] = FALSE]

\* Mutant: SET without NX.
LockAlwaysFree(p) == TRUE

LockFree(p) == lock[p] = None

\* Mutant: SET without PX.
GrantLockForever(f, p) == lock' = [lock EXCEPT ![p] = f] /\ UNCHANGED ttl

\* Mutant: the lock lives as long as the query may take.
GrantLockForQuery(f, p) ==
    /\ lock' = [lock EXCEPT ![p] = f]
    /\ ttl' = [ttl EXCEPT ![p] = QueryTimeout + 1]

GrantLock(f, p) ==
    /\ lock' = [lock EXCEPT ![p] = f]
    /\ ttl' = [ttl EXCEPT ![p] = LockTTL]

\* Redis runs SET NX PX: the reply still has to travel.
LockSet(f) ==
    LET p == ProductOf[f] IN
    /\ fpc[f] = "acquire"
    /\ \/ /\ LockFree(p)
          /\ GrantLock(f, p)
          /\ fpc' = [fpc EXCEPT ![f] = "granted"]
       \/ /\ ~LockFree(p)
          /\ fpc' = [fpc EXCEPT ![f] = "denied"]
          /\ UNCHANGED <<lock, ttl>>
    /\ UNCHANGED <<cache, slots, flights, readers, timer, deadline, populate, outcome>>

LockGranted(f) ==
    /\ fpc[f] = "granted"
    /\ populate' = [populate EXCEPT ![f] = TRUE]
    /\ Await(f, "slot", SlotTimeout)
    /\ UNCHANGED <<redis, slots, flights, readers, deadline, outcome>>

\* Redis fails or is late: query without the lock.  When the SET was done all the
\* same, its token is lost and only expiry will clear the key.
LockFailed(f) ==
    /\ fpc[f] \in {"acquire", "granted", "denied"}
    /\ Await(f, "slot", SlotTimeout)
    /\ UNCHANGED <<redis, slots, flights, readers, deadline, populate, outcome>>

\* Mutant: the loop has no deadline.
PollForever(f, budget) == Await(f, "sleep", PollInterval)

\* The top of the polling loop.
PollOn(f, budget) ==
    IF budget > 0 THEN Await(f, "sleep", PollInterval) ELSE Await(f, "slot", SlotTimeout)

LockDenied(f) ==
    /\ fpc[f] = "denied"
    /\ deadline' = [deadline EXCEPT ![f] = WaitBudget]
    /\ PollOn(f, WaitBudget)
    /\ UNCHANGED <<redis, slots, flights, readers, populate, outcome>>

PollWake(f) ==
    /\ fpc[f] = "sleep"
    /\ timer[f] = 0
    /\ Await(f, "poll", RedisTimeout)
    /\ UNCHANGED <<redis, slots, flights, readers, deadline, populate, outcome>>

PollHit(f) ==
    /\ fpc[f] = "poll"
    /\ cache[ProductOf[f]] \in Values
    /\ Finish(f, cache[ProductOf[f]])
    /\ UNCHANGED <<redis, slots, readers>>

\* Mutant: every iteration starts a new budget.
PollMissAgain(f) ==
    /\ fpc[f] = "poll"
    /\ deadline' = [deadline EXCEPT ![f] = WaitBudget]
    /\ PollOn(f, WaitBudget)
    /\ UNCHANGED <<redis, slots, flights, readers, populate, outcome>>

PollMiss(f) ==
    /\ fpc[f] = "poll"
    /\ \/ PollOn(f, deadline[f])
       \/ cache[ProductOf[f]] = "invalid" /\ Await(f, "drop", RedisTimeout)
    /\ UNCHANGED <<redis, slots, flights, readers, deadline, populate, outcome>>

PollDiscard(f) ==
    /\ fpc[f] = "drop"
    /\ Deleted(ProductOf[f])
    /\ PollOn(f, deadline[f])
    /\ UNCHANGED <<lock, ttl, slots, flights, readers, deadline, populate, outcome>>

\* After the query a lock holder goes through the release, whatever it found.
Found(f, what) ==
    IF populate[f]
    THEN /\ Await(f, "release", RedisTimeout)
         /\ outcome' = [outcome EXCEPT ![f] = what]
         /\ UNCHANGED <<flights, deadline, populate>>
    ELSE Finish(f, what)

TakeSlot(f) ==
    LET i == InstanceOf[f] IN
    /\ fpc[f] = "slot"
    /\ slots[i] > 0
    /\ slots' = [slots EXCEPT ![i] = @ - 1]
    /\ Await(f, "query", QueryTimeout)
    /\ UNCHANGED <<redis, flights, readers, deadline, populate, outcome>>

FreeSlot(f) == slots' = [slots EXCEPT ![InstanceOf[f]] = @ + 1]

\* Mutant: the release also runs when no slot was taken.
NoSlotReleased(f) ==
    /\ fpc[f] = "slot"
    /\ timer[f] = 0
    /\ Found(f, "unavailable")
    /\ FreeSlot(f)
    /\ UNCHANGED <<redis, readers>>

\* capacity_timeout: 503.
NoSlot(f) ==
    /\ fpc[f] = "slot"
    /\ timer[f] = 0
    /\ Found(f, "unavailable")
    /\ UNCHANGED <<redis, slots, readers>>

\* The query answers; a lock holder goes on to fill the cache.
QueryAnswers(f) ==
    LET what == Stored[ProductOf[f]] IN
    /\ fpc[f] = "query"
    /\ FreeSlot(f)
    /\ IF populate[f]
       THEN /\ Await(f, "put", RedisTimeout)
            /\ outcome' = [outcome EXCEPT ![f] = what]
            /\ UNCHANGED <<flights, deadline, populate>>
       ELSE Finish(f, what)
    /\ UNCHANGED <<redis, readers>>

\* Mutant: the release is not in a finally clause.
QueryFailsHolding(f) ==
    /\ fpc[f] = "query"
    /\ Found(f, "unavailable")
    /\ UNCHANGED <<redis, slots, readers>>

\* A database error or the query timeout: 503.
QueryFails(f) ==
    /\ fpc[f] = "query"
    /\ FreeSlot(f)
    /\ Found(f, "unavailable")
    /\ UNCHANGED <<redis, readers>>

\* put_product or put_missing, best effort.
Put(f) ==
    LET p == ProductOf[f] IN
    /\ fpc[f] = "put"
    /\ cache' = [cache EXCEPT ![p] = outcome[f]] \/ UNCHANGED cache
    /\ Await(f, "release", RedisTimeout)
    /\ UNCHANGED <<lock, ttl, slots, flights, readers, deadline, populate, outcome>>

\* Mutant: delete the key whoever holds it.
ReleaseAnyway(f, p) == None

\* The release script: delete the key if it still holds this token.
ReleaseScript(f, p) == IF lock[p] = f THEN None ELSE lock[p]

Release(f) ==
    LET p == ProductOf[f] IN
    /\ fpc[f] = "release"
    /\ \/ lock' = [lock EXCEPT ![p] = ReleaseScript(f, p)]
       \/ UNCHANGED lock
    /\ ttl' = IF lock'[p] = None THEN [ttl EXCEPT ![p] = 0] ELSE ttl
    /\ Finish(f, outcome[f])
    /\ UNCHANGED <<cache, slots, readers>>

FlightStep(f) ==
    \/ LockSet(f) \/ LockGranted(f) \/ LockFailed(f) \/ LockDenied(f)
    \/ PollWake(f) \/ PollHit(f) \/ PollMiss(f) \/ PollDiscard(f)
    \/ TakeSlot(f) \/ NoSlot(f) \/ QueryAnswers(f) \/ QueryFails(f)
    \/ Put(f) \/ Release(f)
-----------------------------------------------------------------------------
(* The environment.                                                         *)

Unfinished(f) == fpc[f] \notin {"none", "done"}

Less(n) == IF n > 0 THEN n - 1 ELSE 0

\* Time passes; lock keys expire.
Tick ==
    /\ \A f \in Readers : Unfinished(f) => timer[f] > 0
    /\ \/ \E f \in Readers : Unfinished(f)
       \/ \E p \in Products : lock[p] # None
    /\ timer' = [f \in Readers |-> Less(timer[f])]
    /\ deadline' = [f \in Readers |-> Less(deadline[f])]
    /\ ttl' = [p \in Products |-> Less(ttl[p])]
    /\ lock' = [p \in Products |-> IF ttl[p] = 1 THEN None ELSE lock[p]]
    /\ UNCHANGED <<cache, slots, flights, readers, fpc, populate, outcome>>

\* A cache entry expires or is deleted after a write.
Evict ==
    /\ \E p \in Products : cache[p] # "none" /\ cache' = [cache EXCEPT ![p] = "none"]
    /\ UNCHANGED <<lock, ttl, slots, flights, readers, flight>>

ReaderStep(r) == CacheHit(r) \/ CacheMiss(r) \/ Discard(r) \/ Join(r) \/ Receive(r)

\* The steps that take no time.
Instant ==
    \/ Evict
    \/ \E r \in Readers : Arrive(r) \/ ReaderStep(r) \/ Disconnect(r) \/ FlightStep(r)

Next == Tick \/ Instant

\* Every client has its answer or is gone and no flight is left.
Quiet ==
    /\ \A r \in Readers : rpc[r] \in {"done", "gone"} /\ ~Unfinished(r)
    /\ UNCHANGED vars

Spec == Init /\ [][Next \/ Quiet]_vars

\* The event loop runs every ready coroutine, and time does not stop.
FairSpec ==
    /\ Spec
    /\ WF_vars(Tick)
    /\ \A r \in Readers : WF_vars(ReaderStep(r)) /\ WF_vars(FlightStep(r))
-----------------------------------------------------------------------------
(* Properties                                                               *)

ReaderLabels == {"idle", "get", "discard", "join", "wait", "done", "gone"}
FlightLabels == {"none", "acquire", "granted", "denied", "sleep", "poll", "drop", "slot",
                 "query", "put", "release", "done"}

\* Every variable has its type; free slots never exceed db_concurrency.
TypeOK ==
    /\ cache \in [Products -> Values \cup {"none", "invalid"}]
    /\ lock \in [Products -> Readers \cup {None}]
    /\ ttl \in [Products -> 0..LockTTL]
    /\ slots \in [Instances -> 0..Slots]
    /\ flights \in [Instances -> [Products -> Readers \cup {None}]]
    /\ rpc \in [Readers -> ReaderLabels]
    /\ joined \in [Readers -> Readers \cup {None}]
    /\ answer \in [Readers -> Outcomes \cup {"none"}]
    /\ fpc \in [Readers -> FlightLabels]
    /\ timer \in [Readers -> Nat]
    /\ deadline \in [Readers -> 0..WaitBudget]
    /\ populate \in [Readers -> BOOLEAN]
    /\ outcome \in [Readers -> Outcomes \cup {"none"}]

Querying(i) == {f \in Readers : InstanceOf[f] = i /\ fpc[f] = "query"}

\* The query slots of an instance are neither lost nor duplicated, on any mixture of
\* answers, database errors and timeouts: at most Slots queries run at once and a
\* slot is always either free or held by a running query.
SlotsConserved ==
    \A i \in Instances : slots[i] + Cardinality(Querying(i)) = Slots

\* An instance has at most one unfinished flight for a product, the registered one:
\* a reader never starts a second fetch while the first still runs, and a finished
\* flight is never left registered.
SingleFlight ==
    \A f \in Readers :
        flights[InstanceOf[f]][ProductOf[f]] = f <=> Unfinished(f)

\* It has the lock token, and its query or its cache write may still be under way.
Rebuilding(f) == populate[f] /\ fpc[f] \in {"slot", "query", "put"}

\* One rebuilder: across all instances at most one flight at a time rebuilds the
\* cache entry of a product, and the lock key holds its token.
OneRebuilder ==
    \A f, g \in Readers :
        Rebuilding(f) /\ Rebuilding(g) /\ ProductOf[f] = ProductOf[g] => f = g

\* What a rebuild can still take before its cache write is over.
RebuildLeft(f) ==
    CASE fpc[f] = "granted" -> timer[f] + SlotTimeout + QueryTimeout + RedisTimeout
      [] fpc[f] = "slot" -> timer[f] + QueryTimeout + RedisTimeout
      [] fpc[f] = "query" -> timer[f] + RedisTimeout
      [] OTHER -> timer[f]

\* The reason for OneRebuilder, when the lock's time to live covers every await of a
\* rebuild: from the SET to the end of the cache write the key holds the flight's
\* token and expires later than the rebuild can last.
LockOutlastsRebuild ==
    \A f \in Readers :
        /\ fpc[f] = "granted" \/ Rebuilding(f) =>
               lock[ProductOf[f]] = f /\ ttl[ProductOf[f]] > RebuildLeft(f)
        /\ fpc[f] = "acquire" => timer[f] <= RedisTimeout

\* A reader is told what the database holds, or that the service is unavailable:
\* never an invalid cache entry, and never the cancellation of another reader that
\* shared its flight and went away.
AnswersTrue ==
    \A r \in Readers :
        rpc[r] = "done" => answer[r] \in {Stored[ProductOf[r]], "unavailable"}

\* What is true of a flight and of a reader at each point of its code.
FlightInv(f) ==
    /\ populate[f] => fpc[f] \in {"slot", "query", "put", "release"}
    /\ fpc[f] = "put" => outcome[f] = Stored[ProductOf[f]]
    /\ fpc[f] \in {"release", "done"} =>
           outcome[f] \in {Stored[ProductOf[f]], "unavailable"}

ReaderInv(r) ==
    /\ rpc[r] \in {"idle", "get", "discard", "join"} => fpc[r] = "none"
    /\ rpc[r] = "wait" =>
           /\ joined[r] \in Readers
           /\ ProductOf[joined[r]] = ProductOf[r]

\* The strengthening of SingleFlight, SlotsConserved and AnswersTrue that every step
\* preserves: what is registered, joined or cached is about the right product.
ReadInvariant ==
    /\ TypeOK
    /\ SingleFlight
    /\ SlotsConserved
    /\ AnswersTrue
    /\ \A i \in Instances, p \in Products :
           flights[i][p] # None =>
               InstanceOf[flights[i][p]] = i /\ ProductOf[flights[i][p]] = p
    /\ \A p \in Products : cache[p] \in Values => cache[p] = Stored[p]
    /\ \A r \in Readers : FlightInv(r) /\ ReaderInv(r)

\* A lock key only changes hands by its owner releasing it or by expiring: a flight
\* whose lock has expired never releases its successor's.
LocksReleasedByOwner ==
    [][\A p \in Products : lock[p] # None /\ lock'[p] # lock[p] =>
          \/ fpc[lock[p]] = "release" /\ fpc'[lock[p]] = "done"
          \/ ttl[p] = 1]_vars

\* Every reader that stays is answered, whatever Redis and PostgreSQL do.
EveryReaderAnswered ==
    \A r \in Readers : rpc[r] = "get" ~> rpc[r] \in {"done", "gone"}

\* A lock whose flight has ended without releasing it (a lost reply, a failed
\* release) is cleared by its expiry.
OrphanLocksExpire ==
    \A f \in Readers : fpc[f] = "done" ~> lock[ProductOf[f]] # f
=============================================================================
