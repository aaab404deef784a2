---------------------------- MODULE CacheCoherence ----------------------------
(***************************************************************************)
(* One product, its row and images in PostgreSQL and its entry in Redis,    *)
(* between the admin writes that delete the entry after their commit        *)
(* (service.py:85-104), the flights of public reads that fill it            *)
(* (public_service.py, cache.py) and the life of the instances they run on  *)
(* (main.py:54-60).  ProductWrites and PublicRead model the two services in *)
(* full; here are the steps of both that bear on how old an answer can be.  *)
(*                                                                         *)
(* Time is discrete.  An await of a flight, or of a reader for the entry,   *)
(* ends before its timer runs out; time passes only while every such await  *)
(* has time left.  How long the deletes take is left open: nothing here     *)
(* depends on it.  A caller that gives a Redis command up does not stop it: *)
(* Redis may still run it, a put at most Late ticks after.  The rebuild lock*)
(* is left out: it may expire under its holder, so any number of flights    *)
(* may fill the entry.                                                      *)
(***************************************************************************)
EXTENDS Naturals, Sequences, FiniteSets

CONSTANTS
    Instances,      \* application processes
    Writes,         \* admin requests that change the product
    Flights,        \* fetch tasks; one that has ended stands for the next
    InstanceOf,     \* where each runs
    Readers,        \* readers of the entry: a public request, or a flight that polls
    QueryTimeout,   \* db_query_timeout_ms, over both statements of the query
    RedisTimeout,   \* redis_timeout_seconds, for the get, the put and the release
    Late,           \* how long after its caller gave up Redis may run a command
    BaseTTL, Jitter, NegativeTTL, \* of entries
    Stopping,       \* bound: where flights may stand when an instance is told to stop
    Horizon         \* bound: ages are counted up to here

ASSUME PlaceAssumption == InstanceOf \in [Writes \cup Flights -> Instances]
ASSUME TimeAssumption ==
    /\ {QueryTimeout, RedisTimeout, BaseTTL, NegativeTTL} \subseteq Nat \ {0}
    /\ {Late, Jitter} \subseteq Nat

\* _retry_invalidation: for _attempt in range(2).
Retries == 2

\* Mutant: put_missing uses the time to live of products.
OneTTL(shelf) == BaseTTL..BaseTTL + Jitter

\* ex=...: put_product adds a jitter, put_missing does not.
TTLs(shelf) == IF shelf THEN BaseTTL..BaseTTL + Jitter ELSE {NegativeTTL}
LongestTTL(shelf) == IF shelf THEN BaseTTL + Jitter ELSE NegativeTTL

\* How old what a flight read may be when Redis puts it in the cache.
MaxFill == QueryTimeout + RedisTimeout + Late

\* How old an answer may be: the entry may be about to expire when Redis reads it for a
\* get, and the reply may take as long as the get may.
MaxAge == [shelf \in BOOLEAN |-> MaxFill + LongestTTL(shelf) + RedisTimeout]

ASSUME HorizonAssumption == Horizon \in Nat /\ \A shelf \in BOOLEAN : MaxAge[shelf] < Horizon

VARIABLES
    versions,   \* the committed versions of the product (StaleRegister)
    told,       \* what the answer given in this step was made of
    entry,      \* the cache entry, if any: the versions it was made of, ticks left
    wire,       \* puts given up by their flights that Redis may still run
    replies,    \* what Redis has read for a get and not yet brought to its reader
    wpc,        \* where each write stands
    tries,      \* the deletes it has given up on
    fpc,        \* where each flight stands
    timer,      \* what is left of the timeout of its current await
    read,       \* the versions of row and images it has read
    life,       \* each instance: up, draining, gathering or down
    awaited     \* the invalidation tasks its shutdown waits for

write == <<wpc, tries>>
flight == <<fpc, timer, read>>
instance == <<life, awaited>>
vars == <<versions, told, entry, wire, replies, write, flight, instance>>

Register == INSTANCE StaleRegister

Nothing == [row |-> 0, images |-> 0]

Init ==
    /\ Register!Init
    /\ entry = {}
    /\ wire = {}
    /\ replies = {}
    /\ wpc = [w \in Writes |-> "idle"]
    /\ tries = [w \in Writes |-> 0]
    /\ fpc = [f \in Flights |-> "idle"]
    /\ timer = [f \in Flights |-> 0]
    /\ read = [f \in Flights |-> Nothing]
    /\ life = [i \in Instances |-> "up"]
    /\ awaited = [i \in Instances |-> {}]

\* A step that answers nobody.
Silent == told' = Nothing

Current == Len(versions)
Shelf(v) == versions[v].shelf
Age(v) == versions[v].age
Runs(i) == life[i] # "down"
-----------------------------------------------------------------------------
(* Redis.                                                                   *)

RunSet(c) ==
    \E ttl \in TTLs(Shelf(c.row)) :
        entry' = {[row |-> c.row, images |-> c.images, ttl |-> ttl]}

RunDelete == entry' = {}

\* A put its caller has given up on, run by Redis all the same.
LateSet ==
    \E c \in wire :
        /\ RunSet(c)
        /\ wire' = wire \ {c}
        /\ Silent
        /\ UNCHANGED <<versions, replies, write, flight, instance>>

\* A delete its caller has given up on; it does no harm however late it is.
LateDelete ==
    /\ \E w \in Writes : tries[w] > 0
    /\ RunDelete
    /\ Silent
    /\ UNCHANGED <<versions, wire, replies, write, flight, instance>>

\* Redis finds the entry for a get (detail, or the poll of _load).
Get(r) ==
    /\ \A reply \in replies : reply.to # r
    /\ \E e \in entry :
           replies' = replies \cup {[to |-> r, row |-> e.row, images |-> e.images,
                                     left |-> RedisTimeout]}
    /\ Silent
    /\ UNCHANGED <<versions, entry, wire, write, flight, instance>>

\* The reply comes in time and answers the request, whatever became of the entry.
Hit(r) ==
    /\ \E reply \in replies :
           /\ reply.to = r
           /\ told' = [row |-> reply.row, images |-> reply.images]
           /\ replies' = replies \ {reply}
    /\ UNCHANGED <<versions, entry, wire, write, flight, instance>>

\* The get times out or fails, or its request ends: nothing is told of what was read.
GetFails(r) ==
    /\ \E reply \in replies : reply.to = r /\ replies' = replies \ {reply}
    /\ Silent
    /\ UNCHANGED <<versions, entry, wire, write, flight, instance>>
-----------------------------------------------------------------------------
(* Writes: the end of a handler, _invalidate and _retry_invalidation.       *)

WGoto(w, where) == wpc' = [wpc EXCEPT ![w] = where]

Accept(w) ==
    /\ wpc[w] = "idle"
    /\ life[InstanceOf[w]] = "up"
    /\ WGoto(w, "open")
    /\ Silent
    /\ UNCHANGED <<versions, entry, wire, replies, tries, flight, instance>>

\* An edit stores new images; a status change, or the creation of a product nobody
\* could see before, changes what the public finds and keeps the rest.
Changed ==
    LET v == versions[Current] IN
    {[shelf |-> v.shelf, images |-> Current + 1, age |-> 0],
     [shelf |-> ~v.shelf, images |-> v.images, age |-> 0]}

\* The commit; when its reply is lost the handler raises and no delete is tried.
Commit(w) ==
    /\ wpc[w] = "open"
    /\ \E v \in Changed : versions' = Append(versions, v)
    /\ WGoto(w, "delete") \/ WGoto(w, "done")
    /\ Silent
    /\ UNCHANGED <<entry, wire, replies, tries, flight, instance>>

\* Mutant: one attempt too many.
RetryOnceMore(w) ==
    IF tries[w] <= Retries
    THEN UNCHANGED wpc /\ tries' = [tries EXCEPT ![w] = @ + 1]
    ELSE WGoto(w, "done") /\ UNCHANGED tries

\* A delete failed or timed out: the first time a task is made, then it loops.
Retry(w) ==
    IF tries[w] < Retries
    THEN UNCHANGED wpc /\ tries' = [tries EXCEPT ![w] = @ + 1]
    ELSE WGoto(w, "done") /\ UNCHANGED tries

Delete(w) ==
    /\ wpc[w] = "delete"
    /\ \/ RunDelete /\ WGoto(w, "done") /\ UNCHANGED tries
       \/ (RunDelete \/ UNCHANGED entry) /\ Retry(w)
    /\ Silent
    /\ UNCHANGED <<versions, wire, replies, flight, instance>>

WriteStep(w) == Runs(InstanceOf[w]) /\ (Commit(w) \/ Delete(w))
-----------------------------------------------------------------------------
(* Flights: _query_db with get_public, the put and the release.             *)

FGoto(f, where, limit) ==
    /\ fpc' = [fpc EXCEPT ![f] = where]
    /\ timer' = [timer EXCEPT ![f] = limit]

\* Mutant: the query may take its timeout and the one of Redis.
StartQuerySlow(f) ==
    /\ fpc[f] = "idle"
    /\ \A c \in wire : c.by # f
    /\ life[InstanceOf[f]] = "up"
    /\ FGoto(f, "row", QueryTimeout + RedisTimeout)
    /\ Silent
    /\ UNCHANGED <<versions, entry, wire, replies, write, read, instance>>

\* One timer over both statements.
StartQuery(f) ==
    /\ fpc[f] = "idle"
    /\ \A c \in wire : c.by # f
    /\ life[InstanceOf[f]] = "up"
    /\ FGoto(f, "row", QueryTimeout)
    /\ Silent
    /\ UNCHANGED <<versions, entry, wire, replies, write, read, instance>>

\* The query failed or timed out, a 503; or the flight's readers have their answer.
Leave(f) ==
    /\ FGoto(f, "idle", 0)
    /\ read' = [read EXCEPT ![f] = Nothing]

\* The first statement: the row if it is on shelf.  Nothing else is read if it is not.
ReadRow(f) ==
    /\ fpc[f] = "row"
    /\ \/ /\ Shelf(Current)
          /\ FGoto(f, "images", timer[f])
          /\ read' = [read EXCEPT ![f] = [row |-> Current, images |-> 0]]
       \/ /\ ~Shelf(Current)
          /\ FGoto(f, "result", timer[f])
          /\ read' = [read EXCEPT ![f] = [row |-> Current, images |-> Current]]
    /\ Silent
    /\ UNCHANGED <<versions, entry, wire, replies, write, instance>>

\* The second statement (selectinload): the images as committed by now.
ReadImages(f) ==
    /\ fpc[f] = "images"
    /\ FGoto(f, "result", timer[f])
    /\ read' = [read EXCEPT ![f] = [row |-> read[f].row, images |-> Current]]
    /\ Silent
    /\ UNCHANGED <<versions, entry, wire, replies, write, instance>>

\* Mutant: the put is tried twice, each time with the full timeout.
ResultPutTwice(f) ==
    /\ fpc[f] = "result"
    /\ \/ FGoto(f, "put", 2 * RedisTimeout) /\ Silent /\ UNCHANGED read
       \/ told' = read[f] /\ Leave(f)
    /\ UNCHANGED <<versions, entry, wire, replies, write, instance>>

\* The result is back in time.  With the lock's token the flight fills the cache first.
Result(f) ==
    /\ fpc[f] = "result"
    /\ \/ FGoto(f, "put", RedisTimeout) /\ Silent /\ UNCHANGED read
       \/ told' = read[f] /\ Leave(f)
    /\ UNCHANGED <<versions, entry, wire, replies, write, instance>>

QueryFails(f) ==
    /\ fpc[f] \in {"row", "images", "result"}
    /\ Leave(f)
    /\ Silent
    /\ UNCHANGED <<versions, entry, wire, replies, write, instance>>

\* Redis sets the key before the caller's timeout, later, or never.
Put(f) ==
    /\ fpc[f] = "put"
    /\ \/ RunSet(read[f]) /\ UNCHANGED wire
       \/ UNCHANGED <<entry, wire>>
       \/ /\ wire' = wire \cup {[by |-> f, row |-> read[f].row, images |-> read[f].images,
                                   left |-> Late]}
          /\ UNCHANGED entry
    /\ FGoto(f, "release", RedisTimeout)
    /\ Silent
    /\ UNCHANGED <<versions, replies, write, read, instance>>

\* After the release of the lock the readers of the flight are answered.
Release(f) ==
    /\ fpc[f] = "release"
    /\ told' = read[f]
    /\ Leave(f)
    /\ UNCHANGED <<versions, entry, wire, replies, write, instance>>

FlightStep(f) ==
    /\ Runs(InstanceOf[f])
    /\ ReadRow(f) \/ ReadImages(f) \/ Result(f) \/ QueryFails(f) \/ Put(f) \/ Release(f)
-----------------------------------------------------------------------------
(* Instances and time.                                                      *)

WritesOf(i) == {w \in Writes : InstanceOf[w] = i}

\* The handler is not over: uvicorn waits for it before it ends the lifespan.
Handling(w) == wpc[w] = "open" \/ (wpc[w] = "delete" /\ tries[w] = 0)

\* A task of _INVALIDATION_TASKS.
Retrying(w) == wpc[w] = "delete" /\ tries[w] > 0

Terminate(i) ==
    /\ life[i] = "up"
    /\ \A f \in Flights : fpc[f] \in Stopping
    /\ life' = [life EXCEPT ![i] = "draining"]
    /\ Silent
    /\ UNCHANGED <<versions, entry, wire, replies, write, flight, awaited>>

\* Mutant: the tasks are gathered when the signal comes, with handlers still running.
GatherAtOnce(i) ==
    /\ life[i] = "draining"
    /\ life' = [life EXCEPT ![i] = "gathering"]
    /\ awaited' = [awaited EXCEPT ![i] = {w \in WritesOf(i) : Retrying(w)}]
    /\ Silent
    /\ UNCHANGED <<versions, entry, wire, replies, write, flight>>

\* The lifespan ends: gather(*tuple(_INVALIDATION_TASKS)).
Gather(i) ==
    /\ life[i] = "draining"
    /\ \A w \in WritesOf(i) : ~Handling(w)
    /\ life' = [life EXCEPT ![i] = "gathering"]
    /\ awaited' = [awaited EXCEPT ![i] = {w \in WritesOf(i) : Retrying(w)}]
    /\ Silent
    /\ UNCHANGED <<versions, entry, wire, replies, write, flight>>

\* The flights of instance i are gone with its memory.
FlightsEnd(i) ==
    /\ fpc' = [f \in Flights |-> IF InstanceOf[f] = i THEN "idle" ELSE fpc[f]]
    /\ timer' = [f \in Flights |-> IF InstanceOf[f] = i THEN 0 ELSE timer[f]]
    /\ read' = [f \in Flights |-> IF InstanceOf[f] = i THEN Nothing ELSE read[f]]

\* Every task gathered is over: redis.aclose(), and the process ends.
Close(i) ==
    /\ life[i] = "gathering"
    /\ \A w \in awaited[i] : ~Retrying(w)
    /\ life' = [life EXCEPT ![i] = "down"]
    /\ FlightsEnd(i)
    /\ Silent
    /\ UNCHANGED <<versions, entry, wire, replies, write, awaited>>

\* The process dies and is started again.
Crash(i) ==
    LET dies(w) == InstanceOf[w] = i /\ (Handling(w) \/ Retrying(w)) IN
    /\ life[i] # "down"
    /\ life' = [life EXCEPT ![i] = "up"]
    /\ awaited' = [awaited EXCEPT ![i] = {}]
    /\ wpc' = [w \in Writes |-> IF dies(w) THEN "done" ELSE wpc[w]]
    /\ FlightsEnd(i)
    /\ Silent
    /\ UNCHANGED <<versions, entry, wire, replies, tries>>

Less(n) == IF n > 0 THEN n - 1 ELSE 0

\* One tick later the entry has expired or has one tick less to live.
Aged(es) == {[e EXCEPT !.ttl = @ - 1] : e \in {e \in es : e.ttl > 1}}

Tick ==
    /\ \A f \in Flights : fpc[f] # "idle" => timer[f] > 0
    /\ \A c \in wire \cup replies : c.left > 0
    /\ versions' = [v \in 1..Current |-> [versions[v] EXCEPT !.age = Register!Older(v)]]
    /\ entry' = Aged(entry)
    /\ wire' = {[c EXCEPT !.left = @ - 1] : c \in wire}
    /\ replies' = {[c EXCEPT !.left = @ - 1] : c \in replies}
    /\ timer' = [f \in Flights |-> Less(timer[f])]
    /\ Silent
    /\ UNCHANGED <<wpc, tries, fpc, read, instance>>

Next ==
    \/ Tick \/ LateSet \/ LateDelete
    \/ \E r \in Readers : Get(r) \/ Hit(r) \/ GetFails(r)
    \/ \E w \in Writes : Accept(w) \/ WriteStep(w)
    \/ \E f \in Flights : StartQuery(f) \/ FlightStep(f)
    \/ \E i \in Instances : Terminate(i) \/ Gather(i) \/ Close(i) \/ Crash(i)

Spec == Init /\ [][Next]_vars

-----------------------------------------------------------------------------
(* Properties                                                               *)

Known == [row : 1..Current, images : 1..Current]

\* Every variable has its type, and no counter exceeds what it counts.
TypeOK ==
    /\ versions \in Seq(Register!Version) /\ Current > 0
    /\ told \in Known \cup {Nothing}
    /\ entry \in SUBSET [row : 1..Current, images : 1..Current, ttl : Nat \ {0}]
    /\ wire \in SUBSET [by : Flights, row : 1..Current, images : 1..Current, left : 0..Late]
    /\ replies \in SUBSET [to : Readers, row : 1..Current, images : 1..Current,
                           left : 0..RedisTimeout]
    /\ wpc \in [Writes -> {"idle", "open", "delete", "done"}]
    /\ tries \in [Writes -> 0..Retries]
    /\ fpc \in [Flights -> {"idle", "row", "images", "result", "put", "release"}]
    /\ timer \in [Flights -> 0..QueryTimeout + RedisTimeout]
    /\ read \in [Flights -> [row : 0..Current, images : 0..Current]]
    /\ life \in [Instances -> {"up", "draining", "gathering", "down"}]
    /\ awaited \in [Instances -> SUBSET Writes]

\* What was read is at most limit old, counting the time it can still wait.
Fresh(c, limit) == c.row \in 1..Current /\ c.images \in 1..Current
                   /\ Age(c.row) <= limit /\ Age(c.images) <= limit

\* The current version has no age, and an older version is the older in ticks too.
AgesOrdered ==
    /\ Age(Current) = 0
    /\ \A u, v \in 1..Current : u <= v => Age(v) <= Age(u)

ReadingFresh(f) ==
    /\ fpc[f] = "row" => timer[f] <= QueryTimeout
    /\ fpc[f] = "images" => /\ read[f].row \in 1..Current
                            /\ Age(read[f].row) + timer[f] <= QueryTimeout
    /\ fpc[f] = "result" => Fresh(read[f], QueryTimeout - timer[f])
    /\ fpc[f] = "put" => Fresh(read[f], QueryTimeout + RedisTimeout - timer[f])
    /\ fpc[f] = "release" => Fresh(read[f], QueryTimeout + 2 * RedisTimeout - timer[f])

CommandFresh(c) == Fresh(c, MaxFill - c.left)
EntryFresh(e) == Fresh(e, MaxFill + LongestTTL(Shelf(e.row)) - e.ttl)
ReplyFresh(c) == Fresh(c, MaxFill + LongestTTL(Shelf(c.row)) + RedisTimeout - c.left)

\* Why no answer is too old: at every place where a reading can wait (a flight, a
\* command Redis has yet to run, the entry, the reply to a get) its age and the time it
\* may still spend there stay within the sum of the timeouts and the entry's life.
StalenessInvariant ==
    /\ AgesOrdered
    /\ \A f \in Flights : ReadingFresh(f)
    /\ \A c \in wire : CommandFresh(c)
    /\ \A e \in entry : EntryFresh(e)
    /\ \A c \in replies : ReplyFresh(c)

\* Whatever is lost, late or crashes, the public is never shown a row or images that
\* were replaced longer ago than the query, the put, the entry's life and a get take: the
\* bound the design relies on when a delete fails or a reader overtakes it.
ImplementsStaleRegister == Register!Spec

\* A delete that comes later than that ends the staleness for good: what appears in
\* the cache was never replaced more than MaxFill before.
FillsAreRecent ==
    [][\A e \in entry' : entry' \notin {entry, Aged(entry)} => Age(e.row) <= MaxFill]_vars

\* An orderly shutdown cuts no invalidation short: when the process ends none of its
\* handlers and no retry of a delete is left.  (A write whose COMMIT lost its reply never
\* tried one, shutdown or not.)
ShutdownLosesNothing ==
    \A w \in Writes : life[InstanceOf[w]] = "down" => ~Handling(w) /\ ~Retrying(w)

\* "Redis keeps a snapshot of the public product detail"
\* (docs/superpowers/specs/2026-08-21-product-management-design.md:39): the images of
\* an entry are those its row's version was stored with.
EntriesAreSnapshots ==
    \A e \in entry :
        Shelf(e.row) => versions[e.images].images = versions[e.row].images
=============================================================================
