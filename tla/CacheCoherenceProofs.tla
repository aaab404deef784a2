------------------------- MODULE CacheCoherenceProofs -------------------------
(***************************************************************************)
(* Proofs about CacheCoherence for any number of instances, writes and      *)
(* flights and any timeouts: how old what the public is shown can be, what  *)
(* can appear in the cache, and what an orderly shutdown waits for.         *)
(***************************************************************************)
EXTENDS CacheCoherence, SequenceTheorems, TLAPS

\* The part of TypeOK about the versions.
VersionsTyped == versions \in Seq(Register!Version) /\ Current > 0

\* A step that commits nothing, or a commit: the versions there were are as they were.
Extended ==
    /\ VersionsTyped'
    /\ Current \in Nat /\ Current' \in Nat /\ Current' >= Current
    /\ \A v \in 1..Current : Shelf(v)' = Shelf(v) /\ Age(v)' = Age(v) /\ Age(v) \in Nat
    /\ \A v \in 1..Current' : v > Current => Age(v)' = 0
    /\ Age(Current)' = 0

\* A tick: replaced versions are at most one tick older, in the same order of age.
Grown ==
    /\ VersionsTyped'
    /\ Current \in Nat /\ Current' = Current
    /\ \A v \in 1..Current :
           /\ Shelf(v)' = Shelf(v)
           /\ Age(v) \in Nat /\ Age(v)' \in {Age(v), Age(v) + 1}
    /\ \A u, v \in 1..Current : Age(v) <= Age(u) /\ u <= v => Age(v)' <= Age(u)'
    /\ Age(Current)' = Age(Current)

LEMMA Kept ==
    ASSUME VersionsTyped, Age(Current) = 0, UNCHANGED versions
    PROVE  Extended
<1>1. Len(versions) \in Nat /\ \A v \in 1..Len(versions) : versions[v] \in Register!Version
  BY DEF VersionsTyped
<1>2. QED
  BY <1>1, HorizonAssumption DEF Extended, VersionsTyped, Current, Age, Shelf, Register!Version

LEMMA Appended ==
    ASSUME VersionsTyped, Age(Current) = 0,
           NEW x \in Changed, versions' = Append(versions, x)
    PROVE  Extended
<1> DEFINE n == Len(versions)
<1>1. n \in Nat /\ n > 0 /\ \A v \in 1..n : versions[v] \in Register!Version
  BY DEF VersionsTyped, Current
<1>2. x \in Register!Version /\ x.age = 0
  <2>1. versions[n].shelf \in BOOLEAN /\ versions[n].images \in Nat \ {0}
    BY <1>1 DEF Register!Version
  <2>2. x = [shelf |-> versions[n].shelf, images |-> n + 1, age |-> 0]
        \/ x = [shelf |-> ~versions[n].shelf, images |-> versions[n].images, age |-> 0]
    BY DEF Changed, Current
  <2>3. (~versions[n].shelf) \in BOOLEAN /\ 0 \in 0..Horizon /\ n + 1 \in Nat \ {0}
    BY <1>1, HorizonAssumption
  <2>4. \E b \in BOOLEAN, k \in Nat \ {0} : x = [shelf |-> b, images |-> k, age |-> 0]
    BY <2>1, <2>2, <2>3, Zenon
  <2>5. QED
    BY <2>3, <2>4 DEF Register!Version
<1>3. versions' \in Seq(Register!Version) /\ Len(versions') = n + 1
      /\ versions'[n + 1] = x /\ \A v \in 1..n : versions'[v] = versions[v]
  BY <1>2 DEF VersionsTyped
<1>4. QED
  <2>1. VersionsTyped' /\ Current' = n + 1 /\ Current = n
    BY <1>1, <1>3 DEF VersionsTyped, Current
  <2>2. \A v \in 1..n : Shelf(v)' = Shelf(v) /\ Age(v)' = Age(v) /\ Age(v) \in Nat
    BY <1>1, <1>3, HorizonAssumption DEF Age, Shelf, Register!Version
  <2>3. \A v \in 1..n + 1 : v > n => Age(v)' = 0
    BY <1>1, <1>2, <1>3 DEF Age
  <2>4. Age(Current)' = 0
    BY <1>2, <1>3 DEF Age, Current
  <2>5. QED
    BY <1>1, <2>1, <2>2, <2>3, <2>4 DEF Extended

\* A function on 1..n is a sequence of length n.
LEMMA SequenceOfLength ==
    ASSUME NEW S, NEW n \in Nat, NEW s \in [1..n -> S]
    PROVE  s \in Seq(S) /\ Len(s) = n
<1>1. s \in Seq(S)
  BY SeqDef
<1>2. DOMAIN s = 1..n /\ DOMAIN s = 1..Len(s) /\ Len(s) \in Nat
  BY <1>1, LenProperties
<1>3. Len(s) <= n
  <2>1. CASE Len(s) = 0
    BY <2>1
  <2>2. CASE Len(s) > 0
    <3>1. Len(s) \in 1..Len(s)
      BY <1>2, <2>2
    <3>2. QED
      BY <3>1, <1>2
  <2>3. QED
    BY <1>2, <2>1, <2>2
<1>4. n <= Len(s)
  <2>1. CASE n = 0
    BY <1>2, <2>1
  <2>2. CASE n > 0
    <3>1. n \in 1..n
      BY <2>2
    <3>2. QED
      BY <3>1, <1>2
  <2>3. QED
    BY <2>1, <2>2
<1>5. QED
  BY <1>1, <1>2, <1>3, <1>4

LEMMA Ticked ==
    ASSUME VersionsTyped, Age(Current) = 0,
           versions' = [v \in 1..Current |-> [versions[v] EXCEPT !.age = Register!Older(v)]]
    PROVE  Grown
<1> DEFINE n == Len(versions)
<1>1. n \in Nat /\ n > 0 /\ \A v \in 1..n : versions[v] \in Register!Version
  BY DEF VersionsTyped, Current
<1>2. \A v \in 1..n : Register!Older(v) \in 0..Horizon /\ Register!Older(v) \in {Age(v), Age(v) + 1}
  BY <1>1, HorizonAssumption DEF Register!Older, Register!Current, Register!Version, Age
<1>3. \A v \in 1..n : versions'[v] = [versions[v] EXCEPT !.age = Register!Older(v)]
                      /\ versions'[v] \in Register!Version
  BY <1>1, <1>2 DEF Current, Register!Version
<1>4. versions' \in Seq(Register!Version) /\ Len(versions') = n
  <2>1. versions' = [v \in 1..n |-> versions'[v]]
    BY DEF Current
  <2>2. versions' \in [1..n -> Register!Version]
    BY <2>1, <1>3
  <2>3. n \in Nat
    BY <1>1
  <2> HIDE DEF n
  <2>4. QED
    BY <2>2, <2>3, SequenceOfLength
<1>5. VersionsTyped' /\ Current' = n /\ Current = n
  BY <1>1, <1>4 DEF VersionsTyped, Current
<1>6. \A v \in 1..n : Shelf(v)' = Shelf(v) /\ Age(v)' = Register!Older(v) /\ Age(v) \in Nat
  <2> TAKE v \in 1..n
  <2>1. versions[v] \in Register!Version
    BY <1>1
  <2>2. versions'[v] = [versions[v] EXCEPT !.age = Register!Older(v)]
    BY <1>3
  <2>3. versions'[v].shelf = versions[v].shelf /\ versions'[v].age = Register!Older(v)
        /\ versions[v].age \in Nat
    BY <2>1, <2>2, HorizonAssumption DEF Register!Version
  <2>4. QED
    BY <2>3 DEF Age, Shelf
<1>7. \A v \in 1..n : Age(v)' = IF v < n /\ Age(v) < Horizon THEN Age(v) + 1 ELSE Age(v)
  BY <1>6 DEF Register!Older, Register!Current, Age
<1>8. \A u, v \in 1..n : Age(v) <= Age(u) /\ u <= v => Age(v)' <= Age(u)'
  <2> SUFFICES ASSUME NEW u \in 1..n, NEW v \in 1..n, Age(v) <= Age(u), u <= v
               PROVE  Age(v)' <= Age(u)'
    OBVIOUS
  <2>1. Age(u) \in 0..Horizon /\ Age(v) \in 0..Horizon
    BY <1>1 DEF Age, Register!Version
  <2>2. QED
    BY <2>1, <1>1, <1>7, HorizonAssumption
<1>9. QED
  BY <1>1, <1>2, <1>5, <1>6, <1>7, <1>8 DEF Grown

\* The parts of TypeOK about what each service keeps.
RedisTyped ==
    /\ entry \in SUBSET [row : 1..Current, images : 1..Current, ttl : Nat \ {0}]
    /\ wire \in SUBSET [by : Flights, row : 1..Current, images : 1..Current, left : 0..Late]
    /\ replies \in SUBSET [to : Readers, row : 1..Current, images : 1..Current,
                           left : 0..RedisTimeout]

FlightsTyped ==
    /\ fpc \in [Flights -> {"idle", "row", "images", "result", "put", "release"}]
    /\ timer \in [Flights -> 0..QueryTimeout + RedisTimeout]
    /\ read \in [Flights -> [row : 0..Current, images : 0..Current]]

WritesTyped ==
    /\ wpc \in [Writes -> {"idle", "open", "delete", "done"}]
    /\ tries \in [Writes -> 0..Retries]

InstancesTyped ==
    /\ life \in [Instances -> {"up", "draining", "gathering", "down"}]
    /\ awaited \in [Instances -> SUBSET Writes]

\* What is in Redis or on its way there or back.
RedisFresh ==
    /\ RedisTyped
    /\ \A c \in wire : CommandFresh(c)
    /\ \A e \in entry : EntryFresh(e)
    /\ \A c \in replies : ReplyFresh(c)

Inv == VersionsTyped /\ RedisTyped /\ FlightsTyped /\ StalenessInvariant

LEMMA Numbers ==
    /\ QueryTimeout \in Nat /\ RedisTimeout \in Nat /\ Late \in Nat
    /\ MaxFill = QueryTimeout + RedisTimeout + Late /\ MaxFill \in Nat
    /\ \A shelf \in BOOLEAN :
           /\ LongestTTL(shelf) \in Nat
           /\ TTLs(shelf) \subseteq 1..LongestTTL(shelf)
           /\ MaxAge[shelf] \in Nat
           /\ MaxAge[shelf] = MaxFill + LongestTTL(shelf) + RedisTimeout
           /\ MaxAge[shelf] >= QueryTimeout + 2 * RedisTimeout
<1>1. QueryTimeout \in Nat /\ RedisTimeout \in Nat /\ Late \in Nat /\ Jitter \in Nat
      /\ BaseTTL \in Nat \ {0} /\ NegativeTTL \in Nat \ {0}
  BY TimeAssumption
<1>2. MaxFill = QueryTimeout + RedisTimeout + Late /\ MaxFill \in Nat
  BY <1>1 DEF MaxFill
<1>3. ASSUME NEW shelf \in BOOLEAN
      PROVE  LongestTTL(shelf) \in Nat /\ TTLs(shelf) \subseteq 1..LongestTTL(shelf)
  BY <1>1 DEF LongestTTL, TTLs
<1>4. ASSUME NEW shelf \in BOOLEAN
      PROVE  /\ MaxAge[shelf] \in Nat
             /\ MaxAge[shelf] = MaxFill + LongestTTL(shelf) + RedisTimeout
             /\ MaxAge[shelf] >= QueryTimeout + 2 * RedisTimeout
  BY <1>1, <1>2, <1>3 DEF MaxAge
<1>5. QED
  BY <1>1, <1>2, <1>3, <1>4

LEMMA ShelfTyped ==
    ASSUME VersionsTyped, NEW v \in 1..Current
    PROVE  Shelf(v) \in BOOLEAN
<1>1. versions[v] \in Register!Version
  BY ElementOfSeq DEF VersionsTyped, Current
<1>2. QED
  BY <1>1 DEF Shelf, Register!Version

LEMMA AgeTyped ==
    ASSUME VersionsTyped, NEW v \in 1..Current
    PROVE  Age(v) \in Nat
<1>1. versions[v] \in Register!Version
  BY ElementOfSeq DEF VersionsTyped, Current
<1>2. QED
  BY <1>1, HorizonAssumption DEF Age, Register!Version

\* What a step that leaves a flight, the commands or the entry alone, and lets no time
\* pass, does not make too old.
LEMMA FlightKept ==
    ASSUME Inv, Extended, NEW f \in Flights,
           fpc'[f] = fpc[f], timer'[f] = timer[f], read'[f] = read[f]
    PROVE  ReadingFresh(f)'
BY DEF Inv, StalenessInvariant, Extended, ReadingFresh, Fresh

LEMMA WireKept ==
    ASSUME Inv, Extended, wire' \subseteq wire
    PROVE  /\ wire' \in SUBSET [by : Flights, row : 1..Current, images : 1..Current,
                                left : 0..Late]'
           /\ (\A c \in wire : CommandFresh(c))'
BY DEF Inv, StalenessInvariant, Extended, CommandFresh, Fresh, RedisTyped

LEMMA EntryKept ==
    ASSUME Inv, Extended, entry' \subseteq entry
    PROVE  /\ entry' \in SUBSET [row : 1..Current, images : 1..Current, ttl : Nat \ {0}]'
           /\ (\A e \in entry : EntryFresh(e))'
<1>1. \A e \in entry : e.row \in 1..Current /\ Shelf(e.row)' = Shelf(e.row)
  BY DEF Inv, RedisTyped, Extended
<1>2. ASSUME NEW e \in entry'
      PROVE  EntryFresh(e)'
  <2>1. e \in entry /\ EntryFresh(e)
    BY <1>2 DEF Inv, StalenessInvariant
  <2>2. LongestTTL(Shelf(e.row))' = LongestTTL(Shelf(e.row))
    BY <1>1, <2>1 DEF LongestTTL
  <2>3. QED
    BY <2>1, <2>2 DEF EntryFresh, Fresh, Extended
<1>3. QED
  BY <1>2 DEF Inv, RedisTyped, Extended

LEMMA RepliesKept ==
    ASSUME Inv, Extended, replies' \subseteq replies
    PROVE  /\ replies' \in SUBSET [to : Readers, row : 1..Current, images : 1..Current,
                                   left : 0..RedisTimeout]'
           /\ (\A c \in replies : ReplyFresh(c))'
<1>1. ASSUME NEW c \in replies'
      PROVE  ReplyFresh(c)'
  <2>1. c.row \in 1..Current /\ ReplyFresh(c)
    BY <1>1 DEF Inv, RedisTyped, StalenessInvariant
  <2>2. LongestTTL(Shelf(c.row))' = LongestTTL(Shelf(c.row))
    BY <2>1 DEF LongestTTL, Extended
  <2>3. QED
    BY <2>1, <2>2 DEF ReplyFresh, Fresh, Extended
<1>2. QED
  BY <1>1 DEF Inv, RedisTyped, Extended

\* A put of a reading not older than MaxFill.
LEMMA EntrySet ==
    ASSUME Inv, Extended, NEW row \in 1..Current, NEW images \in 1..Current,
           Age(row) <= MaxFill, Age(images) <= MaxFill,
           NEW ttl \in TTLs(Shelf(row)),
           entry' = {[row |-> row, images |-> images, ttl |-> ttl]}
    PROVE  /\ entry' \in SUBSET [row : 1..Current, images : 1..Current, ttl : Nat \ {0}]'
           /\ (\A e \in entry : EntryFresh(e))'
<1>1. Shelf(row) \in BOOLEAN
  BY ShelfTyped DEF Inv
<1>2. ttl \in 1..LongestTTL(Shelf(row)) /\ LongestTTL(Shelf(row)) \in Nat
  BY <1>1, Numbers
<1>3. Shelf(row)' = Shelf(row) /\ row \in 1..Current' /\ images \in 1..Current'
      /\ Age(row)' <= MaxFill /\ Age(images)' <= MaxFill
      /\ Age(row)' \in Nat /\ Age(images)' \in Nat
  BY DEF Extended
<1>4. QED
  BY <1>2, <1>3, Numbers DEF EntryFresh, Fresh

\* The current version has been read just now.
LEMMA CurrentKnown ==
    ASSUME Inv
    PROVE  Current \in 1..Current /\ Age(Current) = 0
BY LenProperties DEF Inv, VersionsTyped, Current, StalenessInvariant, AgesOrdered

LEMMA AgesKept ==
    ASSUME Inv, Extended
    PROVE  AgesOrdered'
BY DEF Inv, StalenessInvariant, AgesOrdered, Extended

\* The steps that neither read nor fill.
LEMMA AsideStep ==
    ASSUME Inv, Extended, UNCHANGED flight, wire' \subseteq wire, entry' \subseteq entry,
           replies' \subseteq replies
    PROVE  Inv'
<1>1. VersionsTyped' /\ AgesOrdered'
  BY AgesKept DEF Extended
<1>2. RedisFresh'
  BY WireKept, EntryKept, RepliesKept DEF RedisFresh, RedisTyped
<1>3. FlightsTyped'
  BY DEF Inv, FlightsTyped, flight, Extended
<1>4. ASSUME NEW f \in Flights PROVE ReadingFresh(f)'
  BY <1>4, FlightKept DEF flight
<1>5. QED
  BY <1>1, <1>2, <1>3, <1>4 DEF Inv, StalenessInvariant, RedisFresh

\* Redis reads the entry for a get.
LEMMA GetKeeps ==
    ASSUME Inv, NEW r \in Readers, Get(r)
    PROVE  Inv'
<1>1. Extended
  BY Kept DEF Get, Inv, StalenessInvariant, AgesOrdered
<1>2. PICK e \in entry :
          replies' = replies \cup {[to |-> r, row |-> e.row, images |-> e.images,
                                    left |-> RedisTimeout]}
  BY DEF Get
<1> DEFINE reply == [to |-> r, row |-> e.row, images |-> e.images, left |-> RedisTimeout]
<1>3. /\ e.row \in 1..Current /\ e.images \in 1..Current /\ e.ttl \in Nat
      /\ EntryFresh(e)
  BY <1>2 DEF Inv, RedisTyped, StalenessInvariant
<1>4. /\ LongestTTL(Shelf(e.row)) \in Nat
      /\ LongestTTL(Shelf(e.row))' = LongestTTL(Shelf(e.row))
  <2>1. Shelf(e.row) \in BOOLEAN /\ Shelf(e.row)' = Shelf(e.row)
    BY <1>1, <1>3, ShelfTyped DEF Inv, Extended
  <2>2. QED
    BY <2>1, Numbers DEF LongestTTL
<1>5. /\ Age(e.row)' <= MaxFill + LongestTTL(Shelf(e.row))
      /\ Age(e.images)' <= MaxFill + LongestTTL(Shelf(e.row))
  BY <1>1, <1>3, <1>4, Numbers DEF EntryFresh, Fresh, Extended
<1>6. /\ reply \in [to : Readers, row : 1..Current, images : 1..Current,
                    left : 0..RedisTimeout]'
      /\ ReplyFresh(reply)'
  <2>1. /\ reply.to = r /\ reply.row = e.row /\ reply.images = e.images
        /\ reply.left = RedisTimeout
    OBVIOUS
  <2>2. e.row \in 1..Current' /\ e.images \in 1..Current' /\ RedisTimeout \in 0..RedisTimeout
    BY <1>1, <1>3, Numbers DEF Extended
  <2>3. Age(e.row)' \in Nat /\ Age(e.images)' \in Nat
    BY <1>1, <1>3 DEF Extended
  <2>4. LongestTTL(Shelf(reply.row))' = LongestTTL(Shelf(e.row))
    BY <1>4, <2>1 DEF LongestTTL, Shelf
  <2>5. MaxFill + LongestTTL(Shelf(e.row)) + RedisTimeout - RedisTimeout
            = MaxFill + LongestTTL(Shelf(e.row))
    BY <1>4, Numbers
  <2>6. Age(reply.row)' = Age(e.row)' /\ Age(reply.images)' = Age(e.images)'
    BY <2>1 DEF Age
  <2> HIDE DEF reply
  <2>7. ReplyFresh(reply)'
    BY <1>5, <2>1, <2>2, <2>4, <2>5, <2>6 DEF ReplyFresh, Fresh
  <2>8. QED
    BY <2>2, <2>7 DEF reply
<1>7. UNCHANGED <<entry, wire, flight, Current>>
  BY DEF Get, Current
<1>8. RedisFresh'
  <2>1. \A c \in replies : /\ c \in [to : Readers, row : 1..Current, images : 1..Current,
                                     left : 0..RedisTimeout]'
                           /\ ReplyFresh(c)'
    <3>1. ASSUME NEW c \in replies PROVE ReplyFresh(c)'
      <4>1. c.row \in 1..Current /\ ReplyFresh(c)
        BY DEF Inv, RedisTyped, StalenessInvariant
      <4>2. LongestTTL(Shelf(c.row))' = LongestTTL(Shelf(c.row))
        BY <1>1, <4>1 DEF LongestTTL, Extended
      <4>3. QED
        BY <1>1, <4>1, <4>2 DEF ReplyFresh, Fresh, Extended
    <3>2. QED
      BY <1>7, <3>1 DEF Inv, RedisTyped
  <2>2. replies' = replies \cup {reply}
    BY <1>2
  <2> HIDE DEF reply
  <2>3. QED
    BY <1>1, <1>6, <1>7, <2>1, <2>2, WireKept, EntryKept DEF RedisFresh, RedisTyped
<1>9. FlightsTyped'
  BY <1>7 DEF Inv, FlightsTyped, flight
<1>10. ASSUME NEW f \in Flights PROVE ReadingFresh(f)'
  BY <1>1, <1>7, FlightKept DEF flight
<1>11. QED
  BY <1>1, <1>8, <1>9, <1>10, AgesKept DEF Inv, StalenessInvariant, RedisFresh, Extended

LEMMA PutStep ==
    ASSUME Inv, NEW f \in Flights, Put(f)
    PROVE  Inv'
<1>1. Extended
  BY Kept DEF Put, Inv, StalenessInvariant, AgesOrdered
<1>2. PICK row \in 1..Current, images \in 1..Current :
      /\ read[f].row = row /\ read[f].images = images
      /\ Age(row) <= QueryTimeout + RedisTimeout - timer[f]
      /\ Age(images) <= QueryTimeout + RedisTimeout - timer[f]
      /\ timer[f] \in Nat
      /\ Age(row) \in Nat /\ Age(images) \in Nat
  BY <1>1 DEF Put, Inv, StalenessInvariant, ReadingFresh, Fresh, FlightsTyped, Extended
<1>3. Age(row) <= QueryTimeout + RedisTimeout /\ Age(images) <= QueryTimeout + RedisTimeout
      /\ Age(row) <= MaxFill /\ Age(images) <= MaxFill
  BY <1>2, Numbers
<1>4. FlightsTyped' /\ \A g \in Flights : ReadingFresh(g)'
  <2>1. FlightsTyped'
    BY <1>1, Numbers DEF Put, FGoto, Inv, FlightsTyped, Extended
  <2>2. ReadingFresh(f)'
    <3>1. fpc'[f] = "release" /\ timer'[f] = RedisTimeout /\ read'[f] = read[f]
      BY DEF Put, FGoto, Inv, FlightsTyped
    <3>2. QED
      BY <1>1, <1>2, <1>3, <3>1, Numbers DEF ReadingFresh, Fresh, Extended
  <2>3. ASSUME NEW g \in Flights, g # f PROVE ReadingFresh(g)'
    BY <1>1, <2>3, FlightKept DEF Put, FGoto, Inv, FlightsTyped
  <2>4. QED
    BY <2>1, <2>2, <2>3
<1>5. RedisFresh'
  <2>0. UNCHANGED replies
    BY DEF Put
  <2>1. CASE RunSet(read[f]) /\ UNCHANGED wire
    <3>1. PICK ttl \in TTLs(Shelf(row)) :
              entry' = {[row |-> row, images |-> images, ttl |-> ttl]}
      BY <1>2, <2>1 DEF RunSet
    <3>2. QED
      BY <1>1, <1>2, <1>3, <2>0, <2>1, <3>1, EntrySet, WireKept, RepliesKept
      DEF RedisFresh, RedisTyped
  <2>2. CASE UNCHANGED <<entry, wire>>
    BY <1>1, <2>0, <2>2, WireKept, EntryKept, RepliesKept DEF RedisFresh, RedisTyped
  <2>3. CASE /\ wire' = wire \cup {[by |-> f, row |-> row, images |-> images, left |-> Late]}
             /\ UNCHANGED entry
    <3> DEFINE c == [by |-> f, row |-> row, images |-> images, left |-> Late]
    <3>1. c \in [by : Flights, row : 1..Current, images : 1..Current, left : 0..Late]'
          /\ CommandFresh(c)'
      BY <1>1, <1>2, <1>3, Numbers DEF Extended, CommandFresh, Fresh
    <3>2. \A d \in wire : /\ d \in [by : Flights, row : 1..Current, images : 1..Current,
                                   left : 0..Late]'
                          /\ CommandFresh(d)'
      BY <1>1 DEF Inv, RedisTyped, StalenessInvariant, CommandFresh, Fresh, Extended
    <3> HIDE DEF c
    <3>3. wire' = wire \cup {c}
      BY <2>3 DEF c
    <3>4. QED
      BY <1>1, <2>0, <2>3, <3>1, <3>2, <3>3, EntryKept, RepliesKept DEF RedisFresh, RedisTyped
  <2>4. QED
    BY <1>2, <2>1, <2>2, <2>3 DEF Put
<1>6. QED
  BY <1>1, <1>4, <1>5, AgesKept DEF Inv, StalenessInvariant, RedisFresh, Extended

\* A step of one flight that leaves Redis alone.
LEMMA FlightMoves ==
    ASSUME Inv, Extended, UNCHANGED <<entry, wire, replies>>, NEW f \in Flights,
           FlightsTyped', ReadingFresh(f)',
           \A g \in Flights \ {f} : fpc'[g] = fpc[g] /\ timer'[g] = timer[g] /\ read'[g] = read[g]
    PROVE  Inv'
<1>1. VersionsTyped' /\ AgesOrdered'
  BY AgesKept DEF Extended
<1>2. RedisFresh'
  BY WireKept, EntryKept, RepliesKept DEF RedisFresh, RedisTyped
<1>3. ASSUME NEW g \in Flights PROVE ReadingFresh(g)'
  <2>1. CASE g = f
    BY <2>1
  <2>2. CASE g # f
    BY <2>2, FlightKept
  <2>3. QED
    BY <2>1, <2>2
<1>4. QED
  BY <1>1, <1>2, <1>3 DEF Inv, StalenessInvariant, RedisFresh

\* A query that has read one thing or both goes on within its timer.
LEMMA QueryMoves ==
    ASSUME Inv, Extended, UNCHANGED <<versions, entry, wire, replies>>, NEW f \in Flights,
           NEW where \in {"images", "result"}, FGoto(f, where, timer[f]),
           NEW row \in 1..Current, NEW images \in 0..Current,
           read' = [read EXCEPT ![f] = [row |-> row, images |-> images]],
           Age(row) + timer[f] <= QueryTimeout,
           where = "result" => images \in 1..Current /\ Age(images) + timer[f] <= QueryTimeout
    PROVE  Inv'
<1>1. Current' = Current /\ Current \in Nat
      /\ \A v \in 1..Current : Age(v) \in Nat /\ Age(v)' = Age(v)
  BY DEF Extended, Current
<1>2. /\ fpc' = [fpc EXCEPT ![f] = where] /\ timer' = timer
      /\ fpc'[f] = where /\ read'[f] = [row |-> row, images |-> images]
      /\ \A g \in Flights \ {f} : fpc'[g] = fpc[g] /\ timer'[g] = timer[g] /\ read'[g] = read[g]
  BY DEF FGoto, Inv, FlightsTyped
<1>3. FlightsTyped'
  <2>1. [row |-> row, images |-> images] \in [row : 0..Current, images : 0..Current]
    BY <1>1
  <2>2. read' \in [Flights -> [row : 0..Current, images : 0..Current]]
    BY <2>1 DEF Inv, FlightsTyped
  <2>3. fpc' \in [Flights -> {"idle", "row", "images", "result", "put", "release"}]
    BY <1>2 DEF Inv, FlightsTyped
  <2>4. QED
    BY <1>1, <1>2, <2>2, <2>3 DEF Inv, FlightsTyped
<1>4. ReadingFresh(f)'
  <2>1. timer[f] \in Nat
    BY Numbers DEF Inv, FlightsTyped
  <2>2. (read[f].row)' = row /\ (read[f].images)' = images /\ timer'[f] = timer[f]
    BY <1>2
  <2>3. Age(read[f].row)' = Age(row) /\ Age(row) \in Nat
    BY <1>1, <2>2 DEF Age
  <2>4. CASE where = "images"
    BY <1>1, <1>2, <2>2, <2>3, <2>4 DEF ReadingFresh
  <2>5. CASE where = "result"
    <3>1. Age(read[f].images)' = Age(images) /\ Age(images) \in Nat
      BY <1>1, <2>2, <2>5 DEF Age
    <3>2. QED
      BY <1>1, <1>2, <2>1, <2>2, <2>3, <2>5, <3>1, Numbers DEF ReadingFresh, Fresh
  <2>6. QED
    BY <2>4, <2>5
<1>5. QED
  BY <1>2, <1>3, <1>4, FlightMoves

\* What a query returns was current at some moment of it.
LEMMA ResultFresh ==
    ASSUME Inv, NEW f \in Flights, fpc[f] = "result"
    PROVE  \E row, images \in 1..Current :
               /\ read[f] = [row |-> row, images |-> images]
               /\ Age(row) \in Nat /\ Age(images) \in Nat
               /\ Age(row) <= QueryTimeout /\ Age(images) <= QueryTimeout
<1>1. Fresh(read[f], QueryTimeout - timer[f]) /\ timer[f] \in Nat
      /\ read[f] \in [row : 0..Current, images : 0..Current]
  BY Numbers DEF Inv, StalenessInvariant, ReadingFresh, FlightsTyped
<1>2. PICK row \in 1..Current, images \in 1..Current :
          /\ row = read[f].row /\ images = read[f].images
          /\ Age(row) <= QueryTimeout - timer[f] /\ Age(images) <= QueryTimeout - timer[f]
  BY <1>1 DEF Fresh
<1>3. Age(row) \in Nat /\ Age(images) \in Nat
  BY AgeTyped DEF Inv
<1>4. Age(row) <= QueryTimeout /\ Age(images) <= QueryTimeout
  BY <1>1, <1>2, <1>3, Numbers
<1>5. read[f] = [row |-> row, images |-> images]
  BY <1>1, <1>2
<1>6. QED
  BY <1>3, <1>4, <1>5

LEMMA ResultKeeps ==
    ASSUME Inv, Extended, NEW f \in Flights, Result(f)
    PROVE  Inv'
<1>1. PICK row \in 1..Current, images \in 1..Current :
          /\ read[f] = [row |-> row, images |-> images]
          /\ Age(row) \in Nat /\ Age(images) \in Nat
          /\ Age(row) <= QueryTimeout /\ Age(images) <= QueryTimeout
  BY ResultFresh DEF Result
<1>2. Current' = Current /\ Current \in Nat
      /\ \A v \in 1..Current : Age(v) \in Nat /\ Age(v)' = Age(v)
  BY DEF Result, Extended, Current
<1>3. \A g \in Flights \ {f} : fpc'[g] = fpc[g] /\ timer'[g] = timer[g] /\ read'[g] = read[g]
  BY DEF Result, FGoto, Leave, Inv, FlightsTyped
<1>4. FlightsTyped'
  BY <1>2, Numbers DEF Result, FGoto, Leave, Inv, FlightsTyped, Nothing
<1>5. ReadingFresh(f)'
  <2>1. CASE fpc'[f] = "idle"
    BY <2>1 DEF ReadingFresh
  <2>2. CASE fpc'[f] = "put" /\ timer'[f] = RedisTimeout
             /\ read'[f] = [row |-> row, images |-> images]
    <3>1. Age(row)' = Age(row) /\ Age(images)' = Age(images) /\ Current' = Current
      BY <1>2
    <3>2. QED
      BY <1>1, <2>2, <3>1, Numbers DEF ReadingFresh, Fresh
  <2>3. QED
    BY <1>1, <2>1, <2>2 DEF Result, FGoto, Leave, Inv, FlightsTyped
<1>6. QED
  BY <1>3, <1>4, <1>5, FlightMoves DEF Result

LEMMA FlightStepKeeps ==
    ASSUME Inv, NEW f \in Flights, StartQuery(f) \/ FlightStep(f)
    PROVE  Inv'
<1>1. CASE StartQuery(f)
  <2>1. Extended
    BY <1>1, Kept DEF StartQuery, Inv, StalenessInvariant, AgesOrdered
  <2>2. FlightsTyped' /\ fpc'[f] = "row"
    BY <1>1, <2>1, Numbers DEF StartQuery, FGoto, Inv, FlightsTyped, Extended, Current
  <2>3. QED
    BY <1>1, <2>1, <2>2, FlightMoves DEF StartQuery, FGoto, Inv, FlightsTyped, ReadingFresh
<1>2. CASE ReadRow(f)
  <2>1. Extended
    BY <1>2, Kept DEF ReadRow, Inv, StalenessInvariant, AgesOrdered
  <2>2. PICK v \in 1..Current : v = Current /\ Age(v) = 0
    BY CurrentKnown
  <2>3. timer[f] <= QueryTimeout /\ timer[f] \in Nat
    BY <1>2, Numbers DEF ReadRow, Inv, StalenessInvariant, ReadingFresh, FlightsTyped
  <2>4. Age(v) + timer[f] <= QueryTimeout
    BY <2>2, <2>3, Numbers
  <2>5. \/ /\ FGoto(f, "images", timer[f])
           /\ read' = [read EXCEPT ![f] = [row |-> v, images |-> 0]]
        \/ /\ FGoto(f, "result", timer[f])
           /\ read' = [read EXCEPT ![f] = [row |-> v, images |-> v]]
    BY <1>2, <2>2 DEF ReadRow
  <2>6. 0 \in 0..Current /\ v \in 0..Current
    BY <2>2
  <2>7. QED
    BY <1>2, <2>1, <2>4, <2>5, <2>6, QueryMoves DEF ReadRow
<1>3. CASE ReadImages(f)
  <2>1. Extended
    BY <1>3, Kept DEF ReadImages, Inv, StalenessInvariant, AgesOrdered
  <2>2. PICK row \in 1..Current : row = read[f].row /\ Age(row) + timer[f] <= QueryTimeout
    BY <1>3 DEF ReadImages, Inv, StalenessInvariant, ReadingFresh
  <2>3. PICK v \in 1..Current : v = Current /\ Age(v) = 0
    BY CurrentKnown
  <2>4. timer[f] \in Nat /\ Age(row) \in Nat
    BY <2>1, Numbers DEF Inv, FlightsTyped, Extended
  <2>5. Age(v) + timer[f] <= QueryTimeout
    BY <2>2, <2>3, <2>4, Numbers
  <2>6. read' = [read EXCEPT ![f] = [row |-> row, images |-> v]]
    BY <1>3, <2>2, <2>3 DEF ReadImages
  <2>7. v \in 0..Current
    BY <2>3
  <2>8. QED
    BY <1>3, <2>1, <2>2, <2>5, <2>6, <2>7, QueryMoves DEF ReadImages
<1>7. CASE Result(f)
  <2>1. Extended
    BY <1>7, Kept DEF Result, Inv, StalenessInvariant, AgesOrdered
  <2>2. QED
    BY <1>7, <2>1, ResultKeeps
<1>4. CASE QueryFails(f) \/ Release(f)
  <2>1. Extended
    BY <1>4, Kept DEF QueryFails, Release, Inv, StalenessInvariant, AgesOrdered
  <2>2. FlightsTyped' /\ fpc'[f] = "idle"
    <3>1. Current' = Current /\ Current \in Nat
      BY <1>4, <2>1 DEF QueryFails, Release, Current, Extended
    <3>2. Leave(f) /\ 0 \in 0..QueryTimeout + RedisTimeout
          /\ Nothing \in [row : 0..Current, images : 0..Current]
      BY <1>4, <3>1, Numbers DEF QueryFails, Release, Nothing
    <3>3. QED
      BY <3>1, <3>2 DEF Leave, FGoto, Inv, FlightsTyped
  <2>3. QED
    BY <1>4, <2>1, <2>2, FlightMoves
    DEF QueryFails, Release, Leave, FGoto, Inv, FlightsTyped, ReadingFresh
<1>5. CASE Put(f)
  BY <1>5, PutStep
<1>6. QED
  BY <1>1, <1>2, <1>3, <1>4, <1>5, <1>7 DEF FlightStep

LEMMA LateSetKeeps ==
    ASSUME Inv, LateSet
    PROVE  Inv'
<1>1. Extended
  BY Kept DEF LateSet, Inv, StalenessInvariant, AgesOrdered
<1>2. PICK c \in wire : RunSet(c) /\ wire' = wire \ {c}
  BY DEF LateSet
<1>3. /\ c.row \in 1..Current /\ c.images \in 1..Current
      /\ Age(c.row) <= MaxFill /\ Age(c.images) <= MaxFill
  <2>1. c.left \in 0..Late /\ Fresh(c, MaxFill - c.left)
    BY <1>2 DEF Inv, RedisTyped, StalenessInvariant, CommandFresh
  <2>2. Age(c.row) \in Nat /\ Age(c.images) \in Nat
    BY <1>1, <2>1 DEF Fresh, Extended
  <2>3. QED
    BY <2>1, <2>2, Numbers DEF Fresh
<1>4. PICK ttl \in TTLs(Shelf(c.row)) :
          entry' = {[row |-> c.row, images |-> c.images, ttl |-> ttl]}
  BY <1>2 DEF RunSet
<1>5. RedisFresh'
  BY <1>1, <1>2, <1>3, <1>4, EntrySet, WireKept, RepliesKept
  DEF LateSet, RedisFresh, RedisTyped
<1>6. FlightsTyped' /\ \A f \in Flights : ReadingFresh(f)'
  BY <1>1, FlightKept DEF LateSet, Inv, FlightsTyped, flight, Extended
<1>7. QED
  BY <1>1, <1>5, <1>6, AgesKept DEF Inv, StalenessInvariant, RedisFresh, Extended

\* The end of a process ends its flights.
LEMMA FlightsEndKeeps ==
    ASSUME Inv, UNCHANGED <<versions, entry, wire, replies>>, NEW i \in Instances, FlightsEnd(i)
    PROVE  Inv'
<1>1. Extended
  BY Kept DEF Inv, StalenessInvariant, AgesOrdered
<1>2. RedisFresh'
  BY <1>1, WireKept, EntryKept, RepliesKept DEF RedisFresh, RedisTyped
<1>3. FlightsTyped'
  <2>1. Current' = Current /\ Current \in Nat
    BY <1>1 DEF Current, Extended
  <2>2. 0 \in 0..QueryTimeout + RedisTimeout /\ Nothing \in [row : 0..Current, images : 0..Current]
    BY <2>1, Numbers DEF Nothing
  <2>3. QED
    BY <2>1, <2>2 DEF FlightsEnd, Inv, FlightsTyped
<1>4. ASSUME NEW f \in Flights PROVE ReadingFresh(f)'
  <2>1. CASE InstanceOf[f] = i
    BY <2>1 DEF FlightsEnd, ReadingFresh
  <2>2. CASE InstanceOf[f] # i
    BY <1>1, <2>2, FlightKept DEF FlightsEnd
  <2>3. QED
    BY <2>1, <2>2
<1>5. QED
  BY <1>1, <1>2, <1>3, <1>4, AgesKept DEF Inv, StalenessInvariant, RedisFresh, Extended

\* Time costs every reading at most as much as it takes from its timer.
LEMMA TickKeeps ==
    ASSUME Inv, Tick
    PROVE  Inv'
<1>1. Grown
  BY Ticked DEF Tick, Inv, StalenessInvariant, AgesOrdered
<1>2. VersionsTyped' /\ AgesOrdered'
  BY <1>1 DEF Grown, Inv, StalenessInvariant, AgesOrdered
<1>3. FlightsTyped'
  BY <1>1, Numbers DEF Tick, Less, Inv, FlightsTyped, Grown
<1>4. ASSUME NEW f \in Flights PROVE ReadingFresh(f)'
  <2>1. fpc'[f] = fpc[f] /\ read'[f] = read[f] /\ timer[f] \in Nat
        /\ timer'[f] = Less(timer[f]) /\ ReadingFresh(f)
    BY Numbers DEF Tick, Inv, FlightsTyped, StalenessInvariant
  <2>2. CASE fpc[f] = "idle"
    BY <2>1, <2>2 DEF ReadingFresh
  <2>3. CASE fpc[f] # "idle"
    <3>1. timer[f] > 0 /\ timer'[f] = timer[f] - 1
      BY <2>1, <2>3 DEF Tick, Less
    <3>2. CASE fpc[f] \in {"result", "put", "release"}
      <4>1. PICK row \in 1..Current, images \in 1..Current :
                row = read[f].row /\ images = read[f].images
        BY <2>1, <3>2 DEF ReadingFresh, Fresh
      <4>2. Age(row)' \in {Age(row), Age(row) + 1} /\ Age(images)' \in {Age(images), Age(images) + 1}
            /\ Age(row) \in Nat /\ Age(images) \in Nat
        BY <1>1 DEF Grown
      <4>3. (read[f].row)' = row /\ (read[f].images)' = images /\ Current' = Current
        BY <1>1, <2>1, <4>1 DEF Grown
      <4>4. Age(read[f].row)' = Age(row)' /\ Age(read[f].images)' = Age(images)'
            /\ Age(read[f].row) = Age(row) /\ Age(read[f].images) = Age(images)
        BY <4>1, <4>3 DEF Age
      <4>5. QED
        BY <2>1, <3>1, <3>2, <4>2, <4>3, <4>4, Numbers DEF ReadingFresh, Fresh
    <3>3. fpc[f] = "images" => /\ (read[f].row)' \in 1..Current'
                               /\ Age(read[f].row)' + timer'[f] <= QueryTimeout
      <4>1. SUFFICES ASSUME fpc[f] = "images"
                     PROVE  /\ (read[f].row)' \in 1..Current'
                            /\ Age(read[f].row)' + timer'[f] <= QueryTimeout
        OBVIOUS
      <4>2. PICK row \in 1..Current : row = read[f].row /\ Age(row) + timer[f] <= QueryTimeout
        BY <2>1, <4>1 DEF ReadingFresh
      <4>3. Age(row)' \in {Age(row), Age(row) + 1} /\ Age(row) \in Nat
        BY <1>1 DEF Grown
      <4>4. Age(row)' + timer'[f] <= QueryTimeout
        BY <2>1, <3>1, <4>2, <4>3, Numbers
      <4>5. QED
        BY <1>1, <2>1, <4>2, <4>4 DEF Age, Grown
    <3>4. fpc[f] = "row" => timer'[f] <= QueryTimeout
      BY <2>1, <3>1, Numbers DEF ReadingFresh
    <3>5. QED
      BY <2>1, <3>2, <3>3, <3>4 DEF ReadingFresh
  <2>4. QED
    BY <2>2, <2>3
<1>5. ASSUME NEW c \in wire'
      PROVE  /\ c \in [by : Flights, row : 1..Current, images : 1..Current, left : 0..Late]'
             /\ CommandFresh(c)'
  <2>1. PICK d \in wire : c = [d EXCEPT !.left = @ - 1] /\ d.left > 0
    BY <1>5 DEF Tick
  <2>2. d \in [by : Flights, row : 1..Current, images : 1..Current, left : 0..Late]
        /\ Fresh(d, MaxFill - d.left)
    BY <2>1 DEF Inv, RedisTyped, StalenessInvariant, CommandFresh
  <2>3. c.row = d.row /\ c.images = d.images /\ c.left = d.left - 1 /\ c.by = d.by
        /\ c \in [by : Flights, row : 1..Current, images : 1..Current, left : 0..Late]
    BY <2>1, <2>2, Numbers
  <2>4. QED
    BY <1>1, <2>2, <2>3, Numbers DEF CommandFresh, Fresh, Grown
<1>6. ASSUME NEW e \in entry'
      PROVE  /\ e \in [row : 1..Current, images : 1..Current, ttl : Nat \ {0}]'
             /\ EntryFresh(e)'
  <2>1. PICK d \in entry : e = [d EXCEPT !.ttl = @ - 1] /\ d.ttl > 1
    BY <1>6 DEF Tick, Aged
  <2>2. d \in [row : 1..Current, images : 1..Current, ttl : Nat \ {0}] /\ EntryFresh(d)
    BY <2>1 DEF Inv, RedisTyped, StalenessInvariant
  <2>3. e.row = d.row /\ e.images = d.images /\ e.ttl = d.ttl - 1
        /\ e \in [row : 1..Current, images : 1..Current, ttl : Nat \ {0}]
    BY <2>1, <2>2
  <2>4. LongestTTL(Shelf(e.row))' = LongestTTL(Shelf(d.row))
        /\ LongestTTL(Shelf(d.row)) \in Nat
    <3>1. Shelf(e.row)' = Shelf(d.row) /\ Shelf(d.row) \in BOOLEAN
      BY <1>1, <2>2, <2>3, ShelfTyped DEF Grown, Inv
    <3>2. LongestTTL(Shelf(d.row)) \in Nat
      BY <3>1, Numbers
    <3>3. QED
      BY <3>1, <3>2 DEF LongestTTL
  <2>5. QED
    BY <1>1, <2>2, <2>3, <2>4, Numbers DEF EntryFresh, Fresh, Grown
<1>7. ASSUME NEW c \in replies'
      PROVE  /\ c \in [to : Readers, row : 1..Current, images : 1..Current,
                       left : 0..RedisTimeout]'
             /\ ReplyFresh(c)'
  <2>1. PICK d \in replies : c = [d EXCEPT !.left = @ - 1] /\ d.left > 0
    BY <1>7 DEF Tick
  <2>2. /\ d \in [to : Readers, row : 1..Current, images : 1..Current, left : 0..RedisTimeout]
        /\ ReplyFresh(d)
    BY <2>1 DEF Inv, RedisTyped, StalenessInvariant
  <2>3. /\ c.row = d.row /\ c.images = d.images /\ c.left = d.left - 1
        /\ c \in [to : Readers, row : 1..Current, images : 1..Current, left : 0..RedisTimeout]
    BY <2>1, <2>2, Numbers
  <2>4. LongestTTL(Shelf(c.row))' = LongestTTL(Shelf(d.row))
        /\ LongestTTL(Shelf(d.row)) \in Nat
    <3>1. Shelf(c.row)' = Shelf(d.row) /\ Shelf(d.row) \in BOOLEAN
      BY <1>1, <2>2, <2>3, ShelfTyped DEF Grown, Inv
    <3>2. LongestTTL(Shelf(d.row)) \in Nat
      BY <3>1, Numbers
    <3>3. QED
      BY <3>1, <3>2 DEF LongestTTL
  <2>5. QED
    BY <1>1, <2>2, <2>3, <2>4, Numbers DEF ReplyFresh, Fresh, Grown
<1>8. QED
  BY <1>2, <1>3, <1>4, <1>5, <1>6, <1>7 DEF Inv, RedisTyped, StalenessInvariant

LEMMA InitFresh == Init => Inv
<1> SUFFICES ASSUME Init PROVE Inv
  OBVIOUS
<1>1. PICK shelf \in BOOLEAN : versions = <<[shelf |-> shelf, images |-> 1, age |-> 0]>>
  BY DEF Init, Register!Init
<1>2. [shelf |-> shelf, images |-> 1, age |-> 0] \in Register!Version
  BY HorizonAssumption DEF Register!Version
<1>3. VersionsTyped /\ Current = 1 /\ Age(1) = 0
  BY <1>1, <1>2 DEF VersionsTyped, Current, Age
<1>4. RedisTyped /\ FlightsTyped
  BY <1>3, Numbers DEF Init, RedisTyped, FlightsTyped, Nothing
<1>5. StalenessInvariant
  BY <1>3 DEF Init, StalenessInvariant, AgesOrdered, ReadingFresh
<1>6. QED
  BY <1>3, <1>4, <1>5 DEF Inv

LEMMA NextKeeps == Inv /\ [Next]_vars => Inv'
<1> SUFFICES ASSUME Inv, [Next]_vars PROVE Inv'
  OBVIOUS
<1>1. ASSUME UNCHANGED <<versions, flight>>, wire' \subseteq wire, entry' \subseteq entry,
             replies' \subseteq replies
      PROVE  Inv'
  BY <1>1, Kept, AsideStep DEF Inv, StalenessInvariant, AgesOrdered
<1>2. CASE Tick
  BY <1>2, TickKeeps
<1>3. CASE LateSet
  BY <1>3, LateSetKeeps
<1>4. CASE LateDelete
  BY <1>1, <1>4 DEF LateDelete, RunDelete
<1>10. ASSUME NEW r \in Readers, Get(r) \/ Hit(r) \/ GetFails(r)
       PROVE  Inv'
  <2>1. CASE Get(r)
    BY <2>1, GetKeeps
  <2>2. CASE Hit(r) \/ GetFails(r)
    BY <1>1, <2>2 DEF Hit, GetFails
  <2>3. QED
    BY <1>10, <2>1, <2>2
<1>5. ASSUME NEW w \in Writes, Accept(w) \/ WriteStep(w)
      PROVE  Inv'
  <2>1. CASE Commit(w)
    <3>1. PICK v \in Changed : versions' = Append(versions, v)
      BY <2>1 DEF Commit
    <3>2. Extended
      BY <3>1, Appended DEF Inv, StalenessInvariant, AgesOrdered
    <3>3. QED
      BY <2>1, <3>2, AsideStep DEF Commit
  <2>2. CASE Accept(w) \/ Delete(w)
    BY <1>1, <2>2 DEF Accept, Delete, RunDelete
  <2>3. QED
    BY <1>5, <2>1, <2>2 DEF WriteStep
<1>6. ASSUME NEW f \in Flights, StartQuery(f) \/ FlightStep(f)
      PROVE  Inv'
  BY <1>6, FlightStepKeeps
<1>7. ASSUME NEW i \in Instances, Terminate(i) \/ Gather(i) \/ Close(i) \/ Crash(i)
      PROVE  Inv'
  <2>1. CASE Terminate(i) \/ Gather(i)
    BY <1>1, <2>1 DEF Terminate, Gather
  <2>2. CASE Close(i) \/ Crash(i)
    BY <2>2, FlightsEndKeeps DEF Close, Crash
  <2>3. QED
    BY <1>7, <2>1, <2>2
<1>8. CASE UNCHANGED vars
  BY <1>1, <1>8 DEF vars, flight
<1>9. QED
  BY <1>2, <1>3, <1>4, <1>5, <1>6, <1>7, <1>8, <1>10 DEF Next

LEMMA Invariance == Spec => []Inv
<1>1. QED
  BY InitFresh, NextKeeps, PTL DEF Spec

\* At every place where a reading can wait, its age and the time it may still spend
\* there stay within the timeouts and the entry's life (_query_db, put_product,
\* _cache_get).
THEOREM ReadingsStayFresh == Spec => []StalenessInvariant
<1>1. Inv => StalenessInvariant
  BY DEF Inv
<1>2. QED
  BY <1>1, Invariance, PTL

\* No put takes effect with a reading that was replaced more than MaxFill before: a
\* delete later than that ends the staleness for good.
THEOREM NoLateFills == Spec => FillsAreRecent
<1>1. ASSUME Inv, [Next]_vars
      PROVE  [\A e \in entry' : entry' \notin {entry, Aged(entry)} => Age(e.row) <= MaxFill]_vars
  <2> SUFFICES ASSUME NEW e \in entry', entry' \notin {entry, Aged(entry)}
               PROVE  Age(e.row) <= MaxFill
    OBVIOUS
  <2>0. entry' # entry
    OBVIOUS
  <2>1. ASSUME NEW f \in Flights, Put(f) PROVE Age(e.row) <= MaxFill
    <3>1. RunSet(read[f])
      BY <2>0, <2>1 DEF Put
    <3>2. e.row = read[f].row
      BY <3>1 DEF RunSet
    <3>3. fpc[f] = "put" /\ ReadingFresh(f) /\ timer[f] \in Nat
      BY <1>1, <2>1, Numbers DEF Put, Inv, StalenessInvariant, FlightsTyped
    <3>4. read[f].row \in 1..Current /\ Age(read[f].row) <= QueryTimeout + RedisTimeout - timer[f]
      BY <3>3 DEF ReadingFresh, Fresh
    <3>5. Age(read[f].row) \in Nat
      BY <1>1, <3>4, AgeTyped DEF Inv
    <3>6. QED
      BY <3>2, <3>3, <3>4, <3>5, Numbers
  <2>2. CASE LateSet
    <3>1. PICK c \in wire : RunSet(c)
      BY <2>2 DEF LateSet
    <3>2. c.row \in 1..Current /\ Age(c.row) <= MaxFill - c.left /\ c.left \in Nat
      BY <1>1, <3>1, Numbers DEF Inv, RedisTyped, StalenessInvariant, CommandFresh, Fresh
    <3>3. Age(c.row) \in Nat
      BY <1>1, <3>2, AgeTyped DEF Inv
    <3>4. e.row = c.row
      BY <3>1 DEF RunSet
    <3>5. QED
      BY <3>2, <3>3, <3>4, Numbers
  <2>3. entry' # {}
    OBVIOUS
  <2>4. ASSUME NEW w \in Writes, Accept(w) \/ WriteStep(w) PROVE FALSE
    BY <2>3, <2>4 DEF Accept, WriteStep, Commit, Delete, RunDelete
  <2>5. ASSUME NEW f \in Flights, StartQuery(f) \/ FlightStep(f), ~Put(f) PROVE FALSE
    BY <2>5 DEF StartQuery, FlightStep, ReadRow, ReadImages, Result, QueryFails, Release
  <2>6. ASSUME NEW i \in Instances, Terminate(i) \/ Gather(i) \/ Close(i) \/ Crash(i) PROVE FALSE
    BY <2>6 DEF Terminate, Gather, Close, Crash
  <2>7. ~Tick /\ ~LateDelete /\ ~UNCHANGED vars
    BY <2>3 DEF Tick, LateDelete, RunDelete, vars
  <2>8. ASSUME NEW r \in Readers, Get(r) \/ Hit(r) \/ GetFails(r) PROVE FALSE
    BY <2>8 DEF Get, Hit, GetFails
  <2>9. QED
    BY <1>1, <2>1, <2>2, <2>4, <2>5, <2>6, <2>7, <2>8 DEF Next
<1>2. QED
  BY <1>1, Invariance, PTL DEF Spec, FillsAreRecent
-----------------------------------------------------------------------------
(* The refinement.                                                          *)

\* A step that tells a client something tells it something fresh enough.
LEMMA FreshAnswer ==
    ASSUME Inv, UNCHANGED versions,
           NEW row \in 1..Current, NEW images \in 1..Current, NEW limit \in Int,
           Age(row) <= limit, Age(images) <= limit, limit <= MaxAge[Shelf(row)],
           told' = [row |-> row, images |-> images]
    PROVE  Register!Next
<1>1. Age(row) \in Nat /\ Age(images) \in Nat /\ MaxAge[Shelf(row)] \in Nat
  BY AgeTyped, ShelfTyped, Numbers DEF Inv
<1>2. Age(row) <= MaxAge[Shelf(row)] /\ Age(images) <= MaxAge[Shelf(row)]
  BY <1>1
<1>3. Register!Answer
  BY <1>2 DEF Register!Answer, Register!Current, Current, Age, Shelf
<1>4. QED
  BY <1>3 DEF Register!Next

LEMMA SilentStep ==
    ASSUME Silent, UNCHANGED versions
    PROVE  Register!Next
BY DEF Silent, Nothing, Register!Nothing, Register!Next, Register!Silence

\* A reply has waited no longer than the get may take.
LEMMA HitAnswers ==
    ASSUME Inv, NEW r \in Readers, Hit(r)
    PROVE  Register!Next
<1>1. PICK c \in replies : told' = [row |-> c.row, images |-> c.images]
  BY DEF Hit
<1> DEFINE limit == MaxFill + LongestTTL(Shelf(c.row)) + RedisTimeout - c.left
<1>2. /\ c.row \in 1..Current /\ c.images \in 1..Current /\ c.left \in 0..RedisTimeout
      /\ Age(c.row) <= limit /\ Age(c.images) <= limit
  BY <1>1 DEF Inv, RedisTyped, StalenessInvariant, ReplyFresh, Fresh
<1>3. Shelf(c.row) \in BOOLEAN
  BY <1>2, ShelfTyped DEF Inv
<1>4. limit \in Int /\ limit <= MaxAge[Shelf(c.row)]
  BY <1>2, <1>3, Numbers
<1> HIDE DEF limit
<1>5. QED
  BY <1>1, <1>2, <1>4, FreshAnswer DEF Hit

LEMMA ReleaseAnswers ==
    ASSUME Inv, NEW f \in Flights, Release(f)
    PROVE  Register!Next
<1> DEFINE limit == QueryTimeout + 2 * RedisTimeout - timer[f]
<1>1. fpc[f] = "release" /\ timer[f] \in Nat /\ ReadingFresh(f)
      /\ read[f] \in [row : 0..Current, images : 0..Current] /\ told' = read[f]
  BY Numbers DEF Release, Inv, FlightsTyped, StalenessInvariant
<1>2. /\ read[f].row \in 1..Current /\ read[f].images \in 1..Current
      /\ Age(read[f].row) <= limit /\ Age(read[f].images) <= limit
      /\ told' = [row |-> read[f].row, images |-> read[f].images]
  BY <1>1 DEF ReadingFresh, Fresh
<1>3. limit \in Int /\ limit <= MaxAge[Shelf(read[f].row)]
  BY <1>1, <1>2, ShelfTyped, Numbers DEF Inv
<1> HIDE DEF limit
<1>4. QED
  BY <1>2, <1>3, FreshAnswer DEF Release

\* A flight without the lock answers as soon as its query has.
LEMMA ResultAnswers ==
    ASSUME Inv, NEW f \in Flights, Result(f)
    PROVE  Register!Next
<1>1. CASE Silent
  BY <1>1, SilentStep DEF Result
<1>2. CASE told' = read[f]
  <2>1. PICK row \in 1..Current, images \in 1..Current :
            /\ read[f] = [row |-> row, images |-> images]
            /\ Age(row) <= QueryTimeout /\ Age(images) <= QueryTimeout
    BY ResultFresh DEF Result
  <2>2. QueryTimeout \in Int /\ QueryTimeout <= MaxAge[Shelf(row)]
    BY ShelfTyped, Numbers DEF Inv
  <2>3. QED
    BY <1>2, <2>1, <2>2, FreshAnswer DEF Result
<1>3. QED
  BY <1>1, <1>2 DEF Result

LEMMA StepRefines == Inv /\ [Next]_vars => [Register!Next]_<<versions, told>>
<1> SUFFICES ASSUME Inv, [Next]_vars, ~UNCHANGED <<versions, told>>
             PROVE  Register!Next
  OBVIOUS
<1>1. CASE Tick
  BY <1>1 DEF Tick, Silent, Nothing, Current, Register!Next, Register!Tick, Register!Nothing,
              Register!Current
<1>2. ASSUME NEW r \in Readers, Get(r) \/ Hit(r) \/ GetFails(r)
      PROVE  Register!Next
  BY <1>2, HitAnswers, SilentStep DEF Get, GetFails
<1>3. CASE LateSet \/ LateDelete
  BY <1>3, SilentStep DEF LateSet, LateDelete
<1>4. ASSUME NEW w \in Writes, Accept(w) \/ WriteStep(w)
      PROVE  Register!Next
  <2>1. CASE Commit(w)
    <3>1. PICK v \in Changed : versions' = Append(versions, v) /\ told' = Nothing
      BY <2>1 DEF Commit, Silent
    <3>2. versions[Current] \in Register!Version
      BY CurrentKnown, ElementOfSeq DEF Inv, VersionsTyped, Current
    <3>3. versions[Current].shelf \in BOOLEAN /\ (~versions[Current].shelf) \in BOOLEAN
      BY <3>2 DEF Register!Version
    <3>4. \E shelf \in BOOLEAN, images \in {versions[Current].images, Current + 1} :
              v = [shelf |-> shelf, images |-> images, age |-> 0]
      BY <3>3, Zenon DEF Changed
    <3>5. QED
      BY <3>1, <3>4
      DEF Register!Next, Register!Write, Register!Current, Current, Nothing, Register!Nothing
  <2>2. CASE Accept(w) \/ Delete(w)
    BY <2>2, SilentStep DEF Accept, Delete
  <2>3. QED
    BY <1>4, <2>1, <2>2 DEF WriteStep
<1>5. ASSUME NEW f \in Flights, StartQuery(f) \/ FlightStep(f)
      PROVE  Register!Next
  <2>2. CASE Result(f)
    BY <2>2, ResultAnswers
  <2>3. CASE Release(f)
    BY <2>3, ReleaseAnswers
  <2>4. CASE StartQuery(f) \/ ReadRow(f) \/ ReadImages(f) \/ QueryFails(f) \/ Put(f)
    BY <2>4, SilentStep DEF StartQuery, ReadRow, ReadImages, QueryFails, Put
  <2>5. QED
    BY <1>5, <2>2, <2>3, <2>4 DEF FlightStep
<1>6. ASSUME NEW i \in Instances, Terminate(i) \/ Gather(i) \/ Close(i) \/ Crash(i)
      PROVE  Register!Next
  BY <1>6, SilentStep DEF Terminate, Gather, Close, Crash
<1>7. ~UNCHANGED vars
  BY DEF vars
<1>8. QED
  BY <1>1, <1>2, <1>3, <1>4, <1>5, <1>6, <1>7 DEF Next

\* Writes, flights, readers, Redis and crashing processes together implement the abstract
\* register: the public is never shown anything older than MaxAge, the reply to the get
\* included (public_service.py:45-48, :65-76, :132-136).
THEOREM CacheIsStaleRegister == Spec => ImplementsStaleRegister
<1>1. Init => Register!Init
  BY DEF Init
<1>2. QED
  BY <1>1, StepRefines, Invariance, PTL DEF Spec, ImplementsStaleRegister, Register!Spec
-----------------------------------------------------------------------------
(* Types and shutdown.                                                      *)

ToldTyped == told \in Known \cup {Nothing}

LEMMA ToldKept ==
    ASSUME Inv, [Next]_vars, ToldTyped
    PROVE  ToldTyped'
<1>1. CASE UNCHANGED <<versions, told>>
  BY <1>1 DEF ToldTyped, Known, Current, Nothing
<1>2. CASE told' = Nothing
  BY <1>2 DEF ToldTyped, Nothing
<1>3. CASE Register!Answer
  BY <1>3 DEF Register!Answer, Register!Current, ToldTyped, Known, Current
<1>4. QED
  BY <1>1, <1>2, <1>3, StepRefines
  DEF Register!Next, Register!Write, Register!Tick, Register!Silence, Register!Nothing, Nothing

\* An orderly shutdown sees every task there is: once it gathers no handler is left to
\* make another, and the process ends when those gathered are over.
Orderly(i) ==
    /\ life[i] = "gathering" =>
           \A w \in WritesOf(i) : ~Handling(w) /\ (Retrying(w) => w \in awaited[i])
    /\ life[i] = "down" => \A w \in WritesOf(i) : ~Handling(w) /\ ~Retrying(w)

LifeInv == WritesTyped /\ InstancesTyped /\ \A i \in Instances : Orderly(i)

\* A step of one write on a running instance that makes no handler or task of it that
\* was not there before.
LEMMA WriteEnds ==
    ASSUME LifeInv, WritesTyped', UNCHANGED instance, NEW w \in Writes,
           \A x \in Writes \ {w} : wpc'[x] = wpc[x] /\ tries'[x] = tries[x],
           life[InstanceOf[w]] # "down",
           life[InstanceOf[w]] = "gathering" => ~Handling(w)' /\ (Retrying(w)' => Retrying(w))
    PROVE  LifeInv'
<1>1. InstancesTyped'
  BY DEF LifeInv, InstancesTyped, instance
<1>2. ASSUME NEW i \in Instances PROVE Orderly(i)'
  <2>1. life'[i] = life[i] /\ awaited'[i] = awaited[i]
    BY DEF instance
  <2>2. \A x \in WritesOf(i) \ {w} : Handling(x)' = Handling(x) /\ Retrying(x)' = Retrying(x)
    BY DEF Handling, Retrying, WritesOf
  <2>3. w \in WritesOf(i) => InstanceOf[w] = i
    BY DEF WritesOf
  <2>4. Orderly(i)
    BY DEF LifeInv
  <2>5. WritesOf(i)' = WritesOf(i)
    BY DEF WritesOf
  <2>6. life[i] = "gathering" =>
            \A x \in WritesOf(i) : ~Handling(x)' /\ (Retrying(x)' => x \in awaited[i])
    BY <2>2, <2>3, <2>4 DEF Orderly
  <2>7. life[i] = "down" => \A x \in WritesOf(i) : ~Handling(x)' /\ ~Retrying(x)'
    BY <2>2, <2>3, <2>4 DEF Orderly
  <2>8. QED
    BY <2>1, <2>5, <2>6, <2>7 DEF Orderly
<1>3. QED
  BY <1>1, <1>2 DEF LifeInv

LEMMA LifeKept ==
    ASSUME LifeInv, [Next]_vars
    PROVE  LifeInv'
<1>1. ASSUME UNCHANGED <<write, instance>> PROVE LifeInv'
  BY <1>1 DEF LifeInv, WritesTyped, InstancesTyped, Orderly, Handling, Retrying, WritesOf,
              write, instance
<1>2. CASE Tick \/ LateSet \/ LateDelete \/ UNCHANGED vars
  BY <1>1, <1>2 DEF Tick, LateSet, LateDelete, vars, write, instance
<1>9. ASSUME NEW r \in Readers, Get(r) \/ Hit(r) \/ GetFails(r) PROVE LifeInv'
  BY <1>1, <1>9 DEF Get, Hit, GetFails, write, instance
<1>3. ASSUME NEW f \in Flights, StartQuery(f) \/ FlightStep(f) PROVE LifeInv'
  BY <1>1, <1>3
  DEF StartQuery, FlightStep, ReadRow, ReadImages, Result, QueryFails, Put, Release, write, instance
<1>4. ASSUME NEW w \in Writes, Accept(w) \/ WriteStep(w) PROVE LifeInv'
  <2>1. WritesTyped' /\ UNCHANGED instance
        /\ \A x \in Writes \ {w} : wpc'[x] = wpc[x] /\ tries'[x] = tries[x]
    BY <1>4 DEF Accept, WriteStep, Commit, Delete, WGoto, Retry, Retries, LifeInv, WritesTyped,
                instance
  <2>2. life[InstanceOf[w]] # "down"
    BY <1>4 DEF Accept, WriteStep, Runs
  <2>3. ASSUME life[InstanceOf[w]] = "gathering"
        PROVE  ~Handling(w)' /\ (Retrying(w)' => Retrying(w))
    <3>1. ~Handling(w)
      BY <2>3, PlaceAssumption DEF LifeInv, Orderly, WritesOf
    <3>2. Delete(w) /\ tries[w] > 0 /\ wpc[w] = "delete"
      BY <1>4, <2>3, <3>1
      DEF Accept, WriteStep, Commit, Delete, Handling, LifeInv, WritesTyped
    <3>3. (wpc'[w] = "done" /\ tries'[w] = tries[w]) \/ (wpc'[w] = wpc[w] /\ tries'[w] > 0)
      BY <3>2 DEF Delete, WGoto, Retry, Retries, LifeInv, WritesTyped
    <3>4. QED
      BY <3>2, <3>3 DEF Handling, Retrying
  <2>4. QED
    BY <2>1, <2>2, <2>3, WriteEnds
<1>5. ASSUME NEW i \in Instances, Terminate(i) \/ Gather(i) \/ Close(i), NEW j \in Instances
      PROVE  Orderly(j)'
  <2>1. UNCHANGED write /\ Orderly(j)
    BY <1>5 DEF Terminate, Gather, Close, LifeInv
  <2>2. WritesOf(j)' = WritesOf(j)
        /\ \A w \in Writes : Handling(w)' = Handling(w) /\ Retrying(w)' = Retrying(w)
    BY <2>1 DEF WritesOf, Handling, Retrying, write
  <2>3. \A w \in WritesOf(j) : w \in Writes
    BY DEF WritesOf
  <2>4. CASE i # j
    <3>1. life'[j] = life[j] /\ awaited'[j] = awaited[j]
      BY <1>5, <2>4 DEF Terminate, Gather, Close, LifeInv, InstancesTyped
    <3>2. QED
      BY <2>1, <2>2, <2>3, <3>1 DEF Orderly
  <2>5. CASE i = j /\ Terminate(i)
    <3>1. life'[j] = "draining"
      BY <2>5 DEF Terminate, LifeInv, InstancesTyped
    <3>2. QED
      BY <3>1 DEF Orderly
  <2>6. CASE i = j /\ Gather(i)
    <3>1. life'[j] = "gathering" /\ awaited'[j] = {w \in WritesOf(j) : Retrying(w)}
          /\ \A w \in WritesOf(j) : ~Handling(w)
      BY <2>6 DEF Gather, LifeInv, InstancesTyped
    <3>2. QED
      BY <2>2, <2>3, <3>1 DEF Orderly
  <2>7. CASE i = j /\ Close(i)
    <3>1. life[j] = "gathering" /\ life'[j] = "down" /\ \A w \in awaited[j] : ~Retrying(w)
      BY <2>7 DEF Close, LifeInv, InstancesTyped
    <3>2. QED
      BY <2>1, <2>2, <2>3, <3>1 DEF Orderly
  <2>8. QED
    BY <1>5, <2>4, <2>5, <2>6, <2>7
<1>6. ASSUME NEW i \in Instances, Crash(i), NEW j \in Instances
      PROVE  Orderly(j)'
  <2>1. CASE i = j
    <3>1. life'[j] = "up"
      BY <1>6, <2>1 DEF Crash, LifeInv, InstancesTyped
    <3>2. QED
      BY <3>1 DEF Orderly
  <2>2. CASE i # j
    <3>1. life'[j] = life[j] /\ awaited'[j] = awaited[j] /\ tries' = tries /\ Orderly(j)
      BY <1>6, <2>2 DEF Crash, LifeInv, InstancesTyped
    <3>2. \A w \in WritesOf(j) : wpc'[w] = wpc[w]
      BY <1>6, <2>2 DEF Crash, WritesOf
    <3>3. WritesOf(j)' = WritesOf(j)
          /\ \A w \in WritesOf(j) : Handling(w)' = Handling(w) /\ Retrying(w)' = Retrying(w)
      BY <3>1, <3>2 DEF WritesOf, Handling, Retrying
    <3>4. QED
      BY <3>1, <3>3 DEF Orderly
  <2>3. QED
    BY <2>1, <2>2
<1>7. ASSUME NEW i \in Instances, Terminate(i) \/ Gather(i) \/ Close(i) \/ Crash(i)
      PROVE  WritesTyped' /\ InstancesTyped'
  BY <1>7 DEF Terminate, Gather, Close, Crash, write, LifeInv, WritesTyped, InstancesTyped,
              WritesOf, Handling, Retrying
<1>8. QED
  BY <1>2, <1>3, <1>4, <1>5, <1>6, <1>7, <1>9 DEF Next, LifeInv

LEMMA LifeInvariance == Spec => []LifeInv
<1>1. Init => LifeInv
  BY DEF Init, LifeInv, WritesTyped, InstancesTyped, Orderly, Retries
<1>2. QED
  BY <1>1, LifeKept, PTL DEF Spec

\* A process that shuts down in order (main.py:54-60) cuts no handler and no retry of a
\* delete short.
THEOREM ShutdownIsOrderly == Spec => []ShutdownLosesNothing
<1>1. LifeInv => ShutdownLosesNothing
  BY PlaceAssumption DEF LifeInv, Orderly, WritesOf, ShutdownLosesNothing
<1>2. QED
  BY <1>1, LifeInvariance, PTL

\* Every variable keeps its type.
THEOREM TypeCorrect == Spec => []TypeOK
<1>1. Init => ToldTyped
  BY DEF Init, Register!Init, Register!Nothing, ToldTyped, Nothing
<1>2. Inv /\ LifeInv /\ ToldTyped => TypeOK
  BY DEF Inv, LifeInv, ToldTyped, TypeOK, VersionsTyped, RedisTyped, FlightsTyped, WritesTyped,
         InstancesTyped
<1>3. QED
  BY <1>1, <1>2, ToldKept, Invariance, LifeInvariance, PTL DEF Spec
=============================================================================
