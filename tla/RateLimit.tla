------------------------------ MODULE RateLimit ------------------------------
(***************************************************************************)
(* The limit on the public requests of one client address: a Lua script     *)
(* keeps the admitted requests of the last window in a sorted set of Redis  *)
(* (cache.py:28-35, 103-118), and the router lets a request pass when Redis *)
(* does not answer in time (public_router.py:46-71).                        *)
(*                                                                         *)
(* The score of a request is the clock of its instance, read before the     *)
(* script is sent: clocks are up to MaxSkew apart and the script runs up to *)
(* RedisTimeout + Late after.  now is the clock of Redis, by which the key  *)
(* expires.                                                                 *)
(***************************************************************************)
EXTENDS Naturals, FiniteSets

CONSTANTS
    Requests,       \* of one address
    Limit,          \* rate_limit_requests
    Window,         \* rate_limit_window_seconds
    MaxSkew,        \* how far apart two clocks are
    RedisTimeout,   \* redis_timeout_seconds
    Late,           \* how long after its caller gave up Redis may run a script
    LastTick        \* time ends here

ASSUME RateAssumption ==
    /\ {Limit, Window, RedisTimeout} \subseteq Nat \ {0}
    /\ {MaxSkew, Late, LastTick} \subseteq Nat

VARIABLES
    now,
    pc,         \* where each request stands
    sent,       \* when it was sent
    clock,      \* its score: the clock its instance read then
    wire,       \* requests whose script Redis has yet to run
    members,    \* the sorted set: requests, by score
    expires,    \* when the key goes
    at,         \* when the script ran for each request
    admitted,   \* the requests it has ever admitted
    refused     \* and those it has ever refused

request == <<pc, sent, clock>>
redis == <<members, expires>>
history == <<at, admitted, refused>>
vars == <<now, request, wire, redis, history>>

Init ==
    /\ now = 0
    /\ pc = [r \in Requests |-> "idle"]
    /\ sent = [r \in Requests |-> 0]
    /\ clock = [r \in Requests |-> 0]
    /\ wire = {}
    /\ members = {}
    /\ expires = 0
    /\ at = [r \in Requests |-> 0]
    /\ admitted = {}
    /\ refused = {}

Become(r, outcome) == pc' = [pc EXCEPT ![r] = outcome]

\* rate_limit: int(time.time() * 1000), then the script is sent.
Send(r) ==
    /\ pc[r] = "idle"
    /\ Become(r, "waiting")
    /\ sent' = [sent EXCEPT ![r] = now]
    /\ \E current \in now..now + MaxSkew : clock' = [clock EXCEPT ![r] = current]
    /\ wire' = wire \cup {r}
    /\ UNCHANGED <<now, redis, history>>

\* Mutant: the entry exactly one window old is kept.
ExclusiveWindow(r) == {q \in members : clock[q] + Window >= clock[r]}

\* ZREMRANGEBYSCORE 0 current - window: what stays.
InWindow(r) == {q \in members : clock[q] + Window > clock[r]}

Refuse(r) ==
    /\ Cardinality(InWindow(r)) >= Limit
    /\ members' = InWindow(r)
    /\ refused' = refused \cup {r}
    /\ UNCHANGED <<expires, admitted>>

\* Mutant: the request is added before it is counted.
AdmitUncounted(r) ==
    /\ members' = InWindow(r) \cup {r}
    /\ expires' = now + Window
    /\ admitted' = admitted \cup {r}
    /\ UNCHANGED refused

\* Mutant: one request too many.
AdmitOneMore(r) ==
    /\ Cardinality(InWindow(r)) <= Limit
    /\ members' = InWindow(r) \cup {r}
    /\ expires' = now + Window
    /\ admitted' = admitted \cup {r}
    /\ UNCHANGED refused

\* Mutant: the expiry is set when the key is made and never renewed.
AdmitUnrenewed(r) ==
    /\ Cardinality(InWindow(r)) < Limit
    /\ members' = InWindow(r) \cup {r}
    /\ expires' = IF members = {} THEN now + Window ELSE expires
    /\ admitted' = admitted \cup {r}
    /\ UNCHANGED refused

\* ZADD under the score, PEXPIRE of the whole key.
Admit(r) ==
    /\ Cardinality(InWindow(r)) < Limit
    /\ members' = InWindow(r) \cup {r}
    /\ expires' = now + Window
    /\ admitted' = admitted \cup {r}
    /\ UNCHANGED refused

\* RATE_LIMIT_LUA, atomic in Redis; its caller may have given up.
Script(r) ==
    /\ r \in wire
    /\ wire' = wire \ {r}
    /\ at' = [at EXCEPT ![r] = now]
    /\ Refuse(r) \/ Admit(r)
    /\ UNCHANGED <<now, request>>

\* The command never reaches Redis.
Lost(r) ==
    /\ r \in wire
    /\ wire' = wire \ {r}
    /\ UNCHANGED <<now, request, redis, history>>

\* enforce_rate_limit: the answer of the script ...
Answer(r) ==
    /\ pc[r] = "waiting"
    /\ \/ r \in admitted /\ Become(r, "allowed")
       \/ r \in refused /\ Become(r, "rejected")
    /\ UNCHANGED <<now, sent, clock, wire, redis, history>>

\* ... or an exception or a timeout: the request is let through.
FailOpen(r) ==
    /\ pc[r] = "waiting"
    /\ Become(r, "fail_open")
    /\ UNCHANGED <<now, sent, clock, wire, redis, history>>

\* wait_for ends in time; Redis drops the key when it expires.
Tick ==
    /\ now < LastTick
    /\ \A r \in Requests : pc[r] = "waiting" => now < sent[r] + RedisTimeout
    /\ \A r \in wire : now < sent[r] + RedisTimeout + Late
    /\ now' = now + 1
    /\ members' = IF now + 1 < expires THEN members ELSE {}
    /\ UNCHANGED <<request, wire, expires, history>>

Next ==
    \/ Tick
    \/ \E r \in Requests : Send(r) \/ Script(r) \/ Lost(r) \/ Answer(r) \/ FailOpen(r)

Spec == Init /\ [][Next]_vars

-----------------------------------------------------------------------------
(* Properties                                                               *)

\* Every variable has its type, and the sorted set never outgrows the limit.
TypeOK ==
    /\ now \in Nat /\ expires \in Nat
    /\ pc \in [Requests -> {"idle", "waiting", "allowed", "rejected", "fail_open"}]
    /\ sent \in [Requests -> Nat]
    /\ clock \in [Requests -> Nat]
    /\ at \in [Requests -> Nat]
    /\ wire \subseteq Requests
    /\ members \subseteq admitted
    /\ admitted \subseteq Requests /\ IsFiniteSet(admitted)
    /\ refused \subseteq Requests
    /\ Cardinality(members) <= Limit

Delay == RedisTimeout + Late

\* Admitted in the interval of the given length that starts at t.
AdmittedIn(t, length) == {r \in admitted : t <= at[r] /\ at[r] < t + length}

\* The limit holds in real time and not only by the scores: however the clocks differ
\* and the scripts are delayed, no interval shorter than the window by the skew and
\* the delay has more than Limit admitted requests.
WindowBound ==
    \A t \in {at[r] : r \in admitted} :
        \A length \in 0..Window :
            length + MaxSkew + Delay <= Window
                => Cardinality(AdmittedIn(t, length)) <= Limit

\* What the script had admitted when it ran for r, in the window before r was sent.
\* A clock that is ahead makes the window longer by the skew.
CountedAgainst(r) ==
    {q \in admitted : at[q] <= at[r] /\ sent[r] < at[q] + Window + MaxSkew}

\* A client is not turned away for requests older than the window, which is what
\* Retry-After promises it: a request sent a window after a rejection is refused only
\* if Limit others were admitted after that (MaxSkew before that at the earliest).
RejectsJustified == \A r \in refused : Cardinality(CountedAgainst(r)) >= Limit

\* Why: a score is at most Delay behind the time the script ran and MaxSkew ahead of
\* it; a request leaves the sorted set only when it is too old for every later count,
\* and the key outlives its youngest member.
RateInvariant ==
    /\ \A r \in wire : /\ sent[r] <= now /\ now <= sent[r] + Delay
                       /\ sent[r] <= clock[r] /\ clock[r] <= sent[r] + MaxSkew
    /\ wire \cap (admitted \cup refused) = {}
    /\ \A r \in wire \cup admitted \cup refused : pc[r] # "idle"
    /\ \A r \in admitted \cup refused : at[r] <= now
    /\ \A r \in admitted : at[r] <= clock[r] + Delay /\ clock[r] <= at[r] + MaxSkew
    /\ \A r \in admitted : r \in members \/ at[r] + Window <= now + MaxSkew + Delay
    /\ \A r \in members : at[r] + Window <= expires /\ now < expires
=============================================================================
