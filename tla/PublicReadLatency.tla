-------------------------- MODULE PublicReadLatency --------------------------
(***************************************************************************)
(* PublicRead with a history variable: how long each unfinished flight has  *)
(* been running, in ticks.                                                  *)
(***************************************************************************)
EXTENDS PublicRead

VARIABLE age

AgedInit == Init /\ age = [f \in Readers |-> 0]
AgedNext ==
    \/ Tick /\ age' = [f \in Readers |-> IF Unfinished(f) THEN age[f] + 1 ELSE 0]
    \/ /\ Instant \/ Quiet
       /\ age' = [f \in Readers |-> IF Unfinished(f)' THEN age[f] ELSE 0]
AgedSpec == AgedInit /\ [][AgedNext]_<<vars, age>>

\* The longest a flight can take, polling included.  An iteration that starts just
\* before the deadline still sleeps, reads and may delete an invalid entry.  A flight
\* that rebuilds spends 2 * RedisTimeout on filling the cache and the release instead.
LongestFlight ==
    RedisTimeout + (WaitBudget + PollInterval + 2 * RedisTimeout)
        + SlotTimeout + QueryTimeout

\* No flight outlives the sum of the budgets on its path, whatever fails or is late:
\* polling for a lock holder's result is cut off by cache_wait_budget_ms.
LatencyBounded == \A f \in Readers : age[f] < LongestFlight

\* Polling goes on until the current iteration is over and, when the deadline has not
\* passed by then, for iterations of which the last starts before the deadline.
PollingLeft(f, iteration) ==
    LET further == (deadline[f] - 1) + PollInterval + 2 * RedisTimeout IN
    IF deadline[f] > 0 /\ further > iteration THEN further ELSE iteration

\* Filling the cache and the release, if the flight is to do them.
Rebuild(f) == IF populate[f] THEN 2 * RedisTimeout ELSE 0

\* The time a flight can still take.
TimeLeft(f) ==
    CASE fpc[f] \in {"acquire", "granted", "denied"} ->
             timer[f] + (WaitBudget + PollInterval + 2 * RedisTimeout - 1)
                 + SlotTimeout + QueryTimeout
      [] fpc[f] = "sleep" ->
             PollingLeft(f, timer[f] + 2 * RedisTimeout) + SlotTimeout + QueryTimeout
      [] fpc[f] = "poll" ->
             PollingLeft(f, timer[f] + RedisTimeout) + SlotTimeout + QueryTimeout
      [] fpc[f] = "drop" -> PollingLeft(f, timer[f]) + SlotTimeout + QueryTimeout
      [] fpc[f] = "slot" -> timer[f] + QueryTimeout + Rebuild(f)
      [] fpc[f] = "query" -> timer[f] + Rebuild(f)
      [] fpc[f] = "put" -> timer[f] + RedisTimeout
      [] OTHER -> timer[f]

\* The strengthening of LatencyBounded that every step preserves: at each await the
\* time spent and the time a flight can still take stay within the bound.
OnSchedule ==
    \A f \in Readers :
        /\ Unfinished(f) => age[f] + TimeLeft(f) < LongestFlight
        /\ ~Unfinished(f) => age[f] = 0
=============================================================================
