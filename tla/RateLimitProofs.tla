---------------------------- MODULE RateLimitProofs ----------------------------
(***************************************************************************)
(* Proofs about RateLimit for every set of requests, limit, window, skew    *)
(* and delay.                                                               *)
(***************************************************************************)
EXTENDS RateLimit, FiniteSetTheorems, TLAPS

IInv == TypeOK /\ RateInvariant

\* WindowBound for intervals that start anywhere.
EveryWindow ==
    \A t \in Nat, length \in 0..Window :
        length + MaxSkew + Delay <= Window => Cardinality(AdmittedIn(t, length)) <= Limit

\* What the script keeps is a part of the sorted set, hence finite and within the limit.
LEMMA WindowFinite ==
    ASSUME TypeOK, NEW r \in Requests
    PROVE  /\ InWindow(r) \subseteq members
           /\ IsFiniteSet(InWindow(r))
           /\ Cardinality(InWindow(r)) \in Nat
           /\ Cardinality(InWindow(r)) <= Limit
<1>1. InWindow(r) \subseteq members BY DEF InWindow
<1>2. IsFiniteSet(members) BY FS_Subset DEF TypeOK
<1>3. /\ IsFiniteSet(InWindow(r))
      /\ Cardinality(InWindow(r)) <= Cardinality(members)
  BY <1>1, <1>2, FS_Subset
<1>4. Cardinality(members) \in Nat /\ Cardinality(InWindow(r)) \in Nat
  BY <1>2, <1>3, FS_CardinalityType
<1> QED BY <1>1, <1>3, <1>4, RateAssumption DEF TypeOK

\* One member more than a set with less than Limit is within the limit.
LEMMA OneMore ==
    ASSUME NEW S, IsFiniteSet(S), Cardinality(S) < Limit, NEW x
    PROVE  IsFiniteSet(S \cup {x}) /\ Cardinality(S \cup {x}) <= Limit
<1>1. Cardinality(S) \in Nat BY FS_CardinalityType
<1> QED BY <1>1, FS_AddElement, RateAssumption

LEMMA TypeInit == Init => TypeOK
<1>1. IsFiniteSet({}) /\ Cardinality({}) = 0 BY FS_EmptySet
<1> QED BY <1>1, RateAssumption DEF Init, TypeOK

LEMMA TypeStep == TypeOK /\ [Next]_vars => TypeOK'
<1> SUFFICES ASSUME TypeOK, [Next]_vars PROVE TypeOK' OBVIOUS
<1> USE RateAssumption
<1>1. CASE UNCHANGED vars
  BY <1>1 DEF TypeOK, vars, request, redis, history
<1>2. CASE Tick
  <2>1. Cardinality(members') <= Limit /\ members' \subseteq admitted
    <3>1. Cardinality({}) = 0 BY FS_EmptySet
    <3> QED BY <1>2, <3>1 DEF Tick, TypeOK
  <2> QED BY <1>2, <2>1 DEF TypeOK, Tick, request, history
<1>3. ASSUME NEW r \in Requests,
             Send(r) \/ Lost(r) \/ Answer(r) \/ FailOpen(r)
      PROVE  TypeOK'
  <2>1. members' = members /\ admitted' = admitted /\ refused' = refused
    BY <1>3 DEF Send, Lost, Answer, FailOpen, redis, history
  <2>2. \A c \in now..now + MaxSkew : c \in Nat BY DEF TypeOK
  <2> QED BY <1>3, <2>1, <2>2
          DEF TypeOK, Send, Lost, Answer, FailOpen, Become, request, redis, history
<1>4. ASSUME NEW r \in Requests, Script(r) PROVE TypeOK'
  <2>1. CASE Refuse(r)
    <3>1. members' \subseteq admitted /\ Cardinality(members') <= Limit
      BY <2>1, WindowFinite DEF Refuse, TypeOK
    <3> QED BY <1>4, <2>1, <3>1 DEF TypeOK, Script, Refuse, request
  <2>2. CASE Admit(r)
    <3>1. Cardinality(InWindow(r) \cup {r}) <= Limit
      BY <2>2, WindowFinite, OneMore DEF Admit
    <3>2. IsFiniteSet(admitted \cup {r})
      BY FS_AddElement DEF TypeOK
    <3>3. members' \subseteq admitted \cup {r}
      BY <2>2, WindowFinite DEF Admit, TypeOK
    <3> QED BY <1>4, <2>2, <3>1, <3>2, <3>3 DEF TypeOK, Script, Admit, request
  <2> QED BY <1>4, <2>1, <2>2 DEF Script
<1> QED BY <1>1, <1>2, <1>3, <1>4 DEF Next

\* Types of the variables, and the sorted set within the limit (cache.py:28-35).
THEOREM RateTypeCorrect == Spec => []TypeOK
<1>1. Init => TypeOK BY TypeInit
<1>2. TypeOK /\ [Next]_vars => TypeOK' BY TypeStep
<1> QED BY <1>1, <1>2, PTL DEF Spec

LEMMA InvariantStep == IInv /\ TypeOK' /\ [Next]_vars => RateInvariant'
<1> SUFFICES ASSUME IInv, TypeOK', [Next]_vars PROVE RateInvariant' OBVIOUS
<1> USE RateAssumption DEF IInv
<1>1. CASE UNCHANGED vars
  BY <1>1 DEF RateInvariant, vars, request, redis, history
<1>2. CASE Tick
  BY <1>2 DEF Tick, TypeOK, RateInvariant, Delay, request, history
<1>3. ASSUME NEW r \in Requests, Lost(r) \/ Answer(r) \/ FailOpen(r)
      PROVE  RateInvariant'
  BY <1>3 DEF TypeOK, RateInvariant, Lost, Answer, FailOpen, Become, request, redis, history
<1>4. ASSUME NEW r \in Requests, Send(r) PROVE RateInvariant'
  <2>0. PICK current \in now..now + MaxSkew : clock' = [clock EXCEPT ![r] = current]
    BY <1>4 DEF Send
  <2>1. r \notin wire /\ r \notin admitted /\ r \notin refused
    BY <1>4 DEF Send, RateInvariant
  <2>2. /\ sent' = [sent EXCEPT ![r] = now] /\ wire' = wire \cup {r} /\ now' = now
        /\ pc' = [pc EXCEPT ![r] = "waiting"]
        /\ UNCHANGED <<members, expires, at, admitted, refused>>
    BY <1>4 DEF Send, Become, redis, history
  <2> QED BY <2>0, <2>1, <2>2 DEF TypeOK, RateInvariant, Delay
<1>5. ASSUME NEW r \in Requests, Script(r) PROVE RateInvariant'
  <2>1. /\ r \in wire /\ wire' = wire \ {r} /\ at' = [at EXCEPT ![r] = now]
        /\ UNCHANGED <<now, pc, sent, clock>>
    BY <1>5 DEF Script, request
  <2>2. /\ now <= sent[r] + Delay /\ sent[r] <= now /\ sent[r] <= clock[r]
        /\ clock[r] <= sent[r] + MaxSkew /\ r \notin admitted /\ r \notin refused
    BY <2>1 DEF RateInvariant
  <2>3. Delay \in Nat BY DEF Delay
  <2>4. InWindow(r) \subseteq members BY WindowFinite
  <2>5. \A q \in admitted : q \in InWindow(r) \/ at[q] + Window <= now + MaxSkew + Delay
    <3> SUFFICES ASSUME NEW q \in members, clock[q] + Window <= clock[r]
                 PROVE  at[q] + Window <= now + MaxSkew + Delay
      BY DEF InWindow, RateInvariant, TypeOK
    <3>1. q \in Requests /\ at[q] <= clock[q] + Delay BY DEF TypeOK, RateInvariant
    <3> QED BY <2>2, <2>3, <3>1 DEF TypeOK
  <2>6. CASE Refuse(r)
    <3>1. members' = InWindow(r) /\ admitted' = admitted /\ refused' = refused \cup {r}
          /\ expires' = expires
      BY <2>6 DEF Refuse
    <3> QED BY <2>1, <2>2, <2>3, <2>4, <2>5, <3>1 DEF TypeOK, RateInvariant
  <2>7. CASE Admit(r)
    <3>1. /\ members' = InWindow(r) \cup {r} /\ admitted' = admitted \cup {r}
          /\ refused' = refused /\ expires' = now + Window
      BY <2>7 DEF Admit
    <3>2. \A q \in members : at[q] <= now BY DEF TypeOK, RateInvariant
    <3>3. \A q \in admitted' : /\ at'[q] <= clock[q] + Delay
                               /\ clock[q] <= at'[q] + MaxSkew /\ at'[q] <= now
      BY <2>1, <2>2, <2>3, <3>1 DEF TypeOK, RateInvariant
    <3>4. \A q \in members' : at'[q] + Window <= expires' /\ now < expires'
      BY <2>1, <2>4, <3>1, <3>2 DEF TypeOK
    <3>5. \A q \in admitted' : q \in members' \/ at'[q] + Window <= now + MaxSkew + Delay
      BY <2>1, <2>2, <2>5, <3>1 DEF TypeOK
    <3>6. \A q \in refused' : at'[q] <= now
      BY <2>1, <2>2, <3>1 DEF TypeOK, RateInvariant
    <3>7. /\ \A q \in wire' : /\ sent[q] <= now /\ now <= sent[q] + Delay
                              /\ sent[q] <= clock[q] /\ clock[q] <= sent[q] + MaxSkew
          /\ wire' \cap (admitted' \cup refused') = {}
          /\ \A q \in wire' \cup admitted' \cup refused' : pc[q] # "idle"
      BY <2>1, <3>1 DEF RateInvariant
    <3> QED BY <2>1, <3>3, <3>4, <3>5, <3>6, <3>7 DEF RateInvariant
  <2> QED BY <1>5, <2>6, <2>7 DEF Script
<1> QED BY <1>1, <1>2, <1>3, <1>4, <1>5 DEF Next

\* Scores stay within the delay and the skew of real time, and what has left the sorted
\* set is too old for every later count.
THEOREM ScoresStayTrue == Spec => []RateInvariant
<1>1. Init => IInv BY TypeInit, RateAssumption DEF IInv, Init, RateInvariant
<1>2. IInv /\ [Next]_vars => IInv' BY TypeStep, InvariantStep DEF IInv
<1>3. IInv => RateInvariant BY DEF IInv
<1> QED BY <1>1, <1>2, <1>3, PTL DEF Spec

-----------------------------------------------------------------------------
\* A step of the script adds its request to an interval only when the set it counted
\* holds every other request of that interval.
LEMMA WindowStep == IInv /\ IInv' /\ EveryWindow /\ [Next]_vars => EveryWindow'
<1> SUFFICES ASSUME IInv, IInv', EveryWindow, [Next]_vars,
                    NEW t \in Nat, NEW length \in 0..Window,
                    length + MaxSkew + Delay <= Window
             PROVE  Cardinality(AdmittedIn(t, length)') <= Limit
  BY DEF EveryWindow, Delay
<1> USE RateAssumption DEF IInv
<1>1. Cardinality(AdmittedIn(t, length)) <= Limit BY DEF EveryWindow
<1>2. CASE admitted' = admitted /\ \A q \in admitted : at'[q] = at[q]
  <2>1. AdmittedIn(t, length)' = AdmittedIn(t, length) BY <1>2 DEF AdmittedIn
  <2> QED BY <1>1, <2>1
<1>3. ASSUME NEW r \in Requests, Script(r), Admit(r)
      PROVE  Cardinality(AdmittedIn(t, length)') <= Limit
  <2>1. /\ r \in wire /\ at' = [at EXCEPT ![r] = now] /\ admitted' = admitted \cup {r}
        /\ r \notin admitted /\ clock[r] <= sent[r] + MaxSkew /\ sent[r] <= now
    BY <1>3 DEF Script, Admit, RateInvariant
  <2>2. CASE r \notin AdmittedIn(t, length)'
    <3>1. AdmittedIn(t, length)' = AdmittedIn(t, length)
      BY <2>1, <2>2 DEF AdmittedIn, TypeOK
    <3> QED BY <1>1, <3>1
  <2>3. CASE r \in AdmittedIn(t, length)'
    <3>1. now < t + length BY <2>1, <2>3 DEF AdmittedIn, TypeOK
    <3>2. AdmittedIn(t, length)' \subseteq InWindow(r) \cup {r}
      <4> SUFFICES ASSUME NEW q \in admitted, t <= at[q] PROVE q \in InWindow(r)
        BY <2>1 DEF AdmittedIn, TypeOK
      <4>1. q \in Requests /\ Delay \in Nat BY DEF TypeOK, Delay
      <4>2. q \in members \/ at[q] + Window <= now + MaxSkew + Delay BY DEF RateInvariant
      <4>3. q \in members BY <3>1, <4>1, <4>2 DEF TypeOK
      <4>4. at[q] <= clock[q] + Delay BY DEF RateInvariant
      <4>5. clock[q] + Window > clock[r] BY <2>1, <3>1, <4>1, <4>4 DEF TypeOK
      <4> QED BY <4>3, <4>5 DEF InWindow
    <3>3. /\ IsFiniteSet(InWindow(r) \cup {r})
          /\ Cardinality(InWindow(r) \cup {r}) <= Limit
      BY <1>3, WindowFinite, OneMore DEF Admit
    <3>4. /\ IsFiniteSet(AdmittedIn(t, length)')
          /\ Cardinality(AdmittedIn(t, length)') <= Cardinality(InWindow(r) \cup {r})
      BY <3>2, <3>3, FS_Subset
    <3>5. Cardinality(AdmittedIn(t, length)') \in Nat
          /\ Cardinality(InWindow(r) \cup {r}) \in Nat
      BY <3>3, <3>4, FS_CardinalityType
    <3> QED BY <3>3, <3>4, <3>5
  <2> QED BY <2>2, <2>3
<1>4. ASSUME NEW r \in Requests, Script(r), Refuse(r)
      PROVE  admitted' = admitted /\ \A q \in admitted : at'[q] = at[q]
  BY <1>4 DEF Script, Refuse, RateInvariant, TypeOK
<1>5. ASSUME NEW r \in Requests, Send(r) \/ Lost(r) \/ Answer(r) \/ FailOpen(r)
      PROVE  admitted' = admitted /\ at' = at
  BY <1>5 DEF Send, Lost, Answer, FailOpen, history
<1>6. CASE Tick \/ UNCHANGED vars
  BY <1>2, <1>6 DEF Tick, vars, history
<1> QED BY <1>2, <1>3, <1>4, <1>5, <1>6 DEF Next, Script

\* In real time no interval shorter than the window by the skew and the delay has more
\* than Limit admitted requests, however clocks differ and scripts are delayed.
THEOREM LimitHolds == Spec => []WindowBound
<1>1. Init => IInv BY TypeInit, RateAssumption DEF IInv, Init, RateInvariant
<1>2. Init => EveryWindow
  <2> SUFFICES ASSUME Init, NEW t \in Nat, NEW length \in 0..Window
               PROVE  Cardinality(AdmittedIn(t, length)) <= Limit
    BY DEF EveryWindow
  <2>1. AdmittedIn(t, length) = {} BY DEF Init, AdmittedIn
  <2>2. Cardinality({}) = 0 BY FS_EmptySet
  <2> QED BY <2>1, <2>2, RateAssumption
<1>3. IInv /\ [Next]_vars => IInv' BY TypeStep, InvariantStep DEF IInv
<1>4. IInv /\ IInv' /\ EveryWindow /\ [Next]_vars => EveryWindow' BY WindowStep
<1>5. IInv /\ EveryWindow => WindowBound
  <2>1. IInv => \A r \in admitted : at[r] \in Nat BY DEF IInv, TypeOK
  <2> QED BY <2>1 DEF EveryWindow, WindowBound
<1> QED BY <1>1, <1>2, <1>3, <1>4, <1>5, PTL DEF Spec

-----------------------------------------------------------------------------
\* What counts against a refused request only grows, and covers what the script counted.
LEMMA RefusalStep == IInv /\ IInv' /\ RejectsJustified /\ [Next]_vars => RejectsJustified'
<1> SUFFICES ASSUME IInv, IInv', RejectsJustified, [Next]_vars, NEW r \in refused'
             PROVE  Cardinality(CountedAgainst(r)') >= Limit
  BY DEF RejectsJustified
<1> USE RateAssumption DEF IInv
<1>0. /\ IsFiniteSet(CountedAgainst(r)')
      /\ Cardinality(CountedAgainst(r)') \in Nat
  <2>1. CountedAgainst(r)' \subseteq admitted' BY DEF CountedAgainst
  <2>2. IsFiniteSet(admitted') BY DEF TypeOK
  <2>3. IsFiniteSet(CountedAgainst(r)') BY <2>1, <2>2, FS_Subset
  <2> QED BY <2>3, FS_CardinalityType
<1>1. ASSUME NEW S, S \subseteq CountedAgainst(r)', Cardinality(S) >= Limit
      PROVE  Cardinality(CountedAgainst(r)') >= Limit
  <2>1. IsFiniteSet(S) /\ Cardinality(S) <= Cardinality(CountedAgainst(r)')
    BY <1>0, <1>1, FS_Subset
  <2>2. Cardinality(S) \in Nat BY <2>1, FS_CardinalityType
  <2> QED BY <1>0, <1>1, <2>1, <2>2
<1>2. CASE /\ r \in refused /\ admitted \subseteq admitted' /\ sent'[r] = sent[r]
           /\ \A q \in admitted \cup {r} : at'[q] = at[q]
  <2>1. CountedAgainst(r) \subseteq CountedAgainst(r)' BY <1>2 DEF CountedAgainst
  <2>2. Cardinality(CountedAgainst(r)) >= Limit BY <1>2 DEF RejectsJustified
  <2> QED BY <1>1, <2>1, <2>2
<1>3. CASE UNCHANGED vars \/ Tick
  BY <1>2, <1>3 DEF vars, Tick, history, request
<1>4. ASSUME NEW p \in Requests, Send(p) \/ Lost(p) \/ Answer(p) \/ FailOpen(p)
      PROVE  Cardinality(CountedAgainst(r)') >= Limit
  <2>1. UNCHANGED <<at, admitted, refused>>
    BY <1>4 DEF Send, Lost, Answer, FailOpen, history
  <2>2. sent'[r] = sent[r]
    BY <1>4, <2>1 DEF Send, Lost, Answer, FailOpen, request, RateInvariant, TypeOK
  <2> QED BY <1>2, <2>1, <2>2
<1>5. ASSUME NEW p \in Requests, Script(p)
      PROVE  Cardinality(CountedAgainst(r)') >= Limit
  <2>1. /\ p \in wire /\ p \notin admitted /\ p \notin refused
        /\ at' = [at EXCEPT ![p] = now] /\ UNCHANGED <<now, sent, clock>>
    BY <1>5 DEF Script, request, RateInvariant
  <2>2. CASE r \in refused
    <3>1. admitted \subseteq admitted' BY <1>5 DEF Script, Refuse, Admit
    <3>2. \A q \in admitted \cup {r} : at'[q] = at[q] BY <2>1, <2>2 DEF TypeOK
    <3> QED BY <1>2, <2>1, <2>2, <3>1, <3>2
  <2>3. CASE r \notin refused
    <3>1. r = p /\ Refuse(p) BY <1>5, <2>3 DEF Script, Refuse, Admit
    <3>2. Cardinality(InWindow(p)) >= Limit /\ admitted' = admitted
      BY <3>1 DEF Refuse
    <3>3. InWindow(p) \subseteq CountedAgainst(p)'
      <4> SUFFICES ASSUME NEW q \in InWindow(p)
                   PROVE  q \in CountedAgainst(p)'
        OBVIOUS
      <4>1. q \in members /\ clock[q] + Window > clock[p] BY DEF InWindow
      <4>2. q \in admitted /\ q \in Requests /\ q # p BY <2>1, <4>1 DEF TypeOK
      <4>3. clock[q] <= at[q] + MaxSkew /\ at[q] <= now /\ sent[p] <= clock[p]
        BY <2>1, <4>2 DEF RateInvariant
      <4>4. at'[q] = at[q] /\ at'[p] = now BY <2>1, <4>2 DEF TypeOK
      <4>5. sent[p] < at[q] + Window + MaxSkew BY <4>1, <4>2, <4>3 DEF TypeOK
      <4> QED BY <2>1, <3>2, <4>2, <4>3, <4>4, <4>5 DEF CountedAgainst
    <3> QED BY <1>1, <3>1, <3>2, <3>3
  <2> QED BY <2>2, <2>3
<1> QED BY <1>3, <1>4, <1>5 DEF Next

\* No request is refused for requests older than the window and the skew: the wait that
\* Retry-After names is enough (public_router.py:62-70).
THEOREM RefusalsJustified == Spec => []RejectsJustified
<1>1. Init => IInv /\ RejectsJustified
  BY TypeInit, RateAssumption DEF IInv, Init, RateInvariant, RejectsJustified
<1>2. IInv /\ [Next]_vars => IInv' BY TypeStep, InvariantStep DEF IInv
<1>3. IInv /\ IInv' /\ RejectsJustified /\ [Next]_vars => RejectsJustified' BY RefusalStep
<1> QED BY <1>1, <1>2, <1>3, PTL DEF Spec
=============================================================================
