--------------------------- MODULE FieldSchemaProofs ---------------------------
(***************************************************************************)
(* What validate_attributes reports, for every template of scalars and      *)
(* every object: each fault, once.  The loop is a recursive function; that  *)
(* it exists and what it computes are shown by induction over the natural   *)
(* numbers, in the first-order form of a least counterexample.              *)
(***************************************************************************)
EXTENDS FieldSchema, FiniteSetTheorems, SequenceTheorems, TLAPS

-----------------------------------------------------------------------------
(* Induction.                                                               *)

LEMMA LeastElement ==
    ASSUME NEW S \in SUBSET Nat, S # {}
    PROVE  \E n \in S : \A m \in S : n <= m
<1> DEFINE R == OpToRel(<, Nat)
<1>1. IsWellFoundedOn(R, Nat)
  BY NatLessThanWellFounded, Zenon
<1>2. PICK n \in S : \A m \in S : <<m, n>> \notin R
  <2> HIDE DEF R
  <2> QED BY <1>1, WFMin
<1>3. \A m \in S : m \in Nat /\ ~(m < n)
  BY <1>2 DEF OpToRel
<1>4. n \in Nat /\ \A m \in S : n <= m
  BY <1>3
<1> QED BY <1>4

LEMMA Induction ==
    ASSUME NEW P, 0 \in P, \A n \in Nat : n \in P => n + 1 \in P
    PROVE  Nat \subseteq P
<1>1. SUFFICES ASSUME Nat \ P # {} PROVE FALSE OBVIOUS
<1>2. PICK n \in Nat \ P : \A m \in Nat \ P : n <= m
  BY <1>1, LeastElement
<1>3. n - 1 \in Nat /\ n - 1 \notin Nat \ P
  BY <1>2
<1> QED BY <1>2, <1>3

-----------------------------------------------------------------------------
(* Sequences that list a set, each element once.                            *)

Lists(s, S) == s \in Seq(S) /\ IsInjective(s) /\ ToSet(s) = S

LEMMA EmptyList == Lists(<<>>, {})
BY DEF Lists, IsInjective, ToSet

LEMMA SingleList == ASSUME NEW x PROVE Lists(<<x>>, {x})
BY DEF Lists, IsInjective, ToSet

LEMMA SetList ==
    ASSUME NEW S, IsFiniteSet(S)
    PROVE  Lists(SetToSeq(S), S)
<1> DEFINE n == Cardinality(S)
<1>1. n \in Nat /\ ExistsBijection(1..n, S)
  BY FS_CardinalityType
<1>2. \E f \in [1..n -> S] : IsInjective(f)
  BY <1>1 DEF ExistsBijection, Bijection, Injection
<1>3. SetToSeq(S) \in [1..n -> S] /\ IsInjective(SetToSeq(S))
  BY <1>2 DEF SetToSeq
<1>4. SetToSeq(S) \in Injection(1..n, S)
  BY <1>3 DEF Injection
<1>5. Cardinality(1..n) = Cardinality(S)
  BY <1>1, FS_Interval
<1>6. SetToSeq(S) \in Surjection(1..n, S)
  BY <1>4, <1>5, FS_Injection
<1>7. ToSet(SetToSeq(S)) = S
  BY <1>6, <1>3 DEF ToSet, Surjection
<1>8. SetToSeq(S) \in Seq(S)
  BY <1>1, <1>3, SeqDef
<1> QED BY <1>3, <1>7, <1>8 DEF Lists

LEMMA ConcatList ==
    ASSUME NEW S, NEW T, NEW s, NEW t, Lists(s, S), Lists(t, T), S \cap T = {}
    PROVE  Lists(s \o t, S \cup T)
<1> DEFINE U == S \cup T  u == s \o t
<1>1. s \in Seq(U) /\ t \in Seq(U)
  BY SeqMonotonic DEF Lists
<1>2. /\ u \in Seq(U) /\ Len(u) = Len(s) + Len(t)
      /\ \A i \in 1..Len(s) + Len(t) : u[i] = IF i <= Len(s) THEN s[i] ELSE t[i - Len(s)]
  BY <1>1, ConcatProperties
<1>3. /\ Len(s) \in Nat /\ DOMAIN s = 1..Len(s)
      /\ Len(t) \in Nat /\ DOMAIN t = 1..Len(t)
      /\ DOMAIN u = 1..Len(s) + Len(t)
  BY <1>1, <1>2
<1> HIDE DEF u, U
<1>4. /\ \A i \in 1..Len(s) : s[i] \in S
      /\ \A i \in 1..Len(t) : t[i] \in T
  BY <1>3 DEF Lists, ToSet
<1>5. IsInjective(u)
  <2>1. SUFFICES ASSUME NEW i \in DOMAIN u, NEW j \in DOMAIN u, u[i] = u[j] PROVE i = j
    BY DEF IsInjective
  <2>2. CASE i <= Len(s) /\ j <= Len(s)
    <3>1. i \in DOMAIN s /\ j \in DOMAIN s /\ s[i] = s[j]
      BY <1>2, <1>3, <2>1, <2>2
    <3> QED BY <3>1 DEF Lists, IsInjective
  <2>3. CASE i > Len(s) /\ j > Len(s)
    <3>1. i - Len(s) \in DOMAIN t /\ j - Len(s) \in DOMAIN t /\ t[i - Len(s)] = t[j - Len(s)]
      BY <1>2, <1>3, <2>1, <2>3
    <3>2. i - Len(s) = j - Len(s) BY <3>1 DEF Lists, IsInjective
    <3> QED BY <3>2, <1>3
  <2>4. CASE i <= Len(s) /\ j > Len(s)
    <3>1. i \in 1..Len(s) /\ j - Len(s) \in 1..Len(t) /\ s[i] = t[j - Len(s)]
      BY <1>2, <1>3, <2>1, <2>4
    <3> QED BY <1>4, <3>1
  <2>5. CASE i > Len(s) /\ j <= Len(s)
    <3>1. j \in 1..Len(s) /\ i - Len(s) \in 1..Len(t) /\ s[j] = t[i - Len(s)]
      BY <1>2, <1>3, <2>1, <2>5
    <3> QED BY <1>4, <3>1
  <2> QED BY <1>3, <2>2, <2>3, <2>4, <2>5
<1>6. ToSet(u) = U
  <2>1. ASSUME NEW x \in S PROVE x \in ToSet(u)
    <3>1. PICK i \in 1..Len(s) : s[i] = x BY <1>3 DEF Lists, ToSet
    <3>2. i \in DOMAIN u /\ u[i] = x BY <1>2, <1>3, <3>1
    <3> QED BY <3>2 DEF ToSet
  <2>2. ASSUME NEW x \in T PROVE x \in ToSet(u)
    <3>1. PICK i \in 1..Len(t) : t[i] = x BY <1>3 DEF Lists, ToSet
    <3> DEFINE k == i + Len(s)
    <3>2. /\ k \in 1..Len(s) + Len(t) /\ ~(k <= Len(s))
          /\ k - Len(s) = i
      BY <1>3
    <3> HIDE DEF k
    <3>3. k \in DOMAIN u BY <1>3, <3>2
    <3>4. u[k] = t[k - Len(s)] BY <1>2, <3>2
    <3>5. u[k] = x BY <3>1, <3>2, <3>4
    <3> QED BY <3>3, <3>5 DEF ToSet
  <2>3. ToSet(u) \subseteq U
    BY <1>2, <1>3 DEF ToSet
  <2> QED BY <2>1, <2>2, <2>3 DEF U
<1> QED BY <1>2, <1>5, <1>6 DEF Lists, u, U

LEMMA ListLength ==
    ASSUME NEW S, NEW s, Lists(s, S)
    PROVE  Len(s) = Cardinality(S)
<1>1. s \in [1..Len(s) -> S] /\ Len(s) \in Nat
  BY DEF Lists
<1>2. s \in Injection(1..Len(s), S) /\ s \in Surjection(1..Len(s), S)
  BY <1>1 DEF Lists, Injection, Surjection, ToSet
<1>3. ExistsBijection(1..Len(s), S)
  BY <1>2 DEF ExistsBijection, Bijection
<1> QED BY <1>1, <1>3, FS_CountingElements

-----------------------------------------------------------------------------
(* The loop.                                                                *)

Start == [errors |-> <<>>, seen_required |-> {}]

\* The recursive function exists, and so is what its definition says.
LEMMA LoopDef ==
    ASSUME NEW template, NEW attributes, NEW errors, Len(errors) \in Nat
    PROVE  LET found == Loop(template, attributes, errors) IN
           found = [n \in 0..Len(errors) |->
                      IF n = 0 THEN Start
                      ELSE Report(template, attributes, found[n - 1], errors[n])]
<1> DEFINE R(found, n) == Report(template, attributes, found, errors[n])
           Body(g, n) == IF n = 0 THEN Start ELSE R(g[n - 1], n)
           P == {k \in Nat : \E g : g = [n \in 0..k |-> Body(g, n)]}
<1> HIDE DEF R
<1>1. 0 \in P
  <2>1. [n \in 0..0 |-> Start] = [n \in 0..0 |-> Body([i \in 0..0 |-> Start], n)]
    OBVIOUS
  <2> QED BY <2>1
<1>2. ASSUME NEW k \in P PROVE k + 1 \in P
  <2>1. k \in Nat /\ 0..k + 1 = 0..k \cup {k + 1}
    OBVIOUS
  <2>2. PICK g : g = [n \in 0..k |-> Body(g, n)]
    OBVIOUS
  <2> DEFINE h == [n \in 0..k + 1 |-> IF n = k + 1 THEN R(g[k], k + 1) ELSE g[n]]
  <2>3. ASSUME NEW n \in 0..k + 1 PROVE h[n] = Body(h, n)
    <3>1. CASE n = 0
      BY <2>1, <2>2, <3>1
    <3>2. CASE n = k + 1
      <4>1. k \in 0..k + 1 /\ k # k + 1 BY <2>1
      <4>2. h[k] = g[k] BY <4>1
      <4>3. n # 0 /\ n - 1 = k BY <2>1, <3>2
      <4> QED BY <3>2, <4>2, <4>3
    <3>3. CASE n # 0 /\ n # k + 1
      <4>1. n \in 0..k /\ n - 1 \in 0..k + 1 /\ n - 1 # k + 1 BY <2>1, <3>3
      <4>2. h[n] = g[n] /\ h[n - 1] = g[n - 1] BY <4>1, <2>1
      <4>3. g[n] = Body(g, n) BY <2>2, <4>1
      <4> QED BY <3>3, <4>2, <4>3
    <3> QED BY <3>1, <3>2, <3>3
  <2>4. h = [n \in 0..k + 1 |-> Body(h, n)]
    BY <2>3
  <2> HIDE DEF h
  <2>5. \E x : x = [n \in 0..k + 1 |-> Body(x, n)]
    BY <2>4
  <2> QED BY <2>1, <2>5
<1>3. Len(errors) \in P
  <2>1. \A k \in Nat : k \in P => k + 1 \in P BY <1>2
  <2> HIDE DEF P
  <2> QED BY <1>1, <2>1, Induction
<1>4. \E g : g = [n \in 0..Len(errors) |-> Body(g, n)]
  BY <1>3
<1> QED BY <1>4 DEF Loop, Start, R

\* A template of scalars and an object of finitely many fields.
FiniteFields(template, attributes) ==
    ScalarTemplate(template) /\ IsFiniteSet(DOMAIN attributes)

\* What the loop reports for an error of jsonschema, if it is the first of its kind.
About(template, attributes, error) ==
    CASE error.validator = "required" -> Missing(template, attributes)
      [] error.validator = "additionalProperties" -> Unknown(template, attributes)
      [] OTHER -> {error}

\* Every error jsonschema yields, once.
ErrorSet(template, attributes) ==
    Missing(template, attributes)
    \cup (IF Unknown(template, attributes) = {} THEN {} ELSE {UnknownError})
    \cup Invalid(template, attributes)

\* Which keyword each kind of fault is about.
LEMMA FaultKeywords ==
    ASSUME NEW template, NEW attributes, FiniteFields(template, attributes)
    PROVE  /\ \A e \in Missing(template, attributes) : e.validator = "required"
           /\ \A e \in Unknown(template, attributes) : e.validator = "additionalProperties"
           /\ \A e \in Invalid(template, attributes) :
                  e.validator # "required" /\ e.validator # "additionalProperties"
<1>1. ASSUME NEW e \in Invalid(template, attributes)
      PROVE  e.validator # "required" /\ e.validator # "additionalProperties"
  <2>1. PICK f \in DOMAIN template.properties :
            \E keyword \in DOMAIN template.properties[f] : e = Error(f, keyword)
    BY DEF Invalid, Failed
  <2> QED BY <2>1 DEF FiniteFields, ScalarTemplate, Error
<1> QED BY <1>1 DEF Missing, Unknown, Error

LEMMA ImageFinite ==
    ASSUME NEW S, IsFiniteSet(S)
    PROVE  /\ \A keyword : IsFiniteSet({Error(f, keyword) : f \in S})
           /\ \A f : IsFiniteSet({Error(f, keyword) : keyword \in S})
<1>1. ASSUME NEW keyword PROVE IsFiniteSet({Error(f, keyword) : f \in S})
  <2>1. [f \in S |-> Error(f, keyword)] \in Surjection(S, {Error(f, keyword) : f \in S})
    BY DEF Surjection
  <2> QED BY <2>1, FS_Surjection
<1>2. ASSUME NEW f PROVE IsFiniteSet({Error(f, keyword) : keyword \in S})
  <2>1. [keyword \in S |-> Error(f, keyword)]
            \in Surjection(S, {Error(f, keyword) : keyword \in S})
    BY DEF Surjection
  <2> QED BY <2>1, FS_Surjection
<1> QED BY <1>1, <1>2

LEMMA FaultsFinite ==
    ASSUME NEW template, NEW attributes, FiniteFields(template, attributes)
    PROVE  /\ IsFiniteSet(Missing(template, attributes))
           /\ IsFiniteSet(Unknown(template, attributes))
           /\ IsFiniteSet(Invalid(template, attributes))
<1>1. IsFiniteSet(Missing(template, attributes))
  <2>1. IsFiniteSet(template.required \ DOMAIN attributes)
    BY FS_Difference DEF FiniteFields, ScalarTemplate
  <2> QED BY <2>1, ImageFinite DEF Missing
<1>2. IsFiniteSet(Unknown(template, attributes))
  <2>1. IsFiniteSet(DOMAIN attributes \ DOMAIN template.properties)
    BY FS_Difference DEF FiniteFields
  <2> QED BY <2>1, ImageFinite DEF Unknown
<1>3. IsFiniteSet(Invalid(template, attributes))
  <2> DEFINE given == DOMAIN attributes \cap DOMAIN template.properties
             errors(f) ==
                 {Error(f, keyword) : keyword \in Failed(template.properties[f], attributes[f])}
             all == {errors(f) : f \in given}
  <2>1. IsFiniteSet(given)
    BY FS_Subset DEF FiniteFields
  <2>2. ASSUME NEW f \in given PROVE IsFiniteSet(errors(f))
    <3>1. Failed(template.properties[f], attributes[f])
              \in SUBSET DOMAIN template.properties[f]
      BY DEF Failed
    <3>2. IsFiniteSet(DOMAIN template.properties[f])
      BY DEF FiniteFields, ScalarTemplate
    <3>3. IsFiniteSet(Failed(template.properties[f], attributes[f]))
      BY <3>1, <3>2, FS_Subset
    <3> QED BY <3>3, ImageFinite
  <2>3. [f \in given |-> errors(f)] \in Surjection(given, all)
    BY DEF Surjection
  <2>4. IsFiniteSet(all) BY <2>1, <2>3, FS_Surjection
  <2>5. \A T \in all : IsFiniteSet(T) BY <2>2
  <2>6. Invalid(template, attributes) = UNION all BY DEF Invalid
  <2> HIDE DEF all
  <2> QED BY <2>4, <2>5, <2>6, FS_UNION
<1> QED BY <1>1, <1>2, <1>3

LEMMA ErrorsListed ==
    ASSUME NEW template, NEW attributes, FiniteFields(template, attributes)
    PROVE  Lists(iter_errors(template, attributes), ErrorSet(template, attributes))
<1> DEFINE M == Missing(template, attributes)
           U == IF Unknown(template, attributes) = {} THEN {} ELSE {UnknownError}
           I == Invalid(template, attributes)
           u == IF Unknown(template, attributes) = {} THEN <<>> ELSE <<UnknownError>>
<1>1. Lists(SetToSeq(M), M) /\ Lists(SetToSeq(I), I)
  BY FaultsFinite, SetList
<1>2. Lists(u, U)
  BY EmptyList, SingleList
<1>3. M \cap U = {} /\ (M \cup U) \cap I = {}
  <2>1. \A e \in U : e.validator = "additionalProperties"
    BY DEF UnknownError
  <2> HIDE DEF U
  <2> QED BY <2>1, FaultKeywords
<1>4. iter_errors(template, attributes) = (SetToSeq(M) \o u) \o SetToSeq(I)
  BY DEF iter_errors
<1>5. ErrorSet(template, attributes) = (M \cup U) \cup I
  BY DEF ErrorSet
<1> HIDE DEF M, U, I, u
<1>6. Lists(SetToSeq(M) \o u, M \cup U)
  BY <1>1, <1>2, <1>3, ConcatList
<1>7. Lists((SetToSeq(M) \o u) \o SetToSeq(I), (M \cup U) \cup I)
  BY <1>1, <1>3, <1>6, ConcatList
<1> QED BY <1>4, <1>5, <1>7

-----------------------------------------------------------------------------
(* What the loop has found after n errors.                                  *)

\* What is reported for the first n errors.
Seen(template, attributes, errors, n) ==
    UNION {About(template, attributes, errors[i]) : i \in 1..n}

SomeRequired(errors, n) == \E i \in 1..n : errors[i].validator = "required"

LoopInv(template, attributes, errors, n, found) ==
    /\ found = [errors |-> found.errors, seen_required |-> found.seen_required]
    /\ Lists(found.errors, Seen(template, attributes, errors, n))
    /\ found.seen_required =
           IF SomeRequired(errors, n) THEN Missing(template, attributes) ELSE {}

LEMMA LoopStart ==
    ASSUME NEW template, NEW attributes, NEW errors
    PROVE  LoopInv(template, attributes, errors, 0, Start)
<1>1. Seen(template, attributes, errors, 0) = {}
  BY DEF Seen
<1>2. ~SomeRequired(errors, 0)
  BY DEF SomeRequired
<1> QED BY <1>1, <1>2, EmptyList DEF LoopInv, Start

LEMMA LoopStep ==
    ASSUME NEW template, NEW attributes, FiniteFields(template, attributes),
           NEW errors, Lists(errors, ErrorSet(template, attributes)),
           NEW n \in Nat, n < Len(errors),
           NEW found, LoopInv(template, attributes, errors, n, found)
    PROVE  LoopInv(template, attributes, errors, n + 1,
                   Report(template, attributes, found, errors[n + 1]))
<1> DEFINE missing == Missing(template, attributes)
           unknown == Unknown(template, attributes)
           invalid == Invalid(template, attributes)
           seen(m) == Seen(template, attributes, errors, m)
           error == errors[n + 1]
           next == Report(template, attributes, found, error)
<1>1. /\ Len(errors) \in Nat /\ n + 1 \in DOMAIN errors
      /\ \A i \in 1..n : i \in DOMAIN errors /\ errors[i] # error
      /\ \A i \in DOMAIN errors : errors[i] \in ErrorSet(template, attributes)
  BY DEF Lists, IsInjective, ToSet
<1>2. \A e \in ErrorSet(template, attributes) :
          \/ e.validator = "required" /\ About(template, attributes, e) = missing
          \/ e = UnknownError /\ e.validator = "additionalProperties"
             /\ About(template, attributes, e) = unknown
          \/ /\ e \in invalid /\ About(template, attributes, e) = {e}
             /\ e.validator # "required" /\ e.validator # "additionalProperties"
  BY FaultKeywords DEF ErrorSet, UnknownError, About
<1>3. seen(n + 1) = seen(n) \cup About(template, attributes, error)
  <2>1. 1..n + 1 = 1..n \cup {n + 1} OBVIOUS
  <2> QED BY <2>1 DEF Seen
<1>4. SomeRequired(errors, n + 1) <=> SomeRequired(errors, n) \/ error.validator = "required"
  <2>1. 1..n + 1 = 1..n \cup {n + 1} OBVIOUS
  <2> QED BY <2>1 DEF SomeRequired
<1>5. Lists(found.errors, seen(n))
  BY DEF LoopInv
<1>6. CASE error.validator = "required"
  <2> DEFINE new == missing \ found.seen_required
  <2>1. next = [errors |-> found.errors \o SetToSeq(new),
                seen_required |-> found.seen_required \cup new]
    BY <1>6 DEF Report, Required
  <2>2. About(template, attributes, error) = missing
    BY <1>6 DEF About
  <2>3. IsFiniteSet(new) /\ Lists(SetToSeq(new), new)
    BY FaultsFinite, FS_Difference, SetList
  <2>4. seen(n) \cap new = {} /\ seen(n) \cup new = seen(n) \cup missing
    <3>1. CASE SomeRequired(errors, n)
      <4>1. new = {} BY <3>1 DEF LoopInv
      <4>2. missing \subseteq seen(n)
        <5>1. PICK i \in 1..n : errors[i].validator = "required"
          BY <3>1 DEF SomeRequired
        <5>2. About(template, attributes, errors[i]) = missing
          BY <5>1 DEF About
        <5> QED BY <5>2 DEF Seen
      <4> QED BY <4>1, <4>2
    <3>2. CASE ~SomeRequired(errors, n)
      <4>1. new = missing BY <3>2 DEF LoopInv
      <4>2. \A i \in 1..n : \A e \in About(template, attributes, errors[i]) :
                e.validator # "required"
        BY <1>1, <1>2, <3>2, FaultKeywords DEF SomeRequired
      <4>3. \A e \in seen(n) : e.validator # "required"
        BY <4>2 DEF Seen
      <4> QED BY <4>1, <4>3, FaultKeywords
    <3> QED BY <3>1, <3>2
  <2>5. Lists(found.errors \o SetToSeq(new), seen(n + 1))
    BY <1>3, <1>5, <2>2, <2>3, <2>4, ConcatList
  <2>6. found.seen_required \cup new = missing
    BY DEF LoopInv
  <2> QED BY <1>4, <1>6, <2>1, <2>5, <2>6 DEF LoopInv
<1>7. CASE error = UnknownError
  <2>1. error.validator = "additionalProperties" /\ About(template, attributes, error) = unknown
    BY <1>7 DEF UnknownError, About
  <2>2. next = [errors |-> found.errors \o SetToSeq(unknown),
                seen_required |-> found.seen_required]
    BY <2>1 DEF Report, LoopInv
  <2>3. Lists(SetToSeq(unknown), unknown)
    BY FaultsFinite, SetList
  <2>4. seen(n) \cap unknown = {}
    <3>1. \A i \in 1..n : About(template, attributes, errors[i]) \cap unknown = {}
      BY <1>1, <1>2, <1>7, FaultKeywords
    <3> QED BY <3>1 DEF Seen
  <2>5. Lists(found.errors \o SetToSeq(unknown), seen(n + 1))
    BY <1>3, <1>5, <2>1, <2>3, <2>4, ConcatList
  <2> QED BY <1>4, <2>1, <2>2, <2>5 DEF LoopInv
<1>8. CASE error \in invalid
  <2>1. /\ error.validator # "required" /\ error.validator # "additionalProperties"
        /\ About(template, attributes, error) = {error}
    BY <1>8, FaultKeywords DEF About
  <2>2. error \notin seen(n)
    <3>1. \A i \in 1..n : error \notin About(template, attributes, errors[i])
      BY <1>1, <1>2, <2>1, FaultKeywords
    <3> QED BY <3>1 DEF Seen
  <2>3. Lists(found.errors \o <<error>>, seen(n + 1))
    <3>1. Lists(<<error>>, {error}) /\ seen(n) \cap {error} = {}
      BY <2>2, SingleList
    <3> QED BY <1>3, <1>5, <2>1, <3>1, ConcatList
  <2>4. Append(found.errors, error) = found.errors \o <<error>>
    <3>1. found.errors \in Seq(seen(n) \cup {error})
      BY <1>5, SeqMonotonic DEF Lists
    <3> QED BY <3>1, AppendIsConcat
  <2>5. next = [errors |-> found.errors \o <<error>>, seen_required |-> found.seen_required]
    BY <2>1, <2>4 DEF Report, LoopInv
  <2> QED BY <1>4, <2>1, <2>3, <2>5 DEF LoopInv
<1> QED BY <1>1, <1>2, <1>6, <1>7, <1>8

LEMMA LoopKeeps ==
    ASSUME NEW template, NEW attributes, FiniteFields(template, attributes),
           NEW errors, Lists(errors, ErrorSet(template, attributes))
    PROVE  \A n \in 0..Len(errors) :
               LoopInv(template, attributes, errors, n, Loop(template, attributes, errors)[n])
<1> DEFINE found == Loop(template, attributes, errors)
           P == {n \in Nat : n <= Len(errors) => LoopInv(template, attributes, errors, n, found[n])}
<1>1. Len(errors) \in Nat
  BY DEF Lists
<1>2. found = [n \in 0..Len(errors) |->
                  IF n = 0 THEN Start
                  ELSE Report(template, attributes, found[n - 1], errors[n])]
  BY <1>1, LoopDef
<1> HIDE DEF found
<1>3. 0 \in P
  BY <1>1, <1>2, LoopStart
<1>4. ASSUME NEW n \in Nat, n \in P PROVE n + 1 \in P
  <2>1. SUFFICES ASSUME n + 1 <= Len(errors)
                 PROVE  LoopInv(template, attributes, errors, n + 1, found[n + 1])
    OBVIOUS
  <2>2. n < Len(errors) /\ LoopInv(template, attributes, errors, n, found[n])
    BY <1>1, <1>4, <2>1
  <2>3. found[n + 1] = Report(template, attributes, found[n], errors[n + 1])
    BY <1>1, <1>2, <2>1
  <2> QED BY <2>2, <2>3, LoopStep
<1>5. Nat \subseteq P
  BY <1>3, <1>4, Induction
<1> QED BY <1>1, <1>5 DEF found

\* A report names each missing field, each unknown field and each keyword that a value
\* fails, with its field, and none of these twice (field_schema.py:88-123).
THEOREM ReportsEveryFault ==
    ASSUME NEW template, NEW attributes, FiniteFields(template, attributes)
    PROVE  LET errors == validate_attributes(template, attributes)
               faults == Faults(template, attributes)
           IN  ToSet(errors) = faults /\ Len(errors) = Cardinality(faults)
<1> DEFINE errors == iter_errors(template, attributes)
           found == Loop(template, attributes, errors)[Len(errors)]
<1>1. Lists(errors, ErrorSet(template, attributes))
  BY ErrorsListed
<1>2. Len(errors) \in Nat /\ DOMAIN errors = 1..Len(errors)
  BY <1>1 DEF Lists
<1>3. LoopInv(template, attributes, errors, Len(errors), found)
  BY <1>1, <1>2, LoopKeeps
<1>4. Seen(template, attributes, errors, Len(errors)) = Faults(template, attributes)
  <2>1. Seen(template, attributes, errors, Len(errors))
            = UNION {About(template, attributes, e) : e \in ErrorSet(template, attributes)}
    BY <1>1, <1>2 DEF Seen, Lists, ToSet
  <2>2. \A e \in Missing(template, attributes) :
            About(template, attributes, e) = Missing(template, attributes)
    BY FaultKeywords DEF About
  <2>3. About(template, attributes, UnknownError) = Unknown(template, attributes)
    BY DEF About, UnknownError
  <2>4. \A e \in Invalid(template, attributes) : About(template, attributes, e) = {e}
    BY FaultKeywords DEF About
  <2> QED BY <2>1, <2>2, <2>3, <2>4 DEF ErrorSet, Faults
<1>5. Lists(validate_attributes(template, attributes), Faults(template, attributes))
  BY <1>3, <1>4 DEF LoopInv, validate_attributes
<1> QED BY <1>5, ListLength DEF Lists
=============================================================================
