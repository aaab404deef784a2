----------------------- MODULE ProductListPageProofs -----------------------
(***************************************************************************)
(* Proofs about the product list page behind its session: the types, which  *)
(* tie the session to the page shown; that only a refusal of the token in   *)
(* use ends the session; that what is disabled matches the requests under   *)
(* way; that rows never go back; and that only conflicts refuse a change.   *)
(***************************************************************************)
EXTENDS ProductListPage, TLAPS

Partial(V) == UNION {[S -> V] : S \in SUBSET Products}

RequestSet ==
    [kind : {"load", "status", "batch"}, gen : Nat, token : Tokens, items : Partial(Nat),
     target : Statuses \cup {"none"}, answer : {"none", "ok", "failed", "unauthorized"}, rows : Partial(Row)]

\* The types in full.  A page that is not shown holds nothing; a change answers for
\* the products it names.
Types ==
    /\ SessionTypeOK
    /\ product \in [Products -> Row]
    /\ generation \in 0..MaxGeneration /\ opened \in 0..generation
    /\ rows \in Partial(Row)
    /\ selected \subseteq DOMAIN rows
    /\ loading \in BOOLEAN /\ batchPending \in BOOLEAN
    /\ confirming \subseteq [id : Products, version : 1..MaxVersion]
    /\ pending \subseteq Products
    /\ requests \subseteq RequestSet
    /\ seen \in [Products -> Nat]
    /\ (screen = "login") <=> (stored = NoToken)
    /\ loading => rows = NoRows
    /\ screen # "list" => rows = NoRows

LEMMA EmptyIsPartial == ASSUME NEW V PROVE NoRows \in Partial(V) /\ DOMAIN NoRows = {}
<1>1. NoRows = [x \in {} |-> x]
    BY DEF NoRows
<1>2. NoRows \in [{} -> V] /\ {} \in SUBSET Products
    BY <1>1
<1> QED BY <1>1, <1>2 DEF Partial

LEMMA InPartial ==
    ASSUME NEW V, NEW S \in SUBSET Products, NEW f \in [S -> V] PROVE f \in Partial(V)
BY DEF Partial

LEMMA PartialIs ==
    ASSUME NEW V, NEW f \in Partial(V)
    PROVE  /\ DOMAIN f \subseteq Products /\ f \in [DOMAIN f -> V]
           /\ \A p \in DOMAIN f : f[p] \in V
BY DEF Partial

LEMMA InitTypes == Init => Types
<1> SUFFICES ASSUME Init PROVE Types
    OBVIOUS
<1>1. SessionTypeOK
    BY DEF Init, SessionInit, SessionTypeOK, Screens, Steps
<1>2. product \in [Products -> Row]
    BY ListAssumption DEF Init, Row, Statuses
<1>3. generation \in 0..MaxGeneration /\ opened \in 0..generation
    BY ListAssumption DEF Init
<1>4. rows \in Partial(Row) /\ selected \subseteq DOMAIN rows
    BY EmptyIsPartial DEF Init
<1>5. seen \in [Products -> Nat]
    BY DEF Init
<1> QED
    BY <1>1, <1>2, <1>3, <1>4, <1>5 DEF Init, SessionInit, Types

-----------------------------------------------------------------------------
(* What the building blocks of the actions do to the types.                 *)

LEMMA RequestTyped ==
    ASSUME Types, NEW kind \in {"load", "status", "batch"}, NEW gen \in Nat,
           NEW token \in Tokens, NEW items \in Partial(Nat), NEW target \in Statuses \cup {"none"}
    PROVE  Request(kind, gen, token, items, target) \in RequestSet
BY EmptyIsPartial DEF Request, RequestSet

LEMMA LoadTyped ==
    ASSUME Types, NEW token \in Tokens, Load(token)
    PROVE  /\ generation' \in 0..MaxGeneration /\ generation \in 0..generation'
           /\ rows' = NoRows /\ rows' \in Partial(Row) /\ selected' \subseteq DOMAIN rows'
           /\ loading' \in BOOLEAN
           /\ requests' \subseteq RequestSet
           /\ seen' \in [Products -> Nat]
<1>1. generation \in Nat /\ generation + 1 \in Nat
    BY DEF Types
<1>2. NoRows \in Partial(Nat) /\ NoRows \in Partial(Row) /\ DOMAIN NoRows = {}
    BY EmptyIsPartial
<1>3. Request("load", generation + 1, token, NoRows, "none") \in RequestSet
  <2>1. "none" \in Statuses \cup {"none"} /\ "load" \in {"load", "status", "batch"}
    OBVIOUS
  <2> DEFINE next == generation + 1
  <2>2. next \in Nat
    BY <1>1
  <2> HIDE DEF next
  <2>3. Request("load", next, token, NoRows, "none") \in RequestSet
    BY <1>2, <2>1, <2>2, RequestTyped
  <2> QED BY <2>3 DEF next
<1>4. requests' \subseteq RequestSet
    BY <1>3 DEF Load, Types
<1>5. generation' \in 0..MaxGeneration /\ generation \in 0..generation'
    BY <1>1, ListAssumption DEF Load, Types
<1>6. seen' \in [Products -> Nat] /\ rows' = NoRows /\ selected' = {} /\ loading' = TRUE
    BY DEF Load, Types
<1> QED
    BY <1>2, <1>4, <1>5, <1>6

LEMMA MountTyped ==
    ASSUME Types, NEW token \in Tokens, Mount(token)
    PROVE  /\ generation' \in 0..MaxGeneration /\ opened' \in 0..generation'
           /\ rows' = NoRows /\ rows' \in Partial(Row) /\ selected' \subseteq DOMAIN rows'
           /\ loading' \in BOOLEAN /\ batchPending' \in BOOLEAN
           /\ confirming' \subseteq [id : Products, version : 1..MaxVersion]
           /\ pending' \subseteq Products
           /\ requests' \subseteq RequestSet
           /\ seen' \in [Products -> Nat]
<1>1. Load(token)
    BY DEF Mount
<1>2. generation' \in 0..MaxGeneration /\ generation' = generation + 1 /\ loading' = TRUE
    BY <1>1, LoadTyped DEF Load
<1>3. opened' \in 0..generation'
    BY <1>2, ListAssumption DEF Mount
<1> QED
    BY <1>1, <1>2, <1>3, LoadTyped DEF Mount

LEMMA UnmountTyped ==
    ASSUME Types, Unmount
    PROVE  /\ generation' \in 0..MaxGeneration /\ opened' \in 0..generation'
           /\ rows' = NoRows /\ rows' \in Partial(Row) /\ selected' \subseteq DOMAIN rows'
           /\ loading' \in BOOLEAN /\ batchPending' \in BOOLEAN
           /\ confirming' \subseteq [id : Products, version : 1..MaxVersion]
           /\ pending' \subseteq Products
           /\ seen' \in [Products -> Nat]
BY EmptyIsPartial DEF Unmount, Types

LEMMA SessionTyped ==
    ASSUME Types, NEW t \in Tokens, NEW s \in Screens
    PROVE  /\ handleSubmit(t) => SessionTypeOK'
           /\ Reopen => SessionTypeOK'
           /\ LoginServed(t) => SessionTypeOK'
           /\ LoginFailed(t) => SessionTypeOK'
           /\ LoggedIn(t, s) => SessionTypeOK'
           /\ Expire(t) => SessionTypeOK'
           /\ Goto(s) => SessionTypeOK'
           /\ clearUnauthorizedSession => SessionTypeOK'
<1> USE DEF SessionTypeOK, Types
<1>1. handleSubmit(t) => SessionTypeOK'
    BY DEF handleSubmit, Steps
<1>2. Reopen => SessionTypeOK'
    BY DEF Reopen
<1>3. LoginServed(t) => SessionTypeOK'
    BY DEF LoginServed, Steps
<1>4. LoginFailed(t) => SessionTypeOK'
    BY DEF LoginFailed, Steps
<1>5. LoggedIn(t, s) => SessionTypeOK'
    BY DEF LoggedIn, Steps
<1>6. Expire(t) => SessionTypeOK'
    BY DEF Expire
<1>7. Goto(s) => SessionTypeOK'
    BY DEF Goto
<1>8. clearUnauthorizedSession => SessionTypeOK'
    BY DEF clearUnauthorizedSession, Screens
<1> QED BY <1>1, <1>2, <1>3, <1>4, <1>5, <1>6, <1>7, <1>8

LEMMA ShowTyped ==
    ASSUME Types, NEW shown \in Partial(Row), Show(shown)
    PROVE  rows' \in Partial(Row) /\ seen' \in [Products -> Nat]
<1>1. \A p \in DOMAIN shown : shown[p] \in Row
    BY PartialIs
<1>2. \A p \in DOMAIN shown : shown[p].version \in Nat
    BY <1>1, ListAssumption DEF Row
<1> QED BY <1>2 DEF Show, Types

LEMMA ReplacedTyped ==
    ASSUME Types, NEW r \in RequestSet
    PROVE  Replaced(r) \in Partial(Row) /\ DOMAIN Replaced(r) = DOMAIN rows
<1>1. rows \in Partial(Row) /\ r.rows \in Partial(Row)
    BY DEF Types, RequestSet
<1>2. /\ DOMAIN rows \in SUBSET Products /\ \A p \in DOMAIN rows : rows[p] \in Row
      /\ \A p \in DOMAIN r.rows : r.rows[p] \in Row
    BY <1>1, PartialIs
<1>3. Replaced(r) \in [DOMAIN rows -> Row]
    BY <1>2 DEF Replaced
<1> QED BY <1>2, <1>3, InPartial DEF Replaced

LEMMA AnsweredTyped ==
    ASSUME Types, NEW r \in requests, NEW answer \in {"ok", "failed", "unauthorized"},
           NEW found \in Partial(Row), Answered(r, answer, found)
    PROVE  requests' \subseteq RequestSet
<1>1. [r EXCEPT !.answer = answer, !.rows = found] \in RequestSet
    BY DEF Types, RequestSet
<1> QED BY <1>1 DEF Answered, Types

-----------------------------------------------------------------------------
(* What is disabled and the requests under way.                             *)

Table ==
    /\ loading <=> \E r \in requests : r.kind = "load" /\ Current(r)
    /\ \A r1, r2 \in requests :
           r1.kind = "load" /\ Current(r1) /\ r2.kind = "load" /\ Current(r2) => r1 = r2

Batches ==
    /\ batchPending <=> \E r \in requests : r.kind = "batch" /\ ThisVisit(r)
    /\ \A r1, r2 \in requests :
           r1.kind = "batch" /\ ThisVisit(r1) /\ r2.kind = "batch" /\ ThisVisit(r2) => r1 = r2

Buttons ==
    \A p \in Products :
        /\ p \in pending <=>
              \E r \in requests : r.kind = "status" /\ ThisVisit(r) /\ p \in DOMAIN r.items
        /\ \A r1, r2 \in requests :
               /\ r1.kind = "status" /\ ThisVisit(r1) /\ p \in DOMAIN r1.items
               /\ r2.kind = "status" /\ ThisVisit(r2) /\ p \in DOMAIN r2.items
               => r1 = r2

\* Requests are of the generations so far; what waits matches them.
Controls ==
    /\ \A r \in requests : r.gen \in 0..generation
    /\ Table /\ Batches /\ Buttons

LEMMA ControlsAre == ASSUME Types, Controls PROVE ControlsMatchRequests
<1>1. \A r \in requests : Current(r) => ThisVisit(r)
    BY DEF Types, Controls, Current, ThisVisit
<1> QED BY <1>1 DEF Controls, Table, Batches, Buttons, ControlsMatchRequests

LEMMA InitControls == Init => Controls
BY DEF Init, SessionInit, Controls, Table, Batches, Buttons

LEMMA StillControls ==
    ASSUME Controls,
           UNCHANGED <<screen, generation, opened, requests, loading, batchPending, pending>>
    PROVE  Controls'
BY DEF Controls, Table, Batches, Buttons, Current, ThisVisit

LEMMA LoadControls ==
    ASSUME Types, Controls, NEW token, Load(token), screen' = "list",
           \/ screen = "list" /\ UNCHANGED <<opened, batchPending, pending>>
           \/ opened' = generation + 1 /\ batchPending' = FALSE /\ pending' = {}
    PROVE  Controls'
<1> DEFINE new == Request("load", generation + 1, token, NoRows, "none")
<1>1. /\ generation \in Nat /\ opened \in 0..generation /\ generation' = generation + 1
      /\ requests' = requests \cup {new} /\ loading' = TRUE
    BY DEF Load, Types
<1>2. new.gen = generation + 1 /\ new.kind = "load"
    BY DEF Request
<1> HIDE DEF new
<1>3. \A r \in requests : r.gen \in 0..generation
    BY DEF Controls
<1>4. \A r \in requests' : r.gen \in 0..generation'
    BY <1>1, <1>2, <1>3
<1>5. \A r \in requests' : Current(r)' <=> r = new
    BY <1>1, <1>2, <1>3 DEF Current
<1>6. Table'
    BY <1>1, <1>2, <1>5 DEF Table
<1>7. Batches' /\ Buttons'
  <2>1. CASE screen = "list" /\ UNCHANGED <<opened, batchPending, pending>>
    <3>1. \A r \in requests : ThisVisit(r)' <=> ThisVisit(r)
      BY <2>1 DEF ThisVisit
    <3>2. \A r \in requests' : r.kind # "load" => r \in requests
      BY <1>1, <1>2
    <3>3. requests \subseteq requests'
      BY <1>1
    <3>4. Batches'
      BY <2>1, <3>1, <3>2, <3>3 DEF Batches, Controls
    <3>5. Buttons'
      BY <2>1, <3>1, <3>2, <3>3 DEF Buttons, Controls
    <3> QED BY <3>4, <3>5
  <2>2. CASE opened' = generation + 1 /\ batchPending' = FALSE /\ pending' = {}
    <3>1. \A r \in requests' : ThisVisit(r)' => r.kind = "load"
      BY <1>1, <1>2, <1>3, <2>2 DEF ThisVisit
    <3> QED BY <2>2, <3>1 DEF Batches, Buttons
  <2> QED BY <2>1, <2>2
<1> QED BY <1>4, <1>6, <1>7 DEF Controls

LEMMA UnmountControls ==
    ASSUME Types, Controls, Unmount, screen' # "list", requests' \subseteq requests
    PROVE  Controls'
BY DEF Types, Controls, Unmount, Table, Batches, Buttons, Current, ThisVisit

LEMMA SendControls ==
    ASSUME Types, Controls, NEW kind, NEW items, NEW target,
           screen = "list", Send(kind, items, target),
           UNCHANGED <<screen, generation, opened, loading>>,
           \/ /\ kind = "batch" /\ ~batchPending /\ batchPending' = TRUE
              /\ UNCHANGED pending
           \/ /\ kind = "status" /\ DOMAIN items \subseteq Products
              /\ DOMAIN items \cap pending = {} /\ pending' = pending \cup DOMAIN items
              /\ UNCHANGED batchPending
    PROVE  Controls'
<1> DEFINE new == Request(kind, generation, stored, items, target)
<1>1. generation \in Nat /\ opened \in 0..generation /\ requests' = requests \cup {new}
    BY DEF Send, Types
<1>2. new.gen = generation /\ new.kind = kind /\ new.items = items
    BY DEF Request
<1> HIDE DEF new
<1>3. \A r \in requests' : r.gen \in 0..generation'
    BY <1>1, <1>2 DEF Controls
<1>4. \A r : (Current(r)' <=> Current(r)) /\ (ThisVisit(r)' <=> ThisVisit(r))
    BY DEF Current, ThisVisit
<1>5. ThisVisit(new)
    BY <1>1, <1>2 DEF ThisVisit
<1>6. Table'
    BY <1>1, <1>2, <1>4 DEF Table, Controls
<1>7. CASE kind = "batch" /\ ~batchPending /\ batchPending' = TRUE /\ UNCHANGED pending
  <2>1. Batches'
    BY <1>1, <1>2, <1>4, <1>5, <1>7 DEF Batches, Controls
  <2>2. Buttons'
    BY <1>1, <1>2, <1>4, <1>7 DEF Buttons, Controls
  <2> QED BY <1>3, <1>6, <2>1, <2>2 DEF Controls
<1>8. CASE /\ kind = "status" /\ DOMAIN items \subseteq Products
           /\ DOMAIN items \cap pending = {} /\ pending' = pending \cup DOMAIN items
           /\ UNCHANGED batchPending
  <2>1. Batches'
    BY <1>1, <1>2, <1>4, <1>8 DEF Batches, Controls
  <2>2. Buttons'
    <3> SUFFICES ASSUME NEW p \in Products PROVE Buttons!(p)'
        BY DEF Buttons
    <3>1. CASE p \in DOMAIN items
        BY <1>1, <1>2, <1>4, <1>5, <1>8, <3>1 DEF Buttons, Controls
    <3>2. CASE p \notin DOMAIN items
        BY <1>1, <1>2, <1>4, <1>8, <3>2 DEF Buttons, Controls
    <3> QED BY <3>1, <3>2
  <2> QED BY <1>3, <1>6, <2>1, <2>2 DEF Controls
<1> QED BY <1>7, <1>8

LEMMA AnsweredControls ==
    ASSUME Types, Controls, NEW r \in requests, NEW answer, NEW found, Answered(r, answer, found),
           UNCHANGED <<screen, generation, opened, loading, batchPending, pending>>
    PROVE  Controls'
<1> DEFINE new == [r EXCEPT !.answer = answer, !.rows = found]
<1>1. requests' = (requests \ {r}) \cup {new}
    BY DEF Answered
<1>2. new.gen = r.gen /\ new.kind = r.kind /\ new.items = r.items
    BY DEF Types, RequestSet
<1> HIDE DEF new
<1>3. \A q : (Current(q)' <=> Current(q)) /\ (ThisVisit(q)' <=> ThisVisit(q))
    BY DEF Current, ThisVisit
<1>4. (Current(new) <=> Current(r)) /\ (ThisVisit(new) <=> ThisVisit(r))
    BY <1>2 DEF Current, ThisVisit
<1>5. \A q \in requests' : q.gen \in 0..generation'
    BY <1>1, <1>2 DEF Controls
<1>6. Table'
    BY <1>1, <1>2, <1>3, <1>4 DEF Table, Controls
<1>7. Batches'
    BY <1>1, <1>2, <1>3, <1>4 DEF Batches, Controls
<1>8. Buttons'
    BY <1>1, <1>2, <1>3, <1>4 DEF Buttons, Controls
<1> QED BY <1>5, <1>6, <1>7, <1>8 DEF Controls

LEMMA DeliverControls == ASSUME Types, Controls, NEW r \in requests, Deliver(r) PROVE Controls'
<1>1. requests' = requests \ {r}
    BY DEF Deliver
<1>2. CASE r.answer = "unauthorized" /\ Ends(r.token)
  <2>1. Unmount /\ screen' = "login"
    BY <1>2 DEF Deliver, clearUnauthorizedSession
  <2> QED BY <1>1, <2>1, UnmountControls
<1>3. CASE ~(r.answer = "unauthorized" /\ Ends(r.token))
  <2>1. UNCHANGED <<screen, generation, opened>>
    BY <1>3 DEF Deliver, session
  <2>2. \A q : (Current(q)' <=> Current(q)) /\ (ThisVisit(q)' <=> ThisVisit(q))
    BY <2>1 DEF Current, ThisVisit
  <2>3. \A q \in requests' : q.gen \in 0..generation'
    BY <1>1, <2>1 DEF Controls
  <2>4. CASE r.kind = "load" /\ Loaded(r)
    <3>1. loading' = (loading /\ ~Current(r)) /\ UNCHANGED <<batchPending, pending>>
      BY <2>4 DEF Loaded
    <3>2. Table'
      BY <1>1, <2>2, <2>4, <3>1 DEF Table, Controls
    <3>3. Batches' /\ Buttons'
      BY <1>1, <2>2, <2>4, <3>1 DEF Batches, Buttons, Controls
    <3> QED BY <2>3, <3>2, <3>3 DEF Controls
  <2>5. CASE r.kind = "status" /\ StatusChanged(r)
    <3>1. /\ pending' = IF ThisVisit(r) THEN pending \ DOMAIN r.items ELSE pending
          /\ UNCHANGED <<loading, batchPending>>
      BY <2>5 DEF StatusChanged
    <3>2. Table' /\ Batches'
      BY <1>1, <2>2, <2>5, <3>1 DEF Table, Batches, Controls
    <3>3. Buttons'
      BY <1>1, <2>2, <2>5, <3>1 DEF Buttons, Controls
    <3> QED BY <2>3, <3>2, <3>3 DEF Controls
  <2>6. CASE r.kind = "batch" /\ BatchChanged(r)
    <3>1. batchPending' = (batchPending /\ ~ThisVisit(r)) /\ UNCHANGED <<loading, pending>>
      BY <2>6 DEF BatchChanged
    <3>2. Table' /\ Buttons'
      BY <1>1, <2>2, <2>6, <3>1 DEF Table, Buttons, Controls
    <3>3. Batches'
      BY <1>1, <2>2, <2>6, <3>1 DEF Batches, Controls
    <3> QED BY <2>3, <3>2, <3>3 DEF Controls
  <2> QED BY <1>3, <2>4, <2>5, <2>6 DEF Deliver
<1> QED BY <1>2, <1>3

LEMMA NextControls == ASSUME Types, Controls, [Next]_vars PROVE Controls'
<1>1. CASE UNCHANGED vars
    BY <1>1, StillControls DEF vars, session, page
<1>2. CASE SessionStep
    BY <1>2, StillControls DEF SessionStep, page, Reopen, handleSubmit, LoginServed, Expire
<1>3. CASE \E t \in Tokens : LoginAnswered(t)
  <2>1. PICK t \in Tokens : LoginAnswered(t)
    BY <1>3
  <2>2. CASE LoginFailed(t) /\ UNCHANGED <<page, requests, history>>
    BY <2>2, StillControls DEF LoginFailed, page
  <2>3. CASE LoggedIn(t, "away") /\ Unmount /\ UNCHANGED requests
    BY <2>3, UnmountControls DEF LoggedIn
  <2>4. CASE LoggedIn(t, "list") /\ screen # "list" /\ Mount(t)
    BY <2>4, LoadControls DEF LoggedIn, Mount
  <2>5. CASE LoggedIn(t, "list") /\ screen = "list" /\ Load(t)
             /\ UNCHANGED <<opened, confirming, pending, batchPending>>
    BY <2>5, LoadControls DEF LoggedIn
  <2>6. CASE LoggedIn(t, "list") /\ screen = "list" /\ UNCHANGED <<page, requests, history>>
    BY <2>6, StillControls DEF LoggedIn, page
  <2> QED BY <2>1, <2>2, <2>3, <2>4, <2>5, <2>6 DEF LoginAnswered
<1>4. CASE writeParams
    BY <1>4, LoadControls DEF writeParams, session
<1>5. CASE OpenList
    BY <1>5, LoadControls DEF OpenList, Goto, Mount
<1>6. CASE LeaveList
    BY <1>6, UnmountControls DEF LeaveList, Goto
<1>7. CASE \E p \in Products : Select(p) \/ OtherWrite(p)
    BY <1>7, StillControls DEF Select, OtherWrite, session, page
<1>8. ASSUME NEW p \in Products, NEW version, NEW target, changeStatus(p, version, target),
             screen = "list", UNCHANGED <<screen, generation, opened, loading, batchPending>>
      PROVE  Controls'
  <2>1. CASE p \in pending
    BY <1>8, <2>1, StillControls DEF changeStatus
  <2>2. CASE p \notin pending
    <3> DEFINE items == [q \in {p} |-> version]
    <3>1. /\ Send("status", items, target) /\ pending' = pending \cup {p}
          /\ DOMAIN items = {p}
      BY <1>8, <2>2 DEF changeStatus
    <3> HIDE DEF items
    <3> QED BY <1>8, <2>2, <3>1, SendControls
  <2> QED BY <2>1, <2>2
<1>9. CASE \E p \in Products, target \in Statuses : runAction(p, target)
  <2>1. PICK p \in Products, target \in Statuses : runAction(p, target)
    BY <1>9
  <2>2. screen = "list" /\ UNCHANGED <<screen, generation, opened, loading, batchPending>>
    BY <2>1 DEF runAction, Uncovered, session
  <2>3. CASE target = "penalized"
    BY <2>1, <2>2, <2>3, StillControls DEF runAction
  <2>4. CASE target # "penalized"
    <3>1. changeStatus(p, rows[p].version, target)
      BY <2>1, <2>4 DEF runAction
    <3> QED BY <1>8, <2>2, <3>1
  <2> QED BY <2>3, <2>4
<1>10. CASE \E target \in {"on_shelf", "off_shelf"} : batchChange(target)
  <2>1. PICK target \in {"on_shelf", "off_shelf"} : batchChange(target)
    BY <1>10
  <2> QED BY <2>1, SendControls DEF batchChange, Uncovered, session
<1>11. CASE Confirm
  <2>1. PICK c \in confirming : changeStatus(c.id, c.version, "penalized")
    BY <1>11 DEF Confirm
  <2>2. c.id \in Products
    BY <2>1 DEF Types
  <2> QED BY <1>8, <1>11, <2>1, <2>2 DEF Confirm, session
<1>12. CASE Cancel
    BY <1>12, StillControls DEF Cancel, session
<1>13. CASE \E r \in requests : Serve(r)
  <2>1. PICK r \in requests : Serve(r)
    BY <1>13
  <2>2. PICK answer, found : Answered(r, answer, found)
    BY <2>1 DEF Serve, Refused, Listed, Changed, Failed
  <2> QED BY <2>1, <2>2, AnsweredControls DEF Serve, session, page
<1>14. CASE \E r \in requests : Deliver(r)
    BY <1>14, DeliverControls
<1> QED BY <1>1, <1>2, <1>3, <1>4, <1>5, <1>6, <1>7, <1>9, <1>10, <1>11, <1>12, <1>13, <1>14
        DEF Next

-----------------------------------------------------------------------------
(* Every step preserves the types.                                          *)

LEMMA SessionStepTypes == ASSUME Types, SessionStep PROVE Types'
<1>1. SessionTypeOK'
  <2>1. \A t \in Tokens : /\ handleSubmit(t) => SessionTypeOK'
                          /\ Reopen => SessionTypeOK'
                          /\ LoginServed(t) => SessionTypeOK'
                          /\ Expire(t) => SessionTypeOK'
    BY SessionTyped DEF Screens
  <2>2. Reopen => SessionTypeOK'
    BY DEF Reopen, SessionTypeOK, Types
  <2> QED BY <2>1, <2>2 DEF SessionStep
<1>2. screen' = screen /\ stored' = stored
    BY DEF SessionStep, Reopen, handleSubmit, LoginServed, Expire
<1> QED BY <1>1, <1>2 DEF SessionStep, Types, page, history

LEMMA LoginTypes == ASSUME Types, NEW t \in Tokens, LoginAnswered(t) PROVE Types'
<1>1. product' = product
    BY DEF LoginAnswered
<1>2. CASE LoginFailed(t) /\ UNCHANGED <<page, requests, history>>
  <2>1. SessionTypeOK'
    BY <1>2, SessionTyped DEF Screens
  <2> QED BY <1>1, <1>2, <2>1 DEF LoginFailed, Types, page, history
<1>3. CASE LoggedIn(t, "away") /\ Unmount /\ UNCHANGED requests
  <2>1. SessionTypeOK'
    BY <1>3, SessionTyped DEF Screens
  <2>2. stored' # NoToken /\ screen' = "away"
    BY <1>3, ListAssumption DEF LoggedIn
  <2>3. loading' = FALSE
    BY <1>3 DEF Unmount
  <2> QED BY <1>1, <1>3, <2>1, <2>2, <2>3, UnmountTyped DEF Types
<1>4. CASE LoggedIn(t, "list") /\ screen # "list" /\ Mount(t)
  <2>1. SessionTypeOK'
    BY <1>4, SessionTyped DEF Screens
  <2>2. stored' # NoToken /\ screen' = "list"
    BY <1>4, ListAssumption DEF LoggedIn
  <2> QED BY <1>1, <1>4, <2>1, <2>2, MountTyped DEF Types
<1>5. CASE LoggedIn(t, "list") /\ screen = "list" /\ Load(t)
           /\ UNCHANGED <<opened, confirming, pending, batchPending>>
  <2>1. SessionTypeOK'
    BY <1>5, SessionTyped DEF Screens
  <2>2. stored' # NoToken /\ screen' = "list"
    BY <1>5, ListAssumption DEF LoggedIn
  <2>3. opened' \in 0..generation'
    BY <1>5, LoadTyped DEF Types
  <2> QED BY <1>1, <1>5, <2>1, <2>2, <2>3, LoadTyped DEF Types
<1>6. CASE LoggedIn(t, "list") /\ screen = "list" /\ UNCHANGED <<page, requests, history>>
  <2>1. SessionTypeOK'
    BY <1>6, SessionTyped DEF Screens
  <2>2. stored' # NoToken /\ screen' = "list"
    BY <1>6, ListAssumption DEF LoggedIn
  <2> QED BY <1>1, <1>6, <2>1, <2>2 DEF Types, page, history
<1> QED BY <1>2, <1>3, <1>4, <1>5, <1>6 DEF LoginAnswered

LEMMA PageTypes ==
    ASSUME Types, writeParams \/ OpenList \/ LeaveList PROVE Types'
<1>1. CASE writeParams
  <2>1. stored \in Tokens
    BY <1>1 DEF writeParams, Types, SessionTypeOK
  <2>2. Load(stored) /\ UNCHANGED session
    BY <1>1 DEF writeParams
  <2>3. opened' \in 0..generation'
    BY <1>1, <2>1, <2>2, LoadTyped DEF writeParams, Types
  <2> QED BY <1>1, <2>1, <2>2, <2>3, LoadTyped DEF writeParams, Types, session, SessionTypeOK
<1>2. CASE OpenList
  <2>1. stored \in Tokens
    BY <1>2 DEF OpenList, Types, SessionTypeOK
  <2>2. Mount(stored) /\ Goto("list")
    BY <1>2 DEF OpenList
  <2>3. SessionTypeOK' /\ stored' = stored /\ screen' = "list"
    BY <2>1, <2>2, SessionTyped DEF Goto, Screens
  <2>4. product' = product /\ stored # NoToken
    BY <1>2, <2>1, ListAssumption DEF OpenList
  <2> QED BY <2>1, <2>2, <2>3, <2>4, MountTyped DEF Types
<1>3. CASE LeaveList
  <2>1. stored \in Tokens
    BY <1>3 DEF LeaveList, Types, SessionTypeOK
  <2>2. Unmount /\ Goto("away") /\ UNCHANGED <<product, requests>>
    BY <1>3 DEF LeaveList
  <2>3. SessionTypeOK' /\ stored' = stored /\ screen' = "away" /\ stored # NoToken
    BY <2>1, <2>2, SessionTyped, ListAssumption DEF Goto, Screens
  <2>4. loading' = FALSE
    BY <2>2 DEF Unmount
  <2> QED BY <2>2, <2>3, <2>4, UnmountTyped DEF Types
<1> QED BY <1>1, <1>2, <1>3

LEMMA SendTyped ==
    ASSUME Types, NEW kind \in {"status", "batch"}, NEW items \in Partial(Nat),
           NEW target \in Statuses, screen = "list", Send(kind, items, target)
    PROVE  requests' \subseteq RequestSet
<1>1. stored \in Tokens /\ generation \in Nat
    BY DEF Types, SessionTypeOK
<1>2. Request(kind, generation, stored, items, target) \in RequestSet
    BY <1>1, EmptyIsPartial DEF Request, RequestSet
<1> QED BY <1>2 DEF Send, Types

LEMMA ChangeTyped ==
    ASSUME Types, NEW p \in Products, NEW version \in 1..MaxVersion, NEW target \in Statuses,
           screen = "list", changeStatus(p, version, target)
    PROVE  pending' \subseteq Products /\ requests' \subseteq RequestSet
<1>1. CASE p \in pending
    BY <1>1 DEF changeStatus, Types
<1>2. CASE p \notin pending
  <2> DEFINE items == [q \in {p} |-> version]
  <2>1. items \in Partial(Nat)
    <3>1. items \in [{p} -> Nat] /\ {p} \in SUBSET Products
        BY ListAssumption
    <3> QED BY <3>1, InPartial
  <2>2. Send("status", items, target) /\ pending' = pending \cup {p}
      BY <1>2 DEF changeStatus
  <2> HIDE DEF items
  <2>3. requests' \subseteq RequestSet
      BY <2>1, <2>2, SendTyped
  <2> QED BY <2>2, <2>3 DEF Types
<1> QED BY <1>1, <1>2

LEMMA RowTypes == ASSUME Types, NEW p \in DOMAIN rows
                  PROVE  p \in Products /\ rows[p] \in Row /\ rows[p].version \in 1..MaxVersion
<1>1. rows \in Partial(Row)
    BY DEF Types
<1>2. p \in Products /\ rows[p] \in Row
    BY <1>1, PartialIs
<1> QED BY <1>2 DEF Row

LEMMA OperatorTypes ==
    ASSUME Types, NEW p \in Products, NEW target \in Statuses,
           \/ Select(p) \/ OtherWrite(p) \/ runAction(p, target) \/ Confirm \/ Cancel
    PROVE  Types'
<1>1. CASE Select(p)
  <2>1. selected' \subseteq DOMAIN rows'
    BY <1>1 DEF Select, Types
  <2> QED BY <1>1, <2>1 DEF Select, Types, session, history, SessionTypeOK
<1>2. CASE OtherWrite(p)
  <2>1. product' \in [Products -> Row]
    BY <1>2, ListAssumption DEF OtherWrite, Types, Row, Statuses
  <2> QED BY <1>2, <2>1 DEF OtherWrite, Types, session, page, history, SessionTypeOK
<1>3. CASE runAction(p, target)
  <2>1. /\ screen = "list" /\ p \in DOMAIN rows
        /\ UNCHANGED <<session, product, generation, opened, rows, selected, loading,
                       batchPending, history>>
    BY <1>3 DEF runAction, Uncovered
  <2>2. rows[p].version \in 1..MaxVersion
    BY <2>1, RowTypes
  <2>3. CASE target = "penalized"
    <3>1. /\ confirming' = {[id |-> p, version |-> rows[p].version]}
          /\ UNCHANGED <<pending, requests>>
      BY <1>3, <2>3 DEF runAction
    <3>2. confirming' \subseteq [id : Products, version : 1..MaxVersion]
      BY <2>2, <3>1
    <3> QED BY <2>1, <3>1, <3>2 DEF Types, session, history, SessionTypeOK
  <2>4. CASE target # "penalized"
    <3>1. changeStatus(p, rows[p].version, target) /\ UNCHANGED confirming
      BY <1>3, <2>4 DEF runAction
    <3>2. pending' \subseteq Products /\ requests' \subseteq RequestSet
      BY <2>1, <2>2, <3>1, ChangeTyped
    <3> QED BY <2>1, <3>1, <3>2 DEF Types, session, history, SessionTypeOK
  <2> QED BY <2>3, <2>4
<1>4. CASE Confirm
  <2>1. PICK c \in confirming : changeStatus(c.id, c.version, "penalized")
    BY <1>4 DEF Confirm
  <2>2. c.id \in Products /\ c.version \in 1..MaxVersion
    BY <2>1 DEF Types
  <2>3. screen = "list" /\ "penalized" \in Statuses
    BY <1>4 DEF Confirm, Statuses
  <2>4. pending' \subseteq Products /\ requests' \subseteq RequestSet
    BY <2>1, <2>2, <2>3, ChangeTyped
  <2> QED BY <1>4, <2>4 DEF Confirm, Types, session, SessionTypeOK
<1>5. CASE Cancel
    BY <1>5 DEF Cancel, Types, session, history, SessionTypeOK
<1> QED BY <1>1, <1>2, <1>3, <1>4, <1>5

LEMMA BatchTypes ==
    ASSUME Types, NEW target \in {"on_shelf", "off_shelf"}, batchChange(target) PROVE Types'
<1> DEFINE items == [p \in selected |-> rows[p].version]
<1>1. items \in Partial(Nat)
  <2>1. \A p \in selected : p \in Products /\ rows[p].version \in Nat
    BY RowTypes, ListAssumption DEF Types
  <2>2. items \in [selected -> Nat] /\ selected \in SUBSET Products
    BY <2>1
  <2> QED BY <2>2, InPartial
<1>2. Send("batch", items, target) /\ screen = "list" /\ target \in Statuses
    BY DEF batchChange, Uncovered, Statuses
<1> HIDE DEF items
<1>3. requests' \subseteq RequestSet
    BY <1>1, <1>2, SendTyped
<1> QED BY <1>3 DEF batchChange, Types, session, history, SessionTypeOK

LEMMA ServeTypes == ASSUME Types, NEW r \in requests, Serve(r) PROVE Types'
<1>1. product' \in [Products -> Row] /\ requests' \subseteq RequestSet
  <2>1. NoRows \in Partial(Row)
    BY EmptyIsPartial
  <2>2. CASE Refused(r)
    BY <2>1, <2>2, AnsweredTyped DEF Refused, Types
  <2>3. CASE Failed(r)
    BY <2>1, <2>3, AnsweredTyped DEF Failed, Types
  <2>4. CASE Listed(r)
    <3>1. PICK found \in SUBSET Products : Answered(r, "ok", [p \in found |-> product[p]])
      BY <2>4 DEF Listed
    <3> DEFINE f == [p \in found |-> product[p]]
    <3>2. f \in [found -> Row]
      BY <3>1 DEF Types
    <3>3. f \in Partial(Row)
      BY <3>1, <3>2, InPartial
    <3>4. Answered(r, "ok", f)
      BY <3>1
    <3> HIDE DEF f
    <3> QED BY <2>4, <3>3, <3>4, AnsweredTyped DEF Listed, Types
  <2>5. CASE Changed(r)
    <3>1. r.items \in Partial(Nat) /\ r.target \in Statuses \cup {"none"}
      BY DEF Types, RequestSet
    <3>2. DOMAIN r.items \in SUBSET Products
      BY <3>1, PartialIs
    <3>3. \A p \in DOMAIN r.items : product[p].version + 1 \in 1..MaxVersion
      BY <2>5, <3>2, ListAssumption DEF Changed, Types, Row
    <3>4. \A p \in DOMAIN r.items : r.target \in Statuses
      BY <2>5 DEF Changed, MayMove, AllowedTransitions, Statuses
    <3>5. Moved(r) \in [DOMAIN r.items -> Row]
      BY <3>3, <3>4 DEF Moved, Row
    <3>6. Moved(r) \in Partial(Row) /\ \A p \in DOMAIN r.items : Moved(r)[p] \in Row
      BY <3>2, <3>5, InPartial
    <3>7. product' \in [Products -> Row]
      BY <2>5, <3>6 DEF Changed, Types
    <3>8. requests' \subseteq RequestSet
      BY <2>1, <2>5, <3>6, AnsweredTyped DEF Changed
    <3> QED BY <3>7, <3>8
  <2> QED BY <2>2, <2>3, <2>4, <2>5 DEF Serve
<1> QED BY <1>1 DEF Serve, Types, session, page, history, SessionTypeOK

LEMMA DeliverTypes == ASSUME Types, Controls, NEW r \in requests, Deliver(r) PROVE Types'
<1>1. r \in RequestSet /\ requests' \subseteq RequestSet /\ product' = product
    BY DEF Deliver, Types
<1>2. CASE r.answer = "unauthorized" /\ Ends(r.token)
  <2>1. clearUnauthorizedSession /\ Unmount
    BY <1>2 DEF Deliver
  <2>2. r.token \in Tokens
    BY <1>1 DEF RequestSet
  <2>3. SessionTypeOK' /\ stored' = NoToken /\ screen' = "login"
    BY <2>1, <2>2, SessionTyped DEF clearUnauthorizedSession, Screens
  <2>4. loading' = FALSE
    BY <2>1 DEF Unmount
  <2> QED BY <1>1, <2>1, <2>3, <2>4, UnmountTyped DEF Types
<1>3. CASE ~(r.answer = "unauthorized" /\ Ends(r.token))
  <2>1. UNCHANGED <<session, generation, opened, confirming, overtaken>>
    BY <1>3 DEF Deliver
  <2>2. /\ rows' \in Partial(Row) /\ selected' \subseteq DOMAIN rows'
        /\ loading' \in BOOLEAN /\ batchPending' \in BOOLEAN /\ pending' \subseteq Products
        /\ seen' \in [Products -> Nat]
        /\ loading' => rows' = NoRows
        /\ screen # "list" => rows' = NoRows
    <3>1. r.rows \in Partial(Row)
      BY <1>1 DEF RequestSet
    <3>2. Replaced(r) \in Partial(Row) /\ DOMAIN Replaced(r) = DOMAIN rows
      BY <1>1, ReplacedTyped
    <3>3. rows = NoRows => Replaced(r) = NoRows
      BY EmptyIsPartial DEF Replaced, NoRows
    <3>4. CASE r.kind = "load" /\ Loaded(r)
      <4>1. CASE Current(r) /\ r.answer = "ok"
        <5>1. /\ Show(r.rows) /\ loading' = FALSE /\ screen = "list"
              /\ UNCHANGED <<selected, pending, batchPending>>
          BY <3>4, <4>1 DEF Loaded, Current
        <5>2. rows' \in Partial(Row) /\ seen' \in [Products -> Nat]
          BY <3>1, <5>1, ShowTyped
        <5>3. loading
          BY <3>4, <4>1 DEF Controls, Table
        <5>4. selected = {}
          BY <5>3, EmptyIsPartial DEF Types
        <5> QED BY <5>1, <5>2, <5>4 DEF Types
      <4>2. CASE ~(Current(r) /\ r.answer = "ok")
        <5>1. /\ UNCHANGED <<rows, seen>>
              /\ loading' = (loading /\ ~Current(r))
              /\ UNCHANGED <<selected, pending, batchPending>>
          BY <3>4, <4>2 DEF Loaded
        <5> QED BY <5>1 DEF Types
      <4> QED BY <4>1, <4>2
    <3>5. CASE r.kind = "status" /\ StatusChanged(r)
      <4>1. rows' \in Partial(Row) /\ seen' \in [Products -> Nat] /\ DOMAIN rows' = DOMAIN rows
            /\ (rows = NoRows => rows' = NoRows)
        <5>1. CASE Show(Replaced(r))
          <6>1. \A s \in Partial(Row) : Show(s) => rows' \in Partial(Row) /\ seen' \in [Products -> Nat]
            BY ShowTyped
          <6> QED BY <3>2, <3>3, <5>1, <6>1 DEF Show
        <5>2. CASE UNCHANGED <<rows, seen>>
          BY <5>2 DEF Types
        <5> QED BY <3>5, <5>1, <5>2 DEF StatusChanged
      <4>2. pending' \subseteq Products /\ UNCHANGED <<selected, loading, batchPending>>
        BY <3>5 DEF StatusChanged, Types
      <4> QED BY <4>1, <4>2 DEF Types
    <3>6. CASE r.kind = "batch" /\ BatchChanged(r)
      <4>1. rows' \in Partial(Row) /\ seen' \in [Products -> Nat] /\ DOMAIN rows' = DOMAIN rows
            /\ (rows = NoRows => rows' = NoRows) /\ selected' \subseteq selected
        <5>1. CASE Show(Replaced(r)) /\ selected' = {}
          <6>1. \A s \in Partial(Row) : Show(s) => rows' \in Partial(Row) /\ seen' \in [Products -> Nat]
            BY ShowTyped
          <6> QED BY <3>2, <3>3, <5>1, <6>1 DEF Show
        <5>2. CASE UNCHANGED <<rows, selected, seen>>
          BY <5>2 DEF Types
        <5> QED BY <3>6, <5>1, <5>2 DEF BatchChanged
      <4>2. batchPending' \in BOOLEAN /\ UNCHANGED <<loading, pending>>
        BY <3>6 DEF BatchChanged, Types
      <4> QED BY <4>1, <4>2 DEF Types
    <3> QED BY <1>3, <3>4, <3>5, <3>6 DEF Deliver
  <2> QED BY <1>1, <2>1, <2>2 DEF Types, session, SessionTypeOK
<1> QED BY <1>2, <1>3

LEMMA NextTypes == ASSUME Types, Controls, [Next]_vars PROVE Types'
<1>1. CASE UNCHANGED vars
    BY <1>1 DEF vars, session, page, history, Types, SessionTypeOK
<1>2. CASE Next
  <2>1. CASE \E p \in Products : Select(p) \/ OtherWrite(p)
    BY <2>1, OperatorTypes DEF Statuses
  <2>2. CASE Confirm \/ Cancel
    <3>1. confirming # {}
      BY <2>2 DEF Confirm, Cancel
    <3>2. PICK c \in confirming : c.id \in Products
      BY <3>1 DEF Types
    <3>3. "penalized" \in Statuses
      BY DEF Statuses
    <3> QED BY <2>2, <3>2, <3>3, OperatorTypes
  <2> QED BY <1>2, <2>1, <2>2, SessionStepTypes, LoginTypes, PageTypes, OperatorTypes,
             BatchTypes, ServeTypes, DeliverTypes DEF Next
<1> QED BY <1>1, <1>2

\* The types hold; with them no page behind the gate is shown without a token, what is
\* selected is shown, and nothing is shown while loading.
THEOREM ListTypeCorrect == Spec => []TypeOK
<1>1. Types => TypeOK
  <2> SUFFICES ASSUME Types PROVE TypeOK
    OBVIOUS
  <2>1. DOMAIN rows \subseteq Products /\ \A p \in DOMAIN rows : rows[p] \in Row
    BY PartialIs DEF Types
  <2> QED BY <2>1 DEF Types, TypeOK
<1> QED BY <1>1, InitTypes, NextTypes, InitControls, NextControls, PTL DEF Spec

\* What is disabled matches the requests under way, one for one.
THEOREM ControlsMatch == Spec => []ControlsMatchRequests
<1>1. Init => Types /\ Controls
    BY InitTypes, InitControls
<1>2. Types /\ Controls /\ [Next]_vars => (Types /\ Controls)'
    BY NextTypes, NextControls
<1>3. Types /\ Controls => ControlsMatchRequests
    BY ControlsAre
<1> QED BY <1>1, <1>2, <1>3, PTL DEF Spec

-----------------------------------------------------------------------------
(* The session.                                                             *)

\* Only expired tokens are refused.
Refusals == \A r \in requests : r.answer = "unauthorized" => r.token \in expired

LEMMA NextRefusals == ASSUME Types, Refusals, [Next]_vars PROVE Refusals'
<1>1. expired \subseteq expired'
  <2>1. \A t \in Tokens : LoginAnswered(t) => expired' = expired
    BY DEF LoginAnswered, LoginFailed, LoggedIn
  <2>2. SessionStep => expired \subseteq expired'
    BY DEF SessionStep, Reopen, handleSubmit, LoginServed, Expire
  <2>3. \A r \in requests : Serve(r) \/ Deliver(r) => expired' = expired
    BY DEF Serve, Deliver, clearUnauthorizedSession, session
  <2>4. writeParams \/ OpenList \/ LeaveList \/ Confirm \/ Cancel => expired' = expired
    BY DEF writeParams, OpenList, LeaveList, Confirm, Cancel, Goto, session
  <2>5. /\ \A p \in Products : Select(p) \/ OtherWrite(p) => expired' = expired
        /\ \A p \in Products, target \in Statuses : runAction(p, target) => expired' = expired
        /\ \A target \in {"on_shelf", "off_shelf"} : batchChange(target) => expired' = expired
    BY DEF Select, OtherWrite, runAction, batchChange, session
  <2>6. UNCHANGED vars => expired' = expired
    BY DEF vars, session
  <2>7. Next => expired \subseteq expired'
    BY <2>1, <2>2, <2>3, <2>4, <2>5 DEF Next
  <2> QED BY <2>6, <2>7
<1>2. \A q \in requests' : q \in requests \/ q.answer = "none"
                          \/ (q.answer = "unauthorized" => q.token \in expired)
  <2>1. ASSUME NEW token, Load(token)
        PROVE  \A q \in requests' : q \in requests \/ q.answer = "none"
    BY <2>1 DEF Load, Request
  <2>2. ASSUME NEW kind, NEW items, NEW target, Send(kind, items, target)
        PROVE  \A q \in requests' : q \in requests \/ q.answer = "none"
    BY <2>2 DEF Send, Request
  <2>3. ASSUME NEW p, NEW version, NEW target, changeStatus(p, version, target)
        PROVE  \A q \in requests' : q \in requests \/ q.answer = "none"
    BY <2>2, <2>3 DEF changeStatus
  <2>4. CASE requests' \subseteq requests
    BY <2>4
  <2>5. ASSUME NEW t \in Tokens, LoginAnswered(t)
        PROVE  \A q \in requests' : q \in requests \/ q.answer = "none"
    BY <2>1, <2>5 DEF LoginAnswered, Mount
  <2>6. CASE writeParams \/ OpenList
    BY <2>1, <2>6 DEF writeParams, OpenList, Mount
  <2>7. CASE \E p \in Products, target \in Statuses : runAction(p, target)
    BY <2>3, <2>7 DEF runAction
  <2>8. CASE Confirm
    BY <2>3, <2>8 DEF Confirm
  <2>9. CASE \E target \in {"on_shelf", "off_shelf"} : batchChange(target)
    BY <2>2, <2>9 DEF batchChange
  <2>10. CASE \E r \in requests : Serve(r)
    <3>1. PICK r \in requests : Serve(r)
      BY <2>10
    <3>2. r \in RequestSet
      BY DEF Types
    <3>3. CASE Refused(r)
      BY <3>2, <3>3 DEF Refused, Answered, RequestSet
    <3>4. CASE ~Refused(r)
      <4>1. \E answer \in {"ok", "failed"} : \E found : Answered(r, answer, found)
        <5>1. CASE Listed(r) BY <5>1 DEF Listed
        <5>2. CASE Changed(r) BY <5>2 DEF Changed
        <5>3. CASE Failed(r) BY <5>3 DEF Failed
        <5> QED BY <3>1, <3>4, <5>1, <5>2, <5>3 DEF Serve
      <4> QED BY <3>2, <4>1 DEF Answered, RequestSet
    <3> QED BY <3>3, <3>4
  <2>11. CASE \E r \in requests : Deliver(r)
    BY <2>11 DEF Deliver
  <2>12. CASE SessionStep \/ LeaveList \/ Cancel \/ UNCHANGED vars
    BY <2>12 DEF SessionStep, LeaveList, Cancel, vars
  <2>13. CASE \E p \in Products : Select(p) \/ OtherWrite(p)
    BY <2>13 DEF Select, OtherWrite
  <2> QED BY <2>4, <2>5, <2>6, <2>7, <2>8, <2>9, <2>10, <2>11, <2>12, <2>13 DEF Next
<1> QED BY <1>1, <1>2 DEF Refusals

\* A step that ends the session delivers a refusal of the token in use.
LEMMA EndsJustified ==
    ASSUME Types, Refusals, [Next]_vars, stored # NoToken, stored' = NoToken
    PROVE  stored \in expired
<1>1. PICK r \in requests : Deliver(r)
  <2>1. \A t \in Tokens : ~LoginAnswered(t)
    BY ListAssumption DEF LoginAnswered, LoginFailed, LoggedIn
  <2>2. ~SessionStep
    BY DEF SessionStep, Reopen, handleSubmit, LoginServed, Expire
  <2>3. ~writeParams /\ ~OpenList /\ ~LeaveList /\ ~Confirm /\ ~Cancel
    BY DEF writeParams, OpenList, LeaveList, Confirm, Cancel, Goto, session
  <2>4. \A p \in Products, target \in Statuses :
            ~Select(p) /\ ~OtherWrite(p) /\ ~runAction(p, target)
    BY DEF Select, OtherWrite, runAction, session
  <2>5. \A target : ~batchChange(target)
    BY DEF batchChange, session
  <2>6. \A r : ~Serve(r)
    BY DEF Serve, session
  <2>7. ~UNCHANGED vars
    BY DEF vars, session
  <2>8. Statuses # {}
    BY DEF Statuses
  <2> QED BY <2>1, <2>2, <2>3, <2>4, <2>5, <2>6, <2>7, <2>8 DEF Next
<1>2. r.answer = "unauthorized" /\ Ends(r.token)
    BY <1>1 DEF Deliver, session
<1> QED BY <1>1, <1>2 DEF Ends, Refusals

\* Only a refusal of the token in use ends the session.
THEOREM SessionsKept == Spec => SessionKept
<1>1. Init => Types /\ Controls /\ Refusals
    BY InitTypes, InitControls DEF Init, Refusals
<1>2. Types /\ Controls /\ Refusals /\ [Next]_vars => (Types /\ Controls /\ Refusals)'
    BY NextTypes, NextControls, NextRefusals
<1>3. Types /\ Refusals /\ [Next]_vars
      => [stored # NoToken /\ stored' = NoToken => stored \in expired]_vars
    BY EndsJustified
<1> QED BY <1>1, <1>2, <1>3, PTL DEF Spec, SessionKept

-----------------------------------------------------------------------------
(* Versions.                                                                *)

\* What the page knows is never ahead of the server, and what it asks for it has shown.
Versions ==
    /\ \A p \in Products : seen[p] <= product[p].version
    /\ \A p \in DOMAIN rows : rows[p].version <= seen[p]
    /\ \A c \in confirming : c.version <= seen[c.id]
    /\ \A r \in requests : \A p \in DOMAIN r.items : r.items[p] <= seen[p]
    /\ \A r \in requests : \A p \in DOMAIN r.rows : r.rows[p].version <= product[p].version
    /\ \A r \in requests : r.answer # "ok" => r.rows = NoRows
    /\ \A r \in requests : r.kind # "load" => DOMAIN r.rows \subseteq DOMAIN r.items

\* The answers under way to the query shown are news: a change answers with the version
\* after the one shown, and there is one such answer for a product at most; while the
\* list is loading there is none, unless the operator confirmed a change meanwhile.
Fresh ==
    /\ \A r \in requests : loading /\ r.kind # "load" /\ Current(r) => DOMAIN r.items \subseteq overtaken
    /\ \A r \in requests : r.kind = "load" /\ Current(r) =>
           \A p \in DOMAIN r.rows : r.rows[p].version >= seen[p]
    /\ \A r \in requests : r.kind # "load" /\ Current(r) =>
           \A p \in DOMAIN r.rows \ overtaken : r.rows[p].version = seen[p] + 1
    /\ \A r1, r2 \in requests :
           r1.kind # "load" /\ Current(r1) /\ r2.kind # "load" /\ Current(r2) =>
               \A p \in DOMAIN r1.rows \ overtaken : p \in DOMAIN r2.rows => r1 = r2
    /\ RowsNeverGoBack

Safe == Versions /\ Fresh

LEMMA Numbers ==
    ASSUME Types
    PROVE  /\ \A p \in Products : seen[p] \in Nat /\ product[p].version \in Nat
           /\ \A p \in DOMAIN rows : p \in Products /\ rows[p].version \in Nat
           /\ \A r \in requests : \A p \in DOMAIN r.rows : p \in Products /\ r.rows[p].version \in Nat
           /\ \A r \in requests : \A p \in DOMAIN r.items : p \in Products /\ r.items[p] \in Nat
           /\ \A c \in confirming : c.id \in Products /\ c.version \in Nat
<1>1. \A row \in Row : row.version \in Nat
    BY ListAssumption DEF Row
<1>2. \A p \in Products : seen[p] \in Nat /\ product[p].version \in Nat
    BY <1>1 DEF Types
<1>3. \A p \in DOMAIN rows : p \in Products /\ rows[p].version \in Nat
    BY <1>1, RowTypes
<1>4. \A r \in requests : r.rows \in Partial(Row) /\ r.items \in Partial(Nat)
    BY DEF Types, RequestSet
<1>5. \A r \in requests : \A p \in DOMAIN r.rows : p \in Products /\ r.rows[p] \in Row
    BY <1>4, PartialIs
<1>6. \A r \in requests : \A p \in DOMAIN r.items : p \in Products /\ r.items[p] \in Nat
    BY <1>4, PartialIs
<1>7. \A c \in confirming : c.id \in Products /\ c.version \in Nat
    BY ListAssumption DEF Types
<1> QED BY <1>1, <1>2, <1>3, <1>5, <1>6, <1>7

LEMMA InitSafe == Init => Safe
<1> SUFFICES ASSUME Init PROVE Safe
    OBVIOUS
<1>1. rows = NoRows /\ DOMAIN NoRows = {} /\ requests = {} /\ confirming = {}
    BY EmptyIsPartial DEF Init
<1>2. \A p \in Products : seen[p] = 0 /\ product[p].version = 1
    BY DEF Init
<1> QED BY <1>1, <1>2 DEF Safe, Versions, Fresh, RowsNeverGoBack

\* A step that shows nothing new and sends nothing.
LEMMA QuietSafe ==
    ASSUME Types, Safe,
           UNCHANGED <<screen, generation, rows, loading, requests, history>>,
           \A p \in Products : product'[p].version \in Nat /\ product'[p].version >= product[p].version,
           \A c \in confirming' : c.version <= seen[c.id]
    PROVE  Safe'
<1>1. \A q : Current(q)' <=> Current(q)
    BY DEF Current
<1>2. seen' = seen /\ overtaken' = overtaken /\ requests' = requests /\ rows' = rows
    BY DEF history
<1>3. Versions'
    BY <1>2, Numbers DEF Versions, Safe
<1>4. Fresh'
    BY <1>1, <1>2 DEF Fresh, Safe, RowsNeverGoBack
<1> QED BY <1>3, <1>4 DEF Safe

LEMMA LoadSafe ==
    ASSUME Types, Controls, Safe, NEW token, Load(token), UNCHANGED product,
           confirming' \subseteq confirming
    PROVE  Safe'
<1> DEFINE new == Request("load", generation + 1, token, NoRows, "none")
<1>1. /\ rows' = NoRows /\ seen' = seen /\ generation' = generation + 1 /\ generation \in Nat
      /\ requests' = requests \cup {new}
    BY DEF Load, Types
<1>2. new.kind = "load" /\ new.items = NoRows /\ new.rows = NoRows /\ DOMAIN NoRows = {}
    BY EmptyIsPartial DEF Request
<1> HIDE DEF new
<1>3. \A r \in requests : ~Current(r)'
    BY <1>1 DEF Current, Controls
<1>4. Versions'
    BY <1>1, <1>2 DEF Versions, Safe
<1>5. Fresh'
    BY <1>1, <1>2, <1>3 DEF Fresh, RowsNeverGoBack
<1> QED BY <1>4, <1>5 DEF Safe

LEMMA UnmountSafe ==
    ASSUME Types, Safe, Unmount, screen' # "list", UNCHANGED product, requests' \subseteq requests
    PROVE  Safe'
<1>1. rows' = NoRows /\ seen' = seen /\ confirming' = {} /\ DOMAIN NoRows = {}
    BY EmptyIsPartial DEF Unmount
<1>2. \A q : ~Current(q)'
    BY DEF Current
<1>3. Versions'
    BY <1>1 DEF Versions, Safe
<1>4. Fresh'
    BY <1>1, <1>2 DEF Fresh, RowsNeverGoBack
<1> QED BY <1>3, <1>4 DEF Safe

LEMMA SendSafe ==
    ASSUME Types, Safe, NEW kind, NEW items, NEW target, Send(kind, items, target),
           kind # "load",
           \A p \in DOMAIN items : items[p] <= seen[p],
           UNCHANGED <<screen, generation, rows, loading, product, seen>>,
           confirming' \subseteq confirming,
           overtaken \subseteq overtaken', loading => DOMAIN items \subseteq overtaken'
    PROVE  Safe'
<1> DEFINE new == Request(kind, generation, stored, items, target)
<1>1. requests' = requests \cup {new}
    BY DEF Send
<1>2. /\ new.kind = kind /\ new.items = items /\ new.rows = NoRows /\ DOMAIN NoRows = {}
      /\ new.answer = "none"
    BY EmptyIsPartial DEF Request
<1> HIDE DEF new
<1>3. \A q : Current(q)' <=> Current(q)
    BY DEF Current
<1>4. Versions'
    BY <1>1, <1>2 DEF Versions, Safe
<1>5. Fresh'
    BY <1>1, <1>2, <1>3 DEF Fresh, Safe, RowsNeverGoBack
<1> QED BY <1>4, <1>5 DEF Safe

\* A change of rows at the versions named; its answer is ahead of what is shown.
LEMMA ServeSafe == ASSUME Types, Safe, NEW r \in requests, Serve(r) PROVE Safe'
<1>1. /\ r \in RequestSet /\ r.answer = "none" /\ r.rows = NoRows /\ DOMAIN NoRows = {}
      /\ UNCHANGED <<screen, generation, rows, loading, confirming, seen, overtaken>>
    BY EmptyIsPartial DEF Serve, Types, Safe, Versions, session, page, history
<1>2. PICK answer, found :
          /\ answer \in {"ok", "failed", "unauthorized"}
          /\ Answered(r, answer, found)
          /\ answer # "ok" => found = NoRows
          /\ \/ UNCHANGED product /\ found = NoRows
             \/ r.kind = "load" /\ Listed(r) /\ answer = "ok" /\ UNCHANGED product
                /\ \A p \in DOMAIN found : p \in Products /\ found[p] = product[p]
             \/ r.kind # "load" /\ Changed(r) /\ (found = Moved(r) \/ found = NoRows)
  <2>1. CASE Refused(r)
    BY <2>1 DEF Refused
  <2>2. CASE Failed(r)
    BY <2>2 DEF Failed
  <2>3. CASE Changed(r)
    BY <2>3 DEF Changed
  <2>4. CASE Listed(r)
    <3>1. PICK S \in SUBSET Products : Answered(r, "ok", [p \in S |-> product[p]])
      BY <2>4 DEF Listed
    <3> DEFINE f == [p \in S |-> product[p]]
    <3>2. \A p \in DOMAIN f : p \in Products /\ f[p] = product[p]
      OBVIOUS
    <3>3. Answered(r, "ok", f)
      BY <3>1
    <3> HIDE DEF f
    <3> QED BY <2>4, <3>2, <3>3 DEF Listed
  <2> QED BY <2>1, <2>2, <2>3, <2>4 DEF Serve
<1> DEFINE new == [r EXCEPT !.answer = answer, !.rows = found]
<1>3. requests' = (requests \ {r}) \cup {new}
    BY <1>2 DEF Answered
<1>4. /\ new.gen = r.gen /\ new.kind = r.kind /\ new.items = r.items
      /\ new.answer = answer /\ new.rows = found
    BY <1>1 DEF RequestSet
<1> HIDE DEF new
<1>5. /\ \A q : Current(q)' <=> Current(q)
      /\ Current(new) <=> Current(r)
    BY <1>1, <1>4 DEF Current
<1>6. CASE UNCHANGED product /\ found = NoRows
  <2>1. Versions'
    BY <1>1, <1>2, <1>3, <1>4, <1>6 DEF Versions, Safe
  <2>2. Fresh'
    BY <1>1, <1>3, <1>4, <1>5, <1>6 DEF Fresh, Safe, RowsNeverGoBack
  <2> QED BY <2>1, <2>2 DEF Safe
<1>7. CASE /\ r.kind = "load" /\ answer = "ok" /\ UNCHANGED product
           /\ \A p \in DOMAIN found : p \in Products /\ found[p] = product[p]
  <2>1. \A p \in DOMAIN found : seen[p] <= found[p].version /\ found[p].version <= product[p].version
    BY <1>7, Numbers DEF Safe, Versions
  <2>2. Versions'
    BY <1>1, <1>2, <1>3, <1>4, <1>7, <2>1 DEF Versions, Safe
  <2>3. \A p \in DOMAIN found : found[p].version >= seen[p]
    BY <1>7, <2>1, Numbers
  <2>4. Fresh'
    BY <1>1, <1>3, <1>4, <1>5, <1>7, <2>3 DEF Fresh, Safe, RowsNeverGoBack
  <2> QED BY <2>2, <2>4 DEF Safe
<1>8. CASE r.kind # "load" /\ Changed(r) /\ found = NoRows
  <2>1. \A p \in Products : product'[p].version \in Nat /\ product'[p].version >= product[p].version
    BY <1>8, Numbers DEF Changed, Moved, Types
  <2>2. Versions'
    BY <1>1, <1>2, <1>3, <1>4, <1>8, <2>1, Numbers DEF Versions, Safe
  <2>3. Fresh'
    BY <1>1, <1>3, <1>4, <1>5, <1>8 DEF Fresh, Safe, RowsNeverGoBack
  <2> QED BY <2>2, <2>3 DEF Safe
<1>9. CASE r.kind # "load" /\ Changed(r) /\ found = Moved(r)
  <2>1. \A p \in Products : product'[p].version \in Nat /\ product'[p].version >= product[p].version
    BY <1>9, Numbers DEF Changed, Moved, Types
  <2>2. \A p \in DOMAIN r.items : /\ p \in Products /\ product[p].version = r.items[p]
                                  /\ r.items[p] = seen[p]
    <3> SUFFICES ASSUME NEW p \in DOMAIN r.items
                 PROVE  /\ p \in Products /\ product[p].version = r.items[p]
                        /\ r.items[p] = seen[p]
      OBVIOUS
    <3>1. p \in Products /\ r.items[p] \in Nat /\ seen[p] \in Nat
      BY Numbers
    <3>2. product[p].version = r.items[p]
      BY <1>9 DEF Changed, MayMove
    <3>3. seen[p] <= product[p].version /\ r.items[p] <= seen[p]
      BY <3>1 DEF Safe, Versions
    <3> QED BY <3>1, <3>2, <3>3
  <2>3. /\ DOMAIN found = DOMAIN r.items
        /\ \A p \in DOMAIN found : /\ found[p].version = seen[p] + 1
                                   /\ product'[p].version = found[p].version
    BY <1>9, <2>2 DEF Changed, Moved
  <2>4. Versions'
    <3>1. \A q \in requests' : \A p \in DOMAIN q.rows : q.rows[p].version <= product'[p].version
      <4>1. \A q \in requests : \A p \in DOMAIN q.rows : q.rows[p].version <= product'[p].version
        BY <2>1, Numbers DEF Versions, Safe
      <4>2. \A p \in DOMAIN found : found[p].version <= product'[p].version
        BY <2>1, <2>2, <2>3
      <4> QED BY <1>3, <1>4, <4>1, <4>2
    <3>2. \A p \in Products : seen'[p] <= product'[p].version
      BY <1>1, <2>1, Numbers DEF Versions, Safe
    <3>3. found # NoRows => answer = "ok"
      BY <1>2
    <3> QED BY <1>1, <1>3, <1>4, <2>3, <3>1, <3>2, <3>3 DEF Versions, Safe
  <2>5. \A q \in requests : \A p \in DOMAIN r.items : 
            q.kind # "load" /\ Current(q) /\ p \in DOMAIN q.rows => p \in overtaken
    BY <2>2, Numbers DEF Safe, Versions, Fresh
  <2>6. Fresh'
    <3>1. \A q \in requests' : loading /\ q.kind # "load" /\ Current(q) => DOMAIN q.items \subseteq overtaken
      BY <1>3, <1>4, <1>5 DEF Fresh, Safe
    <3>2. \A q \in requests' : q.kind = "load" /\ Current(q) =>
              \A p \in DOMAIN q.rows : q.rows[p].version >= seen[p]
      BY <1>3, <1>4, <1>9 DEF Fresh, Safe
    <3>3. \A q \in requests' : q.kind # "load" /\ Current(q) =>
              \A p \in DOMAIN q.rows \ overtaken : q.rows[p].version = seen[p] + 1
      BY <1>3, <1>4, <1>5, <2>3 DEF Fresh, Safe
    <3>4. \A r1, r2 \in requests' :
              r1.kind # "load" /\ Current(r1) /\ r2.kind # "load" /\ Current(r2) =>
                  \A p \in DOMAIN r1.rows \ overtaken : p \in DOMAIN r2.rows => r1 = r2
      BY <1>3, <1>4, <1>5, <2>3, <2>5 DEF Fresh, Safe
    <3> QED BY <1>1, <1>5, <3>1, <3>2, <3>3, <3>4 DEF Fresh, Safe, RowsNeverGoBack
  <2> QED BY <2>4, <2>6 DEF Safe
<1> QED BY <1>2, <1>6, <1>7, <1>8, <1>9

\* An answer is delivered: what it shows is at least as new as what was shown.
LEMMA DeliverSafe == ASSUME Types, Controls, Safe, NEW r \in requests, Deliver(r) PROVE Safe'
<1>1. requests' = requests \ {r} /\ product' = product
    BY DEF Deliver
<1>2. CASE r.answer = "unauthorized" /\ Ends(r.token)
  <2>1. Unmount /\ screen' = "login"
    BY <1>2 DEF Deliver, clearUnauthorizedSession
  <2> QED BY <1>1, <2>1, UnmountSafe
<1>3. CASE ~(r.answer = "unauthorized" /\ Ends(r.token))
  <2>1. UNCHANGED <<screen, generation, confirming, overtaken>>
    BY <1>3 DEF Deliver, session
  <2>2. \A q : Current(q)' <=> Current(q)
    BY <2>1 DEF Current
  <2>3. loading' => loading
    BY <1>3 DEF Deliver, Loaded, StatusChanged, BatchChanged
  <2>4. CASE UNCHANGED <<rows, seen>>
    <3>1. Versions'
      BY <1>1, <2>1, <2>4 DEF Versions, Safe
    <3>2. Fresh'
      BY <1>1, <2>1, <2>2, <2>3, <2>4 DEF Fresh, Safe, RowsNeverGoBack
    <3> QED BY <3>1, <3>2 DEF Safe
  <2>5. ASSUME NEW s, Show(s), DOMAIN s \subseteq Products,
               \A p \in DOMAIN s : /\ s[p].version \in Nat /\ s[p].version <= product[p].version
                                   /\ p \notin overtaken => s[p].version >= seen[p],
               ~loading',
               \A q \in requests' : Current(q) => q.kind # "load",
               \A q \in requests' : q.kind # "load" /\ Current(q) =>
                   \A p \in DOMAIN q.rows \ overtaken : p \in DOMAIN s => s[p].version = seen[p]
        PROVE  Safe'
    <3>1. /\ rows' = s
          /\ \A p \in Products :
                 seen'[p] = IF p \in DOMAIN s /\ s[p].version > seen[p] THEN s[p].version ELSE seen[p]
      BY <2>5 DEF Show
    <3>2. \A p \in Products : /\ seen[p] \in Nat /\ seen'[p] \in Nat /\ seen[p] <= seen'[p]
                              /\ seen'[p] <= product[p].version
      BY <2>5, <3>1, Numbers DEF Safe, Versions
    <3>3. \A p \in DOMAIN s : /\ s[p].version <= seen'[p]
                              /\ p \notin overtaken => s[p].version = seen'[p]
      BY <2>5, <3>1, Numbers
    <3>4. \A q \in requests : \A p \in DOMAIN q.items : q.items[p] <= seen'[p]
      BY <3>2, Numbers DEF Safe, Versions
    <3>5. \A c \in confirming : c.version <= seen'[c.id]
      BY <3>2, Numbers DEF Safe, Versions
    <3>6. Versions'
      BY <1>1, <2>1, <3>1, <3>2, <3>3, <3>4, <3>5 DEF Versions, Safe
    <3>7. \A q \in requests' : q.kind # "load" /\ Current(q) =>
              \A p \in DOMAIN q.rows \ overtaken : q.rows[p].version = seen'[p] + 1
      <4> SUFFICES ASSUME NEW q \in requests', q.kind # "load", Current(q),
                          NEW p \in DOMAIN q.rows \ overtaken
                   PROVE  q.rows[p].version = seen'[p] + 1
        OBVIOUS
      <4>1. p \in Products /\ q.rows[p].version = seen[p] + 1
        BY <1>1, Numbers DEF Safe, Fresh
      <4>2. p \in DOMAIN s => s[p].version = seen[p]
        BY <2>5
      <4>3. seen'[p] = seen[p]
        BY <3>1, <4>1, <4>2, Numbers
      <4> QED BY <4>1, <4>3
    <3>8. \A p \in DOMAIN s \ overtaken : s[p].version >= seen'[p]
      BY <2>5, <3>2, <3>3
    <3>9. Fresh'
      BY <1>1, <2>1, <2>2, <2>5, <3>1, <3>7, <3>8 DEF Fresh, Safe, RowsNeverGoBack
    <3> QED BY <3>6, <3>9 DEF Safe
  <2>6. CASE r.kind = "load" /\ Loaded(r) /\ Current(r) /\ r.answer = "ok"
    <3>1. Show(r.rows) /\ loading' = FALSE /\ loading
      BY <2>6 DEF Loaded, Controls, Table
    <3>2. \A p \in DOMAIN r.rows : /\ p \in Products /\ r.rows[p].version \in Nat
                                   /\ r.rows[p].version <= product[p].version
                                   /\ r.rows[p].version >= seen[p]
      BY <2>6, Numbers DEF Safe, Versions, Fresh
    <3>3. \A q \in requests' : Current(q) => q.kind # "load"
      BY <1>1, <2>6 DEF Controls, Table
    <3>4. \A q \in requests' : q.kind # "load" /\ Current(q) => DOMAIN q.rows \subseteq overtaken
      BY <1>1, <3>1 DEF Safe, Fresh, Versions
    <3> QED BY <2>5, <3>1, <3>2, <3>3, <3>4
  <2>7. CASE r.kind # "load" /\ Current(r) /\ Show(Replaced(r)) /\ loading' = loading
    <3>1. CASE loading
      <4>1. rows = NoRows /\ DOMAIN NoRows = {}
        BY <3>1, EmptyIsPartial DEF Types
      <4>2. Replaced(r) = NoRows
        BY <4>1 DEF Replaced, NoRows
      <4>3. UNCHANGED rows /\ \A p \in Products : seen'[p] = seen[p]
        BY <2>7, <4>1, <4>2 DEF Show
      <4>4. seen' = seen
        BY <2>7, <4>3 DEF Show, Types
      <4> QED BY <2>4, <4>3, <4>4
    <3>2. CASE ~loading
      <4> DEFINE s == Replaced(r)
      <4>1. /\ DOMAIN s = DOMAIN rows
            /\ \A p \in DOMAIN s : s[p] = IF p \in DOMAIN r.rows THEN r.rows[p] ELSE rows[p]
        BY DEF Replaced
      <4>2. Show(s)
        BY <2>7
      <4> HIDE DEF s
      <4>3. \A p \in DOMAIN r.rows \ overtaken : r.rows[p].version = seen[p] + 1
        BY <2>7 DEF Safe, Fresh
      <4>4. \A p \in DOMAIN rows : /\ p \in Products /\ seen[p] \in Nat
                                   /\ rows[p].version \in Nat /\ rows[p].version <= seen[p]
                                   /\ seen[p] <= product[p].version /\ product[p].version \in Nat
                                   /\ p \notin overtaken => rows[p].version >= seen[p]
        BY Numbers DEF Safe, Versions, Fresh, RowsNeverGoBack
      <4>5. \A p \in DOMAIN r.rows : r.rows[p].version \in Nat /\ r.rows[p].version <= product[p].version
        BY Numbers DEF Safe, Versions
      <4>6. \A p \in DOMAIN s : /\ p \in Products
                                /\ s[p].version \in Nat /\ s[p].version <= product[p].version
                                /\ p \notin overtaken => s[p].version >= seen[p]
        BY <4>1, <4>3, <4>4, <4>5
      <4>7. \A q \in requests' : Current(q) => q.kind # "load"
        BY <1>1, <3>2 DEF Controls, Table
      <4>8. \A q \in requests' : q.kind # "load" /\ Current(q) =>
                \A p \in DOMAIN q.rows \ overtaken : p \in DOMAIN s => s[p].version = seen[p]
        <5> SUFFICES ASSUME NEW q \in requests', q.kind # "load", Current(q),
                            NEW p \in DOMAIN q.rows \ overtaken, p \in DOMAIN s
                     PROVE  s[p].version = seen[p]
          OBVIOUS
        <5>1. p \notin DOMAIN r.rows
          BY <1>1, <2>7 DEF Safe, Fresh
        <5> QED BY <4>1, <4>4, <5>1
      <4> QED BY <2>5, <2>7, <3>2, <4>2, <4>6, <4>7, <4>8
    <3> QED BY <3>1, <3>2 DEF Types
  <2>8. CASE r.kind = "load" /\ Loaded(r)
    BY <2>4, <2>6, <2>8 DEF Loaded
  <2>9. CASE r.kind = "status" /\ StatusChanged(r)
    BY <2>4, <2>7, <2>9 DEF StatusChanged
  <2>10. CASE r.kind = "batch" /\ BatchChanged(r)
    BY <2>4, <2>7, <2>10 DEF BatchChanged
  <2> QED BY <1>3, <2>8, <2>9, <2>10 DEF Deliver
<1> QED BY <1>2, <1>3

LEMMA NextSafe == ASSUME Types, Controls, Safe, [Next]_vars PROVE Safe'
<1>1. ASSUME UNCHANGED <<screen, generation, rows, loading, requests, history, product>>,
             \A c \in confirming' : c.version <= seen[c.id]
      PROVE  Safe'
    BY <1>1, QuietSafe, Numbers
<1>2. \A c \in confirming : c.version <= seen[c.id]
    BY DEF Safe, Versions
<1>3. CASE SessionStep \/ UNCHANGED vars
    BY <1>1, <1>2, <1>3 DEF SessionStep, vars, session, page, Reopen, handleSubmit, LoginServed, Expire
<1>4. CASE \E t \in Tokens : LoginAnswered(t)
  <2>1. PICK t \in Tokens : LoginAnswered(t)
    BY <1>4
  <2>2. product' = product
    BY <2>1 DEF LoginAnswered
  <2>3. CASE LoginFailed(t) /\ UNCHANGED <<page, requests, history>>
    BY <1>1, <1>2, <2>2, <2>3 DEF LoginFailed, page
  <2>4. CASE LoggedIn(t, "away") /\ Unmount /\ UNCHANGED requests
    BY <2>2, <2>4, UnmountSafe DEF LoggedIn
  <2>5. CASE LoggedIn(t, "list") /\ screen # "list" /\ Mount(t)
    BY <2>2, <2>5, LoadSafe DEF Mount
  <2>6. CASE LoggedIn(t, "list") /\ screen = "list" /\ Load(t)
             /\ UNCHANGED <<opened, confirming, pending, batchPending>>
    BY <2>2, <2>6, LoadSafe
  <2>7. CASE LoggedIn(t, "list") /\ screen = "list" /\ UNCHANGED <<page, requests, history>>
    BY <1>1, <1>2, <2>2, <2>7 DEF LoggedIn, page
  <2> QED BY <2>1, <2>3, <2>4, <2>5, <2>6, <2>7 DEF LoginAnswered
<1>5. CASE writeParams \/ OpenList
    BY <1>5, LoadSafe DEF writeParams, OpenList, Mount
<1>6. CASE LeaveList
    BY <1>6, UnmountSafe DEF LeaveList, Goto
<1>7. CASE \E p \in Products : Select(p)
    BY <1>1, <1>2, <1>7 DEF Select, session
<1>8. CASE \E p \in Products : OtherWrite(p)
  <2>1. PICK p \in Products : OtherWrite(p)
    BY <1>8
  <2>2. \A q \in Products : product'[q].version \in Nat /\ product'[q].version >= product[q].version
    BY <2>1, Numbers DEF OtherWrite, Types
  <2>3. UNCHANGED <<screen, generation, rows, loading, requests, history, confirming>>
    BY <2>1 DEF OtherWrite, session, page
  <2> QED BY <1>2, <2>2, <2>3, QuietSafe
<1>9. ASSUME NEW p \in Products, NEW version, NEW target, changeStatus(p, version, target),
             version <= seen[p], confirming' \subseteq confirming,
             UNCHANGED <<screen, generation, rows, loading, product, seen>>,
             overtaken \subseteq overtaken', loading => p \in overtaken',
             ~loading => overtaken' = overtaken
      PROVE  Safe'
  <2>1. CASE p \notin pending
    <3> DEFINE items == [q \in {p} |-> version]
    <3>1. Send("status", items, target) /\ DOMAIN items = {p} /\ items[p] = version
      BY <1>9, <2>1 DEF changeStatus
    <3> HIDE DEF items
    <3>2. /\ \A q \in DOMAIN items : items[q] <= seen[q]
          /\ loading => DOMAIN items \subseteq overtaken'
      BY <1>9, <3>1
    <3> QED BY <1>9, <3>1, <3>2, SendSafe
  <2>2. CASE p \in pending
    <3>1. requests' = requests
      BY <1>9, <2>2 DEF changeStatus
    <3>2. \A q : Current(q)' <=> Current(q)
      BY <1>9 DEF Current
    <3>3. Versions'
      BY <1>9, <3>1 DEF Versions, Safe
    <3>4. Fresh'
      BY <1>9, <3>1, <3>2 DEF Fresh, Safe, RowsNeverGoBack
    <3> QED BY <3>3, <3>4 DEF Safe
  <2> QED BY <2>1, <2>2
<1>10. ASSUME NEW p \in DOMAIN rows
       PROVE  p \in Products /\ rows[p].version <= seen[p] /\ ~loading
    BY <1>10, Numbers, EmptyIsPartial DEF Safe, Versions, Types
<1>11. CASE \E p \in Products, target \in Statuses : runAction(p, target)
  <2>1. PICK p \in Products, target \in Statuses : runAction(p, target)
    BY <1>11
  <2>2. /\ p \in DOMAIN rows
        /\ UNCHANGED <<screen, generation, rows, loading, product, history, seen, overtaken>>
    BY <2>1 DEF runAction, session, history
  <2>3. rows[p].version <= seen[p] /\ ~loading
    BY <1>10, <2>2
  <2>4. CASE target = "penalized"
    <3>1. /\ confirming' = {[id |-> p, version |-> rows[p].version]}
          /\ requests' = requests
      BY <2>1, <2>4 DEF runAction
    <3> QED BY <1>1, <2>2, <2>3, <3>1
  <2>5. CASE target # "penalized"
    <3>1. changeStatus(p, rows[p].version, target) /\ confirming' = confirming
      BY <2>1, <2>5 DEF runAction
    <3> QED BY <1>9, <2>2, <2>3, <3>1
  <2> QED BY <2>4, <2>5
<1>12. CASE \E target \in {"on_shelf", "off_shelf"} : batchChange(target)
  <2>1. PICK target \in {"on_shelf", "off_shelf"} : batchChange(target)
    BY <1>12
  <2> DEFINE items == [p \in selected |-> rows[p].version]
  <2>2. Send("batch", items, target) /\ DOMAIN items = selected
    BY <2>1 DEF batchChange
  <2>3. \A p \in DOMAIN items : items[p] <= seen[p]
    BY <1>10 DEF Types
  <2>4. ~loading
    BY <1>10, <2>1 DEF batchChange, Types
  <2> HIDE DEF items
  <2> QED BY <2>1, <2>2, <2>3, <2>4, SendSafe DEF batchChange, session, history
<1>13. CASE Confirm
  <2>1. PICK c \in confirming :
            /\ changeStatus(c.id, c.version, "penalized")
            /\ overtaken' = IF loading THEN overtaken \cup {c.id} ELSE overtaken
    BY <1>13 DEF Confirm
  <2>2. c.id \in Products /\ c.version <= seen[c.id]
    BY <1>2, <2>1, Numbers
  <2>3. confirming' \subseteq confirming /\ UNCHANGED <<screen, generation, rows, loading, product, seen>>
    BY <1>13 DEF Confirm, session
  <2>4. /\ overtaken \subseteq overtaken' /\ (loading => c.id \in overtaken')
        /\ (~loading => overtaken' = overtaken)
    BY <2>1
  <2> QED BY <1>9, <2>1, <2>2, <2>3, <2>4
<1>14. CASE Cancel
    BY <1>1, <1>14 DEF Cancel, session
<1>15. CASE \E r \in requests : Serve(r)
    BY <1>15, ServeSafe
<1>16. CASE \E r \in requests : Deliver(r)
    BY <1>16, DeliverSafe
<1> QED BY <1>3, <1>4, <1>5, <1>6, <1>7, <1>8, <1>11, <1>12, <1>13, <1>14, <1>15, <1>16 DEF Next

\* The list never shows an older version of a product than one it has shown.
THEOREM RowsStayFresh == Spec => []RowsNeverGoBack
<1>1. Init => Types /\ Controls /\ Safe
    BY InitTypes, InitControls, InitSafe
<1>2. Types /\ Controls /\ Safe /\ [Next]_vars => (Types /\ Controls /\ Safe)'
    BY NextTypes, NextControls, NextSafe
<1>3. Safe => RowsNeverGoBack
    BY DEF Safe, Fresh
<1> QED BY <1>1, <1>2, <1>3, PTL DEF Spec

-----------------------------------------------------------------------------
(* Statuses: a version tells the status.                                    *)

TrueRow(stock, p, row) == row.version = stock[p].version => row.status = stock[p].status
LegalMove(stock, p, version, target) ==
    stock[p].version = version => <<stock[p].status, target>> \in AllowedTransitions

\* A row of the version the server has is the server's row, wherever the page has it from;
\* and what the page asks for, or is about to, fits the version it names.
Legal ==
    /\ \A p \in DOMAIN rows : TrueRow(product, p, rows[p])
    /\ \A r \in requests : \A p \in DOMAIN r.rows : TrueRow(product, p, r.rows[p])
    /\ \A c \in confirming : LegalMove(product, c.id, c.version, "penalized")
    /\ \A r \in requests : r.kind # "load" =>
           \A p \in DOMAIN r.items : LegalMove(product, p, r.items[p], r.target)

\* A product only ever gets the next version.
Moves ==
    \A p \in Products : product'[p] = product[p] \/ product'[p].version = product[p].version + 1

\* The two tables agree (status.ts, domain.py).
LEMMA SameTables ==
    ASSUME NEW source \in Statuses, NEW target, canTransition(source, target)
    PROVE  <<source, target>> \in AllowedTransitions
BY DEF Statuses, canTransition, transitionActions, AllowedTransitions

\* What the page knows is never ahead of the server, so it stays true of the next versions.
LEMMA StillLegal ==
    ASSUME Types, Safe, Legal, Moves
    PROVE  /\ \A p \in DOMAIN rows : TrueRow(product', p, rows[p])
           /\ \A r \in requests : \A p \in DOMAIN r.rows : TrueRow(product', p, r.rows[p])
           /\ \A c \in confirming : LegalMove(product', c.id, c.version, "penalized")
           /\ \A r \in requests : r.kind # "load" =>
                  \A p \in DOMAIN r.items : LegalMove(product', p, r.items[p], r.target)
<1>1. \A p \in Products : seen[p] \in Nat /\ product[p].version \in Nat
                          /\ seen[p] <= product[p].version
  BY Numbers DEF Safe, Versions
<1>2. ASSUME NEW p \in DOMAIN rows PROVE TrueRow(product', p, rows[p])
  <2>1. p \in Products /\ rows[p].version \in Nat /\ rows[p].version <= seen[p]
    BY Numbers DEF Safe, Versions
  <2>2. rows[p].version <= product[p].version BY <1>1, <2>1
  <2> QED BY <1>1, <2>1, <2>2 DEF Moves, Legal, TrueRow
<1>3. ASSUME NEW r \in requests, NEW p \in DOMAIN r.rows PROVE TrueRow(product', p, r.rows[p])
  <2>1. p \in Products /\ r.rows[p].version \in Nat /\ r.rows[p].version <= product[p].version
    BY Numbers DEF Safe, Versions
  <2> QED BY <1>1, <2>1 DEF Moves, Legal, TrueRow
<1>4. ASSUME NEW c \in confirming PROVE LegalMove(product', c.id, c.version, "penalized")
  <2>1. c.id \in Products /\ c.version \in Nat /\ c.version <= seen[c.id]
    BY Numbers DEF Safe, Versions
  <2>2. c.version <= product[c.id].version BY <1>1, <2>1
  <2> QED BY <1>1, <2>1, <2>2 DEF Moves, Legal, LegalMove
<1>5. ASSUME NEW r \in requests, r.kind # "load", NEW p \in DOMAIN r.items
      PROVE  LegalMove(product', p, r.items[p], r.target)
  <2>1. p \in Products /\ r.items[p] \in Nat /\ r.items[p] <= seen[p]
    BY Numbers DEF Safe, Versions
  <2>2. r.items[p] <= product[p].version BY <1>1, <2>1
  <2> QED BY <1>1, <1>5, <2>1, <2>2 DEF Moves, Legal, LegalMove
<1> QED BY <1>2, <1>3, <1>4, <1>5

LEMMA InitLegal == Init => Legal
<1> SUFFICES ASSUME Init PROVE Legal OBVIOUS
<1>1. DOMAIN rows = {} /\ requests = {} /\ confirming = {} BY EmptyIsPartial DEF Init
<1> QED BY <1>1 DEF Legal

\* Steps that send nothing and ask nothing.
LEMMA QuietLegal ==
    ASSUME Types, Safe, Legal, Moves, confirming' \subseteq confirming,
           requests' \subseteq requests,
           \A p \in DOMAIN rows' :
               \/ p \in DOMAIN rows /\ rows'[p] = rows[p]
               \/ \E r \in requests : p \in DOMAIN r.rows /\ rows'[p] = r.rows[p]
    PROVE  Legal'
<1>1. \A p \in DOMAIN rows' : TrueRow(product', p, rows'[p])
  BY StillLegal
<1> QED BY <1>1, StillLegal DEF Legal

\* Steps that send a request.
LEMMA SendLegal ==
    ASSUME Types, Safe, Legal, UNCHANGED product, confirming' \subseteq confirming,
           rows' = rows \/ rows' = NoRows,
           NEW kind, NEW gen, NEW token, NEW items, NEW target,
           requests' = requests \cup {Request(kind, gen, token, items, target)},
           kind # "load" => \A p \in DOMAIN items : LegalMove(product, p, items[p], target)
    PROVE  Legal'
<1> DEFINE new == Request(kind, gen, token, items, target)
<1>1. /\ new.kind = kind /\ new.items = items /\ new.target = target
      /\ new.rows = NoRows /\ DOMAIN NoRows = {}
  BY EmptyIsPartial DEF Request
<1>2. requests' = requests \cup {new} OBVIOUS
<1> HIDE DEF new
<1> QED BY <1>1, <1>2 DEF Legal

LEMMA ServeLegal == ASSUME Types, Safe, Legal, NEW r \in requests, Serve(r) PROVE Legal'
<1>1. UNCHANGED <<rows, confirming>> BY DEF Serve, page
<1>2. PICK answer, found :
          /\ Answered(r, answer, found)
          /\ \A p \in DOMAIN found : p \in Products /\ found[p] = product'[p]
          /\ Moves
  <2>1. CASE Refused(r) \/ Failed(r)
    BY <2>1, EmptyIsPartial DEF Refused, Failed, Moves
  <2>2. CASE Listed(r)
    <3>1. PICK S \in SUBSET Products : Answered(r, "ok", [p \in S |-> product[p]])
      BY <2>2 DEF Listed
    <3> DEFINE f == [p \in S |-> product[p]]
    <3>2. product' = product BY <2>2 DEF Listed
    <3>3. \A p \in DOMAIN f : p \in Products /\ f[p] = product'[p] BY <3>2
    <3>4. Answered(r, "ok", f) BY <3>1
    <3> HIDE DEF f
    <3> QED BY <3>2, <3>3, <3>4 DEF Moves
  <2>3. CASE Changed(r)
    <3>1. product' = [p \in Products |-> IF p \in DOMAIN r.items THEN Moved(r)[p] ELSE product[p]]
      BY <2>3 DEF Changed
    <3>2. Moves BY <3>1 DEF Moves, Moved
    <3>3. \A p \in DOMAIN r.items : p \in Products BY Numbers
    <3>4. \A p \in DOMAIN Moved(r) : p \in Products /\ Moved(r)[p] = product'[p]
      BY <3>1, <3>3 DEF Moved
    <3>5. DOMAIN NoRows = {} BY EmptyIsPartial
    <3>6. Answered(r, "ok", Moved(r)) \/ Answered(r, "failed", NoRows)
      BY <2>3 DEF Changed
    <3> QED BY <3>2, <3>4, <3>5, <3>6
  <2> QED BY <2>1, <2>2, <2>3 DEF Serve
<1> DEFINE new == [r EXCEPT !.answer = answer, !.rows = found]
<1>3. requests' = (requests \ {r}) \cup {new} BY <1>2 DEF Answered
<1>4. new.kind = r.kind /\ new.items = r.items /\ new.target = r.target /\ new.rows = found
  BY DEF Types, RequestSet
<1> HIDE DEF new
<1>5. \A p \in DOMAIN new.rows : TrueRow(product', p, new.rows[p])
  BY <1>2, <1>4 DEF TrueRow
<1>6. \A q \in requests' : \A p \in DOMAIN q.rows : TrueRow(product', p, q.rows[p])
  BY <1>2, <1>3, <1>5, StillLegal
<1>7. \A q \in requests' : q.kind # "load" =>
          \A p \in DOMAIN q.items : LegalMove(product', p, q.items[p], q.target)
  BY <1>2, <1>3, <1>4, StillLegal
<1> QED BY <1>1, <1>2, <1>6, <1>7, StillLegal DEF Legal

LEMMA DeliverLegal == ASSUME Types, Safe, Legal, NEW r \in requests, Deliver(r) PROVE Legal'
<1>1. requests' \subseteq requests /\ Moves BY DEF Deliver, Moves
<1>2. confirming' \subseteq confirming BY DEF Deliver, Unmount
<1>3. rows' \in {rows, NoRows, r.rows, Replaced(r)}
  BY DEF Deliver, Unmount, Loaded, StatusChanged, BatchChanged, Show
<1>4. \A p \in DOMAIN rows' :
          \/ p \in DOMAIN rows /\ rows'[p] = rows[p]
          \/ \E q \in requests : p \in DOMAIN q.rows /\ rows'[p] = q.rows[p]
  <2>1. CASE rows' = Replaced(r)
    <3>1. DOMAIN rows' = DOMAIN rows BY <2>1 DEF Replaced
    <3>2. \A p \in DOMAIN rows :
              rows'[p] = IF p \in DOMAIN r.rows THEN r.rows[p] ELSE rows[p]
      BY <2>1 DEF Replaced
    <3> QED BY <3>1, <3>2
  <2>2. CASE rows' \in {rows, NoRows, r.rows}
    BY <2>2, EmptyIsPartial
  <2> QED BY <1>3, <2>1, <2>2
<1> QED BY <1>1, <1>2, <1>4, QuietLegal

LEMMA NextLegal == ASSUME Types, Safe, Legal, [Next]_vars PROVE Legal'
<1>1. ASSUME UNCHANGED <<product, requests>>, confirming' \subseteq confirming,
             rows' = rows \/ rows' = NoRows
      PROVE  Legal'
  <2>1. Moves BY <1>1 DEF Moves
  <2>2. \A p \in DOMAIN rows' : p \in DOMAIN rows /\ rows'[p] = rows[p]
    BY <1>1, EmptyIsPartial
  <2> QED BY <1>1, <2>1, <2>2, QuietLegal
<1>2. ASSUME NEW token, Load(token), UNCHANGED product, confirming' \subseteq confirming
      PROVE  Legal'
  BY <1>2, SendLegal DEF Load
<1>3. ASSUME NEW p \in DOMAIN rows, NEW target, canTransition(rows[p].status, target)
      PROVE  p \in Products /\ LegalMove(product, p, rows[p].version, target)
  <2>1. p \in Products /\ rows[p].status \in Statuses
    BY RowTypes DEF Row
  <2> QED BY <1>3, <2>1, SameTables DEF Legal, TrueRow, LegalMove
<1>4. ASSUME NEW p, NEW version, NEW target, changeStatus(p, version, target),
             LegalMove(product, p, version, target),
             UNCHANGED <<rows, product>>, confirming' \subseteq confirming
      PROVE  Legal'
  <2>1. CASE p \in pending
    BY <1>1, <1>4, <2>1 DEF changeStatus
  <2>2. CASE p \notin pending
    <3> DEFINE items == [q \in {p} |-> version]
    <3>1. requests' = requests \cup {Request("status", generation, stored, items, target)}
      BY <1>4, <2>2 DEF changeStatus, Send
    <3>2. \A q \in DOMAIN items : LegalMove(product, q, items[q], target)
      BY <1>4
    <3> HIDE DEF items
    <3> QED BY <1>4, <3>1, <3>2, SendLegal
  <2> QED BY <2>1, <2>2
<1>5. CASE UNCHANGED vars \/ SessionStep \/ LeaveList \/ Cancel \/ \E p \in Products : Select(p)
  BY <1>1, <1>5 DEF vars, page, SessionStep, LeaveList, Unmount, Cancel, Select
<1>6. CASE \E t \in Tokens : LoginAnswered(t)
  BY <1>1, <1>2, <1>6 DEF LoginAnswered, page, Unmount, Mount
<1>7. CASE writeParams \/ OpenList
  BY <1>2, <1>7 DEF writeParams, OpenList, Mount
<1>8. CASE \E p \in Products : OtherWrite(p)
  <2>1. Moves BY <1>8 DEF OtherWrite, Moves, Types, Row
  <2> QED BY <1>8, <2>1, QuietLegal DEF OtherWrite, page
<1>9. ASSUME NEW p \in Products, NEW target \in Statuses, runAction(p, target) PROVE Legal'
  <2>1. p \in DOMAIN rows /\ LegalMove(product, p, rows[p].version, target)
    BY <1>3, <1>9 DEF runAction
  <2>2. UNCHANGED <<rows, product>> BY <1>9 DEF runAction
  <2>3. CASE target = "penalized"
    <3>1. confirming' = {[id |-> p, version |-> rows[p].version]} /\ requests' = requests
      BY <1>9, <2>3 DEF runAction
    <3> QED BY <2>1, <2>2, <2>3, <3>1 DEF Legal
  <2>4. CASE target # "penalized"
    <3>1. changeStatus(p, rows[p].version, target) /\ confirming' = confirming
      BY <1>9, <2>4 DEF runAction
    <3> QED BY <1>4, <2>1, <2>2, <3>1
  <2> QED BY <2>3, <2>4
<1>10. CASE Confirm
  <2>1. PICK c \in confirming : changeStatus(c.id, c.version, "penalized")
    BY <1>10 DEF Confirm
  <2> QED BY <1>4, <1>10, <2>1 DEF Confirm, Legal
<1>11. ASSUME NEW target, batchChange(target) PROVE Legal'
  <2> DEFINE items == [p \in selected |-> rows[p].version]
  <2>1. requests' = requests \cup {Request("batch", generation, stored, items, target)}
    BY <1>11 DEF batchChange, Send
  <2>2. \A p \in DOMAIN items : LegalMove(product, p, items[p], target)
    BY <1>3, <1>11 DEF batchChange, Types
  <2> HIDE DEF items
  <2> QED BY <1>11, <2>1, <2>2, SendLegal DEF batchChange
<1>12. CASE \E r \in requests : Serve(r) \/ Deliver(r)
  BY <1>12, ServeLegal, DeliverLegal
<1> QED BY <1>5, <1>6, <1>7, <1>8, <1>9, <1>10, <1>11, <1>12 DEF Next

\* What the page offers is refused only when somebody else changed the product
\* (status.ts transitionActions, domain.py _ALLOWED_TRANSITIONS).
THEOREM ChangesAreLegal == Spec => []OnlyConflictsRefuse
<1>1. Init => Types /\ Controls /\ Safe /\ Legal
    BY InitTypes, InitControls, InitSafe, InitLegal
<1>2. Types /\ Controls /\ Safe /\ Legal /\ [Next]_vars => (Types /\ Controls /\ Safe /\ Legal)'
    BY NextTypes, NextControls, NextSafe, NextLegal
<1>3. Legal => OnlyConflictsRefuse
    BY DEF Legal, LegalMove, OnlyConflictsRefuse
<1> QED BY <1>1, <1>2, <1>3, PTL DEF Spec
=============================================================================
