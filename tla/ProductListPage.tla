--------------------------- MODULE ProductListPage ---------------------------
(***************************************************************************)
(* The product list of the admin client (ProductListPage.tsx) behind its    *)
(* session, with the requests under way and a server that other operators   *)
(* use too.  Requests are served and answered in any order; an answer may   *)
(* be lost after the server acted.                                          *)
(*                                                                         *)
(* Data.  A product is its version and status.  What a query matches is     *)
(* left open: a load answers with any set of products.  Leaving the page    *)
(* forgets its state, so generations are numbered across visits and a late  *)
(* answer to an earlier visit is one of an earlier generation.  What the    *)
(* page says of a failure (error, batchDialog) is left out.                 *)
(***************************************************************************)
EXTENDS AdminSession, Naturals, FiniteSets

CONSTANTS
    Products,
    OtherTargets,   \* the statuses other operators set
    MaxGeneration,  \* bound: loads of the list
    MaxVersion,     \* bound: changes of a product
    MaxRequests     \* bound: requests under way

ASSUME ListAssumption ==
    /\ NoToken \notin Tokens
    /\ OtherTargets \subseteq {"on_shelf", "off_shelf", "penalized"}
    /\ MaxGeneration \in Nat /\ MaxVersion \in Nat \ {0}

VARIABLES
    product,        \* the server's row of each product
    generation,     \* queryGeneration
    opened,         \* the generation the page was opened with
    rows,           \* products: the rows shown
    selected,       \* selectedIds
    loading,
    confirming,     \* the row in the dialog "set to penalized?", if any
    pending,        \* pendingIds
    batchPending,
    requests,       \* requests under way, with their answers
    seen,           \* history: the highest version shown of each product
    overtaken       \* history: products a change was confirmed of during this load

page == <<generation, opened, rows, selected, loading, confirming, pending,
          batchPending>>
history == <<seen, overtaken>>
vars == <<session, product, page, requests, history>>

Statuses == {"on_shelf", "off_shelf", "penalized"}
Row == [version : 1..MaxVersion, status : Statuses]

\* Mutant: a penalized product can be put back on the shelf.
transitionActionsReopened ==
    [off_shelf |-> {"on_shelf", "penalized"}, on_shelf |-> {"off_shelf", "penalized"},
     penalized |-> {"on_shelf"}]

\* status.ts transitionActions: what each status can be changed to.
transitionActions ==
    [off_shelf |-> {"on_shelf", "penalized"}, on_shelf |-> {"off_shelf", "penalized"},
     penalized |-> {}]
canTransition(source, target) == target \in transitionActions[source]

\* domain.py _ALLOWED_TRANSITIONS, the server's own table.
AllowedTransitions ==
    {<<"on_shelf", "off_shelf">>, <<"on_shelf", "penalized">>,
     <<"off_shelf", "on_shelf">>, <<"off_shelf", "penalized">>}

NoRows == <<>>

Init ==
    /\ SessionInit
    /\ product \in [Products -> [version : {1}, status : {"off_shelf"}]]
    /\ generation = 0 /\ opened = 0
    /\ rows = NoRows /\ selected = {} /\ loading = FALSE /\ confirming = {}
    /\ pending = {} /\ batchPending = FALSE
    /\ requests = {}
    /\ seen = [p \in Products |-> 0] /\ overtaken = {}
-----------------------------------------------------------------------------
(* Requests.                                                                *)

\* client.ts apiRequest reads the token when it sends.
Request(kind, gen, token, items, target) ==
    [kind |-> kind, gen |-> gen, token |-> token, items |-> items, target |-> target,
     answer |-> "none", rows |-> NoRows]

Send(kind, items, target) ==
    /\ Cardinality(requests) < MaxRequests
    /\ requests' = requests \cup {Request(kind, generation, stored, items, target)}

\* Every item is at the version named and may go to the target.
MayMove(r) ==
    \A p \in DOMAIN r.items :
        /\ product[p].version = r.items[p]
        /\ <<product[p].status, r.target>> \in AllowedTransitions

Moved(r) ==
    [p \in DOMAIN r.items |-> [version |-> product[p].version + 1, status |-> r.target]]

Answered(r, answer, found) ==
    requests' = (requests \ {r}) \cup {[r EXCEPT !.answer = answer, !.rows = found]}

Refused(r) ==
    /\ r.token \in expired
    /\ Answered(r, "unauthorized", NoRows)
    /\ UNCHANGED product

Listed(r) ==
    /\ r.token \notin expired /\ r.kind = "load"
    /\ \E found \in SUBSET Products : Answered(r, "ok", [p \in found |-> product[p]])
    /\ UNCHANGED product

\* All the items are changed (the answer may get lost), or none.
Changed(r) ==
    /\ r.token \notin expired /\ r.kind # "load" /\ MayMove(r)
    /\ \A p \in DOMAIN r.items : product[p].version < MaxVersion
    /\ product' = [p \in Products |-> IF p \in DOMAIN r.items THEN Moved(r)[p] ELSE product[p]]
    /\ Answered(r, "ok", Moved(r)) \/ Answered(r, "failed", NoRows)

\* A 409, an error of the server, or the connection breaks before the request is there.
Failed(r) ==
    /\ Answered(r, "failed", NoRows)
    /\ UNCHANGED product

Serve(r) ==
    /\ r.answer = "none"
    /\ Refused(r) \/ Listed(r) \/ Changed(r) \/ Failed(r)
    /\ UNCHANGED <<session, page, history>>

\* Another operator edits a product or changes its status.
OtherWrite(p) ==
    /\ product[p].version < MaxVersion
    /\ \E status \in {product[p].status} \cup OtherTargets :
           /\ status = product[p].status \/ <<product[p].status, status>> \in AllowedTransitions
           /\ product' = [product EXCEPT ![p] = [version |-> @.version + 1, status |-> status]]
    /\ UNCHANGED <<session, page, requests, history>>
-----------------------------------------------------------------------------
(* The page.                                                                *)

\* Mutant: the selection survives a query.
LoadKeepingSelection(token) ==
    /\ generation < MaxGeneration /\ Cardinality(requests) < MaxRequests
    /\ generation' = generation + 1
    /\ rows' = NoRows
    /\ loading' = TRUE
    /\ requests' = requests \cup {Request("load", generation + 1, token, NoRows, "none")}
    /\ overtaken' = {}
    /\ UNCHANGED <<selected, seen>>

\* A change of the query, of the page or of the generation: the effect runs again.
Load(token) ==
    /\ generation < MaxGeneration /\ Cardinality(requests) < MaxRequests
    /\ generation' = generation + 1
    /\ rows' = NoRows /\ selected' = {}
    /\ loading' = TRUE
    /\ requests' = requests \cup {Request("load", generation + 1, token, NoRows, "none")}
    /\ overtaken' = {}
    /\ UNCHANGED seen

\* A filter, a page or a page size is chosen, the same query is sent again, or the
\* browser goes back and forward (which a dialog does not prevent).
writeParams ==
    /\ screen = "list"
    /\ Load(stored)
    /\ UNCHANGED <<session, product, opened, confirming, pending, batchPending>>

\* The page is shown anew, with a state of its own.
Mount(token) ==
    /\ Load(token)
    /\ opened' = generation + 1
    /\ confirming' = {} /\ pending' = {} /\ batchPending' = FALSE

\* The page is gone; only its requests remain.
Unmount ==
    /\ rows' = NoRows /\ selected' = {} /\ loading' = FALSE
    /\ confirming' = {} /\ pending' = {} /\ batchPending' = FALSE
    /\ overtaken' = {}
    /\ UNCHANGED <<generation, opened, seen>>

OpenList ==
    /\ screen = "away"
    /\ Goto("list") /\ Mount(stored)
    /\ UNCHANGED product

LeaveList ==
    /\ screen = "list"
    /\ Goto("away") /\ Unmount
    /\ UNCHANGED <<product, requests>>

\* A login is answered.  If the list is already shown (an earlier attempt was
\* answered first), the destination has the same query or another.
LoginAnswered(t) ==
    /\ \/ LoginFailed(t) /\ UNCHANGED <<page, requests, history>>
       \/ LoggedIn(t, "away") /\ Unmount /\ UNCHANGED requests
       \/ LoggedIn(t, "list") /\ screen # "list" /\ Mount(t)
       \/ LoggedIn(t, "list") /\ screen = "list" /\ Load(t)
          /\ UNCHANGED <<opened, confirming, pending, batchPending>>
       \/ LoggedIn(t, "list") /\ screen = "list" /\ UNCHANGED <<page, requests, history>>
    /\ UNCHANGED product

\* The open dialog covers the page.
Uncovered == screen = "list" /\ confirming = {}

Select(p) ==
    /\ Uncovered /\ p \in DOMAIN rows
    /\ selected' = IF p \in selected THEN selected \ {p} ELSE selected \cup {p}
    /\ UNCHANGED <<session, product, generation, opened, rows, loading, confirming,
                   pending, batchPending, requests, history>>

\* A change is sent with the version of the row clicked, unless one of the product is
\* already under way.
changeStatus(p, version, target) ==
    IF p \in pending
    THEN UNCHANGED <<pending, requests>>
    ELSE /\ pending' = pending \cup {p}
         /\ Send("status", [q \in {p} |-> version], target)

\* A button of a row; penalizing asks first.
runAction(p, target) ==
    /\ Uncovered /\ p \in DOMAIN rows \ pending
    /\ canTransition(rows[p].status, target)
    /\ IF target = "penalized"
       THEN /\ confirming' = {[id |-> p, version |-> rows[p].version]}
            /\ UNCHANGED <<pending, requests>>
       ELSE /\ changeStatus(p, rows[p].version, target)
            /\ UNCHANGED confirming
    /\ UNCHANGED <<session, product, generation, opened, rows, selected, loading,
                   batchPending, history>>

Confirm ==
    /\ screen = "list"
    /\ \E c \in confirming :
           /\ changeStatus(c.id, c.version, "penalized")
           /\ overtaken' = IF loading THEN overtaken \cup {c.id} ELSE overtaken
    /\ confirming' = {}
    /\ UNCHANGED <<session, product, generation, opened, rows, selected, loading,
                   batchPending, seen>>

Cancel ==
    /\ confirming # {}
    /\ confirming' = {}
    /\ UNCHANGED <<session, product, generation, opened, rows, selected, loading, pending,
                   batchPending, requests, history>>

\* A batch of the rows selected, if every one of them may go to the target.
batchChange(target) ==
    /\ Uncovered /\ selected # {} /\ ~batchPending
    /\ \A p \in selected : canTransition(rows[p].status, target)
    /\ Send("batch", [p \in selected |-> rows[p].version], target)
    /\ batchPending' = TRUE
    /\ UNCHANGED <<session, product, generation, opened, rows, selected, loading, confirming,
                   pending, history>>
-----------------------------------------------------------------------------
(* Answers.                                                                 *)

\* Mutant: an answer to an earlier query of this visit counts too.
CurrentVisit(r) == screen = "list" /\ r.gen >= opened

\* The answer belongs to the query shown; to this visit of the page.
Current(r) == screen = "list" /\ r.gen = generation
ThisVisit(r) == screen = "list" /\ r.gen >= opened

Show(shown) ==
    /\ rows' = shown
    /\ seen' = [p \in Products |->
                  IF p \in DOMAIN shown /\ shown[p].version > seen[p]
                  THEN shown[p].version ELSE seen[p]]

\* Mutant: the spinner stays when a load fails.
LoadedOnSuccess(r) ==
    /\ IF Current(r) /\ r.answer = "ok" THEN Show(r.rows) /\ loading' = FALSE
       ELSE UNCHANGED <<rows, loading, seen>>
    /\ UNCHANGED <<selected, pending, batchPending>>

\* The effect's continuation.
Loaded(r) ==
    /\ IF Current(r) /\ r.answer = "ok" THEN Show(r.rows) ELSE UNCHANGED <<rows, seen>>
    /\ loading' = (loading /\ ~Current(r))
    /\ UNCHANGED <<selected, pending, batchPending>>

\* The rows the answer has take the place of those shown.
Replaced(r) == [p \in DOMAIN rows |-> IF p \in DOMAIN r.rows THEN r.rows[p] ELSE rows[p]]

StatusChanged(r) ==
    /\ IF Current(r) /\ r.answer = "ok" THEN Show(Replaced(r)) ELSE UNCHANGED <<rows, seen>>
    /\ pending' = IF ThisVisit(r) THEN pending \ DOMAIN r.items ELSE pending
    /\ UNCHANGED <<selected, loading, batchPending>>

BatchChanged(r) ==
    /\ IF Current(r) /\ r.answer = "ok" THEN Show(Replaced(r)) /\ selected' = {}
       ELSE UNCHANGED <<rows, selected, seen>>
    /\ batchPending' = (batchPending /\ ~ThisVisit(r))
    /\ UNCHANGED <<loading, pending>>

\* A 401 to the stored token ends the session and with it the page.
Deliver(r) ==
    /\ r.answer # "none"
    /\ requests' = requests \ {r}
    /\ IF r.answer = "unauthorized" /\ Ends(r.token)
       THEN clearUnauthorizedSession /\ Unmount
       ELSE /\ \/ r.kind = "load" /\ Loaded(r)
               \/ r.kind = "status" /\ StatusChanged(r)
               \/ r.kind = "batch" /\ BatchChanged(r)
            /\ UNCHANGED <<session, generation, opened, confirming, overtaken>>
    /\ UNCHANGED product

SessionStep ==
    /\ Reopen \/ \E t \in Tokens : handleSubmit(t) \/ LoginServed(t) \/ Expire(t)
    /\ UNCHANGED <<product, page, requests, history>>

Next ==
    \/ SessionStep
    \/ \E t \in Tokens : LoginAnswered(t)
    \/ writeParams \/ OpenList \/ LeaveList
    \/ \E p \in Products : Select(p) \/ OtherWrite(p)
    \/ \E p \in Products, target \in Statuses : runAction(p, target)
    \/ \E target \in {"on_shelf", "off_shelf"} : batchChange(target)
    \/ Confirm \/ Cancel
    \/ \E r \in requests : Serve(r) \/ Deliver(r)

Spec == Init /\ [][Next]_vars
-----------------------------------------------------------------------------
(* Properties.                                                              *)

\* Types.  No page behind the gate without a token and none with one in front of it;
\* the selection, and so what a batch will act on, is among the rows shown; rows
\* appear only when loading is over.
TypeOK ==
    /\ SessionTypeOK
    /\ product \in [Products -> Row]
    /\ opened \in 0..generation /\ generation \in 0..MaxGeneration
    /\ DOMAIN rows \subseteq Products /\ \A p \in DOMAIN rows : rows[p] \in Row
    /\ confirming \subseteq [id : Products, version : 1..MaxVersion]
    /\ pending \subseteq Products
    /\ {loading, batchPending} \subseteq BOOLEAN
    /\ (screen = "login") <=> (stored = NoToken)
    /\ selected \subseteq DOMAIN rows
    /\ loading => rows = NoRows

\* Whatever the order of the answers and whatever other operators do, the list never
\* shows an older version of a product than one it has shown before.  (Except to an
\* operator who goes back or forward with the dialog open and confirms it before the
\* new list is there: the answer to the change can replace a newer row.)
RowsNeverGoBack ==
    \A p \in DOMAIN rows \ overtaken : rows[p].version >= seen[p]

\* Only a refusal of the very token in use ends a session: a 401 to a request sent with
\* an earlier token does not (client.ts clearUnauthorizedSession).
SessionKept ==
    [][stored # NoToken /\ stored' = NoToken => stored \in expired]_vars

\* A change the page sends is refused for its status only when its version is refused
\* too: what the buttons, the dialog and the batch offer is what the server's table of
\* transitions lets through, for as long as nobody has changed the product.
OnlyConflictsRefuse ==
    \A r \in requests : r.kind # "load" /\ r.answer = "none" =>
        \A p \in DOMAIN r.items :
            product[p].version = r.items[p] =>
                <<product[p].status, r.target>> \in AllowedTransitions

\* What the page disables while it waits matches the requests of this visit that are
\* under way, one for one: the table waits for the one load of the query shown, a row's
\* buttons for the one change of that product (a double click sends no second), the batch
\* buttons for the one batch.  So nothing stays disabled once its answer is there, and
\* nothing is enabled before.
ControlsMatchRequests ==
    LET Of(kind) == {r \in requests : ThisVisit(r) /\ r.kind = kind}
        Waiting(flag, rs) == /\ flag <=> rs # {}
                             /\ \A r1, r2 \in rs : r1 = r2
    IN  /\ Waiting(loading, {r \in Of("load") : Current(r)})
        /\ Waiting(batchPending, Of("batch"))
        /\ \A p \in Products :
               Waiting(p \in pending, {r \in Of("status") : p \in DOMAIN r.items})
=============================================================================
