---------------------------- MODULE ProductWrites ----------------------------
(***************************************************************************)
(* The admin write path: ProductService (service.py) over ProductRepository *)
(* (repository.py), run by concurrent requests against PostgreSQL.          *)
(*                                                                         *)
(* Each request is a coroutine with a session of its own; a step is the     *)
(* code between two awaits, that is one SQL statement, the commit or one    *)
(* cache delete.  PostgreSQL runs at READ COMMITTED: a statement sees the   *)
(* rows committed when it starts, a row a transaction has inserted, updated *)
(* or selected FOR UPDATE is locked until it ends, and a statement that     *)
(* waited for a row lock re-reads the row before it acts on it.             *)
(***************************************************************************)
EXTENDS CatalogDomain

CONSTANTS
    NoReq,      \* "no transaction": an unlocked row
    Existing,   \* the ids of the products created before the model starts,
    OldRows,    \* and the rows they may have
    PoolSize    \* connections of the pool (pool_size + max_overflow)

ASSUME NoReqAssumption == NoReq \notin Requests
ASSUME PoolAssumption == PoolSize \in Nat \ {0}
ASSUME IdAssumption == IsFiniteSet(Products)    \* an id has 128 bits
ASSUME ExistingAssumption ==
    /\ Existing \subseteq Products
    /\ OldRows \subseteq ProductRow
    /\ \A old \in OldRows : old.schema \in old.attrs /\ old.edit = Seed

VARIABLES
    row,        \* products: the committed row of each id, or NoRow
    imgs,       \* product_images: whose image rows each product has, committed
    active,     \* the active template version, 0 when there is none
    lock,       \* lock[p]: the request whose transaction holds row p
    pc,         \* where each request's coroutine stands
    req,        \* the body of each request
    got,        \* got[r]: the rows the transaction of r has read so far
    work,       \* work[r]: the rows it has written and not committed
    gone,       \* gone[r]: the image rows it has deleted and not committed
    todo,       \* ids the current loop (row locks, then cache deletes) has left
    committed,  \* history: the ids each request committed
    deletes,    \* history: the ids each request deleted from the cache
    result      \* the reply of each request

database == <<row, imgs, lock>>
transaction == <<got, work, gone>>
vars == <<row, imgs, active, lock, pc, req, got, work, gone, todo,
          committed, deletes, result>>

NoRows == [p \in Products |-> NoRow]

Init ==
    /\ \E old \in [Existing -> OldRows] :
           row = [p \in Products |-> IF p \in Existing THEN old[p] ELSE NoRow]
    /\ imgs = [p \in Products |-> IF p \in Existing THEN {Seed} ELSE {}]
    /\ active \in {0} \cup Schemas
    /\ lock = [p \in Products |-> NoReq]
    /\ pc = [r \in Requests |-> "idle"]
    /\ req = [r \in Requests |-> NoPayload]
    /\ got = [r \in Requests |-> NoRows]
    /\ work = [r \in Requests |-> NoRows]
    /\ gone = [r \in Requests |-> {}]
    /\ todo = [r \in Requests |-> {}]
    /\ committed = [r \in Requests |-> {}]
    /\ deletes = [r \in Requests |-> {}]
    /\ result = [r \in Requests |-> "none"]

-----------------------------------------------------------------------------
At(r, label) == pc[r] = label
Goto(r, label) == pc' = [pc EXCEPT ![r] = label]

\* A session checks a connection out at its first statement and gives it back
\* when its transaction ends; with the pool empty the statement waits.
InTransaction == {"insert", "validate", "cas", "images", "lock", "commit"}
ConnectionFree == Cardinality({r \in Requests : pc[r] \in InTransaction}) < PoolSize

Touched(r) == {p \in Products : work[r][p] # NoRow}

Released(r) == [p \in Products |-> IF lock[p] = r THEN NoReq ELSE lock[p]]

\* The coroutine ends: an open transaction is rolled back, by the except clause
\* or by the session closing, and its locals are gone.
End(r, answer) ==
    /\ Goto(r, "done")
    /\ result' = [result EXCEPT ![r] = answer]
    /\ lock' = Released(r)
    /\ got' = [got EXCEPT ![r] = NoRows]
    /\ work' = [work EXCEPT ![r] = NoRows]
    /\ gone' = [gone EXCEPT ![r] = {}]
    /\ todo' = [todo EXCEPT ![r] = {}]
    /\ UNCHANGED <<row, imgs, active, req, committed, deletes>>

\* The router hands a validated body to the service.
Receive(r) ==
    /\ At(r, "idle")
    /\ \E m \in Payloads :
           /\ req' = [req EXCEPT ![r] = m]
           /\ Goto(r, CASE m.op = "create" -> "active"
                        [] m.op = "update" -> "load"
                        [] OTHER -> "select")
    /\ UNCHANGED <<database, active, transaction, todo, committed, deletes, result>>
-----------------------------------------------------------------------------
(* create                                                                   *)

CreatableUnder(v, m) == v = m.schema /\ v \in m.attrs

\* The active template is read once; it is not read again before the insert.
CreateCheck(r) ==
    /\ At(r, "active")
    /\ ConnectionFree
    /\ IF CreatableUnder(active, req[r])
       THEN /\ Goto(r, "insert")
            /\ UNCHANGED <<database, active, req, transaction, todo, committed,
                           deletes, result>>
       ELSE End(r, "refused")

\* Product and images are inserted under a new id nobody else can see yet.
CreateInsert(r) ==
    /\ At(r, "insert")
    /\ \E p \in Products :
           /\ row[p] = NoRow
           /\ lock[p] = NoReq
           /\ lock' = [lock EXCEPT ![p] = r]
           /\ work' = [work EXCEPT ![r][p] = NewRow(r, req[r])]
    /\ Goto(r, "commit")
    /\ UNCHANGED <<row, imgs, active, req, got, gone, todo, committed, deletes, result>>
-----------------------------------------------------------------------------
(* update                                                                   *)

UpdateLoad(r) ==
    LET p == req[r].id IN
    /\ At(r, "load")
    /\ ConnectionFree
    /\ IF row[p] # NoRow
       THEN /\ got' = [got EXCEPT ![r][p] = row[p]]
            /\ Goto(r, "validate")
            /\ UNCHANGED <<database, active, req, work, gone, todo, committed,
                           deletes, result>>
       ELSE End(r, "refused")

\* Mutant: the template that is active now.
ActiveTemplate(r) == active

\* Attributes are checked against the template the product is bound to.
BoundTemplate(r) == got[r][req[r].id].schema

UpdateCheck(r) ==
    /\ At(r, "validate")
    /\ IF BoundTemplate(r) = req[r].schema /\ BoundTemplate(r) \in req[r].attrs
       THEN /\ Goto(r, "cas")
            /\ UNCHANGED <<database, active, req, transaction, todo, committed,
                           deletes, result>>
       ELSE End(r, "refused")

\* UPDATE ... WHERE id = p AND version = expected.  A row at another version is
\* passed over without waiting; a locked one is waited for and checked again.
VersionMatches(r) == row[req[r].id].version = req[r].version

\* Mutant: the statement does not wait for the row lock.
UpdateRowAtOnce(r) ==
    LET p == req[r].id IN
    /\ At(r, "cas")
    /\ VersionMatches(r)
    /\ lock' = [lock EXCEPT ![p] = r]
    /\ work' = [work EXCEPT ![r][p] = EditedRow(r, req[r], row[p])]
    /\ Goto(r, "images")
    /\ UNCHANGED <<row, imgs, active, req, got, gone, todo, committed, deletes, result>>

UpdateRow(r) ==
    LET p == req[r].id IN
    /\ At(r, "cas")
    /\ \/ /\ VersionMatches(r)
          /\ lock[p] = NoReq
          /\ lock' = [lock EXCEPT ![p] = r]
          /\ work' = [work EXCEPT ![r][p] = EditedRow(r, req[r], row[p])]
          /\ Goto(r, "images")
          /\ UNCHANGED <<row, imgs, active, req, got, gone, todo, committed,
                         deletes, result>>
       \/ ~VersionMatches(r) /\ End(r, "refused")

\* Mutant: the old image rows are kept.
NoImages(r) == {}

\* DELETE the image rows the statement sees, then insert the request's own.
VisibleImages(r) == imgs[req[r].id]

ReplaceImages(r) ==
    /\ At(r, "images")
    /\ gone' = [gone EXCEPT ![r] = VisibleImages(r)]
    /\ Goto(r, "commit")
    /\ UNCHANGED <<database, active, req, got, work, todo, committed, deletes, result>>
-----------------------------------------------------------------------------
(* update_status and batch_status                                           *)

\* SELECT ... WHERE id IN (...) ORDER BY id FOR UPDATE starts: it will lock the
\* rows committed by now.
BatchSelect(r) ==
    /\ At(r, "select")
    /\ ConnectionFree
    /\ todo' = [todo EXCEPT ![r] = {p \in Ids(req[r]) : row[p] # NoRow}]
    /\ Goto(r, "lock")
    /\ UNCHANGED <<database, active, req, transaction, committed, deletes, result>>

\* Mutant: no ORDER BY.
IsAny(r, p) == p \in todo[r]

\* The next row to be visited by a loop that runs in id order.
IsNext(r, p) == p \in todo[r] /\ \A q \in todo[r] : p <= q

\* One row of the statement: wait for its lock, read its latest version.
BatchLock(r) ==
    /\ At(r, "lock")
    /\ \E p \in Products :
           /\ IsNext(r, p)
           /\ lock[p] = NoReq
           /\ lock' = [lock EXCEPT ![p] = r]
           /\ got' = [got EXCEPT ![r][p] = row[p]]
           /\ todo' = [todo EXCEPT ![r] = @ \ {p}]
    /\ UNCHANGED <<row, imgs, active, pc, req, work, gone, committed, deletes, result>>

\* Mutant: an id may be named twice.
BatchValidTwice(r) ==
    LET m == req[r] IN
    \A i \in Indices(m) : MayMove(m, i, got[r][m.items[i].id])

BatchValid(r) ==
    LET m == req[r] IN
    /\ ~HasDuplicate(m)
    /\ \A i \in Indices(m) : MayMove(m, i, got[r][m.items[i].id])

\* Every row is checked before any is changed.
BatchApply(r) ==
    /\ At(r, "lock")
    /\ todo[r] = {}
    /\ \/ /\ BatchValid(r)
          /\ work' = [work EXCEPT ![r] =
                [p \in Products |-> IF p \in Ids(req[r])
                                    THEN MovedRow(req[r], got[r][p]) ELSE NoRow]]
          /\ Goto(r, "commit")
          /\ UNCHANGED <<database, active, req, got, gone, todo, committed, deletes, result>>
       \/ ~BatchValid(r) /\ End(r, "refused")
-----------------------------------------------------------------------------
(* commit, invalidation and reply                                           *)

\* What COMMIT makes visible, all at once.
Publish(r) ==
    /\ row' = [p \in Products |-> IF p \in Touched(r) THEN work[r][p] ELSE row[p]]
    /\ imgs' = [p \in Products |->
                   IF p \in Touched(r) /\ req[r].op \in {"create", "update"}
                   THEN (imgs[p] \ gone[r]) \cup {r} ELSE imgs[p]]
    /\ lock' = Released(r)
    /\ committed' = [committed EXCEPT ![r] = Touched(r)]
    /\ got' = [got EXCEPT ![r] = NoRows]
    /\ work' = [work EXCEPT ![r] = NoRows]
    /\ gone' = [gone EXCEPT ![r] = {}]
    /\ UNCHANGED <<active, req, deletes>>

\* Mutant: only the first product is invalidated.
CommitForOne(r) ==
    /\ At(r, "commit")
    /\ Publish(r)
    /\ todo' = [todo EXCEPT ![r] = {p \in Touched(r) : \A q \in Touched(r) : p <= q}]
    /\ Goto(r, "invalidate")
    /\ UNCHANGED result

Commit(r) ==
    /\ At(r, "commit")
    /\ Publish(r)
    /\ todo' = [todo EXCEPT ![r] = Touched(r)]
    /\ Goto(r, "invalidate")
    /\ UNCHANGED result

\* The server committed but its answer was lost: session.commit() raises an error
\* that no except clause names, so the cache is not invalidated.
CommitReplyLost(r) ==
    /\ At(r, "commit")
    /\ Publish(r)
    /\ Goto(r, "done")
    /\ result' = [result EXCEPT ![r] = "error"]
    /\ UNCHANGED todo

\* One turn of the loop of _invalidate.  Whether the delete works or a retry task
\* is left behind, the loop goes on (CacheCoherence models what Redis does).
InvalidateNext(r) ==
    /\ At(r, "invalidate")
    /\ \E p \in Products :
           /\ IsNext(r, p)
           /\ deletes' = [deletes EXCEPT ![r] = @ \cup {p}]
           /\ todo' = [todo EXCEPT ![r] = @ \ {p}]
    /\ UNCHANGED <<database, active, pc, req, transaction, committed, result>>

\* The reply; the status operations first read the products back.
Respond(r) ==
    /\ At(r, "invalidate")
    /\ todo[r] = {}
    /\ req[r].op \in {"status", "batch"} => ConnectionFree
    /\ End(r, "ok")

\* A database error, a pool timeout or the process dying, at any await.
Die(r) ==
    /\ pc[r] \notin {"idle", "done"}
    /\ End(r, "error")

\* An operator makes a later template version the active one: nothing under src/
\* does (create_schema only inserts), so this is a step of the environment.
ActivateTemplate ==
    /\ \E v \in Schemas : v > active /\ active' = v
    /\ UNCHANGED <<database, pc, req, transaction, todo, committed, deletes, result>>
-----------------------------------------------------------------------------
Handle(r) ==
    \/ CreateCheck(r) \/ CreateInsert(r)
    \/ UpdateLoad(r) \/ UpdateCheck(r) \/ UpdateRow(r) \/ ReplaceImages(r)
    \/ BatchSelect(r) \/ BatchLock(r) \/ BatchApply(r)
    \/ Commit(r) \/ InvalidateNext(r) \/ Respond(r)

Next ==
    \/ ActivateTemplate
    \/ \E r \in Requests : Receive(r) \/ Handle(r) \/ CommitReplyLost(r) \/ Die(r)

\* Every request answered: the only state in which nothing is left to do.
AllAnswered ==
    /\ \A r \in Requests : At(r, "done")
    /\ UNCHANGED vars

Spec == Init /\ [][Next \/ AllAnswered]_vars

\* The event loop and PostgreSQL keep serving every request that was received.
FairSpec == Spec /\ \A r \in Requests : WF_vars(Handle(r))
-----------------------------------------------------------------------------
(* Properties                                                               *)

Labels == {"idle", "active", "insert", "load", "validate", "cas", "images",
           "select", "lock", "commit", "invalidate", "done"}
MaybeRow == ProductRow \cup {NoRow}

\* Every variable has its type; in particular every stored version is at least 1
\* (CHECK ck_products_version_positive).
TypeOK ==
    /\ row \in [Products -> MaybeRow]
    /\ imgs \in [Products -> SUBSET Editors]
    /\ active \in {0} \cup Schemas
    /\ lock \in [Products -> Requests \cup {NoReq}]
    /\ pc \in [Requests -> Labels]
    /\ req \in [Requests -> Payloads \cup {NoPayload}]
    /\ got \in [Requests -> [Products -> MaybeRow]]
    /\ work \in [Requests -> [Products -> MaybeRow]]
    /\ gone \in [Requests -> SUBSET Editors]
    /\ todo \in [Requests -> SUBSET Products]
    /\ committed \in [Requests -> SUBSET Products]
    /\ deletes \in [Requests -> SUBSET Products]
    /\ result \in [Requests -> {"none", "ok", "refused", "error"}]

\* A stored product's attributes satisfy the template it is bound to, also after
\* the active template has moved on and after any interleaving of edits.
AttributesFitTemplate ==
    \A p \in Products : row[p] # NoRow => row[p].schema \in row[p].attrs

\* A product's images and its other content always come from one and the same
\* request: concurrent edits never leave a mixture (or a second main image).
ImagesMatchContent ==
    \A p \in Products :
        imgs[p] = IF row[p] = NoRow THEN {} ELSE {row[p].edit}

\* The ids a request names; a create names none.
NamedIds(r) ==
    CASE req[r].op = "create" -> {}
      [] req[r].op = "update" -> {req[r].id}
      [] OTHER -> Ids(req[r])

\* What a client may conclude from its reply: after "ok" all the products it
\* named were changed and for each a delete from the cache was tried (whether
\* Redis runs it is CacheCoherence's); after "refused" none was.
ReplyHonest ==
    \A r \in Requests :
        /\ result[r] = "ok" =>
               /\ committed[r] # {}
               /\ NamedIds(r) \subseteq committed[r]
               /\ deletes[r] = committed[r]
        /\ result[r] = "refused" => committed[r] = {}

\* The versions request r names for product p.
NamedVersions(r, p) ==
    IF req[r].op = "update"
    THEN {v \in {req[r].version} : p = req[r].id}
    ELSE {req[r].items[i].version : i \in {j \in Indices(req[r]) : req[r].items[j].id = p}}

\* Request r commits its change of p in this step.
Commits(r, p) == p \in committed'[r] \ committed[r]

\* No lost update: a committed row is only replaced by a request that named
\* exactly the version it replaces, and the version grows by one.
ReplacesNamedVersion(p) ==
    /\ row'[p] # NoRow
    /\ row'[p].version = row[p].version + 1
    /\ \E r \in Requests :
          /\ Commits(r, p)
          /\ req[r].op # "create"
          /\ NamedVersions(r, p) = {row[p].version}

NoLostUpdate ==
    [][\A p \in Products :
          row[p] # NoRow /\ row'[p] # row[p] => ReplacesNamedVersion(p)]_vars

\* A penalized product never leaves that status, by any mix of edits, single
\* and batch status changes.
Penalized(r) == r # NoRow /\ r.status = "penalized"

PenalizedTerminal ==
    [][\A p \in Products : Penalized(row[p]) => Penalized(row'[p])]_vars

\* The write path implements the atomic catalogue: each request takes effect at
\* most once and completely, at its commit.
Catalog == INSTANCE VersionedCatalog WITH
    ask <- req,
    applied <- {r \in Requests : committed[r] # {}},
    reply <- result

ImplementsCatalog == Catalog!Spec

Busy(r) == pc[r] \notin {"idle", "done"}

\* The first statement of a transaction waits for a connection, ...
WaitsForConnection(r) ==
    /\ \/ pc[r] \in {"active", "load", "select"}
       \/ pc[r] = "invalidate" /\ todo[r] = {} /\ req[r].op \in {"status", "batch"}
    /\ ~ConnectionFree

\* ... and an UPDATE or a SELECT FOR UPDATE for every row it could go on with.  An INSERT
\* waits for nobody: its id is fresh.
WaitsForRow(r) ==
    \/ pc[r] = "cas" /\ VersionMatches(r) /\ lock[req[r].id] # NoReq
    \/ /\ pc[r] = "lock" /\ todo[r] # {}
       /\ \A p \in Products : IsNext(r, p) => lock[p] # NoReq

\* Requests under way never all wait for one another, for rows and connections together:
\* batches, single status changes and edits may meet on any rows, in any order, with any
\* number of connections.
NoDeadlock ==
    (\E r \in Requests : Busy(r)) =>
        \E r \in Requests : Busy(r) /\ ~WaitsForConnection(r) /\ ~WaitsForRow(r)

-----------------------------------------------------------------------------
(* The inductive invariant behind these properties.                         *)

\* The unpublished rows of r are exactly its change of rows it holds locked, and
\* those rows still are what the change was computed from.
PreparedCreate(r) ==
    \E p \in Products :
        /\ lock[p] = r
        /\ row[p] = NoRow
        /\ work[r] = [NoRows EXCEPT ![p] = NewRow(r, req[r])]

PreparedUpdate(r) ==
    LET p == req[r].id IN
    /\ lock[p] = r
    /\ row[p] # NoRow
    /\ row[p].version = req[r].version
    /\ row[p].schema = req[r].schema
    /\ row[p].schema \in req[r].attrs
    /\ work[r] = [NoRows EXCEPT ![p] = EditedRow(r, req[r], row[p])]

PreparedMove(r) ==
    /\ ~HasDuplicate(req[r])
    /\ \A p \in Ids(req[r]) : lock[p] = r
    /\ \A i \in Indices(req[r]) : MayMove(req[r], i, row[req[r].items[i].id])
    /\ work[r] = [p \in Products |->
                     IF p \in Ids(req[r]) THEN MovedRow(req[r], row[p]) ELSE NoRow]

Prepared(r) ==
    /\ req[r].op = "create" => req[r].schema \in Schemas \cap req[r].attrs
    /\ req[r].op = "create" => PreparedCreate(r)
    /\ req[r].op = "update" => PreparedUpdate(r)
    /\ req[r].op \in {"status", "batch"} => PreparedMove(r)

\* What is true of a request at each point of its handler.
LocalInv(r) ==
    /\ IF pc[r] = "idle" THEN req[r] = NoPayload ELSE req[r] \in Payloads
    /\ pc[r] \in {"active", "insert"} => req[r].op = "create"
    /\ pc[r] \in {"load", "validate", "cas", "images"} => req[r].op = "update"
    /\ pc[r] \in {"select", "lock"} => req[r].op \in {"status", "batch"}
    /\ pc[r] = "insert" => req[r].schema \in Schemas \cap req[r].attrs
    /\ pc[r] = "validate" =>
           /\ row[req[r].id] # NoRow
           /\ BoundTemplate(r) = row[req[r].id].schema
    /\ pc[r] = "cas" =>
           /\ row[req[r].id] # NoRow
           /\ row[req[r].id].schema = req[r].schema
           /\ req[r].schema \in req[r].attrs
    /\ pc[r] = "lock" =>
           \A p \in Products : got[r][p] # NoRow => lock[p] = r /\ got[r][p] = row[p]
    /\ pc[r] \in {"idle", "active", "insert", "load", "select"} => got[r] = NoRows
    /\ IF pc[r] \in {"images", "commit"} THEN Prepared(r) ELSE work[r] = NoRows
    /\ pc[r] = "commit" /\ req[r].op = "update" => gone[r] = VisibleImages(r)
    /\ pc[r] \notin {"invalidate", "done"} => committed[r] = {} /\ deletes[r] = {}
    /\ pc[r] = "invalidate" =>
           /\ committed[r] # {}
           /\ NamedIds(r) \subseteq committed[r]
           /\ todo[r] \subseteq committed[r]
           /\ deletes[r] = committed[r] \ todo[r]
    /\ result[r] = "none" <=> pc[r] # "done"

\* The strengthening of AttributesFitTemplate, ImagesMatchContent and ReplyHonest
\* that every step preserves: a transaction that has written holds the locks of
\* the rows its change was computed from until it publishes the change.
WriteInvariant ==
    /\ TypeOK
    /\ AttributesFitTemplate
    /\ ImagesMatchContent
    /\ ReplyHonest
    /\ \A r \in Requests : LocalInv(r)
-----------------------------------------------------------------------------
\* Every received request is answered: row locks taken in id order and one
\* connection per request leave no way to wait for ever.
EveryRequestAnswered ==
    \A r \in Requests : pc[r] # "idle" ~> pc[r] = "done"
=============================================================================
