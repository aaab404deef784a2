------------------------- MODULE ProductWritesProofs -------------------------
(***************************************************************************)
(* Proofs about ProductWrites, for every set of requests, products,         *)
(* template versions and request bodies and every pool size.                *)
(***************************************************************************)
EXTENDS ProductWrites, FiniteSetTheorems, WellFoundedInduction, TLAPS

\* Everything Next and AllAnswered can do, by cases.
Step == Next \/ AllAnswered

-----------------------------------------------------------------------------
(* Lemmas about rows and request bodies.                                    *)

\* The fields of a request body, by operation (the models of schemas.py).
LEMMA PayloadFields ==
    ASSUME NEW m \in Payloads
    PROVE  /\ m.op \in {"create", "update", "status", "batch"}
           /\ m.op = "create" => /\ m.status \in Statuses
                                 /\ m.attrs \in SUBSET Schemas
           /\ m.op = "update" => m.id \in Products /\ m.attrs \in SUBSET Schemas
           /\ m.op \in {"status", "batch"} =>
                 /\ m.target \in Statuses
                 /\ Ids(m) \subseteq Products
                 /\ Ids(m) # {}
                 /\ \A i \in Indices(m) : m.items[i].id \in Products
<1> DEFINE moves == m.op \in {"status", "batch"}
<1>1. IsPayload(m)
  BY PayloadAssumption
<1>2. m.op \in {"create", "update", "status", "batch"}
  BY <1>1 DEF IsPayload
<1>3. m.op = "create" => m.status \in Statuses /\ m.attrs \in SUBSET Schemas
  BY <1>1 DEF IsPayload, ProductCreate
<1>4. m.op = "update" => m.id \in Products /\ m.attrs \in SUBSET Schemas
  BY <1>1 DEF IsPayload, ProductUpdate
<1>5. ASSUME moves
      PROVE  /\ m.target \in Statuses
             /\ m.items \in Seq(VersionRef)
             /\ Len(m.items) \in Nat \ {0}
  BY <1>1, <1>5 DEF IsPayload, ProductStatusUpdate, ProductBatchStatusUpdate, Statuses
<1>6. ASSUME moves
      PROVE  /\ \A i \in Indices(m) : m.items[i].id \in Products
             /\ 1 \in Indices(m)
  <2>1. m.items \in Seq(VersionRef) /\ Len(m.items) \in Nat \ {0}
    BY <1>5, <1>6
  <2>2. DOMAIN m.items = 1..Len(m.items)
    BY <2>1
  <2>3. \A i \in DOMAIN m.items : m.items[i] \in VersionRef
    BY <2>1, <2>2
  <2>4. QED
    BY <2>1, <2>2, <2>3 DEF Indices, VersionRef
<1>7. QED
  BY <1>2, <1>3, <1>4, <1>5, <1>6 DEF Ids

\* Each kind of write turns a row into a row.
LEMMA RowsStayRows ==
    ASSUME NEW r \in Requests, NEW m, NEW old \in ProductRow
    PROVE  /\ m.attrs \in SUBSET Schemas => EditedRow(r, m, old) \in ProductRow
           /\ m.target \in Statuses => MovedRow(m, old) \in ProductRow
<1>1. old.version + 1 \in VersionNumbers
  BY DEF ProductRow, VersionNumbers
<1>2. ASSUME m.attrs \in SUBSET Schemas
      PROVE  EditedRow(r, m, old) \in ProductRow
  BY <1>1, <1>2 DEF EditedRow, ProductRow, Editors
<1>3. ASSUME m.target \in Statuses
      PROVE  MovedRow(m, old) \in ProductRow
  BY <1>1, <1>3 DEF MovedRow, ProductRow
<1>4. QED
  BY <1>2, <1>3

LEMMA NewRowIsRow ==
    ASSUME NEW r \in Requests, NEW m,
           m.status \in Statuses, m.schema \in Schemas, m.attrs \in SUBSET Schemas
    PROVE  NewRow(r, m) \in ProductRow
  BY DEF NewRow, ProductRow, VersionNumbers, Editors

\* What the writes change and what they leave alone.
LEMMA RowEffects ==
    ASSUME NEW r \in Requests, NEW m, NEW old \in ProductRow
    PROVE  /\ EditedRow(r, m, old).version = old.version + 1
           /\ EditedRow(r, m, old).status = old.status
           /\ EditedRow(r, m, old).schema = old.schema
           /\ EditedRow(r, m, old).attrs = m.attrs
           /\ EditedRow(r, m, old).edit = r
           /\ MovedRow(m, old).version = old.version + 1
           /\ MovedRow(m, old).status = m.target
           /\ MovedRow(m, old).schema = old.schema
           /\ MovedRow(m, old).attrs = old.attrs
           /\ MovedRow(m, old).edit = old.edit
  BY DEF EditedRow, MovedRow, ProductRow
-----------------------------------------------------------------------------
(* A step of one request leaves the others where they are.                  *)

SameLocals(q) ==
    /\ pc'[q] = pc[q]
    /\ req'[q] = req[q]
    /\ got'[q] = got[q]
    /\ work'[q] = work[q]
    /\ gone'[q] = gone[q]
    /\ todo'[q] = todo[q]
    /\ committed'[q] = committed[q]
    /\ deletes'[q] = deletes[q]
    /\ result'[q] = result[q]

\* The rows q holds locked stay as they are; other rows stay and keep their template.
RowsUndisturbed(q) ==
    /\ \A p \in Products : lock[p] = q =>
           lock'[p] = q /\ row'[p] = row[p] /\ imgs'[p] = imgs[p]
    /\ \A p \in Products : row[p] # NoRow =>
           row'[p] # NoRow /\ row'[p].schema = row[p].schema

LEMMA PreparedFrame ==
    ASSUME NEW q \in Requests, req[q] \in Payloads, Prepared(q),
           SameLocals(q), RowsUndisturbed(q)
    PROVE  Prepared(q)'
<1> USE DEF SameLocals, RowsUndisturbed
<1>1. ASSUME req[q].op = "create", PreparedCreate(q)
      PROVE  PreparedCreate(q)'
  BY <1>1 DEF PreparedCreate
<1>2. ASSUME req[q].op = "update", PreparedUpdate(q)
      PROVE  PreparedUpdate(q)'
  <2> DEFINE p == req[q].id
  <2>1. p \in Products
    BY <1>2, PayloadFields
  <2>2. lock'[p] = q /\ row'[p] = row[p] /\ req'[q].id = p
    BY <1>2, <2>1 DEF PreparedUpdate
  <2>3. QED
    BY <1>2, <2>2 DEF PreparedUpdate
<1>3. ASSUME req[q].op \in {"status", "batch"}, PreparedMove(q)
      PROVE  PreparedMove(q)'
  <2>1. Ids(req[q]) \subseteq Products
    BY <1>3, PayloadFields
  <2>2. \A p \in Ids(req[q]) : lock'[p] = q /\ row'[p] = row[p]
    BY <1>3, <2>1 DEF PreparedMove
  <2>3. \A i \in Indices(req[q]) : MayMove(req[q], i, row'[req[q].items[i].id])
    BY <1>3, <2>2 DEF PreparedMove, Ids
  <2>4. work[q] = [p \in Products |->
                     IF p \in Ids(req[q]) THEN MovedRow(req[q], row'[p]) ELSE NoRow]
    BY <1>3, <2>2 DEF PreparedMove
  <2>5. ~HasDuplicate(req[q])
    BY <1>3 DEF PreparedMove
  <2>6. QED
    BY <2>2, <2>3, <2>4, <2>5 DEF PreparedMove
<1>4. QED
  BY <1>1, <1>2, <1>3 DEF Prepared

LEMMA LocalFrame ==
    ASSUME NEW q \in Requests, LocalInv(q), SameLocals(q), RowsUndisturbed(q),
           ImagesMatchContent, TypeOK
    PROVE  LocalInv(q)'
<1> USE DEF SameLocals
<1>1. CASE req[q] \notin Payloads
  BY <1>1, Zenon DEF LocalInv
<1>2. CASE req[q] \in Payloads
  <2>1. req[q].op = "update" => req[q].id \in Products
    BY <1>2, PayloadFields
  <2>2. pc[q] = "validate" =>
           /\ row'[req[q].id] # NoRow
           /\ BoundTemplate(q)' = row'[req[q].id].schema
    BY <2>1 DEF LocalInv, RowsUndisturbed, BoundTemplate
  <2>3. pc[q] = "cas" =>
           /\ row'[req[q].id] # NoRow
           /\ row'[req[q].id].schema = req[q].schema
           /\ req[q].schema \in req[q].attrs
    BY <2>1 DEF LocalInv, RowsUndisturbed
  <2>4. pc[q] = "lock" =>
           \A p \in Products : got[q][p] # NoRow => lock'[p] = q /\ got[q][p] = row'[p]
    BY DEF LocalInv, RowsUndisturbed
  <2>5. pc[q] \in {"images", "commit"} => Prepared(q)'
    BY <1>2, PreparedFrame DEF LocalInv
  <2>6. pc[q] = "commit" /\ req[q].op = "update" => gone[q] = imgs'[req[q].id]
    <3> SUFFICES ASSUME pc[q] = "commit", req[q].op = "update"
                 PROVE  gone[q] = imgs'[req[q].id]
      OBVIOUS
    <3>1. Prepared(q) /\ gone[q] = imgs[req[q].id]
      BY DEF LocalInv, VisibleImages
    <3>2. lock[req[q].id] = q
      BY <3>1 DEF Prepared, PreparedUpdate
    <3>3. QED
      BY <2>1, <3>1, <3>2 DEF RowsUndisturbed
  <2>7. NamedIds(q)' = NamedIds(q)
    BY DEF NamedIds
  <2>8. QED
    BY <1>2, <2>2, <2>3, <2>4, <2>5, <2>6, <2>7 DEF LocalInv, VisibleImages
<1>3. QED
  BY <1>1, <1>2
-----------------------------------------------------------------------------
(* The steps that publish nothing.                                          *)

OthersUndisturbed(r) ==
    \A q \in Requests \ {r} :
        /\ SameLocals(q)
        /\ \A p \in Products : lock[p] = q => lock'[p] = q

LEMMA QuietStep ==
    ASSUME WriteInvariant, NEW r \in Requests,
           UNCHANGED <<row, imgs>>, OthersUndisturbed(r),
           TypeOK', LocalInv(r)',
           /\ result'[r] = "ok" =>
                 /\ committed'[r] # {}
                 /\ NamedIds(r)' \subseteq committed'[r]
                 /\ deletes'[r] = committed'[r],
           result'[r] = "refused" => committed'[r] = {}
    PROVE  WriteInvariant'
<1>1. AttributesFitTemplate' /\ ImagesMatchContent'
  BY DEF WriteInvariant, AttributesFitTemplate, ImagesMatchContent
<1>2. ASSUME NEW q \in Requests \ {r}
      PROVE  LocalInv(q)'
  <2>1. SameLocals(q) /\ RowsUndisturbed(q)
    BY DEF OthersUndisturbed, RowsUndisturbed
  <2>2. QED
    BY <2>1, LocalFrame DEF WriteInvariant
<1>3. ASSUME NEW q \in Requests \ {r}
      PROVE  /\ result'[q] = "ok" =>
                   /\ committed'[q] # {}
                   /\ NamedIds(q)' \subseteq committed'[q]
                   /\ deletes'[q] = committed'[q]
             /\ result'[q] = "refused" => committed'[q] = {}
  <2>1. SameLocals(q)
    BY DEF OthersUndisturbed
  <2>2. NamedIds(q)' = NamedIds(q)
    BY <2>1 DEF SameLocals, NamedIds
  <2>3. QED
    BY <2>1, <2>2 DEF SameLocals, WriteInvariant, ReplyHonest
<1>4. ReplyHonest'
  BY <1>3 DEF ReplyHonest
<1>5. QED
  BY <1>1, <1>2, <1>4 DEF WriteInvariant

\* Ending a coroutine is sound wherever it happens, provided "ok" is only said when
\* the invalidation loop is through and "refused" only before the commit.
LEMMA EndStep ==
    ASSUME WriteInvariant, NEW r \in Requests,
           NEW answer \in {"ok", "refused", "error"}, End(r, answer),
           pc[r] \notin {"idle", "done"},
           answer = "ok" => pc[r] = "invalidate" /\ todo[r] = {},
           answer = "refused" => pc[r] # "invalidate"
    PROVE  WriteInvariant'
<1> USE DEF End, Goto
<1>1. TypeOK /\ LocalInv(r)
  BY DEF WriteInvariant
<1>2. TypeOK'
  <2>1. NoRows \in [Products -> MaybeRow]
    BY DEF NoRows, MaybeRow
  <2>2. Released(r) \in [Products -> Requests \cup {NoReq}]
    BY <1>1 DEF Released, TypeOK
  <2>3. QED
    BY <1>1, <2>1, <2>2 DEF TypeOK, Labels
<1>3. OthersUndisturbed(r)
  BY <1>1 DEF OthersUndisturbed, SameLocals, TypeOK, Released
<1>4. /\ pc'[r] = "done" /\ result'[r] = answer /\ work'[r] = NoRows
      /\ req'[r] = req[r] /\ committed'[r] = committed[r] /\ deletes'[r] = deletes[r]
  BY <1>1 DEF TypeOK
<1>5. LocalInv(r)'
  BY <1>1, <1>4 DEF LocalInv
<1>6. NamedIds(r)' = NamedIds(r)
  BY <1>4 DEF NamedIds
<1>7. /\ answer = "ok" => /\ committed[r] # {}
                          /\ NamedIds(r) \subseteq committed[r]
                          /\ deletes[r] = committed[r]
      /\ answer = "refused" => committed[r] = {}
  BY <1>1 DEF LocalInv
<1>8. QED
  BY <1>3, <1>2, <1>4, <1>5, <1>6, <1>7, QuietStep

LEMMA ReceiveStep ==
    ASSUME WriteInvariant, NEW r \in Requests, Receive(r)
    PROVE  WriteInvariant'
<1> USE DEF Receive, database, transaction
<1>1. TypeOK /\ LocalInv(r)
  BY DEF WriteInvariant
<1>2. PICK m \in Payloads :
          /\ req' = [req EXCEPT ![r] = m]
          /\ Goto(r, CASE m.op = "create" -> "active"
                       [] m.op = "update" -> "load"
                       [] OTHER -> "select")
  OBVIOUS
<1>3. m.op \in {"create", "update", "status", "batch"}
  BY PayloadFields
<1>4. /\ req'[r] = m
      /\ m.op = "create" => pc'[r] = "active"
      /\ m.op = "update" => pc'[r] = "load"
      /\ m.op \in {"status", "batch"} => pc'[r] = "select"
  BY <1>1, <1>2 DEF Goto, TypeOK
<1>5. pc'[r] \in {"active", "load", "select"}
  BY <1>3, <1>4
<1>6. TypeOK'
  <2>1. pc' \in [Requests -> Labels]
    BY <1>1, <1>2, <1>5 DEF Goto, TypeOK, Labels
  <2>2. req' \in [Requests -> Payloads \cup {NoPayload}]
    BY <1>1, <1>2 DEF TypeOK
  <2>3. QED
    BY <1>1, <2>1, <2>2 DEF TypeOK
<1>7. OthersUndisturbed(r)
  BY <1>1, <1>2 DEF OthersUndisturbed, SameLocals, TypeOK, Goto
<1>8. got[r] = NoRows
  BY <1>1 DEF LocalInv, At
<1>9. LocalInv(r)'
  BY <1>1, <1>3, <1>4, <1>5, <1>8 DEF LocalInv, At
<1>10. result'[r] = "none"
  BY <1>1 DEF LocalInv, At
<1>11. QED
  BY <1>6, <1>7, <1>9, <1>10, QuietStep

LEMMA CreateCheckStep ==
    ASSUME WriteInvariant, NEW r \in Requests, CreateCheck(r)
    PROVE  WriteInvariant'
<1>1. TypeOK /\ LocalInv(r)
  BY DEF WriteInvariant
<1>2. pc[r] = "active" /\ result[r] = "none" /\ req[r].op = "create"
  BY <1>1 DEF CreateCheck, At, LocalInv
<1>3. CASE ~CreatableUnder(active, req[r])
  <2>1. End(r, "refused")
    BY <1>3 DEF CreateCheck
  <2>2. QED
    BY <1>2, <2>1, EndStep
<1>4. CASE CreatableUnder(active, req[r])
  <2> USE DEF CreateCheck, database, transaction
  <2>1. pc' = [pc EXCEPT ![r] = "insert"]
    BY <1>4 DEF Goto
  <2>2. TypeOK'
    BY <1>1, <1>4, <2>1 DEF TypeOK, Labels
  <2>3. OthersUndisturbed(r)
    BY <1>1, <1>4, <2>1 DEF OthersUndisturbed, SameLocals, TypeOK
  <2>4. req[r] \in Payloads
    BY <1>1, <1>2 DEF LocalInv
  <2>5. req[r].schema \in Schemas \cap req[r].attrs
    BY <1>1, <1>2, <1>4, <2>4, PayloadFields DEF CreatableUnder, TypeOK
  <2>6. LocalInv(r)'
    BY <1>1, <1>2, <1>4, <2>1, <2>5 DEF LocalInv, TypeOK
  <2>7. QED
    BY <1>2, <1>4, <2>2, <2>3, <2>6, QuietStep
<1>5. QED
  BY <1>3, <1>4

LEMMA CreateInsertStep ==
    ASSUME WriteInvariant, NEW r \in Requests, CreateInsert(r)
    PROVE  WriteInvariant'
<1> USE DEF CreateInsert, Goto
<1>1. TypeOK /\ LocalInv(r)
  BY DEF WriteInvariant
<1>2. /\ pc[r] = "insert" /\ result[r] = "none" /\ req[r].op = "create"
      /\ req[r] \in Payloads /\ work[r] = NoRows
      /\ req[r].schema \in Schemas \cap req[r].attrs
  BY <1>1 DEF At, LocalInv
<1>3. PICK p \in Products :
          /\ row[p] = NoRow
          /\ lock[p] = NoReq
          /\ lock' = [lock EXCEPT ![p] = r]
          /\ work' = [work EXCEPT ![r][p] = NewRow(r, req[r])]
  OBVIOUS
<1>4. NewRow(r, req[r]) \in ProductRow
  BY <1>2, PayloadFields, NewRowIsRow
<1>5. work'[r] = [NoRows EXCEPT ![p] = NewRow(r, req[r])]
  BY <1>1, <1>2, <1>3 DEF TypeOK
<1>6. TypeOK'
  <2>1. work' \in [Requests -> [Products -> MaybeRow]]
    BY <1>1, <1>3, <1>4 DEF TypeOK, MaybeRow
  <2>2. QED
    BY <1>1, <1>3, <2>1 DEF TypeOK, Labels
<1>7. OthersUndisturbed(r)
  BY <1>1, <1>3, NoReqAssumption DEF OthersUndisturbed, SameLocals, TypeOK
<1>8. Prepared(r)'
  <2>1. PreparedCreate(r)'
    BY <1>1, <1>3, <1>5 DEF PreparedCreate, TypeOK
  <2>2. QED
    BY <1>2, <2>1 DEF Prepared
<1>9. LocalInv(r)'
  BY <1>1, <1>2, <1>8 DEF LocalInv, TypeOK
<1>10. QED
  BY <1>2, <1>6, <1>7, <1>9, QuietStep

LEMMA UpdateLoadStep ==
    ASSUME WriteInvariant, NEW r \in Requests, UpdateLoad(r)
    PROVE  WriteInvariant'
<1> DEFINE p == req[r].id
<1>1. TypeOK /\ LocalInv(r)
  BY DEF WriteInvariant
<1>2. /\ pc[r] = "load" /\ result[r] = "none" /\ req[r].op = "update"
      /\ req[r] \in Payloads
  BY <1>1 DEF UpdateLoad, At, LocalInv
<1>3. CASE row[p] = NoRow
  <2>1. End(r, "refused")
    BY <1>3 DEF UpdateLoad
  <2>2. QED
    BY <1>2, <2>1, EndStep
<1>4. CASE row[p] # NoRow
  <2> USE DEF UpdateLoad, database
  <2>1. pc' = [pc EXCEPT ![r] = "validate"] /\ got' = [got EXCEPT ![r][p] = row[p]]
    BY <1>4 DEF Goto
  <2>2. p \in Products
    BY <1>2, PayloadFields
  <2>3. TypeOK'
    <3>1. got' \in [Requests -> [Products -> MaybeRow]]
      BY <1>1, <2>1, <2>2 DEF TypeOK
    <3>2. QED
      BY <1>1, <1>4, <2>1, <3>1 DEF TypeOK, Labels
  <2>4. OthersUndisturbed(r)
    BY <1>1, <1>4, <2>1 DEF OthersUndisturbed, SameLocals, TypeOK
  <2>5. got'[r][p] = row[p]
    BY <1>1, <2>1, <2>2 DEF TypeOK
  <2>6. LocalInv(r)'
    BY <1>1, <1>2, <1>4, <2>1, <2>5 DEF LocalInv, TypeOK, BoundTemplate
  <2>7. QED
    BY <1>2, <1>4, <2>3, <2>4, <2>6, QuietStep
<1>5. QED
  BY <1>3, <1>4

LEMMA UpdateCheckStep ==
    ASSUME WriteInvariant, NEW r \in Requests, UpdateCheck(r)
    PROVE  WriteInvariant'
<1> DEFINE valid == BoundTemplate(r) = req[r].schema /\ BoundTemplate(r) \in req[r].attrs
<1>1. TypeOK /\ LocalInv(r)
  BY DEF WriteInvariant
<1>2. pc[r] = "validate" /\ result[r] = "none" /\ req[r].op = "update"
  BY <1>1 DEF UpdateCheck, At, LocalInv
<1>3. CASE ~valid
  <2>1. End(r, "refused")
    BY <1>3 DEF UpdateCheck
  <2>2. QED
    BY <1>2, <2>1, EndStep
<1>4. CASE valid
  <2> USE DEF UpdateCheck, database, transaction
  <2>1. pc' = [pc EXCEPT ![r] = "cas"]
    BY <1>4 DEF Goto
  <2>2. TypeOK'
    BY <1>1, <1>4, <2>1 DEF TypeOK, Labels
  <2>3. OthersUndisturbed(r)
    BY <1>1, <1>4, <2>1 DEF OthersUndisturbed, SameLocals, TypeOK
  <2>4. LocalInv(r)'
    BY <1>1, <1>2, <1>4, <2>1 DEF LocalInv, TypeOK
  <2>5. QED
    BY <1>2, <1>4, <2>2, <2>3, <2>4, QuietStep
<1>5. QED
  BY <1>3, <1>4

LEMMA UpdateRowStep ==
    ASSUME WriteInvariant, NEW r \in Requests, UpdateRow(r)
    PROVE  WriteInvariant'
<1> DEFINE p == req[r].id
<1>1. TypeOK /\ LocalInv(r)
  BY DEF WriteInvariant
<1>2. /\ pc[r] = "cas" /\ result[r] = "none" /\ req[r].op = "update"
      /\ req[r] \in Payloads /\ work[r] = NoRows /\ row[p] # NoRow
      /\ row[p].schema = req[r].schema /\ req[r].schema \in req[r].attrs
  BY <1>1 DEF UpdateRow, At, LocalInv
<1>3. CASE End(r, "refused")
  BY <1>2, <1>3, EndStep
<1>4. CASE ~End(r, "refused")
  <2> USE DEF UpdateRow, Goto
  <2>1. /\ row[p].version = req[r].version
        /\ lock[p] = NoReq
        /\ lock' = [lock EXCEPT ![p] = r]
        /\ work' = [work EXCEPT ![r][p] = EditedRow(r, req[r], row[p])]
        /\ pc' = [pc EXCEPT ![r] = "images"]
        /\ UNCHANGED <<row, imgs, active, req, got, gone, todo, committed, deletes, result>>
    BY <1>4 DEF VersionMatches
  <2>2. p \in Products /\ req[r].attrs \in SUBSET Schemas
    BY <1>2, PayloadFields
  <2>3. row[p] \in ProductRow
    BY <1>1, <1>2, <2>2 DEF TypeOK, MaybeRow
  <2>4. EditedRow(r, req[r], row[p]) \in ProductRow
    BY <2>2, <2>3, RowsStayRows
  <2>5. work'[r] = [NoRows EXCEPT ![p] = EditedRow(r, req[r], row[p])]
    BY <1>1, <1>2, <2>1 DEF TypeOK
  <2>6. TypeOK'
    <3>1. work' \in [Requests -> [Products -> MaybeRow]]
      BY <1>1, <2>1, <2>2, <2>4 DEF TypeOK, MaybeRow
    <3>2. QED
      BY <1>1, <2>1, <2>2, <3>1 DEF TypeOK, Labels
  <2>7. OthersUndisturbed(r)
    BY <1>1, <2>1, NoReqAssumption DEF OthersUndisturbed, SameLocals, TypeOK
  <2>8. Prepared(r)'
    <3>1. PreparedUpdate(r)'
      BY <1>1, <1>2, <2>1, <2>2, <2>5 DEF PreparedUpdate, TypeOK
    <3>2. QED
      BY <1>2, <2>1, <3>1 DEF Prepared
  <2>9. LocalInv(r)'
    BY <1>1, <1>2, <2>1, <2>8 DEF LocalInv, TypeOK
  <2>10. QED
    BY <1>2, <2>1, <2>6, <2>7, <2>9, QuietStep
<1>5. QED
  BY <1>3, <1>4

LEMMA ReplaceImagesStep ==
    ASSUME WriteInvariant, NEW r \in Requests, ReplaceImages(r)
    PROVE  WriteInvariant'
<1> USE DEF ReplaceImages, Goto, database
<1>1. TypeOK /\ LocalInv(r)
  BY DEF WriteInvariant
<1>2. /\ pc[r] = "images" /\ result[r] = "none" /\ req[r].op = "update"
      /\ req[r] \in Payloads /\ Prepared(r)
  BY <1>1 DEF At, LocalInv
<1>3. req[r].id \in Products
  BY <1>2, PayloadFields
<1>4. TypeOK'
  BY <1>1, <1>3 DEF TypeOK, Labels, VisibleImages
<1>5. OthersUndisturbed(r)
  BY <1>1 DEF OthersUndisturbed, SameLocals, TypeOK
<1>6. Prepared(r)'
  BY <1>2 DEF Prepared, PreparedUpdate
<1>7. LocalInv(r)'
  BY <1>1, <1>2, <1>6 DEF LocalInv, TypeOK, VisibleImages
<1>8. QED
  BY <1>2, <1>4, <1>5, <1>7, QuietStep

LEMMA BatchSelectStep ==
    ASSUME WriteInvariant, NEW r \in Requests, BatchSelect(r)
    PROVE  WriteInvariant'
<1> USE DEF BatchSelect, Goto, database, transaction
<1>1. TypeOK /\ LocalInv(r)
  BY DEF WriteInvariant
<1>2. /\ pc[r] = "select" /\ result[r] = "none" /\ req[r].op \in {"status", "batch"}
      /\ req[r] \in Payloads /\ got[r] = NoRows
  BY <1>1 DEF At, LocalInv
<1>3. Ids(req[r]) \subseteq Products
  BY <1>2, PayloadFields
<1>4. TypeOK'
  <2>1. {p \in Ids(req[r]) : row[p] # NoRow} \in SUBSET Products
    BY <1>3
  <2>2. QED
    BY <1>1, <2>1 DEF TypeOK, Labels
<1>5. OthersUndisturbed(r)
  BY <1>1 DEF OthersUndisturbed, SameLocals, TypeOK
<1>6. LocalInv(r)'
  BY <1>1, <1>2 DEF LocalInv, TypeOK, NoRows
<1>7. QED
  BY <1>2, <1>4, <1>5, <1>6, QuietStep

LEMMA BatchLockStep ==
    ASSUME WriteInvariant, NEW r \in Requests, BatchLock(r)
    PROVE  WriteInvariant'
<1> USE DEF BatchLock
<1>1. TypeOK /\ LocalInv(r)
  BY DEF WriteInvariant
<1>2. /\ pc[r] = "lock" /\ result[r] = "none" /\ req[r].op \in {"status", "batch"}
  BY <1>1 DEF At, LocalInv
<1>3. PICK p \in Products :
          /\ lock[p] = NoReq
          /\ lock' = [lock EXCEPT ![p] = r]
          /\ got' = [got EXCEPT ![r][p] = row[p]]
          /\ todo' = [todo EXCEPT ![r] = @ \ {p}]
  OBVIOUS
<1>4. TypeOK'
  <2>1. got' \in [Requests -> [Products -> MaybeRow]]
    BY <1>1, <1>3 DEF TypeOK
  <2>2. QED
    BY <1>1, <1>3, <2>1 DEF TypeOK
<1>5. OthersUndisturbed(r)
  BY <1>1, <1>3, NoReqAssumption DEF OthersUndisturbed, SameLocals, TypeOK
<1>6. \A q \in Products : got'[r][q] # NoRow => lock'[q] = r /\ got'[r][q] = row[q]
  BY <1>1, <1>2, <1>3 DEF LocalInv, TypeOK
<1>7. LocalInv(r)'
  BY <1>1, <1>2, <1>3, <1>6 DEF LocalInv
<1>8. QED
  BY <1>2, <1>4, <1>5, <1>7, QuietStep

LEMMA BatchApplyStep ==
    ASSUME WriteInvariant, NEW r \in Requests, BatchApply(r)
    PROVE  WriteInvariant'
<1> DEFINE m == req[r]
<1>1. TypeOK /\ LocalInv(r)
  BY DEF WriteInvariant
<1>2. /\ pc[r] = "lock" /\ result[r] = "none" /\ m.op \in {"status", "batch"}
      /\ m \in Payloads
  BY <1>1 DEF BatchApply, At, LocalInv
<1>3. CASE ~BatchValid(r)
  <2>1. End(r, "refused")
    BY <1>3 DEF BatchApply
  <2>2. QED
    BY <1>2, <2>1, EndStep
<1>4. CASE BatchValid(r)
  <2>1. /\ work' = [work EXCEPT ![r] =
              [p \in Products |-> IF p \in Ids(m) THEN MovedRow(m, got[r][p]) ELSE NoRow]]
        /\ pc' = [pc EXCEPT ![r] = "commit"]
        /\ UNCHANGED <<row, imgs, lock, active, req, got, gone, todo, committed,
                       deletes, result>>
    BY <1>4 DEF BatchApply, Goto, database
  <2>2. /\ Ids(m) \subseteq Products /\ m.target \in Statuses
        /\ \A i \in Indices(m) : m.items[i].id \in Products
    BY <1>2, PayloadFields
  <2>3. \A p \in Products : got[r][p] # NoRow => lock[p] = r /\ got[r][p] = row[p]
    BY <1>1, <1>2 DEF LocalInv
  <2>4. \A i \in Indices(m) : MayMove(m, i, got[r][m.items[i].id])
    BY <1>4 DEF BatchValid
  <2>5. \A i \in Indices(m) :
            /\ got[r][m.items[i].id] # NoRow
            /\ MayMove(m, i, row[m.items[i].id])
    BY <2>2, <2>3, <2>4 DEF MayMove
  <2>6. \A p \in Ids(m) : got[r][p] # NoRow /\ lock[p] = r /\ got[r][p] = row[p]
    BY <2>2, <2>3, <2>5 DEF Ids
  <2>7. work'[r] = [p \in Products |-> IF p \in Ids(m) THEN MovedRow(m, row[p]) ELSE NoRow]
    BY <1>1, <2>1, <2>6 DEF TypeOK
  <2>8. TypeOK'
    <3>1. \A p \in Ids(m) : row[p] \in ProductRow
      BY <1>1, <2>2, <2>6 DEF TypeOK, MaybeRow
    <3>2. \A p \in Ids(m) : MovedRow(m, row[p]) \in MaybeRow
      BY <3>1, <2>2, RowsStayRows DEF MaybeRow
    <3>3. work'[r] \in [Products -> MaybeRow]
      BY <2>7, <3>2 DEF MaybeRow
    <3>4. work' \in [Requests -> [Products -> MaybeRow]]
      BY <1>1, <2>1, <3>3 DEF TypeOK
    <3>5. QED
      BY <1>1, <2>1, <3>4 DEF TypeOK, Labels
  <2>9. OthersUndisturbed(r)
    BY <1>1, <2>1 DEF OthersUndisturbed, SameLocals, TypeOK
  <2>10. Prepared(r)'
    <3>1. ~HasDuplicate(m)
      BY <1>4 DEF BatchValid
    <3>2. PreparedMove(r)'
      BY <2>1, <2>5, <2>6, <2>7, <3>1 DEF PreparedMove
    <3>3. QED
      BY <1>2, <2>1, <3>2 DEF Prepared
  <2>11. LocalInv(r)'
    BY <1>1, <1>2, <2>1, <2>10 DEF LocalInv, TypeOK
  <2>12. QED
    BY <1>2, <2>1, <2>8, <2>9, <2>11, QuietStep
<1>5. QED
  BY <1>3, <1>4

LEMMA InvalidateNextStep ==
    ASSUME WriteInvariant, NEW r \in Requests, InvalidateNext(r)
    PROVE  WriteInvariant'
<1> USE DEF InvalidateNext, database, transaction
<1>1. TypeOK /\ LocalInv(r)
  BY DEF WriteInvariant
<1>2. pc[r] = "invalidate" /\ result[r] = "none"
  BY <1>1 DEF At, LocalInv
<1>3. PICK p \in todo[r] :
          /\ deletes' = [deletes EXCEPT ![r] = @ \cup {p}]
          /\ todo' = [todo EXCEPT ![r] = @ \ {p}]
  BY DEF IsNext
<1>4. TypeOK'
  BY <1>1, <1>3 DEF TypeOK
<1>5. OthersUndisturbed(r)
  BY <1>1, <1>3 DEF OthersUndisturbed, SameLocals, TypeOK
<1>6. NamedIds(r)' = NamedIds(r)
  BY DEF NamedIds
<1>7. /\ todo'[r] \subseteq committed[r]
      /\ deletes'[r] = committed[r] \ todo'[r]
  BY <1>1, <1>2, <1>3 DEF LocalInv, TypeOK
<1>8. LocalInv(r)'
  BY <1>1, <1>2, <1>6, <1>7 DEF LocalInv
<1>9. QED
  BY <1>2, <1>4, <1>5, <1>8, QuietStep

LEMMA RespondStep ==
    ASSUME WriteInvariant, NEW r \in Requests, Respond(r)
    PROVE  WriteInvariant'
  BY EndStep DEF Respond, At

LEMMA DieStep ==
    ASSUME WriteInvariant, NEW r \in Requests, Die(r)
    PROVE  WriteInvariant'
  BY EndStep DEF Die

LEMMA ActivateTemplateStep ==
    ASSUME WriteInvariant, ActivateTemplate
    PROVE  WriteInvariant'
<1> USE DEF ActivateTemplate, database, transaction
<1>1. TypeOK'
  BY DEF WriteInvariant, TypeOK
<1>2. AttributesFitTemplate' /\ ImagesMatchContent'
  BY DEF WriteInvariant, AttributesFitTemplate, ImagesMatchContent
<1>3. ReplyHonest'
  BY DEF WriteInvariant, ReplyHonest, NamedIds
<1>4. ASSUME NEW q \in Requests
      PROVE  LocalInv(q)'
  <2>1. SameLocals(q) /\ RowsUndisturbed(q)
    BY DEF SameLocals, RowsUndisturbed
  <2>2. QED
    BY <2>1, LocalFrame DEF WriteInvariant
<1>5. QED
  BY <1>1, <1>2, <1>3, <1>4 DEF WriteInvariant
-----------------------------------------------------------------------------
(* The commit.                                                              *)

\* A commit replaces row p by a sound successor that request r asked for.
SoundReplacement(r, p) ==
    /\ lock[p] = r
    /\ row'[p] \in ProductRow
    /\ row'[p].schema \in row'[p].attrs
    /\ imgs'[p] = {row'[p].edit}
    /\ row[p] # NoRow =>
          /\ row'[p].schema = row[p].schema
          /\ row'[p].version = row[p].version + 1
          /\ row[p].status = "penalized" => row'[p].status = "penalized"
          /\ req[r].op # "create"
          /\ NamedVersions(r, p) = {row[p].version}

LEMMA PublishCreate ==
    ASSUME WriteInvariant, NEW r \in Requests, pc[r] = "commit", Publish(r),
           req[r].op = "create"
    PROVE  /\ Touched(r) # {}
           /\ \A p \in Touched(r) : SoundReplacement(r, p)
<1>1. TypeOK /\ LocalInv(r) /\ req[r] \in Payloads
  BY DEF WriteInvariant, LocalInv
<1>2. PreparedCreate(r) /\ req[r].schema \in Schemas \cap req[r].attrs
  BY <1>1 DEF LocalInv, Prepared
<1>3. PICK p \in Products :
          /\ lock[p] = r
          /\ row[p] = NoRow
          /\ work[r] = [NoRows EXCEPT ![p] = NewRow(r, req[r])]
  BY <1>2 DEF PreparedCreate
<1>4. NewRow(r, req[r]) \in ProductRow
  BY <1>1, <1>2, PayloadFields, NewRowIsRow
<1>5. Touched(r) = {p} /\ work[r][p] = NewRow(r, req[r])
  BY <1>3, <1>4, ConstantAssumption DEF Touched, NoRows
<1>6. row'[p] = NewRow(r, req[r])
  BY <1>5 DEF Publish
<1>7. imgs[p] = {}
  BY <1>3 DEF WriteInvariant, ImagesMatchContent
<1>8. imgs'[p] = {r}
  BY <1>5, <1>7 DEF Publish
<1>9. SoundReplacement(r, p)
  BY <1>2, <1>3, <1>4, <1>6, <1>8 DEF SoundReplacement, NewRow
<1>10. QED
  BY <1>5, <1>9

LEMMA PublishUpdate ==
    ASSUME WriteInvariant, NEW r \in Requests, pc[r] = "commit", Publish(r),
           req[r].op = "update"
    PROVE  /\ Touched(r) = {req[r].id}
           /\ \A p \in Touched(r) : SoundReplacement(r, p)
<1> DEFINE p == req[r].id
<1>1. TypeOK /\ LocalInv(r) /\ req[r] \in Payloads
  BY DEF WriteInvariant, LocalInv
<1>2. PreparedUpdate(r)
  BY <1>1 DEF LocalInv, Prepared
<1>3. p \in Products /\ req[r].attrs \in SUBSET Schemas
  BY <1>1, PayloadFields
<1>4. row[p] \in ProductRow
  BY <1>1, <1>2, <1>3 DEF PreparedUpdate, TypeOK, MaybeRow
<1>5. EditedRow(r, req[r], row[p]) \in ProductRow
  BY <1>3, <1>4, RowsStayRows
<1>6. Touched(r) = {p} /\ work[r][p] = EditedRow(r, req[r], row[p])
  BY <1>2, <1>3, <1>5, ConstantAssumption DEF PreparedUpdate, Touched, NoRows
<1>7. row'[p] = EditedRow(r, req[r], row[p])
  BY <1>3, <1>6 DEF Publish
<1>8. gone[r] = imgs[p]
  BY <1>1 DEF LocalInv, VisibleImages
<1>9. imgs'[p] = {r}
  BY <1>3, <1>6, <1>8 DEF Publish
<1>10. NamedVersions(r, p) = {row[p].version}
  BY <1>2 DEF NamedVersions, PreparedUpdate
<1>11. SoundReplacement(r, p)
  BY <1>2, <1>3, <1>4, <1>5, <1>7, <1>9, <1>10, RowEffects
     DEF SoundReplacement, PreparedUpdate
<1>12. QED
  BY <1>6, <1>11

LEMMA PublishMove ==
    ASSUME WriteInvariant, NEW r \in Requests, pc[r] = "commit", Publish(r),
           req[r].op \in {"status", "batch"}
    PROVE  /\ Touched(r) = Ids(req[r])
           /\ \A p \in Ids(req[r]) : row[p] # NoRow /\ work[r][p] = MovedRow(req[r], row[p])
           /\ \A p \in Touched(r) : SoundReplacement(r, p)
<1> DEFINE m == req[r]
<1>1. TypeOK /\ LocalInv(r) /\ m \in Payloads
  BY DEF WriteInvariant, LocalInv
<1>2. PreparedMove(r)
  BY <1>1 DEF LocalInv, Prepared
<1>3. Ids(m) \subseteq Products /\ m.target \in Statuses
  BY <1>1, PayloadFields
<1>4. ASSUME NEW p \in Ids(m)
      PROVE  /\ p \in Products
             /\ row[p] \in ProductRow
             /\ <<row[p].status, m.target>> \in AllowedTransitions
             /\ MovedRow(m, row[p]) \in ProductRow
             /\ work[r][p] = MovedRow(m, row[p])
  <2>1. PICK i \in Indices(m) : p = m.items[i].id
    BY DEF Ids
  <2>2. row[p] # NoRow /\ <<row[p].status, m.target>> \in AllowedTransitions
    BY <1>2, <2>1 DEF PreparedMove, MayMove
  <2>3. p \in Products
    BY <1>3
  <2>4. row[p] \in ProductRow
    BY <1>1, <2>2, <2>3 DEF TypeOK, MaybeRow
  <2>5. MovedRow(m, row[p]) \in ProductRow
    BY <1>3, <2>4, RowsStayRows
  <2>6. work[r][p] = MovedRow(m, row[p])
    BY <1>2, <2>3 DEF PreparedMove
  <2>7. QED
    BY <2>2, <2>3, <2>4, <2>5, <2>6
<1>5. \A p \in Products \ Ids(m) : work[r][p] = NoRow
  BY <1>2 DEF PreparedMove
<1>6. Touched(r) = Ids(m)
  BY <1>3, <1>4, <1>5, ConstantAssumption DEF Touched
<1>7. ASSUME NEW p \in Ids(m)
      PROVE  SoundReplacement(r, p)
  <2>1. row'[p] = MovedRow(m, row[p])
    BY <1>4, <1>6 DEF Publish
  <2>2. imgs'[p] = imgs[p]
    BY <1>4 DEF Publish
  <2>3. row[p] # NoRow
    BY <1>4, ConstantAssumption
  <2>4. imgs[p] = {row[p].edit} /\ row[p].schema \in row[p].attrs
    BY <1>4, <2>3 DEF WriteInvariant, ImagesMatchContent, AttributesFitTemplate
  <2>5. row[p].status # "penalized"
    BY <1>4 DEF AllowedTransitions
  <2>6. NamedVersions(r, p) = {row[p].version}
    <3>1. \A i \in Indices(m) : m.items[i].id = p => m.items[i].version = row[p].version
      BY <1>2 DEF PreparedMove, MayMove
    <3>2. \E i \in Indices(m) : m.items[i].id = p
      BY DEF Ids
    <3>3. QED
      BY <3>1, <3>2 DEF NamedVersions
  <2>7. lock[p] = r
    BY <1>2 DEF PreparedMove
  <2>8. /\ row'[p].version = row[p].version + 1
        /\ row'[p].schema = row[p].schema
        /\ row'[p].attrs = row[p].attrs
        /\ row'[p].edit = row[p].edit
        /\ row'[p] \in ProductRow
    <3>1. row[p] \in ProductRow /\ MovedRow(m, row[p]) \in ProductRow
      BY <1>4
    <3>2. /\ MovedRow(m, row[p]).version = row[p].version + 1
          /\ MovedRow(m, row[p]).schema = row[p].schema
          /\ MovedRow(m, row[p]).attrs = row[p].attrs
          /\ MovedRow(m, row[p]).edit = row[p].edit
      BY <3>1, RowEffects
    <3>3. QED
      BY <2>1, <3>1, <3>2
  <2>9. req[r].op # "create"
    OBVIOUS
  <2>10. QED
    BY <2>2, <2>4, <2>5, <2>6, <2>7, <2>8, <2>9 DEF SoundReplacement
<1>8. QED
  BY <1>4, <1>6, <1>7, ConstantAssumption

\* Whatever the operation, a commit replaces at least the named rows, soundly.
LEMMA PublishEffect ==
    ASSUME WriteInvariant, NEW r \in Requests, pc[r] = "commit", Publish(r)
    PROVE  /\ Touched(r) # {}
           /\ NamedIds(r) \subseteq Touched(r)
           /\ \A p \in Touched(r) : SoundReplacement(r, p)
           /\ \A p \in Products \ Touched(r) : row'[p] = row[p] /\ imgs'[p] = imgs[p]
<1>1. req[r] \in Payloads
  BY DEF WriteInvariant, LocalInv
<1>2. req[r].op \in {"create", "update", "status", "batch"}
  BY <1>1, PayloadFields
<1>3. \A p \in Products \ Touched(r) : row'[p] = row[p] /\ imgs'[p] = imgs[p]
  BY DEF Publish
<1>4. CASE req[r].op = "create"
  BY <1>3, <1>4, PublishCreate DEF NamedIds
<1>5. CASE req[r].op = "update"
  BY <1>3, <1>5, PublishUpdate DEF NamedIds
<1>6. CASE req[r].op \in {"status", "batch"}
  <2>1. Ids(req[r]) # {}
    BY <1>1, <1>6, PayloadFields
  <2>2. NamedIds(r) = Ids(req[r])
    BY <1>6 DEF NamedIds
  <2>3. QED
    BY <1>3, <1>6, <2>1, <2>2, PublishMove
<1>7. QED
  BY <1>2, <1>4, <1>5, <1>6

\* Both ways a commit can end preserve the invariant.
LEMMA PublishStep ==
    ASSUME WriteInvariant, NEW r \in Requests, Commit(r) \/ CommitReplyLost(r)
    PROVE  WriteInvariant'
<1>1. TypeOK /\ LocalInv(r)
  BY DEF WriteInvariant
<1>2. pc[r] = "commit" /\ Publish(r) /\ result[r] = "none"
  BY <1>1 DEF Commit, CommitReplyLost, At, LocalInv
<1>3. /\ Touched(r) # {} /\ Touched(r) \subseteq Products
      /\ NamedIds(r) \subseteq Touched(r)
      /\ \A p \in Touched(r) : SoundReplacement(r, p)
      /\ \A p \in Products \ Touched(r) : row'[p] = row[p] /\ imgs'[p] = imgs[p]
  BY <1>2, PublishEffect DEF Touched
<1>4. /\ committed' = [committed EXCEPT ![r] = Touched(r)]
      /\ lock' = Released(r)
      /\ got' = [got EXCEPT ![r] = NoRows]
      /\ work' = [work EXCEPT ![r] = NoRows]
      /\ gone' = [gone EXCEPT ![r] = {}]
      /\ UNCHANGED <<active, req, deletes>>
  BY <1>2 DEF Publish
<1>5. \/ /\ todo' = [todo EXCEPT ![r] = Touched(r)]
         /\ pc' = [pc EXCEPT ![r] = "invalidate"]
         /\ result' = result
      \/ /\ todo' = todo
         /\ pc' = [pc EXCEPT ![r] = "done"]
         /\ result' = [result EXCEPT ![r] = "error"]
  BY DEF Commit, CommitReplyLost, Goto
<1>6. TypeOK'
  <2>1. row' \in [Products -> MaybeRow]
    <3>1. \A p \in Products : row'[p] \in MaybeRow
      BY <1>1, <1>3 DEF TypeOK, MaybeRow, SoundReplacement
    <3>2. QED
      BY <1>2, <3>1 DEF Publish
  <2>2. imgs' \in [Products -> SUBSET Editors]
    <3>1. \A p \in Products : imgs'[p] \in SUBSET Editors
      BY <1>1, <1>3 DEF TypeOK, SoundReplacement, ProductRow
    <3>2. QED
      BY <1>2, <3>1 DEF Publish
  <2>3. lock' \in [Products -> Requests \cup {NoReq}]
    BY <1>1, <1>4 DEF TypeOK, Released
  <2>4. NoRows \in [Products -> MaybeRow]
    BY DEF NoRows, MaybeRow
  <2>5. got' \in [Requests -> [Products -> MaybeRow]] /\ work' \in [Requests -> [Products -> MaybeRow]]
    BY <1>1, <1>4, <2>4 DEF TypeOK
  <2>6. pc' \in [Requests -> Labels] /\ todo' \in [Requests -> SUBSET Products]
        /\ result' \in [Requests -> {"none", "ok", "refused", "error"}]
    <3>1. todo' \in [Requests -> SUBSET Products]
      BY <1>1, <1>3, <1>5 DEF TypeOK
    <3>2. pc' \in [Requests -> Labels]
      BY <1>1, <1>5 DEF TypeOK, Labels
    <3>3. result' \in [Requests -> {"none", "ok", "refused", "error"}]
      BY <1>1, <1>5 DEF TypeOK
    <3>4. QED
      BY <3>1, <3>2, <3>3
  <2>7. QED
    BY <1>1, <1>3, <1>4, <2>1, <2>2, <2>3, <2>5, <2>6 DEF TypeOK
<1>7. AttributesFitTemplate'
  BY <1>3 DEF SoundReplacement, WriteInvariant, AttributesFitTemplate
<1>8. ImagesMatchContent'
  BY <1>3, ConstantAssumption DEF SoundReplacement, WriteInvariant, ImagesMatchContent
<1>9. NamedIds(r)' = NamedIds(r)
  BY <1>4 DEF NamedIds
<1>10. committed'[r] = Touched(r) /\ work'[r] = NoRows /\ deletes'[r] = {}
  BY <1>1, <1>2, <1>4 DEF TypeOK, LocalInv
<1>11. LocalInv(r)'
  BY <1>1, <1>2, <1>3, <1>4, <1>5, <1>9, <1>10 DEF LocalInv, TypeOK
<1>12. ASSUME NEW q \in Requests \ {r}
       PROVE  SameLocals(q) /\ LocalInv(q)'
  <2>1. SameLocals(q)
    BY <1>1, <1>4, <1>5 DEF SameLocals, TypeOK
  <2>2. RowsUndisturbed(q)
    <3>1. \A p \in Products : lock[p] = q => p \notin Touched(r)
      BY <1>3 DEF SoundReplacement
    <3>2. \A p \in Products : lock[p] = q => lock'[p] = q
      BY <1>4 DEF Released
    <3>3. \A p \in Products : row[p] # NoRow =>
              row'[p] # NoRow /\ row'[p].schema = row[p].schema
      BY <1>3, ConstantAssumption DEF SoundReplacement
    <3>4. QED
      BY <1>3, <3>1, <3>2, <3>3 DEF RowsUndisturbed
  <2>3. QED
    BY <2>1, <2>2, LocalFrame DEF WriteInvariant
<1>13. ReplyHonest'
  <2>1. result'[r] \in {"none", "error"}
    BY <1>1, <1>2, <1>5 DEF TypeOK
  <2>2. ASSUME NEW q \in Requests \ {r}
        PROVE  /\ result'[q] = result[q] /\ committed'[q] = committed[q]
               /\ deletes'[q] = deletes[q] /\ NamedIds(q)' = NamedIds(q)
    BY <1>12 DEF SameLocals, NamedIds
  <2>3. QED
    BY <2>1, <2>2 DEF WriteInvariant, ReplyHonest
<1>14. QED
  BY <1>6, <1>7, <1>8, <1>11, <1>12, <1>13 DEF WriteInvariant
-----------------------------------------------------------------------------
(* The invariant and what follows from it.                                  *)

LEMMA InitInvariant == Init => WriteInvariant
<1> SUFFICES ASSUME Init PROVE WriteInvariant
  OBVIOUS
<1>1. PICK old \in [Existing -> OldRows] :
          row = [p \in Products |-> IF p \in Existing THEN old[p] ELSE NoRow]
  BY DEF Init
<1>2. \A p \in Existing :
          /\ old[p] \in ProductRow
          /\ old[p].schema \in old[p].attrs
          /\ old[p].edit = Seed
  BY ExistingAssumption
<1>3. TypeOK
  <2>1. row \in [Products -> MaybeRow]
    BY <1>1, <1>2 DEF MaybeRow
  <2>2. NoRows \in [Products -> MaybeRow]
    BY DEF NoRows, MaybeRow
  <2>3. QED
    BY <2>1, <2>2 DEF Init, TypeOK, Labels, Editors
<1>4. AttributesFitTemplate
  BY <1>1, <1>2 DEF AttributesFitTemplate
<1>5. ImagesMatchContent
  BY <1>1, <1>2, ConstantAssumption DEF ImagesMatchContent, Init
<1>6. ReplyHonest
  BY DEF ReplyHonest, Init
<1>7. \A r \in Requests : LocalInv(r)
  BY DEF LocalInv, Init
<1>8. QED
  BY <1>3, <1>4, <1>5, <1>6, <1>7 DEF WriteInvariant

LEMMA StutterInvariant ==
    ASSUME WriteInvariant, UNCHANGED vars
    PROVE  WriteInvariant'
<1> USE DEF vars
<1>1. TypeOK' /\ AttributesFitTemplate' /\ ImagesMatchContent'
  BY DEF WriteInvariant, TypeOK, AttributesFitTemplate, ImagesMatchContent
<1>2. ReplyHonest'
  BY DEF WriteInvariant, ReplyHonest, NamedIds
<1>3. ASSUME NEW q \in Requests
      PROVE  LocalInv(q)'
  <2>1. SameLocals(q) /\ RowsUndisturbed(q)
    BY DEF SameLocals, RowsUndisturbed
  <2>2. QED
    BY <2>1, LocalFrame DEF WriteInvariant
<1>4. QED
  BY <1>1, <1>2, <1>3 DEF WriteInvariant

LEMMA NextInvariant == WriteInvariant /\ [Step]_vars => WriteInvariant'
<1> SUFFICES ASSUME WriteInvariant, [Step]_vars
             PROVE  WriteInvariant'
  OBVIOUS
<1>1. CASE UNCHANGED vars
  BY <1>1, StutterInvariant
<1>2. CASE ActivateTemplate
  BY <1>2, ActivateTemplateStep
<1>3. ASSUME NEW r \in Requests,
             Receive(r) \/ Handle(r) \/ CommitReplyLost(r) \/ Die(r)
      PROVE  WriteInvariant'
  BY <1>3, ReceiveStep, CreateCheckStep, CreateInsertStep, UpdateLoadStep, UpdateCheckStep,
     UpdateRowStep, ReplaceImagesStep, BatchSelectStep, BatchLockStep, BatchApplyStep,
     PublishStep, InvalidateNextStep, RespondStep, DieStep
     DEF Handle
<1>4. CASE AllAnswered
  BY <1>4, StutterInvariant DEF AllAnswered
<1>5. QED
  BY <1>1, <1>2, <1>3, <1>4 DEF Step, Next

\* The inductive invariant holds in every reachable state.
THEOREM WriteInvariantHolds == Spec => []WriteInvariant
  BY InitInvariant, NextInvariant, PTL DEF Spec, Step

\* Every variable keeps its type; every stored version is at least 1.
THEOREM TypeCorrect == Spec => []TypeOK
<1>1. WriteInvariant => TypeOK
  BY DEF WriteInvariant
<1>2. QED
  BY <1>1, WriteInvariantHolds, PTL

\* Stored attributes always satisfy the template the product is bound to.
THEOREM AttributesAlwaysFit == Spec => []AttributesFitTemplate
<1>1. WriteInvariant => AttributesFitTemplate
  BY DEF WriteInvariant
<1>2. QED
  BY <1>1, WriteInvariantHolds, PTL

\* Images and content of a product always come from the same request.
THEOREM ImagesAlwaysMatch == Spec => []ImagesMatchContent
<1>1. WriteInvariant => ImagesMatchContent
  BY DEF WriteInvariant
<1>2. QED
  BY <1>1, WriteInvariantHolds, PTL

\* "ok" is only said of a change that is committed and whose deletes were tried, "refused" only
\* of one that is not committed.
THEOREM RepliesAreHonest == Spec => []ReplyHonest
<1>1. WriteInvariant => ReplyHonest
  BY DEF WriteInvariant
<1>2. QED
  BY <1>1, WriteInvariantHolds, PTL

\* The steps that are not a commit leave rows and images alone.
LEMMA OnlyCommitsWrite ==
    ASSUME [Step]_vars
    PROVE  \/ UNCHANGED <<row, imgs, committed>>
           \/ \E r \in Requests : At(r, "commit") /\ Publish(r)
  BY DEF Step, Next, AllAnswered, Handle, ActivateTemplate, Receive, CreateCheck, CreateInsert,
         UpdateLoad, UpdateCheck, UpdateRow, ReplaceImages, BatchSelect, BatchLock, BatchApply,
         Commit, CommitReplyLost, InvalidateNext, Respond, Die, End, database, vars

\* One step can only replace a row soundly, on behalf of a request that named it.
LEMMA ReplacementsAreSound ==
    ASSUME WriteInvariant, [Step]_vars, NEW p \in Products, row'[p] # row[p]
    PROVE  \E r \in Requests : Commits(r, p) /\ SoundReplacement(r, p)
<1>1. PICK r \in Requests : At(r, "commit") /\ Publish(r)
  BY OnlyCommitsWrite
<1>2. p \in Touched(r) /\ SoundReplacement(r, p)
  BY <1>1, PublishEffect DEF At
<1>3. committed[r] = {} /\ committed'[r] = Touched(r)
  BY <1>1 DEF WriteInvariant, TypeOK, LocalInv, At, Publish
<1>4. QED
  BY <1>2, <1>3 DEF Commits

\* No lost update, for any number of concurrent requests.
THEOREM NoUpdateIsLost == Spec => NoLostUpdate
<1>1. ASSUME WriteInvariant, [Step]_vars, NEW p \in Products, row[p] # NoRow, row'[p] # row[p]
      PROVE  ReplacesNamedVersion(p)
  <2>1. PICK r \in Requests : Commits(r, p) /\ SoundReplacement(r, p)
    BY <1>1, ReplacementsAreSound
  <2>2. QED
    BY <1>1, <2>1, ConstantAssumption DEF SoundReplacement, ReplacesNamedVersion
<1>2. WriteInvariant /\ [Step]_vars =>
          [\A p \in Products :
              row[p] # NoRow /\ row'[p] # row[p] => ReplacesNamedVersion(p)]_vars
  BY <1>1
<1>3. QED
  BY <1>2, WriteInvariantHolds, PTL DEF Spec, Step, NoLostUpdate

\* A penalized product stays penalized.
THEOREM PenalizedIsTerminal == Spec => PenalizedTerminal
<1>1. ASSUME WriteInvariant, [Step]_vars, NEW p \in Products, Penalized(row[p])
      PROVE  Penalized(row'[p])
  <2>1. CASE row'[p] = row[p]
    BY <1>1, <2>1
  <2>2. CASE row'[p] # row[p]
    <3>1. PICK r \in Requests : SoundReplacement(r, p)
      BY <1>1, <2>2, ReplacementsAreSound
    <3>2. QED
      BY <1>1, <3>1, ConstantAssumption DEF SoundReplacement, Penalized
  <2>3. QED
    BY <2>1, <2>2
<1>2. WriteInvariant /\ [Step]_vars =>
          [\A p \in Products : Penalized(row[p]) => Penalized(row'[p])]_vars
  BY <1>1
<1>3. QED
  BY <1>2, WriteInvariantHolds, PTL DEF Spec, Step, PenalizedTerminal
-----------------------------------------------------------------------------
(* Refinement: the write path implements the atomic catalogue.              *)

Applied == {r \in Requests : committed[r] # {}}

\* An ending coroutine answers the client, or stutters.
LEMMA EndAnswers ==
    ASSUME WriteInvariant, NEW r \in Requests, NEW answer \in {"ok", "refused", "error"},
           End(r, answer), pc[r] \notin {"idle", "done"},
           answer = "ok" => pc[r] = "invalidate",
           answer = "refused" => pc[r] # "invalidate"
    PROVE  Catalog!Answer(r, answer)
<1>1. TypeOK /\ LocalInv(r)
  BY DEF WriteInvariant
<1>2. req[r] # NoPayload /\ result[r] = "none"
  BY <1>1, ConstantAssumption DEF LocalInv
<1>3. answer = "ok" => committed[r] # {}
  BY <1>1 DEF LocalInv
<1>4. answer = "refused" => committed[r] = {}
  BY <1>1 DEF LocalInv
<1>5. QED
  BY <1>2, <1>3, <1>4 DEF Catalog!Answer, End

\* A commit is the one step at which a request takes effect.
LEMMA CommitApplies ==
    ASSUME WriteInvariant, NEW r \in Requests, Commit(r) \/ CommitReplyLost(r)
    PROVE  Catalog!Apply(r)
<1> DEFINE m == req[r]
<1>1. TypeOK /\ LocalInv(r)
  BY DEF WriteInvariant
<1>2. pc[r] = "commit" /\ Publish(r)
  BY DEF Commit, CommitReplyLost, At
<1>3. m \in Payloads /\ Prepared(r) /\ committed[r] = {} /\ result[r] = "none"
  BY <1>1, <1>2 DEF LocalInv
<1>4. Touched(r) # {}
  BY <1>2, PublishEffect
<1>5. Catalog!Pending(r)
  BY <1>3 DEF Catalog!Pending
<1>6. Applied' = Applied \cup {r}
  BY <1>1, <1>2, <1>4 DEF Applied, Publish, TypeOK
<1>7. UNCHANGED req /\ (UNCHANGED result \/ result' = [result EXCEPT ![r] = "error"])
  BY <1>2 DEF Publish, Commit, CommitReplyLost
<1>8. m.op \in {"create", "update", "status", "batch"}
  BY <1>3, PayloadFields
<1>9. CASE m.op = "create"
  <2>1. m.schema \in Schemas \cap m.attrs /\ PreparedCreate(r)
    BY <1>3, <1>9 DEF Prepared
  <2>2. PICK p \in Products : row[p] = NoRow /\ work[r] = [NoRows EXCEPT ![p] = NewRow(r, m)]
    BY <2>1 DEF PreparedCreate
  <2>3. NewRow(r, m) # NoRow
    BY <1>3, <1>9, <2>1, PayloadFields, NewRowIsRow, ConstantAssumption
  <2>4. Touched(r) = {p} /\ work[r][p] = NewRow(r, m)
    BY <2>2, <2>3 DEF Touched, NoRows
  <2>5. imgs[p] = {}
    BY <2>2 DEF WriteInvariant, ImagesMatchContent
  <2>6. row' = [row EXCEPT ![p] = NewRow(r, m)]
    BY <1>1, <1>2, <2>4 DEF Publish, TypeOK
  <2>7. imgs' = [imgs EXCEPT ![p] = {r}]
    BY <1>1, <1>2, <1>9, <2>4, <2>5 DEF Publish, TypeOK
  <2>8. Catalog!Create(r, p)
    BY <1>9, <2>1, <2>2, <2>6, <2>7 DEF Catalog!Create, Catalog!NewRow, NewRow
  <2>9. QED
    BY <1>5, <1>6, <1>7, <2>8 DEF Catalog!Apply, Applied
<1>10. CASE m.op = "update"
  <2> DEFINE p == m.id
  <2>1. PreparedUpdate(r) /\ p \in Products
    BY <1>3, <1>10, PayloadFields DEF Prepared
  <2>2. Touched(r) = {p}
    BY <1>2, <1>10, PublishUpdate
  <2>3. work[r][p] = EditedRow(r, m, row[p])
    BY <2>1 DEF PreparedUpdate, NoRows
  <2>4. gone[r] = imgs[p]
    BY <1>1, <1>2, <1>10 DEF LocalInv, VisibleImages
  <2>5. row' = [row EXCEPT ![p] = EditedRow(r, m, row[p])]
    BY <1>1, <1>2, <2>2, <2>3 DEF Publish, TypeOK
  <2>6. imgs' = [imgs EXCEPT ![p] = {r}]
    BY <1>1, <1>2, <1>10, <2>2, <2>4 DEF Publish, TypeOK
  <2>7. Catalog!Update(r)
    BY <1>10, <2>1, <2>5, <2>6
       DEF Catalog!Update, Catalog!EditedRow, EditedRow, PreparedUpdate
  <2>8. QED
    BY <1>5, <1>6, <1>7, <2>7 DEF Catalog!Apply, Applied
<1>11. CASE m.op \in {"status", "batch"}
  <2>1. PreparedMove(r)
    BY <1>3, <1>11 DEF Prepared
  <2>2. Touched(r) = Ids(m) /\ \A p \in Ids(m) : work[r][p] = MovedRow(m, row[p])
    BY <1>2, <1>11, PublishMove
  <2>3. row' = [p \in Products |-> IF p \in Ids(m) THEN MovedRow(m, row[p]) ELSE row[p]]
    BY <1>2, <2>2 DEF Publish
  <2>4. UNCHANGED imgs
    BY <1>1, <1>2, <1>11 DEF Publish, TypeOK
  <2>5. Catalog!Move(r)
    BY <1>11, <2>1, <2>3, <2>4
       DEF Catalog!Move, PreparedMove, Catalog!HasDuplicate, HasDuplicate, Catalog!Indices,
           Indices, Catalog!MayMove, MayMove, Catalog!AllowedTransitions, AllowedTransitions,
           Catalog!Ids, Ids, Catalog!MovedRow, MovedRow
  <2>6. QED
    BY <1>5, <1>6, <1>7, <2>5 DEF Catalog!Apply, Applied
<1>12. QED
  BY <1>8, <1>9, <1>10, <1>11

LEMMA StepImplementsCatalog ==
    ASSUME WriteInvariant, [Step]_vars
    PROVE  [Catalog!Next]_(Catalog!vars)
<1>1. CASE UNCHANGED <<row, imgs, req, committed, result>>
  BY <1>1 DEF Catalog!vars
<1>2. ASSUME NEW r \in Requests, Receive(r)
      PROVE  Catalog!Ask(r)
  BY <1>2 DEF Receive, At, WriteInvariant, LocalInv, Catalog!Ask, database
<1>3. ASSUME NEW r \in Requests, Commit(r) \/ CommitReplyLost(r)
      PROVE  Catalog!Apply(r)
  BY <1>3, CommitApplies
<1>4. ASSUME NEW r \in Requests,
             \/ CreateCheck(r) \/ UpdateLoad(r) \/ UpdateCheck(r) \/ UpdateRow(r)
             \/ BatchApply(r) \/ Respond(r) \/ Die(r)
      PROVE  \/ UNCHANGED <<row, imgs, req, committed, result>>
             \/ \E answer \in {"ok", "refused", "error"} : Catalog!Answer(r, answer)
  <2>1. ASSUME NEW answer \in {"ok", "refused", "error"},
               End(r, answer), pc[r] \notin {"idle", "done"},
               answer = "ok" => pc[r] = "invalidate",
               answer = "refused" => pc[r] # "invalidate"
        PROVE  \E a \in {"ok", "refused", "error"} : Catalog!Answer(r, a)
    BY <2>1, EndAnswers
  <2>2. CASE Die(r)
    BY <2>1, <2>2 DEF Die
  <2>3. CASE Respond(r)
    BY <2>1, <2>3 DEF Respond, At
  <2>4. CASE End(r, "refused") /\ pc[r] \notin {"idle", "done", "invalidate"}
    BY <2>1, <2>4
  <2>5. \/ UNCHANGED <<row, imgs, req, committed, result>>
        \/ End(r, "refused") /\ pc[r] \notin {"idle", "done", "invalidate"}
        \/ Respond(r) \/ Die(r)
    BY <1>4 DEF CreateCheck, UpdateLoad, UpdateCheck, UpdateRow, BatchApply, At,
                database, transaction
  <2>6. QED
    BY <2>2, <2>3, <2>4, <2>5
<1>5. \/ UNCHANGED <<row, imgs, req, committed, result>>
      \/ \E r \in Requests :
            \/ Receive(r) \/ Commit(r) \/ CommitReplyLost(r)
            \/ CreateCheck(r) \/ UpdateLoad(r) \/ UpdateCheck(r) \/ UpdateRow(r)
            \/ BatchApply(r) \/ Respond(r) \/ Die(r)
  BY DEF Step, Next, AllAnswered, Handle, ActivateTemplate, CreateInsert, ReplaceImages,
         BatchSelect, BatchLock, InvalidateNext, database, transaction, vars
<1>6. QED
  BY <1>1, <1>2, <1>3, <1>4, <1>5 DEF Catalog!Next

LEMMA InitImplementsCatalog == Init => Catalog!Init
<1> SUFFICES ASSUME Init PROVE Catalog!Init
  OBVIOUS
<1>1. PICK old \in [Existing -> OldRows] :
          row = [p \in Products |-> IF p \in Existing THEN old[p] ELSE NoRow]
  BY DEF Init
<1>2. \A p \in Existing :
          /\ old[p] \in ProductRow
          /\ old[p].schema \in old[p].attrs
          /\ old[p].edit = Seed
  BY ExistingAssumption
<1>3. row \in [Products -> {NoRow} \cup ProductRow]
  BY <1>1, <1>2
<1>4. \A p \in Products : row[p] # NoRow => row[p].schema \in row[p].attrs /\ row[p].edit = Seed
  BY <1>1, <1>2
<1>5. imgs = [p \in Products |-> IF row[p] = NoRow THEN {} ELSE {Seed}]
  BY <1>1, <1>2, ConstantAssumption DEF Init
<1>6. QED
  BY <1>3, <1>4, <1>5
     DEF Init, Catalog!Init, Catalog!ProductRow, ProductRow, Catalog!Statuses, Statuses,
         Catalog!VersionNumbers, VersionNumbers, Catalog!Editors, Editors

\* The write path implements the atomic catalogue: every behaviour of the concurrent
\* handlers is one in which each request is applied at most once, in one step.
THEOREM WritesImplementCatalog == Spec => ImplementsCatalog
<1>1. WriteInvariant /\ [Step]_vars => [Catalog!Next]_(Catalog!vars)
  BY StepImplementsCatalog
<1>2. QED
  BY <1>1, InitImplementsCatalog, WriteInvariantHolds, PTL
     DEF Spec, Step, ImplementsCatalog, Catalog!Spec

-----------------------------------------------------------------------------
(* Freedom from deadlock.                                                   *)

LEMMA LeastElement ==
    ASSUME NEW S \in SUBSET Nat, S # {}
    PROVE  \E n \in S : \A m \in S : n <= m
<1> DEFINE R == OpToRel(<, Nat)
<1>1. IsWellFoundedOn(R, Nat)
  BY NatLessThanWellFounded, Zenon
<1>2. PICK n \in S : \A m \in S : <<m, n>> \notin R
  <2> HIDE DEF R
  <2> QED BY <1>1, WFMin
<1>3. \A m \in S : m \in Nat /\ ~(m < n)
  BY <1>2 DEF OpToRel
<1>4. n \in Nat /\ \A m \in S : n <= m
  BY <1>3
<1> QED BY <1>4

\* The greatest id of a set is the one with the fewest ids above it.
LEMMA GreatestElement ==
    ASSUME NEW S \in SUBSET Products, S # {}
    PROVE  \E p \in S : \A q \in S : q <= p
<1> DEFINE above(p) == {q \in Products : p < q}
           N == {Cardinality(above(p)) : p \in S}
<1>1. \A p \in S : IsFiniteSet(above(p)) /\ Cardinality(above(p)) \in Nat
  <2>1. \A p : above(p) \in SUBSET Products OBVIOUS
  <2> HIDE DEF above
  <2> QED BY <2>1, FS_Subset, FS_CardinalityType, IdAssumption
<1>2. PICK p \in S : \A q \in S : Cardinality(above(p)) <= Cardinality(above(q))
  <2>1. N \in SUBSET Nat /\ N # {} BY <1>1
  <2>2. PICK n \in N : \A m \in N : n <= m
    <3> HIDE DEF N
    <3> QED BY <2>1, LeastElement
  <2> QED BY <2>2
<1>3. ASSUME NEW q \in S, p < q PROVE FALSE
  <2>1. above(q) \subseteq above(p) /\ q \in above(p) /\ q \notin above(q)
    <3>1. p \in Nat /\ q \in Products /\ q \in Nat /\ \A n \in Products : n \in Nat
      BY ConstantAssumption
    <3>2. \A n \in Products : q < n => p < n BY <1>3, <3>1
    <3>3. ~(q < q) BY <3>1
    <3>4. above(q) \subseteq above(p) BY <3>2
    <3> QED BY <1>3, <3>1, <3>3, <3>4
  <2> HIDE DEF above
  <2>2. Cardinality(above(q)) < Cardinality(above(p))
    BY <1>1, <2>1, FS_Subset
  <2> QED BY <1>1, <1>2, <2>2
<1>4. \A q \in S : p \in Nat /\ q \in Nat BY ConstantAssumption
<1> QED BY <1>3, <1>4

\* A row is held by a transaction that may write, and while its statement still locks
\* rows, every row to come is above those it holds.
LockOrder ==
    \A p \in Products, r \in Requests : lock[p] = r =>
        /\ pc[r] \in {"lock", "images", "commit"}
        /\ pc[r] = "lock" => \A q \in todo[r] : p < q

LEMMA LockOrderInit == Init => LockOrder
BY NoReqAssumption DEF Init, LockOrder

\* Steps that lock nothing, and keep or give up what they hold.
LEMMA LocksKept ==
    ASSUME TypeOK, LockOrder, NEW r \in Requests,
           \A q \in Requests \ {r} : pc'[q] = pc[q] /\ todo'[q] = todo[q],
           \A p \in Products : lock'[p] \in {lock[p], NoReq},
           \A p \in Products : lock'[p] = r =>
               pc'[r] \in {"images", "commit"} \/ (pc'[r] = pc[r] /\ todo'[r] = todo[r])
    PROVE  LockOrder'
<1> SUFFICES ASSUME NEW p \in Products, NEW q \in Requests, lock'[p] = q
             PROVE  /\ pc'[q] \in {"lock", "images", "commit"}
                    /\ pc'[q] = "lock" => \A n \in todo'[q] : p < n
  BY DEF LockOrder
<1>1. lock[p] = q BY NoReqAssumption
<1>2. CASE q = r BY <1>1, <1>2 DEF LockOrder
<1>3. CASE q # r BY <1>1, <1>3 DEF LockOrder
<1> QED BY <1>2, <1>3

\* Steps by which r comes to hold p.
LEMMA LockTaken ==
    ASSUME TypeOK, LockOrder, NEW r \in Requests, NEW p \in Products,
           \A q \in Requests \ {r} : pc'[q] = pc[q] /\ todo'[q] = todo[q],
           lock' = [lock EXCEPT ![p] = r],
           \/ pc'[r] \in {"images", "commit"}
           \/ pc'[r] = "lock" /\ pc[r] = "lock" /\ todo'[r] \subseteq todo[r]
              /\ \A q \in todo'[r] : p < q
    PROVE  LockOrder'
<1> SUFFICES ASSUME NEW n \in Products, NEW q \in Requests, lock'[n] = q
             PROVE  /\ pc'[q] \in {"lock", "images", "commit"}
                    /\ pc'[q] = "lock" => \A m \in todo'[q] : n < m
  BY DEF LockOrder
<1>1. IF n = p THEN q = r ELSE lock[n] = q BY DEF TypeOK
<1>2. CASE n = p BY <1>1, <1>2
<1>3. CASE n # p /\ q = r BY <1>1, <1>3 DEF LockOrder
<1>4. CASE n # p /\ q # r BY <1>1, <1>4 DEF LockOrder
<1> QED BY <1>2, <1>3, <1>4

LEMMA LockOrderStep == TypeOK /\ LockOrder /\ [Step]_vars => LockOrder'
<1> SUFFICES ASSUME TypeOK, LockOrder, [Step]_vars PROVE LockOrder' OBVIOUS
<1>1. ASSUME NEW r \in Requests, NEW answer, End(r, answer) PROVE LockOrder'
  <2>1. \A p \in Products : lock'[p] \in {lock[p], NoReq} /\ lock'[p] # r
    BY <1>1, NoReqAssumption DEF End, Released
  <2>2. \A q \in Requests \ {r} : pc'[q] = pc[q] /\ todo'[q] = todo[q]
    BY <1>1 DEF End, Goto, TypeOK
  <2> QED BY <2>1, <2>2, LocksKept
<1>2. ASSUME NEW r \in Requests, Commit(r) \/ CommitReplyLost(r) PROVE LockOrder'
  <2>1. \A p \in Products : lock'[p] \in {lock[p], NoReq} /\ lock'[p] # r
    BY <1>2, NoReqAssumption DEF Commit, CommitReplyLost, Publish, Released
  <2>2. \A q \in Requests \ {r} : pc'[q] = pc[q] /\ todo'[q] = todo[q]
    BY <1>2 DEF Commit, CommitReplyLost, Goto, TypeOK
  <2> QED BY <2>1, <2>2, LocksKept
<1>3. ASSUME NEW r \in Requests, CreateInsert(r) \/ UpdateRow(r) \/ BatchLock(r)
      PROVE  LockOrder'
  <2>1. CASE CreateInsert(r)
    BY <2>1, LockTaken DEF CreateInsert, Goto, TypeOK
  <2>2. CASE UpdateRow(r) /\ ~End(r, "refused")
    <3>1. /\ lock[req[r].id] = NoReq /\ lock' = [lock EXCEPT ![req[r].id] = r]
          /\ pc' = [pc EXCEPT ![r] = "images"] /\ todo' = todo
      BY <2>2 DEF UpdateRow, Goto
    <3>2. CASE req[r].id \in Products
      BY <3>1, <3>2, LockTaken DEF TypeOK
    <3>3. CASE req[r].id \notin Products
      <4>1. lock' = lock BY <3>1, <3>3 DEF TypeOK
      <4> QED BY <3>1, <4>1, LocksKept DEF TypeOK
    <3> QED BY <3>2, <3>3
  <2>3. CASE BatchLock(r)
    <3>1. PICK p \in Products : /\ IsNext(r, p)
                                /\ lock' = [lock EXCEPT ![p] = r]
                                /\ todo' = [todo EXCEPT ![r] = @ \ {p}]
      BY <2>3 DEF BatchLock
    <3>2. pc[r] = "lock" /\ pc' = pc BY <2>3 DEF BatchLock, At
    <3>3. todo'[r] = todo[r] \ {p} /\ todo[r] \subseteq Nat /\ p \in Nat
      BY <3>1, ConstantAssumption DEF TypeOK
    <3>4. \A q \in todo'[r] : p < q BY <3>1, <3>3 DEF IsNext
    <3> QED BY <3>1, <3>2, <3>3, <3>4, LockTaken DEF TypeOK
  <2> QED BY <1>1, <1>3, <2>1, <2>2, <2>3
<1>4. ASSUME NEW r \in Requests,
             \/ Receive(r) \/ CreateCheck(r) \/ UpdateLoad(r) \/ UpdateCheck(r)
             \/ ReplaceImages(r) \/ BatchSelect(r) \/ BatchApply(r) \/ InvalidateNext(r),
             ~End(r, "refused")
      PROVE  LockOrder'
  <2>1. lock' = lock
    BY <1>4 DEF Receive, CreateCheck, UpdateLoad, UpdateCheck, ReplaceImages, BatchSelect,
                BatchApply, InvalidateNext, database
  <2>2. \A q \in Requests \ {r} : pc'[q] = pc[q] /\ todo'[q] = todo[q]
    BY <1>4 DEF Receive, CreateCheck, UpdateLoad, UpdateCheck, ReplaceImages, BatchSelect,
                BatchApply, InvalidateNext, Goto, TypeOK
  <2>3. CASE pc[r] \notin {"lock", "images"}
    <3>1. \A p \in Products : lock[p] # r \/ pc[r] = "commit" BY <2>3 DEF LockOrder
    <3>2. pc[r] # "commit"
      BY <1>4 DEF Receive, CreateCheck, UpdateLoad, UpdateCheck, ReplaceImages, BatchSelect,
                  BatchApply, InvalidateNext, At
    <3> QED BY <2>1, <2>2, <3>1, <3>2, LocksKept
  <2>4. CASE pc[r] \in {"lock", "images"}
    <3>1. pc'[r] = "commit"
      BY <1>4, <2>4 DEF Receive, CreateCheck, UpdateLoad, UpdateCheck, ReplaceImages,
                  BatchSelect, BatchApply, InvalidateNext, At, Goto, TypeOK
    <3>2. \A p \in Products : lock'[p] \in {lock[p], NoReq} BY <2>1
    <3>3. \A p \in Products : lock'[p] = r =>
              pc'[r] \in {"images", "commit"} \/ (pc'[r] = pc[r] /\ todo'[r] = todo[r])
      BY <3>1
    <3> QED BY <2>2, <3>2, <3>3, LocksKept
  <2> QED BY <2>3, <2>4
<1>5. CASE UNCHANGED vars \/ ActivateTemplate \/ AllAnswered
  BY <1>5 DEF vars, database, ActivateTemplate, AllAnswered, LockOrder
<1>6. ASSUME NEW r \in Requests, Handle(r) \/ Receive(r) \/ CommitReplyLost(r) \/ Die(r)
      PROVE  LockOrder'
  BY <1>1, <1>2, <1>3, <1>4, <1>6 DEF Handle, Respond, Die
<1> QED BY <1>5, <1>6 DEF Step, Next

\* Without locked rows nobody waits for one.
LEMMA NobodyWaits ==
    ASSUME TypeOK, {p \in Products : lock[p] # NoReq} = {}, NEW r \in Requests,
           LocalInv(r)
    PROVE  ~WaitsForRow(r)
<1>1. \A p \in Products : lock[p] = NoReq OBVIOUS
<1>2. pc[r] = "cas" => lock[req[r].id] = NoReq
  BY <1>1, PayloadFields DEF LocalInv
<1>3. pc[r] = "lock" /\ todo[r] # {} => \E p \in Products : IsNext(r, p)
  <2>1. SUFFICES ASSUME todo[r] # {} PROVE \E p \in Products : IsNext(r, p) OBVIOUS
  <2>2. todo[r] \in SUBSET Products /\ todo[r] \in SUBSET Nat
    BY ConstantAssumption DEF TypeOK
  <2>3. PICK p \in todo[r] : \A q \in todo[r] : p <= q BY <2>1, <2>2, LeastElement
  <2> QED BY <2>2, <2>3 DEF IsNext
<1> QED BY <1>1, <1>2, <1>3 DEF WaitsForRow

\* Somebody can always go on: whoever holds the greatest locked row waits for nothing, and
\* while no row is locked, whoever has a connection does not wait.
LEMMA SomebodyGoesOn ==
    ASSUME WriteInvariant, LockOrder, \E r \in Requests : Busy(r)
    PROVE  \E r \in Requests : Busy(r) /\ ~WaitsForConnection(r) /\ ~WaitsForRow(r)
<1> DEFINE Locked == {p \in Products : lock[p] # NoReq}
<1>0. TypeOK /\ \A r \in Requests : LocalInv(r) BY DEF WriteInvariant
<1>1. CASE Locked # {}
  <2>1. PICK p \in Locked : \A q \in Locked : q <= p
    BY <1>1, GreatestElement
  <2>2. PICK r \in Requests : lock[p] = r
    BY <1>0, <2>1 DEF TypeOK
  <2>3. pc[r] \in {"lock", "images", "commit"} /\ (pc[r] = "lock" => \A q \in todo[r] : p < q)
    BY <2>1, <2>2 DEF LockOrder
  <2>4. ~WaitsForRow(r)
    <3>1. SUFFICES ASSUME pc[r] = "lock", todo[r] # {},
                          \A q \in Products : IsNext(r, q) => lock[q] # NoReq
                   PROVE  FALSE
      BY <2>3 DEF WaitsForRow
    <3>2. PICK q \in todo[r] : \A n \in todo[r] : q <= n
      <4>1. todo[r] \in SUBSET Nat BY <1>0, ConstantAssumption DEF TypeOK
      <4> QED BY <3>1, <4>1, LeastElement
    <3>3. q \in Products /\ IsNext(r, q) BY <1>0, <3>2 DEF IsNext, TypeOK
    <3>4. q \in Locked BY <3>1, <3>3
    <3>5. q <= p /\ p < q /\ p \in Nat /\ q \in Nat
      BY <2>1, <2>3, <3>1, <3>2, <3>4, ConstantAssumption
    <3> QED BY <3>5
  <2> QED BY <2>3, <2>4 DEF WaitsForConnection, Busy
<1>2. CASE Locked = {} /\ ~ConnectionFree
  <2>1. PICK r \in Requests : pc[r] \in InTransaction
    <3>1. {r \in Requests : pc[r] \in InTransaction} # {}
      BY <1>2, FS_EmptySet, PoolAssumption DEF ConnectionFree
    <3> QED BY <3>1
  <2>2. Busy(r) /\ ~WaitsForConnection(r)
    BY <2>1 DEF InTransaction, Busy, WaitsForConnection
  <2> QED BY <1>0, <1>2, <2>2, NobodyWaits
<1>3. CASE Locked = {} /\ ConnectionFree
  BY <1>0, <1>3, NobodyWaits DEF WaitsForConnection
<1> QED BY <1>1, <1>2, <1>3

\* Requests never all wait for one another (repository.py:245-254: ORDER BY id FOR UPDATE).
THEOREM NobodyWaitsForEver == Spec => []NoDeadlock
<1>1. WriteInvariant /\ LockOrder => NoDeadlock
  BY SomebodyGoesOn DEF NoDeadlock
<1>2. WriteInvariant /\ LockOrder /\ [Step]_vars => LockOrder'
  BY LockOrderStep DEF WriteInvariant
<1> QED BY <1>1, LockOrderInit, <1>2, WriteInvariantHolds, PTL DEF Spec, Step
=============================================================================
