--------------------------- MODULE VersionedCatalog ---------------------------
(***************************************************************************)
(* What the admin write API promises, as one atomic step per request: a     *)
(* request is applied at most once and completely, against exactly the      *)
(* versions it names, or not at all; a client told "ok" was applied and a   *)
(* client told "refused" was not.  A client told "error" learns nothing.    *)
(* ProductWrites is shown to implement this module.                         *)
(***************************************************************************)
EXTENDS CatalogDomain

VARIABLES
    row,      \* row[p]: the product row, or NoRow
    imgs,     \* imgs[p]: the requests that supplied the image rows of p
    ask,      \* ask[r]: the body of request r, or NoPayload
    applied,  \* the requests that took effect
    reply     \* reply[r]: "none", "ok", "refused" or "error"

vars == <<row, imgs, ask, applied, reply>>

Init ==
    /\ row \in [Products -> {NoRow} \cup ProductRow]
    /\ \A p \in Products :
           row[p] # NoRow => row[p].schema \in row[p].attrs /\ row[p].edit = Seed
    /\ imgs = [p \in Products |-> IF row[p] = NoRow THEN {} ELSE {Seed}]
    /\ ask = [r \in Requests |-> NoPayload]
    /\ applied = {}
    /\ reply = [r \in Requests |-> "none"]

Pending(r) == ask[r] \in Payloads /\ r \notin applied /\ reply[r] = "none"

Ask(r) ==
    /\ ask[r] = NoPayload
    /\ \E m \in Payloads : ask' = [ask EXCEPT ![r] = m]
    /\ UNCHANGED <<row, imgs, applied, reply>>

\* A new product is bound to a template its attributes satisfy.
Create(r, p) ==
    /\ ask[r].op = "create"
    /\ row[p] = NoRow
    /\ ask[r].schema \in Schemas \cap ask[r].attrs
    /\ row' = [row EXCEPT ![p] = NewRow(r, ask[r])]
    /\ imgs' = [imgs EXCEPT ![p] = {r}]

\* An edit replaces content and images of the named version, under the
\* template the product was created with.
Update(r) ==
    LET p == ask[r].id IN
    /\ ask[r].op = "update"
    /\ row[p] # NoRow
    /\ row[p].version = ask[r].version
    /\ row[p].schema = ask[r].schema
    /\ row[p].schema \in ask[r].attrs
    /\ row' = [row EXCEPT ![p] = EditedRow(r, ask[r], row[p])]
    /\ imgs' = [imgs EXCEPT ![p] = {r}]

\* All named products move together or none does.
Move(r) ==
    /\ ask[r].op \in {"status", "batch"}
    /\ ~HasDuplicate(ask[r])
    /\ \A i \in Indices(ask[r]) : MayMove(ask[r], i, row[ask[r].items[i].id])
    /\ row' = [p \in Products |->
                  IF p \in Ids(ask[r]) THEN MovedRow(ask[r], row[p]) ELSE row[p]]
    /\ UNCHANGED imgs

\* Taking effect may coincide with the reply getting lost ("error").
Apply(r) ==
    /\ Pending(r)
    /\ (\E p \in Products : Create(r, p)) \/ Update(r) \/ Move(r)
    /\ applied' = applied \cup {r}
    /\ \/ UNCHANGED reply
       \/ reply' = [reply EXCEPT ![r] = "error"]
    /\ UNCHANGED ask

Answer(r, answer) ==
    /\ ask[r] # NoPayload
    /\ reply[r] = "none"
    /\ answer = "ok" => r \in applied
    /\ answer = "refused" => r \notin applied
    /\ reply' = [reply EXCEPT ![r] = answer]
    /\ UNCHANGED <<row, imgs, ask, applied>>

Next ==
    \E r \in Requests :
        \/ Ask(r)
        \/ Apply(r)
        \/ \E answer \in {"ok", "refused", "error"} : Answer(r, answer)

Spec == Init /\ [][Next]_vars
=============================================================================
