---------------------------- MODULE CatalogDomain ----------------------------
(***************************************************************************)
(* The vocabulary of the product catalogue shared by the abstract catalogue *)
(* (VersionedCatalog) and by the write path (ProductWrites): product rows,  *)
(* the status rules of domain.py and the request bodies of schemas.py.      *)
(*                                                                         *)
(* Data abstraction.  A product's editable columns (title, price, stock,    *)
(* attributes, ...) are represented by the request that supplied them       *)
(* (field edit) and by the set of template versions its attributes satisfy  *)
(* (field attrs), which is all validate_attributes lets a caller observe.   *)
(* Every image set the API accepts has one main image (schemas.py:35-41),   *)
(* so an image set is represented by the request that supplied it.  The     *)
(* three product types never interact (a product's type is immutable and    *)
(* templates are versioned per type), so one type is modelled.              *)
(***************************************************************************)
EXTENDS Naturals, Sequences, FiniteSets

CONSTANTS
    Requests,   \* admin HTTP requests; each is served by one coroutine and one session
    Products,   \* product ids; UUIDs are ordered, so ids are numbers
    Schemas,    \* template versions of the product type
    Payloads,   \* the request bodies the clients of this instance may send
    Seed,       \* stands for the request that supplied a pre-existing product
    NoRow,      \* "no such row"
    NoPayload   \* a request that has not been received yet

Statuses == {"on_shelf", "off_shelf", "penalized"}

\* domain.py _ALLOWED_TRANSITIONS: penalized is terminal.
AllowedTransitions ==
    {<<"on_shelf", "off_shelf">>, <<"on_shelf", "penalized">>,
     <<"off_shelf", "on_shelf">>, <<"off_shelf", "penalized">>}

VersionNumbers == Nat \ {0}
Editors == Requests \cup {Seed}

ProductRow ==
    [status : Statuses, version : VersionNumbers, schema : Schemas,
     attrs : SUBSET Schemas, edit : Editors]

-----------------------------------------------------------------------------
(* Request bodies that pass pydantic validation.                            *)

VersionRef == [id : Products, version : VersionNumbers]

ProductCreate ==
    [op : {"create"}, status : Statuses, schema : VersionNumbers, attrs : SUBSET Schemas]

ProductUpdate ==
    [op : {"update"}, id : Products, version : VersionNumbers,
     schema : VersionNumbers, attrs : SUBSET Schemas]

\* A change of one product is the batch of one that update_status makes of it.
ProductStatusUpdate ==
    [op : {"status"}, items : Seq(VersionRef), target : Statuses]

\* The Literal type of target_status keeps penalized out of a batch.
ProductBatchStatusUpdate ==
    [op : {"batch"}, items : Seq(VersionRef), target : {"on_shelf", "off_shelf"}]

IsPayload(m) ==
    \/ m.op = "create" /\ m \in ProductCreate
    \/ m.op = "update" /\ m \in ProductUpdate
    \/ m.op = "status" /\ m \in ProductStatusUpdate /\ Len(m.items) = 1
    \/ m.op = "batch" /\ m \in ProductBatchStatusUpdate /\ m.items # <<>>

ASSUME PayloadAssumption == \A m \in Payloads : IsPayload(m)
ASSUME ConstantAssumption ==
    /\ Products \subseteq Nat
    /\ Schemas \subseteq VersionNumbers
    /\ Seed \notin Requests
    /\ NoRow \notin ProductRow
    /\ NoPayload \notin Payloads

-----------------------------------------------------------------------------
(* What a body asks for.                                                    *)

Indices(m) == DOMAIN m.items
Ids(m) == {m.items[i].id : i \in Indices(m)}

\* repository.py:242-245
HasDuplicate(m) ==
    \E i, j \in Indices(m) : i # j /\ m.items[i].id = m.items[j].id

\* Mutant: the transition is not checked.
MayMoveFromAny(m, i, r) == r # NoRow /\ r.version = m.items[i].version

\* A batch may change the row r of item i: the row is there, at the version the
\* item names, and may move to the target (repository.py:256-268).
MayMove(m, i, r) ==
    /\ r # NoRow
    /\ r.version = m.items[i].version
    /\ <<r.status, m.target>> \in AllowedTransitions

\* Mutant: versions start at 0.
NewRowUnversioned(r, m) ==
    [status |-> m.status, version |-> 0, schema |-> m.schema, attrs |-> m.attrs, edit |-> r]

\* The rows the three kinds of write leave behind.
NewRow(r, m) ==
    [status |-> m.status, version |-> 1, schema |-> m.schema, attrs |-> m.attrs, edit |-> r]

EditedRow(r, m, old) ==
    [old EXCEPT !.version = old.version + 1, !.attrs = m.attrs, !.edit = r]

MovedRow(m, old) ==
    [old EXCEPT !.version = old.version + 1, !.status = m.target]
=============================================================================
