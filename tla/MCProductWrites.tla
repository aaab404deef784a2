--------------------------- MODULE MCProductWrites ---------------------------
(***************************************************************************)
(* Instances of ProductWrites for TLC.  The request bodies are the ones     *)
(* that collide: edits and status changes of one product that name the same *)
(* or successive versions, batches that name two products in both orders,   *)
(* a batch that names a product twice, and creations under either template. *)
(***************************************************************************)
EXTENDS ProductWrites, TLC

RequestSymmetry == Permutations(Requests)

Ref(p, v) == [id |-> p, version |-> v]
Edit(p, v, schema, attrs) ==
    [op |-> "update", id |-> p, version |-> v, schema |-> schema, attrs |-> attrs]
Change(p, v, target) ==
    [op |-> "status", items |-> <<Ref(p, v)>>, target |-> target]
Batch(items, target) == [op |-> "batch", items |-> items, target |-> target]
New(schema, attrs) ==
    [op |-> "create", status |-> "on_shelf", schema |-> schema, attrs |-> attrs]

Old(status, schema) ==
    [status |-> status, version |-> 1, schema |-> schema, attrs |-> {schema}, edit |-> Seed]

SafetyRows == {Old("on_shelf", 1), Old("penalized", 1)}
LivenessRows == {Old("on_shelf", 1)}

\* Bodies for the safety run: products 1 and 2 exist, 3 can be created.
SafetyPayloads ==
    {New(1, {1}), Edit(1, 1, 1, {1, 2}), Edit(1, 1, 2, {2}), Edit(1, 2, 1, {1}),
     Change(1, 1, "penalized"), Change(1, 2, "on_shelf"),
     Batch(<<Ref(1, 1), Ref(2, 1)>>, "off_shelf"),
     Batch(<<Ref(1, 1), Ref(1, 1)>>, "off_shelf"),
     Batch(<<Ref(1, 1), Ref(3, 1)>>, "on_shelf")}

\* Bodies for the liveness run: batches over two rows in opposite orders.
LivenessPayloads ==
    {Edit(1, 1, 1, {1}),
     Batch(<<Ref(1, 1), Ref(2, 1)>>, "off_shelf"),
     Batch(<<Ref(2, 1), Ref(1, 1)>>, "on_shelf")}
=============================================================================
