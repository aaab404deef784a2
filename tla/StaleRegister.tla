----------------------------- MODULE StaleRegister -----------------------------
(***************************************************************************)
(* What the public detail read promises about freshness, as an abstract     *)
(* register: the database moves through versions of one product, and a      *)
(* client is answered with a row and with images that may both be out of    *)
(* date, but never by more than MaxAge allows for the kind of answer.       *)
(***************************************************************************)
EXTENDS Naturals, Sequences

CONSTANTS
    MaxAge,     \* how old an answer may be: of a product on shelf, of a "missing"
    Horizon     \* ages are counted up to here

VARIABLES
    versions,   \* the committed versions of the product, with the ticks since each
                \* was replaced; "images" names the version that stored its images
    told        \* the versions of row and images the answer of a step is made of

Version == [shelf : BOOLEAN, images : Nat \ {0}, age : 0..Horizon]

Current == Len(versions)

\* The ages after one more tick.
Older(v) == IF v < Current /\ versions[v].age < Horizon THEN versions[v].age + 1
                                                        ELSE versions[v].age

Nothing == [row |-> 0, images |-> 0]

Init ==
    /\ \E shelf \in BOOLEAN : versions = <<[shelf |-> shelf, images |-> 1, age |-> 0]>>
    /\ told = Nothing

\* A version stores new images or keeps the current ones.
Write ==
    /\ \E shelf \in BOOLEAN, images \in {versions[Current].images, Current + 1} :
           versions' = Append(versions, [shelf |-> shelf, images |-> images, age |-> 0])
    /\ told' = Nothing

Tick ==
    /\ versions' = [v \in 1..Current |-> [versions[v] EXCEPT !.age = Older(v)]]
    /\ told' = Nothing

\* A row and images that were both current not too long ago.
Answer ==
    /\ \E row, images \in 1..Current :
           /\ versions[row].age <= MaxAge[versions[row].shelf]
           /\ versions[images].age <= MaxAge[versions[row].shelf]
           /\ told' = [row |-> row, images |-> images]
    /\ UNCHANGED versions

Silence == told' = Nothing /\ UNCHANGED versions

Next == Write \/ Tick \/ Answer \/ Silence

Spec == Init /\ [][Next]_<<versions, told>>
=============================================================================
