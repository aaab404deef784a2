---------------------------- MODULE MCProductForm ----------------------------
(***************************************************************************)
(* Instances of ProductForm for TLC: a type with one field and one with two *)
(* required fields, one of which the server checks further than the page;   *)
(* two proper images and one whose content is not of the declared type.     *)
(***************************************************************************)
EXTENDS ProductForm, TLC

CONSTANTS u1, u2, u3

UploadSymmetry == Permutations({u1, u2})

Jpeg == [size |-> "fits", declared |-> "jpeg", suffix |-> "jpeg", signature |-> "jpeg"]
Files == [u \in Uploads |-> IF u = u3 THEN [Jpeg EXCEPT !.signature = "png"] ELSE Jpeg]

TwoTypes == {"physical", "creative"}
\* Values: one that passes every keyword, one of the right type that fails another
\* keyword, and one of another type (which passes a keyword that is not about its type,
\* but not the format, whose checker refuses what is no string).
Typed == {"good", "bad"}
Templates ==
    [physical |-> [required |-> {"weight_kg"},
                   properties |-> [weight_kg |-> [type |-> Typed,
                                                  minimum |-> {"good", "mistyped"}]]],
     creative |-> [required |-> {"dimensions", "file_url"},
                   properties |-> [dimensions |-> [type |-> Typed,
                                                   pattern |-> {"good", "mistyped"}],
                                   file_url |-> [type |-> Typed, format |-> {"good"}]]]]

\* DynamicFields has no rule for the format of file_url.
Filled ==
    [physical |-> {[weight_kg |-> "good"]},
     creative |-> {[dimensions |-> "good", file_url |-> url] : url \in {"good", "bad"}}]

AnyAttributes ==
    UNION {[fields -> Typed \cup {"mistyped"}] :
              fields \in SUBSET {"weight_kg", "file_url"}}
=============================================================================
