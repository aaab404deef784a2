----------------------------- MODULE FieldSchema -----------------------------
(***************************************************************************)
(* The attributes of a product against the template of its type             *)
(* (field_schema.py:68-123), and the names under which service.py:52-57     *)
(* reports what is wrong with them.  A template names the fields it         *)
(* requires and the properties it knows: for each the keywords of its       *)
(* schema (type, format, minimum, ...), and for each keyword the values     *)
(* that pass it.  Any other field is refused.                               *)
(***************************************************************************)
EXTENDS Naturals, Sequences, FiniteSets, SequencesExt

\* The properties are scalars: a keyword of theirs yields one error or none.
ScalarTemplate(template) ==
    /\ IsFiniteSet(template.required)
    /\ \A f \in DOMAIN template.properties :
           LET keywords == DOMAIN template.properties[f] IN
           IsFiniteSet(keywords) /\ keywords \cap {"required", "additionalProperties"} = {}

\* An error names a field and the keyword its message is about.
Error(f, keyword) == [field |-> f, validator |-> keyword]

\* What a report should say: each of these errors, once.
Missing(template, attributes) ==
    {Error(f, "required") : f \in template.required \ DOMAIN attributes}
Unknown(template, attributes) ==
    {Error(f, "additionalProperties") : f \in DOMAIN attributes \ DOMAIN template.properties}
Failed(property, value) == {keyword \in DOMAIN property : value \notin property[keyword]}
Invalid(template, attributes) ==
    UNION {{Error(f, keyword) : keyword \in Failed(template.properties[f], attributes[f])} :
              f \in DOMAIN attributes \cap DOMAIN template.properties}
Faults(template, attributes) ==
    Missing(template, attributes) \cup Unknown(template, attributes)
        \cup Invalid(template, attributes)

\* The errors jsonschema yields: one for each missing field, one for all the unknown
\* ones together, one for each keyword that a value fails.
UnknownError == [validator |-> "additionalProperties"]
iter_errors(template, attributes) ==
    SetToSeq(Missing(template, attributes))
    \o (IF Unknown(template, attributes) = {} THEN <<>> ELSE <<UnknownError>>)
    \o SetToSeq(Invalid(template, attributes))

\* Mutant: no marker of the missing fields already reported.
RequiredUnmarked(template, attributes, found) ==
    [found EXCEPT !.errors = @ \o SetToSeq(Missing(template, attributes))]

\* An error about required fields: every missing field that no earlier one reported.
Required(template, attributes, found) ==
    LET new == Missing(template, attributes) \ found.seen_required IN
    [errors |-> found.errors \o SetToSeq(new), seen_required |-> found.seen_required \cup new]

\* What is reported for an error of jsonschema.
Report(template, attributes, found, error) ==
    CASE error.validator = "required" -> Required(template, attributes, found)
      [] error.validator = "additionalProperties" ->
            [found EXCEPT !.errors = @ \o SetToSeq(Unknown(template, attributes))]
      [] OTHER -> [found EXCEPT !.errors = Append(@, error)]

\* The loop: what it has found after each of the errors.
Loop(template, attributes, errors) ==
    LET found[n \in 0..Len(errors)] ==
            IF n = 0 THEN [errors |-> <<>>, seen_required |-> {}]
            ELSE Report(template, attributes, found[n - 1], errors[n])
    IN  found

\* The errors reported; the final sort is left out.
validate_attributes(template, attributes) ==
    LET errors == iter_errors(template, attributes) IN
    Loop(template, attributes, errors)[Len(errors)].errors

\* _field_errors: the errors of one field share an entry, under the path inside the
\* attributes as the client splits it again at its dots (productForm.ts:3-5).
FieldErrors(errors) == {<<error.field>> : error \in ToSet(errors)}
=============================================================================
