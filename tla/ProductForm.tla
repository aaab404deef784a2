----------------------------- MODULE ProductForm -----------------------------
(***************************************************************************)
(* The page that publishes a product (ProductFormPage.tsx, ImageFields.tsx) *)
(* with the server behind it: templates by type, uploads saved by the image *)
(* store, and the create request with its field errors.  Answers may be     *)
(* late, out of order or lost.  A page that edits a product differs in that *)
(* its type is fixed and its save names a version (see ProductWrites).      *)
(***************************************************************************)
EXTENDS FieldSchema

CONSTANTS
    Types,          \* product types
    FirstType,      \* "physical", which the page opens with
    Template,       \* the active template of each type
    Fillings,       \* what the fields of a template can be filled with, by type
    ApiAttributes,  \* what other clients of the API send
    Uploads, File,  \* see ImageStore
    MaxGallery,     \* 5
    MaxChanges,     \* bound: type changes
    MaxSaves,       \* bound: submits
    MaxInput        \* bound: both together

NoType == "no template"

\* Types are the values of an enumeration, none of which is the absence of one; templates
\* and the objects of requests are JSON, so they have finitely many fields; the fields
\* are scalars, as those of scripts/seed.py and all that DynamicFields can show.
ASSUME FormAssumption ==
    /\ FirstType \in Types /\ NoType \notin Types
    /\ \A t \in Types :
           /\ ScalarTemplate(Template[t])
           /\ \A filling \in Fillings[t] : IsFiniteSet(DOMAIN filling)
    /\ \A given \in ApiAttributes : IsFiniteSet(DOMAIN given)
    /\ IsFiniteSet(Uploads)
    /\ {MaxGallery, MaxChanges, MaxSaves, MaxInput} \subseteq Nat

VARIABLES
    at, inode, names, unclean,  \* the image store
    type,           \* the product type chosen
    fieldSchema,    \* the type the shown template was loaded for
    schemaRequest,  \* number of the last request for a template
    loads,          \* template requests under way
    attributes,     \* what the dynamic fields hold
    images,         \* the images of the form: [kind, url]
    batch,          \* the upload under way, if any, with the images it will keep
    saving,         \* savingRef
    posts,          \* create requests the server has not answered
    answers,        \* and its answers on their way
    outcome,        \* the last answer the page has seen
    alert,          \* the general error is shown
    marked,         \* the names setFields put an error on
    saves, created, \* history: submits, products made
    failed,         \* history: saves that were reported as failures
    removed,        \* history: urls removed while no upload was under way
    refusal         \* history: the last refusal, of any client

page == <<type, fieldSchema, schemaRequest, loads, attributes>>
pictures == <<images, batch, removed>>
save == <<saving, posts, answers, saves, created, failed, refusal>>
shown == <<outcome, alert, marked>>
store == <<at, inode, names, unclean>>
vars == <<store, page, pictures, save, shown>>

Store == INSTANCE ImageStore

NoRefusal == [type |-> NoType, attributes |-> <<>>, errors |-> <<>>]

Init ==
    /\ Store!Init
    /\ type = FirstType /\ fieldSchema = FirstType
    /\ schemaRequest = 0 /\ loads = {}
    /\ attributes = <<>>
    /\ images = {} /\ batch = {} /\ removed = {}
    /\ saving = FALSE /\ posts = {} /\ answers = {}
    /\ saves = 0 /\ created = {} /\ failed = {} /\ refusal = NoRefusal
    /\ outcome = "none" /\ alert = FALSE /\ marked = {}

Open == outcome # "created"
-----------------------------------------------------------------------------
(* The template of the type.                                                *)

changeType(t) ==
    /\ Open /\ t # type
    /\ schemaRequest < MaxChanges /\ schemaRequest + saves < MaxInput
    /\ type' = t
    /\ schemaRequest' = schemaRequest + 1
    /\ attributes' = <<>>
    /\ fieldSchema' = NoType
    /\ loads' = loads \cup {[request |-> schemaRequest + 1, type |-> t]}
    /\ outcome' = "none" /\ alert' = FALSE /\ marked' = {}
    /\ UNCHANGED <<store, pictures, save>>

\* Mutant: every answer is taken, in the order they come.
LoadedAny(l) ==
    /\ loads' = loads \ {l}
    /\ fieldSchema' = l.type
    /\ UNCHANGED alert

\* The template comes, or an error; only the last request counts.
Loaded(l) ==
    /\ loads' = loads \ {l}
    /\ IF l.request = schemaRequest
       THEN \/ fieldSchema' = l.type /\ UNCHANGED alert
            \/ alert' = TRUE /\ UNCHANGED fieldSchema
       ELSE UNCHANGED <<fieldSchema, alert>>

TemplateAnswer ==
    /\ Open
    /\ \E l \in loads : Loaded(l)
    /\ UNCHANGED <<store, type, schemaRequest, attributes, pictures, save, outcome, marked>>

\* The operator fills in the fields shown.
Fill ==
    /\ Open /\ fieldSchema # NoType
    /\ attributes' \in Fillings[fieldSchema]
    /\ UNCHANGED <<store, type, fieldSchema, schemaRequest, loads, pictures, save, shown>>
-----------------------------------------------------------------------------
(* Images.                                                                  *)

Of(kind) == {image \in images : image.kind = kind}

\* Mutant: the number of gallery files is not checked.
AcceptsAny(kind, files) ==
    /\ kind = "main" => Cardinality(files) = 1
    /\ \A u \in files : File[u].declared # "other" /\ File[u].size # "large"

\* What handleFiles lets through: so many files, of a known type and not too large.  No
\* files at all pass for the gallery, and leave it empty.
Accepts(kind, files) ==
    /\ IF kind = "main" THEN Cardinality(files) = 1 ELSE Cardinality(files) <= MaxGallery
    /\ \A u \in files : File[u].declared # "other" /\ File[u].size # "large"

\* The slot of a kind is shown while it has room, and disabled during an upload.
\* Promise.all(files.map(uploadImage)) sends all the files; value is that of this moment.
handleFiles(kind, files) ==
    /\ Open /\ batch = {}
    /\ Cardinality(Of(kind)) < (IF kind = "main" THEN 1 ELSE MaxGallery)
    /\ Accepts(kind, files)
    /\ Store!Receive(files)
    /\ batch' = {[kind |-> kind, files |-> files, kept |-> images \ Of(kind)]}
    /\ UNCHANGED <<images, removed, page, save, shown>>

\* Another client uploads a file (bound: before the page has any image).
OtherUpload ==
    /\ Open /\ images = {} /\ batch = {}
    /\ \E u \in Uploads : Store!Receive({u})
    /\ UNCHANGED <<page, pictures, save, shown>>

\* Every file is stored: they replace the images of their kind.
Uploaded ==
    /\ Open
    /\ \E b \in batch :
           /\ \A u \in b.files : at[u] = "stored"
           /\ images' = b.kept \cup {[kind |-> b.kind, url |-> u] : u \in b.files}
    /\ batch' = {}
    /\ UNCHANGED <<store, removed, page, save, shown>>

\* One file is refused or not stored, or its answer is lost; the others go on.
UploadFailed ==
    /\ Open /\ batch # {}
    /\ batch' = {}
    /\ UNCHANGED <<store, images, removed, page, save, shown>>

\* Mutant: the filter is inverted.
FilterInverted(image) == images' = {item \in images : item.url = image.url}

Filter(image) == images' = {item \in images : item.url # image.url}

\* removeImage; what an upload under way has captured still holds the image.
removeImage ==
    /\ Open
    /\ \E image \in images :
           /\ Filter(image)
           /\ removed' = IF batch = {} THEN removed \cup {image.url} ELSE removed
    /\ UNCHANGED <<store, batch, page, save, shown>>
-----------------------------------------------------------------------------
(* Saving.                                                                  *)

\* The rules of the form: one main image, the required fields filled.
Complete ==
    /\ Cardinality(Of("main")) = 1
    /\ Missing(Template[fieldSchema], attributes) = {}

\* Mutant: a second submit is not held back while the first is under way.
MaySubmitTwice == fieldSchema # NoType /\ batch = {}

MaySubmit == fieldSchema # NoType /\ ~saving /\ batch = {}

submit ==
    /\ Open /\ saves < MaxSaves /\ schemaRequest + saves < MaxInput
    /\ MaySubmit /\ Complete
    /\ saving' = TRUE
    /\ saves' = saves + 1
    /\ posts' = posts \cup {[save |-> saves + 1, type |-> type, template |-> fieldSchema,
                             attributes |-> attributes, images |-> images]}
    /\ outcome' = "none" /\ alert' = FALSE /\ marked' = {}
    /\ UNCHANGED <<store, page, pictures, answers, created, failed, refusal>>

Answer(post, result, errors) ==
    answers' = answers \cup {[save |-> post.save, result |-> result, errors |-> errors]}

\* The control of a field of the page's own.
StockControl == <<"stock">>

\* ProductService.create, and what the router and the error handlers make of a request: a
\* refusal of the attributes; a product; a refusal for another reason, with the errors of
\* a body that is not valid (errors.py:63-74) or with none; a failure, before anything is
\* stored or after it (the reply to COMMIT is lost, or a later step raises).
create(post) ==
    LET errors == validate_attributes(Template[post.type], post.attributes) IN
    /\ posts' = posts \ {post}
    /\ \/ /\ errors # <<>>
          /\ Answer(post, "refused", FieldErrors(errors))
          /\ refusal' = [type |-> post.type, attributes |-> post.attributes, errors |-> errors]
          /\ UNCHANGED created
       \/ /\ errors = <<>>
          /\ created' = created \cup {post}
          /\ \E result \in {"created", "failed"} : Answer(post, result, {})
          /\ UNCHANGED refusal
       \/ /\ \/ \E wrong \in {{}, {StockControl}} : Answer(post, "refused", wrong)
             \/ Answer(post, "failed", {})
          /\ UNCHANGED <<created, refusal>>

Serve ==
    /\ \E post \in posts : create(post)
    /\ UNCHANGED <<store, page, pictures, saving, saves, failed, shown>>

\* Another client posts attributes (bound: one refusal, once the page is closed and
\* nothing is under way).
ServeOther ==
    /\ ~Open /\ posts = {} /\ loads = {} /\ batch = {} /\ refusal = NoRefusal
    /\ \A u \in Uploads : at[u] \in {"idle", "stored", "failed", "refused"}
    /\ \E t \in Types, given \in ApiAttributes :
           LET errors == validate_attributes(Template[t], given) IN
           /\ errors # <<>>
           /\ refusal' = [type |-> t, attributes |-> given, errors |-> errors]
    /\ UNCHANGED <<store, page, pictures, saving, posts, answers, saves, created, failed, shown>>

\* Field errors go to the controls of their names and leave the general error empty;
\* a failure without any shows the general error.
Answered ==
    /\ Open /\ saving
    /\ \E a \in answers :
           /\ a.save = saves
           /\ answers' = answers \ {a}
           /\ outcome' = a.result
           /\ alert' = (a.result # "created" /\ a.errors = {})
           /\ marked' = a.errors
           /\ failed' = IF a.result = "failed" THEN failed \cup {saves} ELSE failed
    /\ saving' = FALSE
    /\ UNCHANGED <<store, page, pictures, posts, saves, created, refusal>>

\* The connection breaks: the request may never arrive, its answer never will.
Lose ==
    /\ Open /\ saving
    /\ posts' \in {posts, {post \in posts : post.save # saves}}
    /\ answers' = {a \in answers : a.save # saves}
    /\ saving' = FALSE /\ failed' = failed \cup {saves}
    /\ outcome' = "failed" /\ alert' = TRUE /\ marked' = {}
    /\ UNCHANGED <<store, page, pictures, saves, created, refusal>>

StoreStep ==
    /\ \E u \in Uploads : Store!Step(u)
    /\ UNCHANGED <<page, pictures, save, shown>>

Next ==
    \/ \E t \in Types : changeType(t)
    \/ TemplateAnswer \/ Fill
    \/ \E kind \in {"main", "gallery"}, files \in SUBSET Uploads : handleFiles(kind, files)
    \/ OtherUpload \/ Uploaded \/ UploadFailed \/ removeImage
    \/ submit \/ Serve \/ ServeOther \/ Answered \/ Lose
    \/ StoreStep

Spec == Init /\ [][Next]_vars

-----------------------------------------------------------------------------
(* Properties                                                               *)

Images == [kind : {"main", "gallery"}, url : Uploads]

\* Every variable has its type; the form never holds more images than the server takes.
TypeOK ==
    /\ type \in Types /\ fieldSchema \in Types \cup {NoType}
    /\ schemaRequest \in 0..MaxChanges
    /\ loads \subseteq [request : 1..MaxChanges, type : Types]
    /\ images \subseteq Images
    /\ Cardinality(Of("main")) <= 1 /\ Cardinality(Of("gallery")) <= MaxGallery
    /\ \A b \in batch : b.files \subseteq Uploads /\ b.kept \subseteq Images
    /\ saving \in BOOLEAN /\ alert \in BOOLEAN
    /\ saves \in 0..MaxSaves /\ failed \subseteq 1..MaxSaves /\ removed \subseteq Uploads
    /\ outcome \in {"none", "refused", "failed", "created"}

\* The directory of images and the answers of the uploads agree (ImageStore).
StoreHonest == Store!StoreHonest

\* What is posted is made of images that are on the disk, whole, and of the fields of its
\* own type, although the template and the images are loaded by requests whose answers
\* come in any order.
SavesSound ==
    \A post \in posts \cup created :
        /\ post.template = post.type
        /\ \A image \in post.images : "target" \in names[image.url]

\* An image that was removed while no upload was under way never comes back.  (One that
\* is removed during an upload does: the upload puts back the list it started from.)
RemovedStaysRemoved == \A image \in images : image.url \notin removed

\* After a save that made a product the form sends another only if that save was reported
\* to the operator as a failure: its answer was a 5xx (the COMMIT was stored although its
\* reply was lost) or none came.  Nothing on the server tells such a save from a new one.
OneProductPerForm ==
    \A first \in created, second \in posts \cup created :
        first.save < second.save => first.save \in failed

\* A refusal names each missing field, each unknown field and each keyword that a value
\* fails, with its field, and none of these twice; what is created has no such fault.
ReportComplete ==
    /\ refusal # NoRefusal =>
           LET faults == Faults(Template[refusal.type], refusal.attributes) IN
           /\ ToSet(refusal.errors) = faults
           /\ Len(refusal.errors) = Cardinality(faults)
    /\ \A product \in created : Faults(Template[product.type], product.attributes) = {}

\* "Field errors must keep the field path given by the server and be located at their
\* control" (docs/ui/product-admin-ui.md:88): a refused save shows an error somewhere.
\* The controls of a template are named attributes.<field> (DynamicFields.tsx).
Controls == {<<"attributes", f>> : f \in DOMAIN Template[type].properties} \cup {StockControl}
RefusalShown == outcome = "refused" => alert \/ marked \cap Controls # {}
=============================================================================
