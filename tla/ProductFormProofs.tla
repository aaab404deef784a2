--------------------------- MODULE ProductFormProofs ---------------------------
(***************************************************************************)
(* Proofs about ProductForm for every set of types, templates, uploads and  *)
(* bounds; what validate_attributes computes is in FieldSchemaProofs.       *)
(***************************************************************************)
EXTENDS ProductForm, FieldSchemaProofs

-----------------------------------------------------------------------------
(* The image store.                                                         *)

\* The names and the content an upload has at each step of save.
PlaceInv(u) ==
    /\ at[u] \in {"idle", "refused", "open"} => names[u] = {}
    /\ at[u] \in {"write", "link"} => names[u] = {"temporary"}
    /\ at[u] \in {"unlink", "unpublish"} => names[u] = {"temporary", "target"}
    /\ at[u] = "stored" => names[u] = {"target"}
    /\ at[u] = "clean" => u \in unclean \/ names[u] \subseteq {"temporary"}
    /\ at[u] = "failed" => u \in unclean \/ names[u] = {}
    /\ at[u] \in {"link", "unlink", "stored", "unpublish"} \/ "target" \in names[u]
           => inode[u] = "whole"
    /\ at[u] \in {"idle", "refused"} \/ Store!Valid(File[u])

StoreInv ==
    /\ DOMAIN at = Uploads /\ DOMAIN names = Uploads /\ DOMAIN inode = Uploads
    /\ \A u \in Uploads : PlaceInv(u)

LEMMA StoreInvHonest == StoreInv => StoreHonest
BY DEF StoreInv, PlaceInv, StoreHonest, Store!StoreHonest, Store!PublishedWhole,
       Store!FailuresLeaveNothing, Store!Valid

\* A step of one upload leaves the others alone.
LEMMA UploadStep ==
    ASSUME StoreInv, NEW u \in Uploads, Store!Step(u)
    PROVE  StoreInv' /\ (\A v \in Uploads : at[v] = "stored" => at'[v] = "stored")
<1> USE DEF Store!Step, Store!Goto, Store!Named
<1>1. /\ DOMAIN at' = Uploads /\ DOMAIN names' = Uploads /\ DOMAIN inode' = Uploads
      /\ \A v \in Uploads \ {u} : at'[v] = at[v] /\ names'[v] = names[v] /\ inode'[v] = inode[v]
      /\ unclean \subseteq unclean' /\ unclean' \subseteq unclean \cup {u}
      /\ at[u] # "stored"
  BY DEF StoreInv, Store!Open, Store!Write, Store!Link, Store!Unlink, Store!Fail,
         Store!Unpublish, Store!Clean, Store!Unname, Store!Die
<1>2. \A v \in Uploads \ {u} : PlaceInv(v)'
  BY <1>1 DEF StoreInv, PlaceInv
<1>3. PlaceInv(u)'
  <2>1. CASE Store!Open(u) \/ Store!Write(u) \/ Store!Link(u) \/ Store!Unlink(u)
    BY <2>1 DEF StoreInv, PlaceInv, Store!Open, Store!Write, Store!Link, Store!Unlink
  <2>2. CASE Store!Fail(u) \/ Store!Die(u)
    BY <2>2 DEF StoreInv, PlaceInv, Store!Fail, Store!Die
  <2>3. CASE Store!Unpublish(u)
    BY <2>3 DEF StoreInv, PlaceInv, Store!Unpublish, Store!Unname
  <2>4. CASE Store!Clean(u)
    BY <2>4 DEF StoreInv, PlaceInv, Store!Clean, Store!Unname
  <2> QED BY <2>1, <2>2, <2>3, <2>4
<1> QED BY <1>1, <1>2, <1>3 DEF StoreInv

LEMMA ReceiveStep ==
    ASSUME StoreInv, NEW us, Store!Receive(us)
    PROVE  StoreInv' /\ (\A v \in Uploads : at[v] = "stored" => at'[v] = "stored")
<1>1. \A v \in Uploads :
          /\ names'[v] = names[v] /\ inode'[v] = inode[v]
          /\ \/ at'[v] = at[v]
             \/ at[v] = "idle" /\ at'[v] = "refused"
             \/ at[v] = "idle" /\ at'[v] = "open" /\ Store!Valid(File[v])
  BY DEF Store!Receive
<1> QED BY <1>1 DEF StoreInv, PlaceInv, Store!Receive

LEMMA StoreStepKeeps ==
    ASSUME StoreInv, [Next]_vars
    PROVE  StoreInv' /\ (\A v \in Uploads : at[v] = "stored" => at'[v] = "stored")
<1>1. CASE UNCHANGED store
  BY <1>1 DEF store, StoreInv, PlaceInv
<1>2. CASE StoreStep BY <1>2, UploadStep DEF StoreStep
<1>3. CASE OtherUpload BY <1>3, ReceiveStep DEF OtherUpload
<1>4. ASSUME NEW kind, NEW files, handleFiles(kind, files)
      PROVE  StoreInv' /\ (\A v \in Uploads : at[v] = "stored" => at'[v] = "stored")
  BY <1>4, ReceiveStep DEF handleFiles
<1> QED
  BY <1>1, <1>2, <1>3, <1>4
  DEF Next, vars, changeType, TemplateAnswer, Fill, Uploaded, UploadFailed, removeImage,
      submit, Serve, ServeOther, Answered, Lose

LEMMA StoreInit == Init => StoreInv
BY DEF Init, Store!Init, StoreInv, PlaceInv

\* Published files are whole, failed uploads leave nothing and stored ones stay
\* (uploads.py:127-144).
THEOREM StoreStaysHonest == Spec => []StoreHonest
<1>1. StoreInv /\ [Next]_vars => StoreInv' BY StoreStepKeeps
<1> QED BY <1>1, StoreInit, StoreInvHonest, PTL DEF Spec

-----------------------------------------------------------------------------
(* Images and templates of the form.                                        *)

Stored(u) == u \in Uploads /\ at[u] = "stored"

ImageInv ==
    /\ \A image \in images : Stored(image.url) /\ image.url \notin removed
    /\ \A b \in batch :
           /\ \A image \in b.kept : Stored(image.url) /\ image.url \notin removed
           /\ \A u \in b.files : u \in Uploads /\ u \notin removed
    /\ \A u \in removed : Stored(u)
    /\ \A post \in posts \cup created : \A image \in post.images : Stored(image.url)

TemplateInv ==
    /\ fieldSchema \in {NoType, type}
    /\ schemaRequest \in Nat
    /\ \A l \in loads : /\ l.request \in Nat /\ l.request <= schemaRequest
                        /\ l.request = schemaRequest => l.type = type
    /\ \A post \in posts \cup created : post.template = post.type

IInv == StoreInv /\ ImageInv /\ TemplateInv

LEMMA FormInit == Init => IInv
BY StoreInit DEF Init, IInv, ImageInv, TemplateInv

\* A step that leaves the form's images and what was posted alone.
LEMMA ImagesKept ==
    ASSUME IInv, [Next]_vars, UNCHANGED <<images, removed>>, batch' \in {batch, {}},
           posts' \cup created' \subseteq posts \cup created
    PROVE  ImageInv'
<1>1. \A v \in Uploads : at[v] = "stored" => at'[v] = "stored"
  BY StoreStepKeeps DEF IInv
<1>2. \A b \in batch' : b \in batch
  OBVIOUS
<1>3. \A post \in posts' \cup created' : post \in posts \cup created
  OBVIOUS
<1>4. \A v : Stored(v) => Stored(v)'
  BY <1>1 DEF Stored
<1> QED BY <1>2, <1>3, <1>4 DEF IInv, ImageInv

LEMMA ImageStep == IInv /\ [Next]_vars => ImageInv'
<1> SUFFICES ASSUME IInv, [Next]_vars PROVE ImageInv' OBVIOUS
<1>0. \A v : Stored(v) => Stored(v)'
  BY StoreStepKeeps DEF IInv, Stored
<1>1. CASE \/ UNCHANGED vars \/ TemplateAnswer \/ Fill \/ OtherUpload \/ UploadFailed
           \/ ServeOther \/ Answered \/ Lose \/ StoreStep \/ \E t \in Types : changeType(t)
  <2>1. posts' \subseteq posts /\ created' = created
    BY <1>1 DEF vars, save, TemplateAnswer, Fill, OtherUpload, UploadFailed, ServeOther,
                Answered, Lose, StoreStep, changeType
  <2>2. UNCHANGED <<images, removed>> /\ batch' \in {batch, {}}
    BY <1>1 DEF vars, pictures, TemplateAnswer, Fill, OtherUpload, UploadFailed, ServeOther,
                Answered, Lose, StoreStep, changeType
  <2> QED BY <2>1, <2>2, ImagesKept
<1>2. CASE Serve
  <2>1. posts' \cup created' \subseteq posts \cup created
    BY <1>2 DEF Serve, create
  <2> QED BY <1>2, <2>1, ImagesKept DEF Serve, pictures
<1>3. ASSUME NEW kind, NEW files \in SUBSET Uploads, handleFiles(kind, files)
      PROVE  ImageInv'
  <2>1. /\ \A u \in files : u \in Uploads /\ at[u] = "idle"
        /\ UNCHANGED <<images, removed, posts, created>>
        /\ batch' = {[kind |-> kind, files |-> files, kept |-> images \ Of(kind)]}
    BY <1>3 DEF handleFiles, Store!Receive, save
  <2>2. \A u \in files : u \notin removed
    BY <2>1 DEF IInv, ImageInv, Stored
  <2> QED BY <1>0, <2>1, <2>2 DEF IInv, ImageInv
<1>4. CASE Uploaded
  <2>1. PICK b \in batch :
            /\ \A u \in b.files : at[u] = "stored"
            /\ images' = b.kept \cup {[kind |-> b.kind, url |-> u] : u \in b.files}
    BY <1>4 DEF Uploaded
  <2>2. batch' = {} /\ UNCHANGED <<removed, posts, created>>
    BY <1>4 DEF Uploaded, save
  <2>3. \A image \in images' : Stored(image.url) /\ image.url \notin removed
    BY <2>1 DEF IInv, ImageInv, Stored
  <2> QED BY <1>0, <2>2, <2>3 DEF IInv, ImageInv
<1>5. CASE removeImage
  <2>1. PICK image \in images :
            /\ images' = {item \in images : item.url # image.url}
            /\ removed' = IF batch = {} THEN removed \cup {image.url} ELSE removed
    BY <1>5 DEF removeImage, Filter
  <2>2. UNCHANGED <<batch, posts, created>>
    BY <1>5 DEF removeImage, save
  <2>3. Stored(image.url) BY DEF IInv, ImageInv
  <2>4. CASE batch = {}
    BY <1>0, <2>1, <2>2, <2>3, <2>4 DEF IInv, ImageInv
  <2>5. CASE batch # {}
    BY <1>0, <2>1, <2>2, <2>5 DEF IInv, ImageInv
  <2> QED BY <2>4, <2>5
<1>6. CASE submit
  <2> DEFINE post == [save |-> saves + 1, type |-> type, template |-> fieldSchema,
                      attributes |-> attributes, images |-> images]
  <2>1. created' = created /\ UNCHANGED pictures /\ posts' = posts \cup {post}
    BY <1>6 DEF submit
  <2>2. post.images = images OBVIOUS
  <2> HIDE DEF post
  <2>3. UNCHANGED <<images, batch, removed>> BY <2>1 DEF pictures
  <2>4. \A p \in posts' \cup created' : \A image \in p.images : Stored(image.url)'
    BY <1>0, <2>1, <2>2 DEF IInv, ImageInv
  <2> QED BY <1>0, <2>3, <2>4 DEF IInv, ImageInv
<1> QED BY <1>1, <1>2, <1>3, <1>4, <1>5, <1>6 DEF Next

LEMMA TemplateStep == IInv /\ [Next]_vars => TemplateInv'
<1> SUFFICES ASSUME IInv, [Next]_vars PROVE TemplateInv' OBVIOUS
<1> USE DEF IInv, TemplateInv
<1>1. ASSUME NEW t \in Types, changeType(t) PROVE TemplateInv'
  BY <1>1 DEF changeType, save
<1>2. CASE TemplateAnswer
  BY <1>2 DEF TemplateAnswer, Loaded, save
<1>3. CASE submit
  BY <1>3 DEF submit, MaySubmit, page
<1>4. CASE Serve
  BY <1>4 DEF Serve, create, page
<1>5. CASE Answered \/ Lose \/ ServeOther
  <2>1. posts' \subseteq posts /\ created' = created /\ UNCHANGED page
    BY <1>5 DEF Answered, Lose, ServeOther
  <2> QED BY <2>1 DEF page
<1>6. CASE UNCHANGED vars \/ Fill \/ OtherUpload \/ Uploaded \/ UploadFailed
           \/ removeImage \/ StoreStep
           \/ \E kind \in {"main", "gallery"}, files \in SUBSET Uploads : handleFiles(kind, files)
  <2>1. UNCHANGED <<type, fieldSchema, schemaRequest, loads, posts, created>>
    BY <1>6 DEF vars, page, save, Fill, OtherUpload, Uploaded, UploadFailed, removeImage,
                StoreStep, handleFiles
  <2> QED BY <2>1
<1> QED BY <1>1, <1>2, <1>3, <1>4, <1>5, <1>6 DEF Next

LEMMA FormStep == IInv /\ [Next]_vars => IInv'
BY StoreStepKeeps, ImageStep, TemplateStep DEF IInv

\* What is posted names stored images and the fields of its own type, in whatever order
\* templates and uploads arrive (ProductFormPage.tsx:84-101, ImageFields.tsx:16-40).
THEOREM PostsAreSound == Spec => []SavesSound
<1>1. IInv => SavesSound
  BY DEF IInv, StoreInv, PlaceInv, ImageInv, TemplateInv, SavesSound, Stored
<1> QED BY <1>1, FormInit, FormStep, PTL DEF Spec

\* An image removed while no upload was under way stays away (ImageFields.tsx:42-44).
THEOREM RemovalsHold == Spec => []RemovedStaysRemoved
<1>1. IInv => RemovedStaysRemoved BY DEF IInv, ImageInv, RemovedStaysRemoved
<1> QED BY <1>1, FormInit, FormStep, PTL DEF Spec

-----------------------------------------------------------------------------
(* Types, and the images a form may hold.                                   *)

\* What the server does with a request: it makes a product of it or not, and what it
\* refuses it does not make.
LEMMA Created ==
    ASSUME NEW post, create(post)
    PROVE  /\ posts' = posts \ {post}
           /\ \E a : /\ answers' = answers \cup {a} /\ a.save = post.save
                     /\ a.result \in {"refused", "failed", "created"}
                     /\ \/ created' = created
                        \/ created' = created \cup {post} /\ a.result # "refused"
<1> DEFINE answer(result, errors) == [save |-> post.save, result |-> result, errors |-> errors]
<1>1. posts' = posts \ {post} BY DEF create
<1>2. ASSUME NEW result \in {"refused", "failed", "created"}, NEW errors,
             Answer(post, result, errors),
             \/ created' = created
             \/ created' = created \cup {post} /\ result # "refused"
      PROVE  \E a : /\ answers' = answers \cup {a} /\ a.save = post.save
                    /\ a.result \in {"refused", "failed", "created"}
                    /\ \/ created' = created
                       \/ created' = created \cup {post} /\ a.result # "refused"
  <2>1. /\ answers' = answers \cup {answer(result, errors)}
        /\ answer(result, errors).save = post.save /\ answer(result, errors).result = result
    BY <1>2 DEF Answer
  <2> HIDE DEF answer
  <2> QED BY <1>2, <2>1
<1>3. \/ \E errors : Answer(post, "refused", errors) /\ created' = created
      \/ \E result \in {"created", "failed"} :
             Answer(post, result, {}) /\ created' = created \cup {post}
      \/ Answer(post, "failed", {}) /\ created' = created
  BY Zenon DEF create
<1> QED BY <1>1, <1>2, <1>3

Limit(kind) == IF kind = "main" THEN 1 ELSE MaxGallery
OfKind(kind, set) == {image \in set : image.kind = kind}
Fits(set) ==
    /\ set \subseteq Images /\ IsFiniteSet(set)
    /\ \A kind \in {"main", "gallery"} : Cardinality(OfKind(kind, set)) <= Limit(kind)

FieldsOK ==
    /\ type \in Types /\ fieldSchema \in Types \cup {NoType}
    /\ schemaRequest \in 0..MaxChanges
    /\ loads \subseteq [request : 1..MaxChanges, type : Types]

SavesOK ==
    /\ saving \in BOOLEAN /\ alert \in BOOLEAN
    /\ saves \in 0..MaxSaves /\ (saving => saves > 0)
    /\ failed \subseteq 1..MaxSaves
    /\ \A a \in answers : a.result \in {"refused", "failed", "created"}
    /\ outcome \in {"none", "refused", "failed", "created"}

\* What an upload keeps has none of its own kind, and what it brings has room.
PicturesOK ==
    /\ Fits(images) /\ removed \subseteq Uploads
    /\ \A b \in batch :
           /\ b.kind \in {"main", "gallery"}
           /\ b.files \subseteq Uploads /\ Cardinality(b.files) <= Limit(b.kind)
           /\ Fits(b.kept) /\ OfKind(b.kind, b.kept) = {}

TypesInv == FieldsOK /\ SavesOK /\ PicturesOK

LEMMA Bounds == MaxGallery \in Nat /\ MaxChanges \in Nat /\ MaxSaves \in Nat
BY FormAssumption

LEMMA TypesInit == Init => TypesInv
<1> SUFFICES ASSUME Init PROVE TypesInv OBVIOUS
<1>1. FieldsOK BY FormAssumption DEF Init, FieldsOK
<1>2. SavesOK
  <2>1. saves \in 0..MaxSaves BY Bounds DEF Init
  <2> QED BY <2>1 DEF Init, SavesOK
<1>3. Fits({})
  <2>1. \A kind : OfKind(kind, {}) = {} BY DEF OfKind
  <2>2. IsFiniteSet({}) /\ Cardinality({}) = 0 BY FS_EmptySet
  <2>3. \A kind : 0 <= Limit(kind) BY Bounds DEF Limit
  <2>4. \A kind : Cardinality(OfKind(kind, {})) <= Limit(kind) BY <2>1, <2>2, <2>3
  <2> QED BY <2>2, <2>4 DEF Fits
<1>4. PicturesOK BY <1>3 DEF Init, PicturesOK
<1> QED BY <1>1, <1>2, <1>4 DEF TypesInv

LEMMA FieldsStep == TypesInv /\ [Next]_vars => FieldsOK'
<1> SUFFICES ASSUME TypesInv, [Next]_vars PROVE FieldsOK' OBVIOUS
<1> USE DEF TypesInv, FieldsOK
<1>1. ASSUME NEW t \in Types, changeType(t) PROVE FieldsOK'
  <2>1. schemaRequest + 1 \in 1..MaxChanges BY <1>1, FormAssumption DEF changeType
  <2> QED BY <1>1, <2>1 DEF changeType
<1>2. CASE TemplateAnswer
  BY <1>2 DEF TemplateAnswer, Loaded
<1>3. CASE \/ UNCHANGED vars \/ Fill \/ OtherUpload \/ Uploaded \/ UploadFailed \/ removeImage
           \/ submit \/ Serve \/ ServeOther \/ Answered \/ Lose \/ StoreStep
           \/ \E kind \in {"main", "gallery"}, files \in SUBSET Uploads : handleFiles(kind, files)
  <2>1. UNCHANGED <<type, fieldSchema, schemaRequest, loads>>
    BY <1>3 DEF vars, page, Fill, OtherUpload, Uploaded, UploadFailed, removeImage, submit,
                Serve, ServeOther, Answered, Lose, StoreStep, handleFiles
  <2> QED BY <2>1
<1> QED BY <1>1, <1>2, <1>3 DEF Next

LEMMA SavesStep == TypesInv /\ [Next]_vars => SavesOK'
<1> SUFFICES ASSUME TypesInv, [Next]_vars PROVE SavesOK' OBVIOUS
<1> USE DEF TypesInv, SavesOK
<1>1. CASE submit
  <2>1. saves' \in 0..MaxSaves /\ saves' > 0 BY <1>1, Bounds DEF submit
  <2> QED BY <1>1, <2>1 DEF submit
<1>2. CASE Serve
  <2>1. PICK post \in posts : create(post) BY <1>2 DEF Serve
  <2>2. \A a \in answers' : a.result \in {"refused", "failed", "created"}
    BY <2>1, Created
  <2> QED BY <1>2, <2>2 DEF Serve, shown
<1>3. CASE Answered
  <2>1. PICK a \in answers :
            /\ answers' = answers \ {a} /\ outcome' = a.result
            /\ alert' = (a.result # "created" /\ a.errors = {})
            /\ failed' = IF a.result = "failed" THEN failed \cup {saves} ELSE failed
    BY <1>3 DEF Answered
  <2>2. saves \in 1..MaxSaves BY <1>3, Bounds DEF Answered
  <2> QED BY <1>3, <2>1, <2>2 DEF Answered
<1>4. CASE Lose
  <2>1. saves \in 1..MaxSaves BY <1>4, Bounds DEF Lose
  <2> QED BY <1>4, <2>1 DEF Lose
<1>5. ASSUME NEW t \in Types, changeType(t) PROVE SavesOK'
  BY <1>5 DEF changeType, save
<1>6. CASE TemplateAnswer
  BY <1>6 DEF TemplateAnswer, Loaded, save
<1>7. CASE \/ UNCHANGED vars \/ Fill \/ OtherUpload \/ Uploaded \/ UploadFailed \/ removeImage
           \/ ServeOther \/ StoreStep
           \/ \E kind \in {"main", "gallery"}, files \in SUBSET Uploads : handleFiles(kind, files)
  <2>1. UNCHANGED <<saving, answers, saves, failed, alert, outcome>>
    BY <1>7 DEF vars, save, shown, Fill, OtherUpload, Uploaded, UploadFailed, removeImage,
                ServeOther, StoreStep, handleFiles
  <2> QED BY <2>1
<1> QED BY <1>1, <1>2, <1>3, <1>4, <1>5, <1>6, <1>7 DEF Next

LEMMA FewerFit ==
    ASSUME NEW set, NEW more, Fits(more), set \subseteq more
    PROVE  Fits(set)
<1>1. IsFiniteSet(set) BY FS_Subset DEF Fits
<1>2. ASSUME NEW kind \in {"main", "gallery"}
      PROVE  Cardinality(OfKind(kind, set)) <= Limit(kind)
  <2>1. OfKind(kind, more) \subseteq more /\ OfKind(kind, set) \subseteq OfKind(kind, more)
    BY DEF OfKind
  <2>2. IsFiniteSet(OfKind(kind, more)) BY <2>1, FS_Subset DEF Fits
  <2>3. /\ IsFiniteSet(OfKind(kind, set))
        /\ Cardinality(OfKind(kind, set)) <= Cardinality(OfKind(kind, more))
    BY <2>1, <2>2, FS_Subset
  <2>4. Cardinality(OfKind(kind, set)) \in Nat /\ Cardinality(OfKind(kind, more)) \in Nat
    BY <2>2, <2>3, FS_CardinalityType
  <2>5. Limit(kind) \in Nat BY FormAssumption DEF Limit
  <2> QED BY <2>3, <2>4, <2>5 DEF Fits
<1> QED BY <1>1, <1>2 DEF Fits

\* The files of an upload take the place of the images of its kind.
LEMMA UploadFits ==
    ASSUME NEW kept, Fits(kept), NEW kind \in {"main", "gallery"}, OfKind(kind, kept) = {},
           NEW files \in SUBSET Uploads, Cardinality(files) <= Limit(kind)
    PROVE  Fits(kept \cup {[kind |-> kind, url |-> u] : u \in files})
<1> DEFINE new == {[kind |-> kind, url |-> u] : u \in files}
           all == kept \cup new
<1>1. IsFiniteSet(files) BY FS_Subset, FormAssumption
<1>2. [u \in files |-> [kind |-> kind, url |-> u]] \in Surjection(files, new)
  BY DEF Surjection
<1>3. IsFiniteSet(new) /\ Cardinality(new) <= Cardinality(files)
  BY <1>1, <1>2, FS_Surjection
<1>4. all \subseteq Images /\ IsFiniteSet(all)
  <2>1. new \subseteq Images BY DEF Images
  <2>2. IsFiniteSet(kept) /\ kept \subseteq Images BY DEF Fits
  <2>3. IsFiniteSet(new) BY <1>3
  <2> HIDE DEF new
  <2> QED BY <2>1, <2>2, <2>3, FS_Union
<1>5. OfKind(kind, all) = new
  BY DEF OfKind
<1>6. \A other \in {"main", "gallery"} \ {kind} : OfKind(other, all) = OfKind(other, kept)
  BY DEF OfKind
<1>7. Cardinality(new) <= Limit(kind)
  <2>1. Cardinality(new) \in Nat /\ Cardinality(files) \in Nat /\ Limit(kind) \in Nat
    BY <1>1, <1>3, FS_CardinalityType, FormAssumption DEF Limit
  <2> QED BY <1>3, <2>1
<1> HIDE DEF all, new
<1>8. Fits(all) BY <1>4, <1>5, <1>6, <1>7 DEF Fits
<1> QED BY <1>8 DEF all, new

LEMMA PicturesStep == TypesInv /\ [Next]_vars => PicturesOK'
<1> SUFFICES ASSUME TypesInv, [Next]_vars PROVE PicturesOK' OBVIOUS
<1> USE DEF TypesInv
<1>1. ASSUME NEW kind \in {"main", "gallery"}, NEW files \in SUBSET Uploads,
             handleFiles(kind, files)
      PROVE  PicturesOK'
  <2> DEFINE kept == images \ Of(kind)
             new == [kind |-> kind, files |-> files, kept |-> kept]
  <2>1. batch' = {new} /\ UNCHANGED <<images, removed>>
    BY <1>1 DEF handleFiles
  <2>2. Fits(kept) /\ OfKind(kind, kept) = {}
    BY FewerFit DEF PicturesOK, Of, OfKind
  <2>3. Cardinality(files) <= Limit(kind)
    BY <1>1, FormAssumption DEF handleFiles, Accepts, Limit
  <2>4. new.kind = kind /\ new.files = files /\ new.kept = kept OBVIOUS
  <2> HIDE DEF new, kept
  <2>5. Fits(images') /\ removed' \subseteq Uploads BY <2>1 DEF PicturesOK
  <2>6. \A b \in batch' :
            /\ b.kind \in {"main", "gallery"}
            /\ b.files \subseteq Uploads /\ Cardinality(b.files) <= Limit(b.kind)
            /\ Fits(b.kept) /\ OfKind(b.kind, b.kept) = {}
    BY <2>1, <2>2, <2>3, <2>4
  <2> QED BY <2>5, <2>6 DEF PicturesOK, Limit, Fits, OfKind
<1>2. CASE Uploaded
  <2>1. PICK b \in batch : images' = b.kept \cup {[kind |-> b.kind, url |-> u] : u \in b.files}
    BY <1>2 DEF Uploaded
  <2>2. batch' = {} /\ removed' = removed BY <1>2 DEF Uploaded
  <2>3. Fits(images') BY <2>1, UploadFits DEF PicturesOK
  <2> QED BY <2>2, <2>3 DEF PicturesOK, Fits, OfKind, Limit
<1>3. CASE removeImage
  <2>1. PICK image \in images :
            /\ images' = {item \in images : item.url # image.url}
            /\ removed' = IF batch = {} THEN removed \cup {image.url} ELSE removed
    BY <1>3 DEF removeImage, Filter
  <2>2. batch' = batch BY <1>3 DEF removeImage
  <2>3. Fits(images') BY <2>1, FewerFit DEF PicturesOK
  <2>4. removed' \subseteq Uploads BY <2>1 DEF PicturesOK, Fits, Images
  <2> QED BY <2>2, <2>3, <2>4 DEF PicturesOK, Fits, OfKind, Limit
<1>4. CASE \/ UNCHANGED vars \/ TemplateAnswer \/ Fill \/ OtherUpload \/ UploadFailed
           \/ submit \/ Serve \/ ServeOther \/ Answered \/ Lose \/ StoreStep
           \/ \E t \in Types : changeType(t)
  <2>1. UNCHANGED <<images, removed>> /\ batch' \in {batch, {}}
    BY <1>4 DEF vars, pictures, changeType, TemplateAnswer, Fill, OtherUpload, UploadFailed,
                submit, Serve, ServeOther, Answered, Lose, StoreStep
  <2> QED BY <2>1 DEF PicturesOK, Fits, OfKind, Limit
<1> QED BY <1>1, <1>2, <1>3, <1>4 DEF Next

\* A form never holds more than one main image and MaxGallery others, whatever uploads and
\* removals overlap (ImageFields.tsx:16-47).
THEOREM FormTypes == Spec => []TypeOK
<1>1. TypesInv /\ [Next]_vars => TypesInv'
  BY FieldsStep, SavesStep, PicturesStep DEF TypesInv
<1>2. TypesInv => TypeOK
  BY DEF TypesInv, FieldsOK, SavesOK, PicturesOK, Fits, OfKind, Limit, Of, TypeOK
<1> QED BY <1>1, <1>2, TypesInit, PTL DEF Spec

-----------------------------------------------------------------------------
(* One product per form.                                                    *)

\* The save the page waits for, or the one after which it is closed.
Current(p) == p.save = saves /\ (saving \/ ~Open)

\* A save is with the server, or answered, or a product, and then it is the current one
\* unless it was reported as a failure; a refused save made no product.
OneInv ==
    /\ saves \in Nat
    /\ \A p \in posts \cup created : p.save \in Nat /\ p.save <= saves
    /\ \A a \in answers : a.save \in Nat /\ a.save <= saves
    /\ \A p \in posts : p.save \in failed \/ (p.save = saves /\ saving)
    /\ \A p \in created : p.save \in failed \/ Current(p)
    /\ \A p \in posts : \A q \in posts : p.save = q.save => p = q
    /\ \A p \in posts : \A q \in created \cup answers : p.save # q.save
    /\ \A a \in answers : \A p \in created : a.result = "refused" => a.save # p.save

\* A step that leaves the saves alone.
LEMMA OneKept ==
    ASSUME OneInv, UNCHANGED <<saving, posts, answers, saves, created, failed>>,
           Open' => Open
    PROVE  OneInv'
BY DEF OneInv, Current, Open

LEMMA OneSubmit == ASSUME OneInv, submit PROVE OneInv'
<1> DEFINE post == [save |-> saves + 1, type |-> type, template |-> fieldSchema,
                    attributes |-> attributes, images |-> images]
<1>1. /\ Open /\ ~saving /\ saving' = TRUE /\ saves' = saves + 1
      /\ posts' = posts \cup {post}
      /\ UNCHANGED <<answers, created, failed>>
  BY DEF submit, MaySubmit
<1>2. post.save = saves + 1 OBVIOUS
<1> HIDE DEF post
<1>3. /\ saves' \in Nat
      /\ \A p \in posts' \cup created' : p.save \in Nat /\ p.save <= saves'
      /\ \A a \in answers' : a.save \in Nat /\ a.save <= saves'
  BY <1>1, <1>2 DEF OneInv
<1>4. /\ \A p \in posts' : p.save \in failed' \/ (p.save = saves' /\ saving')
      /\ \A p \in created' : p.save \in failed'
  BY <1>1, <1>2 DEF OneInv, Current
<1>5. \A q \in posts \cup created \cup answers : q.save # post.save
  BY <1>2 DEF OneInv
<1>6. /\ \A p \in posts' : \A q \in posts' : p.save = q.save => p = q
      /\ \A p \in posts' : \A q \in created' \cup answers' : p.save # q.save
  BY <1>1, <1>5 DEF OneInv
<1>7. \A a \in answers' : \A p \in created' : a.result = "refused" => a.save # p.save
  BY <1>1 DEF OneInv
<1> QED BY <1>3, <1>4, <1>6, <1>7 DEF OneInv

LEMMA OneServe == ASSUME OneInv, Serve PROVE OneInv'
<1>1. PICK post \in posts : create(post) BY DEF Serve
<1>2. UNCHANGED <<saving, saves, failed, outcome>> BY DEF Serve, shown
<1>3. posts' = posts \ {post} BY <1>1, Created
<1>4. PICK a : /\ answers' = answers \cup {a} /\ a.save = post.save
               /\ \/ created' = created
                  \/ created' = created \cup {post} /\ a.result # "refused"
  BY <1>1, Created
<1>5. post.save \in Nat /\ post.save <= saves
      /\ (post.save \in failed \/ (post.save = saves /\ saving))
  BY DEF OneInv
<1>6. /\ saves' \in Nat
      /\ \A p \in posts' \cup created' : p.save \in Nat /\ p.save <= saves'
      /\ \A b \in answers' : b.save \in Nat /\ b.save <= saves'
      /\ \A p \in posts' : p.save \in failed' \/ (p.save = saves' /\ saving')
  BY <1>2, <1>3, <1>4, <1>5 DEF OneInv
<1>7. \A p \in created' : p.save \in failed' \/ Current(p)'
  BY <1>2, <1>4, <1>5 DEF OneInv, Current, Open
<1>8. \A p \in posts' : p.save # post.save
  BY <1>3 DEF OneInv
<1>9. /\ \A p \in posts' : \A q \in posts' : p.save = q.save => p = q
      /\ \A p \in posts' : \A q \in created' \cup answers' : p.save # q.save
  BY <1>3, <1>4, <1>8 DEF OneInv
<1>10. \A b \in answers' : \A p \in created' : b.result = "refused" => b.save # p.save
  <2>1. \A p \in created : p.save # post.save BY DEF OneInv
  <2>2. \A b \in answers : b.save # post.save BY DEF OneInv
  <2> QED BY <1>4, <2>1, <2>2 DEF OneInv
<1> QED BY <1>6, <1>7, <1>9, <1>10 DEF OneInv

LEMMA OneAnswered == ASSUME OneInv, SavesOK, Answered PROVE OneInv'
<1>1. PICK a \in answers :
          /\ a.save = saves /\ answers' = answers \ {a} /\ outcome' = a.result
          /\ failed' = IF a.result = "failed" THEN failed \cup {saves} ELSE failed
  BY DEF Answered
<1>2. Open /\ saving /\ saving' = FALSE /\ UNCHANGED <<posts, saves, created>>
  BY DEF Answered
<1>3. a.result \in {"refused", "failed", "created"} BY DEF SavesOK
<1>4. \A p \in posts : p.save \in failed
  BY <1>1 DEF OneInv
<1>5. \A p \in created : p.save \in failed' \/ Current(p)'
  <2>1. ASSUME NEW p \in created, p.save \notin failed' PROVE Current(p)'
    <3>1. p.save = saves BY <1>1, <2>1 DEF OneInv, Current
    <3>2. a.result # "refused" BY <1>1, <3>1 DEF OneInv
    <3>3. a.result # "failed" BY <1>1, <2>1, <3>1
    <3> QED BY <1>1, <1>2, <1>3, <3>1, <3>2, <3>3 DEF Current, Open
  <2> QED BY <1>2, <2>1
<1> QED BY <1>1, <1>2, <1>4, <1>5 DEF OneInv

LEMMA OneLose == ASSUME OneInv, Lose PROVE OneInv'
<1>1. /\ Open /\ saving /\ saving' = FALSE /\ UNCHANGED <<saves, created>>
      /\ posts' \subseteq posts /\ answers' \subseteq answers
      /\ failed' = failed \cup {saves}
  BY DEF Lose
<1>2. \A p \in posts \cup created : p.save \in failed'
  BY <1>1 DEF OneInv, Current
<1> QED BY <1>1, <1>2 DEF OneInv

LEMMA OneStep == OneInv /\ SavesOK /\ [Next]_vars => OneInv'
<1> SUFFICES ASSUME OneInv, SavesOK, [Next]_vars PROVE OneInv' OBVIOUS
<1>1. CASE submit BY <1>1, OneSubmit
<1>2. CASE Serve BY <1>2, OneServe
<1>3. CASE Answered BY <1>3, OneAnswered
<1>4. CASE Lose BY <1>4, OneLose
<1>5. CASE \E t \in Types : changeType(t)
  <2>1. UNCHANGED save /\ Open BY <1>5 DEF changeType
  <2> QED BY <2>1, OneKept DEF save
<1>6. CASE ServeOther
  <2>1. UNCHANGED <<saving, posts, answers, saves, created, failed, outcome>>
    BY <1>6 DEF ServeOther, shown
  <2> QED BY <2>1, OneKept DEF Open
<1>7. CASE UNCHANGED vars \/ TemplateAnswer \/ Fill \/ OtherUpload \/ Uploaded \/ UploadFailed
           \/ removeImage \/ StoreStep
           \/ \E kind \in {"main", "gallery"}, files \in SUBSET Uploads : handleFiles(kind, files)
  <2>1. UNCHANGED save /\ outcome' = outcome
    BY <1>7 DEF vars, shown, TemplateAnswer, Fill, OtherUpload, Uploaded, UploadFailed,
                removeImage, StoreStep, handleFiles
  <2> QED BY <2>1, OneKept DEF save, Open
<1> QED BY <1>1, <1>2, <1>3, <1>4, <1>5, <1>6, <1>7 DEF Next

\* After a save that made a product the form sends another only when that save was
\* reported as a failure (ProductFormPage.tsx:97-129, service.py:120-145).
THEOREM OneProduct == Spec => []OneProductPerForm
<1> DEFINE Inv == OneInv /\ TypesInv
<1>1. Init => Inv BY TypesInit DEF Init, OneInv
<1>2. Inv /\ [Next]_vars => Inv'
  BY OneStep, FieldsStep, SavesStep, PicturesStep DEF TypesInv
<1>3. Inv => OneProductPerForm
  <2> SUFFICES ASSUME OneInv, NEW first \in created, NEW second \in posts \cup created,
                      first.save < second.save
               PROVE  first.save \in failed
    BY DEF OneProductPerForm
  <2>1. first.save # saves BY DEF OneInv
  <2> QED BY <2>1 DEF OneInv, Current
<1> HIDE DEF Inv
<1> QED BY <1>1, <1>2, <1>3, PTL DEF Spec

-----------------------------------------------------------------------------
(* What a refusal reports.                                                  *)

Reported(t, given) == validate_attributes(Template[t], given)

ReportInv ==
    /\ IsFiniteSet(DOMAIN attributes)
    /\ \A post \in posts \cup created : post.type \in Types /\ IsFiniteSet(DOMAIN post.attributes)
    /\ \A post \in created : Reported(post.type, post.attributes) = <<>>
    /\ refusal # NoRefusal =>
           /\ refusal.type \in Types /\ IsFiniteSet(DOMAIN refusal.attributes)
           /\ refusal.errors = Reported(refusal.type, refusal.attributes)

LEMMA NoFields == IsFiniteSet(DOMAIN <<>>)
<1>1. DOMAIN <<>> = {} OBVIOUS
<1> QED BY <1>1, FS_EmptySet

LEMMA ReportStep == ReportInv /\ FieldsOK /\ [Next]_vars => ReportInv'
<1> SUFFICES ASSUME ReportInv, FieldsOK, [Next]_vars PROVE ReportInv' OBVIOUS
<1> USE DEF ReportInv
<1>1. ASSUME NEW t \in Types, changeType(t) PROVE ReportInv'
  BY <1>1, NoFields DEF changeType, save
<1>2. CASE Fill
  <2>1. IsFiniteSet(DOMAIN attributes')
    BY <1>2, FormAssumption DEF Fill, FieldsOK
  <2> QED BY <1>2, <2>1 DEF Fill, save
<1>3. CASE submit
  <2> DEFINE post == [save |-> saves + 1, type |-> type, template |-> fieldSchema,
                      attributes |-> attributes, images |-> images]
  <2>1. /\ posts' = posts \cup {post}
        /\ UNCHANGED <<attributes, created, refusal>>
    BY <1>3 DEF submit, page
  <2>2. post.type = type /\ post.attributes = attributes OBVIOUS
  <2> HIDE DEF post
  <2> QED BY <2>1, <2>2 DEF FieldsOK
<1>4. CASE Serve
  <2>1. PICK post \in posts : create(post) BY <1>4 DEF Serve
  <2> DEFINE errors == Reported(post.type, post.attributes)
             refused == [type |-> post.type, attributes |-> post.attributes, errors |-> errors]
  <2>2. /\ posts' \subseteq posts
        /\ \/ created' = created
           \/ created' = created \cup {post} /\ errors = <<>>
        /\ refusal' \in {refusal, refused}
    BY <2>1 DEF create, Reported
  <2>3. refused.type = post.type /\ refused.attributes = post.attributes
        /\ refused.errors = errors
    OBVIOUS
  <2> HIDE DEF refused
  <2>4. attributes' = attributes BY <1>4 DEF Serve, page
  <2> QED BY <2>2, <2>3, <2>4 DEF Reported
<1>5. CASE ServeOther
  <2>1. PICK t \in Types, given \in ApiAttributes :
            refusal' = [type |-> t, attributes |-> given, errors |-> Reported(t, given)]
    BY <1>5 DEF ServeOther, Reported
  <2>2. /\ refusal'.type = t /\ refusal'.attributes = given
        /\ refusal'.errors = Reported(t, given)
    BY <2>1
  <2>3. UNCHANGED <<attributes, posts, created>> BY <1>5 DEF ServeOther, page
  <2> QED BY <2>2, <2>3, FormAssumption DEF Reported
<1>6. CASE \/ UNCHANGED vars \/ TemplateAnswer \/ OtherUpload \/ Uploaded \/ UploadFailed
           \/ removeImage \/ Answered \/ Lose \/ StoreStep
           \/ \E kind \in {"main", "gallery"}, files \in SUBSET Uploads : handleFiles(kind, files)
  <2>1. posts' \subseteq posts /\ UNCHANGED <<attributes, created, refusal>>
    BY <1>6 DEF vars, page, save, TemplateAnswer, OtherUpload, Uploaded, UploadFailed,
                removeImage, Answered, Lose, StoreStep, handleFiles
  <2> QED BY <2>1 DEF Reported
<1> QED BY <1>1, <1>2, <1>3, <1>4, <1>5, <1>6 DEF Next

\* A refusal names each missing field, each unknown field and each keyword a value fails,
\* once, and what is created has no such fault, for every template of scalars and every
\* object (field_schema.py:88-123, service.py:52-57, :120-133).
THEOREM ReportsComplete == Spec => []ReportComplete
<1> DEFINE Inv == ReportInv /\ TypesInv
<1>1. Init => Inv
  BY NoFields, TypesInit DEF Init, ReportInv
<1>2. Inv /\ [Next]_vars => Inv'
  BY ReportStep, FieldsStep, SavesStep, PicturesStep DEF TypesInv
<1>3. Inv => ReportComplete
  <2> SUFFICES ASSUME ReportInv PROVE ReportComplete OBVIOUS
  <2>1. ASSUME NEW t \in Types, NEW given, IsFiniteSet(DOMAIN given)
        PROVE  /\ ToSet(Reported(t, given)) = Faults(Template[t], given)
               /\ Len(Reported(t, given)) = Cardinality(Faults(Template[t], given))
    BY <2>1, ReportsEveryFault, FormAssumption DEF Reported, FiniteFields
  <2>2. ToSet(<<>>) = {} BY EmptyList DEF Lists
  <2>3. ASSUME NEW product \in created
        PROVE  Faults(Template[product.type], product.attributes) = {}
    BY <2>1, <2>2 DEF ReportInv
  <2> QED BY <2>1, <2>3 DEF ReportInv, ReportComplete
<1> HIDE DEF Inv
<1> QED BY <1>1, <1>2, <1>3, PTL DEF Spec
=============================================================================
