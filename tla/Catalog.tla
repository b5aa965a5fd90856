------------------------------ MODULE Catalog ------------------------------
(***************************************************************************)
(* The products of the shop: a file that administrators edit in a form, that *)
(* is synced from the catalogue of moja-sites, and whose photos are files of *)
(* their own.  Every operation of the server is synchronous; what takes time *)
(* is the form in the browser and the download of the catalogue.             *)
(***************************************************************************)
EXTENDS Naturals, SequencesExt

CONSTANTS
  Ids,         \* slugs of products
  Admins,
  MaxProducts, \* bound: records in the file
  MaxChanges,  \* bound: how often something is written or published
  NoId

ASSUME CatalogAssumption == MaxProducts \in Nat /\ MaxChanges \in Nat /\ IsFiniteSet(Ids)

VARIABLES
  canonical, \* the products whose photo is fixed (CANONICAL_PRODUCT_IMAGE_URL)
  products,  \* data/shop-catalog.products.json
  sites,     \* the catalogue of moja-sites
  files,     \* uploaded photos on the disk
  uploads,   \* history: photos that were ever uploaded
  featured, popular, \* ids in the layout and in home-popular.json
  desk,      \* what an administrator is doing
  excused,   \* history: ids whose photo was put back by a form that was out of date, or lost by a failure
  changes    \* how often something was written or published

catalogVars == <<canonical, products, sites, files, uploads, featured, popular, desk, excused, changes>>

\* A value that is published or uploaded is named by the change that brought it.
Missing == 0   \* undefined, or an empty string
Default == 1   \* what was seeded, and the fixed photo
Typed == 2     \* what an administrator types
Uploaded == 3  \* a photo that was uploaded before
Stamp == changes + 4
Value == 0..(MaxChanges + 3)

Price == {"basePriceCents", "variants"}   \* priceDisplay goes with them
PricingMedia == Price \cup {"imageUrl"}   \* badge and soldOut are like it, without a file
Full == PricingMedia \cup {"name", "category"}   \* name: as the other texts
Fields == Full \cup {"imageScale"}   \* the framing of the photo: moja-sites has none

\* What a sync in the mode full takes, locked or not: the category is never locked, and the
\* framing is not among the fields it copies.
TakenByFull == {"category", "imageScale"}

\* COMPARABLE_FIELDS
Comparable == Fields \ {"category"}

\* Mutant: only the field that was edited is locked, not its group.
LockGroupAlone(f) == {f}

\* SYNC_LOCK_GROUPS
LockGroup(f) ==
  CASE f \in Price -> Price
    [] f = "imageUrl" -> {"imageUrl", "images"}
    [] OTHER -> {f}

ExpandSyncOverrides(S) == UNION {LockGroup(f) : f \in S}

\* Fields that may be missing, and for which the form then sends a default: no variants, no zoom.
Defaulted == {"variants", "imageScale"}

Listing == [Fields -> Value]   \* a product of moja-sites
NotListed == [f \in Fields |-> Missing]

Idle == [doing |-> "nothing", id |-> NoId, copy |-> NotListed]

CatalogTypes ==
  /\ canonical \subseteq Ids
  /\ \A i \in DOMAIN products :
       /\ products[i].id \in Ids /\ products[i].value \in Listing
       /\ products[i].images \in Seq(Value)
       /\ products[i].locks \subseteq Fields \cup {"images"}
       /\ products[i].sort \in 0..2   \* sortOrder: before, among or after those of moja-sites
       /\ DOMAIN products[i].kept \subseteq Fields \cup {"images"}
  /\ sites \in [Ids -> Listing]
  /\ files \subseteq uploads /\ uploads \subseteq Value
  /\ featured \subseteq Ids /\ popular \subseteq Ids /\ excused \subseteq Ids
  /\ \A a \in Admins :
       \/ desk[a] = Idle
       \/ desk[a].doing = "edit" /\ desk[a].id \in Ids /\ desk[a].copy \in Listing
       \/ desk[a].doing = "sync" /\ desk[a].copy \in [Ids -> Listing]
  /\ changes \in 0..MaxChanges

\* A record: kept is history, what administrators wrote and nobody may have taken since.
Record(id, value, images, sort) ==
  [id |-> id, value |-> value, images |-> images, sort |-> sort, locks |-> {}, kept |-> <<>>]

\* Some fields anew, the others as they were.
Over(new, old) == [f \in DOMAIN new \cup DOMAIN old |-> IF f \in DOMAIN new THEN new[f] ELSE old[f]]

\* An administrator writes fields; those that are not compared are not locked.
Written(p, new, locked) ==
  [p EXCEPT !.locks = ExpandSyncOverrides(@ \cup locked),
            !.kept = Over(new, @),
            !.images = IF "images" \in DOMAIN new THEN new["images"] ELSE @,
            !.value = [f \in Fields |-> IF f \in DOMAIN new THEN new[f] ELSE @[f]]]

CatalogInit ==
  /\ canonical \in SUBSET Ids
  /\ uploads \in {{}, {Uploaded}} /\ files = uploads
  /\ \E id \in Ids :
       LET seeded == Record(id, [f \in Fields |-> IF f \in Defaulted THEN Missing ELSE Default], <<Default>>, 1)
       IN products = <<IF uploads = {} THEN seeded
                       ELSE Written(seeded, [imageUrl |-> Uploaded, images |-> <<Uploaded>>], {"imageUrl"})>>
  /\ sites = [id \in Ids |-> NotListed]
  /\ featured = {} /\ popular = {}
  /\ desk = [a \in Admins |-> Idle]
  /\ excused = {} /\ changes = 0

---------------------------------------------------------------------------
(* Reading the file *)

\* repairCanonicalProductImages, a part of readAll: the photo of some products is put back.
Repaired(p) ==
  IF p.id \notin canonical \/ p.value["imageUrl"] = Default THEN p
  ELSE [p EXCEPT !.value["imageUrl"] = Default,
                 !.images = IF @ = <<>> THEN <<Default>> ELSE [@ EXCEPT ![1] = Default]]

All == [i \in DOMAIN products |-> Repaired(products[i])]

Photos(p) == {p.value["imageUrl"]} \cup ToSet(p.images)

IdsOf(s) == {s[i].id : i \in DOMAIN s}
IsProduct(id) == id \in IdsOf(products)

\* The first record with an id: createProduct does not look for another one.
FirstIn(s, id) == CHOOSE i \in DOMAIN s :
  s[i].id = id /\ \A j \in DOMAIN s : s[j].id = id => i <= j

\* What s has at the positions in I, in their order.
At(s, I) == [n \in 1..Cardinality(I) |-> s[CHOOSE i \in I : Cardinality({j \in I : j < i}) = n - 1]]

Sorted(s) ==
  LET With(n) == At(s, {i \in DOMAIN s : s[i].sort = n})
  IN With(0) \o With(1) \o With(2)

Change == changes < MaxChanges /\ changes' = changes + 1

\* Somebody looks at the shop.
Read ==
  /\ products # All /\ products' = All
  /\ UNCHANGED <<canonical, sites, files, uploads, featured, popular, desk, excused, changes>>

---------------------------------------------------------------------------
(* The form of an administrator *)

\* The form shows the record as it is now, the first in the order of the list.
OpenForm(a, id) ==
  /\ desk[a] = Idle /\ IsProduct(id)
  /\ products' = All
  /\ desk' = [desk EXCEPT ![a] =
       [doing |-> "edit", id |-> id, copy |-> Sorted(All)[FirstIn(Sorted(All), id)].value]]
  /\ UNCHANGED <<canonical, sites, files, uploads, featured, popular, excused, changes>>

CloseForm(a) ==
  /\ desk[a].doing = "edit" /\ desk' = [desk EXCEPT ![a] = Idle]
  /\ UNCHANGED <<canonical, products, sites, files, uploads, featured, popular, excused, changes>>

\* What an administrator changes in the form: one field, or nothing.
Edits == {<<>>, [imageUrl |-> Missing]} \cup {[g \in {f} |-> Typed] : f \in Fields}

\* What the form sends.
Sent(copy) == [f \in Fields |-> IF f \in Defaulted /\ copy[f] = Missing THEN Default ELSE copy[f]]

DetectChangedFields(before, after) == {f \in Comparable : before[f] # after[f]}

\* updateProduct: every field of the form is written, also those that are out of date by now.
UpdateProduct(a, edit) ==
  LET id == desk[a].id
      i == FirstIn(products, id)
      before == All[i].value
      next == Sent(Over(edit, desk[a].copy))
      touched == {f \in Fields : next[f] # before[f]}
  IN
  /\ Change /\ desk[a].doing = "edit" /\ IsProduct(id)
  /\ desk' = [desk EXCEPT ![a] = Idle]
  /\ products' = [All EXCEPT ![i] = Written(@, [f \in touched |-> next[f]], DetectChangedFields(before, next))]
  /\ excused' = IF "imageUrl" \in touched \ DOMAIN edit THEN excused \cup {id} ELSE excused
  /\ UNCHANGED <<canonical, sites, files, uploads, featured, popular>>

CreateProduct(id, sort) ==
  /\ Change /\ Len(products) < MaxProducts
  /\ products' = Append(All, Record(id, [f \in Fields |-> IF f \in Defaulted THEN Default ELSE Typed], <<>>, sort))
  /\ UNCHANGED <<canonical, sites, files, uploads, featured, popular, desk, excused>>

ResetProductSyncOverrides(a) ==
  LET id == desk[a].id IN
  /\ Change /\ desk[a].doing = "edit" /\ IsProduct(id)
  /\ products' = [All EXCEPT ![FirstIn(products, id)].locks = {}, ![FirstIn(products, id)].kept = <<>>]
  /\ UNCHANGED <<canonical, sites, files, uploads, featured, popular, desk, excused>>

---------------------------------------------------------------------------
(* Photos *)

\* Mutant: the photo that is replaced stays among the images.
GalleryWhole(p, new) == <<new>> \o p.images

Gallery(p, new) == <<new>> \o At(p.images, {i \in DOMAIN p.images : p.images[i] # p.value["imageUrl"]})

\* attachProductImage: the new file, then the record, and then the old file is removed.
AttachProductImage(a) ==
  LET id == desk[a].id
      i == FirstIn(products, id)
  IN
  /\ Change /\ desk[a].doing = "edit" /\ IsProduct(id)
  /\ products' = [All EXCEPT ![i] = Written(@, [imageUrl |-> Stamp, images |-> Gallery(@, Stamp)], {"imageUrl"})]
  /\ files' = (files \ {All[i].value["imageUrl"]}) \cup {Stamp}
  /\ uploads' = uploads \cup {Stamp}
  /\ desk' = [desk EXCEPT ![a].copy["imageUrl"] = Stamp]
  /\ UNCHANGED <<canonical, sites, featured, popular, excused>>

\* clearProductImage removes the file first; then the write may fail.
ClearProductImage(a, fails) ==
  LET id == desk[a].id
      i == FirstIn(products, id)
  IN
  /\ Change /\ desk[a].doing = "edit" /\ IsProduct(id)
  /\ files' = files \ {All[i].value["imageUrl"]}
  /\ products' = IF fails THEN All
                 ELSE [All EXCEPT ![i] = Written(@, [imageUrl |-> Missing, images |-> <<>>], {"imageUrl"})]
  /\ desk' = IF fails THEN desk ELSE [desk EXCEPT ![a].copy["imageUrl"] = Missing]
  /\ excused' = IF fails THEN excused \cup {id} ELSE excused
  /\ UNCHANGED <<canonical, sites, uploads, featured, popular>>

---------------------------------------------------------------------------
(* The lists of the home page, and deletion *)

\* Mutant: ids are not compared with the products.
PrunedNot(S, all) == S

\* setLayout and setPopularConfig keep the ids that exist.
Pruned(S, all) == S \cap IdsOf(all)

\* An administrator picks products for the layout, or for the home page.
SetLayout(S) ==
  /\ Change /\ products' = All /\ featured' = Pruned(S, All)
  /\ UNCHANGED <<canonical, sites, files, uploads, popular, desk, excused>>

SetPopularConfig(S) ==
  /\ Change /\ products' = All /\ popular' = Pruned(S, All)
  /\ UNCHANGED <<canonical, sites, files, uploads, featured, desk, excused>>

\* deleteProduct: the record goes, then its photos, then its places in both lists.
DeleteProduct(id) ==
  LET i == FirstIn(products, id)
      left == RemoveAt(All, i)
  IN
  /\ Change /\ IsProduct(id)
  /\ products' = left
  /\ files' = files \ Photos(All[i])
  /\ featured' = Pruned(featured, left) /\ popular' = Pruned(popular, left)
  /\ UNCHANGED <<canonical, sites, uploads, desk, excused>>

---------------------------------------------------------------------------
(* Sync from moja-sites *)

\* moja-sites publishes a product, or a new version of it.
Publish(id, without) ==
  /\ Change
  /\ sites' = [sites EXCEPT ![id] = [f \in Fields |-> IF f \in without \cup {"imageScale"} THEN Missing ELSE Stamp]]
  /\ UNCHANGED <<canonical, products, files, uploads, featured, popular, desk, excused>>

\* loadSitesCatalog
LoadSitesCatalog(a) ==
  /\ desk[a] = Idle
  /\ desk' = [desk EXCEPT ![a] = [doing |-> "sync", id |-> NoId, copy |-> sites]]
  /\ UNCHANGED <<canonical, products, sites, files, uploads, featured, popular, excused, changes>>

\* mergeSitesIntoMemberProduct: the fields of the mode that are not locked.
MergeSites(p, s, mode) ==
  LET taken == (mode \ p.locks) \cup IF mode = Full THEN {"imageScale"} ELSE {} IN
  [p EXCEPT !.value = [f \in Fields |-> IF f \in taken THEN s[f] ELSE @[f]],
            !.images = IF "images" \in p.locks THEN @ ELSE <<s["imageUrl"]>>,
            !.kept = IF mode = Full THEN [f \in DOMAIN @ \ TakenByFull |-> @[f]] ELSE @]

\* applySyncToMemberCatalog: the first record with an id is merged, and what is missing created.
ApplySyncToMemberCatalog(copy, mode, created) ==
  LET Listed(id) == copy[id] # NotListed
      merged == [i \in DOMAIN products |->
        LET id == products[i].id IN
        IF Listed(id) /\ i = FirstIn(products, id) THEN MergeSites(All[i], copy[id], mode) ELSE All[i]]
      new == {Record(id, copy[id], <<copy[id]["imageUrl"]>>, 1) : id \in {j \in Ids : Listed(j) /\ ~IsProduct(j)}}
  IN Sorted(merged \o IF created THEN SetToSeq(new) ELSE <<>>)

\* sitesCatalogToLayout: moja-sites features what it lists.
SitesLayout(copy) == {id \in Ids : copy[id] # NotListed}

ApplySyncFromSites(a, mode, created, lists) ==
  /\ desk[a].doing = "sync"
  /\ products' = ApplySyncToMemberCatalog(desk[a].copy, mode, created)
  /\ Len(products') <= MaxProducts
  /\ desk' = [desk EXCEPT ![a] = Idle]
  /\ featured' = IF lists THEN Pruned(SitesLayout(desk[a].copy), products') ELSE featured
  /\ UNCHANGED <<canonical, sites, files, uploads, popular, excused, changes>>

CatalogNext ==
  \/ \E a \in Admins :
       \/ \E id \in Ids : OpenForm(a, id)
       \/ \E edit \in Edits : UpdateProduct(a, edit)
       \/ CloseForm(a)
       \/ ResetProductSyncOverrides(a)
       \/ AttachProductImage(a)
       \/ \E fails \in BOOLEAN : ClearProductImage(a, fails)
       \/ LoadSitesCatalog(a)
       \/ \E mode \in {PricingMedia, Full}, created, lists \in BOOLEAN :
            ApplySyncFromSites(a, mode, created, lists)
  \/ \E id \in Ids, sort \in {0, 2} : CreateProduct(id, sort)
  \/ \E S \in SUBSET Ids : SetLayout(S) \/ SetPopularConfig(S)
  \/ \E id \in Ids : DeleteProduct(id)
  \/ \E id \in Ids, without \in SUBSET {"variants"} : Publish(id, without)
  \/ Read

CatalogSpec == CatalogInit /\ [][CatalogNext]_catalogVars

---------------------------------------------------------------------------
(* Properties *)

\* What an administrator has written stays until an administrator writes it again or resets it,
\* whatever syncs bring meanwhile; fixed photos excepted, and what a full sync always takes.
EditsSurviveSync ==
  \A i \in DOMAIN products : LET p == products[i] IN
    \A f \in DOMAIN p.kept :
      \/ p.id \in canonical /\ f \in {"imageUrl", "images"}
      \/ p.kept[f] = IF f = "images" THEN p.images ELSE p.value[f]

\* Photos that are shown exist, unless a form that was out of date or a failed write put one back,
\* and the lists of the home page name products that exist.
NothingDangles ==
  /\ \A i \in DOMAIN products : LET p == products[i] IN
       p.id \in excused \/ uploads \cap Photos(p) \subseteq files
  /\ featured \cup popular \subseteq IdsOf(products)
=============================================================================
