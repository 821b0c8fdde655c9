----------------------------- MODULE Publishing -----------------------------
(***************************************************************************)
(* How teaching content reaches a learner and how the answers to it are    *)
(* scored: validated content is signed in a review ledger, built into a    *)
(* pack directory, imported into the PostgreSQL registry and indexed for   *)
(* retrieval, installed by the page through its service worker, and scored *)
(* from the pack directory on the server (app/content_pipeline, app/sync/  *)
(* content_packs.py and versioned_scoring.py, web/app.js and web/sw.js).   *)
(*                                                                         *)
(* A piece of content is a record of id, version and body; its hash is the *)
(* record itself.  Pack versions are numbers in their release order.  The  *)
(* scripts may stop between two files, and between the import of a pack    *)
(* and the rebuild of the index.                                           *)
(***************************************************************************)
EXTENDS Integers, Sequences, FiniteSets

CONSTANTS
    Questions, Lessons,  \* ids of the content
    Bodies,              \* what a piece of content may say
    Catalogs,            \* the sets of records the generator may validate
    MaxPack,             \* bound: pack versions released
    MaxDrafts,           \* bound: times the validated records change
    MaxTemplates,        \* bound: times the review ledger is written anew
    MaxImports,          \* bound: imports made
    MaxWithdrawals,      \* bound: pieces of content withdrawn
    NoFile, NoRow, NoPack

Ids == Questions \cup Lessons
PackVersions == 1 .. MaxPack
Records == [id: Ids, version: {r.version : r \in UNION Catalogs}, body: Bodies]

ASSUME BoundsAreNaturals ==
    MaxPack \in Nat \ {0} /\ {MaxDrafts, MaxTemplates, MaxImports, MaxWithdrawals} \subseteq Nat
ASSUME KindsAreDisjoint == Questions \cap Lessons = {}
ASSUME CatalogsOfRecords ==
    \A c \in Catalogs : c \subseteq Records /\ \A r, s \in c : r.id = s.id => r = s
ASSUME NothingIsNoContent ==
    /\ \A S \in SUBSET Records : S # NoFile
    /\ NoRow \notin [record: Records, approved: BOOLEAN]

VARIABLES
    catalog,    \* content/validated: the records that passed validation
    ledger,     \* content/reviews: [id -> the record a row is about, and whether it is signed]
    release,    \* PACK_VERSION of the checked-out code
    packs,      \* content/packs: [version -> its three files]
    building,   \* the build in progress: its records and the files it still has to write
    registry,   \* the content tables of PostgreSQL
    indexing,   \* the pack imported by the running script and not yet indexed
    index,      \* knowledge_fts
    keys,       \* [version -> the answer key the server process has loaded]
    installed,  \* the pack of the page, in IndexedDB
    cached,     \* [version -> the response the service worker keeps]
    imports, withdrawals,
    drafts, templates,
    signed      \* history: every record a reviewer has signed

bounded == <<drafts, templates>>
files == <<catalog, ledger, release, packs, building, bounded>>
server == <<registry, indexing, index, imports, withdrawals>>
page == <<installed, cached>>
vars == <<files, server, keys, page, signed>>

-----------------------------------------------------------------------------
(* The registry: content_items has one row for an id, content_item_versions*)
(* one for an id and a version, content_packs one row, as every pack has   *)
(* the same pack_id, and content_pack_items one row for an id.             *)

IsWithdrawn(id) == registry.items[id] # NoRow /\ registry.items[id].withdrawn

(* GET /v1/content-packs/{version}: the members of the pack whose current  *)
(* row has the member's version and is not withdrawn, with the stored body *)
(* of that version.                                                        *)
Served ==
    {r \in registry.versions :
        /\ registry.members[r.id] = r.version
        /\ registry.items[r.id] # NoRow
        /\ registry.items[r.id].version = r.version
        /\ ~registry.items[r.id].withdrawn}

(* A lesson of the loaded pack is taught only when the registry has the    *)
(* same content for the same pack (_registry_matches_lesson).              *)
RegistryMatches(lesson, pack) ==
    /\ registry.pack # NoPack /\ registry.pack = pack
    /\ registry.items[lesson.id] =
          [version |-> lesson.version, body |-> lesson.body, withdrawn |-> FALSE]
    /\ registry.members[lesson.id] = lesson.version
    /\ lesson \in registry.versions

-----------------------------------------------------------------------------
(* Validation and review.                                                  *)

(* The drafts are generated and validated as a whole, and replace what was *)
(* validated before.                                                       *)
Validate(c) ==
    /\ drafts < MaxDrafts /\ c # catalog
    /\ catalog' = c
    /\ drafts' = drafts + 1
    /\ UNCHANGED <<ledger, release, packs, building, templates, server, keys, page, signed>>

(* The repair of colliding questions gives a validated question another    *)
(* body and hash under the same version.                                   *)
RewriteValidated(r) ==
    /\ drafts < MaxDrafts /\ r \in catalog /\ r.id \in Questions
    /\ \E body \in Bodies \ {r.body} :
          catalog' = (catalog \ {r}) \cup {[r EXCEPT !.body = body]}
    /\ drafts' = drafts + 1
    /\ UNCHANGED <<ledger, release, packs, building, templates, server, keys, page, signed>>

(* The ledger is written anew, one empty row for each validated record.    *)
WriteReviewTemplate ==
    /\ templates < MaxTemplates
    /\ templates' = templates + 1
    /\ ledger' = [id \in Ids |->
                    IF \E r \in catalog : r.id = id
                    THEN [record |-> CHOOSE r \in catalog : r.id = id, approved |-> FALSE]
                    ELSE NoRow]
    /\ UNCHANGED <<catalog, release, packs, building, drafts, server, keys, page, signed>>

(* External: the four reviewers fill the row of a record and approve it.   *)
Sign(id) ==
    /\ ledger[id] # NoRow /\ ~ledger[id].approved
    /\ ledger' = [ledger EXCEPT ![id].approved = TRUE]
    /\ signed' = signed \cup {ledger[id].record}
    /\ UNCHANGED <<catalog, release, packs, building, bounded, server, keys, page>>

-----------------------------------------------------------------------------
(* Building a pack.                                                        *)

\* Mutant: a review counts for the version, whatever its hash.
IsApprovedVersion(r) ==
    /\ ledger[r.id] # NoRow /\ ledger[r.id].approved
    /\ ledger[r.id].record.version = r.version

IsApproved(r) == ledger[r.id] = [record |-> r, approved |-> TRUE]

\* Mutant: the manifest is the first file in place.
ManifestFirst == <<"manifest", "items", "lessons">>

PackFiles == <<"items", "lessons", "manifest">>

PackFile(records, name) ==
    CASE name = "items" -> {r \in records : r.id \in Questions}
      [] name = "lessons" -> {r \in records : r.id \in Lessons}
      [] name = "manifest" -> records

(* Every validated record needs its own complete review.  A version that   *)
(* has a manifest is left as it is: the same content is already published  *)
(* and other content is refused.                                           *)
StartBuild ==
    /\ building.left = <<>>
    /\ catalog # {} /\ \A r \in catalog : IsApproved(r)
    /\ packs[release].manifest = NoFile
    /\ building' = [records |-> catalog, version |-> release, left |-> PackFiles]
    /\ UNCHANGED <<catalog, ledger, release, packs, bounded, server, keys, page, signed>>

(* Each file is written beside its place and then renamed into it.         *)
WritePackFile ==
    /\ building.left # <<>>
    /\ LET name == Head(building.left)
       IN  packs' = [packs EXCEPT ![building.version][name] = PackFile(building.records, name)]
    /\ building' = [building EXCEPT !.left = Tail(@)]
    /\ UNCHANGED <<catalog, ledger, release, bounded, server, keys, page, signed>>

StopBuild ==
    /\ building.left # <<>>
    /\ building' = [building EXCEPT !.left = <<>>]
    /\ UNCHANGED <<catalog, ledger, release, packs, bounded, server, keys, page, signed>>

(* External: the next release of the code names the next pack version.     *)
BumpRelease ==
    /\ release < MaxPack /\ building.left = <<>>
    /\ release' = release + 1
    /\ UNCHANGED <<catalog, ledger, packs, building, bounded, server, keys, page, signed>>

-----------------------------------------------------------------------------
(* Import and index.                                                       *)

IsPublished(p) == packs[p].manifest # NoFile

PackContent(p) ==
    (IF packs[p].items = NoFile THEN {} ELSE packs[p].items)
    \cup (IF packs[p].lessons = NoFile THEN {} ELSE packs[p].lessons)

\* Mutant: a stored version is kept without comparing hashes.
HasNoConflict(p) == FALSE

HasConflict(p) ==
    \E r \in PackContent(p), s \in registry.versions :
        r.id = s.id /\ r.version = s.version /\ r.body # s.body

(* One transaction.  A version that is stored with another hash refuses    *)
(* the pack.  The row of an id is overwritten but for its withdrawal, the  *)
(* row of the pack is overwritten, and its members are added to: a member  *)
(* the new pack does not have stays.                                       *)
Import(p) ==
    /\ indexing = NoPack /\ imports < MaxImports
    /\ IsPublished(p) /\ ~HasConflict(p)
    /\ LET new == PackContent(p)
           Has(id) == \E r \in new : r.id = id
           Of(id) == CHOOSE r \in new : r.id = id
       IN  registry' =
             [items |-> [id \in Ids |->
                 IF Has(id) THEN [version |-> Of(id).version, body |-> Of(id).body,
                                  withdrawn |-> IsWithdrawn(id)]
                 ELSE registry.items[id]],
              versions |-> registry.versions \cup
                 {r \in new : ~\E s \in registry.versions : s.id = r.id /\ s.version = r.version},
              pack |-> p,
              members |-> [id \in Ids |-> IF Has(id) THEN Of(id).version
                                          ELSE registry.members[id]]]
    /\ indexing' = p
    /\ imports' = imports + 1
    /\ UNCHANGED <<files, index, withdrawals, keys, page, signed>>

(* The index is cleared and filled from the pack directory.                *)
IndexPack ==
    /\ indexing # NoPack
    /\ index' = PackContent(indexing)
    /\ indexing' = NoPack
    /\ UNCHANGED <<files, registry, imports, withdrawals, keys, page, signed>>

StopBeforeIndex ==
    /\ indexing # NoPack
    /\ indexing' = NoPack
    /\ UNCHANGED <<files, registry, index, imports, withdrawals, keys, page, signed>>

(* External: content is withdrawn in the registry; no code does it.        *)
Withdraw(id) ==
    /\ withdrawals < MaxWithdrawals
    /\ registry.items[id] # NoRow /\ ~registry.items[id].withdrawn
    /\ registry' = [registry EXCEPT !.items[id].withdrawn = TRUE]
    /\ withdrawals' = withdrawals + 1
    /\ UNCHANGED <<files, indexing, index, imports, keys, page, signed>>

-----------------------------------------------------------------------------
(* The server's answer keys and the page.                                  *)

(* A key is read from the directory when an answer first needs it, and     *)
(* kept for the life of the process.                                       *)
LoadKey(p) ==
    /\ keys[p] = NoFile /\ IsPublished(p) /\ packs[p].items # NoFile
    /\ keys' = [keys EXCEPT ![p] = PackContent(p)]
    /\ UNCHANGED <<files, server, page, signed>>

RestartServer ==
    /\ keys # [p \in PackVersions |-> NoFile]
    /\ keys' = [p \in PackVersions |-> NoFile]
    /\ UNCHANGED <<files, server, page, signed>>

(* The page installs the newest version listed, and between sessions moves *)
(* to a newer one than it has; the service worker answers from its cache   *)
(* for a version it has fetched once.                                      *)
InstallPack ==
    /\ registry.pack # NoPack
    /\ installed # NoPack => installed.version < registry.pack
    /\ LET v == registry.pack
           response == IF cached[v] # NoFile THEN cached[v] ELSE Served
       IN  /\ installed' = [version |-> v, records |-> response]
           /\ cached' = [cached EXCEPT ![v] = response]
    /\ UNCHANGED <<files, server, keys, signed>>

(* Another learner on the device enrols: the page starts without a pack,   *)
(* the service worker's cache stays.                                       *)
EnrolAgain ==
    /\ installed # NoPack
    /\ installed' = NoPack
    /\ UNCHANGED <<files, server, keys, cached, signed>>

(* Scoring an answer the page made: the key of that pack version must have *)
(* the question in that version.                                           *)
IsScorable(question, p) ==
    \E r \in PackContent(p) : r.id = question.id /\ r.version = question.version

-----------------------------------------------------------------------------
Init ==
    /\ catalog = {}
    /\ ledger = [id \in Ids |-> NoRow]
    /\ release = 1
    /\ packs = [p \in PackVersions |->
                  [items |-> NoFile, lessons |-> NoFile, manifest |-> NoFile]]
    /\ building = [records |-> {}, version |-> 1, left |-> <<>>]
    /\ registry = [items |-> [id \in Ids |-> NoRow], versions |-> {}, pack |-> NoPack,
                   members |-> [id \in Ids |-> NoRow]]
    /\ indexing = NoPack /\ index = {}
    /\ keys = [p \in PackVersions |-> NoFile]
    /\ installed = NoPack
    /\ cached = [p \in PackVersions |-> NoFile]
    /\ imports = 0 /\ withdrawals = 0 /\ drafts = 0 /\ templates = 0
    /\ signed = {}

Next ==
    \/ \E c \in Catalogs : Validate(c)
    \/ \E r \in catalog : RewriteValidated(r)
    \/ WriteReviewTemplate
    \/ \E id \in Ids : Sign(id)
    \/ StartBuild \/ WritePackFile \/ StopBuild \/ BumpRelease
    \/ \E p \in PackVersions : Import(p)
    \/ IndexPack \/ StopBeforeIndex
    \/ \E id \in Ids : Withdraw(id)
    \/ \E p \in PackVersions : LoadKey(p)
    \/ RestartServer
    \/ InstallPack \/ EnrolAgain

Spec == Init /\ [][Next]_vars

-----------------------------------------------------------------------------
(* Properties.                                                             *)

(* Content reaches a published pack, the registry, the index, an answer    *)
(* key or a page only in the exact version and body reviewers signed,      *)
(* whatever was regenerated, rewritten or rebuilt in between               *)
(* (review_row_complete_for_item, approve_items).                          *)
PublishedIsReviewed ==
    /\ \A p \in PackVersions : IsPublished(p) => PackContent(p) \subseteq signed
    /\ registry.versions \cup index \subseteq signed
    /\ \A p \in PackVersions : keys[p] # NoFile => keys[p] \subseteq signed
    /\ installed # NoPack => installed.records \subseteq signed

(* A pack that has a manifest is whole: its files hold what the manifest   *)
(* lists, also when a build before stopped half way with other content     *)
(* (build_pack: the manifest is the last file in place).                   *)
NothingHalfPublished ==
    \A p \in PackVersions : IsPublished(p) =>
        packs[p].items # NoFile /\ packs[p].lessons # NoFile
        /\ PackContent(p) = packs[p].manifest

(* A learner is scored by and taught what the learner read: a question or  *)
(* lesson of the installed pack has the same body in the answer key of the *)
(* same pack version, in the registry and in the index, wherever they have *)
(* that version of it, and so has a lesson the server shows from any pack  *)
(* it loaded (import_pack's refusal of a changed version, the pack         *)
(* directories that are never rewritten, _registry_matches_lesson,         *)
(* SYNC_PROTOCOL 6.7).                                                     *)
OneBodyPerVersion ==
    installed # NoPack =>
        \A r \in installed.records :
            LET key == keys[installed.version]
                known == registry.versions \cup index \cup (IF key = NoFile THEN {} ELSE key)
                taught == UNION {{l \in keys[p] : l.id \in Lessons /\ RegistryMatches(l, p)} :
                                    p \in {q \in PackVersions : keys[q] # NoFile}}
            IN  \A s \in known \cup taught :
                    s.id = r.id /\ s.version = r.version => s.body = r.body

(* Every question of the pack a page has installed can be scored under     *)
(* that pack version (SYNC_PROTOCOL.md:219).                               *)
InstalledIsScorable ==
    installed # NoPack =>
        \A r \in installed.records :
            r.id \in Questions => IsScorable(r, installed.version)

(* A rebuild of the index leaves withdrawn content out                     *)
(* (DATA_SOURCE_REGISTRY.md:374).                                          *)
WithdrawnIsNotIndexed ==
    [][index' # index => \A r \in index' : ~IsWithdrawn(r.id)]_vars

(* Approved content is immutable at its version: no two published packs    *)
(* disagree about one (PEDAGOGY_SPEC.md:175).                              *)
ApprovedIsImmutable ==
    \A p, q \in PackVersions : IsPublished(p) /\ IsPublished(q) =>
        \A r \in PackContent(p), s \in PackContent(q) :
            r.id = s.id /\ r.version = s.version => r.body = s.body

=============================================================================
