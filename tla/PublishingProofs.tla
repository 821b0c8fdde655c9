---------------------------- MODULE PublishingProofs ----------------------------
(***************************************************************************)
(* Proofs about Publishing, for any content, catalogs and number of packs: *)
(* what is published was reviewed and is whole, and a version of a         *)
(* question or lesson has one body wherever a learner meets it.            *)
(***************************************************************************)
EXTENDS Publishing, TLAPS

Versions == {r.version : r \in UNION Catalogs}
LedgerRow == [record: Records, approved: BOOLEAN]
File == {NoFile} \cup SUBSET Records
Pack == [items: File, lessons: File, manifest: File]
Build == [records: SUBSET Records, version: PackVersions,
          left: {<<>>, <<"manifest">>, <<"lessons", "manifest">>,
                 <<"items", "lessons", "manifest">>}]
ItemRow == [version: Versions, body: Bodies, withdrawn: BOOLEAN]
Registry == [items: [Ids -> ItemRow \cup {NoRow}], versions: SUBSET Records,
             pack: PackVersions \cup {NoPack}, members: [Ids -> Versions \cup {NoRow}]]

OneEach(R) == \A r, s \in R : r.id = s.id => r = s

\* The directories: what was validated, signed, and is being built.
FilesOK ==
    /\ catalog \in SUBSET Records /\ OneEach(catalog)
    /\ ledger \in [Ids -> LedgerRow \cup {NoRow}]
    /\ \A id \in Ids : \A r \in Records :
          ledger[id] = [record |-> r, approved |-> TRUE] => r \in signed
    /\ release \in PackVersions
    /\ packs \in [PackVersions -> Pack]
    /\ building \in Build

\* A build in progress is of reviewed records, of a version that has no manifest, and
\* has written the files before those it has left.
BuildingOK ==
    building.left # <<>> =>
        LET pack == packs[building.version] IN
        /\ building.records \subseteq signed /\ OneEach(building.records)
        /\ pack.manifest = NoFile
        /\ building.left \in {<<"manifest">>, <<"lessons", "manifest">>}
              => pack.items = PackFile(building.records, "items")
        /\ building.left = <<"manifest">>
              => pack.lessons = PackFile(building.records, "lessons")

PacksOK ==
    /\ NothingHalfPublished
    /\ \A p \in PackVersions : IsPublished(p) =>
          packs[p].manifest \subseteq signed /\ OneEach(packs[p].manifest)

\* A pack the registry has all the content of.
Known(p) == IsPublished(p) /\ PackContent(p) \subseteq registry.versions

RegistryOK ==
    /\ registry \in Registry
    /\ registry.versions \subseteq signed
    /\ \A r, s \in registry.versions : r.id = s.id /\ r.version = s.version => r = s
    /\ registry.pack # NoPack => Known(registry.pack)
    /\ indexing \in PackVersions \cup {NoPack} /\ (indexing # NoPack => Known(indexing))
    /\ index \subseteq registry.versions

\* What the server process and the page hold comes from the packs and the registry.
ReadersOK ==
    /\ \A p \in PackVersions : keys[p] # NoFile => IsPublished(p) /\ keys[p] = PackContent(p)
    /\ cached \in [PackVersions -> File]
    /\ \A p \in PackVersions : cached[p] # NoFile => cached[p] \subseteq registry.versions
    /\ installed # NoPack => /\ installed.version \in PackVersions
                             /\ Known(installed.version)
                             /\ installed.records \subseteq registry.versions

Inv == FilesOK /\ BuildingOK /\ PacksOK /\ RegistryOK /\ ReadersOK

LEMMA ContentOfRecords ==
  ASSUME FilesOK, NEW p \in PackVersions
  PROVE  PackContent(p) \in SUBSET Records
BY DEF FilesOK, PackContent, Pack, File

LEMMA SameRecord ==
  ASSUME NEW r \in Records, NEW s \in Records, r.id = s.id, r.version = s.version,
         r.body = s.body
  PROVE  r = s
BY DEF Records

LEMMA InvInit == Init => Inv
<1>. SUFFICES ASSUME Init PROVE Inv
  OBVIOUS
<1>1. \A p \in PackVersions : ~IsPublished(p)
  BY DEF Init, IsPublished
<1>2. 1 \in PackVersions
  BY BoundsAreNaturals DEF PackVersions
<1>3. FilesOK
  <2>1. catalog \in SUBSET Records /\ OneEach(catalog) /\ release \in PackVersions
    BY <1>2 DEF Init, OneEach
  <2>2. ledger \in [Ids -> LedgerRow \cup {NoRow}]
    BY DEF Init
  <2>3. \A id \in Ids : \A r \in Records : ledger[id] # [record |-> r, approved |-> TRUE]
    <3>1. \A r \in Records : [record |-> r, approved |-> TRUE] \in [record: Records, approved: BOOLEAN]
      OBVIOUS
    <3>2. \A r \in Records : [record |-> r, approved |-> TRUE] # NoRow
      BY <3>1, NothingIsNoContent
    <3>. QED  BY <3>2 DEF Init
  <2>4. packs \in [PackVersions -> Pack]
    BY DEF Init, Pack, File
  <2>5. building \in Build
    BY <1>2 DEF Init, Build
  <2>. QED  BY <2>1, <2>2, <2>3, <2>4, <2>5 DEF FilesOK
<1>4. BuildingOK /\ PacksOK
  BY <1>1 DEF Init, BuildingOK, PacksOK, NothingHalfPublished
<1>5. RegistryOK /\ ReadersOK
  BY DEF Init, RegistryOK, Registry, ReadersOK, File
<1>. QED  BY <1>3, <1>4, <1>5 DEF Inv

\* A step that leaves the published packs and all readers alone.
LEMMA ReadersKept ==
  ASSUME Inv, signed \subseteq signed', UNCHANGED <<server, keys, page>>,
         \A p \in PackVersions : IsPublished(p) => packs'[p] = packs[p]
  PROVE  RegistryOK' /\ ReadersOK'
<1>1. \A p \in PackVersions : Known(p) => Known(p)'
  BY DEF Known, IsPublished, PackContent, server
<1>2. RegistryOK'
  <2>1. UNCHANGED <<registry, indexing, index>>
    BY DEF server
  <2>2. registry.pack \in PackVersions \cup {NoPack}
    BY DEF Inv, RegistryOK, Registry
  <2>. QED  BY <1>1, <2>1, <2>2 DEF Inv, RegistryOK
<1>3. ReadersOK'
  <2>1. UNCHANGED <<registry, keys, installed, cached>>
    BY DEF server, page
  <2>2. \A p \in PackVersions : IsPublished(p) => IsPublished(p)' /\ PackContent(p)' = PackContent(p)
    BY DEF IsPublished, PackContent
  <2>. QED  BY <1>1, <2>1, <2>2 DEF Inv, ReadersOK
<1>. QED  BY <1>2, <1>3

LEMMA DraftingInv ==
  ASSUME Inv, UNCHANGED <<release, packs, building, server, keys, page, signed, ledger>>,
         catalog' \in SUBSET Records, OneEach(catalog')
  PROVE  Inv'
<1>1. FilesOK'
  BY DEF Inv, FilesOK
<1>2. BuildingOK' /\ PacksOK'
  BY DEF Inv, BuildingOK, PacksOK, NothingHalfPublished, IsPublished, PackContent
<1>3. RegistryOK' /\ ReadersOK'
  BY ReadersKept
<1>. QED  BY <1>1, <1>2, <1>3 DEF Inv

LEMMA RewriteInv ==
  ASSUME Inv, NEW r \in catalog, RewriteValidated(r)
  PROVE  Inv'
<1>1. PICK body \in Bodies : catalog' = (catalog \ {r}) \cup {[r EXCEPT !.body = body]}
  BY DEF RewriteValidated
<1>. DEFINE new == [r EXCEPT !.body = body]
<1>2. catalog \in SUBSET Records /\ OneEach(catalog) /\ r \in Records
  BY DEF Inv, FilesOK
<1>3. new \in Records /\ new.id = r.id
  BY <1>2 DEF Records
<1>4. catalog' \in SUBSET Records /\ OneEach(catalog')
  <2>1. catalog' = (catalog \ {r}) \cup {new}
    BY <1>1
  <2>. HIDE DEF new
  <2>. QED  BY <1>2, <1>3, <2>1 DEF OneEach
<1>. QED  BY <1>4, DraftingInv DEF RewriteValidated

\* The ledger changes: a row is approved only by the reviewers.
LEMMA LedgerInv ==
  ASSUME Inv, UNCHANGED <<catalog, release, packs, building, server, keys, page>>,
         ledger' \in [Ids -> LedgerRow \cup {NoRow}], signed \subseteq signed',
         \A id \in Ids : \A r \in Records :
            ledger'[id] = [record |-> r, approved |-> TRUE] => r \in signed'
  PROVE  Inv'
<1>1. FilesOK'
  BY DEF Inv, FilesOK
<1>2. BuildingOK' /\ PacksOK'
  BY DEF Inv, BuildingOK, PacksOK, NothingHalfPublished, IsPublished, PackContent, PackFile
<1>3. RegistryOK' /\ ReadersOK'
  BY ReadersKept
<1>. QED  BY <1>1, <1>2, <1>3 DEF Inv

LEMMA TemplateInv == ASSUME Inv, WriteReviewTemplate PROVE Inv'
<1>1. catalog \in SUBSET Records
  BY DEF Inv, FilesOK
<1>2. ASSUME NEW id \in Ids
      PROVE  /\ ledger'[id] \in LedgerRow \cup {NoRow}
             /\ ledger'[id] # NoRow => ledger'[id].approved = FALSE
  <2>1. CASE \E r \in catalog : r.id = id
    <3>. DEFINE r == CHOOSE r \in catalog : r.id = id
    <3>1. r \in Records
      BY <1>1, <2>1
    <3>. HIDE DEF r
    <3>2. ledger'[id] = [record |-> r, approved |-> FALSE]
      BY <2>1 DEF WriteReviewTemplate, r
    <3>. QED  BY <3>1, <3>2 DEF LedgerRow
  <2>2. CASE ~\E r \in catalog : r.id = id
    BY <2>2 DEF WriteReviewTemplate
  <2>. QED  BY <2>1, <2>2
<1>3. ledger' \in [Ids -> LedgerRow \cup {NoRow}]
  <2>1. ledger' = [id \in Ids |-> ledger'[id]]
    BY DEF WriteReviewTemplate
  <2>. QED  BY <1>2, <2>1
<1>4. ASSUME NEW id \in Ids, NEW r \in Records PROVE ledger'[id] # [record |-> r, approved |-> TRUE]
  <2>1. [record |-> r, approved |-> TRUE] \in [record: Records, approved: BOOLEAN]
    OBVIOUS
  <2>2. [record |-> r, approved |-> TRUE] # NoRow /\ [record |-> r, approved |-> TRUE].approved = TRUE
    BY <2>1, NothingIsNoContent
  <2>3. ledger'[id] = NoRow \/ ledger'[id].approved = FALSE
    BY <1>2
  <2>. QED  BY <2>2, <2>3
<1>. QED  BY <1>3, <1>4, LedgerInv DEF WriteReviewTemplate

LEMMA SignInv ==
  ASSUME Inv, NEW id \in Ids, Sign(id)
  PROVE  Inv'
<1>1. ledger \in [Ids -> LedgerRow \cup {NoRow}] /\ ledger[id] \in LedgerRow
  BY DEF Inv, FilesOK, Sign
<1>2. /\ ledger' = [ledger EXCEPT ![id].approved = TRUE]
      /\ signed' = signed \cup {ledger[id].record}
  BY DEF Sign
<1>3. /\ ledger'[id] \in LedgerRow /\ ledger'[id].record = ledger[id].record
      /\ \A other \in Ids \ {id} : ledger'[other] = ledger[other]
  BY <1>1, <1>2 DEF LedgerRow
<1>4. ledger' \in [Ids -> LedgerRow \cup {NoRow}]
  BY <1>1, <1>2, <1>3
<1>5. \A other \in Ids : \A r \in Records :
         ledger'[other] = [record |-> r, approved |-> TRUE] => r \in signed'
  BY <1>2, <1>3 DEF Inv, FilesOK
<1>. QED  BY <1>2, <1>4, <1>5, LedgerInv DEF Sign

--------------------------------------------------------------------------------
LEMMA StartBuildInv == ASSUME Inv, StartBuild PROVE Inv'
<1>1. building' = [records |-> catalog, version |-> release,
                   left |-> <<"items", "lessons", "manifest">>]
  BY DEF StartBuild, PackFiles
<1>2. FilesOK'
  BY <1>1 DEF StartBuild, Inv, FilesOK, Build
<1>3. catalog \subseteq signed
  <2>1. \A r \in catalog : r \in Records /\ r.id \in Ids
    BY DEF Inv, FilesOK, Records
  <2>. QED  BY <2>1 DEF StartBuild, IsApproved, Inv, FilesOK
<1>4. BuildingOK'
  BY <1>1, <1>3 DEF StartBuild, Inv, FilesOK, BuildingOK
<1>5. PacksOK'
  BY DEF StartBuild, Inv, PacksOK, NothingHalfPublished, IsPublished, PackContent
<1>6. RegistryOK' /\ ReadersOK'
  BY ReadersKept DEF StartBuild
<1>. QED  BY <1>2, <1>4, <1>5, <1>6 DEF Inv

LEMMA StopInv == ASSUME Inv, StopBuild \/ BumpRelease PROVE Inv'
<1>1. building' \in Build /\ building'.left = <<>>
  BY DEF StopBuild, BumpRelease, Inv, FilesOK, Build
<1>2. release' \in PackVersions
  BY BoundsAreNaturals DEF StopBuild, BumpRelease, Inv, FilesOK, PackVersions
<1>3. UNCHANGED <<catalog, ledger, packs, server, keys, page, signed>>
  BY DEF StopBuild, BumpRelease
<1>4. FilesOK' /\ BuildingOK'
  BY <1>1, <1>2, <1>3 DEF Inv, FilesOK, BuildingOK
<1>5. PacksOK'
  BY <1>3 DEF Inv, PacksOK, NothingHalfPublished, IsPublished, PackContent
<1>6. RegistryOK' /\ ReadersOK'
  BY <1>3, ReadersKept
<1>. QED  BY <1>4, <1>5, <1>6 DEF Inv

\* The files of a pack hold its records, each of one kind.
LEMMA FilesMakePack ==
  ASSUME NEW R \in SUBSET Records
  PROVE  /\ PackFile(R, "items") \in SUBSET Records /\ PackFile(R, "lessons") \in SUBSET Records
         /\ PackFile(R, "manifest") = R
         /\ PackFile(R, "items") \cup PackFile(R, "lessons") = R
BY DEF PackFile, Records, Ids

\* The files a build has left, and how they tell its stages apart.
LEMMA LeftFacts ==
  /\ <<"manifest">> # <<>> /\ <<"manifest">> # <<"lessons", "manifest">>
  /\ <<"manifest">> # <<"items", "lessons", "manifest">>
  /\ <<"lessons", "manifest">> # <<"items", "lessons", "manifest">>
  /\ Head(<<"manifest">>) = "manifest" /\ Tail(<<"manifest">>) = <<>>
  /\ Head(<<"lessons", "manifest">>) = "lessons"
  /\ Tail(<<"lessons", "manifest">>) = <<"manifest">>
  /\ Head(<<"items", "lessons", "manifest">>) = "items"
  /\ Tail(<<"items", "lessons", "manifest">>) = <<"lessons", "manifest">>
<1>1. /\ Len(<<"manifest">>) = 1 /\ Len(<<"lessons", "manifest">>) = 2
      /\ Len(<<"items", "lessons", "manifest">>) = 3 /\ Len(<<>>) = 0
  OBVIOUS
<1>2. /\ Head(<<"manifest">>) = "manifest" /\ Tail(<<"manifest">>) = <<>>
      /\ Head(<<"lessons", "manifest">>) = "lessons"
      /\ Head(<<"items", "lessons", "manifest">>) = "items"
  OBVIOUS
<1>3. Tail(<<"lessons", "manifest">>) = <<"manifest">>
  OBVIOUS
<1>4. Tail(<<"items", "lessons", "manifest">>) = <<"lessons", "manifest">>
  OBVIOUS
<1>. QED  BY <1>1, <1>2, <1>3, <1>4

LEMMA WriteFileInv == ASSUME Inv, WritePackFile PROVE Inv'
<1>0. PICK v, R, name : v = building.version /\ R = building.records /\ name = Head(building.left)
  OBVIOUS
<1>. DEFINE pack == [packs[v] EXCEPT ![name] = PackFile(R, name)]
<1>1. /\ building \in Build /\ building.left # <<>> /\ v \in PackVersions /\ R \in SUBSET Records
      /\ packs \in [PackVersions -> Pack] /\ packs[v] \in Pack
  BY <1>0 DEF WritePackFile, Inv, FilesOK, Build
<1>2. packs' = [packs EXCEPT ![v] = pack] /\ building' = [building EXCEPT !.left = Tail(@)]
  BY <1>0, <1>1 DEF WritePackFile
<1>3. /\ packs[v].manifest = NoFile /\ R \subseteq signed /\ OneEach(R)
      /\ building.left \in {<<"manifest">>, <<"lessons", "manifest">>}
            => packs[v].items = PackFile(R, "items")
      /\ building.left = <<"manifest">> => packs[v].lessons = PackFile(R, "lessons")
  BY <1>0, <1>1 DEF Inv, BuildingOK
<1>4. \/ name = "items" /\ building.left = <<"items", "lessons", "manifest">>
         /\ Tail(building.left) = <<"lessons", "manifest">>
      \/ name = "lessons" /\ building.left = <<"lessons", "manifest">>
         /\ Tail(building.left) = <<"manifest">>
      \/ name = "manifest" /\ building.left = <<"manifest">> /\ Tail(building.left) = <<>>
  <2>1. building.left \in {<<"manifest">>, <<"lessons", "manifest">>, <<"items", "lessons", "manifest">>}
    BY <1>1 DEF Build
  <2>. QED  BY <1>0, <2>1, LeftFacts
<1>5. /\ building' \in Build /\ building'.left = Tail(building.left)
      /\ building'.version = v /\ building'.records = R
  BY <1>0, <1>1, <1>2, <1>4 DEF Build
<1>6. /\ pack \in Pack
      /\ pack.items = (IF name = "items" THEN PackFile(R, "items") ELSE packs[v].items)
      /\ pack.lessons = (IF name = "lessons" THEN PackFile(R, "lessons") ELSE packs[v].lessons)
      /\ pack.manifest = (IF name = "manifest" THEN R ELSE NoFile)
  BY <1>1, <1>3, <1>4, FilesMakePack DEF Pack, File
<1>7. packs'[v] = pack /\ \A p \in PackVersions \ {v} : packs'[p] = packs[p]
  BY <1>1, <1>2
<1>. HIDE DEF pack
<1>8. FilesOK'
  BY <1>1, <1>2, <1>5, <1>6 DEF WritePackFile, Inv, FilesOK
<1>9. BuildingOK'
  <2>1. CASE name = "items" /\ building'.left = <<"lessons", "manifest">>
    BY <1>3, <1>5, <1>6, <1>7, <2>1, LeftFacts DEF WritePackFile, BuildingOK
  <2>2. CASE /\ name = "lessons" /\ building.left = <<"lessons", "manifest">>
             /\ building'.left = <<"manifest">>
    BY <1>3, <1>5, <1>6, <1>7, <2>2, LeftFacts DEF WritePackFile, BuildingOK
  <2>3. CASE building'.left = <<>>
    BY <2>3 DEF BuildingOK
  <2>. QED  BY <1>4, <1>5, <2>1, <2>2, <2>3
<1>10. PacksOK'
  <2>1. ASSUME NEW p \in PackVersions \ {v}, IsPublished(p)'
        PROVE  /\ packs'[p].items # NoFile /\ packs'[p].lessons # NoFile
               /\ PackContent(p)' = packs'[p].manifest
               /\ packs'[p].manifest \subseteq signed' /\ OneEach(packs'[p].manifest)
    BY <1>7, <2>1 DEF WritePackFile, Inv, PacksOK, NothingHalfPublished, IsPublished, PackContent
  <2>2. ASSUME IsPublished(v)'
        PROVE  /\ packs'[v].items # NoFile /\ packs'[v].lessons # NoFile
               /\ PackContent(v)' = packs'[v].manifest
               /\ packs'[v].manifest \subseteq signed' /\ OneEach(packs'[v].manifest)
    <3>1. name = "manifest" /\ building.left = <<"manifest">>
      BY <1>4, <1>6, <1>7, <2>2 DEF IsPublished
    <3>2. /\ packs'[v].items = PackFile(R, "items") /\ packs'[v].lessons = PackFile(R, "lessons")
          /\ packs'[v].manifest = R
      BY <1>3, <1>6, <1>7, <3>1
    <3>3. PackFile(R, "items") # NoFile /\ PackFile(R, "lessons") # NoFile
      BY <1>1, FilesMakePack, NothingIsNoContent
    <3>4. PackContent(v)' = R
      <4>1. PackContent(v)' =
               (IF packs'[v].items = NoFile THEN {} ELSE packs'[v].items)
               \cup (IF packs'[v].lessons = NoFile THEN {} ELSE packs'[v].lessons)
        BY DEF PackContent
      <4>. QED  BY <1>1, <3>2, <3>3, <4>1, FilesMakePack
    <3>5. signed' = signed
      BY DEF WritePackFile
    <3>. QED  BY <1>3, <3>2, <3>3, <3>4, <3>5
  <2>. QED  BY <2>1, <2>2 DEF PacksOK, NothingHalfPublished
<1>11. RegistryOK' /\ ReadersOK'
  <2>1. \A p \in PackVersions : IsPublished(p) => packs'[p] = packs[p]
    BY <1>3, <1>7 DEF IsPublished
  <2>. QED  BY <2>1, ReadersKept DEF WritePackFile
<1>. QED  BY <1>8, <1>9, <1>10, <1>11 DEF Inv

--------------------------------------------------------------------------------
\* Steps that leave the directories alone.
LEMMA FilesKept ==
  ASSUME Inv, UNCHANGED <<files, signed>>
  PROVE  FilesOK' /\ BuildingOK' /\ PacksOK'
         /\ \A p \in PackVersions : IsPublished(p)' = IsPublished(p)
                                    /\ PackContent(p)' = PackContent(p)
BY DEF files, Inv, FilesOK, BuildingOK, PacksOK, NothingHalfPublished, IsPublished, PackContent,
       bounded

LEMMA ImportInv ==
  ASSUME Inv, NEW p \in PackVersions, Import(p)
  PROVE  Inv'
<1>. DEFINE new == PackContent(p)
            Has(id) == \E r \in new : r.id = id
            Of(id) == CHOOSE r \in new : r.id = id
            added == {r \in new : ~\E s \in registry.versions : s.id = r.id /\ s.version = r.version}
<1>1. /\ new \in SUBSET Records /\ new \subseteq signed /\ OneEach(new)
      /\ IsPublished(p) /\ ~HasConflict(p)
  BY ContentOfRecords DEF Import, Inv, PacksOK, NothingHalfPublished
<1>2. /\ registry \in Registry /\ registry.versions \in SUBSET Records
      /\ registry.versions \subseteq signed
  BY DEF Inv, RegistryOK, Registry
<1>3. registry' = [items |-> [id \in Ids |->
                       IF Has(id) THEN [version |-> Of(id).version, body |-> Of(id).body,
                                        withdrawn |-> IsWithdrawn(id)]
                       ELSE registry.items[id]],
                   versions |-> registry.versions \cup added,
                   pack |-> p,
                   members |-> [id \in Ids |-> IF Has(id) THEN Of(id).version
                                               ELSE registry.members[id]]]
  BY DEF Import
<1>4. registry' \in Registry
  <2>1. ASSUME NEW id \in Ids, Has(id)
        PROVE  Of(id).version \in Versions /\ Of(id).body \in Bodies
    <3>1. Of(id) \in Records
      BY <1>1, <2>1
    <3>. QED  BY <3>1 DEF Records, Versions
  <2>2. \A id \in Ids : IsWithdrawn(id) \in BOOLEAN
    BY <1>2 DEF IsWithdrawn, Registry, ItemRow
  <2>3. added \in SUBSET Records
    BY <1>1
  <2>. HIDE DEF new, Has, Of, added
  <2>4. [id \in Ids |-> IF Has(id) THEN [version |-> Of(id).version, body |-> Of(id).body,
                                         withdrawn |-> IsWithdrawn(id)]
                        ELSE registry.items[id]] \in [Ids -> ItemRow \cup {NoRow}]
    BY <1>2, <2>1, <2>2 DEF ItemRow, Registry
  <2>5. [id \in Ids |-> IF Has(id) THEN Of(id).version ELSE registry.members[id]]
           \in [Ids -> Versions \cup {NoRow}]
    BY <1>2, <2>1 DEF Registry
  <2>. QED  BY <1>2, <1>3, <2>3, <2>4, <2>5 DEF Registry
<1>5. registry'.versions = registry.versions \cup added /\ registry'.pack = p
  BY <1>3
<1>. HIDE DEF Has, Of
<1>6. new \subseteq registry'.versions
  <2>1. ASSUME NEW r \in new, r \notin added PROVE r \in registry.versions
    <3>1. PICK s \in registry.versions : s.id = r.id /\ s.version = r.version
      BY <2>1
    <3>2. r.body = s.body
      BY <1>1, <3>1 DEF HasConflict
    <3>3. r = s
      BY <1>1, <1>2, <3>1, <3>2, SameRecord
    <3>. QED  BY <3>3
  <2>. QED  BY <1>5, <2>1
<1>7. /\ registry'.versions \subseteq signed
      /\ \A r, s \in registry'.versions : r.id = s.id /\ r.version = s.version => r = s
  BY <1>1, <1>2, <1>5 DEF Inv, RegistryOK, OneEach
<1>. HIDE DEF added
<1>8. UNCHANGED <<files, index, keys, page, signed>> /\ indexing' = p
  BY DEF Import
<1>9. /\ FilesOK' /\ BuildingOK' /\ PacksOK'
      /\ \A q \in PackVersions : IsPublished(q)' = IsPublished(q) /\ PackContent(q)' = PackContent(q)
  BY <1>8, FilesKept
<1>10. (\A q \in PackVersions : Known(q) => Known(q)') /\ Known(p)'
  BY <1>1, <1>5, <1>6, <1>9 DEF Known
<1>11. RegistryOK'
  BY <1>4, <1>5, <1>7, <1>8, <1>10 DEF Inv, RegistryOK
<1>12. ReadersOK'
  <2>1. UNCHANGED <<keys, installed, cached>>
    BY <1>8 DEF page
  <2>. QED  BY <1>5, <1>9, <1>10, <2>1 DEF Inv, ReadersOK
<1>. QED  BY <1>9, <1>11, <1>12 DEF Inv

LEMMA IndexInv == ASSUME Inv, IndexPack \/ StopBeforeIndex PROVE Inv'
<1>1. UNCHANGED <<files, registry, keys, page, signed>> /\ indexing' = NoPack
  BY DEF IndexPack, StopBeforeIndex
<1>2. index' \subseteq registry.versions
  BY DEF IndexPack, StopBeforeIndex, Inv, RegistryOK, Known
<1>3. /\ FilesOK' /\ BuildingOK' /\ PacksOK'
      /\ \A q \in PackVersions : IsPublished(q)' = IsPublished(q) /\ PackContent(q)' = PackContent(q)
  BY <1>1, FilesKept
<1>4. \A q \in PackVersions : Known(q)' = Known(q)
  BY <1>1, <1>3 DEF Known
<1>5. RegistryOK'
  BY <1>1, <1>2, <1>4 DEF Inv, RegistryOK, Registry
<1>6. ReadersOK'
  BY <1>1, <1>3, <1>4 DEF Inv, ReadersOK, page
<1>. QED  BY <1>3, <1>5, <1>6 DEF Inv

LEMMA WithdrawInv ==
  ASSUME Inv, NEW id \in Ids, Withdraw(id)
  PROVE  Inv'
<1>1. registry \in Registry /\ registry.items[id] \in ItemRow
  BY DEF Withdraw, Inv, RegistryOK, Registry
<1>2. registry' \in Registry /\ registry'.versions = registry.versions
      /\ registry'.pack = registry.pack
  BY <1>1 DEF Withdraw, Registry, ItemRow
<1>3. UNCHANGED <<files, indexing, index, keys, page, signed>>
  BY DEF Withdraw
<1>4. /\ FilesOK' /\ BuildingOK' /\ PacksOK'
      /\ \A q \in PackVersions : IsPublished(q)' = IsPublished(q) /\ PackContent(q)' = PackContent(q)
  BY <1>3, FilesKept
<1>5. \A q \in PackVersions : Known(q)' = Known(q)
  BY <1>2, <1>4 DEF Known
<1>6. RegistryOK'
  BY <1>1, <1>2, <1>3, <1>5 DEF Inv, RegistryOK, Registry
<1>7. ReadersOK'
  BY <1>2, <1>3, <1>4, <1>5 DEF Inv, ReadersOK, page
<1>. QED  BY <1>4, <1>6, <1>7 DEF Inv

LEMMA ReadInv ==
  ASSUME Inv, UNCHANGED <<files, server, signed>>, ReadersOK'
  PROVE  Inv'
<1>1. /\ FilesOK' /\ BuildingOK' /\ PacksOK'
      /\ \A q \in PackVersions : IsPublished(q)' = IsPublished(q) /\ PackContent(q)' = PackContent(q)
  BY FilesKept
<1>2. UNCHANGED <<registry, indexing, index>>
  BY DEF server
<1>3. \A q \in PackVersions : Known(q)' = Known(q)
  BY <1>1, <1>2 DEF Known
<1>4. RegistryOK'
  BY <1>2, <1>3 DEF Inv, RegistryOK, Registry
<1>. QED  BY <1>1, <1>4 DEF Inv

LEMMA KeyInv ==
  ASSUME Inv, RestartServer \/ \E p \in PackVersions : LoadKey(p)
  PROVE  Inv'
<1>1. UNCHANGED <<files, server, page, signed>>
  BY DEF RestartServer, LoadKey
<1>2. \A q \in PackVersions : /\ IsPublished(q)' = IsPublished(q)
                              /\ PackContent(q)' = PackContent(q) /\ Known(q)' = Known(q)
  BY <1>1, FilesKept DEF Known, server
<1>3. ASSUME NEW q \in PackVersions, keys'[q] # NoFile
      PROVE  IsPublished(q) /\ keys'[q] = PackContent(q)
  <2>1. CASE RestartServer
    BY <1>3, <2>1 DEF RestartServer
  <2>2. ASSUME NEW p \in PackVersions, LoadKey(p)
        PROVE  IsPublished(q) /\ keys'[q] = PackContent(q)
    BY <1>3, <2>2 DEF LoadKey, Inv, ReadersOK
  <2>. QED  BY <2>1, <2>2
<1>4. ReadersOK'
  BY <1>1, <1>2, <1>3 DEF Inv, ReadersOK, page, server
<1>. QED  BY <1>1, <1>4, ReadInv

LEMMA InstallInv == ASSUME Inv, InstallPack PROVE Inv'
<1>. DEFINE v == registry.pack
            response == IF cached[v] # NoFile THEN cached[v] ELSE Served
<1>1. v \in PackVersions /\ Known(v)
  BY DEF InstallPack, Inv, RegistryOK, Registry
<1>2. /\ response \subseteq registry.versions /\ registry.versions \in SUBSET Records
      /\ cached \in [PackVersions -> File]
  BY <1>1 DEF Inv, RegistryOK, Registry, ReadersOK, Served
<1>3. /\ installed' = [version |-> v, records |-> response]
      /\ cached' = [cached EXCEPT ![v] = response]
      /\ UNCHANGED <<files, server, keys, signed>>
  BY DEF InstallPack
<1>. HIDE DEF response, v
<1>4. \A q \in PackVersions : /\ IsPublished(q)' = IsPublished(q)
                              /\ PackContent(q)' = PackContent(q) /\ Known(q)' = Known(q)
  BY <1>3, FilesKept DEF Known, server
<1>5. ReadersOK'
  BY <1>1, <1>2, <1>3, <1>4 DEF Inv, ReadersOK, File, server
<1>. QED  BY <1>3, <1>5, ReadInv

LEMMA EnrolInv == ASSUME Inv, EnrolAgain PROVE Inv'
<1>1. UNCHANGED <<files, server, keys, cached, signed>> /\ installed' = NoPack
  BY DEF EnrolAgain
<1>2. \A q \in PackVersions : /\ IsPublished(q)' = IsPublished(q)
                              /\ PackContent(q)' = PackContent(q)
  BY <1>1, FilesKept
<1>3. ReadersOK'
  BY <1>1, <1>2 DEF Inv, ReadersOK, server
<1>. QED  BY <1>1, <1>3, ReadInv

LEMMA InvStep == Inv /\ [Next]_vars => Inv'
<1>. SUFFICES ASSUME Inv, [Next]_vars PROVE Inv'
  OBVIOUS
<1>1. ASSUME NEW c \in Catalogs, Validate(c) PROVE Inv'
  <2>1. catalog' \in SUBSET Records /\ OneEach(catalog')
    BY <1>1, CatalogsOfRecords DEF Validate, OneEach
  <2>. QED  BY <1>1, <2>1, DraftingInv DEF Validate
<1>2. CASE UNCHANGED vars
  <2>1. UNCHANGED <<files, server, signed, keys, page>>
    BY <1>2 DEF vars
  <2>2. ReadersOK'
    BY <2>1, ReadersKept DEF files, Inv
  <2>. QED  BY <2>1, <2>2, ReadInv
<1>. QED
  BY <1>1, <1>2, RewriteInv, TemplateInv, SignInv, StartBuildInv, WriteFileInv, StopInv,
     ImportInv, IndexInv, WithdrawInv, KeyInv, InstallInv, EnrolInv DEF Next

LEMMA SpecInv == Spec => []Inv
BY InvInit, InvStep, PTL DEF Spec

--------------------------------------------------------------------------------
\* Content reaches a pack, the registry, the index, a key or a page only as reviewed.
THEOREM OnlyReviewedIsPublished == Spec => []PublishedIsReviewed
<1>1. Inv => PublishedIsReviewed
  <2>. SUFFICES ASSUME Inv PROVE PublishedIsReviewed
    OBVIOUS
  <2>1. \A p \in PackVersions : IsPublished(p) => PackContent(p) \subseteq signed
    BY DEF Inv, PacksOK, NothingHalfPublished
  <2>. QED  BY <2>1 DEF Inv, RegistryOK, ReadersOK, PublishedIsReviewed
<1>. QED  BY <1>1, SpecInv, PTL

\* A pack with a manifest is whole, whatever build was stopped before it.
THEOREM PublishedIsWhole == Spec => []NothingHalfPublished
<1>1. Inv => NothingHalfPublished
  BY DEF Inv, PacksOK
<1>. QED  BY <1>1, SpecInv, PTL

\* A version of a question or lesson says the same to the learner, the scorer, the
\* registry and the index.
THEOREM VersionsHaveOneBody == Spec => []OneBodyPerVersion
<1>1. Inv => OneBodyPerVersion
  <2>. SUFFICES ASSUME Inv, installed # NoPack, NEW r \in installed.records
                PROVE  LET key == keys[installed.version]
                           known == registry.versions \cup index
                                       \cup (IF key = NoFile THEN {} ELSE key)
                           taught == UNION {{l \in keys[p] : l.id \in Lessons /\ RegistryMatches(l, p)} :
                                               p \in {q \in PackVersions : keys[q] # NoFile}}
                       IN  \A s \in known \cup taught :
                             s.id = r.id /\ s.version = r.version => s.body = r.body
    BY DEF OneBodyPerVersion
  <2>. DEFINE key == keys[installed.version]
              taught == UNION {{l \in keys[p] : l.id \in Lessons /\ RegistryMatches(l, p)} :
                                  p \in {q \in PackVersions : keys[q] # NoFile}}
  <2>1. r \in registry.versions /\ index \subseteq registry.versions
    BY DEF Inv, RegistryOK, ReadersOK
  <2>2. key # NoFile => key \subseteq registry.versions
    BY DEF Inv, ReadersOK, Known
  <2>3. taught \subseteq registry.versions
    BY DEF RegistryMatches
  <2>. HIDE DEF key, taught
  <2>4. \A s \in registry.versions \cup index \cup (IF key = NoFile THEN {} ELSE key) \cup taught :
           s \in registry.versions
    BY <2>1, <2>2, <2>3
  <2>. QED  BY <2>1, <2>4 DEF Inv, RegistryOK, key, taught
<1>. QED  BY <1>1, SpecInv, PTL
================================================================================
