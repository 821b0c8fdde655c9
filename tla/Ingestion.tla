----------------------------- MODULE Ingestion -----------------------------
(***************************************************************************)
(* The candidate pipeline in front of the content packs: governed sources  *)
(* are acquired into raw and staging files, one review run routes every    *)
(* candidate by writing a series of files, and the selection of candidates *)
(* to rewrite reads one of those files into a manifest that is immutable   *)
(* unless it is forced (app/ingestion, app/content_pipeline/selection.py). *)
(*                                                                         *)
(* A candidate is a record: the text it is identified by, the set of its   *)
(* words, and the facts the rules look at.  File order matters to the      *)
(* removal of duplicates, so a file is a sequence of rows.  Every script   *)
(* may stop between two files it writes.                                   *)
(***************************************************************************)
EXTENDS Integers, Sequences, FiniteSets, SequencesExt

CONSTANTS
    Upstream,      \* [source -> the files its publisher may offer (sequences of rows)]
    Configured,    \* [source -> the status config/sources.yaml gives it]
    SkillCounts,   \* [skill -> how many candidates a selection takes]
    NoFile,        \* what a file is before it is written
    MaxEdits,      \* bound: edits of the source registry
    MaxReviews     \* bound: review runs started

Sources == DOMAIN Upstream

ASSUME SourcesAreConfigured == DOMAIN Configured = Sources
ASSUME UpstreamAreFiles ==
    \A s \in Sources : \A file \in Upstream[s] :
        file \in Seq(Range(file)) /\ \A row \in Range(file) : row.source = s
ASSUME BoundsAreNaturals == MaxEdits \in Nat /\ MaxReviews \in Nat

(* Two rows are near duplicates from this similarity on (in hundredths),   *)
(* and only rows of at least this many words are compared.                 *)
NearDuplicate == 94
ComparedWords == 5

VARIABLES
    registry,   \* [source -> its status and whether its acquisition is enabled]
    raw,        \* [source -> the downloaded file]
    staging,    \* [source -> the candidate rows extracted from it]
    reviewed,   \* [output file of the review -> its rows]
    writing,    \* the files the running review has still to write
    manifest,   \* the selection manifest
    edits, reviews

vars == <<registry, raw, staging, reviewed, writing, manifest, edits, reviews>>

-----------------------------------------------------------------------------
(* Duplicates.                                                             *)

Similarity(r1, r2) ==
    IF r1.words = {} \/ r2.words = {} THEN 0
    ELSE (100 * Cardinality(r1.words \cap r2.words))
             \div Cardinality(r1.words \cup r2.words)

(* Exact duplicates are looked for among all the rows kept so far, near    *)
(* duplicates among those of the same source.                              *)
IsExactDuplicate(row, kept) == \E k \in Range(kept) : k.text = row.text

\* Mutant: a row is compared with the row kept last only.
IsNearLast(row, kept) ==
    /\ Cardinality(row.words) >= ComparedWords /\ kept # <<>>
    /\ Last(kept).source = row.source /\ Similarity(row, Last(kept)) >= NearDuplicate

IsNearDuplicate(row, kept) ==
    /\ Cardinality(row.words) >= ComparedWords
    /\ \E k \in Range(kept) :
          k.source = row.source /\ Similarity(row, k) >= NearDuplicate

KeepNew(kept, row) ==
    IF IsExactDuplicate(row, kept) \/ IsNearDuplicate(row, kept)
    THEN kept ELSE Append(kept, row)

Deduplicate(rows) == FoldLeft(KeepNew, <<>>, rows)

-----------------------------------------------------------------------------
(* The rules of the review: skill, licence, age, quality, route.           *)

ModuleRole ==
    [linear |-> "question_candidate", arithmetic |-> "prerequisite_candidate",
     probability |-> "out_of_scope_candidate", other |-> "unmapped_candidate"]

(* Confidences are in hundredths.  A row of another source is mapped by    *)
(* keywords before its source is looked at.                                *)
SkillMapping(row) ==
    IF row.source = "deepmind"
    THEN [role |-> ModuleRole[row.module], skill |-> row.skill,
          confidence |-> IF row.module = "other" THEN 0 ELSE 100]
    ELSE IF row.hits > 0
    THEN [role |-> "passage_or_multimodal_candidate", skill |-> row.skill,
          confidence |-> IF 45 + 15 * row.hits < 90 THEN 45 + 15 * row.hits ELSE 90]
    ELSE IF row.source = "gsm8k"
    THEN [role |-> "evaluation_item", skill |-> row.skill,
          confidence |-> IF row.skill = "none" THEN 25 ELSE 65]
    ELSE [role |-> "unmapped_candidate", skill |-> "none", confidence |-> 0]

LicenseDecision(row, status) ==
    CASE status \in {"reference_only", "prohibited"} -> "blocked"
      [] status = "candidate_generation_only" -> "clear_for_candidate_generation"
      [] status = "evaluation_only" -> "clear_for_isolated_evaluation"
      [] status = "approved" -> "source_approved_item_review_required"
      [] OTHER ->
           CASE row.rights = "placeholder" -> "insufficient_item_rights_evidence"
             [] row.rights = "public domain" -> "provisionally_clear_requires_human_confirmation"
             [] OTHER -> "manual_rights_review_required"

AgeDecision(row) ==
    IF row.source = "deepmind" THEN "clear_for_candidate_review"
    ELSE IF row.sensitive THEN "context_review_required"
    ELSE IF row.substance THEN "no_automated_flags"
    ELSE "insufficient_content_for_age_review"

(* round() of a number of hundredths: a half goes to the even neighbour.   *)
Rounded(hundredths) ==
    LET whole == hundredths \div 100
        rest == hundredths % 100
    IN  IF rest > 50 \/ (rest = 50 /\ whole % 2 = 1) THEN whole + 1 ELSE whole

LicensePoints ==
    [clear_for_candidate_generation |-> 18, clear_for_isolated_evaluation |-> 20,
     source_approved_item_review_required |-> 16,
     provisionally_clear_requires_human_confirmation |-> 14,
     manual_rights_review_required |-> 8, insufficient_item_rights_evidence |-> 3,
     blocked |-> 0]

AgePoints ==
    [clear_for_candidate_review |-> 10, no_automated_flags |-> 8,
     insufficient_content_for_age_review |-> 4, context_review_required |-> 4]

(* row.parts counts the content fields present, row.traced tells whether   *)
(* the row names its upstream item.  Every row here has an id, a hash, a   *)
(* title or none, and at least 20 characters.                              *)
QualityScore(row, status) ==
    LET points ==
            (IF row.traced THEN 15 ELSE 10)
            + (IF 5 + 5 * row.parts < 25 THEN 5 + 5 * row.parts ELSE 25)
            + Rounded(25 * SkillMapping(row).confidence)
            + LicensePoints[LicenseDecision(row, status)]
            + AgePoints[AgeDecision(row)] + 10
    IN  IF points < 100 THEN points ELSE 100

\* Mutant: the source is not asked about before the licence.
ReviewRouteByLicense(row, status) ==
    IF LicenseDecision(row, status) = "blocked" THEN "blocked"
    ELSE IF row.source = "deepmind" THEN "ready_for_rewrite"
    ELSE IF SkillMapping(row).role = "evaluation_item" THEN "evaluation_only"
    ELSE "manual_review_required"

(* The order of the rules matters: a blocked source first, then the        *)
(* evaluation set, then the generator source.                              *)
ReviewRoute(row, status) ==
    LET license == LicenseDecision(row, status)
        quality == QualityScore(row, status)
    IN  IF license = "blocked" THEN "blocked"
        ELSE IF row.source = "gsm8k" THEN "evaluation_only"
        ELSE IF row.source = "deepmind"
        THEN IF SkillMapping(row).role = "out_of_scope_candidate" THEN "hold_out_of_scope"
             ELSE IF quality >= 60 THEN "ready_for_rewrite" ELSE "manual_review_required"
        ELSE IF license = "provisionally_clear_requires_human_confirmation"
        THEN IF quality >= 55 THEN "priority_manual_review" ELSE "manual_review_required"
        ELSE IF AgeDecision(row) = "context_review_required" THEN "sensitive_context_review"
        ELSE "manual_review_required"

Routes == {"blocked", "evaluation_only", "hold_out_of_scope", "ready_for_rewrite",
           "manual_review_required", "priority_manual_review", "sensitive_context_review"}

-----------------------------------------------------------------------------
(* The source registry and the acquisition.                                *)

Restricted(s) == registry[s].status \in {"reference_only", "prohibited"}

RestrictionsHold == \A s \in Sources : Restricted(s) => ~registry[s].enabled

(* config/sources.yaml is edited by hand: a source is restricted, or put   *)
(* back, with its acquisition switched on or off.                          *)
EditSource(s) ==
    /\ edits < MaxEdits
    /\ \E status \in {Configured[s], "prohibited"}, enabled \in BOOLEAN :
          /\ [status |-> status, enabled |-> enabled] # registry[s]
          /\ registry' = [registry EXCEPT ![s] = [status |-> status, enabled |-> enabled]]
    /\ edits' = edits + 1
    /\ UNCHANGED <<raw, staging, reviewed, writing, manifest, reviews>>

(* A download leaves its destination alone when the file is there, and     *)
(* replaces it only when the whole file has arrived.                       *)
Downloaded(s, file) == IF raw[s] = NoFile THEN file ELSE raw[s]

(* One source of a run; what fails for it does not stop the others.  A     *)
(* restricted source that is enabled stops a run at its start.  The data   *)
(* file may arrive without the rest of the source's files ("complete"),    *)
(* and then no candidates are extracted.  The generator source has none to *)
(* extract.  The registry is read at the start of a run and not edited     *)
(* during one.                                                             *)
Acquire(s) ==
    /\ RestrictionsHold /\ registry[s].enabled
    /\ \E file \in Upstream[s], complete \in BOOLEAN :
          /\ raw' = [raw EXCEPT ![s] = Downloaded(s, file)]
          /\ staging' = IF complete /\ s # "deepmind"
                         THEN [staging EXCEPT ![s] = raw'[s]] ELSE staging
    /\ UNCHANGED <<registry, reviewed, writing, manifest, edits, reviews>>

(* The candidates of the generator source, made from its archive.          *)
GenerateCandidates ==
    /\ raw["deepmind"] # NoFile
    /\ staging' = [staging EXCEPT !["deepmind"] = raw["deepmind"]]
    /\ UNCHANGED <<registry, raw, reviewed, writing, manifest, edits, reviews>>

-----------------------------------------------------------------------------
(* The review.                                                             *)

RowsOf(file) == IF file = NoFile THEN <<>> ELSE file

(* Library of Congress rows are rebuilt from the raw file when there is one.*)
RefreshedStaging ==
    IF "loc" \in Sources /\ raw["loc"] # NoFile
    THEN [staging EXCEPT !["loc"] = raw["loc"]] ELSE staging

SourceRows(files, s) == IF s \in Sources THEN RowsOf(files[s]) ELSE <<>>

AcquiredRows(files) ==
    SourceRows(files, "deepmind") \o SourceRows(files, "gutenberg")
        \o SourceRows(files, "loc") \o SourceRows(files, "gsm8k")

\* What the review makes of a row, by the registry as it is.
Score(row) == QualityScore(row, registry[row.source].status)
Route(row) == ReviewRoute(row, registry[row.source].status)

(* Rows are listed by falling quality, and by id where it is the same.     *)
IsListedBefore(r1, r2) == \/ Score(r1) > Score(r2)
                          \/ Score(r1) = Score(r2) /\ r1.id < r2.id

Inserted(listed, row) ==
    LET ahead == {i \in DOMAIN listed : ~IsListedBefore(row, listed[i])}
    IN  InsertAt(listed, Cardinality(ahead) + 1, row)

Sorted(rows) == FoldLeft(Inserted, <<>>, rows)

(* The files a row of a route is listed in.                                *)
FilesOf(route) ==
    {"all-candidates", route}
        \cup (CASE route = "evaluation_only" -> {"evaluation-list"}
                [] route = "blocked" -> {"blocked-list"}
                [] OTHER -> {"review-queue"})

(* A file has a name and rows; the file of a route is there from the first *)
(* row on that takes it.                                                   *)
Filed(files, row) ==
    LET route == Route(row)
        opened == IF \E i \in DOMAIN files : files[i][1] = route
                  THEN files ELSE Append(files, <<route, <<>>>>)
    IN  [i \in DOMAIN opened |->
            IF opened[i][1] \in FilesOf(route)
            THEN <<opened[i][1], Append(opened[i][2], row)>> ELSE opened[i]]

(* The files of one review, in the order they are written.                 *)
Files == Routes \cup {"all-candidates", "review-queue", "evaluation-list", "blocked-list"}

NoRowsYet == << <<"all-candidates", <<>>>>, <<"review-queue", <<>>>>,
                <<"evaluation-list", <<>>>>, <<"blocked-list", <<>>>> >>

ReviewFiles(rows) == FoldLeft(Filed, NoRowsYet, Sorted(rows))

(* A run reads every staging file, removes duplicates and judges the rows  *)
(* by the registry as it is; then it writes its files one by one.          *)
BeginReview ==
    /\ writing = <<>> /\ reviews < MaxReviews
    /\ RestrictionsHold
    /\ staging' = RefreshedStaging
    /\ writing' = ReviewFiles(Deduplicate(AcquiredRows(RefreshedStaging)))
    /\ reviews' = reviews + 1
    /\ UNCHANGED <<registry, raw, reviewed, manifest, edits>>

WriteReviewFile ==
    /\ writing # <<>>
    /\ reviewed' = [reviewed EXCEPT ![Head(writing)[1]] = Head(writing)[2]]
    /\ writing' = Tail(writing)
    /\ UNCHANGED <<registry, raw, staging, manifest, edits, reviews>>

StopReview ==
    /\ writing # <<>>
    /\ writing' = <<>>
    /\ UNCHANGED <<registry, raw, staging, reviewed, manifest, edits, reviews>>

-----------------------------------------------------------------------------
(* The selection.                                                          *)

SelectionMatches(row) ==
    LET mapping == SkillMapping(row)
    IN  /\ row.source = "deepmind"
        /\ mapping.role = "question_candidate"
        /\ mapping.confidence = 100
        /\ mapping.skill \in DOMAIN SkillCounts

(* Rows of the route's file, which carry that route, in the order of skill *)
(* and id; the set is enough, as content ids are numbered in this order.   *)
Selection == {row \in Range(RowsOf(reviewed["ready_for_rewrite"])) : SelectionMatches(row)}

CountsAreExact(rows) ==
    \A skill \in DOMAIN SkillCounts :
        Cardinality({row \in rows : SkillMapping(row).skill = skill}) = SkillCounts[skill]

SelectCandidates(force) ==
    /\ reviewed["ready_for_rewrite"] # NoFile
    /\ CountsAreExact(Selection)
    /\ manifest = NoFile \/ force
    /\ manifest' = Selection
    /\ UNCHANGED <<registry, raw, staging, reviewed, writing, edits, reviews>>

-----------------------------------------------------------------------------
Init ==
    /\ registry = [s \in Sources |-> [status |-> Configured[s], enabled |-> TRUE]]
    /\ raw = [s \in Sources |-> NoFile]
    /\ staging = [s \in Sources |-> NoFile]
    /\ reviewed = [f \in Files |-> NoFile]
    /\ writing = <<>>
    /\ manifest = NoFile
    /\ edits = 0 /\ reviews = 0

Next ==
    \/ \E s \in Sources : EditSource(s)
    \/ \E s \in Sources : Acquire(s)
    \/ GenerateCandidates
    \/ BeginReview
    \/ WriteReviewFile
    \/ StopReview
    \/ \E force \in BOOLEAN : SelectCandidates(force)

Spec == Init /\ [][Next]_vars

-----------------------------------------------------------------------------
(* Properties.                                                             *)

(* Files have the rows publishers offer, the registry the configured or    *)
(* restricted statuses (registry.py, review.py).                           *)
Rows == UNION {Range(file) : file \in UNION Range(Upstream)}

TypeOK ==
    /\ registry \in [Sources -> [status : Range(Configured) \cup {"prohibited"},
                                 enabled : BOOLEAN]]
    /\ raw \in [Sources -> Seq(Rows) \cup {NoFile}]
    /\ staging \in [Sources -> Seq(Rows) \cup {NoFile}]
    /\ reviewed \in [Files -> Seq(Rows) \cup {NoFile}]
    /\ writing \in Seq(Files \X Seq(Rows))
    /\ manifest \in (SUBSET Rows) \cup {NoFile}
    /\ edits \in 0 .. MaxEdits /\ reviews \in 0 .. MaxReviews

(* Nothing of the evaluation set, whatever words its questions use, gets   *)
(* into the queue of candidates, a route towards student content, or the   *)
(* selection (DATA_ACQUISITION.md:67; the order of the rules in            *)
(* map_skill and route_record).                                            *)
EvaluationIsIsolated ==
    /\ \A f \in Files \ {"all-candidates", "evaluation-list", "evaluation_only",
                          "blocked-list", "blocked"} :
          \A row \in Range(RowsOf(reviewed[f])) : row.source # "gsm8k"
    /\ manifest # NoFile => \A row \in manifest : row.source # "gsm8k"

(* What a review keeps has no duplicate left in it, and what it drops is a *)
(* duplicate of something it keeps, although similarity is not transitive  *)
(* and rows are compared in file order (deduplicate).                      *)
DuplicatesAreRemoved ==
    LET rows == AcquiredRows(staging)
        kept == Deduplicate(rows)
    IN  /\ \A i, j \in DOMAIN kept : i < j =>
              ~IsExactDuplicate(kept[j], <<kept[i]>>) /\ ~IsNearDuplicate(kept[j], <<kept[i]>>)
        /\ \A row \in Range(rows) \ Range(kept) :
              IsExactDuplicate(row, kept) \/ IsNearDuplicate(row, kept)

(* A candidate is not on two lists of the review that exclude each other:  *)
(* what a review blocks is not, after it, still ready to be rewritten.     *)
BlockedIsNotReady ==
    writing = <<>> => Range(RowsOf(reviewed["blocked-list"]))
                        \cap Range(RowsOf(reviewed["ready_for_rewrite"])) = {}

(* Matches across sources are kept as evidence of contamination: every row *)
(* of the evaluation set that was acquired is on the evaluation list       *)
(* (the comment at review.py:279).                                         *)
ContaminationIsKept ==
    \A row \in Range(AcquiredRows(staging)) : row.source = "gsm8k" =>
        row \in Range(Deduplicate(AcquiredRows(staging)))

=============================================================================
