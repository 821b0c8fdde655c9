---------------------------- MODULE MCIngestion ----------------------------
(***************************************************************************)
(* Ingestion for TLC: three sources with the candidates the rules tell     *)
(* apart.                                                                  *)
(***************************************************************************)
EXTENDS Ingestion

Row(id, source, text, words) ==
    [id |-> id, source |-> source, text |-> text, words |-> words, module |-> "other",
     skill |-> "none", hits |-> 0, rights |-> "other", sensitive |-> FALSE,
     substance |-> TRUE, traced |-> FALSE, parts |-> 2]

Linear(id, text, words) ==
    [Row(id, "deepmind", text, words) EXCEPT !.module = "linear", !.skill = "linear_equations"]

\* Left and Right share 16 of 17 words with Middle (94 in a hundred) and 15
\* of 17 with each other: what is kept depends on which comes first.
Middle == Linear(1, "solve b", 1 .. 17)
Left == Linear(2, "solve a", 1 .. 16)
Right == Linear(3, "solve c", 2 .. 17)
Chance == [Row(4, "deepmind", "draw a ball", 31 .. 36) EXCEPT !.module = "probability"]
Picture == [Row(5, "loc", "a map", {41, 42}) EXCEPT !.hits = 2, !.skill = "reading",
                !.rights = "public domain", !.traced = TRUE]
Letter == [Row(6, "loc", "a war letter", {43, 44}) EXCEPT !.sensitive = TRUE, !.traced = TRUE]
WordProblem == [Row(7, "gsm8k", "a percent problem", 51 .. 60) EXCEPT !.skill = "ratios"]
StoryProblem == [Row(8, "gsm8k", "a problem on history", 61 .. 70) EXCEPT !.hits = 1,
                     !.skill = "reading"]
Copied == [Row(9, "gsm8k", "solve b", 1 .. 17) EXCEPT !.skill = "none"]

ThreeSources ==
    [deepmind |-> {<<Left, Middle, Right, Chance>>, <<Middle, Left, Right>>},
     loc |-> {<<Picture, Letter>>},
     gsm8k |-> {<<WordProblem, StoryProblem>>}]

\* The publisher of the evaluation set has a question the generator also makes.
SharedQuestion ==
    [deepmind |-> {<<Middle>>}, gsm8k |-> {<<Copied>>}]

Statuses ==
    [deepmind |-> "candidate_generation_only", loc |-> "approved_with_item_review",
     gsm8k |-> "evaluation_only"]
TwoStatuses == [deepmind |-> "candidate_generation_only", gsm8k |-> "evaluation_only"]

OneOfLinear == [linear_equations |-> 1]
TwoOfLinear == [linear_equations |-> 2]

=============================================================================
