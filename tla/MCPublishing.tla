---------------------------- MODULE MCPublishing ----------------------------
(***************************************************************************)
(* Publishing for TLC: two questions and a lesson in two catalogs of the   *)
(* generator.                                                               *)
(***************************************************************************)
EXTENDS Publishing

Piece(id, version, body) == [id |-> id, version |-> version, body |-> body]

\* The second catalog has a new version of the question, the lesson as it
\* was, and no second question.
TwoCatalogs ==
    {{Piece("question", 1, "a"), Piece("extra", 1, "a"), Piece("lesson", 1, "a")},
     {Piece("question", 2, "b"), Piece("lesson", 1, "a")}}

\* Without the second question.
SmallCatalogs ==
    {{Piece("question", 1, "a"), Piece("lesson", 1, "a")},
     {Piece("question", 2, "b"), Piece("lesson", 1, "b")}}

=============================================================================
