----------------------------- MODULE MCRetrieval -----------------------------
(* Instances of Retrieval for TLC. *)
EXTENDS RetrievalProps

\* The null vector; two collinear ones, which tie; one at an angle whose
\* cosine with them is 0.39, one with 0.45; and one opposite.
MCVectors == {<<0, 0>>, <<1, 0>>, <<2, 0>>, <<3, 7>>, <<1, 2>>, <<-1, 1>>}

MCFewVectors == {<<1, 0>>, <<1, 2>>}
=============================================================================
