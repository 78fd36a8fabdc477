--------------------------- MODULE RetrievalProps ---------------------------
(***************************************************************************)
(* What makes the extraction correct: no part of a text is lost or sent    *)
(* twice by the chunking, a prompt holds the chunks of the MEMOIRE that    *)
(* are closest to its DCE chunk, and no answer is lost.                    *)
(***************************************************************************)
EXTENDS Retrieval

\* Type invariant.
TypeOK ==
  /\ phase \in {"memo", "embed", "ask", "returned"}
  /\ dceLen \in 0..MaxLen /\ memLen \in 0..MaxLen
  /\ at \in 1..(MaxLen + 1)
  /\ \A m \in DOMAIN knowledge :
       knowledge[m].chunk \in DOMAIN Chunks(memLen) /\ knowledge[m].vec \in Vectors
  /\ query \in Vectors \cup {<<>>}
  /\ prompt = NoPrompt \/ Range(prompt) \subseteq DOMAIN knowledge
  /\ Range(allPairs) \subseteq (DOMAIN Chunks(dceLen)) \X (1..MaxPairs)
  /\ answers \in [DOMAIN Chunks(dceLen) -> 0..MaxPairs]
  /\ cancelled \in BOOLEAN

\* Chunking neither loses nor repeats a rune, keeps chunks within the limit
\* of the model and in the order of the text, at every length of the text.
ChunksPartition ==
  \A n \in {dceLen, memLen} :
    LET chunks == Chunks(n)
    IN  /\ \A p \in 0..(n - 1) :
             \E i \in DOMAIN chunks : chunks[i].from <= p /\ p < chunks[i].to
        /\ \A i \in DOMAIN chunks :
             /\ chunks[i].from < chunks[i].to
             /\ chunks[i].to - chunks[i].from <= ChunkSize
             /\ i > 1 => chunks[i].from = chunks[i - 1].to

Score(m) == Cosine(query, knowledge[m].vec)
Relevant == {m \in DOMAIN knowledge : Less(Threshold, Score(m))}

\* A prompt holds the relevant chunks of the MEMOIRE, at most K of them and
\* then the most similar, best first: cutting the ranking at K before the
\* threshold is applied leaves out no chunk that belongs there.
PromptIsBest ==
  phase = "ask" =>
    /\ Range(prompt) \subseteq Relevant
    /\ Cardinality(Range(prompt)) = Len(prompt)
    /\ Len(prompt) = Min({K, Cardinality(Relevant)})
    /\ \A m \in Range(prompt), n \in Relevant \ Range(prompt) : ~ Less(Score(m), Score(n))
    /\ \A i, j \in DOMAIN prompt : i < j => ~ Less(Score(prompt[i]), Score(prompt[j]))

\* The result is every pair of every answer, in the order of the DCE, however
\* many chunks before and after failed.
NoAnswerLost ==
  allPairs = FlattenSeq([d \in DOMAIN answers |-> [i \in 1..answers[d] |-> <<d, i>>]])

-----------------------------------------------------------------------------
(* Progress. *)

\* The loop runs and calls of the embedder end: its client has a timeout.
\* That of the model has none: only the context ends a call that hangs.
Fairness ==
  /\ WF_vars(EmbedMemo \/ EmbedMemoFails)
  /\ WF_vars(MemoEmbedded)
  /\ WF_vars(EmbedDce \/ EmbedDceFails)
  /\ WF_vars(AskCancelled)
  /\ WF_vars(Return)

FairSpec == Spec /\ Fairness

\* A cancelled extraction returns, even from a call the model never answers.
CancelledExtractionEnds == cancelled ~> phase = "returned"
=============================================================================
