------------------------------ MODULE Retrieval ------------------------------
(***************************************************************************)
(* ExtractRequirementsAndAnswers (internal/adapters/llm/gemma_extractor.go) *)
(* with the algorithms it is built from: chunkText, cosineSimilarity and   *)
(* getTopKSimilar.  One call is modelled.  A text is its number of runes;  *)
(* embeddings are vectors of integers, which makes cosines exact: the code *)
(* rounds, and this module does not.  Ollama is modelled from these calls: *)
(* any vector for a text, any pairs for a prompt, or an error.             *)
(***************************************************************************)
EXTENDS Integers, SequencesExt

CONSTANTS
  MaxLen,     \* bound on the length of both texts
  ChunkSize,  \* 2500 in the code
  K,          \* 3 in the code
  Vectors,    \* embeddings, all of one dimension
  MaxPairs,   \* bound on the pairs in one answer
  NoPrompt,   \* prompt while no chunk is being asked about
  Faults      \* subset of {"embed", "gemma", "cancel"}

ASSUME RetrievalAssumption ==
  /\ MaxLen \in Nat
  /\ ChunkSize \in Nat \ {0}
  /\ K \in Nat
  /\ MaxPairs \in Nat
  /\ Vectors \subseteq Seq(Int)
  /\ \A v, w \in Vectors : Len(v) = Len(w)
  /\ Faults \subseteq {"embed", "gemma", "cancel"}

VARIABLES
  phase,     \* "memo", "embed", "ask" or "returned"
  dceLen,    \* number of runes of dceText
  memLen,    \* number of runes of memoireText
  at,        \* number of the chunk the current loop is at
  knowledge, \* memoKnowledge: chunks of the MEMOIRE with their vectors
  query,     \* dVec
  prompt,    \* the chunks of the MEMOIRE in the current prompt, by position in knowledge
  allPairs,  \* pairs, each by its DCE chunk and its place in the answer
  answers,   \* history: answers[d] pairs came back for DCE chunk d
  cancelled  \* the context is done

texts == <<dceLen, memLen>>
vars == <<phase, texts, at, knowledge, query, prompt, allPairs, answers, cancelled>>

-----------------------------------------------------------------------------
(* Algorithms. *)

\* Mutation: the last, shorter chunk is dropped.
FullChunksOnly(n) ==
  [i \in 1..(n \div ChunkSize) |-> [from |-> (i - 1) * ChunkSize, to |-> i * ChunkSize]]

\* chunkText: chunk i holds the runes from..to-1 of a text of n runes.
Chunks(n) ==
  [i \in 1..((n + ChunkSize - 1) \div ChunkSize) |->
     [from |-> (i - 1) * ChunkSize,
      to |-> IF i * ChunkSize > n THEN n ELSE i * ChunkSize]]

Dot(v, w) ==
  LET dot[i \in 0..Len(v)] == IF i = 0 THEN 0 ELSE dot[i - 1] + v[i] * w[i]
  IN  dot[Len(v)]
Sign(n) == IF n < 0 THEN -1 ELSE 1

\* cosineSimilarity: the cosine squared, with the sign of the cosine, as a
\* fraction; 0 when a vector is null.
Cosine(v, w) ==
  LET norms == Dot(v, v) * Dot(w, w)
      dot == Dot(v, w)
  IN  IF norms = 0 THEN [num |-> 0, den |-> 1]
                   ELSE [num |-> Sign(dot) * dot * dot, den |-> norms]

Less(s, t) == s.num * t.den < t.num * s.den
Threshold == [num |-> 4, den |-> 25]  \* 0.40, squared

\* sort.Slice is not stable: chunks of equal score come in any order.
Rankings(q, corpus) ==
  LET score(i) == Cosine(q, corpus[i].vec)
  IN  {p \in SetToSeqs(DOMAIN corpus) :
         \A i, j \in DOMAIN p : i < j => ~ Less(score(p[i]), score(p[j]))}

\* Mutation: the first K chunks that are relevant, without sorting.
TopKUnsorted(q, corpus) ==
  LET relevant(i) == Less(Threshold, Cosine(q, corpus[i].vec))
      found == SelectSeq([i \in DOMAIN corpus |-> i], relevant)
  IN  {SubSeq(found, 1, IF Len(found) < K THEN Len(found) ELSE K)}

\* The first n of ranking p, of which those above 0.40.
Take(p, n, q, corpus) ==
  LET taken[i \in 0..n] ==
        IF i = 0 THEN <<>>
        ELSE IF Less(Threshold, Cosine(q, corpus[p[i]].vec)) THEN Append(taken[i - 1], p[i])
        ELSE taken[i - 1]
  IN  taken[n]

\* getTopKSimilar
TopK(q, corpus) ==
  LET limit == IF Len(corpus) < K THEN Len(corpus) ELSE K
  IN  {Take(p, limit, q, corpus) : p \in Rankings(q, corpus)}

-----------------------------------------------------------------------------
(* The extraction. *)

Init ==
  /\ phase = "memo"
  /\ dceLen \in 0..MaxLen
  /\ memLen \in 0..MaxLen
  /\ at = 1
  /\ knowledge = <<>>
  /\ query = <<>>
  /\ prompt = NoPrompt
  /\ allPairs = <<>>
  /\ answers = [d \in DOMAIN Chunks(dceLen) |-> 0]
  /\ cancelled = FALSE

AtMemo == phase = "memo" /\ at \in DOMAIN Chunks(memLen)

\* Mutation: the loop runs once too often.
AtDceInclusive(s) == phase = s /\ at <= Len(Chunks(dceLen)) + 1

AtDce(s) == phase = s /\ at \in DOMAIN Chunks(dceLen)

\* A call to Ollama fails, for a reason of its own or because of the context.
Fails(f) == f \in Faults \/ cancelled

EmbedMemo ==
  /\ AtMemo
  /\ ~ cancelled
  /\ \E v \in Vectors : knowledge' = Append(knowledge, [chunk |-> at, vec |-> v])
  /\ at' = at + 1
  /\ UNCHANGED <<phase, texts, query, prompt, allPairs, answers, cancelled>>

\* The error is printed and the chunk left out.
EmbedMemoFails ==
  /\ AtMemo
  /\ Fails("embed")
  /\ at' = at + 1
  /\ UNCHANGED <<phase, texts, knowledge, query, prompt, allPairs, answers, cancelled>>

MemoEmbedded ==
  /\ phase = "memo"
  /\ at \notin DOMAIN Chunks(memLen)
  /\ phase' = "embed"
  /\ at' = 1
  /\ UNCHANGED <<texts, knowledge, query, prompt, allPairs, answers, cancelled>>

\* The chunk is embedded and its prompt composed.
EmbedDce ==
  /\ AtDce("embed")
  /\ ~ cancelled
  /\ \E v \in Vectors : query' = v /\ prompt' \in TopK(v, knowledge)
  /\ phase' = "ask"
  /\ UNCHANGED <<texts, at, knowledge, allPairs, answers, cancelled>>

\* The loop goes on to the next chunk of the DCE; dVec and the prompt are local.
NextDce ==
  /\ phase' = "embed"
  /\ at' = at + 1
  /\ query' = <<>>
  /\ prompt' = NoPrompt
  /\ UNCHANGED <<texts, knowledge, cancelled>>

\* The error is printed and the chunk is never sent.
EmbedDceFails ==
  /\ AtDce("embed")
  /\ Fails("embed")
  /\ NextDce
  /\ UNCHANGED <<allPairs, answers>>

\* Mutation: the pairs of this chunk replace those of the earlier ones.
AnswerReplacing ==
  /\ AtDce("ask")
  /\ ~ cancelled
  /\ \E n \in 0..MaxPairs :
       /\ allPairs' = [i \in 1..n |-> <<at, i>>]
       /\ answers' = [answers EXCEPT ![at] = n]
  /\ NextDce

\* ExtractExigenceReponsePairFromChunkUsingGemma returns pairs, none of them
\* if the answer is empty.
Answer ==
  /\ AtDce("ask")
  /\ ~ cancelled
  /\ \E n \in 0..MaxPairs :
       /\ allPairs' = allPairs \o [i \in 1..n |-> <<at, i>>]
       /\ answers' = [answers EXCEPT ![at] = n]
  /\ NextDce

\* It returns an error: transport, status, or JSON that does not parse.
AnswerFails ==
  /\ AtDce("ask")
  /\ "gemma" \in Faults
  /\ NextDce
  /\ UNCHANGED <<allPairs, answers>>

\* Mutation: the request is built without the context.
AskUncancelled == FALSE /\ UNCHANGED vars

\* The context ends the call, answered or not.
AskCancelled ==
  /\ AtDce("ask")
  /\ cancelled
  /\ NextDce
  /\ UNCHANGED <<allPairs, answers>>

\* The pairs found are returned, with a nil error whatever failed.
Return ==
  /\ phase = "embed"
  /\ at \notin DOMAIN Chunks(dceLen)
  /\ phase' = "returned"
  /\ UNCHANGED <<texts, at, knowledge, query, prompt, allPairs, answers, cancelled>>

Cancel ==
  /\ "cancel" \in Faults
  /\ phase # "returned"
  /\ ~ cancelled
  /\ cancelled' = TRUE
  /\ UNCHANGED <<phase, texts, at, knowledge, query, prompt, allPairs, answers>>

Next ==
  \/ EmbedMemo \/ EmbedMemoFails \/ MemoEmbedded
  \/ EmbedDce \/ EmbedDceFails \/ Answer \/ AnswerFails \/ AskCancelled
  \/ Return \/ Cancel

Spec == Init /\ [][Next]_vars
=============================================================================
