----------------------------- MODULE Retrieval -----------------------------
(***************************************************************************)
(* One retrieval, for a turn of a conversation or for /rag/query, from the *)
(* knowledge bases to the citations of the answer.  Every search is a      *)
(* transaction of its own: knowledge bases may be deleted or rebuilt, and  *)
(* documents withdrawn, between any two.                                   *)
(*                                                                         *)
(* A chunk is <<knowledge base, number>>; a hit is a chunk with a score.   *)
(* A marker [c:n] of the answer is the number n, 0 when it is no number.   *)
(***************************************************************************)
EXTENDS Integers, Sequences, FiniteSets, Picks

CONSTANTS
  Kbs,            \* knowledge bases
  PerKb,          \* chunks in each
  Cost,           \* tokens of the chunk with a given number
  Params,         \* rrf_k, hybrid_candidates, context_chunks, context_token_budget,
                  \* min_score_ratio in percent, rerank_threshold
  VectorScores, KeywordScores, RerankScores,    \* pgroonga_score is never negative
  Requests,       \* what is asked: [asked, kbs, query, mode]
  MaxChanges,     \* bound on what happens to the knowledge bases meanwhile
  MaxMarkers      \* bound on the markers of an answer

ASSUME RetrievalAssumption ==
  /\ Kbs \subseteq Nat /\ IsFiniteSet(Kbs) /\ PerKb \in Nat \ {0} /\ Cost \in [1 .. PerKb -> Nat]
  /\ {Params.k, Params.limit, Params.chunks} \subseteq Nat \ {0}
  /\ VectorScores \union RerankScores \subseteq Int /\ KeywordScores \subseteq Nat
  /\ \A r \in Requests : r.asked \in {"chat", "query"} /\ r.kbs \in Seq(Kbs)

VARIABLES
  base,       \* knowledge bases as they are now
  turn,       \* the request, and how far it has come
  snaps,      \* _KnowledgeBaseSnapshot of those that were found
  cache,      \* models the query has a vector of
  groups,     \* the hits of every route, best first
  ranked,     \* the candidates, fused and then reranked
  degraded,   \* enhancements that were skipped
  cites,      \* the markers that stand, those that were dropped, and the answer
  past        \* history: what failed, what was searched, what was withdrawn before

retrievalVars == <<base, turn, snaps, cache, groups, ranked, degraded, cites, past>>

-----------------------------------------------------------------------------
Chunks == Kbs \X (1 .. PerKb)
Modes == {"vector", "hybrid", "vector+rerank", "hybrid+rerank"}
Hybrid == {"hybrid", "hybrid+rerank"}
Reranking == {"vector+rerank", "hybrid+rerank"}
EndOfTurn == {"off", "done", "failed", "not_found"}
ChunksIn(hits) == {hits[i].chunk : i \in 1 .. Len(hits)}
NoCites == [stand |-> <<>>, dropped |-> {}, answer |-> <<>>]

RetrievalTypeOK ==
  /\ \A k \in Kbs : /\ base[k].alive \in BOOLEAN /\ base[k].mode \in Modes
                    /\ base[k].gone \subseteq 1 .. PerKb
  /\ turn.phase \in EndOfTurn \union {"find", "embed", "vector", "fts", "fuse", "rerank", "select", "answer",
                                 "persist", "fail"}
  /\ turn.phase \in {"embed", "vector", "fts"} => turn.at \in 1 .. Len(snaps)
  /\ Len(snaps) <= Len(turn.kbs) /\ ChunksIn(ranked) \subseteq Chunks
  /\ degraded \subseteq {"fts", "rerank"} /\ past.traces \in 0 .. 2

(* build_search_query: the latest questions, then the one that is asked.   *)
SearchQuery(previous, question, turns) ==
  LET n == IF turns > Len(previous) THEN Len(previous) ELSE turns
      Said(word) == word # "blank"
  IN SelectSeq(SubSeq(previous, Len(previous) - n + 1, Len(previous)) \o <<question>>, Said)

RetrievalBegin(first, requests) ==
  /\ \E r \in requests :
       /\ base = [k \in Kbs |-> [alive |-> TRUE, model |-> "old", ver |-> 1, gone |-> {}, mode |-> r.mode]]
       /\ turn = [asked |-> r.asked, kbs |-> r.kbs, query |-> r.query, mode |-> "vector",
                  phase |-> first, at |-> 1]
  /\ snaps = <<>> /\ cache = {} /\ groups = <<>> /\ ranked = <<>> /\ degraded = {}
  /\ cites = NoCites
  /\ past = [failed |-> {}, spaces |-> {}, withdrawn |-> {}, bought |-> 0, found |-> 0,
             applied |-> FALSE, traces |-> 0, told |-> {}, unsaved |-> FALSE, changes |-> 0]
RetrievalInit == RetrievalBegin("find", Requests)
RetrievalOff == RetrievalBegin("off", {CHOOSE r \in Requests : TRUE})

-----------------------------------------------------------------------------
(***************************************************************************)
(* Meanwhile                                                               *)
(***************************************************************************)
Change(k, to) ==
  /\ past.changes < MaxChanges /\ turn.phase \notin EndOfTurn \union {"fuse", "rerank", "select", "answer", "persist", "fail"}
  /\ base' = [base EXCEPT ![k] = to]
  /\ UNCHANGED <<turn, snaps, cache, groups, ranked, degraded, cites>>
Changed == past' = [past EXCEPT !.changes = @ + 1]

DeleteKb(k) == base[k].alive /\ Change(k, [base[k] EXCEPT !.alive = FALSE]) /\ Changed

(* The switch of a rebuild; the old vectors stay for days.                 *)
Rebuild(k) ==
  base[k].ver = 1 /\ Change(k, [base[k] EXCEPT !.model = "new", !.ver = 2]) /\ Changed

(* A document is deleted or ingested anew.                                 *)
Withdraw(k, i) ==
  /\ i \notin base[k].gone /\ Change(k, [base[k] EXCEPT !.gone = @ \union {i}])
  /\ past' = [past EXCEPT !.changes = @ + 1,
                !.withdrawn = IF turn.phase = "find" THEN @ \union {<<k, i>>} ELSE @]

-----------------------------------------------------------------------------
(***************************************************************************)
(* query and retrieve_for_chat                                             *)
(***************************************************************************)
Goto(phase) == turn' = [turn EXCEPT !.phase = phase]

(* Without a question or a knowledge base nothing is bought.               *)
NothingToFind ==
  /\ turn.phase = "find" /\ turn.at = 1 /\ (turn.query = <<>> \/ turn.kbs = <<>>)
  /\ Goto(IF turn.asked = "chat" THEN "answer" ELSE "failed")
  /\ UNCHANGED <<base, snaps, cache, groups, ranked, degraded, cites, past>>

(* _find_kb: one that is gone is skipped.                                  *)
FindKb ==
  /\ turn.phase = "find" /\ turn.query # <<>> /\ turn.at <= Len(turn.kbs)
  /\ LET k == turn.kbs[turn.at] IN
     snaps' = IF base[k].alive
              THEN Append(snaps, [kb |-> k, model |-> base[k].model, ver |-> base[k].ver,
                                  mode |-> base[k].mode])
              ELSE snaps
  /\ turn' = [turn EXCEPT !.at = @ + 1]
  /\ UNCHANGED <<base, cache, groups, ranked, degraded, cites, past>>

(* The parameters are those of the first one that was found.               *)
Found ==
  /\ turn.phase = "find" /\ turn.query # <<>> /\ turn.kbs # <<>> /\ turn.at > Len(turn.kbs)
  /\ turn' = IF snaps # <<>>
             THEN [turn EXCEPT !.phase = "embed", !.at = 1, !.mode = snaps[1].mode]
             ELSE [turn EXCEPT !.phase = IF turn.asked = "chat" THEN "answer" ELSE "not_found"]
  /\ UNCHANGED <<base, snaps, cache, groups, ranked, degraded, cites, past>>

(* A search that cannot be skipped fails.                                  *)
Fails ==
  /\ turn.phase \in {"embed", "vector"} /\ Goto("failed")
  /\ past' = [past EXCEPT !.failed = @ \union {"search"}]
  /\ UNCHANGED <<base, snaps, cache, groups, ranked, degraded, cites>>

(* _embed                                                                  *)
SeededCached(model) == FALSE          \* seeded fault: the cache is not asked
Cached(model) == model \in cache
Embed ==
  /\ turn.phase = "embed" /\ Goto("vector")
  /\ LET model == snaps[turn.at].model IN
     /\ cache' = cache \union {model}
     /\ past' = [past EXCEPT !.bought = @ + IF Cached(model) THEN 0 ELSE 1]
  /\ UNCHANGED <<base, snaps, groups, ranked, degraded, cites>>

-----------------------------------------------------------------------------
(***************************************************************************)
(* The routes                                                              *)
(***************************************************************************)
(* Rows in an order of the database, best score first.                     *)
SeededActive(k) == {<<k, i>> : i \in 1 .. PerKb}  \* seeded fault: superseded = false is forgotten
Active(k) == {<<k, i>> : i \in (1 .. PerKb) \ base[k].gone}
HitsOn(chunks, scores) ==
  {h \in [1 .. Cardinality(chunks) -> [chunk : chunks, score : scores]] :
     \A i, j \in DOMAIN h : i < j => h[i].chunk # h[j].chunk /\ h[i].score >= h[j].score}

(* gate_by_score *)
SeededClose(hits) == LET Near(h) == h.score * 100 >= hits[1].score * Params.ratio
                     IN SelectSeq(hits, Near)    \* seeded fault: a negative first is no exception
Close(hits) ==
  IF hits = <<>> \/ hits[1].score <= 0 \/ Params.ratio <= 0 THEN hits
  ELSE Picked(hits, {i \in 1 .. Len(hits) : i = 1 \/ hits[i].score * 100 >= hits[1].score * Params.ratio})

(* _search: the version is the one of the snapshot.                        *)
SeededVersion(snap) == base[snap.kb].ver   \* seeded fault: read again when it is used
Version(snap) == snap.ver
VectorSearch ==
  /\ turn.phase = "vector"
  /\ LET snap == snaps[turn.at] IN
     /\ \E hits \in HitsOn(Active(snap.kb), VectorScores) : groups' = Append(groups, Close(hits))
     /\ past' = [past EXCEPT !.spaces = @ \union {<<snap.model, Version(snap)>>}]
  /\ turn' = IF turn.mode \in Hybrid THEN [turn EXCEPT !.phase = "fts"]
             ELSE IF turn.at < Len(snaps) THEN [turn EXCEPT !.phase = "embed", !.at = @ + 1]
             ELSE [turn EXCEPT !.phase = "fuse"]
  /\ UNCHANGED <<base, snaps, cache, ranked, degraded, cites>>

SeededNextKb == turn' = [turn EXCEPT !.phase = "embed", !.at = @ + 1]  \* seeded fault: no end
NextKb == turn' = IF turn.at < Len(snaps) THEN [turn EXCEPT !.phase = "embed", !.at = @ + 1]
                  ELSE [turn EXCEPT !.phase = "fuse"]

(* build_fts_query: a question without an identifier abstains.             *)
Identifies == "code" \in SetOf(turn.query)
KeywordSearch ==
  /\ turn.phase = "fts" /\ NextKb
  /\ \/ ~Identifies /\ UNCHANGED groups
     \/ /\ Identifies
        /\ \E some \in SUBSET Active(snaps[turn.at].kb) : \E hits \in HitsOn(some, KeywordScores) :
             groups' = IF hits = <<>> THEN groups ELSE Append(groups, Close(hits))
  /\ UNCHANGED <<base, snaps, cache, ranked, degraded, cites, past>>

(* Whatever goes wrong there, the route has no candidates.                 *)
SeededSkipped(what) == IF turn.at = Len(snaps) THEN degraded \union {what} ELSE degraded
                                      \* seeded fault: only the last one counts
Skipped(what) == degraded \union {what}
KeywordSearchFails ==
  /\ turn.phase = "fts" /\ Identifies /\ NextKb
  /\ degraded' = Skipped("fts") /\ past' = [past EXCEPT !.failed = @ \union {"fts"}]
  /\ UNCHANGED <<base, snaps, cache, groups, ranked, cites>>

-----------------------------------------------------------------------------
(***************************************************************************)
(* fuse_candidates                                                         *)
(***************************************************************************)
RanksIn(c, group) == {r \in 1 .. Len(group) : group[r].chunk = c}
(* 1 / (k + r) over a common denominator.                                  *)
Longest == PerKb
Denominator == LET f[n \in 0 .. Longest] == IF n = 0 THEN 1 ELSE f[n - 1] * (Params.k + n) IN f[Longest]
Vote(r) == Denominator \div (Params.k + r)
VoteOf(c, group) == IF RanksIn(c, group) = {} THEN 0 ELSE Vote(CHOOSE r \in RanksIn(c, group) : TRUE)
ScoreOf(c) ==
  LET f[n \in 0 .. Len(groups)] == IF n = 0 THEN 0 ELSE f[n - 1] + VoteOf(c, groups[n])
  IN f[Len(groups)]
Places(c) == {p \in (1 .. Longest) \X (1 .. Len(groups)) : p[1] \in RanksIn(c, groups[p[2]])}
Earlier(p, q) == p[1] < q[1] \/ (p[1] = q[1] /\ p[2] < q[2])
BestPlace(c) == CHOOSE p \in Places(c) : \A q \in Places(c) : p = q \/ Earlier(p, q)

SeededAhead(c, d) ==                  \* seeded fault: the scores of the routes are compared
  LET Raw(x) == LET p == BestPlace(x) IN groups[p[2]][p[1]].score
  IN Raw(c) > Raw(d) \/ (Raw(c) = Raw(d) /\ Earlier(c, d))
Ahead(c, d) ==
  \/ ScoreOf(c) > ScoreOf(d)
  \/ ScoreOf(c) = ScoreOf(d) /\ Earlier(BestPlace(c), BestPlace(d))
  \/ ScoreOf(c) = ScoreOf(d) /\ BestPlace(c) = BestPlace(d) /\ Earlier(c, d)

Candidates == UNION {ChunksIn(groups[g]) : g \in 1 .. Len(groups)}
Fused(i) == CHOOSE c \in Candidates : Cardinality({d \in Candidates : d # c /\ Ahead(d, c)}) = i - 1
Shorter(m, n) == IF m < n THEN m ELSE n

Fuse ==
  /\ turn.phase = "fuse" /\ Goto("rerank")
  /\ ranked' = [i \in 1 .. Shorter(Params.limit, Cardinality(Candidates)) |->
                  [chunk |-> Fused(i), score |-> 0]]
  /\ past' = [past EXCEPT !.found = Cardinality(Candidates)]
  /\ UNCHANGED <<base, snaps, cache, groups, degraded, cites>>

-----------------------------------------------------------------------------
(***************************************************************************)
(* _rerank                                                                 *)
(***************************************************************************)
(* Rows of the provider: some candidates, in an order it likes; it may     *)
(* name one twice or one that was not sent.                                *)
Reversed(s) == [i \in 1 .. Len(s) |-> s[Len(s) + 1 - i]]
RowsOf(some, scores) ==
  [i \in 1 .. Cardinality(some) |-> [index |-> Nth(i, some), score |-> scores[Nth(i, some)]]]
Rankings == [n \in 0 .. Params.limit |->
  LET Orders == {RowsOf(some, scores) : some \in SUBSET (1 .. n), scores \in [1 .. n -> RerankScores]}
      Doubled == {Append(rows, Head(rows)) : rows \in Orders \ {<<>>}}
      Beyond == {Append(rows, [index |-> n + 1, score |-> 1]) : rows \in Orders}
  IN Orders \union {Reversed(rows) : rows \in Orders} \union Doubled \union Beyond]

(* The order in which the candidates are sent is what an index means.      *)
Sent == [i \in 1 .. Len(ranked) |-> ranked[i].chunk]

(* _documents *)
SeededValid(rows) == SetOf(rows) # {}   \* seeded fault: doubled and foreign rows pass
Valid(rows) ==
  /\ \A i \in 1 .. Len(rows) : rows[i].index \in DOMAIN Sent
  /\ \A i, j \in 1 .. Len(rows) : i # j => rows[i].index # rows[j].index
Best(rows) ==
  LET Before(a, b) == a.score > b.score \/ (a.score = b.score /\ a.index < b.index)
  IN CHOOSE s \in [1 .. Len(rows) -> SetOf(rows)] :
       \A i, j \in DOMAIN s : i < j => Before(s[i], s[j])

(* AIGateway.rerank: top_n of them at most; fewer are no error.            *)
TopOf(rows) == SubSeq(Best(rows), 1, Shorter(Params.chunks, Len(rows)))

(* gate_by_absolute_score, only for what the cross-encoder has scored.     *)
Above(hits) == Picked(hits, {i \in 1 .. Len(hits) : Params.threshold <= 0 \/ hits[i].score >= Params.threshold})
SeededOnFailure == Above(ranked)      \* seeded fault: the threshold without the scores it is for
OnFailure == ranked

NotReranked ==
  /\ turn.phase = "rerank" /\ (turn.mode \notin Reranking \/ ranked = <<>>) /\ Goto("select")
  /\ groups' = <<>>
  /\ UNCHANGED <<base, snaps, cache, ranked, degraded, cites, past>>

Rerank ==
  /\ turn.phase = "rerank" /\ turn.mode \in Reranking /\ ranked # <<>> /\ Goto("select")
  /\ groups' = <<>>
  /\ \E rows \in Rankings[Len(ranked)] :
       \/ /\ Valid(rows)
          /\ LET top == TopOf(rows) IN
             ranked' = Above([i \in 1 .. Len(top) |-> [chunk |-> Sent[top[i].index], score |-> top[i].score]])
          /\ past' = [past EXCEPT !.applied = TRUE] /\ UNCHANGED degraded
       \/ /\ ~Valid(rows) /\ ranked' = OnFailure
          /\ degraded' = Skipped("rerank") /\ past' = [past EXCEPT !.failed = @ \union {"rerank"}]
  /\ UNCHANGED <<base, snaps, cache, cites>>

(* The provider is slow, down, or refuses.                                 *)
RerankFails ==
  /\ turn.phase = "rerank" /\ turn.mode \in Reranking /\ ranked # <<>> /\ Goto("select")
  /\ groups' = <<>> /\ ranked' = OnFailure
  /\ degraded' = Skipped("rerank") /\ past' = [past EXCEPT !.failed = @ \union {"rerank"}]
  /\ UNCHANGED <<base, snaps, cache, cites>>

-----------------------------------------------------------------------------
(***************************************************************************)
(* The context and the citations                                           *)
(***************************************************************************)
CostOf(hits) ==
  LET f[n \in 0 .. Len(hits)] == IF n = 0 THEN 0 ELSE f[n - 1] + Cost[hits[n].chunk[2]]
  IN f[Len(hits)]

(* select_context: from the best downwards, as far as the budget goes.     *)
SeededFitting(n) == n <= 1 \/ CostOf(SubSeq(ranked, 1, n - 1)) <= Params.budget
                                      \* seeded fault: measured before the last one is added
Fitting(n) == n <= 1 \/ CostOf(SubSeq(ranked, 1, n)) <= Params.budget
Selected ==
  LET n == CHOOSE m \in 0 .. Shorter(Params.chunks, Len(ranked)) :
             /\ \A l \in 0 .. m : Fitting(l)
             /\ m = Shorter(Params.chunks, Len(ranked)) \/ ~Fitting(m + 1)
  IN SubSeq(ranked, 1, n)

Traced == [past EXCEPT !.traces = @ + 1, !.told = degraded]

(* /rag/query shows the candidates, and writes its record at once.         *)
Select ==
  /\ turn.phase = "select"
  /\ \/ turn.asked = "chat" /\ ranked' = Selected /\ Goto("answer") /\ UNCHANGED past
     \/ turn.asked = "query" /\ Goto("done") /\ past' = Traced /\ UNCHANGED ranked
  /\ UNCHANGED <<base, snaps, cache, groups, degraded, cites>>

(* assemble_citations *)
Firsts(answer) == {i \in 1 .. Len(answer) : \A j \in 1 .. (i - 1) : answer[j] # answer[i]}
SeededStands(answer, i) == answer[i] \in 1 .. Len(ranked)   \* seeded fault: a chunk is listed again
Stands(answer, i) == answer[i] \in 1 .. Len(ranked) /\ i \in Firsts(answer)
Citations(answer) == Picked(answer, {i \in 1 .. Len(answer) : Stands(answer, i)})

(* A record is written only when there was a retrieval, also when the      *)
(* generation has failed: _emit_trace.                                     *)
SeededRetrieved == turn.kbs # <<>>    \* seeded fault: that bases are attached is enough
Retrieved == snaps # <<>>
Emitted == IF Retrieved THEN Traced ELSE past

(* _complete, or _fail when the generation broke: the citations, the       *)
(* record, and then the row.                                               *)
Answer ==
  /\ turn.phase = "answer" /\ Goto("persist") /\ past' = Emitted
  /\ \E n \in 0 .. MaxMarkers : \E answer \in [1 .. n -> 0 .. (Params.chunks + 1)] :
       cites' = [stand |-> Citations(answer), answer |-> answer,
                 dropped |-> SetOf(answer) \ (1 .. Len(ranked))]
  /\ UNCHANGED <<base, snaps, cache, groups, ranked, degraded>>
Persist ==
  /\ turn.phase = "persist" /\ Goto("done")
  /\ UNCHANGED <<base, snaps, cache, groups, ranked, degraded, cites, past>>

(* _complete's write raises, or is cancelled: _generate goes to _fail,     *)
(* which emits again before it writes.                                     *)
PersistFails ==
  /\ turn.phase = "persist" /\ Goto("fail") /\ past' = [past EXCEPT !.unsaved = TRUE]
  /\ UNCHANGED <<base, snaps, cache, groups, ranked, degraded, cites>>
Fail ==
  /\ turn.phase = "fail" /\ Goto("done") /\ past' = Emitted
  /\ UNCHANGED <<base, snaps, cache, groups, ranked, degraded, cites>>

-----------------------------------------------------------------------------
RetrievalNext ==
  \/ \E k \in Kbs : DeleteKb(k) \/ Rebuild(k) \/ \E i \in 1 .. PerKb : Withdraw(k, i)
  \/ NothingToFind \/ FindKb \/ Found \/ Fails \/ Embed \/ VectorSearch
  \/ KeywordSearch \/ KeywordSearchFails \/ Fuse \/ NotReranked \/ Rerank \/ RerankFails
  \/ Select \/ Answer \/ Persist \/ PersistFails \/ Fail

-----------------------------------------------------------------------------
RankIn(c, group) == CHOOSE r \in 1 .. Len(group) : group[r].chunk = c

(* fuse_candidates: whatever the scores of the routes, a chunk that is     *)
(* ahead of another one wherever that one was found stays ahead of it, and *)
(* none is listed twice.                                                   *)
RanksDecide ==
  turn.phase = "rerank" =>
    /\ \A i, j \in 1 .. Len(ranked) : i # j => ranked[i].chunk # ranked[j].chunk
    /\ \A c, d \in Candidates :
         (\A g \in 1 .. Len(groups) : d \in ChunksIn(groups[g]) =>
            c \in ChunksIn(groups[g]) /\ RankIn(c, groups[g]) < RankIn(d, groups[g]))
         => \A j \in 1 .. Len(ranked) : ranked[j].chunk = d =>
              \E i \in 1 .. (j - 1) : ranked[i].chunk = c

(* gate_by_score: the threshold never empties a route, and is off when the *)
(* best hit is worse than nothing: all that was found is kept.             *)
GatesKeepTheBest ==
  \A g \in 1 .. Len(groups) :
    LET n == Len(groups[g]) IN
    /\ n > 0 \/ \E k \in Kbs : base[k].gone = 1 .. PerKb
    /\ n > 0 /\ groups[g][1].score < 0 /\ past.changes = 0 => n = PerKb

(* _search_fts, _rerank: a failed enhancement fails nothing, and takes     *)
(* nothing away: what was found is still in the context.                   *)
EnhancementsMayFail ==
  /\ turn.phase = "failed" => "search" \in past.failed \/ turn.query = <<>> \/ turn.kbs = <<>>
  /\ turn.phase \in {"answer", "persist", "fail", "done"} /\ past.found > 0 /\ ~past.applied => ranked # <<>>

(* RetrievalOutcome.degraded: exactly what failed is reported, also by the *)
(* record, whichever knowledge base it happened in.                        *)
FailuresAreTold ==
  /\ degraded = past.failed \ {"search"}
  /\ past.traces > 0 => past.told = degraded

(* _documents and select_context: no chunk is in the context twice, and    *)
(* more than one fits the budget.                                          *)
ContextFits ==
  turn.asked = "chat" /\ turn.phase \in {"answer", "persist", "fail", "done"} =>
    /\ \A i, j \in 1 .. Len(ranked) : i # j => ranked[i].chunk # ranked[j].chunk
    /\ Len(ranked) <= 1 \/ CostOf(ranked) <= Params.budget

(* assemble_citations: every marker of the answer is either listed once,   *)
(* in the order of the answer, or reported as made up.                     *)
CitationsStand ==
  /\ SetOf(cites.stand) \union cites.dropped = SetOf(cites.answer)
  /\ SetOf(cites.stand) \intersect cites.dropped = {}
  /\ \A i, j \in 1 .. Len(cites.stand) : i < j =>
       \E m, n \in Firsts(cites.answer) :
         m < n /\ cites.answer[m] = cites.stand[i] /\ cites.answer[n] = cites.stand[j]

(* _KnowledgeBaseSnapshot: a vector is only compared with vectors of its   *)
(* own model, also when the knowledge base is rebuilt meanwhile.           *)
OneSpace == past.spaces \subseteq {<<"old", 1>>, <<"new", 2>>}

(* _embed: the vector of the question is bought once for each model.       *)
VectorsAreShared == past.bought <= Cardinality({snaps[i].model : i \in 1 .. Len(snaps)})

(* search and search_fts: what was withdrawn before is never quoted.       *)
WithdrawnIsGone == ChunksIn(ranked) \intersect past.withdrawn = {}

(* _emit_trace: a turn leaves a record when something was searched, and    *)
(* none when nothing was; a second one only after the row could not be     *)
(* written.                                                                *)
OneRecord ==
  /\ turn.phase = "done" => (past.traces > 0 <=> past.spaces # {})
  /\ past.traces > 1 => past.unsaved

(* _emit_trace, "one question leaves one record", whatever it is counted   *)
(* with: not when the row cannot be written.                               *)
OneQuestionOneRecord == past.traces <= 1

(* gate_by_score, fuse_candidates, select_context, assemble_citations:     *)
(* from the hits to the citations nothing is doubled, made up, or put      *)
(* behind what was found to be worse.                                      *)
RankingIsSound == RanksDecide /\ GatesKeepTheBest /\ ContextFits /\ CitationsStand

(* RetrievalService.search: models, withdrawals and failures are seen as   *)
(* they were, and reported as they were.                                   *)
SearchIsHonest ==
  /\ EnhancementsMayFail /\ FailuresAreTold /\ OneSpace
  /\ VectorsAreShared /\ WithdrawnIsGone /\ OneRecord

(* retrieve_for_chat and query: both of a retrieval, from the snapshot of  *)
(* the knowledge bases to the markers of the answer.                       *)
RetrievalIsSound == SearchIsHonest /\ RankingIsSound
=============================================================================
