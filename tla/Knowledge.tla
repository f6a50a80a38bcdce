----------------------------- MODULE Knowledge ------------------------------
(***************************************************************************)
(* The semantic search of the knowledge server (src/src/knowledge_mcp)     *)
(* over the table that Ingest fills: two statements that are not in one    *)
(* transaction, so that upserts may come between them, the fusion of their *)
(* results, and the ruling of a human on a known conflict, read last.      *)
(*                                                                         *)
(* How well a passage matches a query is not modelled: a statement may     *)
(* return the passages in any order.  A passage is its key, <<source,      *)
(* body>>; the flags of a passage are functions of its source.             *)
(***************************************************************************)
EXTENDS Ingest, TLC

CONSTANTS StaleSources, \* _STALE_SOURCES
          ConflictOf,   \* _PROSE_CONFLICT_MAP: conflict id of a source, or "none"
          RrfK,         \* _RRF_K
          Limit,        \* LIMIT of both statements
          TopK          \* top_k

ASSUME KnowledgeAssumption == RrfK \in Nat /\ Limit \in Nat \ {0} /\ TopK \in Nat \ {0}

VARIABLES search,  \* the search: its step, the rankings, the citations
          rulings  \* policy_resolution: [conflict, winner]

Least(a, b) == IF a <= b THEN a ELSE b

Source(passage) == passage[1]
Passages        == {r.key : r \in tables["kb_chunk"]}
Conflicts       == {ConflictOf[s] : s \in DOMAIN ConflictOf} \ {"none"}

(***************************************************************************)
(* retrieval.py: Reciprocal Rank Fusion                                    *)
(***************************************************************************)
Rank(ranking, p) == SelectInSeq(ranking, LAMBDA q : q = p)         \* 0: not in it

\* 1 / (RrfK + rank), as a fraction.
Rrf(rank) == IF rank = 0 THEN [num |-> 0, den |-> 1] ELSE [num |-> 1, den |-> RrfK + rank]

LastScore(vec, fts, p) ==                                          \* mutant
  IF Rank(fts, p) = 0 THEN Rrf(Rank(vec, p)) ELSE Rrf(Rank(fts, p))

Score(vec, fts, p) ==
  LET v == Rrf(Rank(vec, p))
      f == Rrf(Rank(fts, p))
  IN [num |-> v.num * f.den + f.num * v.den, den |-> v.den * f.den]

Greater(a, b) == a.num * b.den > b.num * a.den

Uncut(vec, fts) == vec \o Those(fts, LAMBDA p : Rank(vec, p) = 0)            \* mutant

\* The best TopK by score; equal scores keep the order in which the passages
\* were met, the vector search first.
Fuse(vec, fts) ==
  LET met == vec \o Those(fts, LAMBDA p : Rank(vec, p) = 0)
      scored == {[passage |-> met[i], score |-> Score(vec, fts, met[i]), met |-> i] : i \in DOMAIN met}
      Before(a, b) == \/ Greater(a.score, b.score)
                      \/ ~Greater(b.score, a.score) /\ a.met < b.met
      ranked == Sorted(scored, Before)
  IN [k \in 1..Least(TopK, Len(met)) |-> ranked[k].passage]

(***************************************************************************)
(* conflict.py                                                             *)
(***************************************************************************)
IsStale(p) == Source(p) \in StaleSources

_extract_conflict_ids(citations) ==
  {ConflictOf[Source(p)] : p \in ToSet(citations)} \ {"none"}

_sources_conflict(citations) ==
  \/ \E p, q \in ToSet(citations) : IsStale(p) /\ ~IsStale(q)
  \/ _extract_conflict_ids(citations) # {}

WinnersOnly(citations, winner) ==                                  \* mutant
  Those(citations, LAMBDA p : Source(p) = winner)

WinnersFirst(citations, winner) ==
  Those(citations, LAMBDA p : Source(p) = winner)
    \o Those(citations, LAMBDA p : Source(p) # winner)

(***************************************************************************)
(* semantic_search                                                         *)
(***************************************************************************)
NoSearch == [at |-> "idle", vec |-> <<>>, fused |-> <<>>, citations |-> <<>>,
             resolved |-> FALSE, conflict |-> FALSE]

KnowledgeInit == search = NoSearch /\ rulings = {}

\* The query is embedded and the nearest passages are read.
VecQuery == /\ search.at = "idle"
            /\ \E nearest \in kSubset(Least(Limit, Cardinality(Passages)), Passages) :
                 \E vec \in SetToSeqs(nearest) :
                   search' = [NoSearch EXCEPT !.at = "vec", !.vec = vec]
            /\ UNCHANGED <<ingest, rulings>>

\* The passages with the words of the query, and the fusion.
FtsQuery == /\ search.at = "vec"
            /\ \E found \in SUBSET Passages : \E fts \in SetToSeqs(found) :
                 /\ Len(fts) <= Limit
                 /\ search' = [NoSearch EXCEPT !.at = "fused", !.fused = Fuse(search.vec, fts)]
            /\ UNCHANGED <<ingest, rulings>>

\* hybrid_search raises, and semantic_search with it.
SearchFails == /\ search.at = "vec"
               /\ search' = NoSearch
               /\ UNCHANGED <<ingest, rulings>>

Answer(citations, resolved) ==
  search' = [search EXCEPT !.at = "answered", !.citations = citations,
                           !.resolved = resolved, !.conflict = _sources_conflict(citations)]

\* One of the rulings on the conflicts of the citations decides.
Override == /\ search.at = "fused"
            /\ \E r \in rulings : /\ r.conflict \in _extract_conflict_ids(search.fused)
                                  /\ Answer(WinnersFirst(search.fused, r.winner), TRUE)
            /\ UNCHANGED <<ingest, rulings>>

\* There is no ruling, or it cannot be read: apply_override swallows the error.
NoOverride == /\ search.at = "fused"
              /\ Answer(search.fused, FALSE)
              /\ UNCHANGED <<ingest, rulings>>

Forget == /\ search.at = "answered"
          /\ search' = NoSearch
          /\ UNCHANGED <<ingest, rulings>>

\* The CS lead rules on a conflict, or changes the ruling.
Rule == /\ \E c \in Conflicts, s \in DOMAIN ConflictOf :
             rulings' = {r \in rulings : r.conflict # c} \cup {[conflict |-> c, winner |-> s]}
        /\ UNCHANGED <<ingest, search>>

KnowledgeNext == VecQuery \/ FtsQuery \/ SearchFails \/ Override \/ NoOverride \/ Forget \/ Rule

-----------------------------------------------------------------------------
\* The fusion never puts a passage behind one that no search ranks better:
\* over all rankings the two statements may return.
Rankings(passages) == {r \in SetToAllKPermutations(passages) : Len(r) <= Limit}

NotWorse(ranking, p, q) == Rank(ranking, q) = 0 \/ Rank(ranking, p) \in 1..Rank(ranking, q)

FusionRespectsRanks(passages) ==
  \A vec, fts \in Rankings(passages) :
    LET fused == Fuse(vec, fts)
        met   == ToSet(vec) \cup ToSet(fts)
    IN /\ ToSet(fused) \subseteq met /\ IsInjective(fused)
       /\ Len(fused) = Least(TopK, Cardinality(met))
       /\ \A p, q \in met :
            p # q /\ NotWorse(vec, p, q) /\ NotWorse(fts, p, q) /\ Rank(fused, q) # 0 =>
              Rank(fused, p) \in 1..Rank(fused, q)

\* Over all rankings of as many passages as there are: which they are does not
\* matter, and of those beyond Limit a statement returns no more.
Fusions == [n \in 0..(Limit + 1) |-> FusionRespectsRanks(1..n)]

EveryFusionRespectsRanks == Fusions[Least(Limit + 1, Cardinality(Passages))]

\* D-13, D-14: only a ruling of a human on a conflict among the citations moves
\* a passage; nothing is dropped or added by it, the passages of one source keep
\* their order, the answer says that it was moved; and passages that are known
\* to contradict each other are flagged, with a ruling too.
OnlyHumansArbitrate ==
  search.at = "answered" =>
    LET cited == search.citations
        fused == search.fused
    IN /\ Len(cited) = Len(fused) /\ ToSet(cited) = ToSet(fused)
       /\ cited # fused => search.resolved
       /\ search.resolved => \E r \in rulings : \E p \in ToSet(cited) : ConflictOf[Source(p)] = r.conflict
       /\ \A p, q \in ToSet(cited) : Source(p) = Source(q) =>
            (Rank(cited, p) < Rank(cited, q) <=> Rank(fused, p) < Rank(fused, q))
       /\ (\E p, q \in ToSet(cited) : IsStale(p) /\ ~IsStale(q)) => search.conflict
       /\ (\E p \in ToSet(cited) : ConflictOf[Source(p)] # "none") => search.conflict
=============================================================================
