----------------------------- MODULE Grounding ------------------------------
(***************************************************************************)
(* What the drafting agents are grounded on: the exported snapshot, the    *)
(* knowledge tables an ingest run fills from it, the searches over them,   *)
(* and the file store, which reads the same snapshot without the tables.   *)
(***************************************************************************)
EXTENDS Knowledge, FileStore

vars == <<ingest, search, rulings>>

Init == IngestInit /\ KnowledgeInit

Next == \/ IngestNext    /\ UNCHANGED <<search, rulings>>
        \/ KnowledgeNext

Spec == Init /\ [][Next]_vars

-----------------------------------------------------------------------------
TypeOK ==
  /\ files \in Snapshots /\ edits \in 0..MaxEdits
  /\ run.at \in 0..Len(Tables) /\ run.id \in 0..MaxRuns /\ run.same \in BOOLEAN
  /\ synced \in 0..run.id
  /\ \A t \in ToSet(Tables) : \A r \in tables[t] : r.run \in 1..run.id
  /\ search.at \in {"idle", "vec", "fused", "answered"}
  /\ search.resolved \in BOOLEAN /\ search.conflict \in BOOLEAN
  /\ ToSet(search.vec) \cup ToSet(search.fused) \cup ToSet(search.citations) \subseteq Passages
  /\ Len(search.vec) <= Limit /\ Len(search.fused) <= TopK
  /\ \A r \in rulings : r.conflict \in Conflicts /\ r.winner \in DOMAIN ConflictOf

\* The two readers of the template files agree: once a run is complete, the
\* library and the file store begin the template of a heading with the same text,
\* although the one cuts at every heading with a code and the other at headings
\* of the same level, and although the library has the rest of the heading line
\* in front.  Only where a code or a heading occurs twice may they differ (the
\* library has the last section, the file store the first), and where the library
\* keeps no section of a code, because it has no text: a row of an older run may
\* then still answer.
Occurs(f, heading) == {i \in DOMAIN f.lines : f.lines[i].heading = heading /\ f.lines[i].level # 0}

\* The code and the heading of line i of f occur nowhere else.
Once(s, f, i) ==
  /\ \A g \in ToSet(s.md) : \A k \in Coded(g.lines) :
       g.lines[k].key = f.lines[i].key => g = f /\ k = i
  /\ Occurs(f, f.lines[i].heading) = {i}

Begin(a, b) == IsPrefix(a, b) \/ IsPrefix(b, a)

TemplatesAgree ==
  synced # 0 => \A f \in ToSet(files.md) : \A i \in Coded(f.lines) :
    LET line == f.lines[i]
        text == line.rest \o _extract_section(files.md, f.name, line.heading)
    IN Once(files, f, i) /\ line.key \in Keys(files, "template_library") =>
         \A r \in Lookup("template_library", line.key) : Begin(r.value, text)
=============================================================================
