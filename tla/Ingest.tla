------------------------------- MODULE Ingest -------------------------------
(***************************************************************************)
(* The ingest pipeline (src/src/ingest): a run reads the exported snapshot *)
(* files and upserts their rows into the four tables of the knowledge      *)
(* schema, one autocommitted statement per row, one table after the other. *)
(* The files of a table are read when the run gets to it; a run may end    *)
(* after any statement and is then started again by hand.                  *)
(*                                                                         *)
(* A snapshot has the prose sources, the two indexes, the template files   *)
(* (a file is its lines: a heading of level 1 to 6, or 0 for a line that   *)
(* only looks like one, the code it starts with and the rest behind that,  *)
(* and the text up to the next), the template index of the file store and  *)
(* the ticket fields.                                                      *)
(***************************************************************************)
EXTENDS Chunking

CONSTANTS Snapshots,     \* the exports there may be
          MaxEdits,      \* bound on the exports
          MaxRuns,       \* bound on the runs
          MaxParagraphs, \* bounds on the texts whose passages are looked at:
          MaxSentences   \*   the paragraphs, and the sentences of each

ASSUME IngestAssumption == /\ MaxEdits \in Nat /\ MaxRuns \in Nat
                           /\ MaxParagraphs \in Nat /\ MaxSentences \in Nat

\* A text is already normalised.  The index of the thresholds has no id twice:
\* that is a fact about POLICY-THRESHOLD-INDEX.md, its reader does not see to it.
ASSUME SnapshotAssumption ==
  \A s \in Snapshots :
    /\ s.prose      \in Seq([source : STRING, text : Seq(Seq(Nat) \ {<<>>})])
    /\ s.thresholds \in Seq([key : STRING, value : STRING])
    /\ \A i, j \in DOMAIN s.thresholds : s.thresholds[i].key = s.thresholds[j].key => i = j
    /\ s.codes      \in Seq([key : STRING, action : STRING, linked : BOOLEAN])
    /\ s.md         \in Seq([name : STRING, lines : Seq([heading : STRING, key : STRING, rest : Seq(STRING),
                                                        level : 0..6, body : Seq(STRING)])])
    /\ \A i, j \in DOMAIN s.md : s.md[i].name = s.md[j].name => i = j
    /\ s.codemap    \in Seq([code : STRING, heading : STRING, file : STRING])

VARIABLES files,  \* the snapshot directory
          edits,  \* exports so far
          tables, \* knowledge.*: the rows [key, value, run] of each table
          run,    \* the run: table it fills (0 if none), rows left, id, whether
                  \* the files stayed the same since it began
          synced  \* history: last complete run over the files as they are, or 0

ingest == <<files, edits, tables, run, synced>>

Tables == <<"kb_chunk", "policy_threshold", "code_map", "template_library">>

(***************************************************************************)
(* sources.py                                                              *)
(***************************************************************************)
Chunk(source, passage) == [key |-> <<source, passage>>, value |-> "embedded"]

\* Each source is cut into passages; the rank, the recency flag and the
\* conflict id are functions of the source.
read_prose_sources(s) ==
  LET ChunksOf(record) == [i \in DOMAIN chunk_prose(record.text) |->
                             Chunk(record.source, chunk_prose(record.text)[i])]
  IN FlattenSeq([i \in DOMAIN s.prose |-> ChunksOf(s.prose[i])])

read_threshold_rows(s) == s.thresholds

\* A row is linked to the template of its own code, or to none.
read_code_map_rows(s) ==
  [i \in DOMAIN s.codes |->
     LET row == s.codes[i]
     IN [key |-> row.key, value |-> <<row.action, IF row.linked THEN row.key ELSE "none">>]]

\* The text from line i on, up to the first of the lines in ends.
Text(lines, i, ends) ==
  LET upto == Min(ends \cup {Len(lines) + 1}) - 1
      Rest == [k \in 1..(upto - i) |-> <<lines[i + k].heading>> \o lines[i + k].body]
  IN lines[i].body \o FlattenSeq(Rest)

\* Where a template begins: a heading of level 1 to 4 that starts with a code.
Coded(lines) == {i \in DOMAIN lines : lines[i].level \in 1..4 /\ lines[i].key # "none"}

\* What stands behind the code on the heading line is the front of the body
\* (re.split cuts right behind the code); a template without any is dropped.  The
\* cap of 4000 characters is left out.
_extract_templates_from_file(lines) ==
  LET Template(i) == [key   |-> lines[i].key,
                      value |-> lines[i].rest \o Text(lines, i, {j \in Coded(lines) : j > i})]
      kept == Places(lines, LAMBDA i : i \in Coded(lines) /\ Template(i).value # <<>>)
  IN [n \in DOMAIN kept |-> Template(kept[n])]

Sections(s) == FlattenSeq([i \in DOMAIN s.md |-> _extract_templates_from_file(s.md[i].lines)])

EverySection(s) == Sections(s)                                     \* mutant

\* One row per code: the last of its sections, at the place of the first.
LastWins(sections) ==
  LET Same(n, k) == sections[k].key = sections[n].key
      firsts == Places(sections, LAMBDA n : \A k \in 1..(n - 1) : ~Same(n, k))
      Lasts(n) == CHOOSE l \in DOMAIN sections : /\ Same(n, l)
                                                 /\ \A k \in (l + 1)..Len(sections) : ~Same(n, k)
  IN [i \in DOMAIN firsts |-> sections[Lasts(firsts[i])]]

read_templates(s) == LastWins(Sections(s))

Read(s, table) == CASE table = "kb_chunk"         -> read_prose_sources(s)
                    [] table = "policy_threshold" -> read_threshold_rows(s)
                    [] table = "code_map"         -> read_code_map_rows(s)
                    [] table = "template_library" -> read_templates(s)

(***************************************************************************)
(* pipeline.py                                                             *)
(***************************************************************************)
FirstKept(table, row) ==                                           \* mutant
  IF \E r \in tables[table] : r.key = row.key THEN tables[table]
  ELSE tables[table] \cup {[key |-> row.key, value |-> row.value, run |-> run.id]}

\* INSERT ... ON CONFLICT (key) DO UPDATE
Upserted(table, row) ==
  {r \in tables[table] : r.key # row.key}
    \cup {[key |-> row.key, value |-> row.value, run |-> run.id]}

IngestInit == /\ files \in Snapshots /\ edits = 0
              /\ tables = [t \in ToSet(Tables) |-> {}]
              /\ run = [at |-> 0, left |-> <<>>, id |-> 0, same |-> TRUE]
              /\ synced = 0

\* The prose is read and all its passages are embedded before the first upsert.
\* The id, --run-id or the second the run starts in (cli.py:87), is taken to be
\* new and later than those before it.
StartRun == /\ run.at = 0 /\ run.id < MaxRuns
            /\ run' = [at |-> 1, left |-> Read(files, Tables[1]), id |-> run.id + 1, same |-> TRUE]
            /\ UNCHANGED <<files, edits, tables, synced>>

Upsert == /\ run.at # 0 /\ run.left # <<>>
          /\ tables' = [tables EXCEPT ![Tables[run.at]] = Upserted(Tables[run.at], Head(run.left))]
          /\ run' = [run EXCEPT !.left = Tail(run.left)]
          /\ UNCHANGED <<files, edits, synced>>

NextTable == /\ run.at \in 1..(Len(Tables) - 1) /\ run.left = <<>>
             /\ run' = [run EXCEPT !.at = run.at + 1, !.left = Read(files, Tables[run.at + 1])]
             /\ UNCHANGED <<files, edits, tables, synced>>

RunCompletes == /\ run.at = Len(Tables) /\ run.left = <<>>
                /\ run' = [run EXCEPT !.at = 0]
                /\ synced' = IF run.same THEN run.id ELSE synced
                /\ UNCHANGED <<files, edits, tables>>

\* The embedding call or a statement raises, or the process dies: what was
\* upserted stays.
RunFails == /\ run.at # 0
            /\ run' = [run EXCEPT !.at = 0, !.left = <<>>]
            /\ UNCHANGED <<files, edits, tables, synced>>

\* Somebody exports the sources again.
Export == /\ edits < MaxEdits
          /\ files' \in Snapshots \ {files}
          /\ edits' = edits + 1
          /\ run' = [run EXCEPT !.same = FALSE]
          /\ synced' = 0
          /\ UNCHANGED tables

IngestNext == StartRun \/ Upsert \/ NextTable \/ RunCompletes \/ RunFails \/ Export

-----------------------------------------------------------------------------
\* chunk.py keeps what it should of every text of a few paragraphs, with
\* sentences as long as those of the export.
Lengths(s)    == UNION {UNION {ToSet(p) : p \in ToSet(r.text)} : r \in ToSet(s.prose)}
SmallTexts(s) == LET paragraphs == UNION {[1..n -> Lengths(s)] : n \in 1..MaxSentences}
                 IN UNION {[1..n -> paragraphs] : n \in 0..MaxParagraphs}
Cut           == [s \in Snapshots |-> \A text \in SmallTexts(s) : ChunksFaithfully(text)]

EveryTextIsCutFaithfully == Cut[files]

\* exact.py: the row a lookup by key answers with; none is a KeyError.
Lookup(table, key) == {r \in tables[table] : r.key = key}

\* What an export says of a key.  Of two sections of a template code the later
\* one counts; of two rows of the code map either may be found, see below.
Wanted(s, table) == IF table = "template_library" THEN Sections(s) ELSE Read(s, table)
Keys(s, table)   == {Wanted(s, table)[n].key : n \in DOMAIN Wanted(s, table)}
Says(s, table, key) ==
  LET wanted == Wanted(s, table)
      at     == {n \in DOMAIN wanted : wanted[n].key = key}
      which  == IF table = "code_map" THEN at ELSE {n \in at : \A k \in at : k <= n}
  IN {wanted[n].value : n \in which}

\* After a complete run over files that are still the same every exact lookup
\* and every search finds what the files say now, whatever earlier runs left
\* behind; what they left behind carries an older snapshot_version.
StoreIsCurrent ==
  /\ \A table \in ToSet(Tables) : \A r1, r2 \in tables[table] : r1.key = r2.key => r1 = r2
  /\ synced # 0 => \A table \in ToSet(Tables) :
       /\ \A key \in Keys(files, table) :
            /\ Lookup(table, key) # {}
            /\ \A r \in Lookup(table, key) : r.value \in Says(files, table, key)
       /\ \A r \in tables[table] : r.key \in Keys(files, table) <=> r.run >= synced

\* A run over files that a complete run has read changes no answer, not even for
\* a moment.  The code map is left out: read_code_map_rows returns two rows of the
\* codes that CODE-MAP.md has in two tables (B4 and C2), and each run writes first
\* the one, then the other, where cli.py:9 says "unchanged content is a no-op".
Answers(rows) == {<<r.key, r.value>> : r \in rows}
RerunChangesNothing ==
  [][synced # 0 /\ synced' # 0 =>
       \A table \in ToSet(Tables) \ {"code_map"} : Answers(tables'[table]) = Answers(tables[table])]_ingest
=============================================================================
