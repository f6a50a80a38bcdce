------------------------------ MODULE Chunking ------------------------------
(***************************************************************************)
(* chunk_prose (src/src/ingest/chunk.py): how a normalised text is cut     *)
(* into the passages that are embedded.  A sentence is its length, a       *)
(* paragraph a sequence of sentences, a text a sequence of paragraphs; a   *)
(* passage is a text too, because a text that has no passage of its own    *)
(* length is kept whole.                                                   *)
(***************************************************************************)
EXTENDS Selection

CONSTANTS MaxChars,  \* MAX_CHARS
          MinChars   \* MIN_CHARS

ASSUME ChunkAssumption == MinChars \in Nat /\ MaxChars \in Nat /\ MinChars < MaxChars

\* A blank between two sentences.
Size(paragraph) ==
  LET size[n \in 0..Len(paragraph)] == IF n = 0 THEN -1 ELSE size[n - 1] + paragraph[n] + 1
  IN size[Len(paragraph)]

\* One more sentence: into the current piece, or into a new one if that is full.
Add(acc, sentence) ==
  IF acc.current # <<>> /\ Size(Append(acc.current, sentence)) > MaxChars
  THEN [done |-> Append(acc.done, acc.current), current |-> <<sentence>>]
  ELSE [acc EXCEPT !.current = Append(acc.current, sentence)]

\* The pieces after all sentences.
Filled(paragraph) ==
  LET filled[n \in 0..Len(paragraph)] == IF n = 0 THEN [done |-> <<>>, current |-> <<>>]
                                         ELSE Add(filled[n - 1], paragraph[n])
  IN filled[Len(paragraph)]

TailDropped(paragraph) ==                                          \* mutant
  IF Size(paragraph) <= MaxChars THEN <<paragraph>> ELSE Filled(paragraph).done

\* A paragraph that is too long is cut between sentences, each piece filled up
\* before the next is begun.
Pieces(paragraph) ==
  IF Size(paragraph) <= MaxChars THEN <<paragraph>>
  ELSE Append(Filled(paragraph).done, Filled(paragraph).current)

\* Short pieces are left out, unless nothing else is left of the text.
chunk_prose(text) ==
  LET pieces == FlattenSeq([i \in DOMAIN text |-> Pieces(text[i])])
      kept   == Those(pieces, LAMBDA p : Size(p) >= MinChars)
  IN IF text # <<>> /\ kept = <<>> THEN <<text>>
     ELSE [i \in DOMAIN kept |-> <<kept[i]>>]

-----------------------------------------------------------------------------
\* The cut of a paragraph loses, repeats and reorders no sentence, makes no
\* piece longer than MaxChars that could have been cut, and no piece that its
\* neighbour's first sentence would still fit in.
WellCut(paragraph) ==
  LET pieces == Pieces(paragraph)
  IN /\ FlattenSeq(pieces) = paragraph
     /\ \A i \in DOMAIN pieces : Size(pieces[i]) <= MaxChars \/ Len(pieces[i]) = 1
     /\ \A i \in 1..(Len(pieces) - 1) :
          Size(Append(pieces[i], Head(pieces[i + 1]))) > MaxChars

\* chunk.py's guarantees: at least one passage of a text that is not empty, and
\* what no passage has is only what was cut off shorter than MinChars.
ChunksFaithfully(text) ==
  LET passages == chunk_prose(text)
      cut(i)   == Pieces(text[i])
  IN /\ text # <<>> => passages # <<>>
     /\ \A i \in DOMAIN text :
          /\ WellCut(text[i])
          /\ \A k \in DOMAIN cut(i) :
               \/ <<cut(i)[k]>> \in ToSet(passages)
               \/ Size(cut(i)[k]) < MinChars
     /\ \/ passages = <<text>>
        \/ \A p \in ToSet(passages) : Len(p) = 1 /\ Size(p[1]) >= MinChars
=============================================================================
