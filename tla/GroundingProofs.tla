--------------------------- MODULE GroundingProofs ---------------------------
(***************************************************************************)
(* Proofs about what the agents are grounded on: the store mirrors the     *)
(* last complete run, a repeated run changes no answer, the fusion keeps   *)
(* to the rankings, only a ruling changes its order, and the drafts and    *)
(* the classification of a ticket cite only what the exports have.  For    *)
(* any exports, passages, rankings, tickets and answers of the claude CLI. *)
(***************************************************************************)
EXTENDS Grounding, ChunkingProofs

-----------------------------------------------------------------------------
(***************************************************************************)
(* The files are always one of the exports: what is true of every export   *)
(* is true in every state.                                                 *)
(***************************************************************************)
FilesInv == files \in Snapshots

LEMMA FilesInit == Init => FilesInv
BY DEF Init, IngestInit, FilesInv

LEMMA FilesStep == FilesInv /\ [Next]_vars => FilesInv'
<1> SUFFICES ASSUME FilesInv, [Next]_vars PROVE FilesInv'
  OBVIOUS
<1>1. CASE IngestNext
  BY <1>1 DEF FilesInv, IngestNext, StartRun, Upsert, NextTable, RunCompletes, RunFails, Export
<1>2. CASE KnowledgeNext
  BY <1>2 DEF FilesInv, KnowledgeNext, VecQuery, FtsQuery, SearchFails, Override, NoOverride,
              Forget, Rule, ingest
<1>3. CASE UNCHANGED vars
  BY <1>3 DEF FilesInv, vars, ingest
<1> QED BY <1>1, <1>2, <1>3 DEF Next

LEMMA FilesCorrect == Spec => []FilesInv
BY FilesInit, FilesStep, PTL DEF Spec

-----------------------------------------------------------------------------
(***************************************************************************)
(* fd_classification.py                                                    *)
(***************************************************************************)

\* A value passes the check of one field only if it is among the choices.
LEMMA ValidIsAllowed ==
  ASSUME NEW value, NEW allowed, validate_field(value, allowed) = "valid"
  PROVE  value \in allowed
BY DEF validate_field

LEMMA RequestIsAllowed ==
  ASSUME NEW data, NEW props, NEW level, RequestStatus(data, props, level) = "valid"
  PROVE  props["Customer_Request"] \in
           IF level # "valid" THEN field_choices(data, "Customer_Request")
           ELSE customer_requests_for(data, props["Level_in"])
BY ValidIsAllowed DEF RequestStatus

LEMMA ListedIsValid ==
  ASSUME NEW data
  PROVE  OnlyListedIsValid(data)
<1> SUFFICES ASSUME NEW ai \in AiProps
             PROVE  LET u == build_fd_property_update(data, ai)
                    IN /\ \A f \in OWNED_FIELDS :
                            /\ ai[f] # "" => u.value[f] = ai[f]
                            /\ u.status[f] = "valid" => u.value[f] \in field_choices(data, f)
                       /\ u.status["Level_in"] = "valid" /\ u.status["Customer_Request"] = "valid" =>
                            u.value["Customer_Request"] \in data.nested[u.value["Level_in"]]
                       /\ u.all_valid => \A f \in OWNED_FIELDS : u.value[f] \in field_choices(data, f)
  BY DEF OnlyListedIsValid
<1> DEFINE u == build_fd_property_update(data, ai)
           props == AiValues(ai)
           level == validate_field(props["Level_in"], level_in_choices(data))
           request == props["Customer_Request"]
           Status(f) == CASE f = "Level_in"         -> level
                          [] f = "Customer_Request" -> RequestStatus(data, props, level)
                          [] OTHER -> validate_field(props[f], field_choices(data, f))
<1>1. /\ u.value = props
      /\ \A f \in OWNED_FIELDS : u.status[f] = Status(f)
      /\ u.all_valid <=> \A f \in OWNED_FIELDS : u.status[f] = "valid"
  BY DEF build_fd_property_update
<1>2. \A f \in OWNED_FIELDS : ai[f] # "" => props[f] = ai[f]
  BY DEF AiValues
<1>3. "Level_in" \in OWNED_FIELDS /\ "Customer_Request" \in OWNED_FIELDS
  BY DEF OWNED_FIELDS
<1> HIDE DEF u, props
<1>4. level = "valid" => props["Level_in"] \in DOMAIN data.nested
  BY ValidIsAllowed DEF level_in_choices
<1> HIDE DEF level
<1>5. level = "valid" /\ Status("Customer_Request") = "valid" => request \in data.nested[props["Level_in"]]
  BY <1>4, RequestIsAllowed DEF customer_requests_for
<1>6. ASSUME NEW f \in OWNED_FIELDS, Status(f) = "valid"
      PROVE  props[f] \in field_choices(data, f)
  <2>1. CASE f = "Level_in"
    BY <1>4, <1>6, <2>1 DEF field_choices, level_in_choices
  <2>2. CASE f = "Customer_Request" /\ level = "valid"
    BY <1>4, <1>5, <1>6, <2>2 DEF field_choices
  <2>3. CASE f = "Customer_Request" /\ level # "valid"
    BY <1>6, <2>3, RequestIsAllowed
  <2>4. CASE f # "Level_in" /\ f # "Customer_Request"
    BY <1>6, <2>4, ValidIsAllowed
  <2> QED BY <2>1, <2>2, <2>3, <2>4
<1>7. /\ Status("Level_in") = level
      /\ \A f \in OWNED_FIELDS : Status(f) = "valid" => props[f] \in field_choices(data, f)
  BY <1>6
<1> HIDE DEF Status, request
<1> QED BY <1>1, <1>2, <1>3, <1>5, <1>7 DEF u, request

\* A classification that the check passes is in the ticket fields snapshot, and
\* its request is one of its own Level_in (fd_classification.py:128-233).
THEOREM ValidMeansListedCorrect == Spec => []ValidMeansListed
<1>1. FilesInv => ValidMeansListed
  BY ListedIsValid DEF FilesInv, ValidMeansListed, Listed
<1> QED BY <1>1, FilesCorrect, PTL

-----------------------------------------------------------------------------
(***************************************************************************)
(* cs_team_demo.py: the hints                                              *)
(***************************************************************************)
Objects    == [action : STRING, body : Seq(STRING), hint : STRING]
IsDraft(o) == {"action", "hint"} \subseteq DOMAIN o /\ o.action = "draft"

\* The drafts among the objects the CLI came back with.
DraftsOf(objects) == At(objects, {i \in DOMAIN objects : objects[i].action = "draft"})

LEMMA DraftsOfType ==
  ASSUME NEW objects \in Seq(Objects)
  PROVE  /\ DraftsOf(objects) \in Seq(Objects)
         /\ \A n \in 1..Len(DraftsOf(objects)) : IsDraft(DraftsOf(objects)[n])
<1> DEFINE I == {i \in DOMAIN objects : objects[i].action = "draft"}
           s == At(objects, I)
<1>1. I \in SUBSET DOMAIN objects
  OBVIOUS
<1>2. /\ s \in Seq(Objects) /\ Len(s) = Cardinality(I) /\ InOrder(I) \in [1..Cardinality(I) -> I]
      /\ \A n \in 1..Cardinality(I) : s[n] = objects[InOrder(I)[n]]
  BY <1>1, AtProperties
<1>3. \A i \in I : IsDraft(objects[i])
  <2>1. \A o \in Objects : {"action", "hint"} \subseteq DOMAIN o
    BY DEF Objects
  <2>2. \A i \in I : objects[i] \in Objects /\ objects[i].action = "draft"
    OBVIOUS
  <2> HIDE DEF I
  <2> QED BY <2>1, <2>2 DEF IsDraft
<1>4. s = DraftsOf(objects)
  BY DEF DraftsOf
<1> HIDE DEF I, s
<1>5. \A n \in 1..Len(s) : IsDraft(s[n])
  BY <1>2, <1>3
<1> QED BY <1>2, <1>4, <1>5

LEMMA ParsedIsDraft ==
  ASSUME NEW output \in CliOutputs
  PROVE  IsDraft(_run_via_claude_cli(output))
<1> DEFINE whole == DraftsOf(output.envelope)
           drafts == DraftsOf(output.objects)
<1>1. /\ output.exit \in {"zero", "nonzero", "not_found"}
      /\ output.envelope \in Seq(Objects) /\ output.objects \in Seq(Objects)
  BY CliAssumption DEF Objects
<1>2. /\ whole \in Seq(Objects) /\ \A n \in 1..Len(whole) : IsDraft(whole[n])
      /\ drafts \in Seq(Objects) /\ \A n \in 1..Len(drafts) : IsDraft(drafts[n])
  BY <1>1, DraftsOfType
<1>3. _parse_verdict(output) = IF whole # <<>> THEN whole[1]
                               ELSE IF drafts # <<>> THEN drafts[Len(drafts)]
                               ELSE Verdict(<<>>, "parse_error")
  BY DEF _parse_verdict, Those, DraftsOf
<1>4. \A hint : IsDraft(Verdict(<<>>, hint))
  BY DEF Verdict, IsDraft
<1> HIDE DEF whole, drafts
<1>5. /\ whole # <<>> => 1 \in 1..Len(whole)
      /\ drafts # <<>> => Len(drafts) \in 1..Len(drafts)
  BY <1>2
<1>6. IsDraft(_parse_verdict(output))
  BY <1>2, <1>3, <1>4, <1>5
<1> QED BY <1>1, <1>4, <1>6 DEF _run_via_claude_cli

\* Whatever field the instruction is in, the screening names one.
LEMMA ScreenedIsNamed ==
  ASSUME NEW t \in Tickets, t.injected # {}
  PROVE  _pre_screen_ticket(t) \in Injections
<1>1. t.injected \subseteq {"body", "subject", "order_ref"}
  BY TicketAssumption
<1>2. "body" \in t.injected \/ "subject" \in t.injected \/ "order_ref" \in t.injected
  BY <1>1
<1> QED BY <1>2 DEF _pre_screen_ticket, Injections

LEMMA EveryTicketIsFlagged ==
  ASSUME NEW md
  PROVE  FlaggedOn(md)
<1> SUFFICES ASSUME NEW t \in Tickets, t.injected # {}
             PROVE  /\ \A idx \in Indexes : /\ DryVerdict(idx, md, t).action = "draft"
                                            /\ DryVerdict(idx, md, t).hint \in Injections
                    /\ \A output \in CliOutputs :
                         LET own == _run_via_claude_cli(output).hint
                         IN /\ LiveVerdict(t, output).action = "draft"
                            /\ LiveVerdict(t, output).hint \in
                                 IF own = "none" THEN Injections ELSE {own}
  BY DEF FlaggedOn
<1>1. _pre_screen_ticket(t) \in Injections
  BY ScreenedIsNamed
<1>2. ASSUME NEW idx \in Indexes
      PROVE  DryVerdict(idx, md, t).action = "draft" /\ DryVerdict(idx, md, t).hint \in Injections
  <2> DEFINE hint == _pre_screen_ticket(t)
  <2>1. hint # "none"
    BY <1>1 DEF Injections
  <2>2. \A body, cite, h : Draft(body, cite, h).action = "draft" /\ Draft(body, cite, h).hint = h
    BY DEF Draft
  <2>3. DryVerdict(idx, md, t) = IF t.order_ref = "" THEN Draft(VerifyOrder, "FLOW-1", hint)
                                 ELSE _build_grounded_draft(idx, md, t.sub_type, hint)
    BY <2>1 DEF DryVerdict, _simulate_verdict
  <2>4. \E body, cite : _build_grounded_draft(idx, md, t.sub_type, hint) = Draft(body, cite, hint)
    BY DEF _build_grounded_draft, Acknowledged
  <2> HIDE DEF hint
  <2>5. \E body, cite : DryVerdict(idx, md, t) = Draft(body, cite, hint)
    BY <2>3, <2>4
  <2> QED BY <1>1, <2>2, <2>5 DEF hint
<1>3. ASSUME NEW output \in CliOutputs
      PROVE  LET own == _run_via_claude_cli(output).hint
             IN /\ LiveVerdict(t, output).action = "draft"
                /\ LiveVerdict(t, output).hint \in IF own = "none" THEN Injections ELSE {own}
  BY <1>1, ParsedIsDraft DEF LiveVerdict, IsDraft
<1> QED BY <1>2, <1>3

\* A ticket with an instruction to the model in any field gets a draft, from
\* either runner and whatever the CLI answers; the hint names the injection but
\* where the CLI's verdict has one of its own (cs_team_demo.py:245-448).
THEOREM InjectionIsFlaggedCorrect == Spec => []InjectionIsFlagged
<1>1. FilesInv => InjectionIsFlagged
  BY EveryTicketIsFlagged DEF FilesInv, InjectionIsFlagged, Flagged
<1> QED BY <1>1, FilesCorrect, PTL

-----------------------------------------------------------------------------
(***************************************************************************)
(* template_store.py and cs_team_demo.py: the draft                        *)
(***************************************************************************)

\* The first place of a sequence whose element is not Nothing, or 0.
FirstOther(s, nothing) == SelectInSeq(s, LAMBDA t : t # nothing)

LEMMA FirstOtherIsFirst ==
  ASSUME NEW s, NEW n \in Nat, DOMAIN s = 1..n, Len(s) = n, NEW nothing
  PROVE  LET first == FirstOther(s, nothing)
         IN \/ first = 0 /\ \A i \in 1..n : s[i] = nothing
            \/ first \in 1..n /\ s[first] # nothing /\ \A k \in 1..(first - 1) : s[k] = nothing
<1> DEFINE I == {i \in 1..Len(s) : s[i] # nothing}
<1>1. FirstOther(s, nothing) = IF I # {} THEN Min(I) ELSE 0
  BY DEF FirstOther, SelectInSeq
<1>2. CASE I = {}
  BY <1>1, <1>2
<1>3. CASE I # {}
  <2>1. I \subseteq Nat
    OBVIOUS
  <2>2. Min(I) \in I /\ \A i \in I : Min(I) <= i
    <3> HIDE DEF I
    <3> QED BY <1>3, <2>1, MinIsLeast
  <2> DEFINE m == Min(I)
  <2>3. m \in 1..n /\ s[m] # nothing /\ \A i \in I : m <= i
    BY <2>2
  <2> HIDE DEF m
  <2>4. \A k \in 1..(m - 1) : s[k] = nothing
    BY <2>3
  <2>5. FirstOther(s, nothing) = m
    BY <1>1, <1>3 DEF m
  <2> QED BY <2>3, <2>4, <2>5
<1> QED BY <1>2, <1>3

\* The variants of a code are numbered.
IndexRows == [code : STRING, heading : STRING, file : STRING]

LEMMA VariantsAreNumbered ==
  ASSUME NEW rows \in Seq(IndexRows), NEW code \in DOMAIN _parse_code_map(rows)
  PROVE  \E n \in Nat : /\ DOMAIN _parse_code_map(rows)[code] = 1..n
                        /\ Len(_parse_code_map(rows)[code]) = n
<1> DEFINE I == {i \in DOMAIN rows : rows[i].code = code}
           mine == At(rows, I)
           J == {i \in DOMAIN mine : \A k \in 1..(i - 1) : mine[k] # mine[i]}
           first == InOrder(J)
           Row(n) == [heading |-> mine[first[n]].heading, file |-> mine[first[n]].file]
<1>1. _parse_code_map(rows)[code] = [n \in DOMAIN first |-> Row(n)]
  <2>1. code \in {r.code : r \in ToSet(rows)}
    BY DEF _parse_code_map
  <2> QED BY <2>1 DEF _parse_code_map, Those, Places
<1>2. mine \in Seq(IndexRows)
  <2>1. I \in SUBSET DOMAIN rows
    OBVIOUS
  <2> HIDE DEF I
  <2> QED BY <2>1, AtProperties
<1> HIDE DEF mine
<1>3. J \subseteq Int /\ IsFiniteSet(J)
  <2>1. DOMAIN mine = 1..Len(mine) /\ Len(mine) \in Nat
    BY <1>2
  <2>2. IsFiniteSet(1..Len(mine)) /\ J \subseteq 1..Len(mine)
    BY <2>1, FS_Interval
  <2> QED BY <2>2, FS_Subset
<1> HIDE DEF J
<1>4. Cardinality(J) \in Nat /\ DOMAIN first = 1..Cardinality(J)
  BY <1>3, InOrderProperties
<1> HIDE DEF first, Row
<1> DEFINE row == [n \in DOMAIN first |-> Row(n)]
<1>5. DOMAIN row = 1..Cardinality(J) /\ Len(row) = Cardinality(J)
  BY <1>4
<1> HIDE DEF row
<1>6. row = _parse_code_map(rows)[code]
  BY <1>1 DEF row
<1> QED BY <1>4, <1>5, <1>6

LEMMA IndexIsParsed ==
  ASSUME NEW idx \in Indexes
  PROVE  \E rows \in Seq(IndexRows) : idx = _parse_code_map(rows)
BY SnapshotAssumption DEF Indexes, IndexRows

\* A code has a template exactly if one of its variants has a text.
LEMMA TemplateOfCode ==
  ASSUME NEW idx \in Indexes, NEW md, NEW code
  PROVE  LET text == get_template_from_file(idx, md, code)
         IN IF text = <<>> THEN Texts(idx, md, code) = {} ELSE text \in Texts(idx, md, code)
<1> DEFINE text == get_template_from_file(idx, md, code)
           Section(v) == _extract_section(md, v.file, v.heading)
           variants == idx[code]
           texts == [i \in DOMAIN variants |-> Section(variants[i])]
<1>1. CASE code \notin DOMAIN idx
  BY <1>1 DEF get_template_from_file, Texts
<1>2. CASE code \in DOMAIN idx
  <2>1. PICK n \in Nat : DOMAIN variants = 1..n /\ Len(variants) = n
    <3>1. PICK rows \in Seq(IndexRows) : idx = _parse_code_map(rows)
      BY IndexIsParsed
    <3> QED BY <1>2, <3>1, VariantsAreNumbered
  <2>2. text = IF FirstOther(texts, <<>>) = 0 THEN <<>> ELSE texts[FirstOther(texts, <<>>)]
    BY <1>2 DEF get_template_from_file, FirstOther
  <2>3. Texts(idx, md, code) = {Section(v) : v \in ToSet(variants)} \ {<<>>}
    BY <1>2 DEF Texts
  <2>4. ToSet(variants) = {variants[i] : i \in 1..n}
    BY <2>1 DEF ToSet
  <2> HIDE DEF variants, Section
  <2>5. DOMAIN texts = 1..n /\ Len(texts) = n /\ \A i \in 1..n : texts[i] = Section(variants[i])
    BY <2>1
  <2> HIDE DEF texts
  <2>6. \/ FirstOther(texts, <<>>) = 0 /\ \A i \in 1..n : texts[i] = <<>>
        \/ FirstOther(texts, <<>>) \in 1..n /\ texts[FirstOther(texts, <<>>)] # <<>>
    BY <2>5, FirstOtherIsFirst
  <2>7. CASE FirstOther(texts, <<>>) = 0 /\ \A i \in 1..n : texts[i] = <<>>
    BY <2>2, <2>3, <2>4, <2>5, <2>7
  <2>8. CASE FirstOther(texts, <<>>) \in 1..n /\ texts[FirstOther(texts, <<>>)] # <<>>
    <3> DEFINE k == FirstOther(texts, <<>>)
    <3>1. k \in 1..n /\ text = texts[k] /\ text # <<>>
      BY <2>2, <2>8
    <3>2. text = Section(variants[k]) /\ variants[k] \in ToSet(variants)
      BY <2>4, <2>5, <3>1
    <3> QED BY <2>3, <3>1, <3>2
  <2> QED BY <2>6, <2>7, <2>8
<1> QED BY <1>1, <1>2

\* The lines of a template file, as the snapshots have them.
Lines == [heading : STRING, key : STRING, rest : Seq(STRING), level : 0..6,
          body : Seq(STRING)]

\* The template files of a snapshot have their types, and a name has one file.
LEMMA FilesType ==
  ASSUME NEW s \in Snapshots
  PROVE  /\ \E n \in Nat : DOMAIN s.md = 1..n
         /\ \A i \in DOMAIN s.md : s.md[i].lines \in Seq(Lines)
         /\ \A f \in ToSet(s.md) : f.lines \in Seq(Lines)
         /\ \A f, g \in ToSet(s.md) : f.name = g.name => f = g
<1> DEFINE Files == [name : STRING, lines : Seq(Lines)]
<1>1. s.md \in Seq(Files) /\ \A i, j \in DOMAIN s.md : s.md[i].name = s.md[j].name => i = j
  BY SnapshotAssumption DEF Lines
<1> DEFINE X == Seq(Lines)
<1>2. Files = [name : STRING, lines : X]
  OBVIOUS
<1> HIDE DEF Files, X
<1>3. \A i \in DOMAIN s.md : s.md[i] \in Files
  BY <1>1
<1>4. \A i \in DOMAIN s.md : s.md[i].lines \in X
  BY <1>2, <1>3
<1>5. \A f \in ToSet(s.md) : \E i \in DOMAIN s.md : f = s.md[i]
  BY DEF ToSet
<1>6. \E n \in Nat : DOMAIN s.md = 1..n
  BY <1>1
<1>7. \A f \in ToSet(s.md) : f.lines \in X
  BY <1>4, <1>5
<1>8. ASSUME NEW f \in ToSet(s.md), NEW g \in ToSet(s.md), f.name = g.name
      PROVE  f = g
  <2>1. PICK i \in DOMAIN s.md : f = s.md[i]
    BY <1>5
  <2>2. PICK j \in DOMAIN s.md : g = s.md[j]
    BY <1>5
  <2>3. i = j
    BY <1>1, <1>8, <2>1, <2>2
  <2> QED BY <2>1, <2>2, <2>3
<1>9. X = Seq(Lines)
  BY DEF X
<1> QED BY <1>4, <1>6, <1>7, <1>8, <1>9

\* A cut of the text from one line on ends at some later line.
LEMMA CutStands ==
  ASSUME NEW f, f.lines \in Seq(Lines), NEW i \in DOMAIN f.lines,
         NEW D \in SUBSET DOMAIN f.lines, \A j \in D : j > i
  PROVE  Stands(f, i, Text(f.lines, i, D))
<1> DEFINE N == Len(f.lines)
           S == D \cup {N + 1}
           m == Min(S)
<1>1. N \in Nat /\ i \in 1..N /\ D \subseteq 1..N
  OBVIOUS
<1>2. m \in S /\ \A j \in S : m <= j
  <2>1. S \subseteq Nat /\ S # {}
    BY <1>1
  <2> HIDE DEF S
  <2> QED BY <2>1, MinIsLeast
<1>3. m \in (i + 1)..(N + 1)
  <2>1. \A j \in S : j \in (i + 1)..(N + 1)
    BY <1>1
  <2> HIDE DEF S, m
  <2> QED BY <1>2, <2>1
<1>4. Min({m} \cup {N + 1}) = m
  <2> HIDE DEF m, N
  <2>1. {m} \cup {N + 1} \subseteq Nat
    BY <1>1, <1>3
  <2>2. /\ Min({m} \cup {N + 1}) \in {m} \cup {N + 1}
        /\ \A j \in {m} \cup {N + 1} : Min({m} \cup {N + 1}) <= j
    BY <2>1, MinIsLeast
  <2> DEFINE k == Min({m} \cup {N + 1})
  <2>3. (k = m \/ k = N + 1) /\ k <= m
    BY <2>2
  <2> HIDE DEF k
  <2>4. k = m
    BY <1>1, <1>3, <2>3
  <2> QED BY <2>4 DEF k
<1>5. Text(f.lines, i, D) = Text(f.lines, i, {m})
  BY <1>4 DEF Text
<1> HIDE DEF m
<1> QED BY <1>3, <1>5 DEF Stands

\* A text that the file store finds stands below its heading in the file.
LEMMA SectionStands ==
  ASSUME NEW s \in Snapshots, NEW file, NEW heading,
         _extract_section(s.md, file, heading) # <<>>
  PROVE  \E f \in ToSet(s.md) : \E at \in DOMAIN f.lines :
           /\ f.name = file /\ f.lines[at].heading = heading
           /\ Stands(f, at, _extract_section(s.md, file, heading))
<1> DEFINE found == {g \in ToSet(s.md) : g.name = file}
           f == CHOOSE g \in found : TRUE
           at == First(HeadingLines(f.lines, heading))
           D == {j \in (at + 1)..Len(f.lines) :
                   IF f.lines[at].level # 0 THEN f.lines[j].level \in 1..f.lines[at].level
                   ELSE \/ f.lines[j].level # 0
                        \/ f.lines[j].key # "none" /\ f.lines[j].heading # heading}
<1>1. /\ found # {} /\ HeadingLines(f.lines, heading) # {}
      /\ _extract_section(s.md, file, heading) = Text(f.lines, at, D)
  BY DEF _extract_section
<1>2. f \in ToSet(s.md) /\ f.name = file
  BY <1>1
<1>3. f.lines \in Seq(Lines)
  BY <1>2, FilesType
<1> HIDE DEF f
<1>4. /\ HeadingLines(f.lines, heading) \subseteq DOMAIN f.lines
      /\ \A i \in HeadingLines(f.lines, heading) : f.lines[i].heading = heading
  BY DEF HeadingLines
<1>5. DOMAIN f.lines = 1..Len(f.lines) /\ Len(f.lines) \in Nat
  BY <1>3
<1>6. at \in HeadingLines(f.lines, heading)
  <2> DEFINE H == HeadingLines(f.lines, heading)
  <2>1. H \subseteq Nat /\ H # {}
    BY <1>1, <1>4, <1>5
  <2> HIDE DEF H
  <2>2. First(H) \in H
    BY <2>1, LeastElement DEF First
  <2> QED BY <2>2 DEF H
<1> HIDE DEF at
<1>7. at \in DOMAIN f.lines /\ f.lines[at].heading = heading
  BY <1>4, <1>6
<1>8. D \in SUBSET DOMAIN f.lines /\ \A j \in D : j > at
  BY <1>5, <1>7
<1> HIDE DEF D
<1>9. Stands(f, at, Text(f.lines, at, D))
  BY <1>3, <1>7, <1>8, CutStands
<1> QED BY <1>1, <1>2, <1>7, <1>9

\* The draft is the template of the first candidate that has one.
LEMMA DraftOfCandidates ==
  ASSUME NEW idx \in Indexes, NEW md, NEW sub_type, NEW hint
  PROVE  LET draft == _build_grounded_draft(idx, md, sub_type, hint)
             codes == subtype_to_code(sub_type)
             HasText(i) == Texts(idx, md, codes[i]) # {}
         IN \/ \E i \in DOMAIN codes : /\ draft.cite = codes[i]
                                       /\ draft.body \in Texts(idx, md, codes[i])
                                       /\ \A k \in 1..(i - 1) : ~HasText(k)
            \/ draft.body = Generic /\ \A i \in DOMAIN codes : ~HasText(i)
<1> DEFINE draft == _build_grounded_draft(idx, md, sub_type, hint)
           body == draft.body
           cite == draft.cite
           codes == subtype_to_code(sub_type)
           Template(c) == get_template_from_file(idx, md, c)
           HasText(i) == Texts(idx, md, codes[i]) # {}
           templates == [i \in 1..Len(codes) |-> Template(codes[i])]
           first == FirstOther(templates, <<>>)
           n == Len(codes)
<1>1. codes \in Seq(STRING)
  <2>1. \A S : <<>> \in Seq(S)
    OBVIOUS
  <2>2. CASE sub_type \in DOMAIN Candidates
    BY <2>2, CandidatesAssumption DEF subtype_to_code
  <2>3. CASE sub_type \notin DOMAIN Candidates
    <3> DEFINE X == STRING
    <3> HIDE DEF X
    <3>1. codes \in Seq(X)
      BY <2>1, <2>3 DEF subtype_to_code
    <3> QED BY <3>1 DEF X
  <2> QED BY <2>2, <2>3
<1>2. n \in Nat /\ DOMAIN codes = 1..n
  BY <1>1
<1>3. IF first = 0 THEN body = Generic ELSE body = Template(codes[first]) /\ cite = codes[first]
  <2>1. {i \in 1..n : Template(codes[i]) # <<>>} = {i \in 1..Len(templates) : templates[i] # <<>>}
    BY <1>2
  <2> QED BY <2>1 DEF _build_grounded_draft, Acknowledged, Draft, SelectInSeq, FirstOther
<1> HIDE DEF body, cite, codes
<1>4. DOMAIN templates = 1..n /\ Len(templates) = n /\ \A i \in 1..n : templates[i] = Template(codes[i])
  BY <1>2
<1> HIDE DEF n, templates
<1>5. \/ first = 0 /\ \A i \in 1..n : templates[i] = <<>>
      \/ first \in 1..n /\ templates[first] # <<>> /\ \A k \in 1..(first - 1) : templates[k] = <<>>
  BY <1>2, <1>4, FirstOtherIsFirst
<1>6. \A i \in 1..n : IF templates[i] = <<>> THEN ~HasText(i)
                      ELSE templates[i] \in Texts(idx, md, codes[i])
  BY <1>4, TemplateOfCode
<1> HIDE DEF first, Template, HasText
<1>7. CASE first = 0 /\ \A i \in 1..n : templates[i] = <<>>
  BY <1>2, <1>3, <1>6, <1>7 DEF body, codes, HasText
<1>8. CASE first \in 1..n /\ templates[first] # <<>> /\ \A k \in 1..(first - 1) : templates[k] = <<>>
  <2>1. cite = codes[first] /\ body = templates[first] /\ body \in Texts(idx, md, codes[first])
    BY <1>2, <1>3, <1>4, <1>6, <1>8
  <2>2. \A k \in 1..(first - 1) : k \in 1..n /\ ~HasText(k)
    BY <1>2, <1>6, <1>8
  <2>3. first \in DOMAIN codes
    BY <1>2, <1>8
  <2> QED BY <2>1, <2>2, <2>3 DEF body, cite, codes, HasText
<1> QED BY <1>5, <1>7, <1>8

LEMMA EveryDraftIsGrounded ==
  ASSUME NEW s \in Snapshots
  PROVE  GroundedOn(s.md)
<1> DEFINE md == s.md
<1> SUFFICES ASSUME NEW idx \in Indexes, NEW t \in Tickets
             PROVE  LET draft == DryVerdict(idx, md, t)
                        codes == subtype_to_code(t.sub_type)
                        HasText(i) == Texts(idx, md, codes[i]) # {}
                    IN IF t.order_ref = "" THEN draft.body = VerifyOrder
                       ELSE \/ \E i \in DOMAIN codes :
                                 /\ draft.cite = codes[i] /\ codes[i] \in DOMAIN idx
                                 /\ \A k \in 1..(i - 1) : ~HasText(k)
                                 /\ draft.body # <<>>
                                 /\ \E v \in ToSet(idx[codes[i]]), f \in ToSet(md) :
                                      \E at \in DOMAIN f.lines :
                                        /\ f.name = v.file /\ f.lines[at].heading = v.heading
                                        /\ Stands(f, at, draft.body)
                            \/ draft.body = Generic /\ \A i \in DOMAIN codes : ~HasText(i)
  BY DEF GroundedOn
<1> HIDE DEF md
<1>1. CASE t.order_ref = ""
  BY <1>1 DEF DryVerdict, _simulate_verdict, Draft
<1>2. CASE t.order_ref # ""
  <2> DEFINE draft == DryVerdict(idx, md, t)
             codes == subtype_to_code(t.sub_type)
             HasText(i) == Texts(idx, md, codes[i]) # {}
  <2>1. \E hint : draft = _build_grounded_draft(idx, md, t.sub_type, hint)
    BY <1>2 DEF DryVerdict, _simulate_verdict
  <2>2. \/ \E i \in DOMAIN codes : /\ draft.cite = codes[i]
                                   /\ draft.body \in Texts(idx, md, codes[i])
                                   /\ \A k \in 1..(i - 1) : ~HasText(k)
        \/ draft.body = Generic /\ \A i \in DOMAIN codes : ~HasText(i)
    BY <2>1, DraftOfCandidates
  <2>3. ASSUME NEW code, NEW text, text \in Texts(idx, md, code)
        PROVE  /\ code \in DOMAIN idx /\ text # <<>>
               /\ \E v \in ToSet(idx[code]), f \in ToSet(md) : \E at \in DOMAIN f.lines :
                    /\ f.name = v.file /\ f.lines[at].heading = v.heading
                    /\ Stands(f, at, text)
    <3>1. code \in DOMAIN idx /\ text # <<>>
      BY <2>3 DEF Texts
    <3>2. PICK v \in ToSet(idx[code]) : text = _extract_section(md, v.file, v.heading)
      BY <2>3, <3>1 DEF Texts
    <3> QED BY <3>1, <3>2, SectionStands DEF md
  <2> HIDE DEF draft, codes, HasText
  <2>4. \/ \E i \in DOMAIN codes :
             /\ draft.cite = codes[i] /\ codes[i] \in DOMAIN idx
             /\ \A k \in 1..(i - 1) : ~HasText(k)
             /\ draft.body # <<>>
             /\ \E v \in ToSet(idx[codes[i]]), f \in ToSet(md) : \E at \in DOMAIN f.lines :
                  /\ f.name = v.file /\ f.lines[at].heading = v.heading
                  /\ Stands(f, at, draft.body)
        \/ draft.body = Generic /\ \A i \in DOMAIN codes : ~HasText(i)
    BY <2>2, <2>3
  <2> QED BY <1>2, <2>4 DEF draft, codes, HasText
<1> QED BY <1>1, <1>2

\* The draft for an order is a text that stands in the template files now, under
\* a heading of the code it cites, the first of its sub-type's candidates with
\* one, of whatever export the cached index is (cs_team_demo.py:387-503).
THEOREM DraftIsGroundedCorrect == Spec => []DraftIsGrounded
<1>1. FilesInv => DraftIsGrounded
  BY EveryDraftIsGrounded DEF FilesInv, DraftIsGrounded, Grounded
<1> QED BY <1>1, FilesCorrect, PTL

-----------------------------------------------------------------------------
(***************************************************************************)
(* sources.py: what a run reads for a table, and what the export says      *)
(***************************************************************************)

\* A set of places of a sequence that is not empty has a last one.
LEMMA LastElement ==
  ASSUME NEW N \in Nat, NEW S \in SUBSET (1..N), S # {}
  PROVE  \E m \in S : \A n \in S : n <= m
<1> DEFINE T == {N - n : n \in S}
<1>1. T \subseteq Nat /\ T # {}
  <2>1. \A n \in S : N - n \in Nat
    OBVIOUS
  <2>2. T # {}
    OBVIOUS
  <2> QED BY <2>1, <2>2
<1>2. PICK t \in T : \A n \in T : t <= n
  <2> HIDE DEF T
  <2> QED BY <1>1, LeastElement
<1>3. PICK m \in S : t = N - m
  OBVIOUS
<1>4. \A n \in S : N - m <= N - n
  BY <1>2, <1>3
<1> QED BY <1>3, <1>4

ASeq(f) == \E n \in Nat : DOMAIN f = 1..n /\ Len(f) = n

LEMMA SeqIsASeq ==
  ASSUME NEW S, NEW f \in Seq(S)
  PROVE  ASeq(f)
BY DEF ASeq

LEMMA ASeqIsSeq ==
  ASSUME NEW S, NEW f, ASeq(f), \A i \in DOMAIN f : f[i] \in S, f = [i \in DOMAIN f |-> f[i]]
  PROVE  f \in Seq(S)
<1>1. PICK n \in Nat : DOMAIN f = 1..n
  BY DEF ASeq
<1>2. f \in [1..n -> S]
  BY <1>1
<1> QED BY <1>1, <1>2

ChunkRows == [key : STRING \X Seq(Paragraphs), value : {"embedded"}]

LEMMA ProseType ==
  ASSUME NEW s \in Snapshots
  PROVE  read_prose_sources(s) \in Seq(ChunkRows)
<1> DEFINE Chunks(i) == [k \in DOMAIN chunk_prose(s.prose[i].text) |->
                            Chunk(s.prose[i].source, chunk_prose(s.prose[i].text)[k])]
           ss == [i \in DOMAIN s.prose |-> Chunks(i)]
<1>1. PICK n \in Nat : DOMAIN s.prose = 1..n
  BY SnapshotAssumption
<1>2. ASSUME NEW i \in 1..n
      PROVE  Chunks(i) \in Seq(ChunkRows)
  <2> DEFINE passages == chunk_prose(s.prose[i].text)
             X == Seq(Paragraphs)
  <2>1. s.prose[i].source \in STRING /\ s.prose[i].text \in Seq(Paras)
    <3> DEFINE Records == [source : STRING, text : Seq(Paras)]
    <3>1. s.prose \in Seq(Records)
      BY SnapshotAssumption DEF Paras, Paragraphs
    <3> HIDE DEF Records
    <3>2. s.prose[i] \in Records
      BY <1>1, <3>1
    <3> QED BY <3>2 DEF Records
  <2>2. passages \in Seq(X)
    BY <2>1, TextsAreCutFaithfully
  <2> HIDE DEF passages, X
  <2>3. PICK m \in Nat : DOMAIN passages = 1..m /\ \A k \in 1..m : passages[k] \in X
    BY <2>2
  <2>4. \A k \in 1..m : Chunk(s.prose[i].source, passages[k]) \in [key : STRING \X X, value : {"embedded"}]
    BY <2>1, <2>3 DEF Chunk
  <2>5. Chunks(i) \in Seq([key : STRING \X X, value : {"embedded"}])
    BY <2>3, <2>4 DEF passages
  <2> QED BY <2>5 DEF ChunkRows, X
<1>3. read_prose_sources(s) = FlattenSeq(ss)
  BY DEF read_prose_sources
<1> HIDE DEF Chunks
<1> DEFINE Y == Seq(ChunkRows)
<1>4. ss \in Seq(Y)
  <2> HIDE DEF Y
  <2>1. \A i \in 1..n : Chunks(i) \in Y
    BY <1>2 DEF Y
  <2> QED BY <1>1, <2>1
<1> HIDE DEF ss
<1>5. FlattenSeq(ss) \in Seq(ChunkRows)
  BY <1>4, FlattenType
<1> QED BY <1>3, <1>5

\* The sections of a file are numbered, and each has the code of its heading.
LEMMA FileSections ==
  ASSUME NEW S, NEW lines \in Seq(S)
  PROVE  \E U : _extract_templates_from_file(lines) \in Seq(U)
<1> DEFINE found == _extract_templates_from_file(lines)
           Template(i) == [key   |-> lines[i].key,
                           value |-> lines[i].rest \o Text(lines, i, {j \in Coded(lines) : j > i})]
           J == {i \in DOMAIN lines : i \in Coded(lines) /\ Template(i).value # <<>>}
           kept == InOrder(J)
           F(n) == Template(kept[n])
           f == [n \in DOMAIN kept |-> F(n)]
<1>1. found = f
  BY DEF _extract_templates_from_file, Places
<1>2. J \subseteq Int /\ IsFiniteSet(J)
  <2>1. PICK n \in Nat : DOMAIN lines = 1..n
    OBVIOUS
  <2>2. IsFiniteSet(1..n) /\ J \subseteq 1..n
    BY <2>1, FS_Interval
  <2> HIDE DEF J
  <2>3. J \subseteq Int
    BY <2>2
  <2> QED BY <2>2, <2>3, FS_Subset
<1> HIDE DEF J
<1>3. Cardinality(J) \in Nat /\ DOMAIN kept = 1..Cardinality(J)
  BY <1>2, InOrderProperties
<1> HIDE DEF kept, F
<1> DEFINE U == {F(n) : n \in 1..Cardinality(J)}
<1>4. f \in Seq(U)
  BY <1>3
<1> HIDE DEF f
<1> QED BY <1>1, <1>4

LEMMA SectionsType ==
  ASSUME NEW s \in Snapshots
  PROVE  \E U : Sections(s) \in Seq(U)
<1> DEFINE E(i) == _extract_templates_from_file(s.md[i].lines)
           ss == [i \in DOMAIN s.md |-> E(i)]
<1>1. PICK n \in Nat : DOMAIN s.md = 1..n
  BY SnapshotAssumption
<1>2. ASSUME NEW i \in 1..n
      PROVE  \E V : E(i) \in Seq(V)
  <2> DEFINE Files == [name : STRING, lines : Seq(Lines)]
  <2>1. s.md \in Seq(Files)
    BY SnapshotAssumption DEF Lines
  <2> HIDE DEF Files
  <2>2. s.md[i] \in Files
    BY <1>1, <2>1
  <2>3. s.md[i].lines \in Seq(Lines)
    <3> HIDE DEF Lines
    <3> QED BY <2>2 DEF Files
  <2> HIDE DEF Lines
  <2> QED BY <2>3, FileSections
<1>3. Sections(s) = FlattenSeq(ss)
  BY DEF Sections
<1> HIDE DEF E
<1> DEFINE U == UNION {ToSet(E(i)) : i \in 1..n}
           X == Seq(U)
<1>4. \A i \in 1..n : E(i) \in X
  <2> SUFFICES ASSUME NEW i \in 1..n PROVE E(i) \in X
    OBVIOUS
  <2>1. PICK V : E(i) \in Seq(V)
    BY <1>2
  <2>2. \A k \in 1..Len(E(i)) : E(i)[k] \in ToSet(E(i))
    BY <2>1 DEF ToSet
  <2>3. ToSet(E(i)) \subseteq U
    OBVIOUS
  <2> HIDE DEF U
  <2>4. E(i) \in Seq(U)
    BY <2>1, <2>2, <2>3
  <2> QED BY <2>4
<1>5. ss \in Seq(X)
  <2> HIDE DEF X
  <2> QED BY <1>1, <1>4
<1> HIDE DEF ss, U
<1>6. FlattenSeq(ss) \in Seq(U)
  BY <1>5, FlattenType
<1> QED BY <1>3, <1>6

\* The last place of a key, and the keys of a sequence of rows.
LastOf(rows, n) == /\ n \in DOMAIN rows
                   /\ \A k \in (n + 1)..Len(rows) : rows[k].key # rows[n].key

LEMMA EveryKeyHasLast ==
  ASSUME NEW S, NEW rows \in Seq(S), NEW i \in DOMAIN rows
  PROVE  \E l : LastOf(rows, l) /\ rows[l].key = rows[i].key
<1> DEFINE N == Len(rows)
           at == {n \in 1..N : rows[n].key = rows[i].key}
<1>1. N \in Nat /\ DOMAIN rows = 1..N
  OBVIOUS
<1>2. at \in SUBSET (1..N) /\ i \in at
  BY <1>1
<1> HIDE DEF N
<1>3. PICK l \in at : \A n \in at : n <= l
  <2> HIDE DEF at
  <2> QED BY <1>1, <1>2, LastElement
<1>4. l \in 1..N /\ rows[l].key = rows[i].key
  OBVIOUS
<1>5. \A k \in (l + 1)..N : rows[k].key # rows[i].key
  BY <1>1, <1>3, <1>4
<1> QED BY <1>1, <1>4, <1>5 DEF LastOf, N

\* Of the sections of a code the last one is kept, and every code is.
LEMMA LastWinsType ==
  ASSUME NEW S, NEW rows \in Seq(S)
  PROVE  /\ LastWins(rows) \in Seq(S)
         /\ \A i \in DOMAIN LastWins(rows) : \E l : LastOf(rows, l) /\ LastWins(rows)[i] = rows[l]
         /\ \A n \in DOMAIN rows : \E i \in DOMAIN LastWins(rows) : LastWins(rows)[i].key = rows[n].key
<1> DEFINE N == Len(rows)
           J == {n \in DOMAIN rows : \A k \in 1..(n - 1) : rows[k].key # rows[n].key}
           firsts == InOrder(J)
           Lasts(n) == CHOOSE l \in DOMAIN rows : /\ rows[l].key = rows[n].key
                                                  /\ \A k \in (l + 1)..N : rows[k].key # rows[n].key
           F(i) == rows[Lasts(firsts[i])]
           f == [i \in DOMAIN firsts |-> F(i)]
<1>1. N \in Nat /\ DOMAIN rows = 1..N
  OBVIOUS
<1>2. LastWins(rows) = f
  BY DEF LastWins, Places
<1>3. \A n \in 1..N : LastOf(rows, Lasts(n)) /\ rows[Lasts(n)].key = rows[n].key
  <2> SUFFICES ASSUME NEW n \in 1..N
               PROVE  LastOf(rows, Lasts(n)) /\ rows[Lasts(n)].key = rows[n].key
    OBVIOUS
  <2>1. \E l : LastOf(rows, l) /\ rows[l].key = rows[n].key
    BY <1>1, EveryKeyHasLast
  <2>2. \E l \in DOMAIN rows : /\ rows[l].key = rows[n].key
                               /\ \A k \in (l + 1)..N : rows[k].key # rows[n].key
    BY <2>1 DEF LastOf
  <2>3. /\ Lasts(n) \in DOMAIN rows /\ rows[Lasts(n)].key = rows[n].key
        /\ \A k \in (Lasts(n) + 1)..N : rows[k].key # rows[n].key
    BY <2>2
  <2> HIDE DEF Lasts
  <2> QED BY <2>3 DEF LastOf
<1>4. J \subseteq Int /\ IsFiniteSet(J) /\ J \subseteq 1..N
  <2>1. IsFiniteSet(1..N) /\ J \subseteq 1..N /\ J \subseteq Int
    BY <1>1, FS_Interval
  <2> HIDE DEF J
  <2> QED BY <2>1, FS_Subset
<1>5. \A n \in 1..N : \E m \in J : rows[m].key = rows[n].key
  <2> SUFFICES ASSUME NEW n \in 1..N PROVE \E m \in J : rows[m].key = rows[n].key
    OBVIOUS
  <2> DEFINE at == {m \in 1..N : rows[m].key = rows[n].key}
  <2>1. at \subseteq Nat /\ at # {}
    OBVIOUS
  <2>2. PICK m \in at : \A k \in at : m <= k
    <3> HIDE DEF at
    <3> QED BY <2>1, LeastElement
  <2>3. m \in 1..N /\ rows[m].key = rows[n].key
    OBVIOUS
  <2>4. \A k \in 1..(m - 1) : rows[k].key # rows[m].key
    BY <1>1, <2>2, <2>3
  <2> QED BY <1>1, <2>3, <2>4
<1> HIDE DEF J, Lasts, N
<1>6. /\ Cardinality(J) \in Nat /\ firsts \in [1..Cardinality(J) -> J]
      /\ \A m \in J : \E i \in 1..Cardinality(J) : firsts[i] = m
  BY <1>4, InOrderProperties
<1> HIDE DEF firsts
<1>7. /\ DOMAIN firsts = 1..Cardinality(J)
      /\ \A i \in 1..Cardinality(J) : /\ LastOf(rows, Lasts(firsts[i])) /\ F(i) \in S
                                      /\ F(i).key = rows[firsts[i]].key
  <2>1. \A i \in 1..Cardinality(J) : firsts[i] \in 1..N
    BY <1>4, <1>6
  <2>2. \A i \in 1..Cardinality(J) : Lasts(firsts[i]) \in DOMAIN rows
    BY <1>3, <2>1 DEF LastOf
  <2> QED BY <1>3, <1>6, <2>1, <2>2
<1>8. f \in Seq(S) /\ DOMAIN f = 1..Cardinality(J) /\ \A i \in DOMAIN f : f[i] = F(i)
  <2> HIDE DEF F
  <2> QED BY <1>6, <1>7
<1>9. \A i \in DOMAIN f : \E l : LastOf(rows, l) /\ f[i] = rows[l]
  BY <1>7, <1>8
<1>10. \A n \in DOMAIN rows : \E i \in DOMAIN f : f[i].key = rows[n].key
  <2> SUFFICES ASSUME NEW n \in 1..N PROVE \E i \in DOMAIN f : f[i].key = rows[n].key
    BY <1>1
  <2>1. PICK m \in J : rows[m].key = rows[n].key
    BY <1>5
  <2>2. PICK i \in 1..Cardinality(J) : firsts[i] = m
    BY <1>6
  <2> QED BY <1>7, <1>8, <2>1, <2>2
<1> QED BY <1>2, <1>8, <1>9, <1>10

TableNames == {"kb_chunk", "policy_threshold", "code_map", "template_library"}

LEMMA TablesAreNamed ==
  /\ ToSet(Tables) = TableNames /\ Len(Tables) = 4 /\ DOMAIN Tables = 1..4
  /\ \A i \in 1..4 : Tables[i] \in TableNames
  /\ \A t \in TableNames : \E i \in 1..4 : Tables[i] = t
  /\ \A i, j \in 1..4 : Tables[i] = Tables[j] => i = j
BY DEF Tables, ToSet, TableNames

\* The rows a run may write.
AllRows == UNION {ToSet(Read(s, t)) : s \in Snapshots, t \in TableNames}

LEMMA RowsOfSeq ==
  ASSUME NEW s \in Snapshots, NEW t \in TableNames, NEW U, Read(s, t) \in Seq(U)
  PROVE  Read(s, t) \in Seq(AllRows)
<1> DEFINE R == Read(s, t)
<1>1. \A k \in 1..Len(R) : R[k] \in ToSet(R)
  BY DEF ToSet
<1>2. ToSet(R) \subseteq AllRows
  BY DEF AllRows
<1> HIDE DEF R
<1>3. R \in Seq(AllRows)
  <2>1. R \in Seq(U)
    BY DEF R
  <2> QED BY <1>1, <1>2, <2>1
<1> QED BY <1>3 DEF R

\* What a run reads for a table agrees with what the export says of it.
ReadAgrees(s, t) ==
  /\ \A k \in DOMAIN Read(s, t) : /\ Read(s, t)[k].key \in Keys(s, t)
                                  /\ Read(s, t)[k].value \in Says(s, t, Read(s, t)[k].key)
  /\ \A key \in Keys(s, t) : \E k \in DOMAIN Read(s, t) : Read(s, t)[k].key = key

\* The last row of a key says what the export says of it, and outside of the
\* code map the export says one thing.
LEMMA LastIsSaid ==
  ASSUME NEW s, NEW t, NEW l, LastOf(Wanted(s, t), l), NEW U, Wanted(s, t) \in Seq(U)
  PROVE  Wanted(s, t)[l].value \in Says(s, t, Wanted(s, t)[l].key)
<1> DEFINE wanted == Wanted(s, t)
           at == {n \in DOMAIN wanted : wanted[n].key = wanted[l].key}
           which == IF t = "code_map" THEN at ELSE {n \in at : \A k \in at : k <= n}
<1>1. Says(s, t, wanted[l].key) = {wanted[n].value : n \in which}
  BY DEF Says
<1>2. DOMAIN wanted = 1..Len(wanted) /\ Len(wanted) \in Nat
  OBVIOUS
<1> HIDE DEF wanted
<1>3. l \in at
  BY DEF LastOf, wanted
<1>4. \A k \in at : k <= l
  <2>1. \A k \in (l + 1)..Len(wanted) : wanted[k].key # wanted[l].key
    BY DEF LastOf, wanted
  <2> QED BY <1>2, <1>3, <2>1
<1>5. l \in which
  BY <1>3, <1>4
<1> HIDE DEF which
<1>6. wanted[l].value \in Says(s, t, wanted[l].key)
  BY <1>1, <1>5
<1> QED BY <1>6 DEF wanted

LEMMA OneIsSaid ==
  ASSUME NEW s, NEW t, t # "code_map", NEW U, Wanted(s, t) \in Seq(U), NEW key,
         NEW a \in Says(s, t, key), NEW b \in Says(s, t, key)
  PROVE  a = b
<1> DEFINE wanted == Wanted(s, t)
           at == {n \in DOMAIN wanted : wanted[n].key = key}
           which == {n \in at : \A k \in at : k <= n}
<1>1. Says(s, t, key) = {wanted[n].value : n \in which}
  BY DEF Says
<1>2. DOMAIN wanted = 1..Len(wanted) /\ Len(wanted) \in Nat
  OBVIOUS
<1> HIDE DEF wanted
<1>3. \A m, n \in which : m = n
  BY <1>2
<1> HIDE DEF which
<1> QED BY <1>1, <1>3

LEMMA ReadTemplates ==
  ASSUME NEW s \in Snapshots
  PROVE  /\ \E U : Read(s, "template_library") \in Seq(U) /\ Wanted(s, "template_library") \in Seq(U)
         /\ ReadAgrees(s, "template_library")
<1> DEFINE t == "template_library"
           W == Sections(s)
           R == LastWins(W)
<1>1. PICK U : W \in Seq(U)
  BY SectionsType
<1>2. Read(s, t) = R /\ Wanted(s, t) = W
  BY DEF Read, read_templates, Wanted
<1>3. /\ R \in Seq(U)
      /\ \A i \in DOMAIN R : \E l : LastOf(W, l) /\ R[i] = W[l]
      /\ \A n \in DOMAIN W : \E i \in DOMAIN R : R[i].key = W[n].key
  BY <1>1, LastWinsType
<1>4. Keys(s, t) = {W[n].key : n \in DOMAIN W}
  BY <1>2 DEF Keys
<1>5. \A l : LastOf(W, l) => W[l].value \in Says(s, t, W[l].key) /\ W[l].key \in Keys(s, t)
  <2> SUFFICES ASSUME NEW l, LastOf(W, l)
               PROVE  W[l].value \in Says(s, t, W[l].key) /\ W[l].key \in Keys(s, t)
    OBVIOUS
  <2>1. W[l].value \in Says(s, t, W[l].key)
    BY <1>1, <1>2, LastIsSaid
  <2> QED BY <1>4, <2>1 DEF LastOf
<1> HIDE DEF W, R, t
<1>6. ReadAgrees(s, t)
  BY <1>2, <1>3, <1>4, <1>5 DEF ReadAgrees
<1> QED BY <1>1, <1>2, <1>3, <1>6 DEF t

\* Outside of the template library the export says what is read.
LEMMA ReadIsWanted ==
  ASSUME NEW s, NEW t \in TableNames \ {"template_library"}, NEW U, Read(s, t) \in Seq(U),
         \A k \in DOMAIN Read(s, t) : Read(s, t)[k].value \in Says(s, t, Read(s, t)[k].key)
  PROVE  ReadAgrees(s, t)
<1> DEFINE R == Read(s, t)
<1>1. Wanted(s, t) = R
  BY DEF Wanted
<1>2. Keys(s, t) = {R[n].key : n \in DOMAIN R}
  BY <1>1 DEF Keys
<1> QED BY <1>2 DEF ReadAgrees

LEMMA ReadProse ==
  ASSUME NEW s \in Snapshots
  PROVE  (\E U : Read(s, "kb_chunk") \in Seq(U)) /\ ReadAgrees(s, "kb_chunk")
<1> DEFINE t == "kb_chunk"
           R == Read(s, t)
<1>1. R \in Seq(ChunkRows)
  BY ProseType DEF Read
<1>2. Wanted(s, t) = R
  BY DEF Wanted
<1>3. \A k \in DOMAIN R : R[k].value = "embedded"
  <2> HIDE DEF R
  <2>1. \A r \in ChunkRows : r.value = "embedded"
    BY DEF ChunkRows
  <2> QED BY <1>1, <2>1
<1>4. ASSUME NEW k \in DOMAIN R
      PROVE  R[k].value \in Says(s, t, R[k].key)
  <2> HIDE DEF R
  <2>1. PICK l : LastOf(R, l) /\ R[l].key = R[k].key
    BY <1>1, EveryKeyHasLast
  <2>2. R[l].value = R[k].value
    BY <1>3, <2>1 DEF LastOf
  <2>3. R[l].value \in Says(s, t, R[l].key)
    BY <1>1, <1>2, <2>1, LastIsSaid
  <2> QED BY <2>1, <2>2, <2>3
<1>5. t \in TableNames \ {"template_library"}
  BY DEF TableNames
<1> QED BY <1>1, <1>4, <1>5, ReadIsWanted

LEMMA ReadThresholds ==
  ASSUME NEW s \in Snapshots
  PROVE  (\E U : Read(s, "policy_threshold") \in Seq(U)) /\ ReadAgrees(s, "policy_threshold")
<1> DEFINE t == "policy_threshold"
           R == Read(s, t)
<1>1. PICK U : R \in Seq(U)
  BY SnapshotAssumption DEF Read, read_threshold_rows
<1>2. Wanted(s, t) = R
  BY DEF Wanted
<1>3. \A i, j \in DOMAIN R : R[i].key = R[j].key => i = j
  BY SnapshotAssumption DEF Read, read_threshold_rows
<1>4. ASSUME NEW k \in DOMAIN R
      PROVE  R[k].value \in Says(s, t, R[k].key)
  <2> HIDE DEF R
  <2>1. LastOf(R, k)
    BY <1>1, <1>3 DEF LastOf
  <2> QED BY <1>1, <1>2, <2>1, LastIsSaid
<1>5. t \in TableNames \ {"template_library"}
  BY DEF TableNames
<1> QED BY <1>1, <1>4, <1>5, ReadIsWanted

LEMMA ReadCodes ==
  ASSUME NEW s \in Snapshots
  PROVE  (\E U : Read(s, "code_map") \in Seq(U)) /\ ReadAgrees(s, "code_map")
<1> DEFINE t == "code_map"
           R == Read(s, t)
           F(i) == LET row == s.codes[i]
                   IN [key |-> row.key, value |-> <<row.action, IF row.linked THEN row.key ELSE "none">>]
<1>1. PICK n \in Nat : DOMAIN s.codes = 1..n
  BY SnapshotAssumption
<1>2. R = [i \in 1..n |-> F(i)]
  BY <1>1 DEF Read, read_code_map_rows
<1> HIDE DEF F
<1>3. R \in Seq({F(i) : i \in 1..n})
  BY <1>2
<1>4. Wanted(s, t) = R
  BY DEF Wanted
<1>5. ASSUME NEW k \in DOMAIN R
      PROVE  R[k].value \in Says(s, t, R[k].key)
  BY <1>4 DEF Says
<1>6. t \in TableNames \ {"template_library"}
  BY DEF TableNames
<1> QED BY <1>3, <1>5, <1>6, ReadIsWanted

LEMMA ReadFacts ==
  ASSUME NEW s \in Snapshots, NEW t \in TableNames
  PROVE  /\ Read(s, t) \in Seq(AllRows) /\ ReadAgrees(s, t)
         /\ t # "code_map" => \A key : \A a, b \in Says(s, t, key) : a = b
<1>1. (\E U : Read(s, t) \in Seq(U)) /\ ReadAgrees(s, t)
  BY ReadProse, ReadThresholds, ReadCodes, ReadTemplates DEF TableNames
<1>2. \E U : Wanted(s, t) \in Seq(U)
  BY <1>1, ReadTemplates DEF Wanted
<1>3. Read(s, t) \in Seq(AllRows)
  BY <1>1, RowsOfSeq
<1>4. ASSUME t # "code_map", NEW key, NEW a \in Says(s, t, key), NEW b \in Says(s, t, key)
      PROVE  a = b
  BY <1>2, <1>4, OneIsSaid
<1> QED BY <1>1, <1>3, <1>4

-----------------------------------------------------------------------------
(***************************************************************************)
(* pipeline.py: the store.  While a run goes on over files that stay the   *)
(* same, what it has filled says what they say (FillInv); when it is       *)
(* complete, that is StoreIsCurrent, and it stays so in the next run.      *)
(***************************************************************************)
Runs == [at : 0..4, left : Seq(AllRows), id : Nat, same : BOOLEAN]

\* Of a key there is one row, and no row is of a run still to come.
Table(rows, id) == /\ IsFiniteSet(rows)
                   /\ \A r \in rows : r.run \in 1..id
                   /\ \A r1, r2 \in rows : r1.key = r2.key => r1 = r2

TablesInv == /\ run \in Runs
             /\ DOMAIN tables = TableNames
             /\ \A t \in TableNames : Table(tables[t], run.id)

SyncedInv == /\ synced \in 0..run.id
             /\ synced # 0 /\ run.at # 0 => run.same
             /\ run.at # 0 => run.id # 0

\* How many rows of the files a run has written into its table.
Written == Len(Read(files, Tables[run.at])) - Len(run.left)

\* A run has written a row of this key.
Has(rows, key, id) == \E r \in rows : r.key = key /\ r.run = id

FillInv ==
  run.at # 0 /\ run.same =>
    LET rows == Read(files, Tables[run.at])
    IN /\ Written \in 0..Len(rows)
       /\ \A k \in 1..Len(run.left) : run.left[k] = rows[Written + k]
       /\ \A k \in 1..Written : Has(tables[Tables[run.at]], rows[k].key, run.id)
       /\ \A j \in 1..4 : j < run.at => \A key \in Keys(files, Tables[j]) : Has(tables[Tables[j]], key, run.id)
       /\ \A t \in TableNames : \A r \in tables[t] :
            r.run = run.id => r.key \in Keys(files, t) /\ r.value \in Says(files, t, r.key)

Current(t) ==
  /\ \A key \in Keys(files, t) : \E r \in tables[t] : r.key = key
  /\ \A r \in tables[t] : /\ r.key \in Keys(files, t) => r.value \in Says(files, t, r.key)
                          /\ r.key \in Keys(files, t) <=> r.run >= synced

CurrentInv == synced # 0 => \A t \in TableNames : Current(t)

StoreInv == FilesInv /\ TablesInv /\ SyncedInv /\ FillInv /\ CurrentInv

LEMMA StoreInit == Init => StoreInv
<1> SUFFICES ASSUME Init PROVE StoreInv
  OBVIOUS
<1>1. FilesInv
  BY FilesInit
<1>2. TablesInv
  <2>1. run \in Runs
    <3>1. <<>> \in Seq(AllRows)
      OBVIOUS
    <3> QED BY <3>1 DEF Init, IngestInit, Runs
  <2>2. DOMAIN tables = TableNames /\ \A t \in TableNames : tables[t] = {}
    BY TablesAreNamed DEF Init, IngestInit
  <2>3. \A id : Table({}, id)
    BY FS_EmptySet DEF Table
  <2> QED BY <2>1, <2>2, <2>3 DEF TablesInv
<1>3. SyncedInv /\ FillInv /\ CurrentInv
  BY DEF Init, IngestInit, SyncedInv, FillInv, CurrentInv
<1> QED BY <1>1, <1>2, <1>3 DEF StoreInv

\* A run begins: no row is of this run yet.
LEMMA StoreStartRun == StoreInv /\ StartRun => StoreInv'
<1> SUFFICES ASSUME StoreInv, StartRun PROVE StoreInv'
  OBVIOUS
<1> USE DEF StoreInv
<1> DEFINE rows == Read(files, Tables[1])
<1>1. /\ UNCHANGED <<files, tables, synced>>
      /\ run' = [at |-> 1, left |-> rows, id |-> run.id + 1, same |-> TRUE]
  BY DEF StartRun
<1>2. rows \in Seq(AllRows)
  BY TablesAreNamed, ReadFacts DEF FilesInv
<1>3. run.id \in Nat /\ run.at = 0
  BY DEF TablesInv, Runs, StartRun
<1>4. FilesInv'
  BY <1>1 DEF FilesInv
<1>5. TablesInv'
  <2>1. run' \in Runs
    BY <1>1, <1>2, <1>3 DEF Runs
  <2>2. \A t \in TableNames : Table(tables[t], run'.id)
    BY <1>1, <1>3 DEF TablesInv, Table
  <2> QED BY <1>1, <2>1, <2>2 DEF TablesInv
<1>6. SyncedInv'
  BY <1>1, <1>3 DEF SyncedInv
<1>7. FillInv'
  <2>1. Tables[run'.at] = Tables[1] /\ run'.left = rows /\ Read(files', Tables[run'.at]) = rows
    BY <1>1
  <2> HIDE DEF rows
  <2>2. Written' = 0
    BY <1>2, <2>1 DEF Written
  <2>3. \A t \in TableNames : \A r \in tables'[t] : r.run # run'.id
    BY <1>1, <1>3 DEF TablesInv, Table
  <2>4. Len(rows) \in Nat /\ run'.at = 1 /\ \A k \in 1..Len(rows) : 0 + k = k
    BY <1>1, <1>2
  <2>5. /\ Written' \in 0..Len(rows)
        /\ \A k \in 1..Len(run'.left) : run'.left[k] = rows[Written' + k]
        /\ \A k \in 1..Written' : FALSE
        /\ \A j \in 1..4 : ~(j < run'.at)
    BY <2>1, <2>2, <2>4
  <2> QED BY <2>1, <2>3, <2>5 DEF FillInv
<1>8. CurrentInv'
  BY <1>1 DEF CurrentInv, Current
<1> QED BY <1>4, <1>5, <1>6, <1>7, <1>8

\* The run has filled the table it is at once it has nothing left to write.
LEMMA TableFilled ==
  ASSUME StoreInv, run.at # 0, run.same, run.left = <<>>
  PROVE  \A key \in Keys(files, Tables[run.at]) : Has(tables[Tables[run.at]], key, run.id)
<1> USE DEF StoreInv
<1> DEFINE t == Tables[run.at]
           rows == Read(files, t)
<1>1. run.at \in 1..4
  BY DEF TablesInv, Runs
<1>2. rows \in Seq(AllRows) /\ ReadAgrees(files, t)
  BY <1>1, TablesAreNamed, ReadFacts DEF FilesInv
<1>3. Written = Len(rows)
  <2>1. Len(run.left) = 0
    OBVIOUS
  <2> HIDE DEF rows
  <2>2. Written = Len(rows) - 0
    BY <2>1 DEF Written, rows
  <2> QED BY <1>2, <2>2
<1>4. \A k \in 1..Len(rows) : Has(tables[t], rows[k].key, run.id)
  BY <1>3 DEF FillInv
<1>5. DOMAIN rows = 1..Len(rows)
  BY <1>2
<1> HIDE DEF t
<1> QED BY <1>2, <1>4, <1>5 DEF ReadAgrees, t

LEMMA RunMoves ==
  ASSUME run \in Runs, NEW at \in 0..4, NEW left \in Seq(AllRows)
  PROVE  LET new == [run EXCEPT !.at = at, !.left = left]
         IN new \in Runs /\ new.at = at /\ new.left = left /\ new.id = run.id /\ new.same = run.same
<1> DEFINE X == Seq(AllRows)
<1>1. run \in [at : 0..4, left : X, id : Nat, same : BOOLEAN] /\ left \in X
  BY DEF Runs
<1> HIDE DEF X
<1> DEFINE new == [run EXCEPT !.at = at, !.left = left]
<1>2. /\ new \in [at : 0..4, left : X, id : Nat, same : BOOLEAN]
      /\ new.at = at /\ new.left = left /\ new.id = run.id /\ new.same = run.same
  BY <1>1
<1> QED BY <1>2 DEF Runs, X

LEMMA StoreNextTable == StoreInv /\ NextTable => StoreInv'
<1> SUFFICES ASSUME StoreInv, NextTable PROVE StoreInv'
  OBVIOUS
<1> USE DEF StoreInv
<1> DEFINE next == run.at + 1
           rows == Read(files, Tables[next])
<1>1. run.at \in 1..3 /\ run.left = <<>> /\ next \in 1..4
  BY TablesAreNamed DEF NextTable
<1>2. /\ UNCHANGED <<files, tables, synced>>
      /\ run' = [run EXCEPT !.at = next, !.left = rows]
  BY DEF NextTable
<1>3. rows \in Seq(AllRows)
  BY <1>1, TablesAreNamed, ReadFacts DEF FilesInv
<1>4. /\ run' \in Runs /\ run'.at = next /\ run'.left = rows
      /\ run'.id = run.id /\ run'.same = run.same
  <2> HIDE DEF rows, next
  <2>1. next \in 0..4 /\ run \in Runs
    BY <1>1 DEF TablesInv
  <2> QED BY <1>2, <1>3, <2>1, RunMoves
<1>5. FilesInv' /\ TablesInv'
  BY <1>2, <1>4 DEF FilesInv, TablesInv
<1>6. SyncedInv'
  BY <1>1, <1>2, <1>4 DEF SyncedInv
<1>7. ASSUME run.same
      PROVE  FillInv'
  <2>1. run'.at # 0 /\ Read(files', Tables[run'.at]) = rows
    BY <1>1, <1>2, <1>4
  <2>2. \A t, key : Has(tables'[t], key, run'.id) <=> Has(tables[t], key, run.id)
    BY <1>2, <1>4 DEF Has
  <2>3. \A j \in 1..4 : j < next => \A key \in Keys(files, Tables[j]) : Has(tables[Tables[j]], key, run.id)
    <3>1. \A key \in Keys(files, Tables[run.at]) : Has(tables[Tables[run.at]], key, run.id)
      BY <1>1, <1>7, TableFilled
    <3>2. \A j \in 1..4 : j < run.at => \A key \in Keys(files, Tables[j]) : Has(tables[Tables[j]], key, run.id)
      BY <1>1, <1>7 DEF FillInv
    <3>3. \A j \in 1..4 : j < next => j = run.at \/ j < run.at
      BY <1>1
    <3> QED BY <3>1, <3>2, <3>3
  <2>4. \A t \in TableNames : \A r \in tables[t] :
          r.run = run.id => r.key \in Keys(files, t) /\ r.value \in Says(files, t, r.key)
    BY <1>1, <1>7 DEF FillInv
  <2> HIDE DEF rows
  <2>5. Written' = 0
    BY <1>3, <1>4, <2>1 DEF Written
  <2>6. /\ Written' \in 0..Len(rows)
        /\ \A k \in 1..Len(run'.left) : run'.left[k] = rows[Written' + k]
        /\ \A k \in 1..Written' : FALSE
    BY <1>3, <1>4, <2>5
  <2>7. \A j \in 1..4 : j < run'.at => \A key \in Keys(files', Tables[j]) : Has(tables'[Tables[j]], key, run'.id)
    BY <1>2, <1>4, <2>2, <2>3
  <2>8. \A t \in TableNames : \A r \in tables'[t] :
          r.run = run'.id => r.key \in Keys(files', t) /\ r.value \in Says(files', t, r.key)
    BY <1>2, <1>4, <2>4
  <2> QED BY <2>1, <2>6, <2>7, <2>8 DEF FillInv
<1>8. FillInv'
  <2>1. CASE run.same
    BY <1>7, <2>1
  <2>2. CASE ~run.same
    BY <1>4, <2>2 DEF FillInv
  <2> QED BY <2>1, <2>2
<1>9. CurrentInv'
  BY <1>2 DEF CurrentInv, Current
<1> QED BY <1>5, <1>6, <1>8, <1>9

LEMMA StoreRunCompletes == StoreInv /\ RunCompletes => StoreInv'
<1> SUFFICES ASSUME StoreInv, RunCompletes PROVE StoreInv'
  OBVIOUS
<1> USE DEF StoreInv
<1>1. run.at = 4 /\ run.left = <<>>
  BY TablesAreNamed DEF RunCompletes
<1>2. /\ UNCHANGED <<files, tables>> /\ run' = [run EXCEPT !.at = 0]
      /\ synced' = IF run.same THEN run.id ELSE synced
  BY DEF RunCompletes
<1>3. run' \in Runs /\ run'.at = 0 /\ run'.id = run.id
  BY <1>2 DEF TablesInv, Runs
<1>4. FilesInv' /\ TablesInv'
  BY <1>2, <1>3 DEF FilesInv, TablesInv
<1>5. SyncedInv'
  BY <1>2, <1>3 DEF SyncedInv, Runs
<1>6. FillInv'
  BY <1>3 DEF FillInv
<1>7. ASSUME run.same, NEW t \in TableNames
      PROVE  Current(t)'
  <2>1. \A key \in Keys(files, t) : Has(tables[t], key, run.id)
    <3>1. PICK j \in 1..4 : Tables[j] = t
      BY TablesAreNamed
    <3>2. CASE j = 4
      BY <1>1, <1>7, <3>1, <3>2, TableFilled
    <3>3. CASE j < 4
      BY <1>1, <1>7, <3>1, <3>3 DEF FillInv
    <3> QED BY <3>2, <3>3
  <2>2. \A r \in tables[t] : r.run = run.id => r.key \in Keys(files, t) /\ r.value \in Says(files, t, r.key)
    BY <1>1, <1>7 DEF FillInv
  <2>3. /\ \A r1, r2 \in tables[t] : r1.key = r2.key => r1 = r2
        /\ \A r \in tables[t] : r.run \in 1..run.id
        /\ run.id \in Nat
    BY DEF TablesInv, Table, Runs
  <2>4. \A r \in tables[t] : r.key \in Keys(files, t) => r.run = run.id
    BY <2>1, <2>3 DEF Has
  <2>5. \A r \in tables[t] : r.run >= run.id => r.run = run.id
    BY <2>3
  <2>6. synced' = run.id
    BY <1>2, <1>7
  <2>7. \A key \in Keys(files, t) : \E r \in tables[t] : r.key = key
    BY <2>1 DEF Has
  <2>8. \A r \in tables[t] : /\ r.key \in Keys(files, t) => r.value \in Says(files, t, r.key)
                             /\ r.key \in Keys(files, t) <=> r.run >= synced'
    BY <2>2, <2>3, <2>4, <2>5, <2>6
  <2> QED BY <1>2, <2>7, <2>8 DEF Current
<1>8. CurrentInv'
  <2>1. CASE run.same
    BY <1>7, <2>1 DEF CurrentInv
  <2>2. CASE ~run.same
    BY <1>1, <1>2, <2>2 DEF SyncedInv, CurrentInv
  <2> QED BY <2>1, <2>2
<1> QED BY <1>4, <1>5, <1>6, <1>8

LEMMA StoreRunFails == StoreInv /\ RunFails => StoreInv'
<1> SUFFICES ASSUME StoreInv, RunFails PROVE StoreInv'
  OBVIOUS
<1> USE DEF StoreInv
<1>1. UNCHANGED <<files, tables, synced>> /\ run' = [run EXCEPT !.at = 0, !.left = <<>>]
  BY DEF RunFails
<1>2. run' \in Runs /\ run'.at = 0 /\ run'.id = run.id
  <2>1. <<>> \in Seq(AllRows)
    OBVIOUS
  <2>2. run \in Runs /\ 0 \in 0..4
    BY DEF TablesInv
  <2> QED BY <1>1, <2>1, <2>2, RunMoves
<1>3. FilesInv' /\ TablesInv' /\ SyncedInv' /\ FillInv'
  BY <1>1, <1>2 DEF FilesInv, TablesInv, SyncedInv, FillInv
<1>4. CurrentInv'
  BY <1>1 DEF CurrentInv, Current
<1> QED BY <1>3, <1>4

LEMMA StoreExport == StoreInv /\ Export => StoreInv'
<1> SUFFICES ASSUME StoreInv, Export PROVE StoreInv'
  OBVIOUS
<1> USE DEF StoreInv
<1>1. /\ files' \in Snapshots /\ tables' = tables /\ synced' = 0
      /\ run' = [run EXCEPT !.same = FALSE]
  BY DEF Export
<1>2. run' \in Runs /\ run'.same = FALSE /\ run'.id = run.id
  BY <1>1 DEF TablesInv, Runs
<1>3. FilesInv' /\ TablesInv'
  BY <1>1, <1>2 DEF FilesInv, TablesInv
<1>4. SyncedInv'
  BY <1>1, <1>2 DEF SyncedInv, TablesInv, Runs
<1>5. FillInv' /\ CurrentInv'
  BY <1>1, <1>2 DEF FillInv, CurrentInv
<1> QED BY <1>3, <1>4, <1>5

\* What an upsert writes.
Row == [key |-> Head(run.left).key, value |-> Head(run.left).value, run |-> run.id]

LEMMA UpsertWrites ==
  ASSUME StoreInv, Upsert
  PROVE  /\ run.at \in 1..4 /\ Tables[run.at] \in TableNames
         /\ UNCHANGED <<files, synced>> /\ DOMAIN tables' = TableNames
         /\ tables'[Tables[run.at]] = {r \in tables[Tables[run.at]] : r.key # Row.key} \cup {Row}
         /\ \A t \in TableNames : t # Tables[run.at] => tables'[t] = tables[t]
         /\ run.left # <<>> /\ run.left \in Seq(AllRows)
         /\ run' \in Runs /\ run'.at = run.at /\ run'.left = Tail(run.left)
         /\ run'.id = run.id /\ run'.same = run.same
         /\ run.id \in Nat \ {0}
<1> USE DEF StoreInv
<1> DEFINE t0 == Tables[run.at]
<1>1. run.at \in 1..4 /\ run.left # <<>> /\ run.left \in Seq(AllRows) /\ run.id \in Nat \ {0} /\ run \in Runs
  BY DEF Upsert, TablesInv, SyncedInv, Runs
<1>2. t0 \in TableNames
  BY <1>1, TablesAreNamed
<1>3. /\ UNCHANGED <<files, synced>> /\ run' = [run EXCEPT !.left = Tail(run.left)]
      /\ tables' = [tables EXCEPT ![t0] = Upserted(t0, Head(run.left))]
  BY DEF Upsert
<1>4. Upserted(t0, Head(run.left)) = {r \in tables[t0] : r.key # Row.key} \cup {Row}
  BY DEF Upserted, Row
<1>5. /\ DOMAIN tables' = TableNames /\ tables'[t0] = Upserted(t0, Head(run.left))
      /\ \A t \in TableNames : t # t0 => tables'[t] = tables[t]
  <2> HIDE DEF t0
  <2>1. DOMAIN tables = TableNames
    BY DEF TablesInv
  <2> QED BY <1>2, <1>3, <2>1
<1>6. Tail(run.left) \in Seq(AllRows)
  BY <1>1
<1>7. run' = [run EXCEPT !.at = run.at, !.left = Tail(run.left)]
  BY <1>1, <1>3 DEF Runs
<1>8. /\ run' \in Runs /\ run'.at = run.at /\ run'.left = Tail(run.left)
      /\ run'.id = run.id /\ run'.same = run.same
  <2>1. run.at \in 0..4
    BY <1>1
  <2> QED BY <1>1, <1>6, <1>7, <2>1, RunMoves
<1> QED BY <1>1, <1>2, <1>3, <1>4, <1>5, <1>8

\* Over files that stay the same the row is the next of those the files have.
LEMMA UpsertAgrees ==
  ASSUME StoreInv, Upsert, run.same
  PROVE  /\ Written + 1 \in 1..Len(Read(files, Tables[run.at]))
         /\ Row.key = Read(files, Tables[run.at])[Written + 1].key
         /\ Row.key \in Keys(files, Tables[run.at])
         /\ Row.value \in Says(files, Tables[run.at], Row.key)
<1> DEFINE rows == Read(files, Tables[run.at])
<1>1. run.at \in 1..4 /\ Tables[run.at] \in TableNames /\ run.left # <<>> /\ run.left \in Seq(AllRows)
  BY UpsertWrites
<1>2. rows \in Seq(AllRows) /\ ReadAgrees(files, Tables[run.at])
  BY <1>1, ReadFacts DEF StoreInv, FilesInv
<1>3. /\ Written \in 0..Len(rows)
      /\ \A k \in 1..Len(run.left) : run.left[k] = rows[Written + k]
  BY <1>1 DEF StoreInv, FillInv
<1>4. Len(rows) \in Nat /\ Len(run.left) \in Nat /\ Len(run.left) # 0 /\ DOMAIN rows = 1..Len(rows)
  BY <1>1, <1>2
<1>5. Written = Len(rows) - Len(run.left)
  BY DEF Written
<1> HIDE DEF rows
<1>6. Written + 1 \in 1..Len(rows) /\ Head(run.left) = rows[Written + 1]
  <2>1. Head(run.left) = run.left[1]
    BY <1>1
  <2>2. 1 \in 1..Len(run.left)
    BY <1>4
  <2>3. Written + 1 \in 1..Len(rows)
    <3> DEFINE n == Len(rows)
               m == Len(run.left)
    <3>1. n \in Nat /\ m \in Nat /\ m # 0 /\ Written = n - m /\ Written \in 0..n
      BY <1>3, <1>4, <1>5
    <3> HIDE DEF n, m
    <3>2. Written + 1 \in 1..n
      BY <3>1
    <3> QED BY <3>2 DEF n
  <2> QED BY <1>3, <2>1, <2>2, <2>3
<1>7. Row.key = rows[Written + 1].key /\ Row.value = rows[Written + 1].value
  BY <1>6 DEF Row
<1> QED BY <1>2, <1>4, <1>6, <1>7 DEF ReadAgrees, rows

LEMMA StoreUpsert == StoreInv /\ Upsert => StoreInv'
<1> SUFFICES ASSUME StoreInv, Upsert PROVE StoreInv'
  OBVIOUS
<1> USE DEF StoreInv
<1> DEFINE t0 == Tables[run.at]
<1>1. /\ run.at \in 1..4 /\ t0 \in TableNames
      /\ UNCHANGED <<files, synced>> /\ DOMAIN tables' = TableNames
      /\ tables'[t0] = {r \in tables[t0] : r.key # Row.key} \cup {Row}
      /\ \A t \in TableNames : t # t0 => tables'[t] = tables[t]
      /\ run.left # <<>> /\ run.left \in Seq(AllRows)
      /\ run' \in Runs /\ run'.at = run.at /\ run'.left = Tail(run.left)
      /\ run'.id = run.id /\ run'.same = run.same
      /\ run.id \in Nat \ {0}
  BY UpsertWrites
<1>2. Row.run = run.id
  BY DEF Row
<1> HIDE DEF t0
<1>3. \A r \in tables'[t0] : r = Row \/ (r \in tables[t0] /\ r.key # Row.key)
  BY <1>1
<1>4. FilesInv'
  BY <1>1 DEF FilesInv
<1>5. TablesInv'
  <2>1. Table(tables[t0], run.id)
    BY <1>1 DEF TablesInv
  <2>2. IsFiniteSet(tables'[t0])
    <3> DEFINE kept == {r \in tables[t0] : r.key # Row.key}
    <3>1. kept \subseteq tables[t0] /\ IsFiniteSet(tables[t0])
      BY <2>1 DEF Table
    <3> HIDE DEF kept
    <3>2. IsFiniteSet(kept \cup {Row})
      BY <3>1, FS_Subset, FS_AddElement
    <3> QED BY <1>1, <3>2 DEF kept
  <2>3. \A r \in tables'[t0] : r.run \in 1..run.id
    BY <1>1, <1>2, <1>3, <2>1 DEF Table
  <2>4. \A r1, r2 \in tables'[t0] : r1.key = r2.key => r1 = r2
    BY <1>3, <2>1 DEF Table
  <2>5. Table(tables'[t0], run.id)
    BY <2>2, <2>3, <2>4 DEF Table
  <2> QED BY <1>1, <2>5 DEF TablesInv
<1>6. SyncedInv'
  BY <1>1 DEF SyncedInv
<1>7. ASSUME NEW t \in TableNames, NEW key, \E r \in tables[t] : r.key = key
      PROVE  \E r \in tables'[t] : r.key = key
  BY <1>1, <1>7
<1>8. ASSUME NEW t \in TableNames, NEW key, Has(tables[t], key, run.id)
      PROVE  Has(tables'[t], key, run'.id)
  <2>1. CASE t # t0
    BY <1>1, <1>8, <2>1 DEF Has
  <2>2. CASE t = t0 /\ key = Row.key
    BY <1>1, <1>2, <2>2 DEF Has
  <2>3. CASE t = t0 /\ key # Row.key
    BY <1>1, <1>8, <2>3 DEF Has
  <2> QED BY <2>1, <2>2, <2>3
<1>9. ASSUME run.same
      PROVE  FillInv'
  <2> DEFINE rows == Read(files, t0)
  <2>1. /\ Written + 1 \in 1..Len(rows) /\ Row.key = rows[Written + 1].key
        /\ Row.key \in Keys(files, t0) /\ Row.value \in Says(files, t0, Row.key)
    BY <1>9, UpsertAgrees DEF t0
  <2>2. /\ Written \in 0..Len(rows)
        /\ \A k \in 1..Len(run.left) : run.left[k] = rows[Written + k]
        /\ \A k \in 1..Written : Has(tables[t0], rows[k].key, run.id)
        /\ \A j \in 1..4 : j < run.at => \A key \in Keys(files, Tables[j]) : Has(tables[Tables[j]], key, run.id)
        /\ \A t \in TableNames : \A r \in tables[t] :
             r.run = run.id => r.key \in Keys(files, t) /\ r.value \in Says(files, t, r.key)
    BY <1>1, <1>9 DEF FillInv, t0
  <2>3. Read(files', Tables[run'.at]) = rows
    BY <1>1 DEF t0
  <2>4. Len(rows) \in Nat
    BY <1>1, ReadFacts DEF FilesInv
  <2>5. Written = Len(rows) - Len(run.left) /\ Written' = Len(rows) - Len(run'.left)
    BY <2>3 DEF Written, t0
  <2> HIDE DEF rows
  <2>6. /\ Len(run'.left) = Len(run.left) - 1 /\ Len(run.left) \in Nat
        /\ \A k \in 1..Len(run'.left) : run'.left[k] = run.left[k + 1]
    BY <1>1
  <2>7. Written' = Written + 1 /\ Written' \in 0..Len(rows)
    BY <2>1, <2>4, <2>5, <2>6
  <2>8. \A k \in 1..Len(run'.left) : run'.left[k] = rows[Written' + k]
    <3> SUFFICES ASSUME NEW k \in 1..Len(run'.left) PROVE run'.left[k] = rows[Written' + k]
      OBVIOUS
    <3>1. k + 1 \in 1..Len(run.left) /\ Written + (k + 1) = Written' + k
      BY <2>2, <2>4, <2>6, <2>7
    <3> QED BY <2>2, <2>6, <3>1
  <2>9. \A k \in 1..Written' : Has(tables'[t0], rows[k].key, run'.id)
    <3>1. Has(tables'[t0], Row.key, run'.id)
      BY <1>1, <1>2 DEF Has
    <3>2. \A k \in 1..Written' : k = Written + 1 \/ k \in 1..Written
      BY <2>2, <2>4, <2>7
    <3> QED BY <1>1, <1>8, <2>1, <2>2, <3>1, <3>2
  <2>10. \A j \in 1..4 : j < run'.at => \A key \in Keys(files', Tables[j]) : Has(tables'[Tables[j]], key, run'.id)
    BY <1>1, <1>8, <2>2, TablesAreNamed
  <2>11. \A t \in TableNames : \A r \in tables'[t] :
           r.run = run'.id => r.key \in Keys(files', t) /\ r.value \in Says(files', t, r.key)
    <3> SUFFICES ASSUME NEW t \in TableNames, NEW r \in tables'[t], r.run = run.id
                 PROVE  r.key \in Keys(files, t) /\ r.value \in Says(files, t, r.key)
      BY <1>1
    <3>1. CASE r \in tables[t]
      BY <2>2, <3>1
    <3>2. CASE r \notin tables[t]
      BY <1>1, <1>3, <2>1, <3>2
    <3> QED BY <3>1, <3>2
  <2>12. Tables[run'.at] = t0
    BY <1>1 DEF t0
  <2> QED BY <2>3, <2>7, <2>8, <2>9, <2>10, <2>11, <2>12 DEF FillInv
<1>10. FillInv'
  <2>1. CASE run.same
    BY <1>9, <2>1
  <2>2. CASE ~run.same
    BY <1>1, <2>2 DEF FillInv
  <2> QED BY <2>1, <2>2
<1>11. ASSUME synced # 0, NEW t \in TableNames
       PROVE  Current(t)'
  <2>1. Current(t) /\ run.same /\ synced <= run.id
    BY <1>1, <1>11 DEF CurrentInv, SyncedInv
  <2>2. Row.key \in Keys(files, t0) /\ Row.value \in Says(files, t0, Row.key)
    BY <2>1, UpsertAgrees DEF t0
  <2>3. \A key \in Keys(files, t) : \E r \in tables'[t] : r.key = key
    BY <1>7, <2>1 DEF Current
  <2>4. ASSUME NEW r \in tables'[t]
        PROVE  /\ r.key \in Keys(files, t) => r.value \in Says(files, t, r.key)
               /\ r.key \in Keys(files, t) <=> r.run >= synced
    <3>1. CASE r \in tables[t]
      BY <2>1, <3>1 DEF Current
    <3>2. CASE r \notin tables[t]
      BY <1>1, <1>2, <1>3, <2>1, <2>2, <3>2
    <3> QED BY <3>1, <3>2
  <2> QED BY <1>1, <2>3, <2>4 DEF Current
<1>12. CurrentInv'
  BY <1>1, <1>11 DEF CurrentInv
<1> QED BY <1>4, <1>5, <1>6, <1>10, <1>12

LEMMA StoreStep == StoreInv /\ [Next]_vars => StoreInv'
<1> SUFFICES ASSUME StoreInv, [Next]_vars PROVE StoreInv'
  OBVIOUS
<1>1. CASE UNCHANGED ingest
  <2>1. UNCHANGED <<files, edits, tables, run, synced>>
    BY <1>1 DEF ingest
  <2>2. FilesInv' /\ TablesInv' /\ SyncedInv'
    BY <2>1 DEF StoreInv, FilesInv, TablesInv, SyncedInv
  <2>3. FillInv'
    BY <2>1 DEF StoreInv, FillInv, Written
  <2>4. CurrentInv'
    BY <2>1 DEF StoreInv, CurrentInv, Current
  <2> QED BY <2>2, <2>3, <2>4 DEF StoreInv
<1>2. CASE IngestNext
  BY <1>2, StoreStartRun, StoreUpsert, StoreNextTable, StoreRunCompletes, StoreRunFails, StoreExport
  DEF IngestNext
<1>3. KnowledgeNext => UNCHANGED ingest
  BY DEF KnowledgeNext, VecQuery, FtsQuery, SearchFails, Override, NoOverride, Forget, Rule
<1> QED BY <1>1, <1>2, <1>3 DEF Next, vars

LEMMA StoreInvCorrect == Spec => []StoreInv
BY StoreInit, StoreStep, PTL DEF Spec

\* After a complete run over files that are still the same, every lookup finds
\* what the files say now, and what earlier runs left behind has an older
\* snapshot_version: whatever runs broke off before (pipeline.py:78-301).
THEOREM StoreIsCurrentCorrect == Spec => []StoreIsCurrent
<1>1. StoreInv => StoreIsCurrent
  <2> SUFFICES ASSUME StoreInv PROVE StoreIsCurrent
    OBVIOUS
  <2>1. \A t \in TableNames : \A r1, r2 \in tables[t] : r1.key = r2.key => r1 = r2
    BY DEF StoreInv, TablesInv, Table
  <2>2. ASSUME synced # 0, NEW t \in TableNames
        PROVE  /\ \A key \in Keys(files, t) :
                    /\ Lookup(t, key) # {}
                    /\ \A r \in Lookup(t, key) : r.value \in Says(files, t, key)
               /\ \A r \in tables[t] : r.key \in Keys(files, t) <=> r.run >= synced
    BY <2>2 DEF StoreInv, CurrentInv, Current, Lookup
  <2> QED BY <2>1, <2>2, TablesAreNamed DEF StoreIsCurrent
<1> QED BY <1>1, StoreInvCorrect, PTL

\* A run over files that a complete run has read changes no answer of the
\* thresholds, the templates and the passages, not even for a moment (cli.py:9).
THEOREM RerunChangesNothingCorrect == Spec => RerunChangesNothing
<1>1. StoreInv /\ [Next]_vars =>
        [synced # 0 /\ synced' # 0 =>
           \A table \in ToSet(Tables) \ {"code_map"} :
             Answers(tables'[table]) = Answers(tables[table])]_ingest
  <2> SUFFICES ASSUME StoreInv, [Next]_vars, synced # 0, synced' # 0, NEW t \in TableNames \ {"code_map"}
               PROVE  UNCHANGED ingest \/ Answers(tables'[t]) = Answers(tables[t])
    BY TablesAreNamed
  <2>1. CASE UNCHANGED tables
    BY <2>1 DEF Answers
  <2>2. CASE Upsert
    <3> DEFINE t0 == Tables[run.at]
    <3>1. /\ run.at \in 1..4
          /\ tables'[t0] = {r \in tables[t0] : r.key # Row.key} \cup {Row}
          /\ \A u \in TableNames : u # t0 => tables'[u] = tables[u]
      BY <2>2, UpsertWrites
    <3>2. run.same
      BY <3>1 DEF StoreInv, SyncedInv
    <3>3. CASE t # t0
      BY <3>1, <3>3 DEF Answers
    <3>4. CASE t = t0
      <4>1. Row.key \in Keys(files, t) /\ Row.value \in Says(files, t, Row.key)
        BY <2>2, <3>2, <3>4, UpsertAgrees
      <4>2. PICK r0 \in tables[t] : r0.key = Row.key /\ r0.value \in Says(files, t, Row.key)
        BY <4>1 DEF StoreInv, CurrentInv, Current
      <4>3. r0.value = Row.value
        BY <4>1, <4>2, ReadFacts DEF StoreInv, FilesInv
      <4>4. \A r \in tables[t] : r.key = Row.key => r = r0
        BY <4>2 DEF StoreInv, TablesInv, Table
      <4> HIDE DEF t0
      <4>5. tables'[t] = {r \in tables[t] : r.key # Row.key} \cup {Row}
        BY <3>1, <3>4
      <4>6. \A a : (\E r \in tables'[t] : a = <<r.key, r.value>>) <=> (\E r \in tables[t] : a = <<r.key, r.value>>)
        BY <4>2, <4>3, <4>4, <4>5
      <4> QED BY <4>6 DEF Answers
    <3> QED BY <3>3, <3>4
  <2>3. StartRun \/ NextTable \/ RunCompletes \/ RunFails => UNCHANGED tables
    BY DEF StartRun, NextTable, RunCompletes, RunFails
  <2>4. ~Export
    BY DEF Export
  <2>5. KnowledgeNext \/ UNCHANGED vars => UNCHANGED ingest
    BY DEF KnowledgeNext, VecQuery, FtsQuery, SearchFails, Override, NoOverride, Forget, Rule, vars
  <2> QED BY <2>1, <2>2, <2>3, <2>4, <2>5 DEF Next, IngestNext
<1> QED BY <1>1, StoreInvCorrect, PTL DEF Spec, RerunChangesNothing

-----------------------------------------------------------------------------
(***************************************************************************)
(* retrieval.py: the scores are fractions, and the order of the scored     *)
(* passages is strict and total, so that the fusion is what it says.       *)
(***************************************************************************)
Fractions == [num : Nat, den : Nat \ {0}]

LEMMA Product ==
  /\ \A x, y \in Nat : x * y \in Nat
  /\ \A x, y \in Nat \ {0} : x * y \in Nat \ {0}
  /\ \A x, y, z \in Nat : (x * y) * z = (x * z) * y /\ x * y = y * x
  /\ \A x, y, z \in Nat : (x + y) * z = x * z + y * z
OBVIOUS

LEMMA ProductOrder ==
  ASSUME NEW x \in Nat, NEW y \in Nat, NEW z \in Nat \ {0}
  PROVE  x >= y <=> x * z >= y * z
OBVIOUS

LEMMA CrossProducts ==
  ASSUME NEW an \in Nat, NEW ad \in Nat \ {0}, NEW bn \in Nat, NEW bd \in Nat \ {0},
         NEW cn \in Nat, NEW cd \in Nat \ {0},
         an * bd >= bn * ad, bn * cd >= cn * bd
  PROVE  an * cd >= cn * ad
<1>1. (an * bd) * cd >= (bn * ad) * cd
  BY Product, ProductOrder
<1>2. (bn * cd) * ad >= (cn * bd) * ad
  BY Product, ProductOrder
<1>3. (an * bd) * cd = (an * cd) * bd /\ (bn * ad) * cd = (bn * cd) * ad /\ (cn * bd) * ad = (cn * ad) * bd
  BY Product
<1> DEFINE p == an * cd
           q == cn * ad
<1>4. p \in Nat /\ q \in Nat /\ (an * bd) * cd \in Nat /\ (bn * ad) * cd \in Nat /\ (cn * bd) * ad \in Nat
  BY Product
<1>5. p * bd >= q * bd
  BY <1>1, <1>2, <1>3, <1>4
<1> HIDE DEF p, q
<1>6. p >= q
  BY <1>4, <1>5, ProductOrder
<1> QED BY <1>6 DEF p, q

\* A total order of the fractions.
AtLeast(a, b) == ~Greater(b, a)

LEMMA FractionsOrdered ==
  ASSUME NEW a \in Fractions, NEW b \in Fractions, NEW c \in Fractions
  PROVE  /\ AtLeast(a, a) /\ (AtLeast(a, b) \/ AtLeast(b, a))
         /\ AtLeast(a, b) /\ AtLeast(b, c) => AtLeast(a, c)
<1>1. \A x, y \in Fractions : /\ x.num \in Nat /\ x.den \in Nat \ {0} /\ x.num * y.den \in Nat
                              /\ AtLeast(x, y) <=> x.num * y.den >= y.num * x.den
  BY Product DEF Fractions, AtLeast, Greater
<1>2. AtLeast(a, a) /\ (AtLeast(a, b) \/ AtLeast(b, a))
  BY <1>1
<1>3. AtLeast(a, b) /\ AtLeast(b, c) => AtLeast(a, c)
  BY <1>1, CrossProducts
<1> QED BY <1>2, <1>3

\* The rank of a passage is its first place, or 0.
LEMMA RankFacts ==
  ASSUME NEW S, NEW s \in Seq(S), NEW p
  PROVE  \/ Rank(s, p) = 0 /\ p \notin ToSet(s) /\ \A i \in 1..Len(s) : s[i] # p
         \/ /\ Rank(s, p) \in 1..Len(s) /\ s[Rank(s, p)] = p /\ p \in ToSet(s)
            /\ \A k \in 1..Len(s) : s[k] = p => Rank(s, p) <= k
<1> DEFINE I == {i \in 1..Len(s) : s[i] = p}
           m == Min(I)
<1>1. Rank(s, p) = IF I # {} THEN m ELSE 0
  BY DEF Rank, SelectInSeq
<1>2. ToSet(s) = {s[i] : i \in 1..Len(s)}
  BY DEF ToSet
<1>3. CASE I = {}
  BY <1>1, <1>2, <1>3
<1>4. CASE I # {}
  <2>1. I \subseteq Nat
    OBVIOUS
  <2>2. m \in I /\ \A i \in I : m <= i
    <3> HIDE DEF I
    <3> QED BY <1>4, <2>1, MinIsLeast
  <2> HIDE DEF m
  <2> QED BY <1>1, <1>2, <1>4, <2>2
<1> QED BY <1>3, <1>4

LEMMA RrfType ==
  ASSUME NEW rank \in Nat
  PROVE  Rrf(rank) \in Fractions
<1>1. CASE rank = 0
  BY <1>1 DEF Rrf, Fractions
<1>2. CASE rank # 0
  BY <1>2, KnowledgeAssumption DEF Rrf, Fractions
<1> QED BY <1>1, <1>2

\* The sum of two fractions.
Plus(v, f) == [num |-> v.num * f.den + f.num * v.den, den |-> v.den * f.den]

LEMMA PlusType ==
  ASSUME NEW v \in Fractions, NEW f \in Fractions
  PROVE  Plus(v, f) \in Fractions
<1>1. /\ v.num \in Nat /\ v.den \in Nat \ {0} /\ f.num \in Nat /\ f.den \in Nat \ {0}
  BY DEF Fractions
<1>2. v.num * f.den \in Nat /\ f.num * v.den \in Nat /\ v.den * f.den \in Nat \ {0}
  BY <1>1, Product
<1>3. v.num * f.den + f.num * v.den \in Nat
  BY <1>2
<1> QED BY <1>2, <1>3 DEF Plus, Fractions

LEMMA ScoreType ==
  ASSUME NEW S, NEW vec \in Seq(S), NEW fts \in Seq(S), NEW p
  PROVE  /\ Rank(vec, p) \in Nat /\ Rank(fts, p) \in Nat
         /\ Score(vec, fts, p) = Plus(Rrf(Rank(vec, p)), Rrf(Rank(fts, p)))
         /\ Score(vec, fts, p) \in Fractions
<1>1. Rank(vec, p) \in Nat /\ Rank(fts, p) \in Nat
  BY RankFacts
<1>2. Score(vec, fts, p) = Plus(Rrf(Rank(vec, p)), Rrf(Rank(fts, p)))
  BY DEF Score, Plus
<1> QED BY <1>1, <1>2, RrfType, PlusType

\* A set that is counted without repetition has as many elements.
LEMMA Counted ==
  ASSUME NEW T, NEW n \in Nat, NEW f \in [1..n -> T],
         \A i, j \in 1..n : f[i] = f[j] => i = j,
         \A x \in T : \E i \in 1..n : f[i] = x
  PROVE  IsFiniteSet(T) /\ Cardinality(T) = n
<1>1. f \in Bijection(1..n, T)
  BY DEF Bijection, Injection, Surjection, IsInjective
<1>2. ExistsBijection(1..n, T)
  BY <1>1 DEF ExistsBijection
<1>3. IsFiniteSet(1..n) /\ Cardinality(1..n) = n
  BY FS_Interval
<1> QED BY <1>2, <1>3, FS_Bijection

\* The passages in the order in which they are met, and the ones with scores.
Met(vec, fts) == vec \o At(fts, {i \in DOMAIN fts : Rank(vec, fts[i]) = 0})

Entry(vec, fts, i) == [passage |-> Met(vec, fts)[i],
                       score   |-> Score(vec, fts, Met(vec, fts)[i]), met |-> i]

Scored(vec, fts) == {Entry(vec, fts, i) : i \in DOMAIN Met(vec, fts)}

Before(a, b) == \/ Greater(a.score, b.score)
                \/ ~Greater(b.score, a.score) /\ a.met < b.met

BeforeIn(S) == {p \in S \X S : Before(p[1], p[2])}

Joined(S, a, b, c) == /\ c \in Seq(S) /\ Len(c) = Len(a) + Len(b)
                      /\ \A i \in 1..Len(a) : c[i] = a[i]
                      /\ \A n \in 1..Len(b) : c[Len(a) + n] = b[n]

LEMMA CatFacts ==
  ASSUME NEW S, NEW a \in Seq(S), NEW b \in Seq(S)
  PROVE  Joined(S, a, b, Cat(a, b))
<1>1. Cat(a, b) \in Seq(S) /\ Len(Cat(a, b)) = Len(a) + Len(b)
  BY DEF Cat
<1>2. \A i \in 1..Len(a) : Cat(a, b)[i] = a[i]
  BY DEF Cat
<1>3. \A n \in 1..Len(b) : Cat(a, b)[Len(a) + n] = b[n]
  BY DEF Cat
<1> QED BY <1>1, <1>2, <1>3 DEF Joined

LEMMA MetFacts ==
  ASSUME NEW P, NEW vec \in Seq(P), NEW fts \in Seq(P)
  PROVE  /\ Met(vec, fts) \in Seq(P)
         /\ ToSet(Met(vec, fts)) = ToSet(vec) \cup ToSet(fts)
         /\ IsInjective(vec) /\ IsInjective(fts) => IsInjective(Met(vec, fts))
<1> DEFINE I == {i \in DOMAIN fts : Rank(vec, fts[i]) = 0}
           extra == At(fts, I)
           met == Met(vec, fts)
           c == Cardinality(I)
           f == InOrder(I)
<1>1. I \in SUBSET DOMAIN fts /\ DOMAIN fts = 1..Len(fts)
  OBVIOUS
<1>2. \A i \in DOMAIN fts : i \in I <=> fts[i] \notin ToSet(vec)
  BY RankFacts
<1> HIDE DEF I
<1>3. /\ c \in Nat /\ extra \in Seq(P) /\ Len(extra) = c /\ f \in [1..c -> I]
      /\ \A n \in 1..c : extra[n] = fts[f[n]]
      /\ \A i, j \in 1..c : i < j => f[i] < f[j]
      /\ \A i \in I : \E n \in 1..c : f[n] = i
  BY <1>1, AtProperties
<1>4. \A n \in 1..c : f[n] \in 1..Len(fts) /\ extra[n] = fts[f[n]] /\ extra[n] \notin ToSet(vec)
  BY <1>1, <1>2, <1>3
<1>5. met = Cat(vec, extra)
  BY DEF Met, I, Cat
<1> HIDE DEF met, extra, f, c
<1>6. /\ met \in Seq(P) /\ Len(met) = Len(vec) + c /\ Len(vec) \in Nat
      /\ \A i \in 1..Len(vec) : met[i] = vec[i]
      /\ \A n \in 1..c : met[Len(vec) + n] = extra[n]
  <2>1. Len(vec) \in Nat
    OBVIOUS
  <2>2. vec \in Seq(P) /\ extra \in Seq(P) /\ Len(extra) = c
    BY <1>3
  <2>3. Joined(P, vec, extra, met)
    BY <1>5, <2>2, CatFacts, Zenon
  <2> QED BY <2>1, <2>2, <2>3 DEF Joined
<1>7. ToSet(met) = ToSet(vec) \cup ToSet(fts)
  <2>1. /\ ToSet(met) = {met[i] : i \in 1..Len(met)} /\ ToSet(vec) = {vec[i] : i \in 1..Len(vec)}
        /\ ToSet(fts) = {fts[i] : i \in 1..Len(fts)}
    BY <1>6 DEF ToSet
  <2>2. \A i \in 1..Len(met) : i \in 1..Len(vec) \/ \E n \in 1..c : i = Len(vec) + n
    <3> SUFFICES ASSUME NEW i \in 1..Len(met), i \notin 1..Len(vec)
                 PROVE  \E n \in 1..c : i = Len(vec) + n
      OBVIOUS
    <3>1. i - Len(vec) \in 1..c /\ i = Len(vec) + (i - Len(vec))
      BY <1>3, <1>6
    <3> QED BY <3>1
  <2>3. ToSet(met) \subseteq ToSet(vec) \cup ToSet(fts)
    <3> SUFFICES ASSUME NEW i \in 1..Len(met) PROVE met[i] \in ToSet(vec) \cup ToSet(fts)
      BY <2>1
    <3>1. CASE i \in 1..Len(vec)
      BY <1>6, <2>1, <3>1
    <3>2. ASSUME NEW n \in 1..c, i = Len(vec) + n
          PROVE  met[i] \in ToSet(fts)
      BY <1>4, <1>6, <2>1, <3>2
    <3> QED BY <2>2, <3>1, <3>2
  <2>4. ToSet(vec) \subseteq ToSet(met)
    BY <1>3, <1>6, <2>1
  <2>5. ASSUME NEW i \in 1..Len(fts), fts[i] \notin ToSet(vec)
        PROVE  fts[i] \in ToSet(met)
    <3>1. PICK n \in 1..c : f[n] = i
      BY <1>1, <1>2, <1>3, <2>5
    <3>2. fts[i] = met[Len(vec) + n] /\ Len(vec) + n \in 1..Len(met)
      BY <1>3, <1>6, <3>1
    <3> QED BY <2>1, <3>2
  <2>6. ToSet(fts) \subseteq ToSet(met)
    BY <2>1, <2>4, <2>5
  <2> QED BY <2>3, <2>4, <2>6
<1>8. ASSUME IsInjective(vec), IsInjective(fts)
      PROVE  IsInjective(met)
  <2>1. \A i, j \in 1..Len(vec) : met[i] = met[j] => i = j
    BY <1>6, <1>8 DEF IsInjective
  <2>2. \A m, n \in 1..c : met[Len(vec) + m] = met[Len(vec) + n] => m = n
    <3> SUFFICES ASSUME NEW m \in 1..c, NEW n \in 1..c, met[Len(vec) + m] = met[Len(vec) + n]
                 PROVE  m = n
      OBVIOUS
    <3>1. fts[f[m]] = fts[f[n]] /\ f[m] \in DOMAIN fts /\ f[n] \in DOMAIN fts
      BY <1>1, <1>3, <1>6
    <3>2. f[m] = f[n]
      BY <1>8, <3>1 DEF IsInjective
    <3>3. f[m] \in Int
      BY <1>1, <3>1
    <3> QED BY <1>1, <1>3, <3>2, <3>3
  <2>3. \A i \in 1..Len(vec), n \in 1..c : met[i] # met[Len(vec) + n]
    <3> SUFFICES ASSUME NEW i \in 1..Len(vec), NEW n \in 1..c PROVE met[i] # met[Len(vec) + n]
      OBVIOUS
    <3>1. met[Len(vec) + n] \notin ToSet(vec)
      BY <1>4, <1>6
    <3>2. met[i] \in ToSet(vec)
      BY <1>6 DEF ToSet
    <3> QED BY <3>1, <3>2
  <2>4. \A i \in DOMAIN met : i \in 1..Len(vec) \/ \E n \in 1..c : i = Len(vec) + n
    <3> SUFFICES ASSUME NEW i \in DOMAIN met, i \notin 1..Len(vec)
                 PROVE  \E n \in 1..c : i = Len(vec) + n
      OBVIOUS
    <3>1. i - Len(vec) \in 1..c /\ i = Len(vec) + (i - Len(vec))
      BY <1>3, <1>6
    <3> QED BY <3>1
  <2>5. \A i, j \in DOMAIN met : met[i] = met[j] => i = j
    BY <2>1, <2>2, <2>3, <2>4
  <2> QED BY <2>5 DEF IsInjective
<1> QED BY <1>6, <1>7, <1>8 DEF met

LEMMA ScoredFacts ==
  ASSUME NEW P, NEW vec \in Seq(P), NEW fts \in Seq(P)
  PROVE  /\ IsFiniteSet(Scored(vec, fts)) /\ Cardinality(Scored(vec, fts)) = Len(Met(vec, fts))
         /\ StrictOrder(BeforeIn(Scored(vec, fts)), Scored(vec, fts))
<1> DEFINE S == Scored(vec, fts)
           met == Met(vec, fts)
           n == Len(met)
           E(i) == Entry(vec, fts, i)
           f == [i \in 1..n |-> E(i)]
<1>1. met \in Seq(P) /\ n \in Nat /\ DOMAIN met = 1..n
  BY MetFacts
<1>2. \A i \in 1..n : E(i).met = i /\ E(i).score \in Fractions
  BY ScoreType DEF Entry
<1>3. S = {E(i) : i \in 1..n}
  BY <1>1 DEF Scored
<1> HIDE DEF met, E, S, n
<1>4. /\ f \in [1..n -> S] /\ \A i, j \in 1..n : f[i] = f[j] => i = j
      /\ \A x \in S : \E i \in 1..n : f[i] = x
  <2>1. \A i, j \in 1..n : E(i) = E(j) => i = j
    BY <1>2
  <2> QED BY <1>3, <2>1
<1> HIDE DEF f
<1>5. IsFiniteSet(S) /\ Cardinality(S) = n
  BY <1>1, <1>4, Counted
<1>6. \A a \in S : a.score \in Fractions /\ a.met \in Nat
  BY <1>1, <1>2, <1>3
<1>7. \A a, b \in S : a.met = b.met => a = b
  BY <1>2, <1>3
<1> DEFINE R == BeforeIn(S)
<1>8. \A a, b \in S : <<a, b>> \in R <=> \/ ~AtLeast(b.score, a.score)
                                         \/ AtLeast(a.score, b.score) /\ a.met < b.met
  BY DEF BeforeIn, Before, AtLeast
<1> HIDE DEF R
<1>9. \A a \in S : <<a, a>> \notin R
  BY <1>6, <1>8, FractionsOrdered
<1>10. \A a, b \in S : a # b => <<a, b>> \in R \/ <<b, a>> \in R
  BY <1>6, <1>7, <1>8, FractionsOrdered
<1>11. ASSUME NEW a \in S, NEW b \in S, NEW c \in S, <<a, b>> \in R, <<b, c>> \in R
       PROVE  <<a, c>> \in R
  <2> DEFINE x == a.score
             y == b.score
             z == c.score
  <2>1. /\ ~AtLeast(y, x) \/ (AtLeast(x, y) /\ a.met < b.met)
        /\ ~AtLeast(z, y) \/ (AtLeast(y, z) /\ b.met < c.met)
    BY <1>8, <1>11
  <2>2. x \in Fractions /\ y \in Fractions /\ z \in Fractions
        /\ a.met \in Nat /\ b.met \in Nat /\ c.met \in Nat
    BY <1>6
  <2>3. <<a, c>> \in R <=> ~AtLeast(z, x) \/ (AtLeast(x, z) /\ a.met < c.met)
    BY <1>8
  <2> HIDE DEF x, y, z
  <2>4. /\ AtLeast(x, y) \/ AtLeast(y, x)
        /\ AtLeast(y, z) \/ AtLeast(z, y)
        /\ AtLeast(x, y) /\ AtLeast(y, z) => AtLeast(x, z)
        /\ AtLeast(z, x) /\ AtLeast(x, y) => AtLeast(z, y)
        /\ AtLeast(y, z) /\ AtLeast(z, x) => AtLeast(y, x)
    BY <2>2, FractionsOrdered
  <2>5. AtLeast(x, z)
    BY <2>1, <2>4
  <2>6. AtLeast(z, x) => AtLeast(z, y) /\ AtLeast(y, x)
    BY <2>1, <2>4
  <2> QED BY <2>1, <2>2, <2>3, <2>5, <2>6
<1>12. StrictOrder(R, S)
  BY <1>9, <1>10, <1>11 DEF StrictOrder
<1> QED BY <1>5, <1>12 DEF R, S, n, met

\* The fusion is the best TopK of the passages that are met, by score and then
\* by the place where they are met: g has these places from the best on.
FusedBy(P, vec, fts, n, g) ==
  LET met == Met(vec, fts)
  IN /\ n \in Nat /\ n = Least(TopK, Len(met)) /\ n <= Len(met) /\ n <= TopK
     /\ g \in [1..Len(met) -> 1..Len(met)]
     /\ Fuse(vec, fts) \in Seq(P) /\ Len(Fuse(vec, fts)) = n
     /\ \A k \in 1..n : Fuse(vec, fts)[k] = met[g[k]]
     /\ \A i, j \in 1..Len(met) : i < j => Before(Entry(vec, fts, g[i]), Entry(vec, fts, g[j]))
     /\ \A i \in 1..Len(met) : \E k \in 1..Len(met) : g[k] = i

LEMMA FuseFacts ==
  ASSUME NEW P, NEW vec \in Seq(P), NEW fts \in Seq(P)
  PROVE  \E n, g : FusedBy(P, vec, fts, n, g)
<1> DEFINE met == Met(vec, fts)
           S == Scored(vec, fts)
           R == BeforeIn(S)
           N == Len(met)
           n == Least(TopK, N)
           f == RankedBy(Below(R, S), S)
           g == [k \in 1..N |-> f[k].met]
           E(i) == Entry(vec, fts, i)
<1>1. /\ met \in Seq(P) /\ N \in Nat /\ DOMAIN met = 1..N /\ \A i \in 1..N : met[i] \in P
  BY MetFacts
<1>2. n \in Nat /\ n <= N /\ n <= TopK
  BY <1>1, KnowledgeAssumption DEF Least
<1>3. IsFiniteSet(S) /\ Cardinality(S) = N /\ StrictOrder(R, S)
  BY ScoredFacts
<1>4. Sorted(S, Before) = f
  <2>1. \A x \in S : Below(R, S)[x] = {y \in S : Before(y, x)}
    BY DEF Below, BeforeIn
  <2> HIDE DEF S, R
  <2> DEFINE A == {[at |-> 1 + Cardinality({y \in S : Before(y, x)}), it |-> x] : x \in S}
             B == {[at |-> 1 + Cardinality(Below(R, S)[x]), it |-> x] : x \in S}
  <2>2. A = B
    BY <2>1
  <2>3. Sorted(S, Before) = [k \in 1..Cardinality(S) |-> (CHOOSE r \in A : r.at = k).it]
    BY DEF Sorted
  <2>4. f = [k \in 1..Cardinality(S) |-> (CHOOSE r \in B : r.at = k).it]
    BY DEF RankedBy
  <2> HIDE DEF A, B, f
  <2> QED BY <2>2, <2>3, <2>4
<1>5. Fuse(vec, fts) = [k \in 1..n |-> f[k].passage]
  <2>1. Fuse(vec, fts) = [k \in 1..n |-> Sorted(S, Before)[k].passage]
    BY DEF Fuse, Met, Scored, Entry, Those, Before
  <2> HIDE DEF f, S, n
  <2> QED BY <1>4, <2>1
<1>6. Enumerates(f, S, R)
  <2> HIDE DEF S, R
  <2> QED BY <1>3, RankedEnumerates
<1> HIDE DEF f
<1>7. /\ f \in [1..N -> S] /\ \A x \in S : \E k \in 1..N : f[k] = x
      /\ \A i, j \in 1..N : i < j => Before(f[i], f[j])
  <2>1. \A a, b \in S : <<a, b>> \in R => Before(a, b)
    BY DEF BeforeIn
  <2> HIDE DEF R, S, N
  <2> QED BY <1>3, <1>6, <2>1 DEF Enumerates
<1>8. S = {E(i) : i \in 1..N} /\ \A i \in 1..N : E(i).met = i /\ E(i).passage = met[i]
  BY <1>1 DEF Scored, Entry
<1> HIDE DEF S, E, met, N
<1>9. \A k \in 1..N : f[k] = E(g[k]) /\ g[k] \in 1..N /\ f[k].passage = met[g[k]]
  BY <1>7, <1>8
<1>10. g \in [1..N -> 1..N]
  BY <1>9
<1>11. \A i \in 1..N : \E k \in 1..N : g[k] = i
  <2> SUFFICES ASSUME NEW i \in 1..N PROVE \E k \in 1..N : g[k] = i
    OBVIOUS
  <2>1. PICK k \in 1..N : f[k] = E(i)
    BY <1>7, <1>8
  <2>2. g[k] = i
    BY <1>8, <2>1
  <2> QED BY <2>2
<1> HIDE DEF g
<1>12. \A i, j \in 1..N : i < j => Before(E(g[i]), E(g[j]))
  BY <1>7, <1>9
<1> HIDE DEF n
<1>13. /\ Fuse(vec, fts) \in Seq(P) /\ Len(Fuse(vec, fts)) = n
       /\ \A k \in 1..n : Fuse(vec, fts)[k] = met[g[k]]
  <2>1. \A k \in 1..n : k \in 1..N /\ f[k].passage \in P /\ f[k].passage = met[g[k]]
    BY <1>1, <1>2, <1>9
  <2> DEFINE F == [k \in 1..n |-> f[k].passage]
  <2>2. F \in Seq(P) /\ Len(F) = n /\ \A k \in 1..n : F[k] = met[g[k]]
    BY <1>2, <2>1
  <2> HIDE DEF F
  <2>3. F = Fuse(vec, fts)
    BY <1>5 DEF F
  <2> QED BY <2>2, <2>3
<1>14. FusedBy(P, vec, fts, n, g)
  BY <1>2, <1>10, <1>11, <1>12, <1>13 DEF n, E, met, N, FusedBy
<1> QED BY <1>14

\* A better rank is a greater score.
LEMMA RrfOrder ==
  ASSUME NEW a \in Nat, NEW b \in Nat
  PROVE  /\ b = 0 \/ a \in 1..b => AtLeast(Rrf(a), Rrf(b))
         /\ a # 0 /\ (b = 0 \/ a < b) => Greater(Rrf(a), Rrf(b))
<1>1. \A r \in Nat : r # 0 => Rrf(r).num = 1 /\ Rrf(r).den = RrfK + r
  BY DEF Rrf
<1>2. Rrf(0).num = 0 /\ Rrf(0).den = 1
  BY DEF Rrf
<1>3. RrfK \in Nat
  BY KnowledgeAssumption
<1>4. CASE b = 0
  <2>1. CASE a = 0
    BY <1>2, <1>4, <2>1 DEF AtLeast, Greater
  <2>2. CASE a # 0
    BY <1>1, <1>2, <1>3, <1>4, <2>2 DEF AtLeast, Greater
  <2> QED BY <2>1, <2>2
<1>5. CASE b # 0 /\ a = 0
  BY <1>5
<1>6. CASE b # 0 /\ a # 0
  <2>1. Greater(Rrf(a), Rrf(b)) <=> RrfK + b > RrfK + a
    BY <1>1, <1>3, <1>6 DEF Greater
  <2>2. AtLeast(Rrf(a), Rrf(b)) <=> ~(RrfK + a > RrfK + b)
    BY <1>1, <1>3, <1>6 DEF AtLeast, Greater
  <2> QED BY <1>3, <1>6, <2>1, <2>2
<1> QED BY <1>4, <1>5, <1>6

LEMMA CrossSum ==
  ASSUME NEW an \in Nat, NEW ad \in Nat, NEW bn \in Nat, NEW bd \in Nat,
         NEW cn \in Nat, NEW cd \in Nat, NEW dn \in Nat, NEW dd \in Nat
  PROVE  /\ (an * bd + bn * ad) * (cd * dd) = (an * cd) * (bd * dd) + (bn * dd) * (ad * cd)
         /\ (cn * dd + dn * cd) * (ad * bd) = (cn * ad) * (bd * dd) + (dn * bd) * (ad * cd)
OBVIOUS

LEMMA SumOrder ==
  ASSUME NEW a \in Nat, NEW b \in Nat, NEW c \in Nat, NEW d \in Nat,
         NEW x \in Nat \ {0}, NEW y \in Nat \ {0}, a >= c, b >= d
  PROVE  /\ a * x + b * y >= c * x + d * y
         /\ a > c \/ b > d => a * x + b * y > c * x + d * y
<1> DEFINE ax == a * x
           by == b * y
           cx == c * x
           dy == d * y
<1>1. ax \in Nat /\ by \in Nat /\ cx \in Nat /\ dy \in Nat
  BY Product
<1>2. ax >= cx /\ by >= dy /\ (a > c => ~(cx >= ax)) /\ (b > d => ~(dy >= by))
  BY ProductOrder
<1> HIDE DEF ax, by, cx, dy
<1>3. ax + by >= cx + dy /\ (a > c \/ b > d => ax + by > cx + dy)
  BY <1>1, <1>2
<1> QED BY <1>3 DEF ax, by, cx, dy

LEMMA PlusOrder ==
  ASSUME NEW a \in Fractions, NEW b \in Fractions, NEW c \in Fractions, NEW d \in Fractions,
         AtLeast(a, c), AtLeast(b, d), Greater(a, c) \/ Greater(b, d)
  PROVE  Greater(Plus(a, b), Plus(c, d))
<1> DEFINE A == a.num * c.den
           B == b.num * d.den
           C == c.num * a.den
           D == d.num * b.den
           x == b.den * d.den
           y == a.den * c.den
<1>1. \A f \in {a, b, c, d} : f.num \in Nat /\ f.den \in Nat /\ f.den \in Nat \ {0}
  BY DEF Fractions
<1>2. A \in Nat /\ B \in Nat /\ C \in Nat /\ D \in Nat /\ x \in Nat \ {0} /\ y \in Nat \ {0}
  BY <1>1, Product
<1>3. A >= C /\ B >= D /\ (A > C \/ B > D)
  BY <1>2 DEF AtLeast, Greater
<1>4. Plus(a, b).num * Plus(c, d).den = A * x + B * y
  BY <1>1, CrossSum DEF Plus
<1>5. Plus(c, d).num * Plus(a, b).den = C * x + D * y
  BY <1>1, CrossSum DEF Plus
<1> HIDE DEF A, B, C, D, x, y
<1>6. A * x + B * y > C * x + D * y
  BY <1>2, <1>3, SumOrder
<1> QED BY <1>4, <1>5, <1>6 DEF Greater

LEMMA BetterScore ==
  ASSUME NEW P, NEW vec \in Seq(P), NEW fts \in Seq(P), NEW p, NEW q,
         p # q, NotWorse(vec, p, q), NotWorse(fts, p, q), q \in ToSet(vec) \cup ToSet(fts),
         p \in ToSet(vec) \cup ToSet(fts)
  PROVE  Greater(Score(vec, fts, p), Score(vec, fts, q))
<1> DEFINE vp == Rank(vec, p)
           vq == Rank(vec, q)
           fp == Rank(fts, p)
           fq == Rank(fts, q)
<1>1. vp \in Nat /\ vq \in Nat /\ fp \in Nat /\ fq \in Nat
  BY RankFacts
<1>2. /\ Score(vec, fts, p) = Plus(Rrf(vp), Rrf(fp))
      /\ Score(vec, fts, q) = Plus(Rrf(vq), Rrf(fq))
  BY ScoreType
<1>3. (vq = 0 \/ vp \in 1..vq) /\ (fq = 0 \/ fp \in 1..fq)
  BY DEF NotWorse
<1>4. vq # 0 \/ fq # 0
  BY RankFacts
<1>5. (vq # 0 => vp # vq) /\ (fq # 0 => fp # fq)
  BY RankFacts
<1> HIDE DEF vp, vq, fp, fq
<1>6. AtLeast(Rrf(vp), Rrf(vq)) /\ AtLeast(Rrf(fp), Rrf(fq))
  BY <1>1, <1>3, RrfOrder
<1>7. Greater(Rrf(vp), Rrf(vq)) \/ Greater(Rrf(fp), Rrf(fq))
  <2>1. (vp # 0 /\ vp < vq) \/ (fp # 0 /\ fp < fq)
    BY <1>1, <1>3, <1>4, <1>5
  <2> QED BY <1>1, <2>1, RrfOrder
<1> QED BY <1>1, <1>2, <1>6, <1>7, RrfType, PlusOrder

LEMMA RankingType ==
  ASSUME NEW S, IsFiniteSet(S), NEW s \in SetToSeqs(S)
  PROVE  s \in Seq(S) /\ IsInjective(s) /\ Len(s) = Cardinality(S)
<1>1. Cardinality(S) \in Nat
  BY FS_CardinalityType
<1>2. s \in [1..Cardinality(S) -> S] /\ \A i, j \in 1..Cardinality(S) : i # j => s[i] # s[j]
  BY DEF SetToSeqs
<1> QED BY <1>1, <1>2 DEF IsInjective

LEMMA RankingsType ==
  ASSUME NEW S, IsFiniteSet(S), NEW s \in Rankings(S)
  PROVE  s \in Seq(S) /\ IsInjective(s)
<1>1. PICK T \in SUBSET S : s \in SetToSeqs(T)
  BY DEF Rankings, SetToAllKPermutations
<1>2. IsFiniteSet(T)
  BY FS_Subset
<1>3. s \in Seq(T) /\ IsInjective(s)
  BY <1>1, <1>2, RankingType
<1>4. s \in Seq(S)
  BY <1>3
<1> QED BY <1>3, <1>4

\* The fusion of any two rankings is the best of the passages in them, and puts
\* no passage behind one that neither ranking has before it (retrieval.py:57-98).
THEOREM FusionRespectsRanksCorrect ==
  ASSUME NEW passages, IsFiniteSet(passages)
  PROVE  FusionRespectsRanks(passages)
<1> SUFFICES ASSUME NEW vec \in Rankings(passages), NEW fts \in Rankings(passages)
             PROVE  LET fused == Fuse(vec, fts)
                        met   == ToSet(vec) \cup ToSet(fts)
                    IN /\ ToSet(fused) \subseteq met /\ IsInjective(fused)
                       /\ Len(fused) = Least(TopK, Cardinality(met))
                       /\ \A p, q \in met :
                            p # q /\ NotWorse(vec, p, q) /\ NotWorse(fts, p, q) /\ Rank(fused, q) # 0 =>
                              Rank(fused, p) \in 1..Rank(fused, q)
  BY DEF FusionRespectsRanks
<1> DEFINE fused == Fuse(vec, fts)
           all == ToSet(vec) \cup ToSet(fts)
           met == Met(vec, fts)
           N == Len(met)
           E(i) == Entry(vec, fts, i)
<1>1. vec \in Seq(passages) /\ fts \in Seq(passages) /\ IsInjective(vec) /\ IsInjective(fts)
  BY RankingsType
<1>2. met \in Seq(passages) /\ ToSet(met) = all /\ IsInjective(met)
  BY <1>1, MetFacts
<1>3. PICK n, g : FusedBy(passages, vec, fts, n, g)
  BY <1>1, FuseFacts
<1>4. /\ n \in Nat /\ n = Least(TopK, N) /\ n <= N /\ n <= TopK /\ g \in [1..N -> 1..N]
      /\ fused \in Seq(passages) /\ Len(fused) = n
      /\ \A k \in 1..n : fused[k] = met[g[k]]
      /\ \A i, j \in 1..N : i < j => Before(E(g[i]), E(g[j]))
      /\ \A i \in 1..N : \E k \in 1..N : g[k] = i
  BY <1>3 DEF FusedBy
<1>5. \A i \in 1..N : E(i).met = i /\ E(i).score = Score(vec, fts, met[i])
  BY DEF Entry
<1>6. \A p : Score(vec, fts, p) \in Fractions
  BY <1>1, ScoreType
<1> HIDE DEF fused, met, E, N
<1>7. N \in Nat /\ DOMAIN met = 1..N /\ all = {met[i] : i \in 1..N}
  <2>1. N \in Nat /\ DOMAIN met = 1..N
    BY <1>2 DEF N
  <2> QED BY <1>2, <2>1 DEF ToSet
<1> HIDE DEF all
<1>8. \A i, j \in 1..N : met[i] = met[j] => i = j
  BY <1>2, <1>7 DEF IsInjective
<1>9. N = Cardinality(all)
  <2>1. met \in [1..N -> all]
    BY <1>2, <1>7
  <2>2. \A x \in all : \E i \in 1..N : met[i] = x
    BY <1>7
  <2> QED BY <1>7, <1>8, <2>1, <2>2, Counted
<1>10. (\A k \in 1..n : k \in 1..N) /\ (\A k \in 1..N : g[k] \in 1..N)
  <2>1. \A k \in 1..n : k \in 1..N
    BY <1>4, <1>7
  <2>2. g \in [1..N -> 1..N]
    BY <1>4
  <2> QED BY <2>1, <2>2
<1>11. \A i, j \in 1..N : g[i] = g[j] => i = j
  <2>1. \A i, j \in 1..N : i < j => g[i] # g[j]
    <3> SUFFICES ASSUME NEW i \in 1..N, NEW j \in 1..N, i < j, g[i] = g[j] PROVE FALSE
      OBVIOUS
    <3>1. Before(E(g[i]), E(g[i])) /\ g[i] \in 1..N
      BY <1>4
    <3>2. E(g[i]).met = g[i] /\ E(g[i]).score \in Fractions
      BY <1>5, <1>6, <3>1
    <3> QED BY <3>1, <3>2, FractionsOrdered DEF Before, AtLeast
  <2> QED BY <2>1
<1>12. ToSet(fused) \subseteq all
  <2>1. \A k \in 1..n : fused[k] \in all
    BY <1>4, <1>7
  <2> QED BY <1>4, <2>1 DEF ToSet
<1>13. IsInjective(fused)
  <2>1. \A i, j \in 1..n : i \in 1..N /\ j \in 1..N
    BY <1>4, <1>7
  <2>2. \A i, j \in 1..n : fused[i] = fused[j] => i = j
    <3> SUFFICES ASSUME NEW i \in 1..n, NEW j \in 1..n, fused[i] = fused[j] PROVE i = j
      OBVIOUS
    <3>1. met[g[i]] = met[g[j]]
      BY <1>4
    <3>2. g[i] = g[j]
      BY <1>8, <1>10, <2>1, <3>1
    <3> QED BY <1>11, <2>1, <3>2
  <2>3. DOMAIN fused = 1..n
    BY <1>4
  <2> QED BY <2>2, <2>3 DEF IsInjective
<1>14. ASSUME NEW p \in all, NEW q \in all, p # q, NotWorse(vec, p, q), NotWorse(fts, p, q),
              Rank(fused, q) # 0
       PROVE  Rank(fused, p) \in 1..Rank(fused, q)
  <2> DEFINE k == Rank(fused, q)
  <2>1. k \in 1..n /\ fused[k] = q
    BY <1>4, <1>14, RankFacts
  <2> HIDE DEF k
  <2>2. PICK j \in 1..N : met[g[j]] = p
    <3>1. PICK i \in 1..N : met[i] = p
      BY <1>7
    <3>2. PICK j \in 1..N : g[j] = i
      BY <1>4
    <3> QED BY <3>1, <3>2
  <2>3. Greater(Score(vec, fts, p), Score(vec, fts, q))
    BY <1>1, <1>14, BetterScore DEF all
  <2>4. k \in 1..N /\ met[g[k]] = q
    <3>1. fused[k] = met[g[k]]
      BY <1>4, <2>1
    <3> QED BY <1>10, <2>1, <3>1
  <2>5. E(g[j]).score = Score(vec, fts, p) /\ E(g[k]).score = Score(vec, fts, q)
    BY <1>4, <1>5, <2>2, <2>4
  <2>6. ~Before(E(g[k]), E(g[j]))
    BY <1>6, <2>3, <2>5, FractionsOrdered DEF Before, AtLeast
  <2>7. j # k
    BY <1>14, <2>2, <2>4
  <2>8. j < k
    BY <1>4, <1>7, <2>4, <2>6, <2>7
  <2>9. j \in 1..n /\ fused[j] = p
    BY <1>4, <2>1, <2>2, <2>8
  <2>10. Rank(fused, p) \in 1..n /\ Rank(fused, p) <= j
    BY <1>4, <2>9, RankFacts
  <2> QED BY <2>1, <2>8, <2>10 DEF k
<1> QED BY <1>4, <1>9, <1>12, <1>13, <1>14 DEF fused, all

-----------------------------------------------------------------------------
(***************************************************************************)
(* conflict.py: the passages of the winner first, then the others          *)
(***************************************************************************)

\* The ranks in a part of a sequence are in the order of those in the whole.
LEMMA RankOfAt ==
  ASSUME NEW S, NEW s \in Seq(S), NEW I \in SUBSET DOMAIN s, NEW x, Rank(s, x) \in I
  PROVE  /\ Rank(At(s, I), x) \in 1..Cardinality(I)
         /\ InOrder(I)[Rank(At(s, I), x)] = Rank(s, x)
<1> DEFINE c == Cardinality(I)
           f == InOrder(I)
           part == At(s, I)
           a == Rank(s, x)
           b == Rank(part, x)
<1>1. /\ c \in Nat /\ part \in Seq(S) /\ Len(part) = c /\ f \in [1..c -> I]
      /\ \A n \in 1..c : part[n] = s[f[n]]
      /\ \A i, j \in 1..c : i < j => f[i] < f[j]
      /\ \A i \in I : \E n \in 1..c : f[n] = i
  BY AtProperties
<1>2. a \in 1..Len(s) /\ s[a] = x /\ \A k \in 1..Len(s) : s[k] = x => a <= k
  <2>1. a # 0
    OBVIOUS
  <2> QED BY <2>1, RankFacts
<1>3. I \subseteq 1..Len(s) /\ Len(s) \in Nat
  OBVIOUS
<1> HIDE DEF f, part, c, a
<1>4. PICK n \in 1..c : f[n] = a
  BY <1>1 DEF a
<1>5. part[n] = x
  BY <1>1, <1>2, <1>4
<1>6. b \in 1..c /\ part[b] = x /\ b <= n
  <2>1. x \in ToSet(part)
    <3>1. n \in DOMAIN part
      BY <1>1
    <3> QED BY <1>5, <3>1 DEF ToSet
  <2> QED BY <1>1, <1>5, <2>1, RankFacts
<1> HIDE DEF b
<1>7. f[b] \in 1..Len(s) /\ s[f[b]] = x
  BY <1>1, <1>3, <1>6
<1>8. a <= f[b]
  BY <1>2, <1>7
<1>9. b = n
  BY <1>1, <1>2, <1>3, <1>4, <1>6, <1>7, <1>8
<1> QED BY <1>4, <1>6, <1>9 DEF a, b, c, f, part

LEMMA RankOfCat ==
  ASSUME NEW S, NEW a \in Seq(S), NEW b \in Seq(S), NEW x
  PROVE  /\ x \in ToSet(a) => Rank(Cat(a, b), x) = Rank(a, x)
         /\ x \notin ToSet(a) /\ x \in ToSet(b) => Rank(Cat(a, b), x) = Len(a) + Rank(b, x)
<1> DEFINE c == Cat(a, b)
           r == Rank(c, x)
<1>1. Joined(S, a, b, c)
  BY CatFacts
<1> HIDE DEF c
<1>2. /\ c \in Seq(S) /\ Len(c) = Len(a) + Len(b) /\ Len(a) \in Nat /\ Len(b) \in Nat
      /\ \A i \in 1..Len(a) : c[i] = a[i] /\ i \in 1..Len(c)
      /\ \A n \in 1..Len(b) : c[Len(a) + n] = b[n] /\ Len(a) + n \in 1..Len(c)
  BY <1>1 DEF Joined
<1>3. \/ r = 0 /\ \A i \in 1..Len(c) : c[i] # x
      \/ r \in 1..Len(c) /\ c[r] = x /\ \A k \in 1..Len(c) : c[k] = x => r <= k
  BY <1>2, RankFacts
<1>4. \A i \in 1..Len(c) : i \in 1..Len(a) \/ (i - Len(a) \in 1..Len(b) /\ c[i] = b[i - Len(a)])
  <2> SUFFICES ASSUME NEW i \in 1..Len(c), i \notin 1..Len(a)
               PROVE  i - Len(a) \in 1..Len(b) /\ c[i] = b[i - Len(a)]
    OBVIOUS
  <2>1. i - Len(a) \in 1..Len(b) /\ Len(a) + (i - Len(a)) = i
    BY <1>2
  <2> QED BY <1>2, <2>1
<1> HIDE DEF r
<1>5. ASSUME x \in ToSet(a) PROVE r = Rank(a, x)
  <2>1. /\ Rank(a, x) \in 1..Len(a) /\ a[Rank(a, x)] = x
        /\ \A k \in 1..Len(a) : a[k] = x => Rank(a, x) <= k
    BY <1>5, RankFacts
  <2> DEFINE k == Rank(a, x)
  <2> HIDE DEF k
  <2>2. k \in 1..Len(a) /\ c[k] = x /\ k \in 1..Len(c) /\ \A i \in 1..Len(a) : a[i] = x => k <= i
    BY <1>2, <2>1 DEF k
  <2>3. r \in 1..Len(c) /\ c[r] = x /\ r <= k
    BY <1>3, <2>2
  <2>4. r \in 1..Len(a) /\ a[r] = x
    BY <1>2, <2>2, <2>3
  <2>5. r = k
    BY <1>2, <2>2, <2>3, <2>4
  <2> QED BY <2>5 DEF k
<1>6. ASSUME x \notin ToSet(a), x \in ToSet(b) PROVE r = Len(a) + Rank(b, x)
  <2>1. /\ Rank(b, x) \in 1..Len(b) /\ b[Rank(b, x)] = x
        /\ \A k \in 1..Len(b) : b[k] = x => Rank(b, x) <= k
    BY <1>6, RankFacts
  <2> DEFINE k == Rank(b, x)
  <2> HIDE DEF k
  <2>2. /\ k \in 1..Len(b) /\ c[Len(a) + k] = x /\ Len(a) + k \in 1..Len(c)
        /\ \A i \in 1..Len(b) : b[i] = x => k <= i
    BY <1>2, <2>1 DEF k
  <2>3. r \in 1..Len(c) /\ c[r] = x /\ r <= Len(a) + k
    BY <1>3, <2>2
  <2>4. r \notin 1..Len(a)
    BY <1>2, <1>6, <2>3 DEF ToSet
  <2>5. r - Len(a) \in 1..Len(b) /\ b[r - Len(a)] = x
    BY <1>4, <2>3, <2>4
  <2>6. k <= r - Len(a)
    BY <2>2, <2>5
  <2>7. r = Len(a) + k
    <3>1. r \in Nat /\ k \in Nat /\ Len(a) \in Nat
      BY <1>2, <2>2, <2>3
    <3> QED BY <2>3, <2>6, <3>1
  <2> QED BY <2>7 DEF k
<1> QED BY <1>5, <1>6 DEF r, c

\* A permutation that keeps the order of the passages of one source.
KeepsOrder(P, c, s) ==
  /\ c \in Seq(P) /\ Len(c) = Len(s) /\ ToSet(c) = ToSet(s)
  /\ \A p, q \in ToSet(s) : Source(p) = Source(q) => (Rank(c, p) < Rank(c, q) <=> Rank(s, p) < Rank(s, q))

LEMMA AtElements ==
  ASSUME NEW S, NEW s \in Seq(S), NEW I \in SUBSET DOMAIN s
  PROVE  At(s, I) \in Seq(S) /\ Len(At(s, I)) = Cardinality(I) /\ ToSet(At(s, I)) = {s[i] : i \in I}
<1> DEFINE c == Cardinality(I)
           f == InOrder(I)
           part == At(s, I)
<1>1. /\ c \in Nat /\ part \in Seq(S) /\ Len(part) = c /\ f \in [1..c -> I]
      /\ \A n \in 1..c : part[n] = s[f[n]]
      /\ \A i \in I : \E n \in 1..c : f[n] = i
  BY AtProperties
<1> HIDE DEF f, part, c
<1>2. ToSet(part) = {part[n] : n \in 1..c}
  <2>1. DOMAIN part = 1..c
    BY <1>1
  <2> QED BY <2>1 DEF ToSet
<1>3. {part[n] : n \in 1..c} = {s[i] : i \in I}
  BY <1>1
<1> QED BY <1>1, <1>2, <1>3 DEF part, c

LEMMA WinnersFacts ==
  ASSUME NEW P, NEW s \in Seq(P), NEW w
  PROVE  KeepsOrder(P, WinnersFirst(s, w), s)
<1> DEFINE I == {i \in DOMAIN s : Source(s[i]) = w}
           J == {i \in DOMAIN s : Source(s[i]) # w}
           a == At(s, I)
           b == At(s, J)
           c == Cat(a, b)
<1>1. WinnersFirst(s, w) = c
  BY DEF WinnersFirst, Those, Cat
<1>2. /\ I \in SUBSET DOMAIN s /\ J \in SUBSET DOMAIN s /\ I \cup J = DOMAIN s /\ I \cap J = {}
      /\ \A i \in DOMAIN s : (i \in I <=> Source(s[i]) = w) /\ (i \in J <=> Source(s[i]) # w)
  OBVIOUS
<1>3. DOMAIN s = 1..Len(s) /\ Len(s) \in Nat
  OBVIOUS
<1> HIDE DEF I, J
<1>4. a \in Seq(P) /\ Len(a) = Cardinality(I) /\ ToSet(a) = {s[i] : i \in I}
  BY <1>2, AtElements
<1>5. b \in Seq(P) /\ Len(b) = Cardinality(J) /\ ToSet(b) = {s[i] : i \in J}
  BY <1>2, AtElements
<1>6. Cardinality(I) \in Nat /\ Cardinality(J) \in Nat /\ Cardinality(I) + Cardinality(J) = Len(s)
  <2>1. IsFiniteSet(1..Len(s)) /\ Cardinality(1..Len(s)) = Len(s)
    BY <1>3, FS_Interval
  <2>2. IsFiniteSet(I) /\ IsFiniteSet(J)
    BY <1>2, <1>3, <2>1, FS_Subset
  <2>3. Cardinality(I \cup J) = Cardinality(I) + Cardinality(J) - Cardinality(I \cap J)
    BY <2>2, FS_Union
  <2>4. Cardinality(I \cap J) = 0
    BY <1>2, FS_EmptySet
  <2>5. Cardinality(I) \in Nat /\ Cardinality(J) \in Nat
    BY <2>2, FS_CardinalityType
  <2>6. Cardinality(I \cup J) = Len(s)
    BY <1>2, <1>3, <2>1
  <2> DEFINE m == Cardinality(I)
             n == Cardinality(J)
             o == Cardinality(I \cap J)
  <2> HIDE DEF m, n, o
  <2>7. m \in Nat /\ n \in Nat /\ o = 0 /\ Len(s) = m + n - o
    BY <2>3, <2>4, <2>5, <2>6 DEF m, n, o
  <2>8. m \in Nat /\ n \in Nat /\ m + n = Len(s)
    BY <2>7
  <2> QED BY <2>8 DEF m, n
<1> DEFINE A == ToSet(a)
           B == ToSet(b)
<1>7. A \cup B = ToSet(s) /\ \A x \in ToSet(s) : (x \in A <=> Source(x) = w) /\ (x \in B <=> Source(x) # w)
  <2>1. ToSet(s) = {s[i] : i \in DOMAIN s}
    BY DEF ToSet
  <2> QED BY <1>2, <1>4, <1>5, <2>1
<1>8. /\ \A x \in A : Rank(s, x) \in I
      /\ \A x \in B : Rank(s, x) \in J
  <2>1. \A x \in ToSet(s) : Rank(s, x) \in 1..Len(s) /\ s[Rank(s, x)] = x
    BY RankFacts
  <2> QED BY <1>2, <1>3, <1>7, <2>1
<1>9. /\ \A x \in A : Rank(a, x) \in 1..Cardinality(I) /\ InOrder(I)[Rank(a, x)] = Rank(s, x)
      /\ \A x \in B : Rank(b, x) \in 1..Cardinality(J) /\ InOrder(J)[Rank(b, x)] = Rank(s, x)
  BY <1>2, <1>8, RankOfAt
<1>10. /\ \A i, j \in 1..Cardinality(I) : i < j => InOrder(I)[i] < InOrder(I)[j]
       /\ \A i, j \in 1..Cardinality(J) : i < j => InOrder(J)[i] < InOrder(J)[j]
       /\ \A i \in 1..Cardinality(I) : InOrder(I)[i] \in Nat
       /\ \A i \in 1..Cardinality(J) : InOrder(J)[i] \in Nat
  <2>1. /\ InOrder(I) \in [1..Cardinality(I) -> I] /\ InOrder(J) \in [1..Cardinality(J) -> J]
        /\ \A i, j \in 1..Cardinality(I) : i < j => InOrder(I)[i] < InOrder(I)[j]
        /\ \A i, j \in 1..Cardinality(J) : i < j => InOrder(J)[i] < InOrder(J)[j]
    BY <1>2, AtProperties
  <2>2. I \subseteq Nat /\ J \subseteq Nat
    BY <1>2, <1>3
  <2> QED BY <2>1, <2>2
<1>11. /\ \A x \in A : Rank(c, x) = Rank(a, x)
       /\ \A x \in B : Rank(c, x) = Len(a) + Rank(b, x)
  <2> HIDE DEF a, b
  <2>1. ASSUME NEW x \in A PROVE Rank(c, x) = Rank(a, x)
    BY <1>4, <1>5, <2>1, RankOfCat
  <2>2. ASSUME NEW x \in B PROVE Rank(c, x) = Len(a) + Rank(b, x)
    <3>1. x \notin A
      BY <1>7, <2>2
    <3> QED BY <1>4, <1>5, <2>2, <3>1, RankOfCat
  <2> QED BY <2>1, <2>2
<1> HIDE DEF A, B
<1>12. ASSUME NEW p \in ToSet(s), NEW q \in ToSet(s), Source(p) = Source(q)
       PROVE  Rank(c, p) < Rank(c, q) <=> Rank(s, p) < Rank(s, q)
  <2> HIDE DEF a, b, c
  <2>1. CASE p \in A /\ q \in A
    <3>1. Rank(c, p) < Rank(c, q) => Rank(s, p) < Rank(s, q)
      BY <1>9, <1>10, <1>11, <2>1
    <3>2. Rank(c, q) < Rank(c, p) => Rank(s, q) < Rank(s, p)
      BY <1>9, <1>10, <1>11, <2>1
    <3>3. Rank(c, p) = Rank(c, q) => Rank(s, q) = Rank(s, p)
      BY <1>9, <1>11, <2>1
    <3>4. Rank(c, p) \in Nat /\ Rank(c, q) \in Nat /\ Rank(s, p) \in Nat /\ Rank(s, q) \in Nat
      BY <1>9, <1>10, <1>11, <2>1
    <3> QED BY <3>1, <3>2, <3>3, <3>4
  <2>2. CASE p \in B /\ q \in B
    <3>1. /\ Rank(c, p) = Len(a) + Rank(b, p) /\ Rank(c, q) = Len(a) + Rank(b, q)
          /\ Len(a) \in Nat /\ Rank(b, p) \in 1..Cardinality(J) /\ Rank(b, q) \in 1..Cardinality(J)
      BY <1>4, <1>6, <1>9, <1>11, <2>2
    <3>2. Rank(b, p) < Rank(b, q) => Rank(s, p) < Rank(s, q)
      BY <1>9, <1>10, <2>2
    <3>3. Rank(b, q) < Rank(b, p) => Rank(s, q) < Rank(s, p)
      BY <1>9, <1>10, <2>2
    <3>4. Rank(b, p) = Rank(b, q) => Rank(s, q) = Rank(s, p)
      BY <1>9, <2>2
    <3>5. Rank(s, p) \in Nat /\ Rank(s, q) \in Nat
      BY <1>9, <1>10, <2>2
    <3> QED BY <1>6, <3>1, <3>2, <3>3, <3>4, <3>5
  <2> QED BY <1>7, <1>12, <2>1, <2>2
<1>13. c \in Seq(P) /\ Len(c) = Len(s) /\ ToSet(c) = ToSet(s)
  <2>1. Joined(P, a, b, c)
    BY <1>4, <1>5, CatFacts, Zenon
  <2>2. c \in Seq(P) /\ Len(c) = Len(s)
    BY <1>4, <1>5, <1>6, <2>1 DEF Joined
  <2>3. ToSet(c) = A \cup B
    <3>1. /\ Len(a) \in Nat /\ Len(b) \in Nat /\ DOMAIN a = 1..Len(a) /\ DOMAIN b = 1..Len(b)
          /\ DOMAIN c = 1..(Len(a) + Len(b))
      BY <1>4, <1>5, <2>1 DEF Joined
    <3>2. \A i \in 1..Len(a) : c[i] = a[i] /\ i \in DOMAIN c
      BY <2>1, <3>1 DEF Joined
    <3>3. \A n \in 1..Len(b) : c[Len(a) + n] = b[n] /\ Len(a) + n \in DOMAIN c
      BY <2>1, <3>1 DEF Joined
    <3>4. \A i \in DOMAIN c : i \in 1..Len(a) \/ (i - Len(a) \in 1..Len(b) /\ i = Len(a) + (i - Len(a)))
      BY <3>1
    <3> HIDE DEF a, b, c
    <3>5. \A x \in ToSet(c) : x \in A \cup B
      BY <3>1, <3>2, <3>3, <3>4 DEF ToSet, A, B
    <3>6. \A x \in A \cup B : x \in ToSet(c)
      BY <3>1, <3>2, <3>3 DEF ToSet, A, B
    <3> QED BY <3>5, <3>6
  <2> QED BY <1>7, <2>2, <2>3 DEF A, B
<1> QED BY <1>1, <1>12, <1>13 DEF KeepsOrder
-----------------------------------------------------------------------------
(***************************************************************************)
(* semantic_search.  Between its steps runs may write: the passages it has *)
(* are still in the table, for an upsert replaces a row by one of its key. *)
(***************************************************************************)
Searches(P) == [at : {"idle", "vec", "fused", "answered"}, vec : Seq(P), fused : Seq(P),
                citations : Seq(P), resolved : BOOLEAN, conflict : BOOLEAN]

SearchInv == /\ search \in Searches(Passages)
             /\ Len(search.vec) <= Limit /\ Len(search.fused) <= TopK

RulingsInv == \A r \in rulings : r.conflict \in Conflicts /\ r.winner \in DOMAIN ConflictOf

BoundsInv == edits \in 0..MaxEdits /\ run.id \in 0..MaxRuns

GroundingInv == StoreInv /\ SearchInv /\ RulingsInv /\ BoundsInv /\ OnlyHumansArbitrate

LEMMA SeqGrows ==
  ASSUME NEW P, NEW Q, P \subseteq Q, NEW s \in Seq(P)
  PROVE  s \in Seq(Q)
OBVIOUS

LEMMA NoSearchType == \A P : NoSearch \in Searches(P)
<1> SUFFICES ASSUME NEW P PROVE NoSearch \in Searches(P)
  OBVIOUS
<1>1. <<>> \in Seq(P)
  OBVIOUS
<1> QED BY <1>1 DEF NoSearch, Searches

\* The fields a step assigns.
Ranked(s, t, v)     == t = [s EXCEPT !.at = "vec", !.vec = v]
Fused(s, t, f)      == t = [s EXCEPT !.at = "fused", !.fused = f]
Answered(s, t, c, b1, b2) ==
  t = [s EXCEPT !.at = "answered", !.citations = c, !.resolved = b1, !.conflict = b2]

LEMMA SearchMoves ==
  ASSUME NEW P, NEW s \in Searches(P), NEW t
  PROVE  /\ \A v \in Seq(P) : Ranked(s, t, v) =>
              t \in Searches(P) /\ t.at = "vec" /\ t.vec = v /\ t.fused = s.fused
         /\ \A f \in Seq(P) : Fused(s, t, f) =>
              t \in Searches(P) /\ t.at = "fused" /\ t.vec = s.vec /\ t.fused = f
         /\ \A c \in Seq(P), b1, b2 \in BOOLEAN : Answered(s, t, c, b1, b2) =>
                /\ t \in Searches(P) /\ t.at = "answered" /\ t.vec = s.vec /\ t.fused = s.fused
                /\ t.citations = c /\ t.resolved = b1 /\ t.conflict = b2
<1> DEFINE X == Seq(P)
           R == [at : {"idle", "vec", "fused", "answered"}, vec : X, fused : X,
                 citations : X, resolved : BOOLEAN, conflict : BOOLEAN]
<1>1. s \in R /\ R = Searches(P)
  BY DEF Searches
<1> HIDE DEF X
<1>2. ASSUME NEW v \in X, Ranked(s, t, v)
      PROVE  t \in R /\ t.at = "vec" /\ t.vec = v /\ t.fused = s.fused
  BY <1>1, <1>2 DEF Ranked
<1>3. ASSUME NEW f \in X, Fused(s, t, f)
      PROVE  t \in R /\ t.at = "fused" /\ t.vec = s.vec /\ t.fused = f
  BY <1>1, <1>3 DEF Fused
<1>4. ASSUME NEW c \in X, NEW b1 \in BOOLEAN, NEW b2 \in BOOLEAN, Answered(s, t, c, b1, b2)
      PROVE  /\ t \in R /\ t.at = "answered" /\ t.vec = s.vec /\ t.fused = s.fused
             /\ t.citations = c /\ t.resolved = b1 /\ t.conflict = b2
  BY <1>1, <1>4 DEF Answered
<1> HIDE DEF R
<1> QED BY <1>1, <1>2, <1>3, <1>4 DEF X

LEMMA PassagesFinite == StoreInv => IsFiniteSet(Passages)
<1> SUFFICES ASSUME StoreInv PROVE IsFiniteSet(Passages)
  OBVIOUS
<1> DEFINE rows == tables["kb_chunk"]
           f == [r \in rows |-> r.key]
<1>1. IsFiniteSet(rows)
  BY DEF StoreInv, TablesInv, Table, TableNames
<1>2. Passages = {r.key : r \in rows}
  BY DEF Passages
<1> HIDE DEF rows
<1>3. f \in Surjection(rows, Passages)
  BY <1>2 DEF Surjection
<1> QED BY <1>1, <1>3, FS_Surjection

LEMMA PassagesGrow == StoreInv /\ IngestNext => Passages \subseteq Passages'
<1> SUFFICES ASSUME StoreInv, IngestNext PROVE Passages \subseteq Passages'
  OBVIOUS
<1>1. CASE UNCHANGED tables
  BY <1>1 DEF Passages
<1>2. CASE Upsert
  <2> DEFINE t0 == Tables[run.at]
             new == Row
  <2>1. /\ tables'[t0] = {r \in tables[t0] : r.key # new.key} \cup {new}
        /\ \A t \in TableNames : t # t0 => tables'[t] = tables[t]
    BY <1>2, UpsertWrites
  <2> HIDE DEF t0, new
  <2>2. "kb_chunk" \in TableNames
    BY DEF TableNames
  <2>3. ASSUME NEW r \in tables["kb_chunk"] PROVE \E q \in tables'["kb_chunk"] : q.key = r.key
    <3>1. CASE t0 = "kb_chunk"
      BY <2>1, <3>1
    <3>2. CASE t0 # "kb_chunk"
      BY <2>1, <2>2, <3>2
    <3> QED BY <3>1, <3>2
  <2> QED BY <2>3 DEF Passages
<1>3. StartRun \/ NextTable \/ RunCompletes \/ RunFails \/ Export => UNCHANGED tables
  BY DEF StartRun, NextTable, RunCompletes, RunFails, Export
<1> QED BY <1>1, <1>2, <1>3 DEF IngestNext

LEMMA GroundingInit == Init => GroundingInv
<1> SUFFICES ASSUME Init PROVE GroundingInv
  OBVIOUS
<1>1. StoreInv
  BY StoreInit
<1>2. search = NoSearch /\ rulings = {} /\ edits = 0 /\ run.id = 0
  BY DEF Init, IngestInit, KnowledgeInit
<1>3. search \in Searches(Passages)
  BY <1>2, NoSearchType
<1>4. Len(search.vec) = 0 /\ Len(search.fused) = 0 /\ search.at # "answered"
  BY <1>2 DEF NoSearch
<1>5. SearchInv /\ OnlyHumansArbitrate
  BY <1>3, <1>4, KnowledgeAssumption DEF SearchInv, OnlyHumansArbitrate
<1>6. RulingsInv /\ BoundsInv
  BY <1>2, IngestAssumption DEF RulingsInv, BoundsInv
<1> QED BY <1>1, <1>5, <1>6 DEF GroundingInv

LEMMA SearchStaysTyped ==
  ASSUME SearchInv, UNCHANGED search, Passages \subseteq Passages'
  PROVE  SearchInv'
<1> DEFINE P == Passages
           Q == Passages'
<1>1. search \in Searches(P) /\ P \subseteq Q
  BY DEF SearchInv
<1> HIDE DEF P, Q
<1>2. Seq(P) \subseteq Seq(Q)
  BY <1>1, SeqGrows
<1>3. search \in Searches(Q)
  <2> DEFINE X == Seq(P)
             Y == Seq(Q)
  <2> HIDE DEF X, Y
  <2>1. X \subseteq Y
    BY <1>2 DEF X, Y
  <2>2. search \in [at : {"idle", "vec", "fused", "answered"}, vec : X, fused : X,
                    citations : X, resolved : BOOLEAN, conflict : BOOLEAN]
    BY <1>1 DEF Searches, X
  <2>3. search \in [at : {"idle", "vec", "fused", "answered"}, vec : Y, fused : Y,
                    citations : Y, resolved : BOOLEAN, conflict : BOOLEAN]
    BY <2>1, <2>2
  <2> QED BY <2>3 DEF Searches, Y
<1>4. Searches(Q) = Searches(Passages)'
  BY DEF Searches, Q
<1> QED BY <1>3, <1>4 DEF SearchInv

LEMMA IngestKeepsSearch ==
  ASSUME GroundingInv, IngestNext, UNCHANGED <<search, rulings>>
  PROVE  SearchInv' /\ RulingsInv' /\ BoundsInv' /\ OnlyHumansArbitrate'
<1> USE DEF GroundingInv
<1>1. SearchInv'
  BY PassagesGrow, SearchStaysTyped
<1>2. RulingsInv' /\ OnlyHumansArbitrate'
  BY DEF RulingsInv, OnlyHumansArbitrate
<1>3. BoundsInv'
  <2>1. run \in Runs /\ run.id \in 0..MaxRuns /\ edits \in 0..MaxEdits
    BY DEF BoundsInv, StoreInv, TablesInv
  <2>2. CASE StartRun
    <3>1. run'.id = run.id + 1 /\ run.id < MaxRuns /\ edits' = edits
      BY <2>2 DEF StartRun
    <3> QED BY <2>1, <3>1, IngestAssumption DEF BoundsInv
  <2>3. CASE Upsert
    BY <2>1, <2>3, UpsertWrites DEF BoundsInv, Upsert
  <2>4. CASE NextTable \/ RunCompletes \/ RunFails
    <3>1. run'.id = run.id /\ edits' = edits
      BY <2>1, <2>4 DEF NextTable, RunCompletes, RunFails, Runs
    <3> QED BY <2>1, <3>1 DEF BoundsInv
  <2>5. CASE Export
    <3>1. run'.id = run.id /\ edits' = edits + 1 /\ edits < MaxEdits
      BY <2>1, <2>5 DEF Export, Runs
    <3> QED BY <2>1, <3>1, IngestAssumption DEF BoundsInv
  <2> QED BY <2>2, <2>3, <2>4, <2>5 DEF IngestNext
<1> QED BY <1>1, <1>2, <1>3

\* What is known of the search before a step of it.
LEMMA SearchFacts ==
  ASSUME GroundingInv, UNCHANGED ingest
  PROVE  /\ search \in Searches(Passages) /\ Passages' = Passages
         /\ search.vec \in Seq(Passages) /\ search.fused \in Seq(Passages)
         /\ Len(search.vec) <= Limit /\ Len(search.fused) <= TopK
         /\ BoundsInv'
<1> QED BY DEF GroundingInv, SearchInv, BoundsInv, Searches, Passages, ingest

LEMMA VecQueryKeeps ==
  ASSUME GroundingInv, VecQuery
  PROVE  SearchInv' /\ RulingsInv' /\ BoundsInv' /\ OnlyHumansArbitrate'
<1> DEFINE P == Passages
<1>1. PICK nearest \in kSubset(Least(Limit, Cardinality(P)), P) : \E vec \in SetToSeqs(nearest) :
        search' = [NoSearch EXCEPT !.at = "vec", !.vec = vec]
  BY DEF VecQuery
<1>2. PICK vec \in SetToSeqs(nearest) : search' = [NoSearch EXCEPT !.at = "vec", !.vec = vec]
  BY <1>1
<1>3. IsFiniteSet(P) /\ Cardinality(P) \in Nat
  BY PassagesFinite, FS_CardinalityType DEF GroundingInv
<1>4. /\ nearest \subseteq P /\ IsFiniteSet(nearest)
      /\ Cardinality(nearest) = Least(Limit, Cardinality(P))
  <2>1. nearest \subseteq P /\ Cardinality(nearest) = Least(Limit, Cardinality(P))
    BY <1>1 DEF kSubset
  <2> QED BY <1>3, <2>1, FS_Subset
<1>5. vec \in Seq(P) /\ Len(vec) <= Limit
  <2>1. vec \in Seq(nearest) /\ Len(vec) = Cardinality(nearest)
    BY <1>2, <1>4, RankingType
  <2>2. vec \in Seq(P)
    BY <1>4, <2>1, SeqGrows
  <2>3. Least(Limit, Cardinality(P)) <= Limit
    BY <1>3, KnowledgeAssumption DEF Least
  <2> QED BY <1>4, <2>1, <2>2, <2>3
<1>6. UNCHANGED ingest /\ UNCHANGED rulings
  BY DEF VecQuery
<1>7. P' = P /\ BoundsInv'
  BY <1>6, SearchFacts
<1> HIDE DEF P
<1>8. search' \in Searches(P) /\ search'.at = "vec" /\ search'.vec = vec /\ search'.fused = NoSearch.fused
  <2>1. NoSearch \in Searches(P) /\ vec \in Seq(P) /\ Ranked(NoSearch, search', vec)
    BY <1>2, <1>5, NoSearchType DEF Ranked
  <2> QED BY <2>1, SearchMoves
<1>9. Len(search'.fused) = 0
  BY <1>8 DEF NoSearch
<1>10. SearchInv' /\ OnlyHumansArbitrate'
  BY <1>5, <1>7, <1>8, <1>9, KnowledgeAssumption DEF SearchInv, OnlyHumansArbitrate, P
<1>11. RulingsInv'
  BY <1>6 DEF GroundingInv, RulingsInv
<1> QED BY <1>7, <1>10, <1>11

LEMMA FtsQueryKeeps ==
  ASSUME GroundingInv, FtsQuery
  PROVE  SearchInv' /\ RulingsInv' /\ BoundsInv' /\ OnlyHumansArbitrate'
<1> DEFINE P == Passages
<1>1. PICK found \in SUBSET P : \E fts \in SetToSeqs(found) :
        search' = [NoSearch EXCEPT !.at = "fused", !.fused = Fuse(search.vec, fts)]
  BY DEF FtsQuery
<1>2. PICK fts \in SetToSeqs(found) :
        search' = [NoSearch EXCEPT !.at = "fused", !.fused = Fuse(search.vec, fts)]
  BY <1>1
<1>3. UNCHANGED ingest /\ UNCHANGED rulings
  BY DEF FtsQuery
<1>4. P' = P /\ BoundsInv' /\ search.vec \in Seq(P)
  BY <1>3, SearchFacts
<1>5. fts \in Seq(P)
  <2>1. IsFiniteSet(found)
    BY PassagesFinite, FS_Subset DEF GroundingInv
  <2>2. fts \in Seq(found)
    BY <2>1, RankingType
  <2> QED BY <2>2, SeqGrows
<1> DEFINE fused == Fuse(search.vec, fts)
<1>6. fused \in Seq(P) /\ Len(fused) <= TopK
  <2>1. PICK n, g : FusedBy(P, search.vec, fts, n, g)
    BY <1>4, <1>5, FuseFacts, Zenon
  <2> QED BY <2>1 DEF FusedBy
<1> HIDE DEF P, fused
<1>7. search' \in Searches(P) /\ search'.at = "fused" /\ search'.vec = NoSearch.vec /\ search'.fused = fused
  <2>1. NoSearch \in Searches(P) /\ fused \in Seq(P)
    BY <1>6, NoSearchType
  <2>2. Fused(NoSearch, search', fused)
    BY <1>2 DEF Fused, fused
  <2> QED BY <2>1, <2>2, SearchMoves
<1>8. Len(search'.vec) = 0
  BY <1>7 DEF NoSearch
<1>9. SearchInv' /\ OnlyHumansArbitrate'
  BY <1>4, <1>6, <1>7, <1>8, KnowledgeAssumption DEF SearchInv, OnlyHumansArbitrate, P
<1>10. RulingsInv'
  BY <1>3 DEF GroundingInv, RulingsInv
<1> QED BY <1>4, <1>9, <1>10

\* An answer with the passages in an order that keeps those of each source.
LEMMA AnswerKeeps ==
  ASSUME GroundingInv, UNCHANGED <<ingest, rulings>>, NEW c, NEW b \in BOOLEAN,
         KeepsOrder(Passages, c, search.fused), Answer(c, b),
         c # search.fused => b,
         b => \E r \in rulings : r.conflict \in _extract_conflict_ids(search.fused)
  PROVE  SearchInv' /\ RulingsInv' /\ BoundsInv' /\ OnlyHumansArbitrate'
<1> DEFINE P == Passages
           flag == _sources_conflict(c)
<1>1. /\ search \in Searches(P) /\ P' = P /\ BoundsInv'
      /\ Len(search.vec) <= Limit /\ Len(search.fused) <= TopK
  BY SearchFacts
<1>2. /\ c \in Seq(P) /\ Len(c) = Len(search.fused) /\ ToSet(c) = ToSet(search.fused)
      /\ \A p, q \in ToSet(search.fused) : Source(p) = Source(q) =>
           (Rank(c, p) < Rank(c, q) <=> Rank(search.fused, p) < Rank(search.fused, q))
  BY DEF KeepsOrder
<1>3. flag \in BOOLEAN
  BY DEF _sources_conflict
<1>4. Answered(search, search', c, b, flag)
  BY DEF Answer, Answered
<1> HIDE DEF P, flag
<1>5. /\ search' \in Searches(P) /\ search'.at = "answered"
      /\ search'.vec = search.vec /\ search'.fused = search.fused
      /\ search'.citations = c /\ search'.resolved = b /\ search'.conflict = flag
  BY <1>1, <1>2, <1>3, <1>4, SearchMoves
<1>6. SearchInv'
  BY <1>1, <1>5 DEF SearchInv, P
<1>7. b => \E r \in rulings' : \E p \in ToSet(c) : ConflictOf[Source(p)] = r.conflict
  <2> SUFFICES ASSUME b PROVE \E r \in rulings : \E p \in ToSet(c) : ConflictOf[Source(p)] = r.conflict
    OBVIOUS
  <2>1. PICK r \in rulings : r.conflict \in _extract_conflict_ids(search.fused)
    OBVIOUS
  <2>2. PICK p \in ToSet(search.fused) : ConflictOf[Source(p)] = r.conflict
    BY <2>1 DEF _extract_conflict_ids
  <2> QED BY <1>2, <2>1, <2>2
<1>8. /\ (\E p, q \in ToSet(c) : IsStale(p) /\ ~IsStale(q)) => flag
      /\ (\E p \in ToSet(c) : ConflictOf[Source(p)] # "none") => flag
  BY DEF flag, _sources_conflict, _extract_conflict_ids
<1>9. OnlyHumansArbitrate'
  BY <1>2, <1>5, <1>7, <1>8 DEF OnlyHumansArbitrate
<1>10. RulingsInv'
  BY DEF GroundingInv, RulingsInv
<1> QED BY <1>1, <1>6, <1>9, <1>10

LEMMA RuleKeeps ==
  ASSUME GroundingInv, Rule
  PROVE  SearchInv' /\ RulingsInv' /\ BoundsInv' /\ OnlyHumansArbitrate'
<1>1. PICK c \in Conflicts, s \in DOMAIN ConflictOf :
        rulings' = {r \in rulings : r.conflict # c} \cup {[conflict |-> c, winner |-> s]}
  BY DEF Rule
<1>2. UNCHANGED ingest /\ UNCHANGED search
  BY DEF Rule
<1>3. RulingsInv'
  BY <1>1 DEF GroundingInv, RulingsInv
<1>4. \A r \in rulings : \E q \in rulings' : q.conflict = r.conflict
  <2> DEFINE new == [conflict |-> c, winner |-> s]
  <2>1. new.conflict = c
    OBVIOUS
  <2> HIDE DEF new
  <2>2. rulings' = {r \in rulings : r.conflict # c} \cup {new}
    BY <1>1 DEF new
  <2> QED BY <2>1, <2>2
<1>5. OnlyHumansArbitrate'
  BY <1>2, <1>4 DEF GroundingInv, OnlyHumansArbitrate
<1>6. SearchInv' /\ BoundsInv'
  BY <1>2, SearchFacts DEF SearchInv
<1> QED BY <1>3, <1>5, <1>6

LEMMA GroundingStep == GroundingInv /\ [Next]_vars => GroundingInv'
<1> SUFFICES ASSUME GroundingInv, [Next]_vars PROVE GroundingInv'
  OBVIOUS
<1>1. StoreInv'
  BY StoreStep DEF GroundingInv
<1> SUFFICES SearchInv' /\ RulingsInv' /\ BoundsInv' /\ OnlyHumansArbitrate'
  BY <1>1 DEF GroundingInv
<1>2. CASE IngestNext /\ UNCHANGED <<search, rulings>>
  BY <1>2, IngestKeepsSearch
<1>3. CASE VecQuery
  BY <1>3, VecQueryKeeps
<1>4. CASE FtsQuery
  BY <1>4, FtsQueryKeeps
<1>5. CASE Override
  <2>1. PICK r \in rulings : /\ r.conflict \in _extract_conflict_ids(search.fused)
                             /\ Answer(WinnersFirst(search.fused, r.winner), TRUE)
    BY <1>5 DEF Override
  <2>2. UNCHANGED ingest /\ UNCHANGED rulings
    BY <1>5 DEF Override
  <2>3. search.fused \in Seq(Passages)
    BY <2>2, SearchFacts
  <2>4. KeepsOrder(Passages, WinnersFirst(search.fused, r.winner), search.fused)
    BY <2>3, WinnersFacts
  <2> QED BY <2>1, <2>2, <2>4, AnswerKeeps
<1>6. CASE NoOverride
  <2>1. UNCHANGED ingest /\ UNCHANGED rulings /\ Answer(search.fused, FALSE)
    BY <1>6 DEF NoOverride
  <2>2. search.fused \in Seq(Passages)
    BY <2>1, SearchFacts
  <2>3. KeepsOrder(Passages, search.fused, search.fused)
    BY <2>2 DEF KeepsOrder
  <2> QED BY <2>1, <2>3, AnswerKeeps
<1>7. CASE SearchFails \/ Forget
  <2>1. UNCHANGED ingest /\ UNCHANGED rulings /\ search' = NoSearch
    BY <1>7 DEF SearchFails, Forget
  <2>2. Passages' = Passages /\ BoundsInv'
    BY <2>1, SearchFacts
  <2>3. /\ search' \in Searches(Passages) /\ search'.at # "answered"
        /\ Len(search'.vec) = 0 /\ Len(search'.fused) = 0
    BY <2>1, NoSearchType DEF NoSearch
  <2>4. SearchInv' /\ OnlyHumansArbitrate'
    BY <2>2, <2>3, KnowledgeAssumption DEF SearchInv, OnlyHumansArbitrate
  <2>5. RulingsInv'
    BY <2>1 DEF GroundingInv, RulingsInv
  <2> QED BY <2>2, <2>4, <2>5
<1>8. CASE Rule
  BY <1>8, RuleKeeps
<1>9. CASE UNCHANGED vars
  <2>1. UNCHANGED ingest /\ UNCHANGED search /\ UNCHANGED rulings
    BY <1>9 DEF vars
  <2>2. SearchInv' /\ BoundsInv'
    BY <2>1, SearchFacts DEF SearchInv
  <2>3. RulingsInv' /\ OnlyHumansArbitrate'
    BY <2>1 DEF GroundingInv, RulingsInv, OnlyHumansArbitrate
  <2> QED BY <2>2, <2>3
<1> QED BY <1>2, <1>3, <1>4, <1>5, <1>6, <1>7, <1>8, <1>9 DEF Next, KnowledgeNext

LEMMA GroundingInvCorrect == Spec => []GroundingInv
BY GroundingInit, GroundingStep, PTL DEF Spec

\* Nothing but the ruling of a human on a conflict among the citations changes
\* the order of the fusion, it drops and adds none, and conflicts are flagged
\* although runs write between the statements of a search (conflict.py:100-209).
THEOREM OnlyHumansArbitrateCorrect == Spec => []OnlyHumansArbitrate
BY GroundingInvCorrect, PTL DEF GroundingInv

\* Every state has its type: a search has passages that are in the table.
THEOREM GroundingTypeCorrect == Spec => []TypeOK
<1>1. GroundingInv => TypeOK
  <2> SUFFICES ASSUME GroundingInv PROVE TypeOK
    OBVIOUS
  <2> USE DEF GroundingInv
  <2>1. files \in Snapshots /\ edits \in 0..MaxEdits /\ run.id \in 0..MaxRuns /\ synced \in 0..run.id
    BY DEF StoreInv, FilesInv, SyncedInv, BoundsInv
  <2>2. run.at \in 0..Len(Tables) /\ run.same \in BOOLEAN
    BY TablesAreNamed DEF StoreInv, TablesInv, Runs
  <2>3. \A t \in ToSet(Tables) : \A r \in tables[t] : r.run \in 1..run.id
    BY TablesAreNamed DEF StoreInv, TablesInv, Table
  <2>4. /\ search.at \in {"idle", "vec", "fused", "answered"}
        /\ search.resolved \in BOOLEAN /\ search.conflict \in BOOLEAN
        /\ Len(search.vec) <= Limit /\ Len(search.fused) <= TopK
        /\ search.vec \in Seq(Passages) /\ search.fused \in Seq(Passages)
        /\ search.citations \in Seq(Passages)
    BY DEF SearchInv, Searches
  <2>5. ToSet(search.vec) \cup ToSet(search.fused) \cup ToSet(search.citations) \subseteq Passages
    BY <2>4 DEF ToSet
  <2>6. \A r \in rulings : r.conflict \in Conflicts /\ r.winner \in DOMAIN ConflictOf
    BY DEF RulingsInv
  <2> QED BY <2>1, <2>2, <2>3, <2>4, <2>5, <2>6 DEF TypeOK
<1> QED BY <1>1, GroundingInvCorrect, PTL

-----------------------------------------------------------------------------
(***************************************************************************)
(* What the runs look at of the cut and of the fusion                      *)
(***************************************************************************)
LEMMA SmallTextsType ==
  ASSUME NEW s \in Snapshots
  PROVE  SmallTexts(s) \subseteq Seq(Paras)
<1> DEFINE L == Lengths(s)
           pars == UNION {[1..n -> L] : n \in 1..MaxSentences}
<1>1. L \subseteq Nat
  <2> SUFFICES ASSUME NEW r \in ToSet(s.prose), NEW p \in ToSet(r.text), NEW l \in ToSet(p)
               PROVE  l \in Nat
    BY DEF Lengths
  <2> DEFINE Records == [source : STRING, text : Seq(Paras)]
  <2>1. s.prose \in Seq(Records)
    BY SnapshotAssumption DEF Paras, Paragraphs
  <2> HIDE DEF Records
  <2>2. r \in Records
    BY <2>1 DEF ToSet
  <2>3. r.text \in Seq(Paras)
    BY <2>2 DEF Records
  <2>4. p \in Paras
    BY <2>3 DEF ToSet
  <2>5. p \in Seq(Nat)
    BY <2>4 DEF Paras, Paragraphs
  <2> QED BY <2>5 DEF ToSet
<1> HIDE DEF L
<1>2. pars \subseteq Paras
  <2> SUFFICES ASSUME NEW n \in 1..MaxSentences, NEW p \in [1..n -> L]
               PROVE  p \in Paras
    OBVIOUS
  <2>1. n \in Nat /\ n # 0
    BY IngestAssumption
  <2>2. p \in Seq(Nat) /\ Len(p) = n
    <3>1. DOMAIN p = 1..n /\ \A i \in 1..n : p[i] \in Nat
      BY <1>1
    <3>2. p \in [1..n -> Nat]
      BY <3>1
    <3> QED BY <2>1, <3>2
  <2>3. p # <<>>
    BY <2>1, <2>2
  <2> QED BY <2>2, <2>3 DEF Paras, Paragraphs
<1>3. SmallTexts(s) = UNION {[1..n -> pars] : n \in 0..MaxParagraphs}
  BY DEF SmallTexts, L
<1> HIDE DEF pars
<1>4. ASSUME NEW n \in 0..MaxParagraphs, NEW t \in [1..n -> pars]
      PROVE  t \in Seq(Paras)
  <2>1. n \in Nat
    BY IngestAssumption
  <2> DEFINE X == Paras
  <2> HIDE DEF X
  <2>2. t \in Seq(X)
    BY <1>2, <2>1 DEF X
  <2> QED BY <2>2 DEF X
<1> QED BY <1>3, <1>4

\* Whatever the sentences of an export and however many paragraphs are looked
\* at, the passages of a text lose only what is shorter than MinChars.
THEOREM EveryTextIsCutFaithfullyCorrect == Spec => []EveryTextIsCutFaithfully
<1>1. FilesInv => EveryTextIsCutFaithfully
  <2> SUFFICES ASSUME FilesInv PROVE \A text \in SmallTexts(files) : ChunksFaithfully(text)
    BY DEF FilesInv, EveryTextIsCutFaithfully, Cut
  <2> QED BY SmallTextsType, TextsAreCutFaithfully DEF FilesInv
<1> QED BY <1>1, FilesCorrect, PTL

\* However many passages the table has, every fusion of two rankings respects
\* them.
THEOREM EveryFusionRespectsRanksCorrect == Spec => []EveryFusionRespectsRanks
<1>1. StoreInv => EveryFusionRespectsRanks
  <2> SUFFICES ASSUME StoreInv PROVE EveryFusionRespectsRanks
    OBVIOUS
  <2> DEFINE n == Least(Limit + 1, Cardinality(Passages))
  <2>1. n \in 0..(Limit + 1)
    <3>1. Cardinality(Passages) \in Nat
      BY PassagesFinite, FS_CardinalityType
    <3> QED BY <3>1, KnowledgeAssumption DEF Least
  <2> HIDE DEF n
  <2>2. IsFiniteSet(1..n)
    BY <2>1, KnowledgeAssumption, FS_Interval
  <2>3. FusionRespectsRanks(1..n)
    BY <2>2, FusionRespectsRanksCorrect
  <2> QED BY <2>1, <2>3 DEF EveryFusionRespectsRanks, Fusions, n
<1> QED BY <1>1, StoreInvCorrect, PTL

-----------------------------------------------------------------------------
(***************************************************************************)
(* The library of templates and the file store cut the same file at        *)
(* different lines.  Both cuts are the first few of the pieces the lines   *)
(* of the file give, so one of them is a prefix of the other.              *)
(***************************************************************************)
\* A prefix, element by element.
LEMMA PrefixOf ==
  ASSUME NEW S, NEW a \in Seq(S), NEW b \in Seq(S)
  PROVE  IsPrefix(a, b) <=> /\ Len(a) <= Len(b)
                            /\ \A i \in 1..Len(a) : a[i] = b[i]
<1>1. ASSUME Len(a) <= Len(b)
      PROVE  SubSeq(a, 1, Len(a)) = SubSeq(b, 1, Len(a)) <=> \A i \in 1..Len(a) : a[i] = b[i]
  <2>1. /\ SubSeq(a, 1, Len(a)) = [i \in 1..Len(a) |-> a[i]]
        /\ SubSeq(b, 1, Len(a)) = [i \in 1..Len(a) |-> b[i]]
    BY <1>1
  <2> QED BY <2>1
<1> QED BY <1>1 DEF IsPrefix

\* More may follow the longer text, and the same may precede both.
LEMMA PrefixMoves ==
  ASSUME NEW S, NEW a \in Seq(S), NEW b \in Seq(S), NEW c \in Seq(S), IsPrefix(a, b)
  PROVE  IsPrefix(a, b \o c) /\ IsPrefix(c \o a, c \o b)
<1>1. Len(a) <= Len(b) /\ \A i \in 1..Len(a) : a[i] = b[i]
  BY PrefixOf
<1> DEFINE bc == Cat(b, c)
           ca == Cat(c, a)
           cb == Cat(c, b)
<1>2. Joined(S, b, c, bc) /\ Joined(S, c, a, ca) /\ Joined(S, c, b, cb)
  BY CatFacts
<1> HIDE DEF bc, ca, cb
<1>3. IsPrefix(a, bc)
  <2>1. Len(a) <= Len(bc) /\ \A i \in 1..Len(a) : a[i] = bc[i]
    BY <1>1, <1>2 DEF Joined
  <2> QED BY <1>2, <2>1, PrefixOf DEF Joined
<1>4. IsPrefix(ca, cb)
  <2>1. /\ ca \in Seq(S) /\ cb \in Seq(S) /\ Len(ca) = Len(c) + Len(a) /\ Len(cb) = Len(c) + Len(b)
        /\ Len(a) \in Nat /\ Len(b) \in Nat /\ Len(c) \in Nat
    BY <1>2 DEF Joined
  <2>2. ASSUME NEW i \in 1..Len(ca) PROVE ca[i] = cb[i]
    <3>1. CASE i \in 1..Len(c)
      BY <1>2, <3>1 DEF Joined
    <3>2. CASE i \notin 1..Len(c)
      <4>1. i - Len(c) \in 1..Len(a) /\ i - Len(c) \in 1..Len(b) /\ i = Len(c) + (i - Len(c))
        BY <1>1, <2>1, <3>2
      <4>2. ca[i] = a[i - Len(c)] /\ cb[i] = b[i - Len(c)]
        BY <1>2, <4>1 DEF Joined
      <4> QED BY <1>1, <4>1, <4>2
    <3> QED BY <3>1, <3>2
  <2>3. Len(ca) <= Len(cb)
    BY <1>1, <2>1
  <2> QED BY <2>1, <2>2, <2>3, PrefixOf
<1> QED BY <1>3, <1>4 DEF bc, ca, cb, Cat

\* One element in front of a sequence.
LEMMA InFront ==
  ASSUME NEW S, NEW x \in S, NEW s \in Seq(S)
  PROVE  <<x>> \o s \in Seq(S)
<1>1. <<x>> \in Seq(S)
  OBVIOUS
<1>2. Joined(S, <<x>>, s, Cat(<<x>>, s))
  BY <1>1, CatFacts, Zenon
<1> QED BY <1>2 DEF Joined, Cat

\* The first n sequences of ss, one behind the other.
FirstOf(ss, n) == FlattenSeq([k \in 1..n |-> ss[k]])

\* The fewer of the pieces, the shorter the prefix.
LEMMA FirstOfGrows ==
  ASSUME NEW S, NEW ss \in Seq(Seq(S)), NEW m \in 0..Len(ss), NEW n \in 0..Len(ss), m <= n
  PROVE  FirstOf(ss, m) \in Seq(S) /\ FirstOf(ss, n) \in Seq(S) /\ IsPrefix(FirstOf(ss, m), FirstOf(ss, n))
<1> DEFINE X == Seq(S)
           N == Len(ss)
           part(k) == [j \in 1..k |-> ss[j]]
<1>1. N \in Nat /\ \A k \in 1..N : ss[k] \in X
  OBVIOUS
<1> HIDE DEF N, X
<1>2. \A k \in 0..N : part(k) \in Seq(X)
  BY <1>1
<1>3. \A k \in 0..(N - 1) : k + 1 \in 1..N /\ k \in 0..N /\ k + 1 \in 0..N
  BY <1>1
<1>4. \A k \in 0..(N - 1) : part(k + 1) = Append(part(k), ss[k + 1])
  <2> SUFFICES ASSUME NEW k \in 0..(N - 1) PROVE part(k + 1) = Append(part(k), ss[k + 1])
    OBVIOUS
  <2>1. k \in Nat /\ part(k) \in Seq(X) /\ Len(part(k)) = k /\ ss[k + 1] \in X
    BY <1>1, <1>2, <1>3
  <2> QED BY <2>1
<1>5. \A k \in 0..N : FirstOf(ss, k) = FlattenSeq(part(k)) /\ FirstOf(ss, k) \in X
  BY <1>2, FlattenType DEF FirstOf, X
<1>6. \A k \in 0..(N - 1) : FirstOf(ss, k + 1) = FirstOf(ss, k) \o ss[k + 1]
  <2> SUFFICES ASSUME NEW k \in 0..(N - 1) PROVE FirstOf(ss, k + 1) = FirstOf(ss, k) \o ss[k + 1]
    OBVIOUS
  <2>1. part(k) \in Seq(X) /\ ss[k + 1] \in X /\ part(k + 1) = Append(part(k), ss[k + 1])
    BY <1>1, <1>2, <1>3, <1>4
  <2>2. FirstOf(ss, k) = FlattenSeq(part(k)) /\ FirstOf(ss, k + 1) = FlattenSeq(part(k + 1))
    BY <1>3, <1>5
  <2> HIDE DEF part
  <2>3. FlattenSeq(Append(part(k), ss[k + 1])) = FlattenSeq(part(k)) \o ss[k + 1]
    BY <2>1, FlattenAppend DEF X
  <2> QED BY <2>1, <2>2, <2>3
<1> HIDE DEF part
<1> DEFINE T == {d \in Nat : m + d <= N => IsPrefix(FirstOf(ss, m), FirstOf(ss, m + d))}
<1>7. m \in Nat /\ n \in Nat /\ m \in 0..N /\ n \in 0..N
  BY <1>1 DEF N
<1>8. 0 \in T
  <2>1. FirstOf(ss, m) \in Seq(S)
    BY <1>5, <1>7 DEF X
  <2>2. IsPrefix(FirstOf(ss, m), FirstOf(ss, m))
    BY <2>1, PrefixOf
  <2> QED BY <1>7, <2>2
<1>9. \A d \in Nat : d \in T => d + 1 \in T
  <2> SUFFICES ASSUME NEW d \in Nat, d \in T, m + (d + 1) <= N
               PROVE  IsPrefix(FirstOf(ss, m), FirstOf(ss, m + (d + 1)))
    OBVIOUS
  <2>1. m + d \in 0..(N - 1) /\ (m + d) + 1 = m + (d + 1) /\ m + d <= N
    BY <1>1, <1>7
  <2>2. IsPrefix(FirstOf(ss, m), FirstOf(ss, m + d))
    BY <2>1
  <2>3. FirstOf(ss, m + (d + 1)) = FirstOf(ss, m + d) \o ss[(m + d) + 1]
    BY <1>6, <2>1
  <2>4. FirstOf(ss, m) \in Seq(S) /\ FirstOf(ss, m + d) \in Seq(S) /\ ss[(m + d) + 1] \in Seq(S)
    BY <1>1, <1>3, <1>5, <1>7, <2>1 DEF X
  <2> QED BY <2>2, <2>3, <2>4, PrefixMoves
<1> HIDE DEF T
<1>10. n - m \in Nat /\ m + (n - m) = n
  BY <1>7
<1>11. n - m \in T
  BY <1>8, <1>9, <1>10, SetInduction
<1>12. IsPrefix(FirstOf(ss, m), FirstOf(ss, n))
  BY <1>7, <1>10, <1>11 DEF T
<1> QED BY <1>5, <1>7, <1>12 DEF X

LEMMA LineTypes ==
  ASSUME NEW lines \in Seq(Lines), NEW j \in DOMAIN lines
  PROVE  lines[j].heading \in STRING /\ lines[j].rest \in Seq(STRING) /\ lines[j].body \in Seq(STRING)
<1> DEFINE X == Seq(STRING)
           L == [heading : STRING, key : STRING, rest : X, level : 0..6, body : X]
<1>1. lines \in Seq(L)
  BY DEF Lines
<1> HIDE DEF X
<1>2. lines[j] \in L
  <2> HIDE DEF L
  <2> QED BY <1>1
<1> QED BY <1>2 DEF X

\* Two cuts of the text from one line on, at whatever lines they end.
LEMMA CutsAgree ==
  ASSUME NEW lines \in Seq(Lines), NEW i \in DOMAIN lines,
         NEW D \in SUBSET DOMAIN lines, NEW E \in SUBSET DOMAIN lines,
         NEW front \in Seq(STRING), \A j \in D \cup E : j > i
  PROVE  Begin(front \o Text(lines, i, D), front \o Text(lines, i, E))
<1> DEFINE N == Len(lines)
           X == Seq(STRING)
           upto(ends) == Min(ends \cup {N + 1}) - 1
           rest == [k \in 1..(N - i) |-> <<lines[i + k].heading>> \o lines[i + k].body]
<1>1. N \in Nat /\ i \in 1..N /\ DOMAIN lines = 1..N
  OBVIOUS
<1>2. \A j \in 1..N : lines[j].heading \in STRING /\ lines[j].body \in X
  BY <1>1, LineTypes
<1>3. ASSUME NEW h \in STRING, NEW b \in X PROVE <<h>> \o b \in X
  BY InFront, Zenon
<1> HIDE DEF N, X
<1>4. \A k \in 1..(N - i) : i + k \in 1..N
  BY <1>1
<1>5. rest \in Seq(X) /\ Len(rest) = N - i
  <2>1. \A k \in 1..(N - i) : rest[k] \in X
    BY <1>2, <1>3, <1>4
  <2>2. N - i \in Nat
    BY <1>1
  <2>3. rest \in [1..(N - i) -> X]
    BY <2>1
  <2> HIDE DEF rest
  <2> QED BY <2>2, <2>3
<1>6. ASSUME NEW ends \in SUBSET (1..N), \A j \in ends : j > i
      PROVE  /\ upto(ends) - i \in 0..(N - i)
             /\ Text(lines, i, ends) = lines[i].body \o FirstOf(rest, upto(ends) - i)
  <2> DEFINE S == ends \cup {N + 1}
             u == upto(ends)
  <2>1. S \subseteq Nat /\ S # {} /\ N + 1 \in S
    BY <1>1
  <2>2. Min(S) \in S /\ \A j \in S : Min(S) <= j
    BY <2>1, MinIsLeast
  <2>3. Min(S) \in Nat /\ Min(S) > i /\ Min(S) <= N + 1
    <3>1. \A j \in S : j \in Nat /\ j > i
      BY <1>1, <1>6
    <3> HIDE DEF S
    <3> QED BY <2>1, <2>2, <3>1
  <2>4. u - i \in 0..(N - i)
    BY <1>1, <2>3
  <2>5. Text(lines, i, ends)
          = lines[i].body \o FlattenSeq([k \in 1..(u - i) |-> <<lines[i + k].heading>> \o lines[i + k].body])
    BY DEF Text, N
  <2> HIDE DEF u
  <2>6. [k \in 1..(u - i) |-> <<lines[i + k].heading>> \o lines[i + k].body] = [k \in 1..(u - i) |-> rest[k]]
    BY <1>1, <2>4
  <2> QED BY <2>4, <2>5, <2>6 DEF FirstOf, u
<1> HIDE DEF rest, upto
<1> DEFINE d == upto(D) - i
           e == upto(E) - i
           b == lines[i].body
<1>7. /\ d \in 0..(N - i) /\ e \in 0..(N - i)
      /\ Text(lines, i, D) = b \o FirstOf(rest, d)
      /\ Text(lines, i, E) = b \o FirstOf(rest, e)
  <2>1. D \in SUBSET (1..N) /\ E \in SUBSET (1..N)
    BY <1>1
  <2> QED BY <1>6, <2>1
<1>8. b \in Seq(STRING)
  BY <1>1, <1>2 DEF X
<1> HIDE DEF d, e, b
<1>9. d \in 0..Len(rest) /\ e \in 0..Len(rest) /\ d \in Nat /\ e \in Nat /\ rest \in Seq(Seq(STRING))
  BY <1>5, <1>7 DEF X
<1>12. ASSUME NEW m \in Seq(STRING), NEW n \in Seq(STRING), IsPrefix(m, n)
       PROVE  IsPrefix(front \o (b \o m), front \o (b \o n))
  <2>1. IsPrefix(b \o m, b \o n)
    BY <1>8, <1>12, PrefixMoves
  <2>2. b \o m \in Seq(STRING) /\ b \o n \in Seq(STRING)
    <3>1. Joined(STRING, b, m, Cat(b, m)) /\ Joined(STRING, b, n, Cat(b, n))
      BY <1>8, CatFacts
    <3> QED BY <3>1 DEF Joined, Cat
  <2> QED BY <2>1, <2>2, PrefixMoves
<1>10. CASE d <= e
  <2>1. FirstOf(rest, d) \in Seq(STRING) /\ FirstOf(rest, e) \in Seq(STRING)
        /\ IsPrefix(FirstOf(rest, d), FirstOf(rest, e))
    BY <1>9, <1>10, FirstOfGrows
  <2> QED BY <1>7, <1>12, <2>1 DEF Begin
<1>11. CASE e <= d
  <2>1. FirstOf(rest, d) \in Seq(STRING) /\ FirstOf(rest, e) \in Seq(STRING)
        /\ IsPrefix(FirstOf(rest, e), FirstOf(rest, d))
    BY <1>9, <1>11, FirstOfGrows
  <2> QED BY <1>7, <1>12, <2>1 DEF Begin
<1> QED BY <1>9, <1>10, <1>11

\* The section of a heading with a code, as the library cuts it.
SectionAt(lines, j) == [key   |-> lines[j].key,
                        value |-> lines[j].rest \o Text(lines, j, {k \in Coded(lines) : k > j})]

SectionsOf(lines) == {SectionAt(lines, j) : j \in Coded(lines)}

\* What the library takes from a file are sections of its coded headings.
LEMMA FileSectionsCoded ==
  ASSUME NEW S, NEW lines \in Seq(S)
  PROVE  _extract_templates_from_file(lines) \in Seq(SectionsOf(lines))
<1> DEFINE Template(i) == [key   |-> lines[i].key,
                           value |-> lines[i].rest \o Text(lines, i, {j \in Coded(lines) : j > i})]
           J == {i \in DOMAIN lines : i \in Coded(lines) /\ Template(i).value # <<>>}
           c == Cardinality(J)
           kept == InOrder(J)
           f == [n \in DOMAIN kept |-> Template(kept[n])]
<1>1. _extract_templates_from_file(lines) = f
  BY DEF _extract_templates_from_file, Places
<1>2. J \subseteq Coded(lines) /\ J \subseteq Int /\ IsFiniteSet(J)
  <2>1. PICK n \in Nat : DOMAIN lines = 1..n
    OBVIOUS
  <2>2. IsFiniteSet(1..n) /\ J \subseteq 1..n
    BY <2>1, FS_Interval
  <2>3. J \subseteq Coded(lines)
    OBVIOUS
  <2> HIDE DEF J
  <2>4. J \subseteq Int
    BY <2>2
  <2> QED BY <2>2, <2>3, <2>4, FS_Subset
<1> HIDE DEF J
<1>3. c \in Nat /\ kept \in [1..c -> J]
  BY <1>2, InOrderProperties
<1> HIDE DEF c, kept
<1>4. DOMAIN kept = 1..c /\ \A n \in 1..c : kept[n] \in Coded(lines)
  BY <1>2, <1>3
<1>5. \A j : Template(j) = SectionAt(lines, j)
  BY DEF SectionAt
<1> HIDE DEF Template
<1>6. \A n \in 1..c : f[n] \in SectionsOf(lines)
  BY <1>4, <1>5 DEF SectionsOf
<1>7. f \in [1..c -> SectionsOf(lines)]
  BY <1>4, <1>6
<1> HIDE DEF f
<1> QED BY <1>1, <1>3, <1>7

\* Every row of the library is the section of a heading with its code.
LEMMA SectionsCoded ==
  ASSUME NEW s \in Snapshots, NEW n \in DOMAIN Sections(s)
  PROVE  \E g \in ToSet(s.md) : \E k \in Coded(g.lines) : Sections(s)[n] = SectionAt(g.lines, k)
<1> DEFINE E(i) == _extract_templates_from_file(s.md[i].lines)
           ss == [i \in DOMAIN s.md |-> E(i)]
           U == UNION {SectionsOf(g.lines) : g \in ToSet(s.md)}
           X == Seq(U)
<1>1. PICK m \in Nat : DOMAIN s.md = 1..m
  BY FilesType
<1>2. \A i \in 1..m : s.md[i].lines \in Seq(Lines) /\ s.md[i] \in ToSet(s.md)
  BY <1>1, FilesType DEF ToSet
<1>3. Sections(s) = FlattenSeq(ss)
  BY DEF Sections
<1>4. ASSUME NEW i \in 1..m PROVE E(i) \in X
  <2>1. E(i) \in Seq(SectionsOf(s.md[i].lines))
    BY <1>2, FileSectionsCoded
  <2>2. SectionsOf(s.md[i].lines) \subseteq U
    BY <1>2
  <2> HIDE DEF U, E
  <2> QED BY <2>1, <2>2, SeqGrows
<1> HIDE DEF E
<1>5. ss \in [1..m -> X]
  BY <1>1, <1>4
<1> HIDE DEF ss
<1>6. ss \in Seq(X)
  BY <1>5
<1>7. FlattenSeq(ss) \in Seq(U)
  BY <1>6, FlattenType
<1> HIDE DEF U
<1>8. Sections(s)[n] \in U
  BY <1>3, <1>7
<1>9. PICK g \in ToSet(s.md) : Sections(s)[n] \in SectionsOf(g.lines)
  BY <1>8 DEF U
<1> QED BY <1>9 DEF SectionsOf

\* The file store begins the section of a heading that occurs once at that heading.
LEMMA ExtractedAt ==
  ASSUME NEW s \in Snapshots, NEW f \in ToSet(s.md), NEW i \in DOMAIN f.lines,
         Occurs(f, f.lines[i].heading) = {i}
  PROVE  \E D \in SUBSET DOMAIN f.lines :
           /\ \A j \in D : j > i
           /\ _extract_section(s.md, f.name, f.lines[i].heading) = Text(f.lines, i, D)
<1> DEFINE heading == f.lines[i].heading
           found == {g \in ToSet(s.md) : g.name = f.name}
           lines == (CHOOSE g \in found : TRUE).lines
           at == First(HeadingLines(lines, heading))
           D == {j \in (at + 1)..Len(lines) :
                   IF lines[at].level # 0 THEN lines[j].level \in 1..lines[at].level
                   ELSE \/ lines[j].level # 0
                        \/ lines[j].key # "none" /\ lines[j].heading # heading}
<1>1. found = {f}
  BY FilesType
<1>2. lines = f.lines
  BY <1>1
<1>3. f.lines \in Seq(Lines) /\ i \in Nat /\ DOMAIN f.lines = 1..Len(f.lines) /\ Len(f.lines) \in Nat
  BY FilesType
<1>4. HeadingLines(f.lines, heading) = {i}
  <2>1. {k \in {j \in DOMAIN f.lines : f.lines[j].heading = heading} : f.lines[k].level # 0}
          = Occurs(f, heading)
    BY DEF Occurs
  <2> QED BY <2>1 DEF HeadingLines
<1>5. First({i}) = i
  BY <1>3 DEF First
<1>6. _extract_section(s.md, f.name, heading)
        = IF found = {} THEN <<>>
          ELSE IF HeadingLines(lines, heading) = {} THEN <<>> ELSE Text(lines, at, D)
  BY DEF _extract_section
<1> HIDE DEF found, lines
<1>7. at = i
  BY <1>2, <1>4, <1>5
<1> HIDE DEF at
<1>8. D \in SUBSET DOMAIN f.lines /\ \A j \in D : j > i
  BY <1>2, <1>3, <1>7
<1> HIDE DEF D
<1>9. _extract_section(s.md, f.name, heading) = Text(f.lines, i, D)
  <2>1. found # {} /\ HeadingLines(lines, heading) # {}
    BY <1>1, <1>2, <1>4
  <2> QED BY <1>2, <1>6, <1>7, <2>1
<1> QED BY <1>8, <1>9

\* After a complete run the library and the file store begin the template of a
\* code that occurs once with the same text, but for the rest of the heading line
\* that the library has in front, for any files and any runs before
\* (sources.py:480-538, template_store.py:137-225).
THEOREM TemplatesAgreeCorrect == Spec => []TemplatesAgree
<1>1. StoreInv => TemplatesAgree
  <2> DEFINE t == "template_library"
  <2> SUFFICES ASSUME StoreInv, NEW f \in ToSet(files.md), NEW i \in Coded(f.lines),
                      synced # 0, Once(files, f, i), f.lines[i].key \in Keys(files, t),
                      NEW r \in Lookup(t, f.lines[i].key)
               PROVE  Begin(r.value, f.lines[i].rest
                                       \o _extract_section(files.md, f.name, f.lines[i].heading))
    BY DEF TemplatesAgree
  <2> DEFINE key == f.lines[i].key
             W == Sections(files)
             text == _extract_section(files.md, f.name, f.lines[i].heading)
  <2>1. files \in Snapshots
    BY DEF StoreInv, FilesInv
  <2>2. r \in tables[t] /\ r.key = key
    BY DEF Lookup
  <2>3. r.value \in Says(files, t, key)
    <3>1. t \in TableNames
      BY DEF TableNames
    <3> QED BY <2>2, <3>1 DEF StoreInv, CurrentInv, Current
  <2>4. PICK n \in DOMAIN W : W[n].key = key /\ W[n].value = r.value
    <3>1. Wanted(files, t) = W
      BY DEF Wanted
    <3> HIDE DEF W, key, t
    <3> QED BY <2>3, <3>1 DEF Says
  <2>5. PICK g \in ToSet(files.md) : \E k \in Coded(g.lines) : W[n] = SectionAt(g.lines, k)
    BY <2>1, SectionsCoded
  <2>6. PICK k \in Coded(g.lines) : W[n] = SectionAt(g.lines, k)
    BY <2>5
  <2> DEFINE E == {j \in Coded(f.lines) : j > i}
  <2>7. r.value = f.lines[i].rest \o Text(f.lines, i, E)
    <3>1. /\ g.lines[k].key = key
          /\ r.value = g.lines[k].rest \o Text(g.lines, k, {j \in Coded(g.lines) : j > k})
      <4> DEFINE value == g.lines[k].rest \o Text(g.lines, k, {j \in Coded(g.lines) : j > k})
      <4>1. W[n] = [key |-> g.lines[k].key, value |-> value]
        BY <2>6 DEF SectionAt
      <4> HIDE DEF value, W, key
      <4>2. g.lines[k].key = key /\ r.value = value
        BY <2>4, <4>1
      <4> QED BY <4>2 DEF value, key
    <3>2. g = f /\ k = i
      BY <3>1 DEF Once
    <3> QED BY <3>1, <3>2
  <2>8. i \in DOMAIN f.lines /\ E \in SUBSET DOMAIN f.lines /\ \A j \in E : j > i
    BY DEF Coded
  <2>9. Occurs(f, f.lines[i].heading) = {i}
    BY DEF Once
  <2>10. PICK D \in SUBSET DOMAIN f.lines :
           (\A j \in D : j > i) /\ text = Text(f.lines, i, D)
    BY <2>1, <2>8, <2>9, ExtractedAt
  <2>11. f.lines \in Seq(Lines)
    BY <2>1, FilesType
  <2>13. f.lines[i].rest \in Seq(STRING)
    BY <2>8, <2>11, LineTypes
  <2> HIDE DEF E, text
  <2>12. Begin(f.lines[i].rest \o Text(f.lines, i, E), f.lines[i].rest \o Text(f.lines, i, D))
    <3>1. \A j \in D \cup E : j > i
      BY <2>8, <2>10
    <3> QED BY <2>8, <2>11, <2>13, <3>1, CutsAgree
  <2> QED BY <2>7, <2>10, <2>12 DEF text
<1> QED BY <1>1, StoreInvCorrect, PTL
=============================================================================
