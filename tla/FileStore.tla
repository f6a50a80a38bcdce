----------------------------- MODULE FileStore ------------------------------
(***************************************************************************)
(* The file store (src/src/file_store) and the draft that the demonstration*)
(* runner (src/scripts/cs_team_demo.py) builds on it: the template index,  *)
(* the text of a template, the check of a ticket's classification, and the *)
(* verdict for a ticket.  These are functions of the exported files.       *)
(*                                                                         *)
(* A process keeps the template index (_INDEX) and the ticket fields       *)
(* (_CACHE) of its first use, but reads the template files anew for each   *)
(* ticket: index and fields may be of an earlier export than the template  *)
(* files md, and every combination is looked at.                           *)
(***************************************************************************)
EXTENDS Ingest

CONSTANTS Candidates, \* _SUBTYPE_TO_CODES: template codes of each sub-type
          Tickets,    \* tickets: category, sub_type, order_ref, injected fields
          CliOutputs, \* what the claude CLI may come back with
          AiProps     \* classifications the AI may propose

ASSUME CandidatesAssumption == \A t \in DOMAIN Candidates : Candidates[t] \in Seq(STRING)

ASSUME TicketAssumption ==
  \A t \in Tickets : /\ t.injected \subseteq {"body", "subject", "order_ref"}
                     /\ "order_ref" \in t.injected => t.order_ref # ""

\* The envelope of an answer has at most one object in it.  The hint "none" is a
\* missing one; an empty one is not missing.
ASSUME CliAssumption ==
  LET Objects == [action : STRING, body : Seq(STRING), hint : STRING]
  IN \A o \in CliOutputs : /\ o.exit \in {"zero", "nonzero", "not_found"}
                           /\ o.envelope \in Seq(Objects) /\ o.objects \in Seq(Objects)
                           /\ Len(o.envelope) <= 1

(***************************************************************************)
(* template_store.py                                                       *)
(***************************************************************************)
\* The rows of CODE-MAP-templates.md by their code; without the file, no code.
_parse_code_map(rows) ==
  [code \in {r.code : r \in ToSet(rows)} |->
     LET mine  == Those(rows, LAMBDA r : r.code = code)
         first == Places(mine, LAMBDA i : \A k \in 1..(i - 1) : mine[k] # mine[i])
     IN [n \in DOMAIN first |-> [heading |-> mine[first[n]].heading, file |-> mine[first[n]].file]]]

First(S) == CHOOSE i \in S : \A j \in S : i <= j

AnyLine(lines, heading) == {i \in DOMAIN lines : lines[i].heading = heading}    \* mutant

\* A markdown heading, if there is one: a line of the table of contents may be
\* equal to it.
HeadingLines(lines, heading) ==
  LET all == {i \in DOMAIN lines : lines[i].heading = heading}
      marked == {i \in all : lines[i].level # 0}
  IN IF marked # {} THEN marked ELSE all

\* Up to the next heading of the same or a higher level; below a plain line, up
\* to the next heading or the next line that looks like a code.
_extract_section(md, file, heading) ==
  LET found == {f \in ToSet(md) : f.name = file}
      lines == (CHOOSE f \in found : TRUE).lines
      at    == First(HeadingLines(lines, heading))
      ends  == {j \in (at + 1)..Len(lines) :
                  IF lines[at].level # 0 THEN lines[j].level \in 1..lines[at].level
                  ELSE \/ lines[j].level # 0
                       \/ lines[j].key # "none" /\ lines[j].heading # heading}
  IN IF found = {} THEN <<>>
     ELSE IF HeadingLines(lines, heading) = {} THEN <<>> ELSE Text(lines, at, ends)

\* The first variant with a text; <<>> where the code has the result found = False.
get_template_from_file(index, md, code) ==
  LET texts == [i \in DOMAIN index[code] |-> _extract_section(md, index[code][i].file,
                                                                  index[code][i].heading)]
      first == SelectInSeq(texts, LAMBDA t : t # <<>>)
  IN IF code \notin DOMAIN index THEN <<>> ELSE IF first = 0 THEN <<>> ELSE texts[first]

\* An unknown sub-type has no candidates.
subtype_to_code(sub_type) == IF sub_type \in DOMAIN Candidates THEN Candidates[sub_type] ELSE <<>>

(***************************************************************************)
(* ticket_fields_store.py: nested maps each Level_in to its requests,      *)
(* dropdowns a field to its choices.  Of a list only its elements matter.  *)
(***************************************************************************)
level_in_choices(data) == DOMAIN data.nested

customer_requests_for(data, level_in) ==
  IF level_in \in DOMAIN data.nested THEN data.nested[level_in] ELSE {}

field_choices(data, field) ==
  CASE field = "Level_in"         -> level_in_choices(data)
    [] field = "Customer_Request" -> UNION {data.nested[l] : l \in DOMAIN data.nested}
    [] OTHER -> IF field \in DOMAIN data.dropdowns THEN data.dropdowns[field] ELSE {}

(***************************************************************************)
(* fd_classification.py                                                    *)
(***************************************************************************)
OWNED_FIELDS == {"Level_in", "Customer_Request", "Rootcause", "Flow", "Section_Flow"}

\* The status of a value; "" is no value.
validate_field(value, allowed) ==
  CASE value = ""                         -> "missing"
    [] value # "" /\ allowed = {}         -> "unverifiable"
    [] value # "" /\ value \in allowed    -> "valid"
    [] OTHER                              -> "invalid"

FlatRequest(data, props, level_status) ==                          \* mutant
  validate_field(props["Customer_Request"], field_choices(data, "Customer_Request"))

\* Of a valid Level_in only its own requests are valid.
RequestStatus(data, props, level_status) ==
  LET request  == props["Customer_Request"]
      children == customer_requests_for(data, props["Level_in"])
  IN IF level_status # "valid" THEN validate_field(request, field_choices(data, "Customer_Request"))
     ELSE IF request # "" /\ children # {} /\ request \notin children THEN "nested_mismatch"
     ELSE validate_field(request, children)

\* The AI's "step" stands in for a missing section_flow.
AiValues(ai) == [f \in OWNED_FIELDS |-> IF f = "Section_Flow" /\ ai[f] = "" THEN ai["step"] ELSE ai[f]]

build_fd_property_update(data, ai) ==
  LET props  == AiValues(ai)
      level  == validate_field(props["Level_in"], level_in_choices(data))
      status == [f \in OWNED_FIELDS |->
                   CASE f = "Level_in"         -> level
                     [] f = "Customer_Request" -> RequestStatus(data, props, level)
                     [] OTHER -> validate_field(props[f], field_choices(data, f))]
  IN [value |-> props, status |-> status, all_valid |-> \A f \in OWNED_FIELDS : status[f] = "valid"]

(***************************************************************************)
(* cs_team_demo.py                                                         *)
(***************************************************************************)
Generic     == <<"we will review it">>
VerifyOrder == <<"which order?">>

Verdict(body, hint)     == [action |-> "draft", body |-> body, hint |-> hint]
Draft(body, cite, hint) == [action |-> "draft", body |-> body, cite |-> cite, hint |-> hint]

HighRisk == {"refund", "money", "legal", "complaint", "complex", "exchange", "chargeback", "dispute"}

WithoutOrderRef(ticket) ==                                         \* mutant
  IF "body" \in ticket.injected THEN "injection"
  ELSE IF "subject" \in ticket.injected THEN "injection:subject" ELSE "none"

\* The reason names the first field with an instruction to the model in it.
_pre_screen_ticket(ticket) ==
  IF "body" \in ticket.injected THEN "injection"
  ELSE IF "subject" \in ticket.injected THEN "injection:subject"
  ELSE IF "order_ref" \in ticket.injected THEN "injection:order_ref" ELSE "none"

\* An acknowledgement, which cites no code.
Acknowledged(hint) == Draft(Generic, "generic", hint)

FirstCandidate(index, md, sub_type, hint) ==                       \* mutant
  LET codes == subtype_to_code(sub_type)
  IN IF codes = <<>> THEN Acknowledged(hint)
     ELSE Draft(get_template_from_file(index, md, codes[1]), codes[1], hint)

\* The first candidate of the sub-type with a text.
_build_grounded_draft(index, md, sub_type, hint) ==
  LET codes == subtype_to_code(sub_type)
      first == SelectInSeq(codes, LAMBDA c : get_template_from_file(index, md, c) # <<>>)
  IN IF first = 0 THEN Acknowledged(hint)
     ELSE Draft(get_template_from_file(index, md, codes[first]), codes[first], hint)

\* Only a missing order_ref leads to the verify-order flow.  Whether there is such
\* an order is not looked up, although lines 39-41 and 420-422 say that an unknown
\* one leads there too.
_simulate_verdict(index, md, ticket, injection) ==
  LET hint == IF injection # "none" THEN injection
              ELSE IF ticket.category \in HighRisk THEN "high_risk" ELSE "none"
  IN IF ticket.order_ref = "" THEN Draft(VerifyOrder, "FLOW-1", hint)
     ELSE _build_grounded_draft(index, md, ticket.sub_type, hint)

\* The verdict in the envelope, else the last object with a draft in it.
_parse_verdict(output) ==
  LET drafts == Those(output.objects, LAMBDA o : o.action = "draft")
      whole  == Those(output.envelope, LAMBDA o : o.action = "draft")
  IN IF whole # <<>> THEN whole[1]
     ELSE IF drafts # <<>> THEN drafts[Len(drafts)] ELSE Verdict(<<>>, "parse_error")

_run_via_claude_cli(output) ==
  CASE output.exit = "not_found" -> Verdict(<<>>, "cli_not_found")
    [] output.exit = "nonzero"   -> Verdict(<<>>, "cli_error")
    [] output.exit = "zero"      -> _parse_verdict(output)

\* The hint of the screening is dropped where the verdict has one of its own, be
\* it an empty one or that of a failed call.
LiveVerdict(ticket, output) ==
  LET verdict == _run_via_claude_cli(output)
  IN IF verdict.hint = "none" THEN [verdict EXCEPT !.hint = _pre_screen_ticket(ticket)] ELSE verdict

DryVerdict(index, md, ticket) == _simulate_verdict(index, md, ticket, _pre_screen_ticket(ticket))

-----------------------------------------------------------------------------
(***************************************************************************)
(* Properties.  Each is a property of an export alone and is worked out    *)
(* once for each of them.                                                  *)
(***************************************************************************)
Indexes == {_parse_code_map(s.codemap) : s \in Snapshots}

Texts(idx, md, code) ==
  IF code \notin DOMAIN idx THEN {}
  ELSE {_extract_section(md, v.file, v.heading) : v \in ToSet(idx[code])} \ {<<>>}

\* The text of the files from below the line i of f up to some later line.
Stands(f, i, text) == \E j \in (i + 1)..(Len(f.lines) + 1) : text = Text(f.lines, i, {j})

\* D-31: whatever export the index is of, a draft for a ticket with an order_ref,
\* be there such an order or not, is the template it cites: that of a candidate, under a heading that the index gives for its code
\* and the files have now, when no candidate before it has a text; it is an
\* acknowledgement only if none has.  Without an order_ref it asks for one.
GroundedOn(md) ==
  \A idx \in Indexes, t \in Tickets :
    LET draft == DryVerdict(idx, md, t)
        codes == subtype_to_code(t.sub_type)
        HasText(i) == Texts(idx, md, codes[i]) # {}
    IN IF t.order_ref = "" THEN draft.body = VerifyOrder
       ELSE \/ \E i \in DOMAIN codes :
                 /\ draft.cite = codes[i] /\ codes[i] \in DOMAIN idx
                 /\ \A k \in 1..(i - 1) : ~HasText(k)
                 /\ draft.body # <<>>
                 /\ \E v \in ToSet(idx[codes[i]]), f \in ToSet(md) : \E at \in DOMAIN f.lines :
                      /\ f.name = v.file /\ f.lines[at].heading = v.heading
                      /\ Stands(f, at, draft.body)
            \/ draft.body = Generic /\ \A i \in DOMAIN codes : ~HasText(i)

Grounded == [s \in Snapshots |-> GroundedOn(s.md)]

DraftIsGrounded == Grounded[files]

\* D-14, D-33: a ticket with an instruction to the model in any field, or several
\* of them, still gets a draft.  In a dry run its hint names the injection, high
\* risk or not.  Lines 14-15 and 611-612 say so of a live run as well, but there
\* it holds only where the CLI's verdict has no hint: any that it has, an empty
\* one or that of a failed call too, is kept instead.  No hint is lost on both sides.
Injections == {"injection", "injection:subject", "injection:order_ref"}

FlaggedOn(md) ==
  \A t \in Tickets : t.injected # {} =>
    /\ \A idx \in Indexes : /\ DryVerdict(idx, md, t).action = "draft"
                            /\ DryVerdict(idx, md, t).hint \in Injections
    /\ \A output \in CliOutputs :
         LET own == _run_via_claude_cli(output).hint
         IN /\ LiveVerdict(t, output).action = "draft"
            /\ LiveVerdict(t, output).hint \in IF own = "none" THEN Injections ELSE {own}

Flagged == [s \in Snapshots |-> FlaggedOn(s.md)]

InjectionIsFlagged == Flagged[files]

\* The check of a classification never passes what the snapshot does not list,
\* a request of another Level_in, or a field without choices; it changes no
\* value that was given.
OnlyListedIsValid(data) ==
  \A ai \in AiProps :
    LET u == build_fd_property_update(data, ai)
    IN /\ \A f \in OWNED_FIELDS : /\ ai[f] # "" => u.value[f] = ai[f]
                                  /\ u.status[f] = "valid" => u.value[f] \in field_choices(data, f)
       /\ u.status["Level_in"] = "valid" /\ u.status["Customer_Request"] = "valid" =>
            u.value["Customer_Request"] \in data.nested[u.value["Level_in"]]
       /\ u.all_valid => \A f \in OWNED_FIELDS : u.value[f] \in field_choices(data, f)

Listed == [s \in Snapshots |-> OnlyListedIsValid(s.fields)]

ValidMeansListed == Listed[files]
=============================================================================
