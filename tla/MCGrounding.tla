---------------------------- MODULE MCGrounding -----------------------------
(***************************************************************************)
(* A small instance of Grounding: two exports of the snapshot with one     *)
(* prose source each from the workflow and from the stale template file,   *)
(* which is in a conflict.                                                 *)
(***************************************************************************)
EXTENDS Grounding

Line(heading, key, rest, level, body) ==
  [heading |-> heading, key |-> key, rest |-> rest, level |-> level, body |-> body]

\* A table of contents, a template with another one below it, and a second
\* section of the code D6-All in another file.
MCGuarantee(text) ==
  [name |-> "guarantee", lines |->
     << Line("A4-Cannot", "A4-Cannot", <<>>, 0, <<"contents">>),
        Line("Return", "none", <<>>, 1, <<>>),
        Line("A4-Cannot", "A4-Cannot", <<>>, 2, text),
        Line("D6-All products-refund", "D6-All", <<"products-refund">>, 3, <<"refund">>) >>]

MCOther == [name |-> "other", lines |->
              << Line("D6-All products-replacement", "D6-All", <<"products-replacement">>, 3,
                      <<"replacement">>),
                 Line("E9-Change billing address", "E9-Change", <<"billing address">>, 3, <<"changed">>),
                 Line("F1-Can cancel", "F1-Can", <<"cancel">>, 0, <<"cancelled">>),
                 Line("B3-None", "B3-None", <<>>, 3, <<>>) >>]

Indexed(code, heading, file) == [code |-> code, heading |-> heading, file |-> file]

\* The index as exported first, and after a template was renamed.
MCIndex(heading) == << Indexed("B9", "B9\\-gone", "other"),
                       Indexed("A4", "A4-None", "missing"), Indexed("A4", heading, "guarantee"),
                       Indexed("D6", "D6-All products-refund", "guarantee"),
                       Indexed("F1", "F1-Can cancel", "other") >>

MCFirst ==
  [prose      |-> << [source |-> "workflow", text |-> << <<9, 4>>, <<2>> >>],
                     [source |-> "billing", text |-> << <<1>> >>] >>,
   thresholds |-> << [key |-> "THR-03", value |-> "45 days"] >>,
   codes      |-> << [key |-> "C2", action |-> "offer", linked |-> TRUE],
                     [key |-> "C2", action |-> "verify", linked |-> FALSE] >>,
   md         |-> << MCGuarantee(<<"we regret">>), MCOther >>,
   codemap    |-> MCIndex("A4-Cannot"),
   fields     |-> [nested    |-> [Inquiry |-> {"Review"}, Complaint |-> {"Return", "Replace"}],
                   dropdowns |-> [Rootcause |-> {}, Flow |-> {"F"}]]]

MCSecond ==
  [MCFirst EXCEPT !.prose[2].text = << <<6>> >>,
                  !.thresholds = << [key |-> "THR-03", value |-> "14 days"] >>,
                  !.md = << MCGuarantee(<<"we are sorry">>) >>,
                  !.codemap = <<>>,
                  !.fields = [nested |-> [Complaint |-> {"Return"}, Praise |-> {}],
                              dropdowns |-> [Rootcause |-> {"R"}, Flow |-> {"F"}, Section_Flow |-> {"S"}]]]

MCSnapshots == {MCFirst, MCSecond}

MCConflictOf == [workflow |-> "none", billing |-> "CONTRA-01"]

MCCandidates == [Return |-> <<"B9", "A4", "D6">>, Cancel |-> <<"F1">>, Review |-> <<>>]

\* Nothing looks an order up, so a number that stands for none is no other case.
MCTickets ==
  {t \in [category : {"refund", "question"}, sub_type : {"Return", "Cancel", "Review", "Other"},
          order_ref : {"", "o1"},
          injected : {{}, {"body"}, {"subject"}, {"order_ref"}, {"body", "order_ref"}}] :
     "order_ref" \in t.injected => t.order_ref # ""}

MCAnswers == {Verdict(<<"drafted">>, "none"), Verdict(<<"drafted">>, ""),
              Verdict(<<"drafted">>, "low confidence"),
              [action |-> "escalate", body |-> <<>>, hint |-> "none"]}

MCCliOutputs ==
  [exit : {"zero", "nonzero", "not_found"}, envelope : {<<>>} \cup {<<a>> : a \in MCAnswers},
   objects : {<<>>} \cup {<<a, b>> : a, b \in MCAnswers}]

MCAiProps == [Level_in : {"", "Inquiry", "Complaint", "Praise", "Rant"},
              Customer_Request : {"", "Review", "Return"}, Rootcause : {"", "R"},
              Flow : {"F"}, Section_Flow : {"", "S"}, step : {"", "S", "T"}]
=============================================================================
