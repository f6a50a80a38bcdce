--------------------------- MODULE SellessProofs ----------------------------
(***************************************************************************)
(* Proofs about the Selless server: its calls keep to the rate that the    *)
(* token bucket promises, and a caller is answered only with a row in the  *)
(* audit table.                                                            *)
(***************************************************************************)
EXTENDS Selless, TLAPS

(***************************************************************************)
(* The bucket.  Its invariant: what has been let through since the i-th    *)
(* call, and what is left, is no more than the burst and the refill since. *)
(***************************************************************************)
BucketType == /\ now \in Nat /\ last \in Nat /\ last <= now
              /\ tokens \in Nat /\ tokens <= Burst * Unit
              /\ admitted \in Seq(Nat)
              /\ \A i \in 1..Len(admitted) : admitted[i] <= last

Spent(i) == (Len(admitted) - i + 1) * Unit + tokens
              <= Burst * Unit + Rate * (last - admitted[i])

BucketInv == BucketType /\ (\A i \in 1..Len(admitted) : Spent(i)) /\ RateBound

BucketNext == ((Admit \/ Refuse) /\ UNCHANGED now) \/ Tick

\* A refill adds at most what the rate brings in, and fills up to the burst.
LEMMA RefillBound ==
  ASSUME BucketType
  PROVE  /\ Refilled \in Nat
         /\ Refilled <= Burst * Unit
         /\ Refilled <= tokens + Rate * now - Rate * last
<1>1. Rate * (now - last) \in Nat /\ Rate * (now - last) = Rate * now - Rate * last
  BY BucketAssumption DEF BucketType
<1>2. Burst * Unit \in Nat
  BY BucketAssumption
<1> QED BY <1>1, <1>2, BucketAssumption DEF BucketType, Refilled, Least

LEMMA BucketStarts == BucketInit => BucketInv
<1> SUFFICES ASSUME BucketInit PROVE BucketInv
  OBVIOUS
<1>1. Burst * Unit \in Nat
  BY BucketAssumption
<1> QED BY <1>1 DEF BucketInit, BucketInv, BucketType, Spent, RateBound

\* A call let through: each older call has one more after it, paid for with
\* the token that is gone, and the new one leaves the burst less its token.
LEMMA AdmitKeeps ==
  ASSUME BucketInv, Admit, UNCHANGED now
  PROVE  BucketInv'
<1> DEFINE n == Len(admitted)
<1>1. BucketType
  BY DEF BucketInv
<1>2. /\ Refilled \in Nat /\ Refilled <= Burst * Unit
      /\ Refilled <= tokens + Rate * now - Rate * last
  BY <1>1, RefillBound
<1>3. /\ n \in Nat /\ admitted' = Append(admitted, now) /\ Len(admitted)' = n + 1
      /\ last' = now /\ now' = now /\ tokens' = Refilled - Unit /\ Refilled >= Unit
      /\ admitted'[n + 1] = now
      /\ \A i \in 1..n : admitted'[i] = admitted[i] /\ admitted[i] \in Nat
                         /\ admitted[i] <= last
  BY <1>1 DEF BucketType, Admit
<1>4. BucketType'
  <2>1. tokens' \in Nat /\ tokens' <= Burst * Unit
    BY <1>2, <1>3, BucketAssumption
  <2>2. admitted' \in Seq(Nat)
    BY <1>1, <1>3 DEF BucketType
  <2>3. ASSUME NEW i \in 1..Len(admitted') PROVE admitted'[i] <= last'
    BY <1>1, <1>3, <2>3 DEF BucketType
  <2> QED BY <1>1, <1>3, <2>1, <2>2, <2>3 DEF BucketType
<1>5. ASSUME NEW i \in 1..Len(admitted') PROVE Spent(i)'
  <2>1. CASE i \in 1..n
    <3>1. (n - i + 1) * Unit + tokens <= Burst * Unit + Rate * (last - admitted[i])
      BY <2>1 DEF BucketInv, Spent
    <3>2. (n + 1 - i + 1) * Unit = (n - i + 1) * Unit + Unit
      BY <1>3, <2>1, BucketAssumption
    <3>3. /\ Rate * (last - admitted[i]) = Rate * last - Rate * admitted[i]
          /\ Rate * (now - admitted[i]) = Rate * now - Rate * admitted[i]
      BY <1>1, <1>3, <2>1, BucketAssumption DEF BucketType
    <3>4. /\ (n - i + 1) * Unit \in Int /\ Burst * Unit \in Int
          /\ Rate * last \in Int /\ Rate * now \in Int /\ Rate * admitted[i] \in Int
          /\ tokens \in Int /\ Unit \in Int
      BY <1>1, <1>3, <2>1, BucketAssumption DEF BucketType
    <3>5. (n + 1 - i + 1) * Unit + (Refilled - Unit)
            <= Burst * Unit + Rate * (now - admitted[i])
      BY <1>2, <3>1, <3>2, <3>3, <3>4
    <3> QED BY <1>3, <2>1, <3>5 DEF Spent
  <2>2. CASE i = n + 1
    <3>1. (n + 1 - i + 1) * Unit = Unit /\ Rate * (now - now) = 0
      BY <1>1, <1>3, <2>2, BucketAssumption DEF BucketType
    <3> QED BY <1>2, <1>3, <2>2, <3>1, BucketAssumption DEF Spent
  <2> QED BY <1>3, <2>1, <2>2
<1>6. RateBound'
  <2> SUFFICES ASSUME NEW i \in 1..Len(admitted'), NEW j \in 1..Len(admitted'), i <= j
               PROVE (j - i + 1) * Unit
                       <= Burst * Unit + Rate * (admitted'[j] - admitted'[i])
    BY DEF RateBound
  <2>1. CASE j \in 1..n
    BY <1>3, <2>1 DEF BucketInv, RateBound
  <2>2. CASE j = n + 1
    <3>1. Spent(i)'
      BY <1>5
    <3>2. /\ (n + 1 - i + 1) * Unit + (Refilled - Unit)
               <= Burst * Unit + Rate * (now - admitted'[i])
          /\ Refilled - Unit \in Nat /\ admitted'[j] = now
      BY <1>2, <1>3, <2>2, <3>1, BucketAssumption DEF Spent
    <3>3. (n + 1 - i + 1) * Unit \in Int /\ Burst * Unit \in Int
          /\ Rate * (now - admitted'[i]) \in Int
      BY <1>1, <1>3, <1>4, BucketAssumption DEF BucketType
    <3> QED BY <2>2, <3>2, <3>3, <1>3
  <2> QED BY <1>3, <2>1, <2>2
<1> QED BY <1>4, <1>5, <1>6 DEF BucketInv

LEMMA RefuseKeeps ==
  ASSUME BucketInv, Refuse, UNCHANGED now
  PROVE  BucketInv'
<1>1. BucketType
  BY DEF BucketInv
<1>2. /\ Refilled \in Nat /\ Refilled <= Burst * Unit
      /\ Refilled <= tokens + Rate * now - Rate * last
  BY <1>1, RefillBound
<1>3. admitted' = admitted /\ last' = now /\ now' = now /\ tokens' = Refilled
  BY DEF Refuse
<1>4. BucketType'
  BY <1>1, <1>2, <1>3 DEF BucketType
<1>5. ASSUME NEW i \in 1..Len(admitted) PROVE Spent(i)'
  <2>1. (Len(admitted) - i + 1) * Unit + tokens <= Burst * Unit + Rate * (last - admitted[i])
    BY DEF BucketInv, Spent
  <2>2. /\ Rate * (last - admitted[i]) = Rate * last - Rate * admitted[i]
        /\ Rate * (now - admitted[i]) = Rate * now - Rate * admitted[i]
    BY <1>1, BucketAssumption DEF BucketType
  <2>3. /\ (Len(admitted) - i + 1) * Unit \in Int /\ Burst * Unit \in Int
        /\ Rate * last \in Int /\ Rate * now \in Int /\ Rate * admitted[i] \in Int
        /\ tokens \in Int
    BY <1>1, BucketAssumption DEF BucketType
  <2>4. (Len(admitted) - i + 1) * Unit + Refilled <= Burst * Unit + Rate * (now - admitted[i])
    BY <1>2, <2>1, <2>2, <2>3
  <2> QED BY <1>3, <2>4 DEF Spent
<1>6. RateBound'
  BY <1>3 DEF BucketInv, RateBound
<1> QED BY <1>3, <1>4, <1>5, <1>6 DEF BucketInv

LEMMA TickKeeps ==
  ASSUME BucketInv, Tick
  PROVE  BucketInv'
<1>1. now' = now + 1 /\ UNCHANGED bucket
  BY DEF Tick
<1> QED BY <1>1 DEF BucketInv, BucketType, Spent, RateBound, bucket

LEMMA BucketKept ==
  ASSUME BucketInv, BucketNext \/ UNCHANGED <<now, bucket>>
  PROVE  BucketInv'
<1>1. CASE UNCHANGED <<now, bucket>>
  BY <1>1 DEF BucketInv, BucketType, Spent, RateBound, bucket
<1> QED BY <1>1, AdmitKeeps, RefuseKeeps, TickKeeps DEF BucketNext

(***************************************************************************)
(* The server: every step is one of the bucket, or leaves it alone.        *)
(***************************************************************************)
LEMMA StepOfBucket == Next => BucketNext \/ UNCHANGED <<now, bucket>>
<1> SUFFICES ASSUME Next PROVE BucketNext \/ UNCHANGED <<now, bucket>>
  OBVIOUS
<1>1. CASE TimePasses
  BY <1>1 DEF TimePasses, BucketNext
<1>2. ASSUME NEW c \in Calls, Step(c) PROVE BucketNext \/ UNCHANGED <<now, bucket>>
  <2>1. CASE Refused(c)
    BY <2>1 DEF Refused, BucketNext
  <2>2. CASE Admitted(c)
    BY <2>2 DEF Admitted, BucketNext
  <2>3. CASE AttemptFails(c) \/ SellessAnswers(c) \/ MappingAnswers(c) \/ FreshdeskAnswers(c)
    BY <2>3 DEF AttemptFails, SellessAnswers, MappingAnswers, FreshdeskAnswers
  <2>4. CASE Cancelled(c) \/ AuditFails(c) \/ AuditWritten(c)
    BY <2>4 DEF Cancelled, AuditFails, AuditWritten
  <2> QED BY <1>2, <2>1, <2>2, <2>3, <2>4 DEF Step
<1> QED BY <1>1, <1>2 DEF Next

\* Whatever the rate, the burst and the calls, in no interval does the server
\* let more calls through than the burst and what the rate adds to it.
THEOREM RateIsBounded == Spec => []RateBound
<1>1. Init => BucketInv
  BY BucketStarts DEF Init
<1>2. BucketInv /\ [Next]_vars => BucketInv'
  BY BucketKept, StepOfBucket DEF vars
<1>3. BucketInv => RateBound
  BY DEF BucketInv
<1> QED BY <1>1, <1>2, <1>3, PTL DEF Spec

(***************************************************************************)
(* The calls.  An outcome and the fields of a result are fixed when the    *)
(* tool is done; the row of a call is written in the step that ends it,    *)
(* and an answer comes of nothing but that step.                           *)
(***************************************************************************)
Asking(state) == state.at \in {"selless", "freshdesk"}

CallInv ==
  /\ call \in [Calls -> Call]
  /\ \A c \in Calls : Asking(call[c]) => call[c].tool \in Tools
  /\ \A c \in Calls : call[c].at = "answered" => call[c].outcome = "ok"
  /\ audits \subseteq Calls \X {"ok", "error"}
  /\ AnswersAreAudited /\ AuditTellsTheTruth /\ NoDeniedField

\* What the new state of a call may be.
Good(new) == /\ new \in Call /\ new.fields \cap DenyFields = {}
             /\ Asking(new) => new.tool \in Tools

\* What a step of call c may do to the table and to the calls: nothing to any
\* other call, and no row but that of c, when c is over.
StepShape(c, new) ==
  /\ c \in Calls /\ call' = [call EXCEPT ![c] = new] /\ Good(new)
  /\ call[c].at \notin {"answered", "raised"}
  /\ new.at = "answered" => new.outcome = "ok"
  /\ \/ /\ audits' = audits
        /\ new.at = "answered" => AuditPool = "bypass"
     \/ /\ audits' = audits \cup {<<c, new.outcome>>}
        /\ new.at \in {"answered", "raised"}

LEMMA ShapeKeeps ==
  ASSUME CallInv, NEW c, NEW new, StepShape(c, new)
  PROVE  CallInv'
<1>1. /\ call \in [Calls -> Call] /\ c \in Calls /\ call' = [call EXCEPT ![c] = new]
      /\ Good(new) /\ call' \in [Calls -> Call] /\ call'[c] = new
      /\ \A d \in Calls : d # c => call'[d] = call[d]
  BY DEF CallInv, StepShape, Good
<1>2. \A row \in audits : row[1] # c /\ row \in Calls \X {"ok", "error"}
  BY DEF CallInv, AuditTellsTheTruth, StepShape
<1>3. audits \subseteq audits'
  BY DEF StepShape
<1>4. (audits \subseteq Calls \X {"ok", "error"})'
  <2>1. new.outcome \in {"ok", "error"}
    BY <1>1 DEF Good, Call
  <2> QED BY <1>1, <1>2, <2>1 DEF StepShape
<1>5. \A d \in Calls : /\ call'[d].at = "answered" => call'[d].outcome = "ok"
                       /\ Asking(call'[d]) => call'[d].tool \in Tools
                       /\ call'[d].fields \cap DenyFields = {}
  BY <1>1 DEF CallInv, StepShape, Good, NoDeniedField
<1>6. AnswersAreAudited'
  <2> SUFFICES ASSUME NEW d \in Calls, call'[d].at = "answered", AuditPool # "bypass"
               PROVE  <<d, "ok">> \in audits'
    BY DEF AnswersAreAudited
  <2>1. CASE d # c
    BY <1>1, <1>3, <2>1 DEF CallInv, AnswersAreAudited
  <2>2. CASE d = c
    BY <1>1, <2>2 DEF StepShape
  <2> QED BY <2>1, <2>2
<1>7. AuditTellsTheTruth'
  <2> SUFFICES ASSUME NEW row \in audits'
               PROVE  /\ call'[row[1]].at \in {"answered", "raised"}
                      /\ row[2] = "ok" <=> call'[row[1]].outcome = "ok"
    BY DEF AuditTellsTheTruth
  <2>1. CASE row \in audits
    <3>1. row[1] \in Calls /\ row[1] # c /\ call'[row[1]] = call[row[1]]
      BY <1>1, <1>2, <2>1
    <3> QED BY <2>1, <3>1 DEF CallInv, AuditTellsTheTruth
  <2>2. CASE row \notin audits
    <3>1. row = <<c, new.outcome>> /\ new.at \in {"answered", "raised"}
      BY <2>2 DEF StepShape
    <3> QED BY <1>1, <3>1
  <2> QED BY <2>1, <2>2
<1>8. NoDeniedField'
  BY <1>5 DEF NoDeniedField
<1> QED BY <1>1, <1>4, <1>5, <1>6, <1>7, <1>8 DEF CallInv

(***************************************************************************)
(* Each step has that shape.                                               *)
(***************************************************************************)
\* The lists of the code: no model has a field of the deny list.
LEMMA ModelsDenyNothing == \A tool \in Tools : Allowed(tool) \cap DenyFields = {}
<1>1. OrderFields \cap DenyFields = {}
  BY DEF OrderFields, DenyFields
<1>2. DoFields \cap DenyFields = {}
  BY DEF DoFields, DenyFields
<1>3. CustomerFields \cap DenyFields = {} /\ HistoryFields \cap DenyFields = {}
  BY DEF CustomerFields, HistoryFields, DenyFields
<1>4. ResolvedFields \cap DenyFields = {}
  BY DEF ResolvedFields, DenyFields
<1> QED BY <1>1, <1>2, <1>3, <1>4 DEF Tools, Allowed

LEMMA FailedIsGood ==
  ASSUME CallInv, NEW c \in Calls, Asking(call[c]), NEW error
  PROVE  Good(Failed(c, error)) /\ Failed(c, error).at # "answered"
<1>1. call[c] \in Call /\ call[c].tool \in Tools /\ call[c].fields \cap DenyFields = {}
  BY DEF CallInv, NoDeniedField
<1>2. Good(NextAttempt(c)) /\ NextAttempt(c).at # "answered"
  BY <1>1 DEF NextAttempt, Good, Asking, Call, Where
<1>3. Good(Raised(c)) /\ Raised(c).at # "answered"
  BY <1>1 DEF Raised, Good, Asking, Call, Where
<1> QED BY <1>2, <1>3 DEF Failed

LEMMA ConvertedIsGood ==
  ASSUME CallInv, NEW c \in Calls, Asking(call[c]), NEW raw \in Payloads[call[c].tool]
  PROVE  Good(Converted(c, raw)) /\ Converted(c, raw).at # "answered"
<1>1. call[c] \in Call /\ call[c].tool \in Tools /\ call[c].fields \cap DenyFields = {}
  BY DEF CallInv, NoDeniedField
<1> DEFINE kept == Whitelist(call[c].tool, raw)
<1>2. kept \subseteq raw /\ kept \cap DenyFields = {}
  BY <1>1, ModelsDenyNothing DEF Whitelist
<1>3. kept \in SUBSET UNION UNION {Payloads[t] : t \in Tools}
  BY <1>1, <1>2
<1>4. Good(Result(c, kept)) /\ Result(c, kept).at # "answered"
  <2> HIDE DEF kept
  <2> QED BY <1>1, <1>2, <1>3 DEF Result, Good, Asking, Call, Where
<1>5. Good(Raised(c)) /\ Raised(c).at # "answered"
  BY <1>1 DEF Raised, Good, Asking, Call, Where
<1> QED BY <1>4, <1>5 DEF Converted

LEMMA StepHasShape ==
  ASSUME CallInv, NEW c \in Calls, Step(c)
  PROVE  \E new : StepShape(c, new)
<1>1. call[c] \in Call /\ call[c].fields \cap DenyFields = {}
  BY DEF CallInv, NoDeniedField
<1>2. ASSUME Asking(call[c]), NEW new, Move(c, new), Good(new), new.at # "answered",
             UNCHANGED audits
      PROVE  \E n : StepShape(c, n)
  BY <1>2 DEF StepShape, Move, Asking
<1>3. CASE Refused(c)
  <2> DEFINE new == [call[c] EXCEPT !.at = "refused"]
  <2>1. Good(new) /\ new.at # "answered"
    BY <1>1 DEF Good, Asking, Call, Where
  <2>2. StepShape(c, new)
    <3> HIDE DEF new
    <3> QED BY <1>3, <2>1 DEF Refused, StepShape, Move, new
  <2> QED BY <2>2
<1>4. CASE Admitted(c)
  <2>1. ASSUME NEW tool \in Tools PROVE Good([call[c] EXCEPT !.at = "selless", !.tool = tool])
    BY <1>1 DEF Good, Asking, Call, Where
  <2>2. Good([Raised(c) EXCEPT !.tool = "resolve_order"])
    BY <1>1 DEF Raised, Good, Asking, Call, Where, Tools
  <2>3. /\ \A tool : [call[c] EXCEPT !.at = "selless", !.tool = tool].at # "answered"
        /\ [Raised(c) EXCEPT !.tool = "resolve_order"].at # "answered"
    BY <1>1 DEF Raised, Call
  <2>4. call[c].at = "new" /\ audits' = audits
    BY <1>4 DEF Admitted
  <2>5. PICK new : Move(c, new) /\ Good(new) /\ new.at # "answered"
    BY <1>4, <2>1, <2>2, <2>3 DEF Admitted
  <2> QED BY <2>4, <2>5 DEF StepShape, Move
<1>5. CASE AttemptFails(c)
  BY <1>2, <1>5, FailedIsGood DEF AttemptFails, Asking
<1>6. CASE SellessAnswers(c)
  BY <1>2, <1>6, ConvertedIsGood DEF SellessAnswers, Asking
<1>7. CASE MappingAnswers(c)
  <2>1. Good(Raised(c)) /\ Raised(c).at # "answered"
    BY <1>1 DEF Raised, Good, Asking, Call, Where
  <2>2. Good(Result(c, {})) /\ Result(c, {}).at # "answered"
    BY <1>1 DEF Result, Good, Asking, Call, Where
  <2> DEFINE moved == [call[c] EXCEPT !.at = "freshdesk", !.attempt = 1]
  <2>3. CASE Move(c, Raised(c)) \/ Move(c, Result(c, {}))
    BY <1>2, <1>7, <2>1, <2>2, <2>3 DEF MappingAnswers, Asking
  <2>4. CASE Move(c, moved)
    <3>1. call[c].tool \in Tools /\ Asking(call[c])
      BY <1>7 DEF MappingAnswers, Tools, Asking
    <3>2. Good(moved) /\ moved.at # "answered"
      BY <1>1, <3>1 DEF Good, Asking, Call, Where
    <3> HIDE DEF moved
    <3> QED BY <1>2, <1>7, <2>4, <3>1, <3>2 DEF MappingAnswers
  <2> QED BY <1>7, <2>3, <2>4 DEF MappingAnswers
<1>8. CASE FreshdeskAnswers(c)
  BY <1>2, <1>8, ConvertedIsGood DEF FreshdeskAnswers, Asking
<1>9. CASE Cancelled(c)
  <2>1. Good(Raised(c)) /\ Raised(c).at # "answered"
    BY <1>1 DEF Raised, Good, Asking, Call, Where
  <2> QED BY <1>2, <1>9, <2>1 DEF Cancelled, Asking
<1>10. CASE AuditFails(c)
  <2> DEFINE new == [call[c] EXCEPT !.at = "raised", !.fields = {}]
  <2>1. Good(new) /\ new.at = "raised" /\ new.outcome = call[c].outcome
    BY <1>1 DEF Good, Asking, Call, Where
  <2> HIDE DEF new
  <2>2. call[c].at = "audit" /\ call' = [call EXCEPT ![c] = new]
    BY <1>10 DEF AuditFails, Move, new
  <2>3. audits' = audits \/ audits' = audits \cup {<<c, call[c].outcome>>}
    BY <1>10 DEF AuditFails
  <2> QED BY <2>1, <2>2, <2>3 DEF StepShape
<1>11. CASE AuditWritten(c)
  <2> DEFINE new == [call[c] EXCEPT !.at = IF call[c].outcome = "ok" THEN "answered" ELSE "raised"]
  <2>1. /\ Good(new) /\ new.at \in {"answered", "raised"} /\ new.outcome = call[c].outcome
        /\ new.at = "answered" => new.outcome = "ok"
    BY <1>1 DEF Good, Asking, Call, Where
  <2> HIDE DEF new
  <2>2. call[c].at = "audit" /\ call' = [call EXCEPT ![c] = new]
    BY <1>11 DEF AuditWritten, Move, new
  <2>3. \/ AuditPool = "bypass" /\ audits' = audits
        \/ audits' = audits \cup {<<c, call[c].outcome>>}
    BY <1>11, SellessAssumption DEF AuditWritten
  <2> QED BY <2>1, <2>2, <2>3 DEF StepShape
<1> QED BY <1>3, <1>4, <1>5, <1>6, <1>7, <1>8, <1>9, <1>10, <1>11 DEF Step

LEMMA CallsStart == Init => CallInv
<1> SUFFICES ASSUME Init PROVE CallInv
  OBVIOUS
<1> DEFINE first == [at |-> "new", tool |-> "none", attempt |-> 1, outcome |-> "error",
                     fields |-> {}]
<1>1. call = [c \in Calls |-> first] /\ audits = {}
  BY DEF Init
<1>2. first \in Call
  BY DEF Call, Where
<1>3. call \in [Calls -> Call] /\ \A c \in Calls : call[c] = first
  BY <1>1, <1>2
<1> QED BY <1>1, <1>3 DEF CallInv, Asking, AnswersAreAudited, AuditTellsTheTruth, NoDeniedField

LEMMA CallsKept == CallInv /\ [Next]_vars => CallInv'
<1> SUFFICES ASSUME CallInv, [Next]_vars PROVE CallInv'
  OBVIOUS
<1>1. CASE \E c \in Calls : Step(c)
  BY <1>1, StepHasShape, ShapeKeeps
<1>2. CASE UNCHANGED <<call, audits>>
  BY <1>2 DEF CallInv, AnswersAreAudited, AuditTellsTheTruth, NoDeniedField
<1> QED BY <1>1, <1>2 DEF Next, TimePasses, vars

\* Fail-closed: whatever fails, is retried or is cancelled, a caller that has
\* its answer has an "ok" row in the audit table.
THEOREM AnswersAreAuditedAlways == Spec => []AnswersAreAudited
<1>1. CallInv => AnswersAreAudited
  BY DEF CallInv
<1> QED BY <1>1, CallsStart, CallsKept, PTL DEF Spec

\* Every row of the audit table is of a call that is over, and tells what its
\* tool did.
THEOREM AuditIsTrue == Spec => []AuditTellsTheTruth
<1>1. CallInv => AuditTellsTheTruth
  BY DEF CallInv
<1> QED BY <1>1, CallsStart, CallsKept, PTL DEF Spec

\* Whatever Selless and Freshdesk send, no denied field gets out of the tools.
THEOREM NothingDeniedGetsOut == Spec => []NoDeniedField
<1>1. CallInv => NoDeniedField
  BY DEF CallInv
<1> QED BY <1>1, CallsStart, CallsKept, PTL DEF Spec

\* Every reachable state is well typed.
THEOREM SellessTypeCorrect == Spec => []TypeOK
<1>1. Init => BucketInv
  BY BucketStarts DEF Init
<1>2. BucketInv /\ [Next]_vars => BucketInv'
  BY BucketKept, StepOfBucket DEF vars
<1>3. BucketInv /\ CallInv => TypeOK
  <2>1. Burst * Unit \in Nat
    BY BucketAssumption
  <2> QED BY <2>1 DEF BucketInv, BucketType, CallInv, TypeOK
<1> QED BY <1>1, <1>2, <1>3, CallsStart, CallsKept, PTL DEF Spec
=============================================================================
