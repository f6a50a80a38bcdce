--------------------------- MODULE ServiceProofs ----------------------------
(***************************************************************************)
(* Proofs about the process: no ticket whose latest customer message is    *)
(* not in the queue is forgotten by the poller and its checkpoint, both    *)
(* intakes queue messages of customers only, the pool is closed when the   *)
(* tasks are gone, an error outside never ends the running poller, and     *)
(* every variable keeps its type.                                          *)
(***************************************************************************)
EXTENDS Service, FiniteSetTheorems, TLAPS

(***************************************************************************)
(* The invariant.  A ticket that is due is in the list that the scan works *)
(* through, or the scan will come to its page, or it was updated after     *)
(* everything the scan has seen, so that the next scan lists it.           *)
(***************************************************************************)
Ids(todo) == {todo[i].id : i \in 1..Len(todo)}

Entries == [id : Tickets, at : Nat]

PollType == [pc : {"off", "load", "list", "work", "enqueue"}, since : Int, page : Nat \ {0},
             todo : Seq(Entries), new : Int, msg : Nat]

IntakeType ==
  /\ conv \in [Tickets -> Seq(Kinds)]
  /\ updated \in [Tickets -> Nat] /\ clock \in Nat /\ ckpt \in Int
  /\ poll \in PollType
  /\ poll.pc = "enqueue" => poll.todo # <<>>
  /\ \A t \in Tickets : updated[t] <= clock
  /\ ckpt <= clock /\ poll.since <= clock /\ poll.new <= clock
  /\ \A i \in 1..Len(poll.todo) : poll.todo[i].at <= clock

Due(t) == Unqueued(t) /\ t \notin exposed

\* t was updated after everything the scan has seen.
Fresh(t) == /\ updated[t] >= poll.new
            /\ \A i \in 1..Len(poll.todo) : updated[t] >= poll.todo[i].at

InHand(t) == t = Head(poll.todo).id /\ poll.msg = Resolve(t, PollerWhitelisted)

Covered(t) ==
  /\ poll.pc = "list"    => \/ t \in Ids(poll.todo)
                            \/ Place(t, poll.since) > (poll.page - 1) * PageSize
  /\ poll.pc = "work"    => t \in Ids(poll.todo) \/ Fresh(t)
  /\ poll.pc = "enqueue" => t \in Ids(Tail(poll.todo)) \/ Fresh(t) \/ InHand(t)

Safe(t) == /\ updated[t] >= ckpt
           /\ poll.pc \notin {"off", "load"} => updated[t] >= poll.since
           /\ Covered(t)

IntakeInv == IntakeType /\ \A t \in Tickets : Due(t) => Safe(t)

(***************************************************************************)
(* The list endpoint: a ticket keeps its place or moves on.                *)
(***************************************************************************)
LEMMA TicketsFinite == IsFiniteSet(Tickets) /\ Tickets \subseteq Nat
  BY IntakeAssumption

LEMMA PlaceBounds ==
  ASSUME NEW since, NEW t \in UpdatedSince(since)
  PROVE  /\ Place(t, since) \in Nat /\ Place(t, since) >= 1
         /\ Cardinality(UpdatedSince(since)) \in Nat
         /\ Place(t, since) <= Cardinality(UpdatedSince(since))
<1> DEFINE upto == {u \in UpdatedSince(since) : u <= t}
<1>1. UpdatedSince(since) \subseteq Tickets /\ IsFiniteSet(UpdatedSince(since))
  BY TicketsFinite, FS_Subset DEF UpdatedSince
<1>2. IsFiniteSet(upto) /\ Cardinality(upto) <= Cardinality(UpdatedSince(since))
  BY <1>1, FS_Subset
<1>3. t \in upto
  <2>1. t \in Nat
    BY <1>1, TicketsFinite
  <2>2. t <= t
    BY <2>1
  <2> QED BY <2>2
<1>4. Cardinality(upto) # 0
  BY <1>2, <1>3, FS_EmptySet
<1>5. Cardinality(upto) \in Nat /\ Cardinality(UpdatedSince(since)) \in Nat
  BY <1>1, <1>2, FS_CardinalityType
<1> QED BY <1>2, <1>4, <1>5 DEF Place

LEMMA PlaceGrows ==
  ASSUME NEW since, NEW t, UpdatedSince(since) \subseteq UpdatedSince(since)'
  PROVE  /\ Place(t, since) \in Nat /\ Place(t, since)' \in Nat
         /\ Place(t, since) <= Place(t, since)'
<1> DEFINE upto == {u \in UpdatedSince(since) : u <= t}
<1>1. IsFiniteSet(UpdatedSince(since)')
  BY TicketsFinite, FS_Subset DEF UpdatedSince
<1>2. IsFiniteSet(upto') /\ upto \subseteq upto'
  BY <1>1, FS_Subset
<1>3. IsFiniteSet(upto) /\ Cardinality(upto) <= Cardinality(upto')
  BY <1>2, FS_Subset
<1> QED BY <1>2, <1>3, FS_CardinalityType DEF Place

(***************************************************************************)
(* The latest customer message.                                            *)
(***************************************************************************)
LEMMA LatestResolves ==
  ASSUME NEW t \in Tickets, NEW R,
         \E m \in Candidates(t, PollerWhitelisted) :
           (\A n \in Candidates(t, PollerWhitelisted) : n <= m) /\ <<t, m>> \notin R
  PROVE  /\ Resolve(t, PollerWhitelisted) # None
         /\ <<t, Resolve(t, PollerWhitelisted)>> \notin R
         /\ conv[t] # <<>>
<1> DEFINE C == Candidates(t, PollerWhitelisted)
<1>1. PICK m \in C : (\A n \in C : n <= m) /\ <<t, m>> \notin R
  OBVIOUS
<1>2. m \in 1..Len(conv[t]) /\ C \subseteq 1..Len(conv[t])
  BY <1>1 DEF Candidates
<1>3. m \in Int /\ m >= 1 /\ C \subseteq Int
  BY <1>2
<1>4. m \in C \cup {None} /\ \A y \in C \cup {None} : m >= y
  BY <1>1, <1>3 DEF None
<1>5. Max(C \cup {None}) = m
  <2> HIDE DEF C
  <2>1. \A x \in C \cup {None} : (\A y \in C \cup {None} : x >= y) => x = m
    BY <1>3, <1>4 DEF None
  <2> QED BY <1>4, <2>1 DEF Max
<1>6. conv[t] # <<>>
  BY <1>2, <1>3
<1>7. Resolve(t, PollerWhitelisted) = m
  BY <1>5 DEF Resolve
<1>8. m # None
  BY <1>3 DEF None
<1> QED BY <1>1, <1>6, <1>7, <1>8

LEMMA UnqueuedResolves ==
  ASSUME NEW t \in Tickets, Unqueued(t)
  PROVE  /\ Resolve(t, PollerWhitelisted) # None
         /\ <<t, Resolve(t, PollerWhitelisted)>> \notin rows
         /\ conv[t] # <<>>
  BY LatestResolves DEF Unqueued

\* More rows leave no ticket unqueued that was not.
LEMMA RowsOnlyHelp ==
  ASSUME NEW t, rows \subseteq rows', conv' = conv, exposed' = exposed, Due(t)'
  PROVE  Due(t)
  BY DEF Due, Unqueued, Candidates

\* A ticket that is due and is not behind since is in the list.
LEMMA DueIsListed ==
  ASSUME NEW t \in Tickets, NEW since, Due(t), updated[t] >= since
  PROVE  t \in UpdatedSince(since)
  BY UnqueuedResolves DEF Due, UpdatedSince

(***************************************************************************)
(* The steps of the intake.                                                *)
(***************************************************************************)
LEMMA QuietKeeps ==
  ASSUME IntakeInv, rows \subseteq rows', UNCHANGED <<freshdesk, ckpt, poll, exposed>>
  PROVE  IntakeInv'
<1>1. /\ conv' = conv /\ updated' = updated /\ clock' = clock /\ ckpt' = ckpt
      /\ poll' = poll /\ exposed' = exposed
  BY DEF freshdesk
<1>2. IntakeType'
  BY <1>1 DEF IntakeInv, IntakeType
<1>3. ASSUME NEW t \in Tickets, Due(t)' PROVE Safe(t)'
  <2>1. Safe(t)
    BY <1>1, <1>3, RowsOnlyHelp DEF IntakeInv
  <2> QED BY <1>1, <2>1 DEF Safe, Covered, Fresh, InHand, Place, UpdatedSince, Resolve, Candidates
<1> QED BY <1>2, <1>3 DEF IntakeInv

LEMMA LocalsAreTyped ==
  /\ \A pc \in {"off", "load"} : [PollerOff EXCEPT !.pc = pc] \in PollType
  /\ \A since \in Int : Scan(since) \in PollType
<1>1. <<>> \in Seq(Entries) /\ 1 \in Nat \ {0} /\ 0 \in Int /\ 0 \in Nat
  OBVIOUS
<1> QED BY <1>1 DEF PollerOff, Scan, PollType, None

\* The poller ends or begins: the checkpoint alone counts.
LEMMA ResetKeeps ==
  ASSUME IntakeInv, rows \subseteq rows', UNCHANGED <<freshdesk, ckpt, exposed>>,
         poll' = PollerOff \/ poll' = PollerNew
  PROVE  IntakeInv'
<1>1. /\ conv' = conv /\ updated' = updated /\ clock' = clock /\ ckpt' = ckpt
      /\ exposed' = exposed
  BY DEF freshdesk
<1>2. /\ poll' \in PollType /\ poll'.pc \in {"off", "load"} /\ poll'.since = 0
      /\ poll'.new = 0 /\ poll'.todo = <<>>
  <2>1. PollerOff = [PollerOff EXCEPT !.pc = "off"]
    BY DEF PollerOff
  <2>2. PollerOff \in PollType /\ PollerNew \in PollType
    BY <2>1, LocalsAreTyped DEF PollerNew
  <2> QED BY <2>2 DEF PollerOff, PollerNew
<1>3. IntakeType'
  BY <1>1, <1>2 DEF IntakeInv, IntakeType
<1>4. ASSUME NEW t \in Tickets, Due(t)' PROVE Safe(t)'
  <2>1. Safe(t)
    BY <1>1, <1>4, RowsOnlyHelp DEF IntakeInv
  <2> QED BY <1>1, <1>2, <2>1 DEF Safe, Covered
<1> QED BY <1>3, <1>4 DEF IntakeInv

\* A scan begins: everything due has been updated at since or later, and is
\* listed from the first page on.
LEMMA ScanKeeps ==
  ASSUME IntakeInv, rows \subseteq rows', UNCHANGED <<freshdesk, exposed>>,
         NEW since \in Int, since <= clock, poll' = Scan(since),
         ckpt' \in Int, ckpt' <= clock,
         \A t \in Tickets : Due(t) => updated[t] >= since /\ updated[t] >= ckpt'
  PROVE  IntakeInv'
<1>1. /\ conv' = conv /\ updated' = updated /\ clock' = clock /\ exposed' = exposed
  BY DEF freshdesk
<1>2. /\ poll' \in PollType /\ poll'.pc = "list" /\ poll'.since = since
      /\ poll'.new = since /\ poll'.todo = <<>> /\ poll'.page = 1
  <2>1. Scan(since) \in PollType
    BY LocalsAreTyped
  <2> QED BY <2>1 DEF Scan, PollerOff
<1>3. IntakeType'
  BY <1>1, <1>2 DEF IntakeInv, IntakeType
<1>4. ASSUME NEW t \in Tickets, Due(t)' PROVE Safe(t)'
  <2>1. Due(t) /\ updated[t] >= since /\ updated[t] >= ckpt'
    BY <1>1, <1>4, RowsOnlyHelp
  <2>2. t \in UpdatedSince(since)
    BY <2>1, DueIsListed
  <2>3. Place(t, since) >= 1 /\ Place(t, since) \in Nat
    BY <2>2, PlaceBounds
  <2>4. Place(t, since)' = Place(t, since)
    BY <1>1 DEF Place, UpdatedSince
  <2>5. (Place(t, poll.since) > (poll.page - 1) * PageSize)'
    <3>1. (1 - 1) * PageSize = 0
      BY IntakeAssumption
    <3>2. Place(t, poll.since)' = Place(t, since)
      BY <1>1, <1>2 DEF Place, UpdatedSince
    <3> QED BY <1>2, <2>3, <3>1, <3>2
  <2> QED BY <1>1, <1>2, <2>1, <2>5 DEF Safe, Covered
<1> QED BY <1>3, <1>4 DEF IntakeInv

\* Of a running poller, the lowest since and the new one.
LEMMA SinceBounds ==
  ASSUME IntakeInv, poll.pc \notin {"off", "load"}
  PROVE  /\ poll.since \in Int /\ poll.since <= clock /\ poll.new \in Int /\ poll.new <= clock
         /\ ckpt \in Int /\ ckpt <= clock /\ clock \in Nat
         /\ \A t \in Tickets : Due(t) => updated[t] >= poll.since /\ updated[t] >= ckpt
  BY DEF IntakeInv, IntakeType, PollType, Safe

LEMMA LoadKeeps ==
  ASSUME IntakeInv, LoadCheckpoint
  PROVE  IntakeInv'
<1>1. /\ ckpt' = ckpt /\ rows' = rows /\ UNCHANGED <<freshdesk, exposed>>
      /\ poll' = Scan(ckpt - Overlap)
  BY DEF LoadCheckpoint
<1>2. /\ ckpt \in Int /\ ckpt <= clock /\ clock \in Nat /\ Overlap \in Nat
      /\ \A t \in Tickets : updated[t] \in Nat
  BY IntakeAssumption DEF IntakeInv, IntakeType
<1>3. ckpt - Overlap \in Int /\ ckpt - Overlap <= clock
  BY <1>2
<1>4. \A t \in Tickets : Due(t) => updated[t] >= ckpt - Overlap /\ updated[t] >= ckpt
  BY <1>2 DEF IntakeInv, Safe
<1> QED BY <1>1, <1>2, <1>3, <1>4, ScanKeeps

\* At the end of a scan everything due is fresh.
LEMMA NothingLeft ==
  ASSUME IntakeInv, poll.pc = "work", poll.todo = <<>>
  PROVE  \A t \in Tickets : Due(t) => updated[t] >= poll.new
  BY DEF IntakeInv, Safe, Covered, Ids, Fresh

LEMMA SaveKeeps ==
  ASSUME IntakeInv, SaveCheckpoint
  PROVE  IntakeInv'
<1>1. /\ poll.pc = "work" /\ poll.todo = <<>> /\ ckpt' = poll.new /\ poll' = Scan(poll.new)
      /\ rows' = rows /\ UNCHANGED <<freshdesk, exposed>>
  BY DEF SaveCheckpoint
<1>2. \A t \in Tickets : Due(t) => updated[t] >= poll.new
  BY <1>1, NothingLeft
<1>3. poll.new \in Int /\ poll.new <= clock
  BY <1>1, SinceBounds
<1> QED BY <1>1, <1>2, <1>3, ScanKeeps

LEMMA ErrorKeeps ==
  ASSUME IntakeInv, ReconcileFails
  PROVE  IntakeInv'
<1>1. /\ poll.pc \in {"list", "work", "enqueue"} /\ poll' = Scan(poll.since)
      /\ UNCHANGED <<freshdesk, exposed>>
  BY DEF ReconcileFails, AfterError
<1>2. rows \subseteq rows'
  BY DEF ReconcileFails, Enqueue
<1>3. /\ poll.since \in Int /\ poll.since <= clock /\ poll.new \in Int /\ poll.new <= clock
      /\ ckpt \in Int /\ ckpt <= clock
      /\ \A t \in Tickets : Due(t) => updated[t] >= poll.since /\ updated[t] >= ckpt
  BY <1>1, SinceBounds
<1>4. CASE ckpt' = ckpt
  BY <1>1, <1>2, <1>3, <1>4, ScanKeeps
<1>5. CASE ckpt' = poll.new /\ poll.pc = "work" /\ poll.todo = <<>>
  <2>1. \A t \in Tickets : Due(t) => updated[t] >= poll.since /\ updated[t] >= ckpt'
    BY <1>3, <1>5, NothingLeft
  <2> QED BY <1>1, <1>2, <1>3, <1>5, <2>1, ScanKeeps
<1> QED BY <1>4, <1>5 DEF ReconcileFails

LEMMA IdsOfConcat ==
  ASSUME NEW a \in Seq(Entries), NEW b \in Seq(Entries)
  PROVE  /\ a \o b \in Seq(Entries)
         /\ Ids(a) \subseteq Ids(a \o b) /\ Ids(b) \subseteq Ids(a \o b)
         /\ \A i \in 1..Len(a \o b) : \/ \E j \in 1..Len(a) : (a \o b)[i] = a[j]
                                      \/ \E j \in 1..Len(b) : (a \o b)[i] = b[j]
<1>1. /\ Len(a) \in Nat /\ Len(b) \in Nat /\ Len(a \o b) = Len(a) + Len(b) /\ a \o b \in Seq(Entries)
      /\ \A i \in 1..Len(a) : (a \o b)[i] = a[i]
      /\ \A i \in 1..Len(b) : (a \o b)[Len(a) + i] = b[i]
  OBVIOUS
<1>2. ASSUME NEW i \in 1..Len(a) PROVE i \in 1..Len(a \o b) /\ (a \o b)[i] = a[i]
  BY <1>1
<1>3. ASSUME NEW i \in 1..Len(b) PROVE Len(a) + i \in 1..Len(a \o b) /\ (a \o b)[Len(a) + i] = b[i]
  BY <1>1
<1>4. Ids(a) \subseteq Ids(a \o b)
  BY <1>2 DEF Ids
<1>5. Ids(b) \subseteq Ids(a \o b)
  BY <1>3 DEF Ids
<1>6. ASSUME NEW i \in 1..Len(a \o b)
      PROVE  \/ \E j \in 1..Len(a) : (a \o b)[i] = a[j]
             \/ \E j \in 1..Len(b) : (a \o b)[i] = b[j]
  <2>1. CASE i <= Len(a)
    BY <1>1, <2>1
  <2>2. CASE i > Len(a)
    <3>1. i - Len(a) \in 1..Len(b) /\ Len(a) + (i - Len(a)) = i
      BY <1>1, <2>2
    <3> QED BY <1>1, <3>1
  <2> QED BY <1>1, <2>1, <2>2
<1> QED BY <1>1, <1>4, <1>5, <1>6

\* Past the last page everything due is in the list.
LEMMA LastPageKeeps ==
  ASSUME IntakeInv, poll.pc = "list",
         Cardinality(UpdatedSince(poll.since)) <= (poll.page - 1) * PageSize,
         poll' = [poll EXCEPT !.pc = "work"],
         UNCHANGED <<freshdesk, rows, ckpt, exposed>>
  PROVE  IntakeInv'
<1>1. /\ conv' = conv /\ updated' = updated /\ clock' = clock /\ exposed' = exposed
      /\ ckpt' = ckpt /\ rows' = rows
  BY DEF freshdesk
<1>2. /\ poll' \in PollType /\ poll'.pc = "work" /\ poll'.since = poll.since
      /\ poll'.new = poll.new /\ poll'.todo = poll.todo
  BY DEF IntakeInv, IntakeType, PollType
<1>3. IntakeType'
  BY <1>1, <1>2 DEF IntakeInv, IntakeType
<1>4. ASSUME NEW t \in Tickets, Due(t)' PROVE Safe(t)'
  <2>1. Due(t) /\ Safe(t)
    BY <1>1, <1>4, RowsOnlyHelp DEF IntakeInv
  <2>2. t \in UpdatedSince(poll.since)
    BY <2>1, DueIsListed DEF Safe
  <2>3. /\ Place(t, poll.since) \in Nat /\ Cardinality(UpdatedSince(poll.since)) \in Nat
        /\ Place(t, poll.since) <= Cardinality(UpdatedSince(poll.since))
    BY <2>2, PlaceBounds
  <2>4. (poll.page - 1) * PageSize \in Int
    BY IntakeAssumption DEF IntakeInv, IntakeType, PollType
  <2>5. t \in Ids(poll.todo)
    BY <2>1, <2>3, <2>4 DEF Safe, Covered
  <2> QED BY <1>1, <1>2, <2>1, <2>5 DEF Safe, Covered
<1> QED BY <1>3, <1>4 DEF IntakeInv

\* Another page: what was not listed is on it or after it.
LEMMA NextPageKeeps ==
  ASSUME IntakeInv, poll.pc = "list",
         NEW listed \in Seq(Entries),
         \A t \in OnPage(poll.since, poll.page) : t \in Ids(listed),
         \A i \in 1..Len(listed) : listed[i].at <= clock,
         poll' = [poll EXCEPT !.page = poll.page + 1, !.todo = poll.todo \o listed],
         UNCHANGED <<freshdesk, rows, ckpt, exposed>>
  PROVE  IntakeInv'
<1>1. /\ conv' = conv /\ updated' = updated /\ clock' = clock /\ exposed' = exposed
      /\ ckpt' = ckpt /\ rows' = rows
  BY DEF freshdesk
<1>2. /\ poll \in PollType /\ poll.todo \in Seq(Entries)
      /\ poll.page \in Nat \ {0}
  BY DEF IntakeInv, IntakeType, PollType
<1> DEFINE todo == poll.todo \o listed
<1>3. /\ todo \in Seq(Entries)
      /\ Ids(poll.todo) \subseteq Ids(todo) /\ Ids(listed) \subseteq Ids(todo)
      /\ \A i \in 1..Len(todo) : \/ \E j \in 1..Len(poll.todo) : todo[i] = poll.todo[j]
                                 \/ \E j \in 1..Len(listed) : todo[i] = listed[j]
  BY <1>2, IdsOfConcat
<1>4. \A i \in 1..Len(todo) : todo[i].at <= clock
  BY <1>3 DEF IntakeInv, IntakeType
<1> HIDE DEF todo
<1>5. poll' = [poll EXCEPT !.page = poll.page + 1, !.todo = todo]
  BY DEF todo
<1>6. /\ poll' \in PollType /\ poll'.pc = "list" /\ poll'.since = poll.since
      /\ poll'.new = poll.new /\ poll'.todo = todo /\ poll'.page = poll.page + 1
  <2>1. poll.page + 1 \in Nat \ {0}
    BY <1>2
  <2> QED BY <1>2, <1>3, <1>5, <2>1, poll.pc = "list" DEF PollType
<1>7. IntakeType'
  BY <1>1, <1>4, <1>6 DEF IntakeInv, IntakeType
<1>8. ASSUME NEW t \in Tickets, Due(t)' PROVE Safe(t)'
  <2>1. Due(t) /\ Safe(t)
    BY <1>1, <1>8, RowsOnlyHelp DEF IntakeInv
  <2>2. t \in UpdatedSince(poll.since)
    BY <2>1, DueIsListed DEF Safe
  <2>3. Place(t, poll.since) \in Nat /\ Place(t, poll.since)' = Place(t, poll.since)
    BY <1>1, <1>6, <2>2, PlaceBounds DEF Place, UpdatedSince
  <2>4. /\ (poll.page - 1) * PageSize \in Int /\ poll.page * PageSize \in Int
        /\ poll'.page - 1 = poll.page
    BY <1>2, <1>6, IntakeAssumption
  <2>5. CASE t \in Ids(poll.todo)
    BY <1>1, <1>3, <1>6, <2>1, <2>5 DEF Safe, Covered
  <2>6. CASE /\ Place(t, poll.since) > (poll.page - 1) * PageSize
             /\ Place(t, poll.since) <= poll.page * PageSize
    <3>1. Place(t, poll.since) \in ((poll.page - 1) * PageSize + 1)..(poll.page * PageSize)
      BY <2>3, <2>4, <2>6
    <3>2. t \in Ids(listed)
      BY <2>2, <3>1 DEF OnPage
    <3> QED BY <1>1, <1>3, <1>6, <2>1, <3>2 DEF Safe, Covered
  <2>7. CASE Place(t, poll.since) > poll.page * PageSize
    <3>1. (Place(t, poll.since) > (poll.page - 1) * PageSize)'
      BY <2>3, <2>4, <2>7
    <3> QED BY <1>1, <1>6, <2>1, <3>1 DEF Safe, Covered
  <2> QED BY <2>1, <2>3, <2>4, <2>5, <2>6, <2>7 DEF Safe, Covered
<1> QED BY <1>7, <1>8 DEF IntakeInv

LEMMA FetchKeeps ==
  ASSUME IntakeInv, FetchPage
  PROVE  IntakeInv'
<1> DEFINE page == OnPage(poll.since, poll.page)
           Listed(ids) == [i \in DOMAIN ids |-> [id |-> ids[i], at |-> updated[ids[i]]]]
<1>1. poll.pc = "list" /\ UNCHANGED <<freshdesk, rows, ckpt, exposed>>
  BY DEF FetchPage
<1>2. CASE Cardinality(UpdatedSince(poll.since)) <= (poll.page - 1) * PageSize
  BY <1>1, <1>2, LastPageKeeps DEF FetchPage
<1>3. CASE ~(Cardinality(UpdatedSince(poll.since)) <= (poll.page - 1) * PageSize)
  <2>1. PICK ids \in [1..Cardinality(page) -> page] :
          /\ \A t \in page : \E i \in DOMAIN ids : ids[i] = t
          /\ poll' = [poll EXCEPT !.page = poll.page + 1, !.todo = poll.todo \o Listed(ids)]
    BY <1>3 DEF FetchPage
  <2>2. page \subseteq Tickets /\ Cardinality(page) \in Nat
    <3>1. page \subseteq Tickets
      BY DEF OnPage, UpdatedSince
    <3> QED BY <3>1, TicketsFinite, FS_Subset, FS_CardinalityType
  <2>3. \A t \in Tickets : updated[t] \in Nat /\ updated[t] <= clock
    BY DEF IntakeInv, IntakeType
  <2>4. Listed(ids) \in Seq(Entries)
    <3>1. DOMAIN ids = 1..Cardinality(page)
      BY <2>1
    <3>2. \A i \in 1..Cardinality(page) : ids[i] \in Tickets /\ updated[ids[i]] \in Nat
      BY <2>1, <2>2, <2>3
    <3>3. \A i \in 1..Cardinality(page) : [id |-> ids[i], at |-> updated[ids[i]]] \in Entries
      BY <3>2 DEF Entries
    <3>4. Listed(ids) \in [1..Cardinality(page) -> Entries]
      BY <3>1, <3>3
    <3> QED BY <2>2, <3>4
  <2>5. /\ Len(Listed(ids)) = Cardinality(page)
        /\ \A i \in 1..Cardinality(page) : /\ ids[i] \in Tickets
                                           /\ Listed(ids)[i].id = ids[i]
                                           /\ Listed(ids)[i].at = updated[ids[i]]
    BY <2>1, <2>2
  <2>6. \A t \in page : t \in Ids(Listed(ids))
    BY <2>1, <2>5 DEF Ids
  <2>7. \A i \in 1..Len(Listed(ids)) : Listed(ids)[i].at <= clock
    BY <2>3, <2>5
  <2> HIDE DEF Listed, page
  <2> QED BY <1>1, <2>1, <2>4, <2>6, <2>7, NextPageKeeps DEF page
<1> QED BY <1>2, <1>3

(***************************************************************************)
(* The largest of a finite set of integers: of the sets of larger members, *)
(* which strict inclusion orders well, a minimal one is empty.             *)
(***************************************************************************)
LEMMA MaxIsLargest ==
  ASSUME NEW C, IsFiniteSet(C), C # {}, C \subseteq Int
  PROVE  Max(C) \in C /\ \A y \in C : Max(C) >= y
<1> DEFINE Above(x) == {c \in C : c > x}
           A == {Above(x) : x \in C}
<1>1. A \subseteq SUBSET C /\ A # {}
  OBVIOUS
<1>2. IsWellFoundedOn(StrictSubsetOrdering(C), SUBSET C)
  BY FS_StrictSubsetOrderingWellFounded, FS_FiniteSubsetsOfFinite
<1>3. PICK a \in A : \A b \in A : <<b, a>> \notin StrictSubsetOrdering(C)
  <2> HIDE DEF A
  <2> QED BY <1>1, <1>2, WFMin
<1>4. PICK x \in C : a = Above(x)
  BY <1>3
<1>5. ASSUME NEW y \in C, y > x PROVE FALSE
  <2>1. x \in Int /\ y \in Int /\ ~(y > y)
    OBVIOUS
  <2>2. Above(y) \subseteq Above(x)
    <3>1. \A c \in C : c \in Int
      OBVIOUS
    <3>2. \A c \in C : c > y => c > x
      BY <1>5, <2>1, <3>1
    <3> QED BY <3>2
  <2>3. y \in Above(x) /\ y \notin Above(y)
    BY <1>5, <2>1
  <2>4. <<Above(y), a>> \in StrictSubsetOrdering(C)
    BY <1>1, <1>4, <2>2, <2>3 DEF StrictSubsetOrdering
  <2> QED BY <1>3, <2>4
<1>6. \A y \in C : x >= y
  BY <1>5
<1> QED BY <1>6 DEF Max

LEMMA MaxOfTwo ==
  ASSUME NEW a \in Int, NEW b \in Int
  PROVE  Max({a, b}) \in {a, b} /\ Max({a, b}) >= a /\ Max({a, b}) >= b
<1>1. IsFiniteSet({a, b})
  <2>1. IsFiniteSet({a}) /\ {a, b} = {a} \cup {b}
    BY FS_Singleton
  <2> QED BY <2>1, FS_AddElement
<1> QED BY <1>1, MaxIsLargest

LEMMA ResolveIsCandidate ==
  ASSUME conv \in [Tickets -> Seq(Kinds)], NEW t \in Tickets, NEW whitelisted
  PROVE  /\ Resolve(t, whitelisted) \in Candidates(t, whitelisted) \cup {None}
         /\ Resolve(t, whitelisted) \in Nat
<1> DEFINE C == Candidates(t, whitelisted) \cup {None}
<1>1. Len(conv[t]) \in Nat /\ C \subseteq Nat /\ \A c \in C : c <= Len(conv[t])
  <2>1. Len(conv[t]) \in Nat
    OBVIOUS
  <2> QED BY <2>1 DEF Candidates, None
<1>2. IsFiniteSet(C) /\ C # {} /\ C \subseteq Int
  <2>1. C # {} /\ C \subseteq Int
    BY <1>1
  <2>2. IsFiniteSet(C)
    <3> HIDE DEF C
    <3> QED BY <1>1, FS_BoundedSetOfNaturals
  <2> QED BY <2>1, <2>2
<1>3. Max(C) \in C
  <2> HIDE DEF C
  <2> QED BY <1>2, MaxIsLargest
<1> QED BY <1>1, <1>3 DEF Resolve

\* The list without its first ticket.
LEMMA IdsOfTail ==
  ASSUME NEW todo \in Seq(Entries), todo # <<>>
  PROVE  /\ Tail(todo) \in Seq(Entries) /\ Head(todo) \in Entries
         /\ Ids(todo) \subseteq {Head(todo).id} \cup Ids(Tail(todo))
         /\ \A i \in 1..Len(Tail(todo)) : \E j \in 1..Len(todo) : Tail(todo)[i] = todo[j]
         /\ \E j \in 1..Len(todo) : Head(todo) = todo[j]
<1>1. /\ Len(todo) \in Nat /\ Len(todo) >= 1 /\ Len(Tail(todo)) = Len(todo) - 1
      /\ Head(todo) = todo[1] /\ Head(todo) \in Entries /\ Tail(todo) \in Seq(Entries)
      /\ \A i \in 1..Len(Tail(todo)) : Tail(todo)[i] = todo[i + 1]
  OBVIOUS
<1>2. ASSUME NEW i \in 1..Len(todo), i # 1
      PROVE  i - 1 \in 1..Len(Tail(todo)) /\ Tail(todo)[i - 1] = todo[i]
  <2>1. i - 1 \in 1..Len(Tail(todo)) /\ (i - 1) + 1 = i
    BY <1>1, <1>2
  <2> QED BY <1>1, <2>1
<1>3. \A i \in 1..Len(Tail(todo)) : i + 1 \in 1..Len(todo)
  BY <1>1
<1>4. 1 \in 1..Len(todo)
  BY <1>1
<1>5. Ids(todo) \subseteq {Head(todo).id} \cup Ids(Tail(todo))
  BY <1>1, <1>2 DEF Ids
<1> QED BY <1>1, <1>3, <1>4, <1>5

\* The first ticket of the list is resolved: it has nothing to queue, or its
\* message is now in hand.
LEMMA ResolveKeeps ==
  ASSUME IntakeInv, PollResolve
  PROVE  IntakeInv'
<1> DEFINE head == Head(poll.todo)
           new  == Max({poll.new, head.at})
           msg  == Resolve(head.id, PollerWhitelisted)
<1>1. /\ conv' = conv /\ updated' = updated /\ clock' = clock /\ exposed' = exposed
      /\ ckpt' = ckpt /\ rows' = rows
      /\ poll.pc = "work" /\ poll.todo # <<>>
      /\ IF msg = None THEN poll' = [poll EXCEPT !.new = new, !.todo = Tail(poll.todo)]
         ELSE poll' = [poll EXCEPT !.new = new, !.pc = "enqueue", !.msg = msg]
  BY DEF PollResolve, freshdesk
<1>2. poll \in PollType /\ poll.todo \in Seq(Entries) /\ poll.new \in Int /\ poll.new <= clock
  BY DEF IntakeInv, IntakeType, PollType
<1>3. /\ head \in Entries /\ Tail(poll.todo) \in Seq(Entries)
      /\ Ids(poll.todo) \subseteq {head.id} \cup Ids(Tail(poll.todo))
      /\ \A i \in 1..Len(Tail(poll.todo)) :
           \E j \in 1..Len(poll.todo) : Tail(poll.todo)[i] = poll.todo[j]
      /\ \E j \in 1..Len(poll.todo) : head = poll.todo[j]
  BY <1>1, <1>2, IdsOfTail
<1>4. head.id \in Tickets /\ head.at \in Int /\ head.at <= clock
  BY <1>3 DEF Entries, IntakeInv, IntakeType
<1>5. new \in {poll.new, head.at} /\ new \in Int /\ new <= clock
  <2>1. new \in {poll.new, head.at}
    BY <1>2, <1>4, MaxOfTwo
  <2> QED BY <1>2, <1>4, <2>1
<1>6. msg \in Nat
  BY <1>4, ResolveIsCandidate DEF IntakeInv, IntakeType
<1> HIDE DEF head, new, msg
<1>7. \A t \in Tickets : Due(t)' => Due(t) /\ Safe(t)
  BY <1>1, RowsOnlyHelp DEF IntakeInv
<1>8. \A t \in Tickets : Fresh(t) => updated[t] >= new
  BY <1>3, <1>5 DEF Fresh
<1>9. CASE msg = None
  <2>1. /\ poll' \in PollType /\ poll'.pc = "work" /\ poll'.since = poll.since
        /\ poll'.new = new /\ poll'.todo = Tail(poll.todo)
    BY <1>1, <1>2, <1>3, <1>5, <1>9 DEF PollType
  <2>2. \A i \in 1..Len(Tail(poll.todo)) : Tail(poll.todo)[i].at <= clock
    BY <1>3 DEF IntakeInv, IntakeType
  <2>3. IntakeType'
    BY <1>1, <1>5, <2>1, <2>2 DEF IntakeInv, IntakeType
  <2>4. ASSUME NEW t \in Tickets, Due(t)' PROVE Safe(t)'
    <3>1. t # head.id
      BY <1>7, <1>9, <2>4, UnqueuedResolves DEF Due, msg
    <3>2. t \in Ids(poll.todo) \/ Fresh(t)
      BY <1>1, <1>7, <2>4 DEF Safe, Covered
    <3>3. CASE t \in Ids(poll.todo)
      BY <1>1, <1>3, <1>7, <2>1, <2>4, <3>1, <3>3 DEF Safe, Covered
    <3>4. CASE Fresh(t)
      <4>1. Fresh(t)'
        BY <1>1, <1>3, <1>8, <2>1, <3>4 DEF Fresh
      <4> QED BY <1>1, <1>7, <2>1, <2>4, <4>1 DEF Safe, Covered
    <3> QED BY <3>2, <3>3, <3>4
  <2> QED BY <2>3, <2>4 DEF IntakeInv
<1>10. CASE msg # None
  <2>1. /\ poll' \in PollType /\ poll'.pc = "enqueue" /\ poll'.since = poll.since
        /\ poll'.new = new /\ poll'.todo = poll.todo /\ poll'.msg = msg
    BY <1>1, <1>2, <1>5, <1>6, <1>10 DEF PollType
  <2>2. IntakeType'
    BY <1>1, <1>5, <2>1 DEF IntakeInv, IntakeType
  <2>3. ASSUME NEW t \in Tickets, Due(t)' PROVE Safe(t)'
    <3>1. t \in Ids(poll.todo) \/ Fresh(t)
      BY <1>1, <1>7, <2>3 DEF Safe, Covered
    <3>2. CASE t \in Ids(Tail(poll.todo))
      BY <1>1, <1>7, <2>1, <2>3, <3>2 DEF Safe, Covered
    <3>3. CASE t = head.id
      <4>1. InHand(t)'
        BY <1>1, <2>1, <3>3 DEF InHand, msg, head, Resolve, Candidates
      <4> QED BY <1>1, <1>7, <2>1, <2>3, <4>1 DEF Safe, Covered
    <3>4. CASE Fresh(t)
      <4>1. Fresh(t)'
        BY <1>1, <1>8, <2>1, <3>4 DEF Fresh
      <4> QED BY <1>1, <1>7, <2>1, <2>3, <4>1 DEF Safe, Covered
    <3> QED BY <1>3, <3>1, <3>2, <3>3, <3>4
  <2> QED BY <2>2, <2>3 DEF IntakeInv
<1> QED BY <1>9, <1>10

\* The message in hand gets its row: its ticket is not due any more.
LEMMA EnqueueKeeps ==
  ASSUME IntakeInv, PollEnqueue
  PROVE  IntakeInv'
<1> DEFINE head == Head(poll.todo)
<1>1. /\ conv' = conv /\ updated' = updated /\ clock' = clock /\ exposed' = exposed
      /\ ckpt' = ckpt /\ rows \subseteq rows' /\ <<head.id, poll.msg>> \in rows'
      /\ poll.pc = "enqueue"
      /\ poll' = [poll EXCEPT !.pc = "work", !.todo = Tail(poll.todo), !.msg = None]
  BY DEF PollEnqueue, Enqueue, freshdesk
<1>2. poll \in PollType /\ poll.todo \in Seq(Entries) /\ poll.todo # <<>>
  BY <1>1 DEF IntakeInv, IntakeType, PollType
<1>3. /\ Tail(poll.todo) \in Seq(Entries)
      /\ \A i \in 1..Len(Tail(poll.todo)) :
           \E j \in 1..Len(poll.todo) : Tail(poll.todo)[i] = poll.todo[j]
  BY <1>2, IdsOfTail
<1>4. /\ poll' \in PollType /\ poll'.pc = "work" /\ poll'.since = poll.since
      /\ poll'.new = poll.new /\ poll'.todo = Tail(poll.todo)
  BY <1>1, <1>2, <1>3 DEF PollType, None
<1>5. \A i \in 1..Len(Tail(poll.todo)) : Tail(poll.todo)[i].at <= clock
  BY <1>3 DEF IntakeInv, IntakeType
<1>6. IntakeType'
  BY <1>1, <1>4, <1>5 DEF IntakeInv, IntakeType
<1>7. ASSUME NEW t \in Tickets, Due(t)' PROVE Safe(t)'
  <2>1. Due(t) /\ Safe(t)
    BY <1>1, <1>7, RowsOnlyHelp DEF IntakeInv
  <2>2. ~InHand(t)
    <3>1. Candidates(t, PollerWhitelisted)' = Candidates(t, PollerWhitelisted)
      BY <1>1 DEF Candidates
    <3>2. \E m \in Candidates(t, PollerWhitelisted) :
            (\A n \in Candidates(t, PollerWhitelisted) : n <= m) /\ <<t, m>> \notin rows'
      BY <1>7, <3>1 DEF Due, Unqueued
    <3>3. <<t, Resolve(t, PollerWhitelisted)>> \notin rows'
      BY <3>2, LatestResolves
    <3> QED BY <1>1, <3>3 DEF InHand
  <2>3. CASE t \in Ids(Tail(poll.todo))
    BY <1>1, <1>4, <2>1, <2>3 DEF Safe, Covered
  <2>4. CASE Fresh(t)
    <3>1. Fresh(t)'
      BY <1>1, <1>3, <1>4, <2>4 DEF Fresh
    <3> QED BY <1>1, <1>4, <2>1, <3>1 DEF Safe, Covered
  <2> QED BY <1>1, <2>1, <2>2, <2>3, <2>4 DEF Safe, Covered
<1> QED BY <1>6, <1>7 DEF IntakeInv

\* A ticket that enters the list takes a place after those before it.
LEMMA PlaceEntered ==
  ASSUME NEW since, NEW t \in Tickets, UpdatedSince(since) \subseteq UpdatedSince(since)',
         t \notin UpdatedSince(since), t \in UpdatedSince(since)'
  PROVE  Place(t, since)' >= Place(t, since) + 1
<1> DEFINE upto == {u \in UpdatedSince(since) : u <= t}
<1>1. IsFiniteSet(UpdatedSince(since)') /\ IsFiniteSet(UpdatedSince(since))
  BY TicketsFinite, FS_Subset DEF UpdatedSince
<1>2. IsFiniteSet(upto') /\ IsFiniteSet(upto)
  BY <1>1, FS_Subset
<1>3. upto \cup {t} \subseteq upto' /\ t \notin upto
  <2>1. t <= t
    BY TicketsFinite
  <2> QED BY <2>1
<1> HIDE DEF upto
<1>4. Cardinality(upto \cup {t}) = Cardinality(upto) + 1
  BY <1>2, <1>3, FS_AddElement
<1>5. Cardinality(upto \cup {t}) <= Cardinality(upto')
  BY <1>2, <1>3, FS_Subset
<1>6. Cardinality(upto) \in Nat /\ Cardinality(upto') \in Nat
  BY <1>2, FS_CardinalityType
<1> QED BY <1>4, <1>5, <1>6 DEF Place, upto

\* A ticket is updated: it is fresh, and the running scan will come to its page
\* unless it has been there.
LEMMA UpdateKeeps ==
  ASSUME IntakeInv, TicketUpdate
  PROVE  IntakeInv'
<1>1. PICK t \in Tickets, kind \in Kinds :
        /\ conv' = [conv EXCEPT ![t] = Append(conv[t], kind)]
        /\ clock' = clock + 1
        /\ updated' = [updated EXCEPT ![t] = clock + 1]
        /\ exposed' = IF BehindScan(t) THEN exposed \cup {t} ELSE exposed \ {t}
        /\ rows' = rows /\ ckpt' = ckpt /\ poll' = poll
  BY DEF TicketUpdate
<1>2. /\ conv \in [Tickets -> Seq(Kinds)] /\ updated \in [Tickets -> Nat]
      /\ clock \in Nat /\ ckpt \in Int /\ poll \in PollType
      /\ \A u \in Tickets : updated[u] <= clock
      /\ ckpt <= clock /\ poll.since <= clock /\ poll.new <= clock
      /\ \A i \in 1..Len(poll.todo) : poll.todo[i].at <= clock
  BY DEF IntakeInv, IntakeType
<1>3. poll.since \in Int /\ poll.new \in Int /\ poll.todo \in Seq(Entries) /\ poll.page \in Nat
  BY <1>2 DEF PollType
<1>4. \A i \in 1..Len(poll.todo) : poll.todo[i].at \in Int
  <2>1. \A i \in 1..Len(poll.todo) : poll.todo[i] \in Entries
    BY <1>3
  <2> QED BY <2>1 DEF Entries
<1>5. /\ updated'[t] = clock + 1 /\ conv'[t] # <<>> /\ clock + 1 \in Nat
      /\ \A u \in Tickets \ {t} : updated'[u] = updated[u] /\ conv'[u] = conv[u]
  <2>1. Append(conv[t], kind) # <<>>
    <3>1. conv[t] \in Seq(Kinds)
      BY <1>2
    <3>2. Len(Append(conv[t], kind)) = Len(conv[t]) + 1 /\ Len(conv[t]) \in Nat
      BY <3>1
    <3> QED BY <3>2
  <2> QED BY <1>1, <1>2, <2>1
<1>6. IntakeType'
  <2>1. conv' \in [Tickets -> Seq(Kinds)] /\ updated' \in [Tickets -> Nat]
    BY <1>1, <1>2
  <2>2. \A u \in Tickets : updated'[u] <= clock'
    BY <1>1, <1>2, <1>5
  <2>3. \A i \in 1..Len(poll.todo) : poll.todo[i].at <= clock + 1
    BY <1>2, <1>4
  <2>4. ckpt <= clock + 1 /\ poll.since <= clock + 1 /\ poll.new <= clock + 1 /\ clock + 1 \in Nat
    BY <1>2, <1>3
  <2> QED BY <1>1, <1>2, <2>1, <2>2, <2>3, <2>4 DEF IntakeInv, IntakeType
<1>7. PICK since \in Int : since = poll.since
  BY <1>3
<1>8. UpdatedSince(since) \subseteq UpdatedSince(since)' /\ t \in UpdatedSince(since)'
  BY <1>2, <1>5, <1>7 DEF UpdatedSince
<1>9. /\ (poll.page - 1) * PageSize \in Int
      /\ \A u : /\ Place(u, since) \in Nat /\ Place(u, since)' \in Nat
                /\ Place(u, since) <= Place(u, since)'
  BY <1>3, <1>8, IntakeAssumption, PlaceGrows
<1>10. ASSUME NEW u \in Tickets \ {t}, Due(u)' PROVE Safe(u)'
  <2>1. Due(u) /\ Safe(u)
    BY <1>1, <1>5, <1>10 DEF IntakeInv, Due, Unqueued, Candidates
  <2>2. Fresh(u) => Fresh(u)'
    BY <1>1, <1>5 DEF Fresh
  <2>3. InHand(u) => InHand(u)'
    BY <1>1, <1>5 DEF InHand, Resolve, Candidates
  <2>4. poll.pc = "list" => u \in Ids(poll.todo) \/ Place(u, since)' > (poll.page - 1) * PageSize
    BY <1>7, <1>9, <2>1 DEF Safe, Covered
  <2>5. Place(u, poll.since)' = Place(u, since)'
    BY <1>1, <1>7 DEF Place, UpdatedSince
  <2> QED BY <1>1, <1>5, <2>1, <2>2, <2>3, <2>4, <2>5 DEF Safe, Covered
<1>11. ASSUME Due(t)' PROVE Safe(t)'
  <2>1. ~BehindScan(t)
    BY <1>1, <1>11 DEF Due
  <2>2. Fresh(t)'
    BY <1>1, <1>2, <1>3, <1>4, <1>5 DEF Fresh
  <2>3. updated'[t] >= ckpt /\ updated'[t] >= poll.since
    BY <1>2, <1>3, <1>5
  <2>4. poll.pc = "list" => t \in Ids(poll.todo) \/ Place(t, since)' > (poll.page - 1) * PageSize
    <3>1. SUFFICES ASSUME poll.pc = "list", t \notin Ids(poll.todo)
                   PROVE  Place(t, since)' > (poll.page - 1) * PageSize
      OBVIOUS
    <3>2. ~(Place(t, since) + (IF t \in UpdatedSince(since) THEN 0 ELSE 1)
              <= (poll.page - 1) * PageSize)
      BY <1>7, <2>1, <3>1 DEF BehindScan, Ids
    <3>3. CASE t \in UpdatedSince(since)
      BY <1>9, <3>2, <3>3
    <3>4. CASE t \notin UpdatedSince(since)
      <4>1. Place(t, since)' >= Place(t, since) + 1
        BY <1>8, <3>4, PlaceEntered
      <4> QED BY <1>9, <3>2, <3>4, <4>1
    <3> QED BY <3>3, <3>4
  <2>5. Place(t, poll.since)' = Place(t, since)'
    BY <1>1, <1>7 DEF Place, UpdatedSince
  <2> QED BY <1>1, <2>2, <2>3, <2>4, <2>5 DEF Safe, Covered
<1> QED BY <1>6, <1>10, <1>11 DEF IntakeInv

(***************************************************************************)
(* The process.                                                            *)
(***************************************************************************)
LEMMA InitInv ==
  ASSUME Init
  PROVE  IntakeInv
<1>1. /\ conv = [t \in Tickets |-> <<>>] /\ updated = [t \in Tickets |-> 0] /\ clock = 0
      /\ ckpt = -SeedLead /\ poll = PollerOff
  BY DEF Init, IntakeInit
<1>2. poll \in PollType /\ poll.pc = "off" /\ poll.since = 0 /\ poll.new = 0 /\ poll.todo = <<>>
  <2>1. PollerOff = [PollerOff EXCEPT !.pc = "off"]
    BY DEF PollerOff
  <2>2. PollerOff \in PollType
    BY <2>1, LocalsAreTyped
  <2> QED BY <1>1, <2>2 DEF PollerOff
<1>3. -SeedLead \in Int /\ -SeedLead <= 0
  BY IntakeAssumption
<1>4. conv \in [Tickets -> Seq(Kinds)] /\ updated \in [Tickets -> Nat]
  <2>1. <<>> \in Seq(Kinds)
    OBVIOUS
  <2> QED BY <1>1, <2>1
<1>5. IntakeType
  BY <1>1, <1>2, <1>3, <1>4 DEF IntakeType
<1>6. \A t \in Tickets : ~Due(t)
  <2>1. ASSUME NEW t \in Tickets, Unqueued(t) PROVE FALSE
    BY <1>1, <2>1, UnqueuedResolves
  <2> QED BY <2>1 DEF Due
<1> QED BY <1>5, <1>6 DEF IntakeInv

\* The steps of main() change the intake only by starting or ending the poller.
LEMMA MainKeeps ==
  ASSUME IntakeInv, Main
  PROVE  IntakeInv'
<1>1. CASE Start
  BY <1>1, ResetKeeps DEF Start
<1>2. CASE Signal
  BY <1>2, ResetKeeps DEF Signal, CancelAll
<1>3. CASE ShutDown
  BY <1>3, ResetKeeps DEF ShutDown, CancelAll
<1>4. CASE ClosePool
  BY <1>4, QuietKeeps DEF ClosePool, intakeVars, intakeState
<1>5. CASE CloseClient
  BY <1>5, QuietKeeps DEF CloseClient
<1>6. CASE Crash
  BY <1>6, ResetKeeps DEF Crash
<1> QED BY <1>1, <1>2, <1>3, <1>4, <1>5, <1>6 DEF Main

LEMMA TasksKeep ==
  ASSUME IntakeInv, Fate \/ Hook
  PROVE  IntakeInv'
<1>1. ASSUME NEW k \in Tasks, TaskCancelled(k) \/ TaskFails(k) \/ SchedulerFails(k)
      PROVE  rows \subseteq rows' /\ UNCHANGED <<freshdesk, ckpt, poll, exposed>>
  <2>1. CASE TaskCancelled(k)
    BY <2>1 DEF TaskCancelled, intakeVars, intakeState
  <2>2. CASE TaskFails(k)
    BY <2>2 DEF TaskFails, intakeState
  <2>3. CASE SchedulerFails(k)
    BY <2>3 DEF SchedulerFails
  <2> QED BY <1>1, <2>1, <2>2, <2>3
<1>2. ASSUME NEW h \in Handlers, HookArrives(h) \/ HookRuns(h)
      PROVE  rows \subseteq rows' /\ UNCHANGED <<freshdesk, ckpt, poll, exposed>>
  <2>1. CASE HookResolve(h)
    BY <2>1 DEF HookResolve
  <2>2. CASE HookEnqueue(h)
    BY <2>2 DEF HookEnqueue, Enqueue
  <2>3. CASE HookFails(h)
    BY <2>3 DEF HookFails, Enqueue
  <2> QED BY <1>2, <2>1, <2>2, <2>3 DEF HookArrives, HookRuns
<1> QED BY <1>1, <1>2, QuietKeeps DEF Fate, Hook

LEMMA PollKeeps ==
  ASSUME IntakeInv, Poll
  PROVE  IntakeInv'
<1>1. CASE PollerLoads
  BY <1>1, LoadKeeps DEF PollerLoads
<1>2. CASE PollerDies
  BY <1>2, ResetKeeps DEF PollerDies
<1>3. CASE PollerRuns
  BY <1>3, FetchKeeps, ResolveKeeps, EnqueueKeeps, SaveKeeps DEF PollerRuns, PollerStep
<1>4. CASE PollerFails
  BY <1>4, ErrorKeeps DEF PollerFails
<1> QED BY <1>1, <1>2, <1>3, <1>4 DEF Poll

LEMMA StepKeeps ==
  ASSUME IntakeInv, [Next]_vars
  PROVE  IntakeInv'
<1>1. CASE UNCHANGED vars
  BY <1>1, QuietKeeps DEF vars, intakeVars, intakeState
<1>2. CASE World
  BY <1>2, UpdateKeeps DEF World
<1> QED BY <1>1, <1>2, MainKeeps, TasksKeep, PollKeeps DEF Next

(***************************************************************************)
(* Whatever fails, races or restarts, a ticket whose latest customer       *)
(* message is not in the queue will be listed again: neither the since of  *)
(* the running poller nor the checkpoint has passed it (reconcile.py:9-12, *)
(* save_checkpoint only after the loop).  For any tickets, page size,      *)
(* overlap and number of faults; the tickets excepted are those updated    *)
(* between two pages of a scan, behind it.                                 *)
(***************************************************************************)
THEOREM NoTicketIsForgotten == Spec => []NothingForgotten
<1>1. Init => IntakeInv
  BY InitInv
<1>2. IntakeInv /\ [Next]_vars => IntakeInv'
  BY StepKeeps
<1>3. IntakeInv => NothingForgotten
  BY DEF IntakeInv, NothingForgotten, Due, Safe
<1> QED BY <1>1, <1>2, <1>3, PTL DEF Spec

(***************************************************************************)
(* What is queued, or in hand to be, passed the guard.                     *)
(***************************************************************************)
Passing(t, m, whitelisted) == t \in Tickets /\ m \in Candidates(t, whitelisted)

InPoller(t, m) == poll.pc = "enqueue" /\ t = Head(poll.todo).id /\ m = poll.msg
InHook(h, t, m) == req[h].pc = "enqueue" /\ t = req[h].ticket /\ m = req[h].msg

RowsInv ==
  /\ DOMAIN req = Handlers
  /\ \A r \in rows : Passing(r[1], r[2], HookWhitelisted /\ PollerWhitelisted)
  /\ \A t, m : InPoller(t, m) => Passing(t, m, PollerWhitelisted)
  /\ \A h \in Handlers : \A t, m : InHook(h, t, m) => Passing(t, m, HookWhitelisted)

LEMMA ResolvePasses ==
  ASSUME conv \in [Tickets -> Seq(Kinds)], NEW t \in Tickets, NEW whitelisted \in BOOLEAN,
         Resolve(t, whitelisted) # None
  PROVE  Passing(t, Resolve(t, whitelisted), whitelisted)
  BY ResolveIsCandidate DEF Passing

\* A shorter whitelist lets pass what a longer one does.
LEMMA PassesBoth ==
  ASSUME NEW t, NEW m,
         Passing(t, m, HookWhitelisted) \/ Passing(t, m, PollerWhitelisted)
  PROVE  Passing(t, m, HookWhitelisted /\ PollerWhitelisted)
  BY DEF Passing, Candidates, should_suppress, is_selless_sync

\* Conversations are only added.
LEMMA PassingStay ==
  ASSUME conv \in [Tickets -> Seq(Kinds)], TicketUpdate \/ conv' = conv,
         NEW t, NEW m, NEW whitelisted \in BOOLEAN, Passing(t, m, whitelisted)
  PROVE  t \in Tickets /\ m \in 1..Len(conv'[t]) /\ ~should_suppress(Seen(conv'[t][m]), whitelisted)
<1>1. t \in Tickets /\ m \in 1..Len(conv[t]) /\ ~should_suppress(Seen(conv[t][m]), whitelisted)
  BY DEF Passing, Candidates
<1>2. CASE conv' = conv
  BY <1>1, <1>2
<1>3. CASE TicketUpdate
  <2>1. PICK u \in Tickets, kind \in Kinds : conv' = [conv EXCEPT ![u] = Append(conv[u], kind)]
    BY <1>3 DEF TicketUpdate
  <2>2. m \in 1..Len(conv'[t]) /\ conv'[t][m] = conv[t][m]
    <3>1. CASE t = u
      <4>1. conv[u] \in Seq(Kinds) /\ conv'[u] = Append(conv[u], kind)
        BY <2>1
      <4> QED BY <1>1, <3>1, <4>1
    <3>2. CASE t # u
      BY <1>1, <2>1, <3>2
    <3> QED BY <3>1, <3>2
  <2> QED BY <1>1, <2>2
<1> QED BY <1>2, <1>3

\* The rows of a step were there or in hand.
InHands(r) == \/ r \in rows
              \/ \E t, m : InPoller(t, m) /\ r = <<t, m>>
              \/ \E h \in Handlers : \E t, m : InHook(h, t, m) /\ r = <<t, m>>

\* What a step has in hand was in hand, or is resolved in it.
StepShape ==
  /\ TicketUpdate \/ conv' = conv
  /\ \A r \in rows' : InHands(r)
  /\ \/ PollResolve \/ poll' = poll \/ poll'.pc # "enqueue"
  /\ \/ req' = req
     \/ req' = [h \in Handlers |-> Idle]
     \/ \E h \in Handlers : req' = [req EXCEPT ![h] = Idle] \/ HookResolve(h)

LEMMA EveryStepHasShape ==
  ASSUME IntakeInv, [Next]_vars
  PROVE  StepShape
<1>1. CASE UNCHANGED vars
  BY <1>1 DEF vars, intakeVars, intakeState, freshdesk, StepShape, InHands
<1>2. CASE World
  BY <1>2 DEF World, TicketUpdate, StepShape, InHands
<1>3. CASE Main
  <2>1. /\ conv' = conv /\ rows' = rows /\ (poll' = poll \/ poll' = PollerOff \/ poll' = PollerNew)
        /\ (req' = req \/ req' = [h \in Handlers |-> Idle])
    BY <1>3 DEF Main, Start, Signal, ShutDown, ClosePool, CloseClient, Crash, CancelAll,
                freshdesk, intakeVars, intakeState
  <2> QED BY <2>1 DEF StepShape, InHands, PollerOff, PollerNew
<1>4. CASE Fate
  <2>1. conv' = conv /\ rows' = rows /\ poll' = poll /\ req' = req
    BY <1>4 DEF Fate, TaskCancelled, TaskFails, SchedulerFails, freshdesk, intakeVars, intakeState
  <2> QED BY <2>1 DEF StepShape, InHands
<1>5. CASE Hook
  <2>1. PICK h \in Handlers : HookResolve(h) \/ HookEnqueue(h) \/ HookFails(h)
    BY <1>5 DEF Hook, HookArrives, HookRuns
  <2>2. CASE HookResolve(h)
    BY <2>2 DEF HookResolve, freshdesk, StepShape, InHands
  <2>3. CASE HookEnqueue(h) \/ HookFails(h)
    <3>1. /\ req[h].pc = "enqueue" /\ req' = [req EXCEPT ![h] = Idle]
          /\ rows' = rows \/ rows' = rows \cup {<<req[h].ticket, req[h].msg>>}
          /\ conv' = conv /\ poll' = poll
      BY <2>3 DEF HookEnqueue, HookFails, Enqueue, freshdesk
    <3> QED BY <3>1 DEF StepShape, InHands, InHook
  <2> QED BY <2>1, <2>2, <2>3
<1>6. CASE PollerLoads \/ PollerDies
  <2>1. /\ conv' = conv /\ rows' = rows /\ req' = req
        /\ poll' = Scan(ckpt - Overlap) \/ poll' = PollerOff
    BY <1>6 DEF PollerLoads, LoadCheckpoint, PollerDies, freshdesk
  <2>2. poll'.pc # "enqueue"
    <3>1. PollerOff.pc = "off" /\ \A since : Scan(since).pc = "list"
      BY DEF Scan, PollerOff
    <3> HIDE DEF Scan, PollerOff
    <3> QED BY <2>1, <3>1
  <2> QED BY <2>1, <2>2 DEF StepShape, InHands
<1>7. CASE PollerFails
  <2>1. /\ conv' = conv /\ req' = req /\ poll'.pc = "list"
        /\ \/ rows' = rows
           \/ poll.pc = "enqueue" /\ rows' = rows \cup {<<Head(poll.todo).id, poll.msg>>}
    BY <1>7 DEF PollerFails, ReconcileFails, AfterError, Scan, PollerOff, Enqueue, freshdesk
  <2> QED BY <2>1 DEF StepShape, InHands, InPoller
<1>8. CASE PollerRuns
  <2>1. conv' = conv /\ req' = req
    BY <1>8 DEF PollerRuns, PollerStep, FetchPage, PollResolve, PollEnqueue, SaveCheckpoint, freshdesk
  <2>2. CASE PollResolve
    BY <2>1, <2>2 DEF PollResolve, StepShape, InHands
  <2>3. CASE FetchPage \/ SaveCheckpoint
    <3>1. rows' = rows /\ (poll'.pc = "work" \/ poll'.pc = "list")
      <4>1. CASE FetchPage
        <5>1. poll \in PollType
          BY DEF IntakeInv, IntakeType
        <5>2. /\ rows' = rows /\ poll.pc = "list"
              /\ \/ poll' = [poll EXCEPT !.pc = "work"]
                 \/ \E todo : poll' = [poll EXCEPT !.page = poll.page + 1, !.todo = todo]
          BY <4>1 DEF FetchPage
        <5> QED BY <5>1, <5>2 DEF PollType
      <4>2. CASE SaveCheckpoint
        BY <4>2 DEF SaveCheckpoint, Scan, PollerOff
      <4> QED BY <2>3, <4>1, <4>2
    <3> QED BY <2>1, <3>1 DEF StepShape, InHands
  <2>4. CASE PollEnqueue
    <3>1. /\ poll.pc = "enqueue" /\ rows' = rows \cup {<<Head(poll.todo).id, poll.msg>>}
          /\ poll'.pc # "enqueue"
      BY <2>4 DEF PollEnqueue, Enqueue
    <3> QED BY <2>1, <3>1 DEF StepShape, InHands, InPoller
  <2> QED BY <1>8, <2>2, <2>3, <2>4 DEF PollerRuns, PollerStep
<1> QED BY <1>1, <1>2, <1>3, <1>4, <1>5, <1>6, <1>7, <1>8 DEF Next, Poll

LEMMA RowsInvKeeps ==
  ASSUME IntakeInv, RowsInv, [Next]_vars
  PROVE  RowsInv'
<1>1. StepShape
  BY EveryStepHasShape
<1>2. /\ conv \in [Tickets -> Seq(Kinds)] /\ poll \in PollType
      /\ {HookWhitelisted, PollerWhitelisted} \subseteq BOOLEAN
  BY IntakeAssumption DEF IntakeInv, IntakeType
<1>3. \A t, m : \A w \in BOOLEAN : Passing(t, m, w) =>
        t \in Tickets /\ m \in 1..Len(conv'[t]) /\ ~should_suppress(Seen(conv'[t][m]), w)
  BY <1>1, <1>2, PassingStay DEF StepShape
<1> DEFINE Both == HookWhitelisted /\ PollerWhitelisted
<1>3a. /\ \A t, m : Passing(t, m, Both) => Passing(t, m, Both)'
       /\ \A t, m : Passing(t, m, HookWhitelisted) => Passing(t, m, HookWhitelisted)'
       /\ \A t, m : Passing(t, m, PollerWhitelisted) => Passing(t, m, PollerWhitelisted)'
  BY <1>2, <1>3 DEF Passing, Candidates
<1>4. ASSUME NEW r \in rows' PROVE Passing(r[1], r[2], Both)'
  <2>1. InHands(r)
    BY <1>1 DEF StepShape
  <2>2. CASE r \in rows
    BY <1>3a, <2>2 DEF RowsInv
  <2>3. ASSUME NEW t, NEW m, r = <<t, m>>,
               Passing(t, m, HookWhitelisted) \/ Passing(t, m, PollerWhitelisted)
        PROVE  Passing(r[1], r[2], Both)'
    BY <1>3a, <2>3, PassesBoth
  <2> QED BY <2>1, <2>2, <2>3 DEF InHands, RowsInv
<1>5. ASSUME NEW t, NEW m, InPoller(t, m)' PROVE Passing(t, m, PollerWhitelisted)'
  <2>1. CASE PollResolve
    <3>1. /\ poll.pc = "work" /\ poll.todo # <<>>
          /\ LET head == Head(poll.todo) msg == Resolve(head.id, PollerWhitelisted)
             IN \/ poll' = [poll EXCEPT !.new = Max({@, head.at}), !.todo = Tail(@)]
                \/ /\ msg # None
                   /\ poll' = [poll EXCEPT !.new = Max({@, head.at}), !.pc = "enqueue",
                                           !.msg = msg]
      BY <2>1 DEF PollResolve
    <3>2. poll.todo \in Seq(Entries) /\ Head(poll.todo).id \in Tickets
      <4>1. poll.todo \in Seq(Entries)
        BY <1>2 DEF PollType
      <4> QED BY <3>1, <4>1, IdsOfTail DEF Entries
    <3>3. Resolve(t, PollerWhitelisted) # None /\ m = Resolve(t, PollerWhitelisted) /\ t \in Tickets
      <4>1. poll'.pc = "enqueue" /\ t = Head(poll'.todo).id /\ m = poll'.msg
        BY <1>5 DEF InPoller
      <4> QED BY <1>2, <3>1, <3>2, <4>1 DEF PollType
    <3> QED BY <1>2, <1>3a, <3>3, ResolvePasses
  <2>2. CASE poll' = poll
    BY <1>3a, <1>5, <2>2 DEF InPoller, RowsInv
  <2>3. CASE poll'.pc # "enqueue"
    BY <1>5, <2>3 DEF InPoller
  <2> QED BY <1>1, <2>1, <2>2, <2>3 DEF StepShape
<1>6. DOMAIN req' = Handlers
  BY <1>1 DEF StepShape, RowsInv, HookResolve
<1>7. ASSUME NEW h \in Handlers, NEW t, NEW m, InHook(h, t, m)' PROVE Passing(t, m, HookWhitelisted)'
  <2>1. req'[h].pc = "enqueue" /\ t = req'[h].ticket /\ m = req'[h].msg /\ h \in DOMAIN req
    BY <1>7 DEF InHook, RowsInv
  <2>2. CASE req'[h] = req[h]
    BY <1>3a, <2>1, <2>2 DEF InHook, RowsInv
  <2>3. CASE req'[h] = Idle
    BY <2>1, <2>3 DEF Idle
  <2>4. CASE HookResolve(h)
    <3>1. PICK u \in Tickets :
            /\ Resolve(u, HookWhitelisted) # None
            /\ req' = [req EXCEPT ![h] = [pc |-> "enqueue", ticket |-> u,
                                          msg |-> Resolve(u, HookWhitelisted)]]
      BY <2>4 DEF HookResolve
    <3>2. t = u /\ m = Resolve(u, HookWhitelisted)
      BY <2>1, <3>1
    <3> QED BY <1>2, <1>3a, <3>1, <3>2, ResolvePasses
  <2>5. \/ req'[h] = req[h] \/ req'[h] = Idle \/ HookResolve(h)
    <3>1. ASSUME NEW g \in Handlers, HookResolve(g), g # h PROVE req'[h] = req[h]
      BY <2>1, <3>1 DEF HookResolve
    <3>2. ASSUME NEW g \in Handlers, req' = [req EXCEPT ![g] = Idle]
          PROVE  req'[h] = req[h] \/ req'[h] = Idle
      BY <2>1, <3>2
    <3> QED BY <1>1, <3>1, <3>2 DEF StepShape
  <2> QED BY <2>2, <2>3, <2>4, <2>5
<1> QED BY <1>4, <1>5, <1>6, <1>7 DEF RowsInv

(***************************************************************************)
(* Whatever the two intakes queue, in whatever order their awaits fall,    *)
(* passed every layer of the guard under the whitelist of the intake: not  *)
(* the sentinel of a ticket without a customer's message, nor an agent's   *)
(* or an automatic message (resolve_latest_inbound_msg_id,                 *)
(* reconcile.py:87-130).                                                   *)
(***************************************************************************)
THEOREM OnlyPassingAreQueued == Spec => []RowsPassTheGuard
<1>1. Init => IntakeInv /\ RowsInv
  BY InitInv DEF Init, IntakeInit, RowsInv, InPoller, InHook, PollerOff, Idle
<1>2. IntakeInv /\ RowsInv /\ [Next]_vars => (IntakeInv /\ RowsInv)'
  BY StepKeeps, RowsInvKeeps
<1>3. IntakeInv /\ RowsInv => RowsPassTheGuard
  BY DEF RowsInv, RowsPassTheGuard, Passing, InPoller, InHook
<1> QED BY <1>1, <1>2, <1>3, PTL DEF Spec

(***************************************************************************)
(* The pool is open until the last task is gone.                           *)
(***************************************************************************)
PoolInv ==
  /\ DOMAIN task = Tasks
  /\ proc \in {"closed", "down"} => Ended = Tasks
  /\ pool = "closed" => proc \in {"closed", "down"}

\* A task that has ended stays so until the next start.
LEMMA EndedStays ==
  ASSUME PoolInv, NEW k \in Tasks, End(k)
  PROVE  DOMAIN task' = Tasks /\ Ended \subseteq Ended'
  BY DEF PoolInv, End, Ended

LEMMA PoolInvKeeps ==
  ASSUME PoolInv, [Next]_vars
  PROVE  PoolInv'
<1>1. CASE UNCHANGED superVars
  BY <1>1 DEF superVars, PoolInv, Ended
<1>2. CASE Start
  BY <1>2 DEF Start, PoolInv
<1>3. CASE Signal \/ ShutDown
  <2>1. proc = "running" /\ pool' = pool /\ proc' \in {"running", "closing"} /\ DOMAIN task' = Tasks
    BY <1>3 DEF Signal, ShutDown, SomeCompleted, CancelAll
  <2> QED BY <2>1 DEF PoolInv
<1>4. CASE ClosePool
  BY <1>4 DEF ClosePool, Gathered, PoolInv, Ended
<1>5. CASE CloseClient
  BY <1>5 DEF CloseClient, PoolInv, Ended
<1>6. CASE Crash
  BY <1>6 DEF Crash, PoolInv, Ended
<1>7. ASSUME NEW k \in Tasks, End(k), UNCHANGED <<proc, pool>> PROVE PoolInv'
  <2>1. DOMAIN task' = Tasks /\ Ended \subseteq Ended' /\ Ended' \subseteq Tasks
    BY <1>7, EndedStays DEF Ended
  <2> QED BY <1>7, <2>1 DEF PoolInv
<1>8. Next => \/ Main \/ UNCHANGED superVars
              \/ \E k \in Tasks : End(k) /\ UNCHANGED <<proc, pool>>
  BY DEF Next, Fate, Poll, Hook, World, TaskCancelled, TaskFails, SchedulerFails, PollerLoads,
         PollerDies, PollerRuns, PollerFails, HookArrives, HookRuns, superVars, Tasks
<1> QED BY <1>1, <1>2, <1>3, <1>4, <1>5, <1>6, <1>7, <1>8 DEF Main, vars

(***************************************************************************)
(* The pool is closed only when no task is left that could borrow a        *)
(* connection (main.py:166-171), however the shutdown began.               *)
(***************************************************************************)
THEOREM PoolIsClosedLast == Spec => []PoolOutlivesTasks
<1>1. Init => PoolInv
  BY DEF Init, PoolInv, Ended
<1>2. PoolInv /\ [Next]_vars => PoolInv'
  BY PoolInvKeeps
<1>3. PoolInv => PoolOutlivesTasks
  BY DEF PoolInv, PoolOutlivesTasks
<1> QED BY <1>1, <1>2, <1>3, PTL DEF Spec

(***************************************************************************)
(* Types, and what ends the poller.                                        *)
(***************************************************************************)
Phases == {"down", "running", "closing", "closed"}
Fates  == {"running", "cancelling", "ended"}

ProcType ==
  /\ proc \in Phases /\ task \in [Tasks -> Fates] /\ pool \in {"open", "closed"}
  /\ poll.pc = "off" <=> task["poller"] # "running"
  /\ \A h \in Handlers : req[h].pc \in {"idle", "enqueue"}
  /\ rows \subseteq Tickets \X Nat
  /\ exposed \subseteq Tickets
  /\ faults \in 0..MaxFaults

LEMMA FaultsBounded ==
  ASSUME faults \in 0..MaxFaults, [Next]_vars
  PROVE  faults' \in 0..MaxFaults
<1>1. MaxFaults \in Nat
  BY IntakeAssumption
<1>2. CASE Fault
  BY <1>1, <1>2 DEF Fault
<1>3. faults' = faults \/ Fault
  <2>1. CASE Main
    BY <2>1 DEF Main, Start, Signal, ShutDown, ClosePool, CloseClient, Crash, Incident,
                intakeVars
  <2>2. CASE Fate
    BY <2>2 DEF Fate, TaskCancelled, TaskFails, SchedulerFails, Incident, intakeVars
  <2>3. CASE Poll
    BY <2>3 DEF Poll, PollerLoads, LoadCheckpoint, PollerDies, PollerRuns, PollerFails,
                PollerStep, FetchPage, PollResolve, PollEnqueue, SaveCheckpoint,
                ReconcileFails, Incident
  <2>4. CASE Hook
    BY <2>4 DEF Hook, HookArrives, HookRuns, HookResolve, HookEnqueue, HookFails
  <2>5. CASE World
    BY <2>5 DEF World, TicketUpdate
  <2>6. CASE UNCHANGED vars
    BY <2>6 DEF vars, intakeVars
  <2> QED BY <2>1, <2>2, <2>3, <2>4, <2>5, <2>6 DEF Next
<1> QED BY <1>2, <1>3

\* The locals of the poller say "off" exactly while its task does not run.
LEMMA PollerInStep ==
  ASSUME IntakeInv, ProcType, [Next]_vars
  PROVE  /\ proc' \in Phases /\ task' \in [Tasks -> Fates] /\ pool' \in {"open", "closed"}
         /\ poll'.pc = "off" <=> task'["poller"] # "running"
<1> DEFINE Goal == /\ proc' \in Phases /\ task' \in [Tasks -> Fates]
                   /\ pool' \in {"open", "closed"}
                   /\ poll'.pc = "off" <=> task'["poller"] # "running"
<1>0. /\ "poller" \in Tasks /\ "webhook" \in Tasks /\ "worker" \in Tasks
      /\ PollerOff.pc = "off" /\ PollerNew.pc = "load"
      /\ \A since : Scan(since).pc = "list"
  BY DEF Tasks, PollerOff, PollerNew, Scan
<1> USE DEF ProcType, Phases, Fates
<1>1. CASE UNCHANGED <<poll, superVars>>
  BY <1>1 DEF superVars
<1>2. CASE Start
  BY <1>0, <1>2 DEF Start
<1>3. CASE Signal \/ ShutDown
  <2>1. /\ CancelAll /\ proc' \in Phases /\ pool' = pool
    BY <1>3 DEF Signal, ShutDown
  <2>2. task' \in [Tasks -> Fates] /\ task'["poller"] # "running" /\ poll' = PollerOff
    BY <1>0, <2>1 DEF CancelAll
  <2> QED BY <1>0, <2>1, <2>2
<1>4. CASE ClosePool \/ CloseClient
  BY <1>4 DEF ClosePool, CloseClient, intakeVars, intakeState
<1>5. CASE Crash
  BY <1>0, <1>5 DEF Crash
<1>6. CASE Fate
  <2>1. PICK k \in Tasks : TaskCancelled(k) \/ TaskFails(k) \/ SchedulerFails(k)
    BY <1>6 DEF Fate
  <2>2. CASE SchedulerFails(k)
    BY <2>2 DEF SchedulerFails, superVars
  <2>3. CASE TaskCancelled(k)
    <3>1. /\ task[k] = "cancelling" /\ task' = [task EXCEPT ![k] = "ended"]
          /\ poll' = poll /\ proc' = proc /\ pool' = pool
      BY <2>3 DEF TaskCancelled, End, intakeVars, intakeState
    <3> QED BY <1>0, <3>1
  <2>4. CASE TaskFails(k)
    <3>1. /\ k \in {"webhook", "worker"} /\ task' = [task EXCEPT ![k] = "ended"]
          /\ poll' = poll /\ proc' = proc /\ pool' = pool
      BY <2>4 DEF TaskFails, End, intakeState
    <3> QED BY <1>0, <3>1
  <2> QED BY <2>1, <2>2, <2>3, <2>4
<1>7. CASE PollerLoads
  BY <1>0, <1>7 DEF PollerLoads, LoadCheckpoint, superVars
<1>8. CASE PollerDies
  <2>1. /\ task' = [task EXCEPT !["poller"] = "ended"] /\ poll' = PollerOff
        /\ proc' = proc /\ pool' = pool
    BY <1>8 DEF PollerDies, End
  <2> QED BY <1>0, <2>1
<1>9. CASE PollerRuns \/ PollerFails
  <2>1. UNCHANGED superVars /\ task["poller"] = "running"
    BY <1>9 DEF PollerRuns, PollerFails, Running, superVars
  <2>2. poll'.pc # "off"
    <3>1. poll \in PollType
      BY DEF IntakeInv, IntakeType
    <3>2. CASE SaveCheckpoint \/ ReconcileFails
      BY <1>0, <3>2 DEF SaveCheckpoint, ReconcileFails, AfterError
    <3>3. CASE FetchPage
      <4>1. /\ poll.pc = "list"
            /\ \/ poll' = [poll EXCEPT !.pc = "work"]
               \/ \E todo : poll' = [poll EXCEPT !.page = poll.page + 1, !.todo = todo]
        BY <3>3 DEF FetchPage
      <4> QED BY <3>1, <4>1 DEF PollType
    <3>4. CASE PollResolve
      <4>1. /\ poll.pc = "work"
            /\ \E new, todo, msg :
                 \/ poll' = [poll EXCEPT !.new = new, !.todo = todo]
                 \/ poll' = [poll EXCEPT !.new = new, !.pc = "enqueue", !.msg = msg]
        BY <3>4 DEF PollResolve
      <4> QED BY <3>1, <4>1 DEF PollType
    <3>5. CASE PollEnqueue
      <4>1. \E todo : poll' = [poll EXCEPT !.pc = "work", !.todo = todo, !.msg = None]
        BY <3>5 DEF PollEnqueue
      <4> QED BY <3>1, <4>1 DEF PollType
    <3> QED BY <1>9, <3>2, <3>3, <3>4, <3>5 DEF PollerRuns, PollerStep, PollerFails
  <2> QED BY <2>1, <2>2 DEF superVars
<1>10. Hook \/ World => UNCHANGED <<poll, superVars>>
  BY DEF Hook, HookArrives, HookRuns, HookResolve, HookEnqueue, HookFails, World, TicketUpdate
<1>11. UNCHANGED vars => UNCHANGED <<poll, superVars>>
  BY DEF vars, intakeVars, intakeState
<1> QED BY <1>1, <1>2, <1>3, <1>4, <1>5, <1>6, <1>7, <1>8, <1>9, <1>10, <1>11
        DEF Next, Main, Poll

LEMMA ProcTypeKeeps ==
  ASSUME IntakeInv, RowsInv, ProcType, [Next]_vars
  PROVE  ProcType'
<1>1. StepShape
  BY EveryStepHasShape
<1>2. rows' \subseteq Tickets \X Nat
  <2>1. ASSUME NEW t, NEW m, NEW whitelisted, Passing(t, m, whitelisted)
        PROVE  <<t, m>> \in Tickets \X Nat
    BY <2>1 DEF Passing, Candidates
  <2>2. ASSUME NEW r \in rows' PROVE r \in Tickets \X Nat
    BY <1>1, <2>1 DEF StepShape, InHands, RowsInv, ProcType
  <2> QED BY <2>2
<1>3. \A h \in Handlers : req'[h].pc \in {"idle", "enqueue"}
  <2>1. Idle.pc = "idle"
    BY DEF Idle
  <2>2. DOMAIN req = Handlers
    BY DEF RowsInv
  <2>3. ASSUME NEW g \in Handlers, HookResolve(g)
        PROVE  \A h \in Handlers : req'[h].pc \in {"idle", "enqueue"}
    <3>1. PICK t, m : req' = [req EXCEPT ![g] = [pc |-> "enqueue", ticket |-> t, msg |-> m]]
      BY <2>3 DEF HookResolve
    <3> QED BY <2>2, <3>1 DEF ProcType
  <2> QED BY <1>1, <2>1, <2>2, <2>3 DEF StepShape, ProcType
<1>4. exposed' \subseteq Tickets
  <2>1. CASE World
    BY <2>1 DEF World, TicketUpdate, ProcType
  <2>2. Main \/ Fate \/ Poll \/ Hook => exposed' = exposed
    BY DEF Main, Start, Signal, ShutDown, ClosePool, CloseClient, Crash, Fate,
           TaskCancelled, TaskFails, SchedulerFails, Poll, PollerLoads, LoadCheckpoint,
           PollerDies, PollerRuns, PollerFails, PollerStep, FetchPage, PollResolve,
           PollEnqueue, SaveCheckpoint, ReconcileFails, Hook, HookArrives, HookRuns,
           HookResolve, HookEnqueue, HookFails, intakeVars, intakeState
  <2>3. UNCHANGED vars => exposed' = exposed
    BY DEF vars, intakeVars, intakeState
  <2> QED BY <2>1, <2>2, <2>3 DEF Next, ProcType
<1> QED BY <1>2, <1>3, <1>4, PollerInStep, FaultsBounded DEF ProcType

\* Together: the parts of the invariant, and what they say about types.
ServiceInv == IntakeInv /\ RowsInv /\ ProcType

LEMMA ServiceInvHolds == Spec => []ServiceInv
<1>1. Init => ProcType
  BY IntakeAssumption
  DEF Init, IntakeInit, ProcType, Phases, Fates, PollerOff, Idle, Tasks
<1>2. Init => IntakeInv /\ RowsInv
  BY InitInv DEF Init, IntakeInit, RowsInv, InPoller, InHook, PollerOff, Idle
<1>3. ServiceInv /\ [Next]_vars => ServiceInv'
  BY StepKeeps, RowsInvKeeps, ProcTypeKeeps DEF ServiceInv
<1> QED BY <1>1, <1>2, <1>3, PTL DEF Spec, ServiceInv

(***************************************************************************)
(* Every variable keeps its type: a row is always a ticket and a message   *)
(* of it, no ticket is newer than the clock, and the locals of poller_loop *)
(* live exactly as long as its task.                                       *)
(***************************************************************************)
THEOREM ServiceTypeCorrect == Spec => []TypeOK
<1>1. ServiceInv => TypeOK
  <2> SUFFICES ASSUME ServiceInv PROVE TypeOK
    OBVIOUS
  <2>1. updated \in [Tickets -> 0..clock]
    BY DEF ServiceInv, IntakeInv, IntakeType
  <2>2. poll.pc \in {"off", "load", "list", "work", "enqueue"}
    BY DEF ServiceInv, IntakeInv, IntakeType, PollType
  <2> QED BY <2>1, <2>2
          DEF ServiceInv, IntakeInv, IntakeType, ProcType, Phases, Fates, TypeOK
<1> QED BY <1>1, ServiceInvHolds, PTL

(***************************************************************************)
(* Once its loop runs, the poller ends only because it was cancelled or    *)
(* the process was killed: no failing list call, conversation read, INSERT *)
(* or checkpoint ends it (reconcile.py:258).                               *)
(***************************************************************************)
LEMMA PollerEnds ==
  ASSUME ServiceInv, [Next]_vars, poll.pc \notin {"off", "load"}, poll'.pc = "off"
  PROVE  task'["poller"] = "cancelling" \/ proc' = "down"
<1>1. task["poller"] = "running" /\ "poller" \in Tasks
  BY DEF ServiceInv, ProcType, Tasks
<1>2. task'["poller"] # "running"
  BY PollerInStep DEF ServiceInv
<1>3. CASE Signal \/ ShutDown
  BY <1>1, <1>3 DEF Signal, ShutDown, CancelAll
<1>4. CASE Crash
  BY <1>4 DEF Crash
<1>5. ~PollerDies
  BY DEF PollerDies
<1>6. ASSUME NEW k \in Tasks, TaskCancelled(k) \/ TaskFails(k) PROVE FALSE
  BY <1>1, <1>2, <1>6 DEF TaskCancelled, TaskFails, End, ServiceInv, ProcType
<1>7. ~Start /\ ~(UNCHANGED task)
  BY <1>1, <1>2 DEF Start
<1> QED BY <1>3, <1>4, <1>5, <1>6, <1>7
        DEF Next, Main, ClosePool, CloseClient, Fate, SchedulerFails, Poll, PollerLoads,
            PollerRuns, PollerFails, Hook, HookArrives, HookRuns, World, superVars, vars

(***************************************************************************)
(* A failing call or statement leaves the running poller alive: the except *)
(* clause of poller_loop catches it (reconcile.py:252-260).                *)
(***************************************************************************)
THEOREM PollerSurvives == Spec => PollerSurvivesErrors
<1>1. ServiceInv /\ [Next]_vars
      => [poll.pc \notin {"off", "load"} /\ poll'.pc = "off"
            => task'["poller"] = "cancelling" \/ proc' = "down"]_vars
  BY PollerEnds
<1> QED BY <1>1, ServiceInvHolds, PTL DEF Spec, PollerSurvivesErrors
=============================================================================
