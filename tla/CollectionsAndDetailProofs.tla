---------------------- MODULE CollectionsAndDetailProofs ----------------------
(***************************************************************************)
(* Proofs about RestorePointDetail, for any points, requests and tasks, and *)
(* then about Collections, for any items, any page size and any changes.    *)
(*                                                                         *)
(* Detail: what VBR keeps of a chain always begins with a full, and a list  *)
(* that is being read holds what was there all the time; the rest follows    *)
(* from what an answer is made of.                                          *)
(*                                                                         *)
(* Collections: an item that stays, and before which none goes away from    *)
(* page to page, never moves back behind skip; one before which none comes   *)
(* never moves ahead of it.                                                 *)
(***************************************************************************)
EXTENDS Collections, RestorePointDetail, FiniteSetTheorems, SequenceTheorems, TLAPS

-----------------------------------------------------------------------------
(* A set of naturals has a least member: induction by the least counterexample *)

\* The intervals from 0 to a member are finite sets, and the smallest of them is the
\* one of the least member.
LEMMA LeastNatural ==
  ASSUME NEW A \in SUBSET Nat, A # {}
  PROVE  \E m \in A : \A k \in A : m <= k
<1> DEFINE Intervals == {0..k : k \in A}
<1>1. IsWellFoundedOn(StrictSubsetOrdering(Nat), FiniteSubsetsOf(Nat))
  BY FS_StrictSubsetOrderingWellFounded
<1>2. Intervals \subseteq FiniteSubsetsOf(Nat)
  <2>1. ASSUME NEW k \in A PROVE 0..k \in SUBSET Nat /\ IsFiniteSet(0..k)
    BY FS_Interval
  <2> QED BY <2>1 DEF FiniteSubsetsOf
<1>3. Intervals # {}
  <2>1. PICK k : k \in A
    OBVIOUS
  <2>2. 0..k \in Intervals
    BY <2>1
  <2> QED BY <2>2
<1>4. PICK x \in Intervals : \A y \in Intervals : ~ (<<y, x>> \in StrictSubsetOrdering(Nat))
  <2> HIDE DEF Intervals
  <2> QED BY <1>1, <1>2, <1>3, WFMin
<1>5. PICK m \in A : x = 0..m
  OBVIOUS
<1>6. ASSUME NEW k \in A, k < m PROVE FALSE
  <2>1. 0..k \in SUBSET Nat /\ 0..m \in SUBSET Nat /\ 0..k \subseteq 0..m
    BY <1>6
  <2>2. 0..k # 0..m
    <3>1. m \in 0..m /\ m \notin 0..k
      BY <1>6
    <3> QED BY <3>1
  <2>3. <<0..k, 0..m>> \in StrictSubsetOrdering(Nat)
    BY <2>1, <2>2 DEF StrictSubsetOrdering
  <2> QED BY <2>3, <1>4, <1>5
<1> QED BY <1>6

\* With an upper bound it has a greatest one.
LEMMA GreatestNatural ==
  ASSUME NEW A \in SUBSET Nat, A # {}, NEW n \in Nat, \A k \in A : k <= n
  PROVE  \E m \in A : \A k \in A : k <= m
<1> DEFINE Below == {n - k : k \in A}
<1>1. Below \in SUBSET Nat /\ Below # {}
  <2>1. \A k \in A : n - k \in Nat
    OBVIOUS
  <2>2. Below \in SUBSET Nat
    BY <2>1
  <2>3. PICK k : k \in A
    OBVIOUS
  <2>4. n - k \in Below
    BY <2>3
  <2> QED BY <2>2, <2>4
<1> HIDE DEF Below
<1>2. PICK m \in Below : \A k \in Below : m <= k
  BY <1>1, LeastNatural
<1>3. PICK k \in A : m = n - k
  BY <1>2 DEF Below
<1>4. \A j \in A : n - k <= n - j
  BY <1>2, <1>3 DEF Below
<1>5. \A j \in A : j <= k
  BY <1>4
<1> QED BY <1>5

-----------------------------------------------------------------------------
(* RestorePointDetail: the inductive invariant *)

Vms == {NoVm} \cup (UNION {p.named : p \in Points}) \cup (UNION {VmsOf[b] : b \in Backups})
Calls == [at : {"off", "point", "aaip", "reading"}, asked : Ids \cup {NoPoint}, full : BOOLEAN,
          vm : Vms, steady : SUBSET Rows, fleeting : SUBSET Rows]

\* The variables in their types.
Shapes ==
  /\ selected \in Ids \cup {NoPoint}
  /\ detail \in [of : Ids \cup {NoPoint}, ok : BOOLEAN]
  /\ drawn \in [kind : {"empty", "loading", "error", "detail"}, of : Ids \cup {NoPoint}]
  /\ fulls \subseteq held /\ held \subseteq made /\ made \subseteq Points
  /\ call \in [Requests -> Calls]

\* VBR: a chain that has a point has a full to begin with, and will have one when the next
\* point is made; the points are made in the order of their dates.
Rooted == \A p \in held : \E q \in ChainOf(p) \cap fulls : q.date <= p.date
Ready ==
  \A p \in Points \ made :
    /\ \A q \in made : q.date <= p.date
    /\ p.start \/ (\E q \in held : SameChain(p, q))
       \/ \E q \in Points \ made : SameChain(p, q) /\ q.start /\ q.date < p.date

\* A request knows whom it is for: it does not take the point for one of another workload,
\* unless its file names several.
Asks ==
  \A r \in Requests :
    LET c == call[r] IN
    /\ c.at # "off" => c.asked \in Ids
    /\ c.at \in {"aaip", "reading"} =>
         /\ c.asked \in Points /\ ~c.asked.file
         /\ Cardinality(c.asked.named) <= 1 /\ c.vm # NoVm => c.vm = c.asked.vm
    /\ c.at = "reading" => c.vm # NoVm

\* What was there all the time is there, and what is there was there at some time.
Reads ==
  \A r \in Requests :
    LET c == call[r] IN
    /\ c.at # "reading" => c.steady = {} /\ c.fleeting = {}
    /\ c.at = "reading" =>
         /\ c.steady \subseteq RowsOf(c.vm, held, fulls)
         /\ RowsOf(c.vm, held, fulls) \subseteq c.steady \cup c.fleeting
         /\ \A x \in c.fleeting : x.point.vm = c.vm /\ ~x.file

\* The pane: what is drawn for a selection, and that a selection without a detail has a
\* request under way.
Awaited == \E r \in Requests : call[r].at # "off" /\ call[r].asked = selected
Pane ==
  /\ drawn.kind = "empty" <=> selected = NoPoint
  /\ selected # NoPoint /\ detail = NoDetail => Awaited
  /\ LoadingIsAwaited

DetailIInv == Shapes /\ Rooted /\ Ready /\ Asks /\ Reads /\ Pane

-----------------------------------------------------------------------------
(* The rows of a workload *)

\* What is selected by its id is a point or a file, and a point if it is not a file.
LEMMA IdsAre ==
  /\ Points \subseteq Ids /\ NoPoint \notin Ids
  /\ \A p \in Ids : ~p.file => p \in Points
  /\ \A p \in Clicked : FileOf(p) \in Ids
<1>1. ASSUME NEW p \in Clicked, ~FileOf(p).file PROVE FileOf(p) \in Points
  <2>1. p \in Points /\ p.file \in BOOLEAN
    BY PointsAssumption
  <2> QED BY <1>1, <2>1 DEF FileOf
<1> QED BY <1>1, PointsAssumption DEF Ids

LEMMA RowsAre ==
  ASSUME NEW vm, NEW h \in SUBSET Points, NEW fs
  PROVE  /\ RowsOf(vm, h, fs) \subseteq Rows
         /\ \A x \in RowsOf(vm, h, fs) :
              /\ x.point \in h /\ x.point.vm = vm /\ ~x.point.file /\ ~x.file
              /\ x.full <=> x.point \in fs
         /\ \A p \in h : p.vm = vm /\ ~p.file =>
              \E x \in RowsOf(vm, h, fs) : x.point = p /\ ~x.file /\ (x.full <=> p \in fs)
<1>1. ASSUME NEW x \in RowsOf(vm, h, fs)
      PROVE  /\ x \in Rows /\ x.point \in h /\ x.point.vm = vm /\ ~x.point.file /\ ~x.file
             /\ x.full <=> x.point \in fs
  <2>1. PICK p \in h : p.vm = vm /\ ~p.file /\ x = [point |-> p, full |-> p \in fs, file |-> FALSE]
    BY DEF RowsOf
  <2>2. (p \in fs) \in BOOLEAN
    OBVIOUS
  <2> QED BY <2>1, <2>2 DEF Rows
<1>2. ASSUME NEW p \in h, p.vm = vm, ~p.file
      PROVE  \E x \in RowsOf(vm, h, fs) : x.point = p /\ ~x.file /\ (x.full <=> p \in fs)
  <2>1. [point |-> p, full |-> p \in fs, file |-> FALSE] \in RowsOf(vm, h, fs)
    BY <1>2 DEF RowsOf
  <2> QED BY <2>1
<1> QED BY <1>1, <1>2

-----------------------------------------------------------------------------
(* Steps of the requests *)

\* A request that goes on.
LEMMA GoesKeeps ==
  ASSUME DetailIInv, NEW r \in Requests, call[r].at # "off", NEW c \in Calls,
         call' = [call EXCEPT ![r] = c], UNCHANGED <<console, vbr>>,
         c.asked = call[r].asked, c.at \in {"aaip", "reading"}, ~c.asked.file,
         Cardinality(c.asked.named) <= 1 /\ c.vm # NoVm => c.vm = c.asked.vm,
         c.at = "aaip" => c.steady = {} /\ c.fleeting = {},
         c.at = "reading" =>
           /\ c.vm # NoVm /\ c.steady \subseteq RowsOf(c.vm, held, fulls)
           /\ RowsOf(c.vm, held, fulls) \subseteq c.steady \cup c.fleeting
           /\ \A x \in c.fleeting : x.point.vm = c.vm /\ ~x.file
  PROVE  DetailIInv'
<1>1. /\ selected' = selected /\ detail' = detail /\ drawn' = drawn
      /\ made' = made /\ held' = held /\ fulls' = fulls
  BY DEF console, vbr
<1>2. /\ call \in [Requests -> Calls] /\ call'[r] = c
      /\ \A s \in Requests \ {r} : call'[s] = call[s]
  BY DEF DetailIInv, Shapes
<1>3. Shapes'
  BY <1>1, <1>2 DEF DetailIInv, Shapes
<1>4. Rooted' /\ Ready'
  BY <1>1 DEF DetailIInv, Rooted, Ready, ChainOf
<1>5. Asks'
  <2>1. c.asked \in Ids /\ c.asked \in Points
    BY IdsAre DEF DetailIInv, Asks
  <2>2. \A s \in Requests \ {r} : call'[s] = call[s]
    BY <1>2
  <2> QED BY <1>2, <2>1, <2>2 DEF DetailIInv, Asks
<1>6. Reads'
  BY <1>1, <1>2 DEF DetailIInv, Reads
<1>7. Pane'
  <2>1. Awaited => Awaited'
    BY <1>1, <1>2 DEF Awaited
  <2>2. LoadingIsAwaited'
    BY <1>1, <2>1 DEF DetailIInv, Pane, LoadingIsAwaited, Awaited
  <2> QED BY <1>1, <2>1, <2>2 DEF DetailIInv, Pane
<1> QED BY <1>3, <1>4, <1>5, <1>6, <1>7 DEF DetailIInv

\* A request that is answered.
LEMMA DeliverKeeps ==
  ASSUME DetailIInv, NEW r \in Requests, call[r].at # "off", NEW a, Deliver(r, a),
         a.of = call[r].asked, a.ok \in BOOLEAN
  PROVE  DetailIInv'
<1>1. /\ selected' = selected /\ made' = made /\ held' = held /\ fulls' = fulls
      /\ detail' = [of |-> a.of, ok |-> a.ok]
  BY DEF Deliver, vbr, Stored
<1>2. /\ call \in [Requests -> Calls] /\ call' = [call EXCEPT ![r] = Idle] /\ call'[r] = Idle
      /\ \A s \in Requests \ {r} : call'[s] = call[s]
  BY DEF DetailIInv, Shapes, Deliver
<1>3. a.of \in Ids /\ a.of # NoPoint /\ detail' # NoDetail
  BY <1>1, IdsAre DEF DetailIInv, Asks, NoDetail
<1>4. /\ drawn' \in [kind : {"empty", "loading", "error", "detail"}, of : Ids \cup {NoPoint}]
      /\ drawn'.kind = "empty" <=> selected = NoPoint
      /\ drawn'.kind = "loading" => drawn = drawn' /\ selected # a.of
  <2>1. CASE selected = a.of
    <3>1. drawn' = [kind |-> IF a.ok THEN "detail" ELSE "error", of |-> a.of]
      BY <1>1, <1>3, <2>1 DEF Deliver, Draws, Render
    <3> QED BY <1>3, <2>1, <3>1
  <2>2. CASE selected # a.of
    BY <2>2 DEF Deliver, Draws, DetailIInv, Shapes, Pane
  <2> QED BY <2>1, <2>2
<1>5. Shapes'
  <2>1. Idle \in Calls
    BY DEF Idle, Calls, Vms
  <2>2. detail' \in [of : Ids \cup {NoPoint}, ok : BOOLEAN]
    BY <1>1, <1>3
  <2>3. call' \in [Requests -> Calls]
    BY <1>2, <2>1
  <2> QED BY <1>1, <1>4, <2>2, <2>3 DEF DetailIInv, Shapes
<1>6. Rooted' /\ Ready'
  BY <1>1 DEF DetailIInv, Rooted, Ready, ChainOf
<1>7. Asks' /\ Reads'
  BY <1>1, <1>2 DEF DetailIInv, Asks, Reads, Idle
<1>8. Pane'
  <2>1. ASSUME drawn'.kind = "loading"
        PROVE  \E s \in Requests : call'[s].at # "off" /\ call'[s].asked = selected
    <3>1. drawn.kind = "loading" /\ selected # a.of
      BY <1>4, <2>1
    <3>2. PICK s \in Requests : call[s].at # "off" /\ call[s].asked = selected
      BY <3>1 DEF DetailIInv, Pane, LoadingIsAwaited
    <3>3. s # r
      BY <3>1, <3>2
    <3> QED BY <1>2, <3>2, <3>3
  <2> QED BY <1>1, <1>3, <1>4, <2>1 DEF Pane, LoadingIsAwaited
<1> QED BY <1>5, <1>6, <1>7, <1>8 DEF DetailIInv

\* The workload that is found for a point is that of the point.
LEMMA OwnVm ==
  ASSUME NEW p \in Points, NEW v \in Owner(p) \cup {NoVm}
  PROVE  /\ OnlyVm(p, v) \in Vms
         /\ Cardinality(p.named) <= 1 /\ OnlyVm(p, v) # NoVm => OnlyVm(p, v) = p.vm
<1>1. p.backup \in Backups /\ p.vm \in VmsOf[p.backup] /\ IsFiniteSet(VmsOf[p.backup])
      /\ IsFiniteSet(p.named) /\ (p.named # {} => p.vm \in p.named)
  BY InventoryAssumption
<1>2. CASE v = NoVm /\ Cardinality(VmsOf[p.backup]) = 1
  <2>1. PICK x : VmsOf[p.backup] = {x}
    BY <1>1, <1>2, FS_Singleton
  <2>2. OnlyVm(p, v) = p.vm
    BY <1>1, <1>2, <2>1 DEF OnlyVm
  <2> DEFINE known == UNION {VmsOf[b] : b \in Backups}
  <2>3. p.vm \in known
    BY <1>1
  <2>4. known \subseteq Vms
    BY DEF Vms
  <2> HIDE DEF known
  <2> QED BY <2>2, <2>3, <2>4
<1>3. CASE ~(v = NoVm /\ Cardinality(VmsOf[p.backup]) = 1)
  <2>1. OnlyVm(p, v) = v
    BY <1>3 DEF OnlyVm
  <2>2. v = NoVm \/ v \in p.named
    BY DEF Owner
  <2>3. ASSUME Cardinality(p.named) <= 1, v \in p.named PROVE v = p.vm
    <3>1. Cardinality(p.named) \in Nat /\ Cardinality(p.named) # 0
      BY <1>1, <2>3, FS_EmptySet, FS_CardinalityType
    <3>2. Cardinality(p.named) = 1
      BY <2>3, <3>1
    <3>3. PICK x : p.named = {x}
      BY <1>1, <3>2, FS_Singleton
    <3> QED BY <1>1, <2>3, <3>3
  <2> QED BY <2>1, <2>2, <2>3 DEF Vms
<1> QED BY <1>2, <1>3

LEMMA GetRestorePointKeeps ==
  ASSUME DetailIInv, NEW r \in Requests, GetRestorePoint(r) PROVE DetailIInv'
<1>1. call[r] \in Calls /\ call[r].at = "point" /\ ~call[r].asked.file /\ call[r].asked \in Points
  BY IdsAre DEF DetailIInv, Shapes, Asks, GetRestorePoint
<1>2. call[r].steady = {} /\ call[r].fleeting = {}
  BY <1>1 DEF DetailIInv, Reads
<1>3. PICK full \in BOOLEAN, v \in Owner(call[r].asked) \cup {NoVm} :
        Goes(r, [call[r] EXCEPT !.at = "aaip", !.full = full, !.vm = OnlyVm(call[r].asked, v)])
  BY DEF GetRestorePoint
<1> DEFINE vm == OnlyVm(call[r].asked, v)
           c == [call[r] EXCEPT !.at = "aaip", !.full = full, !.vm = vm]
<1>4. vm \in Vms /\ (Cardinality(call[r].asked.named) <= 1 /\ vm # NoVm => vm = call[r].asked.vm)
  BY <1>1, OwnVm
<1>6. c \in Calls /\ c.at = "aaip" /\ c.asked = call[r].asked /\ c.vm = vm /\ c.fleeting = {} /\ c.steady = {}
  <2> HIDE DEF vm
  <2> QED BY <1>1, <1>2, <1>3, <1>4 DEF Calls
<1>7. call' = [call EXCEPT ![r] = c] /\ UNCHANGED <<console, vbr>>
  BY <1>3 DEF Goes
<1> HIDE DEF c, vm
<1> QED BY <1>1, <1>4, <1>6, <1>7, GoesKeeps

LEMMA AskListKeeps ==
  ASSUME DetailIInv, NEW r \in Requests, AskList(r) PROVE DetailIInv'
<1> DEFINE vm == call[r].vm
           rows == RowsOf(vm, held, fulls)
           fresh == [call[r] EXCEPT !.at = "reading", !.steady = rows]
           joined == {d \in Others(r, "reading") :
                        d.vm = vm /\ d.asked.date = call[r].asked.date}
<1>1. call[r] \in Calls /\ call \in [Requests -> Calls] /\ call[r].at = "aaip" /\ vm # NoVm
  BY DEF DetailIInv, Shapes, AskList
<1>2. /\ call[r].asked \in Points /\ ~call[r].asked.file /\ call[r].fleeting = {}
      /\ Cardinality(call[r].asked.named) <= 1 /\ vm # NoVm => vm = call[r].asked.vm
  BY <1>1 DEF DetailIInv, Asks, Reads
<1>3. PICK d \in {fresh} \cup joined :
        call' = [call EXCEPT ![r] = [fresh EXCEPT !.steady = d.steady, !.fleeting = d.fleeting]]
  BY DEF AskList
<1>4. UNCHANGED <<console, vbr>>
  BY DEF AskList
<1>5. rows \in SUBSET Rows
  BY RowsAre DEF DetailIInv, Shapes
<1>6. /\ d.steady \subseteq rows /\ rows \subseteq d.steady \cup d.fleeting
      /\ d.steady \in SUBSET Rows /\ d.fleeting \in SUBSET Rows
      /\ \A x \in d.fleeting : x.point.vm = vm /\ ~x.file
  <2>1. CASE d = fresh
    <3>1. d.steady = rows /\ d.fleeting = {}
      <4> HIDE DEF rows
      <4> QED BY <1>1, <1>2, <2>1 DEF Calls
    <3> HIDE DEF rows
    <3> QED BY <1>5, <3>1
  <2>2. CASE d \in joined
    <3>1. PICK q \in Requests : d = call[q] /\ call[q].at = "reading" /\ call[q].vm = vm
      BY <2>2 DEF Others
    <3>2. call[q] \in Calls
      BY <1>1
    <3>3. /\ call[q].steady \subseteq rows /\ rows \subseteq call[q].steady \cup call[q].fleeting
          /\ \A x \in call[q].fleeting : x.point.vm = vm /\ ~x.file
      BY <3>1 DEF DetailIInv, Reads
    <3> HIDE DEF rows, vm
    <3> QED BY <3>1, <3>2, <3>3 DEF Calls
  <2> QED BY <1>3, <2>1, <2>2
<1> DEFINE c == [fresh EXCEPT !.steady = d.steady, !.fleeting = d.fleeting]
<1>7. /\ c \in Calls /\ c.at = "reading" /\ c.asked = call[r].asked /\ c.vm = vm
      /\ c.steady = d.steady /\ c.fleeting = d.fleeting
  <2> HIDE DEF rows
  <2> QED BY <1>1, <1>5, <1>6 DEF Calls
<1>8. call' = [call EXCEPT ![r] = c]
  BY <1>3
<1> HIDE DEF c
<1>9. /\ c.steady \subseteq RowsOf(c.vm, held, fulls)
      /\ RowsOf(c.vm, held, fulls) \subseteq c.steady \cup c.fleeting
      /\ \A x \in c.fleeting : x.point.vm = c.vm /\ ~x.file
  BY <1>6, <1>7
<1> HIDE DEF vm, rows, fresh, joined
<1>10. /\ call[r].at # "off" /\ c.asked = call[r].asked /\ c.at \in {"aaip", "reading"}
       /\ ~c.asked.file /\ c.vm # NoVm
       /\ Cardinality(c.asked.named) <= 1 /\ c.vm # NoVm => c.vm = c.asked.vm
  BY <1>1, <1>2, <1>7
<1> QED BY <1>4, <1>7, <1>8, <1>9, <1>10, GoesKeeps

\* What the answers say of themselves.
LEMMA AloneIs ==
  ASSUME NEW c
  PROVE  LET own == [point |-> c.asked, full |-> c.full, file |-> FALSE]
         IN  /\ Alone(c).of = c.asked /\ Alone(c).ok = TRUE
             /\ Alone(c).chain = {own} /\ Alone(c).needed = {own} /\ Alone(c).locations = {}
             /\ Alone(c).aaip = NoVerdict /\ Alone(c).lost = FALSE
             /\ DOMAIN Alone(c) = DOMAIN NoAnswer
  BY DEF Alone, NoAnswer

Same(c, list) == {x \in list : Job(x.point) = Job(c.asked)}
IsFound(c, list) == \E x \in Same(c, list) : x.point = c.asked /\ ~x.file
Elsewhere(c, list) == {x \in list \ Same(c, list) : Near(x.point, c.asked)}
Answer(c, list, l) == [Detail(c, list) EXCEPT !.lost = l]

LEMMA AnswerIs ==
  \A c, list, l :
         /\ Answer(c, list, l).of = c.asked /\ Answer(c, list, l).ok = TRUE
         /\ Answer(c, list, l).locations = Elsewhere(c, list)
         /\ Answer(c, list, l).aaip = NoVerdict /\ Answer(c, list, l).lost = l
         /\ IsFound(c, list) =>
              /\ Answer(c, list, l).chain = Chain(Same(c, list), c.asked)
              /\ Answer(c, list, l).needed = NeededFor(Chain(Same(c, list), c.asked), c.asked)
         /\ ~IsFound(c, list) =>
              /\ Answer(c, list, l).chain = Alone(c).chain
              /\ Answer(c, list, l).needed = Alone(c).needed
<1> TAKE c, list, l
<1> DEFINE p == c.asked
           same == Same(c, list)
           elsewhere == Elsewhere(c, list)
           found == IsFound(c, list)
           chain == Chain(same, p)
           needed == NeededFor(chain, p)
           alone == [Alone(c) EXCEPT !.locations = elsewhere]
           a == [Detail(c, list) EXCEPT !.lost = l]
<1>1. Detail(c, list) = IF found THEN [alone EXCEPT !.chain = chain, !.needed = needed] ELSE alone
  BY DEF Detail, IsFound, Same, Elsewhere
<1>2. /\ Alone(c).of = p /\ Alone(c).ok = TRUE /\ Alone(c).aaip = NoVerdict
      /\ DOMAIN Alone(c) = {"of", "ok", "aaip", "chain", "needed", "locations", "lost"}
  BY AloneIs DEF NoAnswer
<1>3. found => /\ a.of = p /\ a.ok = TRUE /\ a.locations = elsewhere /\ a.aaip = NoVerdict
               /\ a.lost = l /\ a.chain = chain /\ a.needed = needed
  <2> HIDE DEF found, chain, needed, elsewhere, p
  <2> QED BY <1>1, <1>2
<1>4. ~found => /\ a.of = p /\ a.ok = TRUE /\ a.locations = elsewhere /\ a.aaip = NoVerdict
                /\ a.lost = l /\ a.chain = Alone(c).chain /\ a.needed = Alone(c).needed
  <2> HIDE DEF found, chain, needed, elsewhere, p
  <2> QED BY <1>1, <1>2
<1>5. /\ a.of = p /\ a.ok = TRUE /\ a.locations = elsewhere /\ a.aaip = NoVerdict /\ a.lost = l
      /\ found => a.chain = chain /\ a.needed = needed
      /\ ~found => a.chain = Alone(c).chain /\ a.needed = Alone(c).needed
  <2> HIDE DEF found, chain, needed, elsewhere, a, p
  <2> QED BY <1>2, <1>3, <1>4
<1> QED BY <1>5 DEF Answer

LEMMA AnswerFor ==
  ASSUME NEW c, NEW list, NEW l
  PROVE  Answer(c, list, l).of = c.asked /\ Answer(c, list, l).ok = TRUE
  BY AnswerIs

\* The rows of files.
LEMMA FileRowsAre ==
  ASSUME DetailIInv, NEW b, NEW x \in FileRows(b) PROVE x \in Rows /\ x.file /\ x.point \in made
<1>1. x \in [point : {p \in made : p.backup = b}, full : BOOLEAN, file : {TRUE}] /\ made \subseteq Points
  BY DEF FileRows, DetailIInv, Shapes
<1> QED BY <1>1 DEF Rows

\* The answer of ListAnswered, and of what it is made.
LEMMA ListAnswer ==
  ASSUME NEW r \in Requests, ListAnswered(r)
  PROVE  /\ call[r].at = "reading"
         /\ \E rows \in SUBSET (call[r].steady \cup call[r].fleeting),
               files \in SUBSET UNION {FileRows(b) : b \in Backups}, l \in BOOLEAN :
              /\ Deliver(r, Answer(call[r], rows \cup files, l))
              /\ ~l /\ call[r].fleeting = {} => files = {} /\ rows = call[r].steady
<1> DEFINE c == call[r]
           scope == {b \in Backups : c.vm \in VmsOf[b]}
<1>1. c.at = "reading"
  BY DEF ListAnswered
<1>2. PICK failed \in SUBSET {x.point.backup : x \in c.steady \cup c.fleeting} :
        \E more \in SUBSET (c.fleeting \cup {x \in c.steady : x.point.backup \in failed}) :
          LET rows == {x \in c.steady : x.point.backup \notin failed} \cup more
              unseen == {b \in scope : \A x \in rows : x.point.backup # b}
          IN \E files \in SUBSET UNION {FileRows(b) : b \in unseen} :
               Deliver(r, [Detail(c, rows \cup files) EXCEPT !.lost = failed # {} \/ files # {}])
  BY DEF ListAnswered
<1>3. PICK more \in SUBSET (c.fleeting \cup {x \in c.steady : x.point.backup \in failed}) :
        LET rows == {x \in c.steady : x.point.backup \notin failed} \cup more
            unseen == {b \in scope : \A x \in rows : x.point.backup # b}
        IN \E files \in SUBSET UNION {FileRows(b) : b \in unseen} :
             Deliver(r, [Detail(c, rows \cup files) EXCEPT !.lost = failed # {} \/ files # {}])
  BY <1>2
<1> DEFINE rows == {x \in c.steady : x.point.backup \notin failed} \cup more
           unseen == {b \in scope : \A x \in rows : x.point.backup # b}
<1>4. PICK files \in SUBSET UNION {FileRows(b) : b \in unseen} :
        Deliver(r, [Detail(c, rows \cup files) EXCEPT !.lost = failed # {} \/ files # {}])
  BY <1>3
<1> DEFINE lost == failed # {} \/ files # {}
<1>5. Deliver(r, Answer(c, rows \cup files, lost))
  BY <1>4 DEF Answer
<1>6. files \in SUBSET UNION {FileRows(b) : b \in Backups}
  <2>1. unseen \subseteq Backups
    OBVIOUS
  <2> HIDE DEF unseen
  <2> QED BY <1>4, <2>1
<1>7. rows \in SUBSET (c.steady \cup c.fleeting) /\ lost \in BOOLEAN
  OBVIOUS
<1>8. ~lost /\ c.fleeting = {} => files = {} /\ rows = c.steady
  OBVIOUS
<1> HIDE DEF rows, unseen, lost, c
<1> QED BY <1>1, <1>5, <1>6, <1>7, <1>8 DEF c

LEMMA RefusedKeeps == ASSUME DetailIInv, NEW r \in Requests, Refused(r) PROVE DetailIInv'
<1> DEFINE a == [NoAnswer EXCEPT !.of = call[r].asked]
<1>1. a.of = call[r].asked /\ a.ok = FALSE
  BY DEF NoAnswer
<1>2. Deliver(r, a) /\ call[r].at # "off"
  BY DEF Refused
<1> HIDE DEF a
<1> QED BY <1>1, <1>2, DeliverKeeps

LEMMA NoWorkloadKeeps == ASSUME DetailIInv, NEW r \in Requests, NoWorkload(r) PROVE DetailIInv'
<1>1. PICK v \in Aaip(call[r].asked) : Deliver(r, [Alone(call[r]) EXCEPT !.aaip = v])
  BY DEF NoWorkload
<1> DEFINE a == [Alone(call[r]) EXCEPT !.aaip = v]
<1>2. a.of = call[r].asked /\ a.ok = TRUE
  BY DEF Alone, NoAnswer
<1>3. call[r].at # "off" /\ Deliver(r, a)
  BY <1>1 DEF NoWorkload
<1> HIDE DEF a
<1> QED BY <1>2, <1>3, DeliverKeeps

LEMMA ListAnsweredKeeps == ASSUME DetailIInv, NEW r \in Requests, ListAnswered(r) PROVE DetailIInv'
<1>1. PICK rows \in SUBSET (call[r].steady \cup call[r].fleeting),
           files \in SUBSET UNION {FileRows(b) : b \in Backups}, l \in BOOLEAN :
        Deliver(r, Answer(call[r], rows \cup files, l))
  BY ListAnswer
<1> DEFINE list == rows \cup files
           a == Answer(call[r], list, l)
<1>2. a.of = call[r].asked /\ a.ok = TRUE
  <2> HIDE DEF list
  <2> QED BY AnswerFor DEF a
<1>3. call[r].at # "off" /\ Deliver(r, a)
  BY <1>1, ListAnswer
<1> HIDE DEF a
<1> QED BY <1>2, <1>3, DeliverKeeps

\* The answer of FileFound.
LEMMA FileAnswer ==
  ASSUME NEW r \in Requests, FileFound(r)
  PROVE  /\ call[r].at = "point" /\ call[r].asked.file
         /\ \E b : \E chain \in SUBSET FileRows(b) : \E own :
              Deliver(r, [Alone(call[r]) EXCEPT !.chain = chain, !.needed = {own}])
<1>1. PICK p \in {q \in made : FileOf(q) = call[r].asked} : \E chain \in SUBSET FileRows(p.backup) :
        \E own \in {x \in chain : x.point = p} :
          Deliver(r, [Alone(call[r]) EXCEPT !.chain = chain, !.needed = {own}])
  BY DEF FileFound
<1>2. \E chain \in SUBSET FileRows(p.backup) : \E own :
        Deliver(r, [Alone(call[r]) EXCEPT !.chain = chain, !.needed = {own}])
  BY <1>1
<1>3. call[r].at = "point" /\ call[r].asked.file
  BY DEF FileFound
<1> QED BY <1>2, <1>3

LEMMA FileFoundKeeps == ASSUME DetailIInv, NEW r \in Requests, FileFound(r) PROVE DetailIInv'
<1>1. PICK b : \E chain \in SUBSET FileRows(b) : \E own :
        Deliver(r, [Alone(call[r]) EXCEPT !.chain = chain, !.needed = {own}])
  BY FileAnswer
<1>1a. PICK chain \in SUBSET FileRows(b) : \E own :
        Deliver(r, [Alone(call[r]) EXCEPT !.chain = chain, !.needed = {own}])
  BY <1>1
<1>2. PICK own :
        Deliver(r, [Alone(call[r]) EXCEPT !.chain = chain, !.needed = {own}])
  BY <1>1a
<1> DEFINE a == [Alone(call[r]) EXCEPT !.chain = chain, !.needed = {own}]
<1>3. a.of = call[r].asked /\ a.ok = TRUE
  BY DEF Alone, NoAnswer
<1>4. call[r].at # "off" /\ Deliver(r, a)
  BY <1>2, FileAnswer
<1> HIDE DEF a
<1> QED BY <1>3, <1>4, DeliverKeeps

-----------------------------------------------------------------------------
(* Steps of the console *)

\* A step that leaves VBR alone keeps its chains.
LEMMA ChainsKeep ==
  ASSUME DetailIInv, UNCHANGED vbr PROVE Rooted' /\ Ready'
  BY DEF DetailIInv, Rooted, Ready, ChainOf, vbr

LEMMA SelectKeeps ==
  ASSUME DetailIInv, NEW r \in Requests, NEW p \in Ids, Select(r, p) PROVE DetailIInv'
<1> DEFINE c == [Idle EXCEPT !.at = "point", !.asked = p]
<1>1. /\ selected' = p /\ detail' = NoDetail /\ drawn' = Render(p, NoDetail)
      /\ made' = made /\ held' = held /\ fulls' = fulls /\ call' = [call EXCEPT ![r] = c]
  BY DEF Select, vbr
<1>2. p # NoPoint
  BY IdsAre
<1>3. drawn' = [kind |-> "loading", of |-> NoPoint] /\ NoDetail \in [of : Ids \cup {NoPoint}, ok : BOOLEAN]
  BY <1>1, <1>2 DEF Render, NoDetail
<1>4. c \in Calls /\ c.at = "point" /\ c.asked = p /\ c.steady = {} /\ c.fleeting = {}
  BY <1>2 DEF Idle, Calls, Vms
<1> HIDE DEF c
<1>5. /\ call \in [Requests -> Calls] /\ call' \in [Requests -> Calls] /\ call'[r] = c
      /\ \A s \in Requests \ {r} : call'[s] = call[s]
  BY <1>1, <1>4 DEF DetailIInv, Shapes
<1>6. Shapes'
  BY <1>1, <1>2, <1>3, <1>5 DEF DetailIInv, Shapes
<1>7. Asks' /\ Reads'
  BY <1>1, <1>2, <1>4, <1>5 DEF DetailIInv, Asks, Reads
<1>8. Pane'
  <2>1. call'[r].at # "off" /\ call'[r].asked = selected'
    BY <1>1, <1>4, <1>5
  <2> QED BY <1>1, <1>2, <1>3, <2>1 DEF Pane, Awaited, LoadingIsAwaited
<1>9. Rooted' /\ Ready'
  BY <1>1, ChainsKeep DEF vbr
<1> QED BY <1>6, <1>7, <1>8, <1>9 DEF DetailIInv

LEMMA SwitchLangKeeps == ASSUME DetailIInv, SwitchLang PROVE DetailIInv'
<1>1. /\ selected' = selected /\ detail' = detail /\ drawn' = Render(selected, detail)
      /\ call' = call /\ made' = made /\ held' = held /\ fulls' = fulls
  BY DEF SwitchLang, vbr
<1>2. /\ drawn' \in [kind : {"empty", "loading", "error", "detail"}, of : Ids \cup {NoPoint}]
      /\ drawn'.kind = "empty" <=> selected = NoPoint
      /\ drawn'.kind = "loading" => selected # NoPoint /\ detail = NoDetail
  <2>1. selected \in Ids \cup {NoPoint} /\ detail.of \in Ids \cup {NoPoint}
    BY DEF DetailIInv, Shapes
  <2>2. CASE selected = NoPoint
    BY <1>1, <2>1, <2>2 DEF Render
  <2>3. CASE selected # NoPoint /\ detail = NoDetail
    BY <1>1, <2>1, <2>3 DEF Render
  <2>4. CASE selected # NoPoint /\ detail # NoDetail
    BY <1>1, <2>1, <2>4 DEF Render
  <2> QED BY <2>2, <2>3, <2>4
<1>3. Shapes' /\ Asks' /\ Reads'
  BY <1>1, <1>2 DEF DetailIInv, Shapes, Asks, Reads
<1>4. Pane'
  BY <1>1, <1>2 DEF DetailIInv, Pane, Awaited, LoadingIsAwaited
<1>5. Rooted' /\ Ready'
  BY <1>1, ChainsKeep DEF vbr
<1> QED BY <1>3, <1>4, <1>5 DEF DetailIInv

LEMMA SelectAndLoadKeeps == ASSUME DetailIInv, SelectAndLoad PROVE DetailIInv'
<1>1. /\ selected' = NoPoint /\ detail' = NoDetail /\ drawn' = Render(NoPoint, NoDetail)
      /\ call' = call /\ made' = made /\ held' = held /\ fulls' = fulls
  BY DEF SelectAndLoad, vbr
<1>2. drawn' = [kind |-> "empty", of |-> NoPoint] /\ NoDetail \in [of : Ids \cup {NoPoint}, ok : BOOLEAN]
  BY <1>1 DEF Render, NoDetail
<1>3. Shapes' /\ Asks' /\ Reads' /\ Pane'
  BY <1>1, <1>2 DEF DetailIInv, Shapes, Asks, Reads, Pane, LoadingIsAwaited
<1>4. Rooted' /\ Ready'
  BY <1>1, ChainsKeep DEF vbr
<1> QED BY <1>3, <1>4 DEF DetailIInv

-----------------------------------------------------------------------------
(* Steps of VBR *)

\* What a change makes of a request.
LEMMA NoticeIs ==
  ASSUME DetailIInv, held' \subseteq Points, NEW c \in Calls
  PROVE  LET now == RowsOf(c.vm, held', fulls')
         IN  /\ Notice(c) \in Calls
             /\ Notice(c).at = c.at /\ Notice(c).asked = c.asked /\ Notice(c).vm = c.vm
             /\ c.at # "reading" => Notice(c).steady = c.steady /\ Notice(c).fleeting = c.fleeting
             /\ c.at = "reading" =>
                  /\ Notice(c).steady = c.steady \cap now
                  /\ Notice(c).fleeting = c.fleeting \cup (c.steady \ now) \cup (now \ c.steady)
<1> DEFINE now == RowsOf(c.vm, held', fulls')
<1>1. now \in SUBSET Rows
  BY RowsAre
<1>2. Notice(c) = IF c.at # "reading" THEN c
                  ELSE [c EXCEPT !.steady = c.steady \cap now,
                                 !.fleeting = c.fleeting \cup (c.steady \ now) \cup (now \ c.steady)]
  BY DEF Notice, Calls
<1> HIDE DEF now
<1>3. CASE c.at # "reading"
  BY <1>2, <1>3
<1>4. CASE c.at = "reading"
  <2>1. Notice(c) = [c EXCEPT !.steady = c.steady \cap now,
                              !.fleeting = c.fleeting \cup (c.steady \ now) \cup (now \ c.steady)]
    BY <1>2, <1>4
  <2>2. /\ Notice(c) \in Calls
        /\ Notice(c).at = c.at /\ Notice(c).asked = c.asked /\ Notice(c).vm = c.vm
        /\ Notice(c).steady = c.steady \cap now
        /\ Notice(c).fleeting = c.fleeting \cup (c.steady \ now) \cup (now \ c.steady)
    BY <1>1, <2>1 DEF Calls
  <2> QED BY <1>4, <2>2 DEF now
<1> QED BY <1>3, <1>4

LEMMA NewsKeeps ==
  ASSUME DetailIInv, News, made' \subseteq Points, held' \subseteq made', fulls' \subseteq held'
  PROVE  Shapes' /\ Asks' /\ Reads' /\ Pane'
<1>1. /\ selected' = selected /\ detail' = detail /\ drawn' = drawn
      /\ call' = [r \in Requests |-> Notice(call[r])] /\ call \in [Requests -> Calls]
  BY DEF News, console, DetailIInv, Shapes
<1>2. ASSUME NEW r \in Requests
      PROVE  LET c == call[r] d == call'[r] now == RowsOf(c.vm, held', fulls')
             IN  /\ d \in Calls /\ d.at = c.at /\ d.asked = c.asked /\ d.vm = c.vm
                 /\ c.at # "reading" => d.steady = c.steady /\ d.fleeting = c.fleeting
                 /\ c.at = "reading" =>
                      /\ d.steady = c.steady \cap now
                      /\ d.fleeting = c.fleeting \cup (c.steady \ now) \cup (now \ c.steady)
  <2>1. call[r] \in Calls /\ call'[r] = Notice(call[r])
    BY <1>1
  <2> QED BY <2>1, NoticeIs
<1>3. Shapes'
  <2>1. call' \in [Requests -> Calls]
    BY <1>1, <1>2
  <2> QED BY <1>1, <2>1 DEF DetailIInv, Shapes
<1>4. Asks'
  BY <1>2 DEF DetailIInv, Asks
<1>5. Reads'
  <2> SUFFICES ASSUME NEW r \in Requests
               PROVE  LET c == call'[r] IN
                      /\ c.at # "reading" => c.steady = {} /\ c.fleeting = {}
                      /\ c.at = "reading" =>
                           /\ c.steady \subseteq RowsOf(c.vm, held', fulls')
                           /\ RowsOf(c.vm, held', fulls') \subseteq c.steady \cup c.fleeting
                           /\ \A x \in c.fleeting : x.point.vm = c.vm /\ ~x.file
    BY DEF Reads
  <2> DEFINE vm == call[r].vm
             now == RowsOf(vm, held', fulls')
             old == RowsOf(vm, held, fulls)
  <2>1. CASE call[r].at # "reading"
    BY <1>2, <2>1 DEF DetailIInv, Reads
  <2>2. CASE call[r].at = "reading"
    <3>1. /\ call[r].steady \subseteq old
          /\ \A x \in call[r].fleeting : x.point.vm = vm /\ ~x.file
      BY <2>2 DEF DetailIInv, Reads
    <3>2. \A x \in old \cup now : x.point.vm = vm /\ ~x.file
      BY RowsAre DEF DetailIInv, Shapes
    <3>3. /\ call'[r].at = "reading" /\ call'[r].vm = vm /\ call'[r].steady = call[r].steady \cap now
          /\ call'[r].fleeting = call[r].fleeting \cup (call[r].steady \ now) \cup (now \ call[r].steady)
      BY <1>2, <2>2
    <3> HIDE DEF now, old, vm
    <3>4. /\ call'[r].steady \subseteq now /\ now \subseteq call'[r].steady \cup call'[r].fleeting
          /\ \A x \in call'[r].fleeting : x.point.vm = vm /\ ~x.file
      BY <3>1, <3>2, <3>3
    <3> QED BY <3>3, <3>4 DEF now
  <2> QED BY <2>1, <2>2
<1>6. Pane'
  BY <1>1, <1>2 DEF DetailIInv, Pane, Awaited, LoadingIsAwaited
<1> QED BY <1>3, <1>4, <1>5, <1>6

\* A point that is made: an increment has its full behind it, as the chain has come so far.
LEMMA MakeKeeps == ASSUME DetailIInv, Make PROVE DetailIInv'
<1>1. PICK p \in Points \ made :
        /\ \A q \in Points \ made : p.date <= q.date
        /\ made' = made \cup {p} /\ held' = held \cup {p}
        /\ fulls' = IF p.start THEN fulls \cup {p} ELSE fulls
        /\ News
  BY DEF Make
<1>2. /\ fulls \subseteq held /\ held \subseteq made /\ made \subseteq Points /\ p \in Points
      /\ \A q \in Points : q.date \in Nat
  BY PointsAssumption DEF DetailIInv, Shapes
<1>3. Shapes' /\ Asks' /\ Reads' /\ Pane'
  BY <1>1, <1>2, NewsKeeps
<1>4. Rooted'
  <2> SUFFICES ASSUME NEW x \in held'
               PROVE  \E q \in held' \cap fulls' : SameChain(x, q) /\ q.date <= x.date
    BY <1>1, <1>2 DEF Rooted, ChainOf
  <2>1. ASSUME NEW y \in held
        PROVE  \E q \in held' \cap fulls' : SameChain(y, q) /\ q.date <= y.date
    BY <1>1, <2>1 DEF DetailIInv, Rooted, ChainOf
  <2>2. CASE x \in held
    BY <2>1, <2>2
  <2>3. CASE x = p /\ p.start
    BY <1>1, <1>2, <2>3 DEF SameChain
  <2>4. CASE x = p /\ ~p.start
    <3>1. ~\E q \in Points \ made : SameChain(p, q) /\ q.start /\ q.date < p.date
      BY <1>1, <1>2
    <3>2. PICK y \in held : SameChain(p, y)
      BY <1>1, <2>4, <3>1 DEF DetailIInv, Ready
    <3>3. PICK q \in held' \cap fulls' : SameChain(y, q) /\ q.date <= y.date
      BY <2>1
    <3>4. y.date <= p.date
      BY <1>1, <1>2 DEF DetailIInv, Ready
    <3>5. q.date <= p.date
      BY <1>1, <1>2, <3>3, <3>4
    <3> QED BY <2>4, <3>2, <3>3, <3>5 DEF SameChain
  <2> QED BY <1>1, <2>2, <2>3, <2>4
<1>5. Ready'
  <2> SUFFICES ASSUME NEW x \in Points \ made'
               PROVE  /\ \A q \in made' : q.date <= x.date
                      /\ x.start \/ (\E q \in held' : SameChain(x, q))
                         \/ \E q \in Points \ made' : SameChain(x, q) /\ q.start /\ q.date < x.date
    BY DEF Ready
  <2>1. \A q \in made' : q.date <= x.date
    BY <1>1 DEF DetailIInv, Ready
  <2>2. x.start \/ (\E q \in held : SameChain(x, q))
        \/ \E q \in Points \ made : SameChain(x, q) /\ q.start /\ q.date < x.date
    BY <1>1 DEF DetailIInv, Ready
  <2> QED BY <1>1, <2>1, <2>2
<1> QED BY <1>3, <1>4, <1>5 DEF DetailIInv

\* A point that goes: what is left of its chain has a full again.
LEMMA RetireKeeps == ASSUME DetailIInv, NEW p \in held, Retire(p) PROVE DetailIInv'
<1> DEFINE rest == ChainOf(p) \ {p}
           first == {q \in rest : \A s \in rest : q.date <= s.date}
<1>1. /\ \A q \in rest : p.date < q.date
      /\ rest = {} => \A q \in Points \ made : SameChain(p, q) => q.start
      /\ held' = held \ {p} /\ fulls' = (fulls \ {p}) \cup first /\ News /\ made' = made
  BY DEF Retire
<1>2. /\ fulls \subseteq held /\ held \subseteq made /\ made \subseteq Points
      /\ \A q \in Points : q.date \in Nat
  BY PointsAssumption DEF DetailIInv, Shapes
<1>3. rest \subseteq held \ {p} /\ \A q : q \in rest <=> q \in held /\ q # p /\ SameChain(p, q)
  BY DEF ChainOf
<1>4. first \subseteq rest /\ (rest # {} => \E q \in first : \A s \in rest : q.date <= s.date)
  <2>1. first \subseteq rest
    OBVIOUS
  <2>2. ASSUME rest # {} PROVE \E q \in rest : \A s \in rest : q.date <= s.date
    <3> DEFINE dates == {q.date : q \in rest}
    <3>1. dates \in SUBSET Nat /\ dates # {}
      BY <1>2, <1>3, <2>2
    <3> HIDE DEF dates
    <3>2. PICK m \in dates : \A k \in dates : m <= k
      BY <3>1, LeastNatural
    <3> QED BY <3>2 DEF dates
  <2> QED BY <2>1, <2>2
<1> HIDE DEF rest, first
<1>5. Shapes' /\ Asks' /\ Reads' /\ Pane'
  <2>1. made' \subseteq Points /\ held' \subseteq made' /\ fulls' \subseteq held'
    BY <1>1, <1>2, <1>3, <1>4
  <2> QED BY <1>1, <2>1, NewsKeeps
<1>6. Rooted'
  <2> SUFFICES ASSUME NEW x \in held'
               PROVE  \E q \in held' \cap fulls' : SameChain(x, q) /\ q.date <= x.date
    BY <1>1, <1>2 DEF Rooted, ChainOf
  <2>1. CASE SameChain(p, x)
    <3>1. x \in rest
      BY <1>1, <1>3, <2>1
    <3>2. PICK q \in first : \A s \in rest : q.date <= s.date
      BY <1>4, <3>1
    <3>3. q \in held' \cap fulls' /\ SameChain(x, q) /\ q.date <= x.date
      BY <1>1, <1>3, <1>4, <2>1, <3>1, <3>2 DEF SameChain
    <3> QED BY <3>3
  <2>2. CASE ~SameChain(p, x)
    <3>1. PICK q \in held \cap fulls : SameChain(x, q) /\ q.date <= x.date
      BY <1>1 DEF DetailIInv, Rooted, ChainOf
    <3>2. q # p
      BY <2>2, <3>1 DEF SameChain
    <3> QED BY <1>1, <3>1, <3>2
  <2> QED BY <2>1, <2>2
<1>7. Ready'
  <2> SUFFICES ASSUME NEW x \in Points \ made
               PROVE  /\ \A q \in made : q.date <= x.date
                      /\ x.start \/ (\E q \in held' : SameChain(x, q))
                         \/ \E q \in Points \ made : SameChain(x, q) /\ q.start /\ q.date < x.date
    BY <1>1 DEF Ready
  <2>1. /\ \A q \in made : q.date <= x.date
        /\ x.start \/ (\E q \in held : SameChain(x, q))
           \/ \E q \in Points \ made : SameChain(x, q) /\ q.start /\ q.date < x.date
    BY DEF DetailIInv, Ready
  <2>2. ASSUME SameChain(x, p), ~x.start PROVE \E q \in held' : SameChain(x, q)
    <3>1. SameChain(p, x)
      BY <2>2 DEF SameChain
    <3>2. rest # {}
      BY <1>1, <2>2, <3>1
    <3>3. PICK q \in rest : TRUE
      BY <3>2
    <3>4. q \in held' /\ SameChain(x, q)
      BY <1>1, <1>3, <2>2, <3>3 DEF SameChain
    <3> QED BY <3>4
  <2> QED BY <1>1, <2>1, <2>2
<1> QED BY <1>5, <1>6, <1>7 DEF DetailIInv

-----------------------------------------------------------------------------
(* The invariant of every step *)

LEMMA DetailInitInv == ASSUME DetailInit PROVE DetailIInv
<1>1. Idle \in Calls /\ NoDetail \in [of : Ids \cup {NoPoint}, ok : BOOLEAN]
  BY DEF Idle, Calls, Vms, NoDetail
<1>2. Shapes
  BY <1>1 DEF DetailInit, Shapes
<1>3. Rooted
  BY DEF DetailInit, Rooted
<1>4. Ready
  <2> SUFFICES ASSUME NEW p \in Points, ~p.start
               PROVE  \E q \in Points : SameChain(p, q) /\ q.start /\ q.date < p.date
    BY DEF DetailInit, Ready
  <2> QED BY ChainsAssumption
<1>5. Asks /\ Reads /\ Pane
  BY DEF DetailInit, Asks, Reads, Pane, LoadingIsAwaited, Idle
<1> QED BY <1>2, <1>3, <1>4, <1>5 DEF DetailIInv

LEMMA DetailStutters == ASSUME DetailIInv, UNCHANGED detailVars PROVE DetailIInv'
<1>1. Shapes' /\ Asks' /\ Reads' /\ Pane'
  BY DEF DetailIInv, detailVars, console, vbr, Shapes, Asks, Reads, Pane, Awaited, LoadingIsAwaited
<1>2. Rooted' /\ Ready'
  BY ChainsKeep DEF detailVars
<1> QED BY <1>1, <1>2 DEF DetailIInv

LEMMA DetailStepInv == ASSUME DetailIInv, [DetailNext]_detailVars PROVE DetailIInv'
<1>1. ASSUME NEW r \in Requests, Step(r) PROVE DetailIInv'
  <2>1. CASE Refused(r)
    BY <2>1, RefusedKeeps
  <2>2. CASE GetRestorePoint(r)
    BY <2>2, GetRestorePointKeeps
  <2>3. CASE AskList(r)
    BY <2>3, AskListKeeps
  <2>4. CASE NoWorkload(r)
    BY <2>4, NoWorkloadKeeps
  <2>5. CASE ListAnswered(r)
    BY <2>5, ListAnsweredKeeps
  <2>6. CASE FileFound(r)
    BY <2>6, FileFoundKeeps
  <2> QED BY <1>1, <2>1, <2>2, <2>3, <2>4, <2>5, <2>6 DEF Step
<1>2. ASSUME NEW r \in Requests, NEW p \in Ids, Select(r, p) PROVE DetailIInv'
  BY <1>2, SelectKeeps
<1>3. made \cup {FileOf(q) : q \in made \cap Clicked} \subseteq Ids
  BY IdsAre DEF DetailIInv, Shapes
<1>4. ASSUME NEW p \in held, Retire(p) PROVE DetailIInv'
  BY <1>4, RetireKeeps
<1> QED BY <1>1, <1>2, <1>3, <1>4, SwitchLangKeeps, SelectAndLoadKeeps, MakeKeeps, DetailStutters
        DEF DetailNext

THEOREM DetailInvariant == DetailSpec => []DetailIInv
<1>1. DetailInit => DetailIInv
  BY DetailInitInv
<1>2. DetailIInv /\ [DetailNext]_detailVars => DetailIInv'
  BY DetailStepInv
<1> QED BY <1>1, <1>2, PTL DEF DetailSpec

-----------------------------------------------------------------------------
(* What an answer says *)

LEMMA MinIs ==
  ASSUME NEW A \in SUBSET Nat, A # {}
  PROVE  Min(A) \in A /\ \A k \in A : Min(A) <= k
<1>1. \E m \in A : \A k \in A : m <= k
  BY LeastNatural
<1> QED BY <1>1 DEF Min

LEMMA MaxIs ==
  ASSUME NEW A \in SUBSET Nat, A # {}, NEW n \in Nat, \A k \in A : k <= n
  PROVE  Max(A) \in A /\ \A k \in A : k <= Max(A)
<1>1. \E m \in A : \A k \in A : m >= k
  BY GreatestNatural
<1>2. Max(A) \in A /\ \A k \in A : Max(A) >= k
  BY <1>1 DEF Max
<1> QED BY <1>2

\* The properties of DetailTypeOK, OneChain and VerdictOfItsLog, of any answer.
Typed(a) == a.of \in Ids \cup {NoPoint} /\ a.chain \subseteq Rows /\ a.locations \subseteq Rows
Single(a) ==
  a.ok /\ ~a.of.file =>
    /\ \A x \in a.chain :
         /\ Job(x.point) = Job(a.of)
         /\ x.full => \A y \in a.chain : x.point.date <= y.point.date
    /\ \E x \in a.needed : x.point = a.of /\ ~x.file
    /\ \A x \in a.chain : x \in a.needed <=> x.point.date <= a.of.date
    /\ Cardinality(a.of.named) <= 1 =>
         \A x \in a.chain \cup a.locations : x.file \/ x.point.vm = a.of.vm
Quoted(p, v) ==
  v.line # 0 =>
    \E t \in TasksFor(p) :
      LET line == t.log[v.line]
          worse == CASE line.status = "Success" -> {"Warning", "Failed"}
                     [] line.status = "Warning" -> {"Failed"}
                     [] OTHER -> {}
      IN /\ line.guest
         /\ <<v.verdict, line.status>> \in
              {<<"ok", "Success">>, <<"warn", "Warning">>, <<"fail", "Failed">>}
         /\ \A i \in DOMAIN t.log : t.log[i].guest => t.log[i].status \notin worse
Sound(a) == Typed(a) /\ Single(a) /\ Quoted(a.of, a.aaip)

LEMMA NothingQuoted == ASSUME NEW p PROVE Quoted(p, NoVerdict)
  BY DEF Quoted, NoVerdict

LEMMA NoAnswerIsSound == Sound(NoAnswer)
<1>1. Typed(NoAnswer) /\ Single(NoAnswer)
  BY DEF NoAnswer, Typed, Single
<1>2. NoAnswer.aaip = NoVerdict
  BY DEF NoAnswer
<1> QED BY <1>1, <1>2, NothingQuoted DEF Sound

\* A log whose worst line about the guest is the one that is quoted.
LEMMA ClassifyIs ==
  ASSUME NEW p \in Points, NEW t \in Tasks[p], Classify(t.log).line # 0
  PROVE  LET v == Classify(t.log)
             line == t.log[v.line]
             worse == CASE line.status = "Success" -> {"Warning", "Failed"}
                        [] line.status = "Warning" -> {"Failed"}
                        [] OTHER -> {}
         IN  /\ line.guest
             /\ <<v.verdict, line.status>> \in
                  {<<"ok", "Success">>, <<"warn", "Warning">>, <<"fail", "Failed">>}
             /\ \A i \in DOMAIN t.log : t.log[i].guest => t.log[i].status \notin worse
<1> DEFINE log == t.log
           failed == Guest(log, "Failed")
           warned == Guest(log, "Warning")
           fine == Guest(log, "Success")
           v == Classify(log)
<1>1. Len(log) \in Nat /\ DOMAIN log = 1..Len(log)
  BY TasksAssumption
<1> HIDE DEF log
<1>2. /\ failed \in SUBSET Nat /\ warned \in SUBSET Nat /\ fine \in SUBSET Nat
      /\ \A i \in failed \cup warned \cup fine : i <= Len(log)
  BY <1>1 DEF Guest
<1>3. /\ \A i \in failed : i \in DOMAIN log /\ log[i].guest /\ log[i].status = "Failed"
      /\ \A i \in warned : i \in DOMAIN log /\ log[i].guest /\ log[i].status = "Warning"
      /\ \A i \in fine : i \in DOMAIN log /\ log[i].guest /\ log[i].status = "Success"
      /\ failed = {} => \A i \in DOMAIN log : log[i].guest => log[i].status # "Failed"
      /\ warned = {} => \A i \in DOMAIN log : log[i].guest => log[i].status # "Warning"
  BY DEF Guest
<1>4. v = CASE failed # {} -> [verdict |-> "fail", line |-> Min(failed)]
            [] failed = {} /\ warned # {} -> [verdict |-> "warn", line |-> Max(warned)]
            [] OTHER -> [verdict |-> "ok", line |-> IF fine = {} THEN 0 ELSE Min(fine)]
  BY DEF Classify
<1>5. v.line # 0
  BY DEF log
<1> HIDE DEF failed, warned, fine, v
<1>6. CASE failed # {}
  <2>1. v = [verdict |-> "fail", line |-> Min(failed)] /\ Min(failed) \in failed
    BY <1>2, <1>4, <1>6, MinIs
  <2>2. v.verdict = "fail" /\ v.line \in failed
    BY <2>1
  <2> QED BY <1>3, <2>2 DEF v, log
<1>7. CASE failed = {} /\ warned # {}
  <2>1. v = [verdict |-> "warn", line |-> Max(warned)]
    BY <1>4, <1>7
  <2>2. Max(warned) \in warned
    BY <1>1, <1>2, <1>7, MaxIs
  <2>3. v.verdict = "warn" /\ v.line \in warned
    BY <2>1, <2>2
  <2> QED BY <1>3, <1>7, <2>3 DEF v, log
<1>8. CASE failed = {} /\ warned = {}
  <2>1. v = [verdict |-> "ok", line |-> IF fine = {} THEN 0 ELSE Min(fine)]
    BY <1>4, <1>8
  <2>2. fine # {} /\ v = [verdict |-> "ok", line |-> Min(fine)]
    BY <1>5, <2>1
  <2>3. v.verdict = "ok" /\ v.line \in fine
    BY <1>2, <2>2, MinIs
  <2> QED BY <1>3, <1>8, <2>3 DEF v, log
<1> QED BY <1>6, <1>7, <1>8

LEMMA AaipIsQuoted == ASSUME NEW p \in Points, NEW v \in Aaip(p) PROVE Quoted(p, v)
<1>1. v.line = 0 \/ \E t \in TasksFor(p) : v = Classify(t.log)
  <2>1. v = NoVerdict \/ v = [NoVerdict EXCEPT !.verdict = "off"] \/ v = [NoVerdict EXCEPT !.verdict = "ok"]
        \/ \E t \in TasksFor(p) : v = Classify(t.log)
    BY DEF Aaip
  <2>2. /\ NoVerdict.line = 0
        /\ [NoVerdict EXCEPT !.verdict = "off"].line = 0
        /\ [NoVerdict EXCEPT !.verdict = "ok"].line = 0
    BY DEF NoVerdict
  <2> QED BY <2>1, <2>2
<1>2. ASSUME NEW t \in TasksFor(p), v = Classify(t.log), v.line # 0 PROVE Quoted(p, v)
  <2>1. t \in Tasks[p]
    BY DEF TasksFor
  <2> QED BY <1>2, <2>1, ClassifyIs DEF Quoted
<1> QED BY <1>1, <1>2 DEF Quoted

\* Where the chain of a point that is in its list opens.
LEMMA OpensIs ==
  ASSUME NEW same \in SUBSET Rows, NEW p \in Points, NEW own \in same, own.point = p
  PROVE  /\ Opens(same, p) \in Nat /\ Opens(same, p) <= p.date
         /\ \A y \in same : y.full /\ y.point.date <= p.date => y.point.date <= Opens(same, p)
         /\ \A z \in same : z.full /\ z.point.date <= p.date =>
              \E y \in same : y.full /\ y.point.date <= p.date /\ y.point.date = Opens(same, p)
<1> DEFINE before == {y \in same : y.full /\ y.point.date <= p.date}
           opening == {x.point.date : x \in before}
           dates == {x.point.date : x \in same}
<1>1. p.date \in Nat /\ \A x \in same : x.point \in Points /\ x.point.date \in Nat
  BY PointsAssumption DEF Rows
<1>2. Opens(same, p) = IF opening # {} THEN Max(opening) ELSE Min(dates)
  BY DEF Opens
<1>3. opening \in SUBSET Nat /\ \A k \in opening : k <= p.date
  BY <1>1
<1>4. dates \in SUBSET Nat /\ p.date \in dates
  BY <1>1
<1>5. /\ \A k \in opening : \E y \in same : y.full /\ y.point.date <= p.date /\ y.point.date = k
      /\ \A y \in same : y.full /\ y.point.date <= p.date => y.point.date \in opening
  OBVIOUS
<1> HIDE DEF before, opening, dates
<1>6. CASE opening # {}
  <2>1. Max(opening) \in opening /\ \A k \in opening : k <= Max(opening)
    BY <1>1, <1>3, <1>6, MaxIs
  <2>2. Opens(same, p) = Max(opening)
    BY <1>2, <1>6
  <2> QED BY <1>3, <1>5, <2>1, <2>2
<1>7. CASE opening = {}
  <2>1. Min(dates) \in dates /\ \A k \in dates : Min(dates) <= k
    BY <1>4, MinIs
  <2>2. Opens(same, p) = Min(dates)
    BY <1>2, <1>7
  <2> QED BY <1>4, <1>5, <1>7, <2>1, <2>2
<1> QED BY <1>6, <1>7

\* A chain of a list that has the point: it holds the point, and no full but its first.
LEMMA ChainIs ==
  ASSUME NEW same \in SUBSET Rows, NEW p \in Points, NEW own \in same, own.point = p
  PROVE  /\ Chain(same, p) \subseteq same /\ own \in Chain(same, p)
         /\ \A x \in Chain(same, p) : x.full => \A y \in Chain(same, p) : x.point.date <= y.point.date
<1>1. p.date \in Nat /\ \A x \in same : x.point \in Points /\ x.point.date \in Nat
  BY PointsAssumption DEF Rows
<1>2. /\ Opens(same, p) \in Nat /\ Opens(same, p) <= p.date
      /\ \A y \in same : y.full /\ y.point.date <= p.date => y.point.date <= Opens(same, p)
  BY OpensIs
<1>3. Chain(same, p) \subseteq same
  BY DEF Chain
<1>4. own \in Chain(same, p)
  BY <1>1, <1>2 DEF Chain, Closes
<1>5. ASSUME NEW x \in Chain(same, p), x.full, NEW y \in Chain(same, p)
      PROVE  x.point.date <= y.point.date
  <2>1. x \in same /\ y \in same /\ Opens(same, p) <= y.point.date /\ Closes(same, x, p)
    BY DEF Chain
  <2>2. CASE x.point.date <= p.date
    BY <1>1, <1>2, <1>5, <2>1, <2>2
  <2>3. CASE ~(x.point.date <= p.date)
    <3>1. p.date < x.point.date
      BY <1>1, <2>1, <2>3
    <3>2. x.point.date < x.point.date
      BY <1>5, <2>1, <3>1 DEF Closes
    <3> QED BY <1>1, <2>1, <3>2
  <2> QED BY <2>2, <2>3
<1> QED BY <1>3, <1>4, <1>5

\* The answer of a point alone, without or with other locations.
LEMMA AloneIsSound ==
  ASSUME NEW c \in Calls, c.asked \in Points, ~c.asked.file, NEW a,
         a.of = c.asked, a.chain = Alone(c).chain, a.needed = Alone(c).needed,
         a.locations \subseteq Rows,
         Cardinality(c.asked.named) <= 1 => \A x \in a.locations : x.file \/ x.point.vm = c.asked.vm
  PROVE  Typed(a) /\ Single(a)
<1>1. PICK own : /\ own = [point |-> c.asked, full |-> c.full, file |-> FALSE]
                 /\ a.chain = {own} /\ a.needed = {own}
  BY AloneIs
<1>2. own \in Rows /\ own.point = c.asked /\ ~own.file
  BY <1>1 DEF Rows, Calls
<1>3. own.point.date <= own.point.date
  BY <1>2, PointsAssumption
<1>4. Typed(a)
  BY <1>1, <1>2, IdsAre DEF Typed
<1>5. Single(a)
  BY <1>1, <1>2, <1>3 DEF Single
<1> QED BY <1>4, <1>5

LEMMA ListAnswerIsSound ==
  ASSUME DetailIInv, NEW r \in Requests, ListAnswered(r) PROVE Sound(answer')
<1>1. PICK rows \in SUBSET (call[r].steady \cup call[r].fleeting),
           files \in SUBSET UNION {FileRows(b) : b \in Backups}, l \in BOOLEAN :
        Deliver(r, Answer(call[r], rows \cup files, l))
  BY ListAnswer
<1> DEFINE c == call[r]
           p == c.asked
           list == rows \cup files
           same == Same(c, list)
           a == answer'
<1> SUFFICES Sound(a)
  OBVIOUS
<1>2. call[r].at = "reading"
  BY ListAnswer
<1>3. /\ c \in Calls /\ p \in Points /\ ~p.file /\ p.date \in Nat
      /\ Cardinality(p.named) <= 1 => c.vm = p.vm
  BY <1>2, PointsAssumption DEF DetailIInv, Shapes, Asks
<1>4. rows \subseteq Rows /\ \A x \in rows : x.point.vm = c.vm /\ ~x.file
  <2>1. /\ c.steady \subseteq RowsOf(c.vm, held, fulls)
        /\ \A x \in c.fleeting : x.point.vm = c.vm /\ ~x.file
    BY <1>2 DEF DetailIInv, Reads
  <2>2. \A x \in RowsOf(c.vm, held, fulls) : x.point.vm = c.vm /\ ~x.file
    BY RowsAre DEF DetailIInv, Shapes
  <2>3. c.steady \subseteq Rows /\ c.fleeting \subseteq Rows
    BY <1>3 DEF Calls
  <2> QED BY <2>1, <2>2, <2>3
<1>5. files \subseteq Rows /\ \A x \in files : x.file
  BY FileRowsAre
<1>6. /\ list \subseteq Rows
      /\ Cardinality(p.named) <= 1 => \A x \in list : x.file \/ x.point.vm = p.vm
  BY <1>3, <1>4, <1>5
<1>7. a = Answer(c, list, l)
  BY <1>1 DEF Deliver
<1>8. same \subseteq list /\ Elsewhere(c, list) \subseteq list /\ \A x \in same : Job(x.point) = Job(p)
  BY DEF Same, Elsewhere
<1> HIDE DEF c, p, list, same, a
<1>9. /\ a.of = p /\ a.ok = TRUE /\ a.locations = Elsewhere(c, list) /\ a.aaip = NoVerdict
      /\ IsFound(c, list) => a.chain = Chain(same, p) /\ a.needed = NeededFor(Chain(same, p), p)
      /\ ~IsFound(c, list) => a.chain = Alone(c).chain /\ a.needed = Alone(c).needed
  BY <1>7, AnswerIs DEF same, p
<1>10. Quoted(a.of, a.aaip)
  BY <1>9, NothingQuoted
<1>11. CASE IsFound(c, list)
  <2>1. PICK own \in same : own.point = p /\ ~own.file
    BY <1>11 DEF IsFound, same, p
  <2> DEFINE chain == Chain(same, p)
  <2>2. /\ chain \subseteq same /\ own \in chain
        /\ \A x \in chain : x.full => \A y \in chain : x.point.date <= y.point.date
    <3>1. same \in SUBSET Rows /\ p \in Points
      BY <1>3, <1>6, <1>8
    <3> QED BY <2>1, <3>1, ChainIs
  <2>3. /\ own \in NeededFor(chain, p)
        /\ \A x \in chain : x \in NeededFor(chain, p) <=> x.point.date <= p.date
    <3>1. own.point.date <= p.date
      BY <1>3, <2>1
    <3> QED BY <2>2, <3>1 DEF NeededFor
  <2> HIDE DEF chain
  <2>4. a.chain = chain /\ a.needed = NeededFor(chain, p)
    BY <1>9, <1>11 DEF chain
  <2>5. Typed(a)
    BY <1>3, IdsAre, <1>6, <1>8, <1>9, <2>2, <2>4 DEF Typed
  <2>6. /\ \A x \in a.chain :
             /\ Job(x.point) = Job(a.of)
             /\ x.full => \A y \in a.chain : x.point.date <= y.point.date
        /\ \E x \in a.needed : x.point = a.of /\ ~x.file
        /\ \A x \in a.chain : x \in a.needed <=> x.point.date <= a.of.date
    BY <1>8, <1>9, <2>1, <2>2, <2>3, <2>4
  <2>7. Cardinality(a.of.named) <= 1 =>
          \A x \in a.chain \cup a.locations : x.file \/ x.point.vm = a.of.vm
    BY <1>6, <1>8, <1>9, <2>2, <2>4
  <2> QED BY <1>10, <2>5, <2>6, <2>7 DEF Sound, Single
<1>12. CASE ~IsFound(c, list)
  <2>1. /\ a.locations \subseteq Rows
        /\ Cardinality(p.named) <= 1 => \A x \in a.locations : x.file \/ x.point.vm = p.vm
    BY <1>6, <1>8, <1>9
  <2>2. Typed(a) /\ Single(a)
    BY <1>3, <1>9, <1>12, <2>1, AloneIsSound DEF p
  <2> QED BY <1>10, <2>2 DEF Sound
<1> QED BY <1>11, <1>12

LEMMA OtherAnswersAreSound ==
  ASSUME DetailIInv, NEW r \in Requests,
         Refused(r) \/ AskList(r) \/ NoWorkload(r) \/ FileFound(r)
  PROVE  Sound(answer')
<1> DEFINE c == call[r]
           p == c.asked
<1>1. c \in Calls /\ p \in Ids /\ (c.at \in {"aaip", "reading"} => p \in Points /\ ~p.file)
  <2>1. call[r].at # "off"
    BY DEF Refused, AskList, NoWorkload, FileFound
  <2> QED BY <2>1 DEF DetailIInv, Shapes, Asks
<1>2. CASE Refused(r)
  <2>1. answer' = [NoAnswer EXCEPT !.of = p]
    BY <1>2 DEF Refused, Deliver
  <2>2. /\ answer'.of = p /\ answer'.ok = FALSE /\ answer'.aaip = NoVerdict
        /\ answer'.chain = {} /\ answer'.locations = {}
    BY <2>1 DEF NoAnswer
  <2> HIDE DEF p
  <2> QED BY <1>1, <2>2, NothingQuoted DEF Sound, Typed, Single
<1>3. CASE AskList(r)
  <2>1. PICK v \in Aaip(p) : answer' = [NoAnswer EXCEPT !.of = p, !.aaip = v]
    BY <1>3 DEF AskList
  <2>2. /\ answer'.of = p /\ answer'.ok = FALSE /\ answer'.aaip = v
        /\ answer'.chain = {} /\ answer'.locations = {}
    BY <2>1 DEF NoAnswer
  <2>3. p \in Points
    BY <1>1, <1>3 DEF AskList
  <2> HIDE DEF p
  <2>4. Quoted(p, v)
    BY <2>3, AaipIsQuoted
  <2> QED BY <1>1, <2>2, <2>4 DEF Sound, Typed, Single
<1>4. CASE NoWorkload(r)
  <2>1. PICK v \in Aaip(p) : answer' = [Alone(c) EXCEPT !.aaip = v]
    BY <1>4 DEF NoWorkload, Deliver
  <2>2. /\ answer'.of = p /\ answer'.aaip = v
        /\ answer'.chain = Alone(c).chain /\ answer'.needed = Alone(c).needed
        /\ answer'.locations = {}
    BY <2>1 DEF Alone, NoAnswer
  <2>3. p \in Points /\ ~p.file
    BY <1>1, <1>4 DEF NoWorkload
  <2>4. Quoted(p, v)
    BY <2>3, AaipIsQuoted
  <2> HIDE DEF c
  <2>5. Typed(answer') /\ Single(answer')
    <3>1. c \in Calls /\ c.asked \in Points /\ ~c.asked.file /\ answer'.of = c.asked
      BY <1>1, <2>2, <2>3
    <3>2. answer'.locations \subseteq Rows /\ \A x \in answer'.locations : FALSE
      BY <2>2
    <3>3. answer'.chain = Alone(c).chain /\ answer'.needed = Alone(c).needed
      BY <2>2
    <3> HIDE DEF p
    <3> QED BY <3>1, <3>2, <3>3, AloneIsSound
  <2> QED BY <2>2, <2>4, <2>5 DEF Sound
<1>5. CASE FileFound(r)
  <2>1. PICK b : \E chain \in SUBSET FileRows(b) : \E own :
          Deliver(r, [Alone(c) EXCEPT !.chain = chain, !.needed = {own}])
    BY <1>5, FileAnswer
  <2>1a. PICK chain \in SUBSET FileRows(b) : \E own :
          Deliver(r, [Alone(c) EXCEPT !.chain = chain, !.needed = {own}])
    BY <2>1
  <2>2. PICK own :
          answer' = [Alone(c) EXCEPT !.chain = chain, !.needed = {own}]
    BY <2>1a DEF Deliver
  <2>3. /\ answer'.of = p /\ answer'.aaip = NoVerdict
        /\ answer'.chain = chain /\ answer'.locations = {}
    BY <2>2 DEF Alone, NoAnswer
  <2>4. chain \subseteq Rows
    BY FileRowsAre
  <2>5. p.file
    BY <1>5, FileAnswer
  <2> HIDE DEF p
  <2> QED BY <1>1, <2>3, <2>4, <2>5, NothingQuoted DEF Sound, Typed, Single
<1> QED BY <1>2, <1>3, <1>4, <1>5

LEMMA AnswersAreSound ==
  ASSUME DetailIInv, Sound(answer), [DetailNext]_detailVars PROVE Sound(answer')
<1>1. ASSUME NEW r \in Requests, Step(r) PROVE Sound(answer')
  <2>1. CASE GetRestorePoint(r)
    <3>1. answer' = NoAnswer
      BY <2>1 DEF GetRestorePoint, Goes
    <3> QED BY <3>1, NoAnswerIsSound
  <2> QED BY <1>1, <2>1, ListAnswerIsSound, OtherAnswersAreSound DEF Step
<1>2. CASE \/ \E r \in Requests : \E p : Select(r, p)
           \/ SwitchLang \/ SelectAndLoad \/ Make \/ \E p \in held : Retire(p)
  <2>1. answer' = NoAnswer
    BY <1>2 DEF Select, SwitchLang, SelectAndLoad, Make, Retire, News
  <2> QED BY <2>1, NoAnswerIsSound
<1>3. CASE UNCHANGED detailVars
  BY <1>3 DEF detailVars
<1> QED BY <1>1, <1>2, <1>3 DEF DetailNext

-----------------------------------------------------------------------------
(* The theorems about the detail *)

LEMMA AnswersInvariant == DetailSpec => [](DetailIInv /\ Sound(answer))
<1>1. DetailInit => DetailIInv /\ Sound(answer)
  BY DetailInitInv, NoAnswerIsSound DEF DetailInit
<1>2. DetailIInv /\ Sound(answer) /\ [DetailNext]_detailVars => (DetailIInv /\ Sound(answer))'
  BY DetailStepInv, AnswersAreSound
<1> QED BY <1>1, <1>2, PTL DEF DetailSpec

\* The pane, the points, the requests and the answers are what they should be, and every
\* point VBR has stands on a full of its own chain that it has too.
THEOREM DetailTypeCorrect == DetailSpec => []DetailTypeOK
<1>1. DetailIInv /\ Sound(answer) => DetailTypeOK
  BY DEF DetailIInv, Shapes, Rooted, Pane, Calls, Sound, Typed, DetailTypeOK
<1> QED BY <1>1, AnswersInvariant, PTL

\* Whatever comes, goes or fails while a list is read, a chain is of one job, begins with
\* its only full, ends in the files needed with the point itself, and is of its workload.
THEOREM ChainIsOne == DetailSpec => []OneChain
<1>1. Sound(answer) => OneChain
  BY DEF Sound, Single, OneChain
<1> QED BY <1>1, AnswersInvariant, PTL

\* However the lines of a log are ordered, the verdict is that of the line it quotes, and
\* no line about the guest is worse.
THEOREM VerdictIsQuoted == DetailSpec => []VerdictOfItsLog
<1>1. Sound(answer) => VerdictOfItsLog
  BY DEF Sound, Quoted, VerdictOfItsLog
<1> QED BY <1>1, AnswersInvariant, PTL

\* A pane at "loading" has a request under way, with any number of requests in any order.
THEOREM LoadingEnds == DetailSpec => []LoadingIsAwaited
<1>1. DetailIInv => LoadingIsAwaited
  BY DEF DetailIInv, Pane
<1> QED BY <1>1, DetailInvariant, PTL

\* No answer and no click makes the pane show a point that is not selected: only the
\* redrawing of setLang does.
THEOREM OnlyLangMixes == DetailSpec => OnlyLangMixesPanes
<1>1. ASSUME DetailNext, PaneOfSelection, ~SwitchLang PROVE PaneOfSelection'
  <2>1. ASSUME NEW r \in Requests, NEW a, Deliver(r, a) PROVE PaneOfSelection'
    <3>1. selected' = selected /\ detail' = [of |-> a.of, ok |-> a.ok]
      BY <2>1 DEF Deliver, vbr, Stored
    <3>2. CASE Draws(a)
      <4>1. drawn' = Render(selected, detail') /\ detail'.of = selected
        BY <2>1, <3>1, <3>2 DEF Deliver, Draws
      <4> QED BY <3>1, <4>1 DEF Render, PaneOfSelection
    <3>3. CASE ~Draws(a)
      BY <1>1, <2>1, <3>1, <3>3 DEF Deliver, PaneOfSelection
    <3> QED BY <3>2, <3>3
  <2>2. ASSUME NEW r \in Requests, Step(r) PROVE PaneOfSelection'
    <3>1. (\E a : Deliver(r, a)) \/ UNCHANGED console
      BY <2>2 DEF Step, Refused, GetRestorePoint, AskList, NoWorkload, ListAnswered, FileFound, Goes
    <3> QED BY <1>1, <2>1, <3>1 DEF console, PaneOfSelection
  <2>3. ASSUME NEW r \in Requests, NEW p, Select(r, p) PROVE PaneOfSelection'
    BY <2>3 DEF Select, Render, NoDetail, PaneOfSelection
  <2>4. SelectAndLoad => PaneOfSelection'
    BY DEF SelectAndLoad, Render, NoDetail, PaneOfSelection
  <2>5. News => PaneOfSelection'
    BY <1>1 DEF News, console, PaneOfSelection
  <2> QED BY <1>1, <2>2, <2>3, <2>4, <2>5 DEF DetailNext, Make, Retire
<1>2. [DetailNext]_detailVars => [PaneOfSelection /\ ~PaneOfSelection' => SwitchLang]_detailVars
  BY <1>1
<1> QED BY <1>2, PTL DEF DetailSpec, OnlyLangMixesPanes

-----------------------------------------------------------------------------
(* A list that nothing disturbed: the chain is that of VBR *)

\* The full a point stands on is the last of its chain that is not later.
LEMMA BaseIs ==
  ASSUME DetailIInv, NEW p \in held
  PROVE  /\ BaseOf(p) \in ChainOf(p) \cap fulls /\ BaseOf(p).date <= p.date
         /\ \A s \in ChainOf(p) \cap fulls : s.date <= p.date => s.date <= BaseOf(p).date
<1> DEFINE below == {q \in ChainOf(p) \cap fulls : q.date <= p.date}
           dates == {q.date : q \in below}
<1>1. held \subseteq Points /\ \A q \in Points : q.date \in Nat
  BY PointsAssumption DEF DetailIInv, Shapes
<1>2. below # {} /\ below \subseteq Points
  BY <1>1 DEF DetailIInv, Rooted, ChainOf
<1>3. \A q \in below : q.date \in Nat /\ q.date <= p.date
  BY <1>1, <1>2
<1> HIDE DEF below
<1>4. dates \in SUBSET Nat /\ dates # {} /\ p.date \in Nat /\ \A k \in dates : k <= p.date
  BY <1>1, <1>2, <1>3
<1> HIDE DEF dates
<1>5. PICK m \in dates : \A k \in dates : k <= m
  BY <1>4, GreatestNatural
<1>6. PICK q \in below : m = q.date
  BY <1>5 DEF dates
<1>7. \A s \in below : s.date <= q.date
  BY <1>5, <1>6 DEF dates
<1>8. \E b \in ChainOf(p) \cap fulls :
        /\ b.date <= p.date
        /\ \A s \in ChainOf(p) \cap fulls : s.date <= p.date => s.date <= b.date
  BY <1>6, <1>7 DEF below
<1> QED BY <1>8 DEF BaseOf

\* No other point of the chain is like that.
LEMMA BaseIsOne ==
  ASSUME DetailIInv, NEW p \in held, NEW b \in ChainOf(p) \cap fulls, b.date <= p.date,
         \A s \in ChainOf(p) \cap fulls : s.date <= p.date => s.date <= b.date
  PROVE  b = BaseOf(p)
<1>1. /\ BaseOf(p) \in ChainOf(p) \cap fulls /\ BaseOf(p).date <= p.date
      /\ \A s \in ChainOf(p) \cap fulls : s.date <= p.date => s.date <= BaseOf(p).date
  BY BaseIs
<1>2. b.date <= BaseOf(p).date /\ BaseOf(p).date <= b.date
  BY <1>1
<1>3. /\ b \in Points /\ BaseOf(p) \in Points /\ b.date \in Nat /\ BaseOf(p).date \in Nat
      /\ SameChain(b, BaseOf(p))
  BY <1>1, PointsAssumption DEF DetailIInv, Shapes, ChainOf, SameChain
<1>4. b.date = BaseOf(p).date
  BY <1>2, <1>3
<1> QED BY <1>3, <1>4, ChainsAssumption

\* The chain of a list that has every point of the workload, in the terms of VBR.
LEMMA ChainIsThatOfVBR ==
  ASSUME DetailIInv, NEW p \in held, Job(p) # NoJob, NEW same,
         \A x \in same : /\ x.point \in held /\ x.point.vm = p.vm /\ Job(x.point) = Job(p)
                         /\ x \in Rows /\ (x.full <=> x.point \in fulls),
         \A q \in held : q.vm = p.vm /\ Job(q) = Job(p) => \E x \in same : x.point = q
  PROVE  /\ {x.point : x \in Chain(same, p)} = {q \in ChainOf(p) : BaseOf(q) = BaseOf(p)}
         /\ {x.point : x \in NeededFor(Chain(same, p), p)} =
              {q \in ChainOf(p) : BaseOf(p).date <= q.date /\ q.date <= p.date}
<1> DEFINE base == BaseOf(p)
<1>1. held \subseteq Points /\ p \in Points /\ \A q \in Points : q.date \in Nat
  BY PointsAssumption DEF DetailIInv, Shapes
<1>2. /\ base \in Points /\ base \in held /\ base \in fulls /\ SameChain(base, p) /\ base.date <= p.date
      /\ \A s \in held \cap fulls : SameChain(p, s) /\ s.date <= p.date => s.date <= base.date
  BY <1>1, BaseIs DEF ChainOf, SameChain
<1>3. \A q \in held : q \in ChainOf(p) <=> SameChain(p, q)
  BY DEF ChainOf
<1>4. \A q, s \in held : SameChain(q, s) => q.vm = s.vm /\ Job(q) = Job(s) /\ q.backup = s.backup
  BY DEF SameChain, Job
<1>5. Opens(same, p) = base.date
  <2>1. PICK own \in same : own.point = p
    OBVIOUS
  <2>2. /\ Opens(same, p) \in Nat /\ Opens(same, p) <= p.date
        /\ \A y \in same : y.full /\ y.point.date <= p.date => y.point.date <= Opens(same, p)
        /\ \A z \in same : z.full /\ z.point.date <= p.date =>
             \E y \in same : y.full /\ y.point.date <= p.date /\ y.point.date = Opens(same, p)
    BY <1>1, <2>1, OpensIs
  <2>3. PICK z \in same : z.point = base
    BY <1>2, <1>4
  <2>4. z.full /\ z.point.date <= p.date
    BY <1>2, <2>3
  <2>5. PICK y \in same : y.full /\ y.point.date <= p.date /\ y.point.date = Opens(same, p)
    BY <2>2, <2>4
  <2> DEFINE o == y.point
  <2>6. o \in held /\ o \in fulls /\ o \in Points /\ o.vm = p.vm /\ Job(o) = Job(p) /\ o.date <= p.date
    BY <1>1, <2>5
  <2>7. base.date <= o.date
    BY <2>2, <2>3, <2>4, <2>5
  <2>8. base.vm = o.vm /\ Job(base) = Job(o)
    BY <1>2, <1>4, <2>6
  <2> HIDE DEF o, base
  <2>9. SameChain(base, o)
    BY <1>1, <1>2, <2>6, <2>7, <2>8, ChainsAssumption
  <2>10. SameChain(p, o)
    BY <1>2, <2>9 DEF SameChain
  <2>11. o.date <= base.date
    BY <1>2, <2>6, <2>10
  <2>12. o.date = base.date
    BY <1>1, <1>2, <2>6, <2>7, <2>11
  <2> QED BY <2>5, <2>12 DEF o
<1>6. ASSUME NEW x \in same
      PROVE  Closes(same, x, p) <=>
               \A s \in held \cap fulls :
                 s.vm = p.vm /\ Job(s) = Job(p) /\ p.date < s.date => x.point.date < s.date
  BY DEF Closes
<1> HIDE DEF base
\* A point of the list that is in the chain is of the chain of VBR, and stands on its full.
<1>7. ASSUME NEW x \in Chain(same, p)
      PROVE  /\ x.point \in held /\ SameChain(p, x.point) /\ BaseOf(x.point) = base
             /\ base.date <= x.point.date
  <2> DEFINE q == x.point
  <2>1. /\ x \in same /\ base.date <= q.date
        /\ \A s \in held \cap fulls :
             s.vm = p.vm /\ Job(s) = Job(p) /\ p.date < s.date => q.date < s.date
    BY <1>5, <1>6 DEF Chain
  <2>2. q \in held /\ q \in Points /\ q.vm = p.vm /\ Job(q) = Job(p)
    BY <1>1, <2>1
  <2>3. base.vm = q.vm /\ Job(base) = Job(q)
    BY <1>2, <1>4, <2>2
  <2> HIDE DEF q
  <2>4. ASSUME q.date <= p.date PROVE SameChain(p, q)
    <3>1. SameChain(base, q)
      BY <1>1, <1>2, <2>1, <2>2, <2>3, <2>4, ChainsAssumption
    <3> QED BY <1>2, <3>1 DEF SameChain
  <2>5. ASSUME p.date < q.date PROVE SameChain(p, q)
    <3>1. PICK s \in held \cap fulls : SameChain(q, s) /\ s.date <= q.date
      BY <2>2 DEF DetailIInv, Rooted, ChainOf
    <3>2. s \in Points /\ s.date \in Nat /\ s.vm = p.vm /\ Job(s) = Job(p)
      BY <1>1, <1>4, <2>2, <3>1
    <3>3. s.date <= p.date
      BY <1>1, <2>1, <2>2, <3>1, <3>2
    <3>4. SameChain(s, q)
      BY <3>1 DEF SameChain
    <3>5. SameChain(s, p)
      BY <1>1, <2>2, <2>5, <3>2, <3>3, <3>4, ChainsAssumption
    <3> QED BY <3>4, <3>5 DEF SameChain
  <2>6. SameChain(p, q)
    BY <1>1, <2>2, <2>4, <2>5
  <2>7. base \in ChainOf(q) \cap fulls
    BY <1>2, <2>6 DEF ChainOf, SameChain
  <2>8. ASSUME NEW s \in ChainOf(q) \cap fulls, s.date <= q.date PROVE s.date <= base.date
    <3>1. s \in held \cap fulls /\ SameChain(p, s) /\ s \in Points
      BY <1>1, <2>6 DEF ChainOf, SameChain
    <3>2. s.vm = p.vm /\ Job(s) = Job(p)
      BY <1>4, <3>1
    <3>3. s.date <= p.date
      BY <1>1, <2>1, <2>2, <2>8, <3>1, <3>2
    <3> QED BY <1>2, <3>1, <3>3
  <2>9. base = BaseOf(q)
    BY <2>1, <2>2, <2>7, <2>8, BaseIsOne
  <2> QED BY <2>1, <2>2, <2>6, <2>9 DEF q
\* A point that stands on the same full is in the list, and no full is between.
<1>8. ASSUME NEW q \in held, SameChain(p, q), base.date <= q.date, q.date <= p.date \/ BaseOf(q) = base
      PROVE  \E x \in Chain(same, p) : x.point = q
  <2>1. PICK x \in same : x.point = q
    BY <1>4, <1>8
  <2>2. ASSUME NEW s \in held \cap fulls, s.vm = p.vm, Job(s) = Job(p), p.date < s.date, ~(q.date < s.date)
        PROVE  FALSE
    <3>1. s \in Points /\ s.date \in Nat /\ q \in Points /\ q.date \in Nat /\ p.date \in Nat
      BY <1>1
    <3>2. s.date <= q.date /\ ~(q.date <= p.date) /\ p.date <= s.date
      BY <2>2, <3>1
    <3>3. SameChain(p, s)
      BY <1>1, <1>8, <2>2, <3>1, <3>2, ChainsAssumption
    <3>4. s \in ChainOf(q) \cap fulls
      BY <1>8, <3>3 DEF ChainOf, SameChain
    <3>5. s.date <= BaseOf(q).date
      BY <3>2, <3>4, BaseIs
    <3>6. s.date <= base.date
      BY <1>8, <3>2, <3>5
    <3> QED BY <1>1, <1>2, <2>2, <3>1, <3>6
  <2>3. Closes(same, x, p)
    BY <1>6, <2>1, <2>2
  <2> QED BY <1>5, <1>8, <2>1, <2>3 DEF Chain
<1>9. {x.point : x \in Chain(same, p)} = {q \in ChainOf(p) : BaseOf(q) = BaseOf(p)}
  <2>1. ASSUME NEW q \in ChainOf(p), BaseOf(q) = base PROVE \E x \in Chain(same, p) : x.point = q
    <3>1. q \in held /\ SameChain(p, q)
      BY DEF ChainOf
    <3>2. base.date <= q.date
      BY <2>1, <3>1, BaseIs
    <3> QED BY <1>8, <2>1, <3>1, <3>2
  <2> QED BY <1>3, <1>7, <2>1 DEF base
<1>10. {x.point : x \in NeededFor(Chain(same, p), p)} =
         {q \in ChainOf(p) : BaseOf(p).date <= q.date /\ q.date <= p.date}
  <2>1. ASSUME NEW q \in ChainOf(p), base.date <= q.date, q.date <= p.date
        PROVE  \E x \in NeededFor(Chain(same, p), p) : x.point = q
    <3>1. q \in held /\ SameChain(p, q)
      BY DEF ChainOf
    <3>2. PICK x \in Chain(same, p) : x.point = q
      BY <1>8, <2>1, <3>1
    <3> QED BY <2>1, <3>2 DEF NeededFor
  <2>2. ASSUME NEW x \in NeededFor(Chain(same, p), p)
        PROVE  /\ x.point \in ChainOf(p) /\ base.date <= x.point.date /\ x.point.date <= p.date
    <3>1. x \in Chain(same, p) /\ x.point.date <= p.date
      BY DEF NeededFor
    <3> QED BY <1>3, <1>7, <3>1
  <2> QED BY <2>1, <2>2 DEF base
<1> QED BY <1>9, <1>10

\* When nothing failed, nothing came or went since VBR was first asked for what is in the
\* list, no backup is shown through its files, and the workload of the point was recognised,
\* the locations are the copies near the point; and unless its backup has no job, the chain
\* is what stands on the same full in VBR, and the files needed those from there to the point.
THEOREM DetailTellsTheTruth == DetailSpec => DetailIsTrue
<1> DEFINE True(r) ==
      LET c == call[r] p == c.asked IN
      /\ c.at = "reading" /\ call'[r].at = "off" /\ ~answer'.lost
      /\ p \in held /\ c.vm = p.vm /\ c.fleeting = {}
      => /\ {x.point : x \in answer'.locations} =
               {q \in held : q.vm = p.vm /\ Job(q) # Job(p)
                             /\ q.date \in p.date - 18 .. p.date + 18}
         /\ Job(p) # NoJob =>
              /\ {x.point : x \in answer'.chain} = {q \in ChainOf(p) : BaseOf(q) = BaseOf(p)}
              /\ {x.point : x \in answer'.needed} =
                   {q \in ChainOf(p) : BaseOf(p).date <= q.date /\ q.date <= p.date}
<1>1. ASSUME DetailIInv, DetailNext, NEW r \in Requests, call[r].at = "reading", call'[r].at = "off"
      PROVE  ListAnswered(r)
  <2>1. call \in [Requests -> Calls]
    BY <1>1 DEF DetailIInv, Shapes
  <2>2. ASSUME NEW s \in Requests, s # r, Step(s) PROVE FALSE
    <3>1. \E c : call' = [call EXCEPT ![s] = c]
      BY <2>1, <2>2 DEF Step, Refused, GetRestorePoint, AskList, NoWorkload, ListAnswered, FileFound,
                        Goes, Deliver
    <3> QED BY <1>1, <2>1, <2>2, <3>1
  <2>3. ASSUME Step(r) PROVE ListAnswered(r)
    BY <1>1, <2>3 DEF Step, Refused, GetRestorePoint, AskList, NoWorkload, FileFound
  <2>4. ASSUME NEW s \in Requests, NEW p, Select(s, p) PROVE FALSE
    <3>1. s # r /\ \E c : call' = [call EXCEPT ![s] = c]
      BY <1>1, <2>4 DEF Select
    <3> QED BY <1>1, <2>1, <3>1
  <2>5. ASSUME News PROVE FALSE
    <3>1. call'[r] = Notice(call[r]) /\ call[r] \in Calls
      BY <2>1, <2>5 DEF News
    <3>2. Notice(call[r]).at = call[r].at
      BY <3>1 DEF Notice, Calls
    <3> QED BY <1>1, <3>1, <3>2
  <2>6. ~SwitchLang /\ ~SelectAndLoad
    BY <1>1 DEF SwitchLang, SelectAndLoad
  <2> QED BY <1>1, <2>2, <2>3, <2>4, <2>5, <2>6 DEF DetailNext, Make, Retire
<1>2. ASSUME DetailIInv, NEW r \in Requests, ListAnswered(r), ~answer'.lost, call[r].asked \in held,
             call[r].vm = call[r].asked.vm, call[r].fleeting = {}
      PROVE  True(r)
  <2> DEFINE c == call[r]
             p == c.asked
             list == RowsOf(p.vm, held, fulls)
             same == Same(c, list)
             there == {q \in held : q.vm = p.vm}
  <2>1. c.at = "reading"
    BY <1>2, ListAnswer
  <2>2. /\ held \subseteq Points /\ \A q \in Points : q.date \in Nat
        /\ p \in held /\ p \in Points /\ ~p.file
    BY <1>2, <2>1, PointsAssumption DEF DetailIInv, Shapes, Asks
  <2>3. c.steady = list
    BY <1>2, <2>1 DEF DetailIInv, Reads
  <2>4. answer' = Answer(c, list, FALSE)
    <3>1. PICK rows \in SUBSET (c.steady \cup c.fleeting),
               files \in SUBSET UNION {FileRows(b) : b \in Backups}, l \in BOOLEAN :
            /\ Deliver(r, Answer(c, rows \cup files, l))
            /\ ~l /\ c.fleeting = {} => files = {} /\ rows = c.steady
      BY <1>2, ListAnswer
    <3>2. answer' = Answer(c, rows \cup files, l)
      BY <3>1 DEF Deliver
    <3>3. Answer(c, rows \cup files, l).lost = l
      <4> HIDE DEF c
      <4> QED BY AnswerIs
    <3>4. l = FALSE
      BY <1>2, <3>2, <3>3
    <3>5. rows \cup files = list
      BY <1>2, <2>3, <3>1, <3>4
    <3> HIDE DEF list, c
    <3> QED BY <3>2, <3>4, <3>5
  <2>5. \A q \in there : ~q.file
    BY <2>2, ChainsAssumption
  <2>6. /\ \A x \in list : x \in Rows /\ x.point \in held /\ x.point.vm = p.vm
                           /\ ~x.file /\ (x.full <=> x.point \in fulls)
        /\ \A q \in there : \E x \in list : x.point = q /\ ~x.file
    BY <2>2, <2>5, RowsAre
  <2> HIDE DEF list
  <2>7. /\ \A x \in same : /\ x.point \in held /\ x.point.vm = p.vm /\ Job(x.point) = Job(p)
                           /\ x \in Rows /\ (x.full <=> x.point \in fulls)
        /\ \A q \in held : q.vm = p.vm /\ Job(q) = Job(p) => \E x \in same : x.point = q
    BY <2>6 DEF Same
  <2>8. IsFound(c, list)
    BY <2>2, <2>6 DEF Same, IsFound
  <2> HIDE DEF same
  <2>9. /\ answer'.chain = Chain(same, p) /\ answer'.needed = NeededFor(Chain(same, p), p)
        /\ answer'.locations = Elsewhere(c, list)
    <3> HIDE DEF c
    <3> QED BY <2>4, <2>8, AnswerIs DEF same
  <2>10. Job(p) # NoJob =>
           /\ {x.point : x \in Chain(same, p)} = {q \in ChainOf(p) : BaseOf(q) = BaseOf(p)}
           /\ {x.point : x \in NeededFor(Chain(same, p), p)} =
                {q \in ChainOf(p) : BaseOf(p).date <= q.date /\ q.date <= p.date}
    <3> HIDE DEF p
    <3> QED BY <1>2, <2>2, <2>7, ChainIsThatOfVBR
  <2>11. \A q \in held : Near(q, p) <=> q.date \in p.date - 18 .. p.date + 18
    BY <2>2 DEF Near
  <2>12. \A x : x \in Elsewhere(c, list) <=> x \in list /\ Job(x.point) # Job(p) /\ Near(x.point, p)
    BY DEF Elsewhere, Same
  <2>13. {x.point : x \in Elsewhere(c, list)} =
           {q \in held : q.vm = p.vm /\ Job(q) # Job(p) /\ q.date \in p.date - 18 .. p.date + 18}
    <3>1. ASSUME NEW x \in Elsewhere(c, list)
          PROVE  /\ x.point \in held /\ x.point.vm = p.vm /\ Job(x.point) # Job(p)
                 /\ x.point.date \in p.date - 18 .. p.date + 18
      BY <2>6, <2>11, <2>12
    <3>2. ASSUME NEW q \in held, q.vm = p.vm, Job(q) # Job(p), q.date \in p.date - 18 .. p.date + 18
          PROVE  \E x \in Elsewhere(c, list) : x.point = q
      <4>1. PICK x \in list : x.point = q
        BY <2>6, <3>2
      <4> QED BY <2>11, <2>12, <3>2, <4>1
    <3> QED BY <3>1, <3>2
  <2> QED BY <2>9, <2>10, <2>13
<1>3. ASSUME DetailIInv, [DetailNext]_detailVars PROVE [\A r \in Requests : True(r)]_detailVars
  <2>1. ASSUME DetailNext, NEW r \in Requests PROVE True(r)
    BY <1>1, <1>2, <1>3, <2>1
  <2> QED BY <1>3, <2>1
<1>4. DetailIInv /\ [DetailNext]_detailVars => [\A r \in Requests : True(r)]_detailVars
  BY <1>3
<1> QED BY <1>4, DetailInvariant, PTL DEF DetailSpec, DetailIsTrue

-----------------------------------------------------------------------------
(* Collections *)

USE PageSizeAssumption, MaxStatesAssumption

-----------------------------------------------------------------------------
(* What VBR does to a collection *)

LEMMA InsertTypes ==
  ASSUME NEW c \in Seq(Items), IsInjective(c), NEW x \in Items, x \notin ToSet(c),
         NEW i \in 1..(Len(c) + 1)
  PROVE  InsertAt(c, i, x) \in Seq(Items) /\ IsInjective(InsertAt(c, i, x))
<1> DEFINE s == SubSeq(c, 1, i - 1)
           t == SubSeq(c, i, Len(c))
           d == InsertAt(c, i, x)
<1>1. /\ s \in Seq(Items) /\ Len(s) = i - 1 /\ \A k \in 1..(i - 1) : s[k] = c[k]
      /\ t \in Seq(Items) /\ Len(t) = Len(c) - i + 1 /\ \A k \in 1..(Len(c) - i + 1) : t[k] = c[k + i - 1]
  BY SubSeqProperties
<1>2. /\ s \o <<x>> \in Seq(Items) /\ Len(s \o <<x>>) = i
      /\ \A k \in 1..i : (s \o <<x>>)[k] = IF k < i THEN c[k] ELSE x
  <2>1. <<x>> \in Seq(Items) /\ Len(<<x>>) = 1 /\ <<x>>[1] = x
    OBVIOUS
  <2> HIDE DEF s
  <2> QED BY <1>1, <2>1, ConcatProperties
<1>3. /\ d \in Seq(Items) /\ Len(d) = Len(c) + 1
      /\ \A k \in 1..(Len(c) + 1) : d[k] = IF k < i THEN c[k] ELSE IF k = i THEN x ELSE c[k - 1]
  <2>1. d = (s \o <<x>>) \o t
    BY DEF InsertAt
  <2> DEFINE u == s \o <<x>>
  <2> HIDE DEF s, t, d, u
  <2>2. u \in Seq(Items) /\ Len(u) = i /\ \A k \in 1..i : u[k] = IF k < i THEN c[k] ELSE x
    BY <1>2 DEF u
  <2>3. d \in Seq(Items) /\ Len(d) = Len(c) + 1
        /\ \A k \in 1..(Len(c) + 1) : d[k] = IF k <= i THEN u[k] ELSE t[k - i]
    <3>1. d = u \o t /\ u \in Seq(Items) /\ t \in Seq(Items)
      BY <1>1, <2>1, <2>2 DEF u
    <3>2. /\ u \o t \in Seq(Items) /\ Len(u \o t) = Len(u) + Len(t)
          /\ \A k \in 1..(Len(u) + Len(t)) :
               (u \o t)[k] = IF k <= Len(u) THEN u[k] ELSE t[k - Len(u)]
      BY <3>1, ConcatProperties
    <3>3. Len(u) = i /\ Len(u) + Len(t) = Len(c) + 1
      BY <1>1, <2>2
    <3> QED BY <3>1, <3>2, <3>3
  <2>4. ASSUME NEW k \in 1..(Len(c) + 1)
        PROVE  d[k] = IF k < i THEN c[k] ELSE IF k = i THEN x ELSE c[k - 1]
    <3>1. CASE k <= i
      BY <2>2, <2>3, <3>1
    <3>2. CASE ~(k <= i)
      <4>1. k - i \in 1..(Len(c) - i + 1) /\ (k - i) + i - 1 = k - 1
        BY <3>2
      <4>2. t[k - i] = c[(k - i) + i - 1]
        BY <1>1, <4>1
      <4>3. d[k] = t[k - i] /\ ~(k < i) /\ k # i
        BY <2>3, <3>2
      <4> QED BY <4>1, <4>2, <4>3
    <3> QED BY <3>1, <3>2
  <2> QED BY <2>3, <2>4
<1>4. \A k \in 1..Len(c) : c[k] # x
  BY DEF ToSet
<1> HIDE DEF d
<1>5. IsInjective(d)
  <2> SUFFICES ASSUME NEW a \in 1..(Len(c) + 1), NEW b \in 1..(Len(c) + 1), d[a] = d[b]
               PROVE  a = b
    BY <1>3 DEF IsInjective
  <2> DEFINE at(k) == IF k < i THEN k ELSE k - 1
  <2>1. \A k \in 1..(Len(c) + 1) : k # i => at(k) \in 1..Len(c) /\ d[k] = c[at(k)]
    BY <1>3
  <2>2. d[i] = x
    BY <1>3
  <2>3. a = i <=> b = i
    BY <1>4, <2>1, <2>2
  <2>4. CASE a # i
    <3>1. at(a) = at(b)
      BY <2>1, <2>3, <2>4 DEF IsInjective
    <3> QED BY <2>3, <2>4, <3>1
  <2> QED BY <2>3, <2>4
<1> QED BY <1>3, <1>5 DEF d

LEMMA RemoveTypes ==
  ASSUME NEW c \in Seq(Items), IsInjective(c), NEW i \in 1..Len(c)
  PROVE  RemoveAt(c, i) \in Seq(Items) /\ IsInjective(RemoveAt(c, i))
<1> DEFINE s == SubSeq(c, 1, i - 1)
           t == SubSeq(c, i + 1, Len(c))
           d == RemoveAt(c, i)
<1>1. /\ s \in Seq(Items) /\ Len(s) = i - 1 /\ \A k \in 1..(i - 1) : s[k] = c[k]
      /\ t \in Seq(Items) /\ Len(t) = Len(c) - i /\ \A k \in 1..(Len(c) - i) : t[k] = c[k + i]
  BY SubSeqProperties
<1>2. d = s \o t
  BY DEF RemoveAt
<1> HIDE DEF s, t, d
<1>3. /\ d \in Seq(Items) /\ Len(d) = Len(c) - 1
      /\ \A k \in 1..(Len(c) - 1) : d[k] = IF k < i THEN c[k] ELSE c[k + 1]
  <2>1. d \in Seq(Items) /\ Len(d) = Len(s) + Len(t)
        /\ \A k \in 1..(Len(s) + Len(t)) : d[k] = IF k <= Len(s) THEN s[k] ELSE t[k - Len(s)]
    BY <1>1, <1>2, ConcatProperties
  <2>4. Len(c) \in Nat /\ Len(s) + Len(t) = Len(c) - 1 /\ Len(s) = i - 1
    BY <1>1
  <2>3. \A k \in 1..(Len(c) - 1) : d[k] = IF k <= i - 1 THEN s[k] ELSE t[k - (i - 1)]
    BY <2>4, <2>1
  <2>2. ASSUME NEW k \in 1..(Len(c) - 1) PROVE d[k] = IF k < i THEN c[k] ELSE c[k + 1]
    <3>1. CASE k < i
      <4>1. k \in 1..(i - 1) /\ k <= i - 1
        BY <2>4, <3>1
      <4>2. d[k] = s[k]
        BY <2>3, <4>1
      <4>3. s[k] = c[k]
        BY <1>1, <4>1
      <4> QED BY <3>1, <4>2, <4>3
    <3>2. CASE k >= i
      <4>1. d[k] = t[k - (i - 1)] /\ k - (i - 1) \in 1..(Len(c) - i)
        BY <2>4, <2>3, <3>2
      <4>2. t[k - (i - 1)] = c[(k - (i - 1)) + i]
        BY <1>1, <4>1
      <4> QED BY <3>2, <4>1, <4>2
    <3> QED BY <3>1, <3>2
  <2>5. d \in Seq(Items) /\ Len(d) = Len(c) - 1
    BY <2>1, <2>4
  <2> QED BY ONLY <2>2, <2>5
<1>4. IsInjective(d)
  <2> SUFFICES ASSUME NEW a \in 1..(Len(c) - 1), NEW b \in 1..(Len(c) - 1), d[a] = d[b]
               PROVE  a = b
    BY <1>3 DEF IsInjective
  <2> DEFINE at(k) == IF k < i THEN k ELSE k + 1
  <2>1. at(a) \in 1..Len(c) /\ at(b) \in 1..Len(c) /\ c[at(a)] = c[at(b)]
    BY <1>3
  <2>2. at(a) = at(b)
    BY <2>1 DEF IsInjective
  <2> QED BY <2>2
<1> QED BY <1>3, <1>4 DEF d

-----------------------------------------------------------------------------
(* Pages *)

LEMMA PageIs ==
  ASSUME NEW c \in Seq(Items), skip \in Nat
  PROVE  /\ Page(c) \in Seq(Items)
         /\ Len(Page(c)) = IF skip >= Len(c) THEN 0 ELSE Lesser(skip + PageSize, Len(c)) - skip
         /\ \A k \in 1..Len(Page(c)) : Page(c)[k] = c[skip + k]
<1> DEFINE n == Lesser(skip + PageSize, Len(c))
<1>1. n \in Nat /\ n <= Len(c) /\ n <= skip + PageSize /\ n \in {skip + PageSize, Len(c)}
  BY DEF Lesser
<1>2. \A k \in (skip + 1)..n : c[k] \in Items
  BY <1>1
<1>3. /\ Page(c) \in Seq(Items)
      /\ Len(Page(c)) = IF skip + 1 <= n THEN n - (skip + 1) + 1 ELSE 0
      /\ \A k \in 1..(n - (skip + 1) + 1) : Page(c)[k] = c[(skip + 1) + k - 1]
  <2> HIDE DEF n
  <2>1. Page(c) = SubSeq(c, skip + 1, n)
    BY DEF Page, n
  <2> QED BY <1>1, <1>2, <2>1, SubSeqProperties
<1> HIDE DEF n
<1>4. Len(Page(c)) = IF skip >= Len(c) THEN 0 ELSE n - skip
  BY <1>1, <1>3
<1>5. \A k \in 1..Len(Page(c)) : Page(c)[k] = c[skip + k]
  BY <1>1, <1>3
<1> QED BY <1>3, <1>4, <1>5 DEF n

-----------------------------------------------------------------------------
(* Types *)

LEMMA SkipTypes == TypeOK => skip \in Nat /\ (from = <<>> => skip = 0)
<1> SUFFICES ASSUME TypeOK PROVE skip \in Nat /\ (from = <<>> => skip = 0)
  OBVIOUS
<1>1. skip \in {PageSize * n : n \in 0..Len(from)} /\ from \in Seq(1..Len(states))
  BY DEF TypeOK
<1>2. PICK n \in 0..Len(from) : skip = PageSize * n
  BY <1>1
<1>3. Len(from) \in Nat /\ (from = <<>> => Len(from) = 0) /\ n \in Nat
  BY <1>1
<1>4. from = <<>> => n = 0
  BY <1>3
<1>5. PageSize \in Nat
  OBVIOUS
<1> QED BY <1>2, <1>3, <1>4, <1>5

\* What TypeOK says of the states and of the pages that were read.
LEMMA HistoryTypes ==
  ASSUME TypeOK
  PROVE  /\ Len(states) \in Nat /\ Len(from) \in Nat /\ DOMAIN from = 1..Len(from)
         /\ \A k \in 1..Len(from) : from[k] \in 1..Len(states)
         /\ \A w \in 1..Len(states) : states[w] \in Seq(Items) /\ IsInjective(states[w])
         /\ from # <<>> => Len(from) \in 1..Len(from)
<1>1. states \in Seq(Seq(Items)) /\ from \in Seq(1..Len(states))
  BY DEF TypeOK
<1>2. \A k \in DOMAIN states : IsInjective(states[k])
  BY DEF TypeOK
<1>3. Len(states) \in Nat /\ DOMAIN states = 1..Len(states)
  BY <1>1
<1>4. Len(from) \in Nat /\ DOMAIN from = 1..Len(from) /\ (from # <<>> => Len(from) # 0)
  BY <1>1
<1>5. \A k \in 1..Len(from) : from[k] \in 1..Len(states)
  BY <1>1, <1>4
<1>6. \A w \in 1..Len(states) : states[w] \in Seq(Items)
  BY <1>1, <1>3
<1> QED BY <1>2, <1>3, <1>4, <1>5, <1>6

LEMMA BecomeTypes ==
  ASSUME TypeOK, NEW c \in Seq(Items), IsInjective(c), Become(c) PROVE TypeOK'
<1>1. /\ states' \in Seq(Seq(Items)) /\ Len(states') = Len(states) + 1
      /\ \A k \in 1..Len(states) : states'[k] = states[k]
      /\ states'[Len(states) + 1] = c
  BY AppendProperties DEF TypeOK, Become
<1>2. Len(states') \in 1..MaxStates
  BY <1>1 DEF TypeOK, Become
<1>3. \A k \in DOMAIN states' : IsInjective(states'[k])
  <2> SUFFICES ASSUME NEW k \in 1..(Len(states) + 1) PROVE IsInjective(states'[k])
    BY <1>1
  <2>1. CASE k = Len(states) + 1
    BY <1>1, <2>1
  <2>2. CASE k \in 1..Len(states)
    <3>1. states \in Seq(Seq(Items)) /\ DOMAIN states = 1..Len(states)
      BY DEF TypeOK
    <3>2. k \in DOMAIN states /\ states'[k] = states[k]
      BY <1>1, <2>2, <3>1
    <3>3. IsInjective(states[k])
      BY <3>2 DEF TypeOK
    <3> QED BY <3>2, <3>3
  <2>3. Len(states) \in Nat
    BY DEF TypeOK
  <2> QED BY <2>1, <2>2, <2>3
<1>4. from' \in Seq(1..Len(states')) /\ skip' \in {PageSize * n : n \in 0..Len(from')}
  BY <1>1 DEF TypeOK, Become
<1> QED BY <1>1, <1>2, <1>3, <1>4 DEF TypeOK, Become

LEMMA PresentTypes == TypeOK => Present \in Seq(Items) /\ IsInjective(Present)
<1> SUFFICES ASSUME TypeOK PROVE Present \in Seq(Items) /\ IsInjective(Present)
  OBVIOUS
<1>1. Present = states[Len(states)] /\ Len(states) \in DOMAIN states
  BY DEF Present, Last, TypeOK
<1> QED BY <1>1 DEF TypeOK

LEMMA ReadTypes == ASSUME TypeOK, NEW v \in 1..Len(states), Read(v) PROVE TypeOK'
<1> DEFINE c == states[v]
<1>1. c \in Seq(Items)
  BY DEF TypeOK
<1>2. Page(c) \in Seq(Items)
  BY <1>1, PageIs, SkipTypes
<1>3. out' \in Seq(Items)
  BY <1>2, ConcatProperties DEF TypeOK, Read
<1>4. from' \in Seq(1..Len(states)) /\ Len(from') = Len(from) + 1
  BY AppendProperties DEF TypeOK, Read
<1>5. skip' \in {PageSize * n : n \in 0..Len(from')}
  <2>1. PICK n \in 0..Len(from) : skip = PageSize * n
    BY DEF TypeOK
  <2>2. PageSize * (n + 1) = PageSize * n + PageSize
    OBVIOUS
  <2>3. skip' \in {skip, skip + PageSize}
    BY DEF Read, NextSkip
  <2>4. n \in 0..Len(from') /\ n + 1 \in 0..Len(from')
    BY <1>4
  <2> QED BY <2>1, <2>2, <2>3, <2>4
<1> QED BY <1>3, <1>4, <1>5 DEF TypeOK, Read

LEMMA TypesKept == TypeOK /\ [Next]_vars => TypeOK'
<1> SUFFICES ASSUME TypeOK, [Next]_vars PROVE TypeOK'
  OBVIOUS
<1>1. CASE Begin
  <2>1. skip' = PageSize * 0 /\ 0 \in 0..Len(from')
    BY <1>1 DEF Begin
  <2> QED BY <1>1, <2>1 DEF TypeOK, Begin
<1>2. CASE \E v \in 1..Len(states) : Read(v)
  BY <1>2, ReadTypes
<1>3. CASE Fail
  BY <1>3 DEF TypeOK, Fail
<1>4. CASE \E x \in Items, i \in 1..(Len(Present) + 1) : Insert(x, i)
  BY <1>4, PresentTypes, InsertTypes, BecomeTypes DEF Insert
<1>5. CASE \E i \in 1..Len(Present) : Delete(i)
  BY <1>5, PresentTypes, RemoveTypes, BecomeTypes DEF Delete
<1>6. CASE UNCHANGED vars
  BY <1>6 DEF TypeOK, vars
<1> QED BY <1>1, <1>2, <1>3, <1>4, <1>5, <1>6 DEF Next

LEMMA InitTypes == Init => TypeOK
<1> SUFFICES ASSUME Init PROVE TypeOK
  OBVIOUS
<1>1. PICK c \in Lists : states = <<c>>
  BY DEF Init
<1>2. c \in Seq(Items) /\ IsInjective(c)
  BY <1>1 DEF Lists
<1>3. skip = PageSize * 0 /\ 0 \in 0..Len(from)
  BY DEF Init
<1> QED BY <1>1, <1>2, <1>3 DEF Init, TypeOK

\* The reading stays in its types: skip is a multiple of the page size.
THEOREM CollectionsTypeCorrect == Spec => []TypeOK
  BY InitTypes, TypesKept, PTL DEF Spec

-----------------------------------------------------------------------------
(* Positions *)

PosIn(c, x) == CHOOSE j \in DOMAIN c : c[j] = x
BeforeIn(c, x) == {c[i] : i \in 1..PosIn(c, x)} \ {x}

LEMMA BeforeIsBeforeIn == \A x, k : Before(x, k) = BeforeIn(states[from[k]], x)
  BY DEF Before, BeforeIn, PosIn

LEMMA PosInIs ==
  ASSUME NEW c \in Seq(Items), NEW x \in ToSet(c)
  PROVE  PosIn(c, x) \in 1..Len(c) /\ c[PosIn(c, x)] = x
  BY DEF PosIn, ToSet

\* As many items are before x as its position says.
LEMMA BeforeInCounts ==
  ASSUME NEW c \in Seq(Items), IsInjective(c), NEW x \in ToSet(c)
  PROVE  IsFiniteSet(BeforeIn(c, x)) /\ Cardinality(BeforeIn(c, x)) = PosIn(c, x) - 1
<1> DEFINE p == PosIn(c, x)
           S == BeforeIn(c, x)
           f == [i \in 1..(p - 1) |-> c[i]]
<1>1. p \in 1..Len(c) /\ c[p] = x
  BY PosInIs
<1>2. S = {c[i] : i \in 1..p} \ {x}
  BY DEF BeforeIn
<1> HIDE DEF p, S
<1>3. \A i \in 1..(p - 1) : i \in 1..Len(c) /\ c[i] # x
  <2> SUFFICES ASSUME NEW i \in 1..(p - 1) PROVE i \in 1..Len(c) /\ c[i] # x
    OBVIOUS
  <2>1. i \in 1..Len(c) /\ i # p
    BY <1>1
  <2> QED BY <1>1, <2>1 DEF IsInjective
<1>4. S = {c[i] : i \in 1..(p - 1)}
  BY <1>1, <1>2, <1>3
<1>5. f \in Bijection(1..(p - 1), S)
  <2>1. f \in [1..(p - 1) -> S] /\ \A y \in S : \E i \in 1..(p - 1) : f[i] = y
    BY <1>4
  <2>2. \A i, j \in 1..(p - 1) : f[i] = f[j] => i = j
    BY <1>3 DEF IsInjective
  <2> QED BY <2>1, <2>2 DEF Bijection, Injection, Surjection, IsInjective
<1>6. ExistsBijection(1..(p - 1), S)
  BY <1>5 DEF ExistsBijection
<1>7. p - 1 \in Nat
  BY <1>1
<1>8. IsFiniteSet(S) /\ Cardinality(S) = p - 1
  BY <1>6, <1>7, FS_NatBijection, FS_CountingElements
<1> QED BY <1>8 DEF S, p

\* The more items are before x, the later it comes.
LEMMA BeforeInOrders ==
  ASSUME NEW c \in Seq(Items), NEW d \in Seq(Items), IsInjective(c), IsInjective(d),
         NEW x \in ToSet(c), x \in ToSet(d), BeforeIn(c, x) \subseteq BeforeIn(d, x)
  PROVE  PosIn(c, x) <= PosIn(d, x)
<1>1. /\ IsFiniteSet(BeforeIn(d, x))
      /\ Cardinality(BeforeIn(c, x)) = PosIn(c, x) - 1
      /\ Cardinality(BeforeIn(d, x)) = PosIn(d, x) - 1
  BY BeforeInCounts
<1>2. Cardinality(BeforeIn(c, x)) <= Cardinality(BeforeIn(d, x))
  BY <1>1, FS_Subset
<1> QED BY <1>1, <1>2, PosInIs

\* x is on the page when its position is.
LEMMA OnPage ==
  ASSUME NEW c \in Seq(Items), IsInjective(c), NEW x \in ToSet(c), skip \in Nat
  PROVE  x \in ToSet(Page(c)) <=> skip < PosIn(c, x) /\ PosIn(c, x) <= skip + PageSize
<1> DEFINE p == PosIn(c, x)
           n == Len(Page(c))
<1>1. p \in 1..Len(c) /\ c[p] = x
  BY PosInIs
<1>2. /\ n \in Nat /\ n = IF skip >= Len(c) THEN 0 ELSE Lesser(skip + PageSize, Len(c)) - skip
      /\ \A k \in 1..n : Page(c)[k] = c[skip + k]
      /\ ToSet(Page(c)) = {Page(c)[k] : k \in 1..n}
  BY PageIs DEF ToSet
<1>3. skip < p /\ p <= skip + PageSize => p - skip \in 1..n
  BY <1>1, <1>2 DEF Lesser
<1>4. \A k \in 1..n : skip + k \in 1..Len(c) /\ skip + k <= skip + PageSize
  BY <1>2 DEF Lesser
<1> HIDE DEF p, n
<1>5. ASSUME skip < p, p <= skip + PageSize PROVE x \in ToSet(Page(c))
  <2>1. p - skip \in 1..n /\ skip + (p - skip) = p
    BY <1>1, <1>3, <1>5
  <2>2. Page(c)[p - skip] = x
    BY <1>1, <1>2, <2>1
  <2> QED BY <1>2, <2>1, <2>2
<1>6. ASSUME x \in ToSet(Page(c)) PROVE skip < p /\ p <= skip + PageSize
  <2>1. PICK k \in 1..n : Page(c)[k] = x
    BY <1>2, <1>6
  <2>2. c[skip + k] = c[p] /\ skip + k \in 1..Len(c)
    BY <1>1, <1>2, <1>4, <2>1
  <2>3. skip + k = p
    BY <1>1, <2>2 DEF IsInjective
  <2> QED BY <1>4, <2>3
<1> QED BY <1>5, <1>6 DEF p

-----------------------------------------------------------------------------
(* The inductive invariant *)

\* From one page to the next nothing before x went away; nothing came before it.
NoneGone(x) == \A k \in 1..(Len(from) - 1) : Before(x, k) \subseteq Before(x, k + 1)
NoneCame(x) == \A k \in 1..(Len(from) - 1) : Before(x, k + 1) \subseteq Before(x, k)

\* Where x is in the state the last page was read from.
LastPos(x) == PosIn(states[from[Len(from)]], x)

Place ==
  pc = "ask" =>
    \A x \in Items :
      /\ Steady(x) /\ NoneGone(x) /\ x \notin ToSet(out) /\ from # <<>> => LastPos(x) > skip
      /\ Steady(x) /\ NoneCame(x) /\ x \in ToSet(out) => from # <<>> /\ LastPos(x) <= skip

IInv == TypeOK /\ Place /\ LostOnlyByRemoval /\ TwiceOnlyByInsertion

\* A step that leaves the answer as it is.
LEMMA SameAnswer ==
  ASSUME IInv, TypeOK', from' = from, out' = out, \A k \in 1..Len(states) : states'[k] = states[k],
         (pc' = "ask" => pc = "ask" /\ skip' = skip), (pc' = "done" => pc = "done")
  PROVE  IInv'
<1>1. \A k \in DOMAIN from : from[k] \in 1..Len(states) /\ states'[from'[k]] = states[from[k]]
  <2>1. \A k \in DOMAIN from : from[k] \in 1..Len(states)
    BY HistoryTypes DEF IInv
  <2> QED BY <2>1
<1>2. \A x : \A k \in DOMAIN from : Before(x, k)' = Before(x, k)
  BY <1>1 DEF Before
<1>3. \A x : Steady(x)' <=> Steady(x)
  BY <1>1 DEF Steady
<1>4. Len(from) \in Nat /\ DOMAIN from = 1..Len(from)
  BY HistoryTypes DEF IInv
<1>5. \A x : \A k \in 1..(Len(from) - 1) :
        Before(x, k)' = Before(x, k) /\ Before(x, k + 1)' = Before(x, k + 1)
  <2> SUFFICES ASSUME NEW x, NEW k \in 1..(Len(from) - 1)
               PROVE  Before(x, k)' = Before(x, k) /\ Before(x, k + 1)' = Before(x, k + 1)
    OBVIOUS
  <2>1. k \in DOMAIN from /\ k + 1 \in DOMAIN from
    BY <1>4
  <2>2. Before(x, k)' = Before(x, k)
    BY <1>2, <2>1
  <2>3. Before(x, k + 1)' = Before(x, k + 1)
    BY <1>2, <2>1
  <2> QED BY <2>2, <2>3
<1>6. \A x : (NoneGone(x)' <=> NoneGone(x)) /\ (NoneCame(x)' <=> NoneCame(x))
  <2> TAKE x
  <2>1. \A k \in 1..(Len(from) - 1) : Before(x, k)' = Before(x, k)
    BY <1>5
  <2>2. \A k \in 1..(Len(from) - 1) : Before(x, k + 1)' = Before(x, k + 1)
    BY <1>5
  <2>3. NoneGone(x)' <=> NoneGone(x)
    BY <2>1, <2>2 DEF NoneGone
  <2>4. NoneCame(x)' <=> NoneCame(x)
    BY <2>1, <2>2 DEF NoneCame
  <2> QED BY <2>3, <2>4
<1>7. from # <<>> => \A x : LastPos(x)' = LastPos(x)
  <2>1. from # <<>> => Len(from) \in DOMAIN from
    BY <1>4
  <2> QED BY <1>1, <2>1 DEF LastPos
<1>8. Place'
  BY <1>3, <1>6, <1>7 DEF IInv, Place
<1>9. LostOnlyByRemoval'
  BY <1>3, <1>5 DEF IInv, LostOnlyByRemoval
<1>10. TwiceOnlyByInsertion'
  BY <1>3, <1>5 DEF IInv, TwiceOnlyByInsertion
<1> QED BY <1>8, <1>9, <1>10 DEF IInv

\* The page that is read, for an item that was there all the time.
LEMMA ReadFacts ==
  ASSUME IInv, NEW v \in 1..Len(states), Read(v), NEW x \in Items, Steady(x)'
  PROVE  /\ states[v] \in Seq(Items) /\ IsInjective(states[v]) /\ x \in ToSet(states[v])
         /\ Steady(x) /\ LastPos(x)' = PosIn(states[v], x)
         /\ \A k \in 1..Len(from) : Before(x, k)' = Before(x, k)
         /\ (NoneGone(x)' => NoneGone(x) /\ (from # <<>> => LastPos(x) <= PosIn(states[v], x)))
         /\ (NoneCame(x)' => NoneCame(x) /\ (from # <<>> => PosIn(states[v], x) <= LastPos(x)))
<1> DEFINE c == states[v]
<1>0. PICK n \in Nat : n = Len(from)
  BY HistoryTypes DEF IInv
<1>1. /\ n \in Nat /\ DOMAIN from = 1..n /\ states' = states
      /\ from' = Append(from, v) /\ Len(from') = n + 1 /\ DOMAIN from' = 1..(n + 1)
      /\ \A k \in 1..n : from'[k] = from[k] /\ from[k] \in 1..Len(states)
      /\ from'[n + 1] = v
  <2>1. /\ n = Len(from) /\ DOMAIN from = 1..n
        /\ \A k \in 1..n : from[k] \in 1..Len(states)
    BY <1>0, HistoryTypes DEF IInv
  <2>2. from \in Seq(1..Len(states))
    BY DEF IInv, TypeOK
  <2>3. states' = states /\ from' = Append(from, v)
    BY DEF Read
  <2> QED BY ONLY <2>1, <2>2, <2>3, v \in 1..Len(states), n \in Nat, AppendProperties
<1>2. \A w \in 1..Len(states) : states[w] \in Seq(Items) /\ IsInjective(states[w])
  BY HistoryTypes DEF IInv
<1>3. x \in ToSet(c)
  BY <1>1 DEF Steady
<1>4. Steady(x)
  BY <1>1 DEF Steady
<1>5. \A k \in 1..(n + 1) : Before(x, k)' = BeforeIn(states[from'[k]], x)
  BY <1>1 DEF Before, BeforeIn, PosIn
<1>6. \A k \in 1..n : Before(x, k)' = Before(x, k)
  <2> SUFFICES ASSUME NEW k \in 1..n PROVE Before(x, k)' = Before(x, k)
    OBVIOUS
  <2>1. k \in 1..(n + 1) /\ from'[k] = from[k]
    BY <1>1
  <2> QED BY <1>5, <2>1, BeforeIsBeforeIn
<1>7. LastPos(x)' = PosIn(c, x)
  BY <1>1 DEF LastPos
<1>8. ASSUME from # <<>>
      PROVE  /\ n \in 1..((n + 1) - 1) /\ states[from[n]] \in Seq(Items) /\ IsInjective(states[from[n]])
             /\ x \in ToSet(states[from[n]]) /\ LastPos(x) = PosIn(states[from[n]], x)
             /\ Before(x, n)' = BeforeIn(states[from[n]], x)
             /\ Before(x, n + 1)' = BeforeIn(c, x)
  <2>1. n \in 1..n /\ n \in 1..(n + 1) /\ n + 1 \in 1..(n + 1)
    BY <1>1, <1>8
  <2>2. n \in 1..((n + 1) - 1) /\ from[n] \in 1..Len(states)
    BY <1>1, <2>1
  <2>3. states[from[n]] \in Seq(Items) /\ IsInjective(states[from[n]])
    BY <1>2, <2>2
  <2>4. x \in ToSet(states[from[n]])
    BY <1>1, <1>4, <2>1 DEF Steady
  <2>5. LastPos(x) = PosIn(states[from[n]], x)
    BY <1>0 DEF LastPos
  <2>6. Before(x, n)' = BeforeIn(states[from[n]], x) /\ Before(x, n + 1)' = BeforeIn(c, x)
    BY <1>1, <1>5, <2>1
  <2> QED BY <2>2, <2>3, <2>4, <2>5, <2>6
<1>9. ASSUME NEW k \in 1..(n - 1)
      PROVE  k \in 1..((n + 1) - 1) /\ Before(x, k)' = Before(x, k) /\ Before(x, k + 1)' = Before(x, k + 1)
  <2>1. k \in 1..n /\ k + 1 \in 1..n
    BY <1>1
  <2> QED BY <1>6, <2>1
<1>10. ASSUME NoneGone(x)'
       PROVE  NoneGone(x) /\ (from # <<>> => LastPos(x) <= PosIn(c, x))
  <2>1. \A k \in 1..((n + 1) - 1) : Before(x, k)' \subseteq Before(x, k + 1)'
    BY <1>1, <1>10 DEF NoneGone
  <2>2. NoneGone(x)
    BY <1>0, <1>9, <2>1 DEF NoneGone
  <2>3. ASSUME from # <<>> PROVE LastPos(x) <= PosIn(c, x)
    <3>1. BeforeIn(states[from[n]], x) \subseteq BeforeIn(c, x)
      BY <1>8, <2>1, <2>3
    <3> QED BY <1>2, <1>3, <1>8, <2>3, <3>1, BeforeInOrders
  <2> QED BY <2>2, <2>3
<1>11. ASSUME NoneCame(x)'
       PROVE  NoneCame(x) /\ (from # <<>> => PosIn(c, x) <= LastPos(x))
  <2>1. \A k \in 1..((n + 1) - 1) : Before(x, k + 1)' \subseteq Before(x, k)'
    BY <1>1, <1>11 DEF NoneCame
  <2>2. NoneCame(x)
    BY <1>0, <1>9, <2>1 DEF NoneCame
  <2>3. ASSUME from # <<>> PROVE PosIn(c, x) <= LastPos(x)
    <3>1. BeforeIn(c, x) \subseteq BeforeIn(states[from[n]], x)
      BY <1>8, <2>1, <2>3
    <3> QED BY <1>2, <1>3, <1>8, <2>3, <3>1, BeforeInOrders
  <2> QED BY <2>2, <2>3
<1> QED BY <1>0, <1>2, <1>3, <1>4, <1>6, <1>7, <1>10, <1>11

LEMMA ReadOut ==
  ASSUME TypeOK, NEW v \in 1..Len(states), Read(v)
  PROVE  /\ Page(states[v]) \in Seq(Items) /\ out \in Seq(Items)
         /\ Len(out') = Len(out) + Len(Page(states[v])) /\ DOMAIN out' = 1..Len(out')
         /\ \A k \in 1..Len(out) : out'[k] = out[k]
         /\ \A k \in 1..Len(Page(states[v])) : out'[Len(out) + k] = Page(states[v])[k]
         /\ ToSet(out') = ToSet(out) \cup ToSet(Page(states[v]))
<1> DEFINE d == Page(states[v])
<1>1. d \in Seq(Items) /\ out \in Seq(Items) /\ out' = out \o d
  <2>1. states \in Seq(Seq(Items)) /\ out \in Seq(Items)
    BY DEF TypeOK
  <2>2. states[v] \in Seq(Items) /\ skip \in Nat
    BY <2>1, SkipTypes
  <2>3. d \in Seq(Items)
    BY <2>2, PageIs
  <2> QED BY <2>1, <2>3 DEF Read
<1> HIDE DEF d
<1>2. /\ Len(out') = Len(out) + Len(d) /\ out' \in Seq(Items)
      /\ \A k \in 1..(Len(out) + Len(d)) : out'[k] = IF k <= Len(out) THEN out[k] ELSE d[k - Len(out)]
  BY <1>1, ConcatProperties
<1>3. DOMAIN out' = 1..Len(out') /\ Len(out) \in Nat /\ Len(d) \in Nat
  BY <1>1, <1>2
<1>4. \A k \in 1..Len(out) : out'[k] = out[k]
  BY <1>2, <1>3
<1>5. ASSUME NEW k \in 1..Len(d) PROVE out'[Len(out) + k] = d[k]
  <2>1. Len(out) + k \in 1..(Len(out) + Len(d)) /\ ~(Len(out) + k <= Len(out))
    BY <1>3
  <2>2. (Len(out) + k) - Len(out) = k
    BY <1>3
  <2> QED BY <1>2, <2>1, <2>2
<1>6. \A k \in 1..Len(out') : k \in 1..Len(out) \/ \E m \in 1..Len(d) : k = Len(out) + m
  <2> SUFFICES ASSUME NEW k \in 1..Len(out'), k \notin 1..Len(out)
               PROVE  \E m \in 1..Len(d) : k = Len(out) + m
    OBVIOUS
  <2>1. k - Len(out) \in 1..Len(d) /\ k = Len(out) + (k - Len(out))
    BY <1>2, <1>3
  <2> QED BY <2>1
<1>7. ToSet(out') = ToSet(out) \cup ToSet(d)
  <2>1. /\ ToSet(out') = {out'[k] : k \in 1..Len(out')} /\ ToSet(out) = {out[k] : k \in 1..Len(out)}
        /\ ToSet(d) = {d[k] : k \in 1..Len(d)}
    BY <1>1, <1>3 DEF ToSet
  <2>2. \A k \in 1..Len(out) : k \in 1..Len(out')
    BY <1>2, <1>3
  <2>3. \A k \in 1..Len(d) : Len(out) + k \in 1..Len(out')
    BY <1>2, <1>3
  <2>4. ASSUME NEW y \in ToSet(out') PROVE y \in ToSet(out) \cup ToSet(d)
    <3>1. PICK k \in 1..Len(out') : y = out'[k]
      BY <2>1
    <3>2. CASE k \in 1..Len(out)
      BY <1>4, <2>1, <3>1, <3>2
    <3>3. ASSUME NEW m \in 1..Len(d), k = Len(out) + m PROVE y \in ToSet(d)
      BY <1>5, <2>1, <3>1, <3>3
    <3> QED BY <1>6, <3>2, <3>3
  <2>5. ASSUME NEW y \in ToSet(out) PROVE y \in ToSet(out')
    <3>1. PICK k \in 1..Len(out) : y = out[k]
      BY <2>1
    <3> QED BY <1>4, <2>1, <2>2, <3>1
  <2>6. ASSUME NEW y \in ToSet(d) PROVE y \in ToSet(out')
    <3>1. PICK k \in 1..Len(d) : y = d[k]
      BY <2>1
    <3> QED BY <1>5, <2>1, <2>3, <3>1
  <2> QED BY <2>4, <2>5, <2>6
<1> QED BY <1>1, <1>2, <1>3, <1>4, <1>5, <1>7 DEF d

LEMMA ReadKeeps == ASSUME IInv, NEW v \in 1..Len(states), Read(v) PROVE IInv'
<1> DEFINE c == states[v]
           n == Len(from)
<1>1. TypeOK /\ TypeOK' /\ skip \in Nat /\ (from = <<>> => skip = 0) /\ n \in Nat
  <2>1. TypeOK
    BY DEF IInv
  <2> QED BY <2>1, ReadTypes, SkipTypes, HistoryTypes
<1>2. /\ pc = "ask" /\ from' # <<>> /\ Len(from') = n + 1
      /\ IF IsLast(Len(Page(c))) THEN pc' = "done" /\ skip' = skip
         ELSE pc' = "ask" /\ skip' = skip + PageSize
  <2>1. from' = Append(from, v) /\ from \in Seq(1..Len(states))
    BY <1>1 DEF Read, TypeOK
  <2>2. from' # <<>> /\ Len(from') = n + 1
    BY <2>1, AppendProperties
  <2> QED BY <2>2 DEF Read, NextSkip
<1>3. ToSet(out') = ToSet(out) \cup ToSet(Page(c))
  BY <1>1, ReadOut
\* An item that was there and was not found comes after the page.
<1>4. ASSUME NEW x \in Items, Steady(x)', NoneGone(x)', x \notin ToSet(out')
      PROVE  PosIn(c, x) > skip + PageSize
  <2>1. c \in Seq(Items) /\ IsInjective(c) /\ x \in ToSet(c) /\ PosIn(c, x) \in 1..Len(c)
    BY <1>4, ReadFacts, PosInIs
  <2>2. PosIn(c, x) > skip
    <3>1. CASE from = <<>>
      BY <1>1, <2>1, <3>1
    <3>2. CASE from # <<>>
      <4>1. LastPos(x) > skip
        BY <1>2, <1>3, <1>4, <3>2, ReadFacts DEF IInv, Place
      <4>2. LastPos(x) <= PosIn(c, x)
        BY <1>4, <3>2, ReadFacts
      <4>3. LastPos(x) \in Nat
        <5>1. n \in DOMAIN from /\ from[n] \in 1..Len(states) /\ states[from[n]] \in Seq(Items)
          BY <1>1, <3>2, HistoryTypes
        <5>2. x \in ToSet(states[from[n]])
          BY <1>4, <5>1, ReadFacts DEF Steady
        <5> QED BY <5>1, <5>2, PosInIs DEF LastPos
      <4> QED BY <1>1, <2>1, <4>1, <4>2, <4>3
    <3> QED BY <3>1, <3>2
  <2>3. x \notin ToSet(Page(c))
    BY <1>3, <1>4
  <2> QED BY <1>1, <2>1, <2>2, <2>3, OnPage
\* An item that was found and before which none came is before the end of the page,
\* and if it was found before, then before its beginning.
<1>5. ASSUME NEW x \in Items, Steady(x)', NoneCame(x)', x \in ToSet(out)
      PROVE  PosIn(c, x) <= skip
  <2>1. c \in Seq(Items) /\ x \in ToSet(c) /\ PosIn(c, x) \in 1..Len(c)
    BY <1>5, ReadFacts, PosInIs
  <2>2. from # <<>> /\ LastPos(x) <= skip
    BY <1>2, <1>5, ReadFacts DEF IInv, Place
  <2>3. PosIn(c, x) <= LastPos(x)
    BY <1>5, <2>2, ReadFacts
  <2>4. LastPos(x) \in Nat
    <3>1. n \in DOMAIN from /\ from[n] \in 1..Len(states) /\ states[from[n]] \in Seq(Items)
      BY <1>1, <2>2, HistoryTypes
    <3>2. x \in ToSet(states[from[n]])
      BY <1>5, <3>1, ReadFacts DEF Steady
    <3> QED BY <3>1, <3>2, PosInIs DEF LastPos
  <2> QED BY <1>1, <2>1, <2>2, <2>3, <2>4
<1>6. ASSUME NEW x \in Items, Steady(x)', x \in ToSet(Page(c))
      PROVE  skip < PosIn(c, x) /\ PosIn(c, x) <= skip + PageSize
  BY <1>1, <1>6, ReadFacts, OnPage
<1>7. Place'
  <2> SUFFICES ASSUME pc' = "ask", NEW x \in Items, Steady(x)'
               PROVE  /\ (NoneGone(x)' /\ x \notin ToSet(out') => LastPos(x)' > skip')
                      /\ (NoneCame(x)' /\ x \in ToSet(out') => LastPos(x)' <= skip')
    BY <1>2 DEF Place
  <2>1. skip' = skip + PageSize /\ LastPos(x)' = PosIn(c, x) /\ PosIn(c, x) \in Nat
    BY <1>2, ReadFacts, PosInIs
  <2>2. NoneGone(x)' /\ x \notin ToSet(out') => LastPos(x)' > skip'
    BY <1>4, <2>1
  <2>3. ASSUME NoneCame(x)', x \in ToSet(out') PROVE PosIn(c, x) <= skip + PageSize
    <3>1. CASE x \in ToSet(out)
      BY <1>1, <1>5, <2>1, <2>3, <3>1
    <3>2. CASE x \in ToSet(Page(c))
      BY <1>6, <3>2
    <3> QED BY <1>3, <2>3, <3>1, <3>2
  <2> QED BY <2>1, <2>2, <2>3
<1>8. LostOnlyByRemoval'
  <2> SUFFICES ASSUME pc' = "done", NEW x \in Items, Steady(x)', x \notin ToSet(out')
               PROVE  ~NoneGone(x)'
    BY DEF LostOnlyByRemoval, NoneGone
  <2>1. c \in Seq(Items) /\ PosIn(c, x) \in 1..Len(c) /\ Len(Page(c)) < PageSize
    BY <1>2, ReadFacts, PosInIs DEF IsLast
  <2>2. Len(c) < skip + PageSize
    <3>1. Len(c) \in Nat
      BY <2>1
    <3>2. Len(Page(c)) = IF skip >= Len(c) THEN 0 ELSE Lesser(skip + PageSize, Len(c)) - skip
      BY <1>1, <2>1, PageIs
    <3> QED BY <1>1, <2>1, <3>1, <3>2 DEF Lesser
  <2> QED BY <1>1, <1>4, <2>1, <2>2
<1>9. TwiceOnlyByInsertion'
  <2> SUFFICES ASSUME NEW x \in Items, NEW i \in DOMAIN out', NEW j \in DOMAIN out', i < j,
                      out'[i] = x, out'[j] = x, Steady(x)', NoneCame(x)'
               PROVE  FALSE
    BY DEF TwiceOnlyByInsertion, NoneCame
  <2> DEFINE m == Len(out)
  <2>1. /\ m \in Nat /\ Len(Page(c)) \in Nat /\ DOMAIN out' = 1..(m + Len(Page(c))) /\ DOMAIN out = 1..m
        /\ \A k \in 1..m : out'[k] = out[k]
        /\ \A k \in 1..Len(Page(c)) : out'[m + k] = Page(c)[k]
        /\ x \in Items /\ ToSet(out) = {out[k] : k \in 1..m}
    <3>1. /\ out \in Seq(Items) /\ Page(c) \in Seq(Items) /\ Len(out') = m + Len(Page(c))
          /\ DOMAIN out' = 1..Len(out') /\ out' \in Seq(Items)
          /\ \A k \in 1..m : out'[k] = out[k]
          /\ \A k \in 1..Len(Page(c)) : out'[m + k] = Page(c)[k]
      BY <1>1, ReadOut DEF TypeOK
    <3> QED BY <3>1 DEF ToSet
  <2>2. CASE j <= m
    <3>1. i \in DOMAIN out /\ j \in DOMAIN out /\ out[i] = x /\ out[j] = x
      BY <2>1, <2>2
    <3>2. Steady(x) /\ NoneCame(x)
      BY <2>1, ReadFacts
    <3> QED BY <3>1, <3>2 DEF IInv, TwiceOnlyByInsertion, NoneCame
  <2>3. CASE i <= m /\ j > m
    <3>1. x \in ToSet(out)
      BY <2>1, <2>3
    <3>2. x \in ToSet(Page(c))
      <4>1. j - m \in 1..Len(Page(c)) /\ m + (j - m) = j
        BY <2>1, <2>3
      <4>2. Page(c)[j - m] = x
        BY <2>1, <4>1
      <4>3. DOMAIN Page(c) = 1..Len(Page(c))
        BY <1>1, ReadOut
      <4> QED BY <4>1, <4>2, <4>3 DEF ToSet
    <3>3. PosIn(c, x) <= skip
      BY <1>5, <2>1, <3>1
    <3>4. skip < PosIn(c, x)
      BY <1>6, <2>1, <3>2
    <3>5. PosIn(c, x) \in Nat
      BY <2>1, ReadFacts, PosInIs
    <3> QED BY <1>1, <3>3, <3>4, <3>5
  <2>4. CASE i > m /\ j > m
    <3>1. i - m \in 1..Len(Page(c)) /\ m + (i - m) = i /\ j - m \in 1..Len(Page(c)) /\ m + (j - m) = j
      BY <2>1, <2>4
    <3>2. Page(c)[i - m] = Page(c)[j - m]
      BY <2>1, <3>1
    <3>3. c \in Seq(Items) /\ IsInjective(c)
      BY ReadFacts
    <3>4. ASSUME NEW k \in 1..Len(Page(c))
          PROVE  Page(c)[k] = c[skip + k] /\ skip + k \in 1..Len(c)
      <4>1. /\ Len(Page(c)) = IF skip >= Len(c) THEN 0 ELSE Lesser(skip + PageSize, Len(c)) - skip
            /\ Page(c)[k] = c[skip + k] /\ Len(c) \in Nat
        BY <1>1, <3>3, PageIs
      <4>2. Lesser(skip + PageSize, Len(c)) <= Len(c) /\ Lesser(skip + PageSize, Len(c)) \in Nat
        BY <1>1, <4>1 DEF Lesser
      <4>3. Len(Page(c)) \in Nat /\ ~(skip >= Len(c))
        BY <1>1, <4>1
      <4>4. skip + k <= Lesser(skip + PageSize, Len(c))
        BY <1>1, <4>1, <4>2, <4>3
      <4> QED BY <1>1, <4>1, <4>2, <4>4
    <3>5. skip + (i - m) = skip + (j - m)
      <4>1. c[skip + (i - m)] = c[skip + (j - m)]
        BY <3>1, <3>2, <3>4
      <4>2. skip + (i - m) \in DOMAIN c /\ skip + (j - m) \in DOMAIN c
        BY <3>1, <3>3, <3>4
      <4> QED BY <3>3, <4>1, <4>2 DEF IsInjective
    <3>6. i = j
      <4>1. i \in Nat /\ j \in Nat
        BY <2>1
      <4> QED BY <1>1, <2>1, <3>5, <4>1
    <3> QED BY <2>1, <3>6
  <2> QED BY <2>1, <2>2, <2>3, <2>4
<1> QED BY <1>1, <1>7, <1>8, <1>9 DEF IInv

LEMMA BeginKeeps == ASSUME IInv, TypeOK', Begin PROVE IInv'
<1>1. out' = <<>> /\ from' = <<>> /\ pc' = "ask"
  BY DEF Begin
<1>2. ToSet(out') = {} /\ DOMAIN out' = {}
  BY <1>1 DEF ToSet
<1> QED BY <1>1, <1>2 DEF IInv, Place, LostOnlyByRemoval, TwiceOnlyByInsertion

LEMMA BecomeKeeps == ASSUME IInv, TypeOK', NEW c \in Seq(Items), Become(c) PROVE IInv'
<1>1. \A k \in 1..Len(states) : states'[k] = states[k]
  BY AppendProperties DEF IInv, TypeOK, Become
<1> QED BY <1>1, SameAnswer DEF Become

LEMMA NextKeeps == IInv /\ [Next]_vars => IInv'
<1> SUFFICES ASSUME IInv, [Next]_vars PROVE IInv'
  OBVIOUS
<1>1. TypeOK'
  BY TypesKept DEF IInv
<1>2. CASE Begin
  BY <1>1, <1>2, BeginKeeps
<1>3. CASE \E v \in 1..Len(states) : Read(v)
  BY <1>3, ReadKeeps
<1>4. CASE Fail \/ UNCHANGED vars
  BY <1>1, <1>4, SameAnswer DEF Fail, vars
<1>5. CASE \E x \in Items, i \in 1..(Len(Present) + 1) : Insert(x, i)
  BY <1>1, <1>5, PresentTypes, InsertTypes, BecomeKeeps DEF IInv, Insert
<1>6. CASE \E i \in 1..Len(Present) : Delete(i)
  BY <1>1, <1>6, PresentTypes, RemoveTypes, BecomeKeeps DEF IInv, Delete
<1> QED BY <1>2, <1>3, <1>4, <1>5, <1>6 DEF Next

LEMMA InitIInv == Init => IInv
<1> SUFFICES ASSUME Init PROVE IInv
  OBVIOUS
<1>1. DOMAIN out = {} /\ pc = "idle"
  BY DEF Init
<1> QED BY <1>1, InitTypes DEF IInv, Place, LostOnlyByRemoval, TwiceOnlyByInsertion

LEMMA SpecIInv == Spec => []IInv
  BY InitIInv, NextKeeps, PTL DEF Spec

\* However the collection changes while it is read, and from however old a copy each
\* page is: only what moves ahead of the reading is missed.
THEOREM MissedOnlyByRemoval == Spec => []LostOnlyByRemoval
<1>1. IInv => LostOnlyByRemoval
  BY DEF IInv
<1> QED BY <1>1, SpecIInv, PTL

\* And only what moves behind it is read again.
THEOREM DoubledOnlyByInsertion == Spec => []TwiceOnlyByInsertion
<1>1. IInv => TwiceOnlyByInsertion
  BY DEF IInv
<1> QED BY <1>1, SpecIInv, PTL
=============================================================================
