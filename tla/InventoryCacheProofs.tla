------------------------ MODULE InventoryCacheProofs ------------------------
(***************************************************************************)
(* Proofs about InventoryCache, for every number of handlers, requests,     *)
(* jobs and backups.  IInv is inductive; Reading follows what a build has   *)
(* read from point to point, Numbering keeps builds apart from each other   *)
(* and from what was stored and dropped.                                    *)
(***************************************************************************)
EXTENDS InventoryCache, TLAPS

-----------------------------------------------------------------------------
(* The points of buildInventory *)

\* From a point that a build reaches it goes on to another one, and has then
\* read the collection that was required in between.
LEMMA PointsLead ==
  ASSUME NEW p \in Points, Reached(p), NEW q \in After(p)
  PROVE  /\ q \in Points /\ Reached(q) /\ q.stage \in Loading
         /\ ReadBy(q) = ReadBy(p) \cup Required(p)
<1> USE BoundsAssumption DEF Points, Point, Loading, Reached, After, NextJob
<1>1. CASE p.stage = "repos" /\ p.done < 2
  BY <1>1 DEF ReadBy, Required
<1>2. CASE p.stage = "repos" /\ p.done = 2
  <2>1. PICK n \in 0..MaxJobs : q = Point("jobs", 0, n)
    BY <1>2
  <2> QED BY <1>2, <2>1 DEF ReadBy, Required
<1>3. CASE p.stage = "jobs"
  BY <1>3 DEF ReadBy, Required
<1>4. CASE p.stage = "backups"
  <2>1. PICK n \in 0..MaxBackups : q = Point("objects", 0, n + 1)
    BY <1>4
  <2> QED BY <1>4, <2>1 DEF ReadBy, Required
<1>5. CASE p.stage = "objects"
  BY <1>5 DEF ReadBy, Required, Mandatory
<1> QED BY <1>1, <1>2, <1>3, <1>4, <1>5

\* A build that has no further point has read everything that is mandatory.
LEMMA LastPoint ==
  ASSUME NEW p \in Points, Reached(p), After(p) = {}
  PROVE  ReadBy(p) \cup Required(p) = Mandatory
<1> USE BoundsAssumption DEF Points, Point, Reached
<1>1. p.stage # "repos"
  <2>1. CASE p.stage = "repos" /\ p.done < 2
    <3>1. Point("repos", p.done + 1, 3) \in After(p)
      BY <2>1 DEF After
    <3> QED BY <3>1
  <2>2. CASE p.stage = "repos" /\ p.done = 2
    <3>1. Point("jobs", 0, 0) \in After(p)
      BY <2>2 DEF After
    <3> QED BY <3>1
  <2> QED BY <2>1, <2>2
<1>2. p.stage # "jobs"
  <2>1. CASE p.stage = "jobs" /\ p.done < p.total
    <3>1. NextJob(p) \in After(p)
      BY <2>1 DEF After
    <3> QED BY <3>1
  <2>2. CASE p.stage = "jobs" /\ p.done = p.total
    <3>1. Point("backups", 0, 1) \in After(p)
      BY <2>2 DEF After
    <3> QED BY <3>1
  <2> QED BY <2>1, <2>2
<1>3. p.stage # "backups"
  <2>1. CASE p.stage = "backups"
    <3>1. Point("objects", 0, 0 + 1) \in After(p)
      BY <2>1 DEF After
    <3> QED BY <3>1
  <2> QED BY <2>1
<1>4. p.stage = "objects"
  BY <1>1, <1>2, <1>3
<1> QED BY <1>4 DEF ReadBy, Required, Mandatory

\* The constants of the model are points.
LEMMA FixedPoints ==
  /\ Nothing \in Points /\ Done \in Points /\ Error \in Points
  /\ Point("repos", 0, 3) \in Points /\ Reached(Point("repos", 0, 3))
  /\ ReadBy(Point("repos", 0, 3)) = {}
  /\ {Nothing.stage, Done.stage, Error.stage} \cap Loading = {}
BY DEF Nothing, Done, Error, Point, Points, Loading, Reached, ReadBy

-----------------------------------------------------------------------------
(* The estimate *)

LEMMA QuotientGrows ==
  ASSUME NEW a \in Nat, NEW b \in Nat, a <= b, NEW n \in Nat \ {0}
  PROVE  a \div n \in Nat /\ a \div n <= b \div n
OBVIOUS

LEMMA QuotientBounded ==
  ASSUME NEW c \in Nat, NEW a \in Nat, NEW n \in Nat \ {0}, a <= n
  PROVE  (c * a) \div n \in 0..c
OBVIOUS

LEMMA QuotientBelow ==
  ASSUME NEW c \in Nat \ {0}, NEW a \in Nat, NEW n \in Nat \ {0}, a < n
  PROVE  (c * a) \div n \in 0..(c - 1)
OBVIOUS

\* The part of a span that has been covered at a point.
Share(c, p) == (c * p.done) \div p.total

LEMMA ShareGrows ==
  ASSUME NEW p \in Points, NEW q \in Points, NEW c \in Nat,
         q.done = p.done + 1, q.total = p.total, p.total > 0
  PROVE  Share(c, p) \in Nat /\ Share(c, q) \in Nat /\ Share(c, p) <= Share(c, q)
<1>1. p.done \in Nat /\ q.done \in Nat /\ p.total \in Nat \ {0}
  BY DEF Points
<1>2. c * p.done \in Nat /\ c * q.done \in Nat /\ c * p.done <= c * q.done
  BY <1>1
<1> QED BY <1>1, <1>2, QuotientGrows DEF Share

\* What the estimate is in each stage.
LEMMA PercentIn ==
  ASSUME NEW p \in Points, Reached(p)
  PROVE  /\ p.stage = "repos" => Percent(p) \in 0..10 /\ Percent(p) = Share(10, p)
         /\ p.stage = "jobs" => Percent(p) \in 10..55
         /\ p.stage = "jobs" /\ p.total > 0 => Percent(p) = 10 + Share(45, p)
         /\ p.stage = "backups" => Percent(p) = 55
         /\ p.stage = "objects" => Percent(p) \in 65..99 /\ Percent(p) = 65 + Share(35, p)
<1>1. CASE p.stage = "repos"
  <2>1. p.done \in Nat /\ p.done <= p.total /\ p.total = 3
    BY <1>1 DEF Points, Reached
  <2>2. Share(10, p) \in 0..10
    BY <2>1, QuotientBounded DEF Share
  <2>3. Percent(p) = Share(10, p)
    BY <1>1, <2>1, <2>2 DEF Percent, Base, Span, Share
  <2> QED BY <1>1, <2>2, <2>3
<1>2. CASE p.stage = "jobs" /\ p.total = 0
  <2>1. Percent(p) = 10
    BY <1>2 DEF Percent, Base, Span
  <2> QED BY <1>2, <2>1
<1>3. CASE p.stage = "jobs" /\ p.total # 0
  <2>1. p.done \in Nat /\ p.total \in Nat \ {0} /\ p.done <= p.total
    BY <1>3 DEF Points, Reached
  <2>2. Share(45, p) \in 0..45
    BY <2>1, QuotientBounded DEF Share
  <2>3. Percent(p) = 10 + Share(45, p)
    BY <1>3, <2>1, <2>2 DEF Percent, Base, Span, Share
  <2> QED BY <1>3, <2>2, <2>3
<1>4. CASE p.stage = "backups"
  <2>1. Percent(p) = 55
    BY <1>4 DEF Percent, Base, Span, Points, Reached
  <2> QED BY <1>4, <2>1
<1>5. CASE p.stage = "objects"
  <2>1. p.done \in Nat /\ p.total \in Nat \ {0} /\ p.done < p.total
    BY <1>5 DEF Points, Reached
  <2>2. Share(35, p) \in 0..(35 - 1)
    BY <2>1, QuotientBelow DEF Share
  <2>3. Percent(p) = 65 + Share(35, p)
    BY <1>5, <2>1, <2>2 DEF Percent, Base, Span, Share
  <2> QED BY <1>5, <2>2, <2>3
<1>6. p.stage \in {"repos", "jobs", "backups", "objects"}
  BY DEF Reached
<1> QED BY <1>1, <1>2, <1>3, <1>4, <1>5, <1>6

\* The tables stageBase and stageSpan fit together: from a point to the next one
\* the estimate does not fall.
LEMMA PercentLeads ==
  ASSUME NEW p \in Points, Reached(p), NEW q \in After(p)
  PROVE  Percent(p) <= Percent(q) /\ Percent(q) < 100
<1> USE DEF Points, Reached, Point
<1>1. q \in Points /\ Reached(q) /\ q.stage \in Loading
  BY PointsLead
<1>2. Percent(q) < 100
  BY <1>1, PercentIn DEF Loading
<1>3. CASE p.stage = q.stage
  <2>1. p.stage # "backups" /\ q.done = p.done + 1 /\ q.total = p.total /\ p.total > 0
    BY <1>3, BoundsAssumption DEF After, NextJob
  <2>2. \A c \in Nat :
          Share(c, p) \in Nat /\ Share(c, q) \in Nat /\ Share(c, p) <= Share(c, q)
    BY <1>1, <2>1, ShareGrows
  <2>3. CASE p.stage = "repos"
    <3>1. Percent(p) = Share(10, p) /\ Percent(q) = Share(10, q)
      BY <1>1, <1>3, <2>3, PercentIn
    <3>2. Share(10, p) \in Nat /\ Share(10, q) \in Nat /\ Share(10, p) <= Share(10, q)
      BY <2>2
    <3> QED BY <1>2, <3>1, <3>2
  <2>4. CASE p.stage = "jobs"
    <3>1. Percent(p) = 10 + Share(45, p) /\ Percent(q) = 10 + Share(45, q)
      BY <1>1, <1>3, <2>1, <2>4, PercentIn
    <3>2. Share(45, p) \in Nat /\ Share(45, q) \in Nat /\ Share(45, p) <= Share(45, q)
      BY <2>2
    <3> QED BY <1>2, <3>1, <3>2
  <2>5. CASE p.stage = "objects"
    <3>1. Percent(p) = 65 + Share(35, p) /\ Percent(q) = 65 + Share(35, q)
      BY <1>1, <1>3, <2>5, PercentIn
    <3>2. Share(35, p) \in Nat /\ Share(35, q) \in Nat /\ Share(35, p) <= Share(35, q)
      BY <2>2
    <3> QED BY <1>2, <3>1, <3>2
  <2> QED BY <1>2, <2>1, <2>3, <2>4, <2>5
<1>4. CASE p.stage # q.stage
  <2>1. CASE p.stage = "repos"
    <3>1. q.stage = "jobs"
      BY <1>4, <2>1, BoundsAssumption DEF After
    <3> QED BY <1>1, <2>1, <3>1, PercentIn
  <2>2. CASE p.stage = "jobs"
    <3>1. q.stage = "backups"
      BY <1>4, <2>2 DEF After, NextJob
    <3> QED BY <1>1, <2>2, <3>1, PercentIn
  <2>3. CASE p.stage = "backups"
    <3>1. q.stage = "objects"
      BY <2>3, BoundsAssumption DEF After
    <3> QED BY <1>1, <2>3, <3>1, PercentIn
  <2>4. CASE p.stage = "objects"
    BY <1>4, <2>4 DEF After
  <2> QED BY <2>1, <2>2, <2>3, <2>4
<1> QED BY <1>2, <1>3, <1>4

-----------------------------------------------------------------------------
(* The steps *)

LEMMA LoadKeeps ==
  ASSUME IInv, NEW h \in Handlers, Load(h)
  PROVE  IInv'
<1> USE BoundsAssumption DEF IInv, Load, GoTo, PCs, Active, Unstored
<1>1. TypeOK' /\ WholeInventory'
  BY DEF TypeOK, WholeInventory
<1>2. Reading' /\ AtRest'
  BY DEF TypeOK, Reading, AtRest, Resting
<1>3. Numbering' /\ Dropping'
  BY DEF TypeOK, Numbering, Dropping
<1> QED BY <1>1, <1>2, <1>3

LEMMA RefreshKeeps ==
  ASSUME IInv, NEW h \in Handlers, Refresh(h)
  PROVE  IInv'
<1> USE BoundsAssumption DEF IInv, Refresh, DropsInventory, GoTo, PCs, Active, Unstored, NoInventory
<1>1. TypeOK' /\ WholeInventory'
  <2>1. requests' \in 0..MaxRequests
    BY DEF TypeOK
  <2>2. dropped' \subseteq 1..builds
    <3>1. inv.num \in 0..builds /\ dropped \subseteq 1..builds /\ builds \in Nat
      BY DEF TypeOK, Numbering
    <3>2. dropped' = dropped \cup ({inv.num} \ {0})
      OBVIOUS
    <3>3. ASSUME NEW n \in dropped' PROVE n \in 1..builds
      <4>1. n \in dropped \/ (n = inv.num /\ n # 0)
        BY <3>2, <3>3
      <4> QED BY <3>1, <4>1
    <3> QED BY <3>3
  <2>3. gone' \in [Handlers -> SUBSET Nat]
    <3>1. dropped' \in SUBSET Nat
      BY <2>2 DEF TypeOK
    <3> QED BY <3>1 DEF TypeOK
  <2> QED BY <2>1, <2>2, <2>3 DEF TypeOK, WholeInventory
<1>2. Reading' /\ AtRest'
  BY DEF TypeOK, Reading, AtRest, Resting
<1>3. Numbering' /\ Dropping'
  BY DEF TypeOK, Numbering, Dropping
<1> QED BY <1>1, <1>2, <1>3

LEMMA WipeKeeps ==
  ASSUME IInv, NEW h \in Handlers, Wipe(h)
  PROVE  IInv'
<1> USE FixedPoints DEF IInv, Wipe, GoTo, PCs, Active, Unstored
<1>1. TypeOK' /\ WholeInventory'
  BY DEF TypeOK, WholeInventory
<1>2. Reading' /\ AtRest'
  BY DEF TypeOK, Reading, AtRest, Resting
<1>3. Numbering' /\ Dropping'
  BY DEF TypeOK, Numbering, Dropping
<1> QED BY <1>1, <1>2, <1>3

LEMMA ReturnKeeps ==
  ASSUME IInv, NEW h \in Handlers, Return(h)
  PROVE  IInv'
<1> USE DEF IInv, Return, GoTo, PCs, Active, Unstored
<1>1. TypeOK' /\ WholeInventory'
  BY DEF TypeOK, WholeInventory
<1>2. Reading' /\ AtRest'
  BY DEF TypeOK, Reading, AtRest, Resting
<1>3. Numbering' /\ Dropping'
  BY DEF TypeOK, Numbering, Dropping
<1> QED BY <1>1, <1>2, <1>3

\* A hit is an inventory that no refresh has dropped; a miss takes a new number.
LEMMA LookKeeps ==
  ASSUME IInv, NEW h \in Handlers, Look(h)
  PROVE  IInv'
<1> USE DEF IInv, Look, GoTo, PCs, Active, Unstored
<1>1. CASE inv # NoInventory
  <2>1. TypeOK' /\ WholeInventory'
    BY <1>1 DEF TypeOK, WholeInventory
  <2>2. Reading' /\ AtRest'
    BY <1>1 DEF TypeOK, Reading, AtRest, Resting
  <2>3. Numbering' /\ Dropping'
    BY <1>1 DEF TypeOK, Numbering, Dropping
  <2> QED BY <2>1, <2>2, <2>3
<1>2. CASE inv = NoInventory
  <2>1. TypeOK' /\ WholeInventory'
    BY <1>2 DEF TypeOK, WholeInventory
  <2>2. Reading' /\ AtRest'
    BY <1>2 DEF TypeOK, Reading, AtRest, Resting
  <2>3. Numbering' /\ Dropping'
    BY <1>2 DEF TypeOK, Numbering, Dropping
  <2> QED BY <2>1, <2>2, <2>3
<1> QED BY <1>1, <1>2

LEMMA BeginKeeps ==
  ASSUME IInv, NEW h \in Handlers, Begin(h)
  PROVE  IInv'
<1> USE FixedPoints DEF IInv, Begin, GoTo, PCs, Active, Unstored
<1>1. TypeOK' /\ WholeInventory'
  BY DEF TypeOK, WholeInventory
<1>2. Reading' /\ AtRest'
  BY DEF TypeOK, Reading, AtRest, Resting
<1>3. Numbering' /\ Dropping'
  BY DEF TypeOK, Numbering, Dropping
<1> QED BY <1>1, <1>2, <1>3

LEMMA AdvanceKeeps ==
  ASSUME IInv, NEW h \in Handlers, Advance(h)
  PROVE  IInv'
<1> USE DEF IInv, PCs, Active, Unstored
<1>1. PICK p \in After(at[h]) :
        /\ at' = [at EXCEPT ![h] = p] /\ progress' = p
        /\ read' = [read EXCEPT ![h] = @ \cup Required(at[h])]
  BY DEF Advance
<1>2. /\ pc[h] = "build"
      /\ UNCHANGED <<pc, mine, inv, requests, builds, dropped, gone>>
  BY DEF Advance
<1>3. /\ p \in Points /\ Reached(p) /\ p.stage \in Loading
      /\ ReadBy(p) = read[h] \cup Required(at[h])
  BY <1>2, PointsLead DEF TypeOK, Reading
<1>4. Required(at[h]) \subseteq Mandatory
  BY DEF Required, Mandatory
<1>5. TypeOK' /\ WholeInventory'
  BY <1>1, <1>2, <1>3, <1>4 DEF TypeOK, WholeInventory
<1>6. Reading' /\ AtRest'
  BY <1>1, <1>2, <1>3 DEF TypeOK, Reading, AtRest, Resting
<1>7. Numbering' /\ Dropping'
  BY <1>2 DEF Numbering, Dropping
<1> QED BY <1>5, <1>6, <1>7

LEMMA CompleteKeeps ==
  ASSUME IInv, NEW h \in Handlers, Complete(h)
  PROVE  IInv'
<1> USE DEF IInv, Complete, GoTo, PCs, Active, Unstored
<1>1. read[h] \cup Required(at[h]) = Mandatory
  BY LastPoint DEF TypeOK, Reading
<1>2. TypeOK' /\ WholeInventory'
  BY <1>1 DEF TypeOK, WholeInventory
<1>3. Reading' /\ AtRest'
  BY <1>1 DEF TypeOK, Reading, AtRest, Resting
<1>4. Numbering' /\ Dropping'
  BY DEF TypeOK, Numbering, Dropping
<1> QED BY <1>2, <1>3, <1>4

LEMMA AbortKeeps ==
  ASSUME IInv, NEW h \in Handlers, Abort(h)
  PROVE  IInv'
<1> USE DEF IInv, Abort, GoTo, PCs, Active, Unstored
<1>1. TypeOK' /\ WholeInventory'
  BY DEF TypeOK, WholeInventory
<1>2. Reading' /\ AtRest'
  BY DEF TypeOK, Reading, AtRest, Resting
<1>3. Numbering' /\ Dropping'
  BY DEF TypeOK, Numbering, Dropping
<1> QED BY <1>1, <1>2, <1>3

LEMMA StoreKeeps ==
  ASSUME IInv, NEW h \in Handlers, Store(h)
  PROVE  IInv'
<1> USE DEF IInv, Store, GoTo, PCs, Active, Unstored
<1>1. TypeOK' /\ WholeInventory'
  BY DEF TypeOK, WholeInventory, Reading
<1>2. Reading' /\ AtRest'
  BY DEF TypeOK, Reading, AtRest, Resting
<1>3. Numbering' /\ Dropping'
  BY DEF TypeOK, Numbering, Dropping
<1> QED BY <1>1, <1>2, <1>3

LEMMA FinishKeeps ==
  ASSUME IInv, NEW h \in Handlers, Finish(h)
  PROVE  IInv'
<1> USE FixedPoints DEF IInv, Finish, GoTo, PCs, Active, Unstored
<1>1. TypeOK' /\ WholeInventory'
  BY DEF TypeOK, WholeInventory
<1>2. Reading' /\ AtRest'
  BY DEF TypeOK, Reading, AtRest, Resting
<1>3. Numbering' /\ Dropping'
  BY DEF TypeOK, Numbering, Dropping
<1> QED BY <1>1, <1>2, <1>3

LEMMA FailKeeps ==
  ASSUME IInv, NEW h \in Handlers, Fail(h)
  PROVE  IInv'
<1> USE FixedPoints DEF IInv, Fail, ShowError, GoTo, PCs, Active, Unstored
<1>1. TypeOK' /\ WholeInventory'
  BY DEF TypeOK, WholeInventory
<1>2. Reading' /\ AtRest'
  BY DEF TypeOK, Reading, AtRest, Resting
<1>3. Numbering' /\ Dropping'
  BY DEF TypeOK, Numbering, Dropping
<1> QED BY <1>1, <1>2, <1>3

-----------------------------------------------------------------------------
(* The theorems *)

LEMMA InitIInv == Init => IInv
<1> SUFFICES ASSUME Init PROVE IInv
  OBVIOUS
<1> USE FixedPoints DEF Init, PCs, Active, Unstored, NoInventory
<1>1. TypeOK /\ WholeInventory
  BY BoundsAssumption DEF TypeOK, WholeInventory
<1>2. Reading /\ AtRest
  BY DEF Reading, AtRest, Resting
<1>3. Numbering /\ Dropping
  BY DEF Numbering, Dropping
<1> QED BY <1>1, <1>2, <1>3 DEF IInv

LEMMA NextKeepsIInv == IInv /\ [Next]_vars => IInv'
<1> SUFFICES ASSUME IInv, [Next]_vars PROVE IInv'
  OBVIOUS
<1>1. CASE UNCHANGED vars
  BY <1>1 DEF vars, IInv, TypeOK, WholeInventory, Reading, Numbering, Dropping,
     AtRest, Resting
<1>2. ASSUME NEW h \in Handlers, Load(h) \/ Refresh(h) \/ Step(h) PROVE IInv'
  BY <1>2, LoadKeeps, RefreshKeeps, WipeKeeps, LookKeeps, BeginKeeps, AdvanceKeeps,
     CompleteKeeps, AbortKeeps, StoreKeeps, FinishKeeps, FailKeeps, ReturnKeeps DEF Step
<1> QED BY <1>1, <1>2 DEF Next

LEMMA SpecIInv == Spec => []IInv
BY InitIInv, NextKeepsIInv, PTL DEF Spec

\* The state is well typed, for every number of handlers, jobs and backups.
THEOREM InventoryTypeCorrect == Spec => []TypeOK
<1>1. IInv => TypeOK
  BY DEF IInv
<1> QED BY SpecIInv, <1>1, PTL

\* The session never keeps an inventory that lacks one of the mandatory
\* collections of buildInventory.
THEOREM InventoryIsWhole == Spec => []WholeInventory
<1>1. IInv => WholeInventory
  BY DEF IInv
<1> QED BY SpecIInv, <1>1, PTL

\* A request that begins after a refresh never gets the inventory it dropped.
THEOREM DroppedNeverServed == Spec => []RefreshDrops
<1>1. IInv => RefreshDrops
  BY DEF IInv, Dropping, RefreshDrops
<1> QED BY SpecIInv, <1>1, PTL

\* Once no handler loads, the progress is not that of a load half way.
THEOREM BarComesToRest == Spec => []BarNeverStuck
<1>1. IInv => BarNeverStuck
  BY DEF IInv, AtRest, BarNeverStuck, Shown, Loading
<1> QED BY SpecIInv, <1>1, PTL

\* While a load runs, the estimate it publishes never falls and stays below
\* 100 %, whatever the number of jobs and backups.
THEOREM EstimateGrows == Spec => PercentGrows
<1> DEFINE Growing ==
      \A h \in Handlers :
        at[h].stage \in Loading /\ at'[h].stage \in Loading =>
          Percent(at[h]) <= Percent(at'[h]) /\ Percent(at'[h]) < 100
<1>1. IInv /\ [Next]_vars => [Growing]_vars
  <2> SUFFICES ASSUME IInv, [Next]_vars, NEW h \in Handlers,
                      at[h].stage \in Loading, at'[h].stage \in Loading
               PROVE  Percent(at[h]) <= Percent(at'[h]) /\ Percent(at'[h]) < 100
    OBVIOUS
  <2>1. at[h] \in Points /\ Reached(at[h]) /\ at \in [Handlers -> Points] /\ pc[h] \in Active
    BY FixedPoints DEF IInv, TypeOK, Reading
  <2>2. CASE at'[h] = at[h]
    <3>1. Percent(at[h]) \in 0..99
      BY <2>1, PercentIn DEF Loading
    <3> QED BY <2>2, <3>1
  <2>3. CASE at'[h] # at[h]
    <3>1. PICK k \in Handlers : Begin(k) \/ Advance(k) \/ Finish(k) \/ Fail(k)
      BY <2>3 DEF Next, Step, vars, Load, Refresh, Wipe, Look, Complete, Abort, Store, Return
    <3>2. k = h
      BY <2>1, <2>3, <3>1 DEF Begin, Advance, Finish, Fail
    <3>3. ~Begin(h) /\ ~Finish(h) /\ ~Fail(h)
      BY <2>1, FixedPoints DEF Begin, Finish, Fail, Active
    <3>4. at'[h] \in After(at[h])
      BY <2>1, <3>1, <3>2, <3>3 DEF Advance
    <3> QED BY <2>1, <3>4, PercentLeads
  <2> QED BY <2>2, <2>3
<1> QED BY SpecIInv, <1>1, PTL DEF Spec, PercentGrows
=============================================================================
