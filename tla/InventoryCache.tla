--------------------------- MODULE InventoryCache ---------------------------
(***************************************************************************)
(* LoadInventory, Refresh and the progress they publish (inventory.go),     *)
(* called by the HTTP handlers of one session (handlers.go): the inventory  *)
(* every view needs is built by whoever first finds none, kept in the       *)
(* session, and dropped by "refresh".  Nothing joins two builds together.   *)
(*                                                                         *)
(* An inventory is abstracted to the number of the build that made it.      *)
(* Each REST call of a build ends (RestGet: EveryGetReturns), well or not.  *)
(***************************************************************************)
EXTENDS Integers

CONSTANTS
  Handlers,     \* goroutines that serve requests of the session
  MaxRequests,  \* bound: requests served
  MaxJobs,      \* bound: jobs that listJobs returns
  MaxBackups    \* bound: backups that v1/backups returns

ASSUME BoundsAssumption ==
  MaxRequests \in Nat /\ MaxJobs \in Nat /\ MaxBackups \in Nat

VARIABLES
  pc,        \* where each handler is
  at,        \* how far its buildInventory is: the last progress it published
  mine,      \* the build it runs, or the inventory it returns (0: an error)
  read,      \* the mandatory collections its build has read
  inv,       \* Session.data["inventory"]: number and collections of a build
  progress,  \* Session.data["inventory.progress"]
  requests,  \* requests served so far
  builds,    \* builds begun so far
  dropped,   \* history: the inventories that a Refresh has dropped
  gone       \* history: dropped when the request of a handler began

vars == <<pc, at, mine, read, inv, progress, requests, builds, dropped, gone>>

\* Progress.Stage, with the keys of stageBase and stageSpan.
Loading == {"repos", "jobs", "backups", "objects"}
Point(stage, done, total) == [stage |-> stage, done |-> done, total |-> total]
Nothing == Point("none", 0, 0)
Done == Point("done", 1, 1)
Error == Point("error", 0, 0)
Points == {p \in [stage : Loading \cup {"none", "done", "error"}, done : Nat, total : Nat] :
             p.done <= p.total}

\* The collections without which there is no inventory.
Mandatory == {"repositories", "backups", "backupObjects"}
NoInventory == [num |-> 0, read |-> {}]

Active == {"build", "failing", "store", "done"}
PCs == Active \cup {"idle", "wipe", "look", "begin", "return"}

Init ==
  /\ pc = [h \in Handlers |-> "idle"]
  /\ at = [h \in Handlers |-> Nothing]
  /\ mine = [h \in Handlers |-> 0]
  /\ read = [h \in Handlers |-> {}]
  /\ inv = NoInventory
  /\ progress = Nothing
  /\ requests = 0 /\ builds = 0
  /\ dropped = {}
  /\ gone = [h \in Handlers |-> {}]

GoTo(h, l) == pc' = [pc EXCEPT ![h] = l]

-----------------------------------------------------------------------------
(* Requests *)

\* A handler that needs the inventory calls LoadInventory.
Load(h) ==
  /\ pc[h] = "idle" /\ requests < MaxRequests
  /\ GoTo(h, "look")
  /\ requests' = requests + 1
  /\ gone' = [gone EXCEPT ![h] = dropped]
  /\ UNCHANGED <<at, mine, read, inv, progress, builds, dropped>>

\* Slip: the inventory stays, only the progress is wiped.
KeepsInventory == inv' = inv
DropsInventory == inv' = NoInventory

\* inventoryRefresh: the first Set of Refresh, on the inventory.
Refresh(h) ==
  /\ pc[h] = "idle" /\ requests < MaxRequests
  /\ GoTo(h, "wipe")
  /\ requests' = requests + 1
  /\ DropsInventory
  /\ dropped' = dropped \cup ({inv.num} \ {0})
  /\ gone' = [gone EXCEPT ![h] = dropped']
  /\ UNCHANGED <<at, mine, read, progress, builds>>

\* The second Set of Refresh, on the progress; LoadInventory follows.
Wipe(h) ==
  /\ pc[h] = "wipe"
  /\ GoTo(h, "look")
  /\ progress' = Nothing
  /\ UNCHANGED <<at, mine, read, inv, requests, builds, dropped, gone>>

\* The handler goes on with the inventory, or with the error.
Return(h) ==
  /\ pc[h] = "return"
  /\ GoTo(h, "idle")
  /\ mine' = [mine EXCEPT ![h] = 0]
  /\ gone' = [gone EXCEPT ![h] = {}]
  /\ UNCHANGED <<at, read, inv, progress, requests, builds, dropped>>

-----------------------------------------------------------------------------
(* LoadInventory *)

\* The inventory of the session, or a build of one's own.
Look(h) ==
  /\ pc[h] = "look"
  /\ IF inv # NoInventory
     THEN /\ GoTo(h, "return")
          /\ mine' = [mine EXCEPT ![h] = inv.num]
          /\ UNCHANGED builds
     ELSE /\ GoTo(h, "begin")
          /\ builds' = builds + 1
          /\ mine' = [mine EXCEPT ![h] = builds']
  /\ UNCHANGED <<at, read, inv, progress, requests, dropped, gone>>

\* s.Set(invKey, inv): whatever happened since the build began.
Store(h) ==
  /\ pc[h] = "store"
  /\ GoTo(h, "done")
  /\ inv' = [num |-> mine[h], read |-> read[h]]
  /\ UNCHANGED <<at, mine, read, progress, requests, builds, dropped, gone>>

\* progress(s, "done", 1, 1, "")
Finish(h) ==
  /\ pc[h] = "done"
  /\ GoTo(h, "return")
  /\ progress' = Done
  /\ at' = [at EXCEPT ![h] = Nothing]
  /\ read' = [read EXCEPT ![h] = {}]
  /\ UNCHANGED <<mine, inv, requests, builds, dropped, gone>>

\* Slip: the error is returned, and the progress left as it was.
ShowNoError == UNCHANGED progress
ShowError == progress' = Error

\* buildInventory returned an error: progress(s, "error", 0, 0, ...).
Fail(h) ==
  /\ pc[h] = "failing"
  /\ GoTo(h, "return")
  /\ ShowError
  /\ mine' = [mine EXCEPT ![h] = 0]
  /\ at' = [at EXCEPT ![h] = Nothing]
  /\ read' = [read EXCEPT ![h] = {}]
  /\ UNCHANGED <<inv, requests, builds, dropped, gone>>

-----------------------------------------------------------------------------
(* buildInventory: one REST call, or a few, between two progress points.    *)

Begin(h) ==
  /\ pc[h] = "begin"
  /\ GoTo(h, "build")
  /\ at' = [at EXCEPT ![h] = Point("repos", 0, 3)]
  /\ progress' = Point("repos", 0, 3)
  /\ UNCHANGED <<mine, read, inv, requests, builds, dropped, gone>>

\* The mandatory collection that is read next at a point, if any.
Required(p) ==
  CASE p.stage = "repos" /\ p.done = 0 -> {"repositories"}
    [] p.stage = "backups" -> {"backups"}
    [] p.stage = "objects" /\ p.done = 0 -> {"backupObjects"}
    [] OTHER -> {}

\* The detail of one job, which may be missing.
\* Slip: a job whose detail failed is asked for again.
SameJob(p) == p
NextJob(p) == Point("jobs", p.done + 1, p.total)

\* The points that may follow.  The states of repositories, the scale-out
\* repositories, listJobs, the detail of a job and the objects of a backup are
\* all tolerated when they fail: the build goes on with less.
After(p) ==
  CASE p.stage = "repos" /\ p.done < 2 -> {Point("repos", p.done + 1, 3)}
    [] p.stage = "repos" /\ p.done = 2 -> {Point("jobs", 0, n) : n \in 0..MaxJobs}
    [] p.stage = "jobs" /\ p.done < p.total -> {NextJob(p)}
    [] p.stage = "jobs" /\ p.done = p.total -> {Point("backups", 0, 1)}
    [] p.stage = "backups" -> {Point("objects", 0, n + 1) : n \in 0..MaxBackups}
    [] p.stage = "objects" /\ p.done + 1 < p.total ->
         {Point("objects", p.done + 1, p.total)}
    [] OTHER -> {}

\* A call succeeds, or fails and is tolerated: the next point is published.
\* Slip: a mandatory collection that could not be read is tolerated too.
AdvanceAnyway(h) ==
  /\ pc[h] = "build"
  /\ \E p \in After(at[h]) : at' = [at EXCEPT ![h] = p] /\ progress' = p
  /\ read' \in {read, [read EXCEPT ![h] = @ \cup Required(at[h])]}
  /\ UNCHANGED <<pc, mine, inv, requests, builds, dropped, gone>>

Advance(h) ==
  /\ pc[h] = "build"
  /\ \E p \in After(at[h]) : at' = [at EXCEPT ![h] = p] /\ progress' = p
  /\ read' = [read EXCEPT ![h] = @ \cup Required(at[h])]
  /\ UNCHANGED <<pc, mine, inv, requests, builds, dropped, gone>>

\* The last call has ended; lists are sorted and the inventory returned.
Complete(h) ==
  /\ pc[h] = "build"
  /\ After(at[h]) = {}
  /\ GoTo(h, "store")
  /\ read' = [read EXCEPT ![h] = @ \cup Required(at[h])]
  /\ UNCHANGED <<at, mine, inv, progress, requests, builds, dropped, gone>>

\* A mandatory collection could not be read: return nil, err.
Abort(h) ==
  /\ pc[h] = "build"
  /\ Required(at[h]) # {}
  /\ GoTo(h, "failing")
  /\ UNCHANGED <<at, mine, read, inv, progress, requests, builds, dropped, gone>>

-----------------------------------------------------------------------------
Step(h) ==
  \/ Wipe(h) \/ Look(h) \/ Begin(h) \/ Advance(h) \/ Complete(h) \/ Abort(h)
  \/ Store(h) \/ Finish(h) \/ Fail(h) \/ Return(h)

Next == \E h \in Handlers : Load(h) \/ Refresh(h) \/ Step(h)

Spec == Init /\ [][Next]_vars

\* Handlers run, and every REST call ends.
FairSpec == Spec /\ \A h \in Handlers : WF_vars(Step(h))

-----------------------------------------------------------------------------
(* What the console sees *)

\* stageBase and stageSpan.  Slip: jobs and backups overlap.
Base(stage) == CASE stage = "jobs" -> 10 [] stage = "backups" -> 55
                 [] stage = "objects" -> 65 [] stage = "done" -> 100 [] OTHER -> 0
SpanWide(stage) == CASE stage = "repos" -> 10 [] stage = "jobs" -> 55
                     [] stage = "backups" -> 10 [] stage = "objects" -> 35 [] OTHER -> 0
Span(stage) == CASE stage = "repos" -> 10 [] stage = "jobs" -> 45
                 [] stage = "backups" -> 10 [] stage = "objects" -> 35 [] OTHER -> 0

\* progress(): the estimate for a point, never above 100.
Percent(p) ==
  LET share == IF p.total > 0 THEN (Span(p.stage) * p.done) \div p.total ELSE 0
      sum == Base(p.stage) + share
  IN IF sum > 100 THEN 100 ELSE sum

\* InventoryProgress
Shown ==
  IF progress # Nothing THEN progress.stage
  ELSE IF inv # NoInventory THEN "done" ELSE "idle"

-----------------------------------------------------------------------------
(* Properties *)

TypeOK ==
  /\ pc \in [Handlers -> PCs]
  /\ at \in [Handlers -> Points]
  /\ mine \in [Handlers -> Nat]
  /\ read \in [Handlers -> SUBSET Mandatory]
  /\ inv \in [num : Nat, read : SUBSET Mandatory]
  /\ progress \in Points
  /\ requests \in 0..MaxRequests /\ builds \in Nat
  /\ dropped \subseteq 1..builds
  /\ gone \in [Handlers -> SUBSET Nat]

\* The session never keeps a partial inventory that would then be served to
\* everybody until the next refresh: the three mandatory collections were read,
\* whichever calls failed and whoever built it.
WholeInventory == inv # NoInventory => inv.read = Mandatory

\* What a refresh dropped is never served to a request that begins after it,
\* although builds go on and finish in any order.
RefreshDrops ==
  \A h \in Handlers : pc[h] = "return" => mine[h] \notin gone[h]

\* However the loads of several handlers overlap and fail, the bar does not stay
\* half way once nobody loads any more.
Resting == \A h \in Handlers : pc[h] \notin Active
BarNeverStuck == Resting => Shown \notin Loading

\* As long as a load runs, the estimate it publishes never falls, whatever the
\* number of jobs and backups, and only "done" is 100 %.
PercentGrows ==
  [][\A h \in Handlers :
       at[h].stage \in Loading /\ at'[h].stage \in Loading =>
         Percent(at[h]) <= Percent(at'[h]) /\ Percent(at'[h]) < 100]_vars

\* Every LoadInventory returns, with an inventory or with an error.
EveryLoadReturns ==
  \A h \in Handlers : pc[h] = "look" ~> pc[h] = "return"

-----------------------------------------------------------------------------
(* The inductive invariant behind WholeInventory, RefreshDrops, BarNeverStuck *)

\* Where a build that is not stored yet can be.
Unstored == {"begin", "build", "failing", "store"}

\* The points of a running build, and what it has read when it gets there.
Reached(p) ==
  \/ p.stage = "repos" /\ p.done <= 2 /\ p.total = 3
  \/ p.stage = "jobs" /\ p.done <= p.total
  \/ p.stage = "backups" /\ p.done = 0 /\ p.total = 1
  \/ p.stage = "objects" /\ p.done < p.total

ReadBy(p) ==
  CASE p.stage = "repos" /\ p.done = 0 -> {}
    [] p.stage = "objects" /\ p.done = 0 -> {"repositories", "backups"}
    [] p.stage = "objects" /\ p.done # 0 -> Mandatory
    [] OTHER -> {"repositories"}

Reading ==
  \A h \in Handlers :
    /\ pc[h] \notin Active => read[h] = {} /\ at[h] = Nothing
    /\ pc[h] \in Active => Reached(at[h])
    /\ pc[h] = "build" => read[h] = ReadBy(at[h])
    /\ pc[h] \in {"store", "done"} => read[h] = Mandatory

\* A build that is not stored has a number of its own, and nobody has seen it.
Numbering ==
  /\ \A h \in Handlers : pc[h] \in Unstored =>
       mine[h] \in 1..builds /\ mine[h] # inv.num /\ mine[h] \notin dropped
  /\ \A h, k \in Handlers :
       pc[h] \in Unstored /\ pc[k] \in Unstored /\ mine[h] = mine[k] => h = k
  /\ inv.num \in 0..builds /\ inv.num \notin dropped
  /\ inv.num = 0 => inv = NoInventory

Dropping ==
  /\ \A h \in Handlers : gone[h] \subseteq dropped
  /\ \A h \in Handlers : pc[h] \in {"done", "return"} => mine[h] \notin gone[h]

\* The progress itself, before InventoryProgress looks at it.
AtRest == Resting => progress.stage \notin Loading

IInv ==
  TypeOK /\ WholeInventory /\ Reading /\ Numbering /\ Dropping /\ AtRest
=============================================================================
