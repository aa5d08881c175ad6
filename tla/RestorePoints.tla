--------------------------- MODULE RestorePoints ---------------------------
(***************************************************************************)
(* RestorePoints (restorepoints.go): the list of restore points of a job,  *)
(* a workload or a repository.  The backup objects of the pivot are asked  *)
(* for their restore points in parallel lanes, the answers are merged,     *)
(* and backups that showed none are completed from their backup files.     *)
(*                                                                         *)
(* A backup file stands for the restore point it belongs to as well: rest  *)
(* says whether VBR publishes one for it (plug-in backups have files       *)
(* only), recent whether it was made since the date asked for.  The        *)
(* inventory is constant during a call.  Sizes, ratios and labels are      *)
(* left out, and with them the backupFiles call that only adds them to     *)
(* restore points.                                                         *)
(*                                                                         *)
(* Jobs go on while the call reads page after page, partly from the cache  *)
(* of the session (RestGet).  So an answer is not VBR's content at one     *)
(* moment: it has all the files that were there all the time and, of       *)
(* those that came or went, any.  The first half is so of a collection of  *)
(* one page; of longer ones as far as Collections!LostOnlyByRemoval        *)
(* allows, and a point that was missed there counts as one that went.      *)
(***************************************************************************)
EXTENDS FiniteSets, Naturals

CONSTANTS
  Objects,    \* backup objects
  Backups,    \* backups
  Pivots,     \* what may be asked for: records of kind and id
  Jobs,       \* Inventory.Jobs
  Files,      \* backup files: records of id, backup, vm, rest, recent
  VmOf,       \* Inventory.objectVM, the workload of an object
  BackupOf,   \* Inventory.objectBackup, or NoBackup
  JobOf,      \* Inventory.backupJob, the job of a backup (Job.BackupIDs)
  RepoOf,     \* Inventory.backupRepo
  JobsOf,     \* Workload.JobIDs
  NoChain,    \* jobs that leave no chain
  NoBackup,   \* the backup of an object is not known
  Lanes       \* lanes, the capacity of sem

ASSUME LanesAssumption == Lanes \in Nat \ {0}
ASSUME ObjectsAssumption == IsFiniteSet(Objects) /\ NoBackup \notin Backups
ASSUME FilesAssumption ==
  \A f \in Files : f.backup \in Backups /\ f.rest \in BOOLEAN /\ f.recent \in BOOLEAN
ASSUME InventoryAssumption == BackupOf \in [Objects -> Backups \cup {NoBackup}]

VARIABLES
  pc,       \* the call: "idle", "ask", "merge", "files", "answer" or "error"
  pivot,    \* what it is asked for
  lane,     \* the goroutine of each object
  result,   \* results: what the goroutine got
  todo,     \* objects whose result is not merged yet
  seen,     \* seenBackup
  left,     \* backups of the pivot to complete from their files
  rows,     \* out: records of file, vm and fromFile
  steady,   \* VBR: the files there are all the time of the call
  fleeting  \* VBR: the files there are at some time of it only

call == <<pc, pivot, lane, result, todo, seen, left, rows>>
vbr == <<steady, fleeting>>
vars == <<call, vbr>>

NoResult == [ok |-> FALSE, files |-> {}]
NoPivot == [kind |-> "none", id |-> "none"]

Init ==
  /\ pc = "idle" /\ pivot = NoPivot
  /\ lane = [o \in Objects |-> "off"]
  /\ result = [o \in Objects |-> NoResult]
  /\ todo = {} /\ seen = {} /\ left = {} /\ rows = {}
  /\ steady = {} /\ fleeting = {}

-----------------------------------------------------------------------------
(* 1) What to ask for *)

Known(pv) ==
  \/ pv.kind = "job" /\ pv.id \in Jobs
  \/ pv.kind = "vm" /\ \E o \in Objects : VmOf[o] = pv.id
  \/ pv.kind = "repo"

\* The objects of the pivot.  Only what the inventory linked is found.
Scope(pv) ==
  {o \in Objects :
     CASE pv.kind = "job" -> /\ pv.id \in JobsOf[VmOf[o]]
                             /\ BackupOf[o] # NoBackup /\ JobOf[BackupOf[o]] = pv.id
       [] pv.kind = "vm" -> VmOf[o] = pv.id
       [] OTHER -> BackupOf[o] # NoBackup /\ RepoOf[BackupOf[o]] = pv.id}

\* scopeBackups
ScopeBackups(pv) ==
  CASE pv.kind = "job" -> {b \in Backups : JobOf[b] = pv.id}
    [] pv.kind = "repo" -> {b \in Backups : RepoOf[b] = pv.id}
    [] OTHER -> {BackupOf[o] : o \in Scope(pv)} \ {NoBackup}

\* keep: VBR may report restore points of other backups of the same workload.
\* Slip: they are all kept.
KeepAll(pv, f) == TRUE
Keep(pv, f) ==
  CASE pv.kind = "job" -> JobOf[f.backup] = pv.id
    [] pv.kind = "repo" -> RepoOf[f.backup] = pv.id
    [] OTHER -> TRUE

Start(pv) ==
  LET chained == pv.kind # "job" \/ pv.id \notin NoChain
      asked == Scope(pv)
  IN /\ pc = "idle"
     /\ pivot' = pv
     /\ pc' = IF ~Known(pv) THEN "error" ELSE IF chained THEN "ask" ELSE "answer"
     /\ lane' = [o \in Objects |-> IF pc' = "ask" /\ o \in asked THEN "queued" ELSE "off"]
     /\ todo' = IF pc' = "ask" THEN asked ELSE {}
     /\ steady' \in SUBSET Files
     /\ fleeting' \in SUBSET (Files \ steady')
     /\ UNCHANGED <<result, seen, left, rows>>

-----------------------------------------------------------------------------
(* 2) The lanes *)

Asking == {o \in Objects : lane[o] = "asking"}

\* sem <- struct{}{}
LaneFree == Cardinality(Asking) < Lanes

Ask(o) ==
  /\ lane[o] = "queued" /\ LaneFree
  /\ lane' = [lane EXCEPT ![o] = "asking"]
  /\ UNCHANGED <<pc, pivot, result, todo, seen, left, rows, vbr>>

\* What an answer may be that selects the files in fs.
Answers(fs) == {(fs \cap steady) \cup more : more \in SUBSET (fs \cap fleeting)}

Published(o) == {f \in Files : f.rest /\ f.recent /\ f.vm = VmOf[o]}

\* The restore points of the object itself, since the date asked for.
Own(o) == {f \in Published(o) : f.backup = BackupOf[o]}

\* Those of other backups that VBR may add.
Foreign(o) == (Published(o) \ Own(o)) \cap (steady \cup fleeting)

Answered(o) ==
  /\ lane[o] = "asking"
  /\ lane' = [lane EXCEPT ![o] = "done"]
  /\ \E own \in Answers(Own(o)), more \in SUBSET Foreign(o) :
       result' = [result EXCEPT ![o] = [ok |-> TRUE, files |-> own \cup more]]
  /\ UNCHANGED <<pc, pivot, todo, seen, left, rows, vbr>>

\* <-sem, deferred.  Slip: the object of a failed call is asked for again.
ReleaseAgain(l, o) == [l EXCEPT ![o] = "queued"]
Release(l, o) == [l EXCEPT ![o] = "done"]

AskFails(o) ==
  /\ lane[o] = "asking"
  /\ lane' = Release(lane, o)
  /\ UNCHANGED <<pc, pivot, result, todo, seen, left, rows, vbr>>

\* wg.Wait()
AllAnswered ==
  /\ pc = "ask"
  /\ \A o \in Objects : lane[o] \in {"off", "done"}
  /\ pc' = "merge"
  /\ UNCHANGED <<pivot, lane, result, todo, seen, left, rows, vbr>>

-----------------------------------------------------------------------------
(* 3) The merge *)

Shown == {x.file : x \in rows}

\* An object that failed is skipped.  Slip: it ends the merge.
SkipAll(o) == {}
Skip(o) == todo \ {o}

\* Every restore point that is kept and not there yet; seenBackup also for those
\* that are not kept.
Merge(o) ==
  /\ pc = "merge" /\ o \in todo
  /\ IF result[o].ok
     THEN /\ rows' = rows \cup
               {[file |-> f, vm |-> VmOf[o], fromFile |-> FALSE] :
                  f \in {g \in result[o].files : Keep(pivot, g)} \ Shown}
          /\ seen' = seen \cup {f.backup : f \in result[o].files}
          /\ todo' = todo \ {o}
     ELSE /\ todo' = Skip(o)
          /\ UNCHANGED <<rows, seen>>
  /\ UNCHANGED <<pc, pivot, lane, result, left, vbr>>

Unseen == ScopeBackups(pivot) \ seen

Merged ==
  /\ pc = "merge" /\ todo = {}
  /\ pc' = "files"
  /\ left' = Unseen
  /\ UNCHANGED <<pivot, lane, result, todo, seen, rows, vbr>>

-----------------------------------------------------------------------------
(* 4) The backups without restore points *)

\* fileRP: the workload of the file, or of some object of the backup if the file
\* names none, in the order of a Go map.
NoVm == "none"
Owners(f) ==
  LET some == {VmOf[o] : o \in {p \in Objects : BackupOf[p] = f.backup}}
      only == IF Cardinality(Scope(pivot)) = 1 THEN {VmOf[o] : o \in Scope(pivot)} ELSE {NoVm}
  IN IF f.vm # NoVm THEN {f.vm} ELSE IF some # {} THEN some ELSE only

\* The date filter of the restore points does not apply to files: cut here.
Cut(fs) == {f \in fs : f.recent}

ReadFiles(b) ==
  /\ pc = "files" /\ b \in left
  /\ left' = left \ {b}
  /\ \E answer \in Answers({f \in Files : f.backup = b}) :
       LET fs == Cut({f \in answer : Keep(pivot, f)})
       IN \E owner \in [fs -> UNION {Owners(f) : f \in fs}] :
            /\ \A f \in fs : owner[f] \in Owners(f)
            /\ rows' = rows \cup {[file |-> f, vm |-> owner[f], fromFile |-> TRUE] : f \in fs}
  /\ UNCHANGED <<pc, pivot, lane, result, todo, seen, vbr>>

FilesFail(b) ==
  /\ pc = "files" /\ b \in left
  /\ left' = left \ {b}
  /\ UNCHANGED <<pc, pivot, lane, result, todo, seen, rows, vbr>>

\* Sorted by date, and returned.
Finish ==
  /\ pc = "files" /\ left = {}
  /\ pc' = "answer"
  /\ UNCHANGED <<pivot, lane, result, todo, seen, left, rows, vbr>>

\* The caller has the list, or the error.
Return ==
  /\ pc \in {"answer", "error"}
  /\ pc' = "idle" /\ pivot' = NoPivot
  /\ lane' = [o \in Objects |-> "off"]
  /\ result' = [o \in Objects |-> NoResult]
  /\ todo' = {} /\ seen' = {} /\ left' = {} /\ rows' = {}
  /\ steady' = {} /\ fleeting' = {}

-----------------------------------------------------------------------------
Step ==
  \/ \E o \in Objects : Ask(o) \/ Merge(o)
  \/ \E b \in Backups : ReadFiles(b) \/ FilesFail(b)
  \/ AllAnswered \/ Merged \/ Finish \/ Return

Reply(o) == Answered(o) \/ AskFails(o)

Next ==
  \/ \E pv \in Pivots : Start(pv)
  \/ Step
  \/ \E o \in Objects : Reply(o)

Spec == Init /\ [][Next]_vars

\* The call goes on, and every GET ends (RestGet: EveryGetReturns).
FairSpec == Spec /\ WF_vars(Step) /\ \A o \in Objects : WF_vars(Reply(o))

-----------------------------------------------------------------------------
(* Properties *)

TypeOK ==
  /\ pc \in {"idle", "ask", "merge", "files", "answer", "error"}
  /\ pivot \in Pivots \cup {NoPivot}
  /\ lane \in [Objects -> {"off", "queued", "asking", "done"}]
  /\ result \in [Objects -> [ok : BOOLEAN, files : SUBSET Files]]
  /\ todo \subseteq Objects /\ seen \subseteq Backups /\ left \subseteq Backups
  /\ \A x \in rows : x.file \in Files /\ x.fromFile \in BOOLEAN
  /\ steady \subseteq Files /\ fleeting \subseteq Files
  /\ Cardinality(Asking) <= Lanes

\* Every row belongs to what was asked for: the job or the repository of its
\* backup, or, for a restore point, its workload; is as recent, also if it is of a
\* backup that was asked for without a date; and is shown once, neither through two
\* objects nor as a restore point and as a file, whatever order the answers come in.
OnlyPivot ==
  \A x \in rows :
    /\ x.file.recent
    /\ \A y \in rows : x.file = y.file => x = y
    /\ CASE pivot.kind = "job" -> JobOf[x.file.backup] = pivot.id
         [] pivot.kind = "repo" -> RepoOf[x.file.backup] = pivot.id
         [] OTHER -> x.fromFile \/ x.file.vm = pivot.id

\* A failure costs the rows of the object that failed and no others: what was
\* there all the time and was asked for is shown.
CompleteButFailed ==
  pc = "answer" =>
    \A o \in Objects, f \in steady :
      /\ lane[o] = "done" /\ result[o].ok
      /\ f.vm = VmOf[o] /\ f.backup = BackupOf[o] /\ f.rest /\ f.recent /\ Keep(pivot, f)
      => f \in Shown

\* Every call returns: no failure keeps it in the lanes for ever.
EveryCallReturns == pc = "ask" ~> pc = "answer"
=============================================================================
