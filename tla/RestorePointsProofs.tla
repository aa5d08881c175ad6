------------------------- MODULE RestorePointsProofs -------------------------
(***************************************************************************)
(* Proofs about RestorePoints for any inventory, any files and any number  *)
(* of lanes. IInv is inductive: a row says where it comes from, and seen   *)
(* and left keep the two origins apart.                                    *)
(***************************************************************************)
EXTENDS RestorePoints, FiniteSetTheorems, TLAPS

USE LanesAssumption, ObjectsAssumption, FilesAssumption, InventoryAssumption

-----------------------------------------------------------------------------
(* Types *)

LEMMA ScopeTypes == \A pv : Scope(pv) \subseteq Objects
  BY DEF Scope

LEMMA ScopeBackupsTypes == \A pv : ScopeBackups(pv) \subseteq Backups
<1> SUFFICES ASSUME NEW pv PROVE ScopeBackups(pv) \subseteq Backups
  OBVIOUS
<1>1. {BackupOf[o] : o \in Scope(pv)} \ {NoBackup} \subseteq Backups
  BY ScopeTypes
<1> QED BY <1>1 DEF ScopeBackups

\* When no lane is taken there are no more taken than there were.
LEMMA AskingShrinks ==
  ASSUME TypeOK, Asking' \subseteq Asking
  PROVE  Cardinality(Asking') \in Nat /\ Cardinality(Asking') <= Lanes
<1>1. Asking \subseteq Objects
  BY DEF Asking
<1>2. IsFiniteSet(Asking)
  BY <1>1, FS_Subset
<1>3. IsFiniteSet(Asking') /\ Cardinality(Asking') <= Cardinality(Asking)
  BY <1>2, FS_Subset
<1>4. Cardinality(Asking) \in Nat /\ Cardinality(Asking') \in Nat
  BY <1>2, <1>3, FS_CardinalityType
<1> QED BY <1>3, <1>4 DEF TypeOK

LEMMA NobodyAsks ==
  ASSUME \A o \in Objects : lane'[o] # "asking"
  PROVE  Cardinality(Asking') <= Lanes
<1>1. Asking' = {}
  BY DEF Asking
<1>2. Cardinality({}) = 0
  BY FS_EmptySet
<1> QED BY <1>1, <1>2

LEMMA StartTypes == ASSUME TypeOK, NEW pv \in Pivots, Start(pv) PROVE TypeOK'
<1>1. \A o \in Objects : lane'[o] # "asking"
  BY DEF Start
<1>2. Cardinality(Asking)' <= Lanes
  BY <1>1, NobodyAsks
<1> QED BY <1>2, ScopeTypes DEF TypeOK, Start

LEMMA AskTypes == ASSUME TypeOK, NEW o \in Objects, Ask(o) PROVE TypeOK'
<1>1. Asking \subseteq Objects /\ Asking' = Asking \cup {o}
  BY DEF Asking, Ask, TypeOK
<1>2. IsFiniteSet(Asking) /\ Cardinality(Asking) \in Nat
  BY <1>1, FS_Subset, FS_CardinalityType
<1>3. Cardinality(Asking') <= Cardinality(Asking) + 1
  <2>1. CASE o \in Asking
    <3>1. Asking' = Asking
      BY <1>1, <2>1
    <3> QED BY <1>2, <3>1
  <2>2. CASE o \notin Asking
    <3>1. Cardinality(Asking \cup {o}) = Cardinality(Asking) + 1
      BY <1>2, <2>2, FS_AddElement
    <3> QED BY <1>1, <1>2, <3>1
  <2> QED BY <2>1, <2>2
<1>4. Cardinality(Asking') <= Lanes
  <2>1. IsFiniteSet(Asking') /\ Cardinality(Asking') \in Nat
    BY <1>1, <1>2, FS_AddElement, FS_CardinalityType
  <2> QED BY <1>2, <1>3, <2>1 DEF Ask, LaneFree
<1> QED BY <1>4 DEF TypeOK, Ask, vbr

LEMMA AnsweredTypes == ASSUME TypeOK, NEW o \in Objects, Answered(o) PROVE TypeOK'
<1>1. Asking' \subseteq Asking
  BY DEF Asking, Answered, TypeOK
<1>2. Cardinality(Asking') <= Lanes
  BY <1>1, AskingShrinks
<1>3. result' \in [Objects -> [ok : BOOLEAN, files : SUBSET Files]]
  <2>1. PICK own \in Answers(Own(o)), more \in SUBSET Foreign(o) :
          result' = [result EXCEPT ![o] = [ok |-> TRUE, files |-> own \cup more]]
    BY DEF Answered
  <2>2. own \subseteq Files /\ more \subseteq Files
    BY DEF Answers, Own, Foreign, Published
  <2> QED BY <2>1, <2>2 DEF TypeOK
<1> QED BY <1>2, <1>3 DEF TypeOK, Answered, vbr

LEMMA AskFailsTypes == ASSUME TypeOK, NEW o \in Objects, AskFails(o) PROVE TypeOK'
<1>1. Asking' \subseteq Asking
  BY DEF Asking, AskFails, Release, TypeOK
<1>2. Cardinality(Asking') <= Lanes
  BY <1>1, AskingShrinks
<1> QED BY <1>2 DEF TypeOK, AskFails, Release, vbr

LEMMA SameLanes == ASSUME TypeOK, lane' = lane PROVE Cardinality(Asking') <= Lanes
<1>1. Asking' = Asking
  BY DEF Asking
<1> QED BY <1>1 DEF TypeOK

LEMMA MergeTypes == ASSUME TypeOK, NEW o \in Objects, Merge(o) PROVE TypeOK'
<1>1. Cardinality(Asking') <= Lanes
  BY SameLanes DEF Merge
<1>2. result[o].files \subseteq Files
  BY DEF TypeOK
<1>3. CASE result[o].ok
  <2>1. \A x \in rows' : x.file \in Files /\ x.fromFile \in BOOLEAN
    <3> DEFINE fs == {g \in result[o].files : Keep(pivot, g)} \ Shown
               new == {[file |-> f, vm |-> VmOf[o], fromFile |-> FALSE] : f \in fs}
    <3>1. rows' = rows \cup new
      BY <1>3 DEF Merge
    <3>2. ASSUME NEW x \in new PROVE x.file \in Files /\ x.fromFile \in BOOLEAN
      <4>1. PICK f \in fs : x = [file |-> f, vm |-> VmOf[o], fromFile |-> FALSE]
        OBVIOUS
      <4>2. x.file = f /\ x.fromFile = FALSE
        BY <4>1
      <4> QED BY <1>2, <4>2
    <3> HIDE DEF new
    <3> QED BY <3>1, <3>2 DEF TypeOK
  <2>2. seen' \subseteq Backups /\ todo' \subseteq Objects
    BY <1>2, <1>3 DEF Merge, TypeOK
  <2> QED BY <1>1, <2>1, <2>2 DEF TypeOK, Merge, vbr
<1>4. CASE ~result[o].ok
  BY <1>1, <1>4 DEF TypeOK, Merge, Skip, vbr
<1> QED BY <1>3, <1>4

LEMMA ReadFilesTypes == ASSUME TypeOK, NEW b \in Backups, ReadFiles(b) PROVE TypeOK'
<1>1. Cardinality(Asking') <= Lanes
  BY SameLanes DEF ReadFiles
<1>2. \A x \in rows' : x.file \in Files /\ x.fromFile \in BOOLEAN
  <2>1. PICK answer \in Answers({f \in Files : f.backup = b}) :
          LET fs == Cut({f \in answer : Keep(pivot, f)})
          IN \E owner \in [fs -> UNION {Owners(f) : f \in fs}] :
               rows' = rows \cup {[file |-> f, vm |-> owner[f], fromFile |-> TRUE] : f \in fs}
    BY DEF ReadFiles
  <2> DEFINE fs == Cut({f \in answer : Keep(pivot, f)})
  <2>2. fs \subseteq Files
    BY DEF Cut, Answers
  <2>3. PICK owner \in [fs -> UNION {Owners(f) : f \in fs}] :
          rows' = rows \cup {[file |-> f, vm |-> owner[f], fromFile |-> TRUE] : f \in fs}
    BY <2>1
  <2> DEFINE new == {[file |-> f, vm |-> owner[f], fromFile |-> TRUE] : f \in fs}
  <2> HIDE DEF fs
  <2>4. ASSUME NEW x \in new PROVE x.file \in Files /\ x.fromFile \in BOOLEAN
    <3>1. PICK f \in fs : x = [file |-> f, vm |-> owner[f], fromFile |-> TRUE]
      OBVIOUS
    <3>2. x.file = f /\ x.fromFile = TRUE
      BY <3>1
    <3> QED BY <2>2, <3>2
  <2>5. rows' = rows \cup new
    BY <2>3
  <2> HIDE DEF new
  <2> QED BY <2>4, <2>5 DEF TypeOK
<1> QED BY <1>1, <1>2 DEF TypeOK, ReadFiles, vbr

LEMMA ControlTypes ==
  ASSUME TypeOK,
         \/ AllAnswered \/ Merged \/ Finish \/ \E b \in Backups : FilesFail(b)
         \/ UNCHANGED vars
  PROVE  TypeOK'
<1>1. Cardinality(Asking') <= Lanes
  BY SameLanes DEF AllAnswered, Merged, Finish, FilesFail, vars, call
<1>2. left' \subseteq Backups
  BY ScopeBackupsTypes DEF TypeOK, AllAnswered, Merged, Unseen, Finish, FilesFail, vars, call
<1> QED BY <1>1, <1>2 DEF TypeOK, AllAnswered, Merged, Finish, FilesFail, vars, call, vbr

LEMMA ReturnTypes == ASSUME TypeOK, Return PROVE TypeOK'
<1>1. \A o \in Objects : lane'[o] # "asking"
  BY DEF Return
<1>2. Cardinality(Asking)' <= Lanes
  BY <1>1, NobodyAsks
<1> QED BY <1>2 DEF TypeOK, Return, NoResult, NoPivot

LEMMA InitTypes == Init => TypeOK
<1> SUFFICES ASSUME Init PROVE TypeOK
  OBVIOUS
<1>1. Asking = {}
  BY DEF Init, Asking
<1>2. Cardinality(Asking) = 0
  BY <1>1, FS_EmptySet
<1> QED BY <1>2 DEF Init, TypeOK, NoResult, NoPivot

LEMMA TypesKept == TypeOK /\ [Next]_vars => TypeOK'
<1> SUFFICES ASSUME TypeOK, [Next]_vars PROVE TypeOK'
  OBVIOUS
<1>1. CASE \E pv \in Pivots : Start(pv)
  BY <1>1, StartTypes
<1>2. CASE \E o \in Objects : Reply(o)
  BY <1>2, AnsweredTypes, AskFailsTypes DEF Reply
<1>3. CASE Step
  BY <1>3, AskTypes, MergeTypes, ReadFilesTypes, ControlTypes, ReturnTypes DEF Step
<1>4. CASE UNCHANGED vars
  BY <1>4, ControlTypes
<1> QED BY <1>1, <1>2, <1>3, <1>4 DEF Next

\* What a call keeps stays in its type; no more than Lanes objects are asked at once.
THEOREM RestorePointsTypeCorrect == Spec => []TypeOK
  BY InitTypes, TypesKept, PTL DEF Spec

-----------------------------------------------------------------------------
(* Where the rows come from *)

\* What the goroutine of an object got is of the object's workload.
ResultsTrue ==
  \A o \in Objects : \A f \in result[o].files :
    f \in Files /\ f.recent /\ f.vm = VmOf[o]

\* Only objects of the pivot are merged.
TodoInScope ==
  todo \subseteq Scope(pivot) /\ (todo # {} => pivot.kind \in {"job", "vm", "repo"})

\* A call begins with nothing, and left is filled after the merge.
Quiet ==
  /\ pc \in {"idle", "ask", "error"} => rows = {} /\ seen = {}
  /\ pc \in {"idle", "ask", "merge", "error"} => left = {}
  /\ left \cap seen = {}

\* A restore point is of a backup that was seen, and has the workload of its file.
FromRest(x) ==
  /\ x.file.backup \in seen /\ x.vm = x.file.vm
  /\ pivot.kind \notin {"job", "repo"} => x.file.vm = pivot.id

\* A file is of a backup that was not seen and is not left any more.
FromFile(x) ==
  /\ pc \in {"files", "answer"}
  /\ x.file.backup \notin seen \cup left

Origin ==
  \A x \in rows :
    /\ x.file.recent /\ Keep(pivot, x.file)
    /\ (x.fromFile = FALSE /\ FromRest(x)) \/ (x.fromFile = TRUE /\ FromFile(x))

Once == \A x, y \in rows : x.file = y.file => x = y

IInv == TypeOK /\ ResultsTrue /\ TodoInScope /\ Quiet /\ Origin /\ Once

LEMMA ScopeOfVm ==
  ASSUME NEW pv, NEW o \in Scope(pv), pv.kind = "vm"
  PROVE  VmOf[o] = pv.id
  BY DEF Scope

LEMMA StartKeeps == ASSUME IInv, NEW pv \in Pivots, Start(pv) PROVE IInv'
<1>1. TypeOK'
  BY StartTypes DEF IInv
<1>2. rows = {} /\ seen = {} /\ left = {} /\ rows' = {} /\ seen' = {} /\ left' = {}
  BY DEF IInv, Quiet, Start
<1>3. ResultsTrue'
  BY DEF IInv, ResultsTrue, Start
<1>4. TodoInScope'
  BY DEF TodoInScope, Start, Known
<1>5. Quiet' /\ Origin' /\ Once'
  BY <1>2 DEF Quiet, Origin, Once
<1> QED BY <1>1, <1>3, <1>4, <1>5 DEF IInv

\* A step that leaves the rows and what they rest on as they are.
LEMMA SameRows ==
  ASSUME IInv, TypeOK', ResultsTrue', pivot' = pivot, rows' = rows, seen' = seen,
         todo' \subseteq todo, left' \subseteq left, pc' = pc
  PROVE  IInv'
<1>1. TodoInScope'
  BY DEF IInv, TodoInScope
<1>2. Quiet' /\ Once'
  BY DEF IInv, Quiet, Once
<1>3. Origin'
  BY DEF IInv, Origin, FromRest, FromFile
<1> QED BY <1>1, <1>2, <1>3 DEF IInv

LEMMA AskKeeps == ASSUME IInv, NEW o \in Objects, Ask(o) PROVE IInv'
  BY AskTypes, SameRows DEF IInv, Ask, ResultsTrue

LEMMA AnsweredKeeps == ASSUME IInv, NEW o \in Objects, Answered(o) PROVE IInv'
<1>1. PICK own \in Answers(Own(o)), more \in SUBSET Foreign(o) :
        result' = [result EXCEPT ![o] = [ok |-> TRUE, files |-> own \cup more]]
  BY DEF Answered
<1>2. \A f \in own \cup more : f \in Files /\ f.recent /\ f.vm = VmOf[o]
  BY DEF Answers, Own, Foreign, Published
<1>3. ResultsTrue'
  <2>1. result \in [Objects -> [ok : BOOLEAN, files : SUBSET Files]]
    BY DEF IInv, TypeOK
  <2>2. result'[o].files = own \cup more
    BY <1>1, <2>1
  <2>3. \A p \in Objects \ {o} : result'[p] = result[p]
    BY <1>1, <2>1
  <2> QED BY <1>2, <2>2, <2>3 DEF IInv, ResultsTrue
<1> QED BY <1>3, AnsweredTypes, SameRows DEF IInv, Answered

LEMMA AskFailsKeeps == ASSUME IInv, NEW o \in Objects, AskFails(o) PROVE IInv'
  BY AskFailsTypes, SameRows DEF IInv, AskFails, ResultsTrue

LEMMA MergeKeeps == ASSUME IInv, NEW o \in Objects, Merge(o) PROVE IInv'
<1>1. TypeOK' /\ ResultsTrue'
  BY MergeTypes DEF IInv, ResultsTrue, Merge
<1>2. CASE ~result[o].ok
  BY <1>1, <1>2, SameRows DEF IInv, Merge, Skip
<1>3. CASE result[o].ok
  <2> DEFINE fs == {g \in result[o].files : Keep(pivot, g)} \ Shown
             new == {[file |-> f, vm |-> VmOf[o], fromFile |-> FALSE] : f \in fs}
  <2>1. /\ rows' = rows \cup new /\ seen' = seen \cup {f.backup : f \in result[o].files}
        /\ todo' = todo \ {o} /\ pivot' = pivot /\ left' = left /\ pc = "merge" /\ pc' = pc
        /\ o \in todo
    BY <1>3 DEF Merge
  <2>2. TodoInScope' /\ Quiet'
    BY <2>1 DEF IInv, TodoInScope, Quiet
  <2>3. ASSUME NEW f \in fs
        PROVE  /\ f.recent /\ Keep(pivot, f) /\ f.vm = VmOf[o] /\ f.backup \in seen'
               /\ (pivot.kind \notin {"job", "repo"} => VmOf[o] = pivot.id)
               /\ \A x \in rows : x.file # f
    BY <2>1, ScopeOfVm DEF IInv, ResultsTrue, TodoInScope, Shown
  <2>4. ASSUME NEW x \in new
        PROVE  \E f \in fs : x.file = f /\ x.vm = VmOf[o] /\ x.fromFile = FALSE
                            /\ x = [file |-> f, vm |-> VmOf[o], fromFile |-> FALSE]
    <3>1. PICK f \in fs : x = [file |-> f, vm |-> VmOf[o], fromFile |-> FALSE]
      OBVIOUS
    <3> HIDE DEF fs
    <3>2. x.file = f /\ x.vm = VmOf[o] /\ x.fromFile = FALSE
      BY <3>1
    <3> QED BY <3>1, <3>2
  <2> HIDE DEF new, fs
  <2>5. Origin'
    <3> SUFFICES ASSUME NEW x \in rows'
                 PROVE  /\ x.file.recent /\ Keep(pivot, x.file) /\ x.fromFile = FALSE
                        /\ x.file.backup \in seen' /\ x.vm = x.file.vm
                        /\ (pivot.kind \notin {"job", "repo"} => x.file.vm = pivot.id)
      BY <2>1 DEF Origin, FromRest, Keep
    <3>1. CASE x \in rows
      BY <2>1, <3>1 DEF IInv, Origin, FromRest, FromFile
    <3>2. CASE x \in new
      BY <2>3, <2>4, <3>2
    <3> QED BY <2>1, <3>1, <3>2
  <2>6. Once'
    <3> SUFFICES ASSUME NEW x \in rows', NEW y \in rows', x.file = y.file PROVE x = y
      BY DEF Once
    <3>1. CASE x \in rows /\ y \in rows
      BY <3>1 DEF IInv, Once
    <3>2. CASE x \in new /\ y \in new
      BY <2>4, <3>2
    <3>3. CASE x \in new /\ y \in rows
      BY <2>3, <2>4, <3>3
    <3>4. CASE x \in rows /\ y \in new
      BY <2>3, <2>4, <3>4
    <3> QED BY <2>1, <3>1, <3>2, <3>3, <3>4
  <2> QED BY <1>1, <2>2, <2>5, <2>6 DEF IInv
<1> QED BY <1>2, <1>3

LEMMA ReadFilesKeeps == ASSUME IInv, NEW b \in Backups, ReadFiles(b) PROVE IInv'
<1>1. TypeOK' /\ ResultsTrue'
  BY ReadFilesTypes DEF IInv, ResultsTrue, ReadFiles
<1>2. PICK answer \in Answers({f \in Files : f.backup = b}) :
        LET fs == Cut({f \in answer : Keep(pivot, f)})
        IN \E owner \in [fs -> UNION {Owners(f) : f \in fs}] :
             rows' = rows \cup {[file |-> f, vm |-> owner[f], fromFile |-> TRUE] : f \in fs}
  BY DEF ReadFiles
<1> DEFINE fs == Cut({f \in answer : Keep(pivot, f)})
<1>3. \A f \in fs : f.backup = b /\ f.recent /\ Keep(pivot, f)
  BY DEF Cut, Answers
<1>4. PICK owner \in [fs -> UNION {Owners(f) : f \in fs}] :
        rows' = rows \cup {[file |-> f, vm |-> owner[f], fromFile |-> TRUE] : f \in fs}
  BY <1>2
<1> DEFINE new == {[file |-> f, vm |-> owner[f], fromFile |-> TRUE] : f \in fs}
<1> HIDE DEF fs
<1>5. ASSUME NEW x \in new
      PROVE  \E f \in fs : x.file = f /\ x.fromFile = TRUE
                          /\ x = [file |-> f, vm |-> owner[f], fromFile |-> TRUE]
  <2>1. PICK f \in fs : x = [file |-> f, vm |-> owner[f], fromFile |-> TRUE]
    OBVIOUS
  <2>2. x.file = f /\ x.fromFile = TRUE
    BY <2>1
  <2> QED BY <2>1, <2>2
<1>6. rows' = rows \cup new
  BY <1>4
<1> HIDE DEF new
<1>7. /\ pc = "files" /\ pc' = pc /\ pivot' = pivot /\ seen' = seen /\ todo' = todo
      /\ b \in left /\ left' = left \ {b} /\ b \notin seen
  BY DEF IInv, Quiet, ReadFiles
<1>8. TodoInScope' /\ Quiet'
  BY <1>7 DEF IInv, TodoInScope, Quiet
<1>9. \A x \in rows : x.file.backup # b
  BY <1>7 DEF IInv, Origin, FromRest, FromFile
<1>10. Origin'
  <2> SUFFICES ASSUME NEW x \in rows'
               PROVE  /\ x.file.recent /\ Keep(pivot, x.file)
                      /\ (x.fromFile = FALSE /\ FromRest(x)') \/ (x.fromFile = TRUE /\ FromFile(x)')
    BY <1>7 DEF Origin, Keep
  <2>1. CASE x \in rows
    BY <1>7, <2>1 DEF IInv, Origin, FromRest, FromFile
  <2>2. CASE x \in new
    BY <1>3, <1>5, <1>7, <2>2 DEF FromFile
  <2> QED BY <1>6, <2>1, <2>2
<1>11. Once'
  <2> SUFFICES ASSUME NEW x \in rows', NEW y \in rows', x.file = y.file PROVE x = y
    BY DEF Once
  <2>1. CASE x \in rows /\ y \in rows
    BY <2>1 DEF IInv, Once
  <2>2. CASE x \in new /\ y \in new
    <3>1. PICK f \in fs : x.file = f /\ x = [file |-> f, vm |-> owner[f], fromFile |-> TRUE]
      BY <1>5, <2>2
    <3>2. PICK g \in fs : y.file = g /\ y = [file |-> g, vm |-> owner[g], fromFile |-> TRUE]
      BY <1>5, <2>2
    <3> QED BY <3>1, <3>2
  <2>3. CASE (x \in new /\ y \in rows) \/ (x \in rows /\ y \in new)
    <3>1. \A z \in new : z.file \in fs
      BY <1>5
    <3>2. \A z \in new : z.file.backup = b
      BY <1>3, <3>1
    <3> QED BY <1>9, <2>3, <3>2
  <2> QED BY <1>6, <2>1, <2>2, <2>3
<1> QED BY <1>1, <1>8, <1>10, <1>11 DEF IInv

LEMMA ControlKeeps ==
  ASSUME IInv, AllAnswered \/ Merged \/ Finish PROVE IInv'
<1>1. TypeOK' /\ ResultsTrue'
  BY ControlTypes DEF IInv, ResultsTrue, AllAnswered, Merged, Finish
<1>2. CASE AllAnswered
  BY <1>1, <1>2 DEF IInv, AllAnswered, TodoInScope, Quiet, Origin, Once, FromRest, FromFile
<1>3. CASE Merged
  <2>1. left' \cap seen = {} /\ \A x \in rows : x.fromFile = FALSE
    BY <1>3 DEF IInv, Merged, Unseen, Origin, FromFile
  <2> QED BY <1>1, <1>3, <2>1 DEF IInv, Merged, TodoInScope, Quiet, Origin, Once, FromRest
<1>4. CASE Finish
  BY <1>1, <1>4 DEF IInv, Finish, TodoInScope, Quiet, Origin, Once, FromRest, FromFile
<1> QED BY <1>2, <1>3, <1>4

LEMMA FilesFailKeeps == ASSUME IInv, NEW b \in Backups, FilesFail(b) PROVE IInv'
  BY ControlTypes, SameRows DEF IInv, FilesFail, ResultsTrue

LEMMA ReturnKeeps == ASSUME IInv, Return PROVE IInv'
<1>1. TypeOK'
  BY ReturnTypes DEF IInv
<1>2. ResultsTrue'
  BY DEF ResultsTrue, Return, NoResult
<1>3. TodoInScope' /\ Quiet' /\ Origin' /\ Once'
  BY DEF TodoInScope, Quiet, Origin, Once, Return
<1> QED BY <1>1, <1>2, <1>3 DEF IInv

LEMMA InitIInv == Init => IInv
<1> SUFFICES ASSUME Init PROVE IInv
  OBVIOUS
<1>1. ResultsTrue
  BY DEF Init, ResultsTrue, NoResult
<1> QED BY <1>1, InitTypes DEF Init, IInv, TodoInScope, Quiet, Origin, Once

LEMMA NextKeeps == IInv /\ [Next]_vars => IInv'
<1> SUFFICES ASSUME IInv, [Next]_vars PROVE IInv'
  OBVIOUS
<1>1. CASE \E pv \in Pivots : Start(pv)
  BY <1>1, StartKeeps
<1>2. CASE \E o \in Objects : Reply(o)
  BY <1>2, AnsweredKeeps, AskFailsKeeps DEF Reply
<1>3. CASE Step
  BY <1>3, AskKeeps, MergeKeeps, ReadFilesKeeps, FilesFailKeeps, ControlKeeps, ReturnKeeps
     DEF Step
<1>4. CASE UNCHANGED vars
  BY <1>4, ControlTypes, SameRows DEF IInv, vars, call, ResultsTrue
<1> QED BY <1>1, <1>2, <1>3, <1>4 DEF Next

\* Whatever VBR answers, in whichever order and with whichever failures: every row is
\* of what was asked for and recent, and no file is shown twice.
THEOREM RowsAreOfPivot == Spec => []OnlyPivot
<1>1. IInv => OnlyPivot
  <2> SUFFICES ASSUME IInv, NEW x \in rows
               PROVE  /\ x.file.recent
                      /\ \A y \in rows : x.file = y.file => x = y
                      /\ CASE pivot.kind = "job" -> JobOf[x.file.backup] = pivot.id
                           [] pivot.kind = "repo" -> RepoOf[x.file.backup] = pivot.id
                           [] OTHER -> x.fromFile \/ x.file.vm = pivot.id
    BY DEF OnlyPivot
  <2>1. x.file.recent /\ \A y \in rows : x.file = y.file => x = y
    BY DEF IInv, Origin, Once
  <2>2. Keep(pivot, x.file)
    BY DEF IInv, Origin
  <2>3. CASE pivot.kind = "job" \/ pivot.kind = "repo"
    BY <2>1, <2>2, <2>3 DEF Keep
  <2>4. CASE pivot.kind \notin {"job", "repo"}
    BY <2>1, <2>4 DEF IInv, Origin, FromRest
  <2> QED BY <2>3, <2>4
<1>2. Spec => []IInv
  BY InitIInv, NextKeeps, PTL DEF Spec
<1> QED BY <1>1, <1>2, PTL

-----------------------------------------------------------------------------
(* What a failure costs *)

\* The lanes are taken while the call asks, and nothing is got before.
LanesEnd ==
  /\ pc # "ask" => \A o \in Objects : lane[o] \in {"off", "done"}
  /\ pc = "idle" => \A o \in Objects : lane[o] = "off"
  /\ \A o \in Objects : (lane[o] \in {"queued", "asking"} \/ pc = "idle") => ~result[o].ok

\* An answer has all that was there all the time.
Gained ==
  \A o \in Objects : lane[o] = "done" /\ result[o].ok => steady \cap Own(o) \subseteq result[o].files

\* An answer is to be merged, or it was.
Covered(o) == o \in todo \/ {f \in result[o].files : Keep(pivot, f)} \subseteq Shown

Merging ==
  /\ pc = "ask" => \A o \in Objects : lane[o] = "off" \/ o \in todo
  /\ pc \in {"merge", "files", "answer"} =>
       \A o \in Objects : lane[o] = "done" /\ result[o].ok => Covered(o)
  /\ pc \in {"files", "answer"} => todo = {}

CInv == TypeOK /\ LanesEnd /\ Gained /\ Merging

LEMMA StartKeepsC == ASSUME CInv, NEW pv \in Pivots, Start(pv) PROVE CInv'
<1>1. TypeOK'
  BY StartTypes DEF CInv
<1>2. /\ pc = "idle" /\ result' = result /\ \A o \in Objects : lane'[o] # "done" /\ lane'[o] # "asking"
      /\ pc' \in {"ask", "error", "answer"}
      /\ (pc' # "ask" => todo' = {} /\ \A o \in Objects : lane'[o] = "off")
      /\ (pc' = "ask" => \A o \in Objects : lane'[o] = "off" \/ o \in todo')
  BY DEF Start
<1>3. \A o \in Objects : ~result'[o].ok
  BY <1>2 DEF CInv, LanesEnd
<1>4. LanesEnd' /\ Gained'
  BY <1>2, <1>3 DEF LanesEnd, Gained
<1>5. Merging'
  BY <1>2 DEF Merging
<1> QED BY <1>1, <1>4, <1>5 DEF CInv

LEMMA AskKeepsC == ASSUME CInv, NEW o \in Objects, Ask(o) PROVE CInv'
<1>1. TypeOK'
  BY AskTypes DEF CInv
<1>2. /\ pc = "ask" /\ pc' = pc /\ lane' = [lane EXCEPT ![o] = "asking"] /\ result' = result
      /\ todo' = todo /\ steady' = steady /\ lane[o] = "queued"
  BY DEF Ask, vbr, CInv, LanesEnd
<1>3. LanesEnd'
  BY <1>2 DEF CInv, LanesEnd, TypeOK
<1>4. Gained'
  BY <1>2 DEF CInv, Gained, TypeOK, Own, Published
<1>5. Merging'
  BY <1>2 DEF CInv, Merging, TypeOK
<1> QED BY <1>1, <1>3, <1>4, <1>5 DEF CInv

LEMMA AnsweredKeepsC == ASSUME CInv, NEW o \in Objects, Answered(o) PROVE CInv'
<1>1. TypeOK'
  BY AnsweredTypes DEF CInv
<1>2. PICK own \in Answers(Own(o)), more \in SUBSET Foreign(o) :
        result' = [result EXCEPT ![o] = [ok |-> TRUE, files |-> own \cup more]]
  BY DEF Answered
<1>3. /\ pc = "ask" /\ pc' = pc /\ lane' = [lane EXCEPT ![o] = "done"]
      /\ todo' = todo /\ steady' = steady /\ lane[o] = "asking"
  BY DEF Answered, vbr, CInv, LanesEnd
<1>4. /\ result'[o].files = own \cup more /\ lane'[o] = "done"
      /\ \A p \in Objects \ {o} : result'[p] = result[p] /\ lane'[p] = lane[p]
  BY <1>2, <1>3 DEF CInv, TypeOK
<1>5. LanesEnd'
  BY <1>3, <1>4 DEF CInv, LanesEnd
<1>6. Gained'
  <2>1. steady \cap Own(o) \subseteq own
    BY DEF Answers
  <2> QED BY <1>3, <1>4, <2>1 DEF CInv, Gained, Own, Published
<1>7. Merging'
  BY <1>3, <1>4 DEF CInv, Merging
<1> QED BY <1>1, <1>5, <1>6, <1>7 DEF CInv

LEMMA AskFailsKeepsC == ASSUME CInv, NEW o \in Objects, AskFails(o) PROVE CInv'
<1>1. TypeOK'
  BY AskFailsTypes DEF CInv
<1>2. /\ pc = "ask" /\ pc' = pc /\ lane' = [lane EXCEPT ![o] = "done"] /\ result' = result
      /\ todo' = todo /\ steady' = steady /\ lane[o] = "asking" /\ ~result[o].ok
  BY DEF AskFails, Release, vbr, CInv, LanesEnd
<1>3. LanesEnd'
  BY <1>2 DEF CInv, LanesEnd, TypeOK
<1>4. Gained'
  BY <1>2 DEF CInv, Gained, TypeOK, Own, Published
<1>5. Merging'
  BY <1>2 DEF CInv, Merging, TypeOK
<1> QED BY <1>1, <1>3, <1>4, <1>5 DEF CInv

LEMMA MergeKeepsC == ASSUME CInv, NEW o \in Objects, Merge(o) PROVE CInv'
<1>1. TypeOK'
  BY MergeTypes DEF CInv
<1>2. /\ pc = "merge" /\ pc' = pc /\ lane' = lane /\ result' = result /\ pivot' = pivot
      /\ steady' = steady /\ todo' = todo \ {o}
  BY DEF Merge, Skip, vbr
<1>3. LanesEnd' /\ Gained'
  BY <1>2 DEF CInv, LanesEnd, Gained, Own, Published
<1>4. Shown \subseteq Shown'
  BY DEF Merge, Shown
<1>5. result[o].ok => {f \in result[o].files : Keep(pivot, f)} \subseteq Shown'
  <2> DEFINE fs == {g \in result[o].files : Keep(pivot, g)} \ Shown
             new == {[file |-> f, vm |-> VmOf[o], fromFile |-> FALSE] : f \in fs}
  <2>1. result[o].ok => rows' = rows \cup new
    BY DEF Merge
  <2>2. ASSUME NEW f \in fs PROVE \E x \in new : x.file = f
    <3>1. [file |-> f, vm |-> VmOf[o], fromFile |-> FALSE] \in new
      OBVIOUS
    <3> HIDE DEF new
    <3> QED BY <3>1
  <2> HIDE DEF new
  <2> QED BY <2>1, <2>2, <1>4 DEF Shown
<1>6. Merging'
  <2> SUFFICES ASSUME NEW p \in Objects, lane[p] = "done", result[p].ok
               PROVE  Covered(p)'
    BY <1>2 DEF Merging
  <2>1. CASE p = o
    BY <1>2, <1>5, <2>1 DEF Covered, Keep
  <2>2. CASE p # o
    BY <1>2, <1>4, <2>2 DEF CInv, Merging, Covered, Keep
  <2> QED BY <2>1, <2>2
<1> QED BY <1>1, <1>3, <1>6 DEF CInv

\* A step after the merge, or to the next part of the call, forgets no row.
LEMMA LaterKeepsC ==
  ASSUME CInv, TypeOK', lane' = lane, result' = result, todo' = todo, pivot' = pivot,
         steady' = steady, rows \subseteq rows',
         \/ pc = "ask" /\ pc' = "merge" /\ \A o \in Objects : lane[o] \in {"off", "done"}
         \/ pc = "merge" /\ pc' = "files" /\ todo = {}
         \/ pc = "files" /\ pc' \in {"files", "answer"}
         \/ pc' = pc
  PROVE  CInv'
<1>1. LanesEnd' /\ Gained'
  BY DEF CInv, LanesEnd, Gained, Own, Published
<1>2. Shown \subseteq Shown'
  BY DEF Shown
<1>3. \A o \in Objects : Covered(o) => Covered(o)'
  BY <1>2 DEF Covered, Keep
<1>4. CASE pc = "ask" /\ pc' = "merge"
  <2>1. \A o \in Objects : lane[o] = "done" => o \in todo'
    BY <1>4 DEF CInv, Merging
  <2>2. \A o \in Objects : lane'[o] = "done" => Covered(o)'
    BY <2>1 DEF Covered
  <2> QED BY <1>1, <1>4, <2>2 DEF CInv, Merging, Covered
<1>5. CASE pc' = pc \/ pc \in {"merge", "files"}
  <2>1. pc' = "ask" => \A o \in Objects : lane'[o] = "off" \/ o \in todo'
    BY <1>5 DEF CInv, Merging
  <2>2. pc' \in {"files", "answer"} => todo' = {}
    BY <1>5 DEF CInv, Merging
  <2>3. ASSUME pc' \in {"merge", "files", "answer"}, NEW o \in Objects, lane[o] = "done", result[o].ok
        PROVE  Covered(o)'
    <3>1. pc \in {"merge", "files", "answer"}
      BY <1>5, <2>3
    <3>2. Covered(o)
      BY <2>3, <3>1 DEF CInv, Merging
    <3> QED BY <1>3, <3>2
  <2> QED BY <1>1, <2>1, <2>2, <2>3 DEF CInv, Merging, Covered
<1> QED BY <1>1, <1>4, <1>5 DEF CInv

LEMMA ReturnKeepsC == ASSUME CInv, Return PROVE CInv'
<1>1. TypeOK'
  BY ReturnTypes DEF CInv
<1>2. LanesEnd' /\ Gained' /\ Merging'
  BY DEF Return, LanesEnd, Gained, Merging, NoResult
<1> QED BY <1>1, <1>2 DEF CInv

LEMMA InitCInv == Init => CInv
  BY InitTypes DEF Init, CInv, LanesEnd, Gained, Merging, NoResult

LEMMA NextKeepsC == CInv /\ [Next]_vars => CInv'
<1> SUFFICES ASSUME CInv, [Next]_vars PROVE CInv'
  OBVIOUS
<1>1. TypeOK'
  BY TypesKept DEF CInv
<1>2. CASE \E pv \in Pivots : Start(pv)
  BY <1>2, StartKeepsC
<1>3. CASE \E o \in Objects : Reply(o)
  BY <1>3, AnsweredKeepsC, AskFailsKeepsC DEF Reply
<1>4. CASE Step
  <2>1. CASE \E b \in Backups : ReadFiles(b) \/ FilesFail(b)
    <3>1. rows \subseteq rows'
      BY <2>1 DEF ReadFiles, FilesFail
    <3> QED BY <1>1, <2>1, <3>1, LaterKeepsC DEF ReadFiles, FilesFail, vbr
  <2>2. CASE AllAnswered \/ Merged \/ Finish
    BY <1>1, <2>2, LaterKeepsC DEF AllAnswered, Merged, Finish, vbr
  <2> QED BY <1>4, <2>1, <2>2, AskKeepsC, MergeKeepsC, ReturnKeepsC DEF Step
<1>5. CASE UNCHANGED vars
  BY <1>1, <1>5, LaterKeepsC DEF vars, call, vbr
<1> QED BY <1>2, <1>3, <1>4, <1>5 DEF Next

\* A failure costs the rows of the object that failed and no others.
THEOREM OnlyTheFailedIsMissing == Spec => []CompleteButFailed
<1>1. CInv => CompleteButFailed
  <2> SUFFICES ASSUME CInv, pc = "answer", NEW o \in Objects, NEW f \in steady,
                      lane[o] = "done", result[o].ok, f.vm = VmOf[o], f.backup = BackupOf[o],
                      f.rest, f.recent, Keep(pivot, f)
               PROVE  f \in Shown
    BY DEF CompleteButFailed
  <2>1. f \in Own(o)
    BY DEF CInv, TypeOK, Own, Published
  <2>2. f \in result[o].files
    BY <2>1 DEF CInv, Gained
  <2>3. Covered(o) /\ todo = {}
    BY DEF CInv, Merging
  <2> QED BY <2>2, <2>3 DEF Covered
<1>2. Spec => []CInv
  BY InitCInv, NextKeepsC, PTL DEF Spec
<1> QED BY <1>1, <1>2, PTL
=============================================================================
