------------------------ MODULE MCRestorePointDetail ------------------------
(***************************************************************************)
(* RestorePointDetail for TLC: a daily job whose backup was moved, two backups *)
(* of the same workload without a job (a copy and an import) whose points take *)
(* turns, a second workload that shares a backup, a plug-in.                *)
(***************************************************************************)
EXTENDS RestorePointDetail, TLC

Point(backup, vm, named, date, start) ==
  [backup |-> backup, vm |-> vm, named |-> named, date |-> date,
   start |-> start, file |-> backup = "rman"]

Full == Point("main", "db", {"db"}, 0, TRUE)
Inc == Point("main", "db", {"db"}, 24, FALSE)
Shared == Point("copy", "web", {"db", "web"}, 29, TRUE)
Copy == Point("copy", "db", {"db"}, 30, TRUE)
Import == Point("import", "db", {"db"}, 36, TRUE)
Moved == Point("moved", "db", {}, 48, TRUE)
Piece == Point("rman", "ora", {}, 50, TRUE)
Late == Point("copy", "db", {"db"}, 54, FALSE)

MCPoints == {Full, Inc, Shared, Copy, Import, Moved, Piece, Late}
MCClicked == {Copy}
MCNoSession == {Full}
MCExpiring == {Full, Copy}
MCJobOf == "main" :> "daily" @@ "moved" :> "daily" @@ "copy" :> "" @@ "import" :> "" @@ "rman" :> "plugin"
MCVmsOf == "main" :> {"db", "web"} @@ "moved" :> {"db"} @@ "copy" :> {"db", "web"}
           @@ "import" :> {"db"} @@ "rman" :> {"ora"}
MCAaipOn == "daily" :> "on" @@ "plugin" :> "off"

Line(guest, status) == [guest |-> guest, status |-> status]
Log == <<Line(FALSE, "Failed"), Line(TRUE, "Success"), Line(TRUE, "Warning")>>
BadLog == <<Line(TRUE, "Warning"), Line(TRUE, "Failed"), Line(TRUE, "Warning")>>

MCTasks == [p \in MCPoints |->
  CASE p = Inc -> {[point |-> Inc, log |-> BadLog], [point |-> Shared, log |-> Log]}
    [] p = Moved -> {[point |-> NoPoint, log |-> Log]}
    [] OTHER -> {}]

Symmetry == Permutations(Requests)
=============================================================================
