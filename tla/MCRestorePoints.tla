-------------------------- MODULE MCRestorePoints --------------------------
(***************************************************************************)
(* RestorePoints for TLC: a job with two workloads in one backup, a copy job *)
(* with one of them, a plug-in job of two more whose backup has files only.   *)
(***************************************************************************)
EXTENDS RestorePoints, TLC

MCVmOf == "db1" :> "db" @@ "web1" :> "web" @@ "db2" :> "db" @@ "ora1" :> "ora" @@ "ora2" :> "sap"
MCBackupOf == "db1" :> "main" @@ "web1" :> "main" @@ "db2" :> "copy" @@ "ora1" :> "rman" @@ "ora2" :> "rman"
MCJobOf == "main" :> "daily" @@ "copy" :> "offsite" @@ "rman" :> "plugin"
MCRepoOf == "main" :> "disk" @@ "copy" :> "cloud" @@ "rman" :> "disk"
MCJobsOf == "db" :> {"daily", "offsite"} @@ "web" :> {"daily"} @@ "ora" :> {"plugin"} @@ "sap" :> {"plugin"}

File(id, backup, vm, rest, recent) ==
  [id |-> id, backup |-> backup, vm |-> vm, rest |-> rest, recent |-> recent]

MCFiles == {File(1, "main", "db", TRUE, TRUE), File(2, "main", "web", TRUE, TRUE),
            File(3, "copy", "db", TRUE, TRUE), File(4, "rman", "none", FALSE, TRUE),
            File(5, "main", "web", TRUE, FALSE)}

Pivot(kind, id) == [kind |-> kind, id |-> id]

MCPivots == {Pivot("job", "daily"), Pivot("job", "plugin"), Pivot("job", "tape"),
             Pivot("job", "gone"), Pivot("vm", "db"), Pivot("repo", "disk")}
=============================================================================
