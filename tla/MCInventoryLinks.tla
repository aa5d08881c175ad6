-------------------------- MODULE MCInventoryLinks --------------------------
(***************************************************************************)
(* InventoryLinks for TLC: a daily job, a copy job that is in no list, a   *)
(* plug-in job whose backup has files only, and an imported backup without *)
(* a job.  db is in two backups, with an object of its own in each.        *)
(***************************************************************************)
EXTENDS InventoryLinks, TLC

MCBackups == <<"main", "rman", "copy", "import">>
MCJobOf == "main" :> "daily" @@ "rman" :> "plugin" @@ "copy" :> "offsite" @@ "import" :> "none"
MCKeyOf == "db1" :> "db" @@ "db2" :> "db" @@ "web1" :> "web" @@ "ora1" :> "ora"
MCRepositories == <<"disk", "tape">>
MCRepoStates == <<"disk", "tape", "disk">>
MCScaleOut == <<"sobr", "tape">>

\* Wrong claims, an object in two backups, a file that names the object of another
\* backup, an empty backup and an incomplete catalog.
MCWorlds ==
  [contents : {"main" :> m @@ "rman" :> r @@ "copy" :> c @@ "import" :> i :
                 m \in {{"db1"}, {"db1", "web1"}}, r \in {{}, {"ora1"}},
                 c \in {{"db2"}, {"db2", "web1"}, {}}, i \in {{}, {"web1"}}},
   named : {"main" :> {} @@ "rman" :> r @@ "copy" :> {"db2"} @@ "import" :> {} :
              r \in {{"ora1"}, {"ora1", "db1"}}},
   claims : {"db1" :> d @@ "db2" :> e @@ "web1" :> "main" @@ "ora1" :> o :
              d \in {"copy", "none"}, e \in {"copy", "rman"}, o \in {"rman", "gone"}},
   catalog : {Objects, Objects \ {"db2"}}]
=============================================================================
