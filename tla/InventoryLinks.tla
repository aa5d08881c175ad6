--------------------------- MODULE InventoryLinks ---------------------------
(***************************************************************************)
(* buildInventory (inventory.go) as the one who puts together what VBR     *)
(* tells in pieces: which jobs there are, which backups each has, and      *)
(* which workloads are in them.  Each getAll is a step that may fail;      *)
(* InventoryCache says when a build begins and where its result goes.      *)
(*                                                                         *)
(* A workload is known to VBR by several objects, one for each backup that *)
(* holds it (KeyOf).  An object claims a backup itself (backupId), which   *)
(* is often wrong; /backups/{id}/objects is right, but empty for the       *)
(* backups of plug-ins, whose files name their objects.  What VBR holds    *)
(* stays the same during a build.  The details of the jobs are left out:   *)
(* they say nothing about links.                                           *)
(***************************************************************************)
EXTENDS Naturals, SequencesExt

CONSTANTS
  Jobs, Objects, Workloads,
  Backups,       \* the sequence /backups answers with
  JobOf,         \* the job of each backup, or NoJob
  KeyOf,         \* the workload of each object: its objectId, or its own id
  JobStates,     \* the jobs /jobs/states lists
  JobList,       \* the jobs /jobs lists
  Repositories, RepoStates, ScaleOut,  \* the sequences of the ids they answer with
  Worlds,        \* what the backups may hold
  NoJob, NoBackup

Held == ToSet(Backups)

ASSUME RepositoriesAssumption == \A s \in {Repositories, RepoStates, ScaleOut} : s \in Seq(ToSet(s))
ASSUME JobsAssumption == NoJob \notin Jobs /\ JobStates \subseteq Jobs /\ JobList \subseteq Jobs
ASSUME BackupsAssumption ==
  Backups \in Seq(Held) /\ NoBackup \notin Held /\ JobOf \in [Held -> Jobs \cup {NoJob}]
ASSUME ObjectsAssumption == KeyOf \in [Objects -> Workloads]
\* contents: /backups/{id}/objects; named: the objectIds in its files; claims: the
\* backupId of an object, which need not be in Held; catalog: /backupObjects.
ASSUME WorldsAssumption == \A w \in Worlds :
  /\ w.contents \in [Held -> SUBSET Objects] /\ w.named \in [Held -> SUBSET Objects]
  /\ DOMAIN w.claims = Objects /\ w.catalog \subseteq Objects

VARIABLES
  world,         \* the one of Worlds that is (external)
  pc,            \* the call of VBR that comes next
  at,            \* the position in Backups of the backup that is being read
  repos,         \* inv.Repos, the ids
  jobs,          \* inv.Jobs, the ids
  jobBackups,    \* Job.BackupIDs; backupJob of a backup is known with it
  known,         \* the domain of objectVM, whose values are KeyOf
  objectBackup,  \* objectBackup
  vmJobs,        \* Workload.JobIDs
  jobVms,        \* Job.VMIDs
  failed         \* history: the backups whose objects or files could not be read

vars == <<world, pc, at, repos, jobs, jobBackups, known, objectBackup, vmJobs, jobVms, failed>>
links == <<known, objectBackup, vmJobs, jobVms, failed>>

Init ==
  /\ world \in Worlds
  /\ pc = "repositories"
  /\ at = 1
  /\ repos = <<>>
  /\ jobs = {}
  /\ jobBackups = [j \in Jobs |-> {}]
  /\ known = {}
  /\ objectBackup = [o \in Objects |-> NoBackup]
  /\ vmJobs = [w \in Workloads |-> {}]
  /\ jobVms = [j \in Jobs |-> {}]
  /\ failed = {}

\* A call without which there is no inventory fails: /repositories, /backups or
\* /backupObjects.
Abort ==
  /\ pc \in {"repositories", "backups", "objects"}
  /\ pc' = "aborted"
  /\ UNCHANGED <<world, at, repos, jobs, jobBackups, links>>

-----------------------------------------------------------------------------
(* Repositories *)

\* One id after the other; one that was seen is skipped.
Added(rs, more) ==
  LET acc[n \in 0..Len(more)] ==
        IF n = 0 THEN rs
        ELSE IF more[n] \in ToSet(acc[n - 1]) THEN acc[n - 1]
        ELSE Append(acc[n - 1], more[n])
  IN acc[Len(more)]

ReadRepositories ==
  /\ pc = "repositories"
  /\ pc' = "states"
  /\ UNCHANGED <<world, at, repos, jobs, jobBackups, links>>

\* When /states fails in the middle, what it had said is used, and the rest comes
\* from /repositories.
ReadStates ==
  /\ pc = "states"
  /\ pc' = "scaleout"
  /\ \/ repos' = Added(<<>>, RepoStates)
     \/ \E n \in 0..Len(RepoStates) :
          repos' = Added(<<>>, SubSeq(RepoStates, 1, n) \o Repositories)
  /\ UNCHANGED <<world, at, jobs, jobBackups, links>>

ReadScaleOut ==
  /\ pc = "scaleout"
  /\ pc' = "jobstates"
  /\ repos' \in {repos, Added(repos, ScaleOut)}
  /\ UNCHANGED <<world, at, jobs, jobBackups, links>>

-----------------------------------------------------------------------------
(* listJobs and the backups *)

JobsOf(bs) == {JobOf[b] : b \in bs} \ {NoJob}

\* /jobs/states, else /jobs, else what the backups tell; never an error.
ListJobs ==
  \/ /\ pc = "jobstates"
     /\ \/ JobStates # {} /\ jobs' = JobStates /\ pc' = "backups"
        \/ UNCHANGED jobs /\ pc' = "joblist"
     /\ UNCHANGED <<world, at, repos, jobBackups, links>>
  \/ /\ pc = "joblist"
     /\ \/ jobs' = JobList /\ pc' = "backups"
        \/ UNCHANGED jobs /\ pc' = "jobbackups"
     /\ UNCHANGED <<world, at, repos, jobBackups, links>>
  \/ /\ pc = "jobbackups"
     /\ pc' = "backups"
     /\ jobs' \in {{}, JobsOf(Held)}
     /\ UNCHANGED <<world, at, repos, jobBackups, links>>

\* A job that is in no list is made from its backup.
ReadBackups ==
  /\ pc = "backups"
  /\ pc' = "objects"
  /\ jobs' = jobs \cup JobsOf(Held)
  /\ jobBackups' = [j \in Jobs |-> IF j \in jobs' THEN {b \in Held : JobOf[b] = j} ELSE {}]
  /\ UNCHANGED <<world, at, repos, links>>

-----------------------------------------------------------------------------
(* Workloads and their links *)

\* add: the first claim of an object is kept.
Claimed(os) ==
  [o \in Objects |-> IF o \in os /\ objectBackup[o] = NoBackup THEN world.claims[o]
                     ELSE objectBackup[o]]

ReadObjects ==
  /\ pc = "objects"
  /\ pc' = IF Held = {} THEN "links" ELSE "contents"
  /\ known' = world.catalog
  /\ objectBackup' = Claimed(world.catalog)
  /\ UNCHANGED <<world, at, repos, jobs, jobBackups, vmJobs, jobVms, failed>>

\* link, for a set of pairs of a workload and a job.
Link(pairs) ==
  LET named == {p \in pairs : p[2] # NoJob}
  IN /\ vmJobs' = [w \in Workloads |-> vmJobs[w] \cup {p[2] : p \in {q \in named : q[1] = w}}]
     /\ jobVms' = [j \in Jobs |-> IF j \in jobs
                                  THEN jobVms[j] \cup {p[1] : p \in {q \in named : q[2] = j}}
                                  ELSE jobVms[j]]

This == Backups[at]

NextBackup ==
  /\ pc' = IF at < Len(Backups) THEN "contents" ELSE "links"
  /\ at' = at + 1

\* The objects os are of this backup, whatever they claimed.
\* Slip: a claim is taken as good.
PlacedUnclaimed(os) ==
  [o \in Objects |-> IF o \in os /\ objectBackup[o] = NoBackup THEN This ELSE objectBackup[o]]
Placed(os) == [o \in Objects |-> IF o \in os THEN This ELSE objectBackup[o]]

Place(os) ==
  /\ objectBackup' = Placed(os)
  /\ Link({<<KeyOf[o], JobOf[This]>> : o \in os})

\* /backups/{id}/objects
ReadContents ==
  /\ pc = "contents"
  /\ world.contents[This] # {}
  /\ known' = known \cup world.contents[This]
  /\ Place(world.contents[This])
  /\ NextBackup
  /\ UNCHANGED <<world, repos, jobs, jobBackups, failed>>

ReadEmpty ==
  /\ pc = "contents"
  /\ world.contents[This] = {}
  /\ pc' = "files"
  /\ UNCHANGED <<world, at, repos, jobs, jobBackups, links>>

\* /backups/{id}/backupFiles
ReadFiles ==
  /\ pc = "files"
  /\ Place(world.named[This] \cap known)
  /\ NextBackup
  /\ UNCHANGED <<world, repos, jobs, jobBackups, known, failed>>

\* One of the two fails: the next backup is read.  Slip: none is any more.
LeaveBackups == pc' = "links" /\ UNCHANGED at
SkipBackup == NextBackup

ReadFails ==
  /\ pc \in {"contents", "files"}
  /\ failed' = failed \cup {This}
  /\ SkipBackup
  /\ UNCHANGED <<world, repos, jobs, jobBackups, known, objectBackup, vmJobs, jobVms>>

\* The workloads no backup has linked follow the claims of their objects.
\* Slip: all do.
FollowersAll == Workloads
Followers == {w \in Workloads : vmJobs[w] = {}}

JobOfBackup(b) == IF b \in Held THEN JobOf[b] ELSE NoJob

FallBack ==
  /\ pc = "links"
  /\ pc' = "done"
  /\ Link({<<KeyOf[o], JobOfBackup(objectBackup[o])>> : o \in {q \in known : KeyOf[q] \in Followers}})
  /\ UNCHANGED <<world, at, repos, jobs, jobBackups, known, objectBackup, failed>>

Next ==
  \/ ReadRepositories \/ ReadStates \/ ReadScaleOut
  \/ ListJobs \/ ReadBackups \/ ReadObjects
  \/ ReadContents \/ ReadEmpty \/ ReadFiles \/ ReadFails \/ FallBack
  \/ Abort

Spec == Init /\ [][Next]_vars

-----------------------------------------------------------------------------
(* Properties *)

\* What each variable holds; of repos NothingLostButFailed says more.
TypeOK ==
  /\ world \in Worlds
  /\ pc \in {"repositories", "states", "scaleout", "jobstates", "joblist", "jobbackups", "backups",
             "objects", "contents", "files", "links", "done", "aborted"}
  /\ at \in 1..(Len(Backups) + 1) /\ (pc \in {"contents", "files"} => at <= Len(Backups))
  /\ jobs \subseteq Jobs
  /\ jobBackups \in [Jobs -> SUBSET Held]
  /\ known \subseteq Objects
  /\ DOMAIN objectBackup = Objects
  /\ vmJobs \in [Workloads -> SUBSET Jobs]
  /\ jobVms \in [Jobs -> SUBSET Workloads]
  /\ failed \subseteq Held

\* What the objects of a backup are, however VBR tells; and those of them that a
\* build must find if it can read the backup: a file may name an object that becomes
\* known only later.
In(o, b) == o \in world.contents[b] \/ (world.contents[b] = {} /\ o \in world.named[b])
Told(o, b) == In(o, b) /\ o \in world.contents[b] \cup world.catalog

\* A workload and a job that are linked belong together: a backup of the job holds
\* the workload; or no backup with a job that holds it could be read, and one of its
\* objects claims a backup of the job.  Both sides of a link know of it, and the job
\* is in the inventory.
LinksTrue ==
  pc = "done" =>
    /\ \A w \in Workloads : \A j \in vmJobs[w] :
         \/ \E b \in Held, o \in known : In(o, b) /\ KeyOf[o] = w /\ JobOf[b] = j
         \/ /\ \A b \in Held, o \in Objects :
                 Told(o, b) /\ KeyOf[o] = w => b \in failed \/ JobOf[b] = NoJob
            /\ \E o \in known : KeyOf[o] = w /\ JobOfBackup(world.claims[o]) = j
    /\ \A w \in Workloads, j \in Jobs : w \in jobVms[j] <=> j \in vmJobs[w]
    /\ \A w \in Workloads : vmJobs[w] \subseteq jobs

\* A call that fails costs what it would have told and nothing else: the other
\* backups link their workloads, through their files only those that are known from
\* elsewhere; no repository is lost, or listed twice, when /states breaks off.
NothingLostButFailed ==
  pc = "done" =>
    /\ \A b \in Held \ failed, o \in Objects :
         Told(o, b) /\ JobOf[b] # NoJob => JobOf[b] \in vmJobs[KeyOf[o]]
    /\ IsInjective(repos)
    /\ ToSet(Repositories) \subseteq ToSet(repos) \/ ToSet(RepoStates) \subseteq ToSet(repos)

\* A workload that is linked to a job has an object that RestorePoints asks when the
\* job is shown, unless two backups of different jobs hold one object of it: then the
\* last one that was read has it.
Shared(w) ==
  \E o \in Objects, b, c \in Held :
    KeyOf[o] = w /\ In(o, b) /\ In(o, c) /\ JobOf[b] # JobOf[c]

LinkedIsFound ==
  pc = "done" =>
    \A w \in Workloads : \A j \in vmJobs[w] :
      ~Shared(w) => \E o \in known : KeyOf[o] = w /\ objectBackup[o] \in jobBackups[j]
=============================================================================
