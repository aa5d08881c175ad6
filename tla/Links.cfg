SPECIFICATION Spec
CONSTANTS
  Jobs = {"daily", "plugin", "offsite"}
  Objects = {"db1", "db2", "web1", "ora1"}
  Workloads = {"db", "web", "ora"}
  Backups <- MCBackups
  JobOf <- MCJobOf
  KeyOf <- MCKeyOf
  JobStates = {"daily", "plugin"}
  JobList = {"daily"}
  Repositories <- MCRepositories
  RepoStates <- MCRepoStates
  ScaleOut <- MCScaleOut
  Worlds <- MCWorlds
  NoJob = "none"
  NoBackup = "none"
INVARIANTS LinksTrue NothingLostButFailed LinkedIsFound
\* The build ends.
CHECK_DEADLOCK FALSE
