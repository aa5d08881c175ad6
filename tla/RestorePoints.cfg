SPECIFICATION FairSpec
CONSTANTS
  Objects = {"db1", "web1", "db2", "ora1", "ora2"}
  Backups = {"main", "copy", "rman"}
  Jobs = {"daily", "offsite", "plugin", "tape"}
  Pivots <- MCPivots
  Files <- MCFiles
  VmOf <- MCVmOf
  BackupOf <- MCBackupOf
  JobOf <- MCJobOf
  RepoOf <- MCRepoOf
  JobsOf <- MCJobsOf
  NoChain = {"tape"}
  NoBackup = "none"
  Lanes = 2
INVARIANTS OnlyPivot CompleteButFailed
PROPERTY EveryCallReturns
