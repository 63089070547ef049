\* Two runs of seed.py, the container and an operator who intervenes twice,
\* one process that dies.
CONSTANTS
  Seeder = {s1, s2}
  MaxCrashes = 1
  MaxManual = 2
SPECIFICATION FairSpec
CHECK_DEADLOCK FALSE
INVARIANTS DeploymentTypeOK SchemaMatchesVersion ScriptsAreSound HeadMatchesModels ServesCurrentSchema
PROPERTIES SeedLeavesAll ServiceComesUp
