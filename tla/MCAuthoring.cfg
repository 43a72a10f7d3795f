CONSTANTS
  Actor = {web, tui}
  PbPlan <- MCPlans
  PbProfiles = {{}, {"search"}, {"search", "credentials"}}
  MaxRevisions = 2
  MaxModelCalls = 1
  PbOpBound = 3
  CkPlan <- MCPlanfiles
  CkProfile <- MCProfiles
  CkSecret = {"k1"}
  SchedBound = 2
  Library = {"team"}
  LibFile <- MCLibFile
  SavePath <- MCSavePath
  LibOpBound = 4
  Prompt <- MCPrompt
  Holds <- MCHolds
  Installed <- MCInstalled
  Registration <- MCRegistration
  SkillGoal <- MCSkillGoal
  SkillIo <- MCSkillIo
  SkillRest <- MCSkillRest
  SkillTool = {"repo.read", "crm"}
  KnownTool = {"repo.read"}
  SkillCap <- MCSkillCap
  PackOrder <- MCPackOrder
  PackSource <- MCPackSource
  CoreCap = {"core.read"}
  PkOpBound = 5
  DmProc = {d1, d2}
  DmTime = 3
  DmRuns = 2
  NodeCount = 3
  Missing = {9}
  FrameSets <- FirstOrLast
  Optionals <- NoneOrLast
SPECIFICATION Spec
SYMMETRY Symmetry
CHECK_DEADLOCK FALSE
INVARIANTS
  SearchesAgree
  BuilderKeepsItsWord
  VerdictsAgree
  LibraryAccounted
  CompositionSound
  SkillsStaySafe
  InstalledPacksTrusted
PROPERTIES
  DemosKeepTheirOwn
