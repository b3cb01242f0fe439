SPECIFICATION Spec
CONSTANTS
  YamlFiles = 2
  Tags = 2
  Keys <- Names
  MaxArtifacts = 3
  Caches = {c1, c2}
  Params = {sha, ref}
  MaxVersion = 3
  MaxCommits = 4
  MaxTips = 2
INVARIANTS FixesNeedAllAnswers SuccessIsEarned DownloadsAreWhole RetryAsksForWhatIsOffered DefinitionSettles BaseIsShared
PROPERTIES LintTerminates CommandsTerminate
CHECK_DEADLOCK FALSE
