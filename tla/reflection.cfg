CONSTANTS
  AgentChanges = {good, bad, bad2}
  HumanChanges = {h1}
  Broken = {bad, bad2}
  Env = {"new_file", "timeout", "not_installed", "snapshot_error", "rollback_error", "orphan", "crash", "human_during"}
SPECIFICATION Spec
INVARIANTS TypeOK HumanWorkSurvives OnlyGatedCodeRuns AcceptedWorkSurvives
