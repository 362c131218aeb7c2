CONSTANTS
  Keys = {k1, k2}
  Values = {v1, v2}
  Env = {"cut_write", "lost_newline", "disk_full", "crash", "power"}
  MaxLines = 3
  MaxUnsynced = 2
SPECIFICATION Spec
SYMMETRY Symmetry
INVARIANTS TypeOK AckedSurvives RestartIsInvisible
