SPECIFICATION TrackerSpec
CONSTANTS
  t1 = t1
  t2 = t2
  zsh = zsh
  log1 = log1
  log2 = log2
  log3 = log3
  Terminals = {t1, t2}
  ShellName <- MCShellName
  Files = {log1, log2, log3}
  MaxLines = 2
  MaxReadies = 2
  MaxReloads = 1
  None = None
SYMMETRY Symmetry
CHECK_DEADLOCK FALSE
INVARIANTS
  NoLineTwice
  ListIsTrue
  FollowsItsSession
