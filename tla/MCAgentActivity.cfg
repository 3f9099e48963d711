SPECIFICATION FairSpec
CONSTANTS
  task = task
  task2 = task2
  bash = bash
  edit = edit
  read = read
  Tools = {task, task2, bash}
  SubTools = {edit, read}
  Spawning = {task, task2}
  Exempt = {task, task2, read}
  ParentOf <- MCParentOf
INVARIANTS
  ToolsAgree
  HelpersAgree
  WaitingAgrees
  BubblesAgree
  NoOrphans
PROPERTY
  SilenceIsWaiting
