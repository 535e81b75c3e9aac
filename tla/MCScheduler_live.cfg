SPECIFICATION FairSpec
CONSTANTS
  s1 = s1
  s2 = s2
  p1 = p1
  p2 = p2
  r1 = r1
  r2 = r2
  r3 = r3
  NoRun = NoRun
  Schedules <- OneSchedule
  Procs <- OneProc
  Tickers <- OneProc
  Runs <- TwoRuns
  MaxAttempts = 2
  MaxResumes = 1
  MaxRepeat = 0
  Timings = {"none", "past"}
  Env = {"runNow", "overlap", "answer", "cancel"}
PROPERTIES
  QueuedIsClaimed
  DueIsFired
