SPECIFICATION Spec
CONSTANTS
  s1 = s1
  s2 = s2
  p1 = p1
  p2 = p2
  r1 = r1
  r2 = r2
  r3 = r3
  NoRun = NoRun
  Schedules <- OneSchedule
  Procs <- OneProc
  Tickers <- OneProc
  Runs <- TwoRuns
  MaxAttempts = 2
  MaxResumes = 1
  MaxRepeat = 2
  Timings = {"none", "future", "past"}
  Env = {"pause", "archive", "edit", "runNow", "overlap", "answer", "deny", "cancel", "refuse", "crash"}
SYMMETRY RunSymmetry
INVARIANTS
  TypeOK
  NoLostFireTime
PROPERTIES
  
  RepeatCountsSuccesses
