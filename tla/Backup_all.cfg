SPECIFICATION FairSpec
CONSTANTS
  daily = daily
  cmd = cmd
  r1 = r1
  Tasks = {daily}
  Commands = {cmd}
  Restorers = {r1}
  NameOf <- MCNameOf
  Casts <- MCCasts
  Daily = "daily"
  NoFile = NoFile
  Bad = Bad
  MaxVersion = 2
  MaxFaults = 1
INVARIANTS GoodUnlessTold InstallsOneBackup
PROPERTIES DailyRecurs
CHECK_DEADLOCK FALSE
