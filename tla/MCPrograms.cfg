SPECIFICATION MCFairSpec
CONSTANTS
  NumThreads = 3
  Rounds = 2
  Inputs <- Matrices
  Garbage = {0, 7}
  IntsPerSize = 1
  LineLen = 2
  StdioLines = 2
  ReadPieces = 2
  SendRoom = 3
  MaxLines = 3
  MaxPieces = 2
  Files = {f1, f2, f3}
  Dots = {dot, dotdot}
  MaxEntries = 2
  Changes = {"delete", "write"}
  Nobody = Nobody
  MaxProcs = 3
  MaxExpired = 2
  Ttys = {tty1, tty2}
  Stdin = tty1
  Procs = {p1, p2}
  BufLen = 3
  Want = 7
  MaxEpochs = 7
  MaxLifetime = 3
INVARIANTS
  NoLostUpdate
  PrintsAll
  
  OnlyGapsForgotten
  DeviceSound
  RefsBalanced
  FreedOnTime
  MemorySafe
  PrintsProduct
PROPERTIES
  Responsive
  NotedIsSaid
  ProgramsEnd
  EchoKept
CHECK_DEADLOCK FALSE
