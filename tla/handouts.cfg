\* Every program on its own, on small inputs; the transposes at full size.
CONSTANTS
  TEST_RANGE = 8
  Randoms <- MCRandoms
  Given <- MCGiven
  SetBits = 1
  BlockBits = 1
  LinesPerSet = {1, 2}
  Addresses = {0, 2, 4, 8, 16}
  MaxTrace = 5
  Text = 6
  Newlines = {2, 3}
  RIO_BUFSIZE = 3
  PipeSize = 3
  Amounts = {2, 4}
  MaxAddresses = 3
  Nodes = {1, 2, 3, 4}
  Names = {"A", "B"}
  Lens = {1, 2}
  Cycles = {100, 101, 110}
  Ticks = {0, 1}
  Gaps <- MCGaps
  WordSize = 16
  Starts = {13, 155, 250}
  Ks = {1, 2, 3}
  maxsamples = 4
  NEVENT = 2
  RECORDTHRESH = 2
  CacheSizes = {4, 8}
  Usecs = 10
  MAX_ETIME = 5
  Durations = {0, 3, 9, 25}
  Runs = 2
  Teams <- MCTeams
  MaxArgs = 2
  DEFAULT_TRACEFILES = 2
  NumOps = {1, 6}
  Utils = {50, 99, 100}
  Secs = {0, 2}
  AVG_LIBC_THRUPUT = 2
SPECIFICATION Spec
INVARIANTS PuzzlesRight SimulatorExact TransposeScores CsappKept QueueRight IndexFromTimes
CHECK_DEADLOCK FALSE
