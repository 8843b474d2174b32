CONSTANTS
  Procs = {p1, p2, p3}
  NUM = 7
  Kills = {"sleep_free"}
  NoBuf = NoBuf
SPECIFICATION FairSpec
INVARIANTS  DescriptorsConserved NoForgottenWaiter
PROPERTIES RequestsReturn
