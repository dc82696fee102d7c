CONSTANTS
  Lines <- MCLines
  MaxUnits = 5
  Tries = 2
  Aheads = {1, 2}
  Width = 3
  Names = {p4, p6, net, short, long, all, same, word}
  NoSlash = NoSlash
  NaN = NaN
  p4 = p4
  p6 = p6
  net = net
  short = short
  long = long
  all = all
  same = same
  word = word
  Peers <- MCPeers
  RuleSets <- MCRuleSets
SPECIFICATION FairSpec
INVARIANTS BufferingBounded DecidesOnTheRequest RepliesMatch OnlyListedServed
PROPERTIES OnlyBigRequestsCutOff EachGetsItsAnswer
