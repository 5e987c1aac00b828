SPECIFICATION FairSpec
CONSTANTS
  a = a b = b self = self h1 = h1
  Peer = {a, b}
  Self = self
  Conn = {1, 2}
  Host = {h1}
  Hosts <- OneHost
  Bootstrap = {h1}
  Optimal = 1 MinActive = 1 MaxPassive = 1 SampleSize = 1 WalkLength = 2
  Speech <- Kind
  Named = {b, self}
INVARIANTS TypeOK PassiveBounded ActiveLinked SentMessagesAreBacked
PROPERTIES ActiveLossHasCause IsolatedNodeDials
