SPECIFICATION QueueSpec
CONSTANTS
  ja = ja
  jb = jb
  jc = jc
  jd = jd
  je = je
  jf = jf
  s = s
  w1 = w1
  w2 = w2
  Root = Root
  Nobody = Nobody
  Jobs = {ja, jb, jc, jd, je, jf}
  Workers = {w1, w2}
  Parents <- Family
  Rank <- Places
  Subchannels = {s}
  ChannelOf <- Channel
  Capacity <- Slots
  Sequential = {s}
  MaxTries <- Tries
  MaxRequests = 1
  Graphs = {{ja, jb}, {jc, jd, je}, {jd, jf}}
  MaxTroubles <- One
  Units = 4
  Keys = {1, 2}
  Records = 3
  MaxParts = 2
  MaxCalls = 3
CHECK_DEADLOCK FALSE
INVARIANT JobInv
INVARIANT JobGraphInv
INVARIANT AtMostOnce
INVARIANT ChildIsReleased
PROPERTY JobsSettle
