\* Two senders and one receiver that asks for one kind or for both; two cores
\* of different speed that stall, resume each other, meet at barriers and exit.
SPECIFICATION BothSpec
CONSTANTS
  Senders = {s1, s2}
  Receivers = {r1}
  Kinds = {1, 2}
  Matches = {{1}, {1, 2}}
  MaxSent = 2
  c1 = c1  c2 = c2  None = None
  Interval = 2  MaxStep = 3  MaxTime = 4
INVARIANTS NoLostWakeup BoundedSkew
PROPERTIES Received WaitersReleased
CHECK_DEADLOCK FALSE
