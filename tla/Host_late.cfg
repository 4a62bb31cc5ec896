\* The reports of two sessions; the other components as in the run of all of them.
CONSTANTS
  d1 = d1
  d2 = d2
  Reporters = {r1, r2}
  Devices = {d1, d2}
  Nodes <- TwoNodes
  Backlog = 1
  MaxBacklog = 1
  Windows = {w1, w2}
  Null = Null
  Input = Input
  MaxQueue = 2
  MaxReferences = 2
  Threads = {g1, g2, g3}
  Bos = {b1, b2}
  Sessions = {s1, s2}
  Attachments = {wayland}
  MaxApps = 2
  MaxLives = 2
  Absent = Absent
  None = None
SPECIFICATION HostSpec
PROPERTY RegisteredBeforeDesktop
