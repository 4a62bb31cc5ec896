\* Reports: two sessions with two nodes and a queue of one.  Bridge: two windows, a
\* queue of two.  Shim: three threads that use one address again and again.
\* DroidSpaces: two sessions, the app and the container started twice.
CONSTANTS
  d1 = d1
  d2 = d2
  Reporters = {r1, r2}
  Devices = {d1, d2}
  Nodes <- TwoNodes
  Backlog = 1
  MaxBacklog = 1
  Windows = {w1, w2}
  Null = Null
  Input = Input
  MaxQueue = 2
  MaxReferences = 2
  Threads = {g1, g2, g3}
  Bos = {b1}
  Sessions = {s1, s2}
  Attachments = {wayland}
  MaxApps = 2
  MaxLives = 2
  Absent = Absent
  None = None
SPECIFICATION HostSpec
INVARIANTS ReferencesBalanced DispatchedToOwner AttachmentsPresent
PROPERTIES AnnouncesAsPromised DesktopStarts CommandsAreTaken StopReturns TokenCallsReturn StartedContainerStops
