\* The app may die while its container is starting.
CONSTANTS
  Sessions = {s1, s2}
  Attachments = {wayland}
  MaxApps = 2
  MaxLives = 2
  None = None
SPECIFICATION FairSpec
PROPERTY OrphanedContainerStops
