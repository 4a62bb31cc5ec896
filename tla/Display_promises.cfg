\* Reader: a keyboard, replugged, and a device that is none.  Output: one surface, two
\* callbacks.  Scan-out: a token registered twice,
\* two connections waiting.
CONSTANTS
  Devices = {kbd1, buttons}
  External = {kbd1}
  Keys = {q}
  MAX_DEVICES = 2
  MaxEvents = 1
  MaxPlugs = 3
  NoPath = NoPath
  NoEvent = NoEvent
  Surfaces = {s1}
  Children = {}
  NoSurface = NoSurface
  MaxEglFailures = 0
  Callbacks = {c1, c2}
  Tokens = {t}
  Resources = {1, 2}
  Backlog = 2
  None = none
SPECIFICATION DisplaySpec
INVARIANTS FrameOwedIsScheduled UnshownIsScheduled PresentedIsOwed
PROPERTIES CallbackIsDelivered CommitReturns OwnerGoneEndsReader KeyboardIsTaken
