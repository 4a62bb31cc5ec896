\* Imports: one of each object but two buffers, and fewer descriptors, inodes and
\* hardware buffers than requests, so that their numbers are used again.
\* Reader: two keyboards that share a key, so that their readers race for
\* pressed_keys, and two key events.  PipeWire: two runtime directories, a full
\* start and half of another.  VirGL: three servers one after another.  Profiles:
\* two ids, four documents.  Rootfs: two commands at a time, three imports.  IME:
\* both versions and modes, three fields, four events and a queue of two.
CONSTANTS
  Fds = {n1, n2}
  Inodes = {i1, i2}
  Ahbs = {a1}
  Params = {p1}
  Handles = {h1}
  Buffers = {b1, b2}
  Tokens = {t1}
  Expected = {1}
  Devices = {kbd1, kbd2}
  External = {kbd1, kbd2}
  Keys = {q}
  MAX_DEVICES = 2
  MaxEvents = 2
  MaxPlugs = 1
  NoPath = NoPath
  NoEvent = NoEvent
  Directories = {d, e}
  MaxSpawned = 6
  MaxServers = 3
  Ids = {a, b}
  MaxVersion = 4
  Empty = empty
  Commands = {import, other}
  MaxImports = 3
  MAX_QUEUED_MESSAGES = 2
  MaxFields = 3
  MaxMessages = 4
  None = none
  Nothing = nothing
  NoProcess = no_process
SPECIFICATION NativeSpec
CHECK_DEADLOCK FALSE
INVARIANTS ImportsOwned KeysUpAtExit NothingLeftBehind NoProfileLost InstalledIsWhole CommittedAsTyped
PROPERTY VirglSuccessIsThisServer
