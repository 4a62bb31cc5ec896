\* One token and one resource: a commit, two frames and a slow release thread.
CONSTANTS
  Tokens = {t}
  Resources = {1}
  Backlog = 2
  None = none
SPECIFICATION Spec
CHECK_DEADLOCK FALSE
PROPERTY ReleasedIsUnsampled
