\* the cache across crashes: three directory contents, the empty one among them
CONSTANTS
  d0 = d0
  d1 = d1
  d2 = d2
  NoDir = NoDir
  Dirs <- MCDirs
  EmptyDir = d0
SPECIFICATION Spec
INVARIANT DBTypeOK
PROPERTY NeverSilentlyWrong
