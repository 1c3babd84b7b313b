SPECIFICATION Spec
CONSTANTS
  MaxPorts = 4
  MaxFrames = 2
  MaxConts = 1
  MaxJumps = 1
INVARIANTS
  ClosedOnce
  OpenHasPort
  InUseKept
  CurrentOpen
