SPECIFICATION KernelSpec
CONSTANTS
  Threshold = 2
  Cooldown = 2
  MaxKeys = 1
INVARIANTS ConfigTaken
