\* One function at a time, two patches of it, either safe or unsafe.
SPECIFICATION Spec
CONSTANTS
  Functions <- MCFunctions
  Entry = 1040
  Pages <- MCPages
  NearPages <- MCNearPages
  Slots <- MCSlots
  Reach = 1500
  PageBytes = 256
  PageReach = 64
  ShortReach = 512
INVARIANTS ProxyRunsTheTarget CallReachesHook EntryDecodes UnpatchRestores
CHECK_DEADLOCK FALSE
