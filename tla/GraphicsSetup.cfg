SPECIFICATION FairSpec
CONSTANTS
  MaxDevices = 2
  MaxModes = 2
  GPU_MENU_TIMEOUT_SECONDS = 2
  MaxKeys = 2
INVARIANTS FramebuffersTrue ChoiceHonoured IndicesInRange ScratchFreed UntimedOnlyIfAttended
PROPERTY TimedMenusEnd
