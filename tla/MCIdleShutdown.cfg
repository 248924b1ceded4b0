\* An interval of two ticks.
SPECIFICATION FairSpec

CONSTANTS
  PlaybackCodes <- const_PlaybackCodes
  Timeout = 2

INVARIANT TypeOK

PROPERTIES
  ShutdownAfterLongIdle
  ShutdownOnlyInSilence
  SettledIsPublished
  SetupDisablesShutdown
  IdleBoxShutsDown
