SPECIFICATION FairSpec
CONSTANTS
  Streams = {r1}
  MaxData = 2
  ChanCap = 2
INVARIANTS
  TypeOK
  ReorderedOnlyOnTheWay
  CleanEndLosesOnlyOvertaken
PROPERTIES
  LocalCutOnlyByOvertaking
  StopReleases
  LocalEndReleases
  TargetEndReleases
CHECK_DEADLOCK FALSE
