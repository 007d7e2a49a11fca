SPECIFICATION FairSpec
CONSTANTS
  Conversation = {"c"}
  Run <- TwoRuns
  MaxFaults = 2
INVARIANTS TypeOK ReportedIsStored TranscriptInOrder RepeatedOnlyByRecovery CheckpointIsKept OneRunAtATime DeletedStaysDeleted UserTitleIsKept
PROPERTIES StoppingEnds
CHECK_DEADLOCK FALSE
