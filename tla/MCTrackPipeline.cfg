SPECIFICATION FairPipelineSpec
INVARIANTS
  StagingOutlivesBranches
  OmissionsAreReported
PROPERTY
  PipelineEnds
CHECK_DEADLOCK FALSE
