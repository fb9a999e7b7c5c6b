SPECIFICATION Spec
CONSTANTS
  Settings <- MCSettings
  Buckets <- MCBuckets
  Percents = {50, 95}
INVARIANTS ReplaysAgree OnlyMeasured HeadlineEarned BucketHolds
CHECK_DEADLOCK FALSE
