SPECIFICATION FairUpdaterSpec
CONSTANTS
  twitter = twitter
  reddit = reddit
  Platforms = {twitter, reddit}
  BatchSize = 3
  MaxActivities = 5
  NoPlatform = NoPlatform
INVARIANTS
  NothingLost
PROPERTIES
  ImplementsIngestion
  StopSettles
CHECK_DEADLOCK FALSE
