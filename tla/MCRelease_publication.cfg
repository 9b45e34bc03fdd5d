\* Two versions that compete for latest, two packages, builds that differ from
\* one rerun to the next.
SPECIFICATION FairSpec
CONSTANTS
  Versions = {1, 2}
  Stable = {1, 2}
  Main = 2
  Files <- SomeFiles
  Builds <- TwoBuilds
  NoFile = "no file"
  NoBuild = NoBuild
INVARIANTS
  TypeOK
  MainIsLast
  OneBuildPerVersion
PROPERTIES
  LatestNeverGoesBack
  PublicationFinishes
CHECK_DEADLOCK FALSE
