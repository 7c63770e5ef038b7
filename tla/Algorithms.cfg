CONSTANTS
  Speeds = {1, 2, 3, 4, 5, 6}
  Repeats = {0, 1, 2, 3, 44}
  Sensors = {0, 1, 2, 3}
  Distances = {0, 1, 7, 65534, 65535, 65536}
  Readings <- Edges
  Numbers = {0, 3}
SPECIFICATION Spec
INVARIANTS ServoRoundTrip FileWellFormed FramePlayable FileTime NearestDistance ColoursRecompose SwarmRoundTrip SwarmKindsApart
