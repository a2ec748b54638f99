SPECIFICATION FairSpec
CONSTANTS
    Width = 2
    Height = 5
    Scenes <- MCScenes
    MaxFalling = 2
    MaxPerFrame = 6
    TreeRadius = 1
    LeafRadius = 1
INVARIANTS
    UnsupportedIsQueued
    TreesAreHeld
    NothingLost
PROPERTIES
    EventuallySettles
