CONSTANTS
  f1 = f1
  f2 = f2
  Places <- TwoPlaces
  Versions <- TwoVersions
  FirstDisks <- AnyBesideOld
  Budget <- Everything
SPECIFICATION FairSpec
INVARIANT FolderSafe
PROPERTY LinksLeftAlone
PROPERTY Settles
