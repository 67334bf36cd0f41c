SPECIFICATION LiveSpec
CONSTANTS
  Texts = {1, 2}
  StartLimit = 2
  MaxReleases = 2
  MaxEdits = 3
  MaxBoots = 2
  MaxScripts = 3
  MaxLength = 6
  Absent = Absent
INVARIANT PartsInOrder
PROPERTY RewritesKeepText
PROPERTY AddendumIsRefreshed
