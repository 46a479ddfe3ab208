SPECIFICATION MCSpec
CONSTANTS
 Magnets = {m1, m2}
 Lengths = {0, 2}
 Positions = {0, 2, 4}
 MaxQueue = 2
 MaxMarks = 3
 MaxFaults = 1
 MaxPlays = 3
 None = None
 Files = {f1, f2}
 Home <- OwnFolder
 MaxChanges = 2
 MaxErrors = 1
 Requests = {c1, d1}
 Console = {c1}
 Values = {k1, k2}
 MaxSaves = 2
 MaxTroubles = 1
SYMMETRY Alike
CONSTRAINT Few
INVARIANTS NotParkedAtEnd NextIsOffered MarkStands FilesAreListed SavedIsUsed
PROPERTY ResumesWhereLeft
