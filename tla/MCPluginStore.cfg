CONSTANTS
  w1 = w1  w2 = w2  l1 = l1  a = a  b = b  g = g  p = p
  Writer = {w1, w2}
  Lister = {l1}
  Name = {a, b}
  Git = {g}
  Path = {p}
  Manifest <- MCManifest
  Slug <- MCSlug
  NoName = NoName  NoDir = NoDir  NoSource = NoSource  Nobody = Nobody
  Absent = Absent  Broken = Broken
  MaxHead = 1
  MaxBegins = 3
  MaxLists = 1
SPECIFICATION Spec
SYMMETRY Symmetry
CHECK_DEADLOCK FALSE
INVARIANT ListsWhatIsInstalled
PROPERTIES ImplementsRegistry RefusedChangesNothing RemoveFrees
