SPECIFICATION Spec
CONSTANTS
  t1 = t1
  t2 = t2
  Requests = {r1, r2}
  Agencies = {a1}
  NoAgency = NoAgency
  Titles = {t1, t2}
  SlugOf <- TitleSlugs
  MaxArticles = 2
  MaxVersions = 3
  MaxCalls = 6
SYMMETRY Symmetry
CHECK_DEADLOCK FALSE
INVARIANTS
  ArticlesAreSound
PROPERTIES
  ShownNeverGoesBack
