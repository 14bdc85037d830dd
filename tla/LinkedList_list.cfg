\* Two lists, so that concatenations may cross; three items (one of them twice,
\* by ModifyItem), so that a list has a middle; a cache of one link, so that
\* links are reused and deleted.
CONSTANTS
  Lists = {A, B}
  Items = {i1, i2}
  Links = {k1, k2, k3, k4, k5}
  CacheSize = 1
  MaxItems = 3
  Clients = {t1, t2}
  Null = Null
  NoOne = NoOne
SPECIFICATION ListSpec
INVARIANTS WellLinked TraversalVisitsAll CallsGoOn
PROPERTIES ItemListsSpec
\* Concatenations that cross stop for ever.
CHECK_DEADLOCK FALSE
