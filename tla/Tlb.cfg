SPECIFICATION LibSpec
CONSTANTS
  Envs = {e1, e2}
  CPUs = {c1, c2}
  Pages = {p1, p2, p3, p4, p5}
  Tables = {t1}
  Slots = {s1, s2}
  RefMod = 16
  NULL = NULL
SYMMETRY Symmetry
INVARIANTS
  RefCountsExact
  FreePagesExact
  TablesPrivate
  TlbCoherent
PROPERTIES
  ReadOnlyStays
