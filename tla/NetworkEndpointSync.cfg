SPECIFICATION FairSpec
CONSTANTS
  Envs = {e1, e2}
  Containers = {c1, c2}
  Names = {n1, n2}
  Ports = {p1}
  None = None
INVARIANTS TypeOK
PROPERTIES NamesServed DoubledByNamesakesOnly SnapshotIsOneStep CatalogueSettles NameRegained
