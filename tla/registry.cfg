SPECIFICATION MCSpec
CONSTANTS
  k1 = k1  k2 = k2  m1 = m1  m2 = m2  p1 = p1  p2 = p2  rd = rd
  plain = plain  pooled = pooled
  Clients = {k1, k2}
  RegModels = {m1, m2}
  RegProviders = {p1, p2}
  NoProvider = NoProvider
  Lists <- SomeLists
  Window = 1
  LastTime = 3
  Readers = {rd}
  Kinds = {plain, pooled}
  ProviderOf <- ByKind
  Catalogs <- TwoCatalogs
  Nobody = Nobody
CONSTRAINT OneModelMarked
SYMMETRY Interchangeable
INVARIANTS CountsAgree FreshList StaleOnlyIfOutrun
