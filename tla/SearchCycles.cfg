SPECIFICATION Spec
CONSTANTS
  Module = {"a", "b", "c"}
  Ident = {"x", "y"}
  Programs <- SmallGraphs
INVARIANT
  EarlierLookupsDoNotMatter
