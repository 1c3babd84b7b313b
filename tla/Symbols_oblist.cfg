\* Two buckets; gensym gives up after two names.
SPECIFICATION SymbolsSpec
CONSTANTS
  Names <- MCNames
  strlwr <- MCStrlwr
  Keywords = {"if"}
  gensym_name <- MCGensymName
  LongMax = 2
  Buckets = {0, 1}
  HashFns <- MCHashFns
  Values = {u, v}
  MaxGlobals = 3
PROPERTY OblistOfSymbols
