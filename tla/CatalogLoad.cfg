\* Two files of up to two records, each edited at any time.
CONSTANTS
  Properties <- MCProperties
  Coherent <- MCCoherent
  Absent = Absent
  MaxEntries = 3
  NFiles = 2
  Names <- MCNames
  Texts <- MCTexts
  Bundles <- MCBundles
  Ids <- MCIds
SPECIFICATION Spec
INVARIANTS
  TypeOK
  NoContradiction
  LookupsAreExact
  NothingLost
  NamesDoNotMatter
  CoherentIsConservative
