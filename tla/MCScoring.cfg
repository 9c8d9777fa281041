CONSTANTS
  Confidence <- MCConfidence
  PACKAGE_LEVEL_TYPES <- MCPackageLevel
  HIGH_CONFIDENCE_MALICE_TYPES <- MCHighConfidence
  PYPI_IMPORT_TIME_RCE_TYPES = {}
  Vendored = {}
  Deep <- MCDeep
  Files <- MCFiles
  Packages <- MCPackages
  Graphs <- MCGraphs
  Scopes <- MCScopes
  Profiles <- MCProfiles
  Histories <- MCHistories
  Intents <- MCIntents
  CapSets <- MCCapSets
  Bundled <- MCBundled
  Linked <- MCLinked
  CountRules <- MCCountRules
  Soften <- MCSoften
  Expected <- MCExpected
  Compounds <- MCCompounds
  LoaderMax = 4
  DIST_EXEMPT_TYPES <- MCDistExempt
  DIST_BUNDLER_ARTIFACT_TYPES <- MCDistArtifacts
  VETO_TYPES <- MCVeto
  REACHABILITY_EXEMPT_TYPES <- MCReachExempt
  EXFIL_SINK_TYPES <- MCSinks
  LIFECYCLE_GUARD_TYPES <- MCGuard
  DELTA_IOC_EXEMPT <- MCIocs
  STRING_IOC_CORROBORATION_TYPES <- MCCorroboration
  MATURE_CAP_IOC_TYPES <- MCIocs
  SINGLE_FIRE_CRITICAL_TYPES <- MCSingleFire
SPECIFICATION Spec
INVARIANTS
  TypeOK
  CompoundsSurviveReductions
  Undiluted
  DecisiveNotBuried
PROPERTIES
  BoostsNeverLower
