\* The hierarchy of MCInclusiveHierarchy.cfg, against what cache.hh:105 says.
CONSTANTS
  Caches <- MC_Caches
  num_sets <- MC_num_sets
  assoc <- MC_assoc
  Blocks = {0, 1, 2, 4}

VIEW View

SPECIFICATION Spec

PROPERTY NoLostModification
