SPECIFICATION Spec
CONSTANTS
  Graphs <- Graphs5
  Signatures <- Signatures5
  Importers <- AnyImporter
  Address <- TemporaryAddresses
INVARIANT MutationsReachTheirTargets
