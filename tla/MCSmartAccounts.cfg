SPECIFICATION Spec
CONSTANTS
  Runs <- TwoRuns
  Assets <- StarterAssets
  Kinds <- StarterKinds
  Events <- StarterEvents
  Routes <- StarterRoutes
  Programs <- StarterPrograms
  Scenarios <- StarterScenarios
  Types <- StarterTypes
  Phases <- StarterPhases
  MaxFaults = 1
  MaxRivals = 1
INVARIANTS
  ConfirmationsAreTrue
  RecoveredIsMinted
  PaysOutWhatWasBridged
PROPERTY RecoveryFinishes
CHECK_DEADLOCK FALSE
