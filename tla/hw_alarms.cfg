SPECIFICATION Spec
CONSTANTS
  WordMod <- Word
  Readings <- NearLimits
INVARIANTS
  TypeOK
  AlarmsAreTrue
  AlarmsAreMeasured
  AlarmsAreRaised
