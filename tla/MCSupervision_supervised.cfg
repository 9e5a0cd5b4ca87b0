SPECIFICATION FairSpec
CONSTANTS
  button = button
  key = key
  Keys = {button, key}
  Buttons = {button}
  Slots = {s1, s2}
  NoSlot = NoSlot
  Versions = {0, 1}
  CatalogKeys <- MCCatalogKeys
  MaxCrashes = 1
INVARIANTS
  TypeOK
  HandedBackClean
  HeldKeysGuarded
  NoAgentLeftBehind
PROPERTIES
  OrphanStops
