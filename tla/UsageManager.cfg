SPECIFICATION Spec
CONSTANTS
  p1 = p1
  p2 = p2
  queuePlugin = queuePlugin
  logPlugin = logPlugin
  NoRecord = NoRecord
  Publishers = {p1, p2}
  InitialPlugins <- MCInitialPlugins
  LatePlugins = {logPlugin}
  MaxRecords = 3
INVARIANTS PluginSeesEach
PROPERTIES ImplementsDelivery StopEndsDispatcher
CHECK_DEADLOCK FALSE
