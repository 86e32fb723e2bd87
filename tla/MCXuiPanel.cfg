SPECIFICATION PanelSpec
CONSTANTS
  r1 = r1
  r2 = r2
  Inbounds = {1, 2}
  Clients = {1, 2}
  Passworded = {2}
  InboundOf <- InbOne
  Workers <- Two
  Limits <- MCSafe
PROPERTIES LoneSyncMirrors LoneChangeTakesEffect
SYMMETRY SymWorkers
CHECK_DEADLOCK FALSE
