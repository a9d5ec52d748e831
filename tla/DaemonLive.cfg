SPECIFICATION FairSpec
CONSTANTS
  p1 = p1
  p2 = p2
  w1 = w1
  w2 = w2
  Shells <- TwoShells
  Parent = p1
  Watchers <- OneWatcher
  Pane = w1
  PtyCapacity = 1
  Multiplexers <- Herdr
  Faults <- NoFault
  Messages <- FromShells
  Earlier <- NoFiles
  Slow = TRUE
  Background = FALSE
PROPERTIES
  StopEnds
  Told
  AbandonedEnds
  QuietPaneOpens
