SPECIFICATION Spec
CONSTANTS
  dispatcher = dispatcher
  reader = reader
  forwarder = forwarder
  toggle1 = toggle1
  toggle2 = toggle2
  s1 = s1
  Dispatcher = dispatcher
  Poppers = {reader}
  Forwarders = {forwarder}
  Toggles = {toggle1, toggle2}
  Subscriptions = {s1}
  Buffer = 2
  BatchSize = 2
  Retention = 1
  CompactHead = 2
  MaxPayloads = 4
  MaxUnconfirmed = 1
  MaxTime = 3
  Scenarios <- Both
CONSTRAINT Within
INVARIANTS RepeatedOnlyUnconfirmed ChannelsSafe OffHoldsLittle
PROPERTIES ImplementsFifo
CHECK_DEADLOCK FALSE
