SPECIFICATION NodeSpec
CONSTANTS
  Entries = {0, 1, 2, 3, 4, 5}
  NumOf = 5
  MaxSensors = 3
  QueueSize = 4
  RegistryMax = 255
  TypeBase = 3072
  None = None
INVARIANTS
  NodeTypeOK
  BootReports
  RoutedToSender
  OneTokenPerEntry
  NothingLost
  RegisteredIsScheduled
PROPERTIES
  TimeoutsAreHandled
  EverySensorReports
  ImplementsPeriodicTasks
