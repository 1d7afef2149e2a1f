SPECIFICATION Spec
CONSTANTS
  Admin = "admin"
  People <- MCPeople
  VirtualUsers <- MCVirtualUsers
  Tables <- MCTables
  Scenarios <- MCScenarios
INVARIANTS TypeOK SimulatorPasses BanIsReported   
PROPERTY ClientsGetOn
CHECK_DEADLOCK FALSE
