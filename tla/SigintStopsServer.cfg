SPECIFICATION LifeSpec
CONSTANTS
  MaxItems = 3
  MaxClients = 2
PROPERTIES
  SigintStopsServer
