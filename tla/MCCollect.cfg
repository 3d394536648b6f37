SPECIFICATION Spec
CONSTANTS
    Worlds <- MCWorlds
    Setups <- MCSetups
    MaxDeaths = 1
PROPERTY RolloutsSpec
