CONSTANTS
  Devices = {1, 2}
  Present = {1}
  Model <- Makes
  Version <- Versions
  Flaky = {1, 2}
  PageLoads = {r1, r2}
  ClientLoads = {r2}
  MaxEvents = 2
  None = None
  AdbError = AdbError
SPECIFICATION Spec
INVARIANTS
  OneSessionUnlessRivalled
PROPERTIES
  ViewsCatchUp
