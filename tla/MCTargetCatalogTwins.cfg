CONSTANTS
  Devices = {1, 2}
  Present = {1}
  Model <- Makes
  Version <- Versions
  Flaky = {}
  PageLoads = {r1, r2}
  ClientLoads = {r2}
  MaxEvents = 1
  None = None
  AdbError = AdbError
SPECIFICATION Spec
INVARIANTS
  OneSessionPerDevice
