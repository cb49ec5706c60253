CONSTANTS
  a = a
  b = b
  r = r
  Tasks = {a, b}
  Routes = {r}
  RouteOf <- OneRoute
  MaxEpochs = 2
  MaxCrashes = 1
  MaxDisturbances = 1
SPECIFICATION Spec
SYMMETRY Alike
CHECK_DEADLOCK FALSE
INVARIANT FrontierSound
 
