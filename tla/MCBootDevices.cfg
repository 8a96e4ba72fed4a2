SPECIFICATION Spec
CONSTANTS
  MAX_DEVICES = 3
  Found = {{0}, {0, 1}}
  Packages <- SmallPackages
  FIRST_DEVICE = 4
  FIRST_MODULE = 6
  MAX_CAPS = 8
  MAX_OBJECT_PAGES = 2
  FreeFrames = {2, 6}
  Metadata = 20
INVARIANT DevicesHanded
CHECK_DEADLOCK FALSE
