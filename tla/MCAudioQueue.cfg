SPECIFICATION Spec
CONSTANTS
  Frames = {s, f}
  Silence = s
  Capacity = 3
  MaxBlock = 4
PROPERTIES
  ImplementsFifo
