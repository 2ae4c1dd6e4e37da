SPECIFICATION Spec
CONSTANTS
  Null = Null
  Frames = {f, g}
  Objs = {x, y}
CHECK_DEADLOCK FALSE
INVARIANT NotifierSharesFrame
