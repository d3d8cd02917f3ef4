SPECIFICATION Spec
PROPERTY ModesAreLive
CONSTANTS
  c1 = c1
  x1 = x1
  Cams = {c1}
  Callers = {x1}
  Kinds = {"refresh"}
  Others = TRUE
  Gaps = FALSE
  Relist = FALSE
  MaxWire = 2
