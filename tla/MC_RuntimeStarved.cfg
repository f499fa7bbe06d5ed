SPECIFICATION Spec
CONSTANTS
  Order <- MCOrder
  Starve = 1
  MaxAge = 1
  Down = 2
  Grace = 1
  Sustain = 1
  Clear = 1
PROPERTIES StarvationFreezes
