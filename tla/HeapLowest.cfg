SPECIFICATION Spec
CONSTANTS
  Values = {1, 2}
  size = 2
  Top = 3
  SIZE_MAX = 255
  Garbage = {0, 9}
  Least = 1
INVARIANT DequeuesLowest
