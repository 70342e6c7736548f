\* Two nodes register at the same time, with two faults: both attempts of a node may fail.
CONSTANTS
  Node = {n0, n1}
  Attempts = 2
  MaxFault = 2
SPECIFICATION Spec
INVARIANTS TopoComplete NoUpdateForgotten
PROPERTIES MapsConverge
\* Everything ends when all the nodes are registered.
CHECK_DEADLOCK FALSE
