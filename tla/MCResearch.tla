------------------------------ MODULE MCResearch ------------------------------
(* The bars of Research that a configuration cannot write.                 *)
EXTENDS Research

(* Quiet, with a roll above and below the threshold, and back.             *)
Shape(o, h, l, c, p) == [open |-> o, high |-> h, low |-> l, close |-> c, pause |-> p]
MCBarShapes ==
    {Shape(10, 10, 10, 10, FALSE), Shape(12, 13, 8, 12, TRUE),
     Shape(16, 16, 16, 16, TRUE), Shape(10, 14, 9, 11, FALSE),
     Shape(8, 9, 8, 8, TRUE), Shape(13, 13, 12, 12, FALSE)}
===============================================================================
