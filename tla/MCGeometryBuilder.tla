-------------------------- MODULE MCGeometryBuilder -------------------------
(* GeometryBuilder for TLC: every shape, with up to five rows and columns. *)
EXTENDS GeometryBuilder

MCShapes == Tables \cup Rings \cup Grids

MCSizes == 1 .. 5

=============================================================================
