--------------------------------- MODULE MCVga ---------------------------------
(* A screen of nine by nine pixels, and four corners for triangles.        *)
EXTENDS Vga

MCCorners == {<<0, 0>>, <<5, 1>>, <<2, 6>>, <<7, 7>>}
=============================================================================
