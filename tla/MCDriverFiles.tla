--------------------------- MODULE MCDriverFiles ---------------------------
(* Three variables: the record axis, a fixed axis and a field over both,   *)
(* also with Fortran strides, and of a lower rank.                         *)
EXTENDS DriverFiles

C(ext) == [ext |-> ext, str |-> [d \in DOMAIN ext |-> 0]]

MCVars == {"time", "lon", "t2m"}
MCLayouts ==
  [v \in MCVars |->
     CASE v = "time" -> {C(<<1>>)}
       [] v = "lon"  -> {C(<<3>>)}
       [] v = "t2m"  -> {C(<<1, 3>>), C(<<2, 3>>), C(<<2>>),
                       [ext |-> <<2, 3>>, str |-> <<1, 2>>]}]
MCArrayShapes == {<<3>>, <<1, 3>>, <<2, 1>>}
MCChunkShapes == {<<2>>, <<1, 2>>, <<0, 2>>, <<1, 3>>}
MCShardShapes == {<<2>>, <<1, 4>>, <<1, 3>>}
MCMarks == [v \in MCVars |-> CASE v = "lon" -> {"X"} [] OTHER -> {"T"}]
=============================================================================
