----------------------- MODULE MCRandomOrderGenerator -----------------------
(***************************************************************************)
(* The generator with Tick, MinPrice and MaxOffset divided by ten and a    *)
(* start that is a few offsets above the minimum, so that the walk is      *)
(* followed from every price down to the floor.                            *)
(***************************************************************************)
EXTENDS RandomOrderGenerator

WideModel == 100 .. 200
=============================================================================
