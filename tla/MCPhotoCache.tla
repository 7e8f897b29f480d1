---------------------------- MODULE MCPhotoCache ----------------------------
(***************************************************************************)
(* Small instance of PhotoCache: images so large that two fill the cache   *)
(* and so small that four fill the slots, more names than slots, and a     *)
(* session counter that wraps.  A fifth upload is beyond the bound on      *)
(* uses: RoomForEveryPhoto looks at the slot it would take.                *)
(***************************************************************************)
EXTENDS PhotoCache, TLC

MCSizes == {1, 3}
MCSymmetry == Permutations(Keys)
=============================================================================
