-------------------------- MODULE MCUploadSession --------------------------
(***************************************************************************)
(* TLC instance of UploadSession. Two requests under way are enough for    *)
(* one to wait for the other, to arrive again behind it and to find the    *)
(* map as the first left it; a file of three units takes a whole chunk, a  *)
(* part of one and a repeated one.                                         *)
(***************************************************************************)
EXTENDS UploadSession

CONSTANTS r1, r2      \* requests
=============================================================================
