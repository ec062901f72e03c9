------------------------------ MODULE MCSrcLoc ------------------------------
(***************************************************************************)
(* SrcLoc for TLC: locations whose differences are the smallest and the    *)
(* largest that fit, and one more, in lines, columns and both.             *)
(***************************************************************************)
EXTENDS SrcLoc

At(line, col) == [line |-> line, col |-> col, file_id |-> 0]

MCLocations ==
    {At(1, 1), At(1, 64), At(1, 65), At(1, 66), At(64, 1), At(65, 1), At(66, 1),
     At(65, 66), At(66, 65), [line |-> 65535, col |-> 300, file_id |-> 1]}
=============================================================================
