------------------------------- MODULE MCWall -------------------------------
(***************************************************************************)
(* A wall of 36 tiles with 12 dealt and 2, 3 or 5 wangpai stacks.  It is    *)
(* long enough for back draws to come down past the indicator and the       *)
(* haitei tile into the live wall and meet the front there.                 *)
(***************************************************************************)
EXTENDS Wall

MCDiceSums == {2, 3, 5}

(* The haitei tile can be offered again after it was drawn, without end;    *)
(* this bounds how often.                                                   *)
MaxRedraws == 2
RedrawsBounded ==
    dispensed # {} => /\ wallCount >= WallLen - 1 - Cardinality(dispensed) - MaxRedraws
                      /\ wallCount <= WallLen    \* WallCount has not wrapped around
=============================================================================
