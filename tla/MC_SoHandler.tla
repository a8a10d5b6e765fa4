---------------------------- MODULE MC_SoHandler ----------------------------
(***************************************************************************)
(* Model-checking instance of SoHandler.                                   *)
(***************************************************************************)
EXTENDS SoHandler

\* Keys and values over {0, 1}: <<1>>, <<0, 1>> and <<1, 0, 1>> all land in
\* slot <<0, 1>> (zero padding and truncation to the last two bytes).
MC_Inputs == {<<>>, <<1>>, <<0, 1>>, <<1, 0, 1>>}

MC_Functions == {"queryPersonInfo", "savePersonInfo", "other"}

\* Two blocks: the key <<1>> is empty at block 0 and set at block 1.
MC_Chain == << [h \in [1 .. 2 -> {0, 1}] |-> <<>>],
               [h \in [1 .. 2 -> {0, 1}] |-> IF h = <<0, 1>> THEN <<1>> ELSE <<>>] >>
=============================================================================
