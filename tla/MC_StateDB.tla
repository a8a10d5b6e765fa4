----------------------------- MODULE MC_StateDB -----------------------------
(***************************************************************************)
(* Model-checking instance of StateDB: definitions substituted for the    *)
(* constants that are not plain model values.                              *)
(***************************************************************************)
EXTENDS StateDB

\* The root may hold, per address: nothing, an empty account (written when
\* empty accounts were kept) or a funded one.
MC_InitRecords == {Nil, EmptyAccount, [EmptyAccount EXCEPT !.balance = 1]}

\* The same, plus a record that does not decode.
MC_InitRecordsCorrupt == MC_InitRecords \cup {Corrupt}

MC_Symmetry == Permutations(Addrs)

=============================================================================
