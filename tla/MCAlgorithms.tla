---------------------------- MODULE MCAlgorithms ----------------------------
(***************************************************************************)
(* The pure algorithms of the repository on bounded inputs.                *)
(***************************************************************************)
EXTENDS MCValues, MCArithmetic, MCCurve, MCHash

Init == probe = Start
Next ==
    \/ TryArgs \/ TryTree \/ TryCopy \/ TryBind \/ TrySettings \/ TryBase64 \/ TryScript
    \/ TryField \/ TryScalar \/ TryCurve \/ TrySigning \/ TryHash \/ Digest
Spec == Init /\ [][Next]_probe

\* What signatures are built from is exact: the field, the scalars, the hash
\* (fe.c, sc.c, sha512.c).
PrimitivesExact == FieldExact /\ ScalarsExact /\ HashExact
=============================================================================
