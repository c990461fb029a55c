------------------------------ MODULE MCTable ------------------------------
(* Small instances of Table for TLC.                                       *)
EXTENDS Table, TLC

CONSTANTS a, b, i1, NullV, NoRecordV, NoCondV

(* Two columns: a NOT NULL, b NULLABLE.  Literal 2 fits a but is of the   *)
(* wrong type (or too long) for b.                                         *)
MCFields == {a, b}
MCNullable == {b}
MCVals == {1, 2}
MCLegal == a :> {1, 2} @@ b :> {1}
MCTrx == {1, 2}
(* One transaction: CREATE INDEX then sees every record but its own pending deletes. *)
MCOneTrx == {1}
(* The rows INSERT delivers: legal ones, one with NULL, one illegal.       *)
MCInsertRows == {a :> 1 @@ b :> 1, a :> 2 @@ b :> NullV, a :> 1 @@ b :> 2}
MCUpdateVals == {2, NullV}
(* An index may be named i1 or, like the column, a.                        *)
MCIndexNames == {a, i1}
(* UPDATE disabled, to isolate the other statements. *)
MCNoUpdateVals == {}
(* UPDATE with a value legal for a only. *)
MCLegalUpdateVals == {2}
=============================================================================
