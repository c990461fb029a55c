---------------------------- MODULE ParsedQuery ----------------------------
(***************************************************************************)
(* What one call of the parser promises its caller (spec 1 and 6: the SQL *)
(* parser is an input boundary that turns a statement into a Query AST).  *)
(* A request hands the parser one SQL string; the parse ends, and then the *)
(* Query holds the string's last command (the grammar accepts a list of    *)
(* commands, and each command overwrites the Query), or, when the string   *)
(* has a syntax error or no command, the error flag and nothing else.      *)
(***************************************************************************)
EXTENDS SqlText

CONSTANT Inputs   \* the SQL strings a request may carry

VARIABLES
    input,   \* the SQL string of the current request
    query,   \* the Query the caller reads once the parse has ended
    done     \* the parse of the current request has ended

vars == <<input, query, done>>

Init ==
    /\ input \in Inputs
    /\ query = ErrorQuery
    /\ done = FALSE

(* The parse of the whole string, as one step.                           *)
Parse ==
    /\ ~done
    /\ query' = Meaning(input)
    /\ done' = TRUE
    /\ UNCHANGED input

(* The caller drops the Query and sends the next string.                 *)
Request ==
    /\ done
    /\ input' \in Inputs
    /\ query' = ErrorQuery
    /\ done' = FALSE

Next == Parse \/ Request

(* A parse, once begun, ends; the caller need not send another request.  *)
Spec == Init /\ [][Next]_vars /\ WF_vars(Parse)
=============================================================================
