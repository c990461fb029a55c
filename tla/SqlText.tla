------------------------------ MODULE SqlText ------------------------------
(***************************************************************************)
(* The SQL text the modelled grammar accepts, as data: literals, column   *)
(* definitions, commands and whole strings, and what a string means as a  *)
(* Query (spec 1 and 6).  A string is given by its commands and by the     *)
(* place of the first token the grammar rejects: stop is the number of     *)
(* grammar reductions done before it, or NoError.                          *)
(***************************************************************************)
EXTENDS Integers, Sequences

CONSTANTS
    Tables,     \* table names
    Columns,    \* column names
    NoName,     \* the absent name (a null char *)
    NullText    \* the text "NULL" a NULL literal's value holds

NoError == -1

LitToks == {"NUMBER", "MINUS_NUMBER", "FLOAT", "MINUS_FLOAT", "NULL_T"}
Lit == [tok : LitToks, n : Nat]
TypeToks == {"INT_T", "STRING_T", "FLOAT_T", "DATE_T", "TEXT_T"}
OptNull == {"none", "NOT_NULL", "NULLABLE"}
AttrDef == [name : Columns, type : TypeToks, len : Nat, null : OptNull]
FlagCmds == {"SCF_EXIT", "SCF_HELP", "SCF_SYNC", "SCF_BEGIN", "SCF_COMMIT",
             "SCF_ROLLBACK", "SCF_SHOW_TABLES"}

(* The commands of the modelled grammar: INSERT with one or more row      *)
(* groups, CREATE TABLE with column definitions (len 0: no length given), *)
(* the commands that only set the flag, DROP TABLE and DESC.              *)
Cmd == [cmd : {"insert"}, table : Tables, rows : Seq(Seq(Lit))]
       \cup [cmd : {"create_table"}, table : Tables, attrs : Seq(AttrDef)]
       \cup [cmd : {"flag"}, flag : FlagCmds]
       \cup [cmd : {"drop_table", "desc_table"}, table : Tables]

Input == [cmds : Seq(Cmd), stop : Int]

(* The grammar reductions with an action a command takes: ID_get, a value *)
(* rule per literal and the end of each row group, and the insert rule;    *)
(* ID_get and attr_def per column definition, and the create_table rule.   *)
Reductions(c) ==
    CASE c.cmd = "insert" ->
           LET R[g \in 0 .. Len(c.rows)] ==
                 IF g = 0 THEN 0 ELSE R[g - 1] + Len(c.rows[g]) + 1
           IN R[Len(c.rows)] + 2
      [] c.cmd = "create_table" -> 2 * Len(c.attrs) + 1
      [] OTHER -> 1

TotalReductions(cs) ==
    LET T[k \in 0 .. Len(cs)] == IF k = 0 THEN 0 ELSE T[k - 1] + Reductions(cs[k])
    IN T[Len(cs)]

---------------------------------------------------------------------------
(* The meaning of the SQL text, independent of how the parser builds it. *)
(* A literal denotes its signed number, or NULL.                          *)
LitValue(l) ==
    CASE l.tok = "NUMBER"       -> [type |-> "INTS", data |-> l.n, is_null |-> FALSE]
      [] l.tok = "MINUS_NUMBER" -> [type |-> "INTS", data |-> -l.n, is_null |-> FALSE]
      [] l.tok = "FLOAT"        -> [type |-> "FLOATS", data |-> l.n, is_null |-> FALSE]
      [] l.tok = "MINUS_FLOAT"  -> [type |-> "FLOATS", data |-> -l.n, is_null |-> FALSE]
      [] l.tok = "NULL_T"       -> [type |-> "NULLS", data |-> NullText, is_null |-> TRUE]

ColumnType(t) ==
    CASE t = "INT_T" -> "INTS" [] t = "STRING_T" -> "CHARS" [] t = "FLOAT_T" -> "FLOATS"
      [] t = "DATE_T" -> "DATES" [] t = "TEXT_T" -> "TEXTS"

(* A column is nullable exactly when NULLABLE is written (spec 8, case 1); *)
(* a column without a length has the 4 bytes of an int or a date.         *)
ColumnOf(a) ==
    [name |-> a.name, type |-> ColumnType(a.type),
     length |-> IF a.len = 0 THEN 4 ELSE a.len,
     is_nullable |-> IF a.null = "NULLABLE" THEN 1 ELSE 0]

FlagOf(c) ==
    CASE c.cmd = "insert" -> "SCF_INSERT" [] c.cmd = "create_table" -> "SCF_CREATE_TABLE"
      [] c.cmd = "drop_table" -> "SCF_DROP_TABLE" [] c.cmd = "desc_table" -> "SCF_DESC_TABLE"
      [] c.cmd = "flag" -> c.flag

QueryOf(c) ==
    [flag  |-> FlagOf(c),
     table |-> IF c.cmd = "flag" THEN NoName ELSE c.table,
     rows  |-> IF c.cmd = "insert"
                 THEN [g \in DOMAIN c.rows |-> [k \in DOMAIN c.rows[g] |-> LitValue(c.rows[g][k])]]
                 ELSE <<>>,
     attrs |-> IF c.cmd = "create_table"
                 THEN [k \in DOMAIN c.attrs |-> ColumnOf(c.attrs[k])]
                 ELSE <<>>]

ErrorQuery == [flag |-> "SCF_ERROR", table |-> NoName, rows |-> <<>>, attrs |-> <<>>]

Meaning(in) ==
    IF in.stop # NoError \/ in.cmds = <<>> THEN ErrorQuery
    ELSE QueryOf(in.cmds[Len(in.cmds)])

=============================================================================
