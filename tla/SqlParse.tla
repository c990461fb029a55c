------------------------------ MODULE SqlParse ------------------------------
(***************************************************************************)
(* One call of sql_parse (yacc_sql.tab.c) on a SQL string and the Query it *)
(* fills in through the helpers of parse.cpp, step by step: every grammar  *)
(* reduction whose action changes the ParserContext or the Query is an     *)
(* action, with the action's code as its effect; the shifts of tokens and  *)
(* the reductions without an action change nothing and are not steps.     *)
(*                                                                         *)
(* State: the ParserContext (ctx), the Query (ssql: flag and the members  *)
(* of the sstr union the modelled commands write), the parser's place in   *)
(* the string (pos, steps) and whether yyparse has returned (done).       *)
(* A string is its commands and the place of its first bad token (see     *)
(* ParsedQuery).  Inside a command, pos.i and pos.j count progress: for an *)
(* INSERT, i = 0 before ID_get, then i is the current row group and j the *)
(* values of it reduced so far; for a CREATE TABLE, i is the column       *)
(* definitions done and j = 1 once the current one's ID_get is reduced.   *)
(*                                                                         *)
(* Abstractions: names are model values (snprintf into ctx.id does not    *)
(* truncate them); strdup'd copies are the names themselves and the heap   *)
(* is not modelled; a value's data is its number.  The members of the      *)
(* sstr union are kept apart, so a string writes at most one of them.     *)
(***************************************************************************)
EXTENDS SqlText

CONSTANTS
    MaxNum,     \* MAX_NUM, the length of the context's and the Query's arrays
    Inputs      \* the SQL strings a request may carry

Slots == 0 .. MaxNum - 1

Member(c) ==
    CASE c.cmd = "insert" -> {"insertion"} [] c.cmd = "create_table" -> {"create_table"}
      [] c.cmd = "drop_table" -> {"drop_table"} [] c.cmd = "desc_table" -> {"desc_table"}
      [] c.cmd = "flag" -> {}

(* The strings of a request, as the grammar accepts them: an INSERT has    *)
(* one or more row groups of one or more values, a CREATE TABLE one or     *)
(* more column definitions; the string writes one member of the sstr union *)
(* (the model keeps the members apart); the bad token, if any, comes       *)
(* before the end of the string's reductions or right after them.  The    *)
(* grammar puts no bound on the number of groups, values or columns.      *)
ASSUME InputsAssumption ==
    /\ MaxNum \in Nat \ {0}
    /\ Inputs \subseteq Input
    /\ \A in \in Inputs :
         /\ in.stop \in {NoError} \cup 0 .. TotalReductions(in.cmds)
         /\ \A k \in DOMAIN in.cmds :
              LET c == in.cmds[k] IN
              /\ c.cmd = "insert" =>
                   /\ Len(c.rows) >= 1
                   /\ \A g \in DOMAIN c.rows : Len(c.rows[g]) >= 1
              /\ c.cmd = "create_table" => Len(c.attrs) >= 1
         /\ \A k, l \in DOMAIN in.cmds :
              \/ Member(in.cmds[k]) = {} \/ Member(in.cmds[l]) = {}
              \/ Member(in.cmds[k]) = Member(in.cmds[l])

(* The strings whose commands fit the MAX_NUM arrays one by one: fewer row *)
(* groups than MAX_NUM (the insert rule's last inserts_init call writes    *)
(* value_num[group count]), at most MAX_NUM values per group (the value   *)
(* rules write values[value_length++]), at most MAX_NUM column            *)
(* definitions (attributes[attribute_count++]).                           *)
FitsArrays ==
    \A in \in Inputs : \A k \in DOMAIN in.cmds :
        LET c == in.cmds[k] IN
        /\ c.cmd = "insert" =>
             /\ Len(c.rows) < MaxNum
             /\ \A g \in DOMAIN c.rows : Len(c.rows[g]) <= MaxNum
        /\ c.cmd = "create_table" => Len(c.attrs) <= MaxNum

(* At most one CREATE TABLE per string: a second one in the same string   *)
(* appends after the first one's columns (create_table_append_attribute), *)
(* and with enough columns past the attributes array.                     *)
OneCreate ==
    \A in \in Inputs : \A k, l \in DOMAIN in.cmds :
        in.cmds[k].cmd = "create_table" /\ in.cmds[l].cmd = "create_table" => k = l

---------------------------------------------------------------------------
(* memset(0): a zero Value (type UNDEFINED) and a zero AttrInfo.          *)
ZeroValue == [type |-> "UNDEFINED", data |-> 0, is_null |-> FALSE]
ZeroAttr == [name |-> NoName, type |-> "UNDEFINED", length |-> 0, is_nullable |-> 0]

(* query_init: flag SCF_ERROR and the sstr union zeroed.                  *)
query_init ==
    [flag         |-> "SCF_ERROR",
     insertion    |-> [relation_name |-> NoName,
                       values        |-> [g \in Slots |-> [k \in Slots |-> ZeroValue]],
                       value_num     |-> [g \in Slots |-> 0],
                       group_num     |-> 0],
     create_table |-> [relation_name   |-> NoName,
                       attributes      |-> [k \in Slots |-> ZeroAttr],
                       attribute_count |-> 0],
     drop_table   |-> NoName,
     desc_table   |-> NoName]

(* sql_parse: the ParserContext memset to 0.                               *)
EmptyContext ==
    [value_length |-> 0, insert_index |-> 0,
     values |-> [k \in Slots |-> ZeroValue], id |-> NoName]

value_init_integer(v) == [type |-> "INTS", data |-> v, is_null |-> FALSE]
value_init_float(v) == [type |-> "FLOATS", data |-> v, is_null |-> FALSE]

(* value_init_string(v, "NULL", true): a NULLS value holding the text.    *)
NullValue == [type |-> "NULLS", data |-> NullText, is_null |-> TRUE]

(* The value rules: value: NUMBER | FLOAT | NULL_T and                     *)
(* value_with_neg: MINUS NUMBER | MINUS FLOAT ($2 * -1).                  *)
value_of(l) ==
    CASE l.tok = "NUMBER"       -> value_init_integer(l.n)
      [] l.tok = "MINUS_NUMBER" -> value_init_integer(l.n * (-1))
      [] l.tok = "FLOAT"        -> value_init_float(l.n)
      [] l.tok = "MINUS_FLOAT"  -> value_init_float(l.n * (-1))
      [] l.tok = "NULL_T"       -> NullValue

(* Mutant: the group count stored as one past the index written.          *)
inserts_init_count_past(ins, name, vals, n, index) ==
    [relation_name |-> name,
     values    |-> [ins.values EXCEPT ![index] =
                      [k \in Slots |-> IF k < n THEN vals[k] ELSE @[k]]],
     value_num |-> [ins.value_num EXCEPT ![index] = n],
     group_num |-> index + 1]

(* inserts_init(inserts, relation_name, values, value_num, index).        *)
inserts_init(ins, name, vals, n, index) ==
    [relation_name |-> name,
     values    |-> [ins.values EXCEPT ![index] =
                      [k \in Slots |-> IF k < n THEN vals[k] ELSE @[k]]],
     value_num |-> [ins.value_num EXCEPT ![index] = n],
     group_num |-> index]

(* inserts_destroy: frees the groups below group_num and clears them.     *)
inserts_destroy(ins) ==
    [ins EXCEPT !.relation_name = NoName,
                !.value_num = [g \in Slots |-> IF g < ins.group_num THEN 0 ELSE @[g]],
                !.group_num = 0]

create_table_destroy(ct) ==
    [ct EXCEPT !.attribute_count = 0, !.relation_name = NoName]

(* query_reset: the destroy function of the member the flag names.        *)
query_reset(q) ==
    CASE q.flag = "SCF_INSERT"       -> [q EXCEPT !.insertion = inserts_destroy(@)]
      [] q.flag = "SCF_CREATE_TABLE" -> [q EXCEPT !.create_table = create_table_destroy(@)]
      [] q.flag = "SCF_DROP_TABLE"   -> [q EXCEPT !.drop_table = NoName]
      [] q.flag = "SCF_DESC_TABLE"   -> [q EXCEPT !.desc_table = NoName]
      [] OTHER                       -> q

(* The type rules (INT_T: INTS, ...) and opt_null (none and NOT NULL:     *)
(* ISFALSE, NULLABLE: ISTRUE).                                             *)
type_of(t) ==
    CASE t = "INT_T" -> "INTS" [] t = "STRING_T" -> "CHARS" [] t = "FLOAT_T" -> "FLOATS"
      [] t = "DATE_T" -> "DATES" [] t = "TEXT_T" -> "TEXTS"

opt_null(o) == IF o = "NULLABLE" THEN "ISTRUE" ELSE "ISFALSE"

attr_info_init(name, type, length, is_nullable) ==
    [name |-> name, type |-> type, length |-> length,
     is_nullable |-> IF is_nullable = "ISTRUE" THEN 1 ELSE 0]

create_table_append_attribute(ct, a) ==
    [ct EXCEPT !.attributes[ct.attribute_count] = a, !.attribute_count = @ + 1]

---------------------------------------------------------------------------
VARIABLES
    input,   \* the string of the current request
    pos,     \* [c: current command, i, j: progress inside it]
    steps,   \* grammar reductions done; the bad token comes after input.stop
    done,    \* yyparse has returned
    ssql,    \* the Query
    ctx      \* the ParserContext

vars == <<input, pos, steps, done, ssql, ctx>>

CurCmd == input.cmds[pos.c]
NextCmd == [c |-> pos.c + 1, i |-> 0, j |-> 0]

(* The next reduction is a grammar action on the current command.         *)
Reducing(kind) ==
    /\ ~done
    /\ steps # input.stop
    /\ pos.c <= Len(input.cmds)
    /\ CurCmd.cmd = kind
    /\ steps' = steps + 1
    /\ UNCHANGED <<input, done>>

(* ID_get: snprintf(CONTEXT->id, ..., "%s", $1).                           *)
InsertIdGet ==
    /\ Reducing("insert")
    /\ pos.i = 0
    /\ ctx' = [ctx EXCEPT !.id = CurCmd.table]
    /\ pos' = [pos EXCEPT !.i = 1, !.j = 0]
    /\ UNCHANGED ssql

(* A value of a row group: value_init_* on values[value_length++].       *)
InsertValue ==
    /\ Reducing("insert")
    /\ pos.i \in 1 .. Len(CurCmd.rows)
    /\ pos.j < Len(CurCmd.rows[pos.i])
    /\ ctx' = [ctx EXCEPT !.values[ctx.value_length] = value_of(CurCmd.rows[pos.i][pos.j + 1]),
                          !.value_length = @ + 1]
    /\ pos' = [pos EXCEPT !.j = @ + 1]
    /\ UNCHANGED ssql

(* Mutant: the end of a row group without value_length = 0.               *)
InsertGroupEnd_keep_length ==
    /\ Reducing("insert")
    /\ pos.i \in 1 .. Len(CurCmd.rows)
    /\ pos.j = Len(CurCmd.rows[pos.i])
    /\ ssql' = [ssql EXCEPT !.insertion = inserts_init(@, ctx.id, ctx.values,
                                                       ctx.value_length, ctx.insert_index)]
    /\ ctx' = [ctx EXCEPT !.insert_index = @ + 1]
    /\ pos' = [pos EXCEPT !.i = @ + 1, !.j = 0]

(* multi_values: ... RBRACE, the end of a row group (rules 53 and 54).    *)
InsertGroupEnd ==
    /\ Reducing("insert")
    /\ pos.i \in 1 .. Len(CurCmd.rows)
    /\ pos.j = Len(CurCmd.rows[pos.i])
    /\ ssql' = [ssql EXCEPT !.insertion = inserts_init(@, ctx.id, ctx.values,
                                                       ctx.value_length, ctx.insert_index)]
    /\ ctx' = [ctx EXCEPT !.insert_index = @ + 1, !.value_length = 0]
    /\ pos' = [pos EXCEPT !.i = @ + 1, !.j = 0]

(* insert: INSERT INTO ID_get VALUES multi_values SEMICOLON (rule 52).    *)
InsertEnd ==
    /\ Reducing("insert")
    /\ pos.i = Len(CurCmd.rows) + 1
    /\ ssql' = [ssql EXCEPT !.flag = "SCF_INSERT",
                            !.insertion = inserts_init(@, ctx.id, ctx.values,
                                                       ctx.value_length, ctx.insert_index)]
    /\ ctx' = [ctx EXCEPT !.insert_index = 0, !.value_length = 0]
    /\ pos' = NextCmd

(* ID_get of a column definition.                                          *)
CreateIdGet ==
    /\ Reducing("create_table")
    /\ pos.i < Len(CurCmd.attrs) /\ pos.j = 0
    /\ ctx' = [ctx EXCEPT !.id = CurCmd.attrs[pos.i + 1].name]
    /\ pos' = [pos EXCEPT !.j = 1]
    /\ UNCHANGED ssql

(* attr_def: ID_get type [LBRACE number RBRACE] opt_null (rules 40, 41). *)
CreateAttrDef ==
    /\ Reducing("create_table")
    /\ pos.j = 1
    /\ LET a == CurCmd.attrs[pos.i + 1] IN
       ssql' = [ssql EXCEPT !.create_table =
                  create_table_append_attribute(@,
                    attr_info_init(ctx.id, type_of(a.type),
                                   IF a.len = 0 THEN 4 ELSE a.len, opt_null(a.null)))]
    /\ ctx' = [ctx EXCEPT !.value_length = @ + 1]
    /\ pos' = [pos EXCEPT !.i = @ + 1, !.j = 0]

(* create_table: CREATE TABLE ID LBRACE attr_def attr_def_list RBRACE     *)
(* SEMICOLON (rule 37).                                                    *)
CreateEnd ==
    /\ Reducing("create_table")
    /\ pos.i = Len(CurCmd.attrs) /\ pos.j = 0
    /\ ssql' = [ssql EXCEPT !.flag = "SCF_CREATE_TABLE",
                            !.create_table.relation_name = CurCmd.table]
    /\ ctx' = [ctx EXCEPT !.value_length = 0]
    /\ pos' = NextCmd

(* exit, help, sync, begin, commit, rollback, show tables.                 *)
FlagCommand ==
    /\ Reducing("flag")
    /\ ssql' = [ssql EXCEPT !.flag = CurCmd.flag]
    /\ pos' = NextCmd
    /\ UNCHANGED ctx

(* drop_table and desc_table: the flag and the strdup'd name.             *)
DropTable ==
    /\ Reducing("drop_table")
    /\ ssql' = [ssql EXCEPT !.flag = "SCF_DROP_TABLE", !.drop_table = CurCmd.table]
    /\ pos' = NextCmd
    /\ UNCHANGED ctx

DescTable ==
    /\ Reducing("desc_table")
    /\ ssql' = [ssql EXCEPT !.flag = "SCF_DESC_TABLE", !.desc_table = CurCmd.table]
    /\ pos' = NextCmd
    /\ UNCHANGED ctx

(* yyerror on the bad token: query_reset, the error flag, the context's   *)
(* counters and the insertion counts cleared; yyparse aborts.             *)
yyerror ==
    /\ ~done
    /\ steps = input.stop
    /\ ssql' = LET r == query_reset(ssql) IN
               [r EXCEPT !.flag = "SCF_ERROR",
                         !.insertion.value_num = [g \in Slots |-> 0],
                         !.insertion.group_num = 0]
    /\ ctx' = [ctx EXCEPT !.value_length = 0, !.insert_index = 0]
    /\ done' = TRUE
    /\ UNCHANGED <<input, pos, steps>>

(* End of input after the last command: yyparse accepts.                  *)
Accept ==
    /\ ~done
    /\ steps # input.stop
    /\ pos.c > Len(input.cmds)
    /\ done' = TRUE
    /\ UNCHANGED <<input, pos, steps, ssql, ctx>>

(* The caller: parse() returns, the Query is destroyed, and the next      *)
(* request gets a new Query (query_create) and a new ParserContext.       *)
Request ==
    /\ done
    /\ input' \in Inputs
    /\ pos' = [c |-> 1, i |-> 0, j |-> 0]
    /\ steps' = 0
    /\ done' = FALSE
    /\ ssql' = query_init
    /\ ctx' = EmptyContext

Init ==
    /\ input \in Inputs
    /\ pos = [c |-> 1, i |-> 0, j |-> 0]
    /\ steps = 0
    /\ done = FALSE
    /\ ssql = query_init
    /\ ctx = EmptyContext

(* One step of yyparse.                                                    *)
Parser ==
    \/ InsertIdGet \/ InsertValue \/ InsertGroupEnd \/ InsertEnd
    \/ CreateIdGet \/ CreateAttrDef \/ CreateEnd
    \/ FlagCommand \/ DropTable \/ DescTable
    \/ yyerror \/ Accept

Next == Parser \/ Request

(* yyparse runs to its return once called; the client need not send     *)
(* another request.                                                        *)
Spec == Init /\ [][Next]_vars /\ WF_vars(Parser)

---------------------------------------------------------------------------
(* What the caller reads of the Query (the executor reads row groups 0 ..  *)
(* group_num - 1 and attributes 0 .. attribute_count - 1).                 *)
QueryRead ==
    CASE ssql.flag = "SCF_INSERT" ->
           [flag |-> "SCF_INSERT", table |-> ssql.insertion.relation_name,
            rows |-> [g \in 1 .. ssql.insertion.group_num |->
                        [k \in 1 .. ssql.insertion.value_num[g - 1] |->
                           ssql.insertion.values[g - 1][k - 1]]],
            attrs |-> <<>>]
      [] ssql.flag = "SCF_CREATE_TABLE" ->
           [flag |-> "SCF_CREATE_TABLE", table |-> ssql.create_table.relation_name,
            rows |-> <<>>,
            attrs |-> [k \in 1 .. ssql.create_table.attribute_count |->
                         ssql.create_table.attributes[k - 1]]]
      [] ssql.flag = "SCF_DROP_TABLE" ->
           [flag |-> "SCF_DROP_TABLE", table |-> ssql.drop_table, rows |-> <<>>, attrs |-> <<>>]
      [] ssql.flag = "SCF_DESC_TABLE" ->
           [flag |-> "SCF_DESC_TABLE", table |-> ssql.desc_table, rows |-> <<>>, attrs |-> <<>>]
      [] OTHER ->
           [flag |-> ssql.flag, table |-> NoName, rows |-> <<>>, attrs |-> <<>>]

(* The refinement mapping: before the parse ends the caller has nothing.  *)
AbsQuery == IF done THEN QueryRead ELSE ErrorQuery

Abs == INSTANCE ParsedQuery WITH query <- AbsQuery

---------------------------------------------------------------------------
Values == [type : {"UNDEFINED", "INTS", "FLOATS"}, data : Int, is_null : {FALSE}]
          \cup [type : {"NULLS"}, data : {NullText}, is_null : {TRUE}]
Attrs == {ZeroAttr} \cup [name : Columns, type : {"INTS", "CHARS", "FLOATS", "DATES", "TEXTS"},
                          length : Nat, is_nullable : {0, 1}]

(* The Query's members and the context's arrays within MAX_NUM.           *)
QueryFlags == {"SCF_ERROR", "SCF_INSERT", "SCF_CREATE_TABLE", "SCF_DROP_TABLE",
               "SCF_DESC_TABLE"} \cup FlagCmds
Insertions == [relation_name : Tables \cup {NoName}, values : [Slots -> [Slots -> Values]],
               value_num : [Slots -> 0 .. MaxNum], group_num : Slots]
CreateTables == [relation_name : Tables \cup {NoName}, attributes : [Slots -> Attrs],
                 attribute_count : 0 .. MaxNum]

QueryOK(q) ==
    q \in [flag : QueryFlags, insertion : Insertions, create_table : CreateTables,
           drop_table : Tables \cup {NoName}, desc_table : Tables \cup {NoName}]

ContextOK(cx) ==
    cx \in [value_length : 0 .. MaxNum, insert_index : Slots,
            values : [Slots -> Values], id : Tables \cup Columns \cup {NoName}]

(* The parser's state: the place in the string, and no index of the Query *)
(* or of the ParserContext outside its MAX_NUM array.                      *)
TypeOK ==
    /\ input \in Inputs
    /\ pos \in [c : 1 .. Len(input.cmds) + 1, i : Nat, j : Nat]
    /\ steps \in Nat
    /\ done \in BOOLEAN
    /\ QueryOK(ssql)
    /\ ContextOK(ctx)

(* sql_parse and parse (yacc_sql.tab.c, parse.cpp): every request ends   *)
(* with yyparse returning, and the Query the caller then reads holds the *)
(* string's last command, its row groups, values and column definitions   *)
(* in the order written, or SCF_ERROR alone after a syntax error; every   *)
(* step of the grammar actions is a stutter of that one-step parse.       *)
QueryMeansText == Abs!Spec

=============================================================================
