--------------------------- MODULE SqlParseProofs ---------------------------
(***************************************************************************)
(* Proofs about SqlParse for every MAX_NUM and every set of strings that  *)
(* satisfies InputsAssumption, fits the arrays (FitsArrays) and holds at  *)
(* most one CREATE TABLE per string: no grammar action of INSERT, CREATE TABLE, DROP, DESC or the   *)
(* flag commands, and no yyerror, writes the ParserContext or the Query   *)
(* outside its MAX_NUM arrays (TypeOK).                                   *)
(***************************************************************************)
EXTENDS SqlParse, TLAPS


(* Where the parse is inside command c, and what the context's counters  *)
(* hold there: value_length counts the values of the current row group or *)
(* the column definitions so far, insert_index the row groups stored, and *)
(* ctx.id is the name the next action reads.                               *)
InsertProgress(c, p, cx) ==
    /\ p.i \in 0 .. Len(c.rows) + 1
    /\ p.i = 0 => p.j = 0 /\ cx.value_length = 0 /\ cx.insert_index = 0
    /\ p.i \in 1 .. Len(c.rows) =>
         /\ p.j \in 0 .. Len(c.rows[p.i])
         /\ cx.value_length = p.j
         /\ cx.insert_index = p.i - 1
         /\ cx.id = c.table
    /\ p.i = Len(c.rows) + 1 =>
         p.j = 0 /\ cx.value_length = 0 /\ cx.insert_index = Len(c.rows) /\ cx.id = c.table

CreateProgress(c, p, q, cx) ==
    /\ p.i \in 0 .. Len(c.attrs)
    /\ p.j \in {0, 1}
    /\ p.j = 1 => p.i < Len(c.attrs) /\ cx.id = c.attrs[p.i + 1].name
    /\ cx.value_length = p.i
    /\ cx.insert_index = 0
    /\ q.create_table.attribute_count = p.i

AtCommandStart(p, cx) ==
    p.i = 0 /\ p.j = 0 /\ cx.value_length = 0 /\ cx.insert_index = 0

(* No CREATE TABLE up to command n: no column definition appended yet.    *)
NoCreateUpTo(in, n) == \A k \in DOMAIN in.cmds : k <= n => in.cmds[k].cmd # "create_table"

(* The progress of a parse that has not ended.                            *)
Progress(in, p, dn, q, cx) ==
    ~dn =>
      LET c == in.cmds[p.c] IN
      /\ p.c <= Len(in.cmds) /\ c.cmd = "insert" => InsertProgress(c, p, cx)
      /\ p.c <= Len(in.cmds) /\ c.cmd = "create_table" => CreateProgress(c, p, q, cx)
      /\ p.c <= Len(in.cmds) /\ c.cmd \in {"flag", "drop_table", "desc_table"} =>
           AtCommandStart(p, cx)
      /\ p.c > Len(in.cmds) => AtCommandStart(p, cx)
      /\ NoCreateUpTo(in, p.c) => q.create_table.attribute_count = 0

(* The inductive strengthening of TypeOK.                                   *)
IInv == TypeOK /\ Progress(input, pos, done, ssql, ctx)

-----------------------------------------------------------------------------
(* The command the parser is in, read from the string of the request.     *)
LEMMA CurCmdShape ==
    ASSUME FitsArrays, TypeOK, pos.c <= Len(input.cmds)
    PROVE  /\ pos.c \in DOMAIN input.cmds
           /\ CurCmd \in Cmd
           /\ CurCmd.cmd \in {"insert", "create_table", "flag", "drop_table", "desc_table"}
           /\ CurCmd.cmd = "insert" =>
                /\ CurCmd.table \in Tables
                /\ CurCmd.rows \in Seq(Seq(Lit))
                /\ Len(CurCmd.rows) \in 1 .. MaxNum - 1
                /\ \A g \in 1 .. Len(CurCmd.rows) : Len(CurCmd.rows[g]) \in 1 .. MaxNum
           /\ CurCmd.cmd = "create_table" =>
                /\ CurCmd.table \in Tables
                /\ CurCmd.attrs \in Seq(AttrDef)
                /\ Len(CurCmd.attrs) \in 1 .. MaxNum
           /\ CurCmd.cmd = "flag" => CurCmd.flag \in FlagCmds
           /\ CurCmd.cmd \in {"drop_table", "desc_table"} => CurCmd.table \in Tables
<1>1. input \in Input /\ pos.c \in Nat /\ pos.c >= 1
    BY InputsAssumption DEF TypeOK
<1>2. pos.c \in DOMAIN input.cmds
    BY <1>1 DEF Input
<1>3. CurCmd \in Cmd
    BY <1>1, <1>2 DEF Input, CurCmd
<1>4. LET c == CurCmd IN
        /\ c.cmd = "insert" =>
             /\ Len(c.rows) \in 1 .. MaxNum - 1
             /\ \A g \in DOMAIN c.rows : Len(c.rows[g]) \in 1 .. MaxNum
        /\ c.cmd = "create_table" => Len(c.attrs) \in 1 .. MaxNum
    BY <1>2, InputsAssumption, FitsArrays DEF FitsArrays, TypeOK, CurCmd
<1>. QED
    BY <1>2, <1>3, <1>4 DEF Cmd

(* A literal's value is a value of the context (the value rules).        *)
LEMMA ValueOfType ==
    ASSUME NEW l \in Lit
    PROVE  value_of(l) \in Values
<1>1. l.tok \in LitToks /\ l.n \in Nat
    BY DEF Lit
<1>2. CASE l.tok = "NUMBER"
    <2>1. value_of(l) = value_init_integer(l.n)
        BY <1>2, Zenon DEF value_of
    <2>. QED
        BY <1>1, <2>1 DEF value_init_integer, Values
<1>3. CASE l.tok = "MINUS_NUMBER"
    <2>1. value_of(l) = value_init_integer(l.n * (-1))
        BY <1>3, Zenon DEF value_of
    <2>. QED
        BY <1>1, <2>1 DEF value_init_integer, Values
<1>5. CASE l.tok = "FLOAT"
    <2>1. value_of(l) = value_init_float(l.n)
        BY <1>5, Zenon DEF value_of
    <2>. QED
        BY <1>1, <2>1 DEF value_init_float, Values
<1>6. CASE l.tok = "MINUS_FLOAT"
    <2>1. value_of(l) = value_init_float(l.n * (-1))
        BY <1>6, Zenon DEF value_of
    <2>. QED
        BY <1>1, <2>1 DEF value_init_float, Values
<1>4. CASE l.tok = "NULL_T"
    BY <1>4 DEF value_of, NullValue, Values
<1>. QED
    BY <1>1, <1>2, <1>3, <1>4, <1>5, <1>6 DEF LitToks

LEMMA MaxNumPos == MaxNum \in Nat \ {0} /\ Inputs \subseteq Input
BY InputsAssumption

(* At the start of command n, with the counters cleared and no column    *)
(* definition appended unless an earlier command is a CREATE TABLE, the   *)
(* progress holds whatever the command is.                                 *)
LEMMA StartProgress ==
    ASSUME NEW in \in Inputs, NEW p, NEW q, NEW cx, OneCreate, FitsArrays,
           p.c \in 1 .. Len(in.cmds) + 1, p.i = 0, p.j = 0,
           cx.value_length = 0, cx.insert_index = 0,
           NoCreateUpTo(in, p.c - 1) => q.create_table.attribute_count = 0
    PROVE  Progress(in, p, FALSE, q, cx)
<1>1. in \in Input /\ Len(in.cmds) \in Nat
    BY MaxNumPos DEF Input
<1>0. NoCreateUpTo(in, p.c) => NoCreateUpTo(in, p.c - 1)
    <2>. SUFFICES ASSUME NoCreateUpTo(in, p.c), NEW k \in DOMAIN in.cmds, k <= p.c - 1
                  PROVE  in.cmds[k].cmd # "create_table"
        BY DEF NoCreateUpTo
    <2>1. k \in Nat
        BY <1>1 DEF Input
    <2>. QED
        BY <2>1 DEF NoCreateUpTo
<1>2. CASE p.c <= Len(in.cmds)
    <2>. DEFINE c == in.cmds[p.c]
    <2>1. c \in Cmd /\ p.c \in DOMAIN in.cmds
        BY <1>1, <1>2 DEF Input
    <2>2. c.cmd = "insert" => Len(c.rows) \in 1 .. MaxNum - 1
        <3>1. c.cmd = "insert" => Len(c.rows) >= 1
            BY <2>1, InputsAssumption
        <3>2. c.cmd = "insert" => Len(c.rows) < MaxNum
            BY <2>1, FitsArrays DEF FitsArrays
        <3>3. c.cmd = "insert" => Len(c.rows) \in Nat
            BY <2>1 DEF Cmd
        <3>. QED
            BY <3>1, <3>2, <3>3, MaxNumPos
    <2>3. c.cmd = "insert" => InsertProgress(c, p, cx)
        BY <2>2 DEF InsertProgress
    <2>4. c.cmd = "create_table" => NoCreateUpTo(in, p.c - 1)
        BY <2>1, <1>1 DEF OneCreate, NoCreateUpTo
    <2>5. c.cmd = "create_table" => Len(c.attrs) \in 1 .. MaxNum
        <3>1. c.cmd = "create_table" => Len(c.attrs) >= 1
            BY <2>1, InputsAssumption
        <3>2. c.cmd = "create_table" => Len(c.attrs) <= MaxNum
            BY <2>1, FitsArrays DEF FitsArrays
        <3>3. c.cmd = "create_table" => Len(c.attrs) \in Nat
            BY <2>1 DEF Cmd
        <3>. QED
            BY <3>1, <3>2, <3>3, MaxNumPos
    <2>6. c.cmd = "create_table" => CreateProgress(c, p, q, cx)
        BY <2>4, <2>5 DEF CreateProgress
    <2>. QED
        BY <1>2, <1>0, <2>3, <2>6 DEF Progress, AtCommandStart
<1>3. CASE p.c > Len(in.cmds)
    BY <1>3, <1>0 DEF Progress, AtCommandStart
<1>4. p.c <= Len(in.cmds) \/ p.c > Len(in.cmds)
    BY <1>1
<1>. QED
    BY <1>2, <1>3, <1>4, Zenon

(* Inside an INSERT or a CREATE TABLE, its progress is the parse's.       *)
LEMMA InsideProgress ==
    ASSUME NEW in \in Inputs, NEW p, NEW q, NEW cx,
           p.c \in 1 .. Len(in.cmds),
           \/ in.cmds[p.c].cmd = "insert" /\ InsertProgress(in.cmds[p.c], p, cx)
           \/ in.cmds[p.c].cmd = "create_table" /\ CreateProgress(in.cmds[p.c], p, q, cx),
           NoCreateUpTo(in, p.c) => q.create_table.attribute_count = 0
    PROVE  Progress(in, p, FALSE, q, cx)
BY DEF Progress

(* A parser step that keeps the string and the types of what it writes   *)
(* keeps TypeOK.                                                           *)
LEMMA TypeStep ==
    ASSUME TypeOK, input' = input, steps' \in Nat, done' \in BOOLEAN,
           pos' \in [c : 1 .. Len(input.cmds) + 1, i : Nat, j : Nat],
           QueryOK(ssql'), ContextOK(ctx')
    PROVE  TypeOK'
<1>1. input' \in Inputs
    BY DEF TypeOK
<1>2. pos' \in [c : 1 .. Len(input'.cmds) + 1, i : Nat, j : Nat]
    OBVIOUS
<1>. QED
    BY <1>1, <1>2 DEF TypeOK

(* inserts_init writes a row group within the arrays when the index is a *)
(* slot and the count at most MAX_NUM.                                     *)
LEMMA InsertsInitType ==
    ASSUME NEW ins \in Insertions, NEW name \in Tables \cup {NoName},
           NEW vals \in [Slots -> Values], NEW n \in 0 .. MaxNum, NEW index \in Slots
    PROVE  inserts_init(ins, name, vals, n, index) \in Insertions
<1>1. [k \in Slots |-> IF k < n THEN vals[k] ELSE ins.values[index][k]] \in [Slots -> Values]
    BY DEF Insertions
<1>2. [ins.values EXCEPT ![index] = [k \in Slots |-> IF k < n THEN vals[k] ELSE @[k]]]
        \in [Slots -> [Slots -> Values]]
    BY <1>1 DEF Insertions
<1>3. [ins.value_num EXCEPT ![index] = n] \in [Slots -> 0 .. MaxNum]
    BY DEF Insertions
<1>. QED
    BY <1>2, <1>3 DEF inserts_init, Insertions

(* The Query with one of its members or its flag written stays typed.    *)
LEMMA QueryUpdate ==
    ASSUME NEW q, QueryOK(q)
    PROVE  /\ \A x \in Insertions : QueryOK([q EXCEPT !.insertion = x])
           /\ \A f \in QueryFlags, x \in Insertions :
                QueryOK([q EXCEPT !.flag = f, !.insertion = x])
           /\ \A f \in QueryFlags : QueryOK([q EXCEPT !.flag = f])
           /\ \A y \in CreateTables : QueryOK([q EXCEPT !.create_table = y])
           /\ \A f \in QueryFlags, t \in Tables :
                QueryOK([q EXCEPT !.flag = f, !.create_table.relation_name = t])
           /\ \A f \in QueryFlags, t \in Tables \cup {NoName} :
                QueryOK([q EXCEPT !.flag = f, !.drop_table = t])
           /\ \A f \in QueryFlags, t \in Tables \cup {NoName} :
                QueryOK([q EXCEPT !.flag = f, !.desc_table = t])
           /\ \A t \in Tables \cup {NoName} : QueryOK([q EXCEPT !.drop_table = t])
           /\ \A t \in Tables \cup {NoName} : QueryOK([q EXCEPT !.desc_table = t])
<1>1. \A x \in Insertions : QueryOK([q EXCEPT !.insertion = x])
    BY DEF QueryOK
<1>2. \A f \in QueryFlags, x \in Insertions : QueryOK([q EXCEPT !.flag = f, !.insertion = x])
    BY DEF QueryOK
<1>3. \A f \in QueryFlags : QueryOK([q EXCEPT !.flag = f])
    BY DEF QueryOK
<1>4. \A y \in CreateTables : QueryOK([q EXCEPT !.create_table = y])
    BY DEF QueryOK
<1>5. \A f \in QueryFlags, t \in Tables :
        QueryOK([q EXCEPT !.flag = f, !.create_table.relation_name = t])
    BY DEF QueryOK, CreateTables
<1>6. \A f \in QueryFlags, t \in Tables \cup {NoName} :
        QueryOK([q EXCEPT !.flag = f, !.drop_table = t])
    BY DEF QueryOK
<1>7. \A f \in QueryFlags, t \in Tables \cup {NoName} :
        QueryOK([q EXCEPT !.flag = f, !.desc_table = t])
    BY DEF QueryOK
<1>8. \A t \in Tables \cup {NoName} : QueryOK([q EXCEPT !.drop_table = t])
    BY DEF QueryOK
<1>9. \A t \in Tables \cup {NoName} : QueryOK([q EXCEPT !.desc_table = t])
    BY DEF QueryOK
<1>. QED
    BY <1>1, <1>2, <1>3, <1>4, <1>5, <1>6, <1>7, <1>8, <1>9

(* query_reset: the destroy function of the member the flag names keeps  *)
(* the Query typed.                                                        *)
LEMMA ResetType ==
    ASSUME NEW q, QueryOK(q)
    PROVE  QueryOK(query_reset(q))
<1>0. 0 \in Slots /\ NoName \in Tables \cup {NoName}
    BY MaxNumPos DEF Slots
<1>1. inserts_destroy(q.insertion) \in Insertions
    <2>1. [g \in Slots |-> IF g < q.insertion.group_num THEN 0 ELSE q.insertion.value_num[g]]
            \in [Slots -> 0 .. MaxNum]
        BY MaxNumPos DEF QueryOK, Insertions
    <2>. QED
        BY <1>0, <2>1, Zenon DEF inserts_destroy, QueryOK, Insertions
<1>2. create_table_destroy(q.create_table) \in CreateTables
    <2>1. 0 \in 0 .. MaxNum
        BY MaxNumPos
    <2>. QED
        BY <1>0, <2>1, Zenon DEF create_table_destroy, QueryOK, CreateTables
<1>3. CASE q.flag = "SCF_INSERT"
    <2>1. query_reset(q) = [q EXCEPT !.insertion = inserts_destroy(q.insertion)]
        BY <1>3, Zenon DEF query_reset
    <2>2. QueryOK([q EXCEPT !.insertion = inserts_destroy(q.insertion)])
        BY <1>1, QueryUpdate
    <2>. QED
        BY <2>1, <2>2
<1>4. CASE q.flag = "SCF_CREATE_TABLE"
    <2>1. query_reset(q) = [q EXCEPT !.create_table = create_table_destroy(q.create_table)]
        BY <1>4, Zenon DEF query_reset
    <2>2. QueryOK([q EXCEPT !.create_table = create_table_destroy(q.create_table)])
        BY <1>2, QueryUpdate
    <2>. QED
        BY <2>1, <2>2
<1>5. CASE q.flag = "SCF_DROP_TABLE"
    <2>1. query_reset(q) = [q EXCEPT !.drop_table = NoName]
        BY <1>5, Zenon DEF query_reset
    <2>2. QueryOK([q EXCEPT !.drop_table = NoName])
        BY <1>0, QueryUpdate
    <2>. QED
        BY <2>1, <2>2
<1>6. CASE q.flag = "SCF_DESC_TABLE"
    <2>1. query_reset(q) = [q EXCEPT !.desc_table = NoName]
        BY <1>6, Zenon DEF query_reset
    <2>2. QueryOK([q EXCEPT !.desc_table = NoName])
        BY <1>0, QueryUpdate
    <2>. QED
        BY <2>1, <2>2
<1>7. CASE q.flag \notin {"SCF_INSERT", "SCF_CREATE_TABLE", "SCF_DROP_TABLE", "SCF_DESC_TABLE"}
    <2>1. query_reset(q) = q
        BY <1>7, Zenon DEF query_reset
    <2>. QED
        BY <2>1
<1>. QED
    BY <1>3, <1>4, <1>5, <1>6, <1>7, Zenon

(* yyerror's write of the Query after query_reset keeps it typed.         *)
LEMMA ErrorType ==
    ASSUME NEW r, QueryOK(r)
    PROVE  QueryOK([r EXCEPT !.flag = "SCF_ERROR",
                             !.insertion.value_num = [g \in Slots |-> 0],
                             !.insertion.group_num = 0])
<1>. DEFINE x == [r.insertion EXCEPT !.value_num = [g \in Slots |-> 0], !.group_num = 0]
<1>1. x \in Insertions
    <2>1. 0 \in Slots /\ [g \in Slots |-> 0] \in [Slots -> 0 .. MaxNum]
        BY MaxNumPos DEF Slots
    <2>. QED
        BY <2>1, Zenon DEF QueryOK, Insertions
<1>2. [r EXCEPT !.flag = "SCF_ERROR", !.insertion.value_num = [g \in Slots |-> 0],
                !.insertion.group_num = 0] = [r EXCEPT !.flag = "SCF_ERROR", !.insertion = x]
    BY Zenon DEF QueryOK
<1>3. "SCF_ERROR" \in QueryFlags
    BY DEF QueryFlags
<1>. QED
    BY <1>1, <1>2, <1>3, QueryUpdate

(* A column definition of the string gives an AttrInfo of the arrays.    *)
LEMMA AttrInfoType ==
    ASSUME NEW a \in AttrDef, NEW name \in Columns
    PROVE  attr_info_init(name, type_of(a.type), IF a.len = 0 THEN 4 ELSE a.len,
                          opt_null(a.null)) \in Attrs
<1>1. type_of(a.type) \in {"INTS", "CHARS", "FLOATS", "DATES", "TEXTS"}
    <2>1. a.type \in TypeToks
        BY DEF AttrDef
    <2>. QED
        BY <2>1, Zenon DEF type_of, TypeToks
<1>2. (IF a.len = 0 THEN 4 ELSE a.len) \in Nat
    BY DEF AttrDef
<1>. QED
    BY <1>1, <1>2 DEF attr_info_init, Attrs

(* create_table_append_attribute below MAX_NUM columns.                    *)
LEMMA AppendType ==
    ASSUME NEW ct \in CreateTables, NEW a \in Attrs, ct.attribute_count < MaxNum
    PROVE  /\ create_table_append_attribute(ct, a) \in CreateTables
           /\ create_table_append_attribute(ct, a).attribute_count = ct.attribute_count + 1
<1>1. ct.attribute_count \in Slots
    BY MaxNumPos DEF CreateTables, Slots
<1>. DEFINE at == [ct.attributes EXCEPT ![ct.attribute_count] = a]
<1>2. create_table_append_attribute(ct, a) =
        [relation_name |-> ct.relation_name, attributes |-> at,
         attribute_count |-> ct.attribute_count + 1]
    <2>1. ct = [relation_name |-> ct.relation_name, attributes |-> ct.attributes,
                attribute_count |-> ct.attribute_count]
        BY DEF CreateTables
    <2>2. create_table_append_attribute(ct, a) =
            [[ct EXCEPT !.attributes = at] EXCEPT !.attribute_count = ct.attribute_count + 1]
        BY DEF create_table_append_attribute
    <2>3. [ct EXCEPT !.attributes = at] =
            [relation_name |-> ct.relation_name, attributes |-> at,
             attribute_count |-> ct.attribute_count]
        BY <2>1
    <2>4. [[relation_name |-> ct.relation_name, attributes |-> at,
            attribute_count |-> ct.attribute_count] EXCEPT
             !.attribute_count = ct.attribute_count + 1] =
            [relation_name |-> ct.relation_name, attributes |-> at,
             attribute_count |-> ct.attribute_count + 1]
        OBVIOUS
    <2>. QED
        BY <2>2, <2>3, <2>4
<1>3. [ct.attributes EXCEPT ![ct.attribute_count] = a] \in [Slots -> Attrs]
    BY <1>1 DEF CreateTables
<1>. QED
    BY <1>1, <1>2, <1>3, MaxNumPos DEF CreateTables, Slots

(* Inside a CREATE TABLE, some command up to the current one is one.      *)
LEMMA InCreate ==
    ASSUME NEW in \in Inputs, NEW n \in 1 .. Len(in.cmds), in.cmds[n].cmd = "create_table"
    PROVE  ~NoCreateUpTo(in, n)
<1>1. n \in DOMAIN in.cmds
    BY MaxNumPos DEF Input
<1>. QED
    BY <1>1 DEF NoCreateUpTo

(* A new Query (query_create, query_init) and a new ParserContext.        *)
LEMMA FreshState ==
    /\ QueryOK(query_init) /\ query_init.create_table.attribute_count = 0
    /\ ContextOK(EmptyContext)
    /\ EmptyContext.value_length = 0 /\ EmptyContext.insert_index = 0
<1>. USE MaxNumPos
<1>1. ZeroValue \in Values /\ ZeroAttr \in Attrs
    BY DEF ZeroValue, ZeroAttr, Values, Attrs
<1>2. query_init.insertion \in Insertions
    BY <1>1 DEF query_init, Slots, Insertions
<1>3. query_init.create_table \in CreateTables
    BY <1>1 DEF query_init, Slots, CreateTables
<1>4. QueryOK(query_init) /\ query_init.create_table.attribute_count = 0
    BY <1>2, <1>3 DEF query_init, QueryOK, QueryFlags
<1>5. ContextOK(EmptyContext)
    <2>1. 0 \in Slots /\ 0 \in 0 .. MaxNum
        BY DEF Slots
    <2>2. [k \in Slots |-> ZeroValue] \in [Slots -> Values]
        BY <1>1
    <2>. QED
        BY <2>1, <2>2 DEF EmptyContext, ContextOK
<1>. QED
    BY <1>4, <1>5 DEF EmptyContext

(* The first request: sql_parse on a new Query and ParserContext.        *)
LEMMA InitIInv == OneCreate /\ FitsArrays => (Init => IInv)
<1>. SUFFICES ASSUME OneCreate, FitsArrays, Init PROVE IInv
    OBVIOUS
<1>1. /\ input \in Inputs /\ pos = [c |-> 1, i |-> 0, j |-> 0] /\ steps = 0 /\ done = FALSE
      /\ ssql = query_init /\ ctx = EmptyContext
    BY DEF Init
<1>2. Len(input.cmds) \in Nat
    BY <1>1, MaxNumPos DEF Input
<1>3. TypeOK
    <2>1. pos \in [c : 1 .. Len(input.cmds) + 1, i : Nat, j : Nat]
        BY <1>1, <1>2
    <2>2. steps \in Nat /\ done \in BOOLEAN
        BY <1>1
    <2>3. QueryOK(ssql) /\ ContextOK(ctx)
        BY <1>1, FreshState
    <2>. QED
        BY <1>1, <2>1, <2>2, <2>3 DEF TypeOK
<1>4. Progress(input, pos, FALSE, ssql, ctx)
    <2>1. /\ pos.c \in 1 .. Len(input.cmds) + 1 /\ pos.i = 0 /\ pos.j = 0
          /\ ctx.value_length = 0 /\ ctx.insert_index = 0
          /\ ssql.create_table.attribute_count = 0
        BY <1>1, <1>2, FreshState
    <2>. QED
        BY <1>1, <2>1, StartProgress
<1>. QED
    BY <1>1, <1>3, <1>4 DEF IInv

-----------------------------------------------------------------------------
(* ID_get of an INSERT: the table name into ctx.id, the first row group.  *)
LEMMA InsertIdGetStep ==
    ASSUME FitsArrays, IInv, InsertIdGet
    PROVE  IInv'
<1>1. TypeOK /\ Progress(input, pos, done, ssql, ctx)
    BY DEF IInv
<1>2. ~done /\ pos.c <= Len(input.cmds) /\ CurCmd.cmd = "insert" /\ pos.i = 0
    BY DEF InsertIdGet, Reducing
<1>3. CurCmd.table \in Tables /\ Len(CurCmd.rows) \in 1 .. MaxNum - 1
    BY <1>1, <1>2, CurCmdShape
<1>4. InsertProgress(CurCmd, pos, ctx)
    BY <1>1, <1>2 DEF Progress, CurCmd
<1>5. /\ input' = input /\ done' = FALSE /\ ssql' = ssql /\ steps' = steps + 1
      /\ pos' = [c |-> pos.c, i |-> 1, j |-> 0]
    BY <1>1, <1>2 DEF InsertIdGet, Reducing, TypeOK
<1>8. ctx' = [value_length |-> ctx.value_length, insert_index |-> ctx.insert_index,
              values |-> ctx.values, id |-> CurCmd.table]
    BY <1>1 DEF InsertIdGet, TypeOK, ContextOK
<1>6. TypeOK'
    <2>1. ContextOK(ctx')
        BY <1>1, <1>3, <1>8 DEF TypeOK, ContextOK
    <2>2. pos' \in [c : 1 .. Len(input'.cmds) + 1, i : Nat, j : Nat]
        BY <1>1, <1>5 DEF TypeOK
    <2>3. QueryOK(ssql')
        BY <1>1, <1>5 DEF TypeOK
    <2>4. input' \in Inputs /\ steps' \in Nat /\ done' \in BOOLEAN
        <3>1. input \in Inputs /\ steps \in Nat
            BY <1>1 DEF TypeOK
        <3>2. input' = input /\ done' = FALSE /\ steps' = steps + 1
            BY <1>5
        <3>3. done' \in BOOLEAN
            BY <3>2
        <3>4. steps' \in Nat
            BY <3>1, <3>2
        <3>5. input' \in Inputs
            BY <3>1, <3>2
        <3>. QED
            BY <3>3, <3>4, <3>5
    <2>. QED
        BY <2>1, <2>2, <2>3, <2>4 DEF TypeOK
<1>7. Progress(input', pos', done', ssql', ctx')
    <2>1. InsertProgress(CurCmd, pos', ctx')
        BY <1>1, <1>3, <1>4, <1>5, <1>8, <1>2 DEF InsertProgress, TypeOK
    <2>2. NoCreateUpTo(input, pos.c) => ssql.create_table.attribute_count = 0
        BY <1>1, <1>2 DEF Progress
    <2>3. pos'.c \in 1 .. Len(input.cmds) /\ input.cmds[pos'.c] = CurCmd /\ input \in Inputs
        BY <1>1, <1>2, <1>5 DEF TypeOK, CurCmd
    <2>4. Progress(input, pos', FALSE, ssql, ctx')
        BY <1>2, <2>1, <2>2, <2>3, <1>5, InsideProgress
    <2>. QED
        BY <1>5, <2>4
<1>. QED
    BY <1>6, <1>7 DEF IInv

(* A value of a row group: values[value_length++] within the group.       *)
LEMMA InsertValueStep ==
    ASSUME FitsArrays, IInv, InsertValue
    PROVE  IInv'
<1>1. TypeOK /\ Progress(input, pos, done, ssql, ctx)
    BY DEF IInv
<1>2. /\ ~done /\ pos.c <= Len(input.cmds) /\ CurCmd.cmd = "insert"
      /\ pos.i \in 1 .. Len(CurCmd.rows) /\ pos.j < Len(CurCmd.rows[pos.i])
    BY DEF InsertValue, Reducing
<1>3. /\ CurCmd.table \in Tables /\ CurCmd.rows \in Seq(Seq(Lit))
      /\ Len(CurCmd.rows) \in 1 .. MaxNum - 1
      /\ Len(CurCmd.rows[pos.i]) \in 1 .. MaxNum
    BY <1>1, <1>2, CurCmdShape
<1>4. /\ pos.j \in 0 .. Len(CurCmd.rows[pos.i])
      /\ ctx.value_length = pos.j /\ ctx.insert_index = pos.i - 1 /\ ctx.id = CurCmd.table
    <2>1. InsertProgress(CurCmd, pos, ctx)
        BY <1>1, <1>2 DEF Progress, CurCmd
    <2>. QED
        BY <1>2, <2>1 DEF InsertProgress
<1>5. /\ input' = input /\ done' = FALSE /\ ssql' = ssql /\ steps' = steps + 1
      /\ pos' = [c |-> pos.c, i |-> pos.i, j |-> pos.j + 1]
    BY <1>1, <1>2 DEF InsertValue, Reducing, TypeOK
<1>. DEFINE v == value_of(CurCmd.rows[pos.i][pos.j + 1])
<1>6. v \in Values
    <2>1. CurCmd.rows[pos.i][pos.j + 1] \in Lit
        BY <1>2, <1>3, <1>4
    <2>. QED
        BY <2>1, ValueOfType
<1>7. ctx' = [value_length |-> ctx.value_length + 1, insert_index |-> ctx.insert_index,
              values |-> [ctx.values EXCEPT ![ctx.value_length] = v], id |-> ctx.id]
    BY <1>1 DEF InsertValue, TypeOK, ContextOK
<1>8. ContextOK(ctx')
    <2>1. ctx.value_length \in Slots /\ ctx.value_length + 1 \in 0 .. MaxNum
        BY <1>2, <1>3, <1>4, MaxNumPos DEF Slots
    <2>2. [ctx.values EXCEPT ![ctx.value_length] = v] \in [Slots -> Values]
        BY <1>1, <1>6, <2>1 DEF TypeOK, ContextOK
    <2>. QED
        BY <1>1, <1>7, <2>1, <2>2 DEF TypeOK, ContextOK
<1>9. TypeOK'
    <2>1. steps' \in Nat /\ done' \in BOOLEAN
        <3>1. steps' \in Nat
            BY <1>1, <1>5 DEF TypeOK
        <3>2. done' \in BOOLEAN
            BY <1>5
        <3>. QED
            BY <3>1, <3>2
    <2>2. pos' \in [c : 1 .. Len(input.cmds) + 1, i : Nat, j : Nat]
        BY <1>1, <1>5 DEF TypeOK
    <2>3. QueryOK(ssql')
        BY <1>1, <1>5 DEF TypeOK
    <2>. QED
        BY <1>1, <1>5, <1>8, <2>1, <2>2, <2>3, TypeStep
<1>10. Progress(input', pos', done', ssql', ctx')
    <2>1. InsertProgress(CurCmd, pos', ctx')
        <3>1. /\ pos'.i = pos.i /\ pos'.j = pos.j + 1
              /\ ctx'.value_length = pos.j + 1 /\ ctx'.insert_index = pos.i - 1
              /\ ctx'.id = CurCmd.table
            BY <1>4, <1>5, <1>7
        <3>2. pos.j + 1 \in 0 .. Len(CurCmd.rows[pos.i]) /\ pos.i \in 1 .. Len(CurCmd.rows)
            BY <1>2, <1>3, <1>4
        <3>. QED
            BY <3>1, <3>2 DEF InsertProgress
    <2>2. NoCreateUpTo(input, pos.c) => ssql.create_table.attribute_count = 0
        BY <1>1, <1>2 DEF Progress
    <2>3. pos'.c \in 1 .. Len(input.cmds) /\ input.cmds[pos'.c] = CurCmd /\ input \in Inputs
        BY <1>1, <1>2, <1>5 DEF TypeOK, CurCmd
    <2>4. Progress(input, pos', FALSE, ssql, ctx')
        BY <1>2, <2>1, <2>2, <2>3, <1>5, InsideProgress
    <2>. QED
        BY <1>5, <2>4
<1>. QED
    BY <1>9, <1>10 DEF IInv

(* The end of a row group: inserts_init at insert_index, the next group.  *)
LEMMA InsertGroupEndStep ==
    ASSUME FitsArrays, IInv, InsertGroupEnd
    PROVE  IInv'
<1>1. TypeOK /\ Progress(input, pos, done, ssql, ctx)
    BY DEF IInv
<1>2. /\ ~done /\ pos.c <= Len(input.cmds) /\ CurCmd.cmd = "insert"
      /\ pos.i \in 1 .. Len(CurCmd.rows) /\ pos.j = Len(CurCmd.rows[pos.i])
    BY DEF InsertGroupEnd, Reducing
<1>3. /\ CurCmd.table \in Tables
      /\ Len(CurCmd.rows) \in 1 .. MaxNum - 1
      /\ Len(CurCmd.rows[pos.i]) \in 1 .. MaxNum
    BY <1>1, <1>2, CurCmdShape
<1>4. /\ ctx.value_length = pos.j /\ ctx.insert_index = pos.i - 1 /\ ctx.id = CurCmd.table
    <2>1. InsertProgress(CurCmd, pos, ctx)
        BY <1>1, <1>2 DEF Progress, CurCmd
    <2>. QED
        BY <1>2, <2>1 DEF InsertProgress
<1>5. /\ input' = input /\ done' = FALSE /\ steps' = steps + 1
      /\ pos' = [c |-> pos.c, i |-> pos.i + 1, j |-> 0]
    BY <1>1, <1>2 DEF InsertGroupEnd, Reducing, TypeOK
<1>. DEFINE ins == inserts_init(ssql.insertion, ctx.id, ctx.values,
                                ctx.value_length, ctx.insert_index)
<1>6. ssql' = [ssql EXCEPT !.insertion = ins]
    BY DEF InsertGroupEnd
<1>7. ctx' = [value_length |-> 0, insert_index |-> ctx.insert_index + 1,
              values |-> ctx.values, id |-> ctx.id]
    BY <1>1 DEF InsertGroupEnd, TypeOK, ContextOK
<1>8. ctx.insert_index \in Slots /\ ctx.insert_index + 1 \in Slots
    <2>1. pos.i \in 1 .. MaxNum - 1
        BY <1>2, <1>3, MaxNumPos
    <2>. QED
        BY <2>1, <1>4, MaxNumPos DEF Slots
<1>9. QueryOK(ssql')
    <2>1. ins \in Insertions
        <3>1. /\ ssql.insertion \in Insertions /\ ctx.values \in [Slots -> Values]
              /\ ctx.id \in Tables \cup {NoName} /\ ctx.value_length \in 0 .. MaxNum
            BY <1>1, <1>3, <1>4 DEF TypeOK, QueryOK, ContextOK
        <3>. QED
            BY <3>1, <1>8, InsertsInitType
    <2>2. QueryOK(ssql)
        BY <1>1 DEF TypeOK
    <2>. QED
        BY <1>6, <2>1, <2>2, QueryUpdate
<1>10. TypeOK'
    <2>1. steps' \in Nat /\ done' \in BOOLEAN
        <3>1. steps' \in Nat
            BY <1>1, <1>5 DEF TypeOK
        <3>2. done' \in BOOLEAN
            BY <1>5
        <3>. QED
            BY <3>1, <3>2
    <2>2. pos' \in [c : 1 .. Len(input.cmds) + 1, i : Nat, j : Nat]
        BY <1>1, <1>5 DEF TypeOK
    <2>3. ContextOK(ctx')
        BY <1>1, <1>7, <1>8, MaxNumPos DEF TypeOK, ContextOK
    <2>. QED
        BY <1>1, <1>5, <1>9, <2>1, <2>2, <2>3, TypeStep
<1>11. Progress(input', pos', done', ssql', ctx')
    <2>1. InsertProgress(CurCmd, pos', ctx')
        BY <1>1, <1>2, <1>3, <1>4, <1>5, <1>7 DEF InsertProgress, TypeOK
    <2>2. ssql'.create_table = ssql.create_table
        BY <1>6
    <2>3. NoCreateUpTo(input, pos.c) => ssql'.create_table.attribute_count = 0
        BY <1>1, <1>2, <2>2 DEF Progress
    <2>4. pos'.c \in 1 .. Len(input.cmds) /\ input.cmds[pos'.c] = CurCmd /\ input \in Inputs
        BY <1>1, <1>2, <1>5 DEF TypeOK, CurCmd
    <2>5. Progress(input, pos', FALSE, ssql', ctx')
        BY <1>2, <2>1, <2>3, <2>4, <1>5, InsideProgress
    <2>. QED
        BY <1>5, <2>5
<1>. QED
    BY <1>10, <1>11 DEF IInv

(* insert: ... SEMICOLON, the last row group stored, SCF_INSERT, and the  *)
(* counters cleared for the next command.                                  *)
LEMMA InsertEndStep ==
    ASSUME OneCreate, FitsArrays, IInv, InsertEnd
    PROVE  IInv'
<1>1. TypeOK /\ Progress(input, pos, done, ssql, ctx)
    BY DEF IInv
<1>2. /\ ~done /\ pos.c <= Len(input.cmds) /\ CurCmd.cmd = "insert"
      /\ pos.i = Len(CurCmd.rows) + 1
    BY DEF InsertEnd, Reducing
<1>3. /\ CurCmd.table \in Tables
      /\ Len(CurCmd.rows) \in 1 .. MaxNum - 1
    BY <1>1, <1>2, CurCmdShape
<1>4. /\ ctx.value_length = 0 /\ ctx.insert_index = Len(CurCmd.rows) /\ ctx.id = CurCmd.table
    <2>1. InsertProgress(CurCmd, pos, ctx)
        BY <1>1, <1>2 DEF Progress, CurCmd
    <2>2. Len(CurCmd.rows) + 1 # 0 /\ Len(CurCmd.rows) + 1 \notin 1 .. Len(CurCmd.rows)
        BY <1>3
    <2>. QED
        BY <1>2, <2>1, <2>2 DEF InsertProgress
<1>5. /\ input' = input /\ done' = FALSE /\ steps' = steps + 1
      /\ pos' = [c |-> pos.c + 1, i |-> 0, j |-> 0]
    BY <1>1, <1>2 DEF InsertEnd, Reducing, TypeOK, NextCmd
<1>. DEFINE ins == inserts_init(ssql.insertion, ctx.id, ctx.values,
                                ctx.value_length, ctx.insert_index)
<1>6. ssql' = [ssql EXCEPT !.flag = "SCF_INSERT", !.insertion = ins]
    BY DEF InsertEnd
<1>7. ctx' = [value_length |-> 0, insert_index |-> 0, values |-> ctx.values, id |-> ctx.id]
    BY <1>1 DEF InsertEnd, TypeOK, ContextOK
<1>8. ctx.insert_index \in Slots
    BY <1>3, <1>4, MaxNumPos DEF Slots
<1>9. QueryOK(ssql')
    <2>1. ins \in Insertions
        <3>1. /\ ssql.insertion \in Insertions /\ ctx.values \in [Slots -> Values]
              /\ ctx.id \in Tables \cup {NoName} /\ ctx.value_length \in 0 .. MaxNum
            BY <1>1, <1>3, <1>4 DEF TypeOK, QueryOK, ContextOK
        <3>. QED
            BY <3>1, <1>8, InsertsInitType
    <2>2. QueryOK(ssql) /\ "SCF_INSERT" \in QueryFlags
        BY <1>1 DEF TypeOK, QueryFlags
    <2>. QED
        BY <1>6, <2>1, <2>2, QueryUpdate
<1>10. TypeOK'
    <2>1. steps' \in Nat /\ done' \in BOOLEAN
        <3>1. steps' \in Nat
            BY <1>1, <1>5 DEF TypeOK
        <3>2. done' \in BOOLEAN
            BY <1>5
        <3>. QED
            BY <3>1, <3>2
    <2>2. pos' \in [c : 1 .. Len(input.cmds) + 1, i : Nat, j : Nat]
        BY <1>1, <1>2, <1>5 DEF TypeOK
    <2>3. ContextOK(ctx')
        BY <1>1, <1>7, MaxNumPos DEF TypeOK, ContextOK, Slots
    <2>. QED
        BY <1>1, <1>5, <1>9, <2>1, <2>2, <2>3, TypeStep
<1>11. Progress(input', pos', done', ssql', ctx')
    <2>1. ssql'.create_table = ssql.create_table
        BY <1>6
    <2>2. NoCreateUpTo(input, pos'.c - 1) => ssql'.create_table.attribute_count = 0
        BY <1>1, <1>2, <1>5, <2>1 DEF Progress, TypeOK
    <2>3. pos'.c \in 1 .. Len(input.cmds) + 1 /\ input \in Inputs
        BY <1>1, <1>2, <1>5 DEF TypeOK
    <2>4. pos'.i = 0 /\ pos'.j = 0 /\ ctx'.value_length = 0 /\ ctx'.insert_index = 0
        BY <1>5, <1>7
    <2>5. Progress(input, pos', FALSE, ssql', ctx')
        BY <2>2, <2>3, <2>4, StartProgress
    <2>. QED
        BY <1>5, <2>5
<1>. QED
    BY <1>10, <1>11 DEF IInv

(* ID_get of a column definition: its name into ctx.id.                   *)
LEMMA CreateIdGetStep ==
    ASSUME FitsArrays, IInv, CreateIdGet
    PROVE  IInv'
<1>1. TypeOK /\ Progress(input, pos, done, ssql, ctx)
    BY DEF IInv
<1>2. /\ ~done /\ pos.c <= Len(input.cmds) /\ CurCmd.cmd = "create_table"
      /\ pos.i < Len(CurCmd.attrs) /\ pos.j = 0
    BY DEF CreateIdGet, Reducing
<1>3. CurCmd.attrs \in Seq(AttrDef) /\ Len(CurCmd.attrs) \in 1 .. MaxNum
    BY <1>1, <1>2, CurCmdShape
<1>4. CreateProgress(CurCmd, pos, ssql, ctx)
    BY <1>1, <1>2 DEF Progress, CurCmd
<1>5. /\ input' = input /\ done' = FALSE /\ ssql' = ssql /\ steps' = steps + 1
      /\ pos' = [c |-> pos.c, i |-> pos.i, j |-> 1]
    BY <1>1, <1>2 DEF CreateIdGet, Reducing, TypeOK
<1>6. ctx' = [value_length |-> ctx.value_length, insert_index |-> ctx.insert_index,
              values |-> ctx.values, id |-> CurCmd.attrs[pos.i + 1].name]
    BY <1>1 DEF CreateIdGet, TypeOK, ContextOK
<1>7. CurCmd.attrs[pos.i + 1].name \in Columns
    <2>1. pos.i + 1 \in 1 .. Len(CurCmd.attrs)
        BY <1>2, <1>3, <1>4 DEF CreateProgress
    <2>2. CurCmd.attrs[pos.i + 1] \in AttrDef
        BY <1>3, <2>1
    <2>. QED
        BY <2>2 DEF AttrDef
<1>8. TypeOK'
    <2>1. steps' \in Nat /\ done' \in BOOLEAN
        <3>1. steps' \in Nat
            BY <1>1, <1>5 DEF TypeOK
        <3>2. done' \in BOOLEAN
            BY <1>5
        <3>. QED
            BY <3>1, <3>2
    <2>2. pos' \in [c : 1 .. Len(input.cmds) + 1, i : Nat, j : Nat]
        BY <1>1, <1>5 DEF TypeOK
    <2>3. ContextOK(ctx')
        BY <1>1, <1>6, <1>7 DEF TypeOK, ContextOK
    <2>4. QueryOK(ssql')
        BY <1>1, <1>5 DEF TypeOK
    <2>. QED
        BY <1>1, <1>5, <2>1, <2>2, <2>3, <2>4, TypeStep
<1>9. Progress(input', pos', done', ssql', ctx')
    <2>1. CreateProgress(CurCmd, pos', ssql, ctx')
        BY <1>2, <1>4, <1>5, <1>6 DEF CreateProgress
    <2>2. NoCreateUpTo(input, pos.c) => ssql.create_table.attribute_count = 0
        BY <1>1, <1>2 DEF Progress
    <2>3. pos'.c \in 1 .. Len(input.cmds) /\ input.cmds[pos'.c] = CurCmd /\ input \in Inputs
        BY <1>1, <1>2, <1>5 DEF TypeOK, CurCmd
    <2>4. Progress(input, pos', FALSE, ssql, ctx')
        BY <1>2, <2>1, <2>2, <2>3, <1>5, InsideProgress
    <2>. QED
        BY <1>5, <2>4
<1>. QED
    BY <1>8, <1>9 DEF IInv

(* attr_def: the column appended at attribute_count, below MAX_NUM.       *)
LEMMA CreateAttrDefStep ==
    ASSUME FitsArrays, IInv, CreateAttrDef
    PROVE  IInv'
<1>1. TypeOK /\ Progress(input, pos, done, ssql, ctx)
    BY DEF IInv
<1>2. /\ ~done /\ pos.c <= Len(input.cmds) /\ CurCmd.cmd = "create_table" /\ pos.j = 1
    BY DEF CreateAttrDef, Reducing
<1>3. CurCmd.attrs \in Seq(AttrDef) /\ Len(CurCmd.attrs) \in 1 .. MaxNum
    BY <1>1, <1>2, CurCmdShape
<1>4. /\ pos.i \in 0 .. Len(CurCmd.attrs) - 1 /\ ctx.id = CurCmd.attrs[pos.i + 1].name
      /\ ctx.value_length = pos.i /\ ctx.insert_index = 0
      /\ ssql.create_table.attribute_count = pos.i
    <2>1. CreateProgress(CurCmd, pos, ssql, ctx)
        BY <1>1, <1>2 DEF Progress, CurCmd
    <2>. QED
        BY <1>2, <1>3, <2>1 DEF CreateProgress
<1>5. /\ input' = input /\ done' = FALSE /\ steps' = steps + 1
      /\ pos' = [c |-> pos.c, i |-> pos.i + 1, j |-> 0]
    BY <1>1, <1>2 DEF CreateAttrDef, Reducing, TypeOK
<1>. DEFINE a == CurCmd.attrs[pos.i + 1]
            ai == attr_info_init(ctx.id, type_of(a.type), IF a.len = 0 THEN 4 ELSE a.len,
                                 opt_null(a.null))
            ct == create_table_append_attribute(ssql.create_table, ai)
<1>6. ssql' = [ssql EXCEPT !.create_table = ct]
    BY DEF CreateAttrDef
<1>7. ctx' = [value_length |-> ctx.value_length + 1, insert_index |-> ctx.insert_index,
              values |-> ctx.values, id |-> ctx.id]
    BY <1>1 DEF CreateAttrDef, TypeOK, ContextOK
<1>8. ct \in CreateTables /\ ct.attribute_count = pos.i + 1
    <2>1. a \in AttrDef /\ ctx.id \in Columns
        <3>1. a \in AttrDef
            BY <1>3, <1>4
        <3>. QED
            BY <3>1, <1>4 DEF AttrDef
    <2>2. ai \in Attrs
        BY <2>1, AttrInfoType
    <2>3. ssql.create_table \in CreateTables /\ ssql.create_table.attribute_count < MaxNum
        BY <1>1, <1>3, <1>4, MaxNumPos DEF TypeOK, QueryOK
    <2>. QED
        BY <1>4, <2>2, <2>3, AppendType
<1>9. TypeOK'
    <2>1. steps' \in Nat /\ done' \in BOOLEAN
        <3>1. steps' \in Nat
            BY <1>1, <1>5 DEF TypeOK
        <3>2. done' \in BOOLEAN
            BY <1>5
        <3>. QED
            BY <3>1, <3>2
    <2>2. pos' \in [c : 1 .. Len(input.cmds) + 1, i : Nat, j : Nat]
        BY <1>1, <1>4, <1>5 DEF TypeOK
    <2>3. ContextOK(ctx')
        BY <1>1, <1>3, <1>4, <1>7, MaxNumPos DEF TypeOK, ContextOK
    <2>4. QueryOK(ssql')
        <3>1. QueryOK(ssql)
            BY <1>1 DEF TypeOK
        <3>. QED
            BY <1>6, <1>8, <3>1, QueryUpdate
    <2>. QED
        BY <1>1, <1>5, <2>1, <2>2, <2>3, <2>4, TypeStep
<1>10. Progress(input', pos', done', ssql', ctx')
    <2>1. ssql'.create_table = ct
        BY <1>6, <1>1 DEF TypeOK, QueryOK
    <2>2. CreateProgress(CurCmd, pos', ssql', ctx')
        BY <1>3, <1>4, <1>5, <1>7, <1>8, <2>1 DEF CreateProgress
    <2>3. pos'.c \in 1 .. Len(input.cmds) /\ input.cmds[pos'.c] = CurCmd /\ input \in Inputs
        BY <1>1, <1>2, <1>5 DEF TypeOK, CurCmd
    <2>4. ~NoCreateUpTo(input, pos'.c)
        BY <1>2, <2>3, InCreate DEF CurCmd
    <2>5. Progress(input, pos', FALSE, ssql', ctx')
        BY <1>2, <2>2, <2>3, <2>4, InsideProgress
    <2>. QED
        BY <1>5, <2>5
<1>. QED
    BY <1>9, <1>10 DEF IInv

(* create_table: ... SEMICOLON, SCF_CREATE_TABLE and the table's name.    *)
LEMMA CreateEndStep ==
    ASSUME OneCreate, FitsArrays, IInv, CreateEnd
    PROVE  IInv'
<1>1. TypeOK /\ Progress(input, pos, done, ssql, ctx)
    BY DEF IInv
<1>2. /\ ~done /\ pos.c <= Len(input.cmds) /\ CurCmd.cmd = "create_table"
      /\ pos.i = Len(CurCmd.attrs) /\ pos.j = 0
    BY DEF CreateEnd, Reducing
<1>3. CurCmd.table \in Tables
    BY <1>1, <1>2, CurCmdShape
<1>5. /\ input' = input /\ done' = FALSE /\ steps' = steps + 1
      /\ pos' = [c |-> pos.c + 1, i |-> 0, j |-> 0]
    BY <1>1, <1>2 DEF CreateEnd, Reducing, TypeOK, NextCmd
<1>6. ssql' = [ssql EXCEPT !.flag = "SCF_CREATE_TABLE",
                           !.create_table.relation_name = CurCmd.table]
    BY DEF CreateEnd
<1>7. ctx' = [value_length |-> 0, insert_index |-> ctx.insert_index,
              values |-> ctx.values, id |-> ctx.id]
    BY <1>1 DEF CreateEnd, TypeOK, ContextOK
<1>8. ctx.insert_index = 0
    <2>1. CreateProgress(CurCmd, pos, ssql, ctx)
        BY <1>1, <1>2 DEF Progress, CurCmd
    <2>. QED
        BY <2>1 DEF CreateProgress
<1>9. TypeOK'
    <2>1. steps' \in Nat /\ done' \in BOOLEAN
        <3>1. steps' \in Nat
            BY <1>1, <1>5 DEF TypeOK
        <3>2. done' \in BOOLEAN
            BY <1>5
        <3>. QED
            BY <3>1, <3>2
    <2>2. pos' \in [c : 1 .. Len(input.cmds) + 1, i : Nat, j : Nat]
        BY <1>1, <1>2, <1>5 DEF TypeOK
    <2>3. ContextOK(ctx')
        BY <1>1, <1>7, MaxNumPos DEF TypeOK, ContextOK
    <2>4. QueryOK(ssql')
        <3>1. QueryOK(ssql) /\ "SCF_CREATE_TABLE" \in QueryFlags
            BY <1>1 DEF TypeOK, QueryFlags
        <3>. QED
            BY <1>3, <1>6, <3>1, QueryUpdate
    <2>. QED
        BY <1>1, <1>5, <2>1, <2>2, <2>3, <2>4, TypeStep
<1>10. Progress(input', pos', done', ssql', ctx')
    <2>1. pos'.c \in 1 .. Len(input.cmds) + 1 /\ input \in Inputs /\ pos'.c - 1 = pos.c
          /\ pos.c \in 1 .. Len(input.cmds)
        BY <1>1, <1>2, <1>5 DEF TypeOK
    <2>2. ~NoCreateUpTo(input, pos'.c - 1)
        BY <1>2, <2>1, InCreate DEF CurCmd
    <2>3. pos'.i = 0 /\ pos'.j = 0 /\ ctx'.value_length = 0 /\ ctx'.insert_index = 0
        BY <1>5, <1>7, <1>8
    <2>4. Progress(input, pos', FALSE, ssql', ctx')
        BY <2>1, <2>2, <2>3, StartProgress
    <2>. QED
        BY <1>5, <2>4
<1>. QED
    BY <1>9, <1>10 DEF IInv

(* A command with no member, DROP TABLE or DESC: the flag, the name, and *)
(* the context untouched at the next command's start.                     *)
LEMMA NextCommandProgress ==
    ASSUME OneCreate, FitsArrays, IInv, ~done, pos.c <= Len(input.cmds),
           CurCmd.cmd \in {"flag", "drop_table", "desc_table"},
           input' = input, done' = FALSE, pos' = NextCmd, ctx' = ctx,
           ssql'.create_table = ssql.create_table
    PROVE  Progress(input', pos', done', ssql', ctx')
<1>1. TypeOK /\ Progress(input, pos, done, ssql, ctx)
    BY DEF IInv
<1>2. AtCommandStart(pos, ctx)
    BY <1>1 DEF Progress, CurCmd
<1>3. pos'.c \in 1 .. Len(input.cmds) + 1 /\ input \in Inputs /\ pos'.c - 1 = pos.c
      /\ pos'.i = 0 /\ pos'.j = 0
    BY <1>1 DEF TypeOK, NextCmd
<1>4. NoCreateUpTo(input, pos'.c - 1) => ssql'.create_table.attribute_count = 0
    BY <1>1, <1>3 DEF Progress
<1>5. Progress(input, pos', FALSE, ssql', ctx')
    BY <1>2, <1>3, <1>4, StartProgress DEF AtCommandStart
<1>. QED
    BY <1>5

LEMMA FlagCommandStep ==
    ASSUME OneCreate, FitsArrays, IInv, FlagCommand
    PROVE  IInv'
<1>1. TypeOK
    BY DEF IInv
<1>2. /\ ~done /\ pos.c <= Len(input.cmds) /\ CurCmd.cmd = "flag"
      /\ input' = input /\ done' = FALSE /\ pos' = NextCmd /\ ctx' = ctx /\ steps' = steps + 1
      /\ ssql' = [ssql EXCEPT !.flag = CurCmd.flag]
    BY DEF FlagCommand, Reducing
<1>3. QueryOK(ssql')
    <2>1. CurCmd.flag \in QueryFlags /\ QueryOK(ssql)
        BY <1>1, <1>2, CurCmdShape DEF QueryFlags, TypeOK
    <2>. QED
        BY <1>2, <2>1, QueryUpdate
<1>4. TypeOK'
    <2>1. steps' \in Nat /\ done' \in BOOLEAN
        <3>1. steps' \in Nat
            BY <1>1, <1>2 DEF TypeOK
        <3>2. done' \in BOOLEAN
            BY <1>2
        <3>. QED
            BY <3>1, <3>2
    <2>2. pos' \in [c : 1 .. Len(input.cmds) + 1, i : Nat, j : Nat]
        BY <1>1, <1>2 DEF TypeOK, NextCmd
    <2>3. ContextOK(ctx')
        BY <1>1, <1>2 DEF TypeOK
    <2>. QED
        BY <1>1, <1>2, <1>3, <2>1, <2>2, <2>3, TypeStep
<1>5. ssql'.create_table = ssql.create_table
    BY <1>2
<1>. QED
    BY <1>2, <1>4, <1>5, NextCommandProgress DEF IInv

(* DROP TABLE and DESC: the flag and the table name.                      *)
LEMMA DropTableStep ==
    ASSUME OneCreate, FitsArrays, IInv, DropTable
    PROVE  IInv'
<1>1. TypeOK
    BY DEF IInv
<1>2. /\ ~done /\ pos.c <= Len(input.cmds) /\ CurCmd.cmd = "drop_table"
      /\ input' = input /\ done' = FALSE /\ pos' = NextCmd /\ ctx' = ctx /\ steps' = steps + 1
      /\ ssql' = [ssql EXCEPT !.flag = "SCF_DROP_TABLE", !.drop_table = CurCmd.table]
    BY DEF DropTable, Reducing
<1>3. QueryOK(ssql')
    <2>1. CurCmd.table \in Tables /\ "SCF_DROP_TABLE" \in QueryFlags /\ QueryOK(ssql)
        BY <1>1, <1>2, CurCmdShape DEF QueryFlags, TypeOK
    <2>. QED
        BY <1>2, <2>1, QueryUpdate
<1>4. TypeOK'
    <2>1. steps' \in Nat /\ done' \in BOOLEAN
        <3>1. steps' \in Nat
            BY <1>1, <1>2 DEF TypeOK
        <3>2. done' \in BOOLEAN
            BY <1>2
        <3>. QED
            BY <3>1, <3>2
    <2>2. pos' \in [c : 1 .. Len(input.cmds) + 1, i : Nat, j : Nat]
        BY <1>1, <1>2 DEF TypeOK, NextCmd
    <2>3. ContextOK(ctx')
        BY <1>1, <1>2 DEF TypeOK
    <2>. QED
        BY <1>1, <1>2, <1>3, <2>1, <2>2, <2>3, TypeStep
<1>5. ssql'.create_table = ssql.create_table
    BY <1>2
<1>. QED
    BY <1>2, <1>4, <1>5, NextCommandProgress DEF IInv

LEMMA DescTableStep ==
    ASSUME OneCreate, FitsArrays, IInv, DescTable
    PROVE  IInv'
<1>1. TypeOK
    BY DEF IInv
<1>2. /\ ~done /\ pos.c <= Len(input.cmds) /\ CurCmd.cmd = "desc_table"
      /\ input' = input /\ done' = FALSE /\ pos' = NextCmd /\ ctx' = ctx /\ steps' = steps + 1
      /\ ssql' = [ssql EXCEPT !.flag = "SCF_DESC_TABLE", !.desc_table = CurCmd.table]
    BY DEF DescTable, Reducing
<1>3. QueryOK(ssql')
    <2>1. CurCmd.table \in Tables /\ "SCF_DESC_TABLE" \in QueryFlags /\ QueryOK(ssql)
        BY <1>1, <1>2, CurCmdShape DEF QueryFlags, TypeOK
    <2>. QED
        BY <1>2, <2>1, QueryUpdate
<1>4. TypeOK'
    <2>1. steps' \in Nat /\ done' \in BOOLEAN
        <3>1. steps' \in Nat
            BY <1>1, <1>2 DEF TypeOK
        <3>2. done' \in BOOLEAN
            BY <1>2
        <3>. QED
            BY <3>1, <3>2
    <2>2. pos' \in [c : 1 .. Len(input.cmds) + 1, i : Nat, j : Nat]
        BY <1>1, <1>2 DEF TypeOK, NextCmd
    <2>3. ContextOK(ctx')
        BY <1>1, <1>2 DEF TypeOK
    <2>. QED
        BY <1>1, <1>2, <1>3, <2>1, <2>2, <2>3, TypeStep
<1>5. ssql'.create_table = ssql.create_table
    BY <1>2
<1>. QED
    BY <1>2, <1>4, <1>5, NextCommandProgress DEF IInv

(* yyerror: query_reset, SCF_ERROR and the counters cleared; yyparse has  *)
(* returned, so only the types remain to be kept.                          *)
LEMMA yyerrorStep ==
    ASSUME FitsArrays, IInv, yyerror
    PROVE  IInv'
<1>1. TypeOK
    BY DEF IInv
<1>2. /\ input' = input /\ pos' = pos /\ steps' = steps /\ done' = TRUE
      /\ ssql' = [query_reset(ssql) EXCEPT !.flag = "SCF_ERROR",
                                           !.insertion.value_num = [g \in Slots |-> 0],
                                           !.insertion.group_num = 0]
    BY DEF yyerror
<1>3. ctx' = [value_length |-> 0, insert_index |-> 0, values |-> ctx.values, id |-> ctx.id]
    BY <1>1 DEF yyerror, TypeOK, ContextOK
<1>4. QueryOK(ssql')
    <2>1. QueryOK(query_reset(ssql))
        BY <1>1, ResetType DEF TypeOK
    <2>. QED
        BY <1>2, <2>1, ErrorType
<1>5. TypeOK'
    <2>1. steps' \in Nat /\ done' \in BOOLEAN
        <3>1. steps' \in Nat
            BY <1>1, <1>2 DEF TypeOK
        <3>2. done' \in BOOLEAN
            BY <1>2
        <3>. QED
            BY <3>1, <3>2
    <2>2. pos' \in [c : 1 .. Len(input.cmds) + 1, i : Nat, j : Nat]
        BY <1>1, <1>2 DEF TypeOK
    <2>3. ContextOK(ctx')
        BY <1>1, <1>3, MaxNumPos DEF TypeOK, ContextOK, Slots
    <2>. QED
        BY <1>1, <1>2, <1>4, <2>1, <2>2, <2>3, TypeStep
<1>6. Progress(input', pos', done', ssql', ctx')
    BY <1>2 DEF Progress
<1>. QED
    BY <1>5, <1>6 DEF IInv

(* End of input: yyparse accepts and nothing else changes.                *)
LEMMA AcceptStep ==
    ASSUME FitsArrays, IInv, Accept
    PROVE  IInv'
<1>1. TypeOK
    BY DEF IInv
<1>2. /\ input' = input /\ pos' = pos /\ steps' = steps /\ done' = TRUE
      /\ ssql' = ssql /\ ctx' = ctx
    BY DEF Accept
<1>3. TypeOK'
    <2>1. steps' \in Nat /\ done' \in BOOLEAN
        <3>1. steps' \in Nat
            BY <1>1, <1>2 DEF TypeOK
        <3>2. done' \in BOOLEAN
            BY <1>2
        <3>. QED
            BY <3>1, <3>2
    <2>2. pos' \in [c : 1 .. Len(input.cmds) + 1, i : Nat, j : Nat]
        BY <1>1, <1>2 DEF TypeOK
    <2>3. QueryOK(ssql') /\ ContextOK(ctx')
        BY <1>1, <1>2 DEF TypeOK
    <2>. QED
        BY <1>1, <1>2, <2>1, <2>2, <2>3, TypeStep
<1>4. Progress(input', pos', done', ssql', ctx')
    BY <1>2 DEF Progress
<1>. QED
    BY <1>3, <1>4 DEF IInv

(* The next request: a new Query and ParserContext on any string.         *)
LEMMA RequestStep ==
    ASSUME OneCreate, FitsArrays, Request
    PROVE  IInv'
<1>1. /\ input' \in Inputs /\ pos' = [c |-> 1, i |-> 0, j |-> 0] /\ steps' = 0
      /\ done' = FALSE /\ ssql' = query_init /\ ctx' = EmptyContext
    BY DEF Request
<1>2. Len(input'.cmds) \in Nat
    BY <1>1, MaxNumPos DEF Input
<1>3. TypeOK'
    <2>1. pos' \in [c : 1 .. Len(input'.cmds) + 1, i : Nat, j : Nat]
        BY <1>1, <1>2
    <2>2. steps' \in Nat /\ done' \in BOOLEAN
        BY <1>1
    <2>3. QueryOK(ssql') /\ ContextOK(ctx')
        BY <1>1, FreshState
    <2>. QED
        BY <1>1, <2>1, <2>2, <2>3 DEF TypeOK
<1>4. Progress(input', pos', FALSE, ssql', ctx')
    <2>1. /\ pos'.c \in 1 .. Len(input'.cmds) + 1 /\ pos'.i = 0 /\ pos'.j = 0
          /\ ctx'.value_length = 0 /\ ctx'.insert_index = 0
          /\ ssql'.create_table.attribute_count = 0
        BY <1>1, <1>2, FreshState
    <2>. QED
        BY <1>1, <2>1, StartProgress
<1>. QED
    BY <1>1, <1>3, <1>4 DEF IInv

LEMMA StutterStep ==
    ASSUME FitsArrays, IInv, UNCHANGED vars
    PROVE  IInv'
BY DEF IInv, TypeOK, Progress, QueryOK, ContextOK, vars, InsertProgress, CreateProgress,
       AtCommandStart, NoCreateUpTo

LEMMA NextIInv ==
    ASSUME OneCreate, FitsArrays, IInv, [Next]_vars
    PROVE  IInv'
<1>1. CASE InsertIdGet
    BY <1>1, InsertIdGetStep
<1>2. CASE InsertValue
    BY <1>2, InsertValueStep
<1>3. CASE InsertGroupEnd
    BY <1>3, InsertGroupEndStep
<1>4. CASE InsertEnd
    BY <1>4, InsertEndStep
<1>5. CASE CreateIdGet
    BY <1>5, CreateIdGetStep
<1>6. CASE CreateAttrDef
    BY <1>6, CreateAttrDefStep
<1>7. CASE CreateEnd
    BY <1>7, CreateEndStep
<1>8. CASE FlagCommand
    BY <1>8, FlagCommandStep
<1>9. CASE DropTable
    BY <1>9, DropTableStep
<1>10. CASE DescTable
    BY <1>10, DescTableStep
<1>11. CASE yyerror
    BY <1>11, yyerrorStep
<1>12. CASE Accept
    BY <1>12, AcceptStep
<1>13. CASE Request
    BY <1>13, RequestStep
<1>14. CASE UNCHANGED vars
    BY <1>14, StutterStep
<1>. QED
    BY <1>1, <1>2, <1>3, <1>4, <1>5, <1>6, <1>7, <1>8, <1>9, <1>10, <1>11, <1>12,
       <1>13, <1>14, Zenon DEF Next, Parser

(* sql_parse never writes the Query or the ParserContext outside its      *)
(* MAX_NUM arrays, for every MAX_NUM and every set of strings the grammar *)
(* accepts whose INSERTs have fewer than MAX_NUM row groups of at most     *)
(* MAX_NUM values, whose CREATE TABLE has at most MAX_NUM columns, and    *)
(* with at most one CREATE TABLE per string.  The run                    *)
(* parser_array_overrun parses strings that break each hypothesis, and    *)
(* the code writes past an array on them.                                 *)
THEOREM TypeCorrect ==
    ASSUME OneCreate, FitsArrays
    PROVE  Spec => []TypeOK
<1>1. Init => IInv
    BY InitIInv
<1>2. IInv /\ [Next]_vars => IInv'
    BY NextIInv
<1>3. IInv => TypeOK
    BY DEF IInv
<1>. QED
    BY <1>1, <1>2, <1>3, PTL DEF Spec
=============================================================================
