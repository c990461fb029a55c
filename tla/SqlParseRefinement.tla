------------------------- MODULE SqlParseRefinement -------------------------
(***************************************************************************)
(* The safety half of QueryMeansText, for every MAX_NUM and every set of  *)
(* strings that satisfies InputsAssumption and FitsArrays with at most    *)
(* one CREATE TABLE per string: sql_parse with the grammar actions of     *)
(* yacc_sql.tab.c and the builders of parse.cpp implements the one-step   *)
(* parse of ParsedQuery under the mapping AbsQuery.  Every grammar action *)
(* is a stutter of the abstract parse, yyerror and the accept are its     *)
(* Parse step, and a new request is its Request step.                     *)
(*                                                                         *)
(* The reduction counts Reductions and TotalReductions are recursive      *)
(* functions; their defining equations are proved here from the existence *)
(* of a function that satisfies them, by least-counterexample induction.  *)
(***************************************************************************)
EXTENDS SqlParseProofs, WellFoundedInduction

(* The grammar reductions of the first k commands of cs, for every k.      *)
PrefixRed(cs) ==
    LET T[k \in 0 .. Len(cs)] == IF k = 0 THEN 0 ELSE T[k - 1] + Reductions(cs[k])
    IN  T

(* The reductions of the first g row groups of an INSERT (its value rules *)
(* and the end of each group).                                             *)
GroupRed(c) ==
    LET R[g \in 0 .. Len(c.rows)] == IF g = 0 THEN 0 ELSE R[g - 1] + Len(c.rows[g]) + 1
    IN  R

(* The reductions done inside command c at place p: for an INSERT, ID_get *)
(* and then the groups done and the values of the current one; for a      *)
(* CREATE TABLE, two per column definition done and the current ID_get.   *)
Within(c, p) ==
    CASE c.cmd = "insert" -> IF p.i = 0 THEN 0 ELSE 1 + GroupRed(c)[p.i - 1] + p.j
      [] c.cmd = "create_table" -> 2 * p.i + p.j
      [] OTHER -> 0

(* steps counts the reductions of the commands before pos.c and of the    *)
(* current one so far, and never passes the bad token's place.            *)
StepsCount ==
    ~done =>
        /\ steps = PrefixRed(input.cmds)[pos.c - 1]
                   + (IF pos.c <= Len(input.cmds) THEN Within(CurCmd, pos) ELSE 0)
        /\ input.stop # NoError => steps <= input.stop

(* Row group g (from 0) of an INSERT's rows stored in the Query.          *)
GroupStored(ins, rows, g) ==
    /\ ins.value_num[g] = Len(rows[g + 1])
    /\ \A k \in 0 .. Len(rows[g + 1]) - 1 : ins.values[g][k] = value_of(rows[g + 1][k + 1])

(* What the Query and the context hold of the command being parsed: the  *)
(* row groups stored and the values of the current one, or the column     *)
(* definitions appended.                                                  *)
InsertContent ==
    ~done /\ pos.c <= Len(input.cmds) /\ CurCmd.cmd = "insert" /\ pos.i >= 1 =>
        /\ \A g \in 0 .. pos.i - 2 : GroupStored(ssql.insertion, CurCmd.rows, g)
        /\ pos.i <= Len(CurCmd.rows) =>
             \A k \in 0 .. pos.j - 1 : ctx.values[k] = value_of(CurCmd.rows[pos.i][k + 1])

CreateContent ==
    ~done /\ pos.c <= Len(input.cmds) /\ CurCmd.cmd = "create_table" =>
        \A k \in 0 .. pos.i - 1 :
            ssql.create_table.attributes[k] = ColumnOf(CurCmd.attrs[k + 1])

(* Between two commands the caller would read the last one; before the   *)
(* first command ends the flag is still query_init's SCF_ERROR.           *)
QueryContent ==
    ~done =>
        /\ pos.c = 1 => ssql.flag = "SCF_ERROR"
        /\ pos.c > 1 /\ pos.i = 0 /\ pos.j = 0 => QueryRead = QueryOf(input.cmds[pos.c - 1])

(* The invariant the refinement rests on.                                 *)
Extra == StepsCount /\ InsertContent /\ CreateContent /\ QueryContent
RInv == IInv /\ Extra
-----------------------------------------------------------------------------
(* A non-empty set of naturals has a least element (the least             *)
(* counterexample of the inductions below).                               *)
LEMMA NatLeast ==
    ASSUME NEW S \in SUBSET Nat, S # {}
    PROVE  \E m \in S : \A x \in S : m <= x
<1>1. \E x \in S : \A y \in S : ~(<<y, x>> \in OpToRel(<, Nat))
    BY NatLessThanWellFounded, WFMin
<1>2. ASSUME NEW x \in S, NEW y \in S, ~(<<y, x>> \in OpToRel(<, Nat))
      PROVE  x <= y
    <2>1. <<y, x>> \in Nat \X Nat
        OBVIOUS
    <2>. QED
        BY <2>1, <1>2 DEF OpToRel
<1>. QED
    BY <1>1, <1>2

(* A running sum over 0 .. n exists: the recursive functions of SqlText  *)
(* (T of TotalReductions, R of Reductions) are running sums of this form. *)
LEMMA RunningSumExists ==
    ASSUME NEW n \in Nat, NEW d
    PROVE  \E f : f = [k \in 0 .. n |-> IF k = 0 THEN 0 ELSE f[k - 1] + d[k]]
<1>. DEFINE Ok(m) == \E g : g = [k \in 0 .. m |-> IF k = 0 THEN 0 ELSE g[k - 1] + d[k]]
            Bad == {m \in 0 .. n : ~Ok(m)}
<1>0. n \in 0 .. n /\ Bad \in SUBSET Nat
    OBVIOUS
<1>. SUFFICES Bad = {}
    BY <1>0, Zenon
<1>. SUFFICES ASSUME Bad # {} PROVE FALSE
    OBVIOUS
<1>1. PICK m \in Bad : \A x \in Bad : m <= x
    BY <1>0, NatLeast, Zenon
<1>2. Ok(0)
    <2>. DEFINE g0 == [k \in 0 .. 0 |-> 0]
    <2>1. g0 = [k \in 0 .. 0 |-> IF k = 0 THEN 0 ELSE g0[k - 1] + d[k]]
        OBVIOUS
    <2>. QED
        BY <2>1, Zenon
<1>3. m # 0
    BY <1>1, <1>2
<1>4. Ok(m - 1)
    <2>1. m - 1 \in 0 .. n /\ m - 1 < m
        BY <1>1, <1>3
    <2>. QED
        BY <2>1, <1>1
<1>5. PICK g : g = [k \in 0 .. m - 1 |-> IF k = 0 THEN 0 ELSE g[k - 1] + d[k]]
    BY <1>4
<1>6. Ok(m)
    <2>. DEFINE h == [k \in 0 .. m |-> IF k < m THEN g[k] ELSE g[m - 1] + d[m]]
    <2>0. m \in Nat /\ m >= 1
        BY <1>1, <1>3
    <2>1. \A k \in 0 .. m : h[k] = IF k = 0 THEN 0 ELSE h[k - 1] + d[k]
        <3>. SUFFICES ASSUME NEW k \in 0 .. m
                      PROVE  h[k] = IF k = 0 THEN 0 ELSE h[k - 1] + d[k]
            OBVIOUS
        <3>1. CASE k = 0
            BY <3>1, <2>0, <1>5
        <3>2. CASE k # 0 /\ k < m
            <4>1. h[k] = g[k] /\ h[k - 1] = g[k - 1]
                BY <3>2, <2>0
            <4>2. g[k] = g[k - 1] + d[k]
                BY <3>2, <2>0, <1>5
            <4>. QED
                BY <4>1, <4>2, <3>2
        <3>3. CASE k = m
            <4>1. h[k] = g[m - 1] + d[m] /\ h[k - 1] = g[m - 1]
                BY <3>3, <2>0
            <4>. QED
                BY <4>1, <3>3, <2>0
        <3>. QED
            BY <3>1, <3>2, <3>3, <2>0
    <2>2. h = [k \in 0 .. m |-> IF k = 0 THEN 0 ELSE h[k - 1] + d[k]]
        BY <2>1
    <2>. QED
        BY <2>2, Zenon
<1>. QED
    BY <1>1, <1>6

(* The equation of T in TotalReductions, for every string.                *)
LEMMA PrefixRedEq ==
    ASSUME NEW S, NEW cs \in Seq(S)
    PROVE  PrefixRed(cs) = [k \in 0 .. Len(cs) |->
                              IF k = 0 THEN 0 ELSE PrefixRed(cs)[k - 1] + Reductions(cs[k])]
<1>1. \E f : f = [k \in 0 .. Len(cs) |-> IF k = 0 THEN 0 ELSE f[k - 1] + Reductions(cs[k])]
    <2>0. Len(cs) \in Nat
        OBVIOUS
    <2>1. PICK f : f = [k \in 0 .. Len(cs) |-> IF k = 0 THEN 0
                          ELSE f[k - 1] + [j \in 1 .. Len(cs) |-> Reductions(cs[j])][k]]
        BY <2>0, RunningSumExists, Zenon
    <2>2. \A k \in 0 .. Len(cs) : k # 0 =>
             [j \in 1 .. Len(cs) |-> Reductions(cs[j])][k] = Reductions(cs[k])
        BY <2>0
    <2>3. f = [k \in 0 .. Len(cs) |-> IF k = 0 THEN 0 ELSE f[k - 1] + Reductions(cs[k])]
        BY <2>1, <2>2, Zenon
    <2>. QED
        BY <2>3
<1>. QED
    BY <1>1 DEF PrefixRed

(* TotalReductions is the count of all the commands.                      *)
LEMMA TotalIsPrefix ==
    ASSUME NEW cs
    PROVE  TotalReductions(cs) = PrefixRed(cs)[Len(cs)]
BY DEF TotalReductions, PrefixRed
(* A sequence of values over 0 .. n whose first is a natural, and where   *)
(* each natural is followed by a natural, holds naturals only.           *)
LEMMA NatRun ==
    ASSUME NEW n \in Nat, NEW f, f[0] \in Nat,
           \A k \in 1 .. n : f[k - 1] \in Nat => f[k] \in Nat
    PROVE  \A k \in 0 .. n : f[k] \in Nat
<1>. DEFINE Bad == {k \in 0 .. n : f[k] \notin Nat}
<1>0. Bad \in SUBSET Nat
    OBVIOUS
<1>. SUFFICES ASSUME Bad # {} PROVE FALSE
    OBVIOUS
<1>1. PICK m \in Bad : \A x \in Bad : m <= x
    BY <1>0, NatLeast, Zenon
<1>2. m # 0 /\ m \in 1 .. n
    BY <1>1
<1>3. f[m - 1] \in Nat
    <2>1. m - 1 \in 0 .. n /\ ~(m <= m - 1)
        BY <1>2
    <2>. QED
        BY <2>1, <1>1
<1>. QED
    BY <1>1, <1>2, <1>3

(* Adding one more, as the equation of R groups it.                       *)
LEMMA AddOneAssoc ==
    ASSUME NEW a \in Nat, NEW b \in Nat
    PROVE  a + (b + 1) = a + b + 1
OBVIOUS

(* The equation of R in Reductions, and its values are naturals.          *)
LEMMA GroupRedEq ==
    ASSUME NEW c, c.rows \in Seq(Seq(Lit))
    PROVE  /\ GroupRed(c) = [g \in 0 .. Len(c.rows) |->
                               IF g = 0 THEN 0 ELSE GroupRed(c)[g - 1] + Len(c.rows[g]) + 1]
           /\ \A g \in 0 .. Len(c.rows) : GroupRed(c)[g] \in Nat
<1>0. Len(c.rows) \in Nat /\ \A g \in 1 .. Len(c.rows) : Len(c.rows[g]) \in Nat
    OBVIOUS
<1>1. PICK f : f = [g \in 0 .. Len(c.rows) |-> IF g = 0 THEN 0
                      ELSE f[g - 1] + [h \in 1 .. Len(c.rows) |-> Len(c.rows[h]) + 1][g]]
    BY <1>0, RunningSumExists, Zenon
<1>2. ASSUME NEW g \in 1 .. Len(c.rows)
      PROVE  f[g] = f[g - 1] + (Len(c.rows[g]) + 1)
    <2>1. g \in 0 .. Len(c.rows) /\ g # 0
        BY <1>0
    <2>2. f[g] = f[g - 1] + [h \in 1 .. Len(c.rows) |-> Len(c.rows[h]) + 1][g]
        BY <2>1, <1>1, Zenon
    <2>. QED
        BY <2>2
<1>3. \A g \in 0 .. Len(c.rows) : f[g] \in Nat
    <2>1. f[0] \in Nat
        BY <1>1, <1>0
    <2>2. ASSUME NEW g \in 1 .. Len(c.rows), f[g - 1] \in Nat
          PROVE  f[g] \in Nat
        <3>1. f[g] = f[g - 1] + (Len(c.rows[g]) + 1)
            BY <1>2
        <3>. QED
            BY <3>1, <2>2, <1>0
    <2>. QED
        BY <1>0, <2>1, <2>2, NatRun, Zenon
<1>4. f = [g \in 0 .. Len(c.rows) |-> IF g = 0 THEN 0 ELSE f[g - 1] + Len(c.rows[g]) + 1]
    <2>1. ASSUME NEW g \in 0 .. Len(c.rows)
          PROVE  f[g] = IF g = 0 THEN 0 ELSE f[g - 1] + Len(c.rows[g]) + 1
        <3>1. CASE g = 0
            BY <3>1, <1>1, <1>0
        <3>2. CASE g # 0
            <4>1. g \in 1 .. Len(c.rows) /\ g - 1 \in 0 .. Len(c.rows)
                BY <3>2, <1>0
            <4>2. f[g] = f[g - 1] + (Len(c.rows[g]) + 1) /\ f[g - 1] \in Nat
                BY <4>1, <1>2, <1>3
            <4>3. Len(c.rows[g]) \in Nat
                BY <4>1, <1>0
            <4>4. f[g - 1] + (Len(c.rows[g]) + 1) = f[g - 1] + Len(c.rows[g]) + 1
                BY <4>2, <4>3, AddOneAssoc, Zenon
            <4>. QED
                BY <3>2, <4>2, <4>4, Zenon
        <3>. QED
            BY <3>1, <3>2
    <2>2. f = [g \in 0 .. Len(c.rows) |-> f[g]]
        BY <1>1, Zenon
    <2>. QED
        BY <2>1, <2>2, Zenon
<1>5. GroupRed(c) = [g \in 0 .. Len(c.rows) |-> IF g = 0 THEN 0 ELSE GroupRed(c)[g - 1] + Len(c.rows[g]) + 1]
    BY <1>4 DEF GroupRed
<1>6. \A g \in 0 .. Len(c.rows) : GroupRed(c)[g] \in Nat
    <2>1. GroupRed(c)[0] \in Nat
        BY <1>5, <1>0
    <2>2. ASSUME NEW g \in 1 .. Len(c.rows), GroupRed(c)[g - 1] \in Nat
          PROVE  GroupRed(c)[g] \in Nat
        <3>1. g \in 0 .. Len(c.rows) /\ g # 0
            BY <1>0
        <3>2. GroupRed(c)[g] = GroupRed(c)[g - 1] + Len(c.rows[g]) + 1
            BY <3>1, <1>5, Zenon
        <3>. QED
            BY <3>2, <2>2, <1>0
    <2>. QED
        BY <1>0, <2>1, <2>2, NatRun, Zenon
<1>. QED
    BY <1>5, <1>6

(* The reductions of one command.                                         *)
LEMMA ReductionsOf ==
    ASSUME NEW c \in Cmd
    PROVE  /\ c.cmd = "insert" => Reductions(c) = GroupRed(c)[Len(c.rows)] + 2
           /\ c.cmd = "create_table" => Reductions(c) = 2 * Len(c.attrs) + 1
           /\ c.cmd \in {"flag", "drop_table", "desc_table"} => Reductions(c) = 1
           /\ Reductions(c) \in Nat
<1>1. c.cmd = "insert" => Reductions(c) = GroupRed(c)[Len(c.rows)] + 2
    BY DEF Reductions, GroupRed
<1>2. c.cmd = "create_table" => Reductions(c) = 2 * Len(c.attrs) + 1
    BY DEF Reductions
<1>3. c.cmd \in {"flag", "drop_table", "desc_table"} => Reductions(c) = 1
    BY DEF Reductions
<1>4. c.cmd = "insert" => Reductions(c) \in Nat
    <2>. SUFFICES ASSUME c.cmd = "insert" PROVE Reductions(c) \in Nat
        OBVIOUS
    <2>1. c.rows \in Seq(Seq(Lit))
        BY DEF Cmd
    <2>2. GroupRed(c)[Len(c.rows)] \in Nat
        BY <2>1, GroupRedEq
    <2>. QED
        BY <2>2, <1>1
<1>5. c.cmd = "create_table" => Reductions(c) \in Nat
    BY <1>2 DEF Cmd
<1>. QED
    BY <1>1, <1>2, <1>3, <1>4, <1>5 DEF Cmd

(* The reductions of the first k commands are naturals.                   *)
LEMMA PrefixRedNat ==
    ASSUME NEW cs \in Seq(Cmd)
    PROVE  \A k \in 0 .. Len(cs) : PrefixRed(cs)[k] \in Nat
<1>0. Len(cs) \in Nat
    OBVIOUS
<1>1. PrefixRed(cs)[0] \in Nat
    BY <1>0, PrefixRedEq
<1>2. \A k \in 1 .. Len(cs) : PrefixRed(cs)[k - 1] \in Nat => PrefixRed(cs)[k] \in Nat
    <2>. SUFFICES ASSUME NEW k \in 1 .. Len(cs), PrefixRed(cs)[k - 1] \in Nat
                  PROVE  PrefixRed(cs)[k] \in Nat
        OBVIOUS
    <2>1. Reductions(cs[k]) \in Nat
        BY ReductionsOf
    <2>2. PrefixRed(cs)[k] = PrefixRed(cs)[k - 1] + Reductions(cs[k])
        BY PrefixRedEq
    <2>. QED
        BY <2>1, <2>2
<1>. QED
    BY <1>0, <1>1, <1>2, NatRun, Zenon
-----------------------------------------------------------------------------
(* The reductions inside a command, by kind.                              *)
LEMMA WithinOf ==
    ASSUME NEW c \in Cmd, NEW p
    PROVE  /\ c.cmd = "insert" =>
                Within(c, p) = IF p.i = 0 THEN 0 ELSE 1 + GroupRed(c)[p.i - 1] + p.j
           /\ c.cmd = "create_table" => Within(c, p) = 2 * p.i + p.j
           /\ c.cmd \in {"flag", "drop_table", "desc_table"} => Within(c, p) = 0
BY DEF Within

(* At the start of a command no reduction of it is done.                  *)
LEMMA WithinStart ==
    ASSUME NEW c \in Cmd, NEW p, p.i = 0, p.j = 0
    PROVE  Within(c, p) = 0
BY WithinOf DEF Cmd

(* The input is a string of commands.                                    *)
LEMMA InputShape ==
    ASSUME TypeOK
    PROVE  /\ input.cmds \in Seq(Cmd) /\ input.stop \in Int
           /\ Len(input.cmds) \in Nat
           /\ \A k \in 0 .. Len(input.cmds) : PrefixRed(input.cmds)[k] \in Nat
<1>1. input \in Input
    BY MaxNumPos DEF TypeOK
<1>2. input.cmds \in Seq(Cmd) /\ input.stop \in Int
    BY <1>1 DEF Input
<1>. QED
    BY <1>2, PrefixRedNat

(* A reduction that stays inside the current command adds one to the      *)
(* reductions inside it.                                                   *)
LEMMA CountInside ==
    ASSUME TypeOK, StepsCount, ~done, pos.c <= Len(input.cmds),
           input' = input, done' = FALSE, steps' = steps + 1, pos'.c = pos.c,
           steps # input.stop, Within(CurCmd, pos) \in Nat,
           Within(CurCmd, pos') = Within(CurCmd, pos) + 1
    PROVE  StepsCount'
<1>1. /\ steps = PrefixRed(input.cmds)[pos.c - 1] + Within(CurCmd, pos)
      /\ input.stop # NoError => steps <= input.stop
    BY DEF StepsCount
<1>2. CurCmd' = CurCmd /\ pos'.c <= Len(input'.cmds)
    BY DEF CurCmd
<1>3. PrefixRed(input.cmds)[pos.c - 1] \in Nat /\ steps \in Nat /\ input.stop \in Int
    <2>1. pos.c - 1 \in 0 .. Len(input.cmds)
        BY InputShape DEF TypeOK
    <2>. QED
        BY <2>1, InputShape DEF TypeOK
<1>4. steps' = PrefixRed(input'.cmds)[pos'.c - 1] + Within(CurCmd', pos')
    BY <1>1, <1>2, <1>3
<1>5. input'.stop # NoError => steps' <= input'.stop
    BY <1>1, <1>3
<1>. QED
    BY <1>2, <1>4, <1>5 DEF StepsCount

(* The last reduction of the current command: the count moves on to the   *)
(* next command.                                                          *)
LEMMA CountNext ==
    ASSUME TypeOK, StepsCount, ~done, pos.c <= Len(input.cmds),
           input' = input, done' = FALSE, steps' = steps + 1, pos' = NextCmd,
           steps # input.stop, Within(CurCmd, pos) \in Nat,
           Within(CurCmd, pos) + 1 = Reductions(CurCmd)
    PROVE  StepsCount'
<1>1. /\ steps = PrefixRed(input.cmds)[pos.c - 1] + Within(CurCmd, pos)
      /\ input.stop # NoError => steps <= input.stop
    BY DEF StepsCount
<1>2. /\ input.cmds \in Seq(Cmd) /\ Len(input.cmds) \in Nat /\ input.stop \in Int
      /\ pos.c \in 1 .. Len(input.cmds) /\ steps \in Nat
      /\ PrefixRed(input.cmds)[pos.c - 1] \in Nat
    BY InputShape DEF TypeOK
<1>3. PrefixRed(input.cmds)[pos.c] = PrefixRed(input.cmds)[pos.c - 1] + Reductions(CurCmd)
    BY <1>2, PrefixRedEq DEF CurCmd
<1>4. steps' = PrefixRed(input.cmds)[pos.c]
    BY <1>1, <1>2, <1>3
<1>5. pos'.c - 1 = pos.c /\ pos'.i = 0 /\ pos'.j = 0
    BY <1>2 DEF NextCmd
<1>6. pos'.c <= Len(input.cmds) => Within(input.cmds[pos'.c], pos') = 0
    <2>. SUFFICES ASSUME pos'.c <= Len(input.cmds) PROVE Within(input.cmds[pos'.c], pos') = 0
        OBVIOUS
    <2>1. pos'.c \in 1 .. Len(input.cmds)
        BY <1>2 DEF NextCmd
    <2>2. input.cmds[pos'.c] \in Cmd
        BY <1>2, <2>1
    <2>. QED
        BY <2>2, <1>5, WithinStart
<1>7. steps' = PrefixRed(input'.cmds)[pos'.c - 1]
                + (IF pos'.c <= Len(input'.cmds) THEN Within(CurCmd', pos') ELSE 0)
    BY <1>4, <1>5, <1>6, <1>2 DEF CurCmd
<1>8. input'.stop # NoError => steps' <= input'.stop
    BY <1>1, <1>2
<1>. QED
    BY <1>7, <1>8 DEF StepsCount

(* The value rules build the value the literal denotes.                   *)
LEMMA ValueIsLit ==
    ASSUME NEW l \in Lit
    PROVE  value_of(l) = LitValue(l)
<1>1. l.tok \in LitToks /\ l.n \in Nat
    BY DEF Lit
<1>2. l.n * (-1) = -l.n
    BY <1>1
<1>. QED
    BY <1>1, <1>2 DEF value_of, LitValue, LitToks, value_init_integer, value_init_float,
                      NullValue
-----------------------------------------------------------------------------
(* Once yyparse has returned, the conjuncts about a parse in progress hold *)
(* trivially (yyerror, accept).                                            *)
LEMMA ExtraDone ==
    ASSUME done' = TRUE
    PROVE  Extra'
BY DEF Extra, StepsCount, InsertContent, CreateContent, QueryContent

(* The bad token's place, if any, is no earlier than the first reduction. *)
LEMMA StopNotNegative ==
    ASSUME NEW in \in Inputs, in.stop # NoError
    PROVE  0 <= in.stop
BY InputsAssumption

(* A new parse: query_init's flag, nothing counted and nothing stored.    *)
LEMMA InitExtra ==
    ASSUME Init
    PROVE  Extra
<1>1. /\ input \in Inputs /\ pos = [c |-> 1, i |-> 0, j |-> 0] /\ steps = 0
      /\ done = FALSE /\ ssql.flag = "SCF_ERROR"
    BY DEF Init, query_init
<1>2. /\ input.cmds \in Seq(Cmd) /\ Len(input.cmds) \in Nat
      /\ PrefixRed(input.cmds)[0] = 0
    <2>1. input.cmds \in Seq(Cmd)
        BY <1>1, MaxNumPos DEF Input
    <2>. QED
        BY <2>1, PrefixRedEq
<1>3. pos.c <= Len(input.cmds) => Within(CurCmd, pos) = 0
    <2>. SUFFICES ASSUME pos.c <= Len(input.cmds) PROVE Within(CurCmd, pos) = 0
        OBVIOUS
    <2>1. CurCmd \in Cmd
        BY <1>1, <1>2 DEF CurCmd
    <2>. QED
        BY <1>1, <2>1, WithinStart
<1>4. StepsCount
    BY <1>1, <1>2, <1>3, StopNotNegative DEF StepsCount
<1>. QED
    BY <1>1, <1>4 DEF Extra, InsertContent, CreateContent, QueryContent

(* A new request: the same for the next string.                          *)
LEMMA RequestExtra ==
    ASSUME Request
    PROVE  Extra'
<1>1. /\ input' \in Inputs /\ pos' = [c |-> 1, i |-> 0, j |-> 0] /\ steps' = 0
      /\ done' = FALSE /\ ssql'.flag = "SCF_ERROR"
    BY DEF Request, query_init
<1>2. /\ input'.cmds \in Seq(Cmd) /\ Len(input'.cmds) \in Nat
      /\ PrefixRed(input'.cmds)[0] = 0
    <2>1. input'.cmds \in Seq(Cmd)
        BY <1>1, MaxNumPos DEF Input
    <2>. QED
        BY <2>1, PrefixRedEq
<1>3. pos'.c <= Len(input'.cmds) => Within(CurCmd', pos') = 0
    <2>. SUFFICES ASSUME pos'.c <= Len(input'.cmds) PROVE Within(CurCmd', pos') = 0
        OBVIOUS
    <2>1. CurCmd' \in Cmd
        BY <1>1, <1>2 DEF CurCmd
    <2>. QED
        BY <1>1, <2>1, WithinStart
<1>4. StepsCount'
    BY <1>1, <1>2, <1>3, StopNotNegative DEF StepsCount
<1>. QED
    BY <1>1, <1>4 DEF Extra, InsertContent, CreateContent, QueryContent
(* A reduction inside a command leaves the flag alone and the parse       *)
(* between two commands.                                                  *)
LEMMA QueryContentInside ==
    ASSUME QueryContent, ~done, done' = FALSE, pos'.c = pos.c, ssql'.flag = ssql.flag,
           pos'.i # 0 \/ pos'.j # 0
    PROVE  QueryContent'
BY DEF QueryContent

(* ID_get of an INSERT.                                                   *)
LEMMA InsertIdGetExtra ==
    ASSUME FitsArrays, IInv, Extra, InsertIdGet
    PROVE  Extra'
<1>1. TypeOK /\ Progress(input, pos, done, ssql, ctx)
    BY DEF IInv
<1>2. /\ ~done /\ pos.c <= Len(input.cmds) /\ CurCmd.cmd = "insert" /\ pos.i = 0
      /\ steps # input.stop
    BY DEF InsertIdGet, Reducing
<1>3. pos.j = 0
    <2>1. InsertProgress(CurCmd, pos, ctx)
        BY <1>1, <1>2 DEF Progress, CurCmd
    <2>. QED
        BY <2>1, <1>2 DEF InsertProgress
<1>4. /\ input' = input /\ done' = FALSE /\ ssql' = ssql /\ steps' = steps + 1
      /\ pos' = [c |-> pos.c, i |-> 1, j |-> 0]
    BY <1>1, <1>2 DEF InsertIdGet, Reducing, TypeOK
<1>5. CurCmd \in Cmd /\ CurCmd.rows \in Seq(Seq(Lit)) /\ 0 \in 0 .. Len(CurCmd.rows)
    BY <1>1, <1>2, CurCmdShape
<1>6. /\ Within(CurCmd, pos) \in Nat
      /\ Within(CurCmd, pos') = Within(CurCmd, pos) + 1
      /\ pos'.c = pos.c
    <2>1. GroupRed(CurCmd)[0] = 0
        BY <1>5, GroupRedEq
    <2>2. Within(CurCmd, pos) = 0 /\ Within(CurCmd, pos') = 1 + GroupRed(CurCmd)[0] + 0
        BY <1>2, <1>3, <1>4, <1>5, WithinOf
    <2>. QED
        BY <2>1, <2>2, <1>4
<1>7. StepsCount'
    <2>1. TypeOK /\ StepsCount
        BY <1>1 DEF Extra
    <2>. QED
        BY <2>1, <1>2, <1>4, <1>6, CountInside, Zenon
<1>8. InsertContent' /\ CreateContent'
    <2>1. CurCmd' = CurCmd
        BY <1>4 DEF CurCmd
    <2>. QED
        BY <1>2, <1>4, <2>1 DEF InsertContent, CreateContent
<1>9. QueryContent'
    <2>1. QueryContent /\ pos'.c = pos.c /\ ssql'.flag = ssql.flag /\ pos'.i # 0
        BY <1>4 DEF Extra
    <2>. QED
        BY <2>1, <1>2, <1>4, QueryContentInside, Zenon
<1>. QED
    BY <1>7, <1>8, <1>9 DEF Extra
(* A value of a row group: one more value rule, one more value held.       *)
LEMMA InsertValueExtra ==
    ASSUME FitsArrays, IInv, Extra, InsertValue
    PROVE  Extra'
<1>1. TypeOK /\ Progress(input, pos, done, ssql, ctx)
    BY DEF IInv
<1>2. /\ ~done /\ pos.c <= Len(input.cmds) /\ CurCmd.cmd = "insert"
      /\ pos.i \in 1 .. Len(CurCmd.rows) /\ pos.j < Len(CurCmd.rows[pos.i])
      /\ steps # input.stop
    BY DEF InsertValue, Reducing
<1>3. /\ CurCmd \in Cmd /\ CurCmd.rows \in Seq(Seq(Lit))
      /\ Len(CurCmd.rows[pos.i]) \in 1 .. MaxNum
    BY <1>1, <1>2, CurCmdShape
<1>4. pos.j \in 0 .. Len(CurCmd.rows[pos.i]) /\ ctx.value_length = pos.j
    <2>1. InsertProgress(CurCmd, pos, ctx)
        BY <1>1, <1>2 DEF Progress, CurCmd
    <2>. QED
        BY <1>2, <2>1 DEF InsertProgress
<1>5. /\ input' = input /\ done' = FALSE /\ ssql' = ssql /\ steps' = steps + 1
      /\ pos' = [c |-> pos.c, i |-> pos.i, j |-> pos.j + 1]
    BY <1>1, <1>2 DEF InsertValue, Reducing, TypeOK
<1>6. /\ Within(CurCmd, pos) \in Nat
      /\ Within(CurCmd, pos') = Within(CurCmd, pos) + 1
      /\ pos'.c = pos.c
    <2>1. pos.i - 1 \in 0 .. Len(CurCmd.rows)
        BY <1>2, <1>3
    <2>2. GroupRed(CurCmd)[pos.i - 1] \in Nat
        BY <2>1, <1>3, GroupRedEq
    <2>3. /\ Within(CurCmd, pos) = 1 + GroupRed(CurCmd)[pos.i - 1] + pos.j
          /\ Within(CurCmd, pos') = 1 + GroupRed(CurCmd)[pos.i - 1] + (pos.j + 1)
        BY <1>2, <1>3, <1>5, WithinOf
    <2>. QED
        BY <2>2, <2>3, <1>4, <1>5
<1>7. StepsCount'
    <2>1. TypeOK /\ StepsCount
        BY <1>1 DEF Extra
    <2>. QED
        BY <2>1, <1>2, <1>5, <1>6, CountInside, Zenon
<1>8. CurCmd' = CurCmd
    BY <1>5 DEF CurCmd
<1>9. InsertContent'
    <2>1. \A g \in 0 .. pos.i - 2 : GroupStored(ssql.insertion, CurCmd.rows, g)
        BY <1>2 DEF Extra, InsertContent
    <2>2. \A k \in 0 .. pos.j - 1 : ctx.values[k] = value_of(CurCmd.rows[pos.i][k + 1])
        BY <1>2 DEF Extra, InsertContent
    <2>3. ctx'.values = [ctx.values EXCEPT ![pos.j] = value_of(CurCmd.rows[pos.i][pos.j + 1])]
          /\ ctx.values \in [Slots -> Values]
        BY <1>1, <1>4 DEF InsertValue, TypeOK, ContextOK
    <2>4. \A k \in 0 .. pos.j : ctx'.values[k] = value_of(CurCmd.rows[pos.i][k + 1])
        <3>. SUFFICES ASSUME NEW k \in 0 .. pos.j
                      PROVE  ctx'.values[k] = value_of(CurCmd.rows[pos.i][k + 1])
            OBVIOUS
        <3>1. k \in Slots
            BY <1>2, <1>3, <1>4, MaxNumPos DEF Slots
        <3>2. CASE k = pos.j
            BY <3>1, <3>2, <2>3
        <3>3. CASE k # pos.j
            <4>1. k \in 0 .. pos.j - 1
                BY <3>3, <1>4
            <4>. QED
                BY <4>1, <3>1, <3>3, <2>2, <2>3
        <3>. QED
            BY <3>2, <3>3
    <2>5. /\ pos'.i = pos.i /\ pos'.j - 1 = pos.j /\ ssql'.insertion = ssql.insertion
          /\ pos'.c = pos.c /\ input' = input /\ done' = FALSE
        <3>1. pos.j \in Nat /\ pos'.j = pos.j + 1 /\ pos'.i = pos.i /\ pos'.c = pos.c
            BY <1>4, <1>5
        <3>2. pos'.j - 1 = pos.j
            BY <3>1
        <3>. QED
            BY <3>1, <3>2, <1>2, <1>5
    <2>6. /\ \A g \in 0 .. pos'.i - 2 : GroupStored(ssql'.insertion, CurCmd'.rows, g)
          /\ \A k \in 0 .. pos'.j - 1 : ctx'.values[k] = value_of(CurCmd'.rows[pos'.i][k + 1])
        BY <2>1, <2>4, <2>5, <1>8
    <2>. QED
        BY <2>6 DEF InsertContent
<1>10. CreateContent' /\ QueryContent'
    <2>1. QueryContent /\ pos'.c = pos.c /\ ssql'.flag = ssql.flag /\ pos'.i # 0
        BY <1>2, <1>5 DEF Extra
    <2>2. QueryContent'
        BY <2>1, <1>2, <1>5, QueryContentInside, Zenon
    <2>. QED
        BY <2>2, <1>2, <1>5, <1>8 DEF CreateContent
<1>. QED
    BY <1>7, <1>9, <1>10 DEF Extra

(* The insertion member once inserts_init has stored the current group.  *)
StoredGroup ==
    inserts_init(ssql.insertion, ctx.id, ctx.values, ctx.value_length, ctx.insert_index)

(* The same, for the group the context holds.                             *)
LEMMA StoredGroupOf ==
    ASSUME TypeOK, ctx.insert_index \in Slots
    PROVE  /\ StoredGroup.relation_name = ctx.id
           /\ StoredGroup.group_num = ctx.insert_index
           /\ StoredGroup.value_num[ctx.insert_index] = ctx.value_length
           /\ \A k \in Slots : k < ctx.value_length =>
                StoredGroup.values[ctx.insert_index][k] = ctx.values[k]
           /\ \A g \in Slots \ {ctx.insert_index} :
                /\ StoredGroup.values[g] = ssql.insertion.values[g]
                /\ StoredGroup.value_num[g] = ssql.insertion.value_num[g]
<1>1. /\ ssql.insertion \in Insertions /\ ctx.values \in [Slots -> Values]
      /\ ctx.value_length \in 0 .. MaxNum
    BY DEF TypeOK, QueryOK, ContextOK
<1>2. ctx.insert_index \in Slots
    OBVIOUS
<1>. QED
    BY <1>1, <1>2 DEF StoredGroup, inserts_init, Insertions

(* The end of a row group: the group is stored at insert_index.           *)
LEMMA InsertGroupEndExtra ==
    ASSUME FitsArrays, IInv, Extra, InsertGroupEnd
    PROVE  Extra'
<1>1. TypeOK /\ Progress(input, pos, done, ssql, ctx)
    BY DEF IInv
<1>2. /\ ~done /\ pos.c <= Len(input.cmds) /\ CurCmd.cmd = "insert"
      /\ pos.i \in 1 .. Len(CurCmd.rows) /\ pos.j = Len(CurCmd.rows[pos.i])
      /\ steps # input.stop
    BY DEF InsertGroupEnd, Reducing
<1>3. /\ CurCmd \in Cmd /\ CurCmd.rows \in Seq(Seq(Lit))
      /\ Len(CurCmd.rows) \in 1 .. MaxNum - 1
      /\ \A g \in 1 .. Len(CurCmd.rows) : Len(CurCmd.rows[g]) \in 1 .. MaxNum
    BY <1>1, <1>2, CurCmdShape
<1>4. /\ ctx.value_length = pos.j /\ ctx.insert_index = pos.i - 1
    <2>1. InsertProgress(CurCmd, pos, ctx)
        BY <1>1, <1>2 DEF Progress, CurCmd
    <2>. QED
        BY <1>2, <2>1 DEF InsertProgress
<1>5. /\ input' = input /\ done' = FALSE /\ steps' = steps + 1
      /\ pos' = [c |-> pos.c, i |-> pos.i + 1, j |-> 0]
    BY <1>1, <1>2 DEF InsertGroupEnd, Reducing, TypeOK
<1>6. ssql'.flag = ssql.flag /\ ssql'.insertion = StoredGroup
    <2>1. QueryOK(ssql)
        BY <1>1 DEF TypeOK
    <2>. QED
        BY <2>1 DEF InsertGroupEnd, QueryOK, StoredGroup
<1>0. /\ pos.i \in Nat /\ pos'.i = pos.i + 1 /\ pos'.i # 0 /\ pos'.i - 1 = pos.i
      /\ pos'.i - 2 = pos.i - 1 /\ pos'.j = 0 /\ pos'.c = pos.c
    <2>1. pos.i \in Nat
        BY <1>2, <1>3
    <2>. QED
        BY <2>1, <1>5
<1>7. /\ Within(CurCmd, pos) \in Nat
      /\ Within(CurCmd, pos') = Within(CurCmd, pos) + 1
    <2>1. pos.i - 1 \in 0 .. Len(CurCmd.rows) /\ pos.i \in 0 .. Len(CurCmd.rows) /\ pos.i # 0
        BY <1>2, <1>3
    <2>2. GroupRed(CurCmd)[pos.i - 1] \in Nat
          /\ GroupRed(CurCmd)[pos.i] = GroupRed(CurCmd)[pos.i - 1] + Len(CurCmd.rows[pos.i]) + 1
        <3>1. GroupRed(CurCmd)[pos.i - 1] \in Nat
            BY <2>1, <1>3, GroupRedEq
        <3>2. GroupRed(CurCmd)[pos.i] = GroupRed(CurCmd)[pos.i - 1] + Len(CurCmd.rows[pos.i]) + 1
            <4>1. GroupRed(CurCmd) = [g \in 0 .. Len(CurCmd.rows) |->
                    IF g = 0 THEN 0 ELSE GroupRed(CurCmd)[g - 1] + Len(CurCmd.rows[g]) + 1]
                BY <1>3, GroupRedEq
            <4>. QED
                BY <4>1, <2>1
        <3>. QED
            BY <3>1, <3>2
    <2>3. Within(CurCmd, pos) = 1 + GroupRed(CurCmd)[pos.i - 1] + pos.j
        BY <1>2, <1>3, WithinOf
    <2>4. Within(CurCmd, pos') = 1 + GroupRed(CurCmd)[pos'.i - 1] + pos'.j
        BY <1>0, <1>2, <1>3, WithinOf
    <2>5. Len(CurCmd.rows[pos.i]) \in Nat /\ pos.j = Len(CurCmd.rows[pos.i])
        BY <1>2, <1>3
    <2>6. Within(CurCmd, pos') = 1 + GroupRed(CurCmd)[pos.i]
        <3>1. GroupRed(CurCmd)[pos.i] \in Nat
            BY <2>2, <2>5
        <3>. QED
            BY <3>1, <2>4, <1>0
    <2>7. /\ Within(CurCmd, pos') = 1 + (GroupRed(CurCmd)[pos.i - 1] + Len(CurCmd.rows[pos.i]) + 1)
          /\ Within(CurCmd, pos) = 1 + GroupRed(CurCmd)[pos.i - 1] + Len(CurCmd.rows[pos.i])
        BY <2>2, <2>3, <2>5, <2>6, Zenon
    <2>8. PICK a \in Nat : a = GroupRed(CurCmd)[pos.i - 1]
        BY <2>2
    <2>9. PICK l \in Nat : l = Len(CurCmd.rows[pos.i])
        BY <2>5
    <2>10. Within(CurCmd, pos') = 1 + (a + l + 1) /\ Within(CurCmd, pos) = 1 + a + l
        BY <2>7, <2>8, <2>9
    <2>. QED
        BY <2>10
<1>8. StepsCount'
    <2>1. TypeOK /\ StepsCount
        BY <1>1 DEF Extra
    <2>. QED
        BY <2>1, <1>0, <1>2, <1>5, <1>7, CountInside, Zenon
<1>9. CurCmd' = CurCmd
    BY <1>5 DEF CurCmd
<1>10. \A g \in 0 .. pos.i - 1 : GroupStored(StoredGroup, CurCmd.rows, g)
    <2>1. \A g \in 0 .. pos.i - 2 : GroupStored(ssql.insertion, CurCmd.rows, g)
        BY <1>2 DEF Extra, InsertContent
    <2>2. \A k \in 0 .. pos.j - 1 : ctx.values[k] = value_of(CurCmd.rows[pos.i][k + 1])
        BY <1>2 DEF Extra, InsertContent
    <2>3. ctx.insert_index \in Slots
        BY <1>2, <1>3, <1>4, MaxNumPos DEF Slots
    <2>4. /\ StoredGroup.value_num[ctx.insert_index] = ctx.value_length
          /\ \A k \in Slots : k < ctx.value_length =>
                StoredGroup.values[ctx.insert_index][k] = ctx.values[k]
          /\ \A g \in Slots \ {ctx.insert_index} :
                /\ StoredGroup.values[g] = ssql.insertion.values[g]
                /\ StoredGroup.value_num[g] = ssql.insertion.value_num[g]
        BY <1>1, <2>3, StoredGroupOf
    <2>5. SUFFICES ASSUME NEW g \in 0 .. pos.i - 1
                   PROVE  GroupStored(StoredGroup, CurCmd.rows, g)
        OBVIOUS
    <2>6. /\ g \in Slots /\ g + 1 \in 1 .. Len(CurCmd.rows)
          /\ \A k \in 0 .. Len(CurCmd.rows[g + 1]) - 1 : k \in Slots
        BY <1>2, <1>3, MaxNumPos DEF Slots
    <2>7. CASE g = pos.i - 1
        <3>1. g + 1 = pos.i /\ g = ctx.insert_index
            BY <2>7, <1>4, <1>2
        <3>. QED
            BY <3>1, <2>2, <2>4, <2>6, <1>4, <1>2 DEF GroupStored
    <2>8. CASE g # pos.i - 1
        <3>1. g \in 0 .. pos.i - 2 /\ g \in Slots \ {ctx.insert_index}
            BY <2>8, <2>6, <1>4, <1>2
        <3>. QED
            BY <3>1, <2>1, <2>4 DEF GroupStored
    <2>. QED
        BY <2>7, <2>8
<1>11. InsertContent'
    <2>1. \A g \in 0 .. pos'.i - 2 : GroupStored(ssql'.insertion, CurCmd'.rows, g)
        BY <1>0, <1>6, <1>9, <1>10
    <2>. QED
        BY <2>1, <1>0, <1>5 DEF InsertContent
<1>12. CreateContent' /\ QueryContent'
    <2>1. QueryContent /\ pos'.c = pos.c /\ ssql'.flag = ssql.flag /\ pos'.i # 0
        BY <1>0, <1>6 DEF Extra
    <2>2. QueryContent'
        BY <2>1, <1>2, <1>5, QueryContentInside, Zenon
    <2>. QED
        BY <2>2, <1>2, <1>5, <1>9 DEF CreateContent
<1>. QED
    BY <1>8, <1>11, <1>12 DEF Extra

(* Row groups stored one by one are read back as the rows written, each   *)
(* literal as the value it denotes.                                       *)
LEMMA RowsRead ==
    ASSUME NEW ins, NEW rows \in Seq(Seq(Lit)), ins.group_num = Len(rows),
           \A g \in 0 .. Len(rows) - 1 : GroupStored(ins, rows, g)
    PROVE  [g \in 1 .. ins.group_num |->
              [k \in 1 .. ins.value_num[g - 1] |-> ins.values[g - 1][k - 1]]]
           = [g \in DOMAIN rows |-> [k \in DOMAIN rows[g] |-> LitValue(rows[g][k])]]
<1>1. DOMAIN rows = 1 .. ins.group_num
    OBVIOUS
<1>2. ASSUME NEW g \in 1 .. Len(rows)
      PROVE  [k \in 1 .. ins.value_num[g - 1] |-> ins.values[g - 1][k - 1]]
             = [k \in DOMAIN rows[g] |-> LitValue(rows[g][k])]
    <2>1. GroupStored(ins, rows, g - 1) /\ g - 1 + 1 = g
        OBVIOUS
    <2>2. ins.value_num[g - 1] = Len(rows[g])
          /\ \A k \in 0 .. Len(rows[g]) - 1 : ins.values[g - 1][k] = value_of(rows[g][k + 1])
        BY <2>1 DEF GroupStored
    <2>3. ASSUME NEW k \in 1 .. Len(rows[g])
          PROVE  ins.values[g - 1][k - 1] = LitValue(rows[g][k])
        <3>1. k - 1 \in 0 .. Len(rows[g]) - 1 /\ k - 1 + 1 = k /\ rows[g][k] \in Lit
            OBVIOUS
        <3>2. ins.values[g - 1][k - 1] = value_of(rows[g][k])
            BY <3>1, <2>2
        <3>. QED
            BY <3>1, <3>2, ValueIsLit
    <2>. QED
        BY <2>2, <2>3
<1>. QED
    BY <1>1, <1>2

(* insert: ... SEMICOLON: the last reduction of the INSERT, and the Query *)
(* now reads as the INSERT written.                                        *)
LEMMA InsertEndExtra ==
    ASSUME FitsArrays, IInv, Extra, InsertEnd
    PROVE  Extra'
<1>1. TypeOK /\ Progress(input, pos, done, ssql, ctx)
    BY DEF IInv
<1>2. /\ ~done /\ pos.c <= Len(input.cmds) /\ CurCmd.cmd = "insert"
      /\ pos.i = Len(CurCmd.rows) + 1 /\ steps # input.stop
    BY DEF InsertEnd, Reducing
<1>3. /\ CurCmd \in Cmd /\ CurCmd.rows \in Seq(Seq(Lit))
      /\ Len(CurCmd.rows) \in 1 .. MaxNum - 1
    BY <1>1, <1>2, CurCmdShape
<1>4. /\ pos.j = 0 /\ ctx.value_length = 0 /\ ctx.insert_index = Len(CurCmd.rows)
      /\ ctx.id = CurCmd.table
    <2>1. InsertProgress(CurCmd, pos, ctx)
        BY <1>1, <1>2 DEF Progress, CurCmd
    <2>2. Len(CurCmd.rows) + 1 # 0 /\ Len(CurCmd.rows) + 1 \notin 1 .. Len(CurCmd.rows)
        BY <1>3
    <2>. QED
        BY <1>2, <2>1, <2>2 DEF InsertProgress
<1>5. /\ input' = input /\ done' = FALSE /\ steps' = steps + 1 /\ pos' = NextCmd
      /\ pos'.c = pos.c + 1 /\ pos'.i = 0 /\ pos'.j = 0
    BY <1>1, <1>2 DEF InsertEnd, Reducing, TypeOK, NextCmd
<1>6. ssql'.flag = "SCF_INSERT" /\ ssql'.insertion = StoredGroup
    <2>1. QueryOK(ssql)
        BY <1>1 DEF TypeOK
    <2>. QED
        BY <2>1 DEF InsertEnd, QueryOK, StoredGroup
<1>7. StepsCount'
    <2>1. GroupRed(CurCmd)[Len(CurCmd.rows)] \in Nat
        BY <1>3, GroupRedEq
    <2>2. pos.i # 0 /\ pos.i - 1 = Len(CurCmd.rows)
        BY <1>2, <1>3
    <2>3. Within(CurCmd, pos) = 1 + GroupRed(CurCmd)[pos.i - 1] + pos.j
        BY <1>2, <1>3, <2>2, WithinOf
    <2>4. Reductions(CurCmd) = GroupRed(CurCmd)[Len(CurCmd.rows)] + 2
        BY <1>2, <1>3, ReductionsOf
    <2>5. PICK a \in Nat : a = GroupRed(CurCmd)[Len(CurCmd.rows)]
        BY <2>1
    <2>6. Within(CurCmd, pos) = 1 + a + 0 /\ Reductions(CurCmd) = a + 2
        BY <2>2, <2>3, <2>4, <2>5, <1>4
    <2>7. Within(CurCmd, pos) \in Nat /\ Within(CurCmd, pos) + 1 = Reductions(CurCmd)
        BY <2>6
    <2>8. TypeOK /\ StepsCount
        BY <1>1 DEF Extra
    <2>. QED
        BY <2>7, <2>8, <1>2, <1>5, CountNext, Zenon
<1>8. InsertContent' /\ CreateContent'
    BY <1>5 DEF InsertContent, CreateContent
<1>9. QueryRead' = QueryOf(CurCmd)
    <2>1. ctx.insert_index \in Slots
        BY <1>3, <1>4, MaxNumPos DEF Slots
    <2>2. /\ StoredGroup.relation_name = CurCmd.table
          /\ StoredGroup.group_num = Len(CurCmd.rows)
          /\ \A g \in Slots \ {ctx.insert_index} :
                StoredGroup.values[g] = ssql.insertion.values[g]
                /\ StoredGroup.value_num[g] = ssql.insertion.value_num[g]
        BY <1>1, <1>4, <2>1, StoredGroupOf
    <2>3. \A g \in 0 .. Len(CurCmd.rows) - 1 : GroupStored(StoredGroup, CurCmd.rows, g)
        <3>1. \A g \in 0 .. pos.i - 2 : GroupStored(ssql.insertion, CurCmd.rows, g)
            BY <1>2, <1>3 DEF Extra, InsertContent
        <3>2. SUFFICES ASSUME NEW g \in 0 .. Len(CurCmd.rows) - 1
                       PROVE  GroupStored(StoredGroup, CurCmd.rows, g)
            OBVIOUS
        <3>3. g \in 0 .. pos.i - 2 /\ g \in Slots \ {ctx.insert_index}
            <4>1. PICK L \in Nat : L = Len(CurCmd.rows)
                BY <1>3
            <4>2. pos.i = L + 1 /\ ctx.insert_index = L /\ L <= MaxNum - 1 /\ g \in 0 .. L - 1
                BY <4>1, <1>2, <1>3, <1>4
            <4>. QED
                BY <4>2, MaxNumPos DEF Slots
        <3>. QED
            BY <3>1, <3>3, <2>2 DEF GroupStored
    <2>4. [g \in 1 .. StoredGroup.group_num |->
              [k \in 1 .. StoredGroup.value_num[g - 1] |-> StoredGroup.values[g - 1][k - 1]]]
           = [g \in DOMAIN CurCmd.rows |->
                [k \in DOMAIN CurCmd.rows[g] |-> LitValue(CurCmd.rows[g][k])]]
        BY <1>3, <2>2, <2>3, RowsRead, Zenon
    <2>5. QueryRead' = [flag |-> "SCF_INSERT", table |-> StoredGroup.relation_name,
                        rows |-> [g \in 1 .. StoredGroup.group_num |->
                                    [k \in 1 .. StoredGroup.value_num[g - 1] |->
                                       StoredGroup.values[g - 1][k - 1]]],
                        attrs |-> <<>>]
        BY <1>6 DEF QueryRead
    <2>6. QueryOf(CurCmd) = [flag |-> "SCF_INSERT", table |-> CurCmd.table,
                             rows |-> [g \in DOMAIN CurCmd.rows |->
                                [k \in DOMAIN CurCmd.rows[g] |-> LitValue(CurCmd.rows[g][k])]],
                             attrs |-> <<>>]
        BY <1>2 DEF QueryOf, FlagOf
    <2>. QED
        BY <2>2, <2>4, <2>5, <2>6
<1>10. QueryContent'
    <2>1. pos'.c # 1 /\ pos'.c > 1 /\ input'.cmds[pos'.c - 1] = CurCmd
        BY <1>1, <1>5 DEF TypeOK, CurCmd
    <2>. QED
        BY <2>1, <1>5, <1>9 DEF QueryContent
<1>. QED
    BY <1>7, <1>8, <1>10 DEF Extra

(* ID_get of a column definition: one more reduction of the CREATE TABLE. *)
LEMMA CreateIdGetExtra ==
    ASSUME FitsArrays, IInv, Extra, CreateIdGet
    PROVE  Extra'
<1>1. TypeOK /\ Progress(input, pos, done, ssql, ctx)
    BY DEF IInv
<1>2. /\ ~done /\ pos.c <= Len(input.cmds) /\ CurCmd.cmd = "create_table"
      /\ pos.i < Len(CurCmd.attrs) /\ pos.j = 0 /\ steps # input.stop
    BY DEF CreateIdGet, Reducing
<1>3. CurCmd \in Cmd
    BY <1>1, <1>2, CurCmdShape
<1>4. /\ input' = input /\ done' = FALSE /\ ssql' = ssql /\ steps' = steps + 1
      /\ pos' = [c |-> pos.c, i |-> pos.i, j |-> 1]
    BY <1>1, <1>2 DEF CreateIdGet, Reducing, TypeOK
<1>5. pos.i \in Nat
    BY <1>1 DEF TypeOK
<1>6. /\ Within(CurCmd, pos) \in Nat
      /\ Within(CurCmd, pos') = Within(CurCmd, pos) + 1
      /\ pos'.c = pos.c
    <2>1. Within(CurCmd, pos) = 2 * pos.i + 0 /\ Within(CurCmd, pos') = 2 * pos.i + 1
        BY <1>2, <1>3, <1>4, WithinOf
    <2>. QED
        BY <2>1, <1>4, <1>5
<1>7. StepsCount'
    <2>1. TypeOK /\ StepsCount
        BY <1>1 DEF Extra
    <2>. QED
        BY <2>1, <1>2, <1>4, <1>6, CountInside, Zenon
<1>8. CurCmd' = CurCmd
    BY <1>4 DEF CurCmd
<1>9. InsertContent' /\ CreateContent'
    <2>1. CreateContent
        BY DEF Extra
    <2>. QED
        BY <2>1, <1>2, <1>4, <1>8 DEF InsertContent, CreateContent
<1>10. QueryContent'
    <2>1. QueryContent /\ pos'.c = pos.c /\ ssql'.flag = ssql.flag /\ pos'.j # 0
        BY <1>4 DEF Extra
    <2>. QED
        BY <2>1, <1>2, <1>4, QueryContentInside, Zenon
<1>. QED
    BY <1>7, <1>9, <1>10 DEF Extra

(* attr_info_init with the column's name, type_of and opt_null builds the *)
(* column the definition denotes.                                         *)
LEMMA AttrIsColumn ==
    ASSUME NEW a \in AttrDef
    PROVE  attr_info_init(a.name, type_of(a.type), IF a.len = 0 THEN 4 ELSE a.len,
                          opt_null(a.null)) = ColumnOf(a)
<1>1. type_of(a.type) = ColumnType(a.type)
    BY DEF type_of, ColumnType
<1>2. (IF opt_null(a.null) = "ISTRUE" THEN 1 ELSE 0) = IF a.null = "NULLABLE" THEN 1 ELSE 0
    BY DEF opt_null
<1>. QED
    BY <1>1, <1>2 DEF attr_info_init, ColumnOf

(* create_table_append_attribute writes the column at attribute_count.   *)
LEMMA AppendStores ==
    ASSUME NEW ct \in CreateTables, NEW a
    PROVE  create_table_append_attribute(ct, a).attributes
             = [ct.attributes EXCEPT ![ct.attribute_count] = a]
BY DEF create_table_append_attribute, CreateTables

(* attr_def: the column definition appended, as the column written.       *)
LEMMA CreateAttrDefExtra ==
    ASSUME FitsArrays, IInv, Extra, CreateAttrDef
    PROVE  Extra'
<1>1. TypeOK /\ Progress(input, pos, done, ssql, ctx)
    BY DEF IInv
<1>2. /\ ~done /\ pos.c <= Len(input.cmds) /\ CurCmd.cmd = "create_table" /\ pos.j = 1
      /\ steps # input.stop
    BY DEF CreateAttrDef, Reducing
<1>3. CurCmd \in Cmd /\ CurCmd.attrs \in Seq(AttrDef) /\ Len(CurCmd.attrs) \in 1 .. MaxNum
    BY <1>1, <1>2, CurCmdShape
<1>4. /\ pos.i \in 0 .. Len(CurCmd.attrs) - 1 /\ ctx.id = CurCmd.attrs[pos.i + 1].name
      /\ ssql.create_table.attribute_count = pos.i
    <2>1. CreateProgress(CurCmd, pos, ssql, ctx)
        BY <1>1, <1>2 DEF Progress, CurCmd
    <2>. QED
        BY <1>2, <1>3, <2>1 DEF CreateProgress
<1>5. /\ input' = input /\ done' = FALSE /\ steps' = steps + 1
      /\ pos' = [c |-> pos.c, i |-> pos.i + 1, j |-> 0]
    BY <1>1, <1>2 DEF CreateAttrDef, Reducing, TypeOK
<1>6. /\ ssql'.flag = ssql.flag
      /\ ssql'.create_table = create_table_append_attribute(ssql.create_table,
            attr_info_init(ctx.id, type_of(CurCmd.attrs[pos.i + 1].type),
                           IF CurCmd.attrs[pos.i + 1].len = 0 THEN 4
                           ELSE CurCmd.attrs[pos.i + 1].len,
                           opt_null(CurCmd.attrs[pos.i + 1].null)))
    <2>1. QueryOK(ssql)
        BY <1>1 DEF TypeOK
    <2>. QED
        BY <2>1 DEF CreateAttrDef, QueryOK
<1>7. /\ Within(CurCmd, pos) \in Nat
      /\ Within(CurCmd, pos') = Within(CurCmd, pos) + 1
      /\ pos'.c = pos.c
    <2>1. Within(CurCmd, pos) = 2 * pos.i + 1 /\ Within(CurCmd, pos') = 2 * (pos.i + 1) + 0
        BY <1>2, <1>3, <1>5, WithinOf
    <2>. QED
        BY <2>1, <1>4, <1>5
<1>8. StepsCount'
    <2>1. TypeOK /\ StepsCount
        BY <1>1 DEF Extra
    <2>. QED
        BY <2>1, <1>2, <1>5, <1>7, CountInside, Zenon
<1>9. CurCmd' = CurCmd
    BY <1>5 DEF CurCmd
<1>10. \A k \in 0 .. pos.i : ssql'.create_table.attributes[k] = ColumnOf(CurCmd.attrs[k + 1])
    <2>1. \A k \in 0 .. pos.i - 1 :
            ssql.create_table.attributes[k] = ColumnOf(CurCmd.attrs[k + 1])
        BY <1>2 DEF Extra, CreateContent
    <2>2. CurCmd.attrs[pos.i + 1] \in AttrDef
        BY <1>3, <1>4
    <2>3. ssql'.create_table.attributes
            = [ssql.create_table.attributes EXCEPT ![pos.i] = ColumnOf(CurCmd.attrs[pos.i + 1])]
        <3>1. ssql.create_table \in CreateTables
            BY <1>1 DEF TypeOK, QueryOK
        <3>. QED
            BY <1>4, <1>6, <2>2, <3>1, AttrIsColumn, AppendStores
    <2>4. \A k \in 0 .. pos.i : k \in DOMAIN ssql.create_table.attributes
        <3>1. DOMAIN ssql.create_table.attributes = Slots
            BY <1>1 DEF TypeOK, QueryOK, CreateTables
        <3>2. PICK L \in Nat : L = Len(CurCmd.attrs)
            BY <1>3
        <3>3. pos.i \in 0 .. L - 1 /\ L <= MaxNum /\ MaxNum \in Nat
            BY <3>2, <1>3, <1>4, MaxNumPos
        <3>. QED
            BY <3>1, <3>3 DEF Slots
    <2>. QED
        BY <2>1, <2>3, <2>4, <1>4
<1>11. CreateContent'
    <2>1. pos'.i - 1 = pos.i /\ pos'.c = pos.c
        BY <1>4, <1>5
    <2>. QED
        BY <2>1, <1>10, <1>9, <1>5 DEF CreateContent
<1>12. InsertContent' /\ QueryContent'
    <2>1. QueryContent /\ pos'.c = pos.c /\ ssql'.flag = ssql.flag /\ pos'.i # 0
        BY <1>4, <1>5, <1>6 DEF Extra
    <2>2. QueryContent'
        BY <2>1, <1>2, <1>5, QueryContentInside, Zenon
    <2>. QED
        BY <2>2, <1>2, <1>5, <1>9 DEF InsertContent
<1>. QED
    BY <1>8, <1>11, <1>12 DEF Extra

(* create_table: ... SEMICOLON: the last reduction of the CREATE TABLE,  *)
(* and the Query now reads as the CREATE TABLE written.                   *)
LEMMA CreateEndExtra ==
    ASSUME FitsArrays, IInv, Extra, CreateEnd
    PROVE  Extra'
<1>1. TypeOK /\ Progress(input, pos, done, ssql, ctx)
    BY DEF IInv
<1>2. /\ ~done /\ pos.c <= Len(input.cmds) /\ CurCmd.cmd = "create_table"
      /\ pos.i = Len(CurCmd.attrs) /\ pos.j = 0 /\ steps # input.stop
    BY DEF CreateEnd, Reducing
<1>3. CurCmd \in Cmd /\ CurCmd.attrs \in Seq(AttrDef) /\ CurCmd.table \in Tables
    BY <1>1, <1>2, CurCmdShape
<1>4. ssql.create_table.attribute_count = pos.i
    <2>1. CreateProgress(CurCmd, pos, ssql, ctx)
        BY <1>1, <1>2 DEF Progress, CurCmd
    <2>. QED
        BY <2>1 DEF CreateProgress
<1>5. /\ input' = input /\ done' = FALSE /\ steps' = steps + 1 /\ pos' = NextCmd
      /\ pos'.c = pos.c + 1 /\ pos'.i = 0 /\ pos'.j = 0
    BY <1>1, <1>2 DEF CreateEnd, Reducing, TypeOK, NextCmd
<1>6. /\ ssql'.flag = "SCF_CREATE_TABLE"
      /\ ssql'.create_table.relation_name = CurCmd.table
      /\ ssql'.create_table.attribute_count = ssql.create_table.attribute_count
      /\ ssql'.create_table.attributes = ssql.create_table.attributes
    <2>1. QueryOK(ssql)
        BY <1>1 DEF TypeOK
    <2>. QED
        BY <2>1 DEF CreateEnd, QueryOK, CreateTables
<1>7. StepsCount'
    <2>1. PICK L \in Nat : L = Len(CurCmd.attrs)
        BY <1>3
    <2>2. Within(CurCmd, pos) = 2 * L + 0 /\ Reductions(CurCmd) = 2 * L + 1
        BY <2>1, <1>2, <1>3, WithinOf, ReductionsOf
    <2>3. Within(CurCmd, pos) \in Nat /\ Within(CurCmd, pos) + 1 = Reductions(CurCmd)
        BY <2>1, <2>2
    <2>4. TypeOK /\ StepsCount
        BY <1>1 DEF Extra
    <2>. QED
        BY <2>3, <2>4, <1>2, <1>5, CountNext, Zenon
<1>8. InsertContent' /\ CreateContent'
    BY <1>5 DEF InsertContent, CreateContent
<1>9. QueryRead' = QueryOf(CurCmd)
    <2>1. \A k \in 0 .. pos.i - 1 :
            ssql.create_table.attributes[k] = ColumnOf(CurCmd.attrs[k + 1])
        BY <1>2 DEF Extra, CreateContent
    <2>2. [k \in 1 .. ssql'.create_table.attribute_count |->
              ssql'.create_table.attributes[k - 1]]
          = [k \in DOMAIN CurCmd.attrs |-> ColumnOf(CurCmd.attrs[k])]
        <3>1. ASSUME NEW k \in 1 .. Len(CurCmd.attrs)
              PROVE  ssql.create_table.attributes[k - 1] = ColumnOf(CurCmd.attrs[k])
            <4>1. k - 1 \in 0 .. pos.i - 1 /\ k - 1 + 1 = k
                BY <1>2, <1>3
            <4>. QED
                BY <4>1, <2>1
        <3>. QED
            BY <3>1, <1>2, <1>3, <1>4, <1>6
    <2>3. QueryRead' = [flag |-> "SCF_CREATE_TABLE",
                        table |-> ssql'.create_table.relation_name, rows |-> <<>>,
                        attrs |-> [k \in 1 .. ssql'.create_table.attribute_count |->
                                     ssql'.create_table.attributes[k - 1]]]
        BY <1>6 DEF QueryRead
    <2>4. QueryOf(CurCmd) = [flag |-> "SCF_CREATE_TABLE", table |-> CurCmd.table,
                             rows |-> <<>>,
                             attrs |-> [k \in DOMAIN CurCmd.attrs |-> ColumnOf(CurCmd.attrs[k])]]
        BY <1>2 DEF QueryOf, FlagOf
    <2>. QED
        BY <1>6, <2>2, <2>3, <2>4
<1>10. QueryContent'
    <2>1. pos'.c # 1 /\ pos'.c > 1 /\ input'.cmds[pos'.c - 1] = CurCmd
        BY <1>1, <1>5 DEF TypeOK, CurCmd
    <2>. QED
        BY <2>1, <1>5, <1>9 DEF QueryContent
<1>. QED
    BY <1>7, <1>8, <1>10 DEF Extra

(* A command of one reduction (a flag command, DROP TABLE, DESC) that     *)
(* leaves the Query reading as the command written.                        *)
LEMMA OneReductionExtra ==
    ASSUME FitsArrays, IInv, ~done, pos.c <= Len(input.cmds),
           CurCmd.cmd \in {"flag", "drop_table", "desc_table"}, steps # input.stop,
           StepsCount, input' = input, done' = FALSE, steps' = steps + 1, pos' = NextCmd,
           QueryRead' = QueryOf(CurCmd)
    PROVE  Extra'
<1>1. TypeOK
    BY DEF IInv
<1>2. CurCmd \in Cmd
    BY <1>1, CurCmdShape
<1>3. pos'.c = pos.c + 1 /\ pos'.i = 0 /\ pos'.j = 0 /\ pos.c \in Nat /\ pos.c >= 1
    BY <1>1 DEF NextCmd, TypeOK
<1>4. StepsCount'
    <2>1. Within(CurCmd, pos) = 0 /\ Reductions(CurCmd) = 1
        BY <1>2, WithinOf, ReductionsOf
    <2>2. Within(CurCmd, pos) \in Nat /\ Within(CurCmd, pos) + 1 = Reductions(CurCmd)
        BY <2>1
    <2>. QED
        BY <1>1, <2>2, CountNext, Zenon
<1>5. InsertContent' /\ CreateContent'
    BY <1>3 DEF InsertContent, CreateContent
<1>6. QueryContent'
    <2>1. pos'.c # 1 /\ pos'.c > 1 /\ pos'.c - 1 = pos.c
        BY <1>3
    <2>2. input'.cmds[pos'.c - 1] = CurCmd
        BY <2>1 DEF CurCmd
    <2>. QED
        BY <2>1, <2>2, <1>3 DEF QueryContent
<1>. QED
    BY <1>4, <1>5, <1>6 DEF Extra

(* The flag commands (exit, help, sync, begin, commit, rollback, show    *)
(* tables): the Query reads as the flag alone.                            *)
LEMMA FlagCommandExtra ==
    ASSUME FitsArrays, IInv, Extra, FlagCommand
    PROVE  Extra'
<1>1. /\ ~done /\ pos.c <= Len(input.cmds) /\ CurCmd.cmd = "flag" /\ steps # input.stop
      /\ input' = input /\ done' = FALSE /\ steps' = steps + 1 /\ pos' = NextCmd
    BY DEF FlagCommand, Reducing
<1>2. CurCmd.flag \in FlagCmds
    BY <1>1, CurCmdShape DEF IInv
<1>3. ssql'.flag = CurCmd.flag
    <2>1. QueryOK(ssql)
        BY DEF IInv, TypeOK
    <2>. QED
        BY <2>1 DEF FlagCommand, QueryOK
<1>4. QueryRead' = [flag |-> CurCmd.flag, table |-> NoName, rows |-> <<>>, attrs |-> <<>>]
    <2>1. ssql'.flag \notin {"SCF_INSERT", "SCF_CREATE_TABLE", "SCF_DROP_TABLE",
                             "SCF_DESC_TABLE"}
        BY <1>2, <1>3 DEF FlagCmds
    <2>. QED
        BY <2>1, <1>3 DEF QueryRead
<1>5. QueryRead' = QueryOf(CurCmd)
    BY <1>1, <1>4 DEF QueryOf, FlagOf
<1>. QED
    BY <1>1, <1>5, OneReductionExtra DEF Extra

(* drop_table: ... SEMICOLON: SCF_DROP_TABLE and the table's name.        *)
LEMMA DropTableExtra ==
    ASSUME FitsArrays, IInv, Extra, DropTable
    PROVE  Extra'
<1>1. /\ ~done /\ pos.c <= Len(input.cmds) /\ CurCmd.cmd = "drop_table" /\ steps # input.stop
      /\ input' = input /\ done' = FALSE /\ steps' = steps + 1 /\ pos' = NextCmd
    BY DEF DropTable, Reducing
<1>2. ssql'.flag = "SCF_DROP_TABLE" /\ ssql'.drop_table = CurCmd.table
    <2>1. QueryOK(ssql)
        BY DEF IInv, TypeOK
    <2>. QED
        BY <2>1 DEF DropTable, QueryOK
<1>3. QueryRead' = QueryOf(CurCmd)
    BY <1>1, <1>2 DEF QueryRead, QueryOf, FlagOf
<1>. QED
    BY <1>1, <1>3, OneReductionExtra DEF Extra

(* desc_table: ... SEMICOLON: SCF_DESC_TABLE and the table's name.        *)
LEMMA DescTableExtra ==
    ASSUME FitsArrays, IInv, Extra, DescTable
    PROVE  Extra'
<1>1. /\ ~done /\ pos.c <= Len(input.cmds) /\ CurCmd.cmd = "desc_table" /\ steps # input.stop
      /\ input' = input /\ done' = FALSE /\ steps' = steps + 1 /\ pos' = NextCmd
    BY DEF DescTable, Reducing
<1>2. ssql'.flag = "SCF_DESC_TABLE" /\ ssql'.desc_table = CurCmd.table
    <2>1. QueryOK(ssql)
        BY DEF IInv, TypeOK
    <2>. QED
        BY <2>1 DEF DescTable, QueryOK
<1>3. QueryRead' = QueryOf(CurCmd)
    BY <1>1, <1>2 DEF QueryRead, QueryOf, FlagOf
<1>. QED
    BY <1>1, <1>3, OneReductionExtra DEF Extra

(* A step that changes no variable keeps the counts and contents.       *)
LEMMA StutterExtra ==
    ASSUME Extra, UNCHANGED vars
    PROVE  Extra'
BY DEF Extra, StepsCount, InsertContent, CreateContent, QueryContent, vars, CurCmd,
       QueryRead

(* Every step of sql_parse and of the caller keeps the invariant RInv.   *)
LEMMA NextRInv ==
    ASSUME OneCreate, FitsArrays, RInv, [Next]_vars
    PROVE  RInv'
<1>1. IInv /\ Extra
    BY DEF RInv
<1>2. IInv'
    BY <1>1, NextIInv
<1>3. Extra'
    <2>1. CASE InsertIdGet
        BY <1>1, <2>1, InsertIdGetExtra
    <2>2. CASE InsertValue
        BY <1>1, <2>2, InsertValueExtra
    <2>3. CASE InsertGroupEnd
        BY <1>1, <2>3, InsertGroupEndExtra
    <2>4. CASE InsertEnd
        BY <1>1, <2>4, InsertEndExtra
    <2>5. CASE CreateIdGet
        BY <1>1, <2>5, CreateIdGetExtra
    <2>6. CASE CreateAttrDef
        BY <1>1, <2>6, CreateAttrDefExtra
    <2>7. CASE CreateEnd
        BY <1>1, <2>7, CreateEndExtra
    <2>8. CASE FlagCommand
        BY <1>1, <2>8, FlagCommandExtra
    <2>9. CASE DropTable
        BY <1>1, <2>9, DropTableExtra
    <2>10. CASE DescTable
        BY <1>1, <2>10, DescTableExtra
    <2>11. CASE yyerror \/ Accept
        BY <2>11, ExtraDone DEF yyerror, Accept
    <2>12. CASE Request
        BY <2>12, RequestExtra
    <2>13. CASE UNCHANGED vars
        BY <1>1, <2>13, StutterExtra
    <2>. QED
        BY <2>1, <2>2, <2>3, <2>4, <2>5, <2>6, <2>7, <2>8, <2>9, <2>10, <2>11, <2>12,
           <2>13, Zenon DEF Next, Parser
<1>. QED
    BY <1>2, <1>3 DEF RInv

(* RInv holds when the first request arrives.                           *)
LEMMA InitRInv ==
    ASSUME OneCreate, FitsArrays, Init
    PROVE  RInv
BY InitIInv, InitExtra DEF RInv
-----------------------------------------------------------------------------
(* A grammar action is a step of the parse in progress: the caller reads  *)
(* nothing yet, and the abstract parse stutters.                           *)
LEMMA ReducingStutters ==
    ASSUME done \in BOOLEAN, ~done, done' = FALSE, input' = input
    PROVE  UNCHANGED Abs!vars
BY DEF Abs!vars, AbsQuery

(* ParsedQuery's meaning of a string is SqlText's, which it extends.      *)
LEMMA AbsMeaning ==
    /\ Abs!ErrorQuery = ErrorQuery
    /\ \A in : Abs!Meaning(in) = Meaning(in)
BY DEF Abs!ErrorQuery, ErrorQuery, Abs!Meaning, Meaning, Abs!QueryOf, QueryOf, Abs!FlagOf,
       FlagOf, Abs!LitValue, LitValue, Abs!ColumnOf, ColumnOf, Abs!ColumnType, ColumnType,
       Abs!NoError, NoError

(* yyerror returns with SCF_ERROR alone: the Query of a string with a    *)
(* syntax error.                                                           *)
LEMMA yyerrorParses ==
    ASSUME FitsArrays, IInv, yyerror
    PROVE  Abs!Parse
<1>1. TypeOK
    BY DEF IInv
<1>2. /\ ~done /\ steps = input.stop /\ done' = TRUE /\ input' = input
      /\ ssql' = [query_reset(ssql) EXCEPT !.flag = "SCF_ERROR",
                                           !.insertion.value_num = [g \in Slots |-> 0],
                                           !.insertion.group_num = 0]
    BY DEF yyerror
<1>3. ssql'.flag = "SCF_ERROR"
    <2>1. QueryOK(query_reset(ssql))
        BY <1>1, ResetType DEF TypeOK
    <2>. QED
        BY <1>2, <2>1 DEF QueryOK
<1>4. AbsQuery' = ErrorQuery
    BY <1>2, <1>3 DEF AbsQuery, QueryRead, ErrorQuery
<1>5. Meaning(input) = ErrorQuery
    <2>1. input.stop # NoError
        BY <1>1, <1>2 DEF TypeOK, NoError
    <2>. QED
        BY <2>1 DEF Meaning
<1>. QED
    BY <1>2, <1>4, <1>5, AbsMeaning DEF Abs!Parse

(* The accept at the end of the string: no syntax error was met, and the  *)
(* Query reads as the last command, or SCF_ERROR for an empty string.     *)
LEMMA AcceptParses ==
    ASSUME FitsArrays, RInv, Accept
    PROVE  Abs!Parse
<1>1. TypeOK /\ Progress(input, pos, done, ssql, ctx) /\ StepsCount /\ QueryContent
    BY DEF RInv, IInv, Extra
<1>2. /\ ~done /\ steps # input.stop /\ pos.c > Len(input.cmds)
      /\ input' = input /\ done' = TRUE /\ ssql' = ssql
    BY DEF Accept
<1>3. /\ input.cmds \in Seq(Cmd) /\ input.stop \in Int /\ Len(input.cmds) \in Nat
      /\ pos.c = Len(input.cmds) + 1 /\ steps \in Nat
      /\ PrefixRed(input.cmds)[Len(input.cmds)] \in Nat
    BY <1>1, <1>2, InputShape DEF TypeOK
<1>4. AbsQuery' = QueryRead
    BY <1>2 DEF AbsQuery, QueryRead
<1>5. input.stop = NoError
    <2>1. steps = PrefixRed(input.cmds)[Len(input.cmds)]
        <3>1. pos.c - 1 = Len(input.cmds) /\ ~(pos.c <= Len(input.cmds))
            BY <1>3
        <3>. QED
            BY <1>1, <1>2, <1>3, <3>1 DEF StepsCount
    <2>2. input.stop \in {NoError} \cup 0 .. TotalReductions(input.cmds)
        BY <1>1, InputsAssumption DEF TypeOK
    <2>3. TotalReductions(input.cmds) = PrefixRed(input.cmds)[Len(input.cmds)]
        BY TotalIsPrefix
    <2>4. input.stop # NoError => steps <= input.stop
        BY <1>1, <1>2 DEF StepsCount
    <2>. SUFFICES ASSUME input.stop # NoError PROVE FALSE
        OBVIOUS
    <2>5. input.stop \in 0 .. PrefixRed(input.cmds)[Len(input.cmds)]
        BY <2>2, <2>3
    <2>. QED
        BY <1>2, <1>3, <2>1, <2>4, <2>5
<1>6. QueryRead = Meaning(input)
    <2>1. CASE input.cmds = <<>>
        <3>1. pos.c = 1
            BY <2>1, <1>3
        <3>2. ssql.flag = "SCF_ERROR"
            BY <3>1, <1>1, <1>2 DEF QueryContent
        <3>3. QueryRead = ErrorQuery
            BY <3>2 DEF QueryRead, ErrorQuery
        <3>. QED
            BY <3>3, <2>1 DEF Meaning
    <2>2. CASE input.cmds # <<>>
        <3>1. Len(input.cmds) # 0 /\ pos.c > 1 /\ pos.c - 1 = Len(input.cmds)
            BY <2>2, <1>3
        <3>2. pos.i = 0 /\ pos.j = 0
            BY <1>1, <1>2 DEF Progress, AtCommandStart
        <3>3. QueryRead = QueryOf(input.cmds[Len(input.cmds)])
            BY <1>1, <1>2, <3>1, <3>2 DEF QueryContent
        <3>. QED
            BY <3>3, <2>2, <1>5 DEF Meaning
    <2>. QED
        BY <2>1, <2>2
<1>. QED
    BY <1>2, <1>4, <1>6, AbsMeaning DEF Abs!Parse

(* A new request is the abstract Request: the caller reads nothing of the *)
(* new string yet.                                                         *)
LEMMA RequestRequests ==
    ASSUME Request
    PROVE  Abs!Request
BY AbsMeaning DEF Request, Abs!Request, AbsQuery

(* Every step of sql_parse is a step of the one-step parse or a stutter.  *)
LEMMA StepRefines ==
    ASSUME FitsArrays, RInv, [Next]_vars
    PROVE  [Abs!Next]_Abs!vars
<1>1. IInv
    BY DEF RInv
<1>2. CASE \/ InsertIdGet \/ InsertValue \/ InsertGroupEnd \/ InsertEnd
           \/ CreateIdGet \/ CreateAttrDef \/ CreateEnd
           \/ FlagCommand \/ DropTable \/ DescTable
    <2>1. done \in BOOLEAN /\ ~done /\ done' = FALSE /\ input' = input
        BY <1>1, <1>2 DEF IInv, TypeOK, InsertIdGet, InsertValue, InsertGroupEnd, InsertEnd, CreateIdGet,
                    CreateAttrDef, CreateEnd, FlagCommand, DropTable, DescTable, Reducing
    <2>. QED
        BY <2>1, ReducingStutters
<1>3. CASE yyerror
    BY <1>1, <1>3, yyerrorParses DEF Abs!Next
<1>4. CASE Accept
    BY <1>4, AcceptParses DEF Abs!Next
<1>5. CASE Request
    BY <1>5, RequestRequests DEF Abs!Next
<1>6. CASE UNCHANGED vars
    BY <1>6 DEF vars, Abs!vars, AbsQuery, QueryRead
<1>. QED
    BY <1>2, <1>3, <1>4, <1>5, <1>6 DEF Next, Parser

(* The safety half of QueryMeansText, for every MAX_NUM and every set of  *)
(* strings that fit the arrays (FitsArrays) with at most one CREATE TABLE *)
(* per string: in every behaviour of sql_parse, the Query the caller reads    *)
(* once yyparse has returned is the meaning of the whole string (its last *)
(* command, or SCF_ERROR after a syntax error or for no command), and     *)
(* every grammar action is invisible to the caller.                       *)
THEOREM ParseRefinesSafety ==
    ASSUME OneCreate, FitsArrays
    PROVE  Spec => Abs!Init /\ [][Abs!Next]_Abs!vars
<1>1. Init => RInv
    BY InitRInv
<1>2. RInv /\ [Next]_vars => RInv'
    BY NextRInv
<1>3. Init => Abs!Init
    BY AbsMeaning DEF Init, Abs!Init, AbsQuery
<1>4. RInv /\ [Next]_vars => [Abs!Next]_Abs!vars
    BY StepRefines
<1>. QED
    BY <1>1, <1>2, <1>3, <1>4, PTL DEF Spec
=============================================================================
