----------------------------- MODULE MCSqlParse -----------------------------
(***************************************************************************)
(* SqlParse on MAX_NUM = 3: INSERTs of one or two row groups of one to   *)
(* three literals, CREATE TABLEs of one or two column definitions of four  *)
(* types and the three nullabilities, every flag-only command, DROP TABLE  *)
(* and DESC, strings of two commands, and each string cut by a bad token  *)
(* after every number of reductions.                                       *)
(***************************************************************************)
EXTENDS SqlParse, FiniteSets

CONSTANTS t1, c1, c2, NoNameV, NullTextV

MCMaxNum == 3
MCTables == {t1}
MCColumns == {c1, c2}

N == [tok |-> "NUMBER", n |-> 1]
M == [tok |-> "MINUS_NUMBER", n |-> 1]
Null == [tok |-> "NULL_T", n |-> 0]

(* Row groups: each literal kind, a NULL after a number, and a group of   *)
(* three, the length of ParserContext::values.                             *)
Groups == {<<N>>, <<M>>, <<Null>>, <<N, Null>>, <<M, M, M>>}
Insert(rows) == [cmd |-> "insert", table |-> t1, rows |-> rows]
Inserts == {Insert(<<g>>) : g \in Groups}
           \cup {Insert(<<g, h>>) : g, h \in {<<N, Null>>, <<M>>}}

A1 == [name |-> c1, type |-> "INT_T", len |-> 0, null |-> "none"]
A2 == [name |-> c2, type |-> "STRING_T", len |-> 4, null |-> "NULLABLE"]
A3 == [name |-> c1, type |-> "DATE_T", len |-> 0, null |-> "NOT_NULL"]
A4 == [name |-> c2, type |-> "FLOAT_T", len |-> 0, null |-> "NULLABLE"]
Create(attrs) == [cmd |-> "create_table", table |-> t1, attrs |-> attrs]
Creates == {Create(<<a>>) : a \in {A1, A2, A3, A4}} \cup {Create(<<A1, A2>>), Create(<<A3, A4>>)}

Flags == {[cmd |-> "flag", flag |-> f] : f \in FlagCmds}
Drop == [cmd |-> "drop_table", table |-> t1]
Desc == [cmd |-> "desc_table", table |-> t1]
Sync == [cmd |-> "flag", flag |-> "SCF_SYNC"]

(* Strings of two commands that write one member of the sstr union: an    *)
(* INSERT after an INSERT with more groups, and each member next to a    *)
(* flag-only command.                                                      *)
Pairs == {<<Insert(<<<<N, Null>>, <<M>>>>), Insert(<<<<N>>>>)>>,
          <<Insert(<<<<M, M, M>>>>), Sync>>, <<Sync, Insert(<<<<N>>>>)>>,
          <<Create(<<A1>>), Sync>>, <<Sync, Create(<<A2>>)>>,
          <<Drop, Sync>>, <<Sync, Desc>>}

Strings == {<<>>} \cup {<<c>> : c \in Inserts \cup Creates \cup Flags \cup {Drop, Desc}} \cup Pairs

MCInputs == UNION {{[cmds |-> cs, stop |-> s] : s \in {NoError} \cup 0 .. TotalReductions(cs)} :
                    cs \in Strings}
(* Strings the grammar accepts that overrun a MAX_NUM array: an INSERT of *)
(* MAX_NUM row groups, an INSERT whose row group has MAX_NUM + 1 values,  *)
(* and two CREATE TABLEs whose columns add up to more than MAX_NUM.       *)
WithoutBadToken(cs) == {[cmds |-> cs, stop |-> NoError]}
MCInputsMaxGroups == WithoutBadToken(<<Insert(<<<<N>>, <<M>>, <<N>>>>)>>)
MCInputsLongGroup == WithoutBadToken(<<Insert(<<<<N, M, N, M>>>>)>>)
MCInputsTwoCreates == WithoutBadToken(<<Create(<<A1, A2>>), Create(<<A3, A4>>)>>)
MCInputsOverrun == MCInputsMaxGroups \cup MCInputsLongGroup \cup MCInputsTwoCreates
=============================================================================
