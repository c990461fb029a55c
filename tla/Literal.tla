------------------------------ MODULE Literal ------------------------------
(***************************************************************************)
(* The parser's classification of a string (parse.cpp,                     *)
(* value_init_string): a string that has the shape of a date and names a   *)
(* valid date in range becomes a DATES value holding the packed integer    *)
(* YYYYMMDD; any other string becomes a CHARS value holding its text; a    *)
(* string the caller marks as NULL becomes a NULLS value.  Under src/ the  *)
(* grammar calls it only with "NULL" (yacc_sql.tab.c:2025); quoted         *)
(* literals go through value_init_string_with_text, which is not under     *)
(* src/.  The function is checked on every string a caller may pass.       *)
(*                                                                         *)
(* A literal is a sequence of characters, each character given by its     *)
(* code minus '0' (the quantity date2num adds up), so the digits are 0..9  *)
(* and '-' is -3.  The date checks are translated from the code; they are  *)
(* checked against a calendar reference written independently of them.    *)
(***************************************************************************)
EXTENDS Integers, Sequences, SequencesExt

CONSTANT Literals   \* the quoted literals the lexer may hand to the parser

Dash == -3          \* '-' - '0'
Digit == 0 .. 9

ASSUME LiteralsAssumption == Literals \subseteq Seq(Int)

NoValue == [type |-> "UNDEFINED", data |-> <<>>, is_null |-> FALSE]

VARIABLES
    lit,       \* the literal of the current value_init_string call
    is_null,   \* its is_null argument
    value      \* the Value the call fills in

vars == <<lit, is_null, value>>

---------------------------------------------------------------------------
(* check_date_format: std::regex_match against ^\d{4}-\d{1,2}-\d{1,2},    *)
(* i.e. a dash at position 5 and one before the last one or two digits.   *)
check_date_format(s) ==
    \E m, d \in 1 .. 2 :
        /\ Len(s) = 4 + 1 + m + 1 + d
        /\ \A i \in 1 .. Len(s) :
              IF i \in {5, 5 + m + 1} THEN s[i] = Dash ELSE s[i] \in Digit

(* One iteration of date2num's loop, at 1-based position i of s (the code *)
(* indexes from 0, so its i == len - 2 is position len - 1 here).         *)
date2num_step(s, i, st) ==
    LET len == Len(s) IN
    IF s[i] # Dash THEN [num |-> st.num + st.mul * s[i], mul |-> st.mul * 10]
    ELSE IF i = len - 1 THEN [st EXCEPT !.mul = @ * 10]
    ELSE IF i = len - 4 THEN IF st.mul = 1000 THEN [st EXCEPT !.mul = @ * 10]
                                              ELSE st
    ELSE IF i = len - 3 THEN [st EXCEPT !.mul = @ * 10]
    ELSE st

(* date2num: the loop from the last character down to the first.  The    *)
(* numbers stay below 10^9 on every string check_date_format accepts, so  *)
(* int arithmetic does not wrap.                                           *)
date2num(s) ==
    FoldRightDomain(LAMBDA i, st : date2num_step(s, i, st), s,
                    [num |-> 0, mul |-> 1]).num

(* The failure classes of check_date_data_convert; each one only ever     *)
(* clears the out-parameter t.                                             *)
DateFails(num) ==
    LET days  == num % 100
        mons  == (num % 10000) \div 100
        years == num \div 10000
    IN \/ num < 19700101 \/ num > 20380131
       \/ days > 31 \/ days < 1
       \/ mons > 12 \/ mons < 1
       \/ mons = 2 /\ years % 4 = 0 /\ days > 29
       \/ mons = 2 /\ years % 4 # 0 /\ days > 28
       \/ mons \in {4, 6, 9, 11} /\ days > 30
       \/ mons \notin {4, 6, 9, 11} /\ days > 31

(* check_date_data_convert(s, t): the packed number and the final t.     *)
check_date_data_convert(s, t) ==
    [num |-> date2num(s), t |-> IF DateFails(date2num(s)) THEN 0 ELSE t]

(* value_init_string, with the caller's initial t = 1.                    *)
value_init_string_t0(v, n, t0) ==
    LET c == check_date_data_convert(v, t0) IN
    IF n THEN [type |-> "NULLS", data |-> v, is_null |-> TRUE]
    ELSE IF check_date_format(v) /\ c.t # 0
         THEN [type |-> "DATES", data |-> c.num, is_null |-> FALSE]
         ELSE [type |-> "CHARS", data |-> v, is_null |-> FALSE]

(* Mutant: the caller leaves t at 0 instead of 1.                          *)
value_init_string_t_zero(v, n) == value_init_string_t0(v, n, 0)

value_init_string(v, n) == value_init_string_t0(v, n, 1)

---------------------------------------------------------------------------
Init ==
    /\ lit \in Literals
    /\ is_null \in BOOLEAN
    /\ value = NoValue

(* The grammar action calls value_init_string on the literal.            *)
InitString ==
    /\ value = NoValue
    /\ value' = value_init_string(lit, is_null)
    /\ UNCHANGED <<lit, is_null>>

(* value_destroy resets the value; the lexer then delivers the next      *)
(* literal.                                                                *)
value_destroy ==
    /\ value # NoValue
    /\ value' = NoValue
    /\ lit' \in Literals
    /\ is_null' \in BOOLEAN

Next == InitString \/ value_destroy

Spec == Init /\ [][Next]_vars

---------------------------------------------------------------------------
(* Calendar reference, written without the code's packing: a date text is *)
(* four digits, a dash, one or two digits, a dash, one or two digits; its  *)
(* fields are read as decimal numbers; a date is valid when the month      *)
(* exists, the day exists in that month of the Gregorian calendar, and the *)
(* date lies between 1970-01-01 and 2038-01-31.                            *)
Number(ds) == FoldLeft(LAMBDA acc, c : 10 * acc + c, 0, ds)

DigitSeqs(k) == [1 .. k -> Digit]

DateText(s, y, m, d) ==
    /\ y \in DigitSeqs(4)
    /\ m \in DigitSeqs(1) \cup DigitSeqs(2)
    /\ d \in DigitSeqs(1) \cup DigitSeqs(2)
    /\ s = y \o <<Dash>> \o m \o <<Dash>> \o d

IsLeap(y) == (y % 4 = 0 /\ y % 100 # 0) \/ y % 400 = 0

DaysIn(y, m) ==
    CASE m = 2             -> IF IsLeap(y) THEN 29 ELSE 28
      [] m \in {4, 6, 9, 11} -> 30
      [] OTHER               -> 31

LexLeq(u, w) == \/ u = w
                \/ \E i \in 1 .. 3 : /\ \A j \in 1 .. i - 1 : u[j] = w[j]
                                     /\ u[i] < w[i]

ValidDate(y, m, d) ==
    /\ m \in 1 .. 12
    /\ d \in 1 .. DaysIn(y, m)
    /\ LexLeq(<<1970, 1, 1>>, <<y, m, d>>)
    /\ LexLeq(<<y, m, d>>, <<2038, 1, 31>>)

(* The ways of reading s as a date text: year, month and day digits.     *)
DateSplits(s) ==
    { p \in { <<SubSeq(s, 1, 4), SubSeq(s, 6, 5 + k), SubSeq(s, 7 + k, Len(s))>> :
               k \in {j \in 1 .. 2 : 7 + j <= Len(s)} } :
        DateText(s, p[1], p[2], p[3]) }

(* Date literal classification (value_init_string with check_date_format,  *)
(* date2num and check_date_data_convert): a non-NULL literal becomes a     *)
(* DATES value exactly when it is a date text naming a valid date in       *)
(* range, and the value then holds YYYY * 10000 + MM * 100 + DD.           *)
DatesExactlyValid ==
    value # NoValue /\ ~is_null =>
      \/ /\ value.type = "DATES"
         /\ \E p \in DateSplits(lit) :
              /\ ValidDate(Number(p[1]), Number(p[2]), Number(p[3]))
              /\ value.data = Number(p[1]) * 10000 + Number(p[2]) * 100 + Number(p[3])
      \/ /\ value.type = "CHARS"
         /\ \A p \in DateSplits(lit) :
              ~ValidDate(Number(p[1]), Number(p[2]), Number(p[3]))
=============================================================================
