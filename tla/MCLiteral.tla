----------------------------- MODULE MCLiteral -----------------------------
(* Literals for TLC: every year, month and day text below in the shape    *)
(* YYYY-M[M]-D[D], around the edges of the DATE range, of the leap days    *)
(* and of the month lengths, and a few literals of other shapes.           *)
EXTENDS Literal, TLC

(* n written with k decimal digits *)
Digits(n, k) == [i \in 1 .. k |-> (n \div 10 ^ (k - i)) % 10]

MCYears  == {1969, 1970, 1999, 2000, 2001, 2004, 2037, 2038, 2039}
MCMonths == {<<0>>, <<1>>, <<2>>, <<4>>, <<9>>, <<0, 0>>, <<0, 1>>, <<0, 2>>,
             <<1, 1>>, <<1, 2>>, <<1, 3>>}
MCDays   == {<<0>>, <<1>>, <<9>>, <<0, 0>>, <<0, 1>>, <<2, 8>>, <<2, 9>>,
             <<3, 0>>, <<3, 1>>, <<3, 2>>}

MCDateTexts ==
    { Digits(y, 4) \o <<Dash>> \o m \o <<Dash>> \o d :
        y \in MCYears, m \in MCMonths, d \in MCDays }

\* 'a' - '0' = 49
MCOtherTexts ==
    { <<2, 0, 2, 0, Dash, 1>>,
      <<2, 0, 2, Dash, 1, Dash, 1>>,
      <<2, 0, 2, 0, 1, Dash, 1, Dash, 1>>,
      <<2, 0, 2, 0, Dash, 0, 0, 1, Dash, 1>>,
      <<2, 0, 2, 0, Dash, 1, Dash, 1, Dash>>,
      <<2, 0, 2, 0, Dash, 49, Dash, 1>>,
      <<49, 49>> }

MCLiterals == MCDateTexts \cup MCOtherTexts
=============================================================================
