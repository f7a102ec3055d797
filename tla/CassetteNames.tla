--------------------------- MODULE CassetteNames ----------------------------
(***************************************************************************)
(* The names of a cassette's files and the order sorted() lists them in.   *)
(* An interaction's index is written with three digits, or with four from  *)
(* 1000 on; "_query.sql" follows.  Names are compared character by         *)
(* character, and the underscore comes after every digit.                  *)
(***************************************************************************)
EXTENDS Integers

Underscore == 10   \* after the digits 0 .. 9

(* A mutation: two digits, or three from 100 on.                           *)
NameOfTwoDigits(n) ==
    IF n < 100
    THEN <<n \div 10, n % 10, Underscore, 0, 0>>
    ELSE <<n \div 100, (n \div 10) % 10, n % 10, Underscore, 0>>

(* What tells two names apart: the prefix and the underscore after it, up  *)
(* to five characters.                                                     *)
Name(n) ==
    IF n < 1000
    THEN <<n \div 100, (n \div 10) % 10, n % 10, Underscore, 0>>
    ELSE <<n \div 1000, (n \div 100) % 10, (n \div 10) % 10, n % 10, Underscore>>

ComesBefore(s, t) ==
    \E k \in 1 .. 5 : s[k] < t[k] /\ \A l \in 1 .. (k - 1) : s[l] = t[l]

(* The file of interaction i is loaded before that of j.                   *)
LoadedBefore(i, j) == ComesBefore(Name(i), Name(j))
=============================================================================
