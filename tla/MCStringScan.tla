---------------------------- MODULE MCStringScan ----------------------------
(***************************************************************************)
(* Instances of StringScan for TLC: bytes "a", "A" and "b", needles of one *)
(* to four bytes, chunks of two pages.                                     *)
(***************************************************************************)
EXTENDS StringScan

MCLower(b) == IF b = "A" THEN "a" ELSE b
MCNeedles  == { <<"a">>, <<"a", "b">>, <<"b", "b">>, <<"a", "A", "b">>,
                <<"b", "a", "b", "A">> }
=============================================================================
