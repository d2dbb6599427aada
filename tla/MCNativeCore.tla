---------------------------- MODULE MCNativeCore ----------------------------
(***************************************************************************)
(* Instances of NativeCore for TLC: values of two bits, of which the       *)
(* process keeps 0 and -2.                                                 *)
(***************************************************************************)
EXTENDS NativeCore, Bitwise

MCXor(a, b) == a ^^ b

MCTyped == -2 .. 1

Ask(type, mode, key, s1, s2) ==
    [type |-> type, mode |-> mode, key |-> key, s1 |-> s1, s2 |-> s2]

\* The scans store 0, 1, 2 or 4 bytes, so that refinements find a previous value
\* or none.
MCFirst == {Ask("BYTE", "GREATER", 0, <<1>>, Blank)}

\* Under the key, 0 and -2 change places: 0 + -2 can be stored, -2 + -2 wraps
\* to 0.  BETWEEN of a WORD lacks its upper bound.
MCRefine == {Ask("XOR", "INCREASED_BY", 2, <<-2>>, Blank),
             Ask("WORD", "BETWEEN", 0, <<-1>>, <<1>>),
             Ask("DWORD", "EXACT", 0, Blank, Blank)}
=============================================================================
