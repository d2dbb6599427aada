---------------------------- MODULE MCGroupScan -----------------------------
(***************************************************************************)
(* Instances of GroupScan for TLC: values of one and of two bytes, alone   *)
(* and in groups, over every memory of a region of a few pages.  With an   *)
(* odd Margin the span, and so the buffer, is no multiple of a pivot of    *)
(* two bytes.                                                              *)
(***************************************************************************)
EXTENDS GroupScan

MCItems == { << <<1>> >>,
             << <<1>>, <<1, 0>> >>,
             << <<0, 1>>, <<0>> >>,
             << <<0>>, <<1>>, <<1>> >> }
=============================================================================
