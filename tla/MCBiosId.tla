------------------------------ MODULE MCBiosId ------------------------------
(* Model-checking instance of BiosId.  Three paragraphs make an F segment  *)
(* in which the first two are scanned and can hold an entry point (the    *)
(* second only with a genuine ep_length) and the third, which the anchor  *)
(* loop leaves out, cannot hold one: with the WMIp copy that is up to     *)
(* five sources in the code's order, enough for a broken or empty table   *)
(* before a good one and a good one before another.  A 40-byte ep_length  *)
(* fits at the first paragraph only.  Two vendor strings of lengths two   *)
(* and one, the second a suffix of the first, over three characters, in   *)
(* every space of four characters: a string at either end, two strings    *)
(* overlapping or side by side.                                            *)
EXTENDS BiosId

MCP == 3
MCLongEp == 40
MCAlphabet == {"a", "b", "c"}
MCVmIds == <<<<"a", "b">>, <<"b">>>>
MCSpaceLen == 4
=============================================================================
