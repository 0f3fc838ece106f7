--------------------------- MODULE MC_SmtpSession ----------------------------
(* SmtpSession for TLC: an empty message, one that ends in what looks like  *)
(* the start of the terminator, and one with a stuffed dot on a line.       *)
EXTENDS SmtpSession

MCBodies == {<<>>, <<"x", CR, LF, CR>>, <<CR, LF, ".", ".">>}
==============================================================================
