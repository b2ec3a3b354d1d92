----------------------------- MODULE MCQuotedTs -----------------------------
(* Small instances of QuotedTs.                                            *)
EXTENDS QuotedTs, MCQuotedText
=============================================================================
