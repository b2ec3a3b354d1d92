----------------------------- MODULE MCQuotedGo -----------------------------
(* Small instances of QuotedGo.                                            *)
EXTENDS QuotedGo, MCQuotedText
=============================================================================
