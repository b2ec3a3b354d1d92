----------------------------- MODULE MCQuotedRs -----------------------------
(* Small instances of QuotedRs.                                            *)
EXTENDS QuotedRs, MCQuotedText
=============================================================================
