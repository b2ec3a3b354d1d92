---------------------------- MODULE MCCsvParseRs ----------------------------
(* Small instances of CsvParseRs: the sources and settings of MCCsvParse.  *)
EXTENDS CsvParseRs, MCCsvParse
=============================================================================
