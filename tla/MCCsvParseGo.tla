---------------------------- MODULE MCCsvParseGo ----------------------------
(* Small instances of CsvParseGo: the sources and settings of MCCsvParse,  *)
(* and streamed parses whose lines may have the wrong width.               *)
EXTENDS CsvParseGo, MCCsvParse

GoStreamInputs ==
  Family({TxtA, Comma, Line}, MaxStream,
         {Setting(TRUE, FALSE, TRUE, FALSE, FALSE, TRUE, NoNames)})
=============================================================================
