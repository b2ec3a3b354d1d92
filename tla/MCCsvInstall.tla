---------------------------- MODULE MCCsvInstall ----------------------------
(* Small instances of CsvInstall: bags that give one option, or none, next *)
(* to strict.                                                              *)
EXTENDS CsvInstall

Values ==
  {Nil, Val("bool", "true"), Val("bool", "false"), Val("number", "0"), Val("number", "1"),
   Val("number", "NaN"), Val("string", ""), Val("string", "x"), Val("list", "")}

MCBags ==
  {[options |-> [name \in {"strict", given} |-> IF name = given THEN value ELSE mode],
    cyclic |-> cyclic] :
     given \in OptionNames, value \in Values, cyclic \in BOOLEAN,
     mode \in {Val("bool", "true"), Val("bool", "false")}}
=============================================================================
