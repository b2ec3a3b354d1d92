----------------------------- MODULE CsvInstall -----------------------------
(***************************************************************************)
(* Installing the plugin on an engine (Csv in go/csv.go).  A host uses the *)
(* plugin, once or more, with a bag of option values; the plugin reads the *)
(* bag, and reconfigures the engine in several calls.  Each of the         *)
(* engine's SetOptions runs the installed plugins again, from inside the   *)
(* first run, so the runs form a stack.  Each SetOptions also puts back    *)
(* the engine's own IGNORE set, unless it is given one.                    *)
(***************************************************************************)
EXTENDS Naturals, Sequences, SequencesExt, CsvGrammar

CONSTANTS
  Texts,      \* what a value of a kind may spell
  Bags,       \* the option bags hosts use
  MaxUses,    \* how often the host uses the plugin on one engine
  MaxRuns     \* how deep plugin runs may nest before the process gives up

VARIABLES
  engine,     \* the engine's configuration
  rules,      \* its alternates, by rule and phase
  decorated,  \* the engine's csv-init decoration
  runs,       \* the plugin runs under way, the innermost last
  bag,        \* the merged bag of the use under way
  answers     \* what each use returned, with its bag

vars == <<engine, rules, decorated, runs, bag, answers>>

-----------------------------------------------------------------------------
(* Option values.                                                          *)

Kinds == {"nil", "bool", "number", "string", "list"}
Nil   == [kind |-> "nil", v |-> ""]
Val(kind, v) == [kind |-> kind, v |-> v]

OptionNames == {"strict", "trim", "comment", "number", "value", "empty", "csv", "separation"}

Value == {value \in [kind : Kinds, v : Texts] :
            /\ value.kind = "nil" => value.v = ""
            /\ value.kind = "bool" => value.v \in {"true", "false"}}

ASSUME TextsAssumption == {"", "true", "false"} \subseteq Texts

ASSUME BagsAssumption ==
  \A given \in Bags :
    /\ DOMAIN given.options \subseteq OptionNames
    /\ \A name \in DOMAIN given.options : given.options[name] \in Value
    /\ given.cyclic \in BOOLEAN

\* jsBool, jsNumber and jsString read a value by its kind, so that a declared
\* type over a primitive is the primitive.
\* Mutant: a type assertion on bool.
ToBoolAsserted(value) == value = Val("bool", "true")

ToBool(value) ==
  CASE value.kind = "nil"    -> FALSE
    [] value.kind = "bool"   -> value.v = "true"
    [] value.kind = "number" -> value.v \notin {"0", "NaN"}
    [] value.kind = "string" -> value.v # ""
    [] OTHER                 -> TRUE

IsTrue(value)   == value.kind = "bool" /\ value.v = "true"
IsFalse(value)  == value.kind = "bool" /\ value.v # "true"
StringOf(value) == IF value.kind = "string" THEN value.v ELSE ""

\* UseDefaults: the bag over Defaults.
Defaults == [name \in OptionNames |->
               CASE name = "strict" -> Val("bool", "true")
                 [] name = "empty"  -> Val("bool", "false")
                 [] OTHER           -> Nil]

Over(defaults, given) ==
  [defaults EXCEPT !.options = [name \in OptionNames |->
     IF name \in DOMAIN given.options THEN given.options[name] ELSE @[name]],
                   !.cyclic = given.cyclic]

Merged(given) == Over([options |-> Defaults, cyclic |-> FALSE], given)

\* What the plugin makes of the merged bag: the defaults of trim, comment,
\* number and value depend on strict.
Strict     == ToBool(bag.options["strict"])
Flag(name) == ToBool(bag.options[name]) \/ (~Strict /\ bag.options[name] = Nil)
Matcher    == IF Strict THEN ~IsFalse(bag.options["csv"]) ELSE IsTrue(bag.options["csv"])
Separation == StringOf(bag.options["separation"])

-----------------------------------------------------------------------------
(* The engine.                                                             *)

DefaultIgnore == <<"#SP", "#LN", "#CM">>
Structural    == {"#OB", "#CB", "#OS", "#CS", "#CL"}

\* jsonic's own alternates of a rule, which the plugin never looks into.
Jsonic == Swap(Otherwise, "jsonic")

PlainEngine ==
  [matcher |-> FALSE, exclude |-> {}, start |-> "val", ignore |-> DefaultIgnore,
   number |-> TRUE, value |-> TRUE, comment |-> TRUE, control |-> FALSE,
   single |-> FALSE, off |-> {}, ca |-> ",", trim |-> FALSE]

\* The rules that jsonic has too.
Shared == {"list", "elem", "val"}

PlainRules ==
  [rule \in Rules |-> IF rule \in Shared
                      THEN [open |-> <<Jsonic>>, close |-> <<Jsonic>>]
                      ELSE [open |-> <<>>, close |-> <<>>]]

\* A named token set is laid over the installed one index by index; an empty
\* name clears its index, and "" stands for a cleared one.
Overlay(installed, named) ==
  [i \in DOMAIN installed |-> IF i \in DOMAIN named THEN named[i] ELSE installed[i]]

\* The engine after SetOptions: an IGNORE set that is not given is the default.
Set(options) ==
  [key \in DOMAIN engine |->
     IF key = "ignore"
     THEN IF "ignore" \in DOMAIN options THEN Overlay(engine.ignore, options.ignore)
                                         ELSE DefaultIgnore
     ELSE IF key \in DOMAIN options THEN options[key] ELSE engine[key]]

-----------------------------------------------------------------------------
(* The plugin's run.                                                       *)

Stages == <<"guard", "tag", "matcher", "exclude", "grammar", "overrides", "rules">>

\* Mutant: the overrides come before the grammar.
AfterStageEager(stage) ==
  CASE stage = "exclude" -> "overrides" [] stage = "overrides" -> "grammar"
    [] stage = "grammar" -> "rules"
    [] OTHER -> Stages[CHOOSE i \in DOMAIN Stages : i > 1 /\ Stages[i - 1] = stage]

AfterStage(stage) == Stages[CHOOSE i \in DOMAIN Stages : i > 1 /\ Stages[i - 1] = stage]

At(stage)  == runs # <<>> /\ Last(runs) = stage
Reached    == [runs EXCEPT ![Len(runs)] = AfterStage(@)]

\* SetOptions, in the run under way: the options, then the plugins again.
SetOptions(options) ==
  /\ engine' = Set(options)
  /\ runs' = IF Len(runs) < MaxRuns THEN Append(Reached, "guard") ELSE Reached

\* The run returns: to the SetOptions that ran it, or to the host.
Return(error) ==
  /\ runs' = Front(runs)
  /\ answers' = IF Len(runs) = 1 THEN Append(answers, [bag |-> bag, error |-> error])
                                 ELSE answers

Use ==
  /\ runs = <<>> /\ Len(answers) < MaxUses
  /\ \E given \in Bags : bag' = Merged(given)
  /\ runs' = <<"guard">>
  /\ UNCHANGED <<engine, rules, decorated, answers>>

\* Mutant: the decoration keeps out the host's second use, not the nested runs.
GuardOutside ==
  /\ At("guard")
  /\ IF decorated /\ Len(runs) = 1
     THEN Return("") /\ UNCHANGED decorated
     ELSE decorated' = TRUE /\ runs' = Reached /\ UNCHANGED answers
  /\ UNCHANGED <<engine, rules, bag>>

Guard ==
  /\ At("guard")
  /\ IF decorated THEN Return("") /\ UNCHANGED decorated
                  ELSE decorated' = TRUE /\ runs' = Reached /\ UNCHANGED answers
  /\ UNCHANGED <<engine, rules, bag>>

\* Mutant: the bag is walked once the engine has been given the matcher.
TagLate ==
  /\ At("tag")
  /\ engine' = [engine EXCEPT !.matcher = Matcher]
  /\ IF bag.cyclic THEN Return("cyclic") ELSE runs' = Reached /\ UNCHANGED answers
  /\ UNCHANGED <<rules, decorated, bag>>

\* tagOptions
Tag ==
  /\ At("tag")
  /\ IF bag.cyclic THEN Return("cyclic") ELSE runs' = Reached /\ UNCHANGED answers
  /\ UNCHANGED <<engine, rules, decorated, bag>>

RegisterMatcher ==
  /\ At("matcher")
  /\ IF Matcher THEN SetOptions([matcher |-> TRUE]) ELSE runs' = Reached /\ UNCHANGED engine
  /\ UNCHANGED <<rules, decorated, bag, answers>>

Exclude ==
  /\ At("exclude")
  /\ SetOptions([exclude |-> IF Strict THEN {"jsonic", "imp"} ELSE {"imp"}])
  /\ UNCHANGED <<rules, decorated, bag, answers>>

\* The document's rules join what the engine has of them, with the callbacks,
\* which keep the settings they are made with; its options go through
\* SetOptions.
Extended(alts) ==
  [rule \in Rules |-> [open |-> rules[rule].open \o alts[rule].open,
                       close |-> rules[rule].close \o alts[rule].close]]

Document ==
  LET empty == ToBool(bag.options["empty"])
  IN [rule \in Rules |->
        CASE rule = "csv"     -> [open |-> CsvOpen(empty), close |-> <<>>]
          [] rule = "newline" -> [open |-> NewlineOpen, close |-> NewlineClose]
          [] rule = "record"  -> [open |-> RecordOpen, close |-> RecordClose(empty)]
          [] rule = "text"    -> [open |-> TextOpen, close |-> <<>>]
          [] OTHER            -> [open |-> <<>>, close |-> <<>>]]

Grammar ==
  /\ At("grammar")
  /\ SetOptions([start |-> "csv", trim |-> Flag("trim")])
  /\ rules' = Extended(Document)
  /\ UNCHANGED <<decorated, bag, answers>>

Overrides ==
  /\ At("overrides")
  /\ SetOptions([number |-> Flag("number"), value |-> Flag("value"),
                 comment |-> Flag("comment"), control |-> TRUE,
                 single |-> ToBool(bag.options["empty"]),
                 off |-> engine.off \union (IF Strict THEN Structural ELSE {}),
                 ca |-> IF Separation # "" THEN Separation ELSE engine.ca,
                 ignore |-> IF Strict THEN <<"", "", "#CM">> ELSE <<"#SP", "", "#CM">>])
  /\ UNCHANGED <<rules, decorated, bag, answers>>

\* Mutant: val, to which no close alternate is added, is not cleared of them.
ReplacedOpenOnly ==
  [rules EXCEPT !["list"] = [open |-> ListOpen, close |-> ListClose],
                !["elem"] = [open |-> ElemOpen, close |-> ElemClose],
                !["val"]  = [open |-> ValOpen, close |-> @.close]]

\* In strict mode list, elem and val are replaced.
Replaced ==
  [rules EXCEPT !["list"] = [open |-> ListOpen, close |-> ListClose],
                !["elem"] = [open |-> ElemOpen, close |-> ElemClose],
                !["val"]  = [open |-> ValOpen, close |-> <<>>]]

\* Otherwise the alternates go before those the engine has, but for one push of
\* elem that goes behind.
AtLineEnd == Alt(<<{"LN"}>>, 1)

\* Mutant: the close alternates are added, and those of jsonic come first.
RelaxedAdded ==
  [rules EXCEPT
     !["list"] = [open  |-> <<AtLineEnd>> \o @.open \o <<Push(Otherwise, "elem")>>,
                  close |-> @.close \o <<AtLineEnd, Alt(<<{"ZZ"}>>, 0)>>],
     !["elem"] = [open  |-> <<Do(Alt(<<{"CA"}>>, 1), "elem-open-empty")>> \o @.open,
                  close |-> @.close \o <<Do(Alt(<<{"CA"}, {"LN", "ZZ"}>>, 1), "elem-close-trailing"),
                                          AtLineEnd>>],
     !["val"]  = [open  |-> <<Push(Alt(<<VAL, {"SP"}>>, 2), "text"),
                              Push(Alt(<<{"SP"}>>, 1), "text"), AtLineEnd>> \o @.open,
                  close |-> @.close]]

Relaxed ==
  [rules EXCEPT
     !["list"] = [open  |-> <<AtLineEnd>> \o @.open \o <<Push(Otherwise, "elem")>>,
                  close |-> <<AtLineEnd, Alt(<<{"ZZ"}>>, 0)>> \o @.close],
     !["elem"] = [open  |-> <<Do(Alt(<<{"CA"}>>, 1), "elem-open-empty")>> \o @.open,
                  close |-> <<Do(Alt(<<{"CA"}, {"LN", "ZZ"}>>, 1), "elem-close-trailing"),
                              AtLineEnd>> \o @.close],
     !["val"]  = [open  |-> <<Push(Alt(<<VAL, {"SP"}>>, 2), "text"),
                              Push(Alt(<<{"SP"}>>, 1), "text"), AtLineEnd>> \o @.open,
                  close |-> @.close]]

ReshapeRules ==
  /\ At("rules")
  /\ rules' = IF Strict THEN Replaced ELSE Relaxed
  /\ Return("")
  /\ UNCHANGED <<engine, decorated, bag>>

Init ==
  /\ engine = PlainEngine
  /\ rules = PlainRules
  /\ decorated = FALSE
  /\ runs = <<>>
  /\ bag = [options |-> Defaults, cyclic |-> FALSE]
  /\ answers = <<>>

Next == \/ Use \/ Guard \/ Tag \/ RegisterMatcher \/ Exclude
        \/ Grammar \/ Overrides \/ ReshapeRules

Spec == Init /\ [][Next]_vars

-----------------------------------------------------------------------------
(* Properties.                                                             *)

Falsy == {Nil, Val("bool", "false"), Val("number", "0"), Val("number", "NaN"),
          Val("string", "")}

\* What a merged bag asks of an engine, its booleans read as !! reads them.
Wanted(merged) ==
  LET o      == merged.options
      strict == o["strict"] \notin Falsy
      on(name) == o[name] \notin Falsy \/ (~strict /\ o[name] = Nil)
  IN [matcher |-> IF strict THEN o["csv"] # Val("bool", "false") ELSE o["csv"] = Val("bool", "true"),
      exclude |-> IF strict THEN {"jsonic", "imp"} ELSE {"imp"},
      start |-> "csv",
      ignore |-> IF strict THEN <<"", "", "#CM">> ELSE <<"#SP", "", "#CM">>,
      trim |-> on("trim"), number |-> on("number"), value |-> on("value"), comment |-> on("comment"),
      control |-> TRUE, single |-> o["empty"] \notin Falsy,
      off |-> IF strict THEN Structural ELSE {},
      ca |-> IF o["separation"].kind = "string" /\ o["separation"].v # ""
             THEN o["separation"].v ELSE ","]

Idle == runs = <<>>

\* Whatever the nested runs and the engine's resets do on the way, an engine
\* whose first use returned no error stands as that use's bag asks, and no
\* later use moves it.
StandsAsAsked ==
  Idle /\ answers # <<>> /\ answers[1].error = "" => engine = Wanted(answers[1].bag)

\* The alternates of list, elem and val that outside strict mode are left to
\* jsonic's own: values, and the commas and the end that go with them.
LeftToJsonic(rule) ==
  CASE rule = "elem" -> {Push(Otherwise, "val"), Swap(Alt(<<{"CA"}>>, 0), "elem"), Alt(<<{"ZZ"}>>, 0)}
    [] rule = "val"  -> {Alt(<<VAL>>, 0)}
    [] OTHER         -> {}

OwnClose(rule, empty) ==
  IF rule \in {"newline", "record", "list", "elem"} THEN CloseAlts(rule, empty) ELSE <<>>

\* jsonic's alternates, with those of own that take a token before them, the
\* others behind, and nothing else.
AroundJsonic(alts, own) ==
  \E i \in DOMAIN alts :
    /\ alts[i] = Jsonic
    /\ {alts[j] : j \in 1 .. i - 1} = {alt \in own : alt.s # <<>>}
    /\ {alts[j] : j \in i + 1 .. Len(alts)} = {alt \in own : alt.s = <<>>}

\* The rules that a use of the merged bag is to leave.
Settled(final, merged) ==
  LET strict == merged.options["strict"] \notin Falsy
      empty  == merged.options["empty"] \notin Falsy
  IN \A rule \in Rules :
       LET open  == OpenAlts(rule, empty)
           close == OwnClose(rule, empty)
       IN /\ IsInjective(final[rule].open) /\ IsInjective(final[rule].close)
          /\ IF strict \/ rule \notin Shared
             THEN final[rule].open = open /\ final[rule].close = close
             ELSE /\ AroundJsonic(final[rule].open, Range(open) \ LeftToJsonic(rule))
                  /\ AroundJsonic(final[rule].close, Range(close) \ LeftToJsonic(rule))

\* The runs that SetOptions starts install nothing: on an engine whose first use
\* returned no error, the open and the close list of every rule hold each
\* alternate that the plugin has for them in that use's mode, and none twice.
\* jsonic's own are gone in strict mode.  Outside it list, elem and val still have
\* them, behind every alternate of the plugin that takes a token and before the
\* push of elem, which takes none.
InstalledOnce ==
  Idle /\ answers # <<>> /\ answers[1].error = "" => Settled(rules, answers[1].bag)

\* A first use that is refused has touched neither the engine's options nor its
\* rules.  It has decorated the engine, though, so no later use touches them
\* either, whatever its bag and although it returns no error.
RefusalIsClean ==
  Idle /\ answers # <<>> /\ answers[1].error # "" => engine = PlainEngine /\ rules = PlainRules
=============================================================================
