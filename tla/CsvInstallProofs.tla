-------------------------- MODULE CsvInstallProofs --------------------------
(***************************************************************************)
(* What CsvInstall promises a host, for every set of option bags, however  *)
(* often the plugin is used and however deep its runs may nest.            *)
(***************************************************************************)
EXTENDS CsvInstall, SequenceTheorems, TLAPS

Keys == DOMAIN PlainEngine

\* The settings that are made when a run comes to a stage.
MadeBy(stage) ==
  CASE stage = "exclude"   -> {"matcher"}
    [] stage = "grammar"   -> {"matcher", "exclude"}
    [] stage = "overrides" -> {"matcher", "exclude", "start", "trim"}
    [] stage = "rules"     -> Keys
    [] OTHER               -> {}

\* The engine half way: some settings as the bag asks, the others plain.
Configured(made, wanted) ==
  [key \in Keys |-> IF key \in made THEN wanted[key] ELSE PlainEngine[key]]

Bag    == [options : [OptionNames -> Value], cyclic : BOOLEAN]
Answer == [bag : Bag, error : {"", "cyclic"}]

StageNames == {"guard", "tag", "matcher", "exclude", "grammar", "overrides", "rules"}

\* Only the first run gets past the guard; the one it nests stops there.
RunsOK ==
  \/ runs = <<>>
  \/ \E stage \in StageNames : runs = <<stage>>
  \/ \E stage \in {"exclude", "grammar", "overrides", "rules"} : runs = <<stage, "guard">>

Installing == runs # <<>> /\ runs[1] # "guard"

\* The rules once the document has joined the engine's own.
Grown(empty) ==
  [rule \in Rules |->
     CASE rule = "csv"     -> [open |-> CsvOpen(empty), close |-> <<>>]
       [] rule = "newline" -> [open |-> NewlineOpen, close |-> NewlineClose]
       [] rule = "record"  -> [open |-> RecordOpen, close |-> RecordClose(empty)]
       [] rule = "text"    -> [open |-> TextOpen, close |-> <<>>]
       [] OTHER            -> [open |-> <<Jsonic>>, close |-> <<Jsonic>>]]

\* The engine follows the one installation, and rests before and after it.
EngineOK ==
  /\ ~decorated => /\ answers = <<>> /\ ~Installing
                   /\ engine = PlainEngine /\ rules = PlainRules
  /\ Installing => /\ answers = <<>>
                   /\ engine = Configured(MadeBy(runs[1]), Wanted(bag))
                   /\ runs[1] \in {"tag", "matcher", "exclude", "grammar"} => rules = PlainRules
                   /\ runs[1] \in {"overrides", "rules"} =>
                        rules = Grown(ToBool(bag.options["empty"]))
  /\ decorated /\ ~Installing => answers # <<>>
  /\ answers # <<>> /\ answers[1].error = "" =>
       engine = Wanted(answers[1].bag) /\ Settled(rules, answers[1].bag)
  /\ answers # <<>> /\ answers[1].error # "" => engine = PlainEngine /\ rules = PlainRules

InstallInv == bag \in Bag /\ answers \in Seq(Answer) /\ RunsOK /\ EngineOK

-----------------------------------------------------------------------------
(* The runs.                                                               *)

LEMMA Stage ==
  /\ AfterStage("guard") = "tag"
  /\ AfterStage("tag") = "matcher"
  /\ AfterStage("matcher") = "exclude"
  /\ AfterStage("exclude") = "grammar"
  /\ AfterStage("grammar") = "overrides"
  /\ AfterStage("overrides") = "rules"
<1>1. /\ DOMAIN Stages = 1 .. 7
      /\ Stages[1] = "guard" /\ Stages[2] = "tag" /\ Stages[3] = "matcher"
      /\ Stages[4] = "exclude" /\ Stages[5] = "grammar" /\ Stages[6] = "overrides"
      /\ Stages[7] = "rules"
  BY DEF Stages
<1>2. ASSUME NEW k \in 1 .. 6 PROVE AfterStage(Stages[k]) = Stages[k + 1]
  <2>1. \A i \in DOMAIN Stages : i > 1 /\ Stages[i - 1] = Stages[k] <=> i = k + 1
    BY <1>1
  <2>2. k + 1 \in DOMAIN Stages
    BY <1>1
  <2>3. QED
    BY <2>1, <2>2 DEF AfterStage
<1>3. QED
  BY <1>1, <1>2

\* Where the run under way is.
LEMMA Under ==
  ASSUME RunsOK, NEW stage \in StageNames \ {"guard"}, At(stage)
  PROVE  runs = <<stage>> /\ Len(runs) = 1
BY DEF RunsOK, At, Last

LEMMA ReachedNext ==
  ASSUME NEW stage, runs = <<stage>>
  PROVE  Reached = <<AfterStage(stage)>>
BY DEF Reached

LEMMA Nested ==
  ASSUME NEW S, NEW a \in S, NEW b \in S
  PROVE  Append(<<a>>, b) = <<a, b>>
<1>1. /\ <<a>> \in Seq(S) /\ Len(<<a>>) = 1 /\ <<a>>[1] = a
      /\ <<a, b>> \in Seq(S) /\ Len(<<a, b>>) = 2 /\ <<a, b>>[1] = a /\ <<a, b>>[2] = b
  OBVIOUS
<1>2. PICK s \in Seq(S) : s = Append(<<a>>, b)
  BY <1>1, AppendProperties
<1>3. Len(s) = 2 /\ s[1] = a /\ s[2] = b
  BY <1>1, <1>2, AppendProperties
<1>4. PICK t \in Seq(S) : t = <<a, b>>
  BY <1>1
<1>5. Len(t) = 2 /\ t[1] = a /\ t[2] = b
  BY <1>1, <1>4
<1>6. \A i \in 1 .. 2 : s[i] = t[i]
  BY <1>3, <1>5
<1>7. QED
  BY <1>2, <1>3, <1>4, <1>5, <1>6, SeqEqual

LEMMA SetRuns ==
  ASSUME NEW stage, runs = <<stage>>, AfterStage(stage) \in StageNames,
         NEW options, SetOptions(options)
  PROVE  /\ engine' = Set(options)
         /\ \/ runs' = <<AfterStage(stage)>>
            \/ runs' = <<AfterStage(stage), "guard">>
<1>1. Reached = <<AfterStage(stage)>>
  BY ReachedNext
<1>2. PICK next \in StageNames : next = AfterStage(stage)
  OBVIOUS
<1>3. "guard" \in StageNames
  BY DEF StageNames
<1>4. Append(<<next>>, "guard") = <<next, "guard">>
  BY <1>3, Nested
<1>5. QED
  BY <1>1, <1>2, <1>4 DEF SetOptions

LEMMA ReturnRuns ==
  ASSUME NEW stage, runs = <<stage>>, NEW error, Return(error)
  PROVE  runs' = <<>> /\ answers' = Append(answers, [bag |-> bag, error |-> error])
BY DEF Return, Front

-----------------------------------------------------------------------------
(* The settings.                                                           *)

LEMMA ValueMade ==
  ASSUME NEW value \in Value, NEW kind, NEW v
  PROVE  value = Val(kind, v) <=> value.kind = kind /\ value.v = v
<1>1. value \in [kind : Kinds, v : Texts]
  BY DEF Value
<1>2. QED
  BY <1>1 DEF Val

LEMMA BoolRead ==
  ASSUME NEW value \in Value
  PROVE  ToBool(value) <=> value \notin Falsy
<1>1. /\ value.kind \in Kinds
      /\ value.kind = "nil" => value.v = ""
      /\ value.kind = "bool" => value.v \in {"true", "false"}
  BY DEF Value
<1>2. value \in Falsy <=>
        \/ value = Val("nil", "") \/ value = Val("bool", "false") \/ value = Val("number", "0")
        \/ value = Val("number", "NaN") \/ value = Val("string", "")
  BY DEF Falsy, Nil, Val
<1>3. /\ value = Val("nil", "") <=> value.kind = "nil" /\ value.v = ""
      /\ value = Val("bool", "false") <=> value.kind = "bool" /\ value.v = "false"
      /\ value = Val("number", "0") <=> value.kind = "number" /\ value.v = "0"
      /\ value = Val("number", "NaN") <=> value.kind = "number" /\ value.v = "NaN"
      /\ value = Val("string", "") <=> value.kind = "string" /\ value.v = ""
  BY ValueMade
<1>4. /\ value.kind = "nil" => ~ToBool(value)
      /\ value.kind = "bool" => (ToBool(value) <=> value.v = "true")
      /\ value.kind = "number" => (ToBool(value) <=> value.v \notin {"0", "NaN"})
      /\ value.kind = "string" => (ToBool(value) <=> value.v # "")
      /\ value.kind = "list" => ToBool(value)
  BY DEF ToBool
<1>5. QED
  BY <1>1, <1>2, <1>3, <1>4 DEF Kinds

LEMMA DefaultsTyped == Defaults \in [OptionNames -> Value]
<1>1. Nil \in Value /\ Val("bool", "true") \in Value /\ Val("bool", "false") \in Value
  <2>1. /\ [kind |-> "nil", v |-> ""] \in Value
        /\ [kind |-> "bool", v |-> "true"] \in Value
        /\ [kind |-> "bool", v |-> "false"] \in Value
    BY TextsAssumption DEF Value, Kinds
  <2>2. QED
    BY <2>1 DEF Nil, Val
<1>2. \A name \in OptionNames : Defaults[name] \in {Nil, Val("bool", "true"), Val("bool", "false")}
  BY DEF Defaults
<1>3. QED
  BY <1>1, <1>2 DEF Defaults

LEMMA MergedTyped ==
  ASSUME NEW given \in Bags
  PROVE  Merged(given) \in Bag
<1>1. \A name \in OptionNames : Defaults[name] \in Value
  BY DefaultsTyped
<1>2. QED
  BY <1>1, BagsAssumption DEF Merged, Over, Bag

\* The plugin reads the bag as !! reads it.
LEMMA SettingsRead ==
  ASSUME bag \in Bag
  PROVE  /\ Strict <=> bag.options["strict"] \notin Falsy
         /\ \A name \in OptionNames :
              Flag(name) <=> \/ bag.options[name] \notin Falsy
                             \/ bag.options["strict"] \in Falsy /\ bag.options[name] = Nil
         /\ ToBool(bag.options["empty"]) <=> bag.options["empty"] \notin Falsy
<1>1. \A name \in OptionNames : bag.options[name] \in Value
  BY DEF Bag
<1>2. QED
  BY <1>1, BoolRead DEF Strict, Flag, OptionNames

\* What the bag wants, in the plugin's own words.
LEMMA WantedRead ==
  ASSUME bag \in Bag, NEW w, w = Wanted(bag)
  PROVE  /\ DOMAIN w = Keys
         /\ w["matcher"] = Matcher
         /\ w["exclude"] = IF Strict THEN {"jsonic", "imp"} ELSE {"imp"}
         /\ w["start"] = "csv" /\ w["control"] = TRUE
         /\ w["trim"] = Flag("trim") /\ w["number"] = Flag("number")
         /\ w["value"] = Flag("value") /\ w["comment"] = Flag("comment")
         /\ w["single"] = ToBool(bag.options["empty"])
         /\ w["off"] = IF Strict THEN Structural ELSE {}
         /\ w["ca"] = IF Separation # "" THEN Separation ELSE ","
         /\ w["ignore"] = IF Strict THEN <<"", "", "#CM">> ELSE <<"#SP", "", "#CM">>
<1>1. /\ Strict = (bag.options["strict"] \notin Falsy)
      /\ ToBool(bag.options["empty"]) = (bag.options["empty"] \notin Falsy)
      /\ \A name \in {"trim", "number", "value", "comment"} :
           Flag(name) = \/ bag.options[name] \notin Falsy
                        \/ ~(bag.options["strict"] \notin Falsy) /\ bag.options[name] = Nil
  <2>1. \A name \in {"trim", "number", "value", "comment"} : name \in OptionNames
    BY DEF OptionNames
  <2>2. QED
    BY <2>1, SettingsRead DEF Strict, Flag, ToBool
<1>2. DOMAIN w = Keys
  BY DEF Wanted, Keys, PlainEngine
<1>3. w["matcher"] = Matcher
  <2>1. PICK csv \in Value : csv = bag.options["csv"]
    BY DEF Bag, OptionNames
  <2>2. csv.kind = "bool" => csv.v \in {"true", "false"}
    BY DEF Value
  <2>3. /\ csv = Val("bool", "false") <=> csv.kind = "bool" /\ csv.v = "false"
        /\ csv = Val("bool", "true") <=> csv.kind = "bool" /\ csv.v = "true"
    BY ValueMade
  <2>4. /\ IsFalse(csv) <=> csv = Val("bool", "false")
        /\ IsTrue(csv) <=> csv = Val("bool", "true")
    BY <2>2, <2>3 DEF IsFalse, IsTrue
  <2>5. w["matcher"] = IF Strict THEN csv # Val("bool", "false") ELSE csv = Val("bool", "true")
    BY <1>1, <2>1 DEF Wanted
  <2>6. Matcher = IF Strict THEN ~IsFalse(csv) ELSE IsTrue(csv)
    BY <2>1 DEF Matcher
  <2>7. QED
    BY <2>4, <2>5, <2>6 DEF IsFalse, IsTrue
<1>4. /\ w["trim"] = Flag("trim") /\ w["number"] = Flag("number")
      /\ w["value"] = Flag("value") /\ w["comment"] = Flag("comment")
      /\ w["single"] = ToBool(bag.options["empty"])
  BY <1>1 DEF Wanted
<1>5. w["ca"] = IF Separation # "" THEN Separation ELSE ","
  BY DEF Wanted, Separation, StringOf
<1>6. /\ w["exclude"] = IF Strict THEN {"jsonic", "imp"} ELSE {"imp"}
      /\ w["start"] = "csv" /\ w["control"] = TRUE
      /\ w["off"] = IF Strict THEN Structural ELSE {}
      /\ w["ignore"] = IF Strict THEN <<"", "", "#CM">> ELSE <<"#SP", "", "#CM">>
  BY <1>1 DEF Wanted
<1>7. QED
  BY <1>2, <1>3, <1>4, <1>5, <1>6

LEMMA WantedIsRecord ==
  ASSUME NEW w, w = Wanted(bag)
  PROVE  w = [key \in DOMAIN w |-> w[key]]
<1> DEFINE o      == bag.options
           strict == o["strict"] \notin Falsy
           on(name) == o[name] \notin Falsy \/ (~strict /\ o[name] = Nil)
           m == IF strict THEN o["csv"] # Val("bool", "false") ELSE o["csv"] = Val("bool", "true")
           e == IF strict THEN {"jsonic", "imp"} ELSE {"imp"}
           i == IF strict THEN <<"", "", "#CM">> ELSE <<"#SP", "", "#CM">>
           t == on("trim")
           n == on("number")
           v == on("value")
           c == on("comment")
           g == o["empty"] \notin Falsy
           f == IF strict THEN Structural ELSE {}
           a == IF o["separation"].kind = "string" /\ o["separation"].v # ""
                THEN o["separation"].v ELSE ","
<1>1. w = [matcher |-> m, exclude |-> e, start |-> "csv", ignore |-> i, trim |-> t,
           number |-> n, value |-> v, comment |-> c, control |-> TRUE, single |-> g,
           off |-> f, ca |-> a]
  BY DEF Wanted
<1> HIDE DEF m, e, i, t, n, v, c, g, f, a
<1>2. QED
  BY <1>1

LEMMA PlainKeys ==
  /\ Keys = {"matcher", "exclude", "start", "ignore", "number", "value", "comment", "control",
             "single", "off", "ca", "trim"}
  /\ PlainEngine["matcher"] = FALSE /\ PlainEngine["exclude"] = {} /\ PlainEngine["start"] = "val"
  /\ PlainEngine["ignore"] = DefaultIgnore /\ PlainEngine["off"] = {} /\ PlainEngine["ca"] = ","
BY DEF Keys, PlainEngine

LEMMA NothingMade ==
  ASSUME NEW wanted
  PROVE  Configured({}, wanted) = PlainEngine
BY DEF Configured, Keys, PlainEngine

LEMMA AllMade ==
  ASSUME NEW wanted, DOMAIN wanted = Keys, wanted = [key \in Keys |-> wanted[key]]
  PROVE  Configured(Keys, wanted) = wanted
BY DEF Configured

\* A SetOptions that gives some settings as the bag wants them.
LEMMA Made ==
  ASSUME NEW made, NEW wanted, "ignore" \notin made, engine = Configured(made, wanted),
         NEW options, "ignore" \notin DOMAIN options,
         \A key \in DOMAIN options : key \in Keys /\ options[key] = wanted[key]
  PROVE  Set(options) = Configured(made \union DOMAIN options, wanted)
<1>1. DOMAIN engine = Keys /\ engine["ignore"] = DefaultIgnore
  BY PlainKeys DEF Configured
<1>2. ASSUME NEW key \in Keys
      PROVE  (IF key = "ignore" THEN DefaultIgnore
              ELSE IF key \in DOMAIN options THEN options[key] ELSE engine[key])
             = (IF key \in made \union DOMAIN options THEN wanted[key] ELSE PlainEngine[key])
  BY PlainKeys DEF Configured
<1>3. Set(options) = [key \in Keys |->
                        IF key = "ignore" THEN DefaultIgnore
                        ELSE IF key \in DOMAIN options THEN options[key] ELSE engine[key]]
  BY <1>1 DEF Set
<1>4. QED
  BY <1>2, <1>3 DEF Configured

-----------------------------------------------------------------------------
(* The alternates.                                                         *)

\* Tuples as sequences.
LEMMA OneOf ==
  ASSUME NEW S, NEW a \in S, NEW p, p = <<a>>
  PROVE  p \in Seq(S) /\ Len(p) = 1 /\ p[1] = a
OBVIOUS

LEMMA TwoOf ==
  ASSUME NEW S, NEW a \in S, NEW b \in S, NEW p, p = <<a, b>>
  PROVE  p \in Seq(S) /\ Len(p) = 2 /\ p[1] = a /\ p[2] = b
OBVIOUS

LEMMA ThreeOf ==
  ASSUME NEW S, NEW a \in S, NEW b \in S, NEW c \in S, NEW p, p = <<a, b, c>>
  PROVE  p \in Seq(S) /\ Len(p) = 3 /\ p[1] = a /\ p[2] = b /\ p[3] = c
OBVIOUS

LEMMA FourOf ==
  ASSUME NEW S, NEW a \in S, NEW b \in S, NEW c \in S, NEW d \in S, NEW p, p = <<a, b, c, d>>
  PROVE  p \in Seq(S) /\ Len(p) = 4 /\ p[1] = a /\ p[2] = b /\ p[3] = c /\ p[4] = d
OBVIOUS

LEMMA SameAs ==
  ASSUME NEW S, NEW s \in Seq(S), NEW e \in S, NEW u \in Seq(S), Len(u) = Len(s) + 1,
         \A i \in 1 .. Len(s) : u[i] = s[i], u[Len(s) + 1] = e
  PROVE  s \o <<e>> = u
<1>1. PICK v \in Seq(S) : v = Append(s, e)
  BY AppendProperties
<1>2. Len(v) = Len(s) + 1 /\ (\A i \in 1 .. Len(s) : v[i] = s[i]) /\ v[Len(s) + 1] = e
  BY <1>1, AppendProperties
<1>3. \A i \in 1 .. Len(v) : v[i] = u[i]
  BY <1>2, LenProperties
<1>4. v = u
  BY <1>2, <1>3, SeqEqual
<1>5. QED
  BY <1>1, <1>4, AppendIsConcat

LEMMA Behind1 ==
  ASSUME NEW S, NEW a \in S, NEW b \in S
  PROVE  <<a>> \o <<b>> = <<a, b>>
<1>1. PICK s : s = <<a>>
  OBVIOUS
<1>2. PICK u : u = <<a, b>>
  OBVIOUS
<1>3. s \in Seq(S) /\ Len(s) = 1 /\ s[1] = a
  BY <1>1, OneOf
<1>4. u \in Seq(S) /\ Len(u) = 2 /\ u[1] = a /\ u[2] = b
  BY <1>2, TwoOf
<1>5. s \o <<b>> = u
  <2>1. Len(u) = Len(s) + 1 /\ u[Len(s) + 1] = b /\ \A i \in 1 .. Len(s) : u[i] = s[i]
    BY <1>3, <1>4
  <2>2. QED
    BY <1>3, <1>4, <2>1, SameAs
<1>6. QED
  BY <1>1, <1>2, <1>5

LEMMA Behind2 ==
  ASSUME NEW S, NEW a \in S, NEW b \in S, NEW c \in S
  PROVE  <<a, b>> \o <<c>> = <<a, b, c>>
<1>1. PICK s : s = <<a, b>>
  OBVIOUS
<1>2. PICK u : u = <<a, b, c>>
  OBVIOUS
<1>3. s \in Seq(S) /\ Len(s) = 2 /\ s[1] = a /\ s[2] = b
  BY <1>1, TwoOf
<1>4. u \in Seq(S) /\ Len(u) = 3 /\ u[1] = a /\ u[2] = b /\ u[3] = c
  BY <1>2, ThreeOf
<1>5. s \o <<c>> = u
  <2>1. Len(u) = Len(s) + 1 /\ u[Len(s) + 1] = c /\ \A i \in 1 .. Len(s) : u[i] = s[i]
    BY <1>3, <1>4
  <2>2. QED
    BY <1>3, <1>4, <2>1, SameAs
<1>6. QED
  BY <1>1, <1>2, <1>5

LEMMA Behind3 ==
  ASSUME NEW S, NEW a \in S, NEW b \in S, NEW c \in S, NEW d \in S
  PROVE  <<a, b, c>> \o <<d>> = <<a, b, c, d>>
<1>1. PICK s : s = <<a, b, c>>
  OBVIOUS
<1>2. PICK u : u = <<a, b, c, d>>
  OBVIOUS
<1>3. s \in Seq(S) /\ Len(s) = 3 /\ s[1] = a /\ s[2] = b /\ s[3] = c
  BY <1>1, ThreeOf
<1>4. u \in Seq(S) /\ Len(u) = 4 /\ u[1] = a /\ u[2] = b /\ u[3] = c /\ u[4] = d
  BY <1>2, FourOf
<1>5. s \o <<d>> = u
  <2>1. Len(u) = Len(s) + 1 /\ u[Len(s) + 1] = d /\ \A i \in 1 .. Len(s) : u[i] = s[i]
    BY <1>3, <1>4
  <2>2. QED
    BY <1>3, <1>4, <2>1, SameAs
<1>6. QED
  BY <1>1, <1>2, <1>5

\* No list of alternates has one twice.
LEMMA NewlineOpenOnce ==
  IsInjective(NewlineOpen)
<1>1. PICK a, b, c, d :
        /\ a = Swap(Alt(<<{"LN"}, {"LN"}>>, 0), "newline")
        /\ b = Swap(Alt(<<{"LN"}>>, 0), "newline")
        /\ c = Alt(<<{"ZZ"}>>, 0)
        /\ d = Swap(Otherwise, "record")
  OBVIOUS
<1>2. a.r = "newline" /\ b.r = "newline" /\ c.r = "" /\ d.r = "record"
  BY <1>1 DEF Alt, Push, Swap, Do, Count, Otherwise
<1>3. a # b
  <2>1. a.s = <<{"LN"}, {"LN"}>> /\ b.s = <<{"LN"}>>
    BY <1>1 DEF Alt, Swap
  <2>2. Len(a.s) = 2 /\ Len(b.s) = 1
    BY <2>1
  <2>3. QED
    BY <2>2
<1>4. a # b /\ a # c /\ a # d /\ b # c /\ b # d /\ c # d
  <2>1. a # b
    BY <1>3
  <2>2. a # c
    BY <1>2
  <2>3. a # d
    BY <1>2
  <2>4. b # c
    BY <1>2
  <2>5. b # d
    BY <1>2
  <2>6. c # d
    BY <1>2
  <2>7. QED
    BY <2>1, <2>2, <2>3, <2>4, <2>5, <2>6
<1>5. NewlineOpen = <<a, b, c, d>>
  BY <1>1 DEF NewlineOpen
<1>6. QED
  BY <1>4, <1>5 DEF IsInjective

LEMMA NewlineCloseOnce == IsInjective(NewlineClose)
BY NewlineOpenOnce DEF NewlineOpen, NewlineClose

LEMMA ValOpenOnce ==
  IsInjective(ValOpen)
<1>1. PICK a, b, c, d :
        /\ a = Push(Alt(<<VAL, {"SP"}>>, 2), "text")
        /\ b = Push(Alt(<<{"SP"}>>, 1), "text")
        /\ c = Alt(<<VAL>>, 0)
        /\ d = Alt(<<{"LN"}>>, 1)
  OBVIOUS
<1>2. a.p = "text" /\ b.p = "text" /\ c.p = "" /\ d.p = ""
  BY <1>1 DEF Alt, Push, Swap, Do, Count, Otherwise
<1>3. a.b = 2 /\ b.b = 1 /\ c.b = 0 /\ d.b = 1
  BY <1>1 DEF Alt, Push, Swap, Do, Count, Otherwise
<1>4. a # b /\ a # c /\ a # d /\ b # c /\ b # d /\ c # d
  <2>1. a # b
    BY <1>3
  <2>2. a # c
    BY <1>2
  <2>3. a # d
    BY <1>2
  <2>4. b # c
    BY <1>2
  <2>5. b # d
    BY <1>2
  <2>6. c # d
    BY <1>3
  <2>7. QED
    BY <2>1, <2>2, <2>3, <2>4, <2>5, <2>6
<1>5. ValOpen = <<a, b, c, d>>
  BY <1>1 DEF ValOpen
<1>6. QED
  BY <1>4, <1>5 DEF IsInjective

LEMMA TextOpenOnce ==
  IsInjective(TextOpen)
<1>1. PICK a, b, c, d, e :
        /\ a = Swap(Do(Count(Alt(<<VAL, {"SP"}>>, 1)), "text-follows"), "text")
        /\ b = Swap(Do(Count(Alt(<<{"SP"}, VAL>>, 0)), "text-leads"), "text")
        /\ c = Do(Count(Alt(<<{"SP"}, {"CA", "LN", "ZZ"}>>, 1)), "text-end")
        /\ d = Do(Count(Alt(<<{"SP"}>>, 0)), "text-space")
        /\ e = Otherwise
  OBVIOUS
<1>2. a.a = "text-follows" /\ b.a = "text-leads" /\ c.a = "text-end" /\ d.a = "text-space" /\ e.a = ""
  BY <1>1 DEF Alt, Push, Swap, Do, Count, Otherwise
<1>4. a # b /\ a # c /\ a # d /\ a # e /\ b # c /\ b # d /\ b # e /\ c # d /\ c # e /\ d # e
  <2>1. a # b
    BY <1>2
  <2>2. a # c
    BY <1>2
  <2>3. a # d
    BY <1>2
  <2>4. a # e
    BY <1>2
  <2>5. b # c
    BY <1>2
  <2>6. b # d
    BY <1>2
  <2>7. b # e
    BY <1>2
  <2>8. c # d
    BY <1>2
  <2>9. c # e
    BY <1>2
  <2>10. d # e
    BY <1>2
  <2>11. QED
    BY <2>1, <2>2, <2>3, <2>4, <2>5, <2>6, <2>7, <2>8, <2>9, <2>10
<1>5. TextOpen = <<a, b, c, d, e>>
  BY <1>1 DEF TextOpen
<1>6. QED
  BY <1>4, <1>5 DEF IsInjective

LEMMA ListOpenOnce ==
  IsInjective(ListOpen)
<1>1. PICK a, b :
        /\ a = Alt(<<{"LN"}>>, 1)
        /\ b = Push(Otherwise, "elem")
  OBVIOUS
<1>2. a.p = "" /\ b.p = "elem"
  BY <1>1 DEF Alt, Push, Swap, Do, Count, Otherwise
<1>4. a # b
  BY <1>2
<1>5. ListOpen = <<a, b>>
  BY <1>1 DEF ListOpen
<1>6. QED
  BY <1>4, <1>5 DEF IsInjective

LEMMA ListCloseOnce ==
  IsInjective(ListClose)
<1>1. PICK a, b :
        /\ a = Alt(<<{"LN"}>>, 1)
        /\ b = Alt(<<{"ZZ"}>>, 0)
  OBVIOUS
<1>2. a.b = 1 /\ b.b = 0
  BY <1>1 DEF Alt, Push, Swap, Do, Count, Otherwise
<1>4. a # b
  BY <1>2
<1>5. ListClose = <<a, b>>
  BY <1>1 DEF ListClose
<1>6. QED
  BY <1>4, <1>5 DEF IsInjective

LEMMA ElemOpenOnce ==
  IsInjective(ElemOpen)
<1>1. PICK a, b :
        /\ a = Do(Alt(<<{"CA"}>>, 1), "elem-open-empty")
        /\ b = Push(Otherwise, "val")
  OBVIOUS
<1>2. a.p = "" /\ b.p = "val"
  BY <1>1 DEF Alt, Push, Swap, Do, Count, Otherwise
<1>4. a # b
  BY <1>2
<1>5. ElemOpen = <<a, b>>
  BY <1>1 DEF ElemOpen
<1>6. QED
  BY <1>4, <1>5 DEF IsInjective

LEMMA ElemCloseOnce ==
  IsInjective(ElemClose)
<1>1. PICK a, b, c, d :
        /\ a = Do(Alt(<<{"CA"}, {"LN", "ZZ"}>>, 1), "elem-close-trailing")
        /\ b = Swap(Alt(<<{"CA"}>>, 0), "elem")
        /\ c = Alt(<<{"LN"}>>, 1)
        /\ d = Alt(<<{"ZZ"}>>, 0)
  OBVIOUS
<1>2. /\ a.a = "elem-close-trailing" /\ b.a = "" /\ c.a = "" /\ d.a = ""
      /\ b.r = "elem" /\ c.r = "" /\ d.r = ""
  BY <1>1 DEF Alt, Push, Swap, Do, Count, Otherwise
<1>3. c.b = 1 /\ d.b = 0
  BY <1>1 DEF Alt, Push, Swap, Do, Count, Otherwise
<1>4. a # b /\ a # c /\ a # d /\ b # c /\ b # d /\ c # d
  <2>1. a # b
    BY <1>2
  <2>2. a # c
    BY <1>2
  <2>3. a # d
    BY <1>2
  <2>4. b # c
    BY <1>2
  <2>5. b # d
    BY <1>2
  <2>6. c # d
    BY <1>3
  <2>7. QED
    BY <2>1, <2>2, <2>3, <2>4, <2>5, <2>6
<1>5. ElemClose = <<a, b, c, d>>
  BY <1>1 DEF ElemClose
<1>6. QED
  BY <1>4, <1>5 DEF IsInjective

LEMMA CsvOpenOnce ==
  ASSUME NEW re \in BOOLEAN
  PROVE  IsInjective(CsvOpen(re))
<1>1. PICK a, b, c :
        /\ a = Alt(<<{"ZZ"}>>, 0)
        /\ b = Push(Alt(<<{"LN"}>>, 0), "newline")
        /\ c = Push(Otherwise, "record")
  OBVIOUS
<1>2. a.p = "" /\ b.p = "newline" /\ c.p = "record"
  BY <1>1 DEF Alt, Push, Otherwise
<1>3. a # b /\ a # c /\ b # c
  BY <1>2
<1>4. CsvOpen(re) = IF re THEN <<a, c>> ELSE <<a, b, c>>
  BY <1>1 DEF CsvOpen
<1>5. IsInjective(<<a, c>>) /\ IsInjective(<<a, b, c>>)
  BY <1>3 DEF IsInjective
<1>6. QED
  BY <1>4, <1>5

LEMMA RecordCloseOnce ==
  ASSUME NEW re \in BOOLEAN
  PROVE  IsInjective(RecordClose(re))
<1>1. PICK a, b, c :
        /\ a = Alt(<<{"ZZ"}>>, 0)
        /\ b = Alt(<<{"LN"}, {"ZZ"}>>, 1)
        /\ c = Swap(Alt(<<{"LN"}>>, 0), RecordCloseNext(re))
  OBVIOUS
<1>2. a.r = "" /\ b.r = "" /\ c.r \in {"record", "newline"}
  BY <1>1 DEF Alt, Swap, RecordCloseNext
<1>3. a # b /\ a # c /\ b # c
  <2>1. a.b = 0 /\ b.b = 1
    BY <1>1 DEF Alt
  <2>2. a # c /\ b # c
    BY <1>2
  <2>3. QED
    BY <2>1, <2>2
<1>4. RecordClose(re) = <<a, b, c>>
  BY <1>1 DEF RecordClose
<1>5. QED
  BY <1>3, <1>4 DEF IsInjective

LEMMA OneOnce ==
  ASSUME NEW a
  PROVE  IsInjective(<<a>>)
BY DEF IsInjective

LEMMA EmptyOnce == IsInjective(<<>>)
BY DEF IsInjective

LEMMA Padded ==
  ASSUME NEW a, NEW b, NEW c, NEW d, NEW e
  PROVE  /\ <<>> \o <<>> = <<>>
         /\ <<>> \o <<a>> = <<a>>
         /\ <<>> \o <<a, b>> = <<a, b>>
         /\ <<>> \o <<a, b, c>> = <<a, b, c>>
         /\ <<>> \o <<a, b, c, d>> = <<a, b, c, d>>
         /\ <<>> \o <<a, b, c, d, e>> = <<a, b, c, d, e>>
         /\ <<a>> \o <<>> = <<a>>
OBVIOUS

LEMMA DocumentJoins ==
  ASSUME rules = PlainRules
  PROVE  Extended(Document) = Grown(ToBool(bag.options["empty"]))
<1>1. PICK re : re = ToBool(bag.options["empty"])
  OBVIOUS
<1>2. /\ <<>> \o CsvOpen(re) = CsvOpen(re) /\ <<>> \o NewlineOpen = NewlineOpen
      /\ <<>> \o NewlineClose = NewlineClose /\ <<>> \o RecordOpen = RecordOpen
      /\ <<>> \o RecordClose(re) = RecordClose(re) /\ <<>> \o TextOpen = TextOpen
  BY Padded DEF CsvOpen, NewlineOpen, NewlineClose, RecordOpen, RecordClose, TextOpen
<1>3. <<>> \o <<>> = <<>> /\ <<Jsonic>> \o <<>> = <<Jsonic>>
  BY Padded
<1>4. ASSUME NEW rule \in Rules
      PROVE  /\ rules[rule].open \o Document[rule].open = Grown(re)[rule].open
             /\ rules[rule].close \o Document[rule].close = Grown(re)[rule].close
             /\ Grown(re)[rule] = [open |-> Grown(re)[rule].open, close |-> Grown(re)[rule].close]
  <2>1. CASE rule = "csv"
    BY <1>1, <1>2, <1>3, <2>1 DEF PlainRules, Shared, Document, Grown
  <2>2. CASE rule = "newline"
    BY <1>1, <1>2, <1>3, <2>2 DEF PlainRules, Shared, Document, Grown
  <2>3. CASE rule = "record"
    BY <1>1, <1>2, <1>3, <2>3 DEF PlainRules, Shared, Document, Grown
  <2>4. CASE rule = "text"
    BY <1>1, <1>2, <1>3, <2>4 DEF PlainRules, Shared, Document, Grown
  <2>5. CASE rule \in {"list", "elem", "val"}
    BY <1>1, <1>2, <1>3, <2>5 DEF PlainRules, Shared, Document, Grown
  <2>6. QED
    BY <2>1, <2>2, <2>3, <2>4, <2>5 DEF Rules
<1>5. PICK grown : grown = Grown(re)
  OBVIOUS
<1>6. Extended(Document) = [rule \in Rules |-> grown[rule]]
  BY <1>4, <1>5 DEF Extended
<1>7. grown = [rule \in Rules |-> grown[rule]]
  BY <1>5 DEF Grown
<1>8. QED
  BY <1>1, <1>5, <1>6, <1>7

\* The plugin's own lists, and those it makes with jsonic's alternates.
LEMMA OwnOnce ==
  ASSUME NEW re \in BOOLEAN
  PROVE  /\ IsInjective(Grown(re)["csv"].open) /\ IsInjective(Grown(re)["csv"].close)
         /\ IsInjective(Grown(re)["newline"].open) /\ IsInjective(Grown(re)["newline"].close)
         /\ IsInjective(Grown(re)["record"].open) /\ IsInjective(Grown(re)["record"].close)
         /\ IsInjective(Grown(re)["text"].open) /\ IsInjective(Grown(re)["text"].close)
<1>1. IsInjective(RecordOpen) /\ IsInjective(<<>>)
  BY OneOnce, EmptyOnce DEF RecordOpen
<1>2. QED
  BY <1>1, CsvOpenOnce, NewlineOpenOnce, NewlineCloseOnce, RecordCloseOnce, TextOpenOnce
     DEF Grown, Rules

LEMMA OwnLists ==
  ASSUME NEW re \in BOOLEAN, NEW rule \in {"csv", "newline", "record", "text"}
  PROVE  Grown(re)[rule].open = OpenAlts(rule, re) /\ Grown(re)[rule].close = OwnClose(rule, re)
BY DEF Grown, Rules, OpenAlts, OwnClose, CloseAlts

LEMMA BehindJsonic ==
  ASSUME NEW a, NEW b, NEW c
  PROVE  /\ (<<a>> \o <<Jsonic>>) \o <<b>> = <<a, Jsonic, b>>
         /\ <<a>> \o <<Jsonic>> = <<a, Jsonic>>
         /\ <<a, b>> \o <<Jsonic>> = <<a, b, Jsonic>>
         /\ <<a, b, c>> \o <<Jsonic>> = <<a, b, c, Jsonic>>
<1>1. PICK S : a \in S /\ b \in S /\ c \in S /\ Jsonic \in S
  <2>1. a \in {a, b, c, Jsonic} /\ b \in {a, b, c, Jsonic} /\ c \in {a, b, c, Jsonic}
        /\ Jsonic \in {a, b, c, Jsonic}
    OBVIOUS
  <2>2. QED
    BY <2>1
<1>2. PICK j \in S : j = Jsonic
  BY <1>1
<1>3. <<a>> \o <<j>> = <<a, j>> /\ <<a, j>> \o <<b>> = <<a, j, b>>
      /\ <<a, b>> \o <<j>> = <<a, b, j>> /\ <<a, b, c>> \o <<j>> = <<a, b, c, j>>
  BY <1>1, Behind1, Behind2, Behind3
<1>4. QED
  BY <1>2, <1>3

\* What a list holds.
LEMMA RangeNone == Range(<<>>) = {}
BY DEF Range

LEMMA RangeTwo ==
  ASSUME NEW a, NEW b
  PROVE  Range(<<a, b>>) = {a, b}
<1>1. PICK s : s = <<a, b>>
  OBVIOUS
<1>2. DOMAIN s = {1, 2} /\ s[1] = a /\ s[2] = b
  BY <1>1
<1>3. QED
  BY <1>1, <1>2 DEF Range

LEMMA RangeFour ==
  ASSUME NEW a, NEW b, NEW c, NEW d
  PROVE  Range(<<a, b, c, d>>) = {a, b, c, d}
<1>1. PICK s : s = <<a, b, c, d>>
  OBVIOUS
<1>2. DOMAIN s = {1, 2, 3, 4} /\ s[1] = a /\ s[2] = b /\ s[3] = c /\ s[4] = d
  BY <1>1
<1>3. QED
  BY <1>1, <1>2 DEF Range

\* Lists that stand around jsonic's.
LEMMA AroundNone == AroundJsonic(<<Jsonic>>, {})
<1>1. PICK alts : alts = <<Jsonic>>
  OBVIOUS
<1>2. 1 \in DOMAIN alts /\ alts[1] = Jsonic /\ Len(alts) = 1
  BY <1>1
<1>3. {alts[j] : j \in 1 .. 1 - 1} = {} /\ {alts[j] : j \in 1 + 1 .. Len(alts)} = {}
  BY <1>2
<1>4. QED
  BY <1>1, <1>2, <1>3 DEF AroundJsonic

LEMMA AroundOne ==
  ASSUME NEW a, a.s # <<>>
  PROVE  AroundJsonic(<<a, Jsonic>>, {a})
<1>1. PICK alts : alts = <<a, Jsonic>>
  OBVIOUS
<1>2. 2 \in DOMAIN alts /\ alts[1] = a /\ alts[2] = Jsonic /\ Len(alts) = 2
  BY <1>1
<1>3. {alts[j] : j \in 1 .. 2 - 1} = {a} /\ {alts[j] : j \in 2 + 1 .. Len(alts)} = {}
  BY <1>2
<1>4. {alt \in {a} : alt.s # <<>>} = {a} /\ {alt \in {a} : alt.s = <<>>} = {}
  OBVIOUS
<1>5. QED
  BY <1>1, <1>2, <1>3, <1>4 DEF AroundJsonic

LEMMA AroundTwo ==
  ASSUME NEW a, NEW b, a.s # <<>>, b.s # <<>>
  PROVE  AroundJsonic(<<a, b, Jsonic>>, {a, b})
<1>1. PICK alts : alts = <<a, b, Jsonic>>
  OBVIOUS
<1>2. /\ 3 \in DOMAIN alts /\ alts[1] = a /\ alts[2] = b /\ alts[3] = Jsonic /\ Len(alts) = 3
      /\ 1 .. 3 - 1 = {1, 2} /\ 3 + 1 .. 3 = {}
  BY <1>1
<1>3. {alts[j] : j \in 1 .. 3 - 1} = {a, b} /\ {alts[j] : j \in 3 + 1 .. Len(alts)} = {}
  BY <1>2
<1>4. {alt \in {a, b} : alt.s # <<>>} = {a, b} /\ {alt \in {a, b} : alt.s = <<>>} = {}
  OBVIOUS
<1>5. QED
  BY <1>1, <1>2, <1>3, <1>4 DEF AroundJsonic

LEMMA AroundThree ==
  ASSUME NEW a, NEW b, NEW c, a.s # <<>>, b.s # <<>>, c.s # <<>>
  PROVE  AroundJsonic(<<a, b, c, Jsonic>>, {a, b, c})
<1>1. PICK alts : alts = <<a, b, c, Jsonic>>
  OBVIOUS
<1>2. /\ 4 \in DOMAIN alts /\ alts[1] = a /\ alts[2] = b /\ alts[3] = c /\ alts[4] = Jsonic
      /\ Len(alts) = 4 /\ 1 .. 4 - 1 = {1, 2, 3} /\ 4 + 1 .. 4 = {}
  BY <1>1
<1>3. {alts[j] : j \in 1 .. 4 - 1} = {a, b, c} /\ {alts[j] : j \in 4 + 1 .. Len(alts)} = {}
  BY <1>2
<1>4. {alt \in {a, b, c} : alt.s # <<>>} = {a, b, c} /\ {alt \in {a, b, c} : alt.s = <<>>} = {}
  OBVIOUS
<1>5. QED
  BY <1>1, <1>2, <1>3, <1>4 DEF AroundJsonic

LEMMA AroundBoth ==
  ASSUME NEW a, NEW b, a.s # <<>>, b.s = <<>>
  PROVE  AroundJsonic(<<a, Jsonic, b>>, {a, b})
<1>1. PICK alts : alts = <<a, Jsonic, b>>
  OBVIOUS
<1>2. /\ 2 \in DOMAIN alts /\ alts[1] = a /\ alts[2] = Jsonic /\ alts[3] = b /\ Len(alts) = 3
      /\ 1 .. 2 - 1 = {1} /\ 2 + 1 .. 3 = {3}
  BY <1>1
<1>3. {alts[j] : j \in 1 .. 2 - 1} = {a} /\ {alts[j] : j \in 2 + 1 .. Len(alts)} = {b}
  BY <1>2
<1>4. {alt \in {a, b} : alt.s # <<>>} = {a} /\ {alt \in {a, b} : alt.s = <<>>} = {b}
  OBVIOUS
<1>5. QED
  BY <1>1, <1>2, <1>3, <1>4 DEF AroundJsonic

\* In strict mode.
LEMMA ReplacedSettled ==
  ASSUME bag \in Bag, rules = Grown(ToBool(bag.options["empty"])), Strict
  PROVE  Settled(Replaced, bag)
<1>1. PICK re \in BOOLEAN : re = ToBool(bag.options["empty"])
  BY SettingsRead DEF ToBool
<1>2. PICK final : final = Replaced
  OBVIOUS
<1>3. DOMAIN rules = Rules
  BY DEF Grown
<1>4. /\ final["list"] = [open |-> ListOpen, close |-> ListClose]
      /\ final["elem"] = [open |-> ElemOpen, close |-> ElemClose]
      /\ final["val"] = [open |-> ValOpen, close |-> <<>>]
      /\ \A rule \in {"csv", "newline", "record", "text"} : final[rule] = Grown(re)[rule]
  BY <1>1, <1>2, <1>3 DEF Replaced, Rules
<1>5. (bag.options["empty"] \notin Falsy) = re /\ bag.options["strict"] \notin Falsy
  BY <1>1, SettingsRead DEF ToBool
<1>6. ASSUME NEW rule \in {"list", "elem", "val"}
      PROVE  /\ IsInjective(final[rule].open) /\ IsInjective(final[rule].close)
             /\ final[rule].open = OpenAlts(rule, re) /\ final[rule].close = OwnClose(rule, re)
  <2>1. CASE rule = "list"
    BY <1>4, <2>1, ListOpenOnce, ListCloseOnce DEF OpenAlts, OwnClose, CloseAlts
  <2>2. CASE rule = "elem"
    BY <1>4, <2>2, ElemOpenOnce, ElemCloseOnce DEF OpenAlts, OwnClose, CloseAlts
  <2>3. CASE rule = "val"
    BY <1>4, <2>3, ValOpenOnce, EmptyOnce DEF OpenAlts, OwnClose
  <2>4. QED
    BY <2>1, <2>2, <2>3
<1>7. ASSUME NEW rule \in {"csv", "newline", "record", "text"}
      PROVE  /\ IsInjective(final[rule].open) /\ IsInjective(final[rule].close)
             /\ final[rule].open = OpenAlts(rule, re) /\ final[rule].close = OwnClose(rule, re)
  BY <1>4, OwnOnce, OwnLists
<1>8. \A rule \in Rules :
        /\ IsInjective(final[rule].open) /\ IsInjective(final[rule].close)
        /\ final[rule].open = OpenAlts(rule, re) /\ final[rule].close = OwnClose(rule, re)
  BY <1>6, <1>7 DEF Rules
<1>9. QED
  BY <1>2, <1>5, <1>8 DEF Settled

\* Otherwise.
LEMMA RelaxedSettled ==
  ASSUME bag \in Bag, rules = Grown(ToBool(bag.options["empty"])), ~Strict
  PROVE  Settled(Relaxed, bag)
<1>1. PICK re \in BOOLEAN : re = ToBool(bag.options["empty"])
  BY SettingsRead DEF ToBool
<1>2. PICK final : final = Relaxed
  OBVIOUS
<1>3. DOMAIN rules = Rules
  BY DEF Grown
<1>4. PICK a, b, c, d, e, f, g, j :
        /\ a = AtLineEnd
        /\ b = Push(Otherwise, "elem")
        /\ c = Alt(<<{"ZZ"}>>, 0)
        /\ d = Do(Alt(<<{"CA"}>>, 1), "elem-open-empty")
        /\ e = Do(Alt(<<{"CA"}, {"LN", "ZZ"}>>, 1), "elem-close-trailing")
        /\ f = Push(Alt(<<VAL, {"SP"}>>, 2), "text")
        /\ g = Push(Alt(<<{"SP"}>>, 1), "text")
        /\ j = Jsonic
  OBVIOUS
<1>5. /\ final["list"] = [open |-> <<a, j, b>>, close |-> <<a, c, j>>]
      /\ final["elem"] = [open |-> <<d, j>>, close |-> <<e, a, j>>]
      /\ final["val"] = [open |-> <<f, g, a, j>>, close |-> <<j>>]
      /\ \A rule \in {"csv", "newline", "record", "text"} : final[rule] = Grown(re)[rule]
  <2>1. /\ rules["list"] = [open |-> <<j>>, close |-> <<j>>]
        /\ rules["elem"] = [open |-> <<j>>, close |-> <<j>>]
        /\ rules["val"] = [open |-> <<j>>, close |-> <<j>>]
    BY <1>4 DEF Grown, Rules
  <2>2. /\ (<<a>> \o <<j>>) \o <<b>> = <<a, j, b>> /\ <<a, c>> \o <<j>> = <<a, c, j>>
        /\ <<d>> \o <<j>> = <<d, j>> /\ <<e, a>> \o <<j>> = <<e, a, j>>
        /\ <<f, g, a>> \o <<j>> = <<f, g, a, j>>
    BY <1>4, BehindJsonic
  <2>3. /\ final["list"] = [open |-> (<<a>> \o rules["list"].open) \o <<b>>,
                            close |-> <<a, c>> \o rules["list"].close]
        /\ final["elem"] = [open |-> <<d>> \o rules["elem"].open,
                            close |-> <<e, a>> \o rules["elem"].close]
        /\ final["val"] = [open |-> <<f, g, a>> \o rules["val"].open, close |-> rules["val"].close]
        /\ \A rule \in {"csv", "newline", "record", "text"} : final[rule] = rules[rule]
    BY <1>2, <1>3, <1>4 DEF Relaxed, Rules
  <2>4. QED
    BY <1>1, <2>1, <2>2, <2>3, SMTT(30)
<1>6. (bag.options["empty"] \notin Falsy) = re /\ ~(bag.options["strict"] \notin Falsy)
  BY <1>1, SettingsRead DEF ToBool
<1>7. /\ j.r = "jsonic" /\ a.r = "" /\ a.p = "" /\ a.a = "" /\ b.r = "" /\ b.p = "elem" /\ c.r = ""
      /\ c.a = "" /\ d.r = "" /\ d.a = "elem-open-empty" /\ e.r = "" /\ e.a = "elem-close-trailing"
      /\ f.r = "" /\ g.r = "" /\ f.p = "text" /\ g.p = "text" /\ d.p = ""
  BY <1>4 DEF AtLineEnd, Jsonic, Alt, Push, Swap, Do, Otherwise
<1>8. a.b = 1 /\ c.b = 0 /\ f.b = 2 /\ g.b = 1
  BY <1>4 DEF AtLineEnd, Alt, Push
<1>9. /\ a # j /\ b # j /\ c # j /\ d # j /\ e # j /\ f # j /\ g # j
      /\ a # b /\ e # a /\ f # a /\ g # a /\ a # c /\ f # g
  <2>1. a # j /\ b # j /\ c # j /\ d # j /\ e # j /\ f # j /\ g # j
    BY <1>7
  <2>2. a # b /\ e # a /\ f # a /\ g # a
    BY <1>7
  <2>3. a # c
    BY <1>8
  <2>4. f # g
    BY <1>8
  <2>5. QED
    BY <2>1, <2>2, <2>3, <2>4
<1>10. /\ a.s # <<>> /\ c.s # <<>> /\ d.s # <<>> /\ e.s # <<>> /\ f.s # <<>> /\ g.s # <<>>
       /\ b.s = <<>>
  <2>1. /\ a.s = <<{"LN"}>> /\ c.s = <<{"ZZ"}>> /\ d.s = <<{"CA"}>> /\ g.s = <<{"SP"}>>
        /\ e.s = <<{"CA"}, {"LN", "ZZ"}>> /\ f.s = <<VAL, {"SP"}>> /\ b.s = <<>>
    BY <1>4 DEF AtLineEnd, Alt, Push, Do, Otherwise
  <2>2. \A x, y : <<x>> # <<>> /\ <<x, y>> # <<>>
    OBVIOUS
  <2>3. QED
    BY <2>1, <2>2
\* What is left of the plugin's own lists without jsonic's part.
<1>11. PICK k, l, m, n :
         /\ k = Push(Otherwise, "val") /\ l = Swap(Alt(<<{"CA"}>>, 0), "elem")
         /\ m = Alt(<<VAL>>, 0) /\ n = Alt(<<{"LN"}>>, 1)
  OBVIOUS
<1>12. /\ a \notin {k, l, c} /\ d \notin {k, l, c} /\ e \notin {k, l, c}
       /\ f # m /\ g # m /\ a # m /\ n = a
  <2>1. /\ k.p = "val" /\ k.a = "" /\ l.r = "elem" /\ l.a = "" /\ m.p = "" /\ m.b = 0
    BY <1>11 DEF Alt, Push, Swap, Otherwise
  <2>2. a # k /\ a # l /\ d # k /\ d # l /\ e # k /\ e # l /\ f # m /\ g # m
    BY <1>7, <2>1
  <2>3. d # c /\ e # c
    BY <1>7
  <2>4. a # m
    <3>1. a.b = 1 /\ m.b = 0
      BY <1>8, <2>1
    <3>2. QED
      BY <3>1
  <2>5. n = a
    BY <1>4, <1>11 DEF AtLineEnd
  <2>6. QED
    BY <1>9, <2>2, <2>3, <2>4, <2>5
<1>13. /\ Range(OpenAlts("list", re)) \ LeftToJsonic("list") = {a, b}
       /\ Range(OwnClose("list", re)) \ LeftToJsonic("list") = {a, c}
       /\ Range(OpenAlts("elem", re)) \ LeftToJsonic("elem") = {d}
       /\ Range(OwnClose("elem", re)) \ LeftToJsonic("elem") = {e, a}
       /\ Range(OpenAlts("val", re)) \ LeftToJsonic("val") = {f, g, a}
       /\ Range(OwnClose("val", re)) \ LeftToJsonic("val") = {}
  <2>1. /\ OpenAlts("list", re) = <<a, b>> /\ OwnClose("list", re) = <<a, c>>
        /\ OpenAlts("elem", re) = <<d, k>> /\ OwnClose("elem", re) = <<e, l, a, c>>
        /\ OpenAlts("val", re) = <<f, g, m, a>> /\ OwnClose("val", re) = <<>>
    BY <1>4, <1>11 DEF OpenAlts, OwnClose, CloseAlts, ListOpen, ListClose, ElemOpen, ElemClose,
       ValOpen, AtLineEnd
  <2>2. /\ LeftToJsonic("list") = {} /\ LeftToJsonic("elem") = {k, l, c} /\ LeftToJsonic("val") = {m}
    BY <1>4, <1>11 DEF LeftToJsonic
  <2>3. /\ Range(<<a, b>>) = {a, b} /\ Range(<<a, c>>) = {a, c} /\ Range(<<d, k>>) = {d, k}
        /\ Range(<<e, l, a, c>>) = {e, l, a, c} /\ Range(<<f, g, m, a>>) = {f, g, m, a}
        /\ Range(<<>>) = {}
    BY RangeTwo, RangeFour, RangeNone
  <2>4. QED
    BY <1>12, <2>1, <2>2, <2>3
<1>14. ASSUME NEW rule \in {"list", "elem", "val"}
       PROVE  /\ IsInjective(final[rule].open) /\ IsInjective(final[rule].close)
              /\ AroundJsonic(final[rule].open, Range(OpenAlts(rule, re)) \ LeftToJsonic(rule))
              /\ AroundJsonic(final[rule].close, Range(OwnClose(rule, re)) \ LeftToJsonic(rule))
  <2>1. CASE rule = "list"
    <3>1. final[rule].open = <<a, j, b>> /\ final[rule].close = <<a, c, j>>
      BY <1>5, <2>1
    <3>2. IsInjective(<<a, j, b>>) /\ IsInjective(<<a, c, j>>)
      BY <1>9 DEF IsInjective
    <3>3. AroundJsonic(<<a, j, b>>, {a, b}) /\ AroundJsonic(<<a, c, j>>, {a, c})
      BY <1>4, <1>10, AroundBoth, AroundTwo
    <3>4. QED
      BY <1>13, <2>1, <3>1, <3>2, <3>3
  <2>2. CASE rule = "elem"
    <3>1. final[rule].open = <<d, j>> /\ final[rule].close = <<e, a, j>>
      BY <1>5, <2>2
    <3>2. IsInjective(<<d, j>>) /\ IsInjective(<<e, a, j>>)
      BY <1>9 DEF IsInjective
    <3>3. AroundJsonic(<<d, j>>, {d}) /\ AroundJsonic(<<e, a, j>>, {e, a})
      BY <1>4, <1>10, AroundOne, AroundTwo
    <3>4. QED
      BY <1>13, <2>2, <3>1, <3>2, <3>3
  <2>3. CASE rule = "val"
    <3>1. final[rule].open = <<f, g, a, j>> /\ final[rule].close = <<j>>
      BY <1>5, <2>3
    <3>2. IsInjective(<<f, g, a, j>>) /\ IsInjective(<<j>>)
      BY <1>9 DEF IsInjective
    <3>3. AroundJsonic(<<f, g, a, j>>, {f, g, a}) /\ AroundJsonic(<<j>>, {})
      BY <1>4, <1>10, AroundThree, AroundNone
    <3>4. QED
      BY <1>13, <2>3, <3>1, <3>2, <3>3
  <2>4. QED
    BY <2>1, <2>2, <2>3
<1>15. ASSUME NEW rule \in {"csv", "newline", "record", "text"}
       PROVE  /\ IsInjective(final[rule].open) /\ IsInjective(final[rule].close)
              /\ final[rule].open = OpenAlts(rule, re) /\ final[rule].close = OwnClose(rule, re)
  BY <1>5, OwnOnce, OwnLists
<1>16. \A rule \in Rules :
         /\ IsInjective(final[rule].open) /\ IsInjective(final[rule].close)
         /\ IF rule \notin Shared
            THEN final[rule].open = OpenAlts(rule, re) /\ final[rule].close = OwnClose(rule, re)
            ELSE /\ AroundJsonic(final[rule].open, Range(OpenAlts(rule, re)) \ LeftToJsonic(rule))
                 /\ AroundJsonic(final[rule].close, Range(OwnClose(rule, re)) \ LeftToJsonic(rule))
  <2>1. SUFFICES ASSUME NEW rule \in Rules
                 PROVE  /\ IsInjective(final[rule].open) /\ IsInjective(final[rule].close)
                        /\ rule \notin Shared =>
                             /\ final[rule].open = OpenAlts(rule, re)
                             /\ final[rule].close = OwnClose(rule, re)
                        /\ rule \in Shared =>
                             /\ AroundJsonic(final[rule].open,
                                             Range(OpenAlts(rule, re)) \ LeftToJsonic(rule))
                             /\ AroundJsonic(final[rule].close,
                                             Range(OwnClose(rule, re)) \ LeftToJsonic(rule))
    OBVIOUS
  <2>2. CASE rule \in Shared
    BY <1>14, <2>2 DEF Shared
  <2>3. CASE rule \notin Shared
    BY <1>15, <2>3 DEF Shared, Rules
  <2>4. QED
    BY <2>2, <2>3
<1>17. QED
  BY <1>2, <1>6, <1>16 DEF Settled

-----------------------------------------------------------------------------
(* The steps.                                                              *)

\* The first answer stands.
LEMMA FirstAnswer ==
  ASSUME answers \in Seq(Answer), NEW answer \in Answer, answers' = Append(answers, answer)
  PROVE  /\ answers' \in Seq(Answer) /\ answers' # <<>>
         /\ answers'[1] = IF answers = <<>> THEN answer ELSE answers[1]
<1>1. /\ answers' \in Seq(Answer) /\ answers' # <<>> /\ Len(answers) \in Nat
      /\ \A i \in 1 .. Len(answers) : answers'[i] = answers[i]
      /\ answers'[Len(answers) + 1] = answer
  BY AppendProperties, LenProperties
<1>2. CASE answers = <<>>
  <2>1. Len(answers) = 0
    BY <1>2
  <2>2. QED
    BY <1>1, <1>2, <2>1
<1>3. CASE answers # <<>>
  <2>1. 1 \in 1 .. Len(answers)
    BY <1>1, <1>3, EmptySeq
  <2>2. QED
    BY <1>1, <1>3, <2>1
<1>4. QED
  BY <1>2, <1>3

LEMMA AnswerTyped ==
  ASSUME bag \in Bag, NEW error \in {"", "cyclic"}
  PROVE  [bag |-> bag, error |-> error] \in Answer
BY DEF Answer

\* A run that a SetOptions started comes to the guard and no further.
LEMMA NestedReturn ==
  ASSUME NEW stage, runs = <<stage, "guard">>, NEW error, Return(error)
  PROVE  runs' = <<stage>> /\ answers' = answers
<1>1. Len(runs) = 2
  OBVIOUS
<1>2. Front(<<stage, "guard">>) = <<stage>>
  <2>1. 1 .. Len(<<stage, "guard">>) - 1 = {1} /\ <<stage, "guard">>[1] = stage
    OBVIOUS
  <2>2. Front(<<stage, "guard">>) = [i \in {1} |-> stage]
    BY <2>1 DEF Front
  <2>3. [i \in {1} |-> stage] = <<stage>>
    OBVIOUS
  <2>4. QED
    BY <2>2, <2>3
<1>3. QED
  BY <1>1, <1>2 DEF Return

LEMMA UseInv ==
  ASSUME InstallInv, Use
  PROVE  InstallInv'
<1>1. bag' \in Bag
  BY MergedTyped DEF Use
<1>2. RunsOK' /\ ~Installing /\ ~Installing'
  <2>1. runs = <<>> /\ runs' = <<"guard">> /\ "guard" \in StageNames
    BY DEF Use, StageNames
  <2>2. runs'[1] = "guard"
    BY <2>1
  <2>3. QED
    BY <2>1, <2>2 DEF RunsOK, Installing
<1>3. EngineOK'
  BY <1>2 DEF InstallInv, EngineOK, Use
<1>4. QED
  BY <1>1, <1>2, <1>3 DEF InstallInv, Use

LEMMA GuardInv ==
  ASSUME InstallInv, Guard
  PROVE  InstallInv'
<1>1. /\ bag \in Bag /\ answers \in Seq(Answer) /\ bag' = bag /\ engine' = engine /\ rules' = rules
      /\ EngineOK
  BY DEF InstallInv, Guard
<1>2. CASE decorated /\ runs = <<"guard">>
  <2>1. runs' = <<>> /\ answers' = Append(answers, [bag |-> bag, error |-> ""])
    BY <1>2, ReturnRuns DEF Guard
  <2>2. ~Installing /\ ~Installing' /\ RunsOK'
    BY <1>2, <2>1 DEF Installing, RunsOK
  <2>3. answers # <<>>
    BY <1>1, <1>2, <2>2 DEF EngineOK
  <2>4. answers' \in Seq(Answer) /\ answers' # <<>> /\ answers'[1] = answers[1]
    BY <1>1, <2>1, <2>3, FirstAnswer, AnswerTyped
  <2>5. EngineOK'
    BY <1>1, <1>2, <2>2, <2>3, <2>4 DEF EngineOK, Guard
  <2>6. QED
    BY <1>1, <2>2, <2>4, <2>5 DEF InstallInv
<1>3. CASE ~decorated
  <2>1. ~Installing /\ answers = <<>> /\ engine = PlainEngine /\ rules = PlainRules
    BY <1>1, <1>3 DEF EngineOK
  <2>2. runs = <<"guard">>
    <3>1. runs # <<>> /\ runs[1] = "guard"
      BY <2>1 DEF Installing, Guard, At
    <3>2. ASSUME NEW stage, runs = <<stage, "guard">> PROVE runs[1] = stage
      BY <3>2
    <3>3. ASSUME NEW stage, runs = <<stage>> PROVE runs[1] = stage
      BY <3>3
    <3>4. QED
      BY <3>1, <3>2, <3>3 DEF InstallInv, RunsOK
  <2>3. runs' = <<"tag">> /\ answers' = answers /\ decorated' = TRUE
    BY <1>3, <2>2, ReachedNext, Stage DEF Guard
  <2>4. RunsOK' /\ Installing' /\ runs'[1] = "tag"
    BY <2>3 DEF RunsOK, StageNames, Installing
  <2>5. engine' = Configured(MadeBy("tag"), Wanted(bag))
    BY <1>1, <2>1, NothingMade DEF MadeBy
  <2>6. EngineOK'
    BY <1>1, <2>1, <2>3, <2>4, <2>5 DEF EngineOK
  <2>7. QED
    BY <1>1, <2>3, <2>4, <2>6 DEF InstallInv
<1>4. CASE decorated /\ \E stage \in {"exclude", "grammar", "overrides", "rules"} : runs = <<stage, "guard">>
  <2>1. PICK stage \in {"exclude", "grammar", "overrides", "rules"} : runs = <<stage, "guard">>
    BY <1>4
  <2>2. runs' = <<stage>> /\ answers' = answers /\ decorated' = decorated
    BY <1>4, <2>1, NestedReturn DEF Guard
  <2>3. runs[1] = stage /\ runs'[1] = stage /\ runs # <<>> /\ runs' # <<>>
    BY <2>1, <2>2
  <2>4. RunsOK'
    BY <2>2 DEF RunsOK, StageNames
  <2>5. EngineOK'
    BY <1>1, <2>2, <2>3 DEF EngineOK, Installing
  <2>6. QED
    BY <1>1, <2>2, <2>4, <2>5 DEF InstallInv
<1>5. QED
  <2>1. ASSUME NEW stage \in StageNames, runs = <<stage>> PROVE stage = "guard"
    BY <2>1 DEF Guard, At, Last
  <2>2. runs # <<>>
    BY DEF Guard, At
  <2>3. QED
    BY <1>2, <1>3, <1>4, <2>1, <2>2 DEF InstallInv, RunsOK

\* What holds at any stage past the guard.
LEMMA AtStage ==
  ASSUME InstallInv, NEW stage \in StageNames \ {"guard"}, At(stage)
  PROVE  /\ runs = <<stage>> /\ bag \in Bag /\ answers = <<>> /\ decorated
         /\ engine = Configured(MadeBy(stage), Wanted(bag))
         /\ stage \in {"tag", "matcher", "exclude", "grammar"} => rules = PlainRules
         /\ stage \in {"overrides", "rules"} => rules = Grown(ToBool(bag.options["empty"]))
<1>1. runs = <<stage>>
  BY Under DEF InstallInv
<1>2. runs # <<>> /\ runs[1] = stage
  BY <1>1
<1>3. QED
  BY <1>1, <1>2 DEF InstallInv, EngineOK, Installing

\* A run that goes on to its next stage.
LEMMA GoesOn ==
  ASSUME InstallInv, NEW stage \in StageNames \ {"guard", "rules"}, At(stage),
         bag' = bag, answers' = answers, decorated' = decorated,
         NEW next \in StageNames \ {"guard"},
         \/ runs' = <<next>>
         \/ runs' = <<next, "guard">> /\ next \in {"exclude", "grammar", "overrides", "rules"},
         engine' = Configured(MadeBy(next), Wanted(bag)),
         next \in {"tag", "matcher", "exclude", "grammar"} => rules' = PlainRules,
         next \in {"overrides", "rules"} => rules' = Grown(ToBool(bag.options["empty"]))
  PROVE  InstallInv'
<1>1. bag \in Bag /\ answers = <<>> /\ decorated
  BY AtStage
<1>2. runs' # <<>> /\ runs'[1] = next
  OBVIOUS
<1>3. Installing' /\ RunsOK'
  BY <1>2 DEF Installing, RunsOK
<1>4. EngineOK'
  BY <1>1, <1>2, <1>3 DEF EngineOK
<1>5. QED
  BY <1>1, <1>3, <1>4 DEF InstallInv

LEMMA TagInv ==
  ASSUME InstallInv, Tag
  PROVE  InstallInv'
<1>1. "tag" \in StageNames \ {"guard", "rules"} /\ "matcher" \in StageNames \ {"guard"} /\ At("tag")
  BY DEF StageNames, Tag
<1>2. /\ runs = <<"tag">> /\ bag \in Bag /\ answers = <<>> /\ decorated
      /\ engine = Configured(MadeBy("tag"), Wanted(bag)) /\ rules = PlainRules
  BY <1>1, AtStage
<1>3. CASE bag.cyclic
  <2>1. runs' = <<>> /\ answers' = Append(answers, [bag |-> bag, error |-> "cyclic"])
    BY <1>2, <1>3, ReturnRuns DEF Tag
  <2>2. /\ answers' \in Seq(Answer) /\ answers' # <<>>
        /\ answers'[1] = [bag |-> bag, error |-> "cyclic"]
    BY <1>2, <2>1, FirstAnswer, AnswerTyped DEF InstallInv
  <2>3. answers'[1].error = "cyclic"
    BY <2>2
  <2>4. ~Installing' /\ RunsOK'
    BY <2>1 DEF Installing, RunsOK
  <2>5. engine = PlainEngine
    BY <1>2, NothingMade DEF MadeBy
  <2>6. EngineOK'
    BY <1>2, <2>2, <2>3, <2>4, <2>5 DEF EngineOK, Tag
  <2>7. QED
    BY <1>2, <2>2, <2>4, <2>6 DEF InstallInv, Tag
<1>4. CASE ~bag.cyclic
  <2>1. runs' = <<"matcher">> /\ answers' = answers
    BY <1>2, <1>4, ReachedNext, Stage DEF Tag
  <2>2. MadeBy("matcher") = MadeBy("tag")
    BY DEF MadeBy
  <2>3. QED
    BY <1>1, <1>2, <2>1, <2>2, GoesOn DEF Tag
<1>5. QED
  BY <1>3, <1>4

LEMMA RegisterMatcherInv ==
  ASSUME InstallInv, RegisterMatcher
  PROVE  InstallInv'
<1>1. "matcher" \in StageNames \ {"guard", "rules"} /\ "exclude" \in StageNames \ {"guard"}
      /\ At("matcher") /\ AfterStage("matcher") = "exclude"
  BY Stage DEF StageNames, RegisterMatcher
<1>2. PICK wanted : wanted = Wanted(bag)
  OBVIOUS
<1>3. /\ runs = <<"matcher">> /\ bag \in Bag /\ rules = PlainRules
      /\ engine = Configured({}, wanted)
  BY <1>1, <1>2, AtStage DEF MadeBy
<1>4. wanted["matcher"] = Matcher /\ "matcher" \in Keys /\ MadeBy("exclude") = {"matcher"}
  BY <1>2, <1>3, WantedRead, PlainKeys DEF MadeBy
<1>5. CASE Matcher
  <2>1. PICK options : options = [matcher |-> TRUE]
    OBVIOUS
  <2>2. DOMAIN options = {"matcher"} /\ options["matcher"] = TRUE
    BY <2>1
  <2>3. Matcher = TRUE
    BY <1>5 DEF Matcher, IsTrue, IsFalse
  <2>4. Set(options) = Configured({} \union DOMAIN options, wanted)
    BY <1>3, <1>4, <2>2, <2>3, Made
  <2>5. engine' = Configured(MadeBy("exclude"), wanted)
    BY <1>1, <1>3, <1>4, <1>5, <2>1, <2>2, <2>4, SetRuns DEF RegisterMatcher
  <2>6. runs' = <<"exclude">> \/ runs' = <<"exclude", "guard">>
    BY <1>1, <1>3, <1>5, SetRuns DEF RegisterMatcher
  <2>7. QED
    BY <1>1, <1>2, <1>3, <2>5, <2>6, GoesOn DEF RegisterMatcher
<1>6. CASE ~Matcher
  <2>1. runs' = <<"exclude">> /\ engine' = engine
    BY <1>1, <1>3, <1>6, ReachedNext DEF RegisterMatcher
  <2>2. wanted["matcher"] = PlainEngine["matcher"]
    BY <1>4, <1>6, PlainKeys DEF Matcher, IsTrue, IsFalse
  <2>3. Configured({"matcher"}, wanted) = Configured({}, wanted)
    BY <2>2 DEF Configured
  <2>4. QED
    BY <1>1, <1>2, <1>3, <1>4, <2>1, <2>3, GoesOn DEF RegisterMatcher
<1>7. QED
  BY <1>5, <1>6

LEMMA ExcludeInv ==
  ASSUME InstallInv, Exclude
  PROVE  InstallInv'
<1>1. "exclude" \in StageNames \ {"guard", "rules"} /\ "grammar" \in StageNames \ {"guard"}
      /\ At("exclude") /\ AfterStage("exclude") = "grammar"
  BY Stage DEF StageNames, Exclude
<1>2. PICK wanted : wanted = Wanted(bag)
  OBVIOUS
<1>3. PICK options : options = [exclude |-> IF Strict THEN {"jsonic", "imp"} ELSE {"imp"}]
  OBVIOUS
<1>4. /\ runs = <<"exclude">> /\ bag \in Bag /\ rules = PlainRules
      /\ engine = Configured({"matcher"}, wanted)
  BY <1>1, <1>2, AtStage DEF MadeBy
<1>5. DOMAIN options = {"exclude"} /\ "exclude" \in Keys /\ options["exclude"] = wanted["exclude"]
  BY <1>2, <1>3, <1>4, WantedRead, PlainKeys
<1>6. Set(options) = Configured({"matcher"} \union DOMAIN options, wanted)
  BY <1>4, <1>5, Made
<1>7. {"matcher"} \union DOMAIN options = MadeBy("grammar")
  BY <1>5 DEF MadeBy
<1>8. engine' = Configured(MadeBy("grammar"), wanted)
      /\ (runs' = <<"grammar">> \/ runs' = <<"grammar", "guard">>)
  BY <1>1, <1>3, <1>4, <1>6, <1>7, SetRuns DEF Exclude
<1>9. QED
  BY <1>1, <1>2, <1>4, <1>8, GoesOn DEF Exclude

LEMMA GrammarInv ==
  ASSUME InstallInv, Grammar
  PROVE  InstallInv'
<1>1. "grammar" \in StageNames \ {"guard", "rules"} /\ "overrides" \in StageNames \ {"guard"}
      /\ At("grammar") /\ AfterStage("grammar") = "overrides"
  BY Stage DEF StageNames, Grammar
<1>2. PICK wanted : wanted = Wanted(bag)
  OBVIOUS
<1>3. PICK options : options = [start |-> "csv", trim |-> Flag("trim")]
  OBVIOUS
<1>4. /\ runs = <<"grammar">> /\ bag \in Bag
      /\ engine = Configured({"matcher", "exclude"}, wanted)
  BY <1>1, <1>2, AtStage DEF MadeBy
<1>5. /\ DOMAIN options = {"start", "trim"} /\ {"start", "trim"} \subseteq Keys
      /\ options["start"] = wanted["start"] /\ options["trim"] = wanted["trim"]
  BY <1>2, <1>3, <1>4, WantedRead, PlainKeys
<1>6. Set(options) = Configured({"matcher", "exclude"} \union DOMAIN options, wanted)
  BY <1>4, <1>5, Made
<1>7. {"matcher", "exclude"} \union DOMAIN options = MadeBy("overrides")
  BY <1>5 DEF MadeBy
<1>8. engine' = Configured(MadeBy("overrides"), wanted)
      /\ (runs' = <<"overrides">> \/ runs' = <<"overrides", "guard">>)
  BY <1>1, <1>3, <1>4, <1>6, <1>7, SetRuns DEF Grammar
<1>9. rules' = Grown(ToBool(bag.options["empty"]))
  BY <1>1, AtStage, DocumentJoins DEF Grammar
<1>10. QED
  BY <1>1, <1>2, <1>4, <1>8, <1>9, GoesOn DEF Grammar

\* The IGNORE set laid over the engine's own: the names that are given stand.
LEMMA IgnoreLaid ==
  ASSUME NEW a, NEW b, NEW c
  PROVE  Overlay(DefaultIgnore, <<a, b, c>>) = <<a, b, c>>
<1>1. PICK named : named = <<a, b, c>>
  OBVIOUS
<1>2. DOMAIN DefaultIgnore = 1 .. 3 /\ DOMAIN named = 1 .. 3 /\ named = [i \in 1 .. 3 |-> named[i]]
  BY <1>1 DEF DefaultIgnore
<1>3. Overlay(DefaultIgnore, named) = [i \in 1 .. 3 |-> named[i]]
  BY <1>2 DEF Overlay
<1>4. QED
  BY <1>1, <1>2, <1>3

LEMMA OverridesInv ==
  ASSUME InstallInv, Overrides
  PROVE  InstallInv'
<1>1. "overrides" \in StageNames \ {"guard", "rules"} /\ "rules" \in StageNames \ {"guard"}
      /\ At("overrides") /\ AfterStage("overrides") = "rules"
  BY Stage DEF StageNames, Overrides
<1>2. PICK wanted : wanted = Wanted(bag)
  OBVIOUS
<1>3. PICK options :
        options = [number |-> Flag("number"), value |-> Flag("value"),
                   comment |-> Flag("comment"), control |-> TRUE,
                   single |-> ToBool(bag.options["empty"]),
                   off |-> engine.off \union (IF Strict THEN Structural ELSE {}),
                   ca |-> IF Separation # "" THEN Separation ELSE engine.ca,
                   ignore |-> IF Strict THEN <<"", "", "#CM">> ELSE <<"#SP", "", "#CM">>]
  OBVIOUS
<1>4. /\ runs = <<"overrides">> /\ bag \in Bag
      /\ engine = Configured({"matcher", "exclude", "start", "trim"}, wanted)
  BY <1>1, <1>2, AtStage DEF MadeBy
<1>5. /\ DOMAIN engine = Keys /\ engine["off"] = {} /\ engine["ca"] = ","
      /\ engine["ignore"] = DefaultIgnore
      /\ \A key \in {"matcher", "exclude", "start", "trim"} : engine[key] = wanted[key]
  BY <1>4, PlainKeys DEF Configured
<1>6. DOMAIN options = Keys \ {"matcher", "exclude", "start", "trim"} /\ "ignore" \in DOMAIN options
  BY <1>3, PlainKeys
<1>7. /\ options["number"] = wanted["number"] /\ options["value"] = wanted["value"]
      /\ options["comment"] = wanted["comment"] /\ options["control"] = wanted["control"]
      /\ options["single"] = wanted["single"]
  BY <1>2, <1>3, <1>4, WantedRead
<1>8. options["off"] = wanted["off"] /\ options["ca"] = wanted["ca"]
      /\ options["ignore"] = wanted["ignore"]
  BY <1>2, <1>3, <1>4, <1>5, WantedRead
<1>9. Overlay(engine["ignore"], options["ignore"]) = wanted["ignore"]
  <2>1. options["ignore"] \in {<<"", "", "#CM">>, <<"#SP", "", "#CM">>}
    BY <1>3
  <2>2. Overlay(DefaultIgnore, options["ignore"]) = options["ignore"]
    BY <2>1, IgnoreLaid
  <2>3. QED
    BY <1>5, <1>8, <2>2
<1>10. ASSUME NEW key \in Keys
       PROVE  (IF key = "ignore" THEN Overlay(engine.ignore, options.ignore)
               ELSE IF key \in DOMAIN options THEN options[key] ELSE engine[key]) = wanted[key]
  <2>1. CASE key \in {"matcher", "exclude", "start", "trim"}
    BY <1>5, <1>6, <2>1
  <2>2. CASE key = "ignore"
    BY <1>9, <2>2
  <2>3. CASE key \in {"number", "value", "comment", "control", "single", "off", "ca"}
    BY <1>6, <1>7, <1>8, <2>3, PlainKeys
  <2>4. QED
    BY <2>1, <2>2, <2>3, PlainKeys
<1>11. Set(options) = [key \in Keys |-> wanted[key]]
  BY <1>5, <1>6, <1>10, ZenonT(30) DEF Set
<1>12. [key \in Keys |-> wanted[key]] = Configured(MadeBy("rules"), wanted)
  BY DEF Configured, MadeBy
<1>13. engine' = Configured(MadeBy("rules"), wanted)
       /\ (runs' = <<"rules">> \/ runs' = <<"rules", "guard">>)
  <2>1. SetOptions(options)
    BY <1>3 DEF Overrides
  <2>2. QED
    BY <1>1, <1>4, <1>11, <1>12, <2>1, SetRuns
<1>14. rules' = Grown(ToBool(bag.options["empty"]))
  BY <1>1, AtStage DEF Overrides
<1>15. QED
  BY <1>1, <1>2, <1>13, <1>14, GoesOn DEF Overrides

LEMMA ReshapeRulesInv ==
  ASSUME InstallInv, ReshapeRules
  PROVE  InstallInv'
<1>1. "rules" \in StageNames \ {"guard"} /\ At("rules")
  BY DEF StageNames, ReshapeRules
<1>2. PICK wanted : wanted = Wanted(bag)
  OBVIOUS
<1>3. /\ runs = <<"rules">> /\ bag \in Bag /\ answers = <<>> /\ decorated
      /\ engine = Configured(Keys, wanted)
  BY <1>1, <1>2, AtStage DEF MadeBy
<1>4. engine = wanted
  <2>1. DOMAIN wanted = Keys
    BY <1>2, <1>3, WantedRead
  <2>2. wanted = [key \in DOMAIN wanted |-> wanted[key]]
    BY <1>2, WantedIsRecord
  <2>3. QED
    BY <1>3, <2>1, <2>2, AllMade
<1>5. runs' = <<>> /\ answers' = Append(answers, [bag |-> bag, error |-> ""])
  BY <1>3, ReturnRuns DEF ReshapeRules
<1>6. /\ answers' \in Seq(Answer) /\ answers' # <<>>
      /\ answers'[1] = [bag |-> bag, error |-> ""]
  BY <1>3, <1>5, FirstAnswer, AnswerTyped DEF InstallInv
<1>7. answers'[1].error = "" /\ answers'[1].bag = bag
  <2>1. PICK first : first = [bag |-> bag, error |-> ""]
    OBVIOUS
  <2>2. first.error = "" /\ first.bag = bag
    BY <2>1
  <2>3. QED
    BY <1>6, <2>1, <2>2
<1>8. ~Installing' /\ RunsOK'
  BY <1>5 DEF Installing, RunsOK
<1>9. Wanted(answers'[1].bag) = wanted
  BY <1>2, <1>7
<1>10. Settled(rules', bag)
  <2>1. rules = Grown(ToBool(bag.options["empty"]))
    BY <1>1, AtStage
  <2>2. QED
    BY <1>3, <2>1, ReplacedSettled, RelaxedSettled DEF ReshapeRules
<1>11. EngineOK'
  BY <1>3, <1>4, <1>6, <1>7, <1>8, <1>9, <1>10 DEF EngineOK, ReshapeRules
<1>12. QED
  BY <1>3, <1>6, <1>8, <1>11 DEF InstallInv, ReshapeRules

LEMMA InstallInvariance == Spec => []InstallInv
<1>1. Init => InstallInv
  <2>1. SUFFICES ASSUME Init PROVE InstallInv
    OBVIOUS
  <2>2. bag \in Bag
    BY <2>1, DefaultsTyped DEF Init, Bag
  <2>3. answers \in Seq(Answer) /\ RunsOK /\ ~Installing
    BY <2>1 DEF Init, RunsOK, Installing
  <2>4. EngineOK
    BY <2>1, <2>3 DEF Init, EngineOK
  <2>5. QED
    BY <2>2, <2>3, <2>4 DEF InstallInv
<1>2. InstallInv /\ [Next]_vars => InstallInv'
  <2>1. SUFFICES ASSUME InstallInv, [Next]_vars PROVE InstallInv'
    OBVIOUS
  <2>2. CASE Next
    BY <2>1, <2>2, UseInv, GuardInv, TagInv, RegisterMatcherInv, ExcludeInv, GrammarInv,
       OverridesInv, ReshapeRulesInv DEF Next
  <2>3. CASE UNCHANGED vars
    BY <2>1, <2>3 DEF vars, InstallInv, RunsOK, EngineOK, Installing
  <2>4. QED
    BY <2>1, <2>2, <2>3
<1>3. QED
  BY <1>1, <1>2, PTL DEF Spec

-----------------------------------------------------------------------------
(* The theorems.                                                           *)

\* An engine whose first use returned no error is configured as that use's
\* options ask, through every nested run, every reset of the engine's IGNORE
\* set, and every later use (go/csv.go:97-262).
THEOREM ConfiguredAsAsked == Spec => []StandsAsAsked
<1>1. InstallInv => StandsAsAsked
  BY DEF InstallInv, EngineOK, StandsAsAsked
<1>2. QED
  BY <1>1, InstallInvariance, PTL

\* However often the runs nest, and however often the plugin is used again, an
\* engine whose first use returned no error has each of the plugin's alternates
\* once, in the open and the close lists alike.  In strict mode it has nothing
\* else in them; outside it list, elem and val keep jsonic's own, behind the
\* plugin's that take a token and before the one that takes none
\* (go/csv.go:97-102, 569-731).
THEOREM AlternatesOnce == Spec => []InstalledOnce
<1>1. InstallInv => InstalledOnce
  BY DEF InstallInv, EngineOK, InstalledOnce
<1>2. QED
  BY <1>1, InstallInvariance, PTL

\* When the first use is refused, because its options contain themselves, the
\* engine stays as it was, through every later use (go/csv.go:98-113: the walk
\* comes before the first SetOptions, and the decoration before the walk).
THEOREM RefusedUntouched == Spec => []RefusalIsClean
<1>1. InstallInv => RefusalIsClean
  BY DEF InstallInv, EngineOK, RefusalIsClean
<1>2. QED
  BY <1>1, InstallInvariance, PTL
=============================================================================
