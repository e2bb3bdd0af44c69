---------------------------- MODULE CommandLine ----------------------------
(***************************************************************************)
(* From the words of a gotest command line to the words of the test        *)
(* binary: SplitArgs tells gotest's flags from go test's (cmd/gotest/      *)
(* args.go), ClassifyGoTestArgs splits those between the compiler and the  *)
(* binary, PatternIndices finds the packages a second time, ParseExecFlags *)
(* lifts out what the runner keeps, and buildSuiteCmd writes the binary's  *)
(* command line (internal/gotestrunner: args.go, flags.go, suiterun.go).   *)
(*                                                                         *)
(* A word is a flag's name with a value after "=" or without, or a plain   *)
(* word; one name stands for all flags that are read alike.                *)
(***************************************************************************)
EXTENDS Naturals, Sequences, SequencesExt

CONSTANT MaxWords   \* bound: the words typed

buildOnlyFlags == {"-race", "-cover"}
buildValueFlags == {"-tags", "-exec"}
runOnlyFlags == {"-v"}
runValueFlags == {"-count", "-run", "-coverprofile", "-timeout"}
knownFlags == buildOnlyFlags \cup buildValueFlags \cup runOnlyFlags \cup runValueFlags
valueFlags == buildValueFlags \cup runValueFlags
gotestFlags == {"--debug", "--parallel", "--group", "--gate"}   \* bool, value, list, not allowed here
Custom == "-custom"    \* a flag of the test binary's own, which takes a value

Flag(n) == [name |-> n, eq |-> FALSE]
FlagWith(n) == [name |-> n, eq |-> TRUE]
Plain == Flag("word")
Marker == Flag("-args")

\* What may be typed: a value is written apart or with "=".
Words == {Flag(n) : n \in {"word", "--", "-args", "-json", "-race", "-tags", "-count", "-run",
                           "-coverprofile", "--debug", "--parallel", "--gate", Custom}}
         \cup {FlagWith(n) : n \in {"-count", "-coverprofile", "--group", Custom}}

IsWord(w) == w.name = "word"
FromOn(s, i) == SubSeq(s, i, Len(s))

VARIABLES
    typed,
    wanted,   \* what the project's configuration asks for: "tags", "coverage"
    read      \* "no", "run", "refused"

commandLineVars == <<typed, wanted, read>>

------------------------------------------------------------------------------
(* SplitArgs *)

refused == [own |-> <<>>, go |-> <<>>, err |-> TRUE]

AddOwn(w, r) == IF r.err THEN refused ELSE [r EXCEPT !.own = <<w>> \o @]
AddGo(ws, r) == IF r.err THEN refused ELSE [r EXCEPT !.go = ws \o @]

\* gotest's flags are parsed; go test's, up to "--" or "-args", are checked
\* against its registry and passed on.
SplitArgs(args) ==
    LET split[i \in 1..(Len(args) + 2)] ==
          IF i > Len(args) THEN [own |-> <<>>, go |-> <<>>, err |-> FALSE]
          ELSE
          LET w == args[i]
              last == i = Len(args)
              apart == ~w.eq /\ ~last IN
          CASE w.name = "--" -> [own |-> <<>>, go |-> FromOn(args, i + 1), err |-> FALSE]
            [] w.name = "-args" -> [own |-> <<>>, go |-> FromOn(args, i), err |-> FALSE]
            [] IsWord(w) -> AddGo(<<w>>, split[i + 1])
            [] w.name \in gotestFlags ->
                 IF w.name = "--gate" THEN refused
                 ELSE IF w.name = "--debug" \/ w.eq THEN AddOwn(w, split[i + 1])
                 ELSE IF last THEN refused
                 ELSE AddOwn(w, split[i + 2])
            [] w.name = "-json" -> AddGo(<<w>>, split[i + 1])
            [] w.name \notin knownFlags \cup {"-json"} -> refused
            [] w.name \in valueFlags /\ apart -> AddGo(<<w, args[i + 1]>>, split[i + 2])
            [] OTHER -> AddGo(<<w>>, split[i + 1])
    IN split[1]

\* ValidateTestFlags, of a line without an escape: a value is missing.
NeedsArgument(args) ==
    args # <<>> /\ LET w == Last(args) IN w.name \in runValueFlags /\ ~w.eq

\* DefaultArgs: the configuration's tags, unless the line has some anywhere.
DefaultArgs(args) ==
    (IF "tags" \in wanted /\ ~\E i \in DOMAIN args : args[i].name = "-tags"
     THEN <<FlagWith("-tags")>> ELSE <<>>) \o args

------------------------------------------------------------------------------
(* ClassifyGoTestArgs *)

none == [build |-> <<>>, run |-> <<>>, pkgs |-> <<>>, own |-> <<>>, explicit |-> <<>>]

\* An unknown flag is the binary's, and takes the plain word after it.
Classified(args) ==
    LET from[i \in 1..(Len(args) + 2)] ==
          IF i > Len(args) THEN none
          ELSE
          LET w == args[i]
              apart == ~w.eq /\ i < Len(args) IN
          CASE w.name = "-args" -> [none EXCEPT !.explicit = FromOn(args, i)]
            [] IsWord(w) -> [from[i + 1] EXCEPT !.pkgs = <<i>> \o @]
            [] w.name = "-json" -> from[i + 1]
            [] w.name \in buildOnlyFlags -> [from[i + 1] EXCEPT !.build = <<w>> \o @]
            [] w.name \in runOnlyFlags -> [from[i + 1] EXCEPT !.run = <<w>> \o @]
            [] w.name \in buildValueFlags /\ apart ->
                 [from[i + 2] EXCEPT !.build = <<w, args[i + 1]>> \o @]
            [] w.name \in buildValueFlags -> [from[i + 1] EXCEPT !.build = <<w>> \o @]
            [] w.name \in runValueFlags /\ apart ->
                 [from[i + 2] EXCEPT !.run = <<w, args[i + 1]>> \o @]
            [] w.name \in runValueFlags -> [from[i + 1] EXCEPT !.run = <<w>> \o @]
            [] apart /\ IsWord(args[i + 1]) ->
                 [from[i + 2] EXCEPT !.own = <<w, args[i + 1]>> \o @]
            [] OTHER -> [from[i + 1] EXCEPT !.own = <<w>> \o @]
    IN from[1]

\* The binary's flags and words follow the run flags behind one "-args", and a
\* cover profile needs a binary built with -cover.
ClassifyGoTestArgs(args) ==
    LET c == Classified(args)
        covered == \E i \in DOMAIN c.run : c.run[i].name = "-coverprofile" IN
    [build |-> c.build \o (IF covered /\ Flag("-cover") \notin ToSet(c.build)
                           THEN <<Flag("-cover")>> ELSE <<>>),
     run |-> c.run \o (IF c.own # <<>> \/ c.explicit # <<>>
                       THEN <<Marker>> \o c.own \o FromOn(c.explicit, 2) ELSE <<>>),
     pkgs |-> c.pkgs]

------------------------------------------------------------------------------
(* PatternIndices *)

\* Mutant: a flag neither registry knows takes no value.
TakesValue_Known(args, i) == args[i].name \in valueFlags

\* An unknown flag takes the plain word after it as its value.
TakesValue(args, i) ==
    \/ args[i].name \in valueFlags
    \/ /\ args[i].name \notin knownFlags \cup {"-json"}
       /\ i < Len(args) /\ IsWord(args[i + 1])

PatternIndices(args) ==
    LET from[i \in 1..(Len(args) + 2)] ==
          IF i > Len(args) \/ (i <= Len(args) /\ args[i].name = "-args") THEN <<>>
          ELSE IF IsWord(args[i]) THEN <<i>> \o from[i + 1]
          ELSE IF args[i].name # "--" /\ ~args[i].eq /\ TakesValue(args, i) THEN from[i + 2]
          ELSE from[i + 1]
    IN from[1]

------------------------------------------------------------------------------
(* ParseExecFlags and the binary's command line *)

\* stripFlag: the flag and its value, up to -args.
StripFlag(flags, name) ==
    LET from[i \in 1..(Len(flags) + 2)] ==
          IF i > Len(flags) THEN <<>>
          ELSE IF flags[i] = Marker THEN FromOn(flags, i)
          ELSE IF flags[i].name # name THEN <<flags[i]>> \o from[i + 1]
          ELSE IF flags[i].eq THEN from[i + 1] ELSE from[i + 2]
    IN from[1]

BeforeMarker(flags) ==
    {i \in DOMAIN flags : \A j \in 1..i : flags[j] # Marker}
Has(flags, name) == \E i \in BeforeMarker(flags) : flags[i].name = name

InsertBeforeArgs(flags, w) == InsertAt(flags, Cardinality(BeforeMarker(flags)) + 1, w)

InjectDefaultTimeout(flags) ==
    IF Has(flags, "-timeout") THEN flags ELSE InsertBeforeArgs(flags, FlagWith("-timeout"))

\* A gate on coverage adds a profile of its own to a line without one.
EnsureCoverProfile(args) ==
    IF "coverage" \in wanted /\ ~Has(args, "-coverprofile")
    THEN InsertBeforeArgs(args, FlagWith("-coverprofile")) ELSE args

\* Run flags without -run and the cover profile, which the runner sets itself.
RunFlags(run) == InjectDefaultTimeout(StripFlag(StripFlag(run, "-run"), "-coverprofile"))

\* The marker is consumed, what follows it is passed as it is.
TranslateToTestBinaryFlags(flags) ==
    LET before == Cardinality(BeforeMarker(flags)) IN
    [i \in 1..before |-> flags[i]] \o FromOn(flags, before + 2)

InsertBeforeWords(args, w) ==
    LET plain == {i \in DOMAIN args : IsWord(args[i])} IN
    IF plain = {} THEN Append(args, w)
    ELSE InsertAt(args, CHOOSE i \in plain : \A j \in plain : i <= j, w)

SuiteProfile == FlagWith("-test.coverprofile")

BuildSuiteCmd(run) ==
    LET args == <<FlagWith("-run")>> \o TranslateToTestBinaryFlags(RunFlags(run)) IN
    IF Has(run, "-coverprofile") THEN InsertBeforeWords(args, SuiteProfile) ELSE args

\* The binary's flag package: a flag that takes a value and has none takes the
\* next word, and the first plain word ends the flags.
BinaryReads(args) ==
    LET from[i \in 1..(Len(args) + 2)] ==
          IF i > Len(args) \/ (i <= Len(args) /\ IsWord(args[i]))
          THEN [flags |-> <<>>, words |-> FromOn(args, i)]
          ELSE LET takes == args[i].name \in runValueFlags \cup {Custom} /\ ~args[i].eq IN
               LET rest == from[i + (IF takes THEN 2 ELSE 1)] IN
               [rest EXCEPT !.flags = <<args[i].name>> \o @]
    IN from[1]

------------------------------------------------------------------------------
CommandLineIn(words, done) == typed = words /\ read = done
CommandLineInit == CommandLineIn(<<>>, "no") /\ wanted \in SUBSET {"tags", "coverage"}

\* Bounds: a value written apart is no flag, "--" is typed once and before -args,
\* and nothing is typed after a flag that refuses the line.
AwaitsValue(w) == ~w.eq /\ w.name \in valueFlags \cup {"--parallel"}

Escaped == \E i \in DOMAIN typed : typed[i].name \in {"--", "-args"}

Type(w) ==
    /\ read = "no" /\ Len(typed) < MaxWords
    /\ w.name = "--" => ~Escaped
    /\ typed # <<>> /\ Last(typed).name \in {"--gate", Custom} => Escaped
    /\ typed # <<>> /\ AwaitsValue(Last(typed)) => IsWord(w)
    /\ typed' = Append(typed, w) /\ UNCHANGED <<wanted, read>>

\* runTest up to the run.
ReadArgs ==
    /\ read = "no"
    /\ LET s == SplitArgs(DefaultArgs(typed)) IN
       read' = IF s.err \/ (~Escaped /\ NeedsArgument(s.go)) THEN "refused" ELSE "run"
    /\ UNCHANGED <<typed, wanted>>

CommandLineNext ==
    \/ \E w \in Words : Type(w)
    \/ ReadArgs

CommandLineSpec == CommandLineInit /\ [][CommandLineNext]_commandLineVars

------------------------------------------------------------------------------
GoTestArgs == EnsureCoverProfile(SplitArgs(DefaultArgs(typed)).go)
Given == ClassifyGoTestArgs(GoTestArgs)
AfterMarker(s) == FromOn(s, Cardinality(BeforeMarker(s)) + 2)

\* No value is written apart from its flag, the one case in which a cover
\* profile inserted before the first plain word would separate the two.
NoneApart(run) == \A i \in DOMAIN run : ~run[i].eq => run[i].name \notin runValueFlags \cup {Custom}

\* The two readings of one command line agree on its packages, whatever flags
\* stand between them (PatternIndices, args.go:428; ClassifyGoTestArgs, :103);
\* the words after -args reach the binary last and as typed, but for the
\* suite's cover profile (suiterun.go:186); a gate on coverage has a profile and
\* a binary built for it; and the binary reads every flag the runner adds as a
\* flag: the deadline, and the suite's profile when no value is written apart.
\* A last flag without its value, which an escape lets through, is left out.
CommandLineIsRead ==
    read = "run" /\ (typed = <<>> \/ ~AwaitsValue(Last(typed))) =>
        /\ PatternIndices(GoTestArgs) = Given.pkgs
        /\ IsSuffix(AfterMarker(GoTestArgs),
                    SelectSeq(BuildSuiteCmd(Given.run), LAMBDA w : w # SuiteProfile))
        /\ "coverage" \in wanted =>
              /\ Has(Given.run, "-coverprofile")
              /\ Flag("-cover") \in ToSet(Given.build)
        /\ LET b == BinaryReads(BuildSuiteCmd(Given.run)) IN
           /\ ~Has(Given.run, "-coverprofile") => "-timeout" \in ToSet(b.flags)
           /\ Has(Given.run, "-coverprofile") /\ NoneApart(Given.run) =>
                 {"-timeout", SuiteProfile.name} \subseteq ToSet(b.flags)
=============================================================================
