----------------------------- MODULE Assertions -----------------------------
(***************************************************************************)
(* What rewriting an assertion does to the test it stands in: migrate       *)
(* turns testify's into gotest's (internal/migrate/assertmap.go), lint -fix *)
(* puts a sharper assertion for a condition (internal/lint/simplify.go),    *)
(* drops one the next implies (redundant.go) and puts assertions for an     *)
(* if that only fails (failguard.go), again and again, in any order.        *)
(*                                                                          *)
(* Types and the values they hold stand for their kinds: "one" is a value   *)
(* other than the zero value, "p1" and "q1" are two pointers to equal       *)
(* values, "of..." a pointer to a slice; a deepstruct holds a pointer, an   *)
(* uncomparable struct a slice, an error or any a value of another type; a  *)
(* ptrmap has pointers for keys.                                            *)
(* The rewrites look at the types, the assertions at the values.            *)
(***************************************************************************)
EXTENDS Naturals, Sequences, FiniteSets

CONSTANTS
    Held,      \* what an any holds, as <<type, content>>
    Written    \* the tests that are rewritten, in families

Contents ==
    [bool |-> {"zero", "one"}, int |-> {"zero", "one", "two"}, float |-> {"zero", "one", "nan"},
     string |-> {"zero", "one"}, slice |-> {"nil", "empty", "one"}, map |-> {"nil", "empty", "one"},
     ptrmap |-> {"nil", "empty", "p1"},
     chan |-> {"nil", "empty", "one"}, func |-> {"nil", "one"}, ptr |-> {"nil", "p0", "p1", "q1"},
     ptrslice |-> {"nil", "ofnil", "ofempty", "ofone"}, ptrarray |-> {"nil", "p0"},
     array |-> {"zero", "one"}, struct |-> {"zero", "one"}, deepstruct |-> {"zero", "p1", "q1"},
     uncomparable |-> {"zero", "one"}]
Concrete == DOMAIN Contents
Interfaces == {"error", "any"}
Nothing == [type |-> "none", at |-> "nil"]   \* an interface that holds no value
ValuesOf(type) ==
    CASE type = "error" -> {Nothing} \cup {[type |-> "ptr", at |-> a] : a \in Contents["ptr"]}
      [] type = "any" -> {Nothing} \cup {[type |-> h[1], at |-> h[2]] : h \in Held}
      [] OTHER -> {[type |-> type, at |-> a] : a \in Contents[type]}

\* A statement calls fun on x and y, or asks a condition, x op y; via: len or
\* Error of x stands for x; not: the condition is negated; body: what an if does
\* when the condition holds; loose: its message cannot be evaluated otherwise.
\* An operand is a variable, a literal or nil.
VARIABLES
    stmts, api,
    was,    \* how the test ended before it was rewritten
    lost    \* whether a rewrite known to change verdicts has been made, see Lost...
assertionVars == <<stmts, api, was, lost>>

------------------------------------------------------------------------------
(* Types, as typeclass and go/types see them *)

Nilable(t) == t \in {"slice", "map", "ptrmap", "chan", "func", "ptr", "ptrslice", "ptrarray"} \cup Interfaces
Pointer(t) == t \in {"ptr", "ptrslice", "ptrarray"}
Comparable(t) == t \notin {"slice", "map", "ptrmap", "func", "uncomparable"}
HasLength(t) == t \in {"slice", "map", "ptrmap", "chan", "array", "string"}
Ordered(t) == t \in {"int", "float", "string"}

NilKind(t) ==
    CASE t = "error" -> "errorIface" [] t = "any" -> "otherIface"
      [] Nilable(t) /\ Comparable(t) -> "comparableNil"
      [] Nilable(t) /\ ~Comparable(t) -> "uncomparableNil"
      [] OTHER -> "notNilable"

\* Where reflect.DeepEqual may look through a pointer that == compares.
ReachesPointer(t) ==
    Pointer(t) \/ t \in Interfaces \cup {"slice", "map", "ptrmap", "func", "deepstruct", "uncomparable"}

------------------------------------------------------------------------------
(* Values *)

IsNil(v) == v.at = "nil"
IsNilable(v) == v = Nothing \/ Nilable(v.type)
Structure(a) == IF a \in {"p1", "q1"} THEN "p1" ELSE a
DeepEqual(v, w) ==
    /\ v.type = w.type /\ Structure(v.at) = Structure(w.at)
    /\ v.at # "nan" /\ (v.type = "func" => IsNil(v))
SameValue(v, w) == v = w /\ v.at # "nan"
ZeroValue(t) ==
    IF t \in Interfaces THEN Nothing
    ELSE [type |-> t, at |-> IF Nilable(t) THEN "nil" ELSE "zero"]

IsEmptyable(v) == v = Nothing \/ HasLength(v.type) \/ Pointer(v.type)
Length(v) ==
    CASE v.type = "array" -> "two"
      [] v.at = "one" \/ (v.type = "ptrmap" /\ v.at = "p1") -> "one"
      [] OTHER -> "zero"
IsEmpty(v) ==
    \/ v = Nothing
    \/ HasLength(v.type) /\ Length(v) = "zero"
    \/ Pointer(v.type) /\ v.at \in {"nil", "ofnil", "ofempty"}

Rank == [nan |-> 0, zero |-> 1, one |-> 2, two |-> 3]
Orders(op, a, b) ==
    CASE op = ">" -> a > b [] op = ">=" -> a >= b [] op = "<" -> a < b [] op = "<=" -> a <= b

\* A slice or a map of ints, a map's pointers by identity, and a string.
Includes(v, w) ==
    CASE v.type = "string" -> w.at = "zero" \/ v.at = w.at
      [] v.type = "array" -> w.at \in {"zero", v.at}
      [] v.type = "ptrmap" -> w.at = "p1" /\ v.at = "p1"
      [] OTHER -> v.at = "one" /\ w.at = "one"
CanHold(v, w) ==
    \/ v = Nothing \/ (v.type = "string" /\ w.type = "string")
    \/ v.type \in {"slice", "map", "array"} /\ w.type = "int"
    \/ v.type = "ptrmap" /\ (w.type = "ptr" \/ w = Nothing)

------------------------------------------------------------------------------
(* Statements *)

Left(s) ==
    CASE s.via = "len" -> [type |-> "int", at |-> IF s.x.type = "ptrarray" THEN "two" ELSE Length(s.x.holds)]
      [] s.via = "Error" -> [type |-> "string", at |-> "one"]
      [] OTHER -> s.x.holds
LeftType(s) == CASE s.via = "len" -> "int" [] s.via = "Error" -> "string" [] OTHER -> s.x.type
Right(s) == IF s.y.kind = "nil" THEN ZeroValue(LeftType(s)) ELSE s.y.holds

OrderOf == [Greater |-> ">", GreaterOrEqual |-> ">=", Less |-> "<", LessOrEqual |-> "<="]
OpName == [op \in {">", ">=", "<", "<="} |-> CHOOSE f \in DOMAIN OrderOf : OrderOf[f] = op]
Opposite == [Greater |-> "LessOrEqual", GreaterOrEqual |-> "Less",
             Less |-> "GreaterOrEqual", LessOrEqual |-> "Greater"]

Condition(s) ==
    LET holds ==
            CASE s.op = "" -> Left(s).at = "one"
              [] s.op = "==" -> SameValue(Left(s), Right(s))
              [] s.op = "!=" -> ~SameValue(Left(s), Right(s))
              [] s.op \in DOMAIN OpName -> /\ Left(s).at # "nan" /\ Right(s).at # "nan"
                                           /\ Orders(s.op, Rank[Left(s).at], Rank[Right(s).at])
              [] s.op = "strings.Contains" -> Includes(Left(s), Right(s))
              [] s.op = "errors.Is" -> Left(s) = Right(s)
              [] s.op = "reflect.DeepEqual" -> DeepEqual(Left(s), Right(s)) IN
    holds # s.not

\* gotest's assertions (pkg/gotest/assertions.go).
GotestPasses(s) ==
    LET v == Left(s) w == Right(s) IN
    CASE s.fun = "True" -> Condition(s)
      [] s.fun = "False" -> ~Condition(s)
      [] s.fun = "Equal" -> DeepEqual(v, w)
      [] s.fun = "NotEqual" -> ~DeepEqual(v, w)
      [] s.fun = "Zero" -> SameValue(v, ZeroValue(LeftType(s)))
      [] s.fun = "NotZero" -> ~SameValue(v, ZeroValue(LeftType(s)))
      [] s.fun = "Nil" -> IsNilable(v) /\ IsNil(v)
      [] s.fun = "NotNil" -> IsNilable(v) /\ ~IsNil(v)
      [] s.fun = "Empty" -> IsEmptyable(v) /\ IsEmpty(v)
      [] s.fun = "NotEmpty" -> IsEmptyable(v) /\ ~IsEmpty(v)
      [] s.fun = "NoError" -> v = Nothing
      [] s.fun = "Error" -> v # Nothing
      [] s.fun = "ErrorIs" -> w # Nothing /\ v = w
      [] s.fun = "ErrorContains" -> w.at # "zero" /\ v # Nothing /\ w.at = "one"
      [] s.fun = "Len" -> v # Nothing /\ HasLength(v.type) /\ Length(v) = w.at
      [] s.fun \in DOMAIN OrderOf -> Orders(OrderOf[s.fun], Rank[v.at], Rank[w.at])
      [] s.fun = "Same" -> v = w
      [] s.fun = "NotSame" -> v # w
      [] s.fun \in {"Contains", "NotContains"} ->
            LET needle == s.y.holds
                found == v # Nothing /\ CanHold(v, needle) /\ Includes(v, needle) IN
            CanHold(v, needle) /\ found = (s.fun = "Contains")

\* testify's: reflect.DeepEqual for equality, of functions never, and for what a
\* list or a map holds; the dynamic value for nil, zero and empty, which is zero
\* for what has no length; an order only between numbers of one type.
TestifyZero(v) == v = Nothing \/ DeepEqual(v, ZeroValue(v.type))
TestifyEmpty(v) ==
    \/ IsEmpty(v)
    \/ v.at = "p0" /\ v.type \in {"ptr", "ptrarray"}
    \/ ~HasLength(v.type) /\ ~Pointer(v.type) /\ TestifyZero(v)
    \/ v.type = "array" /\ v.at = "zero"
TestifySearches(v) ==
    v # Nothing /\ HasLength(v.type) /\ (v.type = "chan" => Length(v) = "zero")
TestifyFinds(v, w) ==
    /\ TestifySearches(v) /\ v.type # "chan"
    /\ CanHold(v, w) /\ Includes(v, [w EXCEPT !.at = Structure(w.at)])
TestifyPasses(s) ==
    LET v == Left(s) w == s.y.holds
        called == "func" \in {v.type, w.type} IN
    CASE s.fun = "Equal" -> ~called /\ DeepEqual(v, w)
      [] s.fun = "NotEqual" -> ~called /\ ~DeepEqual(v, w)
      [] s.fun = "Zero" -> TestifyZero(v) [] s.fun = "NotZero" -> ~TestifyZero(v)
      [] s.fun = "Empty" -> TestifyEmpty(v) [] s.fun = "NotEmpty" -> ~TestifyEmpty(v)
      [] s.fun = "Nil" -> IsNil(v) [] s.fun = "NotNil" -> ~IsNil(v)
      [] s.fun = "Len" -> (HasLength(v.type) /\ Length(v) = w.at) \/ (v.type = "ptrarray" /\ w.at = "two")
      [] s.fun = "ErrorIs" -> v = w
      [] s.fun = "ErrorContains" -> v # Nothing
      [] s.fun \in DOMAIN OrderOf ->
            /\ v.type = w.type /\ Ordered(v.type) /\ "nan" \notin {v.at, w.at}
            /\ Orders(OrderOf[s.fun], Rank[v.at], Rank[w.at])
      [] s.fun = "Same" -> Pointer(v.type) /\ v = w
      [] s.fun = "NotSame" -> Pointer(v.type) /\ Pointer(w.type) /\ v # w
      [] s.fun = "Contains" -> TestifyFinds(v, w)
      [] s.fun = "NotContains" -> TestifySearches(v) /\ ~TestifyFinds(v, w)
      [] OTHER -> GotestPasses(s)

\* How a test leaves its statements: they pass, it halts, or it goes on failed.
Fails(s) ==
    CASE s.via = "Error" /\ s.x.holds = Nothing -> "halted"
      [] s.fun \in {"if", "else if"} ->
            IF ~Condition(s) THEN "passed"
            ELSE (CASE s.body \in {"Fail", "Fatal", "FailNow"} -> "halted"
                    [] s.body = "Errorf" -> "failed" [] s.body = "Errorf, return" -> "returned")
      [] OTHER ->
            IF s.loose \/ ~(IF api = "testify" THEN TestifyPasses(s) ELSE GotestPasses(s))
            THEN "halted" ELSE "passed"
Outcome ==
    LET ends == [i \in DOMAIN stmts |-> Fails(stmts[i])]
        over(i) == \A j \in 1 .. i - 1 : ends[j] \notin {"halted", "returned"}
        seen == {ends[i] : i \in {j \in DOMAIN stmts : over(j)}} IN
    CASE "halted" \in seen -> "halted" [] "returned" \in seen -> "returned"
      [] "failed" \in seen -> "failed" [] OTHER -> "passed"

\* What the compiler takes: testify's parameters are mostly an interface{}.
GotestCompiles(s) ==
    LET t == LeftType(s) u == s.y.type IN
    CASE s.fun \in {"True", "False", "if", "else if"} ->
           (CASE s.op = "" -> t = "bool"
              [] s.op \in {"==", "!="} ->
                    IF s.y.kind = "nil" THEN Nilable(t)
                    ELSE Comparable(t) /\ Comparable(u) /\ (t = u \/ t \in Interfaces \/ u \in Interfaces)
              [] s.op \in DOMAIN OpName -> Ordered(t) /\ t = u
              [] s.op = "strings.Contains" -> t = "string" /\ u = "string"
              [] s.op = "errors.Is" -> t = "error" /\ u \in {"error", "nil"}
              [] s.op = "reflect.DeepEqual" -> s.y.kind # "nil")
      [] s.fun \in {"Equal", "NotEqual"} ->
            IF s.y.kind = "nil" THEN Nilable(t) ELSE t = u \/ t = "any" \/ u = "any"
      [] s.fun \in {"Zero", "NotZero"} -> Comparable(t)
      [] s.fun \in {"NoError", "Error"} -> t = "error"
      [] s.fun = "ErrorIs" -> t = "error" /\ u \in {"error", "nil"}
      [] s.fun = "ErrorContains" -> t = "error" /\ u = "string"
      [] s.fun = "Len" -> u = "int"
      [] s.fun \in DOMAIN OrderOf -> Ordered(t) /\ t = u
      [] s.fun \in {"Same", "NotSame"} -> Pointer(t) /\ t = u
      [] OTHER -> TRUE
Generic == {"Equal", "NotEqual", "Zero", "NotZero", "Same", "NotSame"} \cup DOMAIN OrderOf
Compiles(s) == (api = "testify" /\ s.fun \in Generic) \/ GotestCompiles(s)

------------------------------------------------------------------------------
(* migrate *)

\* A constant takes the type of the other argument.
Retyped(s) ==
    IF s.y.kind = "lit" /\ LeftType(s) = "float" /\ s.y.type = "int"
    THEN [s EXCEPT !.y.type = "float", !.y.holds.type = "float"] ELSE s
\* mapAssertion: the gotest assertion with testify's verdict, {} for none.
Translated(s) ==
    LET t == LeftType(s) u == s.y.type
        to(f) == {[s EXCEPT !.fun = f]}
        zero(f) == IF Comparable(t) THEN to(f)
                   ELSE IF t \in {"slice", "map", "ptrmap", "func"} THEN to(IF f = "Zero" THEN "Nil" ELSE "NotNil")
                   ELSE {[s EXCEPT !.fun = IF f = "Zero" THEN "Equal" ELSE "NotEqual",
                                   !.y = [kind |-> "lit", type |-> t, holds |-> ZeroValue(t)]]}
        isEmpty == s.fun = "Empty" IN
    CASE s.fun \in {"Equal", "NotEqual"} ->
            IF \/ s.y.kind = "nil" /\ t \notin Interfaces
               \/ s.y.kind = "lit" /\ t \notin Interfaces \cup {u}
            THEN {} ELSE to(s.fun)
      [] s.fun \in {"Zero", "NotZero"} -> IF t \in Interfaces THEN {} ELSE zero(s.fun)
      [] s.fun \in {"Empty", "NotEmpty"} ->
           (CASE t \in {"slice", "map", "ptrmap", "chan", "string", "ptrslice"} -> to(s.fun)
              [] Pointer(t) /\ t # "ptrslice" -> {}
              [] t = "func" -> to(IF isEmpty THEN "Nil" ELSE "NotNil")
              [] t \in Interfaces -> {}
              [] OTHER -> zero(IF isEmpty THEN "Zero" ELSE "NotZero"))
      [] s.fun = "Len" -> IF t = "ptrarray" THEN {} ELSE to("Len")
      [] s.fun = "NotNil" -> IF t \notin Interfaces /\ Nilable(t) THEN to("NotNil") ELSE {}
      [] s.fun \in DOMAIN OrderOf -> {Retyped(s)}
      [] OTHER -> to(s.fun)

\* What mapAssertion takes as it stands although gotest judges it otherwise: a
\* search in nil or for what cannot be held, pointer keys, which gotest compares,
\* a pointer to an array in an interface, a nil target, an empty needle, functions,
\* and an order of NaN or of numbers of two types.
LostByMigrate(s) ==
    LET v == Left(s) w == s.y.holds IN
    \/ s.fun = "NotContains" /\ (v = Nothing \/ ~CanHold(v, w))
    \/ s.fun \in {"Contains", "NotContains"} /\ v.type = "ptrmap"
    \/ s.fun = "Len" /\ v.type = "ptrarray"
    \/ s.fun = "ErrorIs" /\ w = Nothing
    \/ s.fun = "ErrorContains" /\ w.at = "zero"
    \/ s.fun \in {"Equal", "NotEqual"} /\ "func" \in {v.type, w.type}
    \/ s.fun \in DOMAIN OrderOf /\ ("nan" \in {v.at, w.at} \/ v.type # w.type)

------------------------------------------------------------------------------
(* lint -fix *)

Instead(s, f) == [s EXCEPT !.fun = f, !.op = "", !.not = FALSE, !.body = ""]
OnX(s, f) == [Instead(s, f) EXCEPT !.via = ""]
Either(cond, f, g) == IF cond THEN f ELSE g
LitIs(s, at) == s.y.kind = "lit" /\ s.y.holds.at = at

NilCheck(s, t, positive) ==
    CASE NilKind(t) = "errorIface" -> {OnX(s, Either(positive, "NoError", "Error"))}
      [] NilKind(t) \in {"otherIface", "comparableNil"} -> {OnX(s, Either(positive, "Zero", "NotZero"))}
      [] NilKind(t) = "uncomparableNil" -> {OnX(s, Either(positive, "Nil", "NotNil"))}
      [] OTHER -> {}

\* mapEquality: two interfaces, and what holds a pointer, map to nothing; two
\* errors to ErrorIs, which is reported only.
MapEquality(s, asserted) ==
    LET t == LeftType(s) u == s.y.type IN
    CASE Pointer(t) /\ Pointer(u) -> {Instead(s, Either(asserted, "Same", "NotSame"))}
      [] \/ t = u /\ ~ReachesPointer(t)
         \/ t = "any" /\ ~ReachesPointer(u)
         \/ u = "any" /\ ~ReachesPointer(t) ->
            {Instead(s, Either(asserted, "Equal", "NotEqual"))}
      [] OTHER -> {}

MapCompared(s, asserted) ==
    IF s.y.kind = "nil" THEN NilCheck(s, LeftType(s), asserted)
    ELSE IF s.via = "len" /\ HasLength(s.x.type) /\ LitIs(s, "zero")
    THEN {OnX(s, Either(asserted, "Empty", "NotEmpty"))}
    ELSE IF s.via = "len" /\ HasLength(s.x.type) /\ asserted THEN {OnX(s, "Len")}
    ELSE IF LeftType(s) = "string" /\ LitIs(s, "zero")
    THEN {Instead(s, Either(asserted, "Empty", "NotEmpty"))}
    ELSE MapEquality(s, asserted)

MapOrdered(s, negated) ==
    IF /\ s.via = "len" /\ HasLength(s.x.type)
       /\ (s.op = ">" /\ LitIs(s, "zero")) \/ (s.op = ">=" /\ LitIs(s, "one"))
    THEN {OnX(s, Either(negated, "Empty", "NotEmpty"))}
    ELSE IF LeftType(s) = "float" THEN {}
    ELSE {Instead(s, IF negated THEN Opposite[OpName[s.op]] ELSE OpName[s.op])}

\* mapBoolExpr: the assertion of a condition, or with negated set of its negation.
MapBool(s, sign) ==
    LET negated == s.not # sign
        mapped ==
            CASE s.op \in {"==", "!="} -> MapCompared(s, (s.op = "==") # negated)
              [] s.op \in DOMAIN OpName -> MapOrdered(s, negated)
              [] s.op = "strings.Contains" -> {Instead(s, Either(negated, "NotContains", "Contains"))}
              [] s.op = "errors.Is" /\ s.y.kind = "nil" -> {Instead(s, Either(negated, "Error", "NoError"))}
              [] s.op = "reflect.DeepEqual" /\ (LeftType(s) = s.y.type \/ "any" \in {LeftType(s), s.y.type}) ->
                    {Instead(s, Either(negated, "NotEqual", "Equal"))}
              [] OTHER -> {} IN
    IF mapped # {} \/ ~s.not THEN mapped
    ELSE {[s EXCEPT !.fun = Either(sign, "True", "False"), !.not = FALSE, !.body = ""]}

SimplifyEquality(s, negated) ==
    IF s.y.kind = "lit" /\ LeftType(s) = "bool"
    THEN {Instead(s, Either(LitIs(s, "one") # negated, "True", "False"))}
    ELSE IF LeftType(s) = "string" /\ LitIs(s, "zero")
    THEN {Instead(s, Either(negated, "NotEmpty", "Empty"))}
    ELSE IF s.y.kind = "nil" THEN NilCheck(s, LeftType(s), ~negated)
    ELSE IF s.via # "len" \/ ~HasLength(s.x.type) THEN {}
    ELSE IF LitIs(s, "zero") THEN {OnX(s, Either(negated, "NotEmpty", "Empty"))}
    ELSE IF ~negated THEN {OnX(s, "Len")} ELSE {}

\* checkAssertionSimplify, where it offers a fix.
Simplified(s) ==
    LET lens(at) == s.via = "len" /\ HasLength(s.x.type) /\ LitIs(s, at) IN
    CASE s.fun = "True" -> MapBool(s, FALSE)
      [] s.fun = "False" -> MapBool(s, TRUE)
      [] s.fun = "Equal" -> SimplifyEquality(s, FALSE)
      [] s.fun = "NotEqual" -> SimplifyEquality(s, TRUE)
      [] s.fun = "Len" /\ LitIs(s, "zero") /\ HasLength(LeftType(s)) -> {Instead(s, "Empty")}
      [] s.fun = "Greater" /\ lens("zero") -> {OnX(s, "NotEmpty")}
      [] s.fun = "GreaterOrEqual" /\ lens("one") -> {OnX(s, "NotEmpty")}
      [] s.fun \in {"Zero", "NotZero"} /\ NilKind(LeftType(s)) = "errorIface" ->
            {Instead(s, Either(s.fun = "Zero", "NoError", "Error"))}
      [] s.fun = "Contains" /\ s.via = "Error" -> {OnX(s, "ErrorContains")}
      [] s.fun \in {"Nil", "NotNil"} /\ NilKind(LeftType(s)) = "comparableNil" ->
            {Instead(s, Either(s.fun = "Nil", "Zero", "NotZero"))}
      [] OTHER -> {}

\* simplifyContainsErrMsg takes any needle, ErrorContains a string that is not empty.
LostBySimplify(s) ==
    s.fun = "Contains" /\ s.via = "Error" /\ (s.y.type # "string" \/ s.y.holds.at = "zero")

\* isRedundantBefore: the second fails on every input the first fails on.
MayBeEmptyString(s) ==
    IF s.y.kind = "lit" THEN s.y.type = "string" /\ LitIs(s, "zero")
    ELSE s.y.type \in {"string", "nil"} \cup Interfaces
RedundantBefore(s, n) ==
    /\ s.x = n.x /\ s.via = "" /\ n.via = ""
    /\ s.fun = "NotNil" => NilKind(s.x.type) # "notNilable"
    /\ (s.fun = "NotEmpty" /\ n.fun = "Contains") => ~MayBeEmptyString(n)
    /\ \/ s.fun = "Error" /\ n.fun \in {"ErrorIs", "ErrorContains"}
       \/ s.fun = "NotNil" /\ n.fun \in {"NotEmpty", "Contains"}
       \/ s.fun = "NotEmpty" /\ n.fun = "Contains"
       \/ /\ s.fun \in {"NotNil", "NotEmpty"} /\ n.fun = "Len"
          /\ n.y.kind = "lit" /\ n.y.holds.at # "zero"

\* Through an interface NotNil fails on what cannot be nil, the next may not.
LostByDrop(s) == s.fun = "NotNil" /\ s.x.type \in Interfaces /\ ~IsNilable(s.x.holds)

------------------------------------------------------------------------------
(* Steps *)

\* A family writes its calls, conditions or ifs over its operands, alone or with
\* another of them behind, on the same operand.
Statement(fun, op, not, via, x, y, body) ==
    [fun |-> fun, op |-> op, not |-> not, via |-> via, x |-> x, y |-> y,
     body |-> body, loose |-> FALSE]

AssertionInit ==
    /\ \E f \in Written :
         \E fun \in f.funs, op \in f.ops, not \in f.nots, via \in f.vias, x \in f.xs, body \in f.bodies, a \in f.apis :
         \E y \in f.ys :
            LET s == Statement(fun, op, not, via, x, y, body) IN
            /\ api = a /\ Compiles(s)
            /\ \/ f.next = {} /\ stmts = <<s>>
               \/ \E next \in f.next, z \in f.zs, loose \in f.loose :
                    LET n == [s EXCEPT !.fun = next, !.y = z, !.loose = loose] IN
                    Compiles(n) /\ stmts = <<s, n>>
    /\ was = Outcome /\ lost = FALSE

\* A call that has no counterpart stays under a marker, and the test with it, as
\* does one that does not compile.
Migratable(s) == {n \in Translated(s) : GotestCompiles(n)}
TranslateAssertions ==
    /\ api = "testify" /\ \A i \in DOMAIN stmts : Migratable(stmts[i]) # {}
    /\ stmts' = [i \in DOMAIN stmts |-> CHOOSE s \in Migratable(stmts[i]) : TRUE]
    /\ api' = "gotest" /\ lost' = \E i \in DOMAIN stmts : LostByMigrate(stmts[i])
    /\ UNCHANGED was

SimplifyAssertion(i) ==
    /\ api = "gotest" /\ i \in DOMAIN stmts
    /\ \E s \in Simplified(stmts[i]) : stmts' = [stmts EXCEPT ![i] = s]
    /\ lost' = (lost \/ LostBySimplify(stmts[i]))
    /\ UNCHANGED <<api, was>>

DropRedundant(i) ==
    /\ api = "gotest" /\ i + 1 \in DOMAIN stmts /\ RedundantBefore(stmts[i], stmts[i + 1])
    /\ stmts' = SubSeq(stmts, 1, i - 1) \o SubSeq(stmts, i + 1, Len(stmts))
    /\ lost' = (lost \/ LostByDrop(stmts[i]))
    /\ UNCHANGED <<api, was>>

\* checkFailGuard: a chain of ifs, each body of which halts the test.
GuardOf(s) ==
    LET m == MapBool(s, TRUE) IN
    IF m # {} THEN m ELSE {[s EXCEPT !.fun = "False", !.body = ""]}
RewriteGuard ==
    /\ api = "gotest" /\ stmts[1].fun = "if"
    /\ \A i \in DOMAIN stmts : stmts[i].body \in {"Fail", "Fatal", "FailNow"} /\ ~stmts[i].loose
    /\ stmts' = [i \in DOMAIN stmts |-> CHOOSE s \in GuardOf(stmts[i]) : TRUE]
    /\ UNCHANGED <<api, was, lost>>

AssertionNext ==
    \/ TranslateAssertions \/ RewriteGuard
    \/ \E i \in 1 .. 2 : SimplifyAssertion(i) \/ DropRedundant(i)

AssertionSpec == AssertionInit /\ [][AssertionNext]_assertionVars

\* However often it is rewritten, a test passes, fails and halts on the values it
\* passed, failed and halted on, and compiles: a nil pointer in an interface, a
\* NaN, a pointer in a struct, an empty slice that is not nil (nilkind.go:13,
\* mapAssertion, isRedundantBefore, checkFailGuard).  The rewrites named Lost...
\* do not keep it, and TranslationsKeepVerdicts shows migrate's.
VerdictsAreKept ==
    ~lost => Outcome = was /\ \A i \in DOMAIN stmts : Compiles(stmts[i])

\* "Migrate SHALL translate a testify assertion, hook or call only where gotest
\* gives the verdict and the guarantees testify gave" (specs/migrate/spec.md:49).
TranslationsKeepVerdicts ==
    [][api = "testify" /\ api' = "gotest" => Outcome' = Outcome]_assertionVars
=============================================================================
