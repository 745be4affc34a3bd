------------------------------ MODULE Evaluate ------------------------------
(***************************************************************************)
(* Evaluation of a flag for one caller (evaluateFlag) and the rules its     *)
(* constraints obey (OPERATORS_BY_TYPE, constraintError).                   *)
(*                                                                          *)
(* A context value or a constraint's value is a member of Text.  What        *)
(* JavaScript reads in a text is data: NumberOf, DateOf and PartsOf are      *)
(* defined on the texts that Number, Date.parse and the splitting of a       *)
(* version can read, RangeOf on those that parse as a version range.        *)
(***************************************************************************)
EXTENDS Integers, FiniteSets, Sequences, FiniteSetsExt, TLC

CONSTANTS
    FieldKey, Text,
    NumberOf, DateOf,     \* partial functions from Text to integers
    PartsOf,              \* from Text to the numbers between the dots of a version
    RangeOf,              \* from Text to [op, base]
    Truthy,               \* the texts that read as true
    TextTest,             \* for startsWith, contains, regex: the pairs <<value, argument>>
    SafePattern,          \* the texts that are regular expressions safe-regex accepts
    Callers               \* contexts: partial functions from FieldKey to Text

Types == {"string", "enum", "boolean", "number", "version", "date"}

OperatorsByType ==
    [string  |-> {"equals", "in", "notIn", "startsWith", "contains", "regex"},
     enum    |-> {"equals", "in", "notIn"},
     boolean |-> {"is"},
     number  |-> {"eq", "neq", "lt", "lte", "gt", "gte"},
     version |-> {"eq", "gte", "lte", "satisfies"},
     date    |-> {"before", "after"}]

\* The padded triple: missing parts are zero, those after the third are ignored.
ParseVersion(v) ==
    [i \in 1..3 |-> IF i <= Len(PartsOf[v]) THEN PartsOf[v][i] ELSE 0]

CompareTuple(a, b) ==
    LET differ == {i \in 1..3 : a[i] # b[i]} IN
    IF differ = {} THEN 0 ELSE IF a[Min(differ)] < b[Min(differ)] THEN -1 ELSE 1

\* cmp is negative, zero or positive.
Compares(op, cmp) ==
    CASE op = "eq" -> cmp = 0
      [] op = "neq" -> cmp # 0
      [] op = "lt" -> cmp < 0
      [] op = "lte" -> cmp <= 0
      [] op = "gt" -> cmp > 0
      [] op = "gte" -> cmp >= 0
      [] OTHER -> FALSE

\* Mutant: a leading zero is not special.
CaretUpperMajor(base) == <<base[1] + 1, 0, 0>>

\* The first version above the caret's range.
CaretUpper(base) ==
    CASE base[1] > 0 -> <<base[1] + 1, 0, 0>>
      [] base[1] = 0 /\ base[2] > 0 -> <<0, base[2] + 1, 0>>
      [] OTHER -> <<0, 0, base[3] + 1>>

InRange(v, op, base) ==
    CASE op = "^" -> CompareTuple(v, base) >= 0 /\ CompareTuple(v, CaretUpper(base)) < 0
      [] op = "~" -> CompareTuple(v, base) >= 0
                     /\ CompareTuple(v, <<base[1], base[2] + 1, 0>>) < 0
      [] op = ">=" -> CompareTuple(v, base) >= 0
      [] op = "<=" -> CompareTuple(v, base) <= 0
      [] op = ">" -> CompareTuple(v, base) > 0
      [] op = "<" -> CompareTuple(v, base) < 0
      [] OTHER -> CompareTuple(v, base) = 0

VersionSatisfies(v, range) ==
    /\ v \in DOMAIN PartsOf
    /\ range \in DOMAIN RangeOf
    /\ RangeOf[range].base \in DOMAIN PartsOf
    /\ InRange(ParseVersion(v), RangeOf[range].op, ParseVersion(RangeOf[range].base))

Test(type, op, v, values) ==
    LET w == Head(values) IN
    CASE type = "boolean" -> op = "is" /\ (v \in Truthy <=> w \in Truthy)
      [] type = "number" ->
            {v, w} \subseteq DOMAIN NumberOf /\ Compares(op, NumberOf[v] - NumberOf[w])
      [] type = "version" ->
            \/ op = "satisfies" /\ VersionSatisfies(v, w)
            \/ /\ op \in {"eq", "gte", "lte"}
               /\ {v, w} \subseteq DOMAIN PartsOf
               /\ Compares(op, CompareTuple(ParseVersion(v), ParseVersion(w)))
      [] type = "date" ->
            /\ {v, w} \subseteq DOMAIN DateOf
            /\ \/ op = "before" /\ DateOf[v] < DateOf[w]
               \/ op = "after" /\ DateOf[v] > DateOf[w]
      [] OTHER ->
            \/ op = "equals" /\ v = w
            \/ op = "in" /\ \E i \in DOMAIN values : values[i] = v
            \/ op = "notIn" /\ \A i \in DOMAIN values : values[i] # v
            \/ op \in DOMAIN TextTest /\ <<v, w>> \in TextTest[op]

\* Mutant: a caller that gives no value is in no list, so it is "not in" it.
MatchesAbsent(c, types, ctx) ==
    IF c.field \in DOMAIN ctx
    THEN c.field \in DOMAIN types /\ Test(types[c.field], c.op, ctx[c.field], c.values)
    ELSE c.op = "notIn"

\* types, ctx: partial functions on FieldKey.  A missing value matches nothing.
Matches(c, types, ctx) ==
    /\ c.field \in DOMAIN ctx
    /\ c.field \in DOMAIN types
    /\ Test(types[c.field], c.op, ctx[c.field], c.values)

\* A strategy is the set of its constraints.
StrategyMatches(strategy, types, ctx) == \A c \in strategy : Matches(c, types, ctx)

EvaluateFlag(enabled, strategies, types, ctx) ==
    /\ enabled
    /\ \/ strategies = <<>>
       \/ \E i \in DOMAIN strategies : StrategyMatches(strategies[i], types, ctx)

\* fields: a partial function from FieldKey to [type, values].
ConstraintError(fields, c) ==
    \/ c.field \notin DOMAIN fields
    \/ c.op \notin OperatorsByType[fields[c.field].type]
    \/ c.op = "regex" /\ Head(c.values) \notin SafePattern
    \/ /\ fields[c.field].type = "enum"
       /\ \E i \in DOMAIN c.values : c.values[i] \notin fields[c.field].values

TypesOf(fields) == [k \in DOMAIN fields |-> fields[k].type]

-----------------------------------------------------------------------------
\* What "^" promises (versionSatisfies): a version in the range is not below the
\* base and agrees with it up to and with its first part that is not zero.
Compatible(v, base) ==
    LET i == IF \E j \in 1..3 : base[j] # 0 THEN Min({j \in 1..3 : base[j] # 0}) ELSE 3
    IN  CompareTuple(v, base) >= 0 /\ \A j \in 1..i : v[j] = base[j]
=============================================================================
