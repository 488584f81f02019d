------------------------------- MODULE PolicyIr -------------------------------
(***************************************************************************)
(* The rule programs of the language POLICY_IR_V1: what is refused when a  *)
(* version is compiled, and which effects its rules ask for when an action *)
(* is evaluated with the features that could be resolved.  A value that is *)
(* not there, of a failed feature or an absent path, is no error.          *)
(* A value stands for those of its kind that no condition tells apart; the *)
(* parse of the JSON, its paths and the trace are left out.                *)
(***************************************************************************)
EXTENDS Integers, Sequences, FiniteSets

CONSTANTS
    Features,       \* names of feature providers
    Values,         \* what a provider may answer
    Attributes,     \* of the action: what it says, or Missing
    Nested          \* the conditions of programs, by how deep they nest

\* A number, a text of letters or a list, as none of the others.
Number(n) == [kind |-> "number", of |-> <<n>>, items |-> <<>>]
String(s) == [kind |-> "string", of |-> s, items |-> <<>>]
Array(s) == [kind |-> "array", of |-> <<>>, items |-> s]
Missing == [kind |-> "missing", of |-> <<>>, items |-> <<>>]

Literal(v) == [source |-> "literal", name |-> "", value |-> v]
Feature(f) == [source |-> "feature", name |-> f, value |-> Missing]
Attribute(p) == [source |-> "action", name |-> p, value |-> Missing]

VARIABLES
    program,        \* the rules of a version, in order
    declared,       \* required_features of its manifest
    answered,       \* what the providers answered, or Missing
    compiled,       \* "", "REFUSED" or "RUN"
    applied         \* the rules, by position, whose effects are asked for
irVars == <<program, declared, answered, compiled, applied>>

(* ------------------------------ compilation ---------------------------- *)
Both == {"eq", "not_eq", "greater_than", "greater_than_or_equal", "less_than", "less_than_or_equal", "contains"}
Conditions == UNION {Nested[n] : n \in 1..Len(Nested)}

\* The conditions a condition joins, and the values it reads itself.
Subconditions(c) ==
    IF c.operator \in {"all", "any"} THEN {c.conditions[i] : i \in 1..Len(c.conditions)}
    ELSE IF c.operator = "not" THEN {c.condition} ELSE {}
ReadBy(c) ==
    IF c.operator = "exists" THEN {c.value}
    ELSE IF c.operator \in Both THEN {c.left, c.right} ELSE {}

\* Conditions are parsed from JSON: the parser bounds how deep they nest, knows
\* their operators and sources, and reads literals that are there.
ASSUME ConditionsNest ==
    /\ Nested \in Seq(SUBSET Conditions)
    /\ \A n \in 1..Len(Nested) : \A c \in Nested[n] :
          \A d \in Subconditions(c) : \E m \in 1..n - 1 : d \in Nested[m]
    /\ \A c \in Conditions :
          /\ c.operator \in Both \cup {"literal", "all", "any", "not", "exists"}
          /\ \A v \in ReadBy(c) : /\ v.source \in {"literal", "action", "feature"}
                                  /\ v.source = "literal" => v.value # Missing

\* A condition with everything in it.
Tree[c \in Conditions] == {c} \cup UNION {Tree[d] : d \in Subconditions(c)}
ValueRefs(c) == UNION {ReadBy(d) : d \in Tree[c]}

EffectIds(rule) == {rule.effects[i] : i \in 1..Len(rule.effects)}

\* What compile accepts: rule and effect ids name one thing in a program, and a
\* feature that is read is declared.
ValidProgram(rules, names) ==
    /\ rules # <<>>
    /\ \A i \in DOMAIN rules :
         /\ rules[i].effects # <<>> /\ Cardinality(EffectIds(rules[i])) = Len(rules[i].effects)
         /\ \A j \in 1..i - 1 : rules[j].id # rules[i].id /\ EffectIds(rules[j]) \cap EffectIds(rules[i]) = {}
         /\ \A v \in ValueRefs(rules[i].when) : v.source = "feature" => v.name \in names

(* ------------------------------ evaluation ----------------------------- *)
Resolve(v, answers) ==
    IF v.source = "literal" THEN v.value
    ELSE IF v.source = "action" THEN Attributes[v.name]
    ELSE answers[v.name]

\* Slip: a number that is not there is zero.
CompareFromZero(operator, left, right) ==
    LET Of(v) == IF v.kind = "number" THEN v.of[1] ELSE 0 IN
    CASE operator = "greater_than" -> Of(left) > Of(right)
      [] operator = "greater_than_or_equal" -> Of(left) >= Of(right)
      [] operator = "less_than" -> Of(left) < Of(right)
      [] operator = "less_than_or_equal" -> Of(left) <= Of(right)

CompareNumbers(operator, left, right) ==
    /\ left.kind = "number" /\ right.kind = "number"
    /\ CASE operator = "greater_than" -> left.of[1] > right.of[1]
         [] operator = "greater_than_or_equal" -> left.of[1] >= right.of[1]
         [] operator = "less_than" -> left.of[1] < right.of[1]
         [] operator = "less_than_or_equal" -> left.of[1] <= right.of[1]

Contained(container, value) ==
    \/ /\ container.kind = "string" /\ value.kind = "string"
       /\ \E i \in 0..Len(container.of) - Len(value.of) :
              SubSeq(container.of, i + 1, i + Len(value.of)) = value.of
    \/ /\ container.kind = "array" /\ value # Missing
       /\ \E i \in 1..Len(container.items) : container.items[i] = value

\* What a condition says that joins no others.
Says(c, answers) ==
    CASE c.operator = "literal" -> c.holds
      [] c.operator = "exists" -> Resolve(c.value, answers) # Missing
      [] c.operator = "eq" -> Resolve(c.left, answers) = Resolve(c.right, answers)
      [] c.operator = "not_eq" -> Resolve(c.left, answers) # Resolve(c.right, answers)
      [] c.operator = "contains" -> Contained(Resolve(c.left, answers), Resolve(c.right, answers))
      [] OTHER -> CompareNumbers(c.operator, Resolve(c.left, answers), Resolve(c.right, answers))

EvaluateCondition(c, answers) ==
    LET Holds[d \in Conditions] ==
            CASE d.operator = "all" -> \A e \in Subconditions(d) : Holds[e]
              [] d.operator = "any" -> \E e \in Subconditions(d) : Holds[e]
              [] d.operator = "not" -> ~Holds[d.condition]
              [] OTHER -> Says(d, answers)
    IN  Holds[c]

(* ------------------------------ the states ----------------------------- *)

\* A provider that is not asked for answers nothing.
IrInitWith(programs, manifests) ==
    /\ program \in programs /\ declared \in manifests /\ compiled = "" /\ applied = {}
    /\ answered \in {f \in [Features -> Values \cup {Missing}] : \A x \in Features \ declared : f[x] = Missing}

RefuseProgram ==
    /\ compiled = "" /\ ~ValidProgram(program, declared)
    /\ compiled' = "REFUSED"
    /\ UNCHANGED <<program, declared, answered, applied>>

RunProgram ==
    /\ compiled = "" /\ ValidProgram(program, declared)
    /\ compiled' = "RUN"
    /\ applied' = {i \in DOMAIN program : EvaluateCondition(program[i].when, answered)}
    /\ UNCHANGED <<program, declared, answered>>

IrNext == RefuseProgram \/ RunProgram
IrSpec(programs, manifests) == IrInitWith(programs, manifests) /\ [][IrNext]_irVars

(* ------------------------------ properties ----------------------------- *)
\* A condition that says what must be there: nothing is negated, and no two
\* values are compared that may both be missing.
Positive(c) ==
    \A d \in Tree[c] :
        /\ d.operator \notin {"not", "not_eq"}
        /\ d.operator = "eq" => d.left.source = "literal" \/ d.right.source = "literal"

\* A provider that fails under CONTINUE does not make a rule apply: what a rule
\* without negation asks for, it asks for whatever the missing features would
\* have said.
AbsenceNeverApplies ==
    \A i \in applied : Positive(program[i].when) =>
        \A full \in [Features -> Values] :
            EvaluateCondition(program[i].when,
                [f \in Features |-> IF answered[f] = Missing THEN full[f] ELSE answered[f]])
=============================================================================
