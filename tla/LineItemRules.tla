--------------------------- MODULE LineItemRules ---------------------------
(***************************************************************************)
(* SalesLineItem.validate(): the loop over the personalization rules of a  *)
(* line item's variant, run by every new SalesLineItem(), that is whenever *)
(* an order is placed, loaded or returned.  It has three outcomes, which   *)
(* are the Fits of SalesOrders: no flags, flags, or a TypeError.           *)
(***************************************************************************)
EXTENDS Naturals, Sequences, FiniteSets, SequencesExt

CONSTANTS Names,        \* property names as clients spell them
          Lower(_),     \* toLower of a name or label
          Values,       \* property values
          Length(_),    \* the number of characters of a value
          Patterns,     \* regular expressions of the catalog
          Broken,       \* those RegExp() refuses, a subset of Patterns
          Matches(_, _),\* Matches(p, v): p matches somewhere in v
          MaxLengths,   \* maxLength of a rule, 0 for none
          OptionLists,  \* option lists of a rule as sets, {} for none
          MaxRules, MaxProperties  \* bounds

ASSUME RulesConstants ==
  /\ Broken \subseteq Patterns
  /\ MaxLengths \subseteq Nat
  /\ \A o \in OptionLists : o \subseteq Values
  /\ MaxRules \in Nat /\ MaxProperties \in Nat

Rules == [label : Names, required : BOOLEAN, maxLength : MaxLengths,
          options : OptionLists, pattern : Patterns]
Properties == [name : Names, value : Values]
Reasons == {"MISSING", "INVALID_LENGTH", "INVALID_OPTION", "BAD_CHARACTER"}
Flags == [property : Names, reason : Reasons]

UpTo(S, n) == UNION {[1..k -> S] : k \in 0..n}

VARIABLES rules,            \* the rules of the variant
          personalization,  \* the properties the client gave
          ruleNo,           \* the rule the loop is at
          flags,            \* the flags pushed so far
          verdict           \* "running", then "returned" or "threw"
validateVars == <<rules, personalization, ruleNo, flags, verdict>>

ValidateInit ==
  /\ rules \in UpTo(Rules, MaxRules)
  /\ personalization \in UpTo(Properties, MaxProperties)
  /\ ruleNo = 1 /\ flags = <<>> /\ verdict = "running"

\* Mutant: names are compared as they are spelled.
SameNameExact(p, rule) == p.name = rule.label

SameName(p, rule) == Lower(p.name) = Lower(rule.label)

\* personalization.find(...): the index of the first property, or 0.
Prop(rule) == SelectInSeq(personalization, LAMBDA p : SameName(p, rule))

Flag(rule, reason) == [property |-> rule.label, reason |-> reason]
When(test, flag) == IF test THEN <<flag>> ELSE <<>>

\* A required property that is missing: one flag, and on to the next rule.
FlagMissing ==
  LET rule == rules[ruleNo] IN
  /\ verdict = "running" /\ ruleNo <= Len(rules)
  /\ Prop(rule) = 0 /\ rule.required
  /\ flags' = Append(flags, Flag(rule, "MISSING"))
  /\ ruleNo' = ruleNo + 1
  /\ UNCHANGED <<rules, personalization, verdict>>

\* Mutant: prop?.value, so that a property left out fails its option list.
FlagMissingOption ==
  LET rule == rules[ruleNo] IN
  /\ verdict = "running" /\ ruleNo <= Len(rules)
  /\ Prop(rule) = 0 /\ ~rule.required /\ rule.options # {}
  /\ flags' = Append(flags, Flag(rule, "INVALID_OPTION"))
  /\ ruleNo' = ruleNo + 1
  /\ UNCHANGED <<rules, personalization, verdict>>

\* prop.value on a property that is not there, outside the try block.
ThrowOnMissing ==
  LET rule == rules[ruleNo] IN
  /\ verdict = "running" /\ ruleNo <= Len(rules)
  /\ Prop(rule) = 0 /\ ~rule.required /\ rule.options # {}
  /\ verdict' = "threw"
  /\ UNCHANGED <<rules, personalization, ruleNo, flags>>

\* The same inside the try block: caught, the pattern is not checked.
SkipMissing ==
  LET rule == rules[ruleNo] IN
  /\ verdict = "running" /\ ruleNo <= Len(rules)
  /\ Prop(rule) = 0 /\ ~rule.required /\ rule.options = {}
  /\ ruleNo' = ruleNo + 1
  /\ UNCHANGED <<rules, personalization, flags, verdict>>

\* Length, options and pattern are checked one after the other.
CheckProperty ==
  LET rule == rules[ruleNo]
      v == personalization[Prop(rule)].value
  IN /\ verdict = "running" /\ ruleNo <= Len(rules)
     /\ Prop(rule) # 0
     /\ flags' = flags
          \o When(rule.maxLength > 0 /\ Length(v) > rule.maxLength,
                  Flag(rule, "INVALID_LENGTH"))
          \o When(rule.options # {} /\ v \notin rule.options,
                  Flag(rule, "INVALID_OPTION"))
          \o When(rule.pattern \notin Broken /\ ~Matches(rule.pattern, v),
                  Flag(rule, "BAD_CHARACTER"))
     /\ ruleNo' = ruleNo + 1
     /\ UNCHANGED <<rules, personalization, verdict>>

ReturnFlags ==
  /\ verdict = "running" /\ ruleNo > Len(rules)
  /\ verdict' = "returned"
  /\ UNCHANGED <<rules, personalization, ruleNo, flags>>

ValidateNext == FlagMissing \/ ThrowOnMissing \/ SkipMissing \/ CheckProperty \/ ReturnFlags

ValidateSpec == ValidateInit /\ [][ValidateNext]_validateVars
-----------------------------------------------------------------------------
(* What a rule asks for, said without the loop. *)

Absent(rule) == \A k \in 1..Len(personalization) : Lower(personalization[k].name) # Lower(rule.label)

\* The property a rule judges is the first one of its name.
Judged(rule, k) ==
  /\ Lower(personalization[k].name) = Lower(rule.label)
  /\ \A j \in 1..(k - 1) : Lower(personalization[j].name) # Lower(rule.label)

Fails(rule, value, reason) ==
  \/ reason = "INVALID_LENGTH" /\ 0 < rule.maxLength /\ rule.maxLength < Length(value)
  \/ reason = "INVALID_OPTION" /\ rule.options # {} /\ value \notin rule.options
  \/ reason = "BAD_CHARACTER" /\ rule.pattern \notin Broken /\ ~Matches(rule.pattern, value)

Breaks(rule, reason) ==
  \/ Absent(rule) /\ rule.required /\ reason = "MISSING"
  \/ \E k \in 1..Len(personalization) :
       Judged(rule, k) /\ Fails(rule, personalization[k].value, reason)

Unanswerable(rule) == Absent(rule) /\ ~rule.required /\ rule.options # {}

\* What is wrong under the first n rules: pairs of a rule and a reason, in the order
\* of the rules and, under one rule, in that of the checks.
Checks == <<"MISSING", "INVALID_LENGTH", "INVALID_OPTION", "BAD_CHARACTER">>
Wrongs(n) == {x \in (1..n) \X (1..Len(Checks)) : Breaks(rules[x[1]], Checks[x[2]])}
UpToWrong(S, x) == {y \in S : y[1] < x[1] \/ (y[1] = x[1] /\ y[2] <= x[2])}

\* fs has one flag for each member of S, in this order, and no other.
Lists(fs, S) ==
  /\ Len(fs) = Cardinality(S)
  /\ \A x \in S : fs[Cardinality(UpToWrong(S, x))] = Flag(rules[x[1]], Checks[x[2]])

(* validate() returns, for every rule in the order of the catalog, the flags
   of what the first property of that name breaks, and nothing else; a
   property that is given twice is judged by its first value. *)
FlagsAreWhatIsBroken == verdict = "returned" => Lists(flags, Wrongs(Len(rules)))

(* validate() throws exactly on the optional properties that have an option
   list and were left out; this is what makes an order unplaceable, or an
   edited copy unreadable. *)
ThrowsOnOptionalOptions ==
  /\ verdict = "threw"    => \E n \in 1..Len(rules) : Unanswerable(rules[n])
  /\ verdict = "returned" => \A n \in 1..Len(rules) : ~Unanswerable(rules[n])

(* The invariant of the loop: the flags pushed are those of the rules it has passed,
   none of which it could not answer. *)
Passed ==
  /\ rules \in Seq(Rules) /\ personalization \in Seq(Properties)
  /\ ruleNo \in 1..(Len(rules) + 1)
  /\ flags \in Seq(Flags)
  /\ verdict \in {"running", "returned", "threw"}
  /\ Lists(flags, Wrongs(ruleNo - 1))
  /\ \A n \in 1..(ruleNo - 1) : ~Unanswerable(rules[n])
  /\ verdict = "returned" => ruleNo = Len(rules) + 1
  /\ verdict = "threw" => ruleNo <= Len(rules) /\ Unanswerable(rules[ruleNo])
=============================================================================
