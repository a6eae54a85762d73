--------------------------- MODULE ToolOfferProofs ---------------------------
(***************************************************************************)
(* What is proved of ToolOffer, for every set of names, parameters, tool   *)
(* lists and answers.                                                      *)
(***************************************************************************)
EXTENDS ToolOffer, TLAPS

Listed == sent \in Requests /\ taken \in 0..Len(sent)

\* The kept tools are the first entries of the names that have been looked at.
FirstKept ==
  \A name \in DOMAIN tools :
    /\ name \in Names
    /\ \E i \in 1..taken : /\ sent[i].name = name /\ sent[i].schema = tools[name]
                           /\ \A j \in 1..(i - 1) : sent[j].name # name

NoneMissed == \A i \in 1..taken : sent[i].name \in Names => sent[i].name \in DOMAIN tools

Shown ==
  DOMAIN offer # {} =>
    /\ taken = Len(sent) /\ choice # "none"
    /\ offer = [name \in DOMAIN tools |-> Stripped(tools[name])]

Judged ==
  /\ verdict \in {"none", "call", "text"}
  /\ verdict = "call" => /\ taken = Len(sent) /\ choice # "none"
                         /\ answer \in Answers /\ Valid(answer)
  /\ verdict = "text" => /\ taken = Len(sent)
                         /\ \/ ~ Valid(answer)
                            \/ (DOMAIN tools = {} \/ choice = "none") /\ DOMAIN offer = {}

IInv == Listed /\ FirstKept /\ NoneMissed /\ Shown /\ Judged

-----------------------------------------------------------------------------
LEMMA ListShape ==
  ASSUME Listed
  PROVE  Len(sent) \in Nat /\ DOMAIN sent = 1..Len(sent) /\ taken \in Nat
<1>1. PICK S : sent \in Seq(S)
  BY OfferAssumption DEF Listed
<1>2. Len(sent) \in Nat /\ DOMAIN sent = 1..Len(sent)
  BY <1>1
<1> QED
  BY <1>2 DEF Listed

LEMMA InitHolds == OfferInit => IInv
<1> SUFFICES ASSUME OfferInit PROVE IInv
  OBVIOUS
<1>1. Listed
  <2>1. PICK S : sent \in Seq(S)
    BY OfferAssumption DEF OfferInit
  <2>2. Len(sent) \in Nat
    BY <2>1
  <2> QED
    BY <2>2 DEF OfferInit, Listed
<1>2. DOMAIN tools = {} /\ DOMAIN offer = {}
  BY DEF OfferInit
<1>3. FirstKept /\ NoneMissed
  BY <1>2 DEF OfferInit, FirstKept, NoneMissed
<1> QED
  BY <1>1, <1>2, <1>3 DEF OfferInit, IInv, Shown, Judged

\* Looking at an entry keeps it if its name is new, and not otherwise.
LEMMA NormalizeHolds == IInv /\ Normalize => IInv'
<1> SUFFICES ASSUME IInv, Normalize PROVE IInv'
  OBVIOUS
<1> DEFINE next == taken + 1
           entry == sent[next]
           New == Takes(entry.name) /\ entry.name \notin DOMAIN tools
<1>1. Len(sent) \in Nat /\ DOMAIN sent = 1..Len(sent) /\ taken \in Nat
  BY ListShape DEF IInv
<1>2. taken' = next /\ next \in 1..Len(sent) /\ sent' = sent
  BY <1>1 DEF Normalize
<1>3. tools' = IF New THEN [name \in DOMAIN tools \union {entry.name} |->
                              IF name = entry.name THEN entry.schema ELSE tools[name]]
               ELSE tools
  BY DEF Normalize
<1>4. Listed'
  BY <1>1, <1>2 DEF IInv, Listed
<1>5. NoneMissed'
  <2> SUFFICES ASSUME NEW i \in 1..next, sent[i].name \in Names
               PROVE  sent[i].name \in DOMAIN tools'
    BY <1>2 DEF NoneMissed
  <2>1. DOMAIN tools \subseteq DOMAIN tools'
    BY <1>3
  <2>2. CASE i \in 1..taken
    BY <2>1, <2>2 DEF IInv, NoneMissed
  <2>3. CASE i = next
    BY <1>3, <2>3 DEF Takes
  <2> QED
    BY <1>1, <2>2, <2>3
<1>6. FirstKept'
  <2> SUFFICES ASSUME NEW name \in DOMAIN tools'
               PROVE  /\ name \in Names
                      /\ \E i \in 1..next : /\ sent[i].name = name
                                            /\ sent[i].schema = tools'[name]
                                            /\ \A j \in 1..(i - 1) : sent[j].name # name
    BY <1>2 DEF FirstKept
  <2>1. CASE name \in DOMAIN tools
    <3>1. tools'[name] = tools[name]
      BY <1>3, <2>1
    <3>2. PICK i \in 1..taken : /\ sent[i].name = name /\ sent[i].schema = tools[name]
                                /\ \A j \in 1..(i - 1) : sent[j].name # name
      BY <2>1 DEF IInv, FirstKept
    <3>3. i \in 1..next
      BY <1>1
    <3> QED
      BY <2>1, <3>1, <3>2, <3>3 DEF IInv, FirstKept
  <2>2. CASE name \notin DOMAIN tools
    <3>1. New /\ name = entry.name /\ tools'[name] = entry.schema
      BY <1>3, <2>2
    <3>2. ASSUME NEW j \in 1..(next - 1) PROVE sent[j].name # name
      <4>1. j \in 1..taken
        BY <1>1
      <4>2. name \in Names
        BY <3>1 DEF Takes
      <4> QED
        BY <2>2, <4>1, <4>2 DEF IInv, NoneMissed
    <3>3. next \in 1..next
      BY <1>1
    <3> QED
      BY <3>1, <3>2, <3>3 DEF Takes
  <2> QED
    BY <2>1, <2>2
<1>7. DOMAIN offer = {} /\ verdict = "none"
  <2>1. taken # Len(sent)
    BY <1>1 DEF Normalize
  <2> QED
    BY <2>1 DEF IInv, Shown, Judged
<1>8. Shown' /\ Judged'
  BY <1>7 DEF Normalize, Shown, Judged
<1> QED
  BY <1>4, <1>5, <1>6, <1>8 DEF IInv

LEMMA StepHolds == IInv /\ [OfferNext]_offerVars => IInv'
<1> SUFFICES ASSUME IInv, [OfferNext]_offerVars PROVE IInv'
  OBVIOUS
<1>1. CASE Normalize
  BY <1>1, NormalizeHolds
<1>2. CASE Offer
  <2>1. Listed' /\ FirstKept' /\ NoneMissed'
    BY <1>2 DEF Offer, IInv, Listed, FirstKept, NoneMissed
  <2>2. Shown'
    BY <1>2 DEF Offer, Shown
  <2>3. Judged'
    <3>1. verdict = "text" => ~ Valid(answer)
      BY <1>2 DEF Offer, IInv, Judged
    <3> QED
      BY <1>2, <3>1 DEF Offer, IInv, Judged, Valid
  <2> QED
    BY <2>1, <2>2, <2>3 DEF IInv
<1>3. CASE Judge
  <2>1. Listed' /\ FirstKept' /\ NoneMissed' /\ Shown'
    BY <1>3 DEF Judge, IInv, Listed, FirstKept, NoneMissed, Shown
  <2>2. taken = Len(sent) /\ choice # "none"
    BY <1>3 DEF Judge, IInv, Shown
  <2>3. Valid(answer)' <=> Valid(answer')
    BY <1>3 DEF Judge, Valid
  <2>4. Judged'
    BY <1>3, <2>2, <2>3 DEF Judge, Judged
  <2> QED
    BY <2>1, <2>4 DEF IInv
<1>4. CASE PassThrough
  <2>1. Listed' /\ FirstKept' /\ NoneMissed' /\ Shown'
    BY <1>4 DEF PassThrough, IInv, Listed, FirstKept, NoneMissed, Shown
  <2>2. DOMAIN offer = {}
    <3>1. DOMAIN offer # {} => DOMAIN offer = DOMAIN tools
      BY DEF IInv, Shown
    <3> QED
      BY <1>4, <3>1 DEF PassThrough, IInv, Shown
  <2>3. Judged'
    BY <1>4, <2>2 DEF PassThrough, Judged
  <2> QED
    BY <2>1, <2>3 DEF IInv
<1>5. CASE UNCHANGED offerVars
  BY <1>5 DEF offerVars, IInv, Listed, FirstKept, NoneMissed, Shown, Judged, Valid
<1> QED
  BY <1>1, <1>2, <1>3, <1>4, <1>5 DEF OfferNext

LEMMA Invariant == OfferSpec => []IInv
<1> QED
  BY InitHolds, StepHolds, PTL DEF OfferSpec

-----------------------------------------------------------------------------
\* A name has one declaration, and the request's tools have it.
LEMMA DeclaredKept ==
  ASSUME IInv, taken = Len(sent), NEW name, NEW schema, Declares(name, schema)
  PROVE  name \in DOMAIN tools /\ tools[name] = schema
<1>1. Len(sent) \in Nat /\ DOMAIN sent = 1..Len(sent)
  BY ListShape DEF IInv
<1>2. PICK i \in 1..Len(sent) : /\ name \in Names /\ sent[i].name = name
                                /\ sent[i].schema = schema
                                /\ \A j \in 1..(i - 1) : sent[j].name # name
  BY <1>1 DEF Declares
<1>3. name \in DOMAIN tools
  BY <1>2 DEF IInv, NoneMissed
<1>4. PICK k \in 1..Len(sent) : /\ sent[k].name = name /\ sent[k].schema = tools[name]
                                /\ \A j \in 1..(k - 1) : sent[j].name # name
  BY <1>3 DEF IInv, FirstKept
<1>5. i = k
  <2>1. ~ (i < k)
    BY <1>1, <1>2, <1>4
  <2>2. ~ (k < i)
    BY <1>1, <1>2, <1>4
  <2> QED
    BY <1>1, <2>1, <2>2
<1> QED
  BY <1>2, <1>3, <1>4, <1>5

\* What is kept is declared.
LEMMA KeptDeclared ==
  ASSUME IInv, NEW name \in DOMAIN tools
  PROVE  /\ Declares(name, tools[name])
         /\ tools[name] \in {sent[i].schema : i \in DOMAIN sent}
<1>1. Len(sent) \in Nat /\ DOMAIN sent = 1..Len(sent) /\ taken \in 0..Len(sent)
  BY ListShape DEF IInv, Listed
<1>2. PICK i \in 1..taken : /\ sent[i].name = name /\ sent[i].schema = tools[name]
                            /\ \A j \in 1..(i - 1) : sent[j].name # name
  BY DEF IInv, FirstKept
<1>3. i \in DOMAIN sent
  BY <1>1
<1>4. name \in Names
  BY DEF IInv, FirstKept
<1> QED
  BY <1>2, <1>3, <1>4 DEF Declares

\* The check by type name admits no value JSON Schema does not mean, and turns
\* away none it means but a whole float.
LEMMA MatchSound ==
  ASSUME NEW kind \in ValueKinds, NEW type, MatchesType(kind, type)
  PROVE  kind \in Denotes(type)
BY DEF MatchesType, Denotes, ValueKinds, TypeNames

LEMMA MatchComplete ==
  ASSUME NEW kind, NEW type, kind \in Denotes(type), ~ MatchesType(kind, type)
  PROVE  type = "integer" /\ kind = "whole"
BY DEF MatchesType, Denotes, TypeNames

-----------------------------------------------------------------------------
\* Every reachable state is well formed (normalize_tools,
\* build_tool_instructions, _validate).
THEOREM OfferTypeCorrect == OfferSpec => []OfferTypeOK
<1>1. IInv => OfferTypeOK
  <2> SUFFICES ASSUME IInv PROVE OfferTypeOK
    OBVIOUS
  <2>1. DOMAIN tools \subseteq Names
    BY DEF IInv, FirstKept
  <2>2. DOMAIN offer \in {{}, DOMAIN tools}
    BY DEF IInv, Shown
  <2> QED
    BY <2>1, <2>2 DEF IInv, Listed, Judged, OfferTypeOK
<1> QED
  BY <1>1, Invariant, PTL

\* No call reaches the client but one of a tool it declared, as it declared it
\* first (normalize_tools, _validate, arguments_compatible).
THEOREM CallsFit == OfferSpec => []ReleasedCallsFit
<1>1. IInv => ReleasedCallsFit
  <2> SUFFICES ASSUME IInv, verdict = "call"
               PROVE  /\ choice # "none"
                      /\ \E schema \in {sent[i].schema : i \in DOMAIN sent} :
                           /\ Declares(answer.name, schema)
                           /\ Complete(answer.args, schema)
                           /\ \A key \in Misfits(answer.args, schema) : Union(schema, key)
    BY DEF ReleasedCallsFit
  <2> DEFINE schema == tools[answer.name]
  <2>1. /\ choice # "none" /\ answer \in Answers
        /\ answer.name \in DOMAIN tools
        /\ ArgumentsCompatible(answer.args, schema) /\ IsArguments(answer.args)
    BY OfferAssumption DEF IInv, Judged, Valid
  <2>2. /\ Declares(answer.name, schema)
        /\ schema \in {sent[i].schema : i \in DOMAIN sent}
    BY <2>1, KeptDeclared
  <2>3. Complete(answer.args, schema)
    BY <2>1 DEF ArgumentsCompatible, Complete
  <2>4. ASSUME NEW key \in Misfits(answer.args, schema) PROVE Union(schema, key)
    <3> DEFINE kind == answer.args[key]
               declared == schema.properties[key]
    <3>1. key \in DOMAIN answer.args \intersect DOMAIN schema.properties /\ ~ Meant(kind, declared)
      BY <2>4 DEF Misfits
    <3>2. kind \in ValueKinds
      BY <2>1, <3>1 DEF IsArguments
    <3>3. Fits(kind, declared)
      BY <2>1, <3>1 DEF ArgumentsCompatible
    <3>4. ASSUME NEW type \in declared, declared = {type} PROVE FALSE
      <4>1. MatchesType(kind, type)
        BY <3>3, <3>4 DEF Fits
      <4>2. kind \in Denotes(type)
        BY <3>2, <4>1, MatchSound
      <4> QED
        BY <3>1, <4>2 DEF Meant
    <3> QED
      BY <3>4 DEF Union
  <2> QED
    BY <2>1, <2>2, <2>3, <2>4
<1> QED
  BY <1>1, Invariant, PTL

\* No call that fits the client's declaration is refused, but for a whole
\* number written as a float (arguments_compatible, _value_matches_type).
THEOREM GenuinePass == OfferSpec => []GenuineCallsPass
<1>1. IInv => GenuineCallsPass
  <2> SUFFICES ASSUME IInv, NEW schema, verdict = "text", choice # "none",
                      answer # Null, answer.args # Null,
                      Declares(answer.name, schema), Complete(answer.args, schema),
                      Misfits(answer.args, schema) = {}
               PROVE  \E key \in DOMAIN answer.args \intersect DOMAIN schema.properties :
                        answer.args[key] = "whole" /\ schema.properties[key] = {"integer"}
    BY DEF GenuineCallsPass
  <2>1. taken = Len(sent)
    BY DEF IInv, Judged
  <2>2. answer.name \in DOMAIN tools /\ tools[answer.name] = schema
    BY <2>1, DeclaredKept
  <2>3. ~ ArgumentsCompatible(answer.args, schema)
    BY <2>2 DEF IInv, Judged, Valid
  <2>4. PICK key \in DOMAIN answer.args \intersect DOMAIN schema.properties :
          ~ Fits(answer.args[key], schema.properties[key])
    BY <2>3 DEF ArgumentsCompatible, Complete
  <2> DEFINE kind == answer.args[key]
             declared == schema.properties[key]
  <2>5. PICK type \in declared : declared = {type} /\ ~ MatchesType(kind, type)
    BY <2>4 DEF Fits
  <2>6. Meant(kind, declared)
    BY <2>4 DEF Misfits
  <2>7. kind \in Denotes(type)
    BY <2>5, <2>6 DEF Meant
  <2>8. type = "integer" /\ kind = "whole"
    BY <2>5, <2>7, MatchComplete
  <2> QED
    BY <2>4, <2>5, <2>8
<1> QED
  BY <1>1, Invariant, PTL

\* A model that follows the instruction block is refused for the hidden type of
\* a parameter called description and for nothing else
\* (_strip_schema_descriptions).
THEOREM OfferExplainsRefusals == OfferSpec => []RefusalsExplained
<1>1. IInv => RefusalsExplained
  <2> SUFFICES ASSUME IInv, verdict = "text", FollowsOffer
               PROVE  LET schema == tools[answer.name]
                      IN  /\ Prose \in DOMAIN answer.args \intersect DOMAIN schema.properties
                          /\ ~ Fits(answer.args[Prose], schema.properties[Prose])
    BY DEF RefusalsExplained
  <2> DEFINE schema == tools[answer.name]
             shown == Stripped(schema)
  <2>1. /\ answer # Null /\ answer.args # Null /\ answer.name \in DOMAIN offer
        /\ ArgumentsCompatible(answer.args, offer[answer.name])
    BY DEF FollowsOffer
  <2>2. offer = [name \in DOMAIN tools |-> Stripped(tools[name])]
    BY <2>1 DEF IInv, Shown
  <2>3. answer.name \in DOMAIN tools /\ offer[answer.name] = shown
    BY <2>1, <2>2
  <2>4. ~ ArgumentsCompatible(answer.args, schema)
    BY <2>1, <2>3 DEF IInv, Judged, Valid
  <2>5. /\ shown.required = schema.required
        /\ shown.properties = [key \in DOMAIN schema.properties \ {Prose} |->
                                 schema.properties[key]]
    BY DEF Stripped
  <2>6. PICK key \in DOMAIN answer.args \intersect DOMAIN schema.properties :
          ~ Fits(answer.args[key], schema.properties[key])
    BY <2>1, <2>3, <2>4, <2>5 DEF ArgumentsCompatible
  <2>7. key = Prose
    <3>1. SUFFICES ASSUME key # Prose PROVE FALSE
      OBVIOUS
    <3>2. key \in DOMAIN shown.properties /\ shown.properties[key] = schema.properties[key]
      BY <2>5, <2>6, <3>1
    <3> QED
      BY <2>1, <2>3, <2>6, <3>2 DEF ArgumentsCompatible
  <2> QED
    BY <2>6, <2>7
<1> QED
  BY <1>1, Invariant, PTL
=============================================================================
