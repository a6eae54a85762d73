------------------------------ MODULE ToolOffer ------------------------------
(***************************************************************************)
(* The tools of one request: how app/tools.py reduces what the client      *)
(* declares, what of it the prompt shows the model, and how                *)
(* app/tool_envelope.py judges the call the model asks for.                *)
(* EnvelopeParser says where in the text an envelope is; this module says  *)
(* which bodies are valid.                                                 *)
(*                                                                         *)
(* A value is its JSON kind, since the check looks no deeper; "whole" is a *)
(* float without a fraction, as in 2.0.  The declared type of a property   *)
(* is a set of type names: one for a string, several for a list, none when *)
(* nothing usable is declared.  A tool without a schema is one whose       *)
(* schema asks for nothing.                                                *)
(***************************************************************************)
EXTENDS Absent, Naturals, Sequences

CONSTANTS
  Names,      \* what the name pattern takes
  Keys,       \* names of parameters
  Prose,      \* the one that is spelled like the annotation: description
  Requests,   \* the tool lists clients send
  Answers     \* the envelope bodies the model may write

TypeNames  == {"string", "integer", "number", "boolean", "array", "object", "null"}
ValueKinds == (TypeNames \ {"number"}) \union {"float", "whole"}

IsSchema(s) == s.required \subseteq Keys /\ DOMAIN s.properties \subseteq Keys

IsArguments(args) == DOMAIN args \subseteq Keys /\ \A key \in DOMAIN args : args[key] \in ValueKinds

ASSUME OfferAssumption ==
  /\ Prose \in Keys
  /\ \A sent \in Requests :
       sent \in Seq({sent[i] : i \in DOMAIN sent}) /\ \A i \in DOMAIN sent : IsSchema(sent[i].schema)
  /\ \A body \in Answers : body = Null \/ body.args = Null \/ IsArguments(body.args)

VARIABLES
  sent,     \* the request's tools
  choice,   \* its tool_choice; any but "none" leaves the tools on
  taken,    \* how many of the tools have been looked at
  tools,    \* those that were kept: from name to schema
  offer,    \* what the prompt shows of them
  answer,   \* what the model wrote between the sentinels
  verdict   \* "none" yet, "call" or "text"

offerVars == <<sent, choice, taken, tools, offer, answer, verdict>>

-----------------------------------------------------------------------------
\* Mutant: an entry that names no tool is kept.
TakesAny(name) == TRUE

\* _TOOL_NAME_PATTERN, and the shape of an entry that can have a name at all.
Takes(name) == name \in Names

\* Mutant: in Python a boolean is an integer.
MatchesInstance(kind, type) ==
  \/ kind = type
  \/ type = "number" /\ kind \in {"integer", "float", "whole", "boolean"}
  \/ type = "integer" /\ kind = "boolean"
  \/ type \notin TypeNames

\* _value_matches_type
MatchesType(kind, type) ==
  \/ kind = type
  \/ type = "number" /\ kind \in {"integer", "float", "whole"}
  \/ type \notin TypeNames

\* Mutant: a list of types asks for all of them.
FitsEvery(kind, declared) == \A type \in declared : MatchesType(kind, type)

\* Only a type that is a string is looked at.
Fits(kind, declared) == \A type \in declared : declared = {type} => MatchesType(kind, type)

ArgumentsCompatible(args, schema) ==
  /\ schema.required \subseteq DOMAIN args
  /\ \A key \in DOMAIN args \intersect DOMAIN schema.properties :
       Fits(args[key], schema.properties[key])

\* Mutant: the list of required parameters goes with the prose.
StrippedBare(schema) ==
  [required   |-> {},
   properties |-> [key \in DOMAIN schema.properties \ {Prose} |-> schema.properties[key]]]

\* _strip_schema_descriptions: every member of that name goes, at every depth,
\* and with the annotations a parameter that has the name.
Stripped(schema) ==
  [required   |-> schema.required,
   properties |-> [key \in DOMAIN schema.properties \ {Prose} |-> schema.properties[key]]]

\* _validate, for a body that is a JSON object or is not (Null), and arguments
\* that normalize to an object or do not (Null).
Valid(body) ==
  /\ body # Null
  /\ body.name \in DOMAIN tools
  /\ body.args # Null
  /\ ArgumentsCompatible(body.args, tools[body.name])

-----------------------------------------------------------------------------
OfferInit ==
  /\ sent \in Requests
  /\ choice \in {"auto", "none"}
  /\ taken = 0
  /\ tools = <<>>
  /\ offer = <<>>
  /\ answer = Null
  /\ verdict = "none"

\* normalize_tools, one entry: what has no proper name or a name that was
\* seen is skipped.
Normalize ==
  /\ taken < Len(sent)
  /\ LET entry == sent[taken + 1]
     IN  tools' = IF Takes(entry.name) /\ entry.name \notin DOMAIN tools
                  THEN [name \in DOMAIN tools \union {entry.name} |->
                          IF name = entry.name THEN entry.schema ELSE tools[name]]
                  ELSE tools
  /\ taken' = taken + 1
  /\ UNCHANGED <<sent, choice, offer, answer, verdict>>

\* build_tool_instructions, unless tools are off.
Offer ==
  /\ taken = Len(sent) /\ DOMAIN offer = {}
  /\ DOMAIN tools # {} /\ choice # "none"
  /\ offer' = [name \in DOMAIN tools |-> Stripped(tools[name])]
  /\ UNCHANGED <<sent, choice, taken, tools, answer, verdict>>

\* The model writes an envelope and the parser of this request judges it.
Judge ==
  /\ DOMAIN offer # {} /\ verdict = "none"
  /\ answer' \in Answers
  /\ verdict' = IF Valid(answer') THEN "call" ELSE "text"
  /\ UNCHANGED <<sent, choice, taken, tools, offer>>

\* Without tools there is no parser, and every text passes as it is.
PassThrough ==
  /\ taken = Len(sent) /\ verdict = "none"
  /\ DOMAIN tools = {} \/ choice = "none"
  /\ answer' \in Answers
  /\ verdict' = "text"
  /\ UNCHANGED <<sent, choice, taken, tools, offer>>

OfferNext == Normalize \/ Offer \/ Judge \/ PassThrough

OfferSpec == OfferInit /\ [][OfferNext]_offerVars

-----------------------------------------------------------------------------
(* What a tool list means to the client: the first entry of a name counts, *)
(* and a type is a set of values as JSON Schema has it.                    *)

Declares(name, schema) ==
  \E i \in DOMAIN sent : /\ name \in Names /\ sent[i].name = name /\ sent[i].schema = schema
                         /\ \A j \in 1..(i - 1) : sent[j].name # name

Denotes(type) ==
  CASE type = "integer" -> {"integer", "whole"}
    [] type = "number"  -> {"integer", "float", "whole"}
    [] type \in TypeNames \ {"integer", "number"} -> {type}
    [] OTHER -> ValueKinds

Meant(kind, declared) == declared = {} \/ \E type \in declared : kind \in Denotes(type)

Misfits(args, schema) ==
  {key \in DOMAIN args \intersect DOMAIN schema.properties :
     ~ Meant(args[key], schema.properties[key])}

Complete(args, schema) == schema.required \subseteq DOMAIN args

Union(schema, key) == \A type \in schema.properties[key] : schema.properties[key] # {type}

\* The normalised tools are among the declared names, an offer is made of
\* exactly them, and there is a verdict only when the tools have been read.
OfferTypeOK ==
  /\ taken \in 0..Len(sent)
  /\ DOMAIN tools \subseteq Names
  /\ DOMAIN offer \in {{}, DOMAIN tools}
  /\ verdict \in {"none", "call", "text"}
  /\ verdict # "none" => taken = Len(sent)

\* A call the client is given is one of its own tools, as it declared it first
\* (normalize_tools: first wins), with every required argument, and no value
\* of it is of another type than the one its parameter has
\* (arguments_compatible; lists of types are not looked at).
ReleasedCallsFit ==
  verdict = "call" =>
    /\ choice # "none"
    /\ \E schema \in {sent[i].schema : i \in DOMAIN sent} :
         /\ Declares(answer.name, schema)
         /\ Complete(answer.args, schema)
         /\ \A key \in Misfits(answer.args, schema) : Union(schema, key)

\* "A false rejection here loses a genuine tool call": what is refused although
\* it fits the client's declaration has a whole number written as a float where
\* an integer is declared, and nothing else is ever refused so.
GenuineCallsPass ==
  \A schema \in {sent[i].schema : i \in DOMAIN sent} :
    /\ verdict = "text" /\ choice # "none" /\ answer # Null
    /\ answer.args # Null
    /\ Declares(answer.name, schema)
    /\ Complete(answer.args, schema) /\ Misfits(answer.args, schema) = {}
    => \E key \in DOMAIN answer.args \intersect DOMAIN schema.properties :
         answer.args[key] = "whole" /\ schema.properties[key] = {"integer"}

\* The answer has a tool of the instruction block and arguments that pass the
\* check against the parameters as the block shows them.
FollowsOffer ==
  /\ answer # Null /\ answer.args # Null
  /\ answer.name \in DOMAIN offer
  /\ ArgumentsCompatible(answer.args, offer[answer.name])

\* tools.py 297-299 says that the block keeps "every validation-relevant
\* member" and "only loses prose".  It loses one thing more: a model that does
\* what the block says is refused only if its tool has a parameter
\* called description, whose type the block does not show, and the value it
\* gives is of another one.
RefusalsExplained ==
  verdict = "text" /\ FollowsOffer =>
    LET schema == tools[answer.name]
    IN  /\ Prose \in DOMAIN answer.args \intersect DOMAIN schema.properties
        /\ ~ Fits(answer.args[Prose], schema.properties[Prose])
=============================================================================
