-------------------------- MODULE MCEnvelopeParser --------------------------
(***************************************************************************)
(* The parser of a turn and the tools of its request.                      *)
(*                                                                         *)
(* EnvelopeParser against a parser that sees the whole text at once, over  *)
(* every text of up to MaxText characters of a three-letter alphabet and   *)
(* every way to cut it into increments of one or two.                      *)
(*                                                                         *)
(* ToolOffer over every schema of two parameters for a request with one    *)
(* tool, every pair of a few entries, and every answer.                    *)
(***************************************************************************)
EXTENDS EnvelopeParser, ToolOffer, TLC

CONSTANTS Read, Task, Broken   \* two names of tools, and one that is none

Letters  == {"<", "s", "e"}
StartTag == <<"<", "<", "s">>
EndTag   == <<"<", "e">>
OneBody  == {<<"s">>}

TwoNames == {Read, Task}
TwoKeys  == {"path", "description"}

\* Each type, none, one nobody knows, and a list.
Declarations == {{type} : type \in TypeNames} \union {{}, {"file"}, {"string", "null"}}

Partial(S) == UNION {[D -> S] : D \in SUBSET TwoKeys}

Schemas == [required : SUBSET TwoKeys, properties : Partial(Declarations)]

Bare == [required |-> {}, properties |-> <<>>]

Few == {Bare} \union {[required |-> {"path"}, properties |-> ("path" :> {type})] :
                        type \in {"string", "integer"}}

Entries == [name : {Read, Task, Broken}, schema : Few]

MCRequests == {<<>>} \union {<<entry>> : entry \in [name : {Read}, schema : Schemas]}
                     \union (Entries \X Entries)

MCAnswers == {Null} \union [name : {Read, Task}, args : {Null} \union Partial(ValueKinds)]

\* Bound: the request whose turn is followed letter by letter.  The others
\* get an envelope and nothing around it, which is Judge.
Talking == <<[name |-> Read, schema |-> Bare]>>

TurnInit == OfferInit /\ Init

\* The parser gets to work when the tools have been offered.
TurnNext ==
  \/ pc = "ready" /\ text = <<>> /\ OfferNext /\ UNCHANGED vars
  \/ sent = Talking /\ DOMAIN offer # {} /\ verdict = "none" /\ Next /\ UNCHANGED offerVars

TurnSpec == TurnInit /\ [][TurnNext]_<<vars, offerVars>>
=============================================================================
