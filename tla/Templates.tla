------------------------------ MODULE Templates ------------------------------
(***************************************************************************)
(* Templates (services/template.go, handlers/templates.go,                 *)
(* store/templates.go): a template is stored with the variables it          *)
(* requires, edited, and rendered by later sends.  Of a text only the names *)
(* of its placeholders are kept.                                            *)
(***************************************************************************)
EXTENDS Integers, FiniteSets

CONSTANTS
    Names,      \* variables
    Channels,   \* channels, each with a body of its own
    NoTemplate

Texts == SUBSET Names

VARIABLES
    template, \* the row: subject, bodies, channels, required variables
    derived,  \* history: its variables were taken from its texts
    sent      \* history: what sends left blank, and whether the variables were derived

templateVars == <<template, derived, sent>>

TemplatesInit == template = NoTemplate /\ derived = FALSE /\ sent = {}

(* Mutant of ExtractVariables: the subject is not read.                     *)
ExtractFromBodies(subject, bodies) == UNION {bodies[c] : c \in Channels}
ExtractVariables(subject, bodies) == subject \cup UNION {bodies[c] : c \in Channels}

(* toModel: a request that lists no variables gets those of its texts.      *)
toModel(subject, bodies, channels, listed) ==
    [subject |-> subject, bodies |-> bodies, channels |-> channels,
     required |-> IF listed = {} THEN ExtractVariables(subject, bodies) ELSE listed]

Store(t, listed) == template' = t /\ derived' = (listed = {}) /\ UNCHANGED sent

(* Creation insists on channels; an update replaces the row, and does not.  *)
CreateTemplate(t, listed) == template = NoTemplate /\ t.channels # {} /\ Store(t, listed)
UpdateTemplate(t, listed) == template # NoTemplate /\ Store(t, listed)
DeleteTemplate ==
    /\ template # NoTemplate /\ template' = NoTemplate
    /\ UNCHANGED <<derived, sent>>

validateVars(given) == template.required \subseteq given

(* The placeholders of a text that become empty.                            *)
substitute(text, given) == text \ given

(* Those of the subject, and of the bodies of the template's own channels;  *)
(* another channel that is asked for gets an empty body.                    *)
Render(given, wanted) ==
    substitute(template.subject, given) \cup
    UNION {substitute(template.bodies[c], given) : c \in wanted \cap template.channels}

(* Send with a template: it is read once; the channels default to its own.  *)
SendTemplate(given, asked) ==
    LET wanted == IF asked = {} THEN template.channels ELSE asked IN
    /\ template # NoTemplate /\ validateVars(given)
    /\ sent' = sent \cup {[blank |-> Render(given, wanted), derived |-> derived]}
    /\ UNCHANGED <<template, derived>>

TemplatesNext ==
    \/ \E subject, listed \in Texts, bodies \in [Channels -> Texts], channels \in SUBSET Channels :
         LET t == toModel(subject, bodies, channels, listed) IN
         CreateTemplate(t, listed) \/ UpdateTemplate(t, listed)
    \/ DeleteTemplate
    \/ \E given \in Texts, asked \in SUBSET Channels : SendTemplate(given, asked)

TemplatesSpec == TemplatesInit /\ [][TemplatesNext]_templateVars

-----------------------------------------------------------------------------
(* Through every edit, a send of a template whose variables were derived    *)
(* from its texts is refused or leaves no placeholder blank, in the subject *)
(* and in every channel.                                                    *)
NoPlaceholderIsBlank == \A s \in sent : s.derived => s.blank = {}
=============================================================================
