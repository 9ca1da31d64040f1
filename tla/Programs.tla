------------------------------- MODULE Programs -------------------------------
(***************************************************************************)
(* The programs of Server that may also export their registry for OpenAI   *)
(* (src/apcore_mcp.rs, src/converters/openai.rs), with the properties that *)
(* speak of what schemas mean.  Fits of Server is given the meaning        *)
(* Accepts, and Resolves the test WellFounded.                             *)
(***************************************************************************)
EXTENDS Server, Schemas

VARIABLE exported  \* the export the last step made, or NoExport

NoExport == [ok |-> FALSE, strict |-> FALSE, parameters |-> NoMembers]

ProgramInit == Init /\ exported = NoExport

ConvertRegistry(strict) ==
    /\ plan.exports
    /\ exported' = Export(registry, strict)
    /\ UNCHANGED vars

ProgramNext ==
    \/ Next /\ exported' = NoExport
    \/ \E strict \in BOOLEAN : ConvertRegistry(strict)

ProgramSpec == ProgramInit /\ [][ProgramNext]_<<vars, exported>>

-----------------------------------------------------------------------------
\* What strict mode cannot express, an optional parameter to be left out that
\* has no type and takes null as it is, or an enumeration without null, or a
\* parameter whose name it strips.
RECURSIVE Inexpressible(_)
Inexpressible(s) ==
    \/ \E n \in DOMAIN s.props \ s.required :
         \/ s.props[n].type # {} /\ s.props[n].enum # {} /\ "null" \notin s.props[n].enum
         \/ s.props[n].type = {} /\ Accepts(s.props[n], Scalar("null"), NoMembers)
    \/ DOMAIN s.props \intersect ExtensionNames # {}
    \/ \E inner \in Inside(s) : Inexpressible(inner)

\* Under a strict export the same calls can be made as without: the objects it
\* accepts are, with a null for what is left out, those of declared parameters
\* that the module's own schema accepts.
StrictExportIsFaithful ==
    exported.strict /\ exported.ok => \A m \in DOMAIN exported.parameters :
        LET own == ConvertSchema(registry[m].input, registry[m].defs).schema
            Callable(s) == {Pruned(own, v) : v \in {w \in Objects : Declares(own, w) /\ Accepts(s, w, NoMembers)}}
        IN own.declared /\ ~Inexpressible(own) => Callable(exported.parameters[m]) = Callable(own)

\* A schema whose references all lead somewhere, in a document that is not too
\* deep, `above` levels included.
Resolvable(s, defs, above) == WellFounded(s, defs) /\ above + Levels(s, defs) <= MaxRefDepth

\* The export resolves references the way they are meant: it fails for no other
\* reason than an id that is not canonical, a reference that leads nowhere or to
\* itself, or a document that is too deep, and for such a one among definitions
\* that are not used only beside a reference at the root; otherwise what it
\* writes has no references, and both the values it accepts and the extension at
\* each parameter follow the rule that keys beside a reference win over those it
\* leads to.  Where none of them disagree, that is what the schema says itself.
InlineIsUnfolding ==
    exported # NoExport /\ ~exported.strict =>
        /\ exported.ok <=>
             \A m \in Found(registry) :
                LET d == registry[m] IN
                /\ m \notin Misnamed
                /\ Resolvable(d.input, d.defs, 0)
                /\ d.input.ref # "none" => \A n \in DOMAIN d.defs : Resolvable(d.defs[n], d.defs, 2)
        /\ exported.ok => \A m \in Found(registry) :
             LET d == registry[m]
                 p == exported.parameters[m] IN
             /\ Refers(p) = {}
             /\ Marks(p, NoMembers) = Marks(d.input, d.defs)
             /\ AllowsObject(d.input) => \A v \in Objects :
                  /\ Accepts(p, v, NoMembers) <=> Stands(d.input, v, d.defs)
                  /\ Disagrees(d.input, d.defs)
                     \/ (Accepts(p, v, NoMembers) <=> Accepts(d.input, v, d.defs))
=============================================================================
