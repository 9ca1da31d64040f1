------------------------------- MODULE Factory -------------------------------
(***************************************************************************)
(* What MCPServerFactory makes of a registry (src/server/factory.rs), as   *)
(* functions of its content.                                               *)
(*                                                                         *)
(* Descriptions, annotations and the filters by tag and prefix are left    *)
(* out.                                                                    *)
(***************************************************************************)
EXTENDS Registry

CONSTANTS Summaries,  \* the three read-only system modules without an argument
          Templates,  \* the three that take a module id
          Reserved,   \* ids with the prefix of the meta-tools
          Unknown     \* read-only system modules this adapter has no resource for

ASSUME FactoryAssumption ==
    /\ Summaries \union Templates \union Reserved \union Unknown \subseteq Modules
    /\ Summaries \intersect Templates = {}
    /\ (Summaries \union Templates) \intersect (Reserved \union Unknown) = {}

-----------------------------------------------------------------------------
(* Tools.                                                                  *)

AllowsObject(s) == s.type = {} \/ "object" \in s.type

\* Mutant: the root is closed to members it does not declare, as strict mode does.
InputSchemaClosed(s) ==
    IF s = Blank THEN ObjectOf(NoMembers, {}) ELSE [s EXCEPT !.type = {"object"}, !.closed = TRUE]

\* The MCP input schema: the module's own, of which only the root is touched.
InputSchema(s) ==
    IF s = Blank THEN ObjectOf(NoMembers, {}) ELSE [s EXCEPT !.type = {"object"}]

\* Mutant: an async module's output schema is advertised too.
AdvertisesOutputOfAll(d) == d.output

\* The acknowledgement of a submitted task is not the module's output.
AdvertisesOutput(d) == d.output /\ ~d.async

\* build_tool: the tool, or none.
BuildTool(m, d, name) ==
    IF m \in Reserved \/ ~AllowsObject(d.input) THEN {}
    ELSE {[name |-> name, module |-> m, input |-> InputSchema(d.input), typed |-> AdvertisesOutput(d)]}

\* Mutant: the modules are told by the prefixes of their families.
IsReadonlySystemByFamily(m) == m \in Summaries \union Templates \union Unknown

IsReadonlySystemResource(m) == m \in Summaries \union Templates

\* build_tools: a reserved id is fatal, a module that cannot be built is skipped.
BuildTools(registry) ==
    LET candidates == {m \in Present(registry) : ~IsReadonlySystemResource(m)}
        Name(m) == IF registry[m].alias = NoAlias THEN m ELSE registry[m].alias
    IN
    [ok |-> candidates \intersect Reserved = {},
     tools |-> UNION {BuildTool(m, registry[m], Name(m)) : m \in candidates \intersect Found(registry)}]

-----------------------------------------------------------------------------
(* Resources.                                                              *)

\* register_resource_handlers: the documents, and the system modules there are.
Resources(registry) ==
    [docs |-> {m \in Found(registry) : registry[m].documented},
     available |-> Present(registry) \intersect (Summaries \union Templates)]

\* read_system_resource: the module a read is dispatched to, if any.
ReadTarget(resources, path, argument) ==
    IF path \in resources.available /\ (path \in Templates => argument # Gone) THEN {path} ELSE {}

=============================================================================
