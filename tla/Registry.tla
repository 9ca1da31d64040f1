------------------------------- MODULE Registry -------------------------------
(***************************************************************************)
(* An apcore registry of modules as this adapter reads it: a map from each *)
(* module id to its descriptor or to Gone.  The schema in a descriptor is  *)
(* a record of the keywords that the adapter looks at; a keyword that is   *)
(* absent has its value in Blank.  A `type` of several kinds is written as *)
(* a list, one of a single kind as a string.  `enum` lists one constant of *)
(* each of its kinds.  `mark` is an `x-` extension.                        *)
(***************************************************************************)
EXTENDS FiniteSets

CONSTANTS Modules,      \* module ids
          Descriptors,  \* what may be registered
          Gone,
          NoAlias

ASSUME RegistryAssumption == Gone \notin Modules /\ Gone \notin Descriptors

NoMembers == [n \in {} |-> {}]

Blank == [ref |-> "none", type |-> {}, declared |-> FALSE, props |-> NoMembers,
          required |-> {}, closed |-> FALSE, enum |-> {}, oneOf |-> <<>>, mark |-> "none"]

\* A record of the keywords.
IsSchema(s) == DOMAIN s = DOMAIN Blank /\ s = [keyword \in DOMAIN Blank |-> s[keyword]]

ASSUME SchemaAssumption == \A d \in Descriptors : IsSchema(d.input)

Typed(kinds) == [Blank EXCEPT !.type = kinds]
Ref(name) == [Blank EXCEPT !.ref = name]
ObjectOf(props, required) ==
    [Typed({"object"}) EXCEPT !.declared = TRUE, !.props = props, !.required = required]

\* A descriptor: `output` says whether its output schema is that of an object,
\* `async` whether it is hinted to run as a task, `defined` whether the registry
\* finds it at all for an id that it lists.
Descriptor(input, defs) ==
    [input |-> input, defs |-> defs, output |-> FALSE, async |-> FALSE, alias |-> NoAlias,
     documented |-> FALSE, defined |-> TRUE]

-----------------------------------------------------------------------------
(* What a schema means: the values it accepts.  A value is a kind and, for *)
(* an object, its members.                                                 *)

Scalar(kind) == [is |-> kind, of |-> NoMembers]
Object(members) == [is |-> "object", of |-> members]

\* The keywords of one schema, where Fits says which values the schemas it refers
\* to or contains accept.
Meets(Fits(_, _, _), s, v, defs) ==
    /\ s.ref = "none" \/ Fits(defs[s.ref], v, defs)
    /\ s.type = {} \/ v.is \in s.type
    /\ s.enum = {} \/ v.is \in s.enum
    /\ v.is = "object" =>
         /\ s.required \subseteq DOMAIN v.of
         /\ s.closed => DOMAIN v.of \subseteq DOMAIN s.props
         /\ \A n \in DOMAIN v.of \intersect DOMAIN s.props : Fits(s.props[n], v.of[n], defs)
    /\ s.oneOf = <<>> \/ Cardinality({i \in DOMAIN s.oneOf : Fits(s.oneOf[i], v, defs)}) = 1

-----------------------------------------------------------------------------
Present(registry) == {m \in Modules : registry[m] # Gone}
Found(registry) == {m \in Present(registry) : registry[m].defined}
=============================================================================
