------------------------------- MODULE Schemas -------------------------------
(***************************************************************************)
(* The conversions of JSON schemas: SchemaConverter without its strict     *)
(* option, as the OpenAI export calls it (src/adapters/schema.rs), and     *)
(* that export with its strict mode (src/converters/openai.rs), with the   *)
(* meaning of a schema, the values it accepts, to measure them by.         *)
(***************************************************************************)
EXTENDS Registry, Naturals, Sequences, FiniteSetsExt

CONSTANTS MaxRefDepth,
          Misnamed  \* ids that are not canonical: the export takes none of them

\* Names of parameters that look like an extension or a default.
ExtensionNames == {"default", "x-flag"}

-----------------------------------------------------------------------------
(* What a schema means, all the way down.                                  *)

RECURSIVE Accepts(_, _, _)
Accepts(s, v, defs) == Meets(Accepts, s, v, defs)

\* An object without the null members its schema does not require: what a null
\* stands for where every parameter must be given.
RECURSIVE Pruned(_, _)
Pruned(s, v) ==
    LET kept == {n \in DOMAIN v.of : v.of[n].is # "null" \/ n \in s.required} IN
    IF v.is # "object" THEN v
    ELSE Object([n \in kept |-> IF n \in DOMAIN s.props THEN Pruned(s.props[n], v.of[n]) ELSE v.of[n]])

\* A value that has no member but those its schema declares, at any depth.
RECURSIVE Declares(_, _)
Declares(s, v) ==
    v.is = "object" /\ s.declared =>
        /\ DOMAIN v.of \subseteq DOMAIN s.props
        /\ \A n \in DOMAIN v.of : Declares(s.props[n], v.of[n])

-----------------------------------------------------------------------------
(* inline_refs.                                                            *)

Refused == [ok |-> FALSE, schema |-> Blank]
Done(s) == [ok |-> TRUE, schema |-> s]

\* The JSON levels below a schema that its own keywords take: their values, and
\* the elements of those that are lists.
OwnLevels(s) ==
    IF Cardinality(s.type) > 1 \/ s.required # {} \/ s.enum # {} THEN 2
    ELSE IF [s EXCEPT !.ref = "none"] # Blank THEN 1
    ELSE 0

\* Mutant: what a reference resolves to replaces the keys beside it.
BesideLost(s, target) == target

\* The keys written beside a `$ref` win over those of what it refers to.
Beside(s, target) ==
    [ref |-> "none",
     type |-> IF s.type # {} THEN s.type ELSE target.type,
     declared |-> s.declared \/ target.declared,
     props |-> IF s.declared THEN s.props ELSE target.props,
     required |-> IF s.required # {} THEN s.required ELSE target.required,
     closed |-> s.closed \/ target.closed,
     enum |-> IF s.enum # {} THEN s.enum ELSE target.enum,
     oneOf |-> IF s.oneOf # <<>> THEN s.oneOf ELSE target.oneOf,
     mark |-> IF s.mark # "none" THEN s.mark ELSE target.mark]

\* `seen` holds the references followed on the way down, `level` counts the
\* levels of the document, references and their siblings included.
RECURSIVE InlineRefs(_, _, _, _)
InlineRefs(s, defs, seen, level) ==
    LET props == [n \in DOMAIN s.props |-> InlineRefs(s.props[n], defs, seen, level + 2)]
        parts == [i \in DOMAIN s.oneOf |-> InlineRefs(s.oneOf[i], defs, seen, level + 2)]
        own == [s EXCEPT !.props = [n \in DOMAIN props |-> props[n].schema],
                         !.oneOf = [i \in DOMAIN parts |-> parts[i].schema]]
        target == InlineRefs(defs[s.ref], defs, seen \union {s.ref}, level + 1)
    IN
    IF \/ level + OwnLevels(s) > MaxRefDepth
       \/ \E n \in DOMAIN props : ~props[n].ok
       \/ \E i \in DOMAIN parts : ~parts[i].ok
    THEN Refused
    ELSE IF s.ref = "none" THEN Done(own)
    ELSE IF s.ref \in seen \/ s.ref \notin DOMAIN defs \/ ~target.ok THEN Refused
    ELSE Done(Beside(own, target.schema))

-----------------------------------------------------------------------------
(* convert_schema_with, not strict.                                        *)

\* ensure_object_type: at the root only.
EnsureObjectType(s) ==
    IF s.type = {} \/ (s.declared /\ "object" \notin s.type)
    THEN [s EXCEPT !.type = {"object"}] ELSE s

\* The definitions are written at the root.  Where the root is itself a reference
\* they are walked as a key beside it, used or not, and only then dropped.
DefinitionsWalked(s, defs) ==
    s.ref = "none" \/ \A n \in DOMAIN defs : InlineRefs(defs[n], defs, {}, 2).ok

\* A schema that is null or empty becomes that of an object with no parameters.
ConvertSchema(s, defs) ==
    LET inlined == InlineRefs(s, defs, {}, 0) IN
    IF s = Blank /\ DOMAIN defs = {} THEN Done(ObjectOf(NoMembers, {}))
    ELSE IF inlined.ok /\ DefinitionsWalked(s, defs) THEN Done(EnsureObjectType(inlined.schema))
    ELSE Refused

-----------------------------------------------------------------------------
(* apply_strict_mode.                                                      *)

\* strip_extensions visits every key of the document, names of parameters too.
RECURSIVE StripExtensions(_)
StripExtensions(s) ==
    [s EXCEPT !.mark = "none",
              !.props = [n \in DOMAIN s.props \ ExtensionNames |-> StripExtensions(s.props[n])],
              !.oneOf = [i \in DOMAIN s.oneOf |-> StripExtensions(s.oneOf[i])]]

\* Mutant: a type that is a list already is taken to be nullable.
NullableUnlessList(s) ==
    IF Cardinality(s.type) > 1 THEN s
    ELSE IF s.type # {} THEN [s EXCEPT !.type = @ \union {"null"}]
    ELSE [Blank EXCEPT !.oneOf = <<s, Typed({"null"})>>]

\* make_nullable.
MakeNullable(s) ==
    IF s.type # {} THEN [s EXCEPT !.type = @ \union {"null"}]
    ELSE [Blank EXCEPT !.oneOf = <<s, Typed({"null"})>>]

\* convert_to_strict: an object that declares its parameters is closed, and all
\* of them are required.  An optional object has become nullable by the time it
\* is visited, and is left as it is.
RECURSIVE ConvertToStrict(_)
ConvertToStrict(s) ==
    LET object == s.type = {"object"} /\ s.declared
        props == IF object
                 THEN [n \in DOMAIN s.props |->
                         IF n \in s.required THEN s.props[n] ELSE MakeNullable(s.props[n])]
                 ELSE s.props
    IN
    [s EXCEPT !.closed = object \/ @,
              !.required = IF object THEN DOMAIN s.props ELSE @,
              !.props = [n \in DOMAIN props |-> ConvertToStrict(props[n])],
              !.oneOf = [i \in DOMAIN s.oneOf |-> ConvertToStrict(s.oneOf[i])]]

ApplyStrictMode(s) == ConvertToStrict(StripExtensions(s))

\* The parameters of a function in the export.
Parameters(s, defs, strict) ==
    LET converted == ConvertSchema(s, defs) IN
    IF strict /\ converted.ok THEN Done(ApplyStrictMode(converted.schema)) ELSE converted

\* convert_registry: one module that cannot be converted fails all of it.
Export(registry, strict) ==
    LET params == [m \in Found(registry) |-> Parameters(registry[m].input, registry[m].defs, strict)] IN
    [ok |-> \A m \in DOMAIN params : params[m].ok /\ m \notin Misnamed,
     strict |-> strict,
     parameters |-> [m \in DOMAIN params |-> params[m].schema]]

-----------------------------------------------------------------------------
(* References, seen from outside the algorithm.                            *)

\* The schemas directly inside one.
Inside(s) == {s.props[n] : n \in DOMAIN s.props} \union {s.oneOf[i] : i \in DOMAIN s.oneOf}

\* The references a schema makes.
RECURSIVE Refers(_)
Refers(s) == ({s.ref} \ {"none"}) \union UNION {Refers(inner) : inner \in Inside(s)}

\* The names it depends on after `n` rounds of looking up.
RECURSIVE Reaches(_, _, _)
Reaches(names, defs, n) ==
    IF n = 0 THEN names
    ELSE Reaches(names \union UNION {Refers(defs[m]) : m \in names \intersect DOMAIN defs}, defs, n - 1)

\* Every reference leads somewhere and none leads back to itself.
WellFounded(s, defs) ==
    LET names == Reaches(Refers(s), defs, Cardinality(DOMAIN defs)) IN
    /\ names \subseteq DOMAIN defs
    /\ \A m \in names : m \notin Reaches(Refers(defs[m]), defs, Cardinality(DOMAIN defs))

\* The levels of a well-founded schema with each reference counted as one.
RECURSIVE Levels(_, _)
Levels(s, defs) ==
    Max({OwnLevels(s)}
        \union (IF s.ref = "none" THEN {} ELSE {1 + Levels(defs[s.ref], defs)})
        \union {2 + Levels(inner, defs) : inner \in Inside(s)})

\* A schema, what it refers to, what that refers to, and so on.
RECURSIVE Chain(_, _)
Chain(s, defs) == <<s>> \o (IF s.ref = "none" THEN <<>> ELSE Chain(defs[s.ref], defs))

Writes(s, keyword) == IF keyword = "props" THEN s.declared ELSE s[keyword] # Blank[keyword]

\* The keywords that hold where a schema stands, each from the outermost schema of
\* the chain that writes it.
InForce(s, defs) ==
    LET chain == Chain(s, defs)
        From(keyword) == {i \in DOMAIN chain : Writes(chain[i], keyword)}
    IN [keyword \in DOMAIN Blank |->
          IF keyword = "ref" \/ From(keyword) = {} THEN Blank[keyword]
          ELSE chain[Min(From(keyword))][keyword]]

\* The values accepted under that reading of keys beside a reference.
RECURSIVE Stands(_, _, _)
Stands(s, v, defs) == Meets(Stands, InForce(s, defs), v, defs)

\* Somewhere two schemas of a chain disagree on a keyword that says what is
\* accepted, or one closes the object whose parameters another declares.
RECURSIVE Disagrees(_, _)
Disagrees(s, defs) ==
    LET chain == Chain(s, defs) IN
    \/ \E i, j \in DOMAIN chain :
         \/ \E keyword \in DOMAIN Blank \ {"ref", "mark"} :
              /\ Writes(chain[i], keyword) /\ Writes(chain[j], keyword)
              /\ chain[i][keyword] # chain[j][keyword]
         \/ chain[i].closed /\ chain[j].declared /\ i # j
    \/ \E inner \in Inside(InForce(s, defs)) : Disagrees(inner, defs)

\* The extensions at a schema and at the parameters below it, by path.
RECURSIVE Marks(_, _)
Marks(s, defs) ==
    LET own == InForce(s, defs) IN
    {<<own.mark>>} \union UNION {{<<n>> \o m : m \in Marks(own.props[n], defs)} : n \in DOMAIN own.props}
=============================================================================
