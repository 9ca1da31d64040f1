------------------------------- MODULE MCServer -------------------------------
(***************************************************************************)
(* The instance of Programs that TLC checks: programs that convert one       *)
(* module's schema, programs over registries with every kind of id, one    *)
(* whose registry changes under a listener, and ones that serve clients    *)
(* while a module is replaced.                                             *)
(***************************************************************************)
EXTENDS Programs, TLC

MCModules == {"m", "n", "summary", "template", "reserved", "unknown", "Misnamed"}
MCThreads == {"t1", "t2"}

-----------------------------------------------------------------------------
(* Schemas, with at most two parameters.                                   *)

Text == Typed({"text"})
NullableText == Typed({"text", "null"})
Marked(s) == [s EXCEPT !.mark = "secret"]
One(s, required) == ObjectOf([a |-> s], required)

Leaves == {Text, NullableText, Typed({"text", "number"}), Blank, Marked(Text),
           [Text EXCEPT !.enum = {"text"}], [Blank EXCEPT !.enum = {"text"}]}
Nested == {One(s, r) : s \in Leaves, r \in {{}, {"a"}}}
Alternatives == {[Blank EXCEPT !.oneOf = <<Text, One(Text, {"a"})>>]}
Overriding == {[Ref("A") EXCEPT !.type = {"text"}], [Ref("A") EXCEPT !.required = {"b"}],
               [One(Text, {}) EXCEPT !.ref = "A"]}
References == {Ref("A"), Marked(Ref("A")), Ref("B"), One(Ref("A"), {"a"})} \union Overriding

Inputs == {ObjectOf([a |-> p, b |-> Text], r) :
              p \in Leaves \union Nested \union Alternatives, r \in SUBSET {"a", "b"}}
          \union {[One(p, {}) EXCEPT !.closed = TRUE] : p \in Leaves}
          \union {One(One(One(p, {"a"}), {"a"}), {"a"}) : p \in {Text, NullableText}}
          \union {Blank, Text, Typed({"object", "null"}), Typed({"object"}),
                  [One(Text, {}) EXCEPT !.type = {}],
                  [One(Text, {}) EXCEPT !.type = {"object", "null"}],
                  ObjectOf([default |-> Text, a |-> Text], {"a"})}

Definitions == {[A |-> s, B |-> t] : s \in {Text, Ref("B"), Marked(Ref("B")), Ref("C"),
                                            ObjectOf([a |-> Ref("B"), b |-> Ref("B")], {"a"}),
                                            [One(Text, {"a"}) EXCEPT !.closed = TRUE]},
                                     t \in {NullableText, Marked(Text), Ref("A"), One(Ref("A"), {})}}

Conversions == {Descriptor(s, NoMembers) : s \in Inputs}
               \union {Descriptor(One(s, {}), d) : s \in References, d \in Definitions}
               \union {Descriptor(s, d) : s \in {Ref("A"), Ref("B"), [One(NullableText, {}) EXCEPT !.ref = "A"]},
                                     d \in Definitions}

\* What a parameter may be given, and objects of up to three parameters.
Given == {Scalar("text"), Scalar("null"), Scalar("number"), Object(NoMembers)}
         \union {Object([n \in {name} |-> Scalar(k)]) : name \in {"a", "b"}, k \in {"text", "null"}}
         \union {Object([a |-> Object([a |-> Scalar("text")])])}
MCObjects == UNION {{Object(f) : f \in [names -> Given]} : names \in SUBSET {"a", "b"}}
             \union {Object([a |-> Scalar("text"), c |-> Scalar("text")])}

-----------------------------------------------------------------------------
(* Programs.                                                               *)

Only(m, d) == [n \in MCModules |-> IF n = m THEN d ELSE Gone]
NoModules == [n \in MCModules |-> Gone]
Still == [t \in MCThreads |-> <<>>]
Idle == [registry |-> NoModules, todo |-> Still, starts |-> 0, exports |-> FALSE, serves |-> FALSE,
         clients |-> {}]

Converting == {[Idle EXCEPT !.registry = Only("m", d), !.exports = TRUE, !.serves = TRUE] :
                  d \in Conversions}

Simple == Descriptor(One(Text, {}), NoMembers)
Typing == [Simple EXCEPT !.output = TRUE]
Hinted == [Typing EXCEPT !.async = TRUE]

Inventories ==
    {[Idle EXCEPT !.registry = [n \in MCModules |-> IF n \in present \union {"m"} THEN Simple ELSE Gone],
                  !.exports = TRUE, !.serves = TRUE] :
        present \in SUBSET {"summary", "template", "reserved", "unknown", "Misnamed"}}
    \union {[Idle EXCEPT !.registry["m"] = [Simple EXCEPT !.alias = "n"], !.registry["n"] = d,
                         !.exports = TRUE, !.serves = TRUE] :
        d \in {Gone, [Simple EXCEPT !.defined = FALSE], [Typing EXCEPT !.documented = TRUE]}}

To(m, becomes) == [module |-> m, becomes |-> becomes]

Watching ==
    {[Idle EXCEPT !.starts = 2,
                  !.todo = [t1 |-> <<To("m", Simple), To("m", Gone), To("m", Typing)>>,
                            t2 |-> <<To("m", Gone), To("m", d)>>]] :
        d \in {Hinted, Descriptor(Text, NoMembers)}}

Replacing ==
    {[Idle EXCEPT !.serves = TRUE, !.clients = Sessions,
                  !.registry = [n \in MCModules |-> IF n = "m" THEN d ELSE IF n = "n" THEN Hinted ELSE Gone],
                  !.todo = [t1 |-> <<To("m", Gone), To("m", e)>>, t2 |-> <<>>]] :
        d \in {Typing}, e \in {Hinted}}

MCDescriptors == Conversions \union {Simple, Typing, Hinted, [Simple EXCEPT !.alias = "n"],
                  [Simple EXCEPT !.defined = FALSE], [Typing EXCEPT !.documented = TRUE],
                  Descriptor(Text, NoMembers)}

Symmetry == Permutations(Sessions)

MCPlans == Converting \union Inventories \union Watching \union Replacing
=============================================================================
