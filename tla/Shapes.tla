------------------------------ MODULE Shapes ------------------------------
(***************************************************************************)
(* What Runlace makes of a JSON Schema.  Five readers walk the same schema, *)
(* each on its own: jsonschema_py renders the type a stub promises, keys    *)
(* renames the keys of a value as that stub spells them, validation turns   *)
(* the schema into the annotation inputs and outputs are checked with,      *)
(* simulate invents the result of a side effect a dry run does not perform, *)
(* and journal cuts a result down for whoever looks at a step.              *)
(*                                                                          *)
(* A schema is a record of the keywords it has; `types` is a `type` that is *)
(* a list, `tuple` an `items` that is a list, anyOf stands for oneOf too.   *)
(* A value is a record tagged with its JSON type.                           *)
(***************************************************************************)
EXTENDS Integers, Sequences, FiniteSets, TLC

CONSTANTS Stem,         \* a name that ends in an underscore -> the rest of it
          Words,        \* property names that are Python words
          Unspellable,  \* property names that are no identifiers
          Long,         \* the strings longer than MAX_STRING -> what is kept
          MaxDepth,     \* MAX_DEPTH of jsonschema_py and of validation
          StandInDepth, \* MAX_DEPTH of simulate
          MaxItems      \* MAX_ITEMS of journal

Has(s, keyword) == keyword \in DOMAIN s

-----------------------------------------------------------------------------
(* naming *)

\* param_name, of a key that can be spelled.
ParamName(key) ==
    IF key \in Words THEN CHOOSE name \in DOMAIN Stem : Stem[name] = key ELSE key

\* unmap_param_name.
Unmap(name, keys) ==
    IF name \notin keys /\ name \in DOMAIN Stem /\ Stem[name] \in keys
    THEN Stem[name] ELSE name

-----------------------------------------------------------------------------
(* The keyword that decides, in the order _render, _walk and _annotation     *)
(* ask for them.                                                             *)

Order == <<"ref", "const", "enum", "anyOf", "allOf", "types", "array", "object">>

Decides(s, form) ==
    CASE form \in {"ref", "const", "types"} -> Has(s, form)
      [] form \in {"enum", "anyOf"} -> Has(s, form) /\ s[form] # <<>>
      [] form = "allOf" -> Has(s, "allOf") /\ Len(s.allOf) = 1
      [] form = "array" -> Has(s, "type") /\ s.type = "array"
      [] form = "object" -> IF Has(s, "type") THEN s.type = "object"
                            ELSE Has(s, "properties")

Form(s) ==
    LET deciding == {i \in DOMAIN Order : Decides(s, Order[i])}
    IN  IF deciding = {} THEN "plain"
        ELSE Order[CHOOSE i \in deciding : \A j \in deciding : i <= j]

\* defs_of: the definitions visible from s, the innermost winning.
DefsOf(s, outer) ==
    LET local == IF Has(s, "defs") THEN s.defs ELSE <<>>
        older == IF Has(s, "definitions") THEN s.definitions ELSE <<>>
    IN  older @@ local @@ outer

\* {**schema, "type": t}
As(s, t) == [k \in (DOMAIN s \ {"types"}) \cup {"type"} |-> IF k = "type" THEN t ELSE s[k]]

\* The branches of a union: those it lists, or one for each of its types.
Branches(s) ==
    IF Form(s) = "anyOf" THEN s.anyOf ELSE [i \in DOMAIN s.types |-> As(s, s.types[i])]

\* The declared properties, none when there is no such keyword.
Properties(s) == IF Has(s, "properties") THEN s.properties ELSE <<>>


\* `required`, of which only declared properties are taken notice of.
Required(s) == IF Has(s, "required") THEN s.required \cap DOMAIN Properties(s) ELSE {}

\* One key that is no identifier leaves a whole shape untyped.
Spellable(s) == DOMAIN Properties(s) \cap Unspellable = {}

-----------------------------------------------------------------------------
(* keys: a value, and the schema it goes with                                *)

WithItems(v, items) == [v EXCEPT !.items = items]
WithMembers(v, of) == [v EXCEPT !.of = of]

RECURSIVE Walk(_, _, _, _, _, _), WalkEach(_, _, _, _, _, _), WalkObject(_, _, _, _, _, _)


\* _apply_each: through every branch of a union, one after the other.
WalkEach(v, branches, defs, depth, limit, toPython) ==
    IF branches = <<>> THEN v
    ELSE WalkEach(Walk(v, Head(branches), defs, depth, limit, toPython),
                  Tail(branches), defs, depth, limit, toPython)

\* One level of _walk_object: the new name of a key, and the schema under it.
NewKey(key, properties, toPython) ==
    IF ~toPython THEN Unmap(key, DOMAIN properties)
    ELSE IF key \in DOMAIN properties THEN ParamName(key) ELSE key

Under(key, properties, toPython) ==
    LET json == IF toPython THEN key ELSE Unmap(key, DOMAIN properties)
    IN  IF json \in DOMAIN properties THEN properties[json] ELSE [title |-> "nothing"]

\* _walk_object.  Two keys that get one name leave one value, here either.
WalkObject(v, s, defs, depth, limit, toPython) ==
    LET Below(w, t) == Walk(w, t, defs, depth + 1, limit, toPython)
        properties == Properties(s)
        names == {NewKey(k, properties, toPython) : k \in DOMAIN v.of}
        From(name) == CHOOSE k \in DOMAIN v.of : NewKey(k, properties, toPython) = name
    IN  IF v.is # "object" THEN v
        ELSE IF DOMAIN properties = {}
        THEN IF Has(s, "additional")
             THEN WithMembers(v, [k \in DOMAIN v.of |-> Below(v.of[k], s.additional)])
             ELSE v
        ELSE IF ~Spellable(s) THEN v
        ELSE WithMembers(v, [name \in names |->
                 Below(v.of[From(name)], Under(From(name), properties, toPython))])

\* _walk.
Walk(v, s, outer, depth, limit, toPython) ==
    LET defs == DefsOf(s, outer)
        Below(w, t) == Walk(w, t, defs, depth + 1, limit, toPython)
        form == Form(s)
    IN  IF depth > limit THEN v
        ELSE CASE form = "ref" -> IF s.ref.name \in DOMAIN defs
                                  THEN Below(v, defs[s.ref.name]) ELSE v
               [] form \in {"anyOf", "types"} ->
                      WalkEach(v, Branches(s), defs, depth + 1, limit, toPython)
               [] form = "allOf" -> Below(v, s.allOf[1])
               [] form = "array" ->
                      IF v.is # "array" \/ Has(s, "tuple") \/ ~Has(s, "items") THEN v
                      ELSE WithItems(v, [i \in DOMAIN v.items |-> Below(v.items[i], s.items)])
               [] form = "object" -> WalkObject(v, s, defs, depth, limit, toPython)
               [] OTHER -> v

ToJsonKeys(v, s) == Walk(v, s, <<>>, 0, MaxDepth, FALSE)
ToPythonKeys(v, s) == Walk(v, s, <<>>, 0, MaxDepth, TRUE)

-----------------------------------------------------------------------------
(* jsonschema_py: the type of the stub                                       *)

Object == [py |-> "object"]

\* _literal: strings, integers and booleans.
Literal(values) ==
    IF \A v \in values : v.is \in {"string", "integer", "boolean"}
    THEN [py |-> "Literal", in |-> values] ELSE Object

\* _union.
UnionOf(types) ==
    IF Object \in types THEN Object
    ELSE IF Cardinality(types) = 1 THEN CHOOSE t \in types : TRUE
    ELSE [py |-> "union", alts |-> types]

Range(seq) == {seq[i] : i \in DOMAIN seq}

Primitives == {"string", "integer", "number", "boolean", "null"}

RECURSIVE Render(_, _, _), RenderObject(_, _, _)

\* _render_object: with a key that cannot be spelled the whole shape is untyped.
RenderObject(s, defs, depth) ==
    LET Below(t) == Render(t, defs, depth + 1)
        properties == Properties(s)
        names == {ParamName(k) : k \in DOMAIN properties}
        Key(name) == CHOOSE k \in DOMAIN properties : ParamName(k) = name
    IN  IF DOMAIN properties = {}
        THEN [py |-> "dict", value |-> IF Has(s, "additional")
                                       THEN Below(s.additional) ELSE Object]
        ELSE IF ~Spellable(s) THEN [py |-> "dict", value |-> Object]
        ELSE [py |-> "class",
              fields |-> [name \in names |-> Below(properties[Key(name)])],
              needs |-> {ParamName(k) : k \in Required(s)}]

\* _render.  A reference renders as the name of the class made of it.
Render(s, outer, depth) ==
    LET defs == DefsOf(s, outer)
        Below(t) == Render(t, defs, depth + 1)
        form == Form(s)
    IN  IF depth > MaxDepth THEN Object
        ELSE CASE form = "ref" -> [py |-> "name", ref |-> s.ref]
               [] form = "const" -> Literal({s.const})
               [] form = "enum" -> Literal(Range(s.enum))
               [] form \in {"anyOf", "types"} -> UnionOf({Below(b) : b \in Range(Branches(s))})
               [] form = "allOf" -> Below(s.allOf[1])
               [] form = "array" -> [py |-> "list", item |-> IF Has(s, "tuple") \/ ~Has(s, "items")
                                                             THEN Object ELSE Below(s.items)]
               [] form = "object" -> RenderObject(s, defs, depth)
               [] OTHER -> IF Has(s, "type") /\ s.type \in Primitives
                           THEN [py |-> s.type] ELSE Object

\* What _render descends into.
Inner(s, defs) ==
    LET form == Form(s)
    IN  CASE form = "ref" -> IF s.ref.name \in DOMAIN defs THEN {defs[s.ref.name]} ELSE {}
          [] form \in {"anyOf", "types"} -> Range(Branches(s))
          [] form = "allOf" -> {s.allOf[1]}
          [] form = "array" -> IF Has(s, "tuple") \/ ~Has(s, "items") THEN {} ELSE {s.items}
          [] form = "object" ->
                 IF DOMAIN Properties(s) # {}
                 THEN IF Spellable(s) THEN Range(Properties(s)) ELSE {}
                 ELSE IF Has(s, "additional") THEN {s.additional} ELSE {}
          [] OTHER -> {}

RECURSIVE InReach(_, _, _)

\* Every schema rendering s descends to, references followed.
InReach(s, outer, depth) ==
    LET defs == DefsOf(s, outer)
    IN  IF depth > MaxDepth THEN {}
        ELSE {[s |-> s, defs |-> defs, depth |-> depth]}
             \cup UNION {InReach(t, defs, depth + 1) : t \in Inner(s, defs)}

\* The references in reach, each with the schema it stands for.
Reached(s) ==
    {[ref |-> x.s.ref, to |-> x.defs[x.s.ref.name], defs |-> x.defs, depth |-> x.depth + 1] :
        x \in {y \in InReach(s, <<>>, 0) : Form(y.s) = "ref" /\ y.s.ref.name \in DOMAIN y.defs}}

\* _render_ref: one table of names for all a connector's tools take and return, in
\* which the first schema with a reference decides what its name stands for; of several
\* places in that schema the one least deep, which leaves most of it typed.
RefNames(tools) ==
    LET reached == [j \in DOMAIN tools |-> Reached(tools[j])]
        Meets(j, ref) == \E e \in reached[j] : e.ref = ref
        First(ref) == CHOOSE j \in DOMAIN tools : Meets(j, ref) /\ \A l \in 1 .. j - 1 : ~Meets(l, ref)
    IN  [ref \in {e.ref : e \in UNION Range(reached)} |->
            CHOOSE e \in reached[First(ref)] :
                /\ e.ref = ref
                /\ \A f \in reached[First(ref)] : f.ref = ref => e.depth <= f.depth]

\* render_connector_stub: what the stub says a tool returns.
StubType(s) == Render(s, <<>>, 0)

\* _typed_dict_declaration: an object schema, declared under its own keys.
KeepsTop(s) == ~Has(s, "types") /\ IF Has(s, "type") THEN s.type = "object" ELSE Has(s, "properties")

\* render_workflow_types: what Inputs and Output are, rendered below their top.
WorkflowType(s) ==
    LET defs == DefsOf(s, <<>>)
    IN  IF KeepsTop(s)
        THEN [py |-> "class",
              fields |-> [k \in DOMAIN Properties(s) |-> Render(Properties(s)[k], defs, 0)],
              needs |-> Required(s)]
        ELSE Render(s, defs, 0)

-----------------------------------------------------------------------------
(* validation: the annotation a value is checked with                        *)

RECURSIVE Annotation(_, _, _)

\* _annotation and _object: the keys are those of the schema, every reference is
\* followed, and what cannot be modelled is Any.
Annotation(s, outer, depth) ==
    LET defs == DefsOf(s, outer)
        Below(t) == Annotation(t, defs, depth + 1)
        form == Form(s)
        properties == Properties(s)
    IN  IF depth > MaxDepth THEN Object
        ELSE CASE form = "ref" -> IF s.ref.name \in DOMAIN defs
                                  THEN Below(defs[s.ref.name]) ELSE Object
               [] form = "const" -> Literal({s.const})
               [] form = "enum" -> Literal(Range(s.enum))
               [] form \in {"anyOf", "types"} -> UnionOf({Below(b) : b \in Range(Branches(s))})
               [] form = "allOf" -> Below(s.allOf[1])
               [] form = "array" -> [py |-> "list", item |-> IF Has(s, "tuple") \/ ~Has(s, "items")
                                                             THEN Object ELSE Below(s.items)]
               [] form = "object" ->
                      IF DOMAIN properties = {}
                      THEN [py |-> "dict", value |-> IF Has(s, "additional")
                                                     THEN Below(s.additional) ELSE Object]
                      ELSE [py |-> "class",
                            fields |-> [k \in DOMAIN properties |-> Below(properties[k])],
                            needs |-> Required(s)]
               [] OTHER -> IF Has(s, "type") /\ s.type \in Primitives
                           THEN [py |-> s.type] ELSE Object

\* apply_defaults: at the top only, and only what is absent.
ApplyDefaults(s, v) ==
    LET filled == {k \in DOMAIN Properties(s) \ DOMAIN v.of : Has(Properties(s)[k], "default")}
    IN  WithMembers(v, v.of @@ [k \in filled |-> Properties(s)[k].default])

-----------------------------------------------------------------------------
(* simulate: the result of a call that is not made                           *)

Nil == [is |-> "null"]
Str(x) == [is |-> "string", s |-> x]
Num(n) == [is |-> "integer", n |-> n]
Bool(b) == [is |-> "boolean", b |-> b]
Arr(items) == [is |-> "array", items |-> items]
Obj(of) == [is |-> "object", of |-> of]

\* _type_of: of several types the first that is not null.
TypeOf(s) ==
    IF Has(s, "type") THEN s.type
    ELSE IF ~Has(s, "types") THEN "none"
    ELSE LET named == SelectSeq(s.types, LAMBDA t : t # "null")
         IN  IF named # <<>> THEN Head(named) ELSE Head(s.types)

\* _resolve: only below $defs.
Resolves(s, defs) == Has(s, "ref") /\ s.ref.under = "$defs" /\ s.ref.name \in DOMAIN defs

RECURSIVE ValueOf(_, _, _)

\* A variant: the definitions stay behind.
ObjectAlone(s, defs, depth) ==
    Obj([k \in DOMAIN Properties(s) |-> ValueOf(Properties(s)[k], <<>>, depth + 1)])

\* _object: every declared property, required or not.
ObjectOf(s, defs, depth) ==
    LET inner == (IF Has(s, "defs") THEN s.defs ELSE <<>>) @@ defs
    IN  Obj([k \in DOMAIN Properties(s) |-> ValueOf(Properties(s)[k], inner, depth + 1)])

\* _value, _by_type.
ValueOf(s, defs, depth) ==
    LET type == TypeOf(s)
    IN  CASE depth > StandInDepth -> Nil
          [] depth <= StandInDepth /\ Resolves(s, defs) ->
                 ValueOf(defs[s.ref.name], defs, depth + 1)
          [] OTHER ->
             IF Has(s, "default") THEN s.default
             ELSE IF Has(s, "const") THEN s.const
             ELSE IF Has(s, "enum") /\ s.enum # <<>> THEN Head(s.enum)
             ELSE IF Has(s, "anyOf") /\ s.anyOf # <<>> THEN ValueOf(Head(s.anyOf), defs, depth + 1)
             ELSE IF Has(s, "allOf") /\ s.allOf # <<>> THEN ValueOf(Head(s.allOf), defs, depth + 1)
             ELSE CASE type = "array" ->
                           Arr(<<IF Has(s, "tuple") \/ ~Has(s, "items") THEN Nil
                                 ELSE ValueOf(s.items, defs, depth + 1)>>)
                    [] type = "string" -> Str("")
                    [] type \in {"integer", "number"} -> Num(1)
                    [] type = "boolean" -> Bool(FALSE)
                    [] type = "object" \/ (type = "none" /\ Has(s, "properties")) ->
                           ObjectOf(s, defs, depth)
                    [] OTHER -> Nil

\* stand_in, of a tool with an output schema.
StandIn(s) == ValueOf(s, IF Has(s, "defs") THEN s.defs ELSE <<>>, 0)

-----------------------------------------------------------------------------
(* journal: what get_step shows                                              *)

RECURSIVE Trim(_), Cuts(_)

\* _trim: the value kept ...
Trim(v) ==
    CASE v.is = "string" -> IF v.s \in DOMAIN Long THEN Str(Long[v.s]) ELSE v
      [] v.is = "array" -> WithItems(v, [i \in 1 .. (IF Len(v.items) > MaxItems THEN MaxItems
                                                     ELSE Len(v.items)) |-> Trim(v.items[i])])
      [] v.is = "object" -> WithMembers(v, [k \in DOMAIN v.of |-> Trim(v.of[k])])
      [] OTHER -> v

\* A variant: only what is cut at the top is told.
CutsAtTheTop(v) ==
    IF (v.is = "array" /\ Len(v.items) > MaxItems) \/ (v.is = "string" /\ v.s \in DOMAIN Long)
    THEN {<<>>} ELSE {}

\* ... and the notes: the paths something was cut at.
Cuts(v) ==
    CASE v.is = "string" -> IF v.s \in DOMAIN Long THEN {<<>>} ELSE {}
      [] v.is = "array" ->
             (IF Len(v.items) > MaxItems THEN {<<>>} ELSE {})
             \cup UNION {{<<i>> \o path : path \in Cuts(v.items[i])} :
                         i \in {j \in DOMAIN v.items : j <= MaxItems}}
      [] v.is = "object" ->
             UNION {{<<k>> \o path : path \in Cuts(v.of[k])} : k \in DOMAIN v.of}
      [] OTHER -> {}

=============================================================================
