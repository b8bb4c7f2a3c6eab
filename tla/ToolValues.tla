---------------------------- MODULE ToolValues ----------------------------
(***************************************************************************)
(* A value on its way between a server and a workflow, and the references   *)
(* the operators of Shapes are held against: what JSON Schema says a value  *)
(* must be, and what the type in a stub says it is.                         *)
(*                                                                         *)
(* The servers' answers are taken to conform to the schemas the servers     *)
(* publish; what a caller gives a workflow is anything.                     *)
(***************************************************************************)
EXTENDS Shapes

CONSTANTS Connectors,   \* sequences of schemas: those of a connector, as its stub renders them
          Universe,     \* the values there are
          Numeric       \* the strings that spell a number

VARIABLES tools,    \* the connector: what its tools take and return, in turn; the last
                    \* is what the tool called returns
          wire,     \* the value as it is on the wire
          held,     \* what the other side holds in the end
          notes,    \* get_step's `trimmed`
          at        \* where the value is

valueVars == <<tools, wire, held, notes, at>>

Schema == tools[Len(tools)]

-----------------------------------------------------------------------------
(* What a schema means.  A schema with `properties` and no `type` is read as *)
(* that of an object, as everywhere in Runlace.                              *)

IsA(v, type) == v.is = type \/ (type = "number" /\ v.is = "integer")

\* What a reference points to, in the schema it is part of.
Target(root, ref) == (IF ref.under = "$defs" THEN root.defs ELSE root.definitions)[ref.name]

RECURSIVE Conforms(_, _, _)

Conforms(v, s, root) ==
    /\ Has(s, "ref") => Conforms(v, Target(root, s.ref), root)
    /\ Has(s, "const") => v = s.const
    /\ Has(s, "enum") => v \in Range(s.enum)
    /\ Has(s, "anyOf") => \E b \in Range(s.anyOf) : Conforms(v, b, root)
    /\ Has(s, "allOf") => \A b \in Range(s.allOf) : Conforms(v, b, root)
    /\ Has(s, "type") => IsA(v, s.type)
    /\ Has(s, "types") => \E t \in Range(s.types) : IsA(v, t)
    /\ Has(s, "properties") /\ ~Has(s, "type") /\ ~Has(s, "types") => v.is = "object"
    /\ v.is = "object" =>
          /\ Has(s, "required") => s.required \subseteq DOMAIN v.of
          /\ \A k \in DOMAIN v.of :
                IF k \in DOMAIN Properties(s) THEN Conforms(v.of[k], Properties(s)[k], root)
                ELSE Has(s, "additional") => Conforms(v.of[k], s.additional, root)
    /\ v.is = "array" =>
          \A i \in DOMAIN v.items :
             /\ Has(s, "items") => Conforms(v.items[i], s.items, root)
             /\ Has(s, "tuple") /\ i <= Len(s.tuple) => Conforms(v.items[i], s.tuple[i], root)

\* What pydantic, which is not strict unless told to be, takes for a type.
Coerces(v, type) ==
    \/ type \in {"integer", "number"} /\ (v.is = "boolean" \/ (v.is = "string" /\ v.s \in Numeric))
    \/ type = "boolean" /\ v.is = "integer" /\ v.n \in {0, 1}

RECURSIVE Fits(_, _, _, _)

\* v is of a type, or, when lax, taken for one; a name is one of the stub's classes.
Fits(v, type, names, lax) ==
    LET F(w, t) == Fits(w, t, names, lax)
    IN  CASE type.py = "object" -> TRUE
          [] type.py \in Primitives -> IsA(v, type.py) \/ (lax /\ Coerces(v, type.py))
          [] type.py = "Literal" -> v \in type.in
          [] type.py = "union" -> \E t \in type.alts : F(v, t)
          [] type.py = "list" -> v.is = "array" /\ \A i \in DOMAIN v.items : F(v.items[i], type.item)
          [] type.py = "dict" -> v.is = "object" /\ \A k \in DOMAIN v.of : F(v.of[k], type.value)
          [] type.py = "class" ->
                 /\ v.is = "object"
                 /\ type.needs \subseteq DOMAIN v.of
                 /\ \A k \in DOMAIN v.of \cap DOMAIN type.fields : F(v.of[k], type.fields[k])
          [] type.py = "name" ->
                 type.ref \in DOMAIN names =>
                     LET class == names[type.ref] IN F(v, Render(class.to, class.defs, class.depth))

-----------------------------------------------------------------------------
(* Where the code is known not to do what it means to; see the README.       *)

RECURSIVE KeysOf(_)

KeysOf(v) ==
    CASE v.is = "object" -> DOMAIN v.of \cup UNION {KeysOf(v.of[k]) : k \in DOMAIN v.of}
      [] v.is = "array" -> UNION {KeysOf(v.items[i]) : i \in DOMAIN v.items}
      [] OTHER -> {}

Declared(s) == UNION {DOMAIN Properties(x.s) : x \in InReach(s, <<>>, 0)}

\* The Python name of a key is a key itself.
Ambiguous(s, v) ==
    \E k \in Words \cap Declared(s) : ParamName(k) \in Declared(s) \cup KeysOf(v)

RECURSIVE Tops(_, _, _)

\* The words among the keys of an object that a branch may describe.
Tops(s, outer, depth) ==
    LET defs == DefsOf(s, outer)
    IN  IF depth > MaxDepth THEN {}
        ELSE IF Form(s) = "object" THEN Words \cap DOMAIN Properties(s)
        ELSE IF Form(s) \in {"ref", "anyOf", "allOf", "types"}
        THEN UNION {Tops(t, defs, depth + 1) : t \in Inner(s, defs)}
        ELSE {}

\* Two branches of a union rename the same key, and the later finds it renamed.
Chained(s) ==
    \E x \in InReach(s, <<>>, 0) :
        /\ Form(x.s) \in {"anyOf", "types"}
        /\ \E i, j \in DOMAIN Branches(x.s) :
              i < j /\ Tops(Branches(x.s)[i], x.defs, 0) \cap Tops(Branches(x.s)[j], x.defs, 0) # {}

\* The value goes deeper than keys follow it; the classes of a stub have no bottom.
Deeper(s, v) == ToPythonKeys(v, s) # Walk(v, s, <<>>, 0, 3 * MaxDepth, TRUE)

\* Another schema of the connector means something else by a reference.
Misnamed(tls) ==
    \E e \in Reached(tls[Len(tls)]) :
        \E i \in DOMAIN tls : \E f \in Reached(tls[i]) : e.ref = f.ref /\ e.to # f.to

\* Nobody holds a default against the schema it is in.
Spoils(s, root) == Has(s, "default") /\ ~Conforms(s.default, s, root)

\* Such a default is filled in.
SpoiltByDefault(s, v) ==
    \E k \in DOMAIN Properties(s) \ DOMAIN v.of : Spoils(Properties(s)[k], s)

\* A stand-in cannot be made: it would be too deep, or simulate does not look there,
\* or takes a default for one.
OutOfReach(s) ==
    \E x \in InReach(s, <<>>, 0) :
        \/ x.depth > StandInDepth
        \/ Spoils(x.s, s)
        \/ Has(x.s, "ref") /\ x.s.ref.under # "$defs"
        \/ Has(x.s, "allOf") /\ Len(x.s.allOf) > 1

\* A reserved word where Inputs and Output rename it, which nothing else does: below
\* the top, or anywhere when the top is no object.
NestedWord(s) ==
    LET below == IF KeepsTop(s)
                 THEN UNION {InReach(t, DefsOf(s, <<>>), 0) : t \in Range(Properties(s))}
                 ELSE InReach(s, <<>>, 0)
    IN  \E x \in below : Words \cap DOMAIN Properties(x.s) # {}

-----------------------------------------------------------------------------
Called == at = "called" /\ UNCHANGED <<tools, wire>>

\* _respond, the end of a call: the server's answer is handed to the workflow.
Receive ==
    /\ Called
    /\ Conforms(wire, Schema, Schema)
    /\ held' = ToPythonKeys(wire, Schema) /\ at' = "received"
    /\ UNCHANGED notes

\* _respond, the beginning of the next: the workflow passes it on to a tool that
\* takes what this one returns.
PassOn ==
    /\ at = "received"
    /\ held' = ToJsonKeys(held, Schema) /\ at' = "sent"
    /\ UNCHANGED <<tools, wire, notes>>

\* _without_side_effects and _respond: the same call in a dry run.
Rehearse ==
    /\ Called
    /\ held' = ToPythonKeys(StandIn(Schema), Schema) /\ at' = "rehearsed"
    /\ UNCHANGED notes

\* admit: the caller's inputs are completed, then checked and handed over as they are.
TakeInputs ==
    /\ Called
    /\ wire.is = "object"
    /\ held' = ApplyDefaults(Schema, wire)
    /\ at' = IF Fits(held', Annotation(Schema, <<>>, 0), <<>>, TRUE) THEN "taken" ELSE "refused"
    /\ UNCHANGED notes

\* get_step: the result of a call, as it is in the journal, for whoever looks.
Look ==
    /\ Called
    /\ held' = Trim(wire) /\ notes' = Cuts(wire) /\ at' = "shown"

ValuesInit ==
    /\ tools \in Connectors /\ wire \in Universe
    /\ held = Nil /\ notes = {} /\ at = "called"

ValuesNext == Receive \/ PassOn \/ Rehearse \/ TakeInputs \/ Look

-----------------------------------------------------------------------------

(* A dry run that gets past a stand-in says something about the code: the    *)
(* stand-in has the type the code was checked against (simulate.py:15-16).   *)
StandInIsTyped ==
    at = "rehearsed" =>
        \/ Fits(held, StubType(Schema), RefNames(tools), FALSE)
        \/ OutOfReach(Schema) \/ Misnamed(tools)


(* What get_step shows still is of the shape the tool answers in, unless a    *)
(* literal was cut; it says so whenever something is missing, and looking at  *)
(* what was shown shows it again (journal.py:199-204).                        *)
LongLiteral(s) ==
    \E x \in InReach(s, <<>>, 0) :
        \/ Has(x.s, "const") /\ Trim(x.s.const) # x.s.const
        \/ Has(x.s, "enum") /\ \E v \in Range(x.s.enum) : Trim(v) # v

TrimKeepsTheShape ==
    at = "shown" =>
        /\ Conforms(wire, Schema, Schema) => Conforms(held, Schema, Schema) \/ LongLiteral(Schema)
        /\ notes = {} <=> held = wire
        /\ Trim(held) = held
=============================================================================
