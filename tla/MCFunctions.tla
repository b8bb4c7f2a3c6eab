---------------------------- MODULE MCFunctions ----------------------------
(* Schemas and values for ToolValues, programs for WorkflowCode.            *)
EXTENDS ToolValues, WorkflowCode

MCStem == "from_" :> "from"
MCLong == "long" :> "lon"

Of(type) == [type |-> type]
Text == Of("string")
Whole == Of("integer")
None == Of("null")
Anything == [title |-> "anything"]
Shape(properties, required) ==
    [type |-> "object", properties |-> properties, required |-> required]
List(items) == [type |-> "array", items |-> items]
Either(branches) == [anyOf |-> branches]
RefTo(under, name) == [ref |-> [under |-> under, name |-> name]]
Def(name) == RefTo("$defs", name)

\* Properties: one that is a Python word, one that is not.
One(p) == "from" :> p
Two(p, q) == [from |-> p, k |-> q]

Relation == Shape(Two(Text, Whole), {"from"})
Letter == Shape(One(Relation), {"from"})
Named(r) == Shape([k |-> Def("R")], {"k"}) @@ [defs |-> [R |-> r]]
Older == Shape([k |-> RefTo("definitions", "R")], {"k"}) @@ [definitions |-> [R |-> Relation]]
Chain == Def("N") @@ [defs |-> [N |-> Shape(One(Either(<<None, Def("N")>>)), {"from"})]]
Tree == Def("N") @@ [defs |-> [N |-> Shape(One(List(Def("N"))), {"from"})]]
Twice == Shape([k |-> Either(<<None, Def("R")>>), from |-> Def("R")], {"from"}) @@ [defs |-> [R |-> Letter]]

Spoilt == Whole @@ [default |-> Nil]

Schemas == {
    Text, Whole, None, Anything, Relation, Letter, Named(Relation), Older, Chain, Tree, Twice,
    Of("number"), Of("boolean"), List(Relation), List(Letter), List(Text), Of("array"), Of("object"),
    Either(<<None, Relation>>), Either(<<Text, List(Letter)>>),
    Either(<<Shape([k |-> Letter], {"k"}), Shape(One(Text), {"from"})>>),
    Either(<<Shape(One(None), {"from"}), Letter>>),
    [types |-> <<"object", "null">>, properties |-> One(Text), required |-> {"from"}],
    [types |-> <<"null", "string">>],
    [type |-> "object", additional |-> Relation],
    Shape([from |-> Letter] @@ ("c-t" :> Text), {"from"}),
    [type |-> "array", tuple |-> <<Relation, Whole>>],
    [enum |-> <<Str("a"), Str("long")>>], [enum |-> <<Num(1), Nil>>],
    [const |-> Str("7")], [const |-> Obj(One(Str("a")))],
    Shape([from |-> Text] @@ [from_ |-> Whole], {}), Shape([from_ |-> Text], {"from_"}),
    [allOf |-> <<Def("R")>>, defs |-> [R |-> Letter]],
    [allOf |-> <<Shape([k |-> Whole], {"k"}), Anything>>, type |-> "object",
     properties |-> One(Text), required |-> {"from"}],
    [properties |-> Two(Text, Whole @@ [default |-> Num(1)]), required |-> {"from"}],
    Shape([k |-> Text @@ [default |-> Str("long")]], {}),
    Shape([k |-> Spoilt], {}), Shape(Two(Text, Spoilt), {"from"}) }

MCConnectors ==
    {<<s>> : s \in Schemas}
    \cup {<<Named(Relation), Named(Letter)>>, <<Named(Relation), Named(Relation)>>,
          <<Named(Letter), Letter>>}

Leaves == {Nil, Str("a"), Str("7"), Str("long"), Num(0), Num(1), Bool(TRUE)}
Plain == {Obj(One(x)) : x \in {Nil, Str("a"), Str("long"), Num(1)}}
         \cup {Obj(Two(Str("a"), x)) : x \in {Num(1), Str("7"), Str("long")}}
         \cup {Obj([k |-> Num(1)]), Obj([from_ |-> Str("a")]), Obj(<<>>),
               Obj([from |-> Str("a"), from_ |-> Num(1)])}
Nested == {Obj(One(o)) : o \in Plain} \cup {Obj([k |-> o]) : o \in Plain}
          \cup {Obj(One(o) @@ ("c-t" :> Str("a"))) : o \in Plain}
Deep == {Obj(One(o)) : o \in Nested} \cup {Obj([k |-> o]) : o \in Nested}
        \cup {Obj(Two(o, o)) : o \in Nested}
Lists == {Arr(<<>>)} \cup {Arr(<<x>>) : x \in Leaves \cup Plain \cup Nested}
         \cup {Arr(<<x, x>>) : x \in Plain} \cup {Arr(<<x, y, x>>) : x, y \in Plain \cup {Str("a")}}
RECURSIVE Links(_)
Links(n) == Obj(One(IF n = 0 THEN Nil ELSE Links(n - 1)))
RECURSIVE Boughs(_)
Boughs(n) == Obj(One(Arr(IF n = 0 THEN <<>> ELSE <<Boughs(n - 1)>>)))

MCUniverse == Leaves \cup Plain \cup Nested \cup Deep \cup Lists
              \cup {Links(n) : n \in 0 .. 5} \cup {Boughs(n) : n \in 0 .. 5}

-----------------------------------------------------------------------------
(* Programs.                                                               *)
Name(id) == [x |-> "name", id |-> id]
Dot(e, attr) == [x |-> "attr", of |-> e, attr |-> attr]
Apply(e, args) == [x |-> "call", fun |-> e, args |-> args]
Quote(s) == [x |-> "text", s |-> s]
Spelt(e) == [x |-> "quoted", e |-> e]
Item(e, key) == [x |-> "item", of |-> e, key |-> key]
Expr(e) == [s |-> "expr", e |-> e]
Assign(id, e) == [s |-> "assign", id |-> id, e |-> e]
Binds(kind, id) == [s |-> kind, id |-> id]
Import(module, id) == [s |-> "import", module |-> module, id |-> id]
From(module, names) == [s |-> "from", module |-> module, names |-> names]
As1(name, as) == [name |-> name, as |-> as]
Block(inner) == [s |-> "block", inner |-> inner]
Helper(param, e) == [s |-> "def", id |-> "helper", param |-> param, e |-> e]
Run(body) == [s |-> "run", id |-> "run", params |-> <<"ctx">>, annotation |-> "Ctx", returns |-> "Output",
              decorated |-> FALSE, async |-> FALSE, body |-> body]

MCOffered == {<<"fs", "read">>, <<"fs", "write">>, <<"_1p", "read">>}

Fs == Dot(Name("ctx"), "fs")
Read == Dot(Fs, "read")
Write == Dot(Fs, "write")
Bodies == {
    Expr(Apply(Read, <<>>)), Expr(Apply(Dot(Name("ctx"), "ai"), <<Quote("q")>>)),
    Expr(Apply(Dot(Dot(Name("ctx"), "inputs"), "get"), <<Quote("k")>>)),
    Expr(Apply(Write, <<Apply(Read, <<>>)>>)), Expr(Apply(Dot(Fs, "send"), <<>>)),
    Expr(Apply(Dot(Dot(Name("ctx"), "_channel"), "call"), <<Quote("fs"), Quote("write")>>)),
    Expr(Apply(Dot(Fs, "_name"), <<>>)), Expr(Apply(Dot(Dot(Name("ctx"), "_1p"), "read"), <<>>)),
    Expr(Apply(Dot(Dot(Name("t"), "_channel"), "call"), <<Quote("fs"), Quote("write")>>)),
    Assign("t", Name("locals")), Assign("t", Item(Apply(Name("t"), <<>>), "ctx")),
    Assign("t", Name("eval")), Assign("t", Apply(Name("t"), <<Spelt(Apply(Write, <<>>))>>)),
    Expr(Apply(Name("eval"), <<Spelt(Apply(Write, <<>>))>>)),
    Expr(Apply(Apply(Read, <<>>), <<Name("ctx")>>)), Expr(Apply(Fs, <<>>)),
    Assign("t", Read), Assign("t", Fs), Assign("t", Name("ctx")), Assign("t", Dot(Name("ctx"), "ai")),
    Assign("t", Apply(Name("getattr"), <<Name("ctx"), Quote("fs")>>)),
    Assign("t", Apply(Name("getattr"), <<Fs, Quote("read")>>)),
    Assign("t", Dot(Name("ctx"), "__dict__")), Assign("t", Apply(Name("open"), <<Quote("f")>>)),
    Expr(Apply(Name("t"), <<>>)), Expr(Apply(Dot(Name("t"), "read"), <<>>)),
    Expr(Apply(Dot(Dot(Name("t"), "fs"), "read"), <<>>)),
    Helper("c", Apply(Dot(Dot(Name("c"), "fs"), "read"), <<>>)), Helper("c", Apply(Read, <<>>)),
    Helper("ctx", Apply(Read, <<>>)), Helper("c", Apply(Name("c"), <<>>)),
    Expr(Apply(Name("helper"), <<Name("ctx")>>)), Expr(Apply(Name("helper"), <<Read>>)),
    Expr(Apply(Name("helper"), <<Quote("x")>>)),
    Assign("ctx", Quote("x")), Binds("for", "ctx"), Binds("capture", "ctx"),
    Block(Expr(Apply(Read, <<>>))), Block(Assign("ctx", Quote("x"))) }

Stubs == From("runlace_types", {As1("Ctx", "Ctx"), As1("Output", "Output")})
Lines == {
    Stubs, From("runlace_types", {As1("Ctx", "Ctx")}), From("runlace_types", {As1("Inputs", "Output")}),
    From("typing", {As1("Output", "Output")}), From("runlace_types.connectors", {As1("Fs", "Fs")}),
    Import("json", "json"), Import("os", "os"), Import("json", "ctx"), Import("json", "Output"),
    Binds("class", "Output"), Binds("class", "Ctx"), Binds("for", "Output"), Binds("for", "ctx"),
    Assign("Output", Quote("x")), Block(Binds("class", "Output")), Block(Stubs),
    Expr(Apply(Read, <<>>)), Helper("c", Apply(Name("c"), <<>>)) }
Runs == LET plain == Run(<<Expr(Apply(Read, <<>>))>>)
        IN  {plain, [plain EXCEPT !.params = <<>>], [plain EXCEPT !.params = <<"c">>],
             [plain EXCEPT !.annotation = ""], [plain EXCEPT !.returns = ""], [plain EXCEPT !.returns = "dict"],
             [plain EXCEPT !.decorated = TRUE], [plain EXCEPT !.async = TRUE]}

\* At most one function of its own, and something done in the end.
OneHelper(bodies) ==
    {b \in bodies : b[3].s = "expr" /\ Cardinality({i \in 1 .. 3 : b[i].s = "def"}) <= 1}

MCPrograms ==
    [module : {<<Stubs, Run(<<a, b>>)>> : a, b \in Bodies}
              \cup {<<Stubs, Run(body)>> : body \in OneHelper([1 .. 3 -> Bodies])}
              \cup {<<a, b, r>> : a, b \in Lines, r \in Runs}
              \cup {<<Stubs, a, r>> : a \in Lines, r \in Runs}
              \cup {<<Stubs, r, a>> : a \in Lines \cup Runs, r \in Runs} \cup {<<Stubs>>},
     declared : {TRUE}]
    \cup [module : {<<a, r>> : a \in Lines, r \in Runs}, declared : {FALSE}]

-----------------------------------------------------------------------------
(* One start for a value, another for a program.                           *)
Init ==
    \/ ValuesInit /\ code = <<>> /\ verdict = {} /\ listed = {} /\ called = {}
                  /\ scope = <<>> /\ output = Stub /\ stage = "none" /\ todo = <<>>
    \/ CodeInit /\ tools = <<Anything>> /\ wire = Nil /\ held = Nil /\ notes = {} /\ at = "none"

Next == (ValuesNext /\ UNCHANGED codeVars) \/ (CodeNext /\ UNCHANGED valueVars)

Spec == Init /\ [][Next]_<<valueVars, codeVars>>
=============================================================================
