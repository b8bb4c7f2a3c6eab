--------------------------- MODULE WorkflowCode ---------------------------
(***************************************************************************)
(* The code of a workflow: what lint says of it, what extract reads off it, *)
(* and what running it calls.                                              *)
(*                                                                         *)
(* A program is a sequence of statements, one of them the definition of     *)
(* `run`.  Expressions keep the shapes the rules look at: names,            *)
(* attributes, calls and the rest.  Python's tree has a Name node where a   *)
(* statement stores (an assignment, the target of a for or a with), and a   *)
(* mere string where one captures (import ... as, except ... as, a pattern, *)
(* a parameter); of a name of the latter kind lint has no node to meet.     *)
(***************************************************************************)
EXTENDS Integers, Sequences, FiniteSets, TLC

CONSTANTS Programs,    \* [module, declared]: statements, and outputs_schema or not
          Allowed,     \* ALLOWED_IMPORTS, and STUB_PACKAGE
          Dunders,     \* attributes that start with two underscores
          Private,     \* attributes that start with one
          Dynamic,     \* DYNAMIC_ACCESS_CALLS
          Forbidden,   \* FORBIDDEN_CALLS
          Offered      \* the tools in the table, <<attr, method>>

VARIABLES code,      \* the program
          verdict,   \* lint's codes
          listed,    \* what extract found, <<connector, tool>> or <<"ai">>
          called,    \* what running it has called so far
          scope,     \* the names bound so far, and to what
          output,    \* what `Output` meant where run was annotated with it
          stage, todo

codeVars == <<code, verdict, listed, called, scope, output, stage, todo>>

-----------------------------------------------------------------------------
(* Expressions: [x |-> "name", id], [x |-> "attr", of, attr],                *)
(* [x |-> "call", fun, args], [x |-> "item", of, key], [x |-> "text", s], and *)
(* [x |-> "quoted", e]: a text that spells an expression.  `up` says what one *)
(* is part of, the nearest first.                                            *)

RECURSIVE Nodes(_, _)

Nodes(e, up) ==
    {[node |-> e, up |-> up]} \cup
    CASE e.x = "attr" -> Nodes(e.of, <<[slot |-> "value", attr |-> e.attr]>> \o up)
      [] e.x = "call" ->
             Nodes(e.fun, <<[slot |-> "func"]>> \o up)
             \cup UNION {Nodes(e.args[i], <<[slot |-> "arg", fun |-> e.fun]>> \o up) :
                            i \in DOMAIN e.args}
      [] e.x = "item" -> Nodes(e.of, <<[slot |-> "item"]>> \o up)
      [] OTHER -> {}

Elements(seq) == {seq[i] : i \in DOMAIN seq}

RECURSIVE Within(_)

\* A statement and those inside it.
Within(s) ==
    {s} \cup CASE s.s = "run" -> UNION {Within(t) : t \in Elements(s.body)}
               [] s.s = "block" -> Within(s.inner)
               [] OTHER -> {}

\* ast.walk: every statement and every expression.
Statements(p) == UNION {Within(s) : s \in Elements(p.module)}
AllNodes(p) == UNION {Nodes(s.e, <<>>) : s \in {t \in Statements(p) : "e" \in DOMAIN t}}

IsSlot(up, i, slot) == i <= Len(up) /\ up[i].slot = slot
IsName(e, ids) == e.x = "name" /\ e.id \in ids
Codes(condition, c) == IF condition THEN {c} ELSE {}

-----------------------------------------------------------------------------
(* lint: the uses of ctx                                                     *)


\* _check_ctx_attribute, _check_ai_is_called: of `ctx.<attr>`.
AttributeErrors(up) ==
    LET attr == up[1].attr
    IN  IF attr \in {"inputs"} \cup Dunders THEN {}
        ELSE IF attr = "ai" THEN Codes(~IsSlot(up, 2, "func"), "ctx-tool-not-called")
        ELSE Codes(~(IsSlot(up, 2, "value") /\ IsSlot(up, 3, "func")), "ctx-tool-not-called")

\* _check_ctx_names: `ctx` may only ever appear as ctx.<attr>; in a dynamic access it
\* is that which is reported.
CtxErrors(up) ==
    IF IsSlot(up, 1, "arg") /\ IsName(up[1].fun, Dynamic) THEN {}
    ELSE IF ~IsSlot(up, 1, "value") THEN {"ctx-escape"}
    ELSE AttributeErrors(up)

\* run, of one node: _check_calls, _check_attributes, _check_ctx_names.
NodeErrors(n) ==
    LET e == n.node
    IN  Codes(e.x = "call" /\ IsName(e.fun, Forbidden), "forbidden-call")
        \cup Codes(e.x = "call" /\ IsName(e.fun, Dynamic), "dynamic-attribute-access")
        \cup Codes(e.x = "attr" /\ e.attr \in Dunders, "dunder-access")
        \cup IF IsName(e, {"ctx"}) THEN CtxErrors(n.up) ELSE {}

\* _check_imports, _check_module, _check_async, and the stores _check_ctx_names meets.
StatementErrors(s) ==
    Codes(s.s \in {"import", "from"} /\ s.module \notin Allowed, "import-not-allowed")
    \cup Codes(s.s = "run" /\ s.async, "async-not-supported")
    \cup Codes(s.s \in {"assign", "for"} /\ s.id = "ctx", "ctx-rebound")

-----------------------------------------------------------------------------
(* lint: the entry point                                                     *)

\* _own_binding: a class, a function or an assignment at the top of the module.
OwnBinding(p, name) ==
    \E s \in Elements(p.module) : s.s \in {"class", "def", "run", "assign"} /\ s.id = name

\* _imports_from_stubs: anywhere at the top, under its own name.
ImportsFromStubs(p, name) ==
    \E s \in Elements(p.module) :
        s.s = "from" /\ s.module = "runlace_types" /\ [name |-> name, as |-> name] \in s.names

IsOurs(p, name) == ~OwnBinding(p, name) /\ ImportsFromStubs(p, name)

\* _check_ctx_annotation.
AnnotationErrors(p, run) ==
    Codes(run.annotation # "Ctx" \/ ~IsOurs(p, "Ctx"), "bad-ctx-annotation")

\* _check_return_annotation, _check_output_is_the_generated_one.
ReturnErrors(p, run) ==
    Codes(run.returns = "", "missing-return-annotation")
    \cup Codes(\/ p.declared /\ run.returns \notin {"", "Output"}
               \/ run.returns = "Output" /\ ~IsOurs(p, "Output"), "bad-output-annotation")

\* _check_run_function, _check_not_decorated: the last run at the top is the one.
RunErrors(p) ==
    LET runs == {i \in DOMAIN p.module : p.module[i].s = "run"}
        run == p.module[CHOOSE i \in runs : \A j \in runs : j <= i]
    IN  IF runs = {} THEN {"missing-run"}
        ELSE Codes(run.decorated, "run-decorated")
             \cup IF Len(run.params) # 1 THEN {"bad-run-signature"}
                  ELSE Codes(run.params[1] # "ctx", "bad-run-signature")
                       \cup AnnotationErrors(p, run) \cup ReturnErrors(p, run)

\* lint.
LintErrors(p) ==
    RunErrors(p) \cup UNION {NodeErrors(n) : n \in AllNodes(p)}
                 \cup UNION {StatementErrors(s) : s \in Statements(p)}

-----------------------------------------------------------------------------
(* extract                                                                   *)

\* extract_tool_calls: ctx.<connector>.<tool>(...), of any ctx.
ToolCalls(p) ==
    {<<n.up[1].attr, n.up[2].attr>> :
        n \in {m \in AllNodes(p) : /\ IsName(m.node, {"ctx"})
                                   /\ IsSlot(m.up, 1, "value") /\ m.up[1].attr # "inputs"
                                   /\ IsSlot(m.up, 2, "value") /\ IsSlot(m.up, 3, "func")}}

\* extract_ai_calls: ctx.ai(...).
AiCalls(p) ==
    {<<"ai">> : n \in {m \in AllNodes(p) : /\ IsName(m.node, {"ctx"})
                                           /\ IsSlot(m.up, 1, "value") /\ m.up[1].attr = "ai"
                                           /\ IsSlot(m.up, 2, "func")}}

\* _unresolved: what a call is refused for when the table has no such tool.
Unresolved(p) ==
    {IF \E o \in Offered : o[1] = c[1] THEN "unknown-tool" ELSE "unknown-connector" :
        c \in ToolCalls(p) \ Offered}

-----------------------------------------------------------------------------
(* Running it: what the shim's objects and Python's names do                 *)

Data == [is |-> "data"]
Stub == [is |-> "stub"]
Ctx == [is |-> "ctx"]
Raised == [is |-> "raised"]

\* What __init__ stores in an object of the shim; Python looks there first.
Own(v) ==
    LET channel == "_channel" :> [is |-> "channel"]
    IN  CASE v.is = "ctx" -> channel @@ ("inputs" :> Data) @@ ("ai" :> [is |-> "ai"])
          [] v.is = "connector" -> channel @@ ("_name" :> Data)
          [] v.is = "tool" -> channel @@ ("_connector" :> Data) @@ ("_tool" :> Data)
          [] v.is = "ai" -> channel
          [] v.is = "channel" -> "call" :> [is |-> "pipe"]
          [] OTHER -> <<>>

\* Ctx.__getattr__, Connector.__getattr__; of what is not the shim's an attribute is data.
AttrOf(v, attr) ==
    IF attr \in DOMAIN Own(v) THEN Own(v)[attr]
    ELSE CASE attr \in Dunders -> Data
           [] v.is \in {"ctx", "connector"} /\ attr \in Private -> Raised
           [] v.is = "ctx" /\ attr \notin Private \cup Dunders ->
                  [is |-> "connector", name |-> attr]
           [] v.is = "connector" /\ attr \notin Private \cup Dunders ->
                  [is |-> "tool", connector |-> v.name, tool |-> attr]
           [] v.is \in {"tool", "ai"} /\ attr \notin Dunders -> Raised
           [] OTHER -> Data

Meaning(id, names) ==
    IF id \in DOMAIN names THEN names[id]
    ELSE IF id \in Dynamic \cup Forbidden THEN [is |-> "builtin", id |-> id] ELSE Raised

RECURSIVE Eval(_, _)

\* The value of an expression, and what is called on the way: Tool.__call__, Ai.__call__,
\* Channel.call, a function of the program, or a builtin under whatever name.  What is
\* raised ends it there.
Eval(e, names) ==
    CASE e.x = "name" -> [val |-> Meaning(e.id, names), calls |-> {}]
      [] e.x \in {"text", "quoted"} -> [val |-> Data, calls |-> {}]
      [] e.x = "attr" -> LET o == Eval(e.of, names)
                         IN  [o EXCEPT !.val = IF @ = Raised THEN @ ELSE AttrOf(@, e.attr)]
      [] e.x = "item" -> LET o == Eval(e.of, names)
                         IN  [o EXCEPT !.val = IF @.is # "names" THEN IF @ = Raised THEN @ ELSE Data
                                               ELSE IF e.key \in DOMAIN names THEN names[e.key]
                                               ELSE Raised]
      [] e.x = "call" ->
             LET f == Eval(e.fun, names)
                 args == [i \in DOMAIN e.args |-> Eval(e.args[i], names)]
                 parts == <<f>> \o args
                 reached == {i \in DOMAIN parts : \A j \in 1 .. i - 1 : parts[j].val # Raised}
                 before == UNION {parts[i].calls : i \in reached}
                 inside == Eval(f.val.body, (f.val.param :> args[1].val) @@ names)
                 quoted == Eval(e.args[1].e, names)
                 Gives(val, calls) == [val |-> val, calls |-> before \cup calls]
             IN  IF \E i \in DOMAIN parts : parts[i].val = Raised THEN Gives(Raised, {})
                 ELSE CASE f.val.is = "tool" -> Gives(Data, {<<f.val.connector, f.val.tool>>})
                        [] f.val.is = "ai" -> Gives(Data, {<<"ai">>})
                        [] f.val.is = "pipe" -> Gives(Data, {<<e.args[1].s, e.args[2].s>>})
                        [] f.val.is = "function" /\ Len(args) = 1 -> Gives(inside.val, inside.calls)
                        [] f.val.is = "builtin" /\ f.val.id = "getattr" /\ Len(args) = 2
                              /\ e.args[2].x = "text" -> Gives(AttrOf(args[1].val, e.args[2].s), {})
                        [] f.val.is = "builtin" /\ f.val.id \in {"vars", "globals", "locals"}
                              /\ args = <<>> -> Gives([is |-> "names"], {})
                        [] f.val.is = "builtin" /\ f.val.id \in {"eval", "exec"} /\ Len(args) = 1
                              /\ e.args[1].x = "quoted" -> Gives(quoted.val, quoted.calls)
                        [] OTHER -> Gives(Data, {})

RECURSIVE Bound(_, _)

\* What a statement binds, and to what.
Bound(s, names) ==
    CASE s.s = "assign" -> s.id :> Eval(s.e, names).val
      [] s.s \in {"for", "capture", "class", "import"} -> s.id :> Data
      [] s.s = "from" ->
             [as \in {n.as : n \in s.names} |-> IF s.module = "runlace_types" THEN Stub ELSE Data]
      [] s.s = "def" -> s.id :> [is |-> "function", param |-> s.param, body |-> s.e]
      [] s.s = "run" -> "run" :> [is |-> "run", body |-> s.body]
      [] s.s = "block" -> Bound(s.inner, names)
      [] OTHER -> <<>>

\* What it calls; a definition calls nothing.
CallsOf(s, names) == IF s.s \in {"expr", "assign"} THEN Eval(s.e, names).calls ELSE {}

\* It ends the program, as nothing is caught; an expression of a definition waits for
\* its call, an annotation does not.
Raises(s, names) ==
    \/ s.s \in {"expr", "assign"} /\ Eval(s.e, names).val = Raised
    \/ s.s = "run" /\ ~{s.annotation, s.returns} \cap {"Ctx", "Output"} \subseteq DOMAIN names

\* What a statement comes to: a block runs what is in it.
Effective(s) == IF s.s = "block" THEN s.inner ELSE s

-----------------------------------------------------------------------------
CodeInit ==
    /\ code \in Programs
    /\ verdict = {} /\ listed = {} /\ called = {}
    /\ scope = <<>> /\ output = Stub
    /\ stage = "given" /\ todo = <<>>

\* compile_workflow: lint, then extract and the look in the table; a model is taken to
\* be there, and what pyright says is not part of this.
Compile ==
    /\ stage = "given"
    /\ verdict' = IF LintErrors(code) # {} THEN LintErrors(code) ELSE Unresolved(code)
    /\ IF verdict' # {} THEN stage' = "rejected" /\ UNCHANGED <<listed, todo>>
       ELSE /\ stage' = "loading" /\ todo' = code.module
            /\ listed' = ToolCalls(code) \cup AiCalls(code)
    /\ UNCHANGED <<code, called, scope, output>>

\* load_run and main: the next statement, of the module or of run ...
Execute ==
    /\ stage \in {"loading", "running"} /\ todo # <<>>
    /\ LET s == Effective(Head(todo))
       IN  /\ ~Raises(s, scope)
           /\ scope' = Bound(s, scope) @@ scope
           /\ called' = called \cup CallsOf(s, scope)
           /\ output' = IF s.s = "run" /\ s.returns = "Output" THEN scope["Output"] ELSE output
    /\ todo' = Tail(todo)
    /\ UNCHANGED <<code, verdict, listed, stage>>

\* ... and the one that is the last, whatever was still to come.
Fail ==
    /\ stage \in {"loading", "running"} /\ todo # <<>>
    /\ LET s == Effective(Head(todo))
       IN  Raises(s, scope) /\ called' = called \cup CallsOf(s, scope)
    /\ stage' = "failed"
    /\ UNCHANGED <<code, verdict, listed, scope, output, todo>>

\* main: run(Ctx(channel, inputs)).
Enter ==
    /\ stage = "loading" /\ todo = <<>>
    /\ stage' = "running" /\ todo' = scope["run"].body
    /\ scope' = ("ctx" :> Ctx) @@ scope
    /\ UNCHANGED <<code, verdict, listed, called, output>>

\* METHOD_FINISHED.
Return ==
    /\ stage = "running" /\ todo = <<>>
    /\ stage' = "finished"
    /\ UNCHANGED <<code, verdict, listed, called, scope, output, todo>>

CodeNext == Compile \/ Enter \/ Execute \/ Fail \/ Return

-----------------------------------------------------------------------------
\* A statement gives a name another meaning by capturing it, where lint meets nothing.
Captures(s, name) ==
    \/ s.s \in {"capture", "import"} /\ s.id = name
    \/ s.s = "from" /\ \E n \in s.names :
          n.as = name /\ (n.name # name \/ s.module # "runlace_types")
    \/ s.s = "def" /\ s.param = name

\* A function nobody calls: its calls are in the code all the same.
Idle(p) ==
    \E s \in Statements(p) :
        s.s = "def" /\ ~\E n \in AllNodes(p) : n.node.x = "call" /\ IsName(n.node.fun, {s.id})

\* A builtin lint refuses to see called is named without being called: under another
\* name it answers all the same; see the README.
Aliases(p) ==
    \E n \in AllNodes(p) : IsName(n.node, Dynamic \cup Forbidden) /\ ~IsSlot(n.up, 1, "func")

(* A program the compiler lets pass makes no call extract has not listed, so *)
(* what is asked for consent and pinned is all there is, unless a builtin    *)
(* goes by another name; and extract lists no call that is not made, unless  *)
(* another ctx is meant (extract.py:3-7).                                    *)
LintIsExact ==
    /\ called \subseteq listed \/ Aliases(code)
    /\ stage = "finished" =>
          listed \subseteq called \/ Idle(code) \/ \E s \in Statements(code) : Captures(s, "ctx")

(* Of a program lint lets pass, `-> Output` means the type made of the       *)
(* outputs_schema, or nothing checks what it returns (lint.py:373), unless   *)
(* the name was captured, or stored by a statement _own_binding does not     *)
(* look at or look into.                                                     *)
OutputIsOurs ==
    \/ output = Stub
    \/ \E s \in Elements(code.module) :
          \/ Captures(s, "Output")
          \/ s.s = "for" /\ s.id = "Output"
          \/ s.s = "block" /\ "Output" \in DOMAIN Bound(s.inner, <<>>)

=============================================================================
