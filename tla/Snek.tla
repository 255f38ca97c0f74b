-------------------------------- MODULE Snek --------------------------------
(***************************************************************************)
(* The front end of a run (snek/mod.rs, `compile_graph`): the resolver     *)
(* (snek/resolver.rs) reads the root file and the files it imports and     *)
(* turns them into IR, one statement a step; the compiler                  *)
(* (snek/compiler.rs) inlines the calls of the IR into the node graph, one *)
(* top level node a step.                                                  *)
(***************************************************************************)
EXTENDS SnekSyntax, FiniteSets, TLC

CONSTANTS
    Sources,     \* what the files may be, see `source`
    RootFile,    \* the file the run is started with
    EntryPoint,  \* the label it is asked for
    Canonical    \* the canonical form of the paths that imports name

VARIABLES
    source,      \* fixed: [text |-> tokens of each file, meant |-> its statements, whole |-> BOOLEAN]
    phase,       \* "resolving", "compiling", "compiled" or "failed"
    error,       \* the innermost CompileError of a failure
    stack,       \* the modules and functions being resolved, innermost first
    resolver,    \* `Resolver` and the top level body
    compiler     \* `Compiler`, and the top level nodes it has still to compile

vars == <<source, phase, error, stack, resolver, compiler>>

-----------------------------------------------------------------------------
(* The prelude (engine/nodes.rs): the arguments of each node and what it    *)
(* returns, "first" for a node that passes the type of its first argument.  *)

Str == {"string"}
ContainerLike == {"container", "service"}
Takes(parameters, returns) == [parameters |-> parameters, returns |-> returns]

Prelude ==
    [Image        |-> Takes(<<Str>>, "container"),
     ImageService |-> Takes(<<Str>>, "service"),
     Exec         |-> Takes(<<ContainerLike, Str>>, "first"),
     ExecOutput   |-> Takes(<<ContainerLike, Str>>, "string"),
     FromHost     |-> Takes(<<Str>>, "filesystem"),
     Export       |-> Takes(<<ContainerLike, Str>>, "filesystem"),
     ToHost       |-> Takes(<<{"filesystem"}, Str>>, "int"),
     With         |-> Takes(<<ContainerLike, {"filesystem"}, Str>>, "first"),
     WorkingDir   |-> Takes(<<ContainerLike, Str>>, "first"),
     Env          |-> Takes(<<ContainerLike, Str, Str>>, "first"),
     GetEnv       |-> Takes(<<ContainerLike, Str>>, "string"),
     User         |-> Takes(<<ContainerLike, Str>>, "first"),
     ToService    |-> Takes(<<{"container"}, Str>>, "service"),
     WithService  |-> Takes(<<ContainerLike, {"service"}, Str>>, "first"),
     HealthCheck  |-> Takes(<<{"service"}, Str, {"int"}>>, "service"),
     ShellEscape  |-> Takes(<<Str>>, "string")]

HandWritten == {"Noop", "All", "Join"}

WrapType(node, types) ==
    IF Len(types) # Len(node.parameters) THEN "ArgumentCountMismatch"
    ELSE IF \E i \in DOMAIN types : types[i] \notin node.parameters[i] THEN "TypeMismatch"
    ELSE IF node.returns = "first" THEN types[1]
    ELSE node.returns

LiteralType(kind) == IF kind = "Numeric" THEN "int" ELSE "string"

(* `NodeImpl::return_type`; a kind is <<"Builtin", name>> or a literal. *)
ReturnType(kind, types) ==
    CASE kind[1] # "Builtin" -> LiteralType(kind[1])
      [] kind[2] = "Noop" -> IF Len(types) = 1 THEN types[1] ELSE "ArgumentCountMismatch"
      [] kind[2] = "All" -> IF types # <<>> THEN types[1] ELSE "ArgumentCountMismatch"
      [] kind[2] = "Join" -> IF Range(types) \subseteq Str THEN "string" ELSE "TypeMismatch"
      [] OTHER -> WrapType(Prelude[kind[2]], types)

TypeErrors == {"ArgumentCountMismatch", "TypeMismatch"}

-----------------------------------------------------------------------------
(* Names.  An item of a scope is <<"Label", symbol>>, <<"Function", f>> or  *)
(* <<"Module", m>>; anything else is the error the lookup ends in.  A child *)
(* scope starts as a copy of its parent's, which does not change meanwhile. *)

PreludeScope ==
    [name \in DOMAIN Prelude \cup HandWritten |-> <<"Function", <<"Builtin", name>>>>]

Lookup(scope, name) == IF name \in DOMAIN scope THEN scope[name] ELSE <<"ItemNotFound", 0>>

(* get_item_path: every segment but the last has to be a module. *)
ItemPath(modules, scope, path) ==
    FoldLeft(LAMBDA item, name : CASE item[1] = "Module" -> Lookup(modules[item[2]], name)
                                   [] item[1] = "ItemNotFound" -> item
                                   [] OTHER -> <<"WrongItemKind", 0>>,
             Lookup(scope, Head(path)), Tail(path))

(* try_into_label, try_into_function *)
KindError(item, kind) ==
    CASE item[1] = kind -> "none"
      [] item[1] = "ItemNotFound" -> item[1]
      [] OTHER -> "WrongItemKind"

-----------------------------------------------------------------------------
(* Expressions.  w is the resolver at work: its state, the body of the      *)
(* function it is in, the symbol of the last expression, and an error.      *)

NewSymbol(w) == [w EXCEPT !.r.next = @ + 1, !.out = w.r.next]

IrNode(name, function, arguments, phantoms) ==
    [name |-> name, function |-> function, arguments |-> arguments, phantoms |-> phantoms]

(* body_for_statements: functions have a body of their own *)
EmitNode(w, node) ==
    IF w.local THEN [w EXCEPT !.body = Append(@, node)] ELSE [w EXCEPT !.r.top = Append(@, node)]

(* Mutant: the literal is emitted where it is used first. *)
ResolveLiteralLocally(w, literal) ==
    IF literal \in DOMAIN w.r.literals THEN [w EXCEPT !.out = w.r.literals[literal]]
    ELSE LET n == NewSymbol(w)
         IN [EmitNode(n, IrNode(n.out, literal, <<>>, <<>>)) EXCEPT
                !.r.literals = (literal :> n.out) @@ @]

(* A literal is a node of the top level, once for each value. *)
ResolveLiteral(w, literal) ==
    IF literal \in DOMAIN w.r.literals THEN [w EXCEPT !.out = w.r.literals[literal]]
    ELSE LET n == NewSymbol(w)
         IN [n EXCEPT !.r.top = Append(@, IrNode(n.out, literal, <<>>, <<>>)),
                      !.r.literals = (literal :> n.out) @@ @]

RECURSIVE ResolveExpression(_, _, _)

ResolveArguments(w, scope, first, arguments) ==
    FoldLeft(LAMBDA acc, e : LET v == ResolveExpression(acc.w, scope, e)
                             IN [w |-> v, symbols |-> Append(acc.symbols, v.out)],
             [w |-> w, symbols |-> first], arguments)

ResolveNode(w, scope, node, first) ==
    LET Item(path) == ItemPath(w.r.modules, scope, path)
        function == Item(node.name)
        errors == SelectSeq(<<KindError(function, "Function")>>
                              \o [i \in DOMAIN node.phantoms |-> KindError(Item(node.phantoms[i]), "Label")],
                            LAMBDA e : e # "none")
        phantoms == [i \in DOMAIN node.phantoms |-> Item(node.phantoms[i])[2]]
        args == ResolveArguments(w, scope, first, node.arguments)
        n == NewSymbol(args.w)
    IN CASE w.error # "none" -> w
         [] errors # <<>> -> [w EXCEPT !.error = errors[1]]
         [] args.w.error # "none" -> args.w
         [] OTHER -> EmitNode(n, IrNode(n.out, function[2], args.symbols, phantoms))

ResolveExpression(w, scope, e) ==
    CASE w.error # "none" -> w
      [] e.is \in {"Numeric", "String"} -> ResolveLiteral(w, <<e.is, e.value>>)
      [] e.is = "Label" ->
            LET item == ItemPath(w.r.modules, scope, e.path)
            IN IF item[1] = "Label" THEN [w EXCEPT !.out = item[2]]
               ELSE [w EXCEPT !.error = KindError(item, "Label")]
      [] e.is = "Node" -> ResolveNode(w, scope, e, <<>>)
      [] e.is = "Chain" ->
            FoldLeft(LAMBDA v, n : ResolveNode(v, scope, n, <<v.out>>),
                     ResolveExpression(w, scope, e.start), e.nodes)

Working(r, local, body) == [r |-> r, local |-> local, body |-> body, out |-> 0, error |-> "none"]

-----------------------------------------------------------------------------
(* Statements. *)

Frame(is, by, statements, scope) ==
    [is |-> is,                  \* "Module" or "Function"
     by |-> by,                  \* the path of the module, the statement of the function
     rest |-> statements, scope |-> scope,
     exports |-> <<>>,           \* of a module
     body |-> <<>>, result |-> 0, parameters |-> <<>>, defaults |-> <<>>]  \* of a function

Top == Head(stack)
Statement == Head(Top.rest)
At(kind) ==
    phase = "resolving" /\ stack # <<>> /\ Top.rest # <<>> /\ Statement.is = kind

Fail(e) ==
    /\ phase' = "failed" /\ error' = e
    /\ UNCHANGED <<source, stack, resolver, compiler>>

Resolved(r, frames) ==
    /\ resolver' = r /\ stack' = frames
    /\ UNCHANGED <<source, phase, error, compiler>>

(* The statement of a frame gave its name an item. *)
Bound(frame, item) ==
    LET s == Head(frame.rest)
    IN [frame EXCEPT !.rest = Tail(@), !.scope = (s.name :> item) @@ @,
                     !.exports = IF s.export THEN (s.name :> item) @@ @ ELSE @]

Bind(r, frames, item) ==
    IF Head(Head(frames).rest).export /\ Head(frames).is = "Function" THEN Fail("InvalidStatement")
    ELSE Resolved(r, <<Bound(Head(frames), item)>> \o Tail(frames))

(* get_module up to resolve_module, and resolve_module up to its first       *)
(* statement.  The mark (0) is set before the file is read.                  *)
EnterModule(path) ==
    LET parsed == ParseFile(source.text[path])
    IN CASE path \notin DOMAIN source.text -> Fail("FileReading")
         [] ~parsed.ok -> Fail(parsed.out)
         [] OTHER -> Resolved([resolver EXCEPT !.marks = (path :> 0) @@ @],
                              <<Frame("Module", path, parsed.out, PreludeScope)>> \o stack)

Begin == phase = "resolving" /\ stack = <<>> /\ resolver.marks = <<>> /\ EnterModule(RootFile)

(* Mutant: any module met before counts as being resolved. *)
IsMarkedOrKnown(path) == path \in DOMAIN resolver.marks

IsMarked(path) == path \in DOMAIN resolver.marks /\ resolver.marks[path] = 0

ImportKnown ==
    /\ At("Import")
    /\ LET path == Canonical[Statement.path]
       IN /\ path \in DOMAIN resolver.marks /\ ~IsMarked(path)
          /\ Bind(resolver, stack, <<"Module", resolver.marks[path]>>)

ImportCircular ==
    At("Import") /\ IsMarked(Canonical[Statement.path]) /\ Fail("CircularImport")

ImportNew ==
    /\ At("Import")
    /\ Canonical[Statement.path] \notin DOMAIN resolver.marks
    /\ EnterModule(Canonical[Statement.path])

ModuleEnds ==
    /\ phase = "resolving" /\ stack # <<>> /\ Top.rest = <<>> /\ Top.is = "Module"
    /\ LET m == Len(resolver.modules) + 1
           r == [resolver EXCEPT !.modules = Append(@, Top.exports), !.marks[Top.by] = m]
       IN IF Len(stack) = 1 THEN Resolved(r, <<>>) ELSE Bind(r, Tail(stack), <<"Module", m>>)

Label ==
    /\ At("Label")
    /\ LET w == ResolveExpression(Working(resolver, Top.is = "Function", Top.body),
                                  Top.scope, Statement.expression)
       IN IF w.error # "none" THEN Fail(w.error)
          ELSE Bind(w.r, <<[Top EXCEPT !.body = w.body]>> \o Tail(stack), <<"Label", w.out>>)

Return ==
    /\ At("Return")
    /\ LET w == ResolveExpression(Working(resolver, Top.is = "Function", Top.body),
                                  Top.scope, Statement.expression)
       IN CASE w.error # "none" -> Fail(w.error)
            [] Top.is = "Module" -> Fail("InvalidStatement")
            [] Top.result # 0 -> Fail("DoubleReturn")
            [] OTHER -> Resolved(w.r, <<[Top EXCEPT !.body = w.body, !.result = w.out,
                                                    !.rest = Tail(@)]>> \o Tail(stack))

(* The parameters of a function get their symbols; a default is resolved in *)
(* the scope of the parameters before it, into a body of its own.           *)
WithParameter(acc, name) ==
    LET n == NewSymbol(acc.w)
    IN [acc EXCEPT !.w = n, !.frame.scope = (name :> <<"Label", n.out>>) @@ @]

WithRequired(acc, name) ==
    LET a == WithParameter(acc, name)
    IN [a EXCEPT !.frame.parameters = Append(@, a.w.out)]

WithDefault(acc, parameter) ==
    LET d == ResolveExpression([acc.w EXCEPT !.body = <<>>], acc.frame.scope, parameter.default[1])
        a == WithParameter([acc EXCEPT !.w = d], parameter.name)
    IN IF acc.w.error # "none" THEN acc
       ELSE [a EXCEPT !.frame.defaults =
                Append(@, [parameter |-> a.w.out, symbol |-> d.out, body |-> d.body])]

FunctionBegins ==
    /\ At("Function")
    /\ LET start == [w |-> Working(resolver, TRUE, <<>>),
                     frame |-> Frame("Function", "", Statement.statements, Top.scope)]
           a == FoldLeft(WithDefault, FoldLeft(WithRequired, start, Statement.required),
                         Statement.defaults)
       IN IF a.w.error # "none" THEN Fail(a.w.error) ELSE Resolved(a.w.r, <<a.frame>> \o stack)

FunctionEnds ==
    /\ phase = "resolving" /\ stack # <<>> /\ Top.rest = <<>> /\ Top.is = "Function"
    /\ LET f == [parameters |-> Top.parameters, defaults |-> Top.defaults,
                 body |-> Top.body, result |-> Top.result]
           r == [resolver EXCEPT !.functions = Append(@, f)]
       IN IF Top.result = 0 THEN Fail("ReturnNotFound")
          ELSE Bind(r, Tail(stack), <<"Function", <<"Custom", Len(r.functions)>>>>)

(* The end of resolve: the entry point has to be a label the root exports.  *)
RootResolved ==
    /\ phase = "resolving" /\ stack = <<>> /\ resolver.modules # <<>>
    /\ LET item == Lookup(Last(resolver.modules), EntryPoint)
       IN IF item[1] # "Label" THEN Fail(KindError(item, "Label"))
          ELSE /\ phase' = "compiling"
               /\ compiler' = [compiler EXCEPT !.rest = resolver.top, !.start = item[2]]
               /\ UNCHANGED <<source, error, stack, resolver>>

-----------------------------------------------------------------------------
(* Compilation.  c.values maps symbols to a node of the graph and its type. *)
(* A symbol without a value is a panic ("Symbol not defined at usage        *)
(* site").  c.calls is for the properties alone: the nodes that the body of *)
(* a call with phantom inputs brought into the graph.                       *)

Defined(c, symbols) == \A i \in DOMAIN symbols : symbols[i] \in DOMAIN c.values

Set(c, symbol, value) == [c EXCEPT !.values = (symbol :> value) @@ @]

(* Mutant: every call is a new node. *)
PushNodeAnew(c, kind, inputs, phantoms) ==
    [c EXCEPT !.graph = Append(@, [kind |-> kind, inputs |-> inputs, phantoms |-> phantoms]),
              !.node = Len(c.graph) + 1]

(* push_node_with_cache; a call of an equal node is the node there is *)
PushNode(c, kind, inputs, phantoms) ==
    LET node == [kind |-> kind, inputs |-> inputs, phantoms |-> phantoms]
    IN IF node \in Range(c.graph)
       THEN [c EXCEPT !.node = CHOOSE i \in DOMAIN c.graph : c.graph[i] = node]
       ELSE [c EXCEPT !.graph = Append(@, node), !.node = Len(c.graph) + 1]

CompileBuiltin(c, name, kind, arguments, phantoms) ==
    LET type == ReturnType(kind, [i \in DOMAIN arguments |-> arguments[i].type])
        p == PushNode(c, kind, [i \in DOMAIN arguments |-> arguments[i].node], phantoms)
    IN IF type \in TypeErrors THEN [c EXCEPT !.error = type]
       ELSE Set(p, name, [node |-> p.node, type |-> type])

RECURSIVE CompileNode(_, _)
CompileBody(c, body) == FoldLeft(LAMBDA d, n : CompileNode(d, n), c, body)

BindDefault(c, default) ==
    LET b == CompileBody(c, default.body)
    IN CASE b.error # "none" -> b
         [] default.symbol \notin DOMAIN b.values -> [b EXCEPT !.error = "panic"]
         [] OTHER -> Set(b, default.parameter, b.values[default.symbol])

(* Mutant: the defaults are inlined whether or not there is an argument. *)
HandleArgumentsEagerly(c, f, arguments) ==
    LET all == f.parameters \o [i \in DOMAIN f.defaults |-> f.defaults[i].parameter]
        given == FoldLeft(LAMBDA d, i : Set(d, all[i], arguments[i]), c,
                          [i \in DOMAIN arguments |-> i])
    IN IF Len(arguments) < Len(f.parameters) \/ Len(arguments) > Len(all)
       THEN [c EXCEPT !.error = "ArgumentCountMismatch"]
       ELSE FoldLeft(BindDefault, given, f.defaults)

(* handle_custom_arguments: arguments go to the required parameters, then   *)
(* to those with defaults, whose bodies are inlined when arguments run out. *)
HandleArguments(c, f, arguments) ==
    LET required == Len(f.parameters)
        all == f.parameters \o [i \in DOMAIN f.defaults |-> f.defaults[i].parameter]
        given == FoldLeft(LAMBDA d, i : Set(d, all[i], arguments[i]), c,
                          [i \in DOMAIN arguments |-> i])
    IN IF Len(arguments) < required \/ Len(arguments) > Len(all)
       THEN [c EXCEPT !.error = "ArgumentCountMismatch"]
       ELSE FoldLeft(BindDefault, given,
                     SubSeq(f.defaults, Len(arguments) - required + 1, Len(f.defaults)))

(* create_phantom_noop *)
PhantomNoop(c, output, phantoms) == PushNode(c, <<"Builtin", "Noop">>, <<output>>, phantoms)

CompileCustom(c, name, f, arguments, phantoms) ==
    LET b == HandleArguments(c, f, arguments)
        d == IF b.error = "none" THEN CompileBody(b, f.body) ELSE b
        value == d.values[f.result]
        p == PhantomNoop(d, value.node, phantoms)
        call == [nodes |-> Len(c.graph) + 1 .. Len(d.graph), phantoms |-> Range(phantoms)]
    IN CASE d.error # "none" -> d
         [] f.result \notin DOMAIN d.values -> [d EXCEPT !.error = "panic"]
         [] phantoms = <<>> -> Set(d, name, value)
         [] OTHER -> [Set(p, name, [value EXCEPT !.node = p.node]) EXCEPT !.calls = @ \cup {call}]

CompileNode(c, n) ==
    LET arguments == [i \in DOMAIN n.arguments |-> c.values[n.arguments[i]]]
        phantoms == [i \in DOMAIN n.phantoms |-> c.values[n.phantoms[i]].node]
    IN CASE c.error # "none" -> c
         [] ~Defined(c, n.arguments \o n.phantoms) -> [c EXCEPT !.error = "panic"]
         [] n.function[1] = "Custom" ->
               CompileCustom(c, n.name, resolver.functions[n.function[2]], arguments, phantoms)
         [] OTHER -> CompileBuiltin(c, n.name, n.function, arguments, phantoms)

CompileNext ==
    /\ phase = "compiling" /\ compiler.rest # <<>>
    /\ LET c == CompileNode(compiler, Head(compiler.rest))
       IN IF c.error # "none" THEN Fail(c.error)
          ELSE /\ compiler' = [c EXCEPT !.rest = Tail(@)]
               /\ UNCHANGED <<source, phase, error, stack, resolver>>

Compiled ==
    /\ phase = "compiling" /\ compiler.rest = <<>>
    /\ IF ~Defined(compiler, <<compiler.start>>) THEN Fail("panic")
       ELSE /\ phase' = "compiled"
            /\ compiler' = [compiler EXCEPT !.node = compiler.values[compiler.start].node]
            /\ UNCHANGED <<source, error, stack, resolver>>

-----------------------------------------------------------------------------

Init ==
    /\ source \in Sources
    /\ phase = "resolving" /\ error = "none" /\ stack = <<>>
    /\ resolver = [marks |-> <<>>, modules |-> <<>>, functions |-> <<>>,
                   literals |-> <<>>, next |-> 1, top |-> <<>>]
    /\ compiler = [graph |-> <<>>, values |-> <<>>, rest |-> <<>>, start |-> 0,
                   node |-> 0, error |-> "none", calls |-> {}]

Next ==
    \/ Begin \/ ImportKnown \/ ImportCircular \/ ImportNew \/ ModuleEnds
    \/ Label \/ Return \/ FunctionBegins \/ FunctionEnds
    \/ RootResolved \/ CompileNext \/ Compiled

Spec == Init /\ [][Next]_vars
=============================================================================
