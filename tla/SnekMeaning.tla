----------------------------- MODULE SnekMeaning -----------------------------
(***************************************************************************)
(* What a snek program means, said over its syntax alone: names are bound  *)
(* to terms in environments, calls are evaluated in the environment of the *)
(* definition, and an equal call is an equal term.  There are no symbols,  *)
(* no function bodies that share a table of values and no caches.  The     *)
(* properties compare it with what the resolver and the compiler produce.  *)
(***************************************************************************)
EXTENDS Snek

Bad == [term |-> <<>>, type |-> "TypeMismatch"]
Value(kind, inputs, phantoms, type) ==
    [term |-> <<kind, inputs, phantoms>>, type |-> type]
Terms(vs) == [i \in DOMAIN vs |-> vs[i].term]
AnyBad(vs) == \E i \in DOMAIN vs : vs[i] = Bad

RECURSIVE Eval(_, _), Run(_, _)

FindItem(env, path) ==
    FoldLeft(LAMBDA item, name : IF item[1] = "Module" THEN Lookup(item[2], name) ELSE <<"Bad", 0>>,
             Lookup(env.names, Head(path)), Tail(path))

LabelAt(env, path) ==
    LET item == FindItem(env, path) IN IF item[1] = "Label" THEN item[2] ELSE Bad

CallBuiltin(kind, args, phantoms) ==
    LET type == ReturnType(kind, [i \in DOMAIN args |-> args[i].type])
    IN IF type \in TypeErrors THEN Bad ELSE Value(kind, Terms(args), Terms(phantoms), type)

CallCustom(f, args, phantoms) ==
    LET s == f.statement
        names == s.required \o [i \in DOMAIN s.defaults |-> s.defaults[i].name]
        given == FoldLeft(LAMBDA env, i : [env EXCEPT !.names = (names[i] :> <<"Label", args[i]>>) @@ @],
                          f.env, [i \in DOMAIN args |-> i])
        env == FoldLeft(LAMBDA e, d : [e EXCEPT !.names =
                                          (d.name :> <<"Label", Eval(e, d.default[1])>>) @@ @],
                        given, SubSeq(s.defaults, Len(args) - Len(s.required) + 1, Len(s.defaults)))
        result == Run([env EXCEPT !.result = Bad], s.statements).result
    IN IF Len(args) < Len(s.required) \/ Len(args) > Len(names) \/ result = Bad THEN Bad
       ELSE IF phantoms = <<>> THEN result
       ELSE CallBuiltin(<<"Builtin", "Noop">>, <<result>>, phantoms)

Call(env, node, first) ==
    LET f == FindItem(env, node.name)
        args == first \o [i \in DOMAIN node.arguments |-> Eval(env, node.arguments[i])]
        phantoms == [i \in DOMAIN node.phantoms |-> LabelAt(env, node.phantoms[i])]
    IN CASE f[1] # "Function" \/ AnyBad(args) \/ AnyBad(phantoms) -> Bad
         [] f[2][1] = "Builtin" -> CallBuiltin(f[2], args, phantoms)
         [] OTHER -> CallCustom(f[2][2], args, phantoms)

Eval(env, e) ==
    CASE e.is \in {"Numeric", "String"} -> Value(<<e.is, e.value>>, <<>>, <<>>, LiteralType(e.is))
      [] e.is = "Label" -> LabelAt(env, e.path)
      [] e.is = "Node" -> Call(env, e, <<>>)
      [] e.is = "Chain" -> FoldLeft(LAMBDA v, n : Call(env, n, <<v>>), Eval(env, e.start), e.nodes)

Environment(open) ==
    [names |-> PreludeScope, exports |-> <<>>, result |-> Bad, open |-> open]

ModuleAt(env, path) ==
    IF path \notin DOMAIN source.meant \/ path \in env.open THEN <<"Bad", 0>>
    ELSE <<"Module", Run(Environment(env.open \cup {path}), source.meant[path]).exports>>

Item(env, s) ==
    CASE s.is = "Import" -> ModuleAt(env, Canonical[s.path])
      [] s.is = "Label" -> <<"Label", Eval(env, s.expression)>>
      [] s.is = "Function" -> <<"Function", <<"Custom", [statement |-> s, env |-> env]>>>>

Run(env, statements) ==
    FoldLeft(LAMBDA e, s :
                IF s.is = "Return" THEN [e EXCEPT !.result = Eval(e, s.expression)]
                ELSE [e EXCEPT !.names = (s.name :> Item(e, s)) @@ @,
                               !.exports = IF s.export THEN (s.name :> Item(e, s)) @@ @ ELSE @],
             env, statements)

Meaning ==
    LET item == Lookup(Run(Environment({RootFile}), source.meant[RootFile]).exports, EntryPoint)
    IN IF item[1] = "Label" THEN item[2] ELSE Bad

-----------------------------------------------------------------------------
(* The tokens a program is written with. *)

Commas(ts) ==
    FoldLeft(LAMBDA out, t : IF out = <<>> THEN t ELSE out \o <<Unit(",")>> \o t, <<>>, ts)
WrittenPath(path) ==
    FoldLeft(LAMBDA out, name : out \o <<Unit("::"), <<"Ident", name>>>>,
             <<<<"Ident", Head(path)>>>>, Tail(path))
WrittenPhantoms(ps) ==
    CASE ps = <<>> -> <<>>
      [] Len(ps) = 1 -> <<Unit("!")>> \o WrittenPath(ps[1])
      [] OTHER -> <<Unit("!"), Unit("(")>> \o Commas([i \in DOMAIN ps |-> WrittenPath(ps[i])])
                    \o <<Unit(")")>>

RECURSIVE Written(_)
WrittenNode(n) ==
    WrittenPhantoms(n.phantoms) \o WrittenPath(n.name) \o <<Unit("(")>>
      \o Commas([i \in DOMAIN n.arguments |-> Written(n.arguments[i])]) \o <<Unit(")")>>
Written(e) ==
    CASE e.is \in {"Numeric", "String"} -> <<<<e.is, e.value>>>>
      [] e.is = "Label" -> WrittenPath(e.path)
      [] e.is = "Node" -> WrittenNode(e)
      [] e.is = "Chain" ->
            FoldLeft(LAMBDA out, n : out \o <<Unit(">")>> \o WrittenNode(n), Written(e.start), e.nodes)

RECURSIVE WrittenStatement(_)
WrittenStatements(ss) == FlattenSeq([i \in DOMAIN ss |-> WrittenStatement(ss[i])])
WrittenStatement(s) ==
    LET export == IF s.is # "Return" /\ s.export THEN <<Unit("export")>> ELSE <<>>
        parameters == [i \in DOMAIN s.required |-> <<<<"Ident", s.required[i]>>>>]
          \o [i \in DOMAIN s.defaults |-> <<<<"Ident", s.defaults[i].name>>, Unit("=")>>
                                             \o Written(s.defaults[i].default[1])]
    IN CASE s.is = "Return" -> <<Unit("return")>> \o Written(s.expression) \o <<Unit(";")>>
         [] s.is = "Label" -> export \o <<<<"Ident", s.name>>, Unit("=")>>
                                \o Written(s.expression) \o <<Unit(";")>>
         [] s.is = "Import" -> export \o <<Unit("import"), <<"String", s.path>>, Unit("as"),
                                           <<"Ident", s.name>>, Unit(";")>>
         [] s.is = "Function" -> export \o <<Unit("def"), <<"Ident", s.name>>, Unit("(")>>
                                   \o Commas(parameters) \o <<Unit(")"), Unit("{")>>
                                   \o WrittenStatements(s.statements) \o <<Unit("}")>>
WrittenFile(ss) == Append(WrittenStatements(ss), Unit("Eof"))

-----------------------------------------------------------------------------
(* The properties. *)

RECURSIVE TermOf(_)
TermOf(i) ==
    LET node == compiler.graph[i]
    IN <<node.kind, [j \in DOMAIN node.inputs |-> TermOf(node.inputs[j])],
         [j \in DOMAIN node.phantoms |-> TermOf(node.phantoms[j])]>>

(* The graph is the program: the start node, unfolded, is the term that the *)
(* entry point means, and a program that is written out and means something *)
(* is not refused by the parser or the type check.  Inlining by one table   *)
(* of symbols that calls overwrite, deferred defaults, shared literals and  *)
(* the cache of nodes make no difference.                                   *)
CompiledMeansSource ==
    /\ phase = "compiled" /\ source.whole => TermOf(compiler.node) = Meaning.term
    /\ error \in TypeErrors \cup {"UnexpectedToken", "RequiredAfterDefault"} /\ source.whole
         => Meaning = Bad

(* No program makes the compiler look up a symbol that has no value ("Symbol *)
(* not defined at usage site"), and none makes the parser run past its       *)
(* tokens, also when a token is missing.                                     *)
NeverPanics == error \notin {"panic", "InternalError"}

(* The graph can be scheduled: a node only depends on nodes before it, and  *)
(* no two nodes are the same call.                                          *)
GraphIsShared ==
    \A i \in DOMAIN compiler.graph :
       LET n == compiler.graph[i]
       IN /\ \A d \in Range(n.inputs) \cup Range(n.phantoms) : d < i
          /\ \A j \in 1 .. i - 1 : compiler.graph[j] # n

Imports(path) ==
    IF path \notin DOMAIN source.meant THEN {}
    ELSE {Canonical[s.path] : s \in {x \in Range(source.meant[path]) : x.is = "Import"}}
RECURSIVE Reachable(_)
Reachable(paths) ==
    LET more == paths \cup UNION {Imports(p) : p \in paths}
    IN IF more = paths THEN paths ELSE Reachable(more)

(* A cycle of imports is told from a module that is imported twice: nothing *)
(* with a cycle compiles, a cycle is only reported where there is one, and  *)
(* at every moment the marks without a module are those of the modules      *)
(* whose statements are being resolved.                                     *)
CyclesAreReported ==
    source.whole =>
      LET cyclic == \E p \in Reachable({RootFile}) : p \in Reachable(Imports(p))
      IN /\ phase = "compiled" => ~cyclic
         /\ error = "CircularImport" => cyclic
         /\ {p \in DOMAIN resolver.marks : resolver.marks[p] = 0}
              = {stack[i].by : i \in {j \in DOMAIN stack : stack[j].is = "Module"}}

(* What a node is or waits for, and so on. *)
RECURSIVE Before(_)
Before(i) ==
    LET n == compiler.graph[i]
        deps == Range(n.inputs) \cup Range(n.phantoms)
    IN deps \cup UNION {Before(d) : d \in deps}

(* As the book has it of phantom inputs, the scheduler waits for them before *)
(* continuing with the execution of the given node, and a function is called *)
(* like a normal node: what a call runs runs after the call's phantom inputs. *)
PhantomsGateTheCall ==
    \A call \in compiler.calls : \A i \in call.nodes : call.phantoms \subseteq Before(i)
=============================================================================
