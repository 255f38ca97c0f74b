------------------------------- MODULE MCSnek -------------------------------
(* Small programs for Snek: a root file of three statements from pools  *)
(* and an entry point, with a library that is plain, shares a third file with   *)
(* the root, or closes a cycle; and one program with each token left out.   *)
EXTENDS SnekMeaning

S(v) == LiteralOf("String", v)
V(name) == PathOf(<<name>>)
N(name, args) == NodeOf(<<name>>, args, <<>>)
Chained(e, n) == ChainOf(e, <<n>>)
Default(name, e) == [name |-> name, default |-> <<e>>]

MCCanonical == [p \in {"main", "lib", "util", "./lib", "gone"} |-> IF p = "./lib" THEN "lib" ELSE p]

Run1 == N("Exec", <<S("c")>>)

\* def f(a, b = a > Exec("c"), c = b) { t = Exec(a, "d"); return !(b) With(t, Export(c, "c"), "d"); }
LibF ==
    FunctionOf(TRUE, "f", <<"a">>, <<Default("b", Chained(V("a"), Run1)), Default("c", V("b"))>>,
      <<LabelOf(FALSE, "t", N("Exec", <<V("a"), S("d")>>)),
        ReturnOf(NodeOf(<<"With">>, <<V("t"), N("Export", <<V("c"), S("c")>>), S("d")>>, <<<<"b">>>>))>>)

LibBase == LabelOf(TRUE, "base", N("Image", <<S("i")>>))
Lib(extra) == extra \o <<LibBase, LibF>>
UtilFile == <<ImportOf(TRUE, "./lib", "l"), LabelOf(TRUE, "u", Chained(PathOf(<<"l", "base">>), Run1))>>

\* a function in a function, which uses a parameter of the outer one
Closure ==
    FunctionOf(FALSE, "g", <<"a">>, <<>>,
      <<FunctionOf(FALSE, "k", <<"b">>, <<>>, <<ReturnOf(N("All", <<V("b"), V("a")>>))>>),
        ReturnOf(N("k", <<Chained(V("a"), Run1)>>))>>)

Importing ==
    FunctionOf(FALSE, "g", <<"a">>, <<>>,
      <<ImportOf(FALSE, "util", "m"),
        ReturnOf(ChainOf(V("a"), <<Run1, NodeOf(<<"m", "l", "f">>, <<PathOf(<<"m", "u">>)>>, <<>>)>>))>>)

First ==
    {ImportOf(FALSE, "lib", "l"), ImportOf(TRUE, "./lib", "l"), ImportOf(FALSE, "util", "l"),
     ImportOf(FALSE, "gone", "l")}

Base == PathOf(<<"l", "base">>)

Middle ==
    {LabelOf(FALSE, "x", N("Image", <<S("i")>>)), LabelOf(FALSE, "x", Base),
     LabelOf(FALSE, "x", LiteralOf("Numeric", "1")),
     ImportOf(FALSE, "main", "x"), ReturnOf(S("c"))}

Functions ==
    {Closure, Importing,
     FunctionOf(FALSE, "g", <<"a">>, <<Default("b", S("c"))>>, <<ReturnOf(N("Exec", <<V("a"), V("b")>>))>>),
     FunctionOf(FALSE, "g", <<"a">>, <<>>, <<LabelOf(FALSE, "t", V("a"))>>),
     FunctionOf(FALSE, "g", <<"a">>, <<>>, <<ReturnOf(V("a")), ReturnOf(V("a"))>>),
     FunctionOf(FALSE, "g", <<"a">>, <<>>, <<LabelOf(TRUE, "t", V("a")), ReturnOf(V("t"))>>)}

Final ==
    {N("g", <<V("x")>>),
     NodeOf(<<"l", "f">>, <<Base>>, <<>>),
     NodeOf(<<"l", "f">>, <<Base, V("x")>>, <<>>),
     NodeOf(<<"l", "f">>, <<Base>>, <<<<"x">>>>),
     NodeOf(<<"g">>, <<Base>>, <<<<"x">>, <<"l", "base">>>>),
     ChainOf(N("g", <<Base>>), <<NodeOf(<<"l", "f">>, <<>>, <<>>), N("g", <<>>)>>),
     N("All", <<NodeOf(<<"l", "f">>, <<Base>>, <<>>), NodeOf(<<"l", "f">>, <<V("x")>>, <<>>)>>),
     N("Exec", <<S("c"), V("x")>>), NodeOf(<<"l", "f">>, <<>>, <<>>), PathOf(<<"l">>), V("y"),
     N("Join", <<S("c"), N("ExecOutput", <<V("x"), S("d")>>)>>)}

Programs ==
    {[main |-> <<a, b, g, LabelOf(TRUE, "DEFAULT", e)>>, lib |-> Lib(x), util |-> UtilFile] :
       a \in First, b \in Middle, g \in Functions, e \in Final,
       x \in {<<>>, <<ImportOf(FALSE, "util", "v")>>}}

Whole(p) == [text |-> [f \in DOMAIN p |-> WrittenFile(p[f])], meant |-> p, whole |-> TRUE]

Damaged(p) ==
    LET text == WrittenFile(p.lib)
    IN {[Whole(p) EXCEPT !.text.lib = RemoveAt(text, i), !.whole = FALSE] : i \in 1 .. Len(text) - 1}

MCSources ==
    {Whole(p) : p \in Programs}
      \cup Damaged([main |-> <<ImportOf(FALSE, "lib", "l"),
                               LabelOf(TRUE, "DEFAULT", NodeOf(<<"l", "f">>, <<Base>>, <<>>))>>,
                    lib |-> Lib(<<>>), util |-> UtilFile])
=============================================================================
