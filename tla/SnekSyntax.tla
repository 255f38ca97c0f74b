----------------------------- MODULE SnekSyntax -----------------------------
(***************************************************************************)
(* The parser of snek (snek/parser.rs): from the tokens of a file to its   *)
(* statements (snek/ast.rs).  A token is a pair of its kind and its text;  *)
(* spans are left out, and a file always ends with the token Eof.          *)
(***************************************************************************)
EXTENDS Naturals, Sequences, SequencesExt

Unit(kind) == <<kind, "">>

(* The statements and expressions of ast.rs.  A path is the sequence of its *)
(* identifiers.                                                             *)
ImportOf(export, path, name) ==
    [is |-> "Import", export |-> export, path |-> path, name |-> name]
ReturnOf(e) == [is |-> "Return", expression |-> e]
LabelOf(export, name, e) ==
    [is |-> "Label", export |-> export, name |-> name, expression |-> e]
FunctionOf(export, name, required, defaults, statements) ==
    [is |-> "Function", export |-> export, name |-> name, required |-> required,
     defaults |-> defaults, statements |-> statements]
LiteralOf(kind, value) == [is |-> kind, value |-> value]
PathOf(path) == [is |-> "Label", path |-> path]
NodeOf(name, arguments, phantoms) ==
    [is |-> "Node", name |-> name, arguments |-> arguments, phantoms |-> phantoms]
ChainOf(start, nodes) == [is |-> "Chain", start |-> start, nodes |-> nodes]

-----------------------------------------------------------------------------

(* What a parse function returns: a value and the tokens after it, or an    *)
(* error.  Then is the `?` operator of the code.                            *)
Parsed(out, rest) == [ok |-> TRUE, out |-> out, rest |-> rest]
Refused(error) == [ok |-> FALSE, out |-> error, rest |-> <<>>]
Then(r, Continue(_, _)) == IF r.ok THEN Continue(r.out, r.rest) ELSE r

Peek(ts) == IF ts = <<>> THEN "nothing" ELSE ts[1][1]

Expect(ts, kind) ==
    IF ts = <<>> THEN Refused("InternalError")
    ELSE IF Peek(ts) = kind THEN Parsed(ts[1][2], Tail(ts))
    ELSE Refused("UnexpectedToken")

RECURSIVE PathRest(_, _)
PathRest(path, ts) ==
    IF Peek(ts) = "::"
    THEN Then(Expect(Tail(ts), "Ident"),
              LAMBDA name, rest : PathRest(Append(path, name), rest))
    ELSE Parsed(path, ts)

ParseItemPath(ts) ==
    Then(Expect(ts, "Ident"), LAMBDA name, rest : PathRest(<<name>>, rest))

-----------------------------------------------------------------------------

RECURSIVE ParseItem(_, _), ListRest(_, _, _, _, _), ParseExpression(_),
          ChainRest(_, _, _), ParseNode(_), ParseStatement(_)

(* parse_list: items up to the closing token, with a separator between them *)
(* if there is one.                                                         *)
ListRest(out, ts, closing, separator, item) ==
    IF Peek(ts) = closing THEN Parsed(out, Tail(ts))
    ELSE Then(IF out = <<>> \/ separator = "none" THEN Parsed("", ts) ELSE Expect(ts, separator),
              LAMBDA v, t1 : Then(ParseItem(item, t1),
              LAMBDA x, t2 : ListRest(Append(out, x), t2, closing, separator, item)))

ParseList(ts, closing, separator, item) == ListRest(<<>>, ts, closing, separator, item)

ParsePhantoms(ts) ==
    IF Peek(ts) # "!" THEN Parsed(<<>>, ts)
    ELSE IF Peek(Tail(ts)) = "(" THEN ParseList(SubSeq(ts, 3, Len(ts)), ")", ",", "path")
    ELSE Then(ParseItemPath(Tail(ts)), LAMBDA path, rest : Parsed(<<path>>, rest))

(* The part of parse_node from the opening parenthesis on. *)
NodeCall(name, phantoms, ts) ==
    Then(Expect(ts, "("),
         LAMBDA v, t1 : Then(ParseList(t1, ")", ",", "expression"),
         LAMBDA arguments, t2 : Parsed(NodeOf(name, arguments, phantoms), t2)))

ParseNode(ts) ==
    Then(ParsePhantoms(ts),
         LAMBDA phantoms, t1 : Then(ParseItemPath(t1),
         LAMBDA name, t2 : NodeCall(name, phantoms, t2)))

ParseAtom(ts) ==
    IF Peek(ts) \in {"Numeric", "String"} THEN Parsed(LiteralOf(ts[1][1], ts[1][2]), Tail(ts))
    ELSE IF Peek(ts) # "Ident" THEN ParseNode(ts)
    ELSE Then(ParseItemPath(ts),
              LAMBDA path, rest : IF Peek(rest) = "(" THEN NodeCall(path, <<>>, rest)
                                  ELSE Parsed(PathOf(path), rest))

ChainRest(start, nodes, ts) ==
    IF Peek(ts) = ">"
    THEN Then(ParseNode(Tail(ts)), LAMBDA n, rest : ChainRest(start, Append(nodes, n), rest))
    ELSE Parsed(ChainOf(start, nodes), ts)

ParseExpression(ts) ==
    Then(ParseAtom(ts),
         LAMBDA e, rest : IF Peek(rest) = ">" THEN ChainRest(e, <<>>, rest) ELSE Parsed(e, rest))

ParseParameter(ts) ==
    Then(Expect(ts, "Ident"),
         LAMBDA name, t1 : IF Peek(t1) = "="
                           THEN Then(ParseExpression(Tail(t1)),
                                     LAMBDA e, t2 : Parsed([name |-> name, default |-> <<e>>], t2))
                           ELSE Parsed([name |-> name, default |-> <<>>], t1))

-----------------------------------------------------------------------------

ParseLabel(export, name, ts) ==
    Then(Expect(ts, "="),
         LAMBDA v, t1 : Then(ParseExpression(t1),
         LAMBDA e, t2 : Then(Expect(t2, ";"),
         LAMBDA w, t3 : Parsed(LabelOf(export, name, e), t3))))

ParseImport(export, ts) ==
    Then(Expect(ts, "String"),
         LAMBDA path, t1 : Then(Expect(t1, "as"),
         LAMBDA v, t2 : Then(Expect(t2, "Ident"),
         LAMBDA name, t3 : Then(Expect(t3, ";"),
         LAMBDA w, t4 : Parsed(ImportOf(export, path, name), t4)))))

HasDefault(p) == p.default # <<>>

(* A required parameter must not come after one with a default. *)
RequiredAfterDefault(ps) ==
    \E i, j \in DOMAIN ps : i < j /\ HasDefault(ps[i]) /\ ~HasDefault(ps[j])

ParseFunctionDef(export, ts) ==
    Then(Expect(ts, "Ident"),
         LAMBDA name, t1 : Then(Expect(t1, "("),
         LAMBDA v, t2 : Then(ParseList(t2, ")", ",", "parameter"),
         LAMBDA ps, t3 : IF RequiredAfterDefault(ps) THEN Refused("RequiredAfterDefault")
                         ELSE Then(Expect(t3, "{"),
         LAMBDA w, t4 : Then(ParseList(t4, "}", "none", "statement"),
         LAMBDA body, t5 :
             Parsed(FunctionOf(export, name,
                               [i \in DOMAIN SelectSeq(ps, LAMBDA p : ~HasDefault(p)) |-> ps[i].name],
                               SelectSeq(ps, HasDefault), body), t5))))))

ParseDefinition(export, ts) ==
    CASE Peek(ts) = "def" -> ParseFunctionDef(export, Tail(ts))
      [] Peek(ts) = "import" -> ParseImport(export, Tail(ts))
      [] Peek(ts) = "Ident" -> ParseLabel(export, ts[1][2], Tail(ts))
      [] OTHER -> Expect(ts, "definition")

ParseStatement(ts) ==
    CASE Peek(ts) = "export" -> ParseDefinition(TRUE, Tail(ts))
      [] Peek(ts) = "return" ->
            Then(ParseExpression(Tail(ts)),
                 LAMBDA e, t1 : Then(Expect(t1, ";"), LAMBDA v, t2 : Parsed(ReturnOf(e), t2)))
      [] OTHER -> ParseDefinition(FALSE, ts)

ParseItem(item, ts) ==
    CASE item = "path" -> ParseItemPath(ts)
      [] item = "expression" -> ParseExpression(ts)
      [] item = "parameter" -> ParseParameter(ts)
      [] item = "statement" -> ParseStatement(ts)

ParseFile(ts) == ParseList(ts, "Eof", "none", "statement")
=============================================================================
