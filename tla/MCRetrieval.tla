---------------------------- MODULE MCRetrieval ----------------------------
(* Retrieval on a small polyglot tree.                                     *)
EXTENDS Retrieval

P(parts, ext) == [parts |-> parts, ext |-> ext]

Svc    == P(<<"app", "svc">>, "py")            \* imports app.user
User   == P(<<"app", "user">>, "py")
Pkg  == P(<<"app", "user", "__init__">>, "py")
View   == P(<<"web", "view">>, "ts")           \* imports ./model
Model  == P(<<"web", "model">>, "tsx")
Notes  == P(<<"notes">>, "txt")

\* In string order: "." sorts before "/".
MCPathOrder == <<Svc, User, Pkg, Notes, Model, View>>

N(type, at, name, nameAt, up) ==
  [type |-> type, at |-> at, name |-> name, nameAt |-> nameAt, up |-> up,
   modules |-> {}, field |-> "none", named |-> TRUE]
Mod(level, parts) == [level |-> level, parts |-> parts, ext |-> ""]

Body == <<"block", "function_definition", "class_definition", "module">>

\* from app.user import User; class Svc: def run(): User(); LIMIT = 1
SvcAst ==
  {[N("import_from_statement", 1, "none", 0, <<"module">>) EXCEPT
      !.modules = {Mod(0, <<"app", "user">>)}],
   N("identifier", 2, "User", 2, <<"dotted_name", "import_from_statement", "module">>),
   N("class_definition", 3, "Svc", 4, <<"module">>),
   N("identifier", 4, "Svc", 4, <<"class_definition", "module">>),
   N("function_definition", 5, "run", 6, <<"block", "class_definition", "module">>),
   N("identifier", 7, "User", 7, <<"call">> \o Body),
   N("assignment", 8, "LIMIT", 8, <<"expression_statement", "module">>)}

\* from . import user; def run(): x = 1
RelAst ==
  {[N("import_from_statement", 1, "none", 0, <<"module">>) EXCEPT
      !.modules = {Mod(1, <<"user">>), Mod(4, <<>>), Mod(1, <<>>)}],
   N("function_definition", 2, "run", 3, <<"module">>),
   N("assignment", 4, "x", 4, <<"expression_statement", "block", "function_definition", "module">>),
   N("identifier", 4, "x", 4, <<"assignment">>)}

UserAst ==
  {N("class_definition", 1, "User", 2, <<"module">>),
   N("identifier", 2, "User", 2, <<"class_definition", "module">>)}

\* import { User } from "./model"; export * from "../gone"; const show = () => User
ViewAst ==
  {[N("import_statement", 1, "none", 0, <<"program">>) EXCEPT
      !.modules = {Mod(0, <<".", "model">>)}, !.field = "string"],
   N("identifier", 2, "User", 2, <<"import_clause", "import_statement", "program">>),
   [N("export_statement", 3, "none", 0, <<"program">>) EXCEPT
      !.modules = {Mod(0, <<"..", "..", "gone">>), Mod(0, <<"react">>)}, !.field = "string"],
   [N("variable_declarator", 4, "show", 4, <<"program">>) EXCEPT !.field = "arrow_function"],
   N("type_identifier", 5, "User", 5, <<"arrow_function", "program">>)}

ModelAst ==
  {N("interface_declaration", 1, "User", 2, <<"program">>),
   N("abstract_class_declaration", 3, "Base", 4, <<"program">>),
   N("method_definition", 5, "run", 5, <<"class_body", "program">>)}

MCAst ==
  [python     |-> [svc |-> SvcAst, rel |-> RelAst, user |-> UserAst],
   typescript |-> [view |-> ViewAst, view2 |-> {}],
   tsx        |-> [model |-> ModelAst]]

L(bytes, secret, word, opens) ==
  [bytes |-> bytes, secret |-> secret, word |-> word, opens |-> opens]

MCLines ==
  [svc   |-> <<L(4, 0, 2, FALSE), L(6, 4, 1, FALSE), L(1, 0, 0, FALSE), L(2, 0, 1, FALSE)>>,
   rel   |-> <<L(3, 0, 2, TRUE), L(1, 0, 0, FALSE), L(8, 0, 7, FALSE)>>,
   user  |-> <<L(5, 0, 5, FALSE)>>,
   view  |-> <<L(4, 0, 2, FALSE), L(4, 0, 2, FALSE)>>,
   view2 |-> <<L(2, 0, 2, FALSE)>>,
   model |-> <<L(7, 0, 2, FALSE)>>,
   notes |-> <<L(2, 0, 2, FALSE)>>]

MCCosts == 1..20

MCMatches == [u |-> {"User", "run"}, none |-> {}]

MCInitRepo ==
  [p \in {Svc, User, Pkg, View} |->
     CASE p = Svc -> "svc" [] p = View -> "view" [] OTHER -> "user"]

E(path, content) == [path |-> path, content |-> content]

MCEdits   == {E(Svc, "rel"), E(Model, "model"), E(Notes, "notes")}
MCCommits == {E(View, "view2")}

MCQueries ==
  {Call("search_symbols", "u", NoPath, 0, 0), Call("structural_grep", "none", NoPath, 0, 0),
   Call("definition", "User", NoPath, 0, 0), Call("references", "User", NoPath, 0, 0),
   Call("read_span", "none", Svc, 2, 3), Call("read_file", "none", Svc, 0, 0),
   Call("read_span", "none", Model, 1, 1), Call("list_dir", "none", P(<<"app">>, "none"), 0, 0)}

=============================================================================
