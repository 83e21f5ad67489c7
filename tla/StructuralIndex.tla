-------------------------- MODULE StructuralIndex --------------------------
(***************************************************************************)
(* The structural index: what acp.index extracts from a file, how it       *)
(* resolves imports, how an index is built in full and re-built for one    *)
(* file, and the queries it answers.                                       *)
(*                                                                         *)
(* A path is its parts and its extension.  A file's bytes are a content,   *)
(* and its content_hash is the content itself.  Ast[variant][content] is   *)
(* the set of nodes tree-sitter's parse yields (external): each node has   *)
(* its type, its place, its name and the place of its name, the types of   *)
(* its ancestors nearest first, the type of its value or source field, the *)
(* modules an import names, and for assignments whether the left side is   *)
(* an identifier (named).  Every list the code builds is sorted, on        *)
(* serialization or by the query that returns it, so lists are sets here.  *)
(***************************************************************************)
EXTENDS Integers, Sequences, FiniteSets, SequencesExt

CONSTANTS
  PathOrder,   \* every path there may be, in the order sorted() puts them
  Ast          \* external: [variant -> [content -> set of nodes]]

NoPath == [parts |-> <<>>, ext |-> "none"]

PathRank(p) == CHOOSE i \in DOMAIN PathOrder : PathOrder[i] = p

Smallest(S) == CHOOSE p \in S : \A q \in S : PathRank(p) <= PathRank(q)

DetectLanguage(p) ==
  CASE p.ext \in {"py", "pyi"} -> [label |-> "python", variant |-> "python"]
    [] p.ext = "ts"            -> [label |-> "typescript", variant |-> "typescript"]
    [] p.ext = "tsx"           -> [label |-> "typescript", variant |-> "tsx"]
    [] OTHER                   -> [label |-> "none", variant |-> "none"]

Indexable(p) == DetectLanguage(p).label # "none"

-----------------------------------------------------------------------------
(* Extraction.                                                             *)

Symbol(n, kind, lang, path) ==
  [name |-> n.name, kind |-> kind, language |-> lang, path |-> path, at |-> n.at]

Reference(n, lang, path, kind) ==
  [name |-> n.name, language |-> lang, path |-> path, at |-> n.at, kind |-> kind]

Within(n, types) == \E i \in DOMAIN n.up : n.up[i] \in types

PyDefTypes == {"function_definition", "class_definition"}
PyImports  == {"import_statement", "import_from_statement"}

PyIsMethod(n) ==
  LET enclosing == SelectSeq(n.up, LAMBDA t : t \in PyDefTypes)
  IN  enclosing # <<>> /\ Head(enclosing) = "class_definition"

PyDefs(nodes) == {n \in nodes : n.type \in PyDefTypes /\ n.named}

\* Only an assignment that is a statement of the module itself.
PyVariables(nodes) ==
  {n \in nodes : n.type = "assignment" /\ n.named /\ n.up = <<"expression_statement", "module">>}

PyKind(n) ==
  CASE n.type = "class_definition" -> "class"
    [] n.type = "assignment"       -> "variable"
    [] OTHER                       -> IF PyIsMethod(n) THEN "method" ELSE "function"

\* call and use are one kind: which of the two the code records depends on
\* whether the binding returns one object for a node reached twice.
RefKind(isImport) == IF isImport THEN "import" ELSE "code"

PyExtract(path, nodes) ==
  LET defs  == PyDefs(nodes) \union PyVariables(nodes)
      names == {n.nameAt : n \in defs}
  IN  [symbols    |-> {Symbol(n, PyKind(n), "python", path) : n \in defs},
       references |-> {Reference(n, "python", path, RefKind(Within(n, PyImports))) :
                         n \in {i \in nodes : i.type = "identifier" /\ i.at \notin names}},
       imports    |-> UNION {{[module |-> m, at |-> n.at] : m \in n.modules} :
                         n \in {i \in nodes : i.type \in PyImports}}]

TsClasses == {"class_declaration", "abstract_class_declaration"}
TsTypes   == {"interface_declaration", "type_alias_declaration", "enum_declaration"}
TsDefs    == {"function_declaration", "method_definition", "variable_declarator"}
             \union TsClasses \union TsTypes

TsKind(n) ==
  CASE n.type = "function_declaration" -> "function"
    [] n.type \in TsClasses            -> "class"
    [] n.type = "method_definition"    -> "method"
    [] n.type \in TsTypes              -> "type"
    [] n.type = "variable_declarator"  ->
         IF n.field \in {"arrow_function", "function_expression"} THEN "function" ELSE "variable"

\* An export with a source is an import edge too, but the identifiers in it
\* are ordinary uses.
TsExtract(path, nodes) ==
  LET defs  == {n \in nodes : n.type \in TsDefs /\ n.named}
      names == {n.nameAt : n \in defs}
  IN  [symbols    |-> {Symbol(n, TsKind(n), "typescript", path) : n \in defs},
       references |-> {Reference(n, "typescript", path, RefKind(Within(n, {"import_statement"}))) :
                         n \in {i \in nodes : /\ i.type \in {"identifier", "type_identifier"}
                                              /\ i.at \notin names}},
       imports    |-> UNION {{[module |-> m, at |-> n.at] : m \in n.modules} :
                         n \in {i \in nodes : /\ i.type \in {"import_statement", "export_statement"}
                                              /\ i.field = "string"}}]

Extract(path, content, variant) ==
  IF variant = "python" THEN PyExtract(path, Ast[variant][content])
                        ELSE TsExtract(path, Ast[variant][content])

-----------------------------------------------------------------------------
(* Import resolution.  A module is the dots it starts with (level), its    *)
(* parts, and for TypeScript the extension it was written with.            *)

FirstMatch(candidates, known) ==
  LET found == SelectSeq(candidates, LAMBDA p : p \in known)
  IN  IF found = <<>> THEN NoPath ELSE Head(found)

Parent(p) == IF p.parts = <<>> THEN <<>> ELSE Front(p.parts)

PyFiles(stem) ==
  <<[parts |-> stem, ext |-> "py"], [parts |-> stem \o <<"__init__">>, ext |-> "py"]>>

\* Absolute modules match by suffix, the smallest path first; a relative one
\* is looked up exactly, and nothing is found for the empty stem.
ResolvePython(m, from, known) ==
  IF m.level > 0
  THEN LET base == Parent(from)
           keep == Len(base) - (m.level - 1)
           stem == SubSeq(base, 1, keep) \o m.parts
       IN  IF keep < 0 \/ stem = <<>> THEN NoPath ELSE FirstMatch(PyFiles(stem), known)
  ELSE LET matches == {p \in known : \E i \in 1..2 : /\ p.ext = "py"
                                                     /\ IsSuffix(PyFiles(m.parts)[i].parts, p.parts)}
       IN  IF matches = {} THEN NoPath ELSE Smallest(matches)

\* One part of a relative module applied to a directory.
Step(dir, part) ==
  CASE part = "."  -> dir
    [] part = ".." -> IF dir = <<>> THEN dir ELSE Front(dir)
    [] OTHER       -> Append(dir, part)

ResolveTypescript(m, from, known) ==
  LET stem  == FoldLeft(Step, Parent(from), m.parts)
      index == stem \o <<"index">>
  IN  IF m.parts[1] \notin {".", ".."} \/ stem = <<>> THEN NoPath
      ELSE FirstMatch(<<[parts |-> stem, ext |-> m.ext]>> \o
                      (IF m.ext = ""
                       THEN <<[parts |-> stem,  ext |-> "ts"], [parts |-> stem,  ext |-> "tsx"],
                              [parts |-> index, ext |-> "ts"], [parts |-> index, ext |-> "tsx"]>>
                       ELSE <<>>), known)

ResolveImport(language, m, from, known) ==
  IF language = "python" THEN ResolvePython(m, from, known)
                         ELSE ResolveTypescript(m, from, known)

-----------------------------------------------------------------------------
(* Building.  A repo is a function from the paths of its files to their    *)
(* contents; an index is a function from paths to partitions.              *)

IgnoredDirs ==
  {".git", ".hg", ".svn", "node_modules", "__pycache__", ".venv", "venv", "dist", "build",
   ".acp", ".pytest_cache", ".mypy_cache", ".ruff_cache"}

Discover(repo) ==
  {p \in DOMAIN repo : Indexable(p) /\ \A i \in DOMAIN p.parts : p.parts[i] \notin IgnoredDirs}

FileIndex(p, content, known) ==
  LET lang == DetectLanguage(p)
      raw  == Extract(p, content, lang.variant)
  IN  [path |-> p, language |-> lang.label, hash |-> content,
       symbols |-> raw.symbols, references |-> raw.references,
       imports |-> {[from |-> p, module |-> i.module, at |-> i.at,
                     to |-> ResolveImport(lang.label, i.module, p, known)] : i \in raw.imports}]

IndexFile(repo, p, known) == FileIndex(p, repo[p], known)

Build(repo) == [p \in Discover(repo) |-> IndexFile(repo, p, Discover(repo))]

PutFile(index, fi) == [p \in DOMAIN index \union {fi.path} |-> IF p = fi.path THEN fi ELSE index[p]]

DropFile(index, path) == [p \in DOMAIN index \ {path} |-> index[p]]

\* Mutant: only the edited file is known when its imports are resolved.
ReindexAlone(index, repo, p) ==
  IF p \in DOMAIN repo THEN PutFile(index, IndexFile(repo, p, {p})) ELSE DropFile(index, p)

ReindexFile(index, repo, p) ==
  IF p \in DOMAIN repo
  THEN PutFile(index, IndexFile(repo, p, DOMAIN index \union {p}))
  ELSE DropFile(index, p)

-----------------------------------------------------------------------------
(* Queries, computed from the partitions at every call.                    *)

AllSymbols(index) == UNION {index[p].symbols : p \in DOMAIN index}

Definitions(index, name) == {s \in AllSymbols(index) : s.name = name}

ReferencesOf(index, name) ==
  {r \in UNION {index[p].references : p \in DOMAIN index} : r.name = name}

=============================================================================
