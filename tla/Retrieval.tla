------------------------------ MODULE Retrieval ------------------------------
(***************************************************************************)
(* A workspace's repo, head and index.json, the processes that write them  *)
(* (update_file, build_index, a peer's commit) and the retrieval sessions  *)
(* that read them: seven primitives, each redacted, priced and charged     *)
(* before it is served.                                                    *)
(*                                                                         *)
(* A charge is the atomic one of AtomicLedger, which Ledger implements.    *)
(* The snapshot id is a hash of the tree and is the tree itself here.      *)
(* index.json is written by open-truncate-write, so a reader may find it   *)
(* torn.  A commit is one step: Workspace takes it apart.                  *)
(***************************************************************************)
EXTENDS StructuralIndex, AtomicLedger

CONSTANTS
  Sessions,      \* RetrievalServiceImpl objects, one scope and budget
  Writer,        \* the process that calls update_file and build_index
  Lines,         \* [content -> sequence of lines]
  MarkerBytes,   \* size of the marker that replaces a secret value
  SymbolBytes, SpanBytes, NameBytes,  \* size of one line of a metadata answer
  Matches,       \* [pattern -> names it is a substring of]
  Limit,         \* limit of search_symbols and structural_grep
  Queries,       \* the calls a session may make
  InitRepo,      \* the ingested tree
  Edits,         \* [path, content] pairs update_file may be given
  Commits,       \* [path, content] pairs a peer's commit may bring
  MaxEdits       \* bound: updates and commits in all

ASSUME RetrievalAssumption ==
  /\ IsFiniteSet(Sessions) /\ Writer \notin Sessions
  /\ Budget \in Nat /\ MaxEdits \in Nat /\ Limit \in Nat
  /\ MarkerBytes \in Nat /\ SymbolBytes \in Nat /\ SpanBytes \in Nat /\ NameBytes \in Nat

\* A file: a path of the order, a text, and a finite parse if its language is indexed.
File(p, content) ==
  /\ p \in Range(PathOrder) /\ content \in DOMAIN Lines
  /\ Indexable(p) => IsFiniteSet(Ast[DetectLanguage(p).variant][content])

ASSUME FileAssumption ==
  /\ IsFiniteSet(Range(PathOrder))
  /\ \A p \in DOMAIN InitRepo : File(p, InitRepo[p])
  /\ \A e \in Edits \union Commits : File(e.path, e.content)

VARIABLES
  repo,    \* the files on disk
  head,    \* workspaces.head_commit
  idx,     \* index.json: [state, files]
  pc,      \* where each process is
  op,      \* the call it is executing
  got,     \* the index it holds in memory: a session's cache
  snap,    \* the snapshot a session is pinned to
  bill,    \* the cost of the answer a session is about to charge
  served,  \* history: the cost of every answer returned
  grown,   \* history: a file was added since the last full build
  edits    \* updates and commits so far

rvars == <<repo, head, idx, pc, op, got, snap, bill, served, grown, edits, spent, appended>>

Procs   == Sessions \union {Writer}
NoFiles == [p \in {} |-> p]
NoIndex == [state |-> "absent", files |-> NoFiles]
Torn    == [state |-> "torn", files |-> NoFiles]
Whole(files) == [state |-> "whole", files |-> files]

\* The calls, as records of one shape.
Call(prim, name, path, lo, hi) ==
  [prim |-> prim, name |-> name, path |-> path, lo |-> lo, hi |-> hi]
Idle == Call("none", "none", NoPath, 0, 0)

-----------------------------------------------------------------------------
(* Redaction and price.  A line has its size, the size of a secret value   *)
(* in it (0: none), the size of its first word, and whether it ends in a   *)
(* secret's name and separator, whose value is then the next word.         *)

\* The first word of line j is the value of a name on an earlier line.
Continues(ls, j) ==
  /\ ls[j].word > 0
  /\ \E i \in 1..(j - 1) : ls[i].opens /\ \A k \in (i + 1)..(j - 1) : ls[k].word = 0

\* What is secret in a line is part of it, and a secret after a word that is
\* itself a value does not overlap it.
ASSUME LineAssumption ==
  \A c \in DOMAIN Lines :
    /\ Lines[c] \in Seq([bytes : Nat, secret : Nat, word : Nat, opens : BOOLEAN])
    /\ \A j \in DOMAIN Lines[c] :
         /\ Lines[c][j].secret <= Lines[c][j].bytes
         /\ Continues(Lines[c], j) => Lines[c][j].secret + Lines[c][j].word <= Lines[c][j].bytes

RedactedLine(ls, j) ==
  ls[j].bytes + (IF ls[j].secret > 0 THEN MarkerBytes - ls[j].secret ELSE 0)
              + (IF Continues(ls, j) THEN MarkerBytes - ls[j].word ELSE 0)

redact(ls) == MapThenSumSet(LAMBDA j : RedactedLine(ls, j), DOMAIN ls)

\* Mutant: no overhead per call, so an empty answer is free.
cost_of_bytes(bytes) == (bytes + 3) \div 4

token_cost(bytes) == 1 + (bytes + 3) \div 4

\* Mutant: an open end leaves out the last line.
ReadLinesShort(ls, start, end) ==
  SubSeq(ls, IF start < 1 THEN 1 ELSE start,
         IF end = 0 THEN Len(ls) - 1 ELSE IF end < Len(ls) THEN end ELSE Len(ls))

\* Lines start..end, 1-based and inclusive; end 0 stands for None.
ReadLines(ls, start, end) ==
  SubSeq(ls, IF start < 1 THEN 1 ELSE start,
         IF end = 0 \/ end > Len(ls) THEN Len(ls) ELSE end)

-----------------------------------------------------------------------------
(* What each primitive returns, as the size of its text.                   *)

Text(n, size) == IF n = 0 THEN 0 ELSE n * size + (n - 1)

Truncated(n) == IF n < Limit THEN n ELSE Limit

NameHits(index, pattern) ==
  Truncated(Cardinality({s \in AllSymbols(index) : s.name \in Matches[pattern]}))

Entries(dir) ==
  {p.parts[Len(dir) + 1] : p \in {q \in DOMAIN repo : IsStrictPrefix(dir, q.parts)}}

Content(index, q) ==
  CASE q.prim = "search_symbols"  -> Text(NameHits(index, q.name), SymbolBytes)
    [] q.prim = "structural_grep" -> Text(NameHits(index, q.name), SpanBytes)
    [] q.prim = "definition"      ->
         IF Definitions(index, q.name) = {} THEN 0 ELSE SymbolBytes
    [] q.prim = "references"      -> Text(Cardinality(ReferencesOf(index, q.name)), SpanBytes)
    [] q.prim = "read_span"       -> redact(ReadLines(Lines[repo[q.path]], q.lo, q.hi))
    [] q.prim = "read_file"       -> redact(ReadLines(Lines[repo[q.path]], 1, 0))
    [] q.prim = "list_dir"        -> Text(Cardinality(Entries(q.path.parts)), NameBytes)

FromIndex == {"search_symbols", "structural_grep", "definition", "references"}

ASSUME QueryAssumption ==
  \A q \in Queries : /\ q.prim \in FromIndex \union {"read_span", "read_file", "list_dir"}
                     /\ q.lo \in Int /\ q.hi \in Nat

\* The file, or the directory, is there.
Found(q) ==
  IF q.prim = "list_dir" THEN q.path.parts = <<>> \/ Entries(q.path.parts) # {}
                         ELSE q.path \in DOMAIN repo

-----------------------------------------------------------------------------
Init ==
  /\ repo = InitRepo /\ head = InitRepo
  /\ idx \in {NoIndex, Whole(Build(InitRepo))}
  /\ pc = [p \in Procs |-> IF p = Writer THEN "idle" ELSE "closed"]
  /\ op = [p \in Procs |-> Idle]
  /\ got = [p \in Procs |-> NoIndex]
  /\ snap = [s \in Sessions |-> NoFiles]
  /\ bill = [s \in Sessions |-> 0]
  /\ served = 0 /\ grown = FALSE /\ edits = 0
  /\ ALInit

Goto(p, from, to) == pc[p] = from /\ pc' = [pc EXCEPT ![p] = to]

ledger  == <<spent, appended>>
history == <<served, grown, edits>>

\* A process ends its call: back to idle, with nothing in hand (the writer) or
\* with its cache (a session).
Done(p) ==
  /\ pc' = [pc EXCEPT ![p] = "idle"]
  /\ op' = [op EXCEPT ![p] = Idle]

-----------------------------------------------------------------------------
(* load_index and build_index, for whichever process runs them.            *)

\* The index file is there: read it.
LoadWhole(p) ==
  /\ idx.state = "whole"
  /\ Goto(p, "load", "loaded")
  /\ got' = [got EXCEPT ![p] = idx]
  /\ UNCHANGED <<repo, head, idx, op, snap, bill, ledger, history>>

\* Mutant: a reader that finds half a file tries again.
RetryTorn(p) ==
  /\ idx.state = "torn" /\ Goto(p, "load", "load")
  /\ UNCHANGED <<repo, head, idx, op, got, snap, bill, ledger, history>>

\* json.loads raises on half a file.
LoadTorn(p) ==
  /\ idx.state = "torn" /\ pc[p] = "load"
  /\ Done(p)
  /\ UNCHANGED <<repo, head, idx, got, snap, bill, ledger, history>>

\* build(): every discovered file, then the file is opened and truncated.
StartBuild(p, from) ==
  /\ Goto(p, from, "building")
  /\ got' = [got EXCEPT ![p] = Whole(Build(repo))]
  /\ idx' = Torn
  /\ grown' = FALSE
  /\ UNCHANGED <<repo, head, snap, bill, ledger, served, edits>>

LoadAbsent(p) == idx.state = "absent" /\ StartBuild(p, "load") /\ UNCHANGED op

\* Where two writers had the file open at once, their bytes may be mixed.
Saved(p) ==
  {got[p]} \union
  (IF \/ idx \notin {Torn, got[p]}
      \/ \E q \in Procs \ {p} : pc[q] \in {"building", "saving"} /\ got[q] # got[p]
   THEN {Torn} ELSE {})

FinishBuild(p) ==
  /\ pc[p] = "building"
  /\ idx' \in Saved(p)
  /\ IF op[p].prim = "build_index"
     THEN Done(p) /\ got' = [got EXCEPT ![p] = NoIndex]
     ELSE Goto(p, "building", "loaded") /\ UNCHANGED <<op, got>>
  /\ UNCHANGED <<repo, head, snap, bill, ledger, history>>

-----------------------------------------------------------------------------
(* The writer.                                                             *)

BuildIndex ==
  /\ StartBuild(Writer, "idle")
  /\ op' = [op EXCEPT ![Writer] = Call("build_index", "none", NoPath, 0, 0)]

Put(path, content) ==
  repo' = [p \in DOMAIN repo \union {path} |-> IF p = path THEN content ELSE repo[p]]

Adds(path) == grown' = (grown \/ path \notin DOMAIN repo)

\* update_file: the new content is written first.
UpdateFile(path, content) ==
  /\ edits < MaxEdits
  /\ Goto(Writer, "idle", "load")
  /\ Put(path, content) /\ Adds(path)
  /\ op' = [op EXCEPT ![Writer] = Call("update_file", "none", path, 0, 0)]
  /\ edits' = edits + 1
  /\ UNCHANGED <<head, idx, got, snap, bill, ledger, served>>

\* reindex_file in memory; for a path that is no indexed language it raises,
\* with the file written and the head left as it was.
Reindex ==
  /\ pc[Writer] = "loaded"
  /\ \/ /\ Indexable(op[Writer].path)
        /\ Goto(Writer, "loaded", "reindexed")
        /\ got' = [got EXCEPT ![Writer] = Whole(ReindexFile(@.files, repo, op[Writer].path))]
        /\ grown' = (grown \/ op[Writer].path \notin DOMAIN got[Writer].files)
        /\ UNCHANGED op
     \/ /\ ~Indexable(op[Writer].path)
        /\ Done(Writer)
        /\ got' = [got EXCEPT ![Writer] = NoIndex]
        /\ UNCHANGED grown
  /\ UNCHANGED <<repo, head, idx, snap, bill, ledger, served, edits>>

SetHead ==
  /\ Goto(Writer, "reindexed", "save")
  /\ head' = repo
  /\ UNCHANGED <<repo, idx, op, got, snap, bill, ledger, history>>

OpenForWrite ==
  /\ Goto(Writer, "save", "saving")
  /\ idx' = Torn
  /\ UNCHANGED <<repo, head, op, got, snap, bill, ledger, history>>

WriteIndex ==
  /\ pc[Writer] = "saving"
  /\ idx' \in Saved(Writer)
  /\ Done(Writer)
  /\ got' = [got EXCEPT ![Writer] = NoIndex]
  /\ UNCHANGED <<repo, head, snap, bill, ledger, history>>

\* The writer dies; what is on disk stays.  Another takes its place.
WriterDies ==
  /\ pc[Writer] # "idle"
  /\ Done(Writer)
  /\ got' = [got EXCEPT ![Writer] = NoIndex]
  /\ UNCHANGED <<repo, head, idx, snap, bill, ledger, history>>

\* commit_worktree by another process: files and head, not the index.
PeerCommits(path, content) ==
  /\ edits < MaxEdits
  /\ Put(path, content) /\ Adds(path)
  /\ head' = repo'
  /\ edits' = edits + 1
  /\ UNCHANGED <<idx, pc, op, got, snap, bill, ledger, served>>

-----------------------------------------------------------------------------
(* A session.                                                              *)

\* The agent loop, or the CLI, pins the session to the head.
Open(s) ==
  /\ Goto(s, "closed", "idle")
  /\ snap' = [snap EXCEPT ![s] = head]
  /\ UNCHANGED <<repo, head, idx, op, got, bill, ledger, history>>

\* A primitive is called; the index comes from the cache if it is there.
Ask(s, q) ==
  /\ Goto(s, "idle", IF q.prim \notin FromIndex \/ got[s].state = "whole"
                     THEN "loaded" ELSE "head")
  /\ op' = [op EXCEPT ![s] = q]
  /\ UNCHANGED <<repo, head, idx, got, snap, bill, ledger, history>>

\* A snapshot that is no longer the head is NotFound.
CheckHead(s) ==
  /\ \/ head = snap[s] /\ Goto(s, "head", "load") /\ UNCHANGED op
     \/ head # snap[s] /\ pc[s] = "head" /\ Done(s)
  /\ UNCHANGED <<repo, head, idx, got, snap, bill, ledger, history>>

\* The answer is computed and priced; nothing is charged yet.
Compute(s) ==
  /\ s \in Sessions /\ pc[s] = "loaded"
  /\ \/ /\ op[s].prim \in FromIndex \/ Found(op[s])
        /\ Goto(s, "loaded", "charge")
        /\ bill' = [bill EXCEPT ![s] = token_cost(Content(got[s].files, op[s]))]
        /\ UNCHANGED op
     \/ /\ op[s].prim \notin FromIndex /\ ~Found(op[s])
        /\ Done(s) /\ UNCHANGED bill
  /\ UNCHANGED <<repo, head, idx, got, snap, ledger, history>>

\* _charge: charge_atomic pays, or raises BudgetExceeded and writes nothing.
Charge(s) ==
  /\ Goto(s, "charge", "paid") /\ ALCharge(bill[s])
  /\ UNCHANGED <<repo, head, idx, op, got, snap, bill, history>>

\* Mutant: the answer is returned although the charge was refused.
RefuseServes(s) ==
  /\ spent + bill[s] > Budget /\ Goto(s, "charge", "paid")
  /\ UNCHANGED <<repo, head, idx, op, got, snap, bill, ledger, history>>

Refuse(s) ==
  /\ spent + bill[s] > Budget /\ pc[s] = "charge"
  /\ Done(s)
  /\ bill' = [bill EXCEPT ![s] = 0]
  /\ UNCHANGED <<repo, head, idx, got, snap, ledger, history>>

Serve(s) ==
  /\ pc[s] = "paid"
  /\ Done(s)
  /\ served' = served + bill[s]
  /\ bill' = [bill EXCEPT ![s] = 0]
  /\ UNCHANGED <<repo, head, idx, got, snap, ledger, grown, edits>>

\* The session's process dies: an answer that was paid for is lost.
SessionDies(s) ==
  /\ pc[s] \notin {"closed", "idle", "dead", "lost"}
  /\ \/ Goto(s, "paid", "lost") /\ UNCHANGED bill
     \/ /\ pc[s] # "paid"
        /\ pc' = [pc EXCEPT ![s] = "dead"] /\ bill' = [bill EXCEPT ![s] = 0]
  /\ op' = [op EXCEPT ![s] = Idle] /\ got' = [got EXCEPT ![s] = NoIndex]
  /\ snap' = [snap EXCEPT ![s] = NoFiles]
  /\ UNCHANGED <<repo, head, idx, ledger, history>>

-----------------------------------------------------------------------------
LoadStep(p) == LoadWhole(p) \/ LoadTorn(p) \/ LoadAbsent(p) \/ FinishBuild(p)

SessionStep(s) ==
  LoadStep(s) \/ CheckHead(s) \/ Compute(s) \/ Charge(s) \/ Refuse(s) \/ Serve(s)

Next ==
  \/ BuildIndex \/ Reindex \/ SetHead \/ OpenForWrite \/ WriteIndex \/ WriterDies
  \/ LoadStep(Writer)
  \/ \E e \in Edits : UpdateFile(e.path, e.content)
  \/ \E e \in Commits : PeerCommits(e.path, e.content)
  \/ \E s \in Sessions :
       Open(s) \/ (\E q \in Queries : Ask(s, q)) \/ SessionStep(s) \/ SessionDies(s)

\* A thread that serves a call keeps running; nothing is assumed of the writer.
Spec == Init /\ [][Next]_rvars /\ \A s \in Sessions : WF_rvars(SessionStep(s))

-----------------------------------------------------------------------------
\* Types, and: every index on disk or in memory is keyed by its partitions'
\* paths; the bill of a call is open exactly while it is priced and unpaid for.
TypeOK ==
  /\ DOMAIN repo \subseteq Range(PathOrder) /\ DOMAIN head \subseteq DOMAIN repo
  /\ \A i \in {idx} \union {got[p] : p \in Procs} :
       /\ i.state \in {"absent", "torn", "whole"}
       /\ \A p \in DOMAIN i.files : Indexable(p) /\ i.files[p].path = p
  /\ \A s \in Sessions : bill[s] > 0 <=> pc[s] \in {"charge", "paid", "lost"}
  /\ spent \in 0..Budget /\ served \in 0..spent /\ edits \in 0..MaxEdits

\* reindex_file's equivalence invariant, for any interleaving of updates,
\* commits, builds and deaths: a partition of index.json whose content_hash is
\* that of the file on disk has the symbols and references a full build gives
\* it, and its imports too as long as no file was added since the last build.
IncrementalEqualsFull ==
  idx.state = "whole" =>
    \A p \in DOMAIN idx.files \intersect Discover(repo) :
      idx.files[p].hash = repo[p] =>
        LET full == IndexFile(repo, p, Discover(repo))
        IN  /\ idx.files[p].symbols = full.symbols
            /\ idx.files[p].references = full.references
            /\ ~grown /\ DOMAIN idx.files = Discover(repo) => idx.files[p] = full

\* read_span never costs more than read_file of the same file, for any bounds,
\* where no secret's name and value are on different lines.
SpanNeverDearer ==
  \A p \in DOMAIN repo :
    LET ls == Lines[repo[p]]
    IN  (\A i \in DOMAIN ls : ~ls[i].opens) =>
          \A lo \in 0..(Len(ls) + 1), hi \in 1..(Len(ls) + 1) :
            token_cost(redact(ReadLines(ls, lo, hi))) <= token_cost(redact(ReadLines(ls, 1, 0)))

\* Metered before served, and once: the ledger holds exactly the price of what
\* was returned, of what is about to be, and of what a death has lost.
ReturnedIsPaid ==
  spent = served + MapThenSumSet(LAMBDA s : bill[s], {s \in Sessions : pc[s] \in {"paid", "lost"}})

\* Every call of a primitive ends, whatever becomes of the index file.
Answers == \A s \in Sessions : pc[s] \in {"head", "load", "loaded", "charge"} ~> pc[s] \in {"idle", "dead", "lost"}

=============================================================================
