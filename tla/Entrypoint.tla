----------------------------- MODULE Entrypoint -----------------------------
(***************************************************************************)
(* The four in-container entrypoints (Python, Go, Rust, TypeScript) as     *)
(* functions from a request to what they print.  Nothing of a run is       *)
(* visible outside the container before the payload is printed, so the     *)
(* whole of main() is one value here; SandboxRunner decides whether the    *)
(* container lives long enough to print it.                                *)
(*                                                                         *)
(* A request is a record:                                                  *)
(*   env     - the patch envelope [form, ops]: form is "unreadable" (no    *)
(*             file, or text that is no JSON and has no "ops"), "no_ops"   *)
(*             (an object without an "ops" list) or "list"; ops is a       *)
(*             sequence of [op, path, content, read, brace];               *)
(*   diag    - the class of text that the reason for refusing the envelope *)
(*             or the compiler quotes;                                     *)
(*   suite   - what the repository's tests do: [sig, out], the signal that *)
(*             ends pytest (0: none) and the class of text it prints;      *)
(*   disk    - "ok", or the step that runs out of space in the tmpfs;      *)
(*   backend - what the snapshot has at "backend": "dir", "file", "none".  *)
(***************************************************************************)
EXTENDS Integers, Sequences, SequencesExt

Langs == {"python", "go", "rust", "ts"}

\* Paths that name a place for a file.  "abs" is the place inside the work
\* directory that an absolute path is joined to by the runners that join it;
\* "u" has a name with letters outside ASCII, "u_read" is the name that
\* extract_str reads for it.  Other paths: "dir" (a directory with files in it),
\* "up" (leaves the work directory), "none" (the key is missing).
Files == {"f", "n", "u", "u_read", "abs"}

\* What is in a file, as far as it matters: "good" makes the tests pass, "bad"
\* does not compile, "plain" and "empty" compile and do not pass, "base" is the
\* snapshot's.  An operation's content is one of these, "number" (no string) or
\* "large" (does not fit in the tmpfs).
Contents == {"good", "bad", "plain", "empty", "base", "absent"}

Snapshot == [x \in Files |-> IF x = "f" THEN "base" ELSE "absent"]

Applied(tree)  == [st |-> "applied", tree |-> tree]
Refused(tree)  == [st |-> "refused", tree |-> tree]
\* An exception nobody catches: the process ends and prints no payload.
Raised(tree)   == [st |-> "raised", tree |-> tree]

Put(acc, x, c) == Applied([acc.tree EXCEPT ![x] = c])

-----------------------------------------------------------------------------
(* Applying one operation, per language.                                   *)

\* A failing file operation is not caught: the process dies.
PyOp(acc, o) ==
  LET refuses == \/ o.op \notin {"write", "delete"} \/ o.path \in {"none", "up", "abs"}
                 \/ o.op = "write" /\ o.content = "number"
  IN IF acc.st # "applied"  THEN acc
     ELSE IF refuses        THEN Refused(acc.tree)
     ELSE IF o.path = "dir" \/ (o.op = "write" /\ o.content = "large") THEN Raised(acc.tree)
     ELSE Put(acc, o.path, IF o.op = "write" THEN o.content ELSE "absent")

\* A missing key decodes to "": no operation has the kind "", and the path ""
\* is the work directory itself, which can be neither written nor removed.
GoOp(acc, o) ==
  LET refuses == \/ o.op \notin {"write", "delete"} \/ o.path \in {"up", "none", "dir"}
                 \/ o.op = "write" /\ o.content = "large"
  IN IF acc.st # "applied" THEN acc
     ELSE IF refuses       THEN Refused(acc.tree)
     ELSE Put(acc, o.path, IF o.op = "write" THEN o.content ELSE "absent")

\* extract_str drops the backslash of every escape but \n, \r, \t, and with it
\* what \uXXXX, \f and \b stand for; o.read is the class of what is left of
\* o.content: text that does not compile may compile once it is stripped, and
\* the other way round.  The default for what is no terminated string is "".
RustContent(o) == IF o.content \in {"number", "unterminated"} THEN "empty" ELSE o.read

RustPath(o) == IF o.path = "u" THEN "u_read" ELSE o.path

RustOp(acc, o) ==
  LET refuses == \/ o.op \notin {"write", "delete"} \/ o.path \in {"none", "up", "abs", "dir"}
                 \/ o.op = "write" /\ RustContent(o) = "large"
  IN IF acc.st # "applied" THEN acc
     ELSE IF refuses       THEN Refused(acc.tree)
     ELSE Put(acc, RustPath(o), IF o.op = "write" THEN RustContent(o) ELSE "absent")

\* writeFileSync and unlinkSync are outside any try: their errors, and the
\* TypeError for content that is no string, end the process.
TsOp(acc, o) ==
  LET refuses == o.op \notin {"write", "delete"} \/ o.path \in {"none", "up"}
      raises  == o.path = "dir" \/ (o.op = "write" /\ o.content \in {"number", "large"})
  IN IF acc.st # "applied" THEN acc
     ELSE IF refuses       THEN Refused(acc.tree)
     ELSE IF raises        THEN Raised(acc.tree)
     ELSE Put(acc, o.path, IF o.op = "write" THEN o.content ELSE "absent")

-----------------------------------------------------------------------------
(* Reading the envelope and applying all of it, per language.              *)

IsList(env) == env.form = "list"

PyApplyPatch(env) ==
  IF IsList(env) THEN FoldLeft(PyOp, Applied(Snapshot), env.ops) ELSE Refused(Snapshot)

\* Unmarshal fails as a whole on content of the wrong type; a missing "ops"
\* is the nil slice and applies as no operation.
GoApplyPatch(env) ==
  CASE env.form = "unreadable" -> Refused(Snapshot)
    [] env.form = "no_ops"     -> Applied(Snapshot)
    [] IsList(env) /\ \E i \in DOMAIN env.ops : env.ops[i].content = "number" -> Refused(Snapshot)
    [] OTHER                   -> FoldLeft(GoOp, Applied(Snapshot), env.ops)

\* The op objects are cut out of the text by counting braces, those inside
\* strings too.  o.brace is what the braces of o's strings add to the depth
\* (0: they match, -1: the unmatched one closes, 1: it opens).  The scan keeps the
\* depth, the operation a cut has begun at, and the operations cut so far.
RustScan(scan, o) ==
  LET d == scan.depth
      \* cut at a brace inside its content
      Short == [o EXCEPT !.content = "unterminated"]
      \* cut from inside a content: an object without an "op" key
      Fragment == [o EXCEPT !.op = "none"]
  IN CASE d = 0 /\ o.brace = 0  -> [scan EXCEPT !.ops = Append(@, o)]
       [] d = 0 /\ o.brace = 1  -> [scan EXCEPT !.depth = 1, !.begun = <<o>>]
       [] d = 0 /\ o.brace = -1 -> [scan EXCEPT !.depth = -1, !.ops = Append(@, Short)]
       [] d = 1 /\ o.brace = -1 -> [scan EXCEPT !.depth = 0, !.ops = @ \o scan.begun,
                                                !.begun = <<>>]
       [] d = -1 /\ o.brace = 1 -> [scan EXCEPT !.depth = 0, !.ops = Append(@, Fragment)]
       [] OTHER                 -> [scan EXCEPT !.depth = d + o.brace]

\* The envelope's own closing brace ends a cut that is one level deep.
RustOps(ops) ==
  LET end == FoldLeft(RustScan, [depth |-> 0, begun |-> <<>>, ops |-> <<>>], ops)
  IN  IF end.depth = 1 THEN end.ops \o end.begun ELSE end.ops

RustApplyPatch(env) ==
  IF IsList(env) THEN FoldLeft(RustOp, Applied(Snapshot), RustOps(env.ops))
                 ELSE Refused(Snapshot)

TsApplyPatch(env) ==
  IF IsList(env) THEN FoldLeft(TsOp, Applied(Snapshot), env.ops) ELSE Refused(Snapshot)

-----------------------------------------------------------------------------
(* Build and test.                                                         *)

Compiles(tree) == \A x \in Files : tree[x] # "bad"
Passes(tree)   == tree["f"] = "good"

Built(ok)      == IF ok THEN "built" ELSE "failed"

\* py_compile writes the bytecode; only PyCompileError is caught.
PyBuild(tree, disk) == IF disk = "build" THEN "raised" ELSE Built(Compiles(tree))

\* Mutant: the compiler's exit status is not looked at.
GoBuildUnchecked(tree, disk) == "built"

\* compileall counts a failed write as a failure.
GoBuild(tree, disk)   == Built(disk # "build" /\ Compiles(tree))
RustBuild(tree, disk) == Built(disk # "build" /\ Compiles(tree))
\* spawnSync ends a compiler that prints more than 1 MiB, warnings included.
TsBuild(tree, disk, diag) == Built(disk # "build" /\ diag # "huge" /\ Compiles(tree))

\* What the tests end with, as [exit, out]; pytest's own code is 0 or 1.
Pytest(tree) == IF Passes(tree) THEN 0 ELSE 1

\* text=True decodes strictly: UnicodeDecodeError.
PyTest(tree, suite, backend) ==
  [exit |-> IF suite.sig # 0 THEN -suite.sig ELSE Pytest(tree),
   out  |-> IF suite.out = "binary" THEN "raised" ELSE suite.out]

\* Mutant: ExitCode() as it is, which is -1 for every signal.
GoTestNoSignal(tree, suite, backend) ==
  IF backend = "file" THEN [exit |-> 1, out |-> "none"]
  ELSE [exit |-> IF suite.sig # 0 THEN -1 ELSE Pytest(tree), out |-> suite.out]

\* A "backend" that is a file is taken as the working directory, and pytest
\* cannot be started there.
GoTest(tree, suite, backend) ==
  IF backend = "file" THEN [exit |-> 1, out |-> "none"]
  ELSE [exit |-> IF suite.sig # 0 THEN -suite.sig ELSE Pytest(tree), out |-> suite.out]

RustTest(tree, suite, backend) ==
  [exit |-> IF suite.sig # 0 THEN -suite.sig ELSE Pytest(tree), out |-> suite.out]

\* spawnSync has its default maxBuffer of 1 MiB: it ends a suite that prints
\* more with SIGTERM.  sigMap has KILL, TERM, ABRT and SEGV only.
TsTest(tree, suite, backend) ==
  IF backend = "file" THEN [exit |-> 1, out |-> "none"]
  ELSE LET sig == IF suite.out = "huge" THEN 15 ELSE suite.sig
       IN  [exit |-> CASE sig = 0                -> Pytest(tree)
                       [] sig \in {6, 9, 11, 15} -> -sig
                       [] OTHER                  -> -1,
            out  |-> suite.out]

-----------------------------------------------------------------------------
(* Captured text, and the printed payload.  Classes of text: "none",       *)
(* "text", "network" (an egress marker in the part that is kept), "lost"   *)
(* (long, the marker in the part cut out), "wide" (long, of three-byte     *)
(* characters), "huge" (over 1 MiB, by more than a pipe holds),            *)
(* "embedded" ({} between the two result markers), "sentinel" (a result    *)
(* marker otherwise), "control" (control characters), "binary" (not        *)
(* UTF-8).  All but "huge" are under 1 MiB.                                *)

Kept(out)         == IF out \in {"lost", "wide", "huge"} THEN "text" ELSE out

PyTruncate(out)   == Kept(out)
GoTruncate(out)   == Kept(out)
\* With few but wide characters the fallback index is not on a boundary.
RustTruncate(out) == IF out = "wide" THEN "raised" ELSE Kept(out)
TsTruncate(out)   == Kept(out)

Payload(applied, built, exit, out, stage) ==
  [applied |-> applied, built |-> built, tests_passed |-> exit = 0,
   exit_code |-> exit, out |-> out, stage |-> stage]

\* A printed payload p, and what is found between the last opening marker and
\* the first closing one after it: all of p ("whole"), an empty object
\* ("empty"), or text that is no JSON ("broken").
Printed(p, reads) == [judged |-> p, reads |-> reads]
Nothing           == [reads |-> "nothing"]

\* Of captured text printed with '<' left as it is: {} survives every
\* encoding, while the quotes of any other object come out escaped.
Reads(out) == CASE out = "embedded" -> "empty"
                [] out = "sentinel" -> "broken"
                [] OTHER            -> "whole"

PyEmit(p)   == Printed(p, Reads(p.out))
\* Marshal escapes '<'.
GoEmit(p)   == Printed(p, "whole")
\* esc leaves control characters as they are.
RustEmit(p) == Printed(p, IF p.out = "control" THEN "broken" ELSE Reads(p.out))
TsEmit(p)   == Printed(p, Reads(p.out))

PyReport(p)   == PyEmit([p EXCEPT !.out = PyTruncate(@)])
GoReport(p)   == GoEmit([p EXCEPT !.out = GoTruncate(@)])
RustReport(p) ==
  IF RustTruncate(p.out) = "raised" THEN Nothing
                                    ELSE RustEmit([p EXCEPT !.out = RustTruncate(@)])
TsReport(p)   == TsEmit([p EXCEPT !.out = TsTruncate(@)])

-----------------------------------------------------------------------------
(* main(): the pipeline and what it reports where it stops.                *)

AtApply(out) == Payload(FALSE, FALSE, -1, out, "apply")
AtBuild(out) == Payload(TRUE, FALSE, -1, out, "build")
AtTest(t)    == Payload(TRUE, TRUE, t.exit, t.out, "test")

PyMain(r) ==
  LET a == PyApplyPatch(r.env)
      b == PyBuild(a.tree, r.disk)
      t == PyTest(a.tree, r.suite, r.backend)
  IN IF r.disk = "copy" \/ a.st = "raised" THEN Nothing
     ELSE IF a.st = "refused"              THEN PyReport(AtApply(r.diag))
     ELSE IF b = "raised"                  THEN Nothing
     ELSE IF b = "failed"                  THEN PyReport(AtBuild(r.diag))
     ELSE IF t.out = "raised"              THEN Nothing
     ELSE PyReport(AtTest(t))

GoMain(r) ==
  LET a == GoApplyPatch(r.env)
      b == GoBuild(a.tree, r.disk)
  IN IF r.disk = "copy"       THEN GoReport(AtApply("text"))
     ELSE IF a.st = "refused" THEN GoReport(AtApply(r.diag))
     ELSE IF b = "failed"     THEN GoReport(AtBuild(r.diag))
     ELSE GoReport(AtTest(GoTest(a.tree, r.suite, r.backend)))

RustMain(r) ==
  LET a == RustApplyPatch(r.env)
      b == RustBuild(a.tree, r.disk)
  IN IF r.disk = "copy"       THEN RustReport(AtApply("text"))
     ELSE IF a.st = "refused" THEN RustReport(AtApply(r.diag))
     ELSE IF b = "failed"     THEN RustReport(AtBuild(r.diag))
     ELSE RustReport(AtTest(RustTest(a.tree, r.suite, r.backend)))

\* copyDir is inside a try, applyPatch is not.
TsMain(r) ==
  LET a == TsApplyPatch(r.env)
      b == TsBuild(a.tree, r.disk, r.diag)
  IN IF r.disk = "copy"       THEN TsReport(AtApply("text"))
     ELSE IF a.st = "raised"  THEN Nothing
     ELSE IF a.st = "refused" THEN TsReport(AtApply(r.diag))
     ELSE IF b = "failed"     THEN TsReport(AtBuild(r.diag))
     ELSE TsReport(AtTest(TsTest(a.tree, r.suite, r.backend)))

\* SANDBOX_RUNNER selects the image, and so the entrypoint that runs.
Main(lang, r) ==
  CASE lang = "python" -> PyMain(r)
    [] lang = "go"     -> GoMain(r)
    [] lang = "rust"   -> RustMain(r)
    [] lang = "ts"     -> TsMain(r)

-----------------------------------------------------------------------------
(* What the envelope's schema promises, independently of any entrypoint.   *)

MeantOp(tree, o) == [tree EXCEPT ![o.path] = IF o.op = "write" THEN o.content ELSE "absent"]

\* The tree after every operation of a well-formed envelope.
Meant(ops) == FoldLeft(MeantOp, Snapshot, ops)

WellFormed(env) ==
  /\ IsList(env)
  /\ \A o \in Range(env.ops) : /\ o.op \in {"write", "delete"}
                               /\ o.path \in {"f", "n", "u"}
                               /\ o.content \notin {"number", "large"}

Balanced(env) == \A o \in Range(env.ops) : o.brace = 0

\* extract_str reads the paths and contents as they are.
Literal(env) ==
  \A o \in Range(env.ops) : RustPath(o) = o.path /\ RustContent(o) = o.content

\* Text that the run may print has an empty object between result markers.
Embeds(r) == "embedded" \in {r.diag, r.suite.out}

\* The requests on which the four entrypoints are bound to agree.
Ordinary(r) ==
  /\ WellFormed(r.env) /\ Balanced(r.env) /\ Literal(r.env)
  /\ r.diag \in {"text", "network"}
  /\ r.disk = "ok" /\ r.backend # "file"
  /\ r.suite.sig \in {0, 6, 9, 11, 15}
  /\ r.suite.out \in {"none", "text", "network", "lost"}

=============================================================================
