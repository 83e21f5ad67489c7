-------------------------- MODULE MCSandboxRunner --------------------------
(* SandboxRunner with the requests TLC explores.                           *)
EXTENDS SandboxRunner

Write(x, c, b) == [op |-> "write", path |-> x, content |-> c, read |-> c, brace |-> b]
Delete(x)      == [Write(x, "empty", 0) EXCEPT !.op = "delete"]
\* Content with escapes that extract_str strips.
Misread(c, d)  == [Write("f", c, 0) EXCEPT !.read = d]

Quiet == [sig |-> 0, out |-> "text"]

Request(env, diag, suite, disk, backend) ==
  [env |-> env, diag |-> diag, suite |-> suite, disk |-> disk, backend |-> backend]

\* Well-formed operations: every file, every content, braces that match or not,
\* escapes that make or break what the text is.
PlainOps ==
  {Write("f", "good", 0), Write("f", "plain", 0), Write("n", "bad", 0), Write("u", "bad", 0),
   Write("f", "good", 1), Write("f", "good", -1), Misread("good", "plain"), Misread("bad", "good"),
   Misread("good", "bad"), Delete("f"), Delete("n"), Delete("u")}

\* Operations some entrypoint refuses or fails on.
OddOps ==
  {Write("f", "number", 0), Write("f", "large", 0), Write("dir", "good", 0), Delete("dir"),
   Write("abs", "plain", 0), Write("up", "good", 0), Write("none", "good", 0),
   [Write("f", "good", 0) EXCEPT !.op = "rename"], [Write("f", "good", 0) EXCEPT !.op = "none"]}

List(ops) == [form |-> "list", ops |-> ops]

\* Every envelope of at most two plain operations, and the odd ones, for a
\* quiet suite.
Envelopes ==
  {[form |-> "unreadable", ops |-> <<>>], [form |-> "no_ops", ops |-> <<>>], List(<<>>)}
  \union {List(ops) : ops \in [1..1 -> PlainOps \union OddOps] \union [1..2 -> PlainOps]}
  \union {List(<<Write("f", "good", 0), o>>) : o \in OddOps}

EnvelopeRequests == {Request(e, "text", Quiet, "ok", "dir") : e \in Envelopes}

\* Every text a refusal or a failing compiler may quote, and a patch that passes.
DiagRequests ==
  {Request(List(<<o>>), d, Quiet, "ok", "dir") :
     o \in {Write("f", "good", 0), Write("f", "bad", 0), Write("up", "good", 0)},
     d \in {"network", "lost", "wide", "huge", "embedded", "sentinel", "control"}}

\* Every way the suite can end, for a patch that passes and one that fails.
Suites == [sig : {0, 7, 9, 11},
           out : {"none", "text", "network", "lost", "wide", "huge", "embedded", "sentinel",
                  "control", "binary"}]

SuiteRequests ==
  {Request(List(<<Write("f", c, 0)>>), "text", s, "ok", "dir") :
     c \in {"good", "plain"}, s \in Suites}

\* A full tmpfs, and a "backend" that is a file or missing.
PlaceRequests ==
  {Request(List(<<Write("f", "good", 0)>>), "text", Quiet, d, b) :
     d \in {"ok", "copy", "build"}, b \in {"dir", "file", "none"}}

MCRequests == EnvelopeRequests \union DiagRequests \union SuiteRequests \union PlaceRequests

=============================================================================
