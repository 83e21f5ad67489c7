--------------------------- MODULE SandboxRunner ---------------------------
(***************************************************************************)
(* DockerSandboxRunner.verify_snapshot: the host thread that starts        *)
(* "docker run", waits for it until the wall-clock deadline, parses what   *)
(* it printed and cleans up; the docker client it starts; and the          *)
(* container, driven by the daemon.  One run, of any of the four images.   *)
(***************************************************************************)
EXTENDS Entrypoint

CONSTANT Requests   \* the requests a run may be given (see Entrypoint)

\* The operations of an envelope are a sequence, a signal is a number.
ASSUME RequestAssumption ==
  \A r \in Requests : r.env.ops \in Seq(Range(r.env.ops)) /\ r.suite.sig \in Nat

VARIABLES
  req,        \* the request
  lang,       \* the selected runner: which entrypoint the image holds
  pc,         \* where the host thread is
  client,     \* the docker client: "none", "running", "exited", "killed"
  rc,         \* the client's return code
  container,  \* "none", "created", "running", "exited", "removed"
  code,       \* the container's exit code
  stdout,     \* what the container printed
  out,        \* what of it the host read from the client
  result,     \* the VerificationResult
  cleanup     \* "ok", or "failed" when docker rm did not remove a container

vars == <<req, lang, pc, client, rc, container, code, stdout, out, result, cleanup>>

Verdict(verified, applied, built, tests, exit, stage, killed) ==
  [verified |-> verified, applied |-> applied, built |-> built, tests_passed |-> tests,
   exit_code |-> exit, stage |-> stage, killed_reason |-> killed]

NoResult   == [killed_reason |-> "pending"]
InfraError == Verdict(FALSE, FALSE, FALSE, FALSE, -1, "apply", "error")

\* Mutant: a deadline under the name the settings give it.
DeadlinedTimeout == Verdict(FALSE, FALSE, FALSE, FALSE, -1, "test", "timeout")

Deadlined  == Verdict(FALSE, FALSE, FALSE, FALSE, -1, "test", "deadline")

\* _parse classifies before it judges: the order of the two tests below, and
\* "tests_passed" in both, keep a kill from looking like an ordinary failure
\* and egress text in a passing run from failing it.
KilledReason(p) ==
  CASE ~p.tests_passed /\ p.out = "network"                    -> "network"
    [] ~p.tests_passed /\ p.exit_code = -9 /\ p.out = "none"   -> "oom"
    [] OTHER                                                   -> "none"

\* The host's None.
NoPayload == [stage |-> "no payload"]

\* What _parse takes from an object without keys.
EmptyPayload == Payload(FALSE, FALSE, -1, "none", "apply")

\* rsplit at the last opening marker, split at the closing one after it.
ExtractPayload(s) ==
  CASE s.reads = "whole" -> s.judged
    [] s.reads = "empty" -> EmptyPayload
    [] OTHER             -> NoPayload

\* Mutant: every run without a payload is an infrastructure error.
ParseNoOom(p, docker_rc) ==
  IF p = NoPayload THEN InfraError
  ELSE LET killed == KilledReason(p)
           ok == p.applied /\ p.built /\ p.tests_passed /\ killed = "none"
       IN  Verdict(ok, p.applied, p.built, p.tests_passed, p.exit_code,
                   IF ok THEN "done" ELSE p.stage, killed)

\* Mutant: a missing payload is read as an empty one.
ParseDefaults(p, docker_rc) ==
  LET q == IF p = NoPayload THEN Payload(FALSE, FALSE, docker_rc, "none", "apply") ELSE p
      killed == KilledReason(q)
      ok == q.applied /\ q.built /\ q.tests_passed /\ killed = "none"
  IN  Verdict(ok, q.applied, q.built, q.tests_passed, q.exit_code,
              IF ok THEN "done" ELSE q.stage, killed)

Parse(p, docker_rc) ==
  IF p = NoPayload
  THEN IF docker_rc \in {137, -9}
       THEN Verdict(FALSE, FALSE, FALSE, FALSE, docker_rc, "test", "oom")
       ELSE InfraError
  ELSE LET killed == KilledReason(p)
           ok == p.applied /\ p.built /\ p.tests_passed /\ killed = "none"
       IN  Verdict(ok, p.applied, p.built, p.tests_passed, p.exit_code,
                   IF ok THEN "done" ELSE p.stage, killed)

-----------------------------------------------------------------------------
Init ==
  /\ req \in Requests
  /\ lang \in Langs
  /\ pc = "idle" /\ client = "none" /\ rc = 0
  /\ container = "none" /\ code = 0
  /\ stdout = Nothing /\ out = Nothing
  /\ result = NoResult /\ cleanup = "ok"

Return(r) == pc' = "returned" /\ result' = r

\* The snapshot directory is missing, or the docker binary is.
CannotStart ==
  /\ pc = "idle"
  /\ Return(InfraError)
  /\ UNCHANGED <<req, lang, client, rc, container, code, stdout, out, cleanup>>

\* The envelope is staged and "docker run --rm --name <unique>" is started.
Start ==
  /\ pc = "idle"
  /\ pc' = "waiting" /\ client' = "running"
  /\ UNCHANGED <<req, lang, rc, container, code, stdout, out, result, cleanup>>

-----------------------------------------------------------------------------
(* The docker client and the daemon (external).                            *)

\* The daemon refuses: no image, no daemon.
DaemonRefuses ==
  /\ client = "running" /\ container = "none"
  /\ client' = "exited" /\ rc' = 125
  /\ UNCHANGED <<req, lang, pc, container, code, stdout, out, result, cleanup>>

\* A create request that is under way outlives the client that sent it.
DaemonCreates ==
  /\ client \in {"running", "killed"} /\ container = "none"
  /\ container' = "created"
  /\ UNCHANGED <<req, lang, pc, client, rc, code, stdout, out, result, cleanup>>

DaemonStarts ==
  /\ client = "running" /\ container = "created"
  /\ container' = "running"
  /\ UNCHANGED <<req, lang, pc, client, rc, code, stdout, out, result, cleanup>>

\* The entrypoint ends by itself, having printed its payload or raised.
EntrypointEnds ==
  /\ container = "running"
  /\ container' = "exited"
  /\ stdout' = Main(lang, req)
  /\ code' = IF stdout' = Nothing THEN 1 ELSE 0
  /\ UNCHANGED <<req, lang, pc, client, rc, out, result, cleanup>>

\* The kernel kills the container for its memory.
ContainerOom ==
  /\ container = "running"
  /\ container' = "exited" /\ code' = 137
  /\ UNCHANGED <<req, lang, pc, client, rc, stdout, out, result, cleanup>>

\* --rm: the daemon removes a container that has exited.
AutoRemove ==
  /\ container = "exited"
  /\ container' = "removed"
  /\ UNCHANGED <<req, lang, pc, client, rc, code, stdout, out, result, cleanup>>

\* The client forwards the output and exits with the container's code.
ClientExits ==
  /\ client = "running" /\ container \in {"exited", "removed"}
  /\ client' = "exited" /\ rc' = code /\ out' = stdout
  /\ UNCHANGED <<req, lang, pc, container, code, stdout, result, cleanup>>

\* The client is killed by someone else, before or after forwarding; the
\* container goes on.
ClientDies(sig) ==
  /\ client = "running"
  /\ client' = "exited" /\ rc' = -sig
  /\ out' \in {Nothing, stdout}
  /\ UNCHANGED <<req, lang, pc, container, code, stdout, result, cleanup>>

-----------------------------------------------------------------------------
(* The host thread.                                                        *)

\* communicate() returned: the output is parsed, and an infrastructure error
\* goes on to force the container's removal.
Collect ==
  /\ pc = "waiting" /\ client = "exited"
  /\ result' = Parse(ExtractPayload(out), rc)
  /\ pc' = IF result'.killed_reason = "error" THEN "stopping" ELSE "returned"
  /\ UNCHANGED <<req, lang, client, rc, container, code, stdout, out, cleanup>>

\* TimeoutExpired: the deadline may win against a client that has just exited.
Deadline ==
  /\ pc = "waiting"
  /\ pc' = "killing" /\ result' = Deadlined
  /\ UNCHANGED <<req, lang, client, rc, container, code, stdout, out, cleanup>>

\* Mutant: only the client is killed.
KillClientOnly ==
  /\ pc = "killing"
  /\ client' = IF client = "running" THEN "killed" ELSE client
  /\ pc' = "returned"
  /\ UNCHANGED <<req, lang, rc, container, code, stdout, out, result, cleanup>>

\* Mutant: wait for the client without a timeout.
KillClientWaits ==
  /\ pc = "killing" /\ container # "running"
  /\ client' = IF client = "running" THEN "killed" ELSE client
  /\ pc' = "stopping"
  /\ UNCHANGED <<req, lang, rc, container, code, stdout, out, result, cleanup>>

\* proc.kill() and a communicate() of at most ten seconds.
KillClient ==
  /\ pc = "killing"
  /\ client' = IF client = "running" THEN "killed" ELSE client
  /\ pc' = "stopping"
  /\ UNCHANGED <<req, lang, rc, container, code, stdout, out, result, cleanup>>

\* docker stop, at most fifteen seconds, any failure swallowed.
DockerStop ==
  /\ pc = "stopping"
  /\ pc' = "removing"
  /\ \/ UNCHANGED <<container, code>>
     \/ /\ container = "running"
        /\ container' = "exited" /\ code' = 137
  /\ UNCHANGED <<req, lang, client, rc, stdout, out, result, cleanup>>

\* docker rm -f, likewise.
DockerRm ==
  /\ pc = "removing"
  /\ pc' = "returned"
  /\ \/ /\ container \in {"created", "running", "exited"}
        /\ container' = "removed" /\ UNCHANGED cleanup
     \/ /\ container' = container
        /\ cleanup' = IF container \in {"none", "removed"} THEN cleanup ELSE "failed"
  /\ UNCHANGED <<req, lang, client, rc, code, stdout, out, result>>

\* The host process dies; the container is not told.
HostDies ==
  /\ pc \notin {"idle", "returned", "dead"}
  /\ pc' = "dead"
  /\ UNCHANGED <<req, lang, client, rc, container, code, stdout, out, result, cleanup>>

Host == Collect \/ Deadline \/ KillClient \/ DockerStop \/ DockerRm

Daemon ==
  \/ DaemonRefuses \/ DaemonCreates \/ DaemonStarts \/ EntrypointEnds
  \/ ContainerOom \/ AutoRemove \/ ClientExits
  \/ \E sig \in {9, 15} : ClientDies(sig)

Next == CannotStart \/ Start \/ Host \/ Daemon \/ HostDies

\* The host's own steps are bounded by timeouts, the deadline included; the
\* container and the daemon are under no obligation to do anything.
Spec == Init /\ [][Next]_vars /\ WF_vars(Host)

-----------------------------------------------------------------------------
TypeOK ==
  /\ req \in Requests /\ lang \in Langs
  /\ pc \in {"idle", "waiting", "killing", "stopping", "removing", "returned", "dead"}
  /\ client \in {"none", "running", "exited", "killed"}
  /\ rc \in {0, 1, 125, 137, -9, -15}
  /\ container \in {"none", "created", "running", "exited", "removed"}
  /\ code \in {0, 1, 137}
  /\ out \in {Nothing, stdout}
  /\ result.killed_reason \in {"pending", "none", "deadline", "oom", "network", "error"}
  /\ cleanup \in {"ok", "failed"}

\* A verified result means what it says: the container ended by itself, and
\* the tree that the envelope describes compiles and passes the tests.  The
\* Rust runner keeps this for envelopes it reads as they are: it counts the
\* braces inside strings when it splits the envelope, and drops the backslash
\* of \uXXXX, so that text which does not compile may become text which does.
VerifiedIsReal ==
  /\ result # NoResult
  /\ result.verified
  /\ lang = "rust" => Balanced(req.env) /\ Literal(req.env)
  => /\ stdout # Nothing
     /\ WellFormed(req.env) => Compiles(Meant(req.env.ops)) /\ Passes(Meant(req.env.ops))

\* A result without a kill reason comes from an entrypoint that ended by itself,
\* never from the trace of a container that was killed or of a client that lost
\* its output: the repair loop treats such a result as evidence about the
\* patch.  It passes the tests only if the entrypoint said so, and repeats the
\* entrypoint's whole judgement unless the captured text has an empty object
\* between result markers, which the host then takes for the payload.
OrdinaryIsEntrypoints ==
  pc = "returned" /\ result.killed_reason = "none"
  => /\ stdout # Nothing
     /\ result.tests_passed => stdout.judged.tests_passed
     /\ ~Embeds(req)
        => <<result.applied, result.built, result.tests_passed, result.exit_code>>
           = <<stdout.judged.applied, stdout.judged.built, stdout.judged.tests_passed,
               stdout.judged.exit_code>>

\* A container the kernel killed for its memory is reported as that, unless
\* the deadline or the client's own death came first: not as an infrastructure
\* error, which the loop would take for something to retry.
OomIsReported ==
  pc \in {"stopping", "returned"} /\ code = 137 /\ rc = 137
  => result.killed_reason \in {"oom", "deadline"}

\* verify_snapshot does not return from a deadline or an infrastructure error
\* with its container still running, unless docker rm itself failed.
NoRunawayContainer ==
  pc = "returned" /\ result.killed_reason \in {"deadline", "error"} /\ cleanup = "ok"
  => container # "running"

\* The container ended by itself and the client delivered what it printed.
Completed == pc = "returned" /\ client = "exited" /\ rc = code /\ code \in {0, 1}
             /\ result.killed_reason # "deadline"

\* A run that completes on an ordinary request has the verdict the reference
\* (Python) runner has, whichever runner was configured.  Ordinary leaves out
\* what the runners are known to take differently: braces and escapes (Rust),
\* over 1 MiB of output (TypeScript), signals without a name in its table,
\* result markers in the output, a full tmpfs, a "backend" that is a file.
Parity ==
  Completed /\ Ordinary(req) => result = Parse(ExtractPayload(Main("python", req)), rc)

\* verify_snapshot returns, whatever the container and the daemon do.
Returns == pc = "waiting" ~> pc \in {"returned", "dead"}

=============================================================================
