--------------------------- MODULE SandboxProofs ---------------------------
(***************************************************************************)
(* Theorems about verify_snapshot, for every request, every image and      *)
(* every interleaving of the host, the docker client and the container.    *)
(***************************************************************************)
EXTENDS SandboxRunner, EntrypointProofs, TLAPS

-----------------------------------------------------------------------------
(* What the host, the client and the container know of one another.        *)

\* A payload is printed once, by a container that then ends with code 0.
PrintInv ==
  /\ container \in {"none", "created", "running"} => stdout = Nothing /\ code = 0
  /\ stdout # Nothing => code = 0

\* The client is started by the host and gone before the host cleans up; what
\* it returned stands from the moment it ended.
ClientInv ==
  /\ pc = "idle" => client = "none"
  /\ client = "none" => rc = 0 /\ container = "none"
  /\ pc \in {"stopping", "removing", "returned"} => client # "running"
  /\ client \in {"none", "running"} => out = Nothing

\* The host parsed what the client returned.
Parsed == client = "exited" /\ result = Parse(ExtractPayload(out), rc)

\* The result belongs to the way the host came here.
ResultInv ==
  /\ pc \in {"idle", "waiting"} => result = NoResult
  /\ pc = "killing" => result = Deadlined
  /\ pc \in {"stopping", "removing"} => result = Deadlined \/ (Parsed /\ result = InfraError)
  /\ pc = "returned" => \/ result = Deadlined
                        \/ client = "none" /\ result = InfraError
                        \/ Parsed
  /\ pc = "dead" => result \in {NoResult, Deadlined, InfraError}

SInv == TypeOK /\ PrintInv /\ ClientInv /\ ResultInv /\ NoRunawayContainer

-----------------------------------------------------------------------------
\* The reasons _parse gives: never "deadline", and "error" only for its own
\* InfraError.
LEMMA ParseReasons ==
  ASSUME NEW p, NEW docker_rc
  PROVE  /\ Parse(p, docker_rc).killed_reason \in {"none", "oom", "network", "error"}
         /\ Parse(p, docker_rc).killed_reason = "error" => Parse(p, docker_rc) = InfraError
<1>1. KilledReason(p) \in {"none", "oom", "network"}
  BY DEF KilledReason
<1>2. CASE p = NoPayload
  BY <1>2 DEF Parse, Verdict, InfraError
<1>3. CASE p # NoPayload
  BY <1>1, <1>3 DEF Parse, Verdict
<1> QED BY <1>2, <1>3

\* An ordinary verdict repeats the payload it was parsed from.
LEMMA ParseRepeats ==
  ASSUME NEW p, NEW docker_rc, Parse(p, docker_rc).killed_reason = "none"
  PROVE  /\ p # NoPayload
         /\ Parse(p, docker_rc).applied = p.applied
         /\ Parse(p, docker_rc).built = p.built
         /\ Parse(p, docker_rc).tests_passed = p.tests_passed
         /\ Parse(p, docker_rc).exit_code = p.exit_code
<1>1. p # NoPayload
  BY DEF Parse, Verdict, InfraError
<1> QED BY <1>1 DEF Parse, Verdict

\* No output and the code of a kernel kill is an out-of-memory verdict.
LEMMA ParseOom == Parse(ExtractPayload(Nothing), 137).killed_reason = "oom"
BY DEF Parse, Verdict, ExtractPayload, Nothing

\* A payload is taken from what was printed: the one that was printed, or an empty one.
LEMMA PayloadTaken ==
  ASSUME NEW s, ExtractPayload(s) # NoPayload
  PROVE  /\ s # Nothing
         /\ \/ s.reads = "whole" /\ ExtractPayload(s) = s.judged
            \/ s.reads = "empty" /\ ExtractPayload(s) = EmptyPayload
BY DEF ExtractPayload, Nothing

\* An empty payload reports no passed tests.
LEMMA EmptyFails == ~EmptyPayload.tests_passed
BY -1 # 0 DEF EmptyPayload, Payload

\* A run that has not begun.
LEMMA SandboxInit == Init => SInv
<1> SUFFICES ASSUME Init PROVE SInv
  OBVIOUS
<1>1. TypeOK
  BY DEF Init, TypeOK, NoResult
<1>2. PrintInv /\ ClientInv /\ ResultInv /\ NoRunawayContainer
  BY DEF Init, PrintInv, ClientInv, ResultInv, NoRunawayContainer
<1> QED BY <1>1, <1>2 DEF SInv

\* The host's steps.
LEMMA HostSteps ==
  ASSUME SInv, CannotStart \/ Start \/ Host \/ HostDies
  PROVE  SInv'
<1> USE DEF SInv
<1>0. InfraError.killed_reason = "error" /\ Deadlined.killed_reason = "deadline"
      /\ NoResult.killed_reason = "pending"
  BY DEF InfraError, Deadlined, Verdict, NoResult
<1>1. CASE CannotStart
  BY <1>0, <1>1 DEF CannotStart, Return, TypeOK, PrintInv, ClientInv, ResultInv, Parsed, NoRunawayContainer
<1>2. CASE Start
  BY <1>0, <1>2 DEF Start, TypeOK, PrintInv, ClientInv, ResultInv, Parsed, NoRunawayContainer
<1>3. CASE Collect
  <2> DEFINE parsed == Parse(ExtractPayload(out), rc)
  <2>1. /\ parsed.killed_reason \in {"none", "oom", "network", "error"}
        /\ parsed.killed_reason = "error" => parsed = InfraError
    BY ParseReasons
  <2> HIDE DEF parsed
  <2>2. /\ pc = "waiting" /\ client = "exited" /\ result' = parsed
        /\ pc' = IF parsed.killed_reason = "error" THEN "stopping" ELSE "returned"
        /\ UNCHANGED <<req, lang, client, rc, container, code, stdout, out, cleanup>>
    BY <1>3 DEF Collect, parsed
  <2>3. Parsed'
    BY <2>2 DEF Parsed, parsed
  <2> QED BY <1>0, <2>1, <2>2, <2>3 DEF TypeOK, PrintInv, ClientInv, ResultInv, NoRunawayContainer
<1>4. CASE Deadline
  BY <1>0, <1>4 DEF Deadline, TypeOK, PrintInv, ClientInv, ResultInv, Parsed, NoRunawayContainer
<1>5. CASE KillClient
  BY <1>0, <1>5 DEF KillClient, TypeOK, PrintInv, ClientInv, ResultInv, Parsed, NoRunawayContainer
<1>6. CASE DockerStop
  BY <1>0, <1>6 DEF DockerStop, TypeOK, PrintInv, ClientInv, ResultInv, Parsed, NoRunawayContainer
<1>7. CASE DockerRm
  BY <1>0, <1>7 DEF DockerRm, TypeOK, PrintInv, ClientInv, ResultInv, Parsed, NoRunawayContainer
<1>8. CASE HostDies
  BY <1>0, <1>8 DEF HostDies, TypeOK, PrintInv, ClientInv, ResultInv, Parsed, NoRunawayContainer
<1> QED BY <1>1, <1>2, <1>3, <1>4, <1>5, <1>6, <1>7, <1>8 DEF Host

\* The steps of the docker client, the daemon and the container.
LEMMA DaemonSteps ==
  ASSUME SInv, Daemon
  PROVE  SInv'
<1> USE DEF SInv
<1>1. CASE DaemonRefuses
  BY <1>1 DEF DaemonRefuses, TypeOK, PrintInv, ClientInv, ResultInv, Parsed, NoRunawayContainer
<1>2. CASE DaemonCreates
  BY <1>2 DEF DaemonCreates, TypeOK, PrintInv, ClientInv, ResultInv, Parsed, NoRunawayContainer
<1>3. CASE DaemonStarts
  BY <1>3 DEF DaemonStarts, TypeOK, PrintInv, ClientInv, ResultInv, Parsed, NoRunawayContainer
<1>4. CASE EntrypointEnds
  BY <1>4 DEF EntrypointEnds, TypeOK, PrintInv, ClientInv, ResultInv, Parsed, NoRunawayContainer
<1>5. CASE ContainerOom
  BY <1>5 DEF ContainerOom, TypeOK, PrintInv, ClientInv, ResultInv, Parsed, NoRunawayContainer
<1>6. CASE AutoRemove
  BY <1>6 DEF AutoRemove, TypeOK, PrintInv, ClientInv, ResultInv, Parsed, NoRunawayContainer
<1>7. CASE ClientExits
  BY <1>7 DEF ClientExits, TypeOK, PrintInv, ClientInv, ResultInv, Parsed, NoRunawayContainer
<1>8. ASSUME NEW sig \in {9, 15}, ClientDies(sig) PROVE SInv'
  BY <1>8 DEF ClientDies, TypeOK, PrintInv, ClientInv, ResultInv, Parsed, NoRunawayContainer
<1> QED BY <1>1, <1>2, <1>3, <1>4, <1>5, <1>6, <1>7, <1>8 DEF Daemon

\* Every step keeps the invariant.
LEMMA SandboxStep == SInv /\ [Next]_vars => SInv'
<1> SUFFICES ASSUME SInv, [Next]_vars PROVE SInv'
  OBVIOUS
<1>1. CASE UNCHANGED vars
  BY <1>1 DEF vars, SInv, TypeOK, PrintInv, ClientInv, ResultInv, Parsed, NoRunawayContainer
<1> QED BY <1>1, HostSteps, DaemonSteps DEF Next

\* The run keeps its types and the three parties' knowledge of one another.
THEOREM SandboxTypes == Spec => []SInv
BY SandboxInit, SandboxStep, PTL DEF Spec

\* The run's types, for every request and image.
THEOREM RunTypes == Spec => []TypeOK
<1>1. SInv => TypeOK
  BY DEF SInv
<1> QED BY <1>1, SandboxTypes, PTL

\* A container killed for its memory is reported as such, or as a deadline.
THEOREM OomReports == Spec => []OomIsReported
<1>1. SInv => OomIsReported
  <2> SUFFICES ASSUME SInv, pc \in {"stopping", "returned"}, code = 137, rc = 137
               PROVE  result.killed_reason \in {"oom", "deadline"}
    BY DEF OomIsReported
  <2>1. result = Deadlined \/ Parsed
    BY DEF SInv, ResultInv, ClientInv
  <2>2. out = Nothing
    BY DEF SInv, TypeOK, PrintInv
  <2>3. CASE result = Deadlined
    BY <2>3 DEF Deadlined, Verdict
  <2>4. CASE Parsed
    BY <2>2, <2>4, ParseOom DEF Parsed
  <2> QED BY <2>1, <2>3, <2>4
<1> QED BY <1>1, SandboxTypes, PTL

\* verify_snapshot does not return from a deadline or an infrastructure error
\* and leave its container running, unless docker rm failed.
THEOREM ContainerIsStopped == Spec => []NoRunawayContainer
<1>1. SInv => NoRunawayContainer
  BY DEF SInv
<1> QED BY <1>1, SandboxTypes, PTL

-----------------------------------------------------------------------------
(* What is delivered is what the image's entrypoint prints.                *)

\* The container prints the payload of its request or nothing; a client that
\* is still there when the container ends by itself will deliver it, and one
\* that ended with the container's own code has.
PayloadInv ==
  /\ stdout # Nothing => stdout = Main(lang, req)
  /\ client = "running" /\ container \in {"exited", "removed"} /\ code # 137
     => stdout = Main(lang, req)
  /\ client = "exited" /\ rc \in {0, 1} => out = Main(lang, req)

\* The container, the daemon, the client and the host keep it.
LEMMA PayloadStep == SInv /\ PayloadInv /\ [Next]_vars => PayloadInv'
<1> SUFFICES ASSUME SInv, PayloadInv, [Next]_vars PROVE PayloadInv'
  OBVIOUS
<1>0. TypeOK /\ PrintInv /\ ClientInv
  BY DEF SInv
<1>1. CASE UNCHANGED vars
  BY <1>1 DEF vars, PayloadInv
<1>2. CASE CannotStart \/ HostDies \/ Collect \/ Deadline
  BY <1>2 DEF CannotStart, Return, HostDies, Collect, Deadline, PayloadInv
<1>3. CASE Start
  BY <1>0, <1>3 DEF Start, PayloadInv, ClientInv
<1>4. CASE KillClient
  BY <1>4 DEF KillClient, PayloadInv
<1>5. CASE DockerStop
  BY <1>0, <1>5 DEF DockerStop, PayloadInv, ClientInv
<1>6. CASE DockerRm
  BY <1>0, <1>6 DEF DockerRm, PayloadInv, ClientInv
<1>7. CASE DaemonRefuses \/ DaemonCreates \/ DaemonStarts \/ AutoRemove
  BY <1>0, <1>7 DEF DaemonRefuses, DaemonCreates, DaemonStarts, AutoRemove, PayloadInv
<1>8. CASE EntrypointEnds
  BY <1>8 DEF EntrypointEnds, PayloadInv
<1>9. CASE ContainerOom
  BY <1>9 DEF ContainerOom, PayloadInv
<1>10. CASE ClientExits
  BY <1>0, <1>10 DEF ClientExits, PayloadInv, TypeOK
<1>11. ASSUME NEW sig \in {9, 15}, ClientDies(sig) PROVE PayloadInv'
  BY <1>11 DEF ClientDies, PayloadInv
<1> QED BY <1>1, <1>2, <1>3, <1>4, <1>5, <1>6, <1>7, <1>8, <1>9, <1>10, <1>11
        DEF Next, Host, Daemon

\* The payload the host reads is the one its image prints for the request.
THEOREM PayloadDelivered == Spec => [](SInv /\ PayloadInv)
<1>1. Init => SInv /\ PayloadInv
  BY SandboxInit DEF Init, PayloadInv
<1>2. SInv /\ PayloadInv /\ [Next]_vars => SInv' /\ PayloadInv'
  BY SandboxStep, PayloadStep
<1> QED BY <1>1, <1>2, PTL DEF Spec

\* A result without a kill reason is the entrypoint's own judgement, however
\* the client, the daemon and the deadline raced: in whether the tests passed
\* always, in all of its fields unless the captured text has an empty object
\* between result markers.
THEOREM OrdinaryResults == Spec => []OrdinaryIsEntrypoints
<1>1. SInv /\ PayloadInv => OrdinaryIsEntrypoints
  <2> SUFFICES ASSUME SInv, PayloadInv, pc = "returned", result.killed_reason = "none"
               PROVE  /\ stdout # Nothing
                      /\ result.tests_passed => stdout.judged.tests_passed
                      /\ ~Embeds(req)
                         => <<result.applied, result.built, result.tests_passed, result.exit_code>>
                            = <<stdout.judged.applied, stdout.judged.built,
                                stdout.judged.tests_passed, stdout.judged.exit_code>>
    BY DEF OrdinaryIsEntrypoints
  <2> DEFINE p == ExtractPayload(out)
  <2>1. Parsed
    BY DEF SInv, ResultInv, InfraError, Deadlined, Verdict
  <2>2. result = Parse(p, rc) /\ out \in {Nothing, stdout} /\ lang \in Langs
    BY <2>1 DEF Parsed, SInv, TypeOK
  <2>3. /\ p # NoPayload /\ result.applied = p.applied /\ result.built = p.built
        /\ result.tests_passed = p.tests_passed /\ result.exit_code = p.exit_code
    <3> HIDE DEF p
    <3> QED BY <2>2, ParseRepeats
  <2>4. out = stdout /\ stdout # Nothing
    BY <2>2, <2>3, PayloadTaken
  <2>5. stdout = Main(lang, req)
    BY <2>4 DEF PayloadInv
  <2>6. \/ stdout.reads = "whole" /\ p = stdout.judged
        \/ stdout.reads = "empty" /\ p = EmptyPayload
    BY <2>3, <2>4, PayloadTaken
  <2>7. stdout.reads = "empty" => Embeds(req)
    BY <2>2, <2>5, EmptyIsEmbedded
  <2> HIDE DEF p
  <2> QED BY <2>3, <2>4, <2>6, <2>7, EmptyFails
<1> QED BY <1>1, PayloadDelivered, PTL

\* The operations of a well-formed request.
LEMMA RequestOps ==
  ASSUME NEW r \in Requests, WellFormed(r.env)
  PROVE  WellOps(r.env.ops)
BY RequestAssumption DEF WellFormed, WellOps

\* A verified verdict is that of a payload reporting success at every stage.
LEMMA ParseVerified ==
  ASSUME NEW p, NEW docker_rc, Parse(p, docker_rc).verified
  PROVE  p # NoPayload /\ p.applied /\ p.built /\ p.tests_passed
<1>1. p # NoPayload
  BY DEF Parse, Verdict, InfraError
<1> DEFINE killed == KilledReason(p)
           ok == p.applied /\ p.built /\ p.tests_passed /\ killed = "none"
<1>2. Parse(p, docker_rc) = Verdict(ok, p.applied, p.built, p.tests_passed, p.exit_code,
                                    IF ok THEN "done" ELSE p.stage, killed)
  BY <1>1 DEF Parse
<1> DEFINE v == Verdict(ok, p.applied, p.built, p.tests_passed, p.exit_code,
                        IF ok THEN "done" ELSE p.stage, killed)
<1>3. v.verified <=> ok
  BY DEF Verdict
<1> HIDE DEF v
<1>4. ok
  BY <1>2, <1>3, Zenon DEF v
<1> QED BY <1>1, <1>4

\* A verified result means that the tree the envelope describes compiles and
\* passes the tests, for envelopes of any length and whatever happened to the
\* client, the container and the host on the way; from the Rust runner, for
\* envelopes it reads as they are.
THEOREM VerifiedResults == Spec => []VerifiedIsReal
<1>1. SInv /\ PayloadInv => VerifiedIsReal
  <2> SUFFICES ASSUME SInv, PayloadInv, result # NoResult, result.verified,
                      lang = "rust" => Balanced(req.env) /\ Literal(req.env)
               PROVE  /\ stdout # Nothing
                      /\ WellFormed(req.env)
                         => Compiles(Meant(req.env.ops)) /\ Passes(Meant(req.env.ops))
    BY DEF VerifiedIsReal
  <2>0. TypeOK /\ ResultInv
    BY DEF SInv
  <2>1. ~InfraError.verified /\ ~Deadlined.verified
    BY DEF InfraError, Deadlined, Verdict
  <2>2. result = Parse(ExtractPayload(out), rc)
    BY <2>0, <2>1 DEF ResultInv, Parsed, TypeOK
  <2>3. ExtractPayload(out) # NoPayload /\ ExtractPayload(out).tests_passed
    BY <2>2, ParseVerified
  <2>4. out # Nothing /\ out.judged.tests_passed
    BY <2>3, PayloadTaken, EmptyFails
  <2>5. stdout # Nothing /\ out = Main(lang, req)
    BY <2>0, <2>4 DEF TypeOK, PayloadInv
  <2>6. req \in Requests /\ lang \in Langs /\ req.suite.sig \in Nat
    BY <2>0, RequestAssumption DEF TypeOK
  <2>7. ASSUME WellFormed(req.env)
        PROVE  Compiles(Meant(req.env.ops)) /\ Passes(Meant(req.env.ops))
    <3>1. WellOps(req.env.ops)
      BY <2>6, <2>7, RequestOps
    <3>2. Main(lang, req) # Nothing /\ Main(lang, req).judged.tests_passed
      BY <2>4, <2>5
    <3> QED BY <2>6, <2>7, <3>1, <3>2, SuccessIsReal
  <2> QED BY <2>5, <2>7
<1> QED BY <1>1, PayloadDelivered, PTL

\* A run that completes on an ordinary request has the verdict the reference
\* runner has, whichever of the four images was configured.
THEOREM RunnersAgree == Spec => []Parity
<1>1. SInv /\ PayloadInv => Parity
  <2> SUFFICES ASSUME SInv, PayloadInv, Completed, Ordinary(req)
               PROVE  result = Parse(ExtractPayload(Main("python", req)), rc)
    BY DEF Parity
  <2>0. TypeOK /\ ResultInv
    BY DEF SInv
  <2>1. Deadlined.killed_reason = "deadline"
    BY DEF Deadlined, Verdict
  <2>2. result = Parse(ExtractPayload(out), rc)
    BY <2>0, <2>1 DEF ResultInv, Parsed, Completed
  <2>3. out = Main(lang, req)
    BY DEF PayloadInv, Completed
  <2>4. req \in Requests /\ lang \in Langs /\ "python" \in Langs /\ WellFormed(req.env)
    BY <2>0 DEF TypeOK, Langs, Ordinary
  <2>5. WellOps(req.env.ops)
    BY <2>4, RequestOps
  <2>6. Main(lang, req) = Usual(req) /\ Main("python", req) = Usual(req)
    BY <2>4, <2>5, OneJudgement
  <2> QED BY <2>2, <2>3, <2>6
<1> QED BY <1>1, PayloadDelivered, PTL

=============================================================================
