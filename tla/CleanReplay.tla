----------------------------- MODULE CleanReplay ----------------------------
(***************************************************************************)
(* codex/minimal_b_mcp.py, CleanReplayService.submit: a program is stored, *)
(* validated, run and verified in a fresh environment, and the environment *)
(* is released; then the replay is appended to the trace and the programs  *)
(* certified so far are written to the certification file.  A certificate  *)
(* needs a passing verification and a release that went through.           *)
(*                                                                         *)
(* submit() is one call of one thread; its steps are what a death of the   *)
(* process tells apart.  Programs stand for their canonical digests: the   *)
(* validator's normalization does not change the digest of a canonical     *)
(* program.                                                                *)
(***************************************************************************)
EXTENDS Naturals, FiniteSets, Sequences, SequencesExt

CONSTANTS
  Program,      \* programs, by the digest of their canonical text
  Admissible,   \* those that the validator accepts
  MaxReplays    \* bound on the replays, and on the environments

ASSUME ReplayAssumption == Admissible \subseteq Program /\ MaxReplays \in Nat

Replay == 1 .. MaxReplays
Environment == 1 .. MaxReplays   \* environment ids that the provider may return

VARIABLES
  service,        \* the replay in progress, see ServiceState
  certified,      \* certified_programs
  programs,       \* programs/<replay id>.sh
  trace,          \* replays.jsonl
  certification,  \* the certified programs of certification.json
  lease, hosted   \* the environments, and the replays that ran in them

serviceVars == <<service, certified, programs, trace, certification, lease, hosted>>

NoProgram == "none"
Status == {"pass", "fail", "unknown", "infrastructure_error"}
Audit == {"none", "whole", "cut"}
Certificate == [replay : Replay, program : Program, environment : Environment]
\* audit: whether the details of a passing record have the repository audit
\* whole, or the bound on their length cut it.
ReplayRecord ==
  [replay : Replay, program : Program, status : Status,
   environment : Environment \cup {0}, audit : Audit]

\* replay: sequence; environment: 0 without a handle; found: what the verifier
\* said; status: of the result.
Found == {"none", "pass", "fail", "unknown", "contradiction", "network", "error"}
ServiceState ==
  [pc : {"idle", "provisioning", "verifying", "releasing", "tracing", "certifying",
         "answered", "raised"},
   replay : Replay \cup {0}, program : Program \cup {NoProgram},
   environment : Environment \cup {0}, found : Found, status : Status \cup {"none"}]

ReplayInit ==
  /\ service = [pc |-> "idle", replay |-> 0, program |-> NoProgram, environment |-> 0,
                found |-> "none", status |-> "none"]
  /\ certified = <<>> /\ certification = <<>> /\ trace = <<>>
  /\ programs = [r \in Replay |-> NoProgram]
  /\ lease = [e \in Environment |-> "absent"] /\ hosted = [e \in Environment |-> {}]

Serving(place) == service.pc = place

\* The program is stored and validated.
Submit(p) ==
  /\ Serving("idle") /\ service.replay < MaxReplays
  /\ LET r == service.replay + 1 IN
       /\ programs' = [programs EXCEPT ![r] = p]
       /\ service' = [service EXCEPT
            !.pc = IF p \in Admissible THEN "provisioning" ELSE "tracing",
            !.replay = r, !.program = p, !.environment = 0, !.found = "none",
            !.status = IF p \in Admissible THEN "none" ELSE "fail"]
  /\ UNCHANGED <<certified, trace, certification, lease, hosted>>

\* provider.provision raises, or returns an environment of its own; a receipt
\* for another repository, revision or image is refused.  An identity that the
\* service knows is refused as well: the provider is assumed to return new ones,
\* and that branch is left out.
ProvisionFails ==
  /\ Serving("provisioning")
  /\ service' = [service EXCEPT !.pc = "tracing", !.status = "infrastructure_error"]
  /\ UNCHANGED <<certified, programs, trace, certification, lease, hosted>>

\* Mutant: an environment whose release failed is taken again.
ProvisionAgain(e) ==
  /\ Serving("provisioning")
  /\ lease[e] \in {"absent", "leaked"}
  /\ lease' = [lease EXCEPT ![e] = "leased"]
  /\ service' = [service EXCEPT !.pc = "verifying", !.environment = e]
  /\ UNCHANGED <<certified, programs, trace, certification, hosted>>

Provision(e) ==
  /\ Serving("provisioning")
  /\ lease[e] = "absent" /\ \A f \in Environment : f < e => lease[f] # "absent"
  /\ lease' = [lease EXCEPT ![e] = "leased"]
  /\ \/ service' = [service EXCEPT !.pc = "verifying", !.environment = e]
     \/ service' = [service EXCEPT !.pc = "releasing", !.environment = e, !.found = "error"]
  /\ UNCHANGED <<certified, programs, trace, certification, hosted>>

\* Mutant: an exception of the verifier leaves the environment.
VerifyUnguarded(found) ==
  /\ Serving("verifying")
  /\ hosted' = [hosted EXCEPT ![service.environment] = @ \cup {service.replay}]
  /\ service' = IF found = "error"
       THEN [service EXCEPT !.pc = "tracing", !.status = "infrastructure_error"]
       ELSE [service EXCEPT !.pc = "releasing", !.found = found]
  /\ UNCHANGED <<certified, programs, trace, certification, lease>>

\* verifier.verify runs the program and judges it, or raises.
Verify(found) ==
  /\ Serving("verifying")
  /\ hosted' = [hosted EXCEPT ![service.environment] = @ \cup {service.replay}]
  /\ service' = [service EXCEPT !.pc = "releasing", !.found = found]
  /\ UNCHANGED <<certified, programs, trace, certification, lease>>

\* Mutant: the error of a release is only logged.
StatusUnreleased(released) ==
  CASE service.found \in {"pass", "fail", "unknown"} -> service.found
    [] OTHER -> "infrastructure_error"

\* What the replay comes to: an error before or at the release, a network
\* failure in the logs and a pass that contradicts itself certify nothing.
StatusOf(released) ==
  IF released /\ service.found \in {"pass", "fail", "unknown"}
    THEN service.found ELSE "infrastructure_error"

\* The finally clause: provider.release goes through or fails; a pass is
\* certified in memory.
Release ==
  /\ Serving("releasing")
  /\ \E released \in BOOLEAN :
       LET status == StatusOf(released) IN
         /\ lease' = [lease EXCEPT ![service.environment] =
                        IF released THEN "released" ELSE "leaked"]
         /\ service' = [service EXCEPT !.pc = "tracing", !.status = status]
         /\ certified' = IF status = "pass"
              THEN Append(certified, [replay |-> service.replay, program |-> service.program,
                                      environment |-> service.environment])
              ELSE certified
  /\ UNCHANGED <<programs, trace, certification, hosted>>

\* Mutant: a trace that cannot be written is given up.
TraceFailsSilently ==
  /\ Serving("tracing")
  /\ service' = [service EXCEPT !.pc = "certifying"]
  /\ UNCHANGED <<certified, programs, trace, certification, lease, hosted>>

\* _finish appends the record and syncs it; an OSError ends the call.
TraceFails ==
  /\ Serving("tracing")
  /\ service' = [service EXCEPT !.pc = "raised"]
  /\ UNCHANGED <<certified, programs, trace, certification, lease, hosted>>

Trace(audit) ==
  /\ Serving("tracing")
  /\ audit = "none" <=> service.status # "pass"
  /\ trace' = Append(trace,
       [replay |-> service.replay, program |-> service.program, status |-> service.status,
        environment |-> service.environment, audit |-> audit])
  /\ service' = [service EXCEPT !.pc = "certifying"]
  /\ UNCHANGED <<certified, programs, certification, lease, hosted>>

\* ... and replaces the certification file.
Certify ==
  /\ Serving("certifying")
  /\ certification' = certified
  /\ service' = [service EXCEPT !.pc = "answered"]
  /\ UNCHANGED <<certified, programs, trace, lease, hosted>>

CertifyFails ==
  /\ Serving("certifying")
  /\ service' = [service EXCEPT !.pc = "raised"]
  /\ UNCHANGED <<certified, programs, trace, certification, lease, hosted>>

ServiceStep ==
  \/ ProvisionFails \/ (\E e \in Environment : Provision(e))
  \/ (\E found \in Found \ {"none"} : Verify(found)) \/ Release
  \/ TraceFails \/ (\E audit \in Audit : Trace(audit))
  \/ Certify \/ CertifyFails

-----------------------------------------------------------------------------
ServiceTypeOK ==
  /\ service \in ServiceState
  /\ certified \in Seq(Certificate) /\ certification \in Seq(Certificate)
  /\ programs \in [Replay -> Program \cup {NoProgram}]
  /\ trace \in Seq(ReplayRecord)
  /\ lease \in [Environment -> {"absent", "leased", "released", "leaked", "orphaned"}]
  /\ hosted \in [Environment -> SUBSET Replay]

\* What the certification file says happened: every certificate has its
\* passing record in the trace, in the same environment, at any time, also if
\* the process is gone between any two writes.
CertificatesTraced ==
  \A c \in ToSet(certification) : \E record \in ToSet(trace) :
    /\ record.replay = c.replay /\ record.program = c.program
    /\ record.environment = c.environment /\ record.status = "pass"

\* A certificate names a program file that still has the program it is for,
\* and an environment that only its replay ran in and that is released.
CertificatesHold ==
  \A c \in ToSet(certified) :
    /\ programs[c.replay] = c.program
    /\ hosted[c.environment] = {c.replay}
    /\ lease[c.environment] = "released"

=============================================================================
