----------------------------- MODULE AgentProofs ----------------------------
(***************************************************************************)
(* A model session and its replays, for any programs, modes and bounds,    *)
(* and a death at any step: every certificate in memory names the program, *)
(* the environment and the replay it came from, every certificate on disk  *)
(* has its record in the trace, environments are given up, the incumbent   *)
(* is the newest certified program, and what run() delivers ran alone in   *)
(* an environment released before, as CertifiedDelivery promises.          *)
(***************************************************************************)
EXTENDS AgentLoop, FiniteSetTheorems, TLAPS

Acting == service.pc \in {"provisioning", "verifying", "releasing"}
Concluded == service.pc \in {"tracing", "certifying", "answered", "raised"}
Passed == Concluded /\ service.status = "pass"
Latest == IF certified = <<>> THEN NoProgram ELSE Last(certified).program

\* The replay in progress has a number, a stored program and, from the trace
\* on, a status.  A passing one is the newest certificate.
Numbered ==
  /\ Serving("idle") \/ Acting => service.status = "none"
  /\ ~Serving("idle") =>
       /\ service.replay \in Replay /\ service.program \in Program
       /\ programs[service.replay] = service.program
  /\ Concluded => service.status \in Status
  /\ Passed => certified # <<>> /\ Last(certified).program = service.program

\* Only the replay in progress holds an environment, and it ran alone in it.
Held ==
  /\ service.pc \in {"verifying", "releasing"} =>
       /\ service.environment \in Environment
       /\ lease[service.environment] \in {"leased", "orphaned"}
  /\ Serving("verifying") => hosted[service.environment] = {}
  /\ Serving("releasing") /\ service.found \in {"pass", "fail", "unknown"} =>
       hosted[service.environment] = {service.replay}
  /\ \A e \in Environment :
       /\ lease[e] = "leased" =>
            service.pc \in {"verifying", "releasing"} /\ e = service.environment
       /\ lease[e] = "absent" => hosted[e] = {}

Traced(c) ==
  \E i \in 1 .. Len(trace) :
    /\ trace[i].replay = c.replay /\ trace[i].program = c.program
    /\ trace[i].environment = c.environment /\ trace[i].status = "pass"

\* c is the certificate of the replay that is about to be traced, or whose
\* trace could not be written.
Current(c) ==
  /\ service.pc \in {"tracing", "raised"} /\ service.status = "pass"
  /\ c.replay = service.replay /\ c.program = service.program
  /\ c.environment = service.environment

\* A certificate is true of its replay, and is traced before the next one.
Certain ==
  \A i \in 1 .. Len(certified) :
    LET c == certified[i] IN
      /\ c.replay <= service.replay
      /\ programs[c.replay] = c.program
      /\ hosted[c.environment] = {c.replay}
      /\ lease[c.environment] = "released"
      /\ Traced(c) \/ Current(c)

Recorded == \A i \in 1 .. Len(certification) : Traced(certification[i])

ServiceInv == ServiceTypeOK /\ Numbered /\ Held /\ Certain /\ Recorded

NoOrphan == \A e \in Environment : lease[e] # "orphaned"

\* The session waits for a replay in progress, unless it is dead; and it keeps
\* what passed.
Attentive ==
  /\ Serving("idle") \/ Serving("raised") \/ Doing("calling") \/ Doing("dead")
  /\ Doing("calling") => agent.calls >= 1
  /\ Doing("dead") \/ NoOrphan
  /\ mode = "incumbent" /\ ~Passed => incumbent = Latest

AgentInv == AgentTypeOK /\ ServiceInv /\ Attentive

-----------------------------------------------------------------------------
(* The replay service                                                      *)

LEMMA CertificateTypes ==
  ASSUME ServiceTypeOK, NEW i \in 1 .. Len(certified)
  PROVE  certified[i].replay \in Replay /\ certified[i].environment \in Environment
<1>1. certified[i] \in Certificate
  BY DEF ServiceTypeOK
<1> QED BY <1>1 DEF Certificate

LEMMA ServiceInitInv == ReplayInit => ServiceInv /\ NoOrphan
<1> SUFFICES ASSUME ReplayInit PROVE ServiceInv /\ NoOrphan
  OBVIOUS
<1>1. ServiceTypeOK
  BY DEF ReplayInit, ServiceTypeOK, ServiceState, Found
<1>2. Numbered /\ Held /\ Certain /\ Recorded /\ NoOrphan
  BY DEF ReplayInit, Numbered, Held, Certain, Recorded, NoOrphan, Serving, Acting, Concluded, Passed
<1> QED BY <1>1, <1>2 DEF ServiceInv

LEMMA ServiceSame ==
  ASSUME ServiceInv, UNCHANGED serviceVars
  PROVE  ServiceInv'
BY DEF ServiceInv, serviceVars, ServiceTypeOK, Numbered, Held, Certain, Recorded, Serving, Acting,
   Concluded, Passed, Traced, Current

\* A new replay has a new number: no certificate's program is overwritten.
LEMMA SubmitInv ==
  ASSUME ServiceInv, NEW p \in Program, Submit(p)
  PROVE  /\ ServiceInv' /\ UNCHANGED <<certified, lease>>
         /\ ~Passed'
<1> USE DEF ServiceInv
<1> DEFINE r == service.replay + 1
<1>1. /\ Serving("idle") /\ service \in ServiceState /\ r \in Replay /\ service.replay \in Nat
      /\ UNCHANGED <<certified, trace, certification, lease, hosted>>
      /\ programs' = [programs EXCEPT ![r] = p]
  BY ReplayAssumption DEF Submit, ServiceTypeOK, ServiceState, Replay
<1>2. /\ service' \in ServiceState /\ service'.replay = r /\ service'.program = p
      /\ \/ service'.pc = "provisioning" /\ service'.status = "none"
         \/ service'.pc = "tracing" /\ service'.status = "fail"
  BY ZenonT(40), <1>1 DEF Submit, ServiceState, Status, Found
<1>3. ServiceTypeOK'
  BY <1>1, <1>2 DEF ServiceTypeOK
<1>4. programs'[r] = p /\ \A n \in Replay \ {r} : programs'[n] = programs[n]
  BY <1>1 DEF ServiceTypeOK
<1>5. Numbered' /\ ~Passed'
  BY <1>1, <1>2, <1>4 DEF Numbered, Serving, Acting, Concluded, Passed, Status
<1>6. Held'
  BY <1>1, <1>2 DEF Held, Serving
<1>7. Certain'
  <2> SUFFICES ASSUME NEW i \in 1 .. Len(certified)
               PROVE  /\ certified[i].replay <= r
                      /\ programs'[certified[i].replay] = certified[i].program
                      /\ hosted[certified[i].environment] = {certified[i].replay}
                      /\ lease[certified[i].environment] = "released"
                      /\ Traced(certified[i])
    BY <1>1, <1>2 DEF Certain, Traced
  <2>1. certified[i].replay \in Replay
    BY CertificateTypes
  <2>2. certified[i].replay <= service.replay /\ Traced(certified[i])
    BY <1>1 DEF Certain, Current, Serving
  <2> QED BY <1>1, <1>4, <2>1, <2>2 DEF Certain, Replay
<1>8. Recorded'
  BY <1>1 DEF Recorded, Traced
<1> QED BY <1>1, <1>3, <1>5, <1>6, <1>7, <1>8

\* What a step of the replay keeps for the session: without a death no
\* environment is orphaned, and the certificates stay, unless one was added
\* for the replay that passed.
Serves ==
  /\ ServiceInv' /\ NoOrphan'
  /\ service'.pc # "idle"
  /\ Passed' \/ (~Passed /\ certified' = certified)

LEMMA ProvisionInv ==
  ASSUME ServiceInv, NoOrphan, ProvisionFails \/ \E e \in Environment : Provision(e)
  PROVE  Serves
<1> USE DEF ServiceInv
<1>1. /\ Serving("provisioning") /\ service \in ServiceState
      /\ UNCHANGED <<certified, programs, trace, certification, hosted>>
  BY DEF ProvisionFails, Provision, ServiceTypeOK
<1>2. CASE ProvisionFails
  <2>1. /\ service' \in ServiceState /\ service'.pc = "tracing" /\ service'.replay = service.replay
        /\ service'.program = service.program /\ service'.status = "infrastructure_error"
        /\ lease' = lease
    BY <1>1, <1>2 DEF ProvisionFails, ServiceState, Status
  <2>2. ServiceTypeOK'
    BY <1>1, <2>1 DEF ServiceTypeOK
  <2>3. Numbered' /\ Held' /\ Recorded' /\ NoOrphan'
    BY <1>1, <2>1 DEF Numbered, Held, Recorded, NoOrphan, Serving, Acting, Concluded, Passed, Status, Traced
  <2>4. Certain'
    BY <1>1, <2>1 DEF Certain, Current, Traced, Serving
  <2> QED BY <1>1, <2>1, <2>2, <2>3, <2>4 DEF Serves, Passed, Concluded, Serving
<1>3. ASSUME NEW e \in Environment, Provision(e)
      PROVE  Serves
  <2>1. /\ service' \in ServiceState /\ service'.pc \in {"verifying", "releasing"}
        /\ service'.replay = service.replay /\ service'.program = service.program
        /\ service'.status = service.status /\ service'.environment = e
        /\ service'.pc = "releasing" => service'.found = "error"
    BY ZenonT(40), <1>1, <1>3 DEF Provision, ServiceState, Found
  <2>2. lease[e] = "absent" /\ lease' = [lease EXCEPT ![e] = "leased"]
    BY <1>3 DEF Provision
  <2>3. lease'[e] = "leased" /\ \A f \in Environment \ {e} : lease'[f] = lease[f]
    BY <2>2 DEF ServiceTypeOK
  <2>4. ServiceTypeOK'
    BY <1>1, <2>1, <2>2 DEF ServiceTypeOK
  <2>5. Numbered' /\ Recorded' /\ NoOrphan'
    BY <1>1, <2>1, <2>3 DEF Numbered, Recorded, NoOrphan, Serving, Acting, Concluded, Passed, Traced
  <2>6. Held'
    BY <1>1, <2>1, <2>2, <2>3 DEF Held, Serving
  <2>7. Certain'
    <3> SUFFICES ASSUME NEW i \in 1 .. Len(certified)
                 PROVE  /\ certified[i].replay <= service'.replay
                        /\ programs[certified[i].replay] = certified[i].program
                        /\ hosted[certified[i].environment] = {certified[i].replay}
                        /\ lease'[certified[i].environment] = "released"
                        /\ Traced(certified[i])
      BY <1>1 DEF Certain, Traced
    <3>1. certified[i].environment \in Environment
      BY CertificateTypes
    <3> QED BY <1>1, <2>1, <2>2, <2>3, <3>1 DEF Certain, Current, Serving
  <2> QED BY <1>1, <2>1, <2>4, <2>5, <2>6, <2>7 DEF Serves, Passed, Concluded, Serving
<1> QED BY <1>2, <1>3

\* The program ran in an environment that nothing ran in before.
LEMMA VerifyInv ==
  ASSUME ServiceInv, NoOrphan, NEW found \in Found \ {"none"}, Verify(found)
  PROVE  Serves
<1> USE DEF ServiceInv
<1> DEFINE e == service.environment
<1>1. /\ Serving("verifying") /\ service \in ServiceState /\ e \in Environment
      /\ UNCHANGED <<certified, programs, trace, certification, lease>>
      /\ hosted' = [hosted EXCEPT ![e] = hosted[e] \cup {service.replay}]
      /\ service.replay \in Replay
  BY DEF Verify, ServiceTypeOK, Held, Numbered, Serving
<1>2. /\ service' \in ServiceState /\ service'.pc = "releasing" /\ service'.replay = service.replay
      /\ service'.program = service.program /\ service'.status = service.status
      /\ service'.environment = e
  BY <1>1 DEF Verify, ServiceState
<1>3. /\ hosted'[e] = {service.replay}
      /\ \A f \in Environment \ {e} : hosted'[f] = hosted[f]
  BY <1>1 DEF ServiceTypeOK, Held
<1>4. ServiceTypeOK'
  BY <1>1, <1>2 DEF ServiceTypeOK
<1>5. Numbered' /\ Recorded' /\ NoOrphan'
  BY <1>1, <1>2 DEF Numbered, Recorded, NoOrphan, Serving, Acting, Concluded, Passed, Traced
<1>6. lease[e] = "leased"
  BY <1>1 DEF Held, NoOrphan, Serving
<1>7. Held'
  BY <1>1, <1>2, <1>3, <1>6 DEF Held, Serving
<1>8. Certain'
  <2> SUFFICES ASSUME NEW i \in 1 .. Len(certified)
               PROVE  /\ certified[i].replay <= service'.replay
                      /\ programs[certified[i].replay] = certified[i].program
                      /\ hosted'[certified[i].environment] = {certified[i].replay}
                      /\ lease[certified[i].environment] = "released"
                      /\ Traced(certified[i])
    BY <1>1 DEF Certain, Traced
  <2>1. certified[i].environment \in Environment
    BY CertificateTypes
  <2> QED BY <1>1, <1>2, <1>3, <1>6, <2>1 DEF Certain, Current, Serving
<1> QED BY <1>1, <1>2, <1>4, <1>5, <1>7, <1>8 DEF Serves, Passed, Concluded, Serving

\* A certificate is made in the step in which the environment is released.
LEMMA ReleaseInv ==
  ASSUME ServiceInv, NoOrphan, Release
  PROVE  Serves
<1> USE DEF ServiceInv
<1> DEFINE e == service.environment
           c == [replay |-> service.replay, program |-> service.program, environment |-> e]
<1>1. /\ Serving("releasing") /\ service \in ServiceState /\ e \in Environment
      /\ UNCHANGED <<programs, trace, certification, hosted>>
      /\ service.replay \in Replay /\ service.program \in Program
      /\ programs[service.replay] = service.program
  BY DEF Release, ServiceTypeOK, Held, Numbered, Serving
<1>2. PICK released \in BOOLEAN :
        /\ lease' = [lease EXCEPT ![e] = IF released THEN "released" ELSE "leaked"]
        /\ service' = [service EXCEPT !.pc = "tracing", !.status = StatusOf(released)]
        /\ certified' = IF StatusOf(released) = "pass" THEN Append(certified, c) ELSE certified
  BY DEF Release
<1>3. /\ StatusOf(released) \in Status
      /\ StatusOf(released) = "pass" => released /\ service.found = "pass"
  BY DEF StatusOf, Status
<1>4. /\ service' \in ServiceState /\ service'.pc = "tracing" /\ service'.replay = service.replay
      /\ service'.program = service.program /\ service'.status = StatusOf(released)
      /\ service'.environment = e
  BY <1>1, <1>2, <1>3 DEF ServiceState
<1>5. /\ lease'[e] = IF released THEN "released" ELSE "leaked"
      /\ \A f \in Environment \ {e} : lease'[f] = lease[f]
  BY <1>1, <1>2 DEF ServiceTypeOK
<1>6. c \in Certificate /\ c.replay = service.replay /\ c.program = service.program /\ c.environment = e
  BY <1>1 DEF Certificate
<1>7. ServiceTypeOK'
  <2>1. certified' \in Seq(Certificate)
    BY <1>2, <1>6 DEF ServiceTypeOK
  <2> QED BY <1>1, <1>2, <1>4, <2>1 DEF ServiceTypeOK
<1>8. StatusOf(released) = "pass" =>
        certified' # <<>> /\ Last(certified').program = service.program
  <2> SUFFICES ASSUME StatusOf(released) = "pass"
               PROVE  certified' # <<>> /\ certified'[Len(certified')] = c
    BY <1>6 DEF Last
  <2>1. certified' = Append(certified, c) /\ certified \in Seq(Certificate)
    BY <1>2 DEF ServiceTypeOK
  <2> QED BY <1>6, <2>1
<1>9. Numbered' /\ Recorded' /\ NoOrphan'
  BY <1>1, <1>3, <1>4, <1>5, <1>8 DEF Numbered, Recorded, NoOrphan, Serving, Acting, Concluded, Passed, Traced
<1>10. Held'
  BY <1>1, <1>4, <1>5 DEF Held, Serving
<1>11. lease[e] = "leased"
  BY <1>1 DEF Held, NoOrphan, Serving
<1>12. ASSUME NEW i \in 1 .. Len(certified)
       PROVE  /\ certified[i].replay <= service.replay
              /\ programs[certified[i].replay] = certified[i].program
              /\ hosted[certified[i].environment] = {certified[i].replay}
              /\ lease'[certified[i].environment] = "released"
              /\ Traced(certified[i])
  <2>1. certified[i].environment \in Environment
    BY CertificateTypes
  <2> QED BY <1>1, <1>5, <1>11, <2>1 DEF Certain, Current, Serving
<1>13. CASE StatusOf(released) = "pass"
  <2>1. \A i \in 1 .. Len(certified') :
          \/ i \in 1 .. Len(certified) /\ certified'[i] = certified[i]
          \/ certified'[i] = c
    BY <1>2, <1>13, <1>6 DEF ServiceTypeOK
  <2>2. /\ hosted[e] = {service.replay} /\ lease'[e] = "released"
    BY <1>1, <1>3, <1>5, <1>13 DEF Held
  <2>3. Certain'
    <3> SUFFICES ASSUME NEW i \in 1 .. Len(certified')
                 PROVE  /\ certified'[i].replay <= service'.replay
                        /\ programs'[certified'[i].replay] = certified'[i].program
                        /\ hosted'[certified'[i].environment] = {certified'[i].replay}
                        /\ lease'[certified'[i].environment] = "released"
                        /\ Traced(certified[i])' \/ Current(certified[i])'
      BY DEF Certain
    <3>1. CASE i \in 1 .. Len(certified) /\ certified'[i] = certified[i]
      BY <1>1, <1>4, <1>12, <3>1 DEF Traced
    <3>2. CASE certified'[i] = c
      BY <1>1, <1>4, <1>6, <1>13, <2>2, <3>2 DEF Replay, Current
    <3> QED BY <2>1, <3>1, <3>2
  <2> QED BY <1>4, <1>7, <1>9, <1>10, <1>13, <2>3 DEF Serves, Passed, Concluded
<1>14. CASE StatusOf(released) # "pass"
  <2>1. certified' = certified
    BY <1>2, <1>14
  <2>2. Certain'
    BY <1>1, <1>4, <1>12, <2>1 DEF Certain, Traced
  <2> QED BY <1>1, <1>4, <1>7, <1>9, <1>10, <1>14, <2>1, <2>2 DEF Serves, Passed, Concluded, Serving
<1> QED BY <1>13, <1>14

\* The certificate, if the replay passed, is traced before it is written.
LEMMA TraceInv ==
  ASSUME ServiceInv, NoOrphan, NEW audit \in Audit, Trace(audit)
  PROVE  Serves
<1> USE DEF ServiceInv
<1> DEFINE record == [replay |-> service.replay, program |-> service.program,
                      status |-> service.status, environment |-> service.environment,
                      audit |-> audit]
<1>1. /\ Serving("tracing") /\ service \in ServiceState
      /\ UNCHANGED <<certified, programs, certification, lease, hosted>>
      /\ service.replay \in Replay /\ service.program \in Program /\ service.status \in Status
      /\ programs[service.replay] = service.program
  BY DEF Trace, ServiceTypeOK, Numbered, Serving, Concluded
<1>2. /\ service' \in ServiceState /\ service'.pc = "certifying" /\ service'.replay = service.replay
      /\ service'.program = service.program /\ service'.status = service.status
  BY <1>1 DEF Trace, ServiceState
<1>3. trace' = Append(trace, record)
  BY DEF Trace
<1>4. /\ record \in ReplayRecord /\ record.replay = service.replay
      /\ record.program = service.program /\ record.status = service.status
      /\ record.environment = service.environment
  BY <1>1 DEF ReplayRecord, ServiceState
<1>5. /\ trace' \in Seq(ReplayRecord) /\ Len(trace') = Len(trace) + 1 /\ Len(trace) \in Nat
      /\ trace'[Len(trace) + 1] = record
      /\ \A i \in 1 .. Len(trace) : trace'[i] = trace[i]
  BY <1>3, <1>4 DEF ServiceTypeOK
<1>6. ServiceTypeOK'
  BY <1>1, <1>2, <1>5 DEF ServiceTypeOK
<1>7. ASSUME NEW c, Traced(c) \/ Current(c)
      PROVE  \E i \in 1 .. Len(trace') :
               /\ trace'[i].replay = c.replay /\ trace'[i].program = c.program
               /\ trace'[i].environment = c.environment /\ trace'[i].status = "pass"
  <2>1. CASE Traced(c)
    BY <1>5, <2>1 DEF Traced
  <2>2. CASE Current(c)
    BY <1>4, <1>5, <2>2 DEF Current
  <2> QED BY <1>7, <2>1, <2>2
<1>8. Numbered' /\ Held' /\ NoOrphan'
  BY <1>1, <1>2 DEF Numbered, Held, NoOrphan, Serving, Acting, Concluded, Passed
<1>9. Recorded'
  BY <1>1, <1>7 DEF Recorded, Traced
<1>10. Certain'
  BY <1>1, <1>2, <1>7 DEF Certain, Traced
<1> QED BY <1>1, <1>2, <1>6, <1>8, <1>9, <1>10 DEF Serves, Passed, Concluded, Serving

\* What is written to the certification file is traced.
LEMMA ConcludeInv ==
  ASSUME ServiceInv, NoOrphan, TraceFails \/ Certify \/ CertifyFails
  PROVE  Serves
<1> USE DEF ServiceInv
<1>1. /\ service \in ServiceState /\ UNCHANGED <<certified, programs, trace, lease, hosted>>
      /\ \/ Serving("tracing") /\ service'.pc = "raised" /\ certification' = certification
         \/ Serving("certifying") /\ service'.pc = "raised" /\ certification' = certification
         \/ Serving("certifying") /\ service'.pc = "answered" /\ certification' = certified
  BY DEF TraceFails, Certify, CertifyFails, ServiceTypeOK, ServiceState
<1>2. /\ service' \in ServiceState /\ service'.replay = service.replay
      /\ service'.program = service.program /\ service'.status = service.status
      /\ service'.environment = service.environment
  BY <1>1 DEF TraceFails, Certify, CertifyFails, ServiceState
<1>3. ServiceTypeOK'
  BY <1>1, <1>2 DEF ServiceTypeOK
<1>4. Numbered' /\ Held' /\ NoOrphan'
  BY <1>1, <1>2 DEF Numbered, Held, NoOrphan, Serving, Acting, Concluded, Passed
<1>5. Certain'
  BY <1>1, <1>2 DEF Certain, Traced, Current, Serving
<1>6. Recorded'
  BY SMTT(30), <1>1 DEF Recorded, Certain, Traced, Current, Serving
<1> QED BY <1>1, <1>2, <1>3, <1>4, <1>5, <1>6 DEF Serves, Passed, Concluded, Serving

LEMMA ServiceStepInv ==
  ASSUME ServiceInv, NoOrphan, ServiceStep
  PROVE  Serves
BY ProvisionInv, VerifyInv, ReleaseInv, TraceInv, ConcludeInv DEF ServiceStep

\* A death: what was leased is nobody's any more.
LEMMA OrphanInv ==
  ASSUME ServiceInv, Die
  PROVE  ServiceInv'
<1> USE DEF ServiceInv
<1>1. /\ UNCHANGED <<service, certified, programs, trace, certification, hosted>>
      /\ lease' = [e \in Environment |-> IF lease[e] = "leased" THEN "orphaned" ELSE lease[e]]
  BY DEF Die
<1>2. ServiceTypeOK'
  BY <1>1 DEF ServiceTypeOK
<1>3. Numbered' /\ Held' /\ Recorded'
  BY <1>1 DEF Numbered, Held, Recorded, Serving, Acting, Concluded, Passed, Traced
<1>4. Certain'
  <2>1. \A i \in 1 .. Len(certified) : lease'[certified[i].environment] = "released"
    BY <1>1, CertificateTypes DEF Certain
  <2> QED BY <1>1, <2>1 DEF Certain, Traced, Current
<1> QED BY <1>2, <1>3, <1>4

-----------------------------------------------------------------------------
(* The session                                                             *)

LEMMA AgentInitInv == AgentInit => AgentInv
<1> SUFFICES ASSUME AgentInit PROVE AgentInv
  OBVIOUS
<1>1. ServiceInv /\ NoOrphan
  BY ServiceInitInv DEF AgentInit
<1>2. AgentTypeOK
  <2>1. agent \in AgentState
    BY AgentAssumption DEF AgentInit, AgentState
  <2> QED BY <1>1, <2>1, AgentAssumption DEF AgentInit, ServiceInv, AgentTypeOK
<1>3. Attentive
  BY <1>1 DEF AgentInit, ReplayInit, Attentive, Serving, Doing, Latest
<1> QED BY <1>1, <1>2, <1>3 DEF AgentInv

\* Where the service does nothing: the session's own records.
LEMMA QuietAgent ==
  ASSUME AgentInv, UNCHANGED serviceVars,
         agent' \in AgentState, agent'.pc = "calling" => agent'.calls >= 1,
         Serving("idle") \/ Serving("raised") \/ agent'.pc = "calling",
         agent'.pc # "dead", ~Doing("dead"),
         mode' = mode, incumbent' = incumbent,
         {current', submission'} \subseteq Program \cup {NoProgram},
         result' \in {"none", "delivered", "failed"}
  PROVE  AgentInv'
<1>1. ServiceInv' /\ ServiceTypeOK'
  BY ServiceSame DEF AgentInv, ServiceInv
<1>2. AgentTypeOK'
  BY <1>1 DEF AgentInv, AgentTypeOK
<1>3. Attentive'
  BY DEF AgentInv, Attentive, serviceVars, NoOrphan, Latest, Passed, Concluded, Serving, Doing
<1> QED BY <1>1, <1>2, <1>3 DEF AgentInv

\* After a call was answered.
LEMMA AnsweredTypes ==
  ASSUME agent \in AgentState, Doing("calling"), agent.calls >= 1,
         NEW caller \in Tool \cup {"none"}
  PROVE  LET next == Answered(caller) IN
           /\ next \in AgentState /\ next.pc \in {"requesting", "calling"}
           /\ next.pc = "calling" => next.calls >= 1
<1>1. agent.calls \in 1 .. MaxCalls /\ agent.calls - 1 \in 0 .. MaxCalls
  BY AgentAssumption DEF AgentState
<1> DEFINE pc == IF agent.calls = 1 THEN "requesting" ELSE "calling"
           calls == agent.calls - 1
<1>2. /\ pc \in {"requesting", "calling"} /\ (pc = "calling" => calls >= 1)
      /\ calls \in 0 .. MaxCalls
  BY <1>1
<1>3. Answered(caller) = [agent EXCEPT !.pc = pc, !.calls = calls, !.caller = caller]
  BY DEF Answered, AgentState
<1> HIDE DEF pc, calls
<1> QED BY <1>2, <1>3 DEF AgentState

LEMMA QuietStepInv ==
  ASSUME AgentInv,
         BeginSession \/ Stop \/ Request \/ Retry \/ AskFails \/ Respond \/ OtherCall
           \/ SubmitBootstrap \/ Raise \/ Finish \/ Close
  PROVE  AgentInv'
<1> USE DEF AgentInv, AgentTypeOK
<1>1. ~Doing("calling") /\ ~Doing("dead") => Serving("idle") \/ Serving("raised")
  BY DEF Attentive
<1>2. agent \in AgentState
  OBVIOUS
<1>3. CASE BeginSession \/ Finish \/ Close
  <2>1. CASE BeginSession
    BY <1>1, <1>2, <2>1, QuietAgent DEF BeginSession, sessionVars, Become, Doing, AgentState
  <2>2. CASE Finish
    BY <1>1, <1>2, <2>2, QuietAgent DEF Finish, Become, Doing, AgentState
  <2>3. CASE Close
    BY <1>1, <1>2, <2>3, QuietAgent DEF Close, sessionVars, Become, Doing, AgentState
  <2> QED BY <1>3, <2>1, <2>2, <2>3
<1>4. CASE Stop \/ AskFails
  <2>1. agent' \in AgentState /\ agent'.pc \in {"finishing", "returning"}
    BY <1>2, <1>4 DEF Stop, AskFails, GiveUp, AgentState
  <2> QED BY <1>1, <1>2, <1>4, <2>1, QuietAgent DEF Stop, AskFails, GiveUp, Doing
<1>5. CASE Request \/ Retry
  <2>1. CASE Request
    <3> DEFINE request == agent.request + 1
    <3>1. request \in 0 .. MaxRequests /\ 1 \in 0 .. MaxAttempts
      BY <1>2, <2>1, AgentAssumption DEF Request, AgentState
    <3>2. agent' = [agent EXCEPT !.pc = "asking", !.request = request, !.attempt = 1]
      BY <1>2, <2>1 DEF Request, AgentState
    <3> HIDE DEF request
    <3>3. agent' \in AgentState /\ agent'.pc = "asking"
      BY <1>2, <3>1, <3>2 DEF AgentState
    <3> QED BY <1>1, <1>2, <2>1, <3>3, QuietAgent DEF Request, Doing, sessionVars
  <2>2. CASE Retry
    <3> DEFINE attempt == agent.attempt + 1
    <3>1. attempt \in 0 .. MaxAttempts
      BY <1>2, <2>2, AgentAssumption DEF Retry, AgentState
    <3>2. agent' = [agent EXCEPT !.attempt = attempt]
      BY <1>2, <2>2 DEF Retry, AgentState
    <3> HIDE DEF attempt
    <3>3. agent' \in AgentState /\ agent'.pc = "asking"
      BY <1>2, <2>2, <3>1, <3>2 DEF AgentState, Retry, Doing
    <3> QED BY <1>1, <1>2, <2>2, <3>3, QuietAgent DEF Retry, Doing, sessionVars
  <2> QED BY <1>5, <2>1, <2>2
<1>6. CASE Respond
  <2>1. /\ agent' \in AgentState /\ agent'.pc \in {"requesting", "calling"}
        /\ agent'.pc = "calling" => agent'.calls >= 1
    <3> PICK calls \in 0 .. MaxCalls :
               agent' = [agent EXCEPT !.pc = IF calls = 0 THEN "requesting" ELSE "calling",
                                      !.calls = calls, !.attempt = 0]
      BY <1>6 DEF Respond
    <3>1. 0 \in 0 .. MaxAttempts /\ (calls # 0 => calls >= 1)
      BY AgentAssumption
    <3>2. CASE calls = 0
      BY <1>2, <3>1, <3>2 DEF AgentState
    <3>3. CASE calls # 0
      BY <1>2, <3>1, <3>3 DEF AgentState
    <3> QED BY <3>2, <3>3
  <2> QED BY <1>1, <1>2, <1>6, <2>1, QuietAgent DEF Respond, Doing, sessionVars
<1>7. CASE OtherCall
  <2>1. Doing("calling") /\ agent.calls >= 1 /\ Serving("idle")
    BY <1>7 DEF OtherCall, Ready, Attentive
  <2> QED BY <1>2, <1>7, <2>1, AnsweredTypes, QuietAgent DEF OtherCall, Doing, sessionVars
<1>9. CASE SubmitBootstrap \/ Raise
  <2>1. agent' \in AgentState /\ agent'.pc \in {"returning", "finishing"} /\ ~Doing("dead")
        /\ (Serving("idle") \/ Serving("raised"))
    BY <1>1, <1>2, <1>9 DEF SubmitBootstrap, Raise, Ready, Become, Doing, AgentState
  <2> QED BY <1>2, <1>9, <2>1, QuietAgent DEF SubmitBootstrap, Raise, Submittable
<1> QED BY <1>3, <1>4, <1>5, <1>6, <1>7, <1>9

\* A call that waits for a replay.
LEMMA ReplayingInv ==
  ASSUME AgentInv, Ready, NEW p \in Program, NEW caller \in Tool, Replaying(p, caller),
         mode' = mode, incumbent' = incumbent,
         current' \in Program \cup {NoProgram}, submission' = submission, result' = result
  PROVE  AgentInv'
<1> USE DEF AgentInv, AgentTypeOK
<1>1. ServiceInv' /\ UNCHANGED <<certified, lease>> /\ ~Passed'
  BY SubmitInv DEF Replaying
<1>2. agent' \in AgentState /\ agent'.pc = "calling" /\ agent'.calls = agent.calls
  BY DEF Replaying, Ready, Doing, AgentState
<1>3. Serving("idle") /\ ~Passed /\ Doing("calling")
  BY DEF Ready, Passed, Concluded, Serving
<1>4. AgentTypeOK'
  BY <1>1, <1>2 DEF ServiceInv
<1>5. Attentive'
  BY <1>1, <1>2, <1>3 DEF Attentive, NoOrphan, Doing, Latest
<1> QED BY <1>1, <1>4, <1>5

LEMMA ReplayCallInv ==
  ASSUME AgentInv, RecordStep \/ Revise \/ ReplayCurrent \/ ReplayProgram \/ SubmitAtomically
  PROVE  AgentInv'
<1> USE DEF AgentInv, AgentTypeOK
<1>1. Ready /\ agent \in AgentState /\ Doing("calling") /\ agent.calls >= 1 /\ Serving("idle")
  BY DEF RecordStep, Revise, ReplayCurrent, ReplayProgram, SubmitAtomically, Ready, Attentive
<1>2. CASE RecordStep
  <2>1. PICK p \in Program :
          /\ current' = p
          /\ \/ Replaying(p, "program")
             \/ agent' = Answered("none") /\ UNCHANGED serviceVars
    BY <1>2 DEF RecordStep
  <2>2. CASE Replaying(p, "program")
    BY <1>1, <1>2, <2>1, <2>2, ReplayingInv DEF RecordStep, Tool
  <2>3. CASE agent' = Answered("none") /\ UNCHANGED serviceVars
    <3>1. /\ agent' \in AgentState /\ agent'.pc \in {"requesting", "calling"}
          /\ agent'.pc = "calling" => agent'.calls >= 1
      BY <1>1, <2>3, AnsweredTypes
    <3> QED BY <1>1, <1>2, <2>1, <2>3, <3>1, QuietAgent DEF RecordStep, Doing
  <2> QED BY <2>1, <2>2, <2>3
<1>3. CASE Revise
  BY <1>1, <1>3, ReplayingInv DEF Revise, Tool
<1>4. CASE ReplayCurrent
  BY <1>1, <1>4, ReplayingInv DEF ReplayCurrent, sessionVars, Tool
<1>5. CASE ReplayProgram
  BY <1>1, <1>5, ReplayingInv DEF ReplayProgram, sessionVars, Tool
<1>6. CASE SubmitAtomically
  BY <1>1, <1>6, ReplayAssumption, ReplayingInv DEF SubmitAtomically, sessionVars, Tool
<1> QED BY <1>2, <1>3, <1>4, <1>5, <1>6

LEMMA ServeInv ==
  ASSUME AgentInv, Serve
  PROVE  AgentInv'
<1> USE DEF AgentInv, AgentTypeOK
<1>1. Doing("calling") /\ ServiceStep /\ UNCHANGED <<agent, sessionVars>>
  BY DEF Serve
<1>2. NoOrphan
  BY <1>1 DEF Attentive, Doing
<1>3. Serves
  BY <1>1, <1>2, ServiceStepInv
<1>4. AgentTypeOK'
  BY <1>1, <1>3 DEF sessionVars, Serves, ServiceInv
<1>5. Attentive'
  BY <1>1, <1>3 DEF Attentive, Serves, sessionVars, Doing, Latest
<1> QED BY <1>3, <1>4, <1>5 DEF Serves

\* What passed is the newest certificate: it becomes the incumbent.
LEMMA TakeAnswerInv ==
  ASSUME AgentInv, TakeAnswer
  PROVE  AgentInv'
<1> USE DEF AgentInv, AgentTypeOK
<1>1. /\ Doing("calling") /\ Serving("answered") /\ agent \in AgentState /\ agent.calls >= 1
      /\ service \in ServiceState /\ Concluded /\ service.program \in Program /\ NoOrphan
      /\ UNCHANGED <<mode, current, result, certified, programs, trace, certification, lease, hosted>>
  BY DEF TakeAnswer, Attentive, Doing, Serving, ServiceInv, ServiceTypeOK, Numbered, Concluded
<1>2. service' \in ServiceState /\ service'.pc = "idle" /\ service'.status = "none"
  BY <1>1 DEF TakeAnswer, ServiceState, Found
<1>3. ServiceTypeOK'
  BY <1>1, <1>2 DEF ServiceInv, ServiceTypeOK
<1>4. service'.replay = service.replay
  BY <1>1 DEF TakeAnswer, ServiceState
<1>5. ServiceInv'
  <2>1. Numbered' /\ ~Passed'
    BY <1>2 DEF Numbered, Serving, Acting, Concluded, Passed
  <2>2. Held' /\ Recorded'
    BY <1>1, <1>2 DEF ServiceInv, Held, Recorded, Traced, Serving
  <2>3. Certain'
    BY <1>1, <1>4 DEF ServiceInv, Certain, Current, Traced, Serving
  <2> QED BY <1>3, <2>1, <2>2, <2>3 DEF ServiceInv
<1>6. incumbent' = Incumbent
  BY DEF TakeAnswer
<1>7. /\ incumbent' \in Program \cup {NoProgram}
      /\ mode = "incumbent" => incumbent' = Latest
  BY <1>1, <1>6 DEF Incumbent, Attentive, Passed, ServiceInv, Numbered, Latest
<1>8. /\ agent' \in AgentState /\ agent'.pc \in {"returning", "requesting", "calling"}
      /\ agent'.pc = "calling" => agent'.calls >= 1
      /\ submission' \in Program \cup {NoProgram}
  <2>1. CASE submission' = service.program /\ Become("returning")
    BY <1>1, <2>1 DEF Become, AgentState
  <2>2. CASE agent' = Answered("none") /\ UNCHANGED submission
    BY <1>1, <2>2, AnsweredTypes
  <2> QED BY <2>1, <2>2 DEF TakeAnswer
<1>10. AgentTypeOK'
  BY <1>1, <1>3, <1>7, <1>8
<1>11. Attentive'
  BY <1>1, <1>2, <1>7, <1>8 DEF Attentive, Serving, Doing, NoOrphan, Latest
<1> QED BY <1>5, <1>10, <1>11

LEMMA AgentDieInv ==
  ASSUME AgentInv, Die
  PROVE  AgentInv'
<1> USE DEF AgentInv, AgentTypeOK
<1>1. ServiceInv'
  BY OrphanInv
<1>2. /\ agent' \in AgentState /\ agent'.pc = "dead"
      /\ UNCHANGED <<sessionVars, service, certified>>
  BY DEF Die, Become, AgentState
<1>3. AgentTypeOK'
  BY <1>1, <1>2 DEF sessionVars, ServiceInv
<1>4. Attentive'
  BY <1>2 DEF Attentive, sessionVars, Doing, Passed, Concluded, Latest
<1> QED BY <1>1, <1>3, <1>4

LEMMA AgentNextInv == AgentInv /\ [AgentNext]_agentVars => AgentInv'
<1> SUFFICES ASSUME AgentInv, [AgentNext]_agentVars PROVE AgentInv'
  OBVIOUS
<1>1. CASE UNCHANGED agentVars
  <2>1. ServiceInv'
    BY <1>1, ServiceSame DEF AgentInv, agentVars
  <2>2. AgentTypeOK' /\ Attentive'
    BY <1>1, <2>1 DEF AgentInv, agentVars, serviceVars, AgentTypeOK, ServiceInv, Attentive, NoOrphan,
       Passed, Concluded, Latest, Serving, Doing
  <2> QED BY <2>1, <2>2 DEF AgentInv
<1>2. CASE AgentNext
  BY <1>2, QuietStepInv, ReplayCallInv, ServeInv, TakeAnswerInv, AgentDieInv DEF AgentNext, AgentStep, SessionStep
<1> QED BY <1>1, <1>2

-----------------------------------------------------------------------------
(* What the trace says of a program that is delivered                      *)

\* The replay ran alone in the environment, which was released since.
Alone(r, e) == e \in Environment /\ hosted[e] = {r} /\ lease[e] = "released"
AloneNext(r, e) == e \in Environment /\ hosted'[e] = {r} /\ lease'[e] = "released"

\* A passing record is true of its replay, from the release on; and run() is
\* over when it says that the program is delivered.
Truthful ==
  /\ Passed => Alone(service.replay, service.environment)
  /\ \A i \in 1 .. Len(trace) :
       trace[i].status = "pass" => Alone(trace[i].replay, trace[i].environment)
  /\ result = "delivered" => agent.pc \in {"finishing", "done", "dead"}

\* A step that touches no environment and no record, and passes no replay.
Unrecorded ==
  /\ UNCHANGED <<lease, hosted, trace>>
  /\ \/ ~Passed'
     \/ /\ Passed /\ service'.replay = service.replay
        /\ service'.environment = service.environment

LEMMA Effects ==
  ASSUME AgentInv, [AgentNext]_agentVars
  PROVE  \/ Unrecorded
         \/ Serve /\ \E e \in Environment : Provision(e)
         \/ Serve /\ \E found \in Found \ {"none"} : Verify(found)
         \/ Serve /\ Release
         \/ Serve /\ \E audit \in Audit : Trace(audit)
         \/ Die
<1>1. ASSUME UNCHANGED serviceVars PROVE Unrecorded
  BY <1>1 DEF serviceVars, Unrecorded, Passed, Concluded
<1>2. CASE UNCHANGED agentVars
  BY <1>1, <1>2 DEF agentVars
<1>3. CASE BeginSession \/ Stop \/ Request \/ Retry \/ AskFails \/ Respond \/ OtherCall
             \/ SubmitBootstrap \/ Raise \/ Finish \/ Close
  BY <1>1, <1>3 DEF BeginSession, Stop, Request, Retry, AskFails, Respond, OtherCall,
     SubmitBootstrap, Raise, Finish, Close
<1>4. CASE RecordStep \/ Revise \/ ReplayCurrent \/ ReplayProgram \/ SubmitAtomically
  <2>1. ASSUME NEW p \in Program, NEW caller, Replaying(p, caller)
        PROVE  Unrecorded
    <3>1. ServiceInv' /\ UNCHANGED <<certified, lease>> /\ ~Passed'
      BY <2>1, SubmitInv DEF Replaying, AgentInv
    <3> QED BY <2>1, <3>1 DEF Replaying, Submit, Unrecorded
  <2> QED
    BY <1>1, <1>4, <2>1, ReplayAssumption DEF RecordStep, Revise, ReplayCurrent, ReplayProgram,
       SubmitAtomically, AgentInv, AgentTypeOK
<1>5. CASE TakeAnswer
  <2>1. service \in ServiceState
    BY DEF AgentInv, ServiceInv, ServiceTypeOK
  <2>2. service'.pc = "idle" /\ UNCHANGED <<lease, hosted, trace>>
    BY <1>5, <2>1 DEF TakeAnswer, ServiceState
  <2> QED BY <2>2 DEF Unrecorded, Passed, Concluded
<1>6. CASE Serve
  <2>1. service \in ServiceState
    BY DEF AgentInv, ServiceInv, ServiceTypeOK
  <2>2. CASE ProvisionFails
    <3>1. service'.status = "infrastructure_error" /\ UNCHANGED <<lease, hosted, trace>>
      BY <2>1, <2>2 DEF ProvisionFails, ServiceState
    <3> QED BY <3>1 DEF Unrecorded, Passed
  <2>3. CASE TraceFails \/ Certify \/ CertifyFails
    <3>1. /\ UNCHANGED <<lease, hosted, trace>> /\ service.pc \in {"tracing", "certifying"}
          /\ service'.status = service.status /\ service'.replay = service.replay
          /\ service'.environment = service.environment
      BY <2>1, <2>3 DEF TraceFails, Certify, CertifyFails, ServiceState, Serving
    <3> QED BY <3>1 DEF Unrecorded, Passed, Concluded
  <2> QED BY <1>6, <2>2, <2>3 DEF Serve, ServiceStep
<1> QED BY <1>2, <1>3, <1>4, <1>5, <1>6 DEF AgentNext, AgentStep, SessionStep

\* The environment that a replay holds, and what the step does to it.
LEMMA Holding ==
  ASSUME AgentInv, Serve, service.pc \in {"verifying", "releasing"}
  PROVE  /\ service.environment \in Environment /\ lease[service.environment] = "leased"
         /\ service.replay \in Replay
BY DEF AgentInv, ServiceInv, Held, Numbered, Attentive, NoOrphan, Serve, Doing, Serving

\* What ran alone and was released stays so.
LEMMA AloneStays ==
  ASSUME AgentInv, [AgentNext]_agentVars, NEW r, NEW e, Alone(r, e)
  PROVE  AloneNext(r, e)
<1>1. /\ e \in Environment /\ hosted[e] = {r} /\ lease[e] = "released"
      /\ lease \in [Environment -> {"absent", "leased", "released", "leaked", "orphaned"}]
      /\ hosted \in [Environment -> SUBSET Replay]
  BY DEF AgentInv, ServiceInv, ServiceTypeOK, Alone
<1>2. SUFFICES hosted'[e] = hosted[e] /\ lease'[e] = lease[e]
  BY <1>1 DEF AloneNext
<1>3. CASE Unrecorded
  BY <1>3 DEF Unrecorded
<1>4. CASE Serve /\ \E f \in Environment : Provision(f)
  BY <1>1, <1>4 DEF Provision
<1>5. CASE Serve /\ \E found \in Found \ {"none"} : Verify(found)
  <2>1. service.environment # e
    BY <1>1, <1>5, Holding DEF Verify, Serving
  <2> QED BY <1>1, <1>5, <2>1 DEF Verify
<1>6. CASE Serve /\ Release
  <2>1. service.environment # e
    BY <1>1, <1>6, Holding DEF Release, Serving
  <2> QED BY <1>1, <1>6, <2>1 DEF Release
<1>7. CASE Serve /\ \E audit \in Audit : Trace(audit)
  BY <1>7 DEF Trace
<1>8. CASE Die
  BY <1>1, <1>8 DEF Die
<1> QED BY <1>3, <1>4, <1>5, <1>6, <1>7, <1>8, Effects

\* Only run() itself says that a program is delivered,
LEMMA OnlyFinish ==
  ASSUME [AgentNext]_agentVars, result' # result
  PROVE  result' = "failed" \/ Finish
BY DEF AgentNext, AgentStep, SessionStep, agentVars, sessionVars, BeginSession, Stop, GiveUp, Request, Retry, AskFails,
   Respond, OtherCall, RecordStep, Revise, ReplayCurrent, ReplayProgram, SubmitBootstrap,
   SubmitAtomically, Serve, TakeAnswer, Raise, Close, Die

\* and after that it only ends: nothing that the verdict rests on changes.
LEMMA Standing ==
  ASSUME AgentInv, [AgentNext]_agentVars, agent.pc \in {"finishing", "done", "dead"}
  PROVE  /\ agent'.pc \in {"finishing", "done", "dead"}
         /\ UNCHANGED <<mode, submission, result, trace>>
<1>1. agent \in AgentState
  BY DEF AgentInv, AgentTypeOK
<1>2. Close \/ Die \/ UNCHANGED agentVars
  BY DEF AgentNext, AgentStep, SessionStep, BeginSession, Stop, Request, Retry, AskFails,
   Respond, OtherCall, RecordStep, Revise, ReplayCurrent, ReplayProgram, SubmitBootstrap,
   SubmitAtomically, Serve, TakeAnswer, Raise, Finish, Ready, Doing
<1> QED
  BY <1>1, <1>2 DEF Close, Die, Become, AgentState, agentVars, sessionVars, serviceVars

\* The record is written of what the release certified.
LEMMA TruthfulNext ==
  ASSUME AgentInv, Truthful, [AgentNext]_agentVars
  PROVE  Truthful'
<1>1. service \in ServiceState /\ trace \in Seq(ReplayRecord)
  BY DEF AgentInv, ServiceInv, ServiceTypeOK
<1>2. ASSUME trace' = trace
      PROVE  \A i \in 1 .. Len(trace') :
               trace'[i].status = "pass" => AloneNext(trace'[i].replay, trace'[i].environment)
  BY <1>2, AloneStays DEF Truthful
<1>3. /\ trace' = trace \/ (Serve /\ \E audit \in Audit : Trace(audit))
      /\ \/ ~Passed'
         \/ AloneNext(service'.replay, service'.environment)
         \/ /\ Passed /\ service'.replay = service.replay
            /\ service'.environment = service.environment
  <2>1. CASE Unrecorded
    BY <2>1 DEF Unrecorded
  <2>2. CASE Serve /\ \E e \in Environment : Provision(e)
    <3>1. service'.pc \in {"verifying", "releasing"} /\ trace' = trace
      BY <1>1, <2>2 DEF Provision, ServiceState
    <3> QED BY <3>1 DEF Passed, Concluded
  <2>3. CASE Serve /\ \E found \in Found \ {"none"} : Verify(found)
    <3>1. service'.pc = "releasing" /\ trace' = trace
      BY <1>1, <2>3 DEF Verify, ServiceState
    <3> QED BY <3>1 DEF Passed, Concluded
  <2>4. CASE Serve /\ Release
    <3> DEFINE e == service.environment
    <3>1. PICK released \in BOOLEAN :
            /\ lease' = [lease EXCEPT ![e] = IF released THEN "released" ELSE "leaked"]
            /\ service' = [service EXCEPT !.pc = "tracing", !.status = StatusOf(released)]
      BY <2>4 DEF Release
    <3>2. trace' = trace /\ hosted' = hosted /\ Serving("releasing") /\ e \in Environment
      BY <2>4, Holding DEF Release, Serving
    <3>3. /\ service'.status = StatusOf(released) /\ service'.replay = service.replay
          /\ service'.environment = e
      BY <1>1, <3>1 DEF ServiceState
    <3>4. StatusOf(released) = "pass" => released /\ hosted[e] = {service.replay}
      BY <3>2 DEF StatusOf, AgentInv, ServiceInv, Held
    <3>5. released => lease'[e] = "released"
      BY <3>1, <3>2 DEF AgentInv, ServiceInv, ServiceTypeOK
    <3> QED BY <3>2, <3>3, <3>4, <3>5 DEF Passed, AloneNext
  <2>5. CASE Serve /\ \E audit \in Audit : Trace(audit)
    <3>1. /\ service.pc = "tracing" /\ service'.status = service.status
          /\ service'.replay = service.replay /\ service'.environment = service.environment
      BY <1>1, <2>5 DEF Trace, Serving, ServiceState
    <3> QED BY <2>5, <3>1 DEF Passed, Concluded
  <2>6. CASE Die
    BY <2>6 DEF Die, Passed, Concluded
  <2> QED BY <2>1, <2>2, <2>3, <2>4, <2>5, <2>6, Effects
<1>4. Passed' => AloneNext(service'.replay, service'.environment)
  BY <1>3, AloneStays DEF Truthful
<1>5. \A i \in 1 .. Len(trace') :
        trace'[i].status = "pass" => AloneNext(trace'[i].replay, trace'[i].environment)
  <2>1. CASE trace' = trace
    BY <1>2, <2>1
  <2>2. CASE Serve /\ \E audit \in Audit : Trace(audit)
    <3>1. PICK audit \in Audit : Trace(audit)
      BY <2>2
    <3> DEFINE record == [replay |-> service.replay, program |-> service.program,
                          status |-> service.status, environment |-> service.environment,
                          audit |-> audit]
    <3>2. /\ trace' = Append(trace, record)
          /\ record.status = service.status /\ record.replay = service.replay
          /\ record.environment = service.environment
      BY <3>1 DEF Trace
    <3>3. service.status = "pass" => Alone(service.replay, service.environment)
      BY <3>1 DEF Trace, Serving, Truthful, Passed, Concluded
    <3>4. ASSUME NEW i \in 1 .. Len(trace')
          PROVE  (i \in 1 .. Len(trace) /\ trace'[i] = trace[i]) \/ trace'[i] = record
      <4> HIDE DEF record
      <4> QED BY <1>1, <3>2
    <3>5. ASSUME NEW i \in 1 .. Len(trace'), trace'[i].status = "pass"
          PROVE  Alone(trace'[i].replay, trace'[i].environment)
      <4> HIDE DEF record
      <4> QED BY <3>2, <3>3, <3>4, <3>5 DEF Truthful
    <3> HIDE DEF record
    <3> QED BY <3>5, AloneStays
  <2> QED BY <1>3, <2>1, <2>2
<1>6. result' = "delivered" => agent'.pc \in {"finishing", "done", "dead"}
  <2> SUFFICES ASSUME result' = "delivered" PROVE agent'.pc \in {"finishing", "done", "dead"}
    OBVIOUS
  <2>1. agent \in AgentState /\ (result = "delivered" => agent.pc \in {"finishing", "done", "dead"})
    BY DEF AgentInv, AgentTypeOK, Truthful
  <2>2. CASE result = "delivered"
    BY <2>1, <2>2, Standing
  <2>3. CASE result # "delivered"
    <3>1. Finish
      BY <2>3, OnlyFinish DEF Finish
    <3> QED BY <2>1, <3>1 DEF Finish, Become, AgentState
  <2> QED BY <2>2, <2>3
<1> QED BY <1>4, <1>5, <1>6 DEF Truthful, Alone, AloneNext, Environment

-----------------------------------------------------------------------------
(* The promise of the deployment loop                                      *)

LEMMA PromisedInit == AgentInit => Abstract!Init
BY DEF AgentInit, ReplayInit, Abstract!Init, Delivered

\* The verdict does not change, unless it is this step that delivers.
LEMMA VerdictStays ==
  ASSUME AgentInv, Truthful, [AgentNext]_agentVars
  PROVE  Delivered' = Delivered \/ (Finish /\ Replays /\ result' = "delivered")
<1>1. CASE result = "delivered"
  <2>1. UNCHANGED <<mode, submission, result, trace>>
    BY <1>1, Standing DEF Truthful
  <2> QED BY <2>1 DEF Delivered, Replays, LastPassing, Passing
<1>2. CASE result # "delivered" /\ result' # "delivered"
  BY <1>2 DEF Delivered
<1>3. CASE result # "delivered" /\ result' = "delivered"
  <2>1. Finish /\ mode' = mode
    BY <1>3, OnlyFinish DEF Finish
  <2> QED BY <1>3, <2>1 DEF Delivered, Replays
<1> QED BY <1>1, <1>2, <1>3

\* The record that run() checked is that of a replay which ran alone.
LEMMA DeliversAlone ==
  ASSUME AgentInv, Truthful, Finish, Replays, result' = "delivered"
  PROVE  [Abstract!Next]_(Abstract!vars)
<1>1. /\ Doing("returning") /\ UNCHANGED <<mode, submission, trace, lease, hosted>>
      /\ Integrity(submission)
  BY DEF Finish, serviceVars
<1>2. result # "delivered"
  BY <1>1 DEF Doing, Truthful
<1> DEFINE k == CHOOSE i \in 1 .. Len(trace) : LastPassing(submission, i)
<1>3. k \in 1 .. Len(trace) /\ LastPassing(submission, k)
  <2>1. \E i \in 1 .. Len(trace) : LastPassing(submission, i)
    BY <1>1 DEF Integrity
  <2> QED BY <2>1
<1>4. Delivered = <<0, 0>> /\ Delivered' = <<trace[k].replay, trace[k].environment>>
  BY <1>1, <1>2 DEF Delivered, Replays, LastPassing, Passing
<1> HIDE DEF k
<1>5. Alone(trace[k].replay, trace[k].environment)
  BY <1>3 DEF Truthful, LastPassing, Passing
<1>6. trace[k].replay \in Replay
  <2>1. trace[k] \in ReplayRecord
    BY <1>3 DEF AgentInv, ServiceInv, ServiceTypeOK
  <2> QED BY <2>1 DEF ReplayRecord
<1>7. Abstract!Deliver(trace[k].environment, trace[k].replay)
  BY <1>1, <1>4, <1>5 DEF Abstract!Deliver, Alone
<1> QED BY <1>5, <1>6, <1>7 DEF Abstract!Next, Alone

LEMMA PromisedNext ==
  ASSUME AgentInv, Truthful, [AgentNext]_agentVars
  PROVE  [Abstract!Next]_(Abstract!vars)
<1>1. CASE Finish /\ Replays /\ result' = "delivered"
  BY <1>1, DeliversAlone
<1>2. CASE Delivered' = Delivered
  <2>1. CASE Unrecorded \/ (Serve /\ \E audit \in Audit : Trace(audit))
    BY <1>2, <2>1 DEF Unrecorded, Trace, Abstract!vars
  <2>2. ASSUME NEW e \in Environment, Serve, Provision(e)
        PROVE  Abstract!Next
    <3>1. /\ lease[e] = "absent" /\ hosted[e] = {} /\ hosted' = hosted
          /\ lease' = [lease EXCEPT ![e] = "leased"]
          /\ hosted \in [Environment -> SUBSET Replay]
      BY <2>2 DEF Provision, AgentInv, ServiceInv, ServiceTypeOK, Held
    <3>2. hosted' = [hosted EXCEPT ![e] = {}]
      BY <3>1
    <3>3. Abstract!Leased = {}
      BY <2>2 DEF Provision, Serving, AgentInv, ServiceInv, Held, Abstract!Leased
    <3>4. Cardinality(Abstract!Leased) < 1
      BY <3>3, FS_EmptySet
    <3>5. Abstract!Cardinality(Abstract!Leased) = Cardinality(Abstract!Leased)
      BY DEF Abstract!Cardinality, Cardinality
    <3>6. Abstract!Provision(e)
      BY <1>2, <3>1, <3>2, <3>4, <3>5, Zenon DEF Abstract!Provision
    <3> QED BY <3>6 DEF Abstract!Next
  <2>3. ASSUME NEW found \in Found \ {"none"}, Serve, Verify(found)
        PROVE  Abstract!Next
    <3>1. /\ service.environment \in Environment /\ lease[service.environment] = "leased"
          /\ service.replay \in Replay /\ hosted[service.environment] = {}
      BY <2>3, Holding DEF Verify, Serving, AgentInv, ServiceInv, Held
    <3>2. Abstract!Host(service.environment, service.replay)
      BY <1>2, <2>3, <3>1 DEF Verify, Abstract!Host
    <3> QED BY <3>1, <3>2 DEF Abstract!Next
  <2>4. CASE Serve /\ Release
    <3>1. service.environment \in Environment /\ lease[service.environment] = "leased"
      BY <2>4, Holding DEF Release, Serving
    <3>2. Abstract!Release(service.environment)
      BY <1>2, <2>4, <3>1 DEF Release, Abstract!Release
    <3> QED BY <3>1, <3>2 DEF Abstract!Next
  <2>5. CASE Die
    BY <1>2, <2>5 DEF Die, Abstract!Lose, Abstract!Next
  <2> QED BY <2>1, <2>2, <2>3, <2>4, <2>5, Effects
<1> QED BY <1>1, <1>2, VerdictStays

-----------------------------------------------------------------------------
\* The invariant holds of every session.
THEOREM AgentSafe == AgentSpec => []AgentInv
BY AgentInitInv, AgentNextInv, PTL DEF AgentSpec

\* The session, its replays and their files are well formed.
THEOREM AgentTypeCorrect == AgentSpec => []AgentTypeOK
<1>1. AgentInv => AgentTypeOK
  BY DEF AgentInv
<1> QED BY <1>1, AgentSafe, PTL

\* CleanReplayService._finish: a certificate in the certification file has its
\* passing record in the trace, wherever the process died, and also when a
\* write before it failed.
THEOREM CertificationTraced == AgentSpec => []CertificatesTraced
<1>1. ASSUME AgentInv PROVE CertificatesTraced
  <2> SUFFICES ASSUME NEW c \in ToSet(certification)
               PROVE  \E record \in ToSet(trace) :
                        /\ record.replay = c.replay /\ record.program = c.program
                        /\ record.environment = c.environment /\ record.status = "pass"
    BY DEF CertificatesTraced
  <2>1. PICK i \in 1 .. Len(certification) : c = certification[i]
    BY <1>1 DEF AgentInv, ServiceInv, ServiceTypeOK, ToSet
  <2>2. PICK j \in 1 .. Len(trace) :
          /\ trace[j].replay = c.replay /\ trace[j].program = c.program
          /\ trace[j].environment = c.environment /\ trace[j].status = "pass"
    BY <1>1, <2>1 DEF AgentInv, ServiceInv, Recorded, Traced
  <2>3. trace[j] \in ToSet(trace)
    BY <1>1, <2>2 DEF AgentInv, ServiceInv, ServiceTypeOK, ToSet
  <2> QED BY <2>2, <2>3
<1> QED BY <1>1, AgentSafe, PTL

\* CleanReplayService.submit: a certified program is the one in the program
\* file of its replay, which ran alone in an environment that was released.
THEOREM CertificatesTrue == AgentSpec => []CertificatesHold
<1>1. ASSUME AgentInv PROVE CertificatesHold
  <2> SUFFICES ASSUME NEW c \in ToSet(certified)
               PROVE  /\ programs[c.replay] = c.program
                      /\ hosted[c.environment] = {c.replay}
                      /\ lease[c.environment] = "released"
    BY DEF CertificatesHold
  <2>1. PICK i \in 1 .. Len(certified) : c = certified[i]
    BY <1>1 DEF AgentInv, ServiceInv, ServiceTypeOK, ToSet
  <2> QED BY <1>1, <2>1 DEF AgentInv, ServiceInv, Certain
<1> QED BY <1>1, AgentSafe, PTL

\* The certified incumbent is the program of the newest certificate.
THEOREM IncumbentLatest == AgentSpec => []IncumbentIsLatest
<1>1. AgentInv => IncumbentIsLatest
  BY DEF AgentInv, Attentive, IncumbentIsLatest, Passed, Concluded, Serving, Latest
<1> QED BY <1>1, AgentSafe, PTL

\* The finally clause of submit(): when a session ends by itself, whatever
\* raised on the way, no replay environment is held any more.
THEOREM ReplaysSettled == AgentSpec => []EnvironmentsSettled
<1>1. AgentInv => EnvironmentsSettled
  BY DEF AgentInv, ServiceInv, Attentive, Held, EnvironmentsSettled, Serving, Doing
<1> QED BY <1>1, AgentSafe, PTL

\* run() delivers in a replay mode what CertifiedDelivery promises: every
\* environment is used within one lease and given up once, one is leased at a
\* time, and the record behind the verdict is of a replay that ran alone in an
\* environment released before - also when a cap or a provider's error ended
\* the session, and whatever failed before.
THEOREM AgentDelivers == AgentSpec => DeliversAsPromised
<1>1. AgentInit => AgentInv /\ Truthful
  <2>1. AgentInit => Truthful
    BY DEF AgentInit, ReplayInit, Truthful, Passed, Concluded
  <2> QED BY <2>1, AgentInitInv
<1>2. AgentInv /\ Truthful /\ [AgentNext]_agentVars => (AgentInv /\ Truthful)'
  BY AgentNextInv, TruthfulNext
<1>3. AgentInv /\ Truthful /\ [AgentNext]_agentVars => [Abstract!Next]_(Abstract!vars)
  BY PromisedNext
<1> QED BY <1>1, <1>2, <1>3, PromisedInit, PTL DEF AgentSpec, DeliversAsPromised, Abstract!Spec

=============================================================================
