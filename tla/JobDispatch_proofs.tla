------------------------ MODULE JobDispatch_proofs ------------------------
(***************************************************************************)
(* Type correctness and the safety of JobDispatch, for any machines, jobs, *)
(* attempts, thresholds and bounds.                                        *)
(***************************************************************************)
EXTENDS JobDispatch, FiniteSetTheorems, TLAPS

----------------------------------------------------------------------------
(* The registry's helpers. *)

LEMMA SocketParts ==
    ASSUME NEW s \in Socket
    PROVE  MachineOf(s) \in Machines
BY DEF Socket, MachineOf

(* A setter changes one flag of one entry: which machines have an entry,   *)
(* and which socket it sends on, stays as it is.                           *)
Marked(m) == {WithUnhealthy(m, TRUE), WithUnhealthy(m, FALSE),
              WithAttested(m, TRUE), WithAttested(m, FALSE)}

LEMMA MarkedTyped ==
    ASSUME entry \in [Machines -> Entry \cup {None}],
           NEW m \in Machines, NEW e \in Marked(m)
    PROVE  /\ e \in [Machines -> Entry \cup {None}]
           /\ \A x \in Machines : e[x] = None <=> entry[x] = None
           /\ \A x \in Machines : entry[x] # None => e[x].sock = entry[x].sock
<1>1. None \notin Entry
  BY RegistryAssumption
<1>2. CASE entry[m] = None
  BY <1>2 DEF Marked, WithUnhealthy, WithAttested
<1>3. CASE entry[m] # None
  <2>1. entry[m] \in Entry
    BY <1>3
  <2> DEFINE with == {[entry[m] EXCEPT !.unhealthy = TRUE], [entry[m] EXCEPT !.unhealthy = FALSE],
                      [entry[m] EXCEPT !.attested = TRUE], [entry[m] EXCEPT !.attested = FALSE]}
  <2>2. \A u \in with : u \in Entry /\ u.sock = entry[m].sock
    BY <2>1 DEF Entry
  <2>3. PICK u \in with : e = [entry EXCEPT ![m] = u]
    BY <1>3 DEF Marked, WithUnhealthy, WithAttested
  <2> HIDE DEF with
  <2> QED BY <1>1, <1>3, <2>1, <2>2, <2>3
<1> QED BY <1>2, <1>3

LEMMA FailureTyped ==
    ASSUME RegistryTypeOK, NEW m \in Machines, RecordFailure(m)
    PROVE  /\ ledger' \in [Machines -> Account]
           /\ credit' \in [Machines -> Int]
<1>1. Threshold \in Nat /\ Threshold > 0
  BY RegistryAssumption
<1>2. ledger[m] \in Account /\ credit[m] \in Int
  BY DEF RegistryTypeOK
<1>3. [recent |-> 0, cooling |-> TRUE] \in Account
  BY <1>1 DEF Account
<1>4. ~(ledger[m].recent + 1 >= Threshold)
        => [recent |-> ledger[m].recent + 1, cooling |-> ledger[m].cooling] \in Account
  BY <1>1, <1>2 DEF Account
<1> QED BY <1>2, <1>3, <1>4 DEF RegistryTypeOK, RecordFailure

LEMMA RegisteredTyped ==
    ASSUME RegistryTypeOK, NEW m \in Machines, NEW s \in Socket, Registered(m, s)
    PROVE  RegistryTypeOK'
<1> DEFINE fresh == [sock |-> s, attested |-> FALSE, unhealthy |-> FALSE]
<1>1. fresh \in Entry /\ fresh.sock = s /\ None \notin Entry /\ MachineOf(s) = m
  BY RegistryAssumption DEF Entry, Registered
<1>2. entry' = [entry EXCEPT ![m] = fresh]
  BY DEF Registered
<1>3. entry' \in [Machines -> Entry \cup {None}]
  BY <1>1, <1>2 DEF RegistryTypeOK
<1>4. /\ sock' \in [Socket -> SocketState]
      /\ \A x \in Socket : sock[x] # "unused" => sock'[x] # "unused"
  BY DEF Registered, Replaced, RegistryTypeOK, SocketState
<1>5. /\ verifying' \subseteq Socket /\ challenged' \subseteq Socket /\ asked' \subseteq challenged'
      /\ s \in challenged' /\ challenged \subseteq challenged'
      /\ verifying' \cup challenged' \subseteq verifying \cup challenged
  BY DEF Registered, RegistryTypeOK
<1>6. \A x \in verifying' \cup challenged' : sock'[x] # "unused"
  BY <1>4, <1>5 DEF RegistryTypeOK
<1>7. \A x \in Machines : entry'[x] # None
         => MachineOf(entry'[x].sock) = x /\ entry'[x].sock \in challenged'
  <2> SUFFICES ASSUME NEW x \in Machines, entry'[x] # None
               PROVE  MachineOf(entry'[x].sock) = x /\ entry'[x].sock \in challenged'
    OBVIOUS
  <2>1. CASE x = m
    <3>1. entry'[x] = fresh
      BY <1>2, <2>1 DEF RegistryTypeOK
    <3> QED BY <1>1, <1>5, <2>1, <3>1
  <2>2. CASE x # m
    <3>1. entry'[x] = entry[x]
      BY <1>2, <2>2 DEF RegistryTypeOK
    <3> QED BY <1>5, <3>1 DEF RegistryTypeOK
  <2> QED BY <2>1, <2>2
<1>8. UNCHANGED <<wedged, faults, ledger, credit>>
  BY DEF Registered
<1> QED BY <1>3, <1>4, <1>5, <1>6, <1>7, <1>8 DEF RegistryTypeOK

LEMMA CloseTyped ==
    ASSUME RegistryTypeOK, NEW s \in Socket, CloseHandled(s),
           \/ RecordFailure(MachineOf(s))
           \/ UNCHANGED <<ledger, credit>>
    PROVE  RegistryTypeOK'
<1>1. MachineOf(s) \in Machines /\ None \notin Entry
  BY SocketParts, RegistryAssumption
<1>2. ledger' \in [Machines -> Account] /\ credit' \in [Machines -> Int]
  BY <1>1, FailureTyped DEF RegistryTypeOK
<1>3. entry' \in [Machines -> Entry \cup {None}]
  BY DEF CloseHandled, RegistryTypeOK
<1>4. /\ sock' \in [Socket -> SocketState]
      /\ verifying' \subseteq Socket /\ challenged' \subseteq Socket /\ asked' \subseteq challenged'
      /\ \A x \in verifying' \cup challenged' : sock'[x] # "unused"
  BY DEF CloseHandled, RegistryTypeOK, SocketState
<1>5. \A x \in Machines : entry'[x] # None
         => MachineOf(entry'[x].sock) = x /\ entry'[x].sock \in challenged'
  <2> SUFFICES ASSUME NEW x \in Machines, entry'[x] # None
               PROVE  MachineOf(entry'[x].sock) = x /\ entry'[x].sock \in challenged'
    OBVIOUS
  <2>1. entry'[x] = entry[x] /\ entry[x].sock # s
    BY <1>1 DEF CloseHandled, RegistryTypeOK, Current
  <2> QED BY <2>1 DEF CloseHandled, RegistryTypeOK
<1>6. UNCHANGED <<wedged, faults>>
  BY DEF CloseHandled
<1> QED BY <1>2, <1>3, <1>4, <1>5, <1>6 DEF RegistryTypeOK

(* Steps that add no entry, clear no challenge interval and have verified  *)
(* no registration.                                                        *)
LEMMA RegistryKept ==
    ASSUME RegistryTypeOK,
           entry' \in [Machines -> Entry \cup {None}],
           \A x \in Machines : entry'[x] # None => entry[x] # None /\ entry'[x].sock = entry[x].sock,
           sock' \in [Socket -> SocketState],
           \A x \in Socket : sock[x] # "unused" => sock'[x] # "unused",
           challenged' = challenged, verifying' = verifying, asked' \subseteq challenged,
           wedged' \subseteq Machines, faults' \in 0 .. MaxFaults,
           ledger' \in [Machines -> Account], credit' \in [Machines -> Int]
    PROVE  RegistryTypeOK'
BY DEF RegistryTypeOK

LEMMA MarkingTyped ==
    ASSUME RegistryTypeOK, NEW m \in Machines, entry' \in Marked(m),
           UNCHANGED <<sock, challenged, verifying, wedged, faults>>,
           asked' \subseteq asked,
           ledger' \in [Machines -> Account], credit' \in [Machines -> Int]
    PROVE  RegistryTypeOK'
<1>1. /\ entry' \in [Machines -> Entry \cup {None}]
      /\ \A x \in Machines : entry'[x] = None <=> entry[x] = None
      /\ \A x \in Machines : entry[x] # None => entry'[x].sock = entry[x].sock
  BY MarkedTyped DEF RegistryTypeOK
<1> QED BY <1>1, RegistryKept DEF RegistryTypeOK

LEMMA RegistryStepTyped ==
    ASSUME RegistryTypeOK, RegistryStep
    PROVE  RegistryTypeOK'
<1>0. Threshold \in Nat /\ Threshold > 0 /\ MaxFaults \in Nat
  BY RegistryAssumption
<1>1. ASSUME NEW s \in Socket, Drop(s) \/ Recycle(s)
      PROVE  RegistryTypeOK'
  <2>1. faults' \in 0 .. MaxFaults
    BY <1>0, <1>1 DEF Drop, Recycle, Fault, RegistryTypeOK
  <2>2. /\ sock' \in [Socket -> SocketState]
        /\ \A x \in Socket : sock[x] # "unused" => sock'[x] # "unused"
    BY <1>1 DEF Drop, Recycle, RegistryTypeOK, SocketState
  <2>3. UNCHANGED <<entry, asked, challenged, verifying, wedged, ledger, credit>>
    BY <1>1 DEF Drop, Recycle
  <2> QED BY <2>1, <2>2, <2>3, RegistryKept DEF RegistryTypeOK
<1>2. ASSUME NEW s \in Socket, Rechallenge(s)
      PROVE  RegistryTypeOK'
  BY <1>2 DEF Rechallenge, RegistryTypeOK
<1>3. ASSUME NEW s \in Socket, Answered(s)
      PROVE  RegistryTypeOK'
  BY <1>3, SocketParts, MarkingTyped DEF Answered, RegistryTypeOK, Marked
<1>4. ASSUME NEW s \in Socket, Unanswered(s)
      PROVE  RegistryTypeOK'
  <2>1. /\ entry' \in [Machines -> Entry \cup {None}]
        /\ \A x \in Machines : entry'[x] = None <=> entry[x] = None
        /\ \A x \in Machines : entry[x] # None => entry'[x].sock = entry[x].sock
    BY <1>4, SocketParts, MarkedTyped DEF Unanswered, RegistryTypeOK, Marked
  <2>2. /\ sock' \in [Socket -> SocketState]
        /\ \A x \in Socket : sock[x] # "unused" => sock'[x] # "unused"
    BY <1>4 DEF Unanswered, RegistryTypeOK, SocketState
  <2>3. UNCHANGED <<challenged, verifying, wedged, faults, ledger, credit>> /\ asked' \subseteq asked
    BY <1>4 DEF Unanswered
  <2> QED BY <2>1, <2>2, <2>3, RegistryKept DEF RegistryTypeOK
<1>5. ASSUME NEW s \in Socket, Recovered(s)
      PROVE  RegistryTypeOK'
  BY <1>5, SocketParts, MarkingTyped DEF Recovered, RegistryTypeOK, Marked
<1>6. ASSUME NEW m \in Machines, Sweep(m)
      PROVE  RegistryTypeOK'
  <2>1. /\ entry' \in [Machines -> Entry \cup {None}]
        /\ \A x \in Machines : entry'[x] # None => entry'[x] = entry[x]
    BY <1>6 DEF Sweep, RegistryTypeOK
  <2>2. /\ sock' \in [Socket -> SocketState]
        /\ \A x \in Socket : sock[x] # "unused" => sock'[x] # "unused"
    BY <1>6 DEF Sweep, RegistryTypeOK, SocketState
  <2>3. UNCHANGED <<asked, challenged, verifying, wedged, faults, ledger, credit>>
    BY <1>6 DEF Sweep
  <2> QED BY <2>1, <2>2, <2>3, RegistryKept DEF RegistryTypeOK
<1>7. ASSUME NEW m \in Machines, Reprobed(m)
      PROVE  RegistryTypeOK'
  BY <1>7, MarkingTyped DEF Reprobed, RegistryTypeOK, Marked
<1>8. ASSUME NEW m \in Machines, FailuresDecay(m) \/ CooldownElapses(m)
      PROVE  RegistryTypeOK'
  <2>1. ledger[m] \in Account
    BY DEF RegistryTypeOK
  <2>2. [ledger[m] EXCEPT !.recent = 0] \in Account
    BY <1>0, <2>1 DEF Account
  <2>3. [ledger[m] EXCEPT !.cooling = FALSE] \in Account
    BY <2>1 DEF Account
  <2>4. ledger' \in [Machines -> Account]
    BY <1>8, <2>2, <2>3 DEF FailuresDecay, CooldownElapses, RegistryTypeOK
  <2> QED BY <1>8, <2>4 DEF FailuresDecay, CooldownElapses, RegistryTypeOK
<1>9. ASSUME NEW m \in Machines, Wedge(m) \/ Unwedge(m)
      PROVE  RegistryTypeOK'
  <2>1. faults' \in 0 .. MaxFaults /\ wedged' \subseteq Machines
    BY <1>0, <1>9 DEF Wedge, Unwedge, Fault, RegistryTypeOK
  <2> QED BY <1>9, <2>1 DEF Wedge, Unwedge, RegistryTypeOK
<1>10. ASSUME NEW m \in Machines, NEW s \in Socket, Connects(m, s)
       PROVE  RegistryTypeOK'
  BY <1>10 DEF Connects, RegistryTypeOK, SocketState
<1>11. ASSUME NEW s \in Socket, RegisterRefused(s)
       PROVE  RegistryTypeOK'
  BY <1>11 DEF RegisterRefused, RegistryTypeOK, SocketState
<1> QED BY <1>1, <1>2, <1>3, <1>4, <1>5, <1>6, <1>7, <1>8, <1>9, <1>10, <1>11 DEF RegistryStep

----------------------------------------------------------------------------
(* Types. A request that picks again has an attempt left. *)

DispatchTypeOK ==
    /\ req \in [Jobs -> Request]
    /\ \A j \in Jobs : req[j].pc = "wait" => req[j].target \in Machines
    /\ \A j \in Jobs : req[j].pc = "pick" => req[j].attempt < MaxAttempts
    /\ posts \subseteq Post
    /\ \A p \in posts : p.sock # None => MachineOf(p.sock) = p.machine
    /\ sess \in [Jobs -> Session \cup {None}]
    /\ streams \subseteq Stream
    /\ tomb \subseteq Jobs
    /\ runs \subseteq Run
    /\ heard \in [Jobs -> SUBSET [stream : Attempt, run : Attempt]]

Typed == RegistryTypeOK /\ DispatchTypeOK

LEMMA FailoverTyped ==
    ASSUME DispatchTypeOK, NEW j \in Jobs, req[j].pc = "wait", Failover(j)
    PROVE  /\ req' \in [Jobs -> Request]
           /\ \A i \in Jobs : req'[i].pc = "wait" => req'[i].target \in Machines
           /\ \A i \in Jobs : req'[i].pc = "pick" => req'[i].attempt < MaxAttempts
<1>1. req[j] \in Request /\ req[j].target \in Machines
  BY DEF DispatchTypeOK
<1>2. Attempts(j) \in Nat /\ Attempts(j) <= MaxAttempts /\ MaxAttempts \in Nat
  BY DispatchAssumption DEF Attempts
<1>3. Burnt(j) \subseteq DIDs
  BY <1>1 DEF Burnt, DIDs, Request
<1>4. /\ [req[j] EXCEPT !.pc = "pick", !.tried = Burnt(j)] \in Request
      /\ [req[j] EXCEPT !.pc = "over"] \in Request
  BY <1>1, <1>3 DEF Request
<1> QED BY <1>1, <1>2, <1>4 DEF Failover, DispatchTypeOK, Request

(* What every step but Pick does: it places nothing, and a request keeps   *)
(* its attempt, waits no longer, or burns the owner of its machine.        *)
Shrinks ==
    \A j \in Jobs, a \in Attempt, m \in Machines : Placed(j, a, m)' => Placed(j, a, m)

Evolves ==
    \A j \in Jobs :
        \/ req'[j] = req[j]
        \/ req'[j].pc \in {"stream", "over"} /\ req'[j].attempt = req[j].attempt
        \/ /\ req[j].pc = "wait"
           /\ req'[j].pc = "pick"
           /\ req'[j].attempt = req[j].attempt
           /\ req'[j].tried = req[j].tried \cup {Owner[req[j].target]}

LEMMA FailoverEvolves ==
    ASSUME DispatchTypeOK, NEW j \in Jobs, req[j].pc = "wait", Failover(j)
    PROVE  Evolves
<1>1. req \in [Jobs -> Request] /\ req[j] \in Request
  BY DEF DispatchTypeOK
<1>2. /\ [req[j] EXCEPT !.pc = "pick", !.tried = Burnt(j)].pc = "pick"
      /\ [req[j] EXCEPT !.pc = "pick", !.tried = Burnt(j)].attempt = req[j].attempt
      /\ [req[j] EXCEPT !.pc = "pick", !.tried = Burnt(j)].tried = Burnt(j)
      /\ [req[j] EXCEPT !.pc = "over"].pc = "over"
      /\ [req[j] EXCEPT !.pc = "over"].attempt = req[j].attempt
  BY <1>1 DEF Request
<1>3. \A i \in Jobs : i # j => req'[i] = req[i]
  BY <1>1 DEF Failover
<1>4. \/ req'[j] = [req[j] EXCEPT !.pc = "pick", !.tried = Burnt(j)]
      \/ req'[j] = [req[j] EXCEPT !.pc = "over"]
  BY <1>1 DEF Failover
<1> QED BY <1>2, <1>3, <1>4 DEF Evolves, Burnt

LEMMA RefusedTyped ==
    ASSUME DispatchTypeOK, NEW p \in posts, Refused(p)
    PROVE  DispatchTypeOK' /\ Shrinks /\ Evolves
<1>1. p.job \in Jobs
  BY DEF DispatchTypeOK, Post
<1>2. posts' \subseteq posts /\ UNCHANGED <<sess, streams, tomb, runs, heard>>
  BY DEF Refused
<1>3. Shrinks
  BY <1>2 DEF Shrinks, Placed
<1>4. CASE Awaited(p)
  <2>1. req[p.job].pc = "wait" /\ Failover(p.job)
    BY <1>4 DEF Awaited, Refused
  <2>2. /\ req' \in [Jobs -> Request]
        /\ \A i \in Jobs : req'[i].pc = "wait" => req'[i].target \in Machines
        /\ \A i \in Jobs : req'[i].pc = "pick" => req'[i].attempt < MaxAttempts
    BY <1>1, <2>1, FailoverTyped
  <2>3. Evolves
    BY <1>1, <2>1, FailoverEvolves
  <2> QED BY <1>2, <1>3, <2>2, <2>3 DEF DispatchTypeOK
<1>5. CASE ~Awaited(p)
  BY <1>2, <1>3, <1>5 DEF Refused, DispatchTypeOK, Evolves
<1> QED BY <1>4, <1>5

(* A step that ends a request, opens no session and adds no run or post.   *)
LEMMA Shrinking ==
    ASSUME DispatchTypeOK,
           req' = req \/ \E j \in Jobs : req' = [req EXCEPT ![j].pc = "over"],
           posts' \subseteq posts,
           sess' \in [Jobs -> Session \cup {None}],
           \A j \in Jobs : sess'[j] # None => /\ sess[j] # None
                                            /\ sess'[j].attempt = sess[j].attempt
                                            /\ sess'[j].machine = sess[j].machine,
           streams' \subseteq streams, tomb' \subseteq Jobs, runs' \subseteq runs,
           heard' \in [Jobs -> SUBSET [stream : Attempt, run : Attempt]]
    PROVE  DispatchTypeOK' /\ Shrinks /\ Evolves
<1>1. Shrinks
  BY DEF Shrinks, Placed
<1> DEFINE ReqTyped == /\ req' \in [Jobs -> Request]
                       /\ \A i \in Jobs : req'[i].pc = "wait" => req'[i].target \in Machines
                       /\ \A i \in Jobs : req'[i].pc = "pick" => req'[i].attempt < MaxAttempts
<1>2. Evolves /\ ReqTyped
  <2>1. CASE req' = req
    BY <2>1 DEF DispatchTypeOK, Evolves
  <2>2. ASSUME NEW j \in Jobs, req' = [req EXCEPT ![j].pc = "over"]
        PROVE  Evolves /\ ReqTyped
    <3>1. req \in [Jobs -> Request] /\ req[j] \in Request
      BY DEF DispatchTypeOK
    <3>2. /\ [req[j] EXCEPT !.pc = "over"] \in Request
          /\ [req[j] EXCEPT !.pc = "over"].pc = "over"
          /\ [req[j] EXCEPT !.pc = "over"].attempt = req[j].attempt
      BY <3>1 DEF Request
    <3>3. req'[j] = [req[j] EXCEPT !.pc = "over"] /\ \A i \in Jobs : i # j => req'[i] = req[i]
      BY <2>2, <3>1
    <3> QED BY <2>2, <3>1, <3>2, <3>3 DEF DispatchTypeOK, Evolves
  <2> QED BY <2>1, <2>2
<1> QED BY <1>1, <1>2 DEF DispatchTypeOK

(* Opening and closing sessions. *)
LEMMA DetachTyped ==
    ASSUME DispatchTypeOK, NEW m \in Machines, DetachForMachine(m) \/ UNCHANGED sess
    PROVE  /\ sess' \in [Jobs -> Session \cup {None}]
           /\ \A j \in Jobs : sess'[j] # None => /\ sess[j] # None
                                               /\ sess'[j].attempt = sess[j].attempt
                                               /\ sess'[j].machine = sess[j].machine
<1>1. CASE UNCHANGED sess
  BY <1>1 DEF DispatchTypeOK
<1>2. CASE DetachForMachine(m)
  <2>1. \A j \in Jobs : sess[j] # None => /\ [sess[j] EXCEPT !.detached = TRUE] \in Session
                                          /\ [sess[j] EXCEPT !.detached = TRUE].attempt = sess[j].attempt
                                          /\ [sess[j] EXCEPT !.detached = TRUE].machine = sess[j].machine
    BY DEF DispatchTypeOK, Session
  <2>2. sess' = [j \in Jobs |-> IF j \notin On(m) THEN sess[j]
                                ELSE IF m \in Resumable THEN [sess[j] EXCEPT !.detached = TRUE]
                                ELSE None]
    BY <1>2 DEF DetachForMachine
  <2>3. \A j \in On(m) : sess[j] # None
    BY DEF On
  <2>4. \A j \in Jobs :
           \/ sess'[j] = sess[j]
           \/ (sess[j] # None /\ sess'[j] = [sess[j] EXCEPT !.detached = TRUE])
           \/ sess'[j] = None
    BY <2>2, <2>3
  <2>5. \A j \in Jobs : sess[j] \in Session \cup {None}
    BY DEF DispatchTypeOK
  <2>6. \A j \in Jobs : sess'[j] \in Session \cup {None}
    BY <2>1, <2>4, <2>5
  <2>7. sess' \in [Jobs -> Session \cup {None}]
    BY <2>2, <2>6
  <2> QED BY <2>1, <2>4, <2>7
<1> QED BY <1>1, <1>2

LEMMA ClosedTyped ==
    ASSUME DispatchTypeOK, NEW j \in Jobs, NEW u \in Session \cup {None},
           u # None => /\ sess[j] # None
                       /\ u.attempt = sess[j].attempt
                       /\ u.machine = sess[j].machine,
           sess' = [sess EXCEPT ![j] = u]
    PROVE  /\ sess' \in [Jobs -> Session \cup {None}]
           /\ \A i \in Jobs : sess'[i] # None => /\ sess[i] # None
                                               /\ sess'[i].attempt = sess[i].attempt
                                               /\ sess'[i].machine = sess[i].machine
BY DEF DispatchTypeOK

----------------------------------------------------------------------------
(* Every step but Pick, whatever it does to the registry.                  *)

LEMMA DispatchStep ==
    ASSUME Typed, Next, \A j \in Jobs : ~Pick(j)
    PROVE  DispatchTypeOK' /\ Shrinks /\ Evolves
<1> USE DEF Typed
<1>1. ASSUME NEW j \in Jobs, NobodyLeft(j) \/ Leave(j) \/ StreamEnds(j)
      PROVE  DispatchTypeOK' /\ Shrinks /\ Evolves
  BY <1>1, Shrinking DEF NobodyLeft, Leave, StreamEnds, DispatchTypeOK
<1>2. ASSUME NEW j \in Jobs, AnswerLost(j)
      PROVE  DispatchTypeOK' /\ Shrinks /\ Evolves
  BY <1>2, FailoverTyped, FailoverEvolves DEF AnswerLost, DispatchTypeOK, Shrinks, Placed
<1>3. ASSUME NEW p \in posts, Preflight(p)
      PROVE  DispatchTypeOK' /\ Shrinks /\ Evolves
  <2> DEFINE q == [p EXCEPT !.sock = entry[p.machine].sock]
  <2>1. p \in Post /\ entry[p.machine] \in Entry /\ MachineOf(entry[p.machine].sock) = p.machine
    BY <1>3 DEF Preflight, Eligible, DispatchTypeOK, RegistryTypeOK, Post
  <2>2. q \in Post /\ q.job = p.job /\ q.attempt = p.attempt /\ q.machine = p.machine
        /\ MachineOf(q.sock) = q.machine
    BY <2>1 DEF Post, Entry
  <2>3. posts' = (posts \ {p}) \cup {q}
    BY <1>3 DEF Preflight
  <2> HIDE DEF q
  <2>4. Shrinks
    BY <1>3, <2>2, <2>3 DEF Preflight, Shrinks, Placed
  <2>5. UNCHANGED <<req, sess, streams, tomb, runs, heard>>
    BY <1>3 DEF Preflight
  <2> QED BY <2>2, <2>3, <2>4, <2>5 DEF DispatchTypeOK, Evolves
<1>4. ASSUME NEW p \in posts, NoCapacity(p) \/ PreflightTimesOut(p)
      PROVE  DispatchTypeOK' /\ Shrinks /\ Evolves
  BY <1>4, RefusedTyped DEF NoCapacity, PreflightTimesOut
<1>5. ASSUME NEW p \in posts, Dispatch(p)
      PROVE  DispatchTypeOK' /\ Shrinks /\ Evolves
  <2>1. CASE sess[p.job] # None \/ p.job \in tomb
    BY <1>5, <2>1, RefusedTyped DEF Dispatch
  <2>2. CASE ~(sess[p.job] # None \/ p.job \in tomb)
    <3> DEFINE u == [machine |-> p.machine, attempt |-> p.attempt, streamed |-> FALSE, detached |-> FALSE]
               r == [job |-> p.job, attempt |-> p.attempt, sock |-> p.sock]
               st == [job |-> p.job, attempt |-> p.attempt]
    <3>1. /\ p.job \in Jobs /\ p.attempt \in Attempt /\ p.machine \in Machines
          /\ p.sock \in Socket /\ MachineOf(p.sock) = p.machine
      BY <1>5 DEF Dispatch, DispatchTypeOK, Post
    <3>2. u \in Session /\ r \in Run /\ st \in Stream
      BY <3>1 DEF Session, Run, Stream
    <3>3. /\ u.machine = p.machine /\ u.attempt = p.attempt
          /\ r.job = p.job /\ r.attempt = p.attempt /\ MachineOf(r.sock) = p.machine
      BY <3>1
    <3>4. /\ posts' = posts \ {p}
          /\ sess' = [sess EXCEPT ![p.job] = u]
          /\ streams' = streams \cup {st}
          /\ runs' = runs \/ runs' = runs \cup {r}
          /\ req' = req \/ req' = [req EXCEPT ![p.job].pc = "stream"]
          /\ UNCHANGED <<tomb, heard>>
      BY <1>5, <2>2 DEF Dispatch
    <3> HIDE DEF u, r, st
    <3>5. Shrinks
      <4> SUFFICES ASSUME NEW j \in Jobs, NEW a \in Attempt, NEW m \in Machines, Placed(j, a, m)'
                   PROVE  Placed(j, a, m)
        BY DEF Shrinks
      <4>1. Placed(p.job, p.attempt, p.machine)
        BY DEF Placed
      <4>2. CASE j = p.job /\ a = p.attempt /\ m = p.machine
        BY <4>1, <4>2
      <4>3. CASE ~(j = p.job /\ a = p.attempt /\ m = p.machine)
        <5>1. sess'[j] = sess[j] \/ (j = p.job /\ sess'[j] = u)
          BY <3>1, <3>4 DEF DispatchTypeOK
        <5> QED BY <3>3, <3>4, <4>3, <5>1 DEF Placed
      <4> QED BY <4>2, <4>3
    <3>6. /\ Evolves
          /\ req' \in [Jobs -> Request]
          /\ \A i \in Jobs : req'[i].pc = "wait" => req'[i].target \in Machines
          /\ \A i \in Jobs : req'[i].pc = "pick" => req'[i].attempt < MaxAttempts
      <4>1. CASE req' = req
        BY <4>1 DEF DispatchTypeOK, Evolves
      <4>2. CASE req' = [req EXCEPT ![p.job].pc = "stream"]
        <5>1. req \in [Jobs -> Request] /\ req[p.job] \in Request
          BY <3>1 DEF DispatchTypeOK
        <5>2. /\ [req[p.job] EXCEPT !.pc = "stream"] \in Request
              /\ [req[p.job] EXCEPT !.pc = "stream"].pc = "stream"
              /\ [req[p.job] EXCEPT !.pc = "stream"].attempt = req[p.job].attempt
          BY <5>1 DEF Request
        <5>3. /\ req'[p.job] = [req[p.job] EXCEPT !.pc = "stream"]
              /\ \A i \in Jobs : i # p.job => req'[i] = req[i]
          BY <3>1, <4>2, <5>1
        <5> QED BY <4>2, <5>1, <5>2, <5>3 DEF DispatchTypeOK, Evolves
      <4> QED BY <3>4, <4>1, <4>2
    <3> QED BY <3>1, <3>2, <3>4, <3>5, <3>6 DEF DispatchTypeOK
  <2> QED BY <2>1, <2>2
<1>6. ASSUME NEW st \in streams, ResponseOver(st)
      PROVE  DispatchTypeOK' /\ Shrinks /\ Evolves
  <2>1. st.job \in Jobs
    BY DEF DispatchTypeOK, Stream
  <2> QED BY <1>6, <2>1, ClosedTyped, Shrinking DEF ResponseOver, DispatchTypeOK
<1>7. ASSUME NEW r \in runs, Chunk(r)
      PROVE  DispatchTypeOK' /\ Shrinks /\ Evolves
  <2>1. r.job \in Jobs /\ r.attempt \in Attempt /\ sess[r.job] \in Session
    BY <1>7 DEF DispatchTypeOK, Run, Chunk, OwnedBy
  <2>2. /\ [sess[r.job] EXCEPT !.streamed = TRUE] \in Session
        /\ [sess[r.job] EXCEPT !.streamed = TRUE].attempt = sess[r.job].attempt
        /\ [sess[r.job] EXCEPT !.streamed = TRUE].machine = sess[r.job].machine
        /\ sess[r.job].attempt \in Attempt
    BY <2>1 DEF Session
  <2>3. sess' = [sess EXCEPT ![r.job] = [sess[r.job] EXCEPT !.streamed = TRUE]] /\ sess[r.job] # None
    BY <1>7 DEF Chunk, OwnedBy
  <2>4. heard' \in [Jobs -> SUBSET [stream : Attempt, run : Attempt]]
    BY <1>7, <2>1, <2>2 DEF Chunk, DispatchTypeOK
  <2> QED BY <1>7, <2>1, <2>2, <2>3, <2>4, ClosedTyped, Shrinking DEF Chunk, DispatchTypeOK
<1>8. ASSUME NEW r \in runs, Complete(r)
      PROVE  DispatchTypeOK' /\ Shrinks /\ Evolves
  <2>1. r.job \in Jobs
    BY DEF DispatchTypeOK, Run
  <2> QED BY <1>8, <2>1, ClosedTyped, Shrinking DEF Complete, DispatchTypeOK
<1>9. ASSUME NEW r \in runs, RunDies(r)
      PROVE  DispatchTypeOK' /\ Shrinks /\ Evolves
  BY <1>9, Shrinking DEF RunDies, DispatchTypeOK
<1>10. ASSUME NEW r \in runs, Resume(r)
       PROVE  DispatchTypeOK' /\ Shrinks /\ Evolves
  <2>1. r.job \in Jobs /\ sess[r.job] \in Session
    BY <1>10 DEF DispatchTypeOK, Run, Resume, OwnedBy
  <2>2. /\ [sess[r.job] EXCEPT !.detached = FALSE] \in Session
        /\ [sess[r.job] EXCEPT !.detached = FALSE].attempt = sess[r.job].attempt
        /\ [sess[r.job] EXCEPT !.detached = FALSE].machine = sess[r.job].machine
    BY <2>1 DEF Session
  <2>3. sess' = [sess EXCEPT ![r.job] = [sess[r.job] EXCEPT !.detached = FALSE]] /\ sess[r.job] # None
    BY <1>10 DEF Resume, OwnedBy
  <2> QED BY <1>10, <2>1, <2>2, <2>3, ClosedTyped, Shrinking DEF Resume, DispatchTypeOK
<1>11. ASSUME NEW j \in Jobs, IdleTimeout(j) \/ GraceExpires(j)
       PROVE  DispatchTypeOK' /\ Shrinks /\ Evolves
  BY <1>11, ClosedTyped, Shrinking DEF IdleTimeout, GraceExpires, DispatchTypeOK
<1>12. ASSUME NEW j \in Jobs, TombstoneExpires(j)
       PROVE  DispatchTypeOK' /\ Shrinks /\ Evolves
  BY <1>12, Shrinking DEF TombstoneExpires, DispatchTypeOK
<1>13. ASSUME NEW m \in Machines, NEW s \in Socket, Register(m, s)
       PROVE  DispatchTypeOK' /\ Shrinks /\ Evolves
  <2>1. DetachForMachine(m) \/ UNCHANGED sess
    BY <1>13 DEF Register
  <2> QED BY <1>13, <2>1, DetachTyped, Shrinking DEF Register, DispatchTypeOK
<1>14. ASSUME NEW s \in Socket, CloseEvent(s)
       PROVE  DispatchTypeOK' /\ Shrinks /\ Evolves
  <2>1. DetachForMachine(MachineOf(s)) \/ UNCHANGED sess
    BY <1>14 DEF CloseEvent
  <2> QED BY <1>14, <2>1, SocketParts, DetachTyped, Shrinking DEF CloseEvent, DispatchTypeOK
<1>15. ASSUME UNCHANGED dispatchVars
       PROVE  DispatchTypeOK' /\ Shrinks /\ Evolves
  BY <1>15, Shrinking DEF dispatchVars, DispatchTypeOK
<1> QED
  BY <1>1, <1>2, <1>3, <1>4, <1>5, <1>6, <1>7, <1>8, <1>9, <1>10, <1>11, <1>12, <1>13, <1>14, <1>15
     DEF Next, ConsoleNext, PostNext, RunNext, TimerNext

----------------------------------------------------------------------------
(* Pick: one attempt more, placed on a machine of an owner not yet burnt.   *)

LEMMA PickMakes ==
    ASSUME Typed, NEW j \in Jobs, Pick(j)
    PROVE  \E m \in Machines :
              /\ Owner[m] \notin req[j].tried
              /\ req[j].pc = "pick"
              /\ req[j].attempt + 1 \in Attempt
              /\ req' \in [Jobs -> Request]
              /\ \A i \in Jobs : i # j => req'[i] = req[i]
              /\ req'[j].pc = "wait" /\ req'[j].target = m
              /\ req'[j].attempt = req[j].attempt + 1
              /\ req'[j].tried = req[j].tried
              /\ posts' = posts \cup {[job |-> j, attempt |-> req[j].attempt + 1,
                                       machine |-> m, sock |-> None]}
              /\ UNCHANGED <<registryVars, sess, streams, tomb, runs, heard>>
<1>1. PICK m \in Candidates(j) :
         /\ req' = [req EXCEPT ![j].pc = "wait", ![j].attempt = @ + 1, ![j].target = m]
         /\ posts' = posts \cup {[job |-> j, attempt |-> req[j].attempt + 1,
                                  machine |-> m, sock |-> None]}
  BY DEF Pick
<1>2. m \in Machines /\ Owner[m] \notin req[j].tried
  BY DEF Candidates
<1>3. req \in [Jobs -> Request] /\ req[j] \in Request /\ req[j].attempt < MaxAttempts
  BY DEF Pick, Typed, DispatchTypeOK
<1>4. MaxAttempts \in Nat
  BY DispatchAssumption
<1>5. req[j].attempt \in 0 .. MaxAttempts /\ req[j].attempt + 1 \in 1 .. MaxAttempts
      /\ req[j].attempt + 1 \in 0 .. MaxAttempts
  BY <1>3, <1>4 DEF Request
<1> DEFINE q == [req[j] EXCEPT !.pc = "wait", !.attempt = req[j].attempt + 1, !.target = m]
<1>6. /\ q \in Request /\ q.pc = "wait" /\ q.target = m
      /\ q.attempt = req[j].attempt + 1 /\ q.tried = req[j].tried
  BY <1>2, <1>3, <1>5 DEF Request
<1>7. req' = [req EXCEPT ![j] = q]
  BY <1>1, <1>3
<1> HIDE DEF q
<1>8. req' \in [Jobs -> Request] /\ req'[j] = q /\ \A i \in Jobs : i # j => req'[i] = req[i]
  BY <1>3, <1>6, <1>7
<1> QED BY <1>1, <1>2, <1>5, <1>6, <1>8 DEF Pick, Attempt

LEMMA PickTyped ==
    ASSUME Typed, NEW j \in Jobs, Pick(j)
    PROVE  Typed'
<1>1. PICK m \in Machines :
              /\ req[j].attempt + 1 \in Attempt
              /\ req' \in [Jobs -> Request]
              /\ \A i \in Jobs : i # j => req'[i] = req[i]
              /\ req'[j].pc = "wait" /\ req'[j].target = m
              /\ posts' = posts \cup {[job |-> j, attempt |-> req[j].attempt + 1,
                                       machine |-> m, sock |-> None]}
              /\ UNCHANGED <<registryVars, sess, streams, tomb, runs, heard>>
  BY PickMakes
<1>2. [job |-> j, attempt |-> req[j].attempt + 1, machine |-> m, sock |-> None] \in Post
  BY <1>1 DEF Post
<1>3. RegistryTypeOK'
  BY <1>1 DEF Typed, RegistryTypeOK, registryVars
<1>4. posts' \subseteq Post /\ \A p \in posts' : p.sock # None => MachineOf(p.sock) = p.machine
  BY <1>1, <1>2 DEF Typed, DispatchTypeOK
<1>5. /\ \A i \in Jobs : req'[i].pc = "wait" => req'[i].target \in Machines
      /\ \A i \in Jobs : req'[i].pc = "pick" => req'[i].attempt < MaxAttempts
  BY <1>1 DEF Typed, DispatchTypeOK
<1> QED BY <1>1, <1>3, <1>4, <1>5 DEF Typed, DispatchTypeOK

(* The registry's part of the other steps.                                 *)
LEMMA RegistryPart ==
    ASSUME Typed, Next
    PROVE  RegistryTypeOK'
<1> USE DEF Typed
<1>1. \A p \in posts : p.machine \in Machines
  BY DEF DispatchTypeOK, Post
<1>2. ASSUME UNCHANGED registryVars
      PROVE  RegistryTypeOK'
  BY <1>2 DEF registryVars, RegistryTypeOK
<1>3. ASSUME NEW p \in posts, PreflightTimesOut(p)
      PROVE  RegistryTypeOK'
  BY <1>1, <1>3, MarkingTyped DEF PreflightTimesOut, Marked, RegistryTypeOK
<1>4. ASSUME NEW p \in posts, Dispatch(p)
      PROVE  RegistryTypeOK'
  <2>1. credit' \in [Machines -> Int]
    BY <1>1, <1>4 DEF Dispatch, RegistryTypeOK
  <2> QED BY <1>1, <1>4, <2>1, MarkingTyped DEF Dispatch, Marked, RegistryTypeOK
<1>5. ASSUME NEW r \in runs, Complete(r)
      PROVE  RegistryTypeOK'
  <2> DEFINE m == MachineOf(r.sock)
  <2>1. m \in Machines
    BY SocketParts DEF DispatchTypeOK, Run
  <2>2. UNCHANGED <<sock, challenged, verifying, asked, wedged, faults>>
    BY <1>5 DEF Complete
  <2>3. CASE RecordFailure(m) /\ UNCHANGED entry
    <3>1. ledger' \in [Machines -> Account] /\ credit' \in [Machines -> Int]
      BY <2>1, <2>3, FailureTyped
    <3> QED BY <2>2, <2>3, <3>1 DEF RegistryTypeOK
  <2>4. CASE /\ entry' = WithUnhealthy(m, FALSE)
             /\ credit' = [credit EXCEPT ![m] = @ - 1]
             /\ UNCHANGED ledger
    <3>1. ledger' \in [Machines -> Account] /\ credit' \in [Machines -> Int]
      BY <2>1, <2>4 DEF RegistryTypeOK
    <3>2. entry' \in Marked(m)
      BY <2>4 DEF Marked
    <3> QED BY <2>1, <2>2, <3>1, <3>2, MarkingTyped
  <2> QED BY <1>5, <2>3, <2>4 DEF Complete
<1>6. ASSUME NEW j \in Jobs, IdleTimeout(j) \/ GraceExpires(j)
      PROVE  RegistryTypeOK'
  <2> DEFINE m == sess[j].machine
  <2>1. m \in Machines
    BY <1>6 DEF IdleTimeout, GraceExpires, DispatchTypeOK, Session
  <2>2. /\ RecordFailure(m)
        /\ entry' = entry \/ entry' = WithUnhealthy(m, TRUE)
        /\ UNCHANGED <<sock, challenged, verifying, asked, wedged, faults>>
    BY <1>6 DEF IdleTimeout, GraceExpires
  <2>3. ledger' \in [Machines -> Account] /\ credit' \in [Machines -> Int]
    BY <2>1, <2>2, FailureTyped
  <2>4. CASE entry' = entry
    BY <2>2, <2>3, <2>4 DEF RegistryTypeOK
  <2>5. CASE entry' = WithUnhealthy(m, TRUE)
    <3>1. entry' \in Marked(m)
      BY <2>5 DEF Marked
    <3> QED BY <2>1, <2>2, <2>3, <3>1, MarkingTyped
  <2> QED BY <2>2, <2>4, <2>5
<1>7. ASSUME NEW m \in Machines, NEW s \in Socket, Register(m, s)
      PROVE  RegistryTypeOK'
  BY <1>7, RegisteredTyped DEF Register
<1>8. ASSUME NEW s \in Socket, CloseEvent(s)
      PROVE  RegistryTypeOK'
  BY <1>8, CloseTyped DEF CloseEvent
<1>9. ASSUME RegistryStep
      PROVE  RegistryTypeOK'
  BY <1>9, RegistryStepTyped
<1>10. ASSUME NEW j \in Jobs, ConsoleNext(j) \/ TombstoneExpires(j)
       PROVE  RegistryTypeOK'
  BY <1>10, <1>2 DEF ConsoleNext, Pick, NobodyLeft, AnswerLost, Leave, StreamEnds, TombstoneExpires
<1>11. ASSUME NEW p \in posts, Preflight(p) \/ NoCapacity(p)
       PROVE  RegistryTypeOK'
  BY <1>11, <1>2 DEF Preflight, NoCapacity
<1>12. ASSUME NEW st \in streams, ResponseOver(st)
       PROVE  RegistryTypeOK'
  BY <1>12, <1>2 DEF ResponseOver
<1>13. ASSUME NEW r \in runs, Chunk(r) \/ RunDies(r) \/ Resume(r)
       PROVE  RegistryTypeOK'
  BY <1>13, <1>2 DEF Chunk, RunDies, Resume
<1> QED
  BY <1>3, <1>4, <1>5, <1>6, <1>7, <1>8, <1>9, <1>10, <1>11, <1>12, <1>13
     DEF Next, PostNext, RunNext, TimerNext

LEMMA TypedInit == Init => Typed
<1> SUFFICES ASSUME Init PROVE Typed
  OBVIOUS
<1>1. /\ None \notin Entry /\ None \notin Session /\ MaxSockets \in Nat /\ MaxSockets > 0
      /\ MaxFaults \in Nat /\ MaxAttempts \in Nat /\ MaxAttempts > 0
      /\ Threshold \in Nat /\ Threshold > 0
  BY RegistryAssumption, DispatchAssumption
<1>2. \A m \in Machines : First(m) \in Socket /\ MachineOf(First(m)) = m
  BY <1>1 DEF First, Socket, MachineOf
<1>3. \A m \in Machines : [sock |-> First(m), attested |-> TRUE, unhealthy |-> FALSE] \in Entry
  BY <1>2 DEF Entry
<1>4. entry \in [Machines -> Entry \cup {None}] /\ sock \in [Socket -> SocketState]
  BY <1>3 DEF Init, RegistryInit, SocketState
<1>5. /\ \A m \in Machines : MachineOf(entry[m].sock) = m /\ entry[m].sock \in challenged
      /\ challenged \subseteq Socket /\ \A s \in challenged : sock[s] # "unused"
  BY <1>2 DEF Init, RegistryInit
<1>6. ledger \in [Machines -> Account] /\ credit \in [Machines -> Int] /\ faults \in 0 .. MaxFaults
  BY <1>1 DEF Init, RegistryInit, Account
<1>7. RegistryTypeOK
  BY <1>4, <1>5, <1>6 DEF Init, RegistryInit, RegistryTypeOK
<1>8. [pc |-> "pick", attempt |-> 0, tried |-> {}, target |-> None] \in Request
  BY <1>1 DEF Request
<1> QED BY <1>1, <1>7, <1>8 DEF Init, Typed, DispatchTypeOK

LEMMA TypedStep == Typed /\ [Next]_vars => Typed'
<1> SUFFICES ASSUME Typed, [Next]_vars PROVE Typed'
  OBVIOUS
<1>1. CASE UNCHANGED vars
  <2>1. RegistryTypeOK'
    BY <1>1 DEF vars, registryVars, Typed, RegistryTypeOK
  <2>2. DispatchTypeOK'
    BY <1>1 DEF vars, dispatchVars, Typed, DispatchTypeOK
  <2> QED BY <2>1, <2>2 DEF Typed
<1>2. ASSUME NEW j \in Jobs, Pick(j)
      PROVE  Typed'
  BY <1>2, PickTyped
<1>3. CASE Next /\ \A j \in Jobs : ~Pick(j)
  BY <1>3, DispatchStep, RegistryPart DEF Typed
<1> QED BY <1>1, <1>2, <1>3

(* Every variable keeps its type, the registered socket of a machine is its *)
(* own and under challenge even if it is gone, and no response timer runs   *)
(* without the interval that armed it: late registrations, sweeps, late     *)
(* close events and answers on replaced sockets included.                   *)
THEOREM TypeCorrect == Spec => []TypeOK
<1>1. Typed => TypeOK
  BY DEF Typed, DispatchTypeOK, TypeOK
<1> QED BY <1>1, TypedInit, TypedStep, PTL DEF Spec

LEMMA AlwaysTyped == Spec => []Typed
BY TypedInit, TypedStep, PTL DEF Spec

----------------------------------------------------------------------------
(* The output of an attempt.                                               *)

(* While a request may pick again, every machine on which one of its       *)
(* attempts is still placed belongs to a burnt owner, except the target it *)
(* waits for; so no machine ever has two attempts of a job.                *)
Sources ==
    \A j \in Jobs, a \in Attempt, m \in Machines : Placed(j, a, m) =>
        /\ a <= req[j].attempt
        /\ req[j].pc = "pick" => Owner[m] \in req[j].tried
        /\ req[j].pc = "wait" => (a = req[j].attempt /\ m = req[j].target) \/ Owner[m] \in req[j].tried

OneAttempt ==
    \A j \in Jobs, a \in Attempt, b \in Attempt, m \in Machines :
        Placed(j, a, m) /\ Placed(j, b, m) => a = b

LEMMA ShrinkingKeepsSources ==
    ASSUME Typed, Sources, OneAttempt, Shrinks, Evolves
    PROVE  Sources' /\ OneAttempt'
<1>1. OneAttempt'
  BY DEF OneAttempt, Shrinks
<1>2. Sources'
  <2> SUFFICES ASSUME NEW j \in Jobs, NEW a \in Attempt, NEW m \in Machines, Placed(j, a, m)'
               PROVE  /\ a <= req'[j].attempt
                      /\ req'[j].pc = "pick" => Owner[m] \in req'[j].tried
                      /\ req'[j].pc = "wait" => \/ (a = req'[j].attempt /\ m = req'[j].target)
                                                \/ Owner[m] \in req'[j].tried
    BY DEF Sources
  <2>1. Placed(j, a, m)
    BY DEF Shrinks
  <2>2. /\ a <= req[j].attempt
        /\ req[j].pc = "pick" => Owner[m] \in req[j].tried
        /\ req[j].pc = "wait" => \/ (a = req[j].attempt /\ m = req[j].target)
                                 \/ Owner[m] \in req[j].tried
    BY <2>1 DEF Sources
  <2> QED BY <2>2 DEF Evolves
<1> QED BY <1>1, <1>2

LEMMA PickKeepsSources ==
    ASSUME Typed, Sources, OneAttempt, NEW i \in Jobs, Pick(i)
    PROVE  Sources' /\ OneAttempt'
<1>1. PICK t \in Machines :
              /\ Owner[t] \notin req[i].tried
              /\ req[i].pc = "pick"
              /\ req[i].attempt + 1 \in Attempt
              /\ \A j \in Jobs : j # i => req'[j] = req[j]
              /\ req'[i].pc = "wait" /\ req'[i].target = t
              /\ req'[i].attempt = req[i].attempt + 1
              /\ req'[i].tried = req[i].tried
              /\ posts' = posts \cup {[job |-> i, attempt |-> req[i].attempt + 1,
                                       machine |-> t, sock |-> None]}
              /\ UNCHANGED <<sess, runs>>
  BY PickMakes DEF registryVars
<1> DEFINE n == req[i].attempt
<1>2. \A j \in Jobs, a \in Attempt, m \in Machines :
         Placed(j, a, m)' => Placed(j, a, m) \/ (j = i /\ a = n + 1 /\ m = t)
  BY <1>1 DEF Placed
<1>3. \A a \in Attempt, m \in Machines : Placed(i, a, m) => a <= n /\ Owner[m] \in req[i].tried
  BY <1>1 DEF Sources
<1>4. n \in Int /\ \A a \in Attempt : a \in Int
  BY DEF Typed, DispatchTypeOK, Request, Attempt
<1>5. OneAttempt'
  BY <1>1, <1>2, <1>3 DEF OneAttempt
<1>6. Sources'
  <2> SUFFICES ASSUME NEW j \in Jobs, NEW a \in Attempt, NEW m \in Machines, Placed(j, a, m)'
               PROVE  /\ a <= req'[j].attempt
                      /\ req'[j].pc = "pick" => Owner[m] \in req'[j].tried
                      /\ req'[j].pc = "wait" => \/ (a = req'[j].attempt /\ m = req'[j].target)
                                                \/ Owner[m] \in req'[j].tried
    BY DEF Sources
  <2>1. CASE j # i
    BY <1>1, <1>2, <2>1 DEF Sources
  <2>2. CASE j = i
    BY <1>1, <1>2, <1>3, <1>4, <2>2
  <2> QED BY <2>1, <2>2
<1> QED BY <1>5, <1>6

LEMMA OutputStep ==
    ASSUME Typed, OneAttempt, OutputOfAttempt, [Next]_vars
    PROVE  OutputOfAttempt'
<1>1. CASE UNCHANGED heard
  BY <1>1 DEF OutputOfAttempt
<1>2. ASSUME NEW r \in runs, Chunk(r)
      PROVE  OutputOfAttempt'
  <2> DEFINE j == r.job
             h == [stream |-> sess[r.job].attempt, run |-> r.attempt]
  <2>1. /\ j \in Jobs /\ r.attempt \in Attempt /\ MachineOf(r.sock) \in Machines
        /\ sess[j].attempt \in Attempt
    BY <1>2, SocketParts DEF Chunk, OwnedBy, Typed, DispatchTypeOK, Run, Session
  <2>2. Placed(j, r.attempt, MachineOf(r.sock)) /\ Placed(j, sess[j].attempt, MachineOf(r.sock))
    BY <1>2 DEF Placed, Chunk, OwnedBy
  <2>3. h.stream = h.run
    BY <2>1, <2>2 DEF OneAttempt
  <2>4. heard' = [heard EXCEPT ![j] = heard[j] \cup {h}]
    BY <1>2 DEF Chunk
  <2> HIDE DEF h
  <2> QED BY <2>3, <2>4 DEF OutputOfAttempt, Typed, DispatchTypeOK
<1>3. Next => UNCHANGED heard \/ \E r \in runs : Chunk(r)
  BY DEF Next, ConsoleNext, Pick, NobodyLeft, AnswerLost, Leave, StreamEnds, PostNext, Preflight,
         NoCapacity, PreflightTimesOut, Dispatch, Refused, ResponseOver, RunNext, Complete, RunDies,
         Resume, TimerNext, IdleTimeout, GraceExpires, TombstoneExpires, Register, CloseEvent,
         dispatchVars
<1> QED BY <1>1, <1>2, <1>3 DEF vars, dispatchVars

(* An attempt that was given up never speaks into the stream of a later    *)
(* one under the same session id, whatever is still running on the         *)
(* machines: excludeDids and ownedBy together are enough.                  *)
THEOREM OutputStaysItsOwn == Spec => []OutputOfAttempt
<1> DEFINE Inv == Sources /\ OneAttempt /\ OutputOfAttempt
<1>1. Init => Inv
  BY DEF Init, Sources, OneAttempt, OutputOfAttempt, Placed
<1>2. Typed /\ Inv /\ [Next]_vars => Inv'
  <2> SUFFICES ASSUME Typed, Inv, [Next]_vars PROVE Inv'
    OBVIOUS
  <2>1. OutputOfAttempt'
    BY OutputStep
  <2>2. CASE UNCHANGED vars
    BY <2>1, <2>2 DEF vars, dispatchVars, Sources, OneAttempt, Placed
  <2>3. ASSUME NEW j \in Jobs, Pick(j)
        PROVE  Sources' /\ OneAttempt'
    BY <2>3, PickKeepsSources
  <2>4. CASE Next /\ \A j \in Jobs : ~Pick(j)
    BY <2>1, <2>4, DispatchStep, ShrinkingKeepsSources
  <2> QED BY <2>1, <2>2, <2>3, <2>4
<1>3. Inv => OutputOfAttempt
  OBVIOUS
<1> HIDE DEF Inv
<1> QED BY <1>1, <1>2, <1>3, AlwaysTyped, PTL DEF Spec

----------------------------------------------------------------------------
(* Blame.                                                                  *)

LEMMA OnFinite ==
    ASSUME NEW m \in Machines
    PROVE  IsFiniteSet(On(m)) /\ Cardinality(On(m)) \in Nat /\ Inflight(m) = Cardinality(On(m))
<1>1. On(m) \subseteq Jobs
  BY DEF On
<1>2. IsFiniteSet(On(m))
  BY <1>1, DispatchAssumption, FS_Subset
<1> QED BY <1>2, FS_CardinalityType DEF Inflight, On

(* No session is opened and nobody is blamed or credited.                  *)
LEMMA BlameKept ==
    ASSUME Typed, BlamedOnce, UNCHANGED credit,
           \A m \in Machines : On(m)' \subseteq On(m)
    PROVE  BlamedOnce'
<1> SUFFICES ASSUME NEW m \in Machines PROVE Inflight(m)' <= credit'[m]
  BY DEF BlamedOnce
<1>1. Cardinality(On(m)') <= Cardinality(On(m)) /\ Cardinality(On(m)') \in Nat
  BY OnFinite, FS_Subset, FS_CardinalityType
<1>2. Inflight(m) <= credit[m] /\ credit[m] \in Int
  BY DEF BlamedOnce, Typed, RegistryTypeOK
<1>3. Inflight(m)' = Cardinality(On(m)')
  BY DEF Inflight, On
<1> QED BY <1>1, <1>2, <1>3, OnFinite

(* One session closes, and its machine answers for it.                     *)
LEMMA BlameTaken ==
    ASSUME Typed, BlamedOnce, NEW m \in Machines, NEW j \in On(m),
           sess' = [sess EXCEPT ![j] = None],
           credit' = [credit EXCEPT ![m] = @ - 1]
    PROVE  BlamedOnce'
<1> SUFFICES ASSUME NEW x \in Machines PROVE Inflight(x)' <= credit'[x]
  BY DEF BlamedOnce
<1>1. j \in Jobs /\ sess[j].machine = m /\ sess[j] # None
  BY DEF On
<1>2. On(x)' = IF x = m THEN On(m) \ {j} ELSE On(x)
  BY <1>1 DEF On, Typed, DispatchTypeOK
<1>3. Inflight(x) <= credit[x] /\ credit[x] \in Int
  BY DEF BlamedOnce, Typed, RegistryTypeOK
<1>4. Inflight(x)' = Cardinality(On(x)')
  BY DEF Inflight, On
<1>5. CASE x = m
  <2>1. Cardinality(On(m) \ {j}) = Cardinality(On(m)) - 1
    BY OnFinite, FS_RemoveElement
  <2>2. credit'[m] = credit[m] - 1
    BY DEF Typed, RegistryTypeOK
  <2> QED BY <1>2, <1>3, <1>4, <1>5, <2>1, <2>2, OnFinite
<1>6. CASE x # m
  <2>1. credit'[x] = credit[x]
    BY <1>6 DEF Typed, RegistryTypeOK
  <2> QED BY <1>2, <1>3, <1>4, <1>6, <2>1, OnFinite
<1> QED BY <1>5, <1>6

(* A session opens on a machine, which is now to answer for it.            *)
LEMMA BlameOwed ==
    ASSUME Typed, BlamedOnce, NEW m \in Machines, NEW j \in Jobs, NEW u \in Session,
           sess[j] = None, u.machine = m,
           sess' = [sess EXCEPT ![j] = u],
           credit' = [credit EXCEPT ![m] = @ + 1]
    PROVE  BlamedOnce'
<1> SUFFICES ASSUME NEW x \in Machines PROVE Inflight(x)' <= credit'[x]
  BY DEF BlamedOnce
<1>1. u # None
  BY DispatchAssumption
<1>2. On(x)' = IF x = m THEN On(m) \cup {j} ELSE On(x)
  BY <1>1 DEF On, Typed, DispatchTypeOK
<1>3. Inflight(x) <= credit[x] /\ credit[x] \in Int
  BY DEF BlamedOnce, Typed, RegistryTypeOK
<1>4. Inflight(x)' = Cardinality(On(x)')
  BY DEF Inflight, On
<1>5. CASE x = m
  <2>1. j \notin On(m)
    BY DEF On
  <2>2. Cardinality(On(m) \cup {j}) = Cardinality(On(m)) + 1
    BY <2>1, OnFinite, FS_AddElement
  <2>3. credit'[m] = credit[m] + 1
    BY DEF Typed, RegistryTypeOK
  <2> QED BY <1>2, <1>3, <1>4, <1>5, <2>2, <2>3, OnFinite
<1>6. CASE x # m
  <2>1. credit'[x] = credit[x]
    BY <1>6 DEF Typed, RegistryTypeOK
  <2> QED BY <1>2, <1>3, <1>4, <1>6, <2>1, OnFinite
<1> QED BY <1>5, <1>6

LEMMA BlameStep ==
    ASSUME Typed, BlamedOnce, [Next]_vars
    PROVE  BlamedOnce'
<1>1. ASSUME UNCHANGED <<sess, credit>>
      PROVE  BlamedOnce'
  BY <1>1, BlameKept DEF On
<1>2. CASE UNCHANGED vars
  BY <1>1, <1>2 DEF vars, registryVars, dispatchVars
<1>3. ASSUME NEW p \in posts, Dispatch(p)
      PROVE  BlamedOnce'
  <2>1. CASE sess[p.job] # None \/ p.job \in tomb
    BY <1>1, <1>3, <2>1 DEF Dispatch, Refused
  <2>2. CASE ~(sess[p.job] # None \/ p.job \in tomb)
    <3> DEFINE u == [machine |-> p.machine, attempt |-> p.attempt, streamed |-> FALSE, detached |-> FALSE]
    <3>1. p.job \in Jobs /\ p.machine \in Machines /\ u \in Session /\ u.machine = p.machine
      BY DEF Typed, DispatchTypeOK, Post, Session
    <3>2. /\ sess' = [sess EXCEPT ![p.job] = u]
          /\ credit' = [credit EXCEPT ![p.machine] = @ + 1]
          /\ sess[p.job] = None
      BY <1>3, <2>2 DEF Dispatch
    <3> HIDE DEF u
    <3> QED BY <3>1, <3>2, BlameOwed
  <2> QED BY <2>1, <2>2
<1>4. ASSUME NEW st \in streams, ResponseOver(st)
      PROVE  BlamedOnce'
  BY <1>4, BlameKept DEF ResponseOver, registryVars, On, Typed, DispatchTypeOK
<1>5. ASSUME NEW r \in runs, Chunk(r)
      PROVE  BlamedOnce'
  <2>1. \A j \in Jobs : sess'[j] # None => sess[j] # None /\ sess'[j].machine = sess[j].machine
    <3>1. r.job \in Jobs /\ sess[r.job] \in Session
      BY <1>5 DEF Typed, DispatchTypeOK, Run, Chunk, OwnedBy
    <3>2. [sess[r.job] EXCEPT !.streamed = TRUE].machine = sess[r.job].machine
      BY <3>1 DEF Session
    <3> QED BY <1>5, <3>1, <3>2 DEF Chunk, OwnedBy, Typed, DispatchTypeOK
  <2> QED BY <1>5, <2>1, BlameKept DEF Chunk, registryVars, On
<1>6. ASSUME NEW r \in runs, Resume(r)
      PROVE  BlamedOnce'
  <2>1. \A j \in Jobs : sess'[j] # None => sess[j] # None /\ sess'[j].machine = sess[j].machine
    <3>1. r.job \in Jobs /\ sess[r.job] \in Session
      BY <1>6 DEF Typed, DispatchTypeOK, Run, Resume, OwnedBy
    <3>2. [sess[r.job] EXCEPT !.detached = FALSE].machine = sess[r.job].machine
      BY <3>1 DEF Session
    <3> QED BY <1>6, <3>1, <3>2 DEF Resume, OwnedBy, Typed, DispatchTypeOK
  <2> QED BY <1>6, <2>1, BlameKept DEF Resume, registryVars, On
<1>7. ASSUME NEW r \in runs, Complete(r)
      PROVE  BlamedOnce'
  <2>1. r.job \in On(MachineOf(r.sock)) /\ MachineOf(r.sock) \in Machines
    BY <1>7, SocketParts DEF Complete, OwnedBy, On, Typed, DispatchTypeOK, Run
  <2>2. /\ sess' = [sess EXCEPT ![r.job] = None]
        /\ credit' = [credit EXCEPT ![MachineOf(r.sock)] = @ - 1]
    BY <1>7 DEF Complete, RecordFailure
  <2> QED BY <2>1, <2>2, BlameTaken
<1>8. ASSUME NEW j \in Jobs, IdleTimeout(j) \/ GraceExpires(j)
      PROVE  BlamedOnce'
  <2>1. j \in On(sess[j].machine) /\ sess[j].machine \in Machines
    BY <1>8 DEF IdleTimeout, GraceExpires, On, Typed, DispatchTypeOK, Session
  <2>2. /\ sess' = [sess EXCEPT ![j] = None]
        /\ credit' = [credit EXCEPT ![sess[j].machine] = @ - 1]
    BY <1>8 DEF IdleTimeout, GraceExpires, RecordFailure
  <2> QED BY <2>1, <2>2, BlameTaken
<1>9. ASSUME NEW m \in Machines, NEW s \in Socket, Register(m, s)
      PROVE  BlamedOnce'
  <2>1. \A x \in Machines : On(x)' \subseteq On(x)
    BY <1>9, DetachTyped DEF Register, On, Typed
  <2> QED BY <1>9, <2>1, BlameKept DEF Register, Registered
<1>10. ASSUME NEW s \in Socket, CloseEvent(s)
       PROVE  BlamedOnce'
  <2> DEFINE m == MachineOf(s)
  <2>1. m \in Machines
    BY SocketParts
  <2>2. \A x \in Machines : On(x)' \subseteq On(x)
    BY <1>10, <2>1, DetachTyped DEF CloseEvent, On, Typed
  <2>3. CASE ~Blamed(s)
    BY <1>10, <2>2, <2>3, BlameKept DEF CloseEvent
  <2>4. CASE Blamed(s)
    <3>1. On(m)' = {} /\ On(m) # {}
      BY <1>10, <2>4 DEF CloseEvent, Blamed, DetachForMachine, On
    <3>2. Cardinality(On(m)') = 0 /\ Cardinality(On(m)) >= 1
      BY <2>1, <3>1, OnFinite, FS_EmptySet
    <3>3. credit' = [credit EXCEPT ![m] = @ - 1]
      BY <1>10, <2>4 DEF CloseEvent, RecordFailure
    <3> SUFFICES ASSUME NEW x \in Machines PROVE Inflight(x)' <= credit'[x]
      BY DEF BlamedOnce
    <3>4. Inflight(x) <= credit[x] /\ credit[x] \in Int
      BY DEF BlamedOnce, Typed, RegistryTypeOK
    <3>5. Inflight(x)' = Cardinality(On(x)')
      BY DEF Inflight, On
    <3>6. CASE x = m
      <4>1. credit'[m] = credit[m] - 1
        BY <2>1, <3>3 DEF Typed, RegistryTypeOK
      <4> QED BY <2>1, <3>2, <3>4, <3>5, <3>6, <4>1, OnFinite
    <3>7. CASE x # m
      <4>1. credit'[x] = credit[x]
        BY <3>3, <3>7 DEF Typed, RegistryTypeOK
      <4>2. Cardinality(On(x)') <= Cardinality(On(x)) /\ Cardinality(On(x)') \in Nat
        BY <2>2, OnFinite, FS_Subset, FS_CardinalityType
      <4> QED BY <3>4, <3>5, <4>1, <4>2, OnFinite
    <3> QED BY <3>6, <3>7
  <2> QED BY <2>3, <2>4
<1>11. ASSUME NEW j \in Jobs, ConsoleNext(j) \/ TombstoneExpires(j)
       PROVE  BlamedOnce'
  BY <1>1, <1>11 DEF ConsoleNext, Pick, NobodyLeft, AnswerLost, Leave, StreamEnds, TombstoneExpires,
                     registryVars
<1>12. ASSUME NEW p \in posts, Preflight(p) \/ NoCapacity(p) \/ PreflightTimesOut(p)
       PROVE  BlamedOnce'
  BY <1>1, <1>12 DEF Preflight, NoCapacity, PreflightTimesOut, Refused, registryVars
<1>13. ASSUME NEW r \in runs, RunDies(r)
       PROVE  BlamedOnce'
  BY <1>1, <1>13 DEF RunDies, registryVars
<1>14. ASSUME RegistryStep, UNCHANGED dispatchVars
       PROVE  BlamedOnce'
  BY <1>1, <1>14 DEF RegistryStep, dispatchVars, registryVars, Connects,
                     RegisterRefused, Drop, Recycle, Rechallenge, Answered,
                     Unanswered, Recovered, Sweep, Reprobed, FailuresDecay, CooldownElapses, Wedge, Unwedge
<1> QED
  BY <1>2, <1>3, <1>4, <1>5, <1>6, <1>7, <1>8, <1>9, <1>10, <1>11, <1>12, <1>13, <1>14
     DEF Next, PostNext, RunNext, TimerNext

(* A machine answers for a job handed to it at most once: whichever of the *)
(* timers, the close event and the completions comes first closes the      *)
(* session, and the others find none.                                      *)
THEOREM NobodyBlamedTwice == Spec => []BlamedOnce
<1>1. Init => BlamedOnce
  <2> SUFFICES ASSUME Init, NEW m \in Machines PROVE Inflight(m) <= credit[m]
    BY DEF BlamedOnce
  <2>1. Inflight(m) = 0
    BY FS_EmptySet DEF Init, Inflight
  <2> QED BY <2>1 DEF Init, RegistryInit
<1>2. Typed /\ BlamedOnce /\ [Next]_vars => BlamedOnce'
  BY BlameStep
<1> QED BY <1>1, <1>2, AlwaysTyped, PTL DEF Spec

----------------------------------------------------------------------------
(* The standing of a machine.                                              *)

LEMMA FailureCools ==
    ASSUME RegistryTypeOK, NEW m \in Machines, RecordFailure(m), NEW x \in Machines, ledger[x].cooling
    PROVE  ledger'[x].cooling
BY DEF RecordFailure, RegistryTypeOK, Account

(* Whatever a machine does, reconnecting, answering its challenges and     *)
(* pings or completing what it still has, its cooldown stands: of all the  *)
(* steps only the passing of its time ends one.                            *)
THEOREM NobodyShedsCooldown == Spec => CooldownStands
<1> DEFINE Shed == \A m \in Machines : ledger[m].cooling /\ ~ledger'[m].cooling
                      => UNCHANGED <<entry, sock, sess, req>>
<1>1. Typed /\ [Next]_vars => Shed
  <2> SUFFICES ASSUME Typed, [Next]_vars PROVE Shed
    OBVIOUS
  <2>1. ASSUME UNCHANGED ledger
        PROVE  Shed
    BY <2>1
  <2>2. ASSUME NEW m \in Machines, RecordFailure(m)
        PROVE  Shed
    BY <2>2, FailureCools DEF Typed
  <2>3. ASSUME NEW r \in runs, Complete(r)
        PROVE  Shed
    <3>1. MachineOf(r.sock) \in Machines
      BY SocketParts DEF Typed, DispatchTypeOK, Run
    <3> QED BY <2>1, <2>2, <2>3, <3>1 DEF Complete
  <2>4. ASSUME NEW j \in Jobs, IdleTimeout(j) \/ GraceExpires(j)
        PROVE  Shed
    <3>1. sess[j].machine \in Machines
      BY <2>4 DEF IdleTimeout, GraceExpires, Typed, DispatchTypeOK, Session
    <3> QED BY <2>2, <2>4, <3>1 DEF IdleTimeout, GraceExpires
  <2>5. ASSUME NEW s \in Socket, CloseEvent(s)
        PROVE  Shed
    BY <2>1, <2>2, <2>5, SocketParts DEF CloseEvent
  <2>6. ASSUME RegistryStep, UNCHANGED dispatchVars
        PROVE  Shed
    <3>1. ASSUME NEW m \in Machines, FailuresDecay(m)
          PROVE  Shed
      BY <3>1 DEF FailuresDecay, Typed, RegistryTypeOK, Account
    <3>2. ASSUME NEW m \in Machines, CooldownElapses(m)
          PROVE  Shed
      BY <2>6, <3>2 DEF CooldownElapses, dispatchVars
    <3> QED BY <2>1, <2>6, <3>1, <3>2
            DEF RegistryStep, registryVars, Connects, RegisterRefused, Drop, Recycle,
                Rechallenge, Answered, Unanswered,
                Recovered, Sweep, Reprobed, Wedge, Unwedge
  <2>7. ASSUME NEW j \in Jobs, ConsoleNext(j) \/ TombstoneExpires(j)
        PROVE  Shed
    BY <2>1, <2>7 DEF ConsoleNext, Pick, NobodyLeft, AnswerLost, Leave, StreamEnds,
                      TombstoneExpires, registryVars
  <2>8. ASSUME NEW p \in posts, PostNext(p)
        PROVE  Shed
    BY <2>1, <2>8 DEF PostNext, Preflight, NoCapacity, PreflightTimesOut, Dispatch, registryVars
  <2>9. ASSUME NEW st \in streams, ResponseOver(st)
        PROVE  Shed
    BY <2>1, <2>9 DEF ResponseOver, registryVars
  <2>10. ASSUME NEW r \in runs, Chunk(r) \/ RunDies(r) \/ Resume(r)
         PROVE  Shed
    BY <2>1, <2>10 DEF Chunk, RunDies, Resume, registryVars
  <2>11. ASSUME NEW m \in Machines, NEW s \in Socket, Register(m, s)
         PROVE  Shed
    BY <2>1, <2>11 DEF Register, Registered
  <2>12. CASE UNCHANGED vars
    BY <2>1, <2>12 DEF vars, registryVars
  <2> HIDE DEF Shed
  <2> QED BY <2>3, <2>4, <2>5, <2>6, <2>7, <2>8, <2>9, <2>10, <2>11, <2>12
          DEF Next, RunNext, TimerNext
<1> QED BY <1>1, AlwaysTyped, PTL DEF Spec, CooldownStands

(* A machine that is reachable keeps its entry: a close event that comes   *)
(* after the machine has registered anew finds another socket in the entry *)
(* and leaves it, and the setters never remove one.                        *)
THEOREM NobodyEvictsALiveEntry == Spec => LiveEntryStays
<1> DEFINE Stays == \A m \in Machines : entry[m] # None /\ entry'[m] = None
                       => sock[entry[m].sock] # "open" \/ m \in wedged
<1>1. Typed /\ [Next]_vars => Stays
  <2> SUFFICES ASSUME Typed, [Next]_vars PROVE Stays
    OBVIOUS
  <2>1. ASSUME UNCHANGED entry
        PROVE  Stays
    BY <2>1
  <2>2. ASSUME NEW m \in Machines, entry' \in Marked(m)
        PROVE  Stays
    BY <2>2, MarkedTyped DEF Typed, RegistryTypeOK
  <2>3. ASSUME NEW p \in posts, PostNext(p)
        PROVE  Stays
    <3>1. p.machine \in Machines
      BY DEF Typed, DispatchTypeOK, Post
    <3>2. UNCHANGED entry \/ entry' \in Marked(p.machine)
      BY <2>3 DEF PostNext, Preflight, NoCapacity, PreflightTimesOut, Dispatch, registryVars, Marked
    <3> QED BY <2>1, <2>2, <3>1, <3>2
  <2>4. ASSUME NEW r \in runs, Complete(r)
        PROVE  Stays
    <3>1. MachineOf(r.sock) \in Machines
      BY SocketParts DEF Typed, DispatchTypeOK, Run
    <3>2. UNCHANGED entry \/ entry' \in Marked(MachineOf(r.sock))
      BY <2>4 DEF Complete, Marked
    <3> QED BY <2>1, <2>2, <3>1, <3>2
  <2>5. ASSUME NEW j \in Jobs, IdleTimeout(j) \/ GraceExpires(j)
        PROVE  Stays
    <3>1. sess[j].machine \in Machines
      BY <2>5 DEF IdleTimeout, GraceExpires, Typed, DispatchTypeOK, Session
    <3>2. UNCHANGED entry \/ entry' \in Marked(sess[j].machine)
      BY <2>5 DEF IdleTimeout, GraceExpires, Marked
    <3> QED BY <2>1, <2>2, <3>1, <3>2
  <2>6. ASSUME NEW s \in Socket, CloseEvent(s)
        PROVE  Stays
    <3>1. CASE Current(s)
      <4>1. /\ entry' = [entry EXCEPT ![MachineOf(s)] = None]
            /\ sock[s] # "open"
            /\ entry[MachineOf(s)].sock = s
        BY <2>6, <3>1 DEF CloseEvent, CloseHandled, Current
      <4> QED BY <4>1 DEF Typed, RegistryTypeOK
    <3>2. CASE ~Current(s)
      BY <2>1, <2>6, <3>2 DEF CloseEvent, CloseHandled
    <3> QED BY <3>1, <3>2
  <2>7. ASSUME NEW m \in Machines, NEW s \in Socket, Register(m, s)
        PROVE  Stays
    <3>1. [sock |-> s, attested |-> FALSE, unhealthy |-> FALSE] \in Entry /\ None \notin Entry
      BY RegistryAssumption DEF Entry
    <3> QED BY <2>7, <3>1 DEF Register, Registered, Typed, RegistryTypeOK
  <2>8. ASSUME RegistryStep
        PROVE  Stays
    <3>1. ASSUME NEW m \in Machines, Sweep(m)
          PROVE  Stays
      BY <3>1 DEF Sweep, Typed, RegistryTypeOK
    <3>2. ASSUME NEW s \in Socket, Answered(s) \/ Unanswered(s) \/ Recovered(s)
          PROVE  Stays
      BY <2>2, <3>2, SocketParts DEF Answered, Unanswered, Recovered, Marked
    <3>3. ASSUME NEW m \in Machines, Reprobed(m)
          PROVE  Stays
      BY <2>2, <3>3 DEF Reprobed, Marked
    <3> HIDE DEF Stays
    <3> QED BY <2>1, <2>8, <3>1, <3>2, <3>3
            DEF RegistryStep, Connects, RegisterRefused, Drop, Recycle, Rechallenge,
                FailuresDecay, CooldownElapses, Wedge, Unwedge
  <2>9. ASSUME NEW j \in Jobs, ConsoleNext(j) \/ TombstoneExpires(j)
        PROVE  Stays
    BY <2>1, <2>9 DEF ConsoleNext, Pick, NobodyLeft, AnswerLost, Leave, StreamEnds,
                      TombstoneExpires, registryVars
  <2>10. ASSUME NEW st \in streams, ResponseOver(st)
         PROVE  Stays
    BY <2>1, <2>10 DEF ResponseOver, registryVars
  <2>11. ASSUME NEW r \in runs, Chunk(r) \/ RunDies(r) \/ Resume(r)
         PROVE  Stays
    BY <2>1, <2>11 DEF Chunk, RunDies, Resume, registryVars
  <2>12. CASE UNCHANGED vars
    BY <2>1, <2>12 DEF vars, registryVars
  <2> HIDE DEF Stays
  <2> QED BY <2>3, <2>4, <2>5, <2>6, <2>7, <2>8, <2>9, <2>10, <2>11, <2>12
          DEF Next, RunNext, TimerNext
<1> QED BY <1>1, AlwaysTyped, PTL DEF Spec, LiveEntryStays

----------------------------------------------------------------------------
(* Refinement. A request is asked on by Pick alone; every other step keeps *)
(* its attempts and the owners they went to, and places nothing.           *)

Open(j) == req[j].pc \in {"pick", "wait"}

Holders(j) ==
    {Owner[m] : m \in {x \in Machines : \E a \in Attempt : Placed(j, a, x)}}

(* Each attempt was another owner's, and a request that picks again has an *)
(* attempt left.                                                           *)
OwnersCounted ==
    \A j \in Jobs :
        /\ IsFiniteSet(Asked(j)) /\ Cardinality(Asked(j)) = req[j].attempt
        /\ req[j].pc = "pick" => Asked(j) = req[j].tried /\ req[j].attempt < Attempts(j)

(* What a step other than Pick does to a request.                          *)
Carries(j) ==
    /\ Asked(j)' = Asked(j)
    /\ req'[j].attempt = req[j].attempt
    /\ req'[j].pc = "pick" => /\ Open(j)
                              /\ Asked(j)' = req'[j].tried
                              /\ req'[j].attempt < Attempts(j)
    /\ req'[j].pc = "wait" => Open(j)

LEMMA SameCarries ==
    ASSUME OwnersCounted, NEW j \in Jobs, req'[j] = req[j]
    PROVE  Carries(j)
BY DEF Carries, OwnersCounted, Asked, Open

LEMMA EndCarries ==
    ASSUME DispatchTypeOK, OwnersCounted, NEW i \in Jobs, NEW pc \in {"stream", "over"},
           req' = [req EXCEPT ![i].pc = pc], NEW j \in Jobs
    PROVE  Carries(j)
<1>1. req \in [Jobs -> Request] /\ req[i] \in Request
  BY DEF DispatchTypeOK
<1> DEFINE q == [req[i] EXCEPT !.pc = pc]
<1>2. q.pc = pc /\ q.attempt = req[i].attempt /\ q.tried = req[i].tried /\ q.target = req[i].target
  BY <1>1 DEF Request
<1>3. req' = [req EXCEPT ![i] = q]
  BY <1>1
<1> HIDE DEF q
<1>4. CASE j = i
  <2>1. req'[j] = q
    BY <1>1, <1>3, <1>4
  <2> QED BY <1>2, <1>4, <2>1 DEF Carries, Asked
<1>5. CASE j # i
  BY <1>3, <1>5, SameCarries, <1>1
<1> QED BY <1>4, <1>5

LEMMA FailoverCarries ==
    ASSUME DispatchTypeOK, OwnersCounted, NEW i \in Jobs, req[i].pc = "wait", Failover(i),
           NEW j \in Jobs
    PROVE  Carries(j)
<1>1. req \in [Jobs -> Request] /\ req[i] \in Request /\ req[i].target \in Machines
  BY DEF DispatchTypeOK
<1>2. None \notin Machines
  BY DispatchAssumption
<1>3. CASE ~(req[i].attempt < Attempts(i))
  <2>1. req' = [req EXCEPT ![i].pc = "over"]
    BY <1>1, <1>3 DEF Failover
  <2> QED BY <2>1, EndCarries
<1>4. CASE req[i].attempt < Attempts(i)
  <2> DEFINE q == [req[i] EXCEPT !.pc = "pick", !.tried = Burnt(i)]
  <2>1. q.pc = "pick" /\ q.attempt = req[i].attempt /\ q.tried = Burnt(i) /\ q.target = req[i].target
    BY <1>1 DEF Request
  <2>2. req' = [req EXCEPT ![i] = q]
    BY <1>1, <1>4 DEF Failover
  <2> HIDE DEF q
  <2>3. CASE j = i
    <3>1. req'[j] = q
      BY <1>1, <2>2, <2>3
    <3>2. /\ Asked(j) = req[j].tried \cup {Owner[req[j].target]}
          /\ Asked(j)' = Burnt(j) \cup {Owner[req[j].target]}
      BY <1>1, <1>2, <2>1, <2>3, <3>1 DEF Asked
    <3>3. Asked(j)' = Asked(j) /\ Burnt(j) = Asked(j)
      BY <3>2 DEF Burnt
    <3> QED BY <1>4, <2>1, <2>3, <3>1, <3>3 DEF Carries, Open
  <2>4. CASE j # i
    BY <1>1, <2>2, <2>4, SameCarries
  <2> QED BY <2>3, <2>4
<1> QED BY <1>3, <1>4

LEMMA OthersCarry ==
    ASSUME Typed, OwnersCounted, Next, \A j \in Jobs : ~Pick(j)
    PROVE  \A j \in Jobs : Carries(j)
<1> USE DEF Typed
<1> SUFFICES ASSUME NEW j \in Jobs PROVE Carries(j)
  OBVIOUS
<1>1. ASSUME NEW i \in Jobs, NobodyLeft(i) \/ Leave(i) \/ StreamEnds(i)
      PROVE  Carries(j)
  BY <1>1, EndCarries DEF NobodyLeft, Leave, StreamEnds
<1>2. ASSUME NEW i \in Jobs, AnswerLost(i)
      PROVE  Carries(j)
  BY <1>2, FailoverCarries DEF AnswerLost
<1>3. ASSUME NEW p \in posts, Refused(p)
      PROVE  Carries(j)
  <2>1. p.job \in Jobs
    BY DEF DispatchTypeOK, Post
  <2> QED BY <1>3, <2>1, FailoverCarries, SameCarries DEF Refused, Awaited
<1>4. ASSUME NEW p \in posts, Dispatch(p)
      PROVE  Carries(j)
  <2>1. p.job \in Jobs
    BY DEF DispatchTypeOK, Post
  <2>2. \/ Refused(p)
        \/ req' = req
        \/ req' = [req EXCEPT ![p.job].pc = "stream"]
    BY <1>4 DEF Dispatch
  <2> QED BY <1>3, <2>1, <2>2, EndCarries, SameCarries
<1>5. CASE UNCHANGED req
  BY <1>5, SameCarries
<1>6. Next => \/ \E i \in Jobs : \/ NobodyLeft(i) \/ Leave(i) \/ StreamEnds(i) \/ AnswerLost(i)
                                \/ Pick(i)
              \/ \E p \in posts : Refused(p) \/ Dispatch(p)
              \/ UNCHANGED req
  BY DEF Next, ConsoleNext, PostNext, Preflight, NoCapacity, PreflightTimesOut, ResponseOver,
         RunNext, Chunk, Complete, RunDies, Resume, TimerNext, IdleTimeout, GraceExpires,
         TombstoneExpires, Register, CloseEvent, dispatchVars
<1> QED BY <1>1, <1>2, <1>3, <1>4, <1>5, <1>6

LEMMA OthersCount ==
    ASSUME OwnersCounted, \A j \in Jobs : Carries(j)
    PROVE  OwnersCounted'
BY DEF OwnersCounted, Carries, Attempts

LEMMA SameCardinality ==
    ASSUME NEW S
    PROVE  Custody!Cardinality(S) = Cardinality(S)
BY DEF Cardinality, Custody!Cardinality

LEMMA PickAsks ==
    ASSUME Typed, OwnersCounted, NEW j \in Jobs, Pick(j)
    PROVE  /\ OwnersCounted'
           /\ \E o \in DIDs : Custody!Ask(j, o)
<1>1. PICK m \in Machines :
              /\ Owner[m] \notin req[j].tried
              /\ req[j].pc = "pick"
              /\ \A i \in Jobs : i # j => req'[i] = req[i]
              /\ req'[j].pc = "wait" /\ req'[j].target = m
              /\ req'[j].attempt = req[j].attempt + 1
              /\ req'[j].tried = req[j].tried
              /\ posts' = posts \cup {[job |-> j, attempt |-> req[j].attempt + 1,
                                       machine |-> m, sock |-> None]}
              /\ UNCHANGED <<registryVars, sess, streams, tomb, runs, heard>>
  BY PickMakes
<1> DEFINE o == Owner[m]
<1>2. None \notin Machines
  BY DispatchAssumption
<1>3. /\ IsFiniteSet(Asked(j)) /\ Cardinality(Asked(j)) = req[j].attempt
      /\ Asked(j) = req[j].tried /\ req[j].attempt < Attempts(j)
  BY <1>1 DEF OwnersCounted
<1>4. Asked(j)' = Asked(j) \cup {o} /\ o \notin Asked(j)
  BY <1>1, <1>2, <1>3 DEF Asked
<1>5. \A i \in Jobs : i # j => Asked(i)' = Asked(i)
  BY <1>1 DEF Asked
<1>6. OwnersCounted'
  <2> SUFFICES ASSUME NEW i \in Jobs
               PROVE  /\ IsFiniteSet(Asked(i)') /\ Cardinality(Asked(i)') = req'[i].attempt
                      /\ req'[i].pc = "pick" => /\ Asked(i)' = req'[i].tried
                                                /\ req'[i].attempt < Attempts(i)
    BY DEF OwnersCounted, Attempts
  <2>1. CASE i = j
    <3>1. IsFiniteSet(Asked(j) \cup {o})
          /\ Cardinality(Asked(j) \cup {o}) = Cardinality(Asked(j)) + 1
      BY <1>3, <1>4, FS_AddElement
    <3> QED BY <1>1, <1>3, <1>4, <2>1, <3>1
  <2>2. CASE i # j
    BY <1>1, <1>5, <2>2 DEF OwnersCounted
  <2> QED BY <2>1, <2>2
<1>7. \A i \in Jobs : Holders(i)' \subseteq IF i = j THEN Holders(j) \cup {o} ELSE Holders(i)
  <2>1. \A i \in Jobs, a \in Attempt, x \in Machines :
           Placed(i, a, x)' => Placed(i, a, x) \/ (i = j /\ x = m)
    BY <1>1 DEF Placed
  <2> QED BY <2>1 DEF Holders
<1>8. {i \in Jobs : req'[i].pc \in {"pick", "wait"}} = {i \in Jobs : req[i].pc \in {"pick", "wait"}}
  BY <1>1
<1>9. [i \in Jobs |-> Asked(i)'] = [[i \in Jobs |-> Asked(i)] EXCEPT ![j] = @ \cup {o}]
  BY <1>4, <1>5
<1>10. o \in DIDs
  BY DEF DIDs
<1>11. Custody!Ask(j, o)
  <2>1. Custody!Cardinality(Asked(j)) < Attempts(j)
    BY <1>3, SameCardinality
  <2>2. Custody!Release(Jobs \ {j})
    BY <1>7 DEF Custody!Release, Holders
  <2> QED BY <1>1, <1>4, <1>7, <1>8, <1>9, <2>1, <2>2 DEF Custody!Ask, Holders
<1> QED BY <1>6, <1>10, <1>11

(* A step moves one request at most.                                       *)
LEMMA OneMoves ==
    ASSUME Typed, Next
    PROVE  \/ UNCHANGED req
           \/ \E i \in Jobs : \A j \in Jobs \ {i} : req'[j] = req[j]
<1>1. \/ UNCHANGED req
      \/ \E i \in Jobs : ConsoleNext(i)
      \/ \E p \in posts : Refused(p) \/ Dispatch(p)
  BY DEF Next, PostNext, Preflight, NoCapacity, PreflightTimesOut, ResponseOver,
         RunNext, Chunk, Complete, RunDies, Resume, TimerNext, IdleTimeout, GraceExpires,
         TombstoneExpires, Register, CloseEvent, dispatchVars
<1>2. req \in [Jobs -> Request]
  BY DEF Typed, DispatchTypeOK
<1>3. ASSUME NEW i \in Jobs, ConsoleNext(i)
      PROVE  \A j \in Jobs \ {i} : req'[j] = req[j]
  BY <1>2, <1>3 DEF ConsoleNext, Pick, NobodyLeft, AnswerLost, Failover, Leave, StreamEnds
<1>4. ASSUME NEW p \in posts, Refused(p) \/ Dispatch(p)
      PROVE  p.job \in Jobs /\ \A j \in Jobs \ {p.job} : req'[j] = req[j]
  <2>1. p.job \in Jobs
    BY DEF Typed, DispatchTypeOK, Post
  <2> QED BY <1>2, <1>4, <2>1 DEF Refused, Failover, Dispatch
<1> QED BY <1>1, <1>3, <1>4

LEMMA OthersHold ==
    ASSUME Typed, OwnersCounted, Next, \A j \in Jobs : ~Pick(j)
    PROVE  OwnersCounted' /\ Custody!Next
<1> DEFINE openReqs == {j \in Jobs : req[j].pc \in {"pick", "wait"}}
<1>1. \A j \in Jobs : Carries(j)
  BY OthersCarry
<1>2. OwnersCounted'
  BY <1>1, OthersCount
<1>3. Custody!Release(Jobs)
  <2>1. Shrinks
    BY DispatchStep
  <2>2. \A j \in Jobs : Holders(j)' \subseteq Holders(j)
    BY <2>1 DEF Shrinks, Holders
  <2> QED BY <2>2 DEF Custody!Release, Holders
<1>4. [j \in Jobs |-> Asked(j)'] = [j \in Jobs |-> Asked(j)]
  BY <1>1 DEF Carries
<1>5. \A j \in Jobs : j \in openReqs' => j \in openReqs
  <2> TAKE j \in Jobs
  <2>1. req'[j].pc \in {"pick", "wait"} => Open(j)
    BY <1>1 DEF Carries
  <2> QED BY <2>1 DEF Open
<1>6. openReqs' = openReqs \/ \E i \in openReqs : openReqs' = openReqs \ {i}
  <2>1. CASE UNCHANGED req
    BY <2>1
  <2>2. ASSUME NEW i \in Jobs, \A j \in Jobs \ {i} : req'[j] = req[j]
        PROVE  openReqs' = openReqs \/ (i \in openReqs /\ openReqs' = openReqs \ {i})
    <3>1. \A j \in Jobs \ {i} : j \in openReqs' <=> j \in openReqs
      BY <2>2
    <3>2. openReqs \subseteq Jobs /\ openReqs' \subseteq Jobs
      OBVIOUS
    <3> HIDE DEF openReqs
    <3> QED BY <1>5, <3>1, <3>2
  <2>3. ASSUME NEW i \in Jobs, \A j \in Jobs \ {i} : req'[j] = req[j]
        PROVE  openReqs' = openReqs \/ \E k \in openReqs : openReqs' = openReqs \ {k}
    BY <2>2, <2>3
  <2> QED BY <2>1, <2>3, OneMoves
<1>7. CASE openReqs' = openReqs
  BY <1>2, <1>3, <1>4, <1>7 DEF Custody!Next, Custody!Work
<1>8. ASSUME NEW i \in openReqs, openReqs' = openReqs \ {i}
      PROVE  Custody!Next
  <2>1. Custody!Settle(i) /\ i \in Jobs
    BY <1>3, <1>4, <1>8 DEF Custody!Settle
  <2> QED BY <2>1 DEF Custody!Next
<1> QED BY <1>2, <1>6, <1>7, <1>8

(* A prompt is handed to one owner after the other, to none twice, to at   *)
(* most MAX_DISPATCH_ATTEMPTS or, pinned, to one, for any machines and     *)
(* owners and whatever earlier attempts are still under way                *)
(* (inference-dispatch.server.ts, excludeDids and maxAttempts).            *)
THEOREM PromptHandedOn == Spec => PromptInCustody
<1>1. Init => OwnersCounted
  <2> SUFFICES ASSUME Init, NEW j \in Jobs
               PROVE  /\ IsFiniteSet(Asked(j)) /\ Cardinality(Asked(j)) = req[j].attempt
                      /\ Asked(j) = req[j].tried /\ req[j].attempt < Attempts(j)
    BY DEF OwnersCounted
  <2>1. Asked(j) = {} /\ req[j].attempt = 0 /\ req[j].tried = {}
    BY DEF Init, Asked
  <2>2. 0 < Attempts(j)
    BY DispatchAssumption DEF Attempts
  <2> QED BY <2>1, <2>2, FS_EmptySet
<1>2. Init => Custody!Init
  <2> SUFFICES ASSUME Init PROVE Custody!Init
    OBVIOUS
  <2>1. \A j \in Jobs : req[j].pc = "pick" /\ Asked(j) = {} /\ Holders(j) = {}
    BY DEF Init, Asked, Holders, Placed
  <2> QED BY <2>1 DEF Custody!Init, Holders
<1>3. Typed /\ OwnersCounted /\ [Next]_vars => OwnersCounted' /\ [Custody!Next]_(Custody!vars)
  <2> SUFFICES ASSUME Typed, OwnersCounted, [Next]_vars
               PROVE  OwnersCounted' /\ (Custody!Next \/ UNCHANGED Custody!vars)
    OBVIOUS
  <2>1. CASE UNCHANGED vars
    <3>1. UNCHANGED <<req, posts, runs, sess>>
      BY <2>1 DEF vars, dispatchVars
    <3>2. OwnersCounted'
      BY <3>1 DEF OwnersCounted, Asked, Attempts
    <3>3. UNCHANGED Custody!vars
      BY <3>1 DEF Custody!vars, Asked, Placed
    <3> QED BY <3>2, <3>3
  <2>2. ASSUME NEW j \in Jobs, Pick(j)
        PROVE  OwnersCounted' /\ Custody!Next
    BY <2>2, PickAsks DEF Custody!Next
  <2>3. CASE Next /\ \A j \in Jobs : ~Pick(j)
    BY <2>3, OthersHold
  <2> QED BY <2>1, <2>2, <2>3
<1> QED BY <1>1, <1>2, <1>3, AlwaysTyped, PTL DEF Spec, PromptInCustody, Custody!Spec
=============================================================================
