---------------------------- MODULE JobDispatch ----------------------------
(***************************************************************************)
(* A request on its way to a machine: the console picks one, seals the     *)
(* prompt to it and posts the job (packages/console/src/lib/inference-     *)
(* dispatch.server.ts); the advisor checks it, pings it, opens a session   *)
(* and forwards the job (jobs.ts, sessions.ts); a refused post is tried    *)
(* again with another owner's machine, under the same session id.          *)
(*                                                                         *)
(* An attempt is a number. A run is a machine working on the job it was    *)
(* sealed in one attempt; a legacy run speaks on the socket it was started *)
(* on only, a resumable one on whichever its machine has. What a stream    *)
(* carries, and what of it is replayed, is StreamSession's subject.        *)
(***************************************************************************)
EXTENDS MachineRegistry

CONSTANTS
    Jobs,
    Pinned,       \* the jobs with a targetProviderDid
    Owner,        \* Owner[m]: the DID of a machine
    Resumable,    \* the machines with streamResumeVersion 1
    Capacity,     \* modelCapacity
    MaxAttempts   \* MAX_DISPATCH_ATTEMPTS (3)

VARIABLES
    req,      \* req[j]: the console's request
    posts,    \* POST /jobs handlers in the advisor; sock is the ping they await
    sess,     \* SessionManager.bySessionId
    streams,  \* responses of the advisor whose finalizer has not run
    tomb,     \* SessionManager.completed
    runs,     \* machines working on a job
    heard     \* history: [stream, run], the attempts of a chunk's stream and run

dispatchVars == <<req, posts, sess, streams, tomb, runs, heard>>
vars == <<registryVars, dispatchVars>>

Attempt == 1 .. MaxAttempts
DIDs == {Owner[m] : m \in Machines}
Request == [pc : {"pick", "wait", "stream", "over"}, attempt : 0 .. MaxAttempts,
            tried : SUBSET DIDs, target : Machines \cup {None}]
Post == [job : Jobs, attempt : Attempt, machine : Machines, sock : Socket \cup {None}]
Session == [machine : Machines, attempt : Attempt, streamed : BOOLEAN, detached : BOOLEAN]
Stream == [job : Jobs, attempt : Attempt]
Run == [job : Jobs, attempt : Attempt, sock : Socket]

ASSUME DispatchAssumption ==
    /\ IsFiniteSet(Jobs)
    /\ Pinned \subseteq Jobs
    /\ Resumable \subseteq Machines
    /\ MaxAttempts \in Nat \ {0}
    /\ Capacity \in Nat \ {0}
    /\ None \notin Session \cup Socket \cup Machines

Init ==
    /\ RegistryInit
    /\ req = [j \in Jobs |-> [pc |-> "pick", attempt |-> 0, tried |-> {}, target |-> None]]
    /\ posts = {}
    /\ sess = [j \in Jobs |-> None]
    /\ streams = {}
    /\ tomb = {}
    /\ runs = {}
    /\ heard = [j \in Jobs |-> {}]

----------------------------------------------------------------------------
(* The console. *)
Attempts(j) == IF j \in Pinned THEN 1 ELSE MaxAttempts

(* Mutant of Burnt: the machine that refused may be picked again. *)
NotBurnt(j) == req[j].tried

Burnt(j) == req[j].tried \cup {Owner[req[j].target]}

(* pickProvider: any attested machine, whatever its standing, of an owner  *)
(* no attempt has burnt.                                                   *)
Candidates(j) ==
    {m \in Machines : /\ entry[m] # None
                      /\ entry[m].attested
                      /\ Owner[m] \notin req[j].tried}

Pick(j) ==
    /\ req[j].pc = "pick"
    /\ \E m \in Candidates(j) :
          /\ req' = [req EXCEPT ![j].pc = "wait", ![j].attempt = @ + 1, ![j].target = m]
          /\ posts' = posts \cup {[job |-> j, attempt |-> req[j].attempt + 1,
                                   machine |-> m, sock |-> None]}
    /\ UNCHANGED <<registryVars, sess, streams, tomb, runs, heard>>

NobodyLeft(j) ==
    /\ req[j].pc = "pick"
    /\ Candidates(j) = {}
    /\ req' = [req EXCEPT ![j].pc = "over"]
    /\ UNCHANGED <<registryVars, posts, sess, streams, tomb, runs, heard>>

(* A post was refused: a pinned request ends, another tries again.         *)
Failover(j) ==
    req' = [req EXCEPT ![j] =
              IF @.attempt < Attempts(j)
              THEN [@ EXCEPT !.pc = "pick", !.tried = Burnt(j)]
              ELSE [@ EXCEPT !.pc = "over"]]

(* The edge between console and advisor answers for it; the handler of the *)
(* post goes on.                                                           *)
AnswerLost(j) ==
    /\ req[j].pc = "wait"
    /\ Failover(j)
    /\ UNCHANGED <<registryVars, posts, sess, streams, tomb, runs, heard>>

(* The requester leaves, or the connection to the advisor fails.           *)
Leave(j) ==
    /\ req[j].pc \in {"wait", "stream"}
    /\ req' = [req EXCEPT ![j].pc = "over"]
    /\ UNCHANGED <<registryVars, posts, sess, streams, tomb, runs, heard>>

(* The response ends with its session: complete, or an error event. *)
StreamEnds(j) ==
    /\ req[j].pc = "stream"
    /\ sess[j] # None => sess[j].attempt # req[j].attempt
    /\ req' = [req EXCEPT ![j].pc = "over"]
    /\ UNCHANGED <<registryVars, posts, sess, streams, tomb, runs, heard>>

----------------------------------------------------------------------------
(* The advisor: POST /jobs. *)
Inflight(m) == Cardinality({j \in Jobs : sess[j] # None /\ sess[j].machine = m})
Awaited(p) == req[p.job].pc = "wait" /\ req[p.job].attempt = p.attempt

Refused(p) ==
    /\ posts' = posts \ {p}
    /\ IF Awaited(p) THEN Failover(p.job) ELSE UNCHANGED req
    /\ UNCHANGED <<sess, streams, tomb, runs, heard>>

(* selectProvider up to the await of the ping. The machine is pinned, so   *)
(* it is the only candidate.                                               *)
Preflight(p) ==
    /\ p.sock = None
    /\ Eligible(p.machine) /\ Inflight(p.machine) < Capacity
    /\ posts' = (posts \ {p}) \cup {[p EXCEPT !.sock = entry[p.machine].sock]}
    /\ UNCHANGED <<registryVars, req, sess, streams, tomb, runs, heard>>

NoCapacity(p) ==
    /\ p.sock = None
    /\ ~(Eligible(p.machine) /\ Inflight(p.machine) < Capacity)
    /\ Refused(p)
    /\ UNCHANGED registryVars

(* No pong in time: the entry the key has by now is marked. *)
PreflightTimesOut(p) ==
    /\ p.sock # None
    /\ entry' = WithUnhealthy(p.machine, TRUE)
    /\ Refused(p)
    /\ UNCHANGED <<sock, asked, challenged, verifying, wedged, faults, ledger, credit>>

(* The pong, and everything up to the answer in one step: a session id     *)
(* that is known is refused (409); otherwise the session is opened and the *)
(* job sent on the socket that was pinged, where it is lost if that socket *)
(* is closing by now.                                                      *)
Dispatch(p) ==
    /\ p.sock # None
    /\ Delivers(p.sock)
    /\ entry' = WithUnhealthy(p.machine, FALSE)
    /\ UNCHANGED <<sock, asked, challenged, verifying, wedged, faults, ledger>>
    /\ IF sess[p.job] # None \/ p.job \in tomb
       THEN Refused(p) /\ UNCHANGED credit
       ELSE /\ posts' = posts \ {p}
            /\ sess' = [sess EXCEPT ![p.job] = [machine |-> p.machine, attempt |-> p.attempt,
                                                streamed |-> FALSE, detached |-> FALSE]]
            /\ streams' = streams \cup {[job |-> p.job, attempt |-> p.attempt]}
            /\ runs' = IF sock[p.sock] = "open"
                       THEN runs \cup {[job |-> p.job, attempt |-> p.attempt, sock |-> p.sock]}
                       ELSE runs
            /\ credit' = [credit EXCEPT ![p.machine] = @ + 1]
            /\ req' = IF Awaited(p) THEN [req EXCEPT ![p.job].pc = "stream"] ELSE req
            /\ UNCHANGED <<tomb, heard>>

(* The finalizer of a response: its client is gone, or it has ended. It    *)
(* closes whatever session the id has by then.                             *)
ResponseOver(st) ==
    /\ st \in streams
    /\ streams' = streams \ {st}
    /\ sess' = [sess EXCEPT ![st.job] = None]
    /\ UNCHANGED <<registryVars, req, posts, tomb, runs, heard>>

----------------------------------------------------------------------------
(* The machine's frames, behind ownsCurrentRegistration and ownedBy. They  *)
(* ask nothing of the socket, which may be closing or gone: a frame may    *)
(* have been sent, or wait in the dispatch chain, since before.            *)
Speaks(r) ==
    LET m == MachineOf(r.sock) IN
    /\ entry[m] # None
    /\ entry[m].sock = r.sock \/ m \in Resumable

OwnedBy(r) == sess[r.job] # None /\ sess[r.job].machine = MachineOf(r.sock)

Chunk(r) ==
    /\ Speaks(r) /\ OwnedBy(r)
    /\ ~sess[r.job].detached
    /\ sess' = [sess EXCEPT ![r.job].streamed = TRUE]
    /\ heard' = [heard EXCEPT ![r.job] =
                   @ \cup {[stream |-> sess[r.job].attempt, run |-> r.attempt]}]
    /\ UNCHANGED <<registryVars, req, posts, streams, tomb, runs>>

(* inference_complete: without output it is a failure of the machine, with *)
(* output it restores the machine's standing.                              *)
Complete(r) ==
    /\ Speaks(r) /\ OwnedBy(r)
    /\ sess' = [sess EXCEPT ![r.job] = None]
    /\ runs' = runs \ {r}
    /\ tomb' = IF MachineOf(r.sock) \in Resumable THEN tomb \cup {r.job} ELSE tomb
    /\ \/ /\ ~sess[r.job].streamed
          /\ RecordFailure(MachineOf(r.sock))
          /\ UNCHANGED entry
       \/ /\ entry' = WithUnhealthy(MachineOf(r.sock), FALSE)
          /\ credit' = [credit EXCEPT ![MachineOf(r.sock)] = @ - 1]
          /\ UNCHANGED ledger
    /\ UNCHANGED <<sock, asked, challenged, verifying, wedged, faults,
                   req, posts, streams, heard>>

(* A run ends unheard: a refusal, a crash, a frame the advisor drops. *)
RunDies(r) ==
    /\ runs' = runs \ {r}
    /\ UNCHANGED <<registryVars, req, posts, sess, streams, tomb, heard>>

(* inference_resume *)
Resume(r) ==
    /\ Speaks(r) /\ OwnedBy(r)
    /\ MachineOf(r.sock) \in Resumable
    /\ sess[r.job].attempt = r.attempt
    /\ sess[r.job].detached
    /\ sess' = [sess EXCEPT ![r.job].detached = FALSE]
    /\ UNCHANGED <<registryVars, req, posts, streams, tomb, runs, heard>>

----------------------------------------------------------------------------
(* The timers of a session. *)
(* Mutant of IdleTimeout: no timer before the first chunk. *)
IdleTimeoutOnceStreaming(j) ==
    /\ sess[j] # None /\ ~sess[j].detached /\ sess[j].streamed
    /\ sess' = [sess EXCEPT ![j] = None]
    /\ RecordFailure(sess[j].machine)
    /\ UNCHANGED <<entry, sock, asked, challenged, verifying, wedged, faults,
                   req, posts, streams, tomb, runs, heard>>

(* armIdle and onIdleTimeout: the machine is blamed, and one that never    *)
(* sent a chunk is in bad standing too.                                    *)
IdleTimeout(j) ==
    /\ sess[j] # None /\ ~sess[j].detached
    /\ sess' = [sess EXCEPT ![j] = None]
    /\ RecordFailure(sess[j].machine)
    /\ entry' = IF sess[j].streamed THEN entry ELSE WithUnhealthy(sess[j].machine, TRUE)
    /\ UNCHANGED <<sock, asked, challenged, verifying, wedged, faults,
                   req, posts, streams, tomb, runs, heard>>

(* The reconnect grace of a detached session, resumeExpiredHandler. *)
GraceExpires(j) ==
    /\ sess[j] # None /\ sess[j].detached
    /\ sess' = [sess EXCEPT ![j] = None]
    /\ RecordFailure(sess[j].machine)
    /\ UNCHANGED <<entry, sock, asked, challenged, verifying, wedged, faults,
                   req, posts, streams, tomb, runs, heard>>

TombstoneExpires(j) ==
    /\ j \in tomb
    /\ tomb' = tomb \ {j}
    /\ UNCHANGED <<registryVars, req, posts, sess, streams, runs, heard>>

----------------------------------------------------------------------------
(* detachForMachine: resumable sessions wait for their machine, legacy     *)
(* ones are closed.                                                        *)
On(m) == {j \in Jobs : sess[j] # None /\ sess[j].machine = m}

DetachForMachine(m) ==
    sess' = [j \in Jobs |-> IF j \notin On(m) THEN sess[j]
                            ELSE IF m \in Resumable THEN [sess[j] EXCEPT !.detached = TRUE]
                            ELSE None]

(* The sessions of an entry that is replaced are detached before it is. *)
Register(m, s) ==
    /\ Registered(m, s)
    /\ IF entry[m] # None THEN DetachForMachine(m) ELSE UNCHANGED sess
    /\ UNCHANGED <<req, posts, streams, tomb, runs, heard>>

(* Mutant of Blamed: jobs that wait for a resume count. *)
BlamedDetached(s) == Current(s) /\ sock[s] = "dropped" /\ On(MachineOf(s)) # {}

(* A drop in the middle of legacy jobs is a failure, one however many they *)
(* were; the advisor's own closing of the socket is not.                   *)
Blamed(s) ==
    /\ Current(s)
    /\ sock[s] = "dropped"
    /\ MachineOf(s) \notin Resumable
    /\ On(MachineOf(s)) # {}

CloseEvent(s) ==
    /\ CloseHandled(s)
    /\ IF Current(s) THEN DetachForMachine(MachineOf(s)) ELSE UNCHANGED sess
    /\ IF Blamed(s) THEN RecordFailure(MachineOf(s)) ELSE UNCHANGED <<ledger, credit>>
    /\ UNCHANGED <<req, posts, streams, tomb, runs, heard>>

----------------------------------------------------------------------------
ConsoleNext(j) ==
    Pick(j) \/ NobodyLeft(j) \/ AnswerLost(j) \/ Leave(j) \/ StreamEnds(j)

PostNext(p) == Preflight(p) \/ NoCapacity(p) \/ PreflightTimesOut(p) \/ Dispatch(p)

RunNext(r) == Chunk(r) \/ Complete(r) \/ RunDies(r) \/ Resume(r)

TimerNext(j) == IdleTimeout(j) \/ GraceExpires(j) \/ TombstoneExpires(j)

Next ==
    \/ \E j \in Jobs : ConsoleNext(j) \/ TimerNext(j)
    \/ \E p \in posts : PostNext(p)
    \/ \E st \in streams : ResponseOver(st)
    \/ \E r \in runs : RunNext(r)
    \/ \E m \in Machines, s \in Socket : Register(m, s)
    \/ \E s \in Socket : CloseEvent(s)
    \/ RegistryStep /\ UNCHANGED dispatchVars

Spec == Init /\ [][Next]_vars

Alone(A) == A /\ UNCHANGED dispatchVars

(* What a request needs: the console picks and reads, handlers run on,     *)
(* timers that stay armed fire. Nothing makes a machine answer, finish or  *)
(* reconnect, nor a close event come.                                      *)
RequestFairness ==
    /\ \A j \in Jobs :
          /\ WF_vars(Pick(j) \/ NobodyLeft(j))
          /\ WF_vars(StreamEnds(j))
          /\ WF_vars(IdleTimeout(j))
          /\ WF_vars(GraceExpires(j))
    /\ \A j \in Jobs, a \in Attempt :
          WF_vars(\E p \in posts : p.job = j /\ p.attempt = a /\ PostNext(p))

(* What a machine's standing needs: the intervals of the challenge, the    *)
(* re-prober and the sweeper come round, a cooldown elapses, and the       *)
(* machine whose loop runs answers challenges and pings.                   *)
StandingFairness ==
    /\ \A s \in Socket :
          /\ WF_vars(Alone(Rechallenge(s)))
          /\ WF_vars(Alone(Answered(s)))
    /\ \A m \in Machines :
          /\ WF_vars(Alone(Sweep(m)))
          /\ WF_vars(Alone(Reprobed(m)))
          /\ WF_vars(Alone(CooldownElapses(m)))

RequestSpec == Spec /\ RequestFairness
StandingSpec == Spec /\ StandingFairness

----------------------------------------------------------------------------
(* Every variable stays in its range, the registered socket of a machine   *)
(* is its own and under challenge, though it may be gone, and no response  *)
(* timer runs without the interval that armed it: a close event that finds *)
(* its entry takes both (connection.ts:506-531, 835-886).                  *)
TypeOK ==
    /\ RegistryTypeOK
    /\ req \in [Jobs -> Request]
    /\ \A j \in Jobs : req[j].pc = "wait" => req[j].target \in Machines
    /\ posts \subseteq Post
    /\ \A p \in posts : p.sock # None => MachineOf(p.sock) = p.machine
    /\ sess \in [Jobs -> Session \cup {None}]
    /\ streams \subseteq Stream
    /\ tomb \subseteq Jobs
    /\ runs \subseteq Run
    /\ heard \in [Jobs -> SUBSET [stream : Attempt, run : Attempt]]

(* An attempt of a job is placed on a machine by a post on its way to it,  *)
(* by a run and by a session.                                              *)
Placed(j, a, m) ==
    \/ \E p \in posts : p.job = j /\ p.attempt = a /\ p.machine = m
    \/ \E r \in runs : r.job = j /\ r.attempt = a /\ MachineOf(r.sock) = m
    \/ sess[j] # None /\ sess[j].attempt = a /\ sess[j].machine = m

(* The owners a job was posted to, the one it waits for included.          *)
Asked(j) == req[j].tried \cup {Owner[m] : m \in {req[j].target} \ {None}}

Custody == INSTANCE PromptCustody WITH
    Requests <- Jobs,
    Owners   <- DIDs,
    Limit    <- [j \in Jobs |-> Attempts(j)],
    open     <- {j \in Jobs : req[j].pc \in {"pick", "wait"}},
    asked    <- [j \in Jobs |-> Asked(j)],
    holders  <- [j \in Jobs |->
                   {Owner[m] : m \in {x \in Machines : \E a \in Attempt : Placed(j, a, x)}}]

(* A prompt goes to one owner's machine at a time, to no owner twice, to   *)
(* at most MAX_DISPATCH_ATTEMPTS of them or, pinned, to one, and to none   *)
(* once its response has begun or it has failed, whatever answers are lost *)
(* and whatever handlers and runs of earlier attempts are still under way  *)
(* (inference-dispatch.server.ts, excludeDids and maxAttempts).            *)
PromptInCustody == Custody!Spec

(* Every chunk a response carries was produced for the attempt that opened *)
(* it, the only one whose key the console holds (ownedBy, sessions.ts:204- *)
(* 214, and excludeDids): an attempt that was given up and runs on never   *)
(* speaks into the stream of a later one under the same session id.        *)
OutputOfAttempt ==
    \A j \in Jobs : \A h \in heard[j] : h.stream = h.run

(* A machine is blamed or credited at most once for a job handed to it:    *)
(* the idle timer, the grace timer, the close event, an empty completion   *)
(* and a full one exclude one another, and the jobs open on a machine are  *)
(* the ones it may still be blamed for (registry.ts:769-779,               *)
(* connection.ts:848-878).                                                 *)
BlamedOnce ==
    \A m \in Machines : Inflight(m) <= credit[m]

(* A machine cannot drop and reconnect to shed a cooldown: only time ends  *)
(* one (registry.ts:778-779, 243-247).                                     *)
CooldownStands ==
    [][\A m \in Machines : ledger[m].cooling /\ ~ledger'[m].cooling
          => UNCHANGED <<entry, sock, sess, req>>]_vars

(* The close event of a socket that was replaced, however late, does not   *)
(* evict the machine's new one (connection.ts:841-847): an entry goes only *)
(* when its own socket is closing or its machine has fallen silent. It may *)
(* be overwritten, by a registration whose connection broke before it.     *)
LiveEntryStays ==
    [][\A m \in Machines : entry[m] # None /\ entry'[m] = None
          => sock[entry[m].sock] # "open" \/ m \in wedged]_vars

(* A machine that rights itself is not stranded (registry.ts:215-223,      *)
(* main.ts:702-708): while it stays connected and its serve loop runs, it  *)
(* is eligible again, whatever standing, attestation or cooldown it lost,  *)
(* and whichever socket of its own lost it; the entry of a connection that *)
(* was gone before it registered is swept, and the interval it left behind *)
(* does not keep a later one unattested.                                   *)
Rejoins ==
    \A m \in Watched : []<>(entry[m] = None \/ m \in wedged \/ Eligible(m))

(* Every request ends, whatever interleaving of attempts, lost answers and *)
(* the advisor's handlers it meets, if its machine falls silent or its     *)
(* engine ends: a chunk or a keepalive re-arms the idle timer              *)
(* (sessions.ts:394, 512-516), so a machine that streams for ever is left  *)
(* out by the fairness of IdleTimeout.                                     *)
EveryRequestEnds ==
    \A j \in Jobs : <>(req[j].pc = "over")
=============================================================================
