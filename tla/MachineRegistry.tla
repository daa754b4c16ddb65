-------------------------- MODULE MachineRegistry --------------------------
(***************************************************************************)
(* The advisor's registry of connected machines (infra/advisor/src/        *)
(* registry.ts) and what keeps its entries true: registrations, the        *)
(* attestation challenges of a socket (connection.ts), the re-prober and   *)
(* the sweeper (main.ts), and the failure ledger, whose lifetime is not    *)
(* that of the entries.                                                    *)
(*                                                                         *)
(* Of an entry the model keeps the socket whose send it holds and the two  *)
(* flags that come and go, attestedAt and unhealthyAt. The owner's switch, *)
(* the crash count and the capability filters are further reasons not to   *)
(* be eligible and behave alike. There is no clock: a timer may fire at    *)
(* any time, and a cooldown is on or off.                                  *)
(***************************************************************************)
EXTENDS Integers, FiniteSets

CONSTANTS
    Machines,     \* (did, machineId) pairs
    None,         \* no entry
    Threshold,    \* FAILURE_COOLDOWN_THRESHOLD (3)
    MaxSockets,   \* bound: connections made, the initial ones included
    MaxFaults,    \* bound: links that break or are recycled, loops that hang
    Watched       \* bound: machines whose challenge interval and re-probes
                  \* come round in the run

VARIABLES
    entry,      \* ProviderRegistry.byKey
    sock,       \* the advisor's end of each WebSocket
    verifying,  \* sockets whose register frame awaits its verification
    challenged, \* sockets whose challenge interval runs
    asked,      \* sockets whose challenge response timer runs
    wedged,     \* machines whose serve loop does not answer
    faults,     \* how many faults there were
    ledger,     \* ProviderRegistry.failureLedger
    credit      \* history: jobs handed to a machine less outcomes recorded of it

registryVars == <<entry, sock, verifying, challenged, asked, wedged, faults, ledger, credit>>

Socket == Machines \X (1 .. MaxSockets)
MachineOf(s) == s[1]
First(m) == <<m, 1>>

(* "hungup" is a socket the advisor has closed as replaced or to recycle   *)
(* it, "dropped" any other that is closing; a "gone" one has had its close *)
(* event.                                                                  *)
SocketState == {"unused", "open", "hungup", "dropped", "gone"}
Entry == [sock : Socket, attested : BOOLEAN, unhealthy : BOOLEAN]
Account == [recent : 0 .. Threshold - 1, cooling : BOOLEAN]

ASSUME RegistryAssumption ==
    /\ Threshold \in Nat \ {0}
    /\ MaxSockets \in Nat \ {0}
    /\ MaxFaults \in Nat
    /\ Watched \subseteq Machines
    /\ None \notin Entry

(* Every machine is connected and attested.                                *)
RegistryInit ==
    /\ entry = [m \in Machines |-> [sock |-> First(m), attested |-> TRUE, unhealthy |-> FALSE]]
    /\ sock = [s \in Socket |-> IF s = First(MachineOf(s)) THEN "open" ELSE "unused"]
    /\ verifying = {}
    /\ challenged = {First(m) : m \in Machines}
    /\ asked = {}
    /\ wedged = {}
    /\ faults = 0
    /\ ledger = [m \in Machines |-> [recent |-> 0, cooling |-> FALSE]]
    /\ credit = [m \in Machines |-> 0]

----------------------------------------------------------------------------
Current(s) == entry[MachineOf(s)] # None /\ entry[MachineOf(s)].sock = s

(* A frame of the machine can arrive: the advisor reads a socket it has    *)
(* closed until the closing handshake is over.                             *)
Delivers(s) == sock[s] \in {"open", "hungup"} /\ MachineOf(s) \notin wedged

(* pickCandidates and the filter of a pinned job. *)
Eligible(m) ==
    /\ entry[m] # None
    /\ entry[m].attested
    /\ ~entry[m].unhealthy
    /\ ~ledger[m].cooling

(* The setters act on whatever entry the key has by now. *)
WithAttested(m, value) ==
    IF entry[m] = None THEN entry ELSE [entry EXCEPT ![m].attested = value]
WithUnhealthy(m, value) ==
    IF entry[m] = None THEN entry ELSE [entry EXCEPT ![m].unhealthy = value]

(* recordFailure: at the threshold the machine cools down and the count    *)
(* starts again.                                                           *)
RecordFailure(m) ==
    /\ ledger' = [ledger EXCEPT ![m] =
                    IF @.recent + 1 >= Threshold
                    THEN [recent |-> 0, cooling |-> TRUE]
                    ELSE [recent |-> @.recent + 1, cooling |-> @.cooling]]
    /\ credit' = [credit EXCEPT ![m] = @ - 1]

----------------------------------------------------------------------------
(* A machine makes its next connection: after a break, a restart or a      *)
(* close by the advisor, which it need not have noticed. Its register      *)
(* frame, the first, awaits verifyServiceAuthToken.                        *)
Connects(m, s) ==
    /\ MachineOf(s) = m
    /\ sock[s] = "unused"
    /\ \A n \in 1 .. s[2] - 1 : sock[<<m, n>>] # "unused"
    /\ m \notin wedged
    /\ Cardinality({x \in Socket : sock[x] # "unused"}) < MaxSockets
    /\ sock' = [sock EXCEPT ![s] = "open"]
    /\ verifying' = verifying \cup {s}
    /\ UNCHANGED <<entry, challenged, asked, wedged, faults, ledger, credit>>

(* The socket of the entry that s replaces is closed. *)
Replaced(s) ==
    [x \in Socket |-> IF Current(x) /\ MachineOf(x) = MachineOf(s) /\ sock[x] = "open"
                      THEN "hungup" ELSE sock[x]]

(* Mutant of Registered: a registration is a clean slate in every respect. *)
RegisteredClean(m, s) ==
    /\ s \in verifying
    /\ MachineOf(s) = m
    /\ verifying' = verifying \ {s}
    /\ entry' = [entry EXCEPT ![m] = [sock |-> s, attested |-> FALSE, unhealthy |-> FALSE]]
    /\ sock' = Replaced(s)
    /\ challenged' = challenged \cup {s}
    /\ asked' = asked \cup {s}
    /\ ledger' = [ledger EXCEPT ![m] = [recent |-> 0, cooling |-> FALSE]]
    /\ UNCHANGED <<wedged, faults, credit>>

(* The verification is over, and nothing asks whether the socket is still  *)
(* there: it may have broken or had its close event, and its machine may   *)
(* have registered another since. upsert: the previous socket is closed as *)
(* replaced, the entry starts unattested and in good standing, the ledger  *)
(* is left alone. The first challenge goes out and the interval starts,    *)
(* which a close event that came before it does not clear.                 *)
Registered(m, s) ==
    /\ s \in verifying
    /\ MachineOf(s) = m
    /\ verifying' = verifying \ {s}
    /\ entry' = [entry EXCEPT ![m] = [sock |-> s, attested |-> FALSE, unhealthy |-> FALSE]]
    /\ sock' = Replaced(s)
    /\ challenged' = challenged \cup {s}
    /\ asked' = asked \cup {s}
    /\ UNCHANGED <<wedged, faults, ledger, credit>>

(* The token does not verify, or the registry is full.                     *)
RegisterRefused(s) ==
    /\ s \in verifying
    /\ verifying' = verifying \ {s}
    /\ sock' = IF sock[s] = "open" THEN [sock EXCEPT ![s] = "dropped"] ELSE sock
    /\ UNCHANGED <<entry, challenged, asked, wedged, faults, ledger, credit>>

Fault == faults < MaxFaults /\ faults' = faults + 1

(* The link breaks, or the machine closes it. *)
Drop(s) ==
    /\ sock[s] = "open"
    /\ Fault
    /\ sock' = [sock EXCEPT ![s] = "dropped"]
    /\ UNCHANGED <<entry, asked, challenged, verifying, wedged, ledger, credit>>

(* attemptRecycle: a socket at its age limit is closed when idle, or when  *)
(* its drain window is over.                                               *)
Recycle(s) ==
    /\ sock[s] = "open"
    /\ Fault
    /\ sock' = [sock EXCEPT ![s] = "hungup"]
    /\ UNCHANGED <<entry, asked, challenged, verifying, wedged, ledger, credit>>

(* Mutants of CloseHandled: the entry stays; it goes by its key. *)
CloseKeepsEntry(s) ==
    /\ sock[s] \in {"hungup", "dropped"}
    /\ sock' = [sock EXCEPT ![s] = "gone"]
    /\ challenged' = challenged \ {s}
    /\ asked' = asked \ {s}
    /\ UNCHANGED <<entry, verifying, wedged, faults>>

CloseRemovesKey(s) ==
    /\ sock[s] \in {"hungup", "dropped"}
    /\ sock' = [sock EXCEPT ![s] = "gone"]
    /\ challenged' = challenged \ {s}
    /\ asked' = asked \ {s}
    /\ entry' = [entry EXCEPT ![MachineOf(s)] = None]
    /\ UNCHANGED <<verifying, wedged, faults>>

(* The close event. Only the socket that is registered removes the entry.  *)
CloseHandled(s) ==
    /\ sock[s] \in {"hungup", "dropped"}
    /\ sock' = [sock EXCEPT ![s] = "gone"]
    /\ challenged' = challenged \ {s}
    /\ asked' = asked \ {s}
    /\ entry' = IF Current(s) THEN [entry EXCEPT ![MachineOf(s)] = None] ELSE entry
    /\ UNCHANGED <<verifying, wedged, faults>>

----------------------------------------------------------------------------
(* The challenge interval of a socket that has registered.                 *)
Rechallenge(s) ==
    /\ MachineOf(s) \in Watched
    /\ s \in challenged
    /\ s \notin asked
    /\ asked' = asked \cup {s}
    /\ UNCHANGED <<entry, sock, challenged, verifying, wedged, faults, ledger, credit>>

(* attestation_response: the entry that the key has by now is marked. The  *)
(* verification is awaited before that, which only makes the answer late,  *)
(* as an answer on a socket that has been replaced is. Without an entry    *)
(* the answer is dropped and the timer runs on.                            *)
Answered(s) ==
    /\ s \in asked
    /\ Delivers(s)
    /\ entry[MachineOf(s)] # None
    /\ asked' = asked \ {s}
    /\ entry' = WithAttested(MachineOf(s), TRUE)
    /\ UNCHANGED <<sock, challenged, verifying, wedged, faults, ledger, credit>>

(* closeForUnanswered, of a machine that hangs or whose answer is lost.    *)
Unanswered(s) ==
    /\ s \in asked
    /\ MachineOf(s) \in wedged \/ sock[s] # "open"
    /\ asked' = asked \ {s}
    /\ entry' = WithAttested(MachineOf(s), FALSE)
    /\ sock' = IF sock[s] = "open" THEN [sock EXCEPT ![s] = "dropped"] ELSE sock
    /\ UNCHANGED <<challenged, verifying, wedged, faults, ledger, credit>>

(* sweep: no heartbeat for the time-out. The entry goes at once.           *)
Sweep(m) ==
    /\ entry[m] # None
    /\ m \in wedged \/ sock[entry[m].sock] # "open"
    /\ entry' = [entry EXCEPT ![m] = None]
    /\ sock' = IF sock[entry[m].sock] = "open"
               THEN [sock EXCEPT ![entry[m].sock] = "hungup"] ELSE sock
    /\ UNCHANGED <<asked, challenged, verifying, wedged, faults, ledger, credit>>

----------------------------------------------------------------------------
(* Mutant of Reprobed: the answer is read and nothing follows. *)
ReprobeIgnored(m) ==
    /\ m \in Watched
    /\ entry[m] # None
    /\ entry[m].unhealthy
    /\ Delivers(entry[m].sock)
    /\ UNCHANGED registryVars

(* The re-prober pings what is in bad standing, and it answers. *)
Reprobed(m) ==
    /\ m \in Watched
    /\ entry[m] # None
    /\ entry[m].unhealthy
    /\ Delivers(entry[m].sock)
    /\ entry' = WithUnhealthy(m, FALSE)
    /\ UNCHANGED <<sock, asked, challenged, verifying, wedged, faults, ledger, credit>>

(* recover_result: the machine says it has righted itself. *)
Recovered(s) ==
    /\ s \in challenged
    /\ Delivers(s)
    /\ entry[MachineOf(s)] # None
    /\ entry[MachineOf(s)].unhealthy
    /\ entry' = WithUnhealthy(MachineOf(s), FALSE)
    /\ UNCHANGED <<sock, asked, challenged, verifying, wedged, faults, ledger, credit>>

(* Time: failures no longer cluster, a cooldown is over. *)
FailuresDecay(m) ==
    /\ ledger[m].recent > 0
    /\ ledger' = [ledger EXCEPT ![m].recent = 0]
    /\ UNCHANGED <<entry, sock, asked, challenged, verifying, wedged, faults, credit>>

CooldownElapses(m) ==
    /\ ledger[m].cooling
    /\ ledger' = [ledger EXCEPT ![m].cooling = FALSE]
    /\ UNCHANGED <<entry, sock, asked, challenged, verifying, wedged, faults, credit>>

(* The machine's serve loop. *)
Wedge(m) ==
    /\ m \notin wedged
    /\ Fault
    /\ wedged' = wedged \cup {m}
    /\ UNCHANGED <<entry, sock, asked, challenged, verifying, ledger, credit>>

Unwedge(m) ==
    /\ m \in wedged
    /\ wedged' = wedged \ {m}
    /\ UNCHANGED <<entry, sock, asked, challenged, verifying, faults, ledger, credit>>

(* The steps that touch no session. *)
RegistryStep ==
    \/ \E m \in Machines, s \in Socket : Connects(m, s)
    \/ \E s \in Socket : \/ RegisterRefused(s) \/ Drop(s) \/ Recycle(s) \/ Rechallenge(s)
                         \/ Answered(s) \/ Unanswered(s) \/ Recovered(s)
    \/ \E m \in Machines : \/ Sweep(m) \/ Reprobed(m) \/ FailuresDecay(m)
                           \/ CooldownElapses(m) \/ Wedge(m) \/ Unwedge(m)

RegistryTypeOK ==
    /\ entry \in [Machines -> Entry \cup {None}]
    /\ \A m \in Machines :
          entry[m] # None => MachineOf(entry[m].sock) = m /\ entry[m].sock \in challenged
    /\ sock \in [Socket -> SocketState]
    /\ verifying \subseteq Socket
    /\ challenged \subseteq Socket
    /\ asked \subseteq challenged
    /\ \A s \in verifying \cup challenged : sock[s] # "unused"
    /\ wedged \subseteq Machines
    /\ faults \in 0 .. MaxFaults
    /\ ledger \in [Machines -> Account]
    /\ credit \in [Machines -> Int]
=============================================================================
