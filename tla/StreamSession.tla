---------------------------- MODULE StreamSession ----------------------------
(* One dispatched job and the stream of its output: the advisor's session   *)
(* (sessions.ts), the sockets of the machine it was dispatched to           *)
(* (connection.ts) and the provider's replay buffer (advisor.rs).           *)
(*                                                                          *)
(* A connection outlives neither of its two ends at once: the provider may  *)
(* be on its next socket while the advisor still reads frames of the last,  *)
(* and the advisor may hear of a close late, or before the frames in front  *)
(* of it are handled. The content of a chunk is its sequence number; the    *)
(* resume token is the session itself, of which there is one.               *)
EXTENDS Naturals, Sequences

CONSTANTS
  Conns,            \* names of sockets; a finished one is used again
  NoConn,
  MaxChunks,        \* bound on what the engine makes
  ReplayMaxFrames,  \* REPLAY_MAX_FRAMES (512)
  MaxDrops          \* bound on the connections that break

ASSUME StreamAssumption == /\ NoConn \notin Conns
                           /\ {MaxChunks, ReplayMaxFrames, MaxDrops} \subseteq Nat

VARIABLES
  session,   \* SessionManager's entry and tombstone
  heard,     \* what the requester's response was written
  registry,  \* the socket whose `send` the registry holds for the machine
  sock,      \* the advisor's end of each socket
  up, down,  \* frames to the advisor, frames to the provider
  link,      \* the socket the provider serves on
  job,       \* the provider's BufferedInvocation
  drops

vars == <<session, heard, registry, sock, up, down, link, job, drops>>

Frames ==
  [t : {"register", "request"}] \cup [t : {"resume", "chunk"}, seq : Nat]
    \cup [t : {"complete"}, seq : Nat, ok : BOOLEAN]
    \cup [t : {"ack"}, next : Nat, completed : BOOLEAN]
    \cup [t : {"result"}, next : Nat, status : {"resume", "completed", "rejected"}]

TypeOK ==
  /\ session \in [status : {"none", "live", "done", "gone"}, resumable : BOOLEAN,
                  next : Nat, detached : BOOLEAN, timers : SUBSET {"idle", "grace"}]
  /\ heard \in [chunks : Seq(Nat), end : {"none", "served", "failed", "error", "left"}]
  /\ registry \in Conns \cup {NoConn} /\ link \in Conns \cup {NoConn}
  /\ sock \in [Conns -> {"open", "closing", "closed"}]
  /\ up \in [Conns -> Seq(Frames)] /\ down \in [Conns -> Seq(Frames)]
  /\ job \in [held : BOOLEAN, attached : BOOLEAN, produced : Nat, acked : Nat, sent : Nat,
              told : BOOLEAN, outcome : {"running", "served", "failed", "dropped"}]
  /\ drops \in 0..MaxDrops

Init ==
  /\ session = [status |-> "none", resumable |-> FALSE, next |-> 0, detached |-> FALSE,
                timers |-> {}]
  /\ heard = [chunks |-> <<>>, end |-> "none"]
  /\ registry = NoConn /\ link = NoConn
  /\ sock = [c \in Conns |-> "closed"]
  /\ up = [c \in Conns |-> <<>>] /\ down = [c \in Conns |-> <<>>]
  /\ job = [held |-> FALSE, attached |-> FALSE, produced |-> 0, acked |-> 0, sent |-> 0,
            told |-> FALSE, outcome |-> "running"]
  /\ drops = 0

-----------------------------------------------------------------------------
(* Operations of the session                                               *)

Live == session.status = "live"

Close(why) == /\ session' = [session EXCEPT !.status = "gone", !.timers = {}]
              /\ heard' = [heard EXCEPT !.end = why]

(* A session already in grace keeps its timer; a legacy one fails at once. *)
DetachForMachine ==
  CASE ~Live \/ session.detached -> UNCHANGED <<session, heard>>
    [] Live /\ ~session.detached /\ session.resumable ->
         /\ session' = [session EXCEPT !.detached = TRUE, !.timers = {"grace"}]
         /\ UNCHANGED heard
    [] OTHER -> Close("error")

(* Mutants: the grace timer is not cleared; no timer is armed.             *)
ReattachedOnGrace == [session EXCEPT !.detached = FALSE, !.timers = @ \cup {"idle"}]
ReattachedUntimed == [session EXCEPT !.detached = FALSE, !.timers = {}]

Reattached == [session EXCEPT !.detached = FALSE, !.timers = {"idle"}]
Accepts(seq) == ~session.resumable \/ (seq = session.next /\ ~session.detached)
CompletesAt(final) == ~session.resumable \/ final = session.next

(* A write to a socket that is not open, or no longer read, goes nowhere.  *)
Reply(c, frame) ==
  down' = IF sock[c] = "open" /\ link = c THEN [down EXCEPT ![c] = Append(@, frame)] ELSE down

(* Mutant: the last accepted sequence is acknowledged, not the next.       *)
AckLast(c, next, completed) ==
  IF session.resumable
  THEN Reply(c, [t |-> "ack", next |-> next - 1, completed |-> completed])
  ELSE UNCHANGED down

Ack(c, next, completed) ==
  IF session.resumable
  THEN Reply(c, [t |-> "ack", next |-> next, completed |-> completed])
  ELSE UNCHANGED down

Closing(c) == [sock EXCEPT ![c] = IF @ = "open" THEN "closing" ELSE @]

(* Every break of a working connection is counted.                         *)
Break(c) == IF c = link /\ sock[c] = "open"
            THEN drops < MaxDrops /\ drops' = drops + 1
            ELSE UNCHANGED drops

-----------------------------------------------------------------------------
(* The advisor's side of a socket                                          *)

Take(c, type) == /\ up[c] # <<>>
                 /\ Head(up[c]).t = type
                 /\ up' = [up EXCEPT ![c] = Tail(@)]

(* Mutant: any registered socket of the machine speaks for it.             *)
OwnsMachine(c) == registry # NoConn

(* Only the socket the registry holds may speak for the machine.           *)
OwnsRegistration(c) == registry = c

(* The frame waits at the head of the queue while its token is verified;   *)
(* the registration that follows does not look at the socket again.        *)
OnRegister(c) ==
  /\ Take(c, "register")
  /\ IF registry \in {NoConn, c} THEN UNCHANGED <<session, heard>> ELSE DetachForMachine
  /\ sock' = IF registry \in {NoConn, c} THEN sock ELSE Closing(registry)
  /\ IF registry \in {NoConn, c} THEN UNCHANGED drops ELSE Break(registry)
  /\ registry' = c
  /\ UNCHANGED <<down, link, job>>

(* The token does not verify, or the registry is full.                     *)
RefuseRegister(c) ==
  /\ Take(c, "register")
  /\ sock' = Closing(c)
  /\ Break(c)
  /\ UNCHANGED <<session, heard, registry, down, link, job>>

OnResume(c) ==
  /\ Take(c, "resume")
  /\ OwnsRegistration(c)
  /\ LET produced == Head(up[c]).seq
         Answer(status, next) == Reply(c, [t |-> "result", status |-> status, next |-> next])
     IN  \/ /\ Live /\ produced >= session.next
            /\ session' = Reattached
            /\ Answer("resume", session.next)
         \/ /\ Live /\ produced < session.next
            /\ Answer("rejected", session.next)
            /\ UNCHANGED session
         \/ /\ session.status = "done"
            /\ Answer("completed", session.next)
            /\ UNCHANGED session
         \/ /\ session.status = "gone"
            /\ Answer("rejected", 0)
            /\ UNCHANGED session
  /\ UNCHANGED <<heard, registry, sock, link, job, drops>>

OnChunk(c) ==
  /\ Take(c, "chunk")
  /\ OwnsRegistration(c) /\ Live
  /\ LET seq == Head(up[c]).seq
     IN  IF Accepts(seq)
         THEN /\ heard' = [heard EXCEPT !.chunks = Append(@, seq)]
              /\ session' = IF session.resumable THEN [session EXCEPT !.next = @ + 1] ELSE session
              /\ Ack(c, session.next + 1, FALSE)
         ELSE /\ Ack(c, session.next, FALSE)
              /\ UNCHANGED <<heard, session>>
  /\ UNCHANGED <<registry, sock, link, job, drops>>

OnComplete(c) ==
  /\ Take(c, "complete")
  /\ OwnsRegistration(c) /\ Live
  /\ IF CompletesAt(Head(up[c]).seq)
     THEN /\ heard' = [heard EXCEPT !.end = IF Head(up[c]).ok THEN "served" ELSE "failed"]
          /\ session' = [session EXCEPT !.status = IF session.resumable THEN "done" ELSE "gone",
                                        !.timers = {}]
          /\ Ack(c, session.next, TRUE)
     ELSE /\ Ack(c, session.next, FALSE)
          /\ UNCHANGED <<heard, session>>
  /\ UNCHANGED <<registry, sock, link, job, drops>>

(* A frame of a replaced or unregistered socket, or of a session that has  *)
(* ended, is dropped without an answer.                                    *)
DropFrame(c) ==
  /\ \/ Take(c, "resume") /\ ~OwnsRegistration(c)
     \/ (Take(c, "chunk") \/ Take(c, "complete")) /\ ~(OwnsRegistration(c) /\ Live)
  /\ UNCHANGED <<session, heard, registry, sock, down, link, job, drops>>

(* The `close` event: the queue of frames already read is still worked off. *)
(* If it is the provider that stopped reading, what was lost is lost.      *)
OnClose(c) ==
  /\ sock[c] # "closed"
  /\ Break(c)
  /\ sock' = [sock EXCEPT ![c] = "closed"]
  /\ IF c = link
     THEN \E n \in 0..Len(up[c]) : up' = [up EXCEPT ![c] = SubSeq(@, 1, n)]
     ELSE UNCHANGED up
  /\ IF OwnsRegistration(c)
     THEN DetachForMachine /\ registry' = NoConn
     ELSE UNCHANGED <<session, heard, registry>>
  /\ UNCHANGED <<down, link, job>>

(* Recycling before the edge's limit, an unanswered challenge, a backlog.  *)
HangUp(c) ==
  /\ sock[c] = "open"
  /\ Break(c)
  /\ sock' = Closing(c)
  /\ UNCHANGED <<session, heard, registry, up, down, link, job>>

(* The sweeper evicts a silent machine, and leaves its sessions alone.     *)
Sweep ==
  /\ registry # NoConn
  /\ Break(registry)
  /\ sock' = Closing(registry)
  /\ registry' = NoConn
  /\ UNCHANGED <<session, heard, up, down, link, job>>

-----------------------------------------------------------------------------
(* The session's dispatch, its timers, its client                          *)

(* The chosen machine has just answered a ping on this socket.             *)
Dispatch ==
  /\ session.status = "none"
  /\ registry # NoConn /\ sock[registry] = "open"
  /\ \E resumable \in BOOLEAN :
       session' = [session EXCEPT !.status = "live", !.resumable = resumable,
                                  !.timers = {"idle"}]
  /\ Reply(registry, [t |-> "request"])
  /\ UNCHANGED <<heard, registry, sock, up, link, job, drops>>

IdleFires ==
  /\ Live /\ "idle" \in session.timers
  /\ Close("error")
  /\ UNCHANGED <<registry, sock, up, down, link, job, drops>>

GraceFires ==
  /\ Live /\ "grace" \in session.timers /\ session.detached
  /\ Close("error")
  /\ UNCHANGED <<registry, sock, up, down, link, job, drops>>

ClientGone ==
  /\ Live
  /\ Close("left")
  /\ UNCHANGED <<registry, sock, up, down, link, job, drops>>

TombstoneExpires ==
  /\ session.status = "done"
  /\ session' = [session EXCEPT !.status = "gone"]
  /\ UNCHANGED <<heard, registry, sock, up, down, link, job, drops>>

-----------------------------------------------------------------------------
(* The provider                                                            *)

Serving == link # NoConn

Send(frames) == up' = [up EXCEPT ![link] = @ \o frames]

Finished == job.outcome # "running"

Buffered == job.held /\ session.resumable

(* resume_frames: what is buffered is announced behind the registration.   *)
Connect(c) ==
  /\ ~Serving
  /\ sock[c] = "closed" /\ up[c] = <<>> /\ ~OwnsRegistration(c)
  /\ link' = c
  /\ sock' = [sock EXCEPT ![c] = "open"]
  /\ up' = [up EXCEPT ![c] = <<[t |-> "register"]>> \o
              IF Buffered THEN <<[t |-> "resume", seq |-> job.produced]>> ELSE <<>>]
  /\ down' = [down EXCEPT ![c] = <<>>]
  /\ UNCHANGED <<session, heard, registry, job, drops>>

Dropped == [job EXCEPT !.held = FALSE,
                       !.outcome = IF @ = "running" THEN "dropped" ELSE @]

(* detach_all; a legacy job dies with the serve loop.                      *)
Detached == IF ~job.held THEN job
            ELSE IF session.resumable
            THEN [job EXCEPT !.attached = FALSE, !.sent = job.acked, !.told = FALSE]
            ELSE Dropped

(* The connection ends for the provider; frames it wrote may never arrive. *)
LoseLink ==
  /\ Serving
  /\ Break(link)
  /\ \E n \in 0..Len(up[link]) : up' = [up EXCEPT ![link] = SubSeq(@, 1, n)]
  /\ down' = [down EXCEPT ![link] = <<>>]
  /\ link' = NoConn
  /\ job' = Detached
  /\ UNCHANGED <<session, heard, registry, sock>>

(* The retention of a detached job, or a restart of the provider.          *)
RetentionExpires ==
  /\ Buffered /\ ~job.attached
  /\ job' = Dropped
  /\ UNCHANGED <<session, heard, registry, sock, up, down, link, drops>>

Receive(type) == /\ Serving
                 /\ down[link] # <<>>
                 /\ Head(down[link]).t = type
                 /\ down' = [down EXCEPT ![link] = Tail(@)]

Accept ==
  /\ Receive("request")
  /\ job' = [job EXCEPT !.held = TRUE, !.attached = TRUE]
  /\ UNCHANGED <<session, heard, registry, sock, up, link, drops>>

(* At INVOCATION_MAX_COUNT: one chunk that says so, and a completion.      *)
Refuse ==
  /\ Receive("request")
  /\ job' = [job EXCEPT !.produced = 1, !.outcome = "failed"]
  /\ Send(<<[t |-> "chunk", seq |-> 0], [t |-> "complete", seq |-> 1, ok |-> FALSE]>>)
  /\ UNCHANGED <<session, heard, registry, sock, link, drops>>

HigherOf(a, b) == IF a > b THEN a ELSE b

(* Mutant: what was sent counts as acknowledged.                           *)
AckSent(next) == [job EXCEPT !.acked = HigherOf(next, job.sent), !.sent = HigherOf(@, next)]

AckChunks(next) == [job EXCEPT !.acked = next, !.sent = HigherOf(@, next)]
HandleResumeResult ==
  /\ Receive("result")
  /\ LET result == Head(down[link])
     IN  job' = CASE ~job.held -> job
                  [] job.held /\ result.status = "resume" /\ result.next <= job.produced ->
                       [AckChunks(result.next) EXCEPT !.sent = result.next, !.told = FALSE,
                                                      !.attached = TRUE]
                  [] OTHER -> Dropped
  /\ UNCHANGED <<session, heard, registry, sock, up, link, drops>>

Acknowledge ==
  /\ Receive("ack")
  /\ LET ack == Head(down[link])
         stray == ~job.held \/ ack.next < job.acked \/ ack.next > job.produced
         early == ack.completed /\ (~Finished \/ ack.next # job.produced)
     IN  job' = IF stray \/ early THEN job
                ELSE IF ack.completed THEN Dropped ELSE AckChunks(ack.next)
  /\ UNCHANGED <<session, heard, registry, sock, up, link, drops>>

ReplayFull == session.resumable /\ job.produced - job.acked >= ReplayMaxFrames

(* The engine's next chunk: buffered, or in a legacy job sent at once. At   *)
(* the limit of the buffer the job ends with a synthetic completion.       *)
Produce ==
  /\ job.held /\ ~Finished /\ job.produced < MaxChunks
  /\ job' = IF ReplayFull THEN [job EXCEPT !.outcome = "failed"]
                          ELSE [job EXCEPT !.produced = @ + 1]
  /\ IF session.resumable THEN UNCHANGED up ELSE Send(<<[t |-> "chunk", seq |-> job.produced]>>)
  /\ UNCHANGED <<session, heard, registry, sock, down, link, drops>>

(* The receipt is published; its completion needs a frame of the buffer.   *)
Finish ==
  /\ job.held /\ ~Finished
  /\ IF session.resumable
     THEN /\ job' = [job EXCEPT !.outcome = IF ReplayFull THEN "failed" ELSE "served"]
          /\ UNCHANGED up
     ELSE /\ job' = [job EXCEPT !.outcome = "served", !.held = FALSE]
          /\ Send(<<[t |-> "complete", seq |-> job.produced, ok |-> TRUE]>>)
  /\ UNCHANGED <<session, heard, registry, sock, down, link, drops>>

(* The job panics, or ends without a completion.                           *)
Panic ==
  /\ job.held /\ ~Finished
  /\ job' = Dropped
  /\ UNCHANGED <<session, heard, registry, sock, up, down, link, drops>>

Unsent == [i \in 1..(job.produced - job.sent) |-> [t |-> "chunk", seq |-> job.sent + i - 1]]

Drain ==
  /\ Buffered /\ job.attached /\ Serving
  /\ \/ job.sent < job.produced
     \/ Finished /\ ~job.told
  /\ Send(Unsent \o IF Finished /\ ~job.told
                    THEN <<[t |-> "complete", seq |-> job.produced,
                            ok |-> job.outcome = "served"]>>
                    ELSE <<>>)
  /\ job' = [job EXCEPT !.sent = job.produced, !.told = Finished]
  /\ UNCHANGED <<session, heard, registry, sock, down, link, drops>>

-----------------------------------------------------------------------------

Advisor(c) == \/ OnRegister(c) \/ RefuseRegister(c) \/ OnResume(c) \/ OnChunk(c)
              \/ OnComplete(c) \/ DropFrame(c) \/ OnClose(c) \/ HangUp(c)

Clock == Sweep \/ IdleFires \/ GraceFires \/ TombstoneExpires

Provider == \/ LoseLink \/ RetentionExpires \/ Accept \/ Refuse \/ HandleResumeResult
            \/ Acknowledge \/ Produce \/ Finish \/ Panic \/ Drain

Next == \/ \E c \in Conns : Advisor(c) \/ Connect(c)
        \/ Clock \/ Provider \/ Dispatch \/ ClientGone

Spec == Init /\ [][Next]_vars

(* A timer that stays armed fires. Keepalives, which re-arm it, come from   *)
(* an engine call, and an engine call ends.                                *)
FairSpec == Spec /\ WF_vars(IdleFires) /\ WF_vars(GraceFires)

-----------------------------------------------------------------------------
(* Properties                                                              *)

(* Nothing the requester has not received is discarded: while a resumable   *)
(* session can still be resumed, the provider's buffer (acked onwards)     *)
(* covers all that the session waits for, across every loss of frames.     *)
ReplayCoversSession ==
  Live /\ session.resumable /\ job.held =>
    job.acked <= session.next /\ session.next <= job.produced

(* A session runs on exactly the timer that can end it: the grace timer    *)
(* while its provider is away, the idle timer while it is attached. A       *)
(* left-over timer would kill a resumed stream, none would leave it open.  *)
OneTimer ==
  session.timers = IF ~Live THEN {} ELSE IF session.detached THEN {"grace"} ELSE {"idle"}

(* "on socket close we tear down timers and remove the entry"              *)
(* (connection.ts:13): the registry holds no socket whose close is past.   *)
RegisteredIsConnected == registry # NoConn => sock[registry] # "closed"

(* Whatever the sockets do, the requester's stream is an ordered pipe.     *)
Pipe == INSTANCE OrderedPipe WITH
  made <- job.produced, outcome <- job.outcome, chunks <- heard.chunks, end <- heard.end

StreamIsPipe == Pipe!Spec

(* Every dispatched job ends for its requester.                            *)
EveryStreamEnds == Live ~> heard.end # "none"
=============================================================================
