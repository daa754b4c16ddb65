------------------------- MODULE StreamSession_proofs -------------------------
(***************************************************************************)
(* Proofs about StreamSession for any number of sockets and breaks, any    *)
(* length of the output and any size of the replay buffer.                 *)
(***************************************************************************)
EXTENDS StreamSession, SequenceTheorems, TLAPS

(* The job has not reached the engine.                                     *)
IsFresh(j) == ~j.held /\ j.outcome = "running"
Fresh == IsFresh(job)

SessionInv ==
  /\ OneTimer
  /\ heard.end = "none" <=> session.status \in {"none", "live"}
  /\ session.status = "none" => session.next = 0 /\ ~session.detached
  /\ session.detached => session.resumable
  /\ session.resumable => session.next = Len(heard.chunks)

JobInv ==
  /\ Fresh => job.produced = 0 /\ heard.chunks = <<>>
  /\ session.status = "none" => Fresh
  /\ job.held => job.outcome # "dropped"
  /\ job.acked <= job.sent /\ job.sent <= job.produced
  /\ job.acked <= session.next
  /\ Len(heard.chunks) <= job.produced

(* What a frame to the advisor says of the job stays true.                 *)
GoodUp(f, j) ==
  /\ f.t = "chunk" => f.seq < j.produced
  /\ f.t = "complete" => /\ j.outcome \in {"served", "failed"}
                         /\ f.seq = j.produced
                         /\ f.ok = (j.outcome = "served")
  /\ IsFresh(j) => f.t = "register"

UpInv == \A c \in Conns : \A i \in 1..Len(up[c]) :
           GoodUp(up[c][i], job) /\ (up[c][i].t = "register" => i = 1)

NoRegister(queue) == \A i \in 1..Len(queue) : queue[i].t # "register"

(* What a frame to the provider says of the session stays true; a request  *)
(* is alone on the socket the provider serves on.                          *)
GoodDown(f, next, j) == f.t \in {"ack", "result"} => f.next <= next /\ ~IsFresh(j)

DownInv == \A c \in Conns : \A i \in 1..Len(down[c]) :
  /\ session.status # "none"
  /\ GoodDown(down[c][i], session.next, job)
  /\ down[c][i].t = "request" => Fresh /\ Len(down[c]) = 1 /\ link = c /\ NoRegister(up[c])

RegistryInv == registry # NoConn => NoRegister(up[registry])

(* The frames of a legacy job carry on where the requester's stream is.    *)
Continues(queue, n) == \A i \in 1..Len(queue) : /\ queue[i].t \in {"chunk", "complete"}
                                               /\ queue[i].seq = n + i - 1

LegacyInv ==
  session.status # "none" /\ ~session.resumable =>
    /\ job.held => Serving /\ NoRegister(up[link]) /\ ~Finished
    /\ \A c \in Conns : NoRegister(up[c]) \/ Len(up[c]) = 1
    /\ Live /\ registry # NoConn => Continues(up[registry], Len(heard.chunks))
    /\ Live /\ job.held /\ link = registry =>
         job.produced = Len(heard.chunks) + Len(up[link])

IndInv == /\ TypeOK /\ SessionInv /\ JobInv /\ UpInv /\ DownInv /\ RegistryInv /\ LegacyInv
-----------------------------------------------------------------------------
(* What the operations on the queues of frames do, index by index.         *)

LEMMA Typing ==
  ASSUME TypeOK, NEW c \in Conns
  PROVE  /\ up[c] \in Seq(Frames) /\ down[c] \in Seq(Frames)
         /\ Len(up[c]) \in Nat /\ Len(down[c]) \in Nat
         /\ \A i \in 1..Len(up[c]) : up[c][i] \in Frames
         /\ \A i \in 1..Len(down[c]) : down[c][i] \in Frames
<1>1. up[c] \in Seq(Frames) /\ down[c] \in Seq(Frames)
  BY DEF TypeOK
<1> QED BY <1>1, LenProperties, ElementOfSeq

LEMMA Taken ==
  ASSUME TypeOK, NEW c \in Conns, NEW type, Take(c, type)
  PROVE  /\ up' \in [Conns -> Seq(Frames)]
         /\ Head(up[c]) = up[c][1] /\ Head(up[c]).t = type /\ Head(up[c]) \in Frames
         /\ Len(up[c]) \in Nat \ {0} /\ 1 \in 1..Len(up[c])
         /\ Len(up'[c]) = Len(up[c]) - 1
         /\ \A i \in 1..Len(up'[c]) : i + 1 \in 1..Len(up[c]) /\ up'[c][i] = up[c][i + 1]
         /\ \A d \in Conns \ {c} : up'[d] = up[d]
<1>1. up[c] \in Seq(Frames) /\ up[c] # <<>> /\ Head(up[c]).t = type
      /\ up' = [up EXCEPT ![c] = Tail(up[c])] /\ up \in [Conns -> Seq(Frames)]
  BY Typing DEF Take, TypeOK
<1>2. /\ Head(up[c]) \in Frames /\ Tail(up[c]) \in Seq(Frames)
      /\ Len(Tail(up[c])) = Len(up[c]) - 1
      /\ \A i \in 1..Len(Tail(up[c])) : Tail(up[c])[i] = up[c][i + 1]
  BY <1>1, HeadTailProperties
<1>3. Len(up[c]) \in Nat \ {0} /\ Head(up[c]) = up[c][1]
  BY <1>1, EmptySeq
<1>4. up'[c] = Tail(up[c]) /\ up' \in [Conns -> Seq(Frames)]
      /\ \A d \in Conns \ {c} : up'[d] = up[d]
  BY <1>1, <1>2
<1> QED BY <1>1, <1>2, <1>3, <1>4

LEMMA Cut ==
  ASSUME TypeOK, NEW c \in Conns, NEW n \in 0..Len(up[c]),
         up' = [up EXCEPT ![c] = SubSeq(@, 1, n)]
  PROVE  /\ up' \in [Conns -> Seq(Frames)]
         /\ Len(up'[c]) = n
         /\ \A i \in 1..n : i \in 1..Len(up[c]) /\ up'[c][i] = up[c][i]
         /\ \A d \in Conns \ {c} : up'[d] = up[d]
<1>1. up[c] \in Seq(Frames) /\ Len(up[c]) \in Nat /\ up \in [Conns -> Seq(Frames)]
      /\ \A i \in 1..Len(up[c]) : up[c][i] \in Frames
  BY Typing DEF TypeOK
<1>2. n \in Int /\ \A i \in 1..n : i \in 1..Len(up[c])
  BY <1>1
<1>3. /\ SubSeq(up[c], 1, n) \in Seq(Frames)
      /\ Len(SubSeq(up[c], 1, n)) = IF 1 <= n THEN n - 1 + 1 ELSE 0
      /\ \A i \in 1..(n - 1 + 1) : SubSeq(up[c], 1, n)[i] = up[c][1 + i - 1]
  BY <1>1, <1>2, SubSeqProperties
<1>4. up'[c] = SubSeq(up[c], 1, n) /\ up' \in [Conns -> Seq(Frames)]
      /\ \A d \in Conns \ {c} : up'[d] = up[d]
  BY <1>1, <1>3
<1> QED BY <1>1, <1>2, <1>3, <1>4

LEMMA Sent ==
  ASSUME TypeOK, link \in Conns, NEW frames \in Seq(Frames), Send(frames)
  PROVE  /\ up' \in [Conns -> Seq(Frames)]
         /\ Len(up'[link]) = Len(up[link]) + Len(frames) /\ Len(frames) \in Nat
         /\ \A i \in 1..Len(up'[link]) :
              \/ i \in 1..Len(up[link]) /\ up'[link][i] = up[link][i]
              \/ /\ i - Len(up[link]) \in 1..Len(frames)
                 /\ up'[link][i] = frames[i - Len(up[link])]
         /\ \A d \in Conns \ {link} : up'[d] = up[d]
<1>1. up[link] \in Seq(Frames) /\ Len(up[link]) \in Nat /\ up \in [Conns -> Seq(Frames)]
  BY Typing DEF TypeOK
<1>2. /\ up[link] \o frames \in Seq(Frames)
      /\ Len(up[link] \o frames) = Len(up[link]) + Len(frames)
      /\ \A i \in 1..Len(up[link]) + Len(frames) : (up[link] \o frames)[i] =
           IF i <= Len(up[link]) THEN up[link][i] ELSE frames[i - Len(up[link])]
  BY <1>1, ConcatProperties
<1>3. up'[link] = up[link] \o frames /\ up' \in [Conns -> Seq(Frames)]
      /\ \A d \in Conns \ {link} : up'[d] = up[d]
  BY <1>1, <1>2 DEF Send
<1>4. Len(frames) \in Nat
  BY LenProperties
<1> QED BY <1>1, <1>2, <1>3, <1>4

LEMMA Replied ==
  ASSUME TypeOK, NEW c \in Conns, NEW frame \in Frames, Reply(c, frame)
  PROVE  /\ down' \in [Conns -> Seq(Frames)]
         /\ \A d \in Conns : \A i \in 1..Len(down'[d]) :
              \/ i \in 1..Len(down[d]) /\ down'[d][i] = down[d][i]
              \/ d = c /\ link = c /\ down'[d][i] = frame
         /\ \A d \in Conns : d # c => down'[d] = down[d]
         /\ down'[c] = down[c] \/ Len(down'[c]) = Len(down[c]) + 1
<1>1. down[c] \in Seq(Frames) /\ Len(down[c]) \in Nat /\ down \in [Conns -> Seq(Frames)]
  BY Typing DEF TypeOK
<1>2. CASE down' = down
  BY <1>1, <1>2
<1>3. CASE link = c /\ down' = [down EXCEPT ![c] = Append(@, frame)]
  <2>1. /\ Append(down[c], frame) \in Seq(Frames)
        /\ Len(Append(down[c], frame)) = Len(down[c]) + 1
        /\ \A i \in 1..Len(down[c]) : Append(down[c], frame)[i] = down[c][i]
        /\ Append(down[c], frame)[Len(down[c]) + 1] = frame
    BY <1>1, AppendProperties
  <2>2. down'[c] = Append(down[c], frame) /\ down' \in [Conns -> Seq(Frames)]
        /\ \A d \in Conns : d # c => down'[d] = down[d]
    BY <1>1, <1>3, <2>1
  <2> QED BY <1>1, <1>3, <2>1, <2>2
<1> QED BY <1>2, <1>3 DEF Reply

LEMMA Received ==
  ASSUME TypeOK, NEW type, Receive(type)
  PROVE  /\ link \in Conns
         /\ down' \in [Conns -> Seq(Frames)]
         /\ Head(down[link]) = down[link][1] /\ Head(down[link]).t = type
         /\ Head(down[link]) \in Frames
         /\ Len(down[link]) \in Nat \ {0} /\ 1 \in 1..Len(down[link])
         /\ Len(down'[link]) = Len(down[link]) - 1
         /\ \A i \in 1..Len(down'[link]) :
              i + 1 \in 1..Len(down[link]) /\ down'[link][i] = down[link][i + 1]
         /\ \A d \in Conns \ {link} : down'[d] = down[d]
<1>0. link \in Conns
  BY DEF TypeOK, Receive, Serving
<1>1. down[link] \in Seq(Frames) /\ down[link] # <<>> /\ Head(down[link]).t = type
      /\ down' = [down EXCEPT ![link] = Tail(down[link])] /\ down \in [Conns -> Seq(Frames)]
  BY <1>0, Typing DEF Receive, TypeOK
<1>2. /\ Head(down[link]) \in Frames /\ Tail(down[link]) \in Seq(Frames)
      /\ Len(Tail(down[link])) = Len(down[link]) - 1
      /\ \A i \in 1..Len(Tail(down[link])) : Tail(down[link])[i] = down[link][i + 1]
  BY <1>1, HeadTailProperties
<1>3. Len(down[link]) \in Nat \ {0} /\ Head(down[link]) = down[link][1]
  BY <1>1, EmptySeq
<1>4. down'[link] = Tail(down[link]) /\ down' \in [Conns -> Seq(Frames)]
      /\ \A d \in Conns \ {link} : down'[d] = down[d]
  BY <1>0, <1>1, <1>2
<1> QED BY <1>0, <1>1, <1>2, <1>3, <1>4
-----------------------------------------------------------------------------
(* Type correctness.                                                       *)

Sessions == [status : {"none", "live", "done", "gone"}, resumable : BOOLEAN,
             next : Nat, detached : BOOLEAN, timers : SUBSET {"idle", "grace"}]
Streams == [chunks : Seq(Nat), end : {"none", "served", "failed", "error", "left"}]
Jobs == [held : BOOLEAN, attached : BOOLEAN, produced : Nat, acked : Nat, sent : Nat,
         told : BOOLEAN, outcome : {"running", "served", "failed", "dropped"}]

LEMMA TimerSets == \A t \in {{}, {"idle"}, {"grace"}} : t \in SUBSET {"idle", "grace"}
OBVIOUS

(* The two ways a session may be ended or left without its provider keep   *)
(* the types of the session and of its stream.                             *)
LEMMA ClosingTyped ==
  ASSUME session \in Sessions, heard \in Streams,
         \/ DetachForMachine
         \/ \E why \in {"error", "left"} : Close(why)
  PROVE  session' \in Sessions /\ heard' \in Streams
<1> DEFINE S(t) == [session EXCEPT !.detached = TRUE, !.timers = t]
           G(t) == [session EXCEPT !.status = "gone", !.timers = t]
<1>1. \A t \in SUBSET {"idle", "grace"} : S(t) \in Sessions /\ G(t) \in Sessions
  BY DEF Sessions
<1>2. session' \in {session, S({"grace"}), G({})}
  BY DEF DetachForMachine, Close
<1>3. heard' = heard \/ \E why \in {"error", "left"} : heard' = [heard EXCEPT !.end = why]
  BY DEF DetachForMachine, Close
<1>4. heard' \in Streams
  BY <1>3 DEF Streams
<1> HIDE DEF S, G
<1> QED BY <1>1, <1>2, <1>4, TimerSets

LEMMA BreakTyped ==
  ASSUME TypeOK, NEW c \in Conns, Break(c)
  PROVE  drops' \in 0..MaxDrops
BY StreamAssumption DEF Break, TypeOK

LEMMA ClosingSock ==
  ASSUME TypeOK, NEW c \in Conns
  PROVE  Closing(c) \in [Conns -> {"open", "closing", "closed"}]
BY DEF Closing, TypeOK

LEMMA AckTyped ==
  ASSUME TypeOK, NEW c \in Conns, NEW next \in Nat, NEW completed \in BOOLEAN,
         Ack(c, next, completed)
  PROVE  down' \in [Conns -> Seq(Frames)]
<1>1. [t |-> "ack", next |-> next, completed |-> completed] \in Frames
  BY DEF Frames
<1> QED BY <1>1, Replied DEF Ack, TypeOK

LEMMA SentTyped ==
  ASSUME TypeOK, NEW frames \in Seq(Frames), Send(frames)
  PROVE  up' \in [Conns -> Seq(Frames)]
<1>1. CASE link \in Conns
  BY <1>1, Sent
<1>2. CASE link \notin Conns
  BY <1>2 DEF Send, TypeOK
<1> QED BY <1>1, <1>2

LEMMA AdvisorTyped ==
  ASSUME TypeOK, NEW c \in Conns, Advisor(c)
  PROVE  TypeOK'
<1> USE DEF Sessions, Streams, Jobs
<1>1. CASE OnRegister(c)
  <2>1. up' \in [Conns -> Seq(Frames)]
    BY <1>1, Taken DEF OnRegister
  <2>2. CASE registry \in {NoConn, c}
    BY <1>1, <2>1, <2>2 DEF OnRegister, TypeOK
  <2>3. CASE registry \notin {NoConn, c}
    <3>1. registry \in Conns /\ session' \in Sessions /\ heard' \in Streams
      BY <1>1, <2>3, ClosingTyped DEF OnRegister, TypeOK
    <3> QED BY <1>1, <2>1, <2>3, <3>1, BreakTyped, ClosingSock DEF OnRegister, TypeOK
  <2> QED BY <2>2, <2>3
<1>2. CASE RefuseRegister(c)
  BY <1>2, Taken, BreakTyped, ClosingSock DEF RefuseRegister, TypeOK
<1>3. CASE OnResume(c)
  <2>0. up' \in [Conns -> Seq(Frames)]
    BY <1>3, Taken DEF OnResume
  <2>1. session' \in Sessions
    <3>1. session' \in {session, Reattached}
      BY <1>3 DEF OnResume
    <3>2. \A t \in SUBSET {"idle", "grace"} :
            [session EXCEPT !.detached = FALSE, !.timers = t] \in Sessions
      BY DEF TypeOK
    <3> QED BY <3>1, <3>2, TimerSets DEF Reattached, TypeOK
  <2>2. \A next \in Nat : \A status \in {"resume", "completed", "rejected"} :
          [t |-> "result", status |-> status, next |-> next] \in Frames
    BY DEF Frames
  <2>3. session.next \in Nat /\ 0 \in Nat
    BY DEF TypeOK
  <2>4. down' \in [Conns -> Seq(Frames)]
    BY <1>3, <2>2, <2>3, Replied DEF OnResume
  <2> QED BY <1>3, <2>0, <2>1, <2>4 DEF OnResume, TypeOK
<1>4. CASE OnChunk(c)
  <2>1. up' \in [Conns -> Seq(Frames)] /\ Head(up[c]).seq \in Nat
    BY <1>4, Taken DEF OnChunk, Frames
  <2>2. session' \in Sessions /\ session.next \in Nat /\ session.next + 1 \in Nat
    <3>1. session' \in {session, [session EXCEPT !.next = @ + 1]}
      BY <1>4 DEF OnChunk
    <3>2. session \in Sessions /\ session.next \in Nat /\ session.next + 1 \in Nat
      BY DEF TypeOK
    <3>3. [session EXCEPT !.next = @ + 1] \in Sessions
      BY <3>2
    <3> HIDE DEF Sessions
    <3> QED BY <3>1, <3>2, <3>3
  <2>3. heard' \in Streams
    <3>1. heard' \in {heard, [heard EXCEPT !.chunks = Append(@, Head(up[c]).seq)]}
      BY <1>4 DEF OnChunk
    <3>2. Append(heard.chunks, Head(up[c]).seq) \in Seq(Nat)
      BY <2>1, AppendProperties DEF TypeOK
    <3> QED BY <3>1, <3>2 DEF TypeOK
  <2>4. down' \in [Conns -> Seq(Frames)]
    BY <1>4, <2>2, AckTyped DEF OnChunk
  <2> QED BY <1>4, <2>1, <2>2, <2>3, <2>4 DEF OnChunk, TypeOK
<1>5. CASE OnComplete(c)
  <2>1. up' \in [Conns -> Seq(Frames)]
    BY <1>5, Taken DEF OnComplete
  <2>2. session' \in Sessions /\ session.next \in Nat
    <3>1. session' = session \/ \E status \in {"done", "gone"} :
            session' = [session EXCEPT !.status = status, !.timers = {}]
      BY <1>5 DEF OnComplete
    <3>2. \A t \in SUBSET {"idle", "grace"}, status \in {"done", "gone"} :
            [session EXCEPT !.status = status, !.timers = t] \in Sessions
      BY DEF TypeOK
    <3>3. session.next \in Nat /\ session \in Sessions
      BY DEF TypeOK
    <3> HIDE DEF Sessions
    <3> QED BY <3>1, <3>2, <3>3, TimerSets
  <2>3. heard' \in Streams
    <3>1. heard' = heard \/ \E end \in {"served", "failed"} : heard' = [heard EXCEPT !.end = end]
      BY <1>5 DEF OnComplete
    <3> QED BY <3>1 DEF TypeOK
  <2>4. down' \in [Conns -> Seq(Frames)]
    BY <1>5, <2>2, AckTyped DEF OnComplete
  <2> QED BY <1>5, <2>1, <2>2, <2>3, <2>4 DEF OnComplete, TypeOK
<1>6. CASE DropFrame(c)
  BY <1>6, Taken DEF DropFrame, TypeOK
<1>7. CASE OnClose(c)
  <2>1. up' \in [Conns -> Seq(Frames)]
    BY <1>7, Cut DEF OnClose, TypeOK
  <2>2. session' \in Sessions /\ heard' \in Streams /\ registry' \in Conns \cup {NoConn}
    BY <1>7, ClosingTyped DEF OnClose, TypeOK
  <2> QED BY <1>7, <2>1, <2>2, BreakTyped DEF OnClose, TypeOK
<1>8. CASE HangUp(c)
  BY <1>8, BreakTyped, ClosingSock DEF HangUp, TypeOK
<1> QED BY <1>1, <1>2, <1>3, <1>4, <1>5, <1>6, <1>7, <1>8 DEF Advisor

LEMMA ConnectTyped ==
  ASSUME TypeOK, NEW c \in Conns, Connect(c)
  PROVE  TypeOK'
<1> DEFINE hello == <<[t |-> "register"]>> \o
                      IF Buffered THEN <<[t |-> "resume", seq |-> job.produced]>> ELSE <<>>
<1>1. [t |-> "register"] \in Frames /\ [t |-> "resume", seq |-> job.produced] \in Frames
  BY DEF Frames, TypeOK
<1>2. <<[t |-> "register"]>> \in Seq(Frames) /\ <<>> \in Seq(Frames)
      /\ <<[t |-> "resume", seq |-> job.produced]>> \in Seq(Frames)
  BY <1>1
<1>3. hello \in Seq(Frames)
  BY <1>2, ConcatProperties
<1>4. up' = [up EXCEPT ![c] = hello]
  BY DEF Connect
<1> HIDE DEF hello
<1> QED BY <1>2, <1>3, <1>4 DEF Connect, TypeOK

LEMMA ClockTyped ==
  ASSUME TypeOK, Clock \/ Dispatch \/ ClientGone
  PROVE  TypeOK'
<1> USE DEF Sessions, Streams
<1>1. CASE Sweep
  <2>1. registry \in Conns
    BY <1>1 DEF Sweep, TypeOK
  <2> QED BY <1>1, <2>1, BreakTyped, ClosingSock DEF Sweep, TypeOK
<1>2. CASE IdleFires \/ GraceFires \/ ClientGone
  <2>1. session' \in Sessions /\ heard' \in Streams
    BY <1>2, ClosingTyped DEF IdleFires, GraceFires, ClientGone, TypeOK
  <2> QED BY <1>2, <2>1 DEF IdleFires, GraceFires, ClientGone, TypeOK
<1>3. CASE TombstoneExpires
  BY <1>3 DEF TombstoneExpires, TypeOK
<1>4. CASE Dispatch
  <2>1. registry \in Conns /\ [t |-> "request"] \in Frames
    BY <1>4 DEF Dispatch, TypeOK, Frames
  <2>2. down' \in [Conns -> Seq(Frames)]
    BY <1>4, <2>1, Replied DEF Dispatch
  <2>3. session' \in Sessions
    <3>1. \E resumable \in BOOLEAN :
            session' = [session EXCEPT !.status = "live", !.resumable = resumable,
                                       !.timers = {"idle"}]
      BY <1>4 DEF Dispatch
    <3>2. \A t \in SUBSET {"idle", "grace"}, resumable \in BOOLEAN :
            [session EXCEPT !.status = "live", !.resumable = resumable, !.timers = t]
              \in Sessions
      BY DEF TypeOK
    <3> HIDE DEF Sessions
    <3> QED BY <3>1, <3>2, TimerSets
  <2> QED BY <1>4, <2>2, <2>3 DEF Dispatch, TypeOK
<1> QED BY <1>1, <1>2, <1>3, <1>4 DEF Clock

(* What Drain sends is frames of the job, in order.                        *)
Rest == Unsent \o IF Finished /\ ~job.told
                  THEN <<[t |-> "complete", seq |-> job.produced,
                          ok |-> job.outcome = "served"]>>
                  ELSE <<>>

LEMMA Drained ==
  ASSUME TypeOK, job.sent <= job.produced
  PROVE  /\ Rest \in Seq(Frames)
         /\ \A i \in 1..Len(Rest) :
              \/ /\ Rest[i].t = "chunk" /\ Rest[i].seq < job.produced
              \/ /\ Rest[i].t = "complete" /\ Rest[i].seq = job.produced
                 /\ Rest[i].ok = (job.outcome = "served") /\ Finished
<1> DEFINE n == job.produced - job.sent
           last == [t |-> "complete", seq |-> job.produced, ok |-> job.outcome = "served"]
           tail == IF Finished /\ ~job.told THEN <<last>> ELSE <<>>
<1>1. n \in Nat /\ job.sent \in Nat /\ job.produced \in Nat
  BY DEF TypeOK
<1>2. \A i \in 1..n : job.sent + i - 1 \in Nat /\ job.sent + i - 1 < job.produced
  BY <1>1
<1>3. Unsent = [i \in 1..n |-> [t |-> "chunk", seq |-> job.sent + i - 1]]
  BY DEF Unsent
<1>4. \A i \in 1..n : [t |-> "chunk", seq |-> job.sent + i - 1] \in Frames
  BY <1>2 DEF Frames
<1>5. Unsent \in Seq(Frames) /\ Len(Unsent) = n
  BY <1>1, <1>3, <1>4, SeqDef, LenProperties
<1>6. last \in Frames
  BY <1>1 DEF Frames
<1>7. tail \in Seq(Frames) /\ Len(tail) \in {0, 1}
      /\ (Len(tail) = 1 => Finished /\ tail[1] = last)
  BY <1>6
<1>8. Rest = Unsent \o tail
  BY DEF Rest
<1> HIDE DEF n, tail, last
<1>9. /\ Rest \in Seq(Frames) /\ Len(Rest) = n + Len(tail)
      /\ \A i \in 1..Len(Rest) : Rest[i] = IF i <= n THEN Unsent[i] ELSE tail[i - n]
  <2>1. /\ Unsent \o tail \in Seq(Frames)
        /\ Len(Unsent \o tail) = Len(Unsent) + Len(tail)
        /\ \A i \in 1..Len(Unsent) + Len(tail) : (Unsent \o tail)[i] =
             IF i <= Len(Unsent) THEN Unsent[i] ELSE tail[i - Len(Unsent)]
    BY <1>5, <1>7, ConcatProperties
  <2> QED BY <1>5, <1>8, <2>1
<1>10. ASSUME NEW i \in 1..Len(Rest)
       PROVE  \/ /\ Rest[i].t = "chunk" /\ Rest[i].seq < job.produced
              \/ Rest[i] = last /\ Finished
  <2>1. CASE i <= n
    BY <1>1, <1>2, <1>3, <1>9, <2>1
  <2>2. CASE i > n
    BY <1>1, <1>7, <1>9, <2>2
  <2> QED BY <1>1, <2>1, <2>2
<1> QED BY <1>9, <1>10 DEF last

LEMMA ProviderTyped ==
  ASSUME TypeOK, job.sent <= job.produced, Provider
  PROVE  TypeOK'
<1> USE DEF Jobs
<1>1. CASE LoseLink
  <2>1. link \in Conns
    BY <1>1 DEF LoseLink, Serving, TypeOK
  <2>2. up' \in [Conns -> Seq(Frames)] /\ down' \in [Conns -> Seq(Frames)]
    BY <1>1, <2>1, Cut DEF LoseLink, TypeOK
  <2>3. job' \in Jobs
    BY <1>1 DEF LoseLink, Detached, Dropped, TypeOK
  <2> QED BY <1>1, <2>1, <2>2, <2>3, BreakTyped DEF LoseLink, TypeOK
<1>2. CASE RetentionExpires \/ Panic
  <2>1. job' = Dropped
    BY <1>2 DEF RetentionExpires, Panic
  <2>2. job' \in Jobs
    BY <2>1 DEF Dropped, TypeOK
  <2> QED BY <1>2, <2>2 DEF RetentionExpires, Panic, TypeOK
<1>3. CASE Accept
  BY <1>3, Received DEF Accept, TypeOK
<1>4. CASE Refuse
  <2>1. link \in Conns /\ down' \in [Conns -> Seq(Frames)]
    BY <1>4, Received DEF Refuse
  <2>2. <<[t |-> "chunk", seq |-> 0], [t |-> "complete", seq |-> 1, ok |-> FALSE]>> \in Seq(Frames)
    <3>1. [t |-> "chunk", seq |-> 0] \in Frames
          /\ [t |-> "complete", seq |-> 1, ok |-> FALSE] \in Frames
      BY DEF Frames
    <3> QED BY <3>1
  <2>3. up' \in [Conns -> Seq(Frames)]
    BY <1>4, <2>1, <2>2, Sent DEF Refuse
  <2> QED BY <1>4, <2>1, <2>3 DEF Refuse, TypeOK
<1>5. CASE HandleResumeResult
  <2>1. down' \in [Conns -> Seq(Frames)] /\ Head(down[link]).next \in Nat
    BY <1>5, Received DEF HandleResumeResult, Frames
  <2>2. job' \in Jobs
    BY <1>5, <2>1 DEF HandleResumeResult, AckChunks, HigherOf, Dropped, TypeOK
  <2> QED BY <1>5, <2>1, <2>2 DEF HandleResumeResult, TypeOK
<1>6. CASE Acknowledge
  <2>1. down' \in [Conns -> Seq(Frames)] /\ Head(down[link]).next \in Nat
    BY <1>6, Received DEF Acknowledge, Frames
  <2>2. job' \in Jobs
    BY <1>6, <2>1 DEF Acknowledge, AckChunks, HigherOf, Dropped, TypeOK
  <2> QED BY <1>6, <2>1, <2>2 DEF Acknowledge, TypeOK
<1>7. CASE Produce
  <2>1. job' \in {[job EXCEPT !.outcome = "failed"], [job EXCEPT !.produced = @ + 1]}
    BY <1>7 DEF Produce
  <2>2. job' \in Jobs /\ job.produced \in Nat
    <3>1. job \in Jobs /\ job.produced \in Nat /\ job.produced + 1 \in Nat
      BY DEF TypeOK
    <3>2. [job EXCEPT !.outcome = "failed"] \in Jobs /\ [job EXCEPT !.produced = @ + 1] \in Jobs
      BY <3>1
    <3> HIDE DEF Jobs
    <3> QED BY <2>1, <3>1, <3>2
  <2>3. <<[t |-> "chunk", seq |-> job.produced]>> \in Seq(Frames)
    <3>1. [t |-> "chunk", seq |-> job.produced] \in Frames
      BY <2>2 DEF Frames
    <3> QED BY <3>1
  <2>4. up' \in [Conns -> Seq(Frames)]
    BY <1>7, <2>3, SentTyped DEF Produce, TypeOK
  <2> QED BY <1>7, <2>2, <2>4 DEF Produce, TypeOK
<1>8. CASE Finish
  <2>1. \/ \E outcome \in {"served", "failed"} : job' = [job EXCEPT !.outcome = outcome]
        \/ job' = [job EXCEPT !.outcome = "served", !.held = FALSE]
    BY <1>8 DEF Finish
  <2>2. job' \in Jobs /\ job.produced \in Nat
    BY <2>1 DEF TypeOK
  <2>3. <<[t |-> "complete", seq |-> job.produced, ok |-> TRUE]>> \in Seq(Frames)
    <3>1. [t |-> "complete", seq |-> job.produced, ok |-> TRUE] \in Frames
      BY <2>2 DEF Frames
    <3> QED BY <3>1
  <2>4. up' \in [Conns -> Seq(Frames)]
    BY <1>8, <2>3, SentTyped DEF Finish, TypeOK
  <2> QED BY <1>8, <2>2, <2>4 DEF Finish, TypeOK
<1>9. CASE Drain
  <2>1. link \in Conns /\ Send(Rest)
    BY <1>9 DEF Drain, Serving, TypeOK, Rest
  <2>2. up' \in [Conns -> Seq(Frames)]
    BY <2>1, Sent, Drained
  <2>3. job' \in Jobs
    BY <1>9 DEF Drain, Finished, TypeOK
  <2> QED BY <1>9, <2>2, <2>3 DEF Drain, TypeOK
<1> QED BY <1>1, <1>2, <1>3, <1>4, <1>5, <1>6, <1>7, <1>8, <1>9 DEF Provider

LEMMA NextTyped ==
  ASSUME TypeOK, JobInv, Next
  PROVE  TypeOK'
<1>1. job.sent <= job.produced
  BY DEF JobInv
<1> QED BY <1>1, AdvisorTyped, ConnectTyped, ClockTyped, ProviderTyped DEF Next

-----------------------------------------------------------------------------
(* How the job, the session and the queues of frames evolve in a step.     *)

JobGrows(j, k) ==
  /\ j.produced <= k.produced
  /\ j.outcome # "running" => k.outcome = j.outcome /\ k.produced = j.produced
  /\ IsFresh(k) => IsFresh(j)

SessionGrows(s, t) ==
  s.next <= t.next /\ (s.status # "none" => t.status # "none" /\ t.resumable = s.resumable)

(* Frames of a queue are consumed at its head or lost at its end.          *)
Shrinks(old, new) ==
  /\ Len(new) <= Len(old)
  /\ \A i \in 1..Len(new) : \E j \in i..Len(old) : new[i] = old[j]

LEMMA TakenShrinks ==
  ASSUME TypeOK, NEW c \in Conns, NEW type, Take(c, type)
  PROVE  \A d \in Conns : Shrinks(up[d], up'[d])
<1>1. ASSUME NEW d \in Conns PROVE Shrinks(up[d], up'[d])
  <2>1. CASE d = c
    <3>1. /\ Len(up[d]) \in Nat /\ Len(up'[d]) = Len(up[d]) - 1
          /\ \A i \in 1..Len(up'[d]) :
               i + 1 \in 1..Len(up[d]) /\ up'[d][i] = up[d][i + 1]
      BY <2>1, Taken
    <3>2. \A i \in 1..Len(up'[d]) : i + 1 \in i..Len(up[d])
      BY <3>1
    <3> QED BY <3>1, <3>2 DEF Shrinks
  <2>2. CASE d # c
    BY <2>2, Taken, Typing DEF Shrinks
  <2> QED BY <2>1, <2>2
<1> QED BY <1>1

LEMMA CutShrinks ==
  ASSUME TypeOK, NEW c \in Conns, NEW n \in 0..Len(up[c]),
         up' = [up EXCEPT ![c] = SubSeq(@, 1, n)]
  PROVE  \A d \in Conns : Shrinks(up[d], up'[d])
<1>1. ASSUME NEW d \in Conns PROVE Shrinks(up[d], up'[d])
  <2>1. CASE d = c
    BY <2>1, Cut, Typing DEF Shrinks
  <2>2. CASE d # c
    BY <2>2, Cut, Typing DEF Shrinks
  <2> QED BY <2>1, <2>2
<1> QED BY <1>1

LEMMA KeptShrinks ==
  ASSUME TypeOK, up' = up
  PROVE  \A d \in Conns : Shrinks(up[d], up'[d])
BY Typing DEF Shrinks

LEMMA ShrinkKeepsNoRegister ==
  ASSUME NEW old \in Seq(Frames), NEW new \in Seq(Frames), Shrinks(old, new), NoRegister(old)
  PROVE  NoRegister(new)
BY LenProperties DEF Shrinks, NoRegister

LEMMA GoodUpStable ==
  ASSUME NEW f \in Frames, NEW j \in Jobs, NEW k \in Jobs, JobGrows(j, k), GoodUp(f, j)
  PROVE  GoodUp(f, k)
<1>1. f.t = "chunk" => f.seq \in Nat
  BY DEF Frames
<1> QED BY <1>1 DEF JobGrows, GoodUp, IsFresh, Jobs

LEMMA FramesShrink ==
  ASSUME TypeOK, UpInv, TypeOK', JobGrows(job, job'),
         \A d \in Conns : Shrinks(up[d], up'[d])
  PROVE  /\ UpInv'
         /\ \A d \in Conns : NoRegister(up[d]) => NoRegister(up'[d])
<1>1. job \in Jobs /\ job' \in Jobs
  BY DEF TypeOK, Jobs
<1>2. \A d \in Conns : up[d] \in Seq(Frames) /\ up'[d] \in Seq(Frames)
  BY DEF TypeOK
<1>3. ASSUME NEW d \in Conns, NEW i \in 1..Len(up'[d])
      PROVE  GoodUp(up'[d][i], job') /\ (up'[d][i].t = "register" => i = 1)
  <2>1. Len(up'[d]) \in Nat /\ Len(up[d]) \in Nat
    BY <1>2, LenProperties
  <2>2. PICK j \in i..Len(up[d]) : up'[d][i] = up[d][j]
    BY DEF Shrinks
  <2>3. j \in 1..Len(up[d])
    BY <2>1
  <2>4. GoodUp(up[d][j], job) /\ (up[d][j].t = "register" => j = 1) /\ up[d][j] \in Frames
    BY <2>3, Typing DEF UpInv
  <2>5. GoodUp(up[d][j], job')
    BY <1>1, <2>4, GoodUpStable
  <2> QED BY <2>1, <2>2, <2>4, <2>5
<1>4. UpInv'
  BY <1>3 DEF UpInv
<1> QED BY <1>2, <1>4, ShrinkKeepsNoRegister

LEMMA FramesSent ==
  ASSUME TypeOK, UpInv, TypeOK', JobGrows(job, job'), link \in Conns,
         NEW frames \in Seq(Frames), Send(frames),
         \A i \in 1..Len(frames) : GoodUp(frames[i], job') /\ frames[i].t # "register"
  PROVE  /\ UpInv'
         /\ \A d \in Conns : NoRegister(up[d]) => NoRegister(up'[d])
<1>1. job \in Jobs /\ job' \in Jobs
  BY DEF TypeOK, Jobs
<1>2. ASSUME NEW d \in Conns, NEW i \in 1..Len(up'[d])
      PROVE  \/ i \in 1..Len(up[d]) /\ up'[d][i] = up[d][i]
             \/ GoodUp(up'[d][i], job') /\ up'[d][i].t # "register"
  <2>1. CASE d = link
    BY <2>1, Sent
  <2>2. CASE d # link
    BY <2>2, Sent
  <2> QED BY <2>1, <2>2
<1>3. ASSUME NEW d \in Conns, NEW i \in 1..Len(up'[d])
      PROVE  GoodUp(up'[d][i], job') /\ (up'[d][i].t = "register" => i = 1)
  <2>1. CASE i \in 1..Len(up[d]) /\ up'[d][i] = up[d][i]
    <3>1. GoodUp(up[d][i], job) /\ (up[d][i].t = "register" => i = 1) /\ up[d][i] \in Frames
      BY <2>1, Typing DEF UpInv
    <3> QED BY <1>1, <2>1, <3>1, GoodUpStable
  <2> QED BY <1>2, <2>1
<1>4. UpInv'
  BY <1>3 DEF UpInv
<1>5. ASSUME NEW d \in Conns, NoRegister(up[d]) PROVE NoRegister(up'[d])
  BY <1>2, <1>5 DEF NoRegister
<1> QED BY <1>4, <1>5

(* With the job past its dispatch no request is under way, and what the    *)
(* frames to the provider say survives any step.                           *)
LEMMA DownShrinks ==
  ASSUME TypeOK, DownInv, TypeOK', ~Fresh, JobGrows(job, job'), SessionGrows(session, session'),
         \A d \in Conns : Shrinks(down[d], down'[d])
  PROVE  DownInv'
<1>1. ASSUME NEW d \in Conns, NEW i \in 1..Len(down'[d])
      PROVE  /\ session'.status # "none"
             /\ GoodDown(down'[d][i], session'.next, job')
             /\ down'[d][i].t # "request"
  <2>1. down'[d] \in Seq(Frames) /\ Len(down'[d]) \in Nat /\ Len(down[d]) \in Nat
    BY Typing, LenProperties DEF TypeOK
  <2>2. PICK j \in i..Len(down[d]) : down'[d][i] = down[d][j]
    BY <1>1 DEF Shrinks
  <2>3. j \in 1..Len(down[d])
    BY <2>1
  <2>4. /\ session.status # "none" /\ GoodDown(down[d][j], session.next, job)
        /\ down[d][j].t # "request" /\ down[d][j] \in Frames
    BY <2>3, Typing DEF DownInv
  <2>5. GoodDown(down[d][j], session'.next, job')
    <3>1. CASE down[d][j].t \in {"ack", "result"}
      <4>1. down[d][j].next \in Nat /\ session.next \in Nat /\ session'.next \in Nat
        BY <2>4, <3>1 DEF Frames, TypeOK
      <4> QED BY <2>4, <3>1, <4>1 DEF GoodDown, JobGrows, SessionGrows, Fresh
    <3> QED BY <3>1 DEF GoodDown
  <2> QED BY <2>2, <2>4, <2>5 DEF SessionGrows
<1> QED BY <1>1 DEF DownInv

LEMMA DownReplied ==
  ASSUME TypeOK, DownInv, TypeOK', ~Fresh, JobGrows(job, job'), SessionGrows(session, session'),
         session'.status # "none",
         NEW c \in Conns, NEW frame \in Frames, Reply(c, frame),
         frame.t \in {"ack", "result"}, frame.next <= session'.next
  PROVE  DownInv'
<1>1. ~IsFresh(job')
  BY DEF JobGrows, Fresh
<1>2. ASSUME NEW d \in Conns, NEW i \in 1..Len(down'[d])
      PROVE  /\ GoodDown(down'[d][i], session'.next, job')
             /\ down'[d][i].t # "request"
  <2>1. CASE i \in 1..Len(down[d]) /\ down'[d][i] = down[d][i]
    <3>1. /\ GoodDown(down[d][i], session.next, job)
          /\ down[d][i].t # "request" /\ down[d][i] \in Frames
      BY <2>1, Typing DEF DownInv
    <3>2. CASE down[d][i].t \in {"ack", "result"}
      <4>1. down[d][i].next \in Nat /\ session.next \in Nat /\ session'.next \in Nat
        BY <3>1, <3>2 DEF Frames, TypeOK
      <4> QED BY <1>1, <2>1, <3>1, <3>2, <4>1 DEF GoodDown, SessionGrows
    <3> QED BY <2>1, <3>1, <3>2 DEF GoodDown
  <2>2. CASE down'[d][i] = frame
    BY <1>1, <2>2 DEF GoodDown
  <2> QED BY <2>1, <2>2, Replied
<1> QED BY <1>2 DEF DownInv

(* A step that leaves the frames to the provider and the dispatch alone.   *)
LEMMA DownKept ==
  ASSUME TypeOK, DownInv, TypeOK', JobGrows(job, job'), SessionGrows(session, session'),
         down' = down, link' = link, Fresh' = Fresh,
         \A d \in Conns : NoRegister(up[d]) => NoRegister(up'[d])
  PROVE  DownInv'
<1>1. ASSUME NEW d \in Conns, NEW i \in 1..Len(down[d])
      PROVE  /\ session'.status # "none"
             /\ GoodDown(down[d][i], session'.next, job')
             /\ down[d][i].t = "request" =>
                  Fresh' /\ Len(down[d]) = 1 /\ link' = d /\ NoRegister(up'[d])
  <2>1. /\ session.status # "none" /\ GoodDown(down[d][i], session.next, job)
        /\ down[d][i] \in Frames
        /\ down[d][i].t = "request" =>
             Fresh /\ Len(down[d]) = 1 /\ link = d /\ NoRegister(up[d])
    BY Typing DEF DownInv
  <2>2. GoodDown(down[d][i], session'.next, job')
    <3>1. CASE down[d][i].t \in {"ack", "result"}
      <4>1. down[d][i].next \in Nat /\ session.next \in Nat /\ session'.next \in Nat
        BY <2>1, <3>1 DEF Frames, TypeOK
      <4> QED BY <2>1, <3>1, <4>1 DEF GoodDown, JobGrows, SessionGrows, Fresh
    <3> QED BY <3>1 DEF GoodDown
  <2> QED BY <2>1, <2>2 DEF SessionGrows
<1> QED BY <1>1 DEF DownInv

LEMMA ReceivedShrinks ==
  ASSUME TypeOK, NEW type, Receive(type)
  PROVE  \A d \in Conns : Shrinks(down[d], down'[d])
<1>1. ASSUME NEW d \in Conns PROVE Shrinks(down[d], down'[d])
  <2>1. CASE d = link
    <3>1. /\ Len(down[d]) \in Nat /\ Len(down'[d]) = Len(down[d]) - 1
          /\ \A i \in 1..Len(down'[d]) :
               i + 1 \in 1..Len(down[d]) /\ down'[d][i] = down[d][i + 1]
      BY <2>1, Received
    <3>2. \A i \in 1..Len(down'[d]) : i + 1 \in i..Len(down[d])
      BY <3>1
    <3> QED BY <3>1, <3>2 DEF Shrinks
  <2>2. CASE d # link
    BY <2>2, Received, Typing DEF Shrinks
  <2> QED BY <2>1, <2>2
<1> QED BY <1>1

-----------------------------------------------------------------------------
(* Steps of the advisor keep the invariant.                                *)

Inv == SessionInv /\ JobInv /\ UpInv /\ DownInv /\ RegistryInv /\ LegacyInv

LEMMA NoStepOfJob ==
  ASSUME TypeOK, job' = job
  PROVE  JobGrows(job, job') /\ Fresh' = Fresh
BY DEF JobGrows, TypeOK, Fresh, IsFresh

(* A detached session closes or stays: its chunks and its dispatch remain. *)
LEMMA DetachedInv ==
  ASSUME TypeOK, SessionInv, DetachForMachine
  PROVE  /\ SessionInv'
         /\ session'.status = session.status \/ (Live /\ session'.status = "gone")
         /\ session'.next = session.next /\ session'.resumable = session.resumable
         /\ heard'.chunks = heard.chunks
         /\ SessionGrows(session, session')
         /\ ~session.resumable => ~Live'
<1>1. CASE session' = session /\ heard' = heard /\ (~Live \/ session.detached)
  <2>1. SessionInv' /\ (~session.resumable => ~Live')
    BY <1>1 DEF SessionInv, OneTimer, Live
  <2>2. session.next \in Nat
    BY DEF TypeOK
  <2>3. /\ session'.status = session.status /\ session'.next = session.next
        /\ session'.resumable = session.resumable /\ heard'.chunks = heard.chunks
    BY <1>1
  <2>4. SessionGrows(session, session')
    BY <2>2, <2>3 DEF SessionGrows
  <2> QED BY <2>1, <2>3, <2>4
<1>2. CASE /\ Live /\ ~session.detached /\ session.resumable /\ heard' = heard
           /\ session' = [session EXCEPT !.detached = TRUE, !.timers = {"grace"}]
  <2>1. /\ session'.status = session.status /\ session'.next = session.next
        /\ session'.resumable = session.resumable /\ session'.detached = TRUE
        /\ session'.timers = {"grace"} /\ session.next \in Nat
    BY <1>2 DEF TypeOK
  <2>2. SessionInv'
    BY <1>2, <2>1 DEF SessionInv, OneTimer, Live
  <2>3. SessionGrows(session, session')
    BY <2>1 DEF SessionGrows
  <2> QED BY <1>2, <2>1, <2>2, <2>3
<1>3. CASE Live /\ ~session.detached /\ ~session.resumable /\ Close("error")
  BY <1>3 DEF Close, SessionInv, OneTimer, Live, SessionGrows, TypeOK
<1> QED BY <1>1, <1>2, <1>3 DEF DetachForMachine

LEMMA ClosedInv ==
  ASSUME TypeOK, SessionInv, Live, NEW why \in {"error", "left"}, Close(why)
  PROVE  /\ SessionInv' /\ session'.status = "gone"
         /\ session'.next = session.next /\ session'.resumable = session.resumable
         /\ heard'.chunks = heard.chunks
         /\ SessionGrows(session, session')
BY DEF Close, SessionInv, OneTimer, Live, SessionGrows, TypeOK

LEMMA EmptyQueue ==
  ASSUME NEW queue, Len(queue) = 0
  PROVE  NoRegister(queue) /\ \A n : Continues(queue, n)
BY DEF NoRegister, Continues

LEMMA ShortQueue ==
  ASSUME NEW queue \in Seq(Frames), Len(queue) <= 1
  PROVE  NoRegister(queue) \/ Len(queue) = 1
<1>1. Len(queue) \in Nat
  BY LenProperties
<1>2. Len(queue) = 0 \/ Len(queue) = 1
  BY <1>1
<1> QED BY <1>2, EmptyQueue

LEMMA JobInvKept ==
  ASSUME TypeOK, JobInv, TypeOK', job' = job, SessionGrows(session, session'),
         heard'.chunks = heard.chunks
  PROVE  JobInv'
<1>1. session.next \in Nat /\ session'.next \in Nat /\ job.acked \in Nat
  BY DEF TypeOK
<1> QED BY <1>1 DEF JobInv, SessionGrows, Fresh

LEMMA RegistryKept ==
  ASSUME TypeOK, RegistryInv, TypeOK', registry' \in {registry, NoConn},
         \A d \in Conns : NoRegister(up[d]) => NoRegister(up'[d])
  PROVE  RegistryInv'
BY DEF RegistryInv, TypeOK

(* What is left to show of a legacy session is that the registered queue   *)
(* carries on.                                                             *)
LEMMA LegacyKept ==
  ASSUME TypeOK, LegacyInv, TypeOK', job' = job, link' = link,
         session'.status # "none" =>
           session.status # "none" /\ session'.resumable = session.resumable,
         \A d \in Conns : Shrinks(up[d], up'[d]),
         Live' /\ ~session.resumable /\ registry' # NoConn =>
           /\ Continues(up'[registry'], Len(heard'.chunks))
           /\ job.held /\ link = registry' =>
                job.produced = Len(heard'.chunks) + Len(up'[link])
  PROVE  LegacyInv'
<1> SUFFICES ASSUME session'.status # "none", ~session'.resumable
             PROVE  /\ job.held => Serving' /\ NoRegister(up'[link]) /\ ~Finished'
                    /\ \A c \in Conns : NoRegister(up'[c]) \/ Len(up'[c]) = 1
                    /\ Live' /\ registry' # NoConn =>
                         Continues(up'[registry'], Len(heard'.chunks))
                    /\ Live' /\ job.held /\ link = registry' =>
                         job.produced = Len(heard'.chunks) + Len(up'[link])
  BY DEF LegacyInv
<1>1. /\ job.held => Serving /\ NoRegister(up[link]) /\ ~Finished
      /\ \A c \in Conns : NoRegister(up[c]) \/ Len(up[c]) = 1
  BY DEF LegacyInv
<1>2. \A c \in Conns : up[c] \in Seq(Frames) /\ up'[c] \in Seq(Frames)
  BY DEF TypeOK
<1>3. \A c \in Conns : NoRegister(up[c]) => NoRegister(up'[c])
  BY <1>2, ShrinkKeepsNoRegister
<1>4. job.held => Serving' /\ NoRegister(up'[link]) /\ ~Finished' /\ link # NoConn
  BY <1>1, <1>3 DEF Serving, Finished, TypeOK
<1>5. ASSUME NEW c \in Conns PROVE NoRegister(up'[c]) \/ Len(up'[c]) = 1
  <2>1. CASE Len(up[c]) = 1
    <3>1. Len(up'[c]) <= 1
      BY <2>1 DEF Shrinks
    <3> QED BY <1>2, <3>1, ShortQueue
  <2> QED BY <1>1, <1>3, <2>1
<1> QED BY <1>4, <1>5

(* A socket's queue that is not the registered one may shrink freely.      *)
LEMMA LegacyElsewhere ==
  ASSUME TypeOK, LegacyInv, TypeOK', job' = job, link' = link,
         session'.status # "none" =>
           session.status # "none" /\ session'.resumable = session.resumable,
         \A d \in Conns : Shrinks(up[d], up'[d]),
         Live' /\ ~session.resumable /\ registry' # NoConn =>
           /\ Live /\ heard'.chunks = heard.chunks
           /\ registry' = registry /\ up'[registry] = up[registry]
  PROVE  LegacyInv'
<1>1. ASSUME Live', ~session.resumable, registry' # NoConn
      PROVE  /\ Continues(up'[registry'], Len(heard'.chunks))
             /\ job.held /\ link = registry' =>
                  job.produced = Len(heard'.chunks) + Len(up'[link])
  <2>1. session.status # "none"
    BY <1>1 DEF Live
  <2> QED BY <1>1, <2>1 DEF LegacyInv
<1> QED BY <1>1, LegacyKept

LEMMA OnRegisterKeeps ==
  ASSUME IndInv, TypeOK', NEW c \in Conns, OnRegister(c)
  PROVE  Inv'
<1> USE DEF IndInv
<1>1. Take(c, "register") /\ job' = job /\ link' = link /\ registry' = c /\ down' = down
  BY DEF OnRegister
<1>2. JobGrows(job, job') /\ Fresh' = Fresh /\ \A d \in Conns : Shrinks(up[d], up'[d])
  BY <1>1, NoStepOfJob, TakenShrinks
<1>3. /\ SessionInv'
      /\ session'.status = session.status \/ (Live /\ session'.status = "gone")
      /\ session'.next = session.next /\ session'.resumable = session.resumable
      /\ heard'.chunks = heard.chunks /\ SessionGrows(session, session')
  <2>1. CASE registry \in {NoConn, c}
    <3>1. session' = session /\ heard' = heard /\ session.next \in Nat
      BY <2>1 DEF OnRegister, TypeOK
    <3>2. SessionInv'
      BY <3>1 DEF SessionInv, OneTimer, Live
    <3> QED BY <3>1, <3>2 DEF SessionGrows
  <2>2. CASE registry \notin {NoConn, c}
    <3>1. DetachForMachine
      BY <2>2 DEF OnRegister
    <3> QED BY <3>1, DetachedInv
  <2> QED BY <2>1, <2>2
<1>4. JobInv'
  BY <1>1, <1>3, JobInvKept
<1>5. UpInv' /\ \A d \in Conns : NoRegister(up[d]) => NoRegister(up'[d])
  BY <1>2, FramesShrink
<1>6. DownInv'
  BY <1>1, <1>2, <1>3, <1>5, DownKept
<1>7. NoRegister(up'[c])
  <2>1. ASSUME NEW i \in 1..Len(up'[c]) PROVE up'[c][i].t # "register"
    <3>1. i + 1 \in 1..Len(up[c]) /\ up'[c][i] = up[c][i + 1]
      BY <1>1, Taken
    <3>2. i \in Nat \ {0}
      BY <2>1, <1>1, Taken
    <3> QED BY <3>1, <3>2 DEF UpInv
  <2> QED BY <2>1 DEF NoRegister
<1>8. RegistryInv'
  BY <1>1, <1>7 DEF RegistryInv
<1>9. LegacyInv'
  <2>1. ASSUME ~session.resumable, session.status # "none" PROVE Len(up'[c]) = 0 /\ (job.held => link # c)
    <3>1. ~NoRegister(up[c])
      BY <1>1, Taken DEF NoRegister
    <3>2. Len(up[c]) = 1 /\ (job.held => link # c)
      BY <2>1, <3>1 DEF LegacyInv
    <3> QED BY <1>1, <3>2, Taken
  <2>2. ASSUME Live', ~session.resumable
        PROVE  /\ Continues(up'[registry'], Len(heard'.chunks))
               /\ job.held /\ link = registry' =>
                    job.produced = Len(heard'.chunks) + Len(up'[link])
    <3>1. session.status # "none"
      BY <1>3, <2>2 DEF Live
    <3> QED BY <1>1, <2>1, <2>2, <3>1, EmptyQueue
  <2>3. session'.status # "none" => session.status # "none"
    BY <1>3 DEF Live
  <2> QED BY <1>1, <1>2, <1>3, <2>2, <2>3, LegacyKept
<1> QED BY <1>3, <1>4, <1>5, <1>6, <1>8, <1>9 DEF Inv

(* The steps that consume or lose frames without reading the output, open  *)
(* or close the registry's slot, or end the session.                       *)
LEMMA QuietKeeps ==
  ASSUME IndInv, TypeOK', job' = job, link' = link, down' = down,
         SessionInv', SessionGrows(session, session'), heard'.chunks = heard.chunks,
         session'.status # "none" =>
           session.status # "none" /\ session'.resumable = session.resumable,
         \A d \in Conns : Shrinks(up[d], up'[d]),
         registry' \in {registry, NoConn},
         Live' /\ ~session.resumable /\ registry' # NoConn =>
           Live /\ up'[registry] = up[registry]
  PROVE  Inv'
<1> USE DEF IndInv
<1>1. JobGrows(job, job') /\ Fresh' = Fresh
  BY NoStepOfJob
<1>2. JobInv'
  BY JobInvKept
<1>3. UpInv' /\ \A d \in Conns : NoRegister(up[d]) => NoRegister(up'[d])
  BY <1>1, FramesShrink
<1>4. DownInv'
  BY <1>1, <1>3, DownKept
<1>5. RegistryInv'
  BY <1>3, RegistryKept
<1>6. LegacyInv'
  BY LegacyElsewhere
<1> QED BY <1>2, <1>3, <1>4, <1>5, <1>6 DEF Inv

LEMMA SessionKept ==
  ASSUME TypeOK, SessionInv, session' = session, heard' = heard
  PROVE  SessionInv' /\ SessionGrows(session, session') /\ Live' = Live
<1>1. session.next \in Nat
  BY DEF TypeOK
<1> QED BY <1>1 DEF SessionInv, OneTimer, Live, SessionGrows

LEMMA ClosingQuietKeeps ==
  ASSUME IndInv, TypeOK', NEW c \in Conns,
         RefuseRegister(c) \/ DropFrame(c) \/ HangUp(c)
  PROVE  Inv'
<1> USE DEF IndInv
<1>1. /\ session' = session /\ heard' = heard /\ job' = job /\ link' = link
      /\ down' = down /\ registry' = registry
  BY DEF RefuseRegister, DropFrame, HangUp
<1>2. SessionInv' /\ SessionGrows(session, session') /\ Live' = Live
  BY <1>1, SessionKept
<1>3. CASE RefuseRegister(c)
  <2>1. Take(c, "register")
    BY <1>3 DEF RefuseRegister
  <2>2. c # registry
    BY <2>1, Taken, StreamAssumption DEF RegistryInv, NoRegister
  <2>3. registry # NoConn => registry \in Conns \ {c}
    BY <2>2 DEF TypeOK
  <2>4. registry # NoConn => up'[registry] = up[registry]
    BY <2>1, <2>3, Taken
  <2> QED BY <1>1, <1>2, <2>1, <2>4, TakenShrinks, QuietKeeps
<1>4. CASE DropFrame(c)
  <2>1. PICK type \in {"resume", "chunk", "complete"} : Take(c, type)
    BY <1>4 DEF DropFrame
  <2>2. c = registry => type # "resume" /\ ~Live
    <3>1. Head(up[c]).t = type
      BY <2>1, Taken
    <3> QED BY <1>4, <3>1 DEF DropFrame, OwnsRegistration, Take
  <2>3. c # registry /\ registry # NoConn => registry \in Conns \ {c}
    BY DEF TypeOK
  <2>4. c # registry /\ registry # NoConn => up'[registry] = up[registry]
    BY <2>1, <2>3, Taken
  <2> QED BY <1>1, <1>2, <2>1, <2>2, <2>4, TakenShrinks, QuietKeeps
<1>5. CASE HangUp(c)
  <2>1. up' = up
    BY <1>5 DEF HangUp
  <2> QED BY <1>1, <1>2, <2>1, KeptShrinks, QuietKeeps
<1> QED BY <1>3, <1>4, <1>5

LEMMA OnCloseKeeps ==
  ASSUME IndInv, TypeOK', NEW c \in Conns, OnClose(c)
  PROVE  Inv'
<1> USE DEF IndInv
<1>1. job' = job /\ link' = link /\ down' = down
  BY DEF OnClose
<1>2. \A d \in Conns : Shrinks(up[d], up'[d]) /\ (d # c => up'[d] = up[d])
  <2>1. CASE c = link
    <3>1. PICK n \in 0..Len(up[c]) : up' = [up EXCEPT ![c] = SubSeq(@, 1, n)]
      BY <2>1 DEF OnClose
    <3> QED BY <3>1, CutShrinks, Cut
  <2>2. CASE c # link
    BY <2>2, KeptShrinks DEF OnClose
  <2> QED BY <2>1, <2>2
<1>3. CASE registry = c
  <2>1. DetachForMachine /\ registry' = NoConn
    BY <1>3 DEF OnClose, OwnsRegistration
  <2>2. session'.status # "none" => session.status # "none"
    BY <2>1, DetachedInv DEF Live
  <2> QED BY <1>1, <1>2, <2>1, <2>2, DetachedInv, QuietKeeps
<1>4. CASE registry # c
  <2>1. session' = session /\ heard' = heard /\ registry' = registry
    BY <1>4 DEF OnClose, OwnsRegistration
  <2>2. registry # NoConn => up'[registry] = up[registry]
    BY <1>2, <1>4 DEF TypeOK
  <2> QED BY <1>1, <1>2, <2>1, <2>2, SessionKept, QuietKeeps
<1> QED BY <1>3, <1>4

LEMMA ClockKeeps ==
  ASSUME IndInv, TypeOK', Clock \/ ClientGone
  PROVE  Inv'
<1> USE DEF IndInv
<1>1. /\ job' = job /\ link' = link /\ down' = down /\ up' = up
      /\ registry' \in {registry, NoConn}
  BY DEF Clock, ClientGone, Sweep, IdleFires, GraceFires, TombstoneExpires
<1>2. \A d \in Conns : Shrinks(up[d], up'[d])
  BY <1>1, KeptShrinks
<1>3. CASE Sweep
  <2>1. session' = session /\ heard' = heard
    BY <1>3 DEF Sweep
  <2> QED BY <1>1, <1>2, <2>1, SessionKept, QuietKeeps
<1>4. CASE IdleFires \/ GraceFires \/ ClientGone
  <2>1. PICK why \in {"error", "left"} : Close(why)
    BY <1>4 DEF IdleFires, GraceFires, ClientGone
  <2>2. Live
    BY <1>4 DEF IdleFires, GraceFires, ClientGone
  <2>3. ~Live'
    BY <2>1, <2>2, ClosedInv DEF Live
  <2> QED BY <1>1, <1>2, <2>1, <2>2, <2>3, ClosedInv, QuietKeeps DEF Live
<1>5. CASE TombstoneExpires
  <2>1. /\ session.status = "done" /\ session'.status = "gone" /\ session.next \in Nat
        /\ session'.next = session.next /\ session'.resumable = session.resumable
        /\ session'.detached = session.detached /\ session'.timers = session.timers
        /\ heard' = heard
    BY <1>5 DEF TombstoneExpires, TypeOK
  <2>2. SessionInv' /\ SessionGrows(session, session') /\ ~Live'
    BY <2>1 DEF SessionInv, OneTimer, Live, SessionGrows
  <2> QED BY <1>1, <1>2, <2>1, <2>2, QuietKeeps
<1> QED BY <1>3, <1>4, <1>5 DEF Clock

(* The frames that carry the output. The head of the registered queue      *)
(* exists only when the job has reached the engine.                        *)
LEMMA HeadSpeaks ==
  ASSUME IndInv, NEW c \in Conns, NEW type \in {"resume", "chunk", "complete"}, Take(c, type)
  PROVE  /\ ~Fresh /\ session.status # "none" /\ Head(up[c]) \in Frames /\ Head(up[c]).t = type
         /\ GoodUp(Head(up[c]), job)
<1>1. 1 \in 1..Len(up[c]) /\ Head(up[c]) = up[c][1] /\ Head(up[c]).t = type
      /\ Head(up[c]) \in Frames
  BY Taken DEF IndInv
<1>2. GoodUp(Head(up[c]), job)
  BY <1>1 DEF IndInv, UpInv
<1> QED BY <1>1, <1>2 DEF GoodUp, Fresh, IndInv, JobInv

LEMMA AckKeepsDown ==
  ASSUME IndInv, TypeOK', ~Fresh, job' = job, SessionGrows(session, session'),
         session'.status # "none", link' = link, \A d \in Conns : Shrinks(up[d], up'[d]),
         \A d \in Conns : NoRegister(up[d]) => NoRegister(up'[d]),
         NEW c \in Conns, NEW next \in Nat, next <= session'.next, NEW completed \in BOOLEAN,
         Ack(c, next, completed)
  PROVE  DownInv'
<1> USE DEF IndInv
<1>1. JobGrows(job, job') /\ Fresh' = Fresh
  BY NoStepOfJob
<1>2. CASE session.resumable
  <2> DEFINE frame == [t |-> "ack", next |-> next, completed |-> completed]
  <2>1. frame \in Frames /\ frame.t = "ack" /\ frame.next = next
    BY DEF Frames
  <2>2. Reply(c, frame)
    BY <1>2 DEF Ack
  <2> HIDE DEF frame
  <2> QED BY <1>1, <2>1, <2>2, DownReplied
<1>3. CASE ~session.resumable
  BY <1>1, <1>3, DownKept DEF Ack
<1> QED BY <1>2, <1>3

LEMMA OnResumeKeeps ==
  ASSUME IndInv, TypeOK', NEW c \in Conns, OnResume(c)
  PROVE  Inv'
<1> USE DEF IndInv
<1>1. /\ Take(c, "resume") /\ registry = c /\ heard' = heard /\ registry' = registry
      /\ link' = link /\ job' = job
  BY DEF OnResume, OwnsRegistration
<1>2. /\ ~Fresh /\ session.status # "none" /\ Head(up[c]).t = "resume"
      /\ session.next \in Nat
  BY <1>1, HeadSpeaks DEF TypeOK
<1>3. JobGrows(job, job') /\ Fresh' = Fresh /\ \A d \in Conns : Shrinks(up[d], up'[d])
  BY <1>1, NoStepOfJob, TakenShrinks
<1>4. UpInv' /\ \A d \in Conns : NoRegister(up[d]) => NoRegister(up'[d])
  BY <1>3, FramesShrink
<1>5. ~session.resumable => ~Live
  <2>1. 1 \in 1..Len(up[c]) /\ up[c][1].t = "resume"
    BY <1>1, Taken
  <2> QED BY <1>1, <1>2, <2>1, StreamAssumption DEF LegacyInv, Continues
<1>6. /\ session'.status = session.status /\ session'.next = session.next
      /\ session'.resumable = session.resumable
      /\ \/ session'.detached = session.detached /\ session'.timers = session.timers
         \/ Live /\ ~session'.detached /\ session'.timers = {"idle"}
  <2>1. CASE session' = session
    BY <2>1
  <2>2. CASE Live /\ session' = Reattached
    BY <2>2 DEF Reattached, TypeOK
  <2> QED BY <2>1, <2>2 DEF OnResume
<1>7. SessionInv' /\ SessionGrows(session, session')
  <2>1. SessionInv'
    BY <1>1, <1>6 DEF SessionInv, OneTimer, Live
  <2> QED BY <1>2, <1>6, <2>1 DEF SessionGrows
<1>8. JobInv'
  BY <1>1, <1>7, JobInvKept
<1>9. DownInv'
  <2>1. PICK next \in {session.next, 0}, status \in {"resume", "completed", "rejected"} :
          Reply(c, [t |-> "result", status |-> status, next |-> next])
    BY DEF OnResume
  <2>2. /\ [t |-> "result", status |-> status, next |-> next] \in Frames
        /\ [t |-> "result", status |-> status, next |-> next].t = "result"
        /\ [t |-> "result", status |-> status, next |-> next].next = next
        /\ next <= session'.next
    BY <1>2, <1>6 DEF Frames
  <2>3. session'.status # "none"
    BY <1>2, <1>6
  <2> QED BY <1>2, <1>3, <1>7, <2>1, <2>2, <2>3, DownReplied
<1>10. RegistryInv'
  BY <1>1, <1>4, RegistryKept
<1>11. LegacyInv'
  BY <1>1, <1>2, <1>3, <1>5, <1>6, LegacyElsewhere DEF Live
<1> QED BY <1>4, <1>7, <1>8, <1>9, <1>10, <1>11 DEF Inv

(* What the session accepts is the next chunk, and one the job has made.   *)
LEMMA ChunkInOrder ==
  ASSUME IndInv, NEW c \in Conns, OnChunk(c), Accepts(Head(up[c]).seq)
  PROVE  Head(up[c]).seq = Len(heard.chunks) /\ Head(up[c]).seq < job.produced
<1> USE DEF IndInv
<1>1. Take(c, "chunk") /\ registry = c /\ Live
  BY DEF OnChunk, OwnsRegistration
<1>2. /\ Head(up[c]).t = "chunk" /\ GoodUp(Head(up[c]), job) /\ session.status # "none"
      /\ 1 \in 1..Len(up[c]) /\ Head(up[c]) = up[c][1]
  BY <1>1, HeadSpeaks, Taken
<1>3. CASE session.resumable
  BY <1>2, <1>3 DEF Accepts, SessionInv, GoodUp
<1>4. CASE ~session.resumable
  <2>1. Continues(up[c], Len(heard.chunks))
    BY <1>1, <1>2, <1>4, StreamAssumption DEF LegacyInv
  <2>2. up[c][1].seq = Len(heard.chunks) + 1 - 1 /\ Len(heard.chunks) \in Nat
    BY <1>2, <2>1, LenProperties DEF Continues, TypeOK
  <2>3. up[c][1].seq = Len(heard.chunks)
    BY <2>2
  <2> QED BY <1>2, <2>3 DEF GoodUp
<1> QED BY <1>3, <1>4

LEMMA OnChunkKeeps ==
  ASSUME IndInv, TypeOK', NEW c \in Conns, OnChunk(c)
  PROVE  Inv'
<1> USE DEF IndInv
<1> DEFINE seq == Head(up[c]).seq
<1>1. /\ Take(c, "chunk") /\ registry = c /\ registry' = registry /\ link' = link
      /\ job' = job /\ Live
  BY DEF OnChunk, OwnsRegistration
<1>2. ~Fresh /\ session.status # "none" /\ seq \in Nat /\ seq < job.produced
  <2>1. Head(up[c]) \in Frames /\ Head(up[c]).t = "chunk" /\ GoodUp(Head(up[c]), job)
    BY <1>1, HeadSpeaks
  <2>2. seq \in Nat
    BY <2>1 DEF Frames
  <2> QED BY <1>1, <2>1, <2>2, HeadSpeaks DEF GoodUp
<1>3. JobGrows(job, job') /\ Fresh' = Fresh /\ \A d \in Conns : Shrinks(up[d], up'[d])
  BY <1>1, NoStepOfJob, TakenShrinks
<1>4. UpInv' /\ \A d \in Conns : NoRegister(up[d]) => NoRegister(up'[d])
  BY <1>3, FramesShrink
<1>5. RegistryInv'
  BY <1>1, <1>4, RegistryKept
<1>6. CASE ~Accepts(seq)
  <2>0. session' = session /\ heard' = heard /\ session.resumable
        /\ Ack(c, session.next, FALSE) /\ session.next \in Nat
    BY <1>6 DEF OnChunk, Accepts, TypeOK
  <2>1. session' = session /\ heard' = heard /\ session.resumable
        /\ Ack(c, session.next, FALSE) /\ session.next \in Nat /\ session.next <= session'.next
    <3>1. session.next <= session'.next
      BY <2>0
    <3> QED BY <2>0, <3>1
  <2>2. SessionInv' /\ SessionGrows(session, session') /\ Live' = Live
    BY <2>1, SessionKept
  <2>3. JobInv'
    BY <1>1, <2>1, <2>2, JobInvKept
  <2>4. DownInv'
    BY <1>1, <1>2, <1>3, <1>4, <2>1, <2>2, AckKeepsDown
  <2>5. LegacyInv'
    BY <1>1, <1>2, <1>3, <2>1, LegacyElsewhere
  <2> QED BY <1>4, <1>5, <2>2, <2>3, <2>4, <2>5 DEF Inv
<1>7. CASE Accepts(seq)
  <2>1. heard.chunks \in Seq(Nat) /\ session.next \in Nat /\ Len(heard.chunks) \in Nat
        /\ job.produced \in Nat /\ job.acked \in Nat
    BY LenProperties DEF TypeOK
  <2>2. /\ heard'.chunks = Append(heard.chunks, seq) /\ heard'.end = heard.end
        /\ Ack(c, session.next + 1, FALSE)
    BY <1>7 DEF OnChunk, TypeOK
  <2>3. Len(heard'.chunks) = Len(heard.chunks) + 1
    BY <1>2, <2>1, <2>2, AppendProperties
  <2>4. /\ session'.status = session.status /\ session'.resumable = session.resumable
        /\ session'.detached = session.detached /\ session'.timers = session.timers
        /\ session'.next = IF session.resumable THEN session.next + 1 ELSE session.next
    <3>1. session' = IF session.resumable THEN [session EXCEPT !.next = @ + 1] ELSE session
      BY <1>7 DEF OnChunk
    <3> QED BY <3>1 DEF TypeOK
  <2>5. seq = Len(heard.chunks)
    BY <1>7, ChunkInOrder
  <2>6. SessionInv'
    <3>1. session'.resumable => session'.next = Len(heard'.chunks)
      BY <2>1, <2>3, <2>4 DEF SessionInv
    <3>2. Live' = Live
      BY <2>4 DEF Live
    <3>3. OneTimer'
      BY <2>4, <3>2 DEF SessionInv, OneTimer
    <3>4. session'.status # "none" /\ (session'.detached => session'.resumable)
          /\ (heard'.end = "none" <=> session'.status \in {"none", "live"})
      BY <1>2, <2>2, <2>4 DEF SessionInv
    <3> QED BY <3>1, <3>3, <3>4 DEF SessionInv
  <2>7. SessionGrows(session, session')
    BY <2>1, <2>4 DEF SessionGrows
  <2>8. JobInv'
    <3>1. Len(heard'.chunks) <= job'.produced
      BY <1>1, <1>2, <2>1, <2>3, <2>5
    <3>2. job'.acked <= session'.next
      BY <1>1, <2>1, <2>4 DEF JobInv
    <3> QED BY <1>1, <1>2, <1>3, <2>4, <3>1, <3>2 DEF JobInv
  <2>9. DownInv'
    <3>1. CASE session.resumable
      <4>1. session.next + 1 \in Nat /\ session.next + 1 <= session'.next
        BY <2>1, <2>4, <3>1
      <4> QED BY <1>1, <1>2, <1>3, <1>4, <2>2, <2>4, <2>7, <4>1, AckKeepsDown
    <3>2. CASE ~session.resumable
      BY <1>1, <1>3, <1>4, <2>2, <2>7, <3>2, DownKept DEF Ack
    <3> QED BY <3>1, <3>2
  <2>10. LegacyInv'
    <3>1. ASSUME ~session.resumable
          PROVE  /\ Continues(up'[c], Len(heard'.chunks))
                 /\ job.held /\ link = c => job.produced = Len(heard'.chunks) + Len(up'[c])
      <4>1. /\ Continues(up[c], Len(heard.chunks))
            /\ job.held /\ link = c => job.produced = Len(heard.chunks) + Len(up[c])
        BY <1>1, <1>2, <3>1, StreamAssumption DEF LegacyInv
      <4>2. /\ Len(up[c]) \in Nat \ {0} /\ Len(up'[c]) = Len(up[c]) - 1
            /\ \A i \in 1..Len(up'[c]) : i + 1 \in 1..Len(up[c]) /\ up'[c][i] = up[c][i + 1]
        BY <1>1, Taken
      <4>3. ASSUME NEW i \in 1..Len(up'[c])
            PROVE  up'[c][i].t \in {"chunk", "complete"}
                   /\ up'[c][i].seq = Len(heard'.chunks) + i - 1
        <5>1. up[c][i + 1].t \in {"chunk", "complete"}
              /\ up[c][i + 1].seq = Len(heard.chunks) + (i + 1) - 1
          BY <4>1, <4>2 DEF Continues
        <5> QED BY <2>1, <2>3, <4>2, <5>1
      <4>4. Len(heard.chunks) + Len(up[c]) = Len(heard'.chunks) + Len(up'[c])
        <5>1. Len(up[c]) \in Nat /\ Len(up'[c]) = Len(up[c]) - 1
          BY <4>2
        <5>2. \A a, b \in Nat : a + b = (a + 1) + (b - 1)
          OBVIOUS
        <5>3. Len(heard.chunks) \in Nat
          BY <2>1
        <5> QED BY <2>3, <5>1, <5>2, <5>3
      <4> QED BY <4>1, <4>3, <4>4 DEF Continues
    <3> QED BY <1>1, <1>2, <1>3, <2>4, <3>1, LegacyKept
  <2> QED BY <1>4, <1>5, <2>6, <2>8, <2>9, <2>10 DEF Inv
<1> QED BY <1>6, <1>7

LEMMA OnCompleteKeeps ==
  ASSUME IndInv, TypeOK', NEW c \in Conns, OnComplete(c)
  PROVE  Inv'
<1> USE DEF IndInv
<1>1. /\ Take(c, "complete") /\ registry = c /\ registry' = registry /\ link' = link
      /\ job' = job /\ Live /\ session.next \in Nat
  BY DEF OnComplete, OwnsRegistration, TypeOK
<1>2. ~Fresh /\ session.status # "none"
  BY <1>1, HeadSpeaks
<1>3. JobGrows(job, job') /\ Fresh' = Fresh /\ \A d \in Conns : Shrinks(up[d], up'[d])
  BY <1>1, NoStepOfJob, TakenShrinks
<1>4. UpInv' /\ \A d \in Conns : NoRegister(up[d]) => NoRegister(up'[d])
  BY <1>3, FramesShrink
<1>5. RegistryInv'
  BY <1>1, <1>4, RegistryKept
<1>6. /\ SessionInv' /\ SessionGrows(session, session') /\ heard'.chunks = heard.chunks
      /\ session'.next = session.next /\ session'.status # "none" /\ LegacyInv'
  <2>1. CASE session' = session /\ heard' = heard /\ session.resumable
    <3>1. SessionInv' /\ SessionGrows(session, session')
      BY <2>1, SessionKept
    <3>2. LegacyInv'
      BY <1>1, <1>2, <1>3, <2>1, LegacyElsewhere
    <3> QED BY <1>2, <2>1, <3>1, <3>2
  <2>2. CASE /\ session' = [session EXCEPT !.status = IF session.resumable THEN "done" ELSE "gone",
                                           !.timers = {}]
             /\ heard' = [heard EXCEPT !.end = IF Head(up[c]).ok THEN "served" ELSE "failed"]
    <3>1. /\ session'.status \in {"done", "gone"} /\ session'.timers = {}
          /\ session'.next = session.next /\ session'.resumable = session.resumable
          /\ session'.detached = session.detached
          /\ heard'.chunks = heard.chunks /\ heard'.end \in {"served", "failed"}
      BY <2>2 DEF TypeOK
    <3>2. SessionInv' /\ SessionGrows(session, session') /\ ~Live'
      BY <1>1, <3>1 DEF SessionInv, OneTimer, Live, SessionGrows
    <3>3. LegacyInv'
      BY <1>1, <1>2, <1>3, <3>1, <3>2, LegacyElsewhere
    <3> QED BY <3>1, <3>2, <3>3
  <2> QED BY <2>1, <2>2 DEF OnComplete, CompletesAt
<1>7. JobInv'
  BY <1>1, <1>6, JobInvKept
<1>8. DownInv'
  <2>1. PICK completed \in BOOLEAN : Ack(c, session.next, completed)
    BY DEF OnComplete
  <2>2. session.next <= session'.next
    BY <1>1, <1>6
  <2> QED BY <1>1, <1>2, <1>3, <1>4, <1>6, <2>1, <2>2, AckKeepsDown
<1> QED BY <1>4, <1>5, <1>6, <1>7, <1>8 DEF Inv

-----------------------------------------------------------------------------
(* The dispatch and a new socket keep the invariant.                       *)

(* Before the job reaches the engine a queue holds at most a registration. *)
LEMMA FreshQueues ==
  ASSUME TypeOK, UpInv, Fresh, NEW c \in Conns
  PROVE  Len(up[c]) \in {0, 1} /\ (NoRegister(up[c]) => Len(up[c]) = 0)
<1>1. Len(up[c]) \in Nat
  BY Typing
<1>2. \A i \in 1..Len(up[c]) : up[c][i].t = "register" /\ i = 1
  BY DEF UpInv, GoodUp, Fresh
<1>3. \A n \in Nat : n \notin {0, 1} => 2 \in 1..n
  OBVIOUS
<1>4. \A n \in Nat : n # 0 => 1 \in 1..n
  OBVIOUS
<1>5. Len(up[c]) \in {0, 1}
  <2> SUFFICES ASSUME Len(up[c]) \notin {0, 1} PROVE FALSE
    OBVIOUS
  <2>1. 2 \in 1..Len(up[c])
    BY <1>1, <1>3
  <2> QED BY <1>2, <2>1
<1>6. NoRegister(up[c]) => Len(up[c]) = 0
  BY <1>1, <1>2, <1>4 DEF NoRegister
<1> QED BY <1>5, <1>6

LEMMA DispatchKeeps ==
  ASSUME IndInv, TypeOK', Dispatch
  PROVE  Inv'
<1> USE DEF IndInv
<1>1. /\ session.status = "none" /\ registry \in Conns /\ job' = job /\ link' = link
      /\ up' = up /\ registry' = registry /\ heard' = heard
      /\ Reply(registry, [t |-> "request"])
  BY DEF Dispatch, TypeOK
<1>2. Fresh /\ session.next = 0 /\ ~session.detached /\ heard.chunks = <<>>
      /\ job.produced = 0
  BY <1>1 DEF JobInv, SessionInv
<1>3. /\ session'.status = "live" /\ session'.next = session.next
      /\ session'.detached = session.detached /\ session'.timers = {"idle"}
  <2>1. PICK resumable \in BOOLEAN :
          session' = [session EXCEPT !.status = "live", !.resumable = resumable,
                                     !.timers = {"idle"}]
    BY DEF Dispatch
  <2> QED BY <2>1 DEF TypeOK
<1>4. JobGrows(job, job') /\ Fresh' = Fresh /\ \A d \in Conns : Shrinks(up[d], up'[d])
  BY <1>1, NoStepOfJob, KeptShrinks
<1>5. SessionInv'
  <2>1. session'.next = Len(heard'.chunks)
    BY <1>1, <1>2, <1>3
  <2>2. OneTimer'
    BY <1>2, <1>3 DEF OneTimer, Live
  <2>3. heard'.end = "none"
    BY <1>1 DEF SessionInv
  <2> QED BY <1>2, <1>3, <2>1, <2>2, <2>3 DEF SessionInv
<1>6. SessionGrows(session, session')
  BY <1>1, <1>2, <1>3 DEF SessionGrows
<1>7. JobInv'
  BY <1>1, <1>6, JobInvKept
<1>8. UpInv' /\ \A d \in Conns : NoRegister(up[d]) => NoRegister(up'[d])
  BY <1>4, FramesShrink
<1>9. RegistryInv'
  BY <1>1, <1>8, RegistryKept
<1>10. DownInv'
  <2>1. \A d \in Conns : Len(down[d]) = 0
    <3>1. ASSUME NEW d \in Conns PROVE Len(down[d]) = 0
      <4>1. Len(down[d]) \in Nat
        BY Typing
      <4>2. 1 \notin 1..Len(down[d])
        BY <1>1 DEF DownInv
      <4> QED BY <4>1, <4>2
    <3> QED BY <3>1
  <2>2. [t |-> "request"] \in Frames /\ [t |-> "request"].t = "request"
    BY DEF Frames
  <2>3. ASSUME NEW d \in Conns, NEW i \in 1..Len(down'[d])
        PROVE  /\ d = registry /\ link = d /\ down'[d][i].t = "request" /\ Len(down'[d]) = 1
    <3>1. d = registry /\ link = d /\ down'[d][i].t = "request"
      BY <1>1, <2>1, <2>2, Replied
    <3>2. Len(down'[registry]) = Len(down[registry]) \/ Len(down'[registry]) = Len(down[registry]) + 1
      BY <1>1, <2>2, Replied
    <3>3. Len(down'[d]) # 0
      BY <2>3
    <3>4. Len(down[registry]) = 0
      BY <1>1, <2>1
    <3>5. Len(down'[d]) = 1
      BY <3>1, <3>2, <3>3, <3>4
    <3> QED BY <3>1, <3>5
  <2>4. NoRegister(up'[registry])
    BY <1>1, StreamAssumption DEF RegistryInv
  <2> QED BY <1>1, <1>2, <1>3, <1>4, <2>3, <2>4 DEF DownInv, GoodDown
<1>11. LegacyInv'
  <2>1. ~job'.held
    BY <1>1, <1>2 DEF Fresh, IsFresh
  <2>2. \A c \in Conns : NoRegister(up'[c]) \/ Len(up'[c]) = 1
    BY <1>1, <1>2, FreshQueues, EmptyQueue
  <2>3. Continues(up'[registry], Len(heard'.chunks))
    BY <1>1, <1>2, FreshQueues, EmptyQueue, StreamAssumption DEF RegistryInv
  <2> QED BY <1>1, <2>1, <2>2, <2>3 DEF LegacyInv
<1> QED BY <1>5, <1>7, <1>8, <1>9, <1>10, <1>11 DEF Inv

LEMMA ConnectKeeps ==
  ASSUME IndInv, TypeOK', NEW c \in Conns, Connect(c)
  PROVE  Inv'
<1> USE DEF IndInv
<1> DEFINE hello == <<[t |-> "register"]>> \o
                      IF Buffered THEN <<[t |-> "resume", seq |-> job.produced]>> ELSE <<>>
<1>1. /\ session' = session /\ heard' = heard /\ registry' = registry /\ job' = job
      /\ registry # c /\ link = NoConn /\ link' = c
  BY DEF Connect, OwnsRegistration, Serving
<1>2. up' = [up EXCEPT ![c] = hello] /\ down' = [down EXCEPT ![c] = <<>>]
  BY DEF Connect
<1>3. /\ Len(hello) = IF Buffered THEN 2 ELSE 1
      /\ hello[1] = [t |-> "register"]
      /\ Buffered => hello[2] = [t |-> "resume", seq |-> job.produced]
  <2> DEFINE a == <<[t |-> "register"]>>
             b == IF Buffered THEN <<[t |-> "resume", seq |-> job.produced]>> ELSE <<>>
  <2>1. [t |-> "register"] \in Frames /\ [t |-> "resume", seq |-> job.produced] \in Frames
    BY DEF Frames, TypeOK
  <2>2. /\ a \in Seq(Frames) /\ Len(a) = 1 /\ a[1] = [t |-> "register"]
        /\ b \in Seq(Frames) /\ Len(b) = IF Buffered THEN 1 ELSE 0
        /\ Buffered => b[1] = [t |-> "resume", seq |-> job.produced]
    BY <2>1
  <2> HIDE DEF a, b
  <2>3. /\ Len(a \o b) = Len(a) + Len(b)
        /\ \A i \in 1..Len(a) + Len(b) :
             (a \o b)[i] = IF i <= Len(a) THEN a[i] ELSE b[i - Len(a)]
    BY <2>2, ConcatProperties
  <2>4. hello = a \o b
    BY DEF a, b
  <2> HIDE DEF hello
  <2>5. CASE Buffered
    BY <2>2, <2>3, <2>4, <2>5
  <2>6. CASE ~Buffered
    <3>1. Len(a) + Len(b) = 1 /\ 1 \in 1..(Len(a) + Len(b))
      BY <2>2, <2>6
    <3>2. (a \o b)[1] = a[1]
      BY <2>2, <2>3, <3>1
    <3> QED BY <2>2, <2>3, <2>4, <2>6, <3>1, <3>2
  <2> QED BY <2>5, <2>6
<1> HIDE DEF hello
<1>4. /\ up'[c] = hello /\ \A d \in Conns \ {c} : up'[d] = up[d]
      /\ down'[c] = <<>> /\ \A d \in Conns \ {c} : down'[d] = down[d]
  BY <1>2 DEF TypeOK
<1>5. SessionInv' /\ SessionGrows(session, session')
  BY <1>1, SessionKept
<1>6. JobInv'
  BY <1>1, <1>5, JobInvKept
<1>7. ASSUME NEW i \in 1..Len(hello)
      PROVE  GoodUp(hello[i], job) /\ (hello[i].t = "register" => i = 1)
  <2>1. CASE Buffered
    <3>1. i \in 1..2 /\ hello[1] = [t |-> "register"]
          /\ hello[2] = [t |-> "resume", seq |-> job.produced]
      BY <1>3, <1>7, <2>1
    <3>2. ~IsFresh(job)
      BY <2>1 DEF Buffered, IsFresh
    <3>3. i = 1 \/ i = 2
      BY <3>1
    <3> QED BY <3>1, <3>2, <3>3 DEF GoodUp
  <2>2. CASE ~Buffered
    <3>1. i = 1 /\ hello[1] = [t |-> "register"]
      BY <1>3, <1>7, <2>2
    <3> QED BY <3>1 DEF GoodUp
  <2> QED BY <2>1, <2>2
<1>8. UpInv'
  <2>1. ASSUME NEW d \in Conns, NEW i \in 1..Len(up'[d])
        PROVE  GoodUp(up'[d][i], job) /\ (up'[d][i].t = "register" => i = 1)
    BY <1>4, <1>7 DEF UpInv
  <2> QED BY <1>1, <2>1 DEF UpInv
<1>9. DownInv'
  <2>1. Len(down'[c]) = 0
    BY <1>4
  <2>2. ASSUME NEW d \in Conns, NEW i \in 1..Len(down'[d])
        PROVE  /\ session.status # "none" /\ GoodDown(down'[d][i], session.next, job)
               /\ down'[d][i].t # "request"
    <3>1. d # c
      BY <2>1, <2>2
    <3> QED BY <1>1, <1>4, <3>1, StreamAssumption DEF DownInv
  <2> QED BY <1>1, <2>2 DEF DownInv
<1>10. RegistryInv'
  <2>1. registry # NoConn => registry \in Conns \ {c}
    BY <1>1 DEF TypeOK
  <2> QED BY <1>1, <1>4, <2>1 DEF RegistryInv
<1>11. LegacyInv'
  <2> SUFFICES ASSUME session.status # "none", ~session.resumable
               PROVE  LegacyInv'
    BY <1>1 DEF LegacyInv
  <2>1. ~job.held
    BY <1>1 DEF LegacyInv, Serving
  <2>2. Len(up'[c]) = 1
    BY <1>3, <1>4, <2>1 DEF Buffered
  <2>3. \A d \in Conns : NoRegister(up'[d]) \/ Len(up'[d]) = 1
    BY <1>4, <2>2 DEF LegacyInv
  <2>4. Live' /\ registry # NoConn => Continues(up'[registry], Len(heard.chunks))
    BY <1>1, <1>4 DEF LegacyInv, Live, TypeOK
  <2> QED BY <1>1, <2>1, <2>3, <2>4 DEF LegacyInv
<1> QED BY <1>5, <1>6, <1>8, <1>9, <1>10, <1>11 DEF Inv

-----------------------------------------------------------------------------
(* Steps of the provider keep the invariant.                               *)

LEMMA ProviderAlone ==
  ASSUME IndInv, Provider
  PROVE  /\ session' = session /\ heard' = heard /\ registry' = registry
         /\ SessionInv' /\ SessionGrows(session, session') /\ Live' = Live
<1>1. session' = session /\ heard' = heard /\ registry' = registry
  BY DEF Provider, LoseLink, RetentionExpires, Accept, Refuse, HandleResumeResult,
         Acknowledge, Produce, Finish, Panic, Drain
<1> QED BY <1>1, SessionKept DEF IndInv

(* A job in progress keeps its frames and the requester's stream, or ends. *)
LEMMA JobKeeps ==
  ASSUME IndInv, TypeOK', Provider, ~Fresh, JobGrows(job, job'), UpInv', JobInv',
         \A d \in Conns : NoRegister(up[d]) => NoRegister(up'[d]),
         link' = link, \A d \in Conns : Shrinks(down[d], down'[d]), LegacyInv'
  PROVE  Inv'
<1>1. SessionInv' /\ SessionGrows(session, session') /\ registry' = registry
  BY ProviderAlone
<1>2. DownInv'
  BY <1>1, DownShrinks DEF IndInv
<1>3. RegistryInv'
  BY <1>1, RegistryKept DEF IndInv
<1> QED BY <1>1, <1>2, <1>3 DEF Inv

(* No frame moves to the advisor and a legacy job stays as it is or ends.  *)
LEMMA JobSilent ==
  ASSUME IndInv, TypeOK', Provider, ~Fresh, JobGrows(job, job'), JobInv', up' = up,
         link' = link, \A d \in Conns : Shrinks(down[d], down'[d]),
         job'.held /\ ~session.resumable =>
           job.held /\ job'.outcome = job.outcome /\ job'.produced = job.produced
  PROVE  Inv'
<1> USE DEF IndInv
<1>1. /\ session' = session /\ heard' = heard /\ registry' = registry /\ Live' = Live
  BY ProviderAlone
<1>2. \A d \in Conns : Shrinks(up[d], up'[d])
  BY KeptShrinks
<1>3. UpInv' /\ \A d \in Conns : NoRegister(up[d]) => NoRegister(up'[d])
  BY <1>2, FramesShrink
<1>4. LegacyInv'
  BY <1>1 DEF LegacyInv, Serving, Finished
<1> QED BY <1>3, <1>4, JobKeeps

LEMMA SameQueues ==
  ASSUME TypeOK, down' = down
  PROVE  \A d \in Conns : Shrinks(down[d], down'[d])
BY Typing DEF Shrinks

LEMMA DroppedJob ==
  ASSUME IndInv, TypeOK', session' = session, heard' = heard, job.held, job' = Dropped
  PROVE  ~Fresh /\ JobGrows(job, job') /\ JobInv' /\ ~job'.held
<1>1. /\ job'.produced = job.produced /\ job'.acked = job.acked /\ job'.sent = job.sent
      /\ ~job'.held /\ job'.outcome # "running"
      /\ job.outcome # "running" => job'.outcome = job.outcome
      /\ job.produced \in Nat
  BY DEF Dropped, IndInv, TypeOK
<1>2. ~Fresh /\ ~Fresh'
  BY <1>1 DEF Fresh, IsFresh
<1>3. JobGrows(job, job')
  BY <1>1 DEF JobGrows, IsFresh
<1>4. JobInv'
  BY <1>1, <1>2 DEF JobInv, IndInv
<1> QED BY <1>1, <1>2, <1>3, <1>4

LEMMA EndingKeeps ==
  ASSUME IndInv, TypeOK', RetentionExpires \/ Panic
  PROVE  Inv'
<1>1. /\ job.held /\ job' = Dropped /\ session' = session /\ heard' = heard /\ up' = up
      /\ link' = link /\ down' = down /\ Provider
  BY DEF RetentionExpires, Panic, Buffered, Provider
<1> QED BY <1>1, DroppedJob, SameQueues, JobSilent DEF IndInv

(* The provider hears of the requester's progress.                         *)
LEMMA HeardBack ==
  ASSUME IndInv, NEW type \in {"ack", "result"}, Receive(type)
  PROVE  /\ ~Fresh /\ Head(down[link]).next \in Nat
         /\ Head(down[link]).next <= session.next
<1>1. link \in Conns /\ 1 \in 1..Len(down[link]) /\ Head(down[link]) = down[link][1]
      /\ Head(down[link]).t = type /\ Head(down[link]) \in Frames
  BY Received DEF IndInv
<1>2. Head(down[link]).next \in Nat
  BY <1>1 DEF Frames
<1>3. GoodDown(Head(down[link]), session.next, job)
  BY <1>1 DEF IndInv, DownInv
<1> QED BY <1>1, <1>2, <1>3 DEF GoodDown, Fresh

LEMMA AcknowledgedJob ==
  ASSUME IndInv, TypeOK', session' = session, heard' = heard, ~Fresh,
         NEW next \in Nat, next <= session.next, next <= job.produced,
         job'.held = job.held, job'.produced = job.produced, job'.outcome = job.outcome,
         job'.acked = next, job'.sent \in {next, HigherOf(job.sent, next)}
  PROVE  JobGrows(job, job') /\ JobInv'
<1>1. job.produced \in Nat /\ job.sent \in Nat
  BY DEF IndInv, TypeOK
<1>2. JobGrows(job, job') /\ ~Fresh'
  BY <1>1 DEF JobGrows, Fresh, IsFresh
<1>3. next <= job'.sent /\ job'.sent <= job.produced
  BY <1>1 DEF HigherOf, IndInv, JobInv
<1> QED BY <1>2, <1>3 DEF JobInv, IndInv

LEMMA HearingKeeps ==
  ASSUME IndInv, TypeOK', HandleResumeResult \/ Acknowledge
  PROVE  Inv'
<1> USE DEF IndInv
<1>1. /\ session' = session /\ heard' = heard /\ up' = up /\ link' = link /\ Provider
  BY DEF HandleResumeResult, Acknowledge, Provider
<1> DEFINE next == Head(down[link]).next
<1>2. PICK type \in {"ack", "result"} : Receive(type)
  BY DEF HandleResumeResult, Acknowledge
<1>3. ~Fresh /\ next \in Nat /\ next <= session.next
  BY <1>2, HeardBack
<1>4. \A d \in Conns : Shrinks(down[d], down'[d])
  BY <1>2, ReceivedShrinks
<1> HIDE DEF next
<1>5. \/ job' = job
      \/ job.held /\ job' = Dropped
      \/ /\ job'.held = job.held /\ job'.produced = job.produced /\ job'.outcome = job.outcome
         /\ next <= job.produced
         /\ job'.acked = next /\ job'.sent \in {next, HigherOf(job.sent, next)}
  <2>1. CASE HandleResumeResult
    <3>1. \/ job' = job
          \/ job.held /\ job' = Dropped
          \/ /\ next <= job.produced
             /\ job' = [AckChunks(next) EXCEPT !.sent = next, !.told = FALSE, !.attached = TRUE]
      BY <2>1 DEF HandleResumeResult, next
    <3>2. job' = [AckChunks(next) EXCEPT !.sent = next, !.told = FALSE, !.attached = TRUE]
          => /\ job'.held = job.held /\ job'.produced = job.produced
             /\ job'.outcome = job.outcome /\ job'.acked = next /\ job'.sent = next
      BY DEF AckChunks, TypeOK
    <3> QED BY <3>1, <3>2
  <2>2. CASE Acknowledge
    <3>1. \/ job' = job
          \/ job.held /\ job' = Dropped
          \/ /\ ~(next > job.produced)
             /\ job' = AckChunks(next)
      BY <2>2 DEF Acknowledge, next
    <3>2. ~(next > job.produced) => next <= job.produced
      BY <1>3 DEF TypeOK
    <3> QED BY <3>1, <3>2 DEF AckChunks, TypeOK
  <2> QED BY <2>1, <2>2
<1>6. CASE job' = job
  <2>1. JobGrows(job, job')
    BY <1>6, NoStepOfJob
  <2>2. JobInv'
    BY <1>1, <1>6, JobInvKept, SessionKept
  <2> QED BY <1>1, <1>3, <1>4, <1>6, <2>1, <2>2, JobSilent
<1>7. CASE job.held /\ job' = Dropped
  BY <1>1, <1>4, <1>7, DroppedJob, JobSilent
<1>8. CASE /\ job'.held = job.held /\ job'.produced = job.produced /\ job'.outcome = job.outcome
           /\ next <= job.produced
           /\ job'.acked = next /\ job'.sent \in {next, HigherOf(job.sent, next)}
  <2>1. JobGrows(job, job') /\ JobInv'
    BY <1>1, <1>3, <1>8, AcknowledgedJob
  <2> QED BY <1>1, <1>3, <1>4, <1>8, <2>1, JobSilent
<1> QED BY <1>5, <1>6, <1>7, <1>8

(* The request reaches a provider whose queue towards the advisor is empty. *)
LEMMA Requested ==
  ASSUME IndInv, TypeOK', Receive("request")
  PROVE  /\ Fresh /\ session.status # "none" /\ link \in Conns
         /\ Len(up[link]) = 0 /\ NoRegister(up[link])
         /\ job.produced = 0 /\ job.acked = 0 /\ job.sent = 0 /\ heard.chunks = <<>>
         /\ \A d \in Conns : \A i \in 1..Len(down'[d]) :
              down'[d][i].t \notin {"ack", "result", "request"}
<1> USE DEF IndInv
<1>1. link \in Conns /\ 1 \in 1..Len(down[link]) /\ down[link][1].t = "request"
  BY Received
<1>2. /\ session.status # "none" /\ Fresh /\ Len(down[link]) = 1 /\ NoRegister(up[link])
  BY <1>1 DEF DownInv
<1>3. Len(up[link]) = 0
  BY <1>1, <1>2, FreshQueues
<1>4. job.produced = 0 /\ job.acked = 0 /\ job.sent = 0 /\ heard.chunks = <<>>
  BY <1>2 DEF JobInv, TypeOK
<1>5. Len(down'[link]) = 0
  BY <1>1, <1>2, Received
<1>6. ASSUME NEW d \in Conns, NEW i \in 1..Len(down'[d])
      PROVE  down'[d][i].t \notin {"ack", "result", "request"}
  <2>1. d # link
    BY <1>5, <1>6
  <2>2. down'[d] = down[d]
    BY <2>1, Received
  <2> QED BY <1>2, <2>1, <2>2 DEF DownInv, GoodDown, Fresh
<1> QED BY <1>1, <1>2, <1>3, <1>4, <1>6

LEMMA AcceptKeeps ==
  ASSUME IndInv, TypeOK', Accept
  PROVE  Inv'
<1> USE DEF IndInv
<1>1. /\ Receive("request") /\ up' = up /\ link' = link /\ Provider
  BY DEF Accept, Provider
<1>2. /\ session' = session /\ heard' = heard /\ registry' = registry /\ SessionInv'
  BY <1>1, ProviderAlone
<1>3. /\ job'.held /\ job'.produced = job.produced /\ job'.acked = job.acked
      /\ job'.sent = job.sent /\ job'.outcome = job.outcome
  BY DEF Accept, TypeOK
<1>4. ~Fresh' /\ ~IsFresh(job')
  BY <1>3 DEF Fresh, IsFresh
<1>5. JobGrows(job, job')
  BY <1>3, <1>4 DEF JobGrows, TypeOK
<1>6. \A d \in Conns : Shrinks(up[d], up'[d])
  BY <1>1, KeptShrinks
<1>7. UpInv' /\ \A d \in Conns : NoRegister(up[d]) => NoRegister(up'[d])
  BY <1>5, <1>6, FramesShrink
<1>8. JobInv'
  <2>1. job'.outcome # "dropped"
    BY <1>1, <1>3, Requested DEF Fresh, IsFresh
  <2> QED BY <1>1, <1>2, <1>3, <1>4, <2>1, Requested DEF JobInv
<1>9. DownInv'
  BY <1>1, <1>2, Requested DEF DownInv, GoodDown
<1>10. RegistryInv'
  BY <1>2, <1>7, RegistryKept
<1>11. LegacyInv'
  <2>1. ~Finished'
    BY <1>1, <1>3, Requested DEF Fresh, IsFresh, Finished
  <2>2. Serving' /\ NoRegister(up'[link'])
    BY <1>1, Requested, StreamAssumption DEF Serving
  <2>3. job'.produced = Len(heard'.chunks) + Len(up'[link'])
    <3>1. job'.produced = 0 /\ Len(heard'.chunks) = 0 /\ Len(up'[link']) = 0
      BY <1>1, <1>2, <1>3, Requested
    <3> QED BY <3>1
  <2>4. Live' = Live
    BY <1>2 DEF Live
  <2> QED BY <1>1, <1>2, <2>1, <2>2, <2>3, <2>4 DEF LegacyInv
<1> QED BY <1>2, <1>7, <1>8, <1>9, <1>10, <1>11 DEF Inv

LEMMA RefuseKeeps ==
  ASSUME IndInv, TypeOK', Refuse
  PROVE  Inv'
<1> USE DEF IndInv
<1> DEFINE one == [t |-> "chunk", seq |-> 0]
           two == [t |-> "complete", seq |-> 1, ok |-> FALSE]
<1>1. /\ Receive("request") /\ Send(<<one, two>>) /\ link' = link /\ Provider
  BY DEF Refuse, Provider
<1>2. /\ session' = session /\ heard' = heard /\ registry' = registry /\ SessionInv'
      /\ Live' = Live
  BY <1>1, ProviderAlone
<1>3. /\ job'.held = job.held /\ job'.produced = 1 /\ job'.acked = job.acked
      /\ job'.sent = job.sent /\ job'.outcome = "failed"
  BY DEF Refuse, TypeOK
<1>4. ~Fresh' /\ ~IsFresh(job') /\ Fresh /\ job.outcome = "running" /\ ~job'.held
  BY <1>1, <1>3, Requested DEF Fresh, IsFresh
<1>5. JobGrows(job, job')
  <2>1. job.produced <= job'.produced
    BY <1>1, <1>3, Requested
  <2> QED BY <1>4, <2>1 DEF JobGrows
<1>6. one \in Frames /\ two \in Frames
  BY DEF Frames
<1>7. /\ <<one, two>> \in Seq(Frames) /\ Len(<<one, two>>) = 2
      /\ <<one, two>>[1] = one /\ <<one, two>>[2] = two
  BY <1>6
<1>8. /\ GoodUp(one, job') /\ GoodUp(two, job')
      /\ one.t = "chunk" /\ one.seq = 0 /\ two.t = "complete" /\ two.seq = 1
  <2>1. /\ one.t = "chunk" /\ one.seq = 0 /\ two.t = "complete" /\ two.seq = 1 /\ two.ok = FALSE
        /\ 0 < 1
    OBVIOUS
  <2>2. two.ok = (job'.outcome = "served")
    BY <1>3, <2>1
  <2> HIDE DEF one, two
  <2>3. GoodUp(one, job')
    BY <1>3, <1>4, <2>1 DEF GoodUp
  <2>4. GoodUp(two, job')
    BY <1>3, <1>4, <2>1, <2>2 DEF GoodUp
  <2> QED BY <2>1, <2>3, <2>4
<1> DEFINE frames == <<one, two>>
<1>9. frames \in Seq(Frames) /\ Len(frames) = 2 /\ Send(frames)
      /\ \A i \in 1..Len(frames) : /\ GoodUp(frames[i], job') /\ frames[i].t # "register"
                                   /\ frames[i].t \in {"chunk", "complete"}
                                   /\ frames[i].seq = i - 1
  <2>0. frames \in Seq(Frames) /\ Len(frames) = 2 /\ frames[1] = one /\ frames[2] = two
        /\ Send(frames)
    BY <1>1, <1>7
  <2> HIDE DEF one, two, frames
  <2>1. ASSUME NEW i \in 1..Len(frames)
        PROVE  (frames[i] = one /\ i = 1) \/ (frames[i] = two /\ i = 2)
    <3>1. i = 1 \/ i = 2
      BY <2>0
    <3> QED BY <2>0, <3>1
  <2>2. ASSUME NEW i \in 1..Len(frames)
        PROVE  /\ GoodUp(frames[i], job') /\ frames[i].t # "register"
               /\ frames[i].t \in {"chunk", "complete"}
               /\ frames[i].seq = i - 1
    BY <1>8, <2>1
  <2> QED BY <2>0, <2>2
<1> HIDE DEF frames, one, two
<1>10. UpInv' /\ \A d \in Conns : NoRegister(up[d]) => NoRegister(up'[d])
  BY <1>1, <1>5, <1>9, Requested, FramesSent
<1>11. JobInv'
  BY <1>1, <1>2, <1>3, <1>4, Requested DEF JobInv
<1>12. DownInv'
  BY <1>1, <1>2, Requested DEF DownInv, GoodDown
<1>13. RegistryInv'
  BY <1>2, <1>10, RegistryKept
<1>14. LegacyInv'
  <2> SUFFICES ASSUME session.status # "none", ~session.resumable
               PROVE  LegacyInv'
    BY <1>2 DEF LegacyInv
  <2>1. \A d \in Conns \ {link} : up'[d] = up[d]
    BY <1>1, <1>9, Requested, Sent
  <2>2. \A c \in Conns : NoRegister(up'[c]) \/ Len(up'[c]) = 1
    BY <1>1, <1>10, <2>1, Requested DEF LegacyInv
  <2>3. Continues(up'[link], Len(heard.chunks))
    <3>1. ASSUME NEW i \in 1..Len(up'[link])
          PROVE  up'[link][i].t \in {"chunk", "complete"} /\ up'[link][i].seq = i - 1
      <4>1. i \notin 1..Len(up[link]) /\ i - Len(up[link]) = i
        BY <1>1, <3>1, Requested, Sent, <1>9
      <4>2. i \in 1..Len(frames) /\ up'[link][i] = frames[i]
        BY <1>1, <1>9, <4>1, Requested, Sent
      <4> QED BY <1>9, <4>2
    <3>2. Len(heard.chunks) = 0
      BY <1>1, Requested
    <3> QED BY <3>1, <3>2 DEF Continues
  <2>4. Live /\ registry # NoConn => Continues(up'[registry], Len(heard.chunks))
    BY <2>1, <2>3 DEF LegacyInv, TypeOK
  <2> QED BY <1>2, <1>4, <2>2, <2>4 DEF LegacyInv
<1> QED BY <1>2, <1>10, <1>11, <1>12, <1>13, <1>14 DEF Inv

LEMMA LoseLinkKeeps ==
  ASSUME IndInv, TypeOK', LoseLink
  PROVE  Inv'
<1> USE DEF IndInv
<1>1. /\ link \in Conns /\ down' = [down EXCEPT ![link] = <<>>] /\ link' = NoConn
      /\ job' = Detached /\ Provider
  BY DEF LoseLink, Serving, Provider, TypeOK
<1>2. /\ session' = session /\ heard' = heard /\ registry' = registry /\ SessionInv'
      /\ SessionGrows(session, session') /\ Live' = Live
  BY <1>1, ProviderAlone
<1>3. PICK n \in 0..Len(up[link]) : up' = [up EXCEPT ![link] = SubSeq(@, 1, n)]
  BY DEF LoseLink
<1>4. \A d \in Conns : Shrinks(up[d], up'[d])
  BY <1>1, <1>3, CutShrinks
<1>5. /\ job'.produced = job.produced /\ job'.acked = job.acked
      /\ job'.sent \in {job.sent, job.acked}
      /\ job'.held => job' = job \/ (job.held /\ session.resumable /\ job'.outcome = job.outcome)
      /\ job.held /\ ~session.resumable => ~job'.held
      /\ ~job.held => job' = job
      /\ job.held => job'.held \/ job'.outcome # "running"
      /\ job.outcome # "running" => job'.outcome = job.outcome
  <2>1. CASE ~job.held
    BY <1>1, <2>1 DEF Detached
  <2>2. CASE job.held /\ session.resumable
    BY <1>1, <2>2 DEF Detached, TypeOK
  <2>3. CASE job.held /\ ~session.resumable
    BY <1>1, <2>3 DEF Detached, Dropped, TypeOK
  <2> QED BY <2>1, <2>2, <2>3
<1>6. Fresh' = Fresh /\ (IsFresh(job') => IsFresh(job))
  BY <1>5 DEF Fresh, IsFresh
<1>7. JobGrows(job, job')
  BY <1>5, <1>6 DEF JobGrows, TypeOK
<1>8. JobInv'
  BY <1>2, <1>5, <1>6 DEF JobInv, TypeOK
<1>9. UpInv' /\ \A d \in Conns : NoRegister(up[d]) => NoRegister(up'[d])
  BY <1>4, <1>7, FramesShrink
<1>10. DownInv'
  <2>1. Len(down'[link]) = 0 /\ \A d \in Conns \ {link} : down'[d] = down[d]
    BY <1>1 DEF TypeOK
  <2>2. ASSUME NEW d \in Conns, NEW i \in 1..Len(down'[d])
        PROVE  /\ session.status # "none" /\ GoodDown(down'[d][i], session.next, job')
               /\ down'[d][i].t # "request"
    <3>1. d # link /\ down'[d] = down[d]
      BY <2>1, <2>2
    <3> QED BY <1>6, <3>1 DEF DownInv, GoodDown
  <2> QED BY <1>2, <2>2 DEF DownInv
<1>11. RegistryInv'
  BY <1>2, <1>9, RegistryKept
<1>12. LegacyInv'
  <2> SUFFICES ASSUME session.status # "none", ~session.resumable
               PROVE  LegacyInv'
    BY <1>2 DEF LegacyInv
  <2>1. ~job'.held
    BY <1>5
  <2>2. ASSUME NEW c \in Conns PROVE NoRegister(up'[c]) \/ Len(up'[c]) = 1
    <3>1. CASE Len(up[c]) = 1
      <4>1. Len(up'[c]) <= 1
        BY <1>4, <3>1 DEF Shrinks
      <4>2. up'[c] \in Seq(Frames)
        BY DEF TypeOK
      <4> QED BY <4>1, <4>2, ShortQueue
    <3> QED BY <1>9, <3>1 DEF LegacyInv
  <2>3. ASSUME Live, registry # NoConn PROVE Continues(up'[registry], Len(heard.chunks))
    <3>1. Continues(up[registry], Len(heard.chunks)) /\ registry \in Conns
      BY <2>3 DEF LegacyInv, TypeOK
    <3>2. CASE registry = link
      <4>1. /\ Len(up'[link]) = n
            /\ \A i \in 1..n : i \in 1..Len(up[link]) /\ up'[link][i] = up[link][i]
        BY <1>3, <3>1, <3>2, Cut
      <4> QED BY <3>1, <3>2, <4>1 DEF Continues
    <3>3. CASE registry # link
      BY <1>1, <1>3, <3>1, <3>3, Cut
    <3> QED BY <3>2, <3>3
  <2> QED BY <1>2, <2>1, <2>2, <2>3 DEF LegacyInv
<1> QED BY <1>2, <1>8, <1>9, <1>10, <1>11, <1>12 DEF Inv

(* A buffered job makes its output into the replay buffer.                 *)
LEMMA BufferedKeeps ==
  ASSUME IndInv, TypeOK', Produce \/ Finish, session.resumable
  PROVE  Inv'
<1> USE DEF IndInv
<1>1. /\ job.held /\ job.outcome = "running" /\ up' = up /\ down' = down /\ link' = link
      /\ Provider
  BY DEF Produce, Finish, Finished, Provider
<1>2. /\ job'.held = job.held /\ job'.acked = job.acked /\ job'.sent = job.sent
      /\ job'.produced \in {job.produced, job.produced + 1} /\ job.produced \in Nat
      /\ job'.outcome \in {"running", "served", "failed"}
  <2>1. job' \in {[job EXCEPT !.outcome = "failed"], [job EXCEPT !.outcome = "served"],
                  [job EXCEPT !.produced = @ + 1]}
    BY DEF Produce, Finish
  <2>2. job.produced \in Nat
    BY DEF TypeOK
  <2>3. CASE job' = [job EXCEPT !.outcome = "failed"]
    BY <2>2, <2>3 DEF TypeOK
  <2>4. CASE job' = [job EXCEPT !.outcome = "served"]
    BY <2>2, <2>4 DEF TypeOK
  <2>5. CASE job' = [job EXCEPT !.produced = @ + 1]
    BY <1>1, <2>2, <2>5 DEF TypeOK
  <2> QED BY <2>1, <2>3, <2>4, <2>5
<1>3. ~Fresh /\ ~Fresh' /\ ~IsFresh(job')
  BY <1>1, <1>2 DEF Fresh, IsFresh
<1>4. job.produced <= job'.produced
  BY <1>2
<1>5. JobGrows(job, job')
  BY <1>1, <1>3, <1>4 DEF JobGrows
<1>6. JobInv'
  <2>1. /\ session' = session /\ heard' = heard
    BY <1>1, ProviderAlone
  <2>2. job.sent \in Nat /\ Len(heard.chunks) \in Nat /\ job'.produced \in Nat
    BY LenProperties DEF TypeOK
  <2>3. job.sent <= job'.produced /\ Len(heard.chunks) <= job'.produced
    BY <1>2, <1>4, <2>2 DEF JobInv
  <2>4. job'.acked <= job'.sent /\ job'.acked <= session'.next
    BY <1>2, <2>1 DEF JobInv
  <2>5. session'.status # "none"
    BY <1>3, <2>1 DEF JobInv
  <2> QED BY <1>2, <1>3, <2>1, <2>3, <2>4, <2>5 DEF JobInv
<1> QED BY <1>1, <1>3, <1>5, <1>6, SameQueues, JobSilent

(* A legacy job writes each frame at once, where the last one left off.    *)
LEMMA LegacySends ==
  ASSUME IndInv, TypeOK', Provider, ~session.resumable, job.held,
         NEW f \in Frames, Send(<<f>>), f.t \in {"chunk", "complete"}, f.seq = job.produced,
         GoodUp(f, job'), JobGrows(job, job'), JobInv', link' = link, down' = down,
         job'.held => job'.outcome = "running" /\ job'.produced = job.produced + 1
  PROVE  Inv'
<1> USE DEF IndInv
<1>1. /\ session' = session /\ heard' = heard /\ registry' = registry /\ Live' = Live
  BY ProviderAlone
<1>2. ~Fresh /\ session.status # "none" /\ link \in Conns /\ NoRegister(up[link])
  <2>1. ~Fresh
    BY DEF Fresh, IsFresh
  <2>2. session.status # "none"
    BY <2>1 DEF JobInv
  <2> QED BY <2>1, <2>2 DEF LegacyInv, Serving, TypeOK
<1> DEFINE frames == <<f>>
<1>3. frames \in Seq(Frames) /\ Len(frames) = 1 /\ frames[1] = f /\ Send(frames)
  OBVIOUS
<1> HIDE DEF frames
<1>4. \A i \in 1..Len(frames) : i = 1
  BY <1>3
<1>5. UpInv' /\ \A d \in Conns : NoRegister(up[d]) => NoRegister(up'[d])
  BY <1>2, <1>3, <1>4, FramesSent
<1>6. /\ Len(up[link]) \in Nat /\ Len(up'[link]) = Len(up[link]) + 1
      /\ \A i \in 1..Len(up'[link]) :
           \/ i \in 1..Len(up[link]) /\ up'[link][i] = up[link][i]
           \/ i = Len(up[link]) + 1 /\ up'[link][i] = f
      /\ \A d \in Conns \ {link} : up'[d] = up[d]
  <2>1. Len(up[link]) \in Nat
    BY <1>2, Typing
  <2>2. Len(up'[link]) = Len(up[link]) + 1 /\ \A d \in Conns \ {link} : up'[d] = up[d]
    BY <1>2, <1>3, Sent
  <2>3. ASSUME NEW i \in 1..Len(up'[link])
        PROVE  \/ i \in 1..Len(up[link]) /\ up'[link][i] = up[link][i]
               \/ i = Len(up[link]) + 1 /\ up'[link][i] = f
    <3>1. CASE i \in 1..Len(up[link]) /\ up'[link][i] = up[link][i]
      BY <3>1
    <3>2. CASE i - Len(up[link]) \in 1..Len(frames) /\ up'[link][i] = frames[i - Len(up[link])]
      <4>1. i - Len(up[link]) = 1
        BY <1>4, <3>2
      <4>2. i = Len(up[link]) + 1
        BY <2>1, <4>1
      <4> QED BY <1>3, <3>2, <4>1, <4>2
    <3> QED BY <1>2, <1>3, <3>1, <3>2, Sent
  <2> QED BY <2>1, <2>2, <2>3
<1>7. LegacyInv'
  <2>1. job'.held => Serving' /\ NoRegister(up'[link]) /\ ~Finished'
    BY <1>2, <1>5, StreamAssumption DEF Serving, Finished
  <2>2. \A c \in Conns : NoRegister(up'[c]) \/ Len(up'[c]) = 1
    BY <1>2, <1>5, <1>6 DEF LegacyInv
  <2>3. job.produced \in Nat /\ Len(heard.chunks) \in Nat
    BY LenProperties DEF TypeOK
  <2>4. ASSUME Live, link = registry
        PROVE  /\ Continues(up'[link], Len(heard.chunks))
               /\ job.produced + 1 = Len(heard.chunks) + Len(up'[link])
    <3>1. /\ Continues(up[link], Len(heard.chunks))
          /\ job.produced = Len(heard.chunks) + Len(up[link])
      BY <1>2, <2>4, StreamAssumption DEF LegacyInv
    <3>2. job.produced + 1 = Len(heard.chunks) + Len(up'[link])
      <4>1. \A a, b \in Nat : (a + b) + 1 = a + (b + 1)
        OBVIOUS
      <4>2. Len(up[link]) \in Nat /\ Len(up'[link]) = Len(up[link]) + 1
        BY <1>6
      <4>3. (Len(heard.chunks) + Len(up[link])) + 1 = Len(heard.chunks) + (Len(up[link]) + 1)
        BY <2>3, <4>1, <4>2
      <4> QED BY <3>1, <4>2, <4>3
    <3>3. f.seq = Len(heard.chunks) + (Len(up[link]) + 1) - 1
      BY <1>6, <2>3, <3>1
    <3>4. ASSUME NEW i \in 1..Len(up'[link])
          PROVE  /\ up'[link][i].t \in {"chunk", "complete"}
                 /\ up'[link][i].seq = Len(heard.chunks) + i - 1
      BY <1>6, <3>1, <3>3 DEF Continues
    <3> QED BY <3>2, <3>4 DEF Continues
  <2>5. Live /\ registry # NoConn => Continues(up'[registry], Len(heard.chunks))
    <3>1. CASE registry = link
      BY <2>4, <3>1
    <3>2. CASE registry # link
      BY <1>2, <1>6, <3>2 DEF LegacyInv, TypeOK
    <3> QED BY <3>1, <3>2
  <2>6. Live /\ job'.held /\ link = registry =>
          job'.produced = Len(heard.chunks) + Len(up'[link])
    BY <2>4
  <2> QED BY <1>1, <2>1, <2>2, <2>5, <2>6 DEF LegacyInv
<1> QED BY <1>2, <1>5, <1>7, SameQueues, JobKeeps

LEMMA WritingKeeps ==
  ASSUME IndInv, TypeOK', Produce \/ Finish, ~session.resumable
  PROVE  Inv'
<1> USE DEF IndInv
<1>1. /\ job.held /\ job.outcome = "running" /\ down' = down /\ link' = link
      /\ Provider /\ job.produced \in Nat /\ session' = session /\ heard' = heard
  BY DEF Produce, Finish, Finished, Provider, TypeOK
<1> DEFINE chunk == [t |-> "chunk", seq |-> job.produced]
           complete == [t |-> "complete", seq |-> job.produced, ok |-> TRUE]
<1>2. /\ chunk \in Frames /\ chunk.t = "chunk" /\ chunk.seq = job.produced
      /\ complete \in Frames /\ complete.t = "complete" /\ complete.seq = job.produced
      /\ complete.ok = TRUE
  BY <1>1 DEF Frames
<1>3. /\ job'.acked = job.acked /\ job'.sent = job.sent
      /\ \/ /\ Send(<<chunk>>) /\ job'.held /\ job'.outcome = "running"
            /\ job'.produced = job.produced + 1
         \/ /\ Send(<<complete>>) /\ ~job'.held /\ job'.outcome = "served"
            /\ job'.produced = job.produced
  <2>1. CASE Produce
    <3>1. Send(<<chunk>>) /\ job' = [job EXCEPT !.produced = @ + 1]
      BY <2>1 DEF Produce, ReplayFull
    <3>2. job'.held = job.held /\ job'.acked = job.acked /\ job'.sent = job.sent
          /\ job'.outcome = job.outcome /\ job'.produced = job.produced + 1
      BY <3>1 DEF TypeOK
    <3> QED BY <1>1, <3>1, <3>2
  <2>2. CASE Finish
    <3>1. Send(<<complete>>) /\ job' = [job EXCEPT !.outcome = "served", !.held = FALSE]
      BY <2>2 DEF Finish
    <3>2. ~job'.held /\ job'.acked = job.acked /\ job'.sent = job.sent
          /\ job'.outcome = "served" /\ job'.produced = job.produced
      BY <3>1 DEF TypeOK
    <3> QED BY <3>1, <3>2
  <2> QED BY <2>1, <2>2
<1> HIDE DEF chunk, complete
<1>4. job.produced <= job'.produced /\ job.produced < job.produced + 1
  BY <1>1, <1>3
<1>5. ~Fresh /\ ~Fresh' /\ ~IsFresh(job')
  BY <1>1, <1>3 DEF Fresh, IsFresh
<1>6. JobGrows(job, job')
  BY <1>1, <1>4, <1>5 DEF JobGrows
<1>7. JobInv'
  <2>1. job.sent \in Nat /\ Len(heard.chunks) \in Nat /\ job'.produced \in Nat
    BY LenProperties DEF TypeOK
  <2>2. job.sent <= job'.produced /\ Len(heard.chunks) <= job'.produced
    BY <1>1, <1>4, <2>1 DEF JobInv
  <2>3. job'.acked <= job'.sent /\ job'.acked <= session'.next
    BY <1>1, <1>3 DEF JobInv
  <2> QED BY <1>1, <1>3, <1>5, <2>2, <2>3 DEF JobInv
<1>8. CASE Send(<<chunk>>) /\ job'.outcome = "running" /\ job'.produced = job.produced + 1
  <2>1. GoodUp(chunk, job')
    BY <1>2, <1>4, <1>5, <1>8 DEF GoodUp
  <2> QED BY <1>1, <1>2, <1>6, <1>7, <1>8, <2>1, LegacySends
<1>9. CASE Send(<<complete>>) /\ ~job'.held /\ job'.outcome = "served"
           /\ job'.produced = job.produced
  <2>1. complete.ok = (job'.outcome = "served")
    BY <1>2, <1>9
  <2>2. GoodUp(complete, job')
    BY <1>2, <1>5, <1>9, <2>1 DEF GoodUp
  <2> QED BY <1>1, <1>2, <1>6, <1>7, <1>9, <2>2, LegacySends
<1> QED BY <1>3, <1>8, <1>9

LEMMA DrainKeeps ==
  ASSUME IndInv, TypeOK', Drain
  PROVE  Inv'
<1> USE DEF IndInv
<1>1. /\ job.held /\ session.resumable /\ link \in Conns /\ Send(Rest) /\ link' = link
      /\ down' = down /\ Provider /\ session' = session /\ heard' = heard
  BY DEF Drain, Buffered, Serving, Rest, Provider, TypeOK
<1>2. /\ job'.held = job.held /\ job'.acked = job.acked /\ job'.sent = job.produced
      /\ job'.produced = job.produced /\ job'.outcome = job.outcome /\ job.produced \in Nat
  BY DEF Drain, TypeOK
<1>3. ~Fresh /\ ~Fresh' /\ ~IsFresh(job')
  BY <1>1, <1>2 DEF Fresh, IsFresh
<1>4. JobGrows(job, job')
  BY <1>2, <1>3 DEF JobGrows
<1>5. Rest \in Seq(Frames) /\ \A i \in 1..Len(Rest) :
        GoodUp(Rest[i], job') /\ Rest[i].t # "register"
  <2>1. job.sent <= job.produced
    BY DEF JobInv
  <2>2. ASSUME NEW i \in 1..Len(Rest) PROVE GoodUp(Rest[i], job') /\ Rest[i].t # "register"
    <3>1. CASE Rest[i].t = "chunk" /\ Rest[i].seq < job.produced
      BY <1>2, <1>3, <3>1 DEF GoodUp
    <3>2. CASE /\ Rest[i].t = "complete" /\ Rest[i].seq = job.produced
               /\ Rest[i].ok = (job.outcome = "served") /\ Finished
      <4>1. job.outcome \in {"served", "failed"}
        BY <1>1, <3>2 DEF Finished, JobInv, TypeOK
      <4> QED BY <1>2, <1>3, <3>2, <4>1 DEF GoodUp
    <3> QED BY <2>1, <3>1, <3>2, Drained
  <2> QED BY <2>1, <2>2, Drained
<1>6. UpInv' /\ \A d \in Conns : NoRegister(up[d]) => NoRegister(up'[d])
  BY <1>1, <1>4, <1>5, FramesSent
<1>7. JobInv'
  BY <1>1, <1>2, <1>3 DEF JobInv, TypeOK
<1>8. LegacyInv'
  BY <1>1 DEF LegacyInv
<1> QED BY <1>1, <1>3, <1>4, <1>6, <1>7, <1>8, SameQueues, JobKeeps

-----------------------------------------------------------------------------
(* The invariant, and what the requester is promised.                      *)

LEMMA NextKeeps ==
  ASSUME IndInv, Next
  PROVE  IndInv'
<1>1. TypeOK'
  BY NextTyped DEF IndInv
<1>2. ASSUME NEW c \in Conns, Advisor(c) PROVE Inv'
  BY <1>1, <1>2, OnRegisterKeeps, ClosingQuietKeeps, OnResumeKeeps, OnChunkKeeps,
     OnCompleteKeeps, OnCloseKeeps DEF Advisor
<1>3. ASSUME NEW c \in Conns, Connect(c) PROVE Inv'
  BY <1>1, <1>3, ConnectKeeps
<1>4. CASE Clock \/ ClientGone
  BY <1>1, <1>4, ClockKeeps DEF Inv, IndInv
<1>5. CASE Dispatch
  BY <1>1, <1>5, DispatchKeeps DEF Inv, IndInv
<1>6. ASSUME Produce \/ Finish PROVE Inv'
  BY <1>1, <1>6, BufferedKeeps, WritingKeeps
<1>7. ASSUME Provider PROVE Inv'
  BY <1>1, <1>6, <1>7, LoseLinkKeeps, EndingKeeps, AcceptKeeps, RefuseKeeps, HearingKeeps,
     DrainKeeps DEF Provider
<1>8. Inv'
  BY <1>1, <1>2, <1>3, <1>4, <1>5, <1>7, ClockKeeps, DispatchKeeps DEF Next
<1> QED BY <1>1, <1>8 DEF Inv, IndInv

LEMMA StutterKeeps ==
  ASSUME IndInv, UNCHANGED vars
  PROVE  IndInv'
BY DEF IndInv, vars, TypeOK, SessionInv, OneTimer, Live, JobInv, Fresh, UpInv, DownInv,
       RegistryInv, LegacyInv, Serving, Finished

LEMMA InitEstablishes ==
  ASSUME Init
  PROVE  IndInv
<1>1. <<>> \in Seq(Frames) /\ <<>> \in Seq(Nat) /\ Len(<<>>) = 0
  OBVIOUS
<1>2. TypeOK
  BY <1>1, StreamAssumption, TimerSets DEF Init, TypeOK
<1>3. SessionInv /\ JobInv
  BY DEF Init, SessionInv, OneTimer, Live, JobInv, Fresh, IsFresh
<1>4. \A c \in Conns : Len(up[c]) = 0 /\ Len(down[c]) = 0
  BY <1>1 DEF Init
<1>5. UpInv /\ DownInv
  BY <1>4 DEF UpInv, DownInv
<1>6. RegistryInv /\ LegacyInv
  BY DEF Init, RegistryInv, LegacyInv
<1> QED BY <1>2, <1>3, <1>5, <1>6 DEF IndInv

THEOREM Invariance == Spec => []IndInv
<1>1. IndInv /\ [Next]_vars => IndInv'
  BY NextKeeps, StutterKeeps
<1> QED BY <1>1, InitEstablishes, PTL DEF Spec

(* Every queue carries frames, whatever the sockets do; nothing of the     *)
(* session, the stream or the provider's job leaves its range.             *)
THEOREM TypeCorrect == Spec => []TypeOK
<1>1. IndInv => TypeOK
  BY DEF IndInv
<1> QED BY <1>1, Invariance, PTL

(* OneTimer (sessions.ts): a session runs on exactly the timer that can    *)
(* end it, through every detach, resume and close.                         *)
THEOREM SessionsAreTimed == Spec => []OneTimer
<1>1. IndInv => OneTimer
  BY DEF IndInv, SessionInv
<1> QED BY <1>1, Invariance, PTL

(* ReplayCoversSession (advisor.rs against sessions.ts): the buffer covers *)
(* what the session waits for, for any number of breaks.                   *)
THEOREM BufferCoversSession == Spec => []ReplayCoversSession
<1>1. ASSUME IndInv PROVE ReplayCoversSession
  <2>1. session.resumable => session.next <= job.produced
    BY <1>1 DEF IndInv, SessionInv, JobInv
  <2> QED BY <1>1, <2>1 DEF ReplayCoversSession, IndInv, JobInv
<1> QED BY <1>1, Invariance, PTL

-----------------------------------------------------------------------------
(* The requester's stream is an ordered pipe.                              *)

LEMMA CompletesInFull ==
  ASSUME IndInv, NEW c \in Conns, OnComplete(c), CompletesAt(Head(up[c]).seq)
  PROVE  /\ job.outcome \in {"served", "failed"} /\ Len(heard.chunks) = job.produced
         /\ Head(up[c]).ok = (job.outcome = "served")
<1> USE DEF IndInv
<1>1. Take(c, "complete") /\ registry = c /\ Live
  BY DEF OnComplete, OwnsRegistration
<1>2. /\ Head(up[c]).t = "complete" /\ GoodUp(Head(up[c]), job) /\ session.status # "none"
      /\ 1 \in 1..Len(up[c]) /\ Head(up[c]) = up[c][1]
  BY <1>1, HeadSpeaks, Taken
<1>3. CASE session.resumable
  BY <1>2, <1>3 DEF CompletesAt, SessionInv, GoodUp
<1>4. CASE ~session.resumable
  <2>1. Continues(up[c], Len(heard.chunks))
    BY <1>1, <1>2, <1>4, StreamAssumption DEF LegacyInv
  <2>2. up[c][1].seq = Len(heard.chunks) + 1 - 1 /\ Len(heard.chunks) \in Nat
    BY <1>2, <2>1, LenProperties DEF Continues, TypeOK
  <2>3. up[c][1].seq = Len(heard.chunks)
    BY <2>2
  <2> QED BY <1>2, <2>3 DEF GoodUp
<1> QED BY <1>3, <1>4

LEMMA AdvisorPipe ==
  ASSUME IndInv, NEW c \in Conns, Advisor(c) \/ Connect(c)
  PROVE  [Pipe!Next]_Pipe!vars
<1> USE DEF IndInv
<1>1. job' = job
  BY DEF Advisor, OnRegister, RefuseRegister, OnResume, OnChunk, OnComplete, DropFrame,
         OnClose, HangUp, Connect
<1>2. CASE UNCHANGED heard
  BY <1>1, <1>2 DEF Pipe!vars
<1>3. CASE Live /\ heard' = [heard EXCEPT !.end = "error"]
  <2>1. heard.end = "none" /\ heard'.end = "error" /\ heard'.chunks = heard.chunks
    BY <1>3 DEF SessionInv, Live, TypeOK
  <2>2. Pipe!BreakOff
    BY <1>1, <2>1 DEF Pipe!BreakOff
  <2> QED BY <2>2 DEF Pipe!Next
<1>4. CASE OnChunk(c) /\ Accepts(Head(up[c]).seq)
  <2>1. /\ heard.end = "none" /\ heard'.end = heard.end
        /\ heard'.chunks = Append(heard.chunks, Head(up[c]).seq)
    BY <1>4 DEF OnChunk, SessionInv, Live, TypeOK
  <2>2. Head(up[c]).seq = Len(heard.chunks) /\ Head(up[c]).seq < job.produced
    BY <1>4, ChunkInOrder
  <2>3. Pipe!Deliver
    BY <1>1, <2>1, <2>2 DEF Pipe!Deliver
  <2> QED BY <2>3 DEF Pipe!Next
<1>5. CASE OnComplete(c) /\ CompletesAt(Head(up[c]).seq)
  <2>1. /\ heard.end = "none" /\ heard'.chunks = heard.chunks
        /\ heard'.end = IF Head(up[c]).ok THEN "served" ELSE "failed"
    BY <1>5 DEF OnComplete, SessionInv, Live, TypeOK
  <2>2. heard'.end = job.outcome
    BY <1>5, <2>1, CompletesInFull
  <2>3. Pipe!Complete
    BY <1>1, <1>5, <2>1, <2>2, CompletesInFull DEF Pipe!Complete, Pipe!Completions
  <2> QED BY <2>3 DEF Pipe!Next
<1>6. \/ UNCHANGED heard
      \/ Live /\ heard' = [heard EXCEPT !.end = "error"]
      \/ OnChunk(c) /\ Accepts(Head(up[c]).seq)
      \/ OnComplete(c) /\ CompletesAt(Head(up[c]).seq)
  <2>1. DetachForMachine => UNCHANGED heard \/ (Live /\ heard' = [heard EXCEPT !.end = "error"])
    BY DEF DetachForMachine, Close
  <2>2. CASE OnRegister(c) \/ OnClose(c)
    BY <2>1, <2>2 DEF OnRegister, OnClose
  <2>3. CASE OnChunk(c)
    BY <2>3 DEF OnChunk
  <2>4. CASE OnComplete(c)
    BY <2>4 DEF OnComplete
  <2>5. CASE RefuseRegister(c) \/ OnResume(c) \/ DropFrame(c) \/ HangUp(c) \/ Connect(c)
    BY <2>5 DEF RefuseRegister, OnResume, DropFrame, HangUp, Connect
  <2> QED BY <2>2, <2>3, <2>4, <2>5 DEF Advisor
<1> QED BY <1>2, <1>3, <1>4, <1>5, <1>6

LEMMA ClockPipe ==
  ASSUME IndInv, Clock \/ Dispatch \/ ClientGone
  PROVE  [Pipe!Next]_Pipe!vars
<1> USE DEF IndInv
<1>1. job' = job
  BY DEF Clock, Sweep, IdleFires, GraceFires, TombstoneExpires, Dispatch, ClientGone
<1>2. CASE UNCHANGED heard
  BY <1>1, <1>2 DEF Pipe!vars
<1>3. ASSUME NEW why \in {"error", "left"}, Live, Close(why)
      PROVE  [Pipe!Next]_Pipe!vars
  <2>1. heard.end = "none" /\ heard'.end = why /\ heard'.chunks = heard.chunks
    BY <1>3 DEF Close, SessionInv, Live, TypeOK
  <2>2. Pipe!BreakOff
    BY <1>1, <2>1 DEF Pipe!BreakOff
  <2> QED BY <2>2 DEF Pipe!Next
<1>4. UNCHANGED heard \/ \E why \in {"error", "left"} : Live /\ Close(why)
  BY DEF Clock, Sweep, IdleFires, GraceFires, TombstoneExpires, Dispatch, ClientGone
<1> QED BY <1>2, <1>3, <1>4

LEMMA ProviderPipe ==
  ASSUME IndInv, Provider
  PROVE  [Pipe!Next]_Pipe!vars
<1> USE DEF IndInv
<1>1. heard' = heard
  BY ProviderAlone
<1>2. CASE job'.produced = job.produced /\ job'.outcome = job.outcome
  BY <1>1, <1>2 DEF Pipe!vars
<1>3. CASE /\ job.outcome = "running" /\ job'.produced = job.produced
           /\ job'.outcome \in {"served", "failed", "dropped"}
  <2>1. Pipe!Stop
    BY <1>1, <1>3 DEF Pipe!Stop, Pipe!Completions
  <2> QED BY <2>1 DEF Pipe!Next
<1>4. CASE /\ job.outcome = "running" /\ job'.produced = job.produced + 1
           /\ job'.outcome \in {"running", "failed"}
  <2>1. Pipe!Make
    BY <1>1, <1>4 DEF Pipe!Make
  <2> QED BY <2>1 DEF Pipe!Next
<1> DEFINE Ends == /\ job'.produced = job.produced
                   /\ \/ job'.outcome = job.outcome
                      \/ job.outcome = "running" /\ job'.outcome \in {"served", "failed", "dropped"}
           Makes == /\ job.outcome = "running" /\ job'.produced = job.produced + 1
                    /\ job'.outcome \in {"running", "failed"}
<1>5. job' = Dropped => Ends
  BY DEF Dropped, TypeOK
<1>6. CASE LoseLink \/ RetentionExpires \/ Panic
  <2>1. job' = Dropped \/ (job'.produced = job.produced /\ job'.outcome = job.outcome)
    BY <1>6 DEF LoseLink, RetentionExpires, Panic, Detached, TypeOK
  <2> QED BY <1>2, <1>3, <1>5, <2>1
<1>7. CASE Accept \/ Drain
  <2>1. job'.produced = job.produced /\ job'.outcome = job.outcome
    BY <1>7 DEF Accept, Drain, TypeOK
  <2> QED BY <1>2, <2>1
<1>8. CASE Refuse
  <2>1. job.outcome = "running" /\ job.produced = 0 /\ job'.produced = 1 /\ job'.outcome = "failed"
    <3>1. Receive("request") /\ job' = [job EXCEPT !.produced = 1, !.outcome = "failed"]
      BY <1>8 DEF Refuse
    <3>2. link \in Conns /\ 1 \in 1..Len(down[link]) /\ down[link][1].t = "request"
      BY <3>1, Received
    <3>3. Fresh
      BY <3>2 DEF DownInv
    <3> QED BY <3>1, <3>3 DEF JobInv, Fresh, IsFresh, TypeOK
  <2>2. job'.produced = job.produced + 1
    BY <2>1
  <2> QED BY <1>4, <2>1, <2>2
<1>9. CASE HandleResumeResult \/ Acknowledge
  <2>1. job' = Dropped \/ (job'.produced = job.produced /\ job'.outcome = job.outcome)
    BY <1>9 DEF HandleResumeResult, Acknowledge, AckChunks, TypeOK
  <2> QED BY <1>2, <1>3, <1>5, <2>1
<1>10. CASE Produce
  <2>1. Ends \/ Makes
    BY <1>10 DEF Produce, Finished, TypeOK
  <2> QED BY <1>2, <1>3, <1>4, <2>1
<1>11. CASE Finish
  <2>1. Ends
    BY <1>11 DEF Finish, Finished, TypeOK
  <2> QED BY <1>2, <1>3, <2>1
<1> QED BY <1>6, <1>7, <1>8, <1>9, <1>10, <1>11 DEF Provider

(* The chunks the engine makes reach the requester in order and once each, *)
(* and its stream ends once, as the job ended only when all has arrived,   *)
(* for any number of sockets, breaks, lost frames and expiring timers.     *)
THEOREM StreamImplementsPipe == Spec => StreamIsPipe
<1>1. Init => Pipe!Init
  BY DEF Init, Pipe!Init
<1>2. ASSUME IndInv, [Next]_vars PROVE [Pipe!Next]_Pipe!vars
  <2>1. CASE Next
    BY <1>2, <2>1, AdvisorPipe, ClockPipe, ProviderPipe DEF Next
  <2>2. CASE UNCHANGED vars
    BY <2>2 DEF vars, Pipe!vars
  <2> QED BY <1>2, <2>1, <2>2
<1> QED BY <1>1, <1>2, Invariance, PTL DEF Spec, StreamIsPipe, Pipe!Spec
=============================================================================
