--------------------------- MODULE InfinityRelay ---------------------------
(***************************************************************************)
(* One session of the proxy infinity.c: a client socket, an upstream       *)
(* socket, a buffer for each direction, and the epoll loop that serves     *)
(* them.  The loop is one thread; the two remote ends, the connection      *)
(* attempt and the clock move between any two of its system calls, so      *)
(* handle_side_io is four steps (begin, read, write, finish) in a fixed    *)
(* order, and the events it works from were sampled by an earlier          *)
(* epoll_wait.                                                             *)
(*                                                                         *)
(* The sockets are the kernel's (external): level-triggered readiness      *)
(* after Linux's tcp_poll, a bounded send buffer, an unbounded receive     *)
(* queue.  A byte is its position in the stream its sender writes.         *)
(***************************************************************************)
EXTENDS Integers, Sequences

CONSTANTS
  Cap,        \* INF_BUFFER_CAP
  SndCap,     \* bytes a socket holds between send() and the remote's read
  Bytes,      \* bound: bytes each remote end may send
  IdleLimit,  \* idle_timeout_sec
  Resetting   \* remote ends that may reset their connection

Sides == {0, 1}  \* 0 = client, 1 = upstream
Other(s) == 1 - s

ASSUME RelayAssumption ==
  /\ Cap \in Nat \ {0}
  /\ SndCap \in Nat \ {0}
  /\ Bytes \in [Sides -> Nat]
  /\ IdleLimit \in Nat \ {0}
  /\ Resetting \subseteq Sides

VARIABLES
  sent, fin,    \* bytes each remote end has sent, and whether it has finished
  taken,        \* bytes each remote end has read
  err, link,    \* the sockets' pending error; the upstream connection
  recvd,        \* bytes_c2u and bytes_u2c: bytes the proxy received from a side
  buf,          \* buf[0] is to_upstream, buf[1] is to_client
  out,          \* every byte send() accepted for a side, in order
  eof, shut,    \* read_eof and write_shutdown of the two peers
  connecting,   \* upstream.connecting
  interest,     \* what epoll_mod last asked for, beside ERR, HUP and RDHUP
  pc, batch,    \* where the event loop is; events sampled and not yet handled
  age, due,     \* now - last_activity; now # last_maintenance
  artifact      \* what session_emit_artifact wrote

remoteVars == <<sent, fin, taken, err, link>>
dataVars == <<recvd, buf, out>>
peerVars == <<eof, shut, connecting, interest>>
loopVars == <<pc, batch>>
timeVars == <<age, due>>
vars == <<remoteVars, dataVars, peerVars, loopVars, timeVars, artifact>>

Open == pc # "closed"

Least(m, n) == IF m < n THEN m ELSE n

-----------------------------------------------------------------------------
(* Buffers: data[1 .. start] is already forwarded, end is Len(data).       *)

EmptyBuffer == [data |-> <<>>, start |-> 0]

Size(b) == Len(b.data) - b.start
Space(b) == Cap - Len(b.data)

\* Mutant: the bytes are taken from the base of the buffer.
FrontFromBase(b, n) == SubSeq(b.data, 1, n)

\* The next n bytes to forward.
Front(b, n) == SubSeq(b.data, b.start + 1, b.start + n)

Compacted(b) == [data |-> Front(b, Size(b)), start |-> 0]

\* The bytes after the first ones of a stream, n of them, appended.
Filled(b, first, n) ==
  [data |-> b.data \o [i \in 1 .. n |-> first + i], start |-> b.start]

\* Mutant: a drained buffer keeps its indices.
AdvancedWithoutReset(b, n) == [data |-> b.data, start |-> b.start + n]

Advanced(b, n) ==
  IF n = Size(b) THEN EmptyBuffer ELSE [data |-> b.data, start |-> b.start + n]

-----------------------------------------------------------------------------
(* The kernel's side of the sockets                                        *)

Room(s) == SndCap - (Len(out[s]) - taken[s])
Unread(s) == sent[s] - recvd[s]

Connected(s) == s = 0 \/ link = "up"

\* tcp_poll, as far as the events the proxy can ask for.
SocketEvents(s) ==
  (IF err[s] \/ (fin[s] /\ shut[s]) THEN {"HUP"} ELSE {})
    \cup (IF err[s] THEN {"ERR"} ELSE {})
    \cup (IF err[s] \/ fin[s] THEN {"RDHUP"} ELSE {})
    \cup (IF err[s] \/ fin[s] \/ Unread(s) > 0 THEN {"IN"} ELSE {})
    \cup (IF err[s] \/ (Connected(s) /\ (shut[s] \/ Room(s) > 0)) THEN {"OUT"} ELSE {})

Ready(s) == SocketEvents(s) \cap (interest[s] \cup {"ERR", "HUP", "RDHUP"})

RemoteSend(s) ==
  /\ Connected(s) /\ ~fin[s] /\ ~err[s]
  /\ sent[s] < Bytes[s]
  /\ sent' = [sent EXCEPT ![s] = @ + 1]
  /\ UNCHANGED <<fin, taken, err, link>>

RemoteFin(s) ==
  /\ Connected(s) /\ ~fin[s] /\ ~err[s]
  /\ fin' = [fin EXCEPT ![s] = TRUE]
  /\ UNCHANGED <<sent, taken, err, link>>

RemoteRead(s) ==
  /\ taken[s] < Len(out[s])
  /\ taken' = [taken EXCEPT ![s] = @ + 1]
  /\ UNCHANGED <<sent, fin, err, link>>

RemoteReset(s) ==
  /\ s \in Resetting
  /\ Connected(s) /\ ~err[s]
  /\ err' = [err EXCEPT ![s] = TRUE]
  /\ UNCHANGED <<sent, fin, taken, link>>

\* The upstream connection is made, or refused.
LinkResolves ==
  /\ link = "syn"
  /\ \/ link' = "up" /\ UNCHANGED err
     \/ link' = "failed" /\ err' = [err EXCEPT ![1] = TRUE]
  /\ UNCHANGED <<sent, fin, taken>>

Remote ==
  /\ Open
  /\ \/ \E s \in Sides : RemoteSend(s) \/ RemoteFin(s) \/ RemoteRead(s) \/ RemoteReset(s)
     \/ LinkResolves
  /\ UNCHANGED <<dataVars, peerVars, loopVars, timeVars, artifact>>

\* Time passes; the age stops counting once it is over the limit.
Clock ==
  /\ Open
  /\ due' = TRUE
  /\ age' = Least(age + 1, IdleLimit + 1)
  /\ UNCHANGED <<remoteVars, dataVars, peerVars, loopVars, artifact>>

-----------------------------------------------------------------------------
(* Closing                                                                 *)

\* Mutant: no limit on what the two buffers add up to.
ArtifactSharesWhole(a, b) == <<a, b>>

\* How many bytes of each buffer session_emit_artifact keeps.
ArtifactShares(a, b) ==
  IF a + b <= Cap THEN <<a, b>>
  ELSE LET kept == Least(a, Cap \div 2) IN <<kept, Least(b, Cap - kept)>>

\* session_destroy, from the event loop: the artifact is written first, if the
\* spool directory can be had.
Destroy ==
  LET shares == ArtifactShares(Size(buf[0]), Size(buf[1]))
  IN  /\ pc' = "closed"
      /\ batch' = <<>>
      /\ \/ artifact' = <<Front(buf[0], shares[1]), Front(buf[1], shares[2])>>
         \/ UNCHANGED artifact

-----------------------------------------------------------------------------
(* handle_side_io, for the event at the head of the batch                  *)

Side == batch[1].side
Events == batch[1].events

\* Errors and hang-ups end the session; a connecting upstream that became
\* writable is connected, unless SO_ERROR says otherwise.
Begin ==
  LET completes == Side = 1 /\ connecting /\ "OUT" \in Events
      fails == {"ERR", "HUP"} \cap Events # {} \/ (completes /\ err[1])
  IN  /\ pc = "begin"
      /\ age' = 0
      /\ \/ fails /\ Destroy /\ UNCHANGED connecting
         \/ /\ ~fails
            /\ pc' = "read"
            /\ connecting' = (connecting /\ ~completes)
            /\ UNCHANGED <<batch, artifact>>
      /\ UNCHANGED <<remoteVars, dataVars, eof, shut, interest, due>>

\* relay_read_into_buffer: how many bytes recv() returns.
Received(s) == Least(Unread(s), Space(Compacted(buf[s])))

Read ==
  LET s == Side
      asked == "IN" \in Events
      full == Size(buf[s]) = Cap
      n == IF asked THEN Received(s) ELSE 0
      fails == asked /\ ~full /\ n = 0 /\ err[s]
      ends == (asked /\ ~full /\ n = 0 /\ fin[s]) \/ "RDHUP" \in Events
  IN  /\ pc = "read"
      /\ buf' = IF asked THEN [buf EXCEPT ![s] = Filled(Compacted(@), recvd[s], n)] ELSE buf
      /\ recvd' = [recvd EXCEPT ![s] = @ + n]
      /\ \/ fails /\ Destroy /\ UNCHANGED eof
         \/ /\ ~fails
            /\ pc' = "write"
            /\ eof' = [eof EXCEPT ![s] = @ \/ ends]
            /\ UNCHANGED <<batch, artifact>>
      /\ UNCHANGED <<remoteVars, out, shut, connecting, interest, timeVars>>

Write ==
  LET s == Side
      b == buf[Other(s)]
      asked == "OUT" \in Events /\ ~(s = 1 /\ connecting) /\ Size(b) > 0
      fails == asked /\ (err[s] \/ shut[s])
      n == IF asked /\ ~fails THEN Least(Size(b), Room(s)) ELSE 0
  IN  /\ pc = "write"
      /\ out' = [out EXCEPT ![s] = @ \o Front(b, n)]
      /\ buf' = IF n > 0 THEN [buf EXCEPT ![Other(s)] = Advanced(@, n)] ELSE buf
      /\ \/ fails /\ Destroy
         \/ ~fails /\ pc' = "finish" /\ UNCHANGED <<batch, artifact>>
      /\ UNCHANGED <<remoteVars, recvd, peerVars, timeVars>>

\* Mutants: an end of file does not stop the reading; a connected upstream is
\* never asked whether it can be written; writability is always asked for.
WantedAfterEof(s) ==
  IF s = 1 /\ connecting THEN {"OUT"}
  ELSE (IF Space(buf[s]) > 0 THEN {"IN"} ELSE {})
         \cup (IF Size(buf[Other(s)]) > 0 THEN {"OUT"} ELSE {})
WantedReadOnly(s) ==
  IF s = 1 /\ connecting THEN {"OUT"}
  ELSE IF ~eof[s] /\ Space(buf[s]) > 0 THEN {"IN"} ELSE {}
WantedAlwaysWritable(s) ==
  IF s = 1 /\ connecting THEN {"OUT"}
  ELSE {"OUT"} \cup (IF ~eof[s] /\ Space(buf[s]) > 0 THEN {"IN"} ELSE {})

\* session_events_for_side.
Wanted(s) ==
  IF s = 1 /\ connecting THEN {"OUT"}
  ELSE (IF ~eof[s] /\ Space(buf[s]) > 0 THEN {"IN"} ELSE {})
         \cup (IF Size(buf[Other(s)]) > 0 THEN {"OUT"} ELSE {})

FullyDone == \A s \in Sides : eof[s] /\ Size(buf[s]) = 0

\* session_consider_half_close: s has no more to say and all of it is sent on.
HalfClosed(s) == eof[s] /\ Size(buf[s]) = 0

\* Half-close, destroy when done, else ask for the events of the new state.
\* shutdown() on a socket that is still connecting gives the attempt up.
Finish ==
  /\ pc = "finish"
  /\ shut' = [s \in Sides |-> shut[s] \/ HalfClosed(Other(s))]
  /\ err' = [err EXCEPT ![1] = @ \/ (link = "syn" /\ HalfClosed(0))]
  /\ link' = IF link = "syn" /\ HalfClosed(0) THEN "failed" ELSE link
  /\ \/ FullyDone /\ Destroy /\ UNCHANGED interest
     \/ /\ ~FullyDone
        /\ interest' = [s \in Sides |-> Wanted(s)]
        /\ batch' = Tail(batch)
        /\ pc' = IF Len(batch) = 1 THEN "maintain" ELSE "begin"
        /\ UNCHANGED artifact
  /\ UNCHANGED <<sent, fin, taken, dataVars, eof, connecting, timeVars>>

-----------------------------------------------------------------------------
(* The event loop of main                                                  *)

\* epoll_wait returns what is ready, in either order, or times out.
Batches ==
  LET ready == {s \in Sides : Ready(s) # {}}
      c == [side |-> 0, events |-> Ready(0)]
      u == [side |-> 1, events |-> Ready(1)]
  IN  {b \in {<<>>, <<c>>, <<u>>, <<c, u>>, <<u, c>>} : {b[k].side : k \in DOMAIN b} = ready}

Wait ==
  /\ pc = "wait"
  /\ batch' \in Batches
  /\ pc' = IF batch' = <<>> THEN "maintain" ELSE "begin"
  /\ UNCHANGED <<remoteVars, dataVars, peerVars, timeVars, artifact>>

\* enforce_idle_timeouts, once a second; an idle session leaves no artifact.
Maintain ==
  /\ pc = "maintain"
  /\ due' = FALSE
  /\ pc' = IF due /\ age > IdleLimit THEN "closed" ELSE "wait"
  /\ UNCHANGED <<remoteVars, dataVars, peerVars, batch, age, artifact>>

Loop == Wait \/ Begin \/ Read \/ Write \/ Finish \/ Maintain

-----------------------------------------------------------------------------

\* A session as handle_listener_accept leaves it.
Init ==
  /\ sent = [s \in Sides |-> 0]
  /\ fin = [s \in Sides |-> FALSE]
  /\ taken = [s \in Sides |-> 0]
  /\ err = [s \in Sides |-> FALSE]
  /\ link = "syn"
  /\ recvd = [s \in Sides |-> 0]
  /\ buf = [s \in Sides |-> EmptyBuffer]
  /\ out = [s \in Sides |-> <<>>]
  /\ eof = [s \in Sides |-> FALSE]
  /\ shut = [s \in Sides |-> FALSE]
  /\ connecting = TRUE
  /\ interest = [s \in Sides |-> IF s = 0 THEN {"IN"} ELSE {"OUT"}]
  /\ pc = "wait"
  /\ batch = <<>>
  /\ age = 0
  /\ due = FALSE
  /\ artifact = <<<<>>, <<>>>>

Next == Remote \/ Clock \/ Loop

Spec == Init /\ [][Next]_vars

\* The loop and the clock go on; of the remote ends nothing is assumed.
FairSpec == Spec /\ WF_vars(Loop) /\ WF_vars(Clock)

\* Both remote ends read what they are sent, and a connection attempt ends.
RemotesFair ==
  /\ WF_vars(Open /\ LinkResolves /\ UNCHANGED <<dataVars, peerVars, loopVars, timeVars, artifact>>)
  /\ \A s \in Sides :
       WF_vars(Open /\ RemoteRead(s)
                 /\ UNCHANGED <<dataVars, peerVars, loopVars, timeVars, artifact>>)

-----------------------------------------------------------------------------
(* Properties                                                              *)

Buffer == [data : Seq(Nat), start : Nat]
EventName == {"IN", "OUT", "ERR", "HUP", "RDHUP"}

\* The fields keep their types; no buffer outgrows INF_BUFFER_CAP and no
\* socket is handed more than it can hold.
TypeOK ==
  /\ sent \in [Sides -> Nat] /\ taken \in [Sides -> Nat] /\ recvd \in [Sides -> Nat]
  /\ fin \in [Sides -> BOOLEAN] /\ err \in [Sides -> BOOLEAN]
  /\ eof \in [Sides -> BOOLEAN] /\ shut \in [Sides -> BOOLEAN]
  /\ link \in {"syn", "up", "failed"} /\ connecting \in BOOLEAN
  /\ buf \in [Sides -> Buffer] /\ out \in [Sides -> Seq(Nat)]
  /\ interest \in [Sides -> SUBSET {"IN", "OUT"}]
  /\ pc \in {"wait", "begin", "read", "write", "finish", "maintain", "closed"}
  /\ batch \in Seq([side : Sides, events : SUBSET EventName])
  /\ age \in 0 .. IdleLimit + 1 /\ due \in BOOLEAN
  /\ \A s \in Sides : /\ buf[s].start <= Len(buf[s].data) /\ Len(buf[s].data) <= Cap
                      /\ recvd[s] <= sent[s]
                      /\ taken[s] <= Len(out[s]) /\ Len(out[s]) <= taken[s] + SndCap

\* What a side was sent is a prefix of the other's stream, and the buffer holds
\* exactly the bytes received and not yet sent on: through compaction, partial
\* sends and resets of the indices no byte is lost, doubled or reordered.
RelayIntact ==
  \A s \in Sides :
    LET o == out[Other(s)]
        b == buf[s]
    IN  /\ Len(o) + Size(b) = recvd[s]
        /\ \A i \in 1 .. Len(o) : o[i] = i
        /\ \A i \in 1 .. Size(b) : b.data[b.start + i] = Len(o) + i

\* A side told that the other has finished was sent everything received from
\* it, and nothing more is ever received for it.
DrainedBeforeShutdown ==
  \A s \in Sides : shut[Other(s)] => eof[s] /\ Size(buf[s]) = 0

\* session_emit_artifact keeps, for each direction, the bytes that would have
\* been sent next, and never more than one buffer's worth of both.
ArtifactHoldsNextBytes ==
  /\ Len(artifact[1]) + Len(artifact[2]) <= Cap
  /\ \A s \in Sides : \A i \in 1 .. Len(artifact[s + 1]) :
       artifact[s + 1][i] = Len(out[Other(s)]) + i

\* "Bidirectional relay" (src/infinity.c, header): a side that is told the
\* other has finished was sent every byte the other sent.
ShutdownAfterLastByte ==
  \A s \in Sides : shut[Other(s)] => Len(out[Other(s)]) = sent[s]

\* Every byte the proxy received is sent on, or the session is closed: no
\* interest is left unset with bytes to send or with a full buffer drained.
\* (The streams are bounded, so to catch up again and again is to catch up.)
\* And every byte that was sent is received, unless the end of its stream
\* came first.
BytesMoveOn ==
  RemotesFair =>
    []<>(pc = "closed" \/ \A s \in Sides :
           /\ Len(out[Other(s)]) = recvd[s]
           /\ recvd[s] = sent[s] \/ eof[s])

\* When both ends have finished the session is destroyed.
FinishedSessionsClose == RemotesFair => (fin[0] /\ fin[1]) ~> pc = "closed"

\* While neither end finishes, a session that falls silent is closed, whatever
\* the remote ends do: read or not, connect or not.
QuietSessionsTimeOut == []~(fin[0] \/ fin[1]) => <>(pc = "closed")

\* "Idle timeouts" (src/infinity.c, header): as the remote ends send only so
\* much, every session is closed in the end.
IdleSessionsClose == RemotesFair => <>(pc = "closed")
=============================================================================
