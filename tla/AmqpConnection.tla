---------------------------- MODULE AmqpConnection ----------------------------
(***************************************************************************)
(* One AMQP connection of the Telemetry Service with its one channel, as   *)
(* amqp091-go runs it: newRabbitPublisher (main.go) makes the handshake,   *)
(* opens the channel and declares the topology; then every ingest request  *)
(* publishes from its own goroutine, beside the library's reader and       *)
(* heartbeater and the goroutines that shut the connection down.  They     *)
(* share three locks: Connection.m, Channel.m and Connection.sendM.        *)
(*                                                                         *)
(* Publishings fit the 4096 bytes of the write buffer, there are no        *)
(* consumers, no publisher confirms and no listeners beside the            *)
(* heartbeater's.  Heartbeats are left out of the recorded streams.        *)
(***************************************************************************)
EXTENDS Integers, Sequences

CONSTANTS
  Publishers,            \* ingest requests, each publishing once
  Reader, Beater, Shutdown,   \* the other goroutines that hold locks
  None,                  \* nobody
  MaxBeats,              \* bound on heartbeats, one every five seconds
  MaxFaults              \* bound on what the broker and the network do wrong

ASSUME OwnerAssumption ==
  {Reader, Beater, Shutdown, None} \cap Publishers = {} /\ None \notin {Reader, Beater, Shutdown}
ASSUME BoundAssumption == MaxFaults \in Nat /\ MaxBeats \in Nat

VARIABLES
  main, mi, asked,     \* newRabbitPublisher: its step, its call, a request the broker has
  pub, err, result,    \* each publish: its step, an error so far, what it returned
  hb, beats,           \* the heartbeater; the heartbeats it has tried to send
  rdr, inbox,          \* the reader's step; frames from the broker
  cM, chM, sendM,      \* owners of the locks
  closed, chClosed,    \* the atomic flags of connection and channel
  channels,            \* the channel is registered with the connection
  doomed,              \* shutdown was called and has not begun
  down,                \* the connection's destructor
  chDown,              \* the channel's destructor is done
  sock,                \* the socket
  buf, wErr, wire,     \* the write buffer, its sticky error, what the kernel took
  helped,              \* history: publishings that another goroutine flushed
  faults

mainVars == <<main, mi, asked>>
pubVars  == <<pub, err, result>>
hbVars   == <<hb, beats>>
rdrVars  == <<rdr, inbox>>
locks    == <<cM, chM, sendM>>
flags    == <<closed, chClosed, channels, doomed, down, chDown>>
outVars  == <<buf, wErr, wire, helped>>
vars == <<mainVars, pubVars, hbVars, rdrVars, locks, flags, sock, outVars, faults>>

Frame == [kind : {"method", "header", "body"}, of : Publishers] \cup {[kind |-> "close-ok", of |-> None]}

(* "blocked": the broker does not read and the kernel's buffer is full;    *)
(* "stale": the peer is gone, the kernel still takes data; "hung": the     *)
(* peer is gone and the buffer is full.                                    *)
Socket == {"ok", "blocked", "stale", "hung", "dead", "closed"}

(* The calls of newRabbitPublisher: three of the handshake, channel.open   *)
(* and four of declareRabbitTopology.                                      *)
HandshakeCalls == 3
TuneCall == 2
Calls == 8
ChannelCall == mi > HandshakeCalls

Fault == faults < MaxFaults /\ faults' = faults + 1

-----------------------------------------------------------------------------
Init ==
  /\ main = "send" /\ mi = 1 /\ asked = FALSE
  /\ pub = [p \in Publishers |-> "idle"]
  /\ err = [p \in Publishers |-> FALSE]
  /\ result = [p \in Publishers |-> "none"]
  /\ hb = "off" /\ beats = 0
  /\ rdr = "reading" /\ inbox = <<>>
  /\ cM = None /\ chM = None /\ sendM = None
  /\ closed = FALSE /\ chClosed = FALSE /\ channels = FALSE
  /\ doomed = FALSE /\ down = "up" /\ chDown = FALSE
  /\ sock = "ok"
  /\ buf = <<>> /\ wErr = FALSE /\ wire = <<>> /\ helped = {}
  /\ faults = 0

(* Whose frames are in the buffer. *)
Buffered == {buf[i].of : i \in 1..Len(buf)} \ {None}

(* bufio.Writer.Flush with what the caller adds, by the owner of sendM.  A *)
(* write that fails may have handed over a part.  own says whether the     *)
(* buffered publishing is the caller's.                                    *)
FlushOk(frames, own) ==
  /\ ~wErr
  /\ sock \in {"ok", "stale"} \/ buf \o frames = <<>>
  /\ wire' = wire \o buf \o frames
  /\ buf' = <<>>
  /\ helped' = IF own THEN helped ELSE helped \cup Buffered
  /\ UNCHANGED wErr

FlushFails(own) ==
  \/ wErr /\ UNCHANGED outVars
  \/ /\ ~wErr
     /\ sock \in {"dead", "closed"} /\ (own => buf # <<>>)
     /\ wErr' = TRUE
     /\ \E n \in 0..(Len(buf) - IF own THEN 1 ELSE 0) :
          wire' = wire \o SubSeq(buf, 1, n) /\ buf' = SubSeq(buf, n + 1, Len(buf))
     /\ helped' = IF own THEN helped ELSE helped \cup Buffered

(* A goroutine is started to shut the connection down, or does so itself. *)
Doom == doomed' = (doomed \/ ~closed)

-----------------------------------------------------------------------------
(* newRabbitPublisher.                                                     *)

(* Connection.call and Channel.call: send the request.  allocateChannel    *)
(* precedes the first one of the channel.                                  *)
callSend ==
  /\ main = "send"
  /\ ~closed /\ ~chClosed
  /\ sendM = None
  /\ mi = HandshakeCalls + 1 => cM = None
  /\ FlushOk(<<>>, FALSE)
  /\ sock \in {"ok", "stale"}
  /\ asked' = (sock = "ok")
  /\ channels' = (channels \/ mi = HandshakeCalls + 1)
  /\ main' = "wait"
  /\ UNCHANGED <<mi, pubVars, hbVars, rdrVars, locks, closed, chClosed, doomed, down,
                 chDown, sock, faults>>

(* Where newRabbitPublisher goes from a failed call: out of amqp.Dial, to  *)
(* releaseChannel in openChannel, or to channel.Close.                     *)
Failed == IF ~ChannelCall THEN "failed"
          ELSE IF mi = HandshakeCalls + 1 THEN "release" ELSE "closeChannel"

(* ErrClosed, or the write fails. *)
callSendFails ==
  /\ main = "send"
  /\ \/ (closed \/ chClosed) /\ UNCHANGED <<outVars, doomed>>
     \/ ~closed /\ ~chClosed /\ sendM = None /\ FlushFails(FALSE) /\ Doom
  /\ main' = Failed
  /\ UNCHANGED <<mi, asked, pubVars, hbVars, rdrVars, locks, closed, chClosed, channels,
                 down, chDown, sock, faults>>

(* The reply, handed over by the reader. *)
callReturns ==
  /\ main = "wait"
  /\ rdr = "reading" /\ inbox # <<>> /\ Head(inbox) = "reply"
  /\ ChannelCall => cM = None
  /\ inbox' = Tail(inbox)
  /\ mi' = mi + 1
  /\ main' = IF mi = Calls THEN "serving" ELSE IF mi = TuneCall THEN "tune" ELSE "send"
  /\ UNCHANGED <<asked, pubVars, hbVars, rdr, locks, flags, sock, outVars, faults>>

(* The server's limits are taken over under Connection.m, then the         *)
(* heartbeater is started.                                                 *)
openTune ==
  /\ main = "tune"
  /\ cM = None
  /\ main' = "send"
  /\ hb' = "idle"
  /\ UNCHANGED <<mi, asked, beats, pubVars, rdrVars, locks, flags, sock, outVars, faults>>

(* Mutant: a call of the channel waits for its reply only. *)
callFailsOnConnection ==
  /\ main = "wait"
  /\ ~ChannelCall /\ down \in {"channel", "channelLock", "socket", "done"}
  /\ main' = Failed
  /\ UNCHANGED <<mi, asked, pubVars, hbVars, rdrVars, locks, flags, sock, outVars, faults>>

(* The errors channel of the connection, or of the channel, is closed. *)
callFails ==
  /\ main = "wait"
  /\ \/ ~ChannelCall /\ down \in {"channel", "channelLock", "socket", "done"}
     \/ ChannelCall /\ chDown
  /\ main' = Failed
  /\ UNCHANGED <<mi, asked, pubVars, hbVars, rdrVars, locks, flags, sock, outVars, faults>>

(* channel.Close after a failed declaration: nothing on a closed channel;  *)
(* otherwise the connection is closed or its writes fail, and so does the  *)
(* call; then closeChannel.                                                *)
channelClose ==
  /\ main = "closeChannel"
  /\ \/ chClosed /\ main' = "close" /\ UNCHANGED <<chClosed, chDown>>
     \/ /\ ~chClosed /\ chM = None
        /\ chClosed' = TRUE /\ chDown' = TRUE
        /\ main' = "release"
  /\ UNCHANGED <<mi, asked, pubVars, hbVars, rdrVars, locks, closed, channels, doomed,
                 down, sock, outVars, faults>>

(* releaseChannel waits for Connection.m, which a shutdown holds. *)
mainReleases ==
  /\ main = "release"
  /\ cM = None
  /\ channels' = (channels /\ closed)
  /\ main' = "close"
  /\ UNCHANGED <<mi, asked, pubVars, hbVars, rdrVars, locks, closed, chClosed, doomed,
                 down, chDown, sock, outVars, faults>>

(* connection.Close: ErrClosed, or the request to close, which may fail. *)
connectionClose ==
  /\ main = "close"
  /\ \/ closed /\ main' = "failed" /\ UNCHANGED <<asked, outVars, doomed>>
     \/ /\ ~closed /\ sendM = None
        /\ sock \in {"ok", "stale"} /\ FlushOk(<<>>, FALSE)
        /\ asked' = (sock = "ok")
        /\ main' = "closing"
        /\ UNCHANGED doomed
     \/ /\ ~closed /\ sendM = None
        /\ FlushFails(FALSE)
        /\ Doom
        /\ main' = "shutdown"
        /\ UNCHANGED asked
  /\ UNCHANGED <<mi, pubVars, hbVars, rdrVars, locks, closed, chClosed, channels,
                 down, chDown, sock, faults>>

(* close-ok arrives, or the connection ends first; then its own shutdown. *)
connectionCloseOk ==
  /\ main = "closing"
  /\ \/ rdr = "reading" /\ inbox # <<>> /\ Head(inbox) = "reply" /\ inbox' = Tail(inbox)
     \/ down \in {"channel", "channelLock", "socket", "done"} /\ UNCHANGED inbox
  /\ Doom
  /\ main' = "shutdown"
  /\ UNCHANGED <<mi, asked, pubVars, hbVars, rdr, locks, closed, chClosed, channels,
                 down, chDown, sock, outVars, faults>>

closeReturns ==
  /\ main = "shutdown"
  /\ down = "done"
  /\ main' = "failed"
  /\ UNCHANGED <<mi, asked, pubVars, hbVars, rdrVars, locks, flags, sock, outVars, faults>>

-----------------------------------------------------------------------------
(* PublishWithDeferredConfirm.                                             *)

Goto(p, s) == pub' = [pub EXCEPT ![p] = s]

Publish(p) ==
  /\ main = "serving"
  /\ pub[p] = "idle"
  /\ Goto(p, "lock")
  /\ UNCHANGED <<mainVars, err, result, hbVars, rdrVars, locks, flags, sock, outVars,
                 faults>>

(* Channel.m is taken; a closed channel sends nothing. *)
publishLocks(p) ==
  /\ pub[p] = "lock"
  /\ chM = None
  /\ chM' = p
  /\ err' = [err EXCEPT ![p] = chClosed]
  /\ Goto(p, IF chClosed THEN "unlock" ELSE "method")
  /\ UNCHANGED <<mainVars, result, hbVars, rdrVars, cM, sendM, flags, sock, outVars,
                 faults>>

NextFrame == [method |-> "header", header |-> "body", body |-> "flush"]

(* sendUnflushed of one frame; an error ends the sequence, not the flush.  *)
sendUnflushed(p) ==
  /\ pub[p] \in DOMAIN NextFrame
  /\ \/ /\ ~closed /\ sendM = None /\ ~wErr
        /\ buf' = Append(buf, [kind |-> pub[p], of |-> p])
        /\ Goto(p, NextFrame[pub[p]])
        /\ UNCHANGED <<err, doomed>>
     \/ /\ closed \/ (sendM = None /\ wErr)
        /\ err' = [err EXCEPT ![p] = TRUE]
        /\ Doom
        /\ Goto(p, "flush")
        /\ UNCHANGED buf
  /\ UNCHANGED <<mainVars, result, hbVars, rdrVars, locks, closed, chClosed, channels,
                 down, chDown, sock,
                 wErr, wire, helped, faults>>

endSendUnflushed(p) ==
  /\ pub[p] = "flush"
  /\ sendM = None
  /\ sendM' = p
  /\ Goto(p, "flushing")
  /\ UNCHANGED <<mainVars, err, result, hbVars, rdrVars, cM, chM, flags, sock, outVars,
                 faults>>

(* Mutant: the error of the flush is dropped. *)
flushUnchecked(p) ==
  /\ pub[p] = "flushing"
  /\ FlushOk(<<>>, TRUE) \/ FlushFails(TRUE)
  /\ sendM' = None
  /\ Goto(p, "unlock")
  /\ UNCHANGED <<mainVars, err, result, hbVars, rdrVars, cM, chM, flags, sock, faults>>

(* The write has no deadline: it waits as long as the socket is blocked. *)
flush(p) ==
  /\ pub[p] = "flushing"
  /\ \/ FlushOk(<<>>, TRUE) /\ UNCHANGED err
     \/ FlushFails(TRUE) /\ err' = [err EXCEPT ![p] = TRUE]
  /\ sendM' = None
  /\ Goto(p, "unlock")
  /\ UNCHANGED <<mainVars, result, hbVars, rdrVars, cM, chM, flags, sock, faults>>

(* Mutant: the lock is kept when the publish fails. *)
publishUnlocksOnSuccess(p) ==
  /\ pub[p] = "unlock"
  /\ chM' = IF err[p] THEN chM ELSE None
  /\ result' = [result EXCEPT ![p] = IF err[p] THEN "error" ELSE "ok"]
  /\ Goto(p, "done")
  /\ UNCHANGED <<mainVars, err, hbVars, rdrVars, cM, sendM, flags, sock, outVars, faults>>

publishReturns(p) ==
  /\ pub[p] = "unlock"
  /\ chM' = None
  /\ result' = [result EXCEPT ![p] = IF err[p] THEN "error" ELSE "ok"]
  /\ Goto(p, "done")
  /\ UNCHANGED <<mainVars, err, hbVars, rdrVars, cM, sendM, flags, sock, outVars, faults>>

-----------------------------------------------------------------------------
(* The heartbeater: send takes sendM and flushes.                          *)

beat ==
  /\ hb = "idle"
  /\ \/ closed /\ hb' = "gone" /\ UNCHANGED sendM
     \/ ~closed /\ sendM = None /\ sendM' = Beater /\ hb' = "sending"
  /\ beats < MaxBeats /\ beats' = beats + 1
  /\ UNCHANGED <<mainVars, pubVars, rdrVars, cM, chM, flags, sock, outVars, faults>>

beatSent ==
  /\ hb = "sending"
  /\ sock \notin {"blocked", "hung"}
  /\ \/ FlushOk(<<>>, FALSE) /\ sock \in {"ok", "stale"} /\ hb' = "idle" /\ UNCHANGED doomed
     \/ FlushFails(FALSE) /\ hb' = "gone" /\ Doom
  /\ sendM' = None
  /\ UNCHANGED <<beats, mainVars, pubVars, rdrVars, cM, chM, closed, chClosed, channels,
                 down, chDown, sock, faults>>

-----------------------------------------------------------------------------
(* The reader.                                                             *)

(* dispatchN of channel.close: updateChannel under Connection.m.  If the   *)
(* channel is gone, so is the connection, and dispatchClosed cannot answer.*)
readChannelClose ==
  /\ rdr = "reading" /\ inbox # <<>> /\ Head(inbox) = "channel.close"
  /\ cM = None
  /\ inbox' = Tail(inbox)
  /\ \/ channels /\ chClosed' = TRUE /\ rdr' = "lock"
     \/ ~channels /\ closed /\ UNCHANGED <<chClosed, rdr>>
  /\ UNCHANGED <<mainVars, pubVars, hbVars, locks, closed, channels, doomed, down,
                 chDown, sock, outVars, faults>>

(* Mutant: close-ok is sent without the lock of the channel. *)
dispatchUnlocked ==
  /\ rdr = "lock"
  /\ rdr' = "close-ok"
  /\ UNCHANGED <<mainVars, pubVars, hbVars, inbox, locks, flags, sock, outVars, faults>>

(* dispatch: the lock keeps close-ok out of a publishing. *)
dispatch ==
  /\ rdr = "lock"
  /\ chM = None
  /\ chM' = Reader
  /\ rdr' = "close-ok"
  /\ UNCHANGED <<mainVars, pubVars, hbVars, inbox, cM, sendM, flags, sock, outVars, faults>>

CloseOkFrame == <<[kind |-> "close-ok", of |-> None]>>

(* sendClosed: the one thing a closed channel sends, then Channel.m is     *)
(* released.                                                               *)
sendClosed ==
  /\ rdr = "close-ok"
  /\ \/ closed /\ UNCHANGED <<outVars, doomed>>
     \/ ~closed /\ sendM = None /\ sock \in {"ok", "stale"} /\ FlushOk(CloseOkFrame, FALSE) /\ UNCHANGED doomed
     \/ ~closed /\ sendM = None /\ FlushFails(FALSE) /\ Doom
  /\ chM' = IF chM = Reader THEN None ELSE chM
  /\ rdr' = "closeChannel"
  /\ UNCHANGED <<mainVars, pubVars, hbVars, inbox, cM, sendM, closed, chClosed, channels,
                 down, chDown, sock, faults>>

(* closeChannel: Channel.shutdown under Channel.m. *)
channelShutdown ==
  /\ rdr = "closeChannel"
  /\ chDown \/ chM = None
  /\ chDown' = TRUE
  /\ rdr' = "release"
  /\ UNCHANGED <<mainVars, pubVars, hbVars, inbox, locks, closed, chClosed, channels,
                 doomed, down, sock, outVars, faults>>

releaseChannel ==
  /\ rdr = "release"
  /\ cM = None
  /\ channels' = (channels /\ closed)
  /\ rdr' = "reading"
  /\ UNCHANGED <<mainVars, pubVars, hbVars, inbox, locks, closed, chClosed, doomed, down,
                 chDown, sock, outVars, faults>>

(* dispatch0 of connection.close: close-ok on channel 0, then shutdown. *)
readConnectionClose ==
  /\ rdr = "reading" /\ inbox # <<>> /\ Head(inbox) = "connection.close"
  /\ inbox' = Tail(inbox)
  /\ \/ closed /\ UNCHANGED outVars
     \/ ~closed /\ sendM = None /\ sock \in {"ok", "stale"} /\ FlushOk(<<>>, FALSE)
     \/ ~closed /\ sendM = None /\ FlushFails(FALSE)
  /\ Doom
  /\ rdr' = "shutdown"
  /\ UNCHANGED <<mainVars, pubVars, hbVars, locks, closed, chClosed, channels, down,
                 chDown, sock, faults>>

(* A reply nobody waits for any more. *)
dropReply ==
  /\ rdr = "reading" /\ inbox # <<>> /\ Head(inbox) = "reply"
  /\ main \notin {"wait", "closing"}
  /\ chDown \/ down = "done"
  /\ inbox' = Tail(inbox)
  /\ UNCHANGED <<mainVars, pubVars, hbVars, rdr, locks, flags, sock, outVars, faults>>

(* The end of the stream, or three heartbeats missed. *)
readFails ==
  /\ rdr = "reading"
  /\ sock \in {"stale", "hung", "dead", "closed"}
  /\ Doom
  /\ rdr' = "shutdown"
  /\ UNCHANGED <<mainVars, pubVars, hbVars, inbox, locks, closed, chClosed, channels,
                 down, chDown, sock, outVars, faults>>

readerEnds ==
  /\ rdr = "shutdown"
  /\ down = "done"
  /\ rdr' = "gone"
  /\ UNCHANGED <<mainVars, pubVars, hbVars, inbox, locks, flags, sock, outVars, faults>>

-----------------------------------------------------------------------------
(* Connection.shutdown, once.                                              *)

shutdownBegins ==
  /\ doomed /\ down = "up"
  /\ doomed' = FALSE
  /\ closed' = TRUE
  /\ down' = "lock"
  /\ UNCHANGED <<mainVars, pubVars, hbVars, rdrVars, locks, chClosed, channels, chDown,
                 sock, outVars, faults>>

(* Connection.m is held to the end; the errors channel is closed. *)
shutdownLocks ==
  /\ down = "lock"
  /\ cM = None
  /\ cM' = Shutdown
  /\ down' = "channel"
  /\ UNCHANGED <<mainVars, pubVars, hbVars, rdrVars, chM, sendM, closed, chClosed,
                 channels, doomed, chDown, sock, outVars, faults>>

shutdownChannel ==
  /\ down = "channel"
  /\ chClosed' = (chClosed \/ channels)
  /\ down' = IF channels THEN "channelLock" ELSE "socket"
  /\ UNCHANGED <<mainVars, pubVars, hbVars, rdrVars, locks, closed, channels, doomed,
                 chDown, sock, outVars, faults>>

shutdownChannelLock ==
  /\ down = "channelLock"
  /\ chDown \/ chM = None
  /\ chDown' = TRUE
  /\ down' = "socket"
  /\ UNCHANGED <<mainVars, pubVars, hbVars, rdrVars, locks, closed, chClosed, channels,
                 doomed, sock, outVars, faults>>

(* The socket is closed last, after Channel.m was waited for. *)
shutdownSocket ==
  /\ down = "socket"
  /\ sock' = "closed"
  /\ cM' = None
  /\ channels' = FALSE
  /\ down' = "done"
  /\ UNCHANGED <<mainVars, pubVars, hbVars, rdrVars, chM, sendM, closed, chClosed,
                 doomed, chDown, outVars, faults>>

shutdown ==
  \/ shutdownBegins \/ shutdownLocks \/ shutdownChannel \/ shutdownChannelLock \/ shutdownSocket

-----------------------------------------------------------------------------
(* The broker and the network.                                             *)

Sends(f) == inbox' = Append(inbox, f)

brokerReplies ==
  /\ asked /\ sock = "ok"
  /\ asked' = FALSE
  /\ Sends("reply")
  /\ UNCHANGED <<main, mi, pubVars, hbVars, rdr, locks, flags, sock, outVars, faults>>

(* A channel exception, or a broker that is being stopped. *)
brokerCloses ==
  /\ sock = "ok"
  /\ Fault
  /\ \/ /\ channels /\ ~chClosed /\ \A i \in 1..Len(inbox) : inbox[i] # "channel.close"
        /\ Sends("channel.close")
        /\ asked' = FALSE
     \/ Sends("connection.close") /\ UNCHANGED asked
  /\ UNCHANGED <<main, mi, pubVars, hbVars, rdr, locks, flags, sock, outVars>>

brokerBlocks ==
  /\ sock = "ok" /\ main = "serving"
  /\ Fault
  /\ sock' = "blocked"
  /\ UNCHANGED <<mainVars, pubVars, hbVars, rdrVars, locks, flags, outVars>>

brokerUnblocks ==
  /\ sock = "blocked"
  /\ sock' = "ok"
  /\ UNCHANGED <<mainVars, pubVars, hbVars, rdrVars, locks, flags, outVars, faults>>

connectionLost ==
  /\ sock \in {"ok", "blocked"}
  /\ Fault
  /\ sock' = IF sock = "ok" THEN "stale" ELSE "hung"
  /\ UNCHANGED <<mainVars, pubVars, hbVars, rdrVars, locks, flags, outVars>>

(* The kernel reports the loss. *)
connectionReset ==
  /\ sock \in {"stale", "hung"}
  /\ sock' = "dead"
  /\ UNCHANGED <<mainVars, pubVars, hbVars, rdrVars, locks, flags, outVars, faults>>

-----------------------------------------------------------------------------
newRabbitPublisher ==
  \/ callSend \/ callSendFails \/ callReturns \/ callFails \/ openTune
  \/ channelClose \/ mainReleases \/ connectionClose \/ connectionCloseOk \/ closeReturns

PublishWithDeferredConfirm(p) ==
  publishLocks(p) \/ sendUnflushed(p) \/ endSendUnflushed(p) \/ flush(p) \/ publishReturns(p)

reader ==
  \/ readChannelClose \/ dispatch \/ sendClosed \/ channelShutdown \/ releaseChannel
  \/ readConnectionClose \/ dropReply \/ readFails \/ readerEnds

Next ==
  \/ newRabbitPublisher
  \/ \E p \in Publishers : Publish(p) \/ PublishWithDeferredConfirm(p)
  \/ beat \/ beatSent
  \/ reader \/ shutdown
  \/ brokerReplies \/ brokerCloses \/ brokerBlocks \/ brokerUnblocks
  \/ connectionLost \/ connectionReset

Spec == Init /\ [][Next]_vars

(* Goroutines run; the broker answers and reads again; the kernel gives up *)
(* on a lost peer.  Nothing obliges requests to arrive.                    *)
Fairness ==
  /\ WF_vars(newRabbitPublisher) /\ WF_vars(reader) /\ WF_vars(shutdown) /\ WF_vars(beatSent)
  /\ \A p \in Publishers : WF_vars(PublishWithDeferredConfirm(p))
  /\ WF_vars(brokerReplies) /\ WF_vars(brokerUnblocks) /\ WF_vars(connectionReset)

FairSpec == Spec /\ Fairness

-----------------------------------------------------------------------------
(* Properties.                                                             *)

Stream == wire \o buf
Complete(p) == \E i \in 1..Len(wire) : wire[i] = [kind |-> "body", of |-> p]

(* Every variable keeps its type, and a lock is held only by a goroutine   *)
(* that is at a step between its Lock and its Unlock.                      *)
TypeOK ==
  /\ main \in {"send", "wait", "tune", "serving", "closeChannel", "release", "close", "closing",
               "shutdown", "failed"}
  /\ mi \in 1..(Calls + 1)
  /\ pub \in [Publishers -> {"idle", "lock", "method", "header", "body", "flush", "flushing",
                             "unlock", "done"}]
  /\ result \in [Publishers -> {"none", "ok", "error"}] /\ err \in [Publishers -> BOOLEAN]
  /\ hb \in {"off", "idle", "sending", "gone"} /\ beats \in 0..MaxBeats
  /\ rdr \in {"reading", "lock", "close-ok", "closeChannel", "release", "shutdown", "gone"}
  /\ inbox \in Seq({"reply", "channel.close", "connection.close"})
  /\ down \in {"up", "lock", "channel", "channelLock", "socket", "done"}
  /\ \A b \in {asked, closed, chClosed, channels, doomed, chDown, wErr} : b \in BOOLEAN
  /\ sock \in Socket /\ buf \in Seq(Frame) /\ wire \in Seq(Frame)
  /\ helped \subseteq Publishers /\ faults \in 0..MaxFaults
  /\ cM \in {None, Shutdown} /\ (cM = Shutdown <=> down \in {"channel", "channelLock", "socket"})
  /\ sendM \in Publishers \cup {None, Beater} /\ (sendM = Beater <=> hb = "sending")
  /\ \A p \in Publishers :
       /\ sendM = p <=> pub[p] = "flushing"
       /\ chM = p <=> pub[p] \in {"method", "header", "body", "flush", "flushing", "unlock"}

(* The frames of a publishing follow each other on the channel: another    *)
(* publish, a close-ok or the end of a shutdown never gets between them    *)
(* (Channel.m in PublishWithDeferredConfirm and dispatch).                 *)
FramesTogether ==
  \A i \in 1..(Len(Stream) - 1) :
    Stream[i].kind \in {"method", "header"} =>
      Stream[i + 1] = [kind |-> NextFrame[Stream[i].kind], of |-> Stream[i].of]

(* Publish returns nil only when the kernel took the whole publishing,     *)
(* whoever flushed it, and an error for one that was handed over as a      *)
(* whole only if another goroutine flushed it and the connection failed    *)
(* before the publisher's own flush: what TelemetryService.PublishFails    *)
(* assumes (sendOpen, endSendUnflushed, the sticky error of bufio.Writer). *)
ResultsTruthful ==
  \A p \in Publishers :
    /\ result[p] = "ok" => Complete(p)
    /\ result[p] = "error" /\ Complete(p) => p \in helped

(* newRabbitPublisher returns, whatever the broker does during the         *)
(* handshake and the declarations (call selects on the errors channel).    *)
CallsReturn == <>(main \in {"serving", "failed"})

(* No goroutine keeps a lock that others wait for: every publish returns,  *)
(* also when the connection is shut down around it, and a connection that  *)
(* is marked closed gets its socket closed and its reader ended (shutdown  *)
(* waits for Channel.m, and writes have no deadline).                      *)
LocksComeFree ==
  /\ \A p \in Publishers : pub[p] = "lock" ~> pub[p] = "done"
  /\ closed ~> (sock = "closed" /\ rdr = "gone")
=============================================================================
