------------------------- MODULE AmqpConnectionProofs -------------------------
(***************************************************************************)
(* Safety of the AMQP connection for any number of publishers, heartbeats  *)
(* and faults: what the three locks and the sticky error of the write      *)
(* buffer guarantee.                                                       *)
(***************************************************************************)
EXTENDS AmqpConnection, SequenceTheorems, TLAPS

(* newRabbitPublisher calls while calls are left, the heartbeater starts   *)
(* in openTune, and the reader holds Channel.m only for its close-ok.      *)
InvSteps ==
  /\ main \in {"send", "wait"} => mi <= Calls
  /\ main = "tune" => mi = TuneCall + 1
  /\ mi <= TuneCall \/ main = "tune" => hb = "off"
  /\ chM \in Publishers \cup {None, Reader} /\ (chM = Reader <=> rdr = "close-ok")

(* Nothing is buffered any more. *)
Dead == closed \/ wErr

AtEnd(f) == Stream # <<>> /\ Stream[Len(Stream)] = f

(* A publishing that is not complete is the last of the stream, and its    *)
(* publisher is about to send the frame that follows, or nothing follows.  *)
InvFrames ==
  /\ \A p \in Publishers :
       /\ pub[p] = "header" => Dead \/ AtEnd([kind |-> "method", of |-> p])
       /\ pub[p] = "body" => Dead \/ AtEnd([kind |-> "header", of |-> p])
  /\ Stream # <<>> /\ Stream[Len(Stream)].kind \in {"method", "header"} =>
       \/ Dead
       \/ /\ Stream[Len(Stream)].of \in Publishers
          /\ pub[Stream[Len(Stream)].of] = NextFrame[Stream[Len(Stream)].kind]

Body(p) == [kind |-> "body", of |-> p]
Sent(p) == \E i \in 1..Len(Stream) : Stream[i] = Body(p)

(* What a publish knows of its last frame at each of its steps. *)
BodyOf(p) ==
  /\ pub[p] \in {"idle", "lock", "method", "header", "body"} => ~Sent(p)
  /\ pub[p] \in {"method", "header", "body"} => ~err[p]
  /\ pub[p] \in {"flush", "flushing"} =>
       /\ IF err[p] THEN ~Sent(p) ELSE AtEnd(Body(p))
       /\ Complete(p) => p \in helped
  /\ pub[p] \in {"unlock", "done"} =>
       IF err[p] THEN (Sent(p) => wErr) /\ (Complete(p) => p \in helped) ELSE Complete(p)
  /\ result[p] # "none" => pub[p] = "done" /\ (result[p] = "ok" <=> ~err[p])
  /\ \A i, j \in 1..Len(Stream) : Stream[i] = Body(p) /\ Stream[j] = Body(p) => i = j

InvBody == \A p \in Publishers : BodyOf(p)

IInv == TypeOK /\ InvSteps /\ InvFrames /\ InvBody /\ FramesTogether

-----------------------------------------------------------------------------
(* Concatenation, by index. *)
LEMMA ConcatFacts ==
  ASSUME NEW S, NEW w \in Seq(S), NEW b \in Seq(S)
  PROVE  /\ w \o b \in Seq(S) /\ Len(w \o b) = Len(w) + Len(b)
         /\ Len(w) \in Nat /\ Len(b) \in Nat
         /\ \A i \in 1..Len(w) : (w \o b)[i] = w[i]
         /\ \A i \in 1..Len(b) : (w \o b)[Len(w) + i] = b[i]
  OBVIOUS

(* What is on the wire is a prefix of the stream. *)
LEMMA StreamFacts ==
  ASSUME NEW w \in Seq(Frame), NEW b \in Seq(Frame), NEW f
  PROVE  (\E i \in 1..Len(w) : w[i] = f) <=> (\E i \in 1..Len(w) : (w \o b)[i] = f)
  BY ConcatFacts

-----------------------------------------------------------------------------
(* What a flush by another goroutine than the publisher may do. *)
Moved ==
  /\ wire' \in Seq(Frame) /\ buf' \in Seq(Frame) /\ Stream' = Stream
  /\ wErr' \in BOOLEAN /\ (wErr => wErr')
  /\ helped \subseteq helped' /\ helped' \subseteq Publishers
  /\ \A p \in Publishers : Complete(p) => Complete(p)'
  /\ \A p \in Publishers : Complete(p)' => Complete(p) \/ p \in helped'

(* Who has a body frame in the buffer is a publisher, and counted. *)
LEMMA BufferedFacts ==
  ASSUME TypeOK
  PROVE  /\ Buffered \subseteq Publishers
         /\ \A p \in Publishers, i \in 1..Len(buf) : buf[i] = Body(p) => p \in Buffered
  <1>1. \A i \in 1..Len(buf) : buf[i] \in Frame
    BY DEF TypeOK
  <1>2. \A f \in Frame : f.of \in Publishers \cup {None}
    BY DEF Frame
  <1> QED
    BY <1>1, <1>2, OwnerAssumption DEF Buffered, Body

(* The boundary between wire and buffer moves, and what passes it is       *)
(* recorded.                                                               *)
LEMMA BoundaryMoves ==
  ASSUME TypeOK, wire' \in Seq(Frame), buf' \in Seq(Frame), Stream' = Stream,
         Len(wire') >= Len(wire), helped' = helped \cup Buffered, wErr' \in BOOLEAN, wErr => wErr'
  PROVE  Moved
  <1>1. wire \in Seq(Frame) /\ buf \in Seq(Frame) /\ helped \subseteq Publishers
    BY DEF TypeOK
  <1>2. /\ Len(Stream) = Len(wire) + Len(buf) /\ Len(wire) \in Nat /\ Len(buf) \in Nat
        /\ \A i \in 1..Len(buf) : Stream[Len(wire) + i] = buf[i]
        /\ Len(Stream') = Len(wire') + Len(buf') /\ Len(wire') \in Nat /\ Len(buf') \in Nat
    BY <1>1, ConcatFacts DEF Stream
  <1>3. ASSUME NEW p \in Publishers
        PROVE  /\ Complete(p) <=> \E i \in 1..Len(wire) : Stream[i] = Body(p)
               /\ Complete(p)' <=> \E i \in 1..Len(wire') : Stream[i] = Body(p)
    <2>1. /\ Complete(p) <=> \E i \in 1..Len(wire) : (wire \o buf)[i] = Body(p)
          /\ Complete(p)' <=> \E i \in 1..Len(wire') : (wire' \o buf')[i] = Body(p)
      BY <1>1, StreamFacts DEF Complete, Body
    <2> QED
      BY <2>1 DEF Stream
  <1>4. ASSUME NEW p \in Publishers, Complete(p)' PROVE Complete(p) \/ p \in helped'
    <2>1. PICK i \in 1..Len(wire') : Stream[i] = Body(p)
      BY <1>3, <1>4
    <2>2. CASE i <= Len(wire)
      BY <1>2, <1>3, <2>1, <2>2
    <2>3. CASE i > Len(wire)
      <3>1. i - Len(wire) \in 1..Len(buf) /\ Stream[i] = buf[i - Len(wire)]
        BY <1>2, <2>1, <2>3
      <3> QED
        BY <2>1, <3>1, BufferedFacts
    <2> QED
      BY <1>2, <2>2, <2>3
  <1>5. ASSUME NEW p \in Publishers, Complete(p) PROVE Complete(p)'
    BY <1>2, <1>3, <1>5
  <1> QED
    BY <1>1, <1>4, <1>5, BufferedFacts DEF Moved

(* A step that leaves buffer and socket alone moves nothing. *)
LEMMA StillMoved == ASSUME TypeOK, UNCHANGED outVars PROVE Moved
  BY DEF TypeOK, Moved, outVars, Stream, Complete

(* A failing flush carries a prefix; the stream stays, the error sticks. *)
LEMMA FlushFailsFacts ==
  ASSUME TypeOK, NEW own \in BOOLEAN, FlushFails(own), ~wErr
  PROVE  /\ wire' \in Seq(Frame) /\ buf' \in Seq(Frame) /\ Stream' = Stream
         /\ Len(wire') >= Len(wire) /\ wErr' = TRUE
         /\ own => Len(wire') < Len(Stream) /\ helped' = helped
         /\ ~own => helped' = helped \cup Buffered
  <1>1. wire \in Seq(Frame) /\ buf \in Seq(Frame)
    BY DEF TypeOK
  <1>2. PICK n \in 0..(Len(buf) - IF own THEN 1 ELSE 0) :
          wire' = wire \o SubSeq(buf, 1, n) /\ buf' = SubSeq(buf, n + 1, Len(buf))
    BY DEF FlushFails
  <1>3. n \in 0..Len(buf) /\ Len(wire) \in Nat /\ Len(buf) \in Nat /\ (own => n < Len(buf))
    BY <1>1
  <1>4. /\ wire' \in Seq(Frame) /\ buf' \in Seq(Frame) /\ wire' \o buf' = wire \o buf
        /\ Len(wire') = Len(wire) + n
    <2>1. /\ wire' \in Seq(Frame) /\ Len(wire') = Len(wire) + n
          /\ \A i \in 1..Len(wire) : wire'[i] = wire[i]
          /\ \A i \in 1..n : wire'[Len(wire) + i] = buf[i]
      BY <1>1, <1>2, <1>3
    <2>2. /\ buf' \in Seq(Frame) /\ Len(buf') = Len(buf) - n
          /\ \A i \in 1..(Len(buf) - n) : buf'[i] = buf[n + i]
      BY <1>1, <1>2, <1>3
    <2>3. /\ wire' \o buf' \in Seq(Frame) /\ Len(wire' \o buf') = Len(wire) + Len(buf)
          /\ wire \o buf \in Seq(Frame) /\ Len(wire \o buf) = Len(wire) + Len(buf)
      <3>1. wire' \in Seq(Frame) /\ buf' \in Seq(Frame)
        BY <2>1, <2>2
      <3>2. /\ wire' \o buf' \in Seq(Frame) /\ Len(wire' \o buf') = Len(wire') + Len(buf')
            /\ wire \o buf \in Seq(Frame) /\ Len(wire \o buf) = Len(wire) + Len(buf)
        BY <1>1, <3>1, ConcatFacts
      <3>3. Len(wire') + Len(buf') = Len(wire) + Len(buf)
        BY <1>3, <2>1, <2>2
      <3> QED
        BY <3>2, <3>3
    <2>4. ASSUME NEW i \in 1..(Len(wire) + Len(buf)) PROVE (wire' \o buf')[i] = (wire \o buf)[i]
      <3>1. CASE i <= Len(wire)
        BY <1>1, <1>3, <2>1, <2>2, <3>1
      <3>2. CASE i > Len(wire) /\ i <= Len(wire) + n
        <4>1. i - Len(wire) \in 1..n /\ wire'[Len(wire) + (i - Len(wire))] = buf[i - Len(wire)]
          BY <1>3, <2>1, <3>2
        <4> QED
          BY <1>1, <1>3, <2>1, <2>2, <3>2, <4>1
      <3>3. CASE i > Len(wire) + n
        <4>1. i - (Len(wire) + n) \in 1..(Len(buf) - n)
          BY <1>3, <3>3
        <4>2. buf'[i - (Len(wire) + n)] = buf[n + (i - (Len(wire) + n))]
          BY <2>2, <4>1
        <4>3. /\ n + (i - (Len(wire) + n)) = i - Len(wire) /\ i - Len(wire) \in 1..Len(buf)
              /\ i > Len(wire') /\ i - Len(wire') = i - (Len(wire) + n)
          BY <1>3, <2>1, <3>3
        <4>4. (wire \o buf)[i] = buf[i - Len(wire)]
          BY <1>1, <4>3, ConcatProperties
        <4>5. (wire' \o buf')[i] = buf'[i - Len(wire')]
          <5>1. wire' \in Seq(Frame) /\ buf' \in Seq(Frame) /\ i \in 1..(Len(wire') + Len(buf'))
            BY <1>3, <2>1, <2>2
          <5> QED
            BY <4>3, <5>1, ConcatProperties
        <4> QED
          BY <4>2, <4>3, <4>4, <4>5
      <3>4. i <= Len(wire) \/ (i > Len(wire) /\ i <= Len(wire) + n) \/ i > Len(wire) + n
        BY <1>3
      <3> QED
        BY <3>1, <3>2, <3>3, <3>4
    <2>5. wire' \o buf' = wire \o buf
      BY <2>3, <2>4, SeqEqual
    <2> QED
      BY <2>1, <2>2, <2>5
  <1>5. Len(Stream) = Len(wire) + Len(buf)
    BY <1>1, ConcatFacts DEF Stream
  <1> QED
    BY <1>3, <1>4, <1>5 DEF FlushFails, Stream

(* A flush that succeeds carries everything that was buffered. *)
LEMMA FlushOkFacts ==
  ASSUME TypeOK, NEW own \in BOOLEAN, FlushOk(<<>>, own)
  PROVE  /\ wire' \in Seq(Frame) /\ buf' = <<>> /\ Stream' = Stream
         /\ Len(wire') >= Len(wire) /\ Len(wire') = Len(Stream) /\ ~wErr /\ wErr' = wErr
         /\ own => helped' = helped
         /\ ~own => helped' = helped \cup Buffered
  <1>1. wire \in Seq(Frame) /\ buf \in Seq(Frame)
    BY DEF TypeOK
  <1>2. wire \o buf \in Seq(Frame) /\ Len(wire \o buf) >= Len(wire)
    BY <1>1, ConcatFacts
  <1>3. wire' = wire \o buf /\ buf' = <<>>
    BY <1>1, <1>2 DEF FlushOk
  <1>4. wire' \o buf' = wire \o buf
    BY <1>2, <1>3
  <1> QED
    BY <1>2, <1>3, <1>4 DEF FlushOk, Stream

(* Either way, a flush by another goroutine only moves frames on. *)
LEMMA OthersFlush ==
  ASSUME TypeOK, FlushOk(<<>>, FALSE) \/ FlushFails(FALSE)
  PROVE  Moved
  <1>1. wErr \in BOOLEAN
    BY DEF TypeOK
  <1>2. CASE FlushOk(<<>>, FALSE)
    <2>1. buf' = <<>>
      BY <1>2 DEF FlushOk
    <2>2. buf' \in Seq(Frame)
      BY <2>1
    <2> QED
      BY <1>1, <1>2, <2>2, FlushOkFacts, BoundaryMoves
  <1>3. CASE FlushFails(FALSE) /\ ~wErr
    BY <1>1, <1>3, FlushFailsFacts, BoundaryMoves
  <1>4. CASE FlushFails(FALSE) /\ wErr
    BY <1>4, StillMoved DEF FlushFails
  <1> QED
    BY <1>2, <1>3, <1>4

-----------------------------------------------------------------------------
(* The frames and the results. *)
InvOut == InvFrames /\ InvBody /\ FramesTogether

(* A publishing that is complete on the wire has its body in the stream. *)
LEMMA CompleteIsSent ==
  ASSUME TypeOK, NEW p \in Publishers, Complete(p)
  PROVE  Sent(p)
  <1>1. wire \in Seq(Frame) /\ buf \in Seq(Frame)
    BY DEF TypeOK
  <1>2. \E i \in 1..Len(wire) : (wire \o buf)[i] = Body(p)
    BY <1>1, StreamFacts DEF Complete, Body
  <1>3. Len(Stream) = Len(wire) + Len(buf) /\ Len(wire) \in Nat /\ Len(buf) \in Nat
    BY <1>1, ConcatFacts DEF Stream
  <1> QED
    BY <1>2, <1>3 DEF Sent, Stream

(* A step of another goroutine than a publisher, that adds nothing. *)
LEMMA MovedKeeps ==
  ASSUME TypeOK, InvOut, Moved, UNCHANGED pubVars, closed => closed'
  PROVE  InvOut'
  <1> USE DEF InvOut, Moved, pubVars
  <1>1. Dead => Dead'
    BY DEF Dead
  <1>2. FramesTogether'
    BY DEF FramesTogether
  <1>3. InvFrames'
    BY <1>1 DEF InvFrames, AtEnd
  <1>4. InvBody'
    BY DEF InvBody, BodyOf, Sent, AtEnd
  <1> QED
    BY <1>2, <1>3, <1>4

(* One frame more. *)
Appended(f) ==
  /\ Len(Stream) \in Nat /\ Len(Stream') = Len(Stream) + 1
  /\ \A i \in 1..Len(Stream) : Stream'[i] = Stream[i]
  /\ Stream'[Len(Stream) + 1] = f

(* A frame written behind the buffer is the last of the stream. *)
LEMMA AppendFacts ==
  ASSUME TypeOK, NEW f \in Frame,
         wire' \o buf' = Append(wire \o buf, f)
  PROVE  Appended(f) /\ Stream' # <<>>
  <1>1. wire \in Seq(Frame) /\ buf \in Seq(Frame)
    BY DEF TypeOK
  <1>2. wire \o buf \in Seq(Frame)
    BY <1>1
  <1>3. ASSUME NEW s \in Seq(Frame)
        PROVE  /\ Len(Append(s, f)) = Len(s) + 1 /\ Append(s, f)[Len(s) + 1] = f
               /\ \A i \in 1..Len(s) : Append(s, f)[i] = s[i]
               /\ Len(s) \in Nat /\ Append(s, f) # <<>>
    OBVIOUS
  <1>4. /\ Len(wire' \o buf') = Len(wire \o buf) + 1
        /\ (wire' \o buf')[Len(wire \o buf) + 1] = f
        /\ \A i \in 1..Len(wire \o buf) : (wire' \o buf')[i] = (wire \o buf)[i]
        /\ Len(wire \o buf) \in Nat /\ wire' \o buf' # <<>>
    BY <1>2, <1>3
  <1> QED
    BY <1>4 DEF Appended, Stream

(* sendUnflushed of one frame keeps the frames of a publishing together:   *)
(* whoever is in the middle of one holds Channel.m.                        *)
LEMMA AppendKeepsFrames ==
  ASSUME TypeOK, InvOut, NEW p \in Publishers, pub[p] \in DOMAIN NextFrame, ~Dead,
         Appended([kind |-> pub[p], of |-> p]), Stream' # <<>>,
         pub' = [pub EXCEPT ![p] = NextFrame[pub[p]]], UNCHANGED <<closed, wErr, chM>>
  PROVE  InvFrames' /\ FramesTogether'
  <1> DEFINE n == Len(Stream)
             f == [kind |-> pub[p], of |-> p]
  <1> USE DEF InvOut
  <1>1. /\ n \in Nat /\ Len(Stream') = n + 1 /\ Stream'[n + 1] = f
        /\ \A i \in 1..n : Stream'[i] = Stream[i]
    BY DEF Appended
  <1>2. pub[p] \in {"method", "header", "body"} /\ chM = p
    BY DEF TypeOK, NextFrame
  <1>3. \A q \in Publishers : pub[q] \in {"method", "header", "body"} => q = p
    BY <1>2 DEF TypeOK
  <1>4. /\ NextFrame["method"] = "header" /\ NextFrame["header"] = "body"
        /\ NextFrame["body"] = "flush"
    BY DEF NextFrame
  <1>5. pub'[p] = NextFrame[pub[p]] /\ \A q \in Publishers : q # p => pub'[q] = pub[q]
    BY DEF TypeOK
  <1>6. n > 0 /\ Stream[n].kind \in {"method", "header"} =>
          f = [kind |-> NextFrame[Stream[n].kind], of |-> Stream[n].of]
    <2>1. n > 0 => Stream # <<>>
      BY <1>1
    <2> QED
      BY <1>2, <1>3, <1>4, <2>1 DEF InvFrames
  <1>7. FramesTogether'
    <2> SUFFICES ASSUME NEW i \in 1..n, Stream'[i].kind \in {"method", "header"}
                 PROVE  Stream'[i + 1] = [kind |-> NextFrame[Stream'[i].kind], of |-> Stream'[i].of]
      BY <1>1 DEF FramesTogether
    <2>1. CASE i = n
      BY <1>1, <1>6, <2>1
    <2>2. CASE i < n
      <3>1. i \in 1..(n - 1) /\ Stream'[i] = Stream[i] /\ Stream'[i + 1] = Stream[i + 1]
        BY <1>1, <2>2
      <3> QED
        BY <3>1 DEF FramesTogether
    <2> QED
      BY <1>1, <2>1, <2>2
  <1>8. InvFrames'
    <2>1. \A q \in Publishers : pub'[q] \in {"header", "body"} => q = p
      BY <1>3, <1>5
    <2>2. /\ pub'[p] = "header" => f = [kind |-> "method", of |-> p]
          /\ pub'[p] = "body" => f = [kind |-> "header", of |-> p]
      BY <1>2, <1>4, <1>5
    <2>3. Stream'[Len(Stream')] = f
      BY <1>1
    <2>4. f.of = p /\ f.kind = pub[p]
      OBVIOUS
    <2> HIDE DEF f
    <2> QED
      BY <1>5, <2>1, <2>2, <2>3, <2>4 DEF InvFrames, AtEnd
  <1> QED
    BY <1>7, <1>8

(* A publisher's next frame keeps what every publish knows of its body. *)
LEMMA AppendKeepsBody ==
  ASSUME TypeOK, InvOut, NEW p \in Publishers, pub[p] \in DOMAIN NextFrame,
         Appended([kind |-> pub[p], of |-> p]), Stream' # <<>>,
         pub' = [pub EXCEPT ![p] = NextFrame[pub[p]]],
         UNCHANGED <<err, result, chM, wire, wErr, helped>>
  PROVE  InvBody'
  <1> DEFINE n == Len(Stream)
             f == [kind |-> pub[p], of |-> p]
  <1> USE DEF InvOut
  <1>1. /\ n \in Nat /\ Len(Stream') = n + 1 /\ Stream'[n + 1] = f
        /\ \A i \in 1..n : Stream'[i] = Stream[i]
    BY DEF Appended
  <1>2. pub[p] \in {"method", "header", "body"} /\ chM = p
    BY DEF TypeOK, NextFrame
  <1>3. /\ NextFrame["method"] = "header" /\ NextFrame["header"] = "body"
        /\ NextFrame["body"] = "flush"
    BY DEF NextFrame
  <1>4. pub'[p] = NextFrame[pub[p]] /\ \A q \in Publishers : q # p => pub'[q] = pub[q]
    BY DEF TypeOK
  <1>5. \A q \in Publishers : Complete(q)' <=> Complete(q)
    BY DEF Complete
  <1>6. ASSUME NEW q \in Publishers, f # Body(q)
        PROVE  /\ Sent(q)' <=> Sent(q)
               /\ (\A i, j \in 1..Len(Stream) : Stream[i] = Body(q) /\ Stream[j] = Body(q) => i = j)
                    => (\A i, j \in 1..Len(Stream') :
                          Stream'[i] = Body(q) /\ Stream'[j] = Body(q) => i = j)
    <2> HIDE DEF f
    <2>1. \A i \in 1..Len(Stream') : Stream'[i] = Body(q) => i \in 1..n
      BY <1>1, <1>6
    <2> QED
      BY <1>1, <2>1 DEF Sent
  <1>7. ASSUME NEW q \in Publishers, q # p PROVE BodyOf(q)'
    <2>1. f # Body(q)
      BY <1>7 DEF Body
    <2>2. pub[q] \notin {"flush", "flushing"}
      BY <1>2, <1>7 DEF TypeOK
    <2>3. BodyOf(q)
      BY DEF InvBody
    <2> HIDE DEF f
    <2> QED
      BY <1>4, <1>5, <1>6, <1>7, <2>1, <2>2, <2>3 DEF BodyOf
  <1>8. BodyOf(p)'
    <2>1. BodyOf(p) /\ ~Sent(p) /\ ~Complete(p)
      BY <1>2, CompleteIsSent DEF InvBody, BodyOf
    <2>2. CASE pub[p] \in {"method", "header"}
      <3>1. f # Body(p)
        BY <2>2 DEF Body
      <3> HIDE DEF f
      <3> QED
        BY <1>3, <1>4, <1>5, <1>6, <2>1, <2>2, <3>1 DEF BodyOf
    <2>3. CASE pub[p] = "body"
      <3>1. f = Body(p)
        BY <2>3 DEF Body
      <3> HIDE DEF f
      <3>2. \A i \in 1..Len(Stream') : Stream'[i] = Body(p) => i = n + 1
        BY <1>1, <2>1 DEF Sent
      <3>3. AtEnd(Body(p))'
        BY <1>1, <3>1 DEF AtEnd, Body
      <3> QED
        BY <1>3, <1>4, <1>5, <2>1, <2>3, <3>2, <3>3 DEF BodyOf, Body
    <2> QED
      BY <1>2, <2>2, <2>3
  <1> QED
    BY <1>7, <1>8 DEF InvBody

-----------------------------------------------------------------------------
(* The steps of a publish. *)

(* A step that changes no frame and leaves the other publishes alone. *)
LEMMA OthersKept ==
  ASSUME TypeOK, InvOut, NEW p \in Publishers, NEW s, pub' = [pub EXCEPT ![p] = s],
         \A q \in Publishers \ {p} : err'[q] = err[q] /\ result'[q] = result[q],
         UNCHANGED <<buf, wErr, wire, helped, closed>>,
         pub[p] \in DOMAIN NextFrame => Dead, s \notin {"header", "body"},
         BodyOf(p)'
  PROVE  InvOut'
  <1> USE DEF InvOut
  <1>1. pub'[p] = s /\ \A q \in Publishers \ {p} : pub'[q] = pub[q]
    BY DEF TypeOK
  <1>2. Stream' = Stream /\ Dead' = Dead
    BY DEF Stream, Dead
  <1>3. FramesTogether'
    BY <1>2 DEF FramesTogether
  <1>4. InvFrames'
    <2>1. \A k \in {"method", "header"} : NextFrame[k] \in {"header", "body"}
      BY DEF NextFrame
    <2>2. pub[p] \in {"header", "body"} => Dead
      BY DEF NextFrame
    <2> QED
      BY <1>1, <1>2, <2>1, <2>2 DEF InvFrames, AtEnd
  <1>5. \A q \in Publishers \ {p} : BodyOf(q)'
    BY <1>1, <1>2 DEF InvBody, BodyOf, Sent, AtEnd, Complete
  <1>6. InvBody'
    BY <1>5 DEF InvBody
  <1> QED
    BY <1>3, <1>4, <1>6

(* The steps of Publish that write nothing keep frames and results. *)
LEMMA PublishKeeps ==
  ASSUME TypeOK, InvOut, NEW p \in Publishers,
         Publish(p) \/ publishLocks(p) \/ endSendUnflushed(p) \/ publishReturns(p)
  PROVE  InvOut'
  <1>1. /\ BodyOf(p) /\ UNCHANGED <<buf, wErr, wire, helped, closed>>
        /\ pub[p] \in {"idle", "lock", "flush", "unlock"}
    BY DEF InvOut, InvBody, Publish, publishLocks, endSendUnflushed, publishReturns, outVars, flags
  <1>2. /\ Stream' = Stream /\ Sent(p)' = Sent(p) /\ Complete(p)' = Complete(p)
        /\ AtEnd(Body(p))' = AtEnd(Body(p))
    BY <1>1 DEF Stream, Sent, Complete, AtEnd, Body
  <1>3. pub[p] \notin DOMAIN NextFrame
    BY <1>1 DEF NextFrame
  <1>4. err[p] \in BOOLEAN /\ chClosed \in BOOLEAN
    BY DEF TypeOK
  <1>5. CASE Publish(p)
    <2>1. pub' = [pub EXCEPT ![p] = "lock"] /\ UNCHANGED <<err, result>> /\ pub'[p] = "lock"
      BY <1>5 DEF Publish, Goto, TypeOK
    <2>2. BodyOf(p)'
      BY <1>1, <1>2, <1>5, <2>1 DEF BodyOf, Publish
    <2> QED
      BY <1>1, <1>3, <2>1, <2>2, OthersKept
  <1>6. CASE publishLocks(p) /\ ~chClosed
    <2>1. /\ pub' = [pub EXCEPT ![p] = "method"] /\ pub'[p] = "method" /\ result' = result
          /\ \A q \in Publishers \ {p} : err'[q] = err[q]
          /\ err'[p] = chClosed
      BY <1>6 DEF publishLocks, Goto, TypeOK
    <2>2. BodyOf(p)'
      BY <1>1, <1>2, <1>6, <2>1 DEF BodyOf, publishLocks
    <2> QED
      BY <1>1, <1>3, <2>1, <2>2, OthersKept
  <1>7. CASE publishLocks(p) /\ chClosed
    <2>1. /\ pub' = [pub EXCEPT ![p] = "unlock"] /\ pub'[p] = "unlock" /\ result' = result
          /\ \A q \in Publishers \ {p} : err'[q] = err[q]
          /\ err'[p] = chClosed
      BY <1>7 DEF publishLocks, Goto, TypeOK
    <2>2. ~Sent(p) /\ ~Complete(p)
      BY <1>7, CompleteIsSent DEF InvOut, InvBody, BodyOf, publishLocks
    <2>3. BodyOf(p)'
      BY <1>1, <1>2, <1>7, <2>1, <2>2 DEF BodyOf, publishLocks
    <2> QED
      BY <1>1, <1>3, <2>1, <2>3, OthersKept
  <1>8. CASE endSendUnflushed(p)
    <2>1. pub' = [pub EXCEPT ![p] = "flushing"] /\ UNCHANGED <<err, result>> /\ pub'[p] = "flushing"
      BY <1>8 DEF endSendUnflushed, Goto, TypeOK
    <2>2. BodyOf(p)'
      BY <1>1, <1>2, <1>8, <2>1 DEF BodyOf, endSendUnflushed
    <2> QED
      BY <1>1, <1>3, <2>1, <2>2, OthersKept
  <1>9. CASE publishReturns(p)
    <2>1. /\ pub' = [pub EXCEPT ![p] = "done"] /\ pub'[p] = "done" /\ err' = err
          /\ \A q \in Publishers \ {p} : result'[q] = result[q]
          /\ result'[p] = IF err[p] THEN "error" ELSE "ok"
      BY <1>9 DEF publishReturns, Goto, TypeOK
    <2>2. BodyOf(p)'
      BY <1>1, <1>2, <1>4, <1>9, <2>1 DEF BodyOf, publishReturns
    <2> QED
      BY <1>1, <1>3, <2>1, <2>2, OthersKept
  <1> QED
    BY <1>4, <1>5, <1>6, <1>7, <1>8, <1>9

(* sendUnflushed keeps them: it writes the frame that follows, or fails. *)
LEMMA SendUnflushedKeeps ==
  ASSUME TypeOK, InvOut, NEW p \in Publishers, sendUnflushed(p)
  PROVE  InvOut'
  <1>1. pub[p] \in {"method", "header", "body"} /\ UNCHANGED <<result, chM, closed, wErr, wire, helped>>
    BY DEF sendUnflushed, NextFrame, locks
  <1>2. CASE ~closed /\ ~wErr /\ buf' = Append(buf, [kind |-> pub[p], of |-> p])
             /\ Goto(p, NextFrame[pub[p]]) /\ UNCHANGED err
    <2>1. [kind |-> pub[p], of |-> p] \in Frame
      BY <1>1 DEF Frame
    <2>2. wire \in Seq(Frame) /\ buf \in Seq(Frame)
      BY DEF TypeOK
    <2>3. ASSUME NEW f \in Frame PROVE wire \o Append(buf, f) = Append(wire \o buf, f)
      BY <2>2
    <2>4. wire' \o buf' = Append(wire \o buf, [kind |-> pub[p], of |-> p])
      BY <1>1, <1>2, <2>1, <2>3
    <2>5. Appended([kind |-> pub[p], of |-> p]) /\ Stream' # <<>>
      BY <2>1, <2>4, AppendFacts
    <2>6. pub[p] \in DOMAIN NextFrame /\ ~Dead /\ pub' = [pub EXCEPT ![p] = NextFrame[pub[p]]]
      BY <1>1, <1>2 DEF NextFrame, Dead, Goto
    <2> QED
      BY <1>1, <1>2, <2>5, <2>6, AppendKeepsFrames, AppendKeepsBody DEF InvOut
  <1>3. CASE (closed \/ wErr) /\ err' = [err EXCEPT ![p] = TRUE] /\ Goto(p, "flush") /\ UNCHANGED buf
    <2>1. /\ pub' = [pub EXCEPT ![p] = "flush"] /\ pub'[p] = "flush" /\ err'[p] = TRUE
          /\ \A q \in Publishers \ {p} : err'[q] = err[q]
      BY <1>3 DEF Goto, TypeOK
    <2>2. BodyOf(p) /\ ~Sent(p) /\ ~Complete(p)
      BY <1>1, CompleteIsSent DEF InvOut, InvBody, BodyOf
    <2>3. /\ Stream' = Stream /\ Sent(p)' = Sent(p) /\ Complete(p)' = Complete(p)
      BY <1>1, <1>3 DEF Stream, Sent, Complete
    <2>4. BodyOf(p)'
      BY <1>1, <2>1, <2>2, <2>3 DEF BodyOf
    <2> QED
      BY <1>1, <1>3, <2>1, <2>4, OthersKept DEF Dead
  <1> QED
    BY <1>2, <1>3 DEF sendUnflushed

(* The publisher's own flush: nobody else is between Lock and Unlock, and  *)
(* after a failure nothing more gets out.                                  *)
LEMMA FlushKeeps ==
  ASSUME TypeOK, InvOut, NEW p \in Publishers, flush(p)
  PROVE  InvOut'
  <1> USE DEF InvOut
  <1>1. /\ pub[p] = "flushing" /\ pub' = [pub EXCEPT ![p] = "unlock"] /\ pub'[p] = "unlock"
        /\ \A q \in Publishers \ {p} : pub'[q] = pub[q]
        /\ UNCHANGED <<result, chM, closed>>
    BY DEF flush, Goto, flags, TypeOK
  <1>2. \A q \in Publishers \ {p} :
          pub[q] \notin {"method", "header", "body", "flush", "flushing", "unlock"}
    BY <1>1 DEF TypeOK
  <1>3. /\ wire \in Seq(Frame) /\ buf \in Seq(Frame) /\ wErr \in BOOLEAN
        /\ \A q \in Publishers : err[q] \in BOOLEAN
    BY DEF TypeOK
  <1>4. /\ wire' \in Seq(Frame) /\ buf' \in Seq(Frame) /\ Stream' = Stream
        /\ Len(wire') >= Len(wire) /\ helped' = helped /\ (wErr => wErr' /\ wire' = wire)
        /\ \A q \in Publishers \ {p} : err'[q] = err[q]
        /\ \/ ~wErr /\ ~wErr' /\ err' = err /\ Len(wire') = Len(Stream)
           \/ err'[p] = TRUE /\ wErr' = TRUE /\ (wErr \/ Len(wire') < Len(Stream))
    <2>1. CASE FlushOk(<<>>, TRUE) /\ UNCHANGED err
      <3>1. buf' = <<>>
        BY <2>1 DEF FlushOk
      <3>2. buf' \in Seq(Frame)
        BY <3>1
      <3> QED
        BY <2>1, <3>2, FlushOkFacts
    <2>2. CASE FlushFails(TRUE) /\ ~wErr /\ err' = [err EXCEPT ![p] = TRUE]
      BY <2>2, FlushFailsFacts DEF TypeOK
    <2>3. CASE FlushFails(TRUE) /\ wErr /\ err' = [err EXCEPT ![p] = TRUE]
      <3>1. UNCHANGED <<buf, wErr, wire, helped>>
        BY <2>3 DEF FlushFails, outVars
      <3>2. Stream' = Stream /\ Len(wire) \in Nat
        BY <1>3, <3>1, ConcatFacts DEF Stream
      <3> QED
        BY <1>3, <2>3, <3>1, <3>2 DEF TypeOK
    <2> QED
      BY <2>1, <2>2, <2>3 DEF flush
  <1>5. /\ Len(Stream) = Len(wire') + Len(buf') /\ Len(wire') \in Nat /\ Len(buf') \in Nat
        /\ Len(wire) \in Nat
    BY <1>3, <1>4, ConcatFacts DEF Stream
  <1>6. ASSUME NEW q \in Publishers
        PROVE  /\ Complete(q) <=> \E i \in 1..Len(wire) : Stream[i] = Body(q)
               /\ Complete(q)' <=> \E i \in 1..Len(wire') : Stream[i] = Body(q)
               /\ Sent(q)' <=> Sent(q)
               /\ Complete(q) => Complete(q)'
               /\ Complete(q)' => Sent(q)
    <2>1. /\ Complete(q) <=> \E i \in 1..Len(wire) : (wire \o buf)[i] = Body(q)
          /\ Complete(q)' <=> \E i \in 1..Len(wire') : (wire' \o buf')[i] = Body(q)
      BY <1>3, <1>4, StreamFacts DEF Complete, Body
    <2>2. /\ Complete(q) <=> \E i \in 1..Len(wire) : Stream[i] = Body(q)
          /\ Complete(q)' <=> \E i \in 1..Len(wire') : Stream[i] = Body(q)
      BY <1>4, <2>1 DEF Stream
    <2>3. Sent(q)' <=> Sent(q)
      BY <1>4 DEF Sent, Body
    <2>4. Complete(q) => Complete(q)'
      BY <1>4, <1>5, <2>2
    <2>5. Complete(q)' => Sent(q)
      BY <1>5, <2>2 DEF Sent
    <2> QED
      BY <2>2, <2>3, <2>4, <2>5
  <1>7. FramesTogether'
    BY <1>4 DEF FramesTogether
  <1>8. InvFrames'
    <2>1. \A k \in {"method", "header"} : NextFrame[k] \in {"header", "body"}
      BY DEF NextFrame
    <2>2. Dead => Dead'
      BY <1>1, <1>4 DEF Dead
    <2> QED
      BY <1>1, <1>4, <2>1, <2>2 DEF InvFrames, AtEnd
  <1>9. ASSUME NEW q \in Publishers \ {p} PROVE BodyOf(q)'
    <2>1. BodyOf(q)
      BY DEF InvBody
    <2>2. pub[q] = "done" /\ err[q] => (Complete(q)' => q \in helped)
      <3>1. CASE wErr
        <4>1. Complete(q)' <=> Complete(q)
          BY <1>4, <3>1 DEF Complete
        <4> QED
          BY <2>1, <4>1 DEF BodyOf
      <3>2. CASE ~wErr
        BY <1>6, <2>1, <3>2 DEF BodyOf
      <3> QED
        BY <3>1, <3>2
    <2>3. pub[q] \in {"idle", "lock", "done"}
      BY <1>2 DEF TypeOK
    <2> QED
      BY <1>1, <1>3, <1>4, <1>6, <2>1, <2>2, <2>3 DEF BodyOf
  <1>10. BodyOf(p)'
    <2>1. BodyOf(p)
      BY DEF InvBody
    <2>2. CASE ~wErr /\ ~wErr' /\ err' = err /\ Len(wire') = Len(Stream)
      <3>1. err[p] => ~Sent(p) /\ ~Complete(p)'
        BY <1>1, <1>6, <2>1 DEF BodyOf
      <3>2. ~err[p] => Complete(p)'
        <4>1. ~err[p] => Stream # <<>> /\ Stream[Len(Stream)] = Body(p)
          BY <1>1, <2>1 DEF BodyOf, AtEnd
        <4>2. Stream # <<>> => Len(Stream) \in 1..Len(wire')
          <5>1. wire \o buf \in Seq(Frame)
            BY <1>3
          <5>2. Stream # <<>> => Len(Stream) > 0 /\ Len(Stream) \in Nat
            BY <5>1, EmptySeq DEF Stream
          <5> QED
            BY <2>2, <5>2
        <4> QED
          BY <1>6, <4>1, <4>2
      <3> QED
        BY <1>1, <1>4, <1>6, <2>1, <2>2, <3>1, <3>2 DEF BodyOf
    <2>3. CASE err'[p] = TRUE /\ wErr' = TRUE /\ (wErr \/ Len(wire') < Len(Stream))
      <3>1. Complete(p)' => p \in helped
        <4>1. CASE wErr
          <5>1. Complete(p)' <=> Complete(p)
            BY <1>4, <4>1 DEF Complete
          <5> QED
            BY <1>1, <2>1, <5>1 DEF BodyOf
        <4>2. CASE Len(wire') < Len(Stream) /\ err[p]
          BY <1>1, <1>6, <2>1, <4>2 DEF BodyOf
        <4>3. CASE Len(wire') < Len(Stream) /\ ~err[p]
          <5>1. Stream[Len(Stream)] = Body(p)
            BY <1>1, <2>1, <4>3 DEF BodyOf, AtEnd
          <5>2. \A i \in 1..Len(wire') : Stream[i] # Body(p)
            BY <1>5, <2>1, <4>3, <5>1 DEF BodyOf
          <5> QED
            BY <1>6, <5>2
        <4> QED
          BY <1>3, <2>3, <4>1, <4>2, <4>3
      <3> QED
        BY <1>1, <1>4, <1>6, <2>1, <2>3, <3>1 DEF BodyOf
    <2> QED
      BY <1>4, <2>2, <2>3
  <1> QED
    BY <1>7, <1>8, <1>9, <1>10 DEF InvBody

-----------------------------------------------------------------------------
(* close-ok: the reader holds Channel.m, so no publishing is under way. *)
LEMMA CloseOkFacts ==
  ASSUME TypeOK, FlushOk(CloseOkFrame, FALSE)
  PROVE  /\ wire' \in Seq(Frame) /\ buf' \in Seq(Frame) /\ wErr' = wErr /\ ~wErr
         /\ helped' = helped \cup Buffered
         /\ wire' = Append(wire \o buf, [kind |-> "close-ok", of |-> None])
         /\ Appended([kind |-> "close-ok", of |-> None]) /\ Stream' # <<>>
  <1> DEFINE f == [kind |-> "close-ok", of |-> None]
  <1>1. wire \in Seq(Frame) /\ buf \in Seq(Frame) /\ f \in Frame
    BY DEF TypeOK, Frame
  <1>2. wire \o buf \in Seq(Frame)
    BY <1>1
  <1>3. wire' = (wire \o buf) \o <<f>> /\ buf' = <<>>
    BY DEF FlushOk, CloseOkFrame
  <1> HIDE DEF f
  <1>4. ASSUME NEW s \in Seq(Frame)
        PROVE  s \o <<f>> = Append(s, f) /\ Append(s, f) \in Seq(Frame) /\ Append(s, f) \o <<>> = Append(s, f)
    BY <1>1
  <1>5. wire' = Append(wire \o buf, f) /\ wire' \in Seq(Frame) /\ wire' \o buf' = Append(wire \o buf, f)
    BY <1>2, <1>3, <1>4
  <1>6. Appended(f) /\ Stream' # <<>>
    BY <1>1, <1>5, AppendFacts
  <1>7. buf' \in Seq(Frame)
    BY <1>3
  <1> QED
    BY <1>5, <1>6, <1>7 DEF FlushOk, f

(* The reader's channel.close-ok is a frame of no publishing. *)
LEMMA CloseOkKeeps ==
  ASSUME TypeOK, InvSteps, InvOut, rdr = "close-ok", ~closed, FlushOk(CloseOkFrame, FALSE),
         UNCHANGED <<pubVars, closed>>
  PROVE  InvOut'
  <1> DEFINE f == [kind |-> "close-ok", of |-> None]
             n == Len(Stream)
  <1> USE DEF InvOut, pubVars
  <1>1. /\ n \in Nat /\ Len(Stream') = n + 1 /\ Stream'[n + 1] = f
        /\ \A i \in 1..n : Stream'[i] = Stream[i]
        /\ wErr' = wErr /\ ~wErr /\ helped' = helped \cup Buffered /\ Stream' # <<>>
    BY CloseOkFacts DEF Appended
  <1>2. \A p \in Publishers : pub[p] \notin {"method", "header", "body", "flush", "flushing"}
    BY OwnerAssumption DEF TypeOK, InvSteps
  <1>3. \A p \in Publishers : f # Body(p) /\ f.kind = "close-ok"
    BY DEF Body
  <1>4. n > 0 => Stream[n].kind \notin {"method", "header"}
    <2>1. n > 0 => Stream # <<>>
      BY <1>1
    <2>2. \A k \in {"method", "header"} : NextFrame[k] \in {"header", "body"}
      BY DEF NextFrame
    <2> QED
      BY <1>1, <1>2, <2>1, <2>2 DEF InvFrames, Dead
  <1>5. FramesTogether'
    <2> SUFFICES ASSUME NEW i \in 1..n, Stream'[i].kind \in {"method", "header"}
                 PROVE  Stream'[i + 1] = [kind |-> NextFrame[Stream'[i].kind], of |-> Stream'[i].of]
      BY <1>1 DEF FramesTogether
    <2>1. i < n
      BY <1>1, <1>4
    <2>2. i \in 1..(n - 1) /\ Stream'[i] = Stream[i] /\ Stream'[i + 1] = Stream[i + 1]
      BY <1>1, <2>1
    <2> QED
      BY <2>2 DEF FramesTogether
  <1>6. InvFrames'
    <2>1. Stream'[Len(Stream')].kind = "close-ok"
      BY <1>1
    <2> QED
      BY <1>2, <2>1 DEF InvFrames
  <1>7. ASSUME NEW p \in Publishers PROVE BodyOf(p)'
    <2>1. BodyOf(p)
      BY DEF InvBody
    <2> HIDE DEF f
    <2>2. \A i \in 1..Len(Stream') : Stream'[i] = Body(p) => i \in 1..n
      BY <1>1, <1>3
    <2>3. Sent(p)' <=> Sent(p)
      BY <1>1, <2>2 DEF Sent, Body
    <2>4. \A i, j \in 1..Len(Stream') : Stream'[i] = Body(p) /\ Stream'[j] = Body(p) => i = j
      BY <1>1, <2>1, <2>2 DEF BodyOf
    <2>5. Complete(p)' <=> Sent(p)
      <3>1. wire' = Append(wire \o buf, [kind |-> "close-ok", of |-> None]) /\ wire \o buf \in Seq(Frame)
        BY CloseOkFacts DEF TypeOK
      <3>2. /\ Len(wire') = n + 1 /\ wire'[n + 1] = f /\ \A i \in 1..n : wire'[i] = Stream[i]
        BY <3>1 DEF Stream, f
      <3> QED
        BY <1>1, <1>3, <3>2 DEF Complete, Sent, Body
    <2>6. Complete(p) => Sent(p)
      BY CompleteIsSent
    <2> QED
      BY <1>1, <1>2, <2>1, <2>3, <2>4, <2>5, <2>6 DEF BodyOf, Body
  <1> QED
    BY <1>5, <1>6, <1>7 DEF InvBody

-----------------------------------------------------------------------------
(* Types and locks, action by action. *)
OutTypes ==
  /\ wire' \in Seq(Frame) /\ buf' \in Seq(Frame)
  /\ wErr' \in BOOLEAN /\ helped' \subseteq Publishers

(* TypeOK in two parts: the values, and who holds which lock. *)
Types ==
  /\ main \in {"send", "wait", "tune", "serving", "closeChannel", "release", "close", "closing",
               "shutdown", "failed"}
  /\ mi \in 1..(Calls + 1)
  /\ pub \in [Publishers -> {"idle", "lock", "method", "header", "body", "flush", "flushing",
                             "unlock", "done"}]
  /\ result \in [Publishers -> {"none", "ok", "error"}] /\ err \in [Publishers -> BOOLEAN]
  /\ hb \in {"off", "idle", "sending", "gone"} /\ beats \in 0..MaxBeats
  /\ rdr \in {"reading", "lock", "close-ok", "closeChannel", "release", "shutdown", "gone"}
  /\ inbox \in Seq({"reply", "channel.close", "connection.close"})
  /\ down \in {"up", "lock", "channel", "channelLock", "socket", "done"}
  /\ asked \in BOOLEAN /\ closed \in BOOLEAN /\ chClosed \in BOOLEAN /\ channels \in BOOLEAN
  /\ doomed \in BOOLEAN /\ chDown \in BOOLEAN /\ wErr \in BOOLEAN
  /\ sock \in Socket /\ buf \in Seq(Frame) /\ wire \in Seq(Frame)
  /\ helped \subseteq Publishers /\ faults \in 0..MaxFaults

Owners ==
  /\ cM \in {None, Shutdown} /\ (cM = Shutdown <=> down \in {"channel", "channelLock", "socket"})
  /\ sendM \in Publishers \cup {None, Beater} /\ (sendM = Beater <=> hb = "sending")
  /\ \A p \in Publishers :
       /\ sendM = p <=> pub[p] = "flushing"
       /\ chM = p <=> pub[p] \in {"method", "header", "body", "flush", "flushing", "unlock"}

(* The two parts make up the type invariant. *)
LEMMA TypeParts == TypeOK <=> Types /\ Owners
  BY DEF TypeOK, Types, Owners

(* Faults stay within their bound. *)
LEMMA FaultFacts ==
  ASSUME Types, Fault \/ UNCHANGED faults
  PROVE  faults' \in 0..MaxFaults
  BY BoundAssumption DEF Types, Fault

(* newRabbitPublisher keeps types and lock owners. *)
LEMMA MainTypes ==
  ASSUME Types, Owners, InvSteps, newRabbitPublisher, OutTypes
  PROVE  Types' /\ Owners' /\ InvSteps'
  <1> USE DEF OutTypes, Calls, HandshakeCalls, TuneCall, ChannelCall, Failed, Doom, pubVars,
              hbVars, rdrVars, locks, flags, mainVars
  <1>0. mi \in Int /\ mi >= 1 /\ mi <= 9
    BY DEF Types
  <1>1. CASE callSend
    BY <1>0, <1>1 DEF callSend, Types, Owners, InvSteps
  <1>2. CASE callSendFails
    <2>1. doomed' \in BOOLEAN
      BY <1>2 DEF callSendFails, Types
    <2>2. /\ main' \in {"failed", "release", "closeChannel"}
          /\ UNCHANGED <<mi, asked, pubVars, hbVars, rdrVars, locks, closed, chClosed, channels,
                         down, chDown, sock, faults>>
      BY <1>2 DEF callSendFails
    <2> QED
      BY <1>0, <2>1, <2>2 DEF Types, Owners, InvSteps
  <1>3. CASE callReturns
    <2>1. inbox' \in Seq({"reply", "channel.close", "connection.close"})
      BY <1>3 DEF callReturns, Types
    <2>2. mi <= 8 /\ mi' = mi + 1 /\ UNCHANGED outVars
      BY <1>3 DEF callReturns, InvSteps
    <2> QED
      BY <1>0, <1>3, <2>1, <2>2 DEF callReturns, Types, Owners, InvSteps
  <1>4. CASE callFails
    BY <1>0, <1>4 DEF callFails, Types, Owners, InvSteps
  <1>4a. CASE openTune
    BY <1>0, <1>4a DEF openTune, Types, Owners, InvSteps
  <1>5. CASE channelClose
    <2>1. chClosed' \in BOOLEAN /\ chDown' \in BOOLEAN
      BY <1>5 DEF channelClose, Types
    <2>2. /\ main' \in {"close", "release"}
          /\ UNCHANGED <<mi, asked, pubVars, hbVars, rdrVars, locks, closed, channels, doomed,
                         down, sock, faults>>
      BY <1>5 DEF channelClose
    <2> QED
      BY <1>0, <2>1, <2>2 DEF Types, Owners, InvSteps
  <1>6. CASE mainReleases
    BY <1>0, <1>6 DEF mainReleases, Types, Owners, InvSteps
  <1>7. CASE connectionClose
    <2>1. asked' \in BOOLEAN /\ doomed' \in BOOLEAN
      BY <1>7 DEF connectionClose, Types
    <2>2. /\ main' \in {"failed", "closing", "shutdown"}
          /\ UNCHANGED <<mi, pubVars, hbVars, rdrVars, locks, closed, chClosed, channels,
                         down, chDown, sock, faults>>
      BY <1>7 DEF connectionClose
    <2> QED
      BY <1>0, <2>1, <2>2 DEF Types, Owners, InvSteps
  <1>8. CASE connectionCloseOk
    <2>1. inbox' \in Seq({"reply", "channel.close", "connection.close"})
      <3>1. inbox' = inbox \/ (inbox # <<>> /\ inbox' = Tail(inbox))
        BY <1>8 DEF connectionCloseOk
      <3>2. inbox \in Seq({"reply", "channel.close", "connection.close"})
        BY DEF Types
      <3>3. inbox # <<>> => Tail(inbox) \in Seq({"reply", "channel.close", "connection.close"})
        BY <3>2
      <3> QED
        BY <3>1, <3>2, <3>3
    <2> QED
      BY <1>0, <1>8, <2>1 DEF connectionCloseOk, Types, Owners, InvSteps
  <1>9. CASE closeReturns
    BY <1>0, <1>9 DEF closeReturns, Types, Owners, InvSteps
  <1> QED
    BY <1>1, <1>2, <1>3, <1>4, <1>4a, <1>5, <1>6, <1>7, <1>8, <1>9 DEF newRabbitPublisher

PubSteps == {"idle", "lock", "method", "header", "body", "flush", "flushing", "unlock", "done"}
Locked == {"method", "header", "body", "flush", "flushing", "unlock"}

(* A publish takes a lock that is free, keeps it or releases its own. *)
LEMMA PublishOwners ==
  ASSUME Types, Owners, InvSteps, NEW p \in Publishers, NEW s \in PubSteps,
         pub' = [pub EXCEPT ![p] = s], UNCHANGED <<main, mi, cM, down, hb, rdr>>,
         s = "flushing" => sendM = None /\ sendM' = p,
         s # "flushing" => sendM' = IF sendM = p THEN None ELSE sendM,
         s \in Locked => chM \in {None, p} /\ chM' = p,
         s \notin Locked => chM' = IF chM = p THEN None ELSE chM
  PROVE  Owners' /\ InvSteps'
  <1>1. p \notin {Reader, Beater, None} /\ None # Reader /\ None # Beater
    BY OwnerAssumption
  <1>2. pub'[p] = s /\ \A q \in Publishers : q # p => pub'[q] = pub[q]
    BY DEF Types
  <1>3. \A q \in Publishers : q # None
    BY OwnerAssumption
  <1>4. \A q \in Publishers : sendM' = q <=> pub'[q] = "flushing"
    BY <1>1, <1>2, <1>3 DEF Owners
  <1>5. \A q \in Publishers : chM' = q <=> pub'[q] \in Locked
    BY <1>1, <1>2, <1>3 DEF Owners, Locked
  <1>6. sendM' \in Publishers \cup {None, Beater} /\ (sendM' = Beater <=> hb = "sending")
    BY <1>1 DEF Owners
  <1>7. InvSteps'
    BY <1>1 DEF InvSteps
  <1> QED
    BY <1>4, <1>5, <1>6, <1>7 DEF Owners, Locked

(* So do the steps of a publish, *)
LEMMA PublishTypes ==
  ASSUME Types, Owners, InvSteps, NEW p \in Publishers, Publish(p) \/ PublishWithDeferredConfirm(p), OutTypes
  PROVE  Types' /\ Owners' /\ InvSteps'
  <1> USE DEF Goto, PubSteps, Locked
  <1>1. ASSUME NEW s \in PubSteps, pub' = [pub EXCEPT ![p] = s],
               err' \in [Publishers -> BOOLEAN], result' \in [Publishers -> {"none", "ok", "error"}],
               doomed' \in BOOLEAN,
               UNCHANGED <<main, mi, asked, hb, beats, rdr, inbox, down, closed, chClosed, channels,
                           chDown, sock, faults>>
        PROVE  Types'
    BY <1>1 DEF Types, OutTypes
  <1>2. /\ sendM = p <=> pub[p] = "flushing"
        /\ chM = p <=> pub[p] \in Locked
    BY DEF Owners
  <1>3. /\ err \in [Publishers -> BOOLEAN] /\ result \in [Publishers -> {"none", "ok", "error"}]
        /\ doomed \in BOOLEAN /\ closed \in BOOLEAN /\ chClosed \in BOOLEAN
    BY DEF Types
  <1>4. CASE Publish(p)
    <2>1. /\ pub[p] = "idle" /\ pub' = [pub EXCEPT ![p] = "lock"]
          /\ UNCHANGED <<mainVars, err, result, hbVars, rdrVars, locks, flags, sock, faults>>
      BY <1>4 DEF Publish
    <2>2. Types'
      BY <1>1, <1>3, <2>1 DEF mainVars, hbVars, rdrVars, flags
    <2> QED
      BY <1>2, <2>1, <2>2, PublishOwners DEF mainVars, hbVars, rdrVars, locks, flags
  <1>5. CASE publishLocks(p)
    <2>1. PICK s \in {"unlock", "method"} : pub' = [pub EXCEPT ![p] = s]
      BY <1>5 DEF publishLocks
    <2>2. /\ pub[p] = "lock" /\ chM = None /\ chM' = p /\ err' = [err EXCEPT ![p] = chClosed]
          /\ UNCHANGED <<mainVars, result, hbVars, rdrVars, cM, sendM, flags, sock, faults>>
      BY <1>5 DEF publishLocks
    <2>3. err' \in [Publishers -> BOOLEAN]
      BY <1>3, <2>2
    <2>4. Types'
      BY <1>1, <1>3, <2>1, <2>2, <2>3 DEF mainVars, hbVars, rdrVars, flags
    <2> QED
      BY <1>2, <2>1, <2>2, <2>4, PublishOwners DEF mainVars, hbVars, rdrVars, flags
  <1>6. CASE sendUnflushed(p)
    <2>1. pub[p] \in {"method", "header", "body"}
      BY <1>6 DEF sendUnflushed, NextFrame
    <2>2. PICK s \in {"header", "body", "flush"} : pub' = [pub EXCEPT ![p] = s]
      <3>1. NextFrame[pub[p]] \in {"header", "body", "flush"}
        BY <2>1 DEF NextFrame
      <3> QED
        BY <1>6, <3>1 DEF sendUnflushed
    <2>3. /\ doomed' \in BOOLEAN
          /\ err' = err \/ err' = [err EXCEPT ![p] = TRUE]
          /\ UNCHANGED <<mainVars, result, hbVars, rdrVars, locks, closed, chClosed, channels,
                         down, chDown, sock, faults>>
      BY <1>3, <1>6 DEF sendUnflushed, Doom
    <2>4. err' \in [Publishers -> BOOLEAN]
      BY <1>3, <2>3
    <2>5. Types'
      BY <1>1, <1>3, <2>2, <2>3, <2>4 DEF mainVars, hbVars, rdrVars
    <2> QED
      BY <1>2, <2>1, <2>2, <2>3, <2>5, PublishOwners DEF mainVars, hbVars, rdrVars, locks
  <1>7. CASE endSendUnflushed(p)
    <2>1. /\ pub[p] = "flush" /\ pub' = [pub EXCEPT ![p] = "flushing"] /\ sendM = None /\ sendM' = p
          /\ UNCHANGED <<mainVars, err, result, hbVars, rdrVars, cM, chM, flags, sock, faults>>
      BY <1>7 DEF endSendUnflushed
    <2>2. Types'
      BY <1>1, <1>3, <2>1 DEF mainVars, hbVars, rdrVars, flags
    <2> QED
      BY <1>2, <2>1, <2>2, PublishOwners DEF mainVars, hbVars, rdrVars, flags
  <1>8. CASE flush(p)
    <2>1. /\ pub[p] = "flushing" /\ pub' = [pub EXCEPT ![p] = "unlock"] /\ sendM' = None
          /\ err' = err \/ err' = [err EXCEPT ![p] = TRUE]
          /\ UNCHANGED <<mainVars, result, hbVars, rdrVars, cM, chM, flags, sock, faults>>
      BY <1>8 DEF flush
    <2>2. err' \in [Publishers -> BOOLEAN]
      BY <1>3, <2>1
    <2>3. Types'
      BY <1>1, <1>3, <2>1, <2>2 DEF mainVars, hbVars, rdrVars, flags
    <2> QED
      BY <1>2, <2>1, <2>3, PublishOwners DEF mainVars, hbVars, rdrVars, flags
  <1>9. CASE publishReturns(p)
    <2>1. /\ pub[p] = "unlock" /\ pub' = [pub EXCEPT ![p] = "done"] /\ chM' = None
          /\ result' = [result EXCEPT ![p] = IF err[p] THEN "error" ELSE "ok"]
          /\ UNCHANGED <<mainVars, err, hbVars, rdrVars, cM, sendM, flags, sock, faults>>
      BY <1>9 DEF publishReturns
    <2>2. result' \in [Publishers -> {"none", "ok", "error"}]
      BY <1>3, <2>1
    <2>3. Types'
      BY <1>1, <1>3, <2>1, <2>2 DEF mainVars, hbVars, rdrVars, flags
    <2> QED
      BY <1>2, <2>1, <2>3, PublishOwners DEF mainVars, hbVars, rdrVars, flags
  <1> QED
    BY <1>4, <1>5, <1>6, <1>7, <1>8, <1>9 DEF PublishWithDeferredConfirm

(* those of the reader, *)
LEMMA ReaderTypes ==
  ASSUME Types, Owners, InvSteps, reader, OutTypes
  PROVE  Types' /\ Owners' /\ InvSteps'
  <1> USE DEF OutTypes, Doom, pubVars, hbVars, locks, flags, mainVars, rdrVars
  <1>0. /\ Reader \notin Publishers /\ None \notin Publishers /\ None # Reader
        /\ inbox # <<>> => Tail(inbox) \in Seq({"reply", "channel.close", "connection.close"})
    BY OwnerAssumption DEF Types
  <1>1. CASE readChannelClose
    <2>1. chClosed' \in BOOLEAN /\ rdr' \in {"lock", rdr} /\ inbox' = Tail(inbox) /\ inbox # <<>>
      BY <1>1 DEF readChannelClose, Types
    <2>2. /\ rdr = "reading"
          /\ UNCHANGED <<mainVars, pubVars, hbVars, locks, closed, channels, doomed, down,
                         chDown, sock, faults>>
      BY <1>1 DEF readChannelClose
    <2> QED
      BY <1>0, <2>1, <2>2 DEF Types, Owners, InvSteps
  <1>2. CASE dispatch
    BY <1>0, <1>2 DEF dispatch, Types, Owners, InvSteps
  <1>3. CASE sendClosed
    <2>1. doomed' \in BOOLEAN
      BY <1>3 DEF sendClosed, Types
    <2>2. /\ rdr = "close-ok" /\ chM = Reader /\ chM' = None /\ rdr' = "closeChannel"
          /\ UNCHANGED <<mainVars, pubVars, hbVars, inbox, cM, sendM, closed, chClosed, channels,
                         down, chDown, sock, faults>>
      BY <1>3 DEF sendClosed, InvSteps
    <2> QED
      BY <1>0, <2>1, <2>2 DEF Types, Owners, InvSteps
  <1>4. CASE channelShutdown
    BY <1>0, <1>4 DEF channelShutdown, Types, Owners, InvSteps
  <1>5. CASE releaseChannel
    BY <1>0, <1>5 DEF releaseChannel, Types, Owners, InvSteps
  <1>6. CASE readConnectionClose
    BY <1>0, <1>6 DEF readConnectionClose, Types, Owners, InvSteps
  <1>7. CASE dropReply
    BY <1>0, <1>7 DEF dropReply, Types, Owners, InvSteps
  <1>8. CASE readFails
    BY <1>0, <1>8 DEF readFails, Types, Owners, InvSteps
  <1>9. CASE readerEnds
    BY <1>0, <1>9 DEF readerEnds, Types, Owners, InvSteps
  <1> QED
    BY <1>1, <1>2, <1>3, <1>4, <1>5, <1>6, <1>7, <1>8, <1>9 DEF reader

(* and those of shutdown. *)
LEMMA ShutdownTypes ==
  ASSUME Types, Owners, InvSteps, shutdown, OutTypes
  PROVE  Types' /\ Owners' /\ InvSteps'
  <1> USE DEF OutTypes, pubVars, hbVars, locks, flags, mainVars, rdrVars
  <1>0. None # Shutdown
    BY OwnerAssumption
  <1>1. CASE shutdownBegins
    <2>1. /\ doomed' \in BOOLEAN /\ closed' \in BOOLEAN /\ down = "up" /\ down' = "lock"
          /\ UNCHANGED <<mainVars, pubVars, hbVars, rdrVars, locks, chClosed, channels, chDown,
                         sock, faults>>
      BY <1>1 DEF shutdownBegins
    <2> QED
      BY <1>0, <2>1 DEF Types, Owners, InvSteps
  <1>2. CASE shutdownLocks
    BY <1>0, <1>2 DEF shutdownLocks, Types, Owners, InvSteps
  <1>3. CASE shutdownChannel
    BY <1>0, <1>3 DEF shutdownChannel, Types, Owners, InvSteps
  <1>4. CASE shutdownChannelLock
    BY <1>0, <1>4 DEF shutdownChannelLock, Types, Owners, InvSteps
  <1>5. CASE shutdownSocket
    <2>1. /\ sock' = "closed" /\ cM' = None /\ channels' \in BOOLEAN /\ down' = "done"
          /\ UNCHANGED <<mainVars, pubVars, hbVars, rdrVars, chM, sendM, closed, chClosed,
                         doomed, chDown, faults>>
      BY <1>5 DEF shutdownSocket
    <2> QED
      BY <1>0, <2>1 DEF Types, Owners, InvSteps, Socket
  <1> QED
    BY <1>1, <1>2, <1>3, <1>4, <1>5 DEF shutdown

(* The heartbeater, the broker and the network. *)
LEMMA OutsideTypes ==
  ASSUME Types, Owners, InvSteps, OutTypes,
         \/ beat \/ beatSent \/ brokerReplies \/ brokerCloses \/ brokerBlocks
         \/ brokerUnblocks \/ connectionLost \/ connectionReset
  PROVE  Types' /\ Owners' /\ InvSteps'
  <1> USE DEF OutTypes, Doom, pubVars, hbVars, locks, flags, mainVars, rdrVars, Sends
  <1>0. /\ Beater \notin Publishers /\ None \notin Publishers /\ None # Beater
        /\ inbox \in Seq({"reply", "channel.close", "connection.close"})
        /\ beats \in 0..MaxBeats /\ MaxBeats \in Nat
    BY OwnerAssumption, BoundAssumption DEF Types
  <1>1. CASE beat
    BY <1>0, <1>1 DEF beat, Types, Owners, InvSteps
  <1>2. CASE beatSent
    <2>1. doomed' \in BOOLEAN
      BY <1>2 DEF beatSent, Types
    <2>2. /\ hb = "sending" /\ hb' \in {"idle", "gone"} /\ sendM' = None
          /\ UNCHANGED <<beats, mainVars, pubVars, rdrVars, cM, chM, closed, chClosed, channels,
                         down, chDown, sock, faults>>
      BY <1>2 DEF beatSent
    <2> QED
      BY <1>0, <2>1, <2>2 DEF Types, Owners, InvSteps
  <1>3. CASE brokerReplies
    <2>1. inbox' \in Seq({"reply", "channel.close", "connection.close"})
      BY <1>0, <1>3 DEF brokerReplies
    <2> QED
      <3>1. /\ asked' \in BOOLEAN
            /\ UNCHANGED <<main, mi, pubVars, hbVars, rdr, locks, flags, sock, faults>>
        BY <1>3 DEF brokerReplies
      <3> QED
        BY <2>1, <3>1 DEF Types, Owners, InvSteps
  <1>4. CASE brokerCloses
    <2>1. inbox' \in Seq({"reply", "channel.close", "connection.close"}) /\ faults' \in 0..MaxFaults
      <3>1. inbox' = Append(inbox, "channel.close") \/ inbox' = Append(inbox, "connection.close")
        BY <1>4 DEF brokerCloses
      <3>2. faults' \in 0..MaxFaults
        BY <1>4, FaultFacts DEF brokerCloses
      <3> QED
        BY <1>0, <3>1, <3>2
    <2>2. /\ asked' \in BOOLEAN
          /\ UNCHANGED <<main, mi, pubVars, hbVars, rdr, locks, flags, sock>>
      BY <1>4 DEF brokerCloses, Types
    <2> QED
      BY <2>1, <2>2 DEF Types, Owners, InvSteps
  <1>5. CASE brokerBlocks
    <2>1. faults' \in 0..MaxFaults
      BY <1>5, FaultFacts DEF brokerBlocks
    <2> QED
      BY <1>5, <2>1 DEF brokerBlocks, Types, Owners, InvSteps, Socket
  <1>6. CASE brokerUnblocks
    BY <1>6 DEF brokerUnblocks, Types, Owners, InvSteps, Socket
  <1>7. CASE connectionLost
    <2>1. faults' \in 0..MaxFaults
      BY <1>7, FaultFacts DEF connectionLost
    <2> QED
      BY <1>7, <2>1 DEF connectionLost, Types, Owners, InvSteps, Socket
  <1>8. CASE connectionReset
    BY <1>8 DEF connectionReset, Types, Owners, InvSteps, Socket
  <1> QED
    BY <1>1, <1>2, <1>3, <1>4, <1>5, <1>6, <1>7, <1>8

-----------------------------------------------------------------------------
(* Initially nothing is buffered and no lock is held. *)
LEMMA IInvInit == Init => IInv
  <1> SUFFICES ASSUME Init PROVE IInv
    OBVIOUS
  <1>1. Types
    <2>1. /\ asked \in BOOLEAN /\ closed \in BOOLEAN /\ chClosed \in BOOLEAN /\ channels \in BOOLEAN
          /\ doomed \in BOOLEAN /\ chDown \in BOOLEAN /\ wErr \in BOOLEAN
      BY DEF Init
    <2>2. pub \in [Publishers -> PubSteps] /\ result \in [Publishers -> {"none", "ok", "error"}]
      BY DEF Init, PubSteps
    <2>3. err \in [Publishers -> BOOLEAN]
      BY DEF Init
    <2>4. /\ main = "send" /\ mi = 1 /\ hb = "off" /\ beats = 0 /\ rdr = "reading" /\ inbox = <<>>
          /\ down = "up" /\ sock = "ok" /\ buf = <<>> /\ wire = <<>> /\ helped = {} /\ faults = 0
      BY DEF Init
    <2> QED
      BY <2>1, <2>2, <2>3, <2>4, BoundAssumption DEF Types, Calls, Socket, PubSteps
  <1>2. Owners
    BY OwnerAssumption DEF Init, Owners
  <1>3. InvSteps
    BY OwnerAssumption DEF Init, InvSteps, Calls
  <1>4. Stream = <<>> /\ Len(Stream) = 0 /\ wire = <<>>
    BY DEF Init, Stream
  <1>5. InvFrames /\ FramesTogether
    BY <1>4 DEF Init, InvFrames, FramesTogether
  <1>6. InvBody
    <2>1. \A p \in Publishers : pub[p] = "idle" /\ result[p] = "none"
      BY DEF Init
    <2>2. 1..Len(Stream) = {}
      BY <1>4
    <2> QED
      BY <2>1, <2>2 DEF InvBody, BodyOf, Sent
  <1> QED
    BY <1>1, <1>2, <1>3, <1>5, <1>6, TypeParts DEF IInv

(* What the steps of all but the publishers do to the stream. *)
LEMMA QuietSteps ==
  ASSUME TypeOK, InvSteps,
         \/ newRabbitPublisher \/ beat \/ beatSent
         \/ reader /\ ~(rdr = "close-ok" /\ ~closed /\ FlushOk(CloseOkFrame, FALSE))
         \/ shutdown
         \/ brokerReplies \/ brokerCloses \/ brokerBlocks \/ brokerUnblocks
         \/ connectionLost \/ connectionReset
  PROVE  Moved /\ UNCHANGED pubVars /\ (closed => closed')
  <1> USE DEF flags
  <1>1. CASE newRabbitPublisher
    <2>1. UNCHANGED <<pubVars, closed>>
      BY <1>1 DEF newRabbitPublisher, callSend, callSendFails, callReturns, callFails, openTune,
                  channelClose, mainReleases, connectionClose, connectionCloseOk, closeReturns
    <2>2. UNCHANGED outVars \/ FlushOk(<<>>, FALSE) \/ FlushFails(FALSE)
      BY <1>1 DEF newRabbitPublisher, callSend, callSendFails, callReturns, callFails, openTune,
                  channelClose, mainReleases, connectionClose, connectionCloseOk, closeReturns
    <2> QED
      BY <2>1, <2>2, StillMoved, OthersFlush
  <1>2. CASE beat \/ beatSent
    <2>1. UNCHANGED <<pubVars, closed>> /\ (UNCHANGED outVars \/ FlushOk(<<>>, FALSE) \/ FlushFails(FALSE))
      BY <1>2 DEF beat, beatSent
    <2> QED
      BY <2>1, StillMoved, OthersFlush
  <1>3. CASE reader /\ ~(rdr = "close-ok" /\ ~closed /\ FlushOk(CloseOkFrame, FALSE))
    <2>1. UNCHANGED <<pubVars, closed>>
      BY <1>3 DEF reader, readChannelClose, dispatch, sendClosed, channelShutdown, releaseChannel,
                  readConnectionClose, dropReply, readFails, readerEnds
    <2>2. UNCHANGED outVars \/ FlushOk(<<>>, FALSE) \/ FlushFails(FALSE)
      BY <1>3 DEF reader, readChannelClose, dispatch, sendClosed, channelShutdown, releaseChannel,
                  readConnectionClose, dropReply, readFails, readerEnds
    <2> QED
      BY <2>1, <2>2, StillMoved, OthersFlush
  <1>4. CASE shutdown
    <2>1. UNCHANGED <<pubVars, outVars>> /\ (closed => closed')
      BY <1>4 DEF shutdown, shutdownBegins, shutdownLocks, shutdownChannel, shutdownChannelLock,
                  shutdownSocket
    <2> QED
      BY <2>1, StillMoved
  <1>5. CASE \/ brokerReplies \/ brokerCloses \/ brokerBlocks \/ brokerUnblocks
             \/ connectionLost \/ connectionReset
    <2>1. UNCHANGED <<pubVars, outVars, closed>>
      BY <1>5 DEF brokerReplies, brokerCloses, brokerBlocks, brokerUnblocks, connectionLost,
                  connectionReset
    <2> QED
      BY <2>1, StillMoved
  <1> QED
    BY <1>1, <1>2, <1>3, <1>4, <1>5

(* Every step keeps the invariant. *)
LEMMA IInvNext == IInv /\ [Next]_vars => IInv'
  <1> SUFFICES ASSUME IInv, [Next]_vars PROVE IInv'
    OBVIOUS
  <1>1. TypeOK /\ Types /\ Owners /\ InvSteps /\ InvOut
    BY TypeParts DEF IInv, InvOut
  <1>2. SUFFICES Types' /\ Owners' /\ InvSteps' /\ InvOut'
    BY DEF IInv, InvOut, TypeOK, Types, Owners
  <1>3. ASSUME NEW p \in Publishers, Publish(p) \/ PublishWithDeferredConfirm(p)
        PROVE  Types' /\ Owners' /\ InvSteps' /\ InvOut'
    <2>1. InvOut'
      BY <1>1, <1>3, PublishKeeps, SendUnflushedKeeps, FlushKeeps DEF PublishWithDeferredConfirm
    <2>2. OutTypes
      <3>1. CASE flush(p)
        <4>1. CASE FlushOk(<<>>, TRUE)
          <5>1. buf' = <<>>
            BY <4>1 DEF FlushOk
          <5>2. buf' \in Seq(Frame)
            BY <5>1
          <5> QED
            BY <1>1, <4>1, <5>2, FlushOkFacts DEF OutTypes, Types
        <4>2. CASE FlushFails(TRUE) /\ ~wErr
          <5>1. wErr' \in BOOLEAN
            BY <1>1, <4>2, FlushFailsFacts
          <5> QED
            BY <1>1, <4>2, <5>1, FlushFailsFacts DEF OutTypes, Types
        <4>3. CASE FlushFails(TRUE) /\ wErr
          BY <1>1, <4>3 DEF OutTypes, Types, FlushFails, outVars
        <4> QED
          BY <3>1, <4>1, <4>2, <4>3 DEF flush
      <3>2. CASE sendUnflushed(p)
        <4>1. pub[p] \in {"method", "header", "body"} /\ UNCHANGED <<wErr, wire, helped>>
          BY <3>2 DEF sendUnflushed, NextFrame
        <4>2. [kind |-> pub[p], of |-> p] \in Frame
          BY <4>1 DEF Frame
        <4>3. buf' \in Seq(Frame)
          <5>1. buf' = buf \/ buf' = Append(buf, [kind |-> pub[p], of |-> p])
            BY <3>2 DEF sendUnflushed
          <5>2. \A f \in Frame : Append(buf, f) \in Seq(Frame)
            BY <1>1 DEF Types
          <5> QED
            BY <1>1, <4>2, <5>1, <5>2 DEF Types
        <4> QED
          BY <1>1, <4>1, <4>3 DEF OutTypes, Types
      <3>3. CASE Publish(p) \/ publishLocks(p) \/ endSendUnflushed(p) \/ publishReturns(p)
        BY <1>1, <3>3 DEF Publish, publishLocks, endSendUnflushed, publishReturns, OutTypes, Types, outVars
      <3> QED
        BY <1>3, <3>1, <3>2, <3>3 DEF PublishWithDeferredConfirm
    <2> QED
      BY <1>1, <1>3, <2>1, <2>2, PublishTypes
  <1>4. CASE reader /\ rdr = "close-ok" /\ ~closed /\ FlushOk(CloseOkFrame, FALSE)
    <2>1. UNCHANGED <<pubVars, closed>>
      BY <1>4 DEF reader, readChannelClose, dispatch, sendClosed, channelShutdown, releaseChannel,
                  readConnectionClose, dropReply, readFails, readerEnds
    <2>2. InvOut'
      BY <1>1, <1>4, <2>1, CloseOkKeeps
    <2>3. OutTypes
      BY <1>1, <1>4, CloseOkFacts, BufferedFacts DEF OutTypes, Types
    <2> QED
      BY <1>1, <1>4, <2>2, <2>3, ReaderTypes
  <1>5. CASE \/ newRabbitPublisher \/ beat \/ beatSent
             \/ reader /\ ~(rdr = "close-ok" /\ ~closed /\ FlushOk(CloseOkFrame, FALSE))
             \/ shutdown
             \/ brokerReplies \/ brokerCloses \/ brokerBlocks \/ brokerUnblocks
             \/ connectionLost \/ connectionReset
    <2>1. Moved /\ UNCHANGED pubVars /\ (closed => closed')
      BY <1>1, <1>5, QuietSteps
    <2>2. InvOut'
      BY <1>1, <2>1, MovedKeeps
    <2>3. OutTypes
      BY <2>1 DEF Moved, OutTypes
    <2> QED
      BY <1>1, <1>5, <2>2, <2>3, MainTypes, ReaderTypes, ShutdownTypes, OutsideTypes
  <1>6. CASE UNCHANGED vars
    BY <1>1, <1>6, MovedKeeps, StillMoved
    DEF vars, Types, Owners, InvSteps, mainVars, pubVars, hbVars, rdrVars, locks, flags, outVars
  <1> QED
    BY <1>3, <1>4, <1>5, <1>6 DEF Next

(* The invariant holds throughout. *)
LEMMA Invariant == Spec => []IInv
  BY IInvInit, IInvNext, PTL DEF Spec

(* Every variable keeps its type, and each lock is held by the goroutine   *)
(* that is between its Lock and its Unlock, by nobody else                 *)
(* (Connection.m, Channel.m, Connection.sendM).                            *)
THEOREM TypeCorrect == Spec => []TypeOK
  <1>1. IInv => TypeOK
    BY DEF IInv
  <1> QED
    BY <1>1, Invariant, PTL

(* Method, header and body of a publishing follow each other on the        *)
(* channel, however many goroutines publish, and whatever the broker and   *)
(* a shutdown do in between (PublishWithDeferredConfirm, dispatch).        *)
THEOREM PublishingsUnbroken == Spec => []FramesTogether
  <1>1. IInv => FramesTogether
    BY DEF IInv
  <1> QED
    BY <1>1, Invariant, PTL

(* Publish returns nil only for a publishing the kernel took as a whole,   *)
(* and an error for such a one only if another goroutine flushed it        *)
(* (sendOpen, endSendUnflushed, bufio.Writer).                             *)
THEOREM ResultsAreTruthful == Spec => []ResultsTruthful
  <1>1. IInv => ResultsTruthful
    BY DEF IInv, InvBody, BodyOf, ResultsTruthful, TypeOK
  <1> QED
    BY <1>1, Invariant, PTL
=============================================================================
