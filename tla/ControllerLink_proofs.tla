------------------------- MODULE ControllerLink_proofs -------------------------
(***************************************************************************)
(* Proofs about ControllerLink for any number of connections, greenlets,   *)
(* faults and chunks under way: one receive greenlet lives and closes no   *)
(* connection but its own, and the server reads whole lines only.          *)
(***************************************************************************)
EXTENDS ControllerLink, SequenceTheorems, TLAPS

-----------------------------------------------------------------------------
(* Chunks in a buffer *)

Chunks == {"head", "tail"}

LEMMA BufferIsSeq == \A b : b \in Buffers <=> b \in Seq(Chunks) /\ Len(b) <= Cap
<1>1. ASSUME NEW b \in Buffers PROVE b \in Seq(Chunks) /\ Len(b) <= Cap
  <2>1. PICK n \in 0..Cap : b \in [1..n -> Chunks]
    BY <1>1 DEF Buffers, Chunks
  <2>2. n \in Nat /\ n <= Cap
    BY ConstantsAssumption
  <2> QED BY <2>1, <2>2
<1>2. ASSUME NEW b \in Seq(Chunks), Len(b) <= Cap PROVE b \in Buffers
  <2>1. Len(b) \in 0..Cap /\ b \in [1..Len(b) -> Chunks]
    BY <1>2, ConstantsAssumption
  <2> QED BY <2>1 DEF Buffers, Chunks
<1> QED BY <1>1, <1>2

\* What is left of a line after its head.
LineTail == <<"tail">>

LEMMA Pieces ==
    /\ Line \in Seq(Chunks) /\ LineTail \in Seq(Chunks) /\ <<>> \in Seq(Chunks)
    /\ Len(Line) = 2 /\ Len(LineTail) = 1 /\ Len(<<>>) = 0
    /\ Line # LineTail /\ Line # <<>> /\ LineTail # <<>>
    /\ SubSeq(Line, 1, 1) = <<"head">> /\ SubSeq(Line, 1, 2) = Line
    /\ SubSeq(Line, 2, 2) = LineTail /\ SubSeq(Line, 3, 2) = <<>>
    /\ SubSeq(LineTail, 1, 1) = LineTail /\ SubSeq(LineTail, 2, 1) = <<>>
<1>1. Len(Line) = 2 /\ Len(<<"tail">>) = 1 /\ Len(<<>>) = 0
  BY DEF Line
<1>2. Line # <<"tail">> /\ Line # <<>> /\ <<"tail">> # <<>>
  BY <1>1
<1>3. "head" \in Chunks /\ "tail" \in Chunks
  BY DEF Chunks
<1>4. Line \in Seq(Chunks) /\ <<"tail">> \in Seq(Chunks) /\ <<>> \in Seq(Chunks)
  BY <1>3 DEF Line
<1>5. SubSeq(Line, 1, 1) = <<"head">>
  <2>1. /\ SubSeq(Line, 1, 1) \in Seq(Chunks) /\ Len(SubSeq(Line, 1, 1)) = 1
        /\ SubSeq(Line, 1, 1)[1] = "head"
    BY <1>3, SubSeqProperties DEF Line
  <2>2. <<"head">> \in Seq(Chunks) /\ Len(<<"head">>) = 1 /\ <<"head">>[1] = "head"
    BY <1>3
  <2>3. 1..1 = {1}
    OBVIOUS
  <2> QED BY <2>1, <2>2, <2>3, SeqEqual
<1>6. SubSeq(Line, 1, 2) = Line
  BY <1>1, <1>4, SubSeqFull
<1>7. SubSeq(Line, 2, 2) = <<"tail">>
  <2>1. /\ SubSeq(Line, 2, 2) \in Seq(Chunks) /\ Len(SubSeq(Line, 2, 2)) = 1
        /\ SubSeq(Line, 2, 2)[1] = "tail"
    BY <1>3, SubSeqProperties DEF Line
  <2>2. <<"tail">> \in Seq(Chunks) /\ Len(<<"tail">>) = 1 /\ <<"tail">>[1] = "tail"
    BY <1>3
  <2>3. 1..1 = {1}
    OBVIOUS
  <2> QED BY <2>1, <2>2, <2>3, SeqEqual
<1>8. SubSeq(Line, 3, 2) = <<>> /\ SubSeq(<<"tail">>, 2, 1) = <<>>
  BY SubSeqEmpty
<1>9. SubSeq(<<"tail">>, 1, 1) = <<"tail">>
  BY <1>4, SubSeqFull
<1> QED BY <1>1, <1>2, <1>4, <1>5, <1>6, <1>7, <1>8, <1>9 DEF LineTail

\* What may be left of a line.
LEMMA RestIs == Rest = {Line, LineTail, <<>>}
<1>1. 1..3 = {1, 2, 3}
  OBVIOUS
<1> QED BY <1>1, Pieces DEF Rest

LEMMA AppendIs ==
    ASSUME NEW b \in Seq(Chunks)
    PROVE  /\ Append(b, "head") = b \o <<"head">> /\ Append(b, "tail") = b \o LineTail
           /\ Append(Append(b, "head"), "tail") = b \o Line
<1>1. \A c \in Chunks : Append(b, c) = b \o <<c>>
  BY AppendIsConcat
<1>2. "head" \in Chunks /\ "tail" \in Chunks
  BY DEF Chunks
<1>3. <<"head">> \in Seq(Chunks) /\ <<"tail">> \in Seq(Chunks)
  BY <1>2
<1>4. Append(b, "head") \in Seq(Chunks)
  BY <1>2, AppendProperties
<1>5. Append(Append(b, "head"), "tail") = (b \o <<"head">>) \o <<"tail">>
  BY <1>1, <1>2, <1>4, AppendIsConcat
<1>6. (b \o <<"head">>) \o <<"tail">> = b \o (<<"head">> \o <<"tail">>)
  BY <1>3, ConcatAssociative
<1>7. <<"head">> \o <<"tail">> = Line
  <2>1. <<"head">> \o <<"tail">> \in Seq(Chunks) /\ Len(<<"head">> \o <<"tail">>) = 2
        /\ (<<"head">> \o <<"tail">>)[1] = "head" /\ (<<"head">> \o <<"tail">>)[2] = "tail"
    BY <1>3, ConcatProperties
  <2>2. Line \in Seq(Chunks) /\ Len(Line) = 2 /\ Line[1] = "head" /\ Line[2] = "tail"
    BY <1>2 DEF Line
  <2>3. 1..2 = {1, 2}
    OBVIOUS
  <2> QED BY <2>1, <2>2, <2>3, SeqEqual
<1> QED BY <1>1, <1>2, <1>5, <1>6, <1>7 DEF LineTail

\* A write puts nothing, the head, or all that is left behind what is there.
LEMMA PutIs ==
    ASSUME NEW b \in Buffers, NEW rest \in Rest
    PROVE  \/ Put(b, rest) = b /\ Later(b, rest) = rest
           \/ rest = Line /\ Put(b, rest) = Append(b, "head") /\ Later(b, rest) = LineTail
           \/ rest = Line /\ Put(b, rest) = Append(Append(b, "head"), "tail")
              /\ Later(b, rest) = <<>>
           \/ rest = LineTail /\ Put(b, rest) = Append(b, "tail") /\ Later(b, rest) = <<>>
<1> DEFINE room == Cap - Len(b)
<1>1. b \in Seq(Chunks) /\ room \in Nat
  BY BufferIsSeq, ConstantsAssumption
<1>2. rest \in {Line, LineTail, <<>>}
  BY RestIs
<1>3. CASE room = 0 \/ rest = <<>>
  <2>1. Fits(b, rest) = 0
    BY <1>1, <1>2, <1>3, Pieces DEF Fits
  <2>2. rest \in Seq(Chunks)
    BY <1>2, Pieces
  <2>3. SubSeq(rest, 1, 0) = <<>> /\ SubSeq(rest, 1, Len(rest)) = rest
    BY <2>2, SubSeqEmpty
  <2>4. b \o <<>> = b
    BY <1>1, ConcatEmptySeq
  <2>5. 0 + 1 = 1
    OBVIOUS
  <2>6. Put(b, rest) = b /\ Later(b, rest) = rest
    BY <2>1, <2>3, <2>4, <2>5 DEF Put, Later
  <2> QED BY <2>6
<1>4. CASE room # 0 /\ rest = LineTail
  <2>1. Fits(b, rest) = 1
    BY <1>1, <1>4, Pieces DEF Fits
  <2>3. Put(b, rest) = b \o SubSeq(LineTail, 1, 1)
        /\ Later(b, rest) = SubSeq(LineTail, 1 + 1, Len(LineTail))
    BY <1>4, <2>1 DEF Put, Later
  <2>4. 1 + 1 = 2 /\ Len(LineTail) = 1
    BY Pieces
  <2>2. Put(b, rest) = b \o LineTail /\ Later(b, rest) = <<>>
    BY <2>3, <2>4, Pieces
  <2> QED BY <1>1, <1>4, <2>2, AppendIs
<1>5. CASE room = 1 /\ rest = Line
  <2>1. Fits(b, rest) = 1
    BY <1>1, <1>5, Pieces DEF Fits
  <2>3. Put(b, rest) = b \o SubSeq(Line, 1, 1) /\ Later(b, rest) = SubSeq(Line, 1 + 1, Len(Line))
    BY <1>5, <2>1 DEF Put, Later
  <2>4. 1 + 1 = 2 /\ Len(Line) = 2
    BY Pieces
  <2>2. Put(b, rest) = b \o <<"head">> /\ Later(b, rest) = LineTail
    BY <2>3, <2>4, Pieces
  <2> QED BY <1>1, <1>5, <2>2, AppendIs
<1>6. CASE room > 1 /\ rest = Line
  <2>1. Fits(b, rest) = 2
    BY <1>1, <1>6, Pieces DEF Fits
  <2>3. Put(b, rest) = b \o SubSeq(Line, 1, 2) /\ Later(b, rest) = SubSeq(Line, 2 + 1, Len(Line))
    BY <1>6, <2>1 DEF Put, Later
  <2>4. 2 + 1 = 3 /\ Len(Line) = 2
    BY Pieces
  <2>2. Put(b, rest) = b \o Line /\ Later(b, rest) = <<>>
    BY <2>3, <2>4, Pieces
  <2> QED BY <1>1, <1>6, <2>2, AppendIs
<1>7. room = 0 \/ room = 1 \/ room > 1
  BY <1>1
<1> QED BY <1>2, <1>3, <1>4, <1>5, <1>6, <1>7

LEMMA PutTyped ==
    ASSUME NEW b \in Buffers, NEW rest \in Rest
    PROVE  Put(b, rest) \in Buffers /\ Later(b, rest) \in Rest
<1>1. b \in Seq(Chunks) /\ Len(b) \in Nat /\ Len(b) <= Cap /\ rest \in Seq(Chunks)
  <2>1. b \in Seq(Chunks) /\ Len(b) <= Cap
    BY BufferIsSeq
  <2>2. rest \in Seq(Chunks)
    BY RestIs, Pieces
  <2> QED BY <2>1, <2>2
<1>2. Fits(b, rest) \in Nat /\ Fits(b, rest) <= Len(rest) /\ Fits(b, rest) <= Cap - Len(b)
  BY <1>1, ConstantsAssumption DEF Fits
<1>3. SubSeq(rest, 1, Fits(b, rest)) \in Seq(Chunks)
      /\ Len(SubSeq(rest, 1, Fits(b, rest))) = Fits(b, rest)
  BY <1>1, <1>2
<1>4. Put(b, rest) \in Seq(Chunks) /\ Len(Put(b, rest)) <= Cap
  BY <1>1, <1>2, <1>3, ConstantsAssumption DEF Put
<1>5. Later(b, rest) \in Rest
  BY PutIs, RestIs
<1> QED BY <1>4, <1>5, BufferIsSeq

LEMMA TailTyped ==
    ASSUME NEW b \in Buffers, b # <<>>
    PROVE  Head(b) \in Chunks /\ Tail(b) \in Buffers
<1>1. b \in Seq(Chunks) /\ Len(b) <= Cap
  BY BufferIsSeq
<1>2. Head(b) \in Chunks /\ Tail(b) \in Seq(Chunks) /\ Len(Tail(b)) = Len(b) - 1
  BY <1>1, HeadTailProperties
<1>3. Len(b) \in Nat /\ Len(Tail(b)) <= Cap
  BY <1>1, <1>2, LenProperties, ConstantsAssumption
<1> QED BY <1>2, <1>3, BufferIsSeq

-----------------------------------------------------------------------------
(* Whole lines *)

\* A line of which the tail is to come, when line has been read before the buffer b.
Begun(line, b) == IF b = <<>> THEN line = "head" ELSE b[Len(b)] = "head"

\* Heads and tails take turns, from what has been read on.
Whole(line, b) ==
    /\ b # <<>> => (b[1] = "tail" <=> line = "head")
    /\ \A i \in 1..(Len(b) - 1) : b[i] # b[i + 1]

LEMMA AppendWhole ==
    ASSUME NEW line, NEW b \in Seq(Chunks), NEW c \in Chunks,
           Whole(line, b), c = "tail" <=> Begun(line, b)
    PROVE  Whole(line, Append(b, c)) /\ (Begun(line, Append(b, c)) <=> c = "head")
<1>1. /\ Append(b, c) \in Seq(Chunks) /\ Len(Append(b, c)) = Len(b) + 1
      /\ \A i \in 1..Len(b) : Append(b, c)[i] = b[i]
      /\ Append(b, c)[Len(b) + 1] = c
  OBVIOUS
<1>2. Append(b, c) # <<>>
  BY <1>1
<1>3. Begun(line, Append(b, c)) <=> c = "head"
  BY <1>1, <1>2 DEF Begun
<1>4. Append(b, c)[1] = "tail" <=> line = "head"
  <2>1. CASE b = <<>> BY <1>1, <2>1 DEF Begun
  <2>2. CASE b # <<>> BY <1>1, <2>2 DEF Whole
  <2> QED BY <2>1, <2>2
<1>5. ASSUME NEW i \in 1..Len(b) PROVE Append(b, c)[i] # Append(b, c)[i + 1]
  <2>1. CASE i < Len(b)
    <3>1. i + 1 \in 1..Len(b) /\ i \in 1..(Len(b) - 1) BY <2>1
    <3> QED BY <1>1, <3>1 DEF Whole
  <2>2. CASE i = Len(b)
    <3>1. b # <<>> /\ b[i] \in Chunks BY <2>2
    <3> QED BY <1>1, <2>2, <3>1 DEF Begun, Chunks
  <2> QED BY <2>1, <2>2
<1> QED BY <1>1, <1>2, <1>3, <1>4, <1>5 DEF Whole

\* A sendall that begins a line where one has ended, or goes on with the one begun.
LEMMA PutWhole ==
    ASSUME NEW line, NEW b \in Buffers, NEW rest \in {Line, LineTail},
           Whole(line, b), rest = LineTail <=> Begun(line, b)
    PROVE  /\ Whole(line, Put(b, rest))
           /\ Begun(line, Put(b, rest)) <=> Later(b, rest) = LineTail
<1>1. b \in Seq(Chunks) /\ rest \in Rest /\ Line # LineTail /\ <<>> # LineTail
  BY BufferIsSeq, RestIs, Pieces
<1>2. "head" \in Chunks /\ "tail" \in Chunks
  BY DEF Chunks
<1>3. CASE Put(b, rest) = b /\ Later(b, rest) = rest
  BY <1>3
<1>4. CASE rest = Line /\ Put(b, rest) = Append(b, "head") /\ Later(b, rest) = LineTail
  BY <1>1, <1>2, <1>4, AppendWhole
<1>5. CASE rest = Line /\ Put(b, rest) = Append(Append(b, "head"), "tail") /\ Later(b, rest) = <<>>
  <2>1. Whole(line, Append(b, "head")) /\ Begun(line, Append(b, "head"))
    BY <1>1, <1>2, <1>5, AppendWhole
  <2>2. Append(b, "head") \in Seq(Chunks)
    BY <1>1, <1>2, AppendProperties
  <2> DEFINE d == Append(b, "head")
  <2>3. Whole(line, Append(d, "tail")) /\ ~ Begun(line, Append(d, "tail"))
    <3> HIDE DEF d
    <3>1. d \in Seq(Chunks) /\ Whole(line, d) /\ Begun(line, d)
      BY <2>1, <2>2 DEF d
    <3> QED BY <1>2, <3>1, AppendWhole
  <2> QED BY <1>1, <1>5, <2>3
<1>6. CASE rest = LineTail /\ Put(b, rest) = Append(b, "tail") /\ Later(b, rest) = <<>>
  BY <1>1, <1>2, <1>6, AppendWhole
<1>7. \/ Put(b, rest) = b /\ Later(b, rest) = rest
      \/ rest = Line /\ Put(b, rest) = Append(b, "head") /\ Later(b, rest) = LineTail
      \/ rest = Line /\ Put(b, rest) = Append(Append(b, "head"), "tail") /\ Later(b, rest) = <<>>
      \/ rest = LineTail /\ Put(b, rest) = Append(b, "tail") /\ Later(b, rest) = <<>>
  BY <1>1, PutIs
<1> QED BY <1>3, <1>4, <1>5, <1>6, <1>7

\* The server reads the next chunk.
LEMMA ReadWhole ==
    ASSUME NEW line \in {"nothing", "head"}, NEW b \in Buffers, b # <<>>, Whole(line, b)
    PROVE  /\ Read(line, Head(b)) = IF Head(b) = "tail" THEN "whole" ELSE "head"
           /\ Whole(Read(line, Head(b)), Tail(b))
           /\ Begun(Read(line, Head(b)), Tail(b)) <=> Begun(line, b)
<1>1. /\ b \in Seq(Chunks) /\ Len(b) \in Nat \ {0} /\ Head(b) = b[1] /\ b[1] \in Chunks
      /\ Tail(b) \in Seq(Chunks) /\ Len(Tail(b)) = Len(b) - 1
      /\ \A i \in 1..(Len(b) - 1) : Tail(b)[i] = b[i + 1]
  BY BufferIsSeq
<1>2. Read(line, Head(b)) = IF Head(b) = "tail" THEN "whole" ELSE "head"
  BY <1>1 DEF Read, Whole, Chunks
<1>3. Tail(b) = <<>> <=> Len(b) = 1
  <2>1. Tail(b) # <<>> => Len(Tail(b)) # 0
    BY <1>1, EmptySeq
  <2> QED BY <1>1, <2>1
<1>4. Begun(Read(line, Head(b)), Tail(b)) <=> Begun(line, b)
  BY <1>1, <1>2, <1>3 DEF Begun, Chunks
<1>5. Tail(b) # <<>> => (Tail(b)[1] = "tail" <=> Head(b) = "head")
  <2> SUFFICES ASSUME Tail(b) # <<>> PROVE Tail(b)[1] = "tail" <=> Head(b) = "head"
    OBVIOUS
  <2>1. 1 \in 1..(Len(b) - 1) /\ 2 \in 1..Len(b) /\ 1 + 1 = 2
    BY <1>1, <1>3
  <2>2. Tail(b)[1] = b[2] /\ b[2] \in Chunks /\ b[1] # b[2]
    BY <1>1, <2>1 DEF Whole
  <2> QED BY <1>1, <2>2 DEF Chunks
<1>6. ASSUME NEW i \in 1..(Len(Tail(b)) - 1) PROVE Tail(b)[i] # Tail(b)[i + 1]
  <2>1. i \in 1..(Len(b) - 1) /\ i + 1 \in 1..(Len(b) - 1)
    BY <1>1
  <2> QED BY <1>1, <2>1 DEF Whole
<1>7. Read(line, Head(b)) = "head" <=> Head(b) = "head"
  BY <1>1, <1>2 DEF Chunks
<1> QED BY <1>2, <1>4, <1>5, <1>6, <1>7 DEF Whole

-----------------------------------------------------------------------------
(* The invariant *)

Labels == {"dead", "idle", "loop", "recv", "handle", "sending"}

ControllerTyped ==
    /\ server_socket \in Sockets \cup {None} /\ is_connected \in BOOLEAN
    /\ _send_lock \in Greenlets \cup {None} /\ _recv_greenlet \in Receivers \cup {None}
    /\ connector \in {"check", "connect", "spawn"}
    /\ pc \in [Greenlets -> Labels]
    /\ at \in [Greenlets -> Sockets \cup {None}] /\ left \in [Greenlets -> Rest]

HeardTyped ==
    heard \in [Receivers -> {"nothing", "head", "torn"}] /\ stalled \in BOOLEAN

EndsTyped ==
    /\ ctl \in [Sockets -> {"closed", "connecting", "open"}]
    /\ srv \in [Sockets -> {"closed", "queued", "open"}]
    /\ broken \subseteq Sockets
    /\ up \in [Sockets -> Buffers]

DownTyped == down \in [Sockets -> Buffers]

ServerTyped ==
    /\ clients \subseteq Sockets /\ client_lock \in Threads \cup {None}
    /\ thread \in [Sockets -> {"done", "recv", "process", "reply", "error", "locked", "cleanup"}]
    /\ read \in [Sockets -> {"nothing", "head", "torn", "whole"}]
    /\ unsent \in [Threads -> Rest] /\ target \in Sockets \cup {None}
    /\ breaks \in 0..MaxBreaks

Types == ControllerTyped /\ HeardTyped /\ EndsTyped /\ DownTyped /\ ServerTyped

\* One receive greenlet at most, and none between a kill and the spawn.
OneReceiver ==
    \A r \in Receivers : pc[r] # "dead" => r = _recv_greenlet /\ connector # "spawn"

LockHeld == \A g \in Greenlets : _send_lock = g <=> pc[g] = "sending"

\* Who waits for a socket knows it; while connected, a receive greenlet waits for the
\* current one.
Waits ==
    /\ \A g \in Greenlets : pc[g] \in {"recv", "sending"} => at[g] \in Sockets
    /\ \A r \in Receivers : pc[r] = "recv" /\ is_connected => at[r] = server_socket

Connected ==
    is_connected =>
        connector # "connect" /\ server_socket \in Sockets /\ ctl[server_socket] = "open"

\* All connections but the current one have been closed.
OneLink ==
    \A s \in Sockets :
        /\ ctl[s] = "open" => s = server_socket /\ is_connected
        /\ ctl[s] = "connecting" => s = server_socket /\ connector = "connect"

Connecting == connector = "connect" => server_socket \in Sockets

Links == OneReceiver /\ LockHeld /\ Waits /\ Connected /\ OneLink /\ Connecting

\* What the server has read of a line goes with the step of its thread.
Reads ==
    \A s \in Sockets :
        /\ Whole(read[s], up[s])
        /\ read[s] # "torn"
        /\ read[s] = "whole" <=> thread[s] = "process"
        /\ read[s] = "head" => thread[s] \in {"recv", "cleanup"}
        /\ srv[s] = "queued" => thread[s] = "done"

\* A connection that is being made is new at both ends.
Fresh ==
    \A s \in Sockets : ctl[s] = "connecting" =>
        /\ srv[s] = "closed" /\ thread[s] = "done" /\ up[s] = <<>> /\ s \notin broken
        /\ \A g \in Greenlets : at[g] # s

\* A greenlet has written a head to s and still has to write the tail.
Halfway(s) == \E g \in Greenlets : pc[g] = "sending" /\ at[g] = s /\ left[g] = LineTail

\* A line has been begun on a connection in use just when a sendall is half-way.
Sent ==
    /\ \A g \in Greenlets : pc[g] = "sending" => left[g] \in {Line, LineTail}
    /\ \A s \in Sockets : Usable(s) => (Begun(read[s], up[s]) <=> Halfway(s))

Streams == Reads /\ Fresh /\ Sent

IInv == Types /\ Links /\ Streams

LEMMA TypesIs == Types <=> TypeOK
  BY DEF Types, ControllerTyped, HeardTyped, EndsTyped, DownTyped, ServerTyped, TypeOK, Labels

LEMMA InvariantImplies == IInv => LinkInv /\ UpLinesWhole
<1> SUFFICES ASSUME IInv PROVE LinkInv /\ UpLinesWhole
  OBVIOUS
<1>1. TypeOK
  BY TypesIs DEF IInv
<1>2. UpLinesWhole
  BY DEF IInv, Streams, Reads, UpLinesWhole
<1>3. is_connected => server_socket # None /\ ctl[server_socket] = "open"
  BY ConstantsAssumption DEF IInv, Links, Connected
<1>4. \A s \in Sockets : ctl[s] # "closed" => s = server_socket
  BY DEF IInv, Types, EndsTyped, Links, OneLink
<1>5. /\ \A r \in Receivers : pc[r] # "dead" => r = _recv_greenlet
      /\ \A g \in Greenlets : _send_lock = g <=> pc[g] = "sending"
  BY DEF IInv, Links, OneReceiver, LockHeld
<1> QED BY <1>1, <1>2, <1>3, <1>4, <1>5 DEF LinkInv

LEMMA InductiveInit == Init => IInv
<1> SUFFICES ASSUME Init PROVE IInv
  OBVIOUS
<1>1. <<>> \in Buffers /\ <<>> \in Rest
  <2>1. <<>> \in Seq(Chunks) /\ Len(<<>>) <= Cap
    BY EmptySeq, ConstantsAssumption
  <2> QED BY <2>1, BufferIsSeq, RestIs
<1>2. ControllerTyped
  BY <1>1 DEF Init, ControllerTyped, Labels
<1>3. HeardTyped /\ EndsTyped /\ DownTyped
  BY <1>1 DEF Init, HeardTyped, EndsTyped, DownTyped
<1>7. ServerTyped
  <2>1. unsent \in [Threads -> Rest]
    BY <1>1 DEF Init
  <2>2. read \in [Sockets -> {"nothing", "head", "torn", "whole"}]
    BY DEF Init
  <2>3. thread \in [Sockets -> {"done", "recv", "process", "reply", "error", "locked", "cleanup"}]
    BY DEF Init
  <2>4. breaks \in 0..MaxBreaks
    BY ConstantsAssumption DEF Init
  <2> QED BY <2>1, <2>2, <2>3, <2>4 DEF Init, ServerTyped
<1>4. Links
  BY ConstantsAssumption
  DEF Init, Links, OneReceiver, LockHeld, Waits, Connected, OneLink, Connecting, Greenlets
<1>5. Reads
  <2>1. \A line : line = "nothing" => Whole(line, <<>>)
    BY Pieces DEF Whole
  <2> QED BY <2>1 DEF Init, Reads
<1>6. Fresh /\ Sent
  BY DEF Init, Fresh, Sent, Usable
<1> QED BY <1>2, <1>3, <1>4, <1>5, <1>6, <1>7 DEF IInv, Types, Streams

-----------------------------------------------------------------------------
(* What a step of a greenlet does to the connections *)

LEMMA StepIs ==
    ASSUME ControllerTyped, NEW g \in Greenlets, NEW step \in Labels,
           NEW s \in Sockets \cup {None}, NEW rest \in Rest, Step(g, step, s, rest)
    PROVE  /\ pc' \in [Greenlets -> Labels] /\ at' \in [Greenlets -> Sockets \cup {None}]
           /\ left' \in [Greenlets -> Rest]
           /\ pc'[g] = step /\ at'[g] = s /\ left'[g] = rest
           /\ \A h \in Greenlets \ {g} : pc'[h] = pc[h] /\ at'[h] = at[h] /\ left'[h] = left[h]
  BY DEF ControllerTyped, Step

\* It sends nothing and closes nothing; it may begin to wait for the current socket.
Quiet(g) ==
    /\ pc[g] \notin {"dead", "sending"}
    /\ \E step \in Labels \ {"dead", "sending"}, s \in Sockets \cup {None} :
         /\ Step(g, step, s, <<>>)
         /\ s # None => s = server_socket /\ is_connected
         /\ step = "recv" => s # None
    /\ UNCHANGED <<is_connected, _send_lock, ctl, up>>

\* It writes to the current connection, a line or what is left of one.
Written(g) ==
    /\ pc[g] # "dead"
    /\ \E s \in Sockets, rest \in Rest :
         /\ Usable(s)
         /\ \/ _send_lock = None /\ rest = Line
            \/ pc[g] = "sending" /\ at[g] = s /\ rest = left[g]
         /\ Write(g, s, rest)
    /\ UNCHANGED <<is_connected, ctl>>

\* It closes the current connection and lets go of the lock.
Dropped(g) ==
    /\ pc[g] # "dead"
    /\ \E step \in Labels \ {"sending", "recv"} : Step(g, step, None, <<>>)
    /\ _send_lock' = IF _send_lock = g THEN None ELSE _send_lock
    /\ is_connected' = FALSE
    /\ \A s \in Sockets : ctl'[s] = "closed"
    /\ ctl' \in [Sockets -> {"closed", "connecting", "open"}]
    /\ UNCHANGED up

Stopped == UNCHANGED <<pc, at, left, _send_lock, is_connected, ctl, up>>

LEMMA DisconnectIs ==
    ASSUME Types, OneLink, Disconnect
    PROVE  /\ is_connected' = FALSE /\ DownTyped'
           /\ \A s \in Sockets : ctl'[s] = "closed"
           /\ ctl' \in [Sockets -> {"closed", "connecting", "open"}]
<1>1. <<>> \in Buffers
  <2>1. <<>> \in Seq(Chunks) /\ Len(<<>>) <= Cap
    BY EmptySeq, ConstantsAssumption
  <2> QED BY <2>1, BufferIsSeq
<1>2. \A s \in Sockets : ctl[s] # "closed" => s = server_socket
  BY DEF OneLink, Types, EndsTyped
<1> QED BY <1>1, <1>2, ConstantsAssumption
  DEF Disconnect, Types, EndsTyped, DownTyped, ControllerTyped

LEMMA ResumeIs ==
    ASSUME NEW g \in Greenlets, Resume(g)
    PROVE  /\ \E step \in Labels \ {"dead", "sending", "recv"} : Step(g, step, None, <<>>)
           /\ \E step \in Labels \ {"sending", "recv"} : Step(g, step, None, <<>>)
  BY DEF Resume, Labels

LEMMA GreenletsKnown ==
    /\ Receivers \subseteq Greenlets /\ Senders \subseteq Greenlets
    /\ None \notin Greenlets /\ None \notin Sockets
  BY ConstantsAssumption DEF Greenlets

\* _send_to_server, from a greenlet that is not in the middle of it.
LEMMA SendEffect ==
    ASSUME Types, Links, NEW g \in Greenlets, pc[g] \in {"idle", "handle"}, Send(g)
    PROVE  /\ Quiet(g) \/ Written(g) \/ Dropped(g) \/ Stopped
           /\ DownTyped' /\ stalled' \in BOOLEAN
<1>1. stalled' \in BOOLEAN
  BY DEF Send, Stall, Types, HeardTyped
<1>2. _send_lock # g /\ g # None
  BY GreenletsKnown DEF Links, LockHeld
<1>3. CASE Resume(g) /\ UNCHANGED <<_send_lock, is_connected, ctl, down, up>>
  <2>1. Quiet(g)
    <3>1. PICK step \in Labels \ {"dead", "sending", "recv"} : Step(g, step, None, <<>>)
      BY <1>3, ResumeIs
    <3> QED BY <1>3, <3>1 DEF Quiet
  <2> QED BY <1>1, <1>3, <2>1 DEF Types, DownTyped
<1>4. CASE Stall
  BY <1>1, <1>4 DEF Stall, Stopped, Types, DownTyped
<1>5. CASE /\ is_connected /\ _send_lock = None /\ Usable(server_socket)
           /\ Write(g, server_socket, Line) /\ UNCHANGED <<is_connected, ctl, down>>
  <2>1. server_socket \in Sockets /\ Line \in Rest
    BY <1>5, RestIs DEF Links, Connected
  <2>2. Written(g)
    BY <1>5, <2>1 DEF Written
  <2> QED BY <1>1, <1>5, <2>2 DEF Types, DownTyped
<1>6. CASE Disconnect /\ Resume(g) /\ UNCHANGED <<_send_lock, up>>
  <2>1. \E step \in Labels \ {"sending", "recv"} : Step(g, step, None, <<>>)
    BY <1>6, ResumeIs
  <2>2. Dropped(g) /\ DownTyped'
    BY <1>2, <1>6, <2>1, DisconnectIs DEF Dropped, Links
  <2> QED BY <1>1, <2>2
<1> QED BY <1>3, <1>4, <1>5, <1>6 DEF Send

LEMMA GreenletEffect ==
    ASSUME IInv, NEW g \in Greenlets, Greenlet(g) \/ WokenGreenlet(g)
    PROVE  /\ Quiet(g) \/ Written(g) \/ Dropped(g) \/ Stopped
           /\ DownTyped' /\ HeardTyped'
<1> USE DEF IInv
<1>1. CASE StartSend(g) \/ Handle(g)
  <2>1. heard' = heard /\ pc[g] \in {"idle", "handle"}
    BY <1>1 DEF StartSend, Handle
  <2>2. CASE Send(g)
    BY <2>1, <2>2, SendEffect DEF HeardTyped, Types
  <2>3. CASE Resume(g) /\ UNCHANGED <<stalled, _send_lock, is_connected, ctl, down, up>>
    <3>1. Quiet(g)
      <4>1. PICK step \in Labels \ {"dead", "sending", "recv"} : Step(g, step, None, <<>>)
        BY <2>3, ResumeIs
      <4> QED BY <2>1, <2>3, <4>1 DEF Quiet
    <3> QED BY <2>1, <2>3, <3>1 DEF Types, DownTyped, HeardTyped
  <2> QED BY <1>1, <2>2, <2>3 DEF StartSend, Handle
<1>2. CASE SendMore(g)
  <2>1. at[g] \in Sockets /\ left[g] \in Rest
    BY <1>2 DEF SendMore, Links, Waits, Types, ControllerTyped
  <2>2. Written(g)
    BY <1>2, <2>1 DEF SendMore, Written
  <2> QED BY <1>2, <2>2 DEF SendMore, Types, DownTyped, HeardTyped
<1>3. CASE SendFails(g)
  <2>1. _send_lock = g
    BY <1>3 DEF SendFails, Links, LockHeld
  <2>2. \E step \in Labels \ {"sending", "recv"} : Step(g, step, None, <<>>)
    BY <1>3, ResumeIs DEF SendFails
  <2>3. Dropped(g) /\ DownTyped'
    BY <1>3, <2>1, <2>2, DisconnectIs DEF SendFails, Dropped, Links
  <2> QED BY <1>3, <2>3 DEF SendFails, Types, HeardTyped
<1>4. CASE g \in Receivers /\ Loop(g) /\ UNCHANGED <<stalled, _send_lock, up>>
  <2>1. server_socket \in Sockets /\ server_socket # None
    BY <1>4, GreenletsKnown DEF Loop, Links, Connected
  <2>2. "recv" \in Labels \ {"dead", "sending"}
    BY DEF Labels
  <2>3. Quiet(g)
    BY <1>4, <2>1, <2>2 DEF Loop, Quiet
  <2> QED BY <1>4, <2>3 DEF Loop, Types, DownTyped, HeardTyped
<1>5. CASE g \in Receivers /\ Receive(g) /\ UNCHANGED <<stalled, _send_lock, up>>
  <2> DEFINE line == Read(heard[g], Head(down[at[g]]))
  <2>1. at[g] \in Sockets /\ down[at[g]] \in Buffers /\ down[at[g]] # <<>> /\ pc[g] = "recv"
    BY <1>5 DEF Receive, Links, Waits, Types, DownTyped
  <2>2. Tail(down[at[g]]) \in Buffers /\ Head(down[at[g]]) \in Chunks
    BY <2>1, TailTyped
  <2>3. DownTyped'
    BY <1>5, <2>1, <2>2 DEF Receive, Types, DownTyped
  <2>4. Head(down[at[g]]) # "tail" => line \in {"head", "torn"}
    BY <2>2 DEF Read, Chunks
  <2>5. HeardTyped'
    <3>1. heard' = [heard EXCEPT ![g] = IF Head(down[at[g]]) = "tail" THEN "nothing" ELSE line]
      BY <1>5 DEF Receive
    <3>2. (IF Head(down[at[g]]) = "tail" THEN "nothing" ELSE line) \in {"nothing", "head", "torn"}
      BY <2>4
    <3> HIDE DEF line
    <3> QED BY <1>5, <3>1, <3>2 DEF Types, HeardTyped
  <2>6. \E step \in {"handle", "loop"} : Step(g, step, None, <<>>)
    BY <1>5 DEF Receive
  <2>7. Quiet(g)
    BY <1>5, <2>1, <2>6 DEF Receive, Quiet, Labels
  <2> QED BY <2>3, <2>5, <2>7
<1>6. CASE g \in Receivers /\ End(g) /\ UNCHANGED <<stalled, _send_lock, up>>
  <2>1. pc[g] \in {"loop", "recv"} /\ _send_lock # g
    BY <1>6 DEF End, Links, LockHeld
  <2>2. "dead" \in Labels \ {"sending", "recv"}
    BY DEF Labels
  <2>3. Dropped(g) /\ DownTyped'
    BY <1>6, <2>1, <2>2, DisconnectIs DEF End, Dropped, Links
  <2>4. HeardTyped'
    BY <1>6 DEF End, Types, HeardTyped
  <2> QED BY <2>3, <2>4
<1>7. CASE Woken(g) /\ UNCHANGED <<stalled, up>>
  <2>1. "dead" \in Labels \ {"sending", "recv"}
    BY DEF Labels
  <2>2. \E step \in Labels \ {"sending", "recv"} : Step(g, step, None, <<>>)
    BY <1>7, <2>1, ResumeIs DEF Woken
  <2>3. Dropped(g) /\ DownTyped'
    BY <1>7, <2>2, DisconnectIs DEF Woken, Dropped, Links
  <2>4. HeardTyped'
    BY <1>7 DEF Woken, Types, HeardTyped
  <2> QED BY <2>3, <2>4
<1> QED BY <1>1, <1>2, <1>3, <1>4, <1>5, <1>6, <1>7 DEF Greenlet, WokenGreenlet

-----------------------------------------------------------------------------
(* The invariant under the steps of the greenlets *)

Aside == UNCHANGED <<server_socket, _recv_greenlet, connector, srv, broken, server, breaks>>

LEMMA QuietKeeps ==
    ASSUME IInv, NEW g \in Greenlets, Quiet(g), Aside
    PROVE  ControllerTyped' /\ EndsTyped' /\ Links' /\ Streams'
<1> USE DEF IInv
<1>1. PICK step \in Labels \ {"dead", "sending"}, s \in Sockets \cup {None} :
        /\ Step(g, step, s, <<>>)
        /\ s # None => s = server_socket /\ is_connected
        /\ step = "recv" => s # None
  BY DEF Quiet
<1>2. /\ pc' \in [Greenlets -> Labels] /\ at' \in [Greenlets -> Sockets \cup {None}]
      /\ left' \in [Greenlets -> Rest]
      /\ pc'[g] = step /\ at'[g] = s /\ left'[g] = <<>>
      /\ \A h \in Greenlets \ {g} : pc'[h] = pc[h] /\ at'[h] = at[h] /\ left'[h] = left[h]
  <2>1. <<>> \in Rest
    BY RestIs
  <2> QED BY <1>1, <2>1, StepIs DEF Types
<1>3. /\ pc[g] \notin {"dead", "sending"}
      /\ UNCHANGED <<is_connected, _send_lock, ctl, up, server_socket, _recv_greenlet, connector,
                     srv, broken, thread, read>>
  BY DEF Quiet, Aside, server
<1>4. ControllerTyped' /\ EndsTyped'
  BY <1>2, <1>3 DEF Types, ControllerTyped, EndsTyped
<1>5. OneReceiver' /\ LockHeld'
  BY <1>1, <1>2, <1>3, GreenletsKnown DEF Links, OneReceiver, LockHeld
<1>6. Waits'
  BY <1>1, <1>2, <1>3, GreenletsKnown DEF Links, Waits, Types, ControllerTyped
<1>7. Connected' /\ OneLink' /\ Connecting'
  BY <1>3 DEF Links, Connected, OneLink, Connecting
<1>8. Reads'
  BY <1>3 DEF Streams, Reads
<1>9. Fresh'
  <2>1. s \in Sockets => ctl[s] = "open"
    BY <1>1, GreenletsKnown DEF Links, Connected
  <2>2. \A q \in Sockets : ctl[q] = "connecting" => \A h \in Greenlets : at'[h] # q
    BY <1>2, <2>1 DEF Streams, Fresh
  <2> QED BY <1>3, <2>2 DEF Streams, Fresh
<1>10. Sent'
  <2>1. \A q \in Sockets : Halfway(q)' <=> Halfway(q)
    BY <1>1, <1>2, <1>3 DEF Halfway
  <2>2. \A h \in Greenlets : pc'[h] = "sending" => left'[h] \in {Line, LineTail}
    BY <1>1, <1>2 DEF Streams, Sent
  <2>3. \A q \in Sockets : Usable(q)' <=> Usable(q)
    BY <1>3 DEF Usable
  <2> QED BY <1>3, <2>1, <2>2, <2>3 DEF Streams, Sent
<1> QED BY <1>4, <1>5, <1>6, <1>7, <1>8, <1>9, <1>10 DEF Links, Streams

LEMMA DroppedKeeps ==
    ASSUME IInv, NEW g \in Greenlets, Dropped(g), Aside
    PROVE  ControllerTyped' /\ EndsTyped' /\ Links' /\ Streams'
<1> USE DEF IInv
<1>1. PICK step \in Labels \ {"sending", "recv"} : Step(g, step, None, <<>>)
  BY DEF Dropped
<1>2. /\ pc' \in [Greenlets -> Labels] /\ at' \in [Greenlets -> Sockets \cup {None}]
      /\ left' \in [Greenlets -> Rest]
      /\ pc'[g] = step /\ at'[g] = None /\ left'[g] = <<>>
      /\ \A h \in Greenlets \ {g} : pc'[h] = pc[h] /\ at'[h] = at[h] /\ left'[h] = left[h]
  <2>1. <<>> \in Rest
    BY RestIs
  <2> QED BY <1>1, <2>1, StepIs DEF Types
<1>3. /\ pc[g] # "dead" /\ is_connected' = FALSE
      /\ _send_lock' = IF _send_lock = g THEN None ELSE _send_lock
      /\ \A s \in Sockets : ctl'[s] = "closed"
      /\ ctl' \in [Sockets -> {"closed", "connecting", "open"}]
      /\ UNCHANGED <<up, server_socket, _recv_greenlet, connector, srv, broken, thread, read>>
  BY DEF Dropped, Aside, server
<1>4. ControllerTyped' /\ EndsTyped'
  BY <1>2, <1>3 DEF Types, ControllerTyped, EndsTyped
<1>5. OneReceiver'
  BY <1>2, <1>3, GreenletsKnown DEF Links, OneReceiver
<1>6. LockHeld'
  BY <1>1, <1>2, <1>3, GreenletsKnown DEF Links, LockHeld
<1>7. Connected' /\ OneLink' /\ Connecting'
  BY <1>3 DEF Links, Connected, OneLink, Connecting
<1>8. Waits'
  <2>1. \A h \in Greenlets : pc'[h] \in {"recv", "sending"} => at'[h] \in Sockets
    BY <1>1, <1>2 DEF Links, Waits
  <2> QED BY <1>3, <2>1 DEF Waits
<1>9. Reads'
  BY <1>3 DEF Streams, Reads
<1>10. Fresh' /\ \A s \in Sockets : ~ Usable(s)'
  BY <1>3 DEF Fresh, Usable
<1>11. Sent'
  <2>1. \A h \in Greenlets : pc'[h] = "sending" => left'[h] \in {Line, LineTail}
    BY <1>1, <1>2 DEF Streams, Sent
  <2> QED BY <1>10, <2>1 DEF Sent
<1> QED BY <1>4, <1>5, <1>6, <1>7, <1>8, <1>9, <1>10, <1>11 DEF Links, Streams

LEMMA WrittenKeeps ==
    ASSUME IInv, NEW g \in Greenlets, Written(g), Aside
    PROVE  ControllerTyped' /\ EndsTyped' /\ Links' /\ Streams'
<1> USE DEF IInv
<1>1. PICK s \in Sockets, rest \in Rest :
        /\ Usable(s)
        /\ \/ _send_lock = None /\ rest = Line
           \/ pc[g] = "sending" /\ at[g] = s /\ rest = left[g]
        /\ Write(g, s, rest)
  BY DEF Written
<1> DEFINE later == Later(up[s], rest)
<1>2. /\ pc[g] # "dead"
      /\ UNCHANGED <<is_connected, ctl, server_socket, _recv_greenlet, connector, srv, broken,
                     thread, read>>
  BY DEF Written, Aside, server
<1>3. s = server_socket /\ is_connected /\ \A q \in Sockets : Usable(q) => q = s
  BY <1>1 DEF Usable, Links, OneLink
<1>4. /\ rest \in {Line, LineTail}
      /\ \A h \in Greenlets \ {g} : pc[h] # "sending"
      /\ rest = LineTail <=> Halfway(s)
  <2>1. CASE _send_lock = None /\ rest = Line
    <3>1. \A h \in Greenlets : pc[h] # "sending"
      BY <2>1, GreenletsKnown DEF Links, LockHeld
    <3> QED BY <2>1, <3>1, Pieces DEF Halfway
  <2>2. CASE pc[g] = "sending" /\ at[g] = s /\ rest = left[g]
    <3>1. \A h \in Greenlets \ {g} : pc[h] # "sending"
      BY <2>2 DEF Links, LockHeld
    <3>2. rest \in {Line, LineTail}
      BY <2>2 DEF Streams, Sent
    <3> QED BY <2>2, <3>1, <3>2 DEF Halfway
  <2> QED BY <1>1, <2>1, <2>2
<1>5. /\ up[s] \in Buffers /\ Put(up[s], rest) \in Buffers /\ later \in Rest
  BY PutTyped DEF Types, EndsTyped
<1>6. /\ up' \in [Sockets -> Buffers] /\ up'[s] = Put(up[s], rest)
      /\ \A q \in Sockets \ {s} : up'[q] = up[q]
  BY <1>1, <1>5 DEF Write, Types, EndsTyped
<1>7. Whole(read[s], up'[s]) /\ (Begun(read[s], up'[s]) <=> later = LineTail)
  <2>1. Whole(read[s], up[s]) /\ (Begun(read[s], up[s]) <=> rest = LineTail)
    BY <1>1, <1>4 DEF Streams, Reads, Sent
  <2> QED BY <1>4, <1>5, <1>6, <2>1, PutWhole
<1>8. \/ /\ later = <<>> /\ _send_lock' = None
         /\ \E step \in Labels \ {"dead", "sending", "recv"} : Step(g, step, None, <<>>)
      \/ /\ later # <<>> /\ _send_lock' = g
         /\ Step(g, "sending", s, later)
  BY <1>1, ResumeIs DEF Write
<1> HIDE DEF later
<1>9. PICK step \in Labels \ {"dead", "recv"}, to \in Sockets \cup {None}, more \in Rest :
        /\ Step(g, step, to, more)
        /\ step = "sending" => to = s /\ more = later /\ later # <<>> /\ _send_lock' = g
        /\ step # "sending" => later = <<>> /\ _send_lock' = None /\ to = None
  <2>1. <<>> \in Rest /\ "sending" \in Labels \ {"dead", "recv"}
    BY RestIs DEF Labels
  <2> QED BY <1>5, <1>8, <2>1
<1>10. /\ pc' \in [Greenlets -> Labels] /\ at' \in [Greenlets -> Sockets \cup {None}]
       /\ left' \in [Greenlets -> Rest]
       /\ pc'[g] = step /\ at'[g] = to /\ left'[g] = more
       /\ \A h \in Greenlets \ {g} : pc'[h] = pc[h] /\ at'[h] = at[h] /\ left'[h] = left[h]
  BY <1>9, StepIs DEF Types
<1>11. ControllerTyped' /\ EndsTyped'
  BY <1>2, <1>6, <1>9, <1>10 DEF Types, ControllerTyped, EndsTyped
<1>12. OneReceiver' /\ LockHeld'
  BY <1>2, <1>4, <1>9, <1>10, GreenletsKnown DEF Links, OneReceiver, LockHeld
<1>13. Waits'
  BY <1>2, <1>9, <1>10, GreenletsKnown DEF Links, Waits
<1>14. Connected' /\ OneLink' /\ Connecting'
  BY <1>2 DEF Links, Connected, OneLink, Connecting
<1>15. Reads'
  BY <1>2, <1>6, <1>7 DEF Streams, Reads
<1>16. Fresh'
  <2>1. ctl[s] = "open"
    BY <1>1 DEF Usable
  <2>2. \A q \in Sockets : ctl[q] = "connecting" => up'[q] = up[q] /\ \A h \in Greenlets : at'[h] # q
    BY <1>6, <1>9, <1>10, <2>1, GreenletsKnown DEF Streams, Fresh
  <2> QED BY <1>2, <2>2 DEF Streams, Fresh
<1>17. Sent'
  <2>1. Halfway(s)' <=> later = LineTail
    BY <1>4, <1>9, <1>10, Pieces DEF Halfway
  <2>2. \A h \in Greenlets : pc'[h] = "sending" => left'[h] \in {Line, LineTail}
    BY <1>4, <1>5, <1>9, <1>10, RestIs
  <2>3. \A q \in Sockets : Usable(q)' => q = s
    BY <1>2, <1>3 DEF Usable
  <2> QED BY <1>2, <1>7, <2>1, <2>2, <2>3 DEF Sent
<1> QED BY <1>11, <1>12, <1>13, <1>14, <1>15, <1>16, <1>17 DEF Links, Streams

LEMMA StoppedKeeps ==
    ASSUME IInv, Stopped, Aside
    PROVE  ControllerTyped' /\ EndsTyped' /\ Links' /\ Streams'
<1> USE DEF IInv, Stopped, Aside, server
<1>1. ControllerTyped' /\ EndsTyped'
  BY DEF Types, ControllerTyped, EndsTyped
<1>2. Links'
  BY DEF Links, OneReceiver, LockHeld, Waits, Connected, OneLink, Connecting
<1>3. Streams'
  BY DEF Streams, Reads, Fresh, Sent, Usable, Halfway
<1> QED BY <1>1, <1>2, <1>3

LEMMA InductiveGreenlet ==
    ASSUME IInv, NEW g \in Greenlets, Greenlet(g) \/ WokenGreenlet(g)
    PROVE  IInv'
<1>1. Aside
  BY DEF Greenlet, WokenGreenlet, Aside
<1>2. ControllerTyped' /\ EndsTyped' /\ Links' /\ Streams'
  BY <1>1, GreenletEffect, QuietKeeps, WrittenKeeps, DroppedKeeps, StoppedKeeps
<1>3. ServerTyped'
  BY <1>1 DEF Aside, server, IInv, Types, ServerTyped
<1> QED BY <1>2, <1>3, GreenletEffect DEF IInv, Types

-----------------------------------------------------------------------------
(* ... of the connect loop *)

LEMMA EmptyWhole == <<>> \in Buffers /\ \A line : Whole(line, <<>>) /\ (Begun(line, <<>>) <=> line = "head")
<1>1. <<>> \in Seq(Chunks) /\ Len(<<>>) <= Cap
  BY EmptySeq, ConstantsAssumption
<1>2. \A line : Whole(line, <<>>)
  BY Pieces DEF Whole
<1> QED BY <1>1, <1>2, BufferIsSeq DEF Begun

LEMMA InductiveCheck ==
    ASSUME IInv, Check, UNCHANGED <<stalled, server>>
    PROVE  IInv'
<1> USE DEF IInv
<1>1. PICK s \in Sockets :
        /\ Free(s) /\ server_socket' = s
        /\ ctl' = [ctl EXCEPT ![s] = "connecting"] /\ broken' = broken \ {s}
        /\ up' = [up EXCEPT ![s] = <<>>] /\ down' = [down EXCEPT ![s] = <<>>]
  BY DEF Check
<1>2. /\ connector = "check" /\ connector' = "connect" /\ ~ is_connected
      /\ UNCHANGED <<is_connected, _send_lock, _recv_greenlet, pc, at, left, heard, stalled, srv,
                     clients, client_lock, thread, read, unsent, target, breaks>>
  BY DEF Check, server
<1>3. ctl \in [Sockets -> {"closed", "connecting", "open"}] /\ \A q \in Sockets : ctl[q] = "closed"
  BY <1>2 DEF Types, EndsTyped, Links, OneLink
<1>4. /\ ctl' \in [Sockets -> {"closed", "connecting", "open"}]
      /\ \A q \in Sockets : ctl'[q] = IF q = s THEN "connecting" ELSE "closed"
  BY <1>1, <1>3
<1>5. /\ up' \in [Sockets -> Buffers] /\ down' \in [Sockets -> Buffers] /\ up'[s] = <<>>
      /\ \A q \in Sockets \ {s} : up'[q] = up[q]
  BY <1>1, EmptyWhole DEF Types, EndsTyped, DownTyped
<1>6. Types'
  BY <1>1, <1>2, <1>4, <1>5
  DEF Types, ControllerTyped, HeardTyped, EndsTyped, DownTyped, ServerTyped
<1>7. OneReceiver' /\ LockHeld' /\ Waits'
  BY <1>2 DEF Links, OneReceiver, LockHeld, Waits
<1>8. Connected' /\ OneLink' /\ Connecting'
  BY <1>1, <1>2, <1>4 DEF Connected, OneLink, Connecting
<1>9. Reads'
  <2> SUFFICES ASSUME NEW q \in Sockets PROVE Whole(read[q], up'[q])
    BY <1>2 DEF Streams, Reads
  <2>1. CASE q = s BY <1>5, <2>1, EmptyWhole
  <2>2. CASE q # s BY <1>5, <2>2 DEF Streams, Reads
  <2> QED BY <2>1, <2>2
<1>10. Fresh'
  BY <1>1, <1>2, <1>4, <1>5 DEF Fresh, Free
<1>11. Sent'
  <2>1. \A q \in Sockets : ~ Usable(q)'
    BY <1>4 DEF Usable
  <2> QED BY <1>2, <2>1 DEF Streams, Sent
<1> QED BY <1>6, <1>7, <1>8, <1>9, <1>10, <1>11 DEF Links, Streams

\* hub.spawn, when every receive greenlet is dead.
LEMMA SpawnedIs ==
    ASSUME NEW where \in [Greenlets -> Labels], Spawned(where),
           \A r \in Receivers : where[r] = "dead"
    PROVE  \E r \in Receivers :
             /\ _recv_greenlet' = r
             /\ pc' \in [Greenlets -> Labels] /\ pc'[r] = "loop"
             /\ \A h \in Greenlets \ {r} : pc'[h] = where[h]
<1>1. (CHOOSE q \in Receivers : where[q] = "dead") \in Receivers
  BY ConstantsAssumption
<1> QED BY <1>1, GreenletsKnown DEF Spawned, Labels

LEMMA InductiveSpawn ==
    ASSUME IInv, Spawn, UNCHANGED <<stalled, server>>
    PROVE  IInv'
<1> USE DEF IInv
<1>1. \A r \in Receivers : pc[r] = "dead"
  BY DEF Spawn, Links, OneReceiver
<1>2. PICK r \in Receivers :
        /\ _recv_greenlet' = r
        /\ pc' \in [Greenlets -> Labels] /\ pc'[r] = "loop"
        /\ \A h \in Greenlets \ {r} : pc'[h] = pc[h]
  BY <1>1, SpawnedIs DEF Spawn, Types, ControllerTyped
<1>3. /\ connector = "spawn" /\ connector' = "check"
      /\ UNCHANGED <<server_socket, is_connected, _send_lock, at, left, heard, stalled, ctl, srv,
                     broken, up, down, clients, client_lock, thread, read, unsent, target, breaks>>
  BY DEF Spawn, server
<1>4. Types'
  BY <1>2, <1>3 DEF Types, ControllerTyped, HeardTyped, EndsTyped, DownTyped, ServerTyped
<1>5. \A h \in Greenlets : pc'[h] = "sending" <=> pc[h] = "sending"
  BY <1>1, <1>2
<1>6. OneReceiver' /\ LockHeld'
  BY <1>1, <1>2, <1>3, <1>5, GreenletsKnown DEF Links, OneReceiver, LockHeld
<1>7. Waits'
  BY <1>1, <1>2, <1>3, GreenletsKnown DEF Links, Waits
<1>8. Connected' /\ OneLink' /\ Connecting'
  BY <1>3 DEF Links, Connected, OneLink, Connecting
<1>9. Reads' /\ Fresh'
  BY <1>3 DEF Streams, Reads, Fresh
<1>10. Sent'
  BY <1>3, <1>5 DEF Streams, Sent, Usable, Halfway
<1> QED BY <1>4, <1>6, <1>7, <1>8, <1>9, <1>10 DEF Links, Streams

LEMMA InductiveConnect ==
    ASSUME IInv, Connect, UNCHANGED <<stalled, server>>
    PROVE  IInv'
<1> USE DEF IInv
<1> DEFINE s == server_socket
<1>1. /\ connector = "connect" /\ s \in Sockets /\ ctl[s] = "connecting"
      /\ ctl' = [ctl EXCEPT ![s] = "open"] /\ srv' = [srv EXCEPT ![s] = "queued"]
      /\ is_connected' /\ is_connected' \in BOOLEAN
      /\ UNCHANGED <<server_socket, broken, up, down, stalled, clients, client_lock, thread, read,
                     unsent, target, breaks>>
  BY DEF Connect, server, Links, Connecting
<1>2. /\ ctl' \in [Sockets -> {"closed", "connecting", "open"}]
      /\ srv' \in [Sockets -> {"closed", "queued", "open"}]
      /\ \A q \in Sockets : ctl'[q] = IF q = s THEN "open" ELSE "closed"
      /\ \A q \in Sockets \ {s} : srv'[q] = srv[q]
  <2>1. \A q \in Sockets \ {s} : ctl[q] = "closed"
    BY DEF Types, EndsTyped, Links, OneLink
  <2> QED BY <1>1, <2>1 DEF Types, EndsTyped
<1>3. EndsTyped' /\ DownTyped' /\ ServerTyped'
  BY <1>1, <1>2 DEF Types, EndsTyped, DownTyped, ServerTyped
<1>4. \A r \in Receivers \ {_recv_greenlet} : pc[r] = "dead"
  BY DEF Links, OneReceiver
<1>5. /\ ControllerTyped' /\ HeardTyped'
      /\ OneReceiver' /\ LockHeld' /\ connector' # "connect"
      /\ \A h \in Greenlets : pc'[h] \in {"recv", "sending"} =>
           pc'[h] = pc[h] /\ at'[h] = at[h] /\ left'[h] = left[h] /\ h \notin Receivers
      /\ \A h \in Greenlets : at'[h] # s
  <2>1. CASE Alive(_recv_greenlet)
    <3> DEFINE old == _recv_greenlet
    <3>1. /\ old \in Greenlets /\ old \in Receivers /\ Step(old, "dead", None, <<>>)
          /\ _send_lock' = IF _send_lock = old THEN None ELSE _send_lock
          /\ heard' = [heard EXCEPT ![old] = "nothing"] /\ connector' = "spawn"
          /\ UNCHANGED _recv_greenlet
      BY <2>1, GreenletsKnown DEF Connect, Alive, Types, ControllerTyped
    <3>2. /\ pc' \in [Greenlets -> Labels] /\ at' \in [Greenlets -> Sockets \cup {None}]
          /\ left' \in [Greenlets -> Rest] /\ pc'[old] = "dead" /\ at'[old] = None
          /\ \A h \in Greenlets \ {old} : pc'[h] = pc[h] /\ at'[h] = at[h] /\ left'[h] = left[h]
      <4>1. <<>> \in Rest /\ "dead" \in Labels
        BY RestIs DEF Labels
      <4> QED BY <3>1, <4>1, StepIs DEF Types
    <3>3. ControllerTyped' /\ HeardTyped'
      BY <1>1, <3>1, <3>2 DEF Types, ControllerTyped, HeardTyped
    <3>4. \A r \in Receivers : pc'[r] = "dead"
      BY <1>4, <3>2, GreenletsKnown
    <3>5. OneReceiver' /\ LockHeld'
      BY <3>1, <3>2, <3>4, GreenletsKnown DEF OneReceiver, Links, LockHeld
    <3>6. \A h \in Greenlets : at'[h] # s
      BY <1>1, <3>2, GreenletsKnown DEF Streams, Fresh
    <3> QED BY <3>1, <3>2, <3>3, <3>4, <3>5, <3>6
  <2>2. CASE ~ Alive(_recv_greenlet)
    <3>1. /\ Spawned(pc) /\ connector' = "check"
          /\ UNCHANGED <<at, left, heard, _send_lock>>
      BY <2>2 DEF Connect
    <3>2. \A r \in Receivers : pc[r] = "dead"
      BY <1>4, <2>2, ConstantsAssumption DEF Alive
    <3>3. PICK r \in Receivers :
            /\ _recv_greenlet' = r
            /\ pc' \in [Greenlets -> Labels] /\ pc'[r] = "loop"
            /\ \A h \in Greenlets \ {r} : pc'[h] = pc[h]
      BY <3>1, <3>2, SpawnedIs DEF Types, ControllerTyped
    <3>4. ControllerTyped' /\ HeardTyped'
      BY <1>1, <3>1, <3>3 DEF Types, ControllerTyped, HeardTyped
    <3>5. OneReceiver' /\ LockHeld'
      BY <3>1, <3>2, <3>3, GreenletsKnown DEF OneReceiver, Links, LockHeld
    <3>6. \A h \in Greenlets : pc'[h] \in {"recv", "sending"} => pc'[h] = pc[h] /\ h \notin Receivers
      BY <3>2, <3>3, GreenletsKnown
    <3>7. \A h \in Greenlets : at'[h] # s
      BY <1>1, <3>1 DEF Streams, Fresh
    <3> QED BY <3>1, <3>4, <3>5, <3>6, <3>7
  <2> QED BY <2>1, <2>2
<1>6. Waits'
  BY <1>5, GreenletsKnown DEF Links, Waits
<1>7. Connected' /\ OneLink' /\ Connecting'
  BY <1>1, <1>2, <1>5 DEF Connected, OneLink, Connecting
<1>8. Reads'
  BY <1>1, <1>2 DEF Streams, Reads, Fresh
<1>9. Fresh'
  BY <1>2 DEF Fresh
<1>10. Sent'
  <2>1. \A q \in Sockets : Usable(q)' => q = s
    BY <1>2 DEF Usable
  <2>2. ~ Begun(read[s], up[s])
    BY <1>1, EmptyWhole DEF Streams, Reads, Fresh
  <2>3. ~ Halfway(s)'
    BY <1>1, <1>5 DEF Halfway
  <2>4. \A h \in Greenlets : pc'[h] = "sending" => left'[h] \in {Line, LineTail}
    BY <1>5 DEF Streams, Sent
  <2> QED BY <1>1, <2>1, <2>2, <2>3, <2>4 DEF Sent
<1> QED BY <1>3, <1>5, <1>6, <1>7, <1>8, <1>9, <1>10 DEF Types, Links, Streams

LEMMA InductiveConnectFails ==
    ASSUME IInv, ConnectFails, UNCHANGED <<stalled, server>>
    PROVE  IInv'
<1> USE DEF IInv
<1>1. /\ connector = "connect" /\ connector' = "check" /\ Disconnect
      /\ UNCHANGED <<server_socket, _send_lock, _recv_greenlet, pc, at, left, heard, srv, broken,
                     up, stalled, clients, client_lock, thread, read, unsent, target>>
  BY DEF ConnectFails, server
<1>2. /\ is_connected' = FALSE /\ DownTyped'
      /\ \A s \in Sockets : ctl'[s] = "closed"
      /\ ctl' \in [Sockets -> {"closed", "connecting", "open"}]
  BY <1>1, DisconnectIs DEF Links
<1>3. breaks' \in 0..MaxBreaks
  BY ConstantsAssumption DEF ConnectFails, Types, ServerTyped
<1>4. Types'
  BY <1>1, <1>2, <1>3 DEF Types, ControllerTyped, HeardTyped, EndsTyped, ServerTyped
<1>5. Links'
  BY <1>1, <1>2 DEF Links, OneReceiver, LockHeld, Waits, Connected, OneLink, Connecting
<1>6. Reads'
  BY <1>1 DEF Streams, Reads
<1>7. Fresh' /\ Sent'
  BY <1>1, <1>2 DEF Streams, Fresh, Sent, Usable
<1> QED BY <1>4, <1>5, <1>6, <1>7 DEF Streams

-----------------------------------------------------------------------------
(* ... of the server and of what goes wrong *)

ReadsAt(s) ==
    /\ Whole(read[s], up[s])
    /\ read[s] # "torn"
    /\ read[s] = "whole" <=> thread[s] = "process"
    /\ read[s] = "head" => thread[s] \in {"recv", "cleanup"}
    /\ srv[s] = "queued" => thread[s] = "done"

\* The state of one connection, as far as what is written to the server is concerned,
\* may change, but no line begins or ends in it.
LEMMA OnlyAt ==
    ASSUME IInv, NEW s \in Sockets,
           ctl[s] # "connecting",
           \A q \in Sockets \ {s} :
             srv'[q] = srv[q] /\ thread'[q] = thread[q] /\ read'[q] = read[q] /\ up'[q] = up[q]
             /\ (q \in broken' <=> q \in broken),
           ReadsAt(s)',
           Usable(s)' => Usable(s) /\ (Begun(read'[s], up'[s]) <=> Begun(read[s], up[s])),
           UNCHANGED <<controller, ctl>>,
           EndsTyped', DownTyped', ServerTyped'
    PROVE  IInv'
<1> USE DEF IInv
<1>1. UNCHANGED <<server_socket, is_connected, _send_lock, _recv_greenlet, connector, pc, at, left,
                  heard, stalled, ctl>>
  BY DEF controller
<1>2. Types'
  BY <1>1 DEF Types, ControllerTyped, HeardTyped
<1>3. Links'
  BY <1>1 DEF Links, OneReceiver, LockHeld, Waits, Connected, OneLink, Connecting
<1>4. Reads'
  BY DEF Streams, Reads, ReadsAt
<1>5. Fresh'
  BY <1>1 DEF Streams, Fresh
<1>6. \A q \in Sockets : Halfway(q)' <=> Halfway(q)
  BY <1>1 DEF Halfway
<1>7. \A q \in Sockets \ {s} : Usable(q)' <=> Usable(q)
  BY <1>1 DEF Usable
<1>8. Sent'
  BY <1>1, <1>6, <1>7 DEF Streams, Sent
<1> QED BY <1>2, <1>3, <1>4, <1>5, <1>8 DEF Streams

LEMMA WriteDownIs ==
    ASSUME Types, NEW t \in Threads, NEW s \in Sockets, NEW rest \in Rest, WriteDown(t, s, rest)
    PROVE  DownTyped' /\ unsent' \in [Threads -> Rest]
<1>1. Put(down[s], rest) \in Buffers /\ Later(down[s], rest) \in Rest
  BY PutTyped DEF Types, DownTyped
<1> QED BY <1>1 DEF WriteDown, Types, DownTyped, ServerTyped

LEMMA SendLockedIs ==
    ASSUME Types, NEW t \in Threads, NEW s \in Sockets, NEW rest \in Rest, SendLocked(t, s, rest)
    PROVE  DownTyped' /\ unsent' \in [Threads -> Rest] /\ client_lock' \in {None, t}
<1>1. CASE Takes(s)
  BY <1>1, WriteDownIs DEF SendLocked
<1>2. CASE ~ Takes(s)
  <2>1. <<>> \in Rest
    BY RestIs
  <2> QED BY <1>2, <2>1 DEF SendLocked, Types, DownTyped, ServerTyped
<1> QED BY <1>1, <1>2

LEMMA InductiveThread == ASSUME IInv, NEW s \in Sockets, Thread(s) PROVE IInv'
<1> USE DEF IInv
<1>1. UNCHANGED <<controller, ctl, broken, breaks>>
  BY DEF Thread
<1>2. /\ s \in Threads /\ <<>> \in Rest /\ Line \in Rest
      /\ up[s] \in Buffers /\ unsent[s] \in Rest
      /\ ReadsAt(s)
  BY RestIs DEF Threads, Types, EndsTyped, ServerTyped, Streams, Reads, ReadsAt
<1>3. thread[s] # "done" \/ srv[s] = "queued"
  BY DEF Thread, Accept, HandleClient, HandleClientEnds, ProcessMessage, Reply, Answer, Cleanup
<1>4. ctl[s] # "connecting"
  BY <1>3 DEF Streams, Fresh
<1> DEFINE Rests ==
      /\ \A q \in Sockets \ {s} :
           srv'[q] = srv[q] /\ thread'[q] = thread[q] /\ read'[q] = read[q] /\ up'[q] = up[q]
      /\ ReadsAt(s)'
      /\ Usable(s)' => Usable(s) /\ (Begun(read'[s], up'[s]) <=> Begun(read[s], up[s]))
      /\ EndsTyped' /\ DownTyped' /\ ServerTyped'
<1>5. ASSUME Accept(s) PROVE Rests
  <2>1. /\ srv[s] = "queued" /\ srv' = [srv EXCEPT ![s] = "open"]
        /\ thread' = [thread EXCEPT ![s] = "recv"] /\ clients' \subseteq Sockets
        /\ UNCHANGED <<client_lock, read, unsent, target, up, down>>
    BY <1>5 DEF Accept, Goto, Types, ServerTyped
  <2>2. EndsTyped' /\ DownTyped' /\ ServerTyped'
    BY <1>1, <2>1 DEF Types, EndsTyped, DownTyped, ServerTyped
  <2>3. srv'[s] = "open" /\ thread'[s] = "recv" /\ read[s] = "nothing"
    BY <1>2, <2>1 DEF Types, EndsTyped, ServerTyped, ReadsAt
  <2>4. ReadsAt(s)'
    BY <1>2, <2>1, <2>3 DEF ReadsAt
  <2>5. Usable(s)' => Usable(s)
    BY <1>1, <2>1 DEF Usable
  <2> QED BY <2>1, <2>2, <2>4, <2>5
<1>6. ASSUME HandleClient(s) PROVE Rests
  <2> DEFINE chunk == Head(up[s])
  <2>1. /\ thread[s] = "recv" /\ srv[s] = "open" /\ up[s] # <<>>
        /\ up' = [up EXCEPT ![s] = Tail(up[s])] /\ read' = [read EXCEPT ![s] = Read(read[s], chunk)]
        /\ thread' = [thread EXCEPT ![s] = IF chunk = "tail" THEN "process" ELSE "recv"]
        /\ UNCHANGED <<srv, clients, client_lock, unsent, target, down>>
    BY <1>6 DEF HandleClient, Goto
  <2>2. read[s] \in {"nothing", "head"}
    BY <1>2, <2>1 DEF Types, ServerTyped, ReadsAt
  <2>3. /\ Read(read[s], chunk) = IF chunk = "tail" THEN "whole" ELSE "head"
        /\ Whole(Read(read[s], chunk), Tail(up[s]))
        /\ Begun(Read(read[s], chunk), Tail(up[s])) <=> Begun(read[s], up[s])
    BY <1>2, <2>1, <2>2, ReadWhole DEF ReadsAt
  <2>4. Tail(up[s]) \in Buffers
    BY <1>2, <2>1, TailTyped
  <2> HIDE DEF chunk
  <2>5. EndsTyped' /\ DownTyped' /\ ServerTyped'
    BY <1>1, <2>1, <2>3, <2>4 DEF Types, EndsTyped, DownTyped, ServerTyped
  <2>6. /\ read'[s] = Read(read[s], chunk) /\ up'[s] = Tail(up[s])
        /\ thread'[s] = IF chunk = "tail" THEN "process" ELSE "recv"
    BY <2>1 DEF Types, EndsTyped, ServerTyped
  <2>7. ReadsAt(s)'
    BY <2>1, <2>3, <2>6 DEF ReadsAt
  <2>8. Usable(s)' => Usable(s)
    BY <1>1, <2>1 DEF Usable
  <2> QED BY <2>1, <2>3, <2>5, <2>6, <2>7, <2>8
<1>7. ASSUME HandleClientEnds(s) PROVE Rests
  <2>1. /\ thread[s] = "recv" /\ thread' = [thread EXCEPT ![s] = "cleanup"]
        /\ UNCHANGED <<srv, clients, client_lock, read, unsent, target, up, down>>
    BY <1>7 DEF HandleClientEnds, Goto
  <2>2. EndsTyped' /\ DownTyped' /\ ServerTyped'
    BY <1>1, <2>1 DEF Types, EndsTyped, DownTyped, ServerTyped
  <2>3. thread'[s] = "cleanup"
    BY <2>1 DEF Types, ServerTyped
  <2>4. ReadsAt(s)' /\ (Usable(s)' => Usable(s))
    BY <1>1, <1>2, <2>1, <2>3 DEF ReadsAt, Usable
  <2> QED BY <2>1, <2>2, <2>4
<1>8. ASSUME ProcessMessage(s) PROVE Rests
  <2>1. /\ thread[s] = "process" /\ read' = [read EXCEPT ![s] = "nothing"]
        /\ \E step \in {"recv", "reply", "locked", "error"} : thread' = [thread EXCEPT ![s] = step]
        /\ UNCHANGED <<srv, clients, client_lock, target, up, down>>
    BY <1>8 DEF ProcessMessage, Goto
  <2>2. unsent' \in [Threads -> Rest]
    BY <1>2, <1>8 DEF ProcessMessage, Types, ServerTyped
  <2>3. EndsTyped' /\ DownTyped' /\ ServerTyped'
    BY <1>1, <2>1, <2>2 DEF Types, EndsTyped, DownTyped, ServerTyped
  <2>4. read[s] = "whole" /\ read'[s] = "nothing" /\ thread'[s] \in {"recv", "reply", "locked", "error"}
    BY <1>2, <2>1 DEF Types, ServerTyped, ReadsAt
  <2>5. Whole(read'[s], up'[s]) /\ (Begun(read'[s], up'[s]) <=> Begun(read[s], up[s]))
    BY <1>2, <2>1, <2>4 DEF ReadsAt, Whole, Begun
  <2>6. ReadsAt(s)' /\ (Usable(s)' => Usable(s))
    BY <1>1, <1>2, <2>1, <2>4, <2>5 DEF ReadsAt, Usable
  <2> QED BY <2>1, <2>3, <2>5, <2>6
<1>9. ASSUME Reply(s) PROVE Rests
  <2>1. /\ thread[s] \in {"reply", "error"}
        /\ thread' = thread \/ \E step \in {"recv", "error"} : thread' = [thread EXCEPT ![s] = step]
        /\ UNCHANGED <<srv, clients, client_lock, read, target, up>>
    BY <1>9 DEF Reply, Goto
  <2>2. DownTyped' /\ unsent' \in [Threads -> Rest]
    <3>1. CASE WriteDown(s, s, unsent[s])
      BY <1>2, <3>1, WriteDownIs
    <3>2. CASE /\ unsent' = [unsent EXCEPT ![s] = IF thread[s] = "reply" THEN Line ELSE <<>>]
               /\ UNCHANGED down
      BY <1>2, <3>2 DEF Types, DownTyped, ServerTyped
    <3> QED BY <1>9, <3>1, <3>2 DEF Reply
  <2>3. EndsTyped' /\ DownTyped' /\ ServerTyped'
    BY <1>1, <2>1, <2>2 DEF Types, EndsTyped, ServerTyped
  <2>4. thread'[s] \in {"recv", "reply", "error"}
    BY <2>1 DEF Types, ServerTyped
  <2>5. ReadsAt(s)' /\ (Usable(s)' => Usable(s))
    BY <1>1, <1>2, <2>1, <2>4 DEF ReadsAt, Usable
  <2>6. \A q \in Sockets \ {s} : thread'[q] = thread[q]
    BY <2>1 DEF Types, ServerTyped
  <2> QED BY <2>1, <2>3, <2>5, <2>6
<1>10. ASSUME Answer(s) PROVE Rests
  <2>1. /\ thread[s] = "locked"
        /\ thread' = thread \/ thread' = [thread EXCEPT ![s] = "recv"]
        /\ UNCHANGED <<srv, clients, read, target, up>>
    BY <1>10 DEF Answer, Goto
  <2>2. DownTyped' /\ unsent' \in [Threads -> Rest] /\ client_lock' \in Threads \cup {None}
    <3>1. CASE SendLocked(s, s, unsent[s])
      BY <1>2, <3>1, SendLockedIs
    <3>2. CASE unsent' = [unsent EXCEPT ![s] = <<>>] /\ UNCHANGED <<client_lock, down>>
      BY <1>2, <3>2 DEF Types, DownTyped, ServerTyped
    <3> QED BY <1>10, <3>1, <3>2 DEF Answer
  <2>3. EndsTyped' /\ DownTyped' /\ ServerTyped'
    BY <1>1, <2>1, <2>2 DEF Types, EndsTyped, ServerTyped
  <2>4. thread'[s] \in {"recv", "locked"}
    BY <2>1 DEF Types, ServerTyped
  <2>5. ReadsAt(s)' /\ (Usable(s)' => Usable(s))
    BY <1>1, <1>2, <2>1, <2>4 DEF ReadsAt, Usable
  <2>6. \A q \in Sockets \ {s} : thread'[q] = thread[q]
    BY <2>1 DEF Types, ServerTyped
  <2> QED BY <2>1, <2>3, <2>5, <2>6
<1>11. ASSUME Cleanup(s) PROVE Rests
  <2>1. /\ srv' = [srv EXCEPT ![s] = "closed"] /\ up' = [up EXCEPT ![s] = <<>>]
        /\ read' = [read EXCEPT ![s] = "nothing"] /\ thread' = [thread EXCEPT ![s] = "done"]
        /\ clients' \subseteq Sockets /\ UNCHANGED <<client_lock, unsent, target, down>>
    BY <1>11 DEF Cleanup, Goto, Types, ServerTyped
  <2>2. EndsTyped' /\ DownTyped' /\ ServerTyped'
    BY <1>1, <2>1, EmptyWhole DEF Types, EndsTyped, DownTyped, ServerTyped
  <2>3. srv'[s] = "closed" /\ up'[s] = <<>> /\ read'[s] = "nothing" /\ thread'[s] = "done"
    BY <2>1 DEF Types, EndsTyped, ServerTyped
  <2>4. ReadsAt(s)' /\ ~ Usable(s)'
    BY <2>3, EmptyWhole DEF ReadsAt, Usable
  <2> QED BY <2>1, <2>2, <2>4
<1>12. Rests
  BY <1>5, <1>6, <1>7, <1>8, <1>9, <1>10, <1>11 DEF Thread
<1> QED BY <1>1, <1>4, <1>12, OnlyAt

LEMMA InductiveForwarding == ASSUME IInv, Forwarding PROVE IInv'
<1> USE DEF IInv
<1>1. UNCHANGED <<controller, ctl, broken, breaks, srv, clients, thread, read, up>>
  BY DEF Forwarding, Forward
<1>2. Other \in Threads /\ Line \in Rest /\ unsent[Other] \in Rest
  BY RestIs DEF Threads, Types, ServerTyped
<1>3. PICK s \in Sockets :
        /\ SendLocked(Other, s, Line) \/ SendLocked(Other, s, unsent[Other])
        /\ target' = IF client_lock' = Other THEN s ELSE None
  BY DEF Forwarding, Forward
<1>4. DownTyped' /\ unsent' \in [Threads -> Rest] /\ client_lock' \in {None, Other}
  BY <1>2, <1>3, SendLockedIs
<1>5. EndsTyped' /\ ServerTyped'
  BY <1>1, <1>2, <1>3, <1>4 DEF Types, EndsTyped, ServerTyped
<1>6. ControllerTyped' /\ HeardTyped' /\ Links'
  BY <1>1 DEF controller, Types, ControllerTyped, HeardTyped, Links, OneReceiver, LockHeld, Waits,
              Connected, OneLink, Connecting
<1>7. Reads' /\ Fresh'
  BY <1>1 DEF controller, Streams, Reads, Fresh
<1>8. Sent'
  BY <1>1 DEF controller, Streams, Sent, Usable, Halfway
<1> QED BY <1>4, <1>5, <1>6, <1>7, <1>8 DEF Types, Streams

LEMMA InductiveFault == ASSUME IInv, Fault PROVE IInv'
<1> USE DEF IInv
<1>1. PICK s \in Sockets : Break(s) \/ Expire(s)
  BY DEF Fault
<1>2. UNCHANGED <<controller, ctl, client_lock, thread, read, unsent, target>>
  BY DEF Fault
<1>3. /\ breaks' \in 0..MaxBreaks /\ up' = [up EXCEPT ![s] = <<>>]
      /\ down' = down \/ down' = [down EXCEPT ![s] = <<>>]
      /\ srv' = srv \/ srv' = [srv EXCEPT ![s] = "closed"]
      /\ broken' = broken \/ broken' = broken \cup {s}
      /\ s \in broken' \/ srv' = [srv EXCEPT ![s] = "closed"]
      /\ clients' \subseteq Sockets
  BY <1>1, ConstantsAssumption DEF Break, Expire, Types, ServerTyped
<1>4. EndsTyped' /\ DownTyped' /\ ServerTyped'
  BY <1>2, <1>3, EmptyWhole DEF Types, EndsTyped, DownTyped, ServerTyped
<1>5. /\ up'[s] = <<>> /\ srv'[s] \in {srv[s], "closed"} /\ ~ Usable(s)'
  BY <1>3 DEF Types, EndsTyped, Usable
<1>6. ReadsAt(s)'
  BY <1>2, <1>5, EmptyWhole DEF Streams, Reads, ReadsAt
<1>7. \A q \in Sockets \ {s} :
        srv'[q] = srv[q] /\ thread'[q] = thread[q] /\ read'[q] = read[q] /\ up'[q] = up[q]
        /\ (q \in broken' <=> q \in broken)
  BY <1>2, <1>3 DEF Types, EndsTyped
<1>8. CASE ctl[s] # "connecting"
  BY <1>2, <1>4, <1>5, <1>6, <1>7, <1>8, OnlyAt
<1>9. CASE ctl[s] = "connecting"
  <2>1. Expire(s) /\ srv[s] = "closed"
    BY <1>1, <1>9 DEF Break, Streams, Fresh
  <2>2. s \in clients
    BY <2>1 DEF Expire
  <2>3. Fresh'
    BY <1>2, <1>3, <1>5, <1>7, <1>9, <2>1 DEF controller, Streams, Fresh, Expire
  <2>4. ControllerTyped' /\ HeardTyped' /\ Links'
    BY <1>2 DEF controller, Types, ControllerTyped, HeardTyped, Links, OneReceiver, LockHeld, Waits,
                Connected, OneLink, Connecting
  <2>5. Reads'
    BY <1>6, <1>7 DEF Streams, Reads, ReadsAt
  <2>6. Sent'
    BY <1>2, <1>5, <1>7 DEF controller, Streams, Sent, Usable, Halfway
  <2> QED BY <1>4, <2>3, <2>4, <2>5, <2>6 DEF Types, Streams
<1> QED BY <1>8, <1>9

-----------------------------------------------------------------------------
LEMMA InductiveNext == IInv /\ [Next]_vars => IInv'
<1> SUFFICES ASSUME IInv, [Next]_vars PROVE IInv'
  OBVIOUS
<1>1. CASE UNCHANGED vars
  <2> USE <1>1 DEF vars, controller, server
  <2>1. Types'
    BY DEF IInv, Types, ControllerTyped, HeardTyped, EndsTyped, DownTyped, ServerTyped
  <2>2. Links'
    BY DEF IInv, Links, OneReceiver, LockHeld, Waits, Connected, OneLink, Connecting
  <2>3. Streams'
    BY DEF IInv, Streams, Reads, Fresh, Sent, Usable, Halfway
  <2> QED BY <2>1, <2>2, <2>3 DEF IInv
<1>2. CASE Connector \/ ConnectorFails
  BY <1>2, InductiveCheck, InductiveConnect, InductiveSpawn, InductiveConnectFails
  DEF Connector, ConnectorFails
<1>3. CASE \E g \in Greenlets : Greenlet(g) \/ WokenGreenlet(g)
  BY <1>3, InductiveGreenlet
<1>4. CASE (\E s \in Sockets : Thread(s)) \/ Forwarding \/ Fault
  BY <1>4, InductiveThread, InductiveForwarding, InductiveFault
<1> QED BY <1>1, <1>2, <1>3, <1>4 DEF Next

LEMMA Inductive == Spec => []IInv
  BY InductiveInit, InductiveNext, PTL DEF Spec

\* For any number of connections, greenlets and faults, and any room in the buffers:
\* no two receive greenlets live, _send_lock is held just by the greenlet that is in
\* the middle of a sendall, and a connected controller has one open socket.
THEOREM LinkInvHolds == Spec => []LinkInv
  BY Inductive, InvariantImplies, PTL

\* ... and a line that the server parses is one that the controller has written, head
\* and tail: no two writers' chunks mix, and no new line follows an unfinished one.
THEOREM UpLinesWholeHolds == Spec => []UpLinesWhole
  BY Inductive, InvariantImplies, PTL

LEMMA SparesStep ==
    ASSUME IInv, [Next]_vars, NEW r \in Receivers, NEW s \in Sockets,
           pc[r] = "recv", pc'[r] = "dead", ctl[s] = "open", ctl'[s] = "closed"
    PROVE  at[r] = s
<1>1. server_socket = s /\ is_connected
  BY DEF IInv, Links, OneLink
<1>2. at[r] = server_socket
  BY <1>1 DEF IInv, Links, Waits
<1> QED BY <1>1, <1>2

\* ... and a receive greenlet that ends closes no connection but the one it reads from.
THEOREM ReceiverSparesNewLinkHolds == Spec => ReceiverSparesNewLink
<1>1. IInv /\ [Next]_vars =>
        [\A r \in Receivers, s \in Sockets :
           pc[r] = "recv" /\ pc'[r] = "dead" /\ ctl[s] = "open" /\ ctl'[s] = "closed"
             => at[r] = s]_vars
  BY SparesStep
<1> QED BY <1>1, Inductive, PTL DEF Spec, ReceiverSparesNewLink
=============================================================================
