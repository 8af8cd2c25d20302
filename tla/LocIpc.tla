------------------------------- MODULE LocIpc -------------------------------
(***************************************************************************)
(* utils/LocIpc.cpp over local datagram sockets: a message longer than     *)
(* mMaxTxSize is announced by a datagram of its own and sent in pieces,    *)
(* the thread of startNonBlockingListening() puts it together again, and   *)
(* is stopped by a datagram to its own socket.  Senders are unbound        *)
(* sockets, as the library makes them, so that recv() leaves the address   *)
(* alone that abort() sends to.  Sizes are in units, in which a short      *)
(* message, an announcement and the abort message are one.                 *)
(***************************************************************************)
EXTENDS Integers, Sequences, SequencesExt, FiniteSetsExt

CONSTANTS
  Sender,
  Lengths,                 \* of the messages sent
  mMaxTxSize,
  Capacity,                \* datagrams that wait in a socket
  MaxMessages,             \* bound: messages of a sender
  None

VARIABLES
  socket,                  \* datagrams that wait at the listener
  sending,                 \* [n, len, offset] of a long message, or None
  count,                   \* messages sent so far
  long,                    \* [msgLen, received, pieces] being read, or None
  receiving,               \* the thread is in startBlockingListening()
  stopped,                 \* the abort message was sent, or could not be
  \* history: the messages sent to the end, what onReceive() was given, and a
  \* long message was cut off or had another datagram in its midst
  accepted, delivered, torn

vars == <<socket, sending, count, long, receiving, stopped, accepted, delivered, torn>>

Init ==
  /\ socket = <<>> /\ sending = [s \in Sender |-> None] /\ count = [s \in Sender |-> 0]
  /\ long = None /\ receiving = TRUE /\ stopped = "no"
  /\ accepted = {} /\ delivered = <<>> /\ torn = FALSE
------------------------------------------------------------------------------
(* Sock::sendto.                                                           *)

full == Len(socket) >= Capacity
\* the socket takes a datagram, in the midst of the messages of others
takes(others, datagram) ==
  /\ receiving /\ ~full
  /\ socket' = Append(socket, datagram)
  /\ torn' = (torn \/ \E t \in others : sending[t] # None)

sendShort(s) ==
  /\ sending[s] = None /\ count[s] < MaxMessages
  /\ \E len \in Lengths : len <= mMaxTxSize
       /\ takes(Sender, [fn |-> "short", from |-> s, n |-> count[s] + 1, size |-> len])
  /\ count' = [count EXCEPT ![s] = @ + 1]
  /\ accepted' = accepted \cup {<<s, count[s] + 1>>}
  /\ UNCHANGED <<sending, long, receiving, stopped, delivered>>

sendHead(s) ==
  /\ sending[s] = None /\ count[s] < MaxMessages
  /\ \E len \in Lengths :
       /\ len > mMaxTxSize
       /\ takes(Sender, [fn |-> "head", from |-> s, n |-> count[s] + 1, size |-> 1,
                         msgLen |-> len])
       /\ sending' = [sending EXCEPT ![s] = [n |-> count[s] + 1, len |-> len, offset |-> 0]]
  /\ count' = [count EXCEPT ![s] = @ + 1]
  /\ UNCHANGED <<long, receiving, stopped, accepted, delivered>>

sendPiece(s) ==
  LET m == sending[s]
      size == Min({m.len - m.offset, mMaxTxSize})
      last == m.offset + size = m.len
  IN /\ m # None
     /\ takes(Sender \ {s}, [fn |-> "piece", from |-> s, n |-> m.n, size |-> size,
                             offset |-> m.offset])
     /\ sending' = [sending EXCEPT ![s] = IF last THEN None ELSE [m EXCEPT !.offset = @ + size]]
     /\ accepted' = IF last THEN accepted \cup {<<s, m.n>>} ELSE accepted
     /\ UNCHANGED <<count, long, receiving, stopped, delivered>>

\* SO_SNDTIMEO, or nobody listens: the rest of a long message is not sent
sendFails(s) ==
  /\ full \/ ~receiving
  /\ sending[s] # None \/ count[s] < MaxMessages
  /\ count' = IF sending[s] = None THEN [count EXCEPT ![s] = @ + 1] ELSE count
  /\ sending' = [sending EXCEPT ![s] = None]
  /\ torn' = (torn \/ sending[s] # None)
  /\ UNCHANGED <<socket, long, receiving, stopped, accepted, delivered>>

\* stopNonBlockingListening(): ~LocThreadDelegate interrupts, and waits for
\* nothing
stopNonBlockingListening ==
  /\ stopped = "no"
  /\ \/ takes(Sender, [fn |-> "abort", from |-> None, n |-> 0, size |-> 1])
        /\ stopped' = "asked"
     \/ (full \/ ~receiving) /\ stopped' = "refused" /\ UNCHANGED <<socket, torn>>
  /\ UNCHANGED <<sending, count, long, receiving, accepted, delivered>>
------------------------------------------------------------------------------
(* Sock::recvfrom, by the listening thread.                                *)

\* what onReceive() is given: the message, if it is in the pieces, as sent
message(pieces, msgLen) ==
  LET p == pieces[1]
      offsets == [i \in DOMAIN pieces |-> (i - 1) * mMaxTxSize]
  IN IF /\ \A i \in DOMAIN pieces : /\ pieces[i].fn = "piece"
                                    /\ <<pieces[i].from, pieces[i].n>> = <<p.from, p.n>>
                                    /\ pieces[i].offset = offsets[i]
        /\ FoldSeq(LAMBDA d, sum : d.size + sum, 0, pieces) = msgLen
     THEN <<p.from, p.n>> ELSE None

recvAbort_GoesOn ==
  /\ receiving /\ socket # <<>> /\ long = None /\ Head(socket).fn = "abort"
  /\ socket' = Tail(socket)
  /\ UNCHANGED <<sending, count, long, receiving, stopped, accepted, delivered, torn>>
recvAbort ==
  /\ receiving /\ socket # <<>> /\ long = None /\ Head(socket).fn = "abort"
  /\ receiving' = FALSE /\ socket' = <<>>
  /\ UNCHANGED <<sending, count, long, stopped, accepted, delivered, torn>>

\* a piece without its announcement passes for a short message
recvShort ==
  LET d == Head(socket)
  IN /\ receiving /\ socket # <<>> /\ long = None /\ d.fn \in {"short", "piece"}
     /\ socket' = Tail(socket)
     /\ delivered' = Append(delivered, IF d.fn = "short" THEN <<d.from, d.n>> ELSE None)
     /\ UNCHANGED <<sending, count, long, receiving, stopped, accepted, torn>>

announced(d) == [msgLen |-> d.msgLen, received |-> 0, pieces |-> <<>>]
recvHead ==
  /\ receiving /\ socket # <<>> /\ long = None /\ Head(socket).fn = "head"
  /\ socket' = Tail(socket)
  /\ long' = announced(Head(socket))
  /\ UNCHANGED <<sending, count, receiving, stopped, accepted, delivered, torn>>

\* whatever comes next is taken for a piece, as much of it as there is room for
recvPiece ==
  LET d == Head(socket)
      received == long.received + Min({d.size, long.msgLen - long.received})
      pieces == Append(long.pieces, d)
  IN /\ receiving /\ socket # <<>> /\ long # None
     /\ socket' = Tail(socket)
     /\ IF received < long.msgLen
        THEN /\ long' = [long EXCEPT !.received = received, !.pieces = pieces]
             /\ UNCHANGED delivered
        ELSE /\ long' = None
             /\ delivered' = Append(delivered, message(pieces, long.msgLen))
     /\ UNCHANGED <<sending, count, receiving, stopped, accepted, torn>>

recvData == recvAbort \/ recvShort \/ recvHead \/ recvPiece
------------------------------------------------------------------------------
Next ==
  \/ \E s \in Sender : sendShort(s) \/ sendHead(s) \/ sendPiece(s) \/ sendFails(s)
  \/ stopNonBlockingListening \/ recvData

Spec == Init /\ [][Next]_vars /\ WF_vars(recvData)
------------------------------------------------------------------------------
(* Properties. *)

\* While no long message is cut off or mixed with others, onReceive() is given
\* the messages of each sender whole, in their order and once, and misses none
\* but those behind the abort message.
MessagesArrive ==
  LET got(s) == SelectSeq(delivered, LAMBDA m : m # None /\ m[1] = s)
      waiting == {<<socket[i].from, socket[i].n>> : i \in DOMAIN socket}
                 \cup (IF long = None THEN {}
                       ELSE {<<p.from, p.n>> : p \in ToSet(long.pieces)})
  IN ~torn =>
       /\ None \notin ToSet(delivered)
       /\ \A s \in Sender : \A i \in 1 .. Len(got(s)) - 1 : got(s)[i][2] < got(s)[i + 1][2]
       /\ receiving => accepted \subseteq ToSet(delivered) \cup waiting

\* A listener that is told to stop does, and its owner may go; unless the abort
\* message was swallowed by a long message.
IpcServes ==
  /\ []MessagesArrive
  /\ (stopped = "asked") ~> (~receiving \/ torn)
=============================================================================
