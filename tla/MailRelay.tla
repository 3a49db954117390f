------------------------------ MODULE MailRelay ------------------------------
(***************************************************************************)
(* One connection of the mail proxy (RCConnectionMain in RCMailProxy.c)    *)
(* from the connected upstream socket to its end: the clear SMTP dialogue  *)
(* up to STARTTLS, the verified TLS connection, the saved greeting, and    *)
(* the relay between the mail client and the server.  MailProxy has the    *)
(* threads around it and the shutdown of its sockets.                      *)
(*                                                                         *)
(* Every direction of a socket is a queue of Capacity items, a full or an  *)
(* empty one blocks the thread until the two minute time limit.  The       *)
(* client and the server are free to speak, read and close when they like. *)
(* A TLS record is at most as long as the relay's buffer, so that SSL_read *)
(* empties it and SSL_pending stays 0.                                     *)
(***************************************************************************)
EXTENDS Naturals, Sequences, FiniteSets

CONSTANTS
  Capacity,       \* bound: items in one direction of a socket
  ResponseLimit,  \* RC_SMTP_RESPONSE_LIMIT, in lines
  Buffer,         \* the relay's buffer, and the longest TLS record
  MaxCommands,    \* bound: items the client sends
  MaxReplies      \* bound: items the server sends over TLS

ASSUME RelayConstants ==
  /\ Capacity \in Nat \ {0} /\ ResponseLimit \in Nat \ {0} /\ Buffer \in Nat \ {0}
  /\ MaxCommands \in Nat /\ MaxReplies \in Nat

VARIABLES
  mode,      \* config.mode: "tls" or "starttls"
  honest,    \* the server's certificate is valid for remoteHost
  pc,        \* where the connection's thread is
  used,      \* the lines of the response being read
  offered,   \* hasStartTLS
  greeting,  \* the saved response, then what is left of it to send
  buffer,    \* what is left to write
  ready,     \* the sockets select found readable
  ended,     \* why the thread finished
  lin, lout, \* the client's socket: to the proxy, to the client
  up, down,  \* the server's socket: to the server, to the proxy
  closed,    \* the peers that closed their socket
  server,    \* what the server does: [at, code]
  csent, ssent,    \* items sent by the client, by the server over TLS
  ticketed,  \* the server sent its session ticket
  crecv, srecv     \* what the client and the server received

setup == <<used, offered, greeting>>
relay == <<buffer, ready>>
peers == <<closed, server, csent, ssent, ticketed, crecv, srecv>>
vars == <<mode, honest, pc, setup, relay, ended, lin, lout, up, down, peers>>

(* What travels: the words and lines of the clear dialogue, the two hellos *)
(* of TLS, the server's records, and the items of relayed data.            *)
Word(word) == [kind |-> word]
Line(code, last, starttls) ==
  [kind |-> "line", code |-> code, last |-> last, starttls |-> starttls]
Record(items) == [kind |-> "record", items |-> items]
Item(n) == [kind |-> "item", n |-> n]
IsLine(item) == item.kind = "line"
IsData(item) == item.kind = "item"

HasRoom(queue) == Len(queue) < Capacity

Init ==
  /\ mode \in {"tls", "starttls"} /\ honest \in BOOLEAN
  /\ pc = (IF mode = "tls" THEN "hello" ELSE "greeting")
  /\ used = 0 /\ offered = FALSE /\ greeting = <<>>
  /\ buffer = <<>> /\ ready = {} /\ ended = "no"
  /\ lin = <<>> /\ lout = <<>> /\ up = <<>> /\ down = <<>>
  /\ closed = {} /\ csent = 0 /\ ssent = 0 /\ ticketed = FALSE
  /\ crecv = <<>> /\ srecv = <<>>
  /\ IF mode = "tls" THEN server = [at |-> "tls", code |-> 0]
     ELSE \E code \in {220, 554} : server = [at |-> "reply", code |-> code]

-----------------------------------------------------------------------------
(* The client and the server.                                              *)

ClientSends ==
  /\ "client" \notin closed /\ pc # "finished"
  /\ csent < MaxCommands /\ HasRoom(lin)
  /\ csent' = csent + 1 /\ lin' = Append(lin, Item(csent + 1))
  /\ UNCHANGED <<mode, honest, pc, setup, relay, ended, lout, up, down, closed, server, ssent,
                 ticketed, crecv, srecv>>

ClientReads ==
  /\ lout # <<>>
  /\ lout' = Tail(lout) /\ crecv' = Append(crecv, Head(lout))
  /\ UNCHANGED <<mode, honest, pc, setup, relay, ended, lin, up, down, closed, server, csent,
                 ssent, ticketed, srecv>>

PeerCloses(peer) ==
  /\ peer \notin closed /\ pc # "finished"
  /\ closed' = closed \cup {peer}
  /\ UNCHANGED <<mode, honest, pc, setup, relay, ended, lin, lout, up, down, server, csent, ssent,
                 ticketed, crecv, srecv>>

ServerSays(item) == HasRoom(down) /\ down' = Append(down, item)

(* A response in the clear: lines of one code, as many as it likes; TLS    *)
(* follows the last line of the 220 that answers STARTTLS.                 *)
ServerReplies ==
  /\ server.at \in {"reply", "agree"} /\ "server" \notin closed
  /\ \E last, starttls \in BOOLEAN :
       /\ starttls => server.code = 250
       /\ ServerSays(Line(server.code, last, starttls))
       /\ server' = IF ~last THEN server
                    ELSE [at |-> IF server.at = "agree" /\ server.code = 220 THEN "tls" ELSE "wait",
                          code |-> 0]
  /\ UNCHANGED <<mode, honest, pc, setup, relay, ended, lin, lout, up, closed, csent, ssent,
                 ticketed, crecv, srecv>>

(* The server takes a command, the client's TLS hello, or relayed data.    *)
ServerReads ==
  /\ up # <<>> /\ "server" \notin closed
  /\ up' = Tail(up)
  /\ \/ /\ server.at = "wait" /\ Head(up).kind = "EHLO"
        /\ \E code \in {250, 500} : server' = [at |-> "reply", code |-> code]
        /\ UNCHANGED <<down, srecv>>
     \/ /\ server.at = "wait" /\ Head(up).kind = "STARTTLS"
        /\ \E code \in {220, 454} : server' = [at |-> "agree", code |-> code]
        /\ UNCHANGED <<down, srecv>>
     \/ /\ server.at = "tls" /\ Head(up).kind = "ClientHello"
        /\ ServerSays(Word("ServerHello")) /\ server' = [server EXCEPT !.at = "open"]
        /\ UNCHANGED srecv
     \/ /\ server.at = "open"
        /\ srecv' = Append(srecv, Head(up)) /\ UNCHANGED <<down, server>>
  /\ UNCHANGED <<mode, honest, pc, setup, relay, ended, lin, lout, closed, csent, ssent, ticketed,
                 crecv>>

(* A record of data, or the session ticket that follows a TLS handshake.   *)
ServerSends ==
  /\ server.at = "open" /\ "server" \notin closed /\ pc # "finished"
  /\ \/ \E n \in 1 .. Buffer :
          /\ ssent + n <= MaxReplies
          /\ ServerSays(Record([i \in 1 .. n |-> Item(ssent + i)]))
          /\ ssent' = ssent + n /\ UNCHANGED ticketed
     \/ ~ticketed /\ ServerSays(Word("ticket")) /\ ticketed' = TRUE /\ UNCHANGED ssent
  /\ UNCHANGED <<mode, honest, pc, setup, relay, ended, lin, lout, up, closed, server, csent, crecv,
                 srecv>>

-----------------------------------------------------------------------------
(* The clear dialogue.                                                     *)

Expected == IF pc = "capabilities" THEN 250 ELSE 220
Reading == pc \in {"greeting", "capabilities", "agreed"}

(* Faulty variant: the first line of the expected code ends the response.  *)
FirstIsFinal(line) == line.code = Expected

(* The code and a blank after it; every other line is passed over.         *)
IsFinal(line) == line.code = Expected /\ line.last

Counted(n) == n + 1

(* A line of the response, read byte by byte so that nothing behind the    *)
(* final line is taken from the socket.                                    *)
RCReadSMTPResponse ==
  /\ Reading /\ used < ResponseLimit /\ down # <<>> /\ IsLine(Head(down))
  /\ LET line == Head(down) IN
     /\ down' = Tail(down)
     /\ greeting' = IF pc = "greeting" THEN Append(greeting, line) ELSE greeting
     /\ offered' = (offered \/ (pc = "capabilities" /\ line.starttls))
     /\ used' = IF IsFinal(line) THEN 0 ELSE Counted(used)
     /\ IF ~IsFinal(line) THEN UNCHANGED <<pc, ended>>
        ELSE \/ /\ pc = "capabilities" /\ ~offered'
                /\ pc' = "finished" /\ ended' = "refused"
             \/ /\ pc # "capabilities" \/ offered'
                /\ pc' = CASE pc = "greeting" -> "ehlo" [] pc = "capabilities" -> "upgrade"
                           [] OTHER -> "hello"
                /\ UNCHANGED ended
  /\ UNCHANGED <<mode, honest, relay, lin, lout, up, peers>>

Gives(reason) == pc' = "finished" /\ ended' = reason

(* The response does not fit.                                              *)
ResponseTooLong ==
  /\ Reading /\ used = ResponseLimit
  /\ Gives("too long")
  /\ UNCHANGED <<mode, honest, setup, relay, lin, lout, up, down, peers>>

Speaks(from, item, next) ==
  /\ pc = from /\ HasRoom(up)
  /\ up' = Append(up, Word(item)) /\ pc' = next
  /\ UNCHANGED <<mode, honest, setup, relay, ended, lin, lout, down, peers>>

(* The sends of RCPrepareSMTPStartTLS, and the first of SSL_connect.       *)
RCPrepareSMTPStartTLS ==
  \/ Speaks("ehlo", "EHLO", "capabilities")
  \/ Speaks("upgrade", "STARTTLS", "agreed")
  \/ Speaks("hello", "ClientHello", "verify")

(* SSL_connect returns: the chain and the host name are checked by it and  *)
(* by SSL_get_verify_result.                                               *)
RCConnectTLS ==
  /\ pc = "verify" /\ down # <<>>
  /\ down' = Tail(down)
  /\ IF Head(down).kind = "ServerHello" /\ honest
     THEN pc' = "welcome" /\ UNCHANGED ended
     ELSE Gives("not verified")
  /\ UNCHANGED <<mode, honest, setup, relay, lin, lout, up, peers>>

-----------------------------------------------------------------------------
(* The relay.                                                              *)

(* Faulty variant: a send that took a part is repeated from the start.     *)
Repeated(items) == items

(* What a send that took one item leaves to be sent.                       *)
RCSendAll(items) == Tail(items)

(* The greeting of the clear dialogue goes to the client; there is none    *)
(* with implicit TLS.                                                      *)
Welcome ==
  /\ pc = "welcome"
  /\ IF greeting = <<>> THEN pc' = "select" /\ UNCHANGED <<greeting, lout>>
     ELSE /\ HasRoom(lout) /\ lout' = Append(lout, Head(greeting))
          /\ greeting' = RCSendAll(greeting) /\ UNCHANGED pc
  /\ UNCHANGED <<mode, honest, used, offered, relay, ended, lin, up, down, peers>>

(* select waits until a socket has data or was closed by its peer; after a *)
(* second without it waits again.                                          *)
Select ==
  /\ pc = "select"
  /\ ready' = {s \in {"client", "server"} :
                 s \in closed \/ (IF s = "client" THEN lin ELSE down) # <<>>}
  /\ ready' # {}
  /\ pc' = IF "client" \in ready' THEN "local" ELSE "remote"
  /\ UNCHANGED <<mode, honest, setup, buffer, ended, lin, lout, up, down, peers>>

(* What the client sent, or the end of it.                                 *)
Local ==
  /\ pc = "local"
  /\ IF lin = <<>> THEN Gives("client closed") /\ UNCHANGED <<buffer, lin>>
     ELSE LET n == IF Len(lin) < Buffer THEN Len(lin) ELSE Buffer IN
          /\ buffer' = SubSeq(lin, 1, n) /\ lin' = SubSeq(lin, n + 1, Len(lin))
          /\ pc' = "write" /\ UNCHANGED ended
  /\ UNCHANGED <<mode, honest, setup, ready, lout, up, down, peers>>

(* Only then is the server's socket looked at, as select found it.         *)
RCSSLWriteAll ==
  /\ pc = "write"
  /\ IF buffer = <<>>
     THEN pc' = (IF "server" \in ready THEN "remote" ELSE "select") /\ UNCHANGED <<buffer, up>>
     ELSE /\ HasRoom(up) /\ up' = Append(up, Head(buffer))
          /\ buffer' = RCSendAll(buffer) /\ UNCHANGED pc
  /\ UNCHANGED <<mode, honest, setup, ready, ended, lin, lout, down, peers>>

(* SSL_read waits for data: a record without any is taken and the next one *)
(* awaited.                                                                *)
Remote ==
  /\ pc = "remote" /\ down # <<>>
  /\ down' = Tail(down)
  /\ IF Head(down).kind = "ticket" THEN UNCHANGED <<pc, buffer>>
     ELSE buffer' = Head(down).items /\ pc' = "send"
  /\ UNCHANGED <<mode, honest, setup, ready, ended, lin, lout, up, peers>>

SendLocal ==
  /\ pc = "send"
  /\ IF buffer = <<>> THEN pc' = "select" /\ UNCHANGED <<buffer, lout>>
     ELSE /\ HasRoom(lout) /\ lout' = Append(lout, Head(buffer))
          /\ buffer' = RCSendAll(buffer) /\ UNCHANGED pc
  /\ UNCHANGED <<mode, honest, setup, ready, ended, lin, up, down, peers>>

-----------------------------------------------------------------------------
(* What ends a blocked or a failing call.                                  *)

AwaitsServer == Reading \/ pc \in {"verify", "remote"}
ToServer == pc \in {"ehlo", "upgrade", "hello"} \/ (pc = "write" /\ buffer # <<>>)
ToClient == (pc = "welcome" /\ greeting # <<>>) \/ (pc = "send" /\ buffer # <<>>)

(* The end of the server's stream, or a send to a peer that is gone.       *)
PeerGone ==
  /\ \/ AwaitsServer /\ down = <<>> /\ "server" \in closed /\ Gives("server closed")
     \/ ToServer /\ "server" \in closed /\ Gives("send failed")
     \/ ToClient /\ "client" \in closed /\ Gives("send failed")
  /\ UNCHANGED <<mode, honest, setup, relay, lin, lout, up, down, peers>>

Blocked ==
  \/ AwaitsServer /\ down = <<>>
  \/ ToServer /\ ~HasRoom(up)
  \/ ToClient /\ ~HasRoom(lout)

(* Faulty variant: no time limit on the sockets.                           *)
NoTimeouts == FALSE /\ UNCHANGED vars

(* Two minutes without progress.                                           *)
RCSetSocketTimeouts ==
  /\ Blocked
  /\ Gives("time limit")
  /\ UNCHANGED <<mode, honest, setup, relay, lin, lout, up, down, peers>>

-----------------------------------------------------------------------------

Thread ==
  \/ RCReadSMTPResponse \/ ResponseTooLong \/ RCPrepareSMTPStartTLS \/ RCConnectTLS
  \/ Welcome \/ Select \/ Local \/ RCSSLWriteAll \/ Remote \/ SendLocal
  \/ PeerGone \/ RCSetSocketTimeouts

(* The sockets are closed; what was sent is still read.                    *)
Closed == pc = "finished" /\ UNCHANGED vars

Next ==
  \/ Thread \/ Closed
  \/ ClientSends \/ ClientReads \/ ServerReplies \/ ServerReads \/ ServerSends
  \/ \E peer \in {"client", "server"} : PeerCloses(peer)

Spec == Init /\ [][Next]_vars

(* The thread runs and a time limit passes; the peers owe nothing.         *)
FairSpec == Spec /\ WF_vars(Thread)

-----------------------------------------------------------------------------

Setup == {"greeting", "ehlo", "capabilities", "upgrade", "agreed", "hello", "verify", "welcome"}
Relaying == {"select", "local", "write", "remote", "send"}

Words == [kind : {"EHLO", "STARTTLS", "ClientHello", "ServerHello", "ticket"}]
Lines == [kind : {"line"}, code : Nat, last : BOOLEAN, starttls : BOOLEAN]
Items == [kind : {"item"}, n : Nat]
Records == [kind : {"record"}, items : Seq(Items)]

(* A waiting select has nothing left in the buffer, and the items in the   *)
(* queues are within the bounds the code sets.                             *)
TypeOK ==
  /\ mode \in {"tls", "starttls"} /\ honest \in BOOLEAN
  /\ pc \in Setup \cup Relaying \cup {"finished"} /\ (pc = "finished") = (ended # "no")
  /\ used \in 0 .. ResponseLimit /\ offered \in BOOLEAN
  /\ greeting \in Seq(Lines) /\ Len(greeting) <= ResponseLimit
  /\ buffer \in Seq(Items) /\ Len(buffer) <= Buffer /\ (pc = "select" => buffer = <<>>)
  /\ ready \subseteq {"client", "server"} /\ closed \subseteq {"client", "server"}
  /\ lin \in Seq(Items) /\ lout \in Seq(Lines \cup Items) /\ crecv \in Seq(Lines \cup Items)
  /\ up \in Seq(Words \cup Items) /\ srecv \in Seq(Words \cup Items)
  /\ down \in Seq(Lines \cup Words \cup Records)
  /\ \A queue \in {lin, lout, up, down} : Len(queue) <= Capacity
  /\ server \in [at : {"reply", "agree", "wait", "tls", "open"}, code : Nat]
  /\ csent \in 0 .. MaxCommands /\ ssent \in 0 .. MaxReplies /\ ticketed \in BOOLEAN

OverTLS == srecv \o up
ToClientSoFar == crecv \o lout

(* Where the relayed data are in a stream, and how many.                   *)
DataIn(items) == {i \in DOMAIN items : IsData(items[i])}
Amount(items) == Cardinality(DataIn(items))

(* The data in the stream are the first of those sent, in their order.     *)
FirstSent(items, sent) ==
  /\ Amount(items) <= sent
  /\ \A i \in DataIn(items) : items[i].n = Cardinality(DataIn(items) \cap 1 .. i)

(* TLS begins when the clear dialogue is over for the server too: it       *)
(* agreed to STARTTLS, and no line of its last response is left to be read *)
(* as a TLS record.                                                        *)
CleanUpgrade ==
  pc = "hello" => server.at = "tls" /\ down = <<>>

(* Through partial sends and full queues, each side gets what the other    *)
(* sent without a loss, a repetition or a change of order, after a         *)
(* greeting that ends with its final line.                                 *)
InOrder ==
  /\ FirstSent(OverTLS, csent)
  /\ FirstSent(ToClientSoFar, ssent)
  /\ \A i \in DOMAIN ToClientSoFar :
       IsLine(ToClientSoFar[i]) => \A j \in 1 .. i : IsLine(ToClientSoFar[j])
  /\ Amount(ToClientSoFar) # 0 /\ mode = "starttls"
       => \E i \in DOMAIN ToClientSoFar : IsLine(ToClientSoFar[i]) /\ ToClientSoFar[i].last

(* A command of the client is on its way to the server or the connection   *)
(* has ended: it never waits for ever behind a server that has something   *)
(* else to say, reads nothing, or sent a record without data.              *)
CommandsMove ==
  \A n \in 1 .. MaxCommands :
    (csent >= n) ~> (pc = "finished" \/ Amount(OverTLS) >= n)
=============================================================================
