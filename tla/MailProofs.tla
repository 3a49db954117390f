---------------------------- MODULE MailProofs -----------------------------
(***************************************************************************)
(* Proofs about the mail proxy: one relayed connection, then the threads   *)
(* that make and end connections.                                          *)
(*                                                                         *)
(* CleanUpgrade and InOrder hold of a relayed connection for sockets,      *)
(* buffers and responses of any size and any amount of mail.               *)
(*                                                                         *)
(* The upgrade is clean because in the clear the two sides take turns: a   *)
(* command is under way or its response is, never both, and the final line *)
(* of a response is the last thing the server says until it gets the next  *)
(* command (DialogueInv).                                                  *)
(*                                                                         *)
(* The relayed data are in order because whatever is on its way, in a      *)
(* socket, in the relay's buffer or in a TLS record, continues the numbers *)
(* where the part already handed over stops (CommandsInv, RepliesInv).     *)
(*                                                                         *)
(* The proxy is freed and stopped safely, for any set of connections,      *)
(* because every connection and every socket has one owner at any moment,  *)
(* and the main thread takes the proxy apart in a fixed order (ProxyInv).  *)
(***************************************************************************)
EXTENDS MailRelay, MailProxy, FiniteSetTheorems, SequenceTheorems, TLAPS

Clear == {"greeting", "ehlo", "capabilities", "upgrade", "agreed"}

(* A response in the clear that is not read yet. *)
ResponseInv ==
  pc \in Clear =>
    /\ \A i \in DOMAIN down : IsLine(down[i]) /\ (down[i].last => i = Len(down))
    /\ server.at \in {"reply", "agree"} => \A i \in DOMAIN down : ~down[i].last
    /\ pc = "agreed" /\ server.at = "agree" => \A i \in DOMAIN down : down[i].code = server.code
    /\ pc = "agreed" /\ server.at = "wait" => \A i \in DOMAIN down : down[i].code # 220

(* Whose turn it is. *)
DialogueInv ==
  /\ pc \in Clear =>
       /\ server.at # "open"
       /\ server.at = "reply" => pc \in {"greeting", "capabilities"} /\ up = <<>>
       /\ server.at \in {"agree", "tls"} => pc = "agreed" /\ up = <<>>
       /\ up # <<>> =>
            /\ pc \in {"capabilities", "agreed"} /\ down = <<>> /\ Len(up) = 1
            /\ Head(up).kind = (IF pc = "capabilities" THEN "EHLO" ELSE "STARTTLS")
       /\ pc \in {"ehlo", "upgrade"} => down = <<>> /\ up = <<>>
  /\ pc = "hello" => server.at = "tls" /\ down = <<>> /\ up = <<>>
  /\ pc = "verify" => server.at \in {"tls", "open"}
  /\ pc \in Relaying \cup {"welcome"} => server.at = "open"
  /\ server.at # "open" => srecv = <<>> /\ \A i \in DOMAIN up : ~IsData(up[i])

(* What the server says over TLS. *)
RecordInv ==
  /\ pc = "verify" => (server.at = "tls" <=> down = <<>>)
  /\ pc \in Relaying \cup {"welcome"} => \A i \in DOMAIN down : down[i].kind \in {"record", "ticket"}
  /\ pc = "verify" => \A i \in DOMAIN down :
       down[i].kind \in (IF i = 1 THEN {"ServerHello"} ELSE {"record", "ticket"})
  /\ \A i \in DOMAIN down : down[i].kind = "record" => Len(down[i].items) <= Buffer

(* What is left in the relay's hands. *)
BufferInv ==
  /\ pc \in Setup \cup {"select", "local", "remote"} => buffer = <<>>
  /\ pc = "greeting" => Len(greeting) = used
  /\ mode = "tls" => greeting = <<>> /\ pc \notin Clear

HasFinal == \E i \in DOMAIN ToClientSoFar : IsLine(ToClientSoFar[i]) /\ ToClientSoFar[i].last

(* The greeting goes to the client before anything else. *)
GreetingInv ==
  /\ pc \in Setup \ {"welcome"} => ToClientSoFar = <<>>
  /\ pc = "welcome" => \A i \in DOMAIN ToClientSoFar : IsLine(ToClientSoFar[i])
  /\ mode = "starttls" /\ pc \in Setup \ {"greeting", "welcome"} =>
       greeting # <<>> /\ greeting[Len(greeting)].last
  /\ mode = "starttls" /\ pc = "welcome" =>
       HasFinal \/ (greeting # <<>> /\ greeting[Len(greeting)].last)
  /\ mode = "starttls" /\ pc \in Relaying => HasFinal
  /\ \A i \in DOMAIN ToClientSoFar :
       IsLine(ToClientSoFar[i]) => \A j \in 1 .. i : IsLine(ToClientSoFar[j])
  /\ Amount(ToClientSoFar) # 0 /\ mode = "starttls" => HasFinal

Held(phase) == IF pc = phase THEN Len(buffer) ELSE 0

(* From the client to the server. *)
CommandsInv ==
  /\ FirstSent(OverTLS, csent)
  /\ pc # "finished" =>
       /\ Amount(OverTLS) + Held("write") + Len(lin) = csent
       /\ \A i \in DOMAIN lin : lin[i].n = Amount(OverTLS) + Held("write") + i
       /\ pc = "write" => \A i \in DOMAIN buffer : buffer[i].n = Amount(OverTLS) + i

(* Position i of the server's socket has data up to number f[i]. *)
Continues(f) ==
  /\ f[0] = Amount(ToClientSoFar) + Held("send") /\ f[Len(down)] = ssent
  /\ \A i \in DOMAIN down :
       IF down[i].kind = "record"
       THEN /\ f[i] = f[i - 1] + Len(down[i].items)
            /\ \A k \in DOMAIN down[i].items : down[i].items[k].n = f[i - 1] + k
       ELSE f[i] = f[i - 1]

(* From the server to the client. *)
RepliesInv ==
  /\ FirstSent(ToClientSoFar, ssent)
  /\ pc # "finished" =>
       /\ \E f \in [0 .. Len(down) -> 0 .. ssent] : Continues(f)
       /\ pc = "send" => \A i \in DOMAIN buffer : buffer[i].n = Amount(ToClientSoFar) + i

RelayInv ==
  /\ TypeOK /\ ResponseInv /\ DialogueInv /\ RecordInv /\ BufferInv
  /\ GreetingInv /\ CommandsInv /\ RepliesInv

-----------------------------------------------------------------------------
(* Sequences. *)

LEMMA TailFacts ==
  ASSUME NEW T, NEW s \in Seq(T), s # <<>>
  PROVE  /\ Head(s) \in T /\ Head(s) = s[1] /\ Tail(s) \in Seq(T)
         /\ Len(s) \in Nat /\ Len(s) >= 1 /\ Len(Tail(s)) = Len(s) - 1
         /\ \A i \in 1 .. Len(s) - 1 : Tail(s)[i] = s[i + 1]
  BY HeadTailProperties, EmptySeq

LEMMA AppendFacts ==
  ASSUME NEW T, NEW s \in Seq(T), NEW e \in T
  PROVE  /\ Append(s, e) \in Seq(T) /\ Len(Append(s, e)) = Len(s) + 1 /\ Append(s, e) # <<>>
         /\ \A i \in 1 .. Len(s) : Append(s, e)[i] = s[i]
         /\ Append(s, e)[Len(s) + 1] = e
  BY AppendProperties, EmptySeq

(* An item handed from one queue to the next stays in the stream. *)
LEMMA HandedOver ==
  ASSUME NEW T, NEW s \in Seq(T), NEW t \in Seq(T), t # <<>>
  PROVE  Append(s, Head(t)) \o Tail(t) = s \o t
<1>1. /\ Append(s, Head(t)) \in Seq(T) /\ Tail(t) \in Seq(T) /\ Head(t) \in T /\ Head(t) = t[1]
      /\ Len(Append(s, Head(t))) = Len(s) + 1 /\ Len(Tail(t)) = Len(t) - 1
      /\ Len(s) \in Nat /\ Len(t) \in Nat /\ Len(t) >= 1
  BY TailFacts, AppendFacts
<1>2. /\ Append(s, Head(t)) \o Tail(t) \in Seq(T) /\ s \o t \in Seq(T)
      /\ Len(Append(s, Head(t)) \o Tail(t)) = Len(s \o t) /\ Len(s \o t) = Len(s) + Len(t)
  BY <1>1, ConcatProperties
<1>3. ASSUME NEW i \in 1 .. Len(s \o t)
      PROVE  (Append(s, Head(t)) \o Tail(t))[i] = (s \o t)[i]
  <2>1. CASE i <= Len(s)
    BY <1>1, <1>2, <2>1, AppendFacts, ConcatProperties
  <2>2. CASE i = Len(s) + 1
    BY <1>1, <1>2, <2>2, AppendFacts, ConcatProperties
  <2>3. CASE i > Len(s) + 1
    BY <1>1, <1>2, <2>3, TailFacts, ConcatProperties
  <2> QED
    BY <1>1, <1>2, <2>1, <2>2, <2>3
<1> QED
  BY <1>2, <1>3, SeqEqual

LEMMA AppendLast ==
  ASSUME NEW T, NEW s \in Seq(T), NEW t \in Seq(T), NEW e \in T
  PROVE  s \o Append(t, e) = Append(s \o t, e)
<1>1. /\ Append(t, e) \in Seq(T) /\ Len(Append(t, e)) = Len(t) + 1
      /\ Len(s) \in Nat /\ Len(t) \in Nat
      /\ s \o t \in Seq(T) /\ Len(s \o t) = Len(s) + Len(t)
      /\ Append(s \o t, e) \in Seq(T) /\ Len(Append(s \o t, e)) = Len(s) + Len(t) + 1
      /\ s \o Append(t, e) \in Seq(T) /\ Len(s \o Append(t, e)) = Len(s) + Len(t) + 1
  BY AppendFacts, ConcatProperties
<1>2. ASSUME NEW i \in 1 .. Len(s) + Len(t) + 1
      PROVE  (s \o Append(t, e))[i] = Append(s \o t, e)[i]
  <2>1. CASE i <= Len(s)
    BY <1>1, <2>1, AppendFacts, ConcatProperties
  <2>2. CASE i > Len(s) /\ i <= Len(s) + Len(t)
    BY <1>1, <2>2, AppendFacts, ConcatProperties
  <2>3. CASE i = Len(s) + Len(t) + 1
    BY <1>1, <2>3, AppendFacts, ConcatProperties
  <2> QED
    BY <1>1, <2>1, <2>2, <2>3
<1> QED
  BY <1>1, <1>2, SeqEqual

-----------------------------------------------------------------------------
(* Streams. *)

LEMMA DataFinite ==
  ASSUME NEW T, NEW s \in Seq(T)
  PROVE  DataIn(s) \subseteq 1 .. Len(s) /\ IsFiniteSet(DataIn(s)) /\ Amount(s) \in Nat
<1>1. DataIn(s) \subseteq 1 .. Len(s) /\ Len(s) \in Nat
  BY DEF DataIn
<1>2. IsFiniteSet(1 .. Len(s))
  BY <1>1, FS_Interval
<1>3. IsFiniteSet(DataIn(s))
  BY <1>1, <1>2, FS_Subset
<1> QED
  BY <1>1, <1>3, FS_CardinalityType DEF Amount

LEMMA NoData ==
  ASSUME NEW T, NEW s \in Seq(T), \A i \in DOMAIN s : ~IsData(s[i])
  PROVE  DataIn(s) = {} /\ Amount(s) = 0
  BY FS_EmptySet DEF DataIn, Amount

(* One more item in a stream. *)
LEMMA DataAppend ==
  ASSUME NEW T, NEW s \in Seq(T), NEW e \in T
  PROVE  Amount(Append(s, e)) = Amount(s) + (IF IsData(e) THEN 1 ELSE 0)
<1>1. DataIn(s) \subseteq 1 .. Len(s) /\ IsFiniteSet(DataIn(s)) /\ Len(s) \in Nat
  BY DataFinite
<1>2. DataIn(Append(s, e)) = DataIn(s) \cup (IF IsData(e) THEN {Len(s) + 1} ELSE {})
  BY <1>1, AppendFacts DEF DataIn
<1>3. CASE IsData(e)
  <2>1. Cardinality(DataIn(s) \cup {Len(s) + 1}) = Cardinality(DataIn(s)) + 1
    <3>1. PICK k : k = Len(s) + 1 /\ k \notin DataIn(s)
      BY <1>1
    <3>2. Cardinality(DataIn(s) \cup {k}) = Cardinality(DataIn(s)) + 1
      BY ONLY <1>1, <3>1, FS_AddElement
    <3> QED
      BY <3>1, <3>2
  <2> QED
    BY <1>2, <1>3, <2>1 DEF Amount
<1>4. CASE ~IsData(e)
  BY <1>1, <1>2, <1>4, DataFinite DEF Amount
<1> QED
  BY <1>3, <1>4

(* A stream grows by an item that is not data, or by the next of the data. *)
LEMMA SentAppend ==
  ASSUME NEW T, NEW s \in Seq(T), NEW e \in T, NEW n \in Nat, NEW m \in Nat, n <= m,
         FirstSent(s, n), IsData(e) => e.n = Amount(s) + 1 /\ e.n <= m
  PROVE  FirstSent(Append(s, e), m)
<1>1. DataIn(s) \subseteq 1 .. Len(s) /\ IsFiniteSet(DataIn(s)) /\ Len(s) \in Nat /\ Amount(s) \in Nat
  BY DataFinite
<1>2. DataIn(Append(s, e)) = DataIn(s) \cup (IF IsData(e) THEN {Len(s) + 1} ELSE {})
  BY <1>1, AppendFacts DEF DataIn
<1>3. Amount(Append(s, e)) <= m
  BY <1>1, DataAppend DEF FirstSent
<1>4. ASSUME NEW i \in DataIn(Append(s, e))
      PROVE  Append(s, e)[i].n = Cardinality(DataIn(Append(s, e)) \cap 1 .. i)
  <2>1. CASE i \in DataIn(s)
    <3>1. DataIn(Append(s, e)) \cap 1 .. i = DataIn(s) \cap 1 .. i
      BY <1>1, <1>2, <2>1
    <3>2. Append(s, e)[i] = s[i]
      BY <1>1, <2>1, AppendFacts
    <3> QED
      BY <2>1, <3>1, <3>2 DEF FirstSent
  <2>2. CASE i \notin DataIn(s)
    <3>1. i = Len(s) + 1 /\ IsData(e)
      BY <1>2, <2>2
    <3>2. DataIn(Append(s, e)) \cap 1 .. i = DataIn(Append(s, e))
      BY <1>1, <1>2, <3>1
    <3>3. Amount(Append(s, e)) = Amount(s) + 1
      BY <3>1, DataAppend
    <3>4. Append(s, e)[i] = e
      BY <3>1, AppendFacts
    <3> QED
      BY <3>1, <3>2, <3>3, <3>4 DEF Amount
  <2> QED
    BY <2>1, <2>2
<1> QED
  BY <1>3, <1>4 DEF FirstSent

LEMMA SentMore ==
  ASSUME NEW T, NEW s \in Seq(T), NEW n \in Nat, NEW m \in Nat, n <= m, FirstSent(s, n)
  PROVE  FirstSent(s, m)
<1>1. Amount(s) \in Nat
  BY DataFinite
<1> QED
  BY <1>1 DEF FirstSent

-----------------------------------------------------------------------------
(* The streams of a connection. *)

LEMMA StreamTypes ==
  ASSUME TypeOK
  PROVE  /\ srecv \in Seq(Words \cup Items) /\ up \in Seq(Words \cup Items)
         /\ crecv \in Seq(Lines \cup Items) /\ lout \in Seq(Lines \cup Items)
         /\ OverTLS \in Seq(Words \cup Items) /\ ToClientSoFar \in Seq(Lines \cup Items)
         /\ Amount(OverTLS) \in Nat /\ Amount(ToClientSoFar) \in Nat
         /\ csent \in Nat /\ ssent \in Nat /\ Len(lin) \in Nat /\ Len(buffer) \in Nat
<1>1. /\ srecv \in Seq(Words \cup Items) /\ up \in Seq(Words \cup Items)
      /\ crecv \in Seq(Lines \cup Items) /\ lout \in Seq(Lines \cup Items)
      /\ csent \in Nat /\ ssent \in Nat /\ Len(lin) \in Nat /\ Len(buffer) \in Nat
  BY RelayConstants DEF TypeOK
<1>2. OverTLS \in Seq(Words \cup Items) /\ ToClientSoFar \in Seq(Lines \cup Items)
  BY <1>1, ConcatProperties DEF OverTLS, ToClientSoFar
<1> QED
  BY <1>1, <1>2, DataFinite

LEMMA UpGrows ==
  ASSUME TypeOK, NEW e \in Words \cup Items, up' = Append(up, e), srecv' = srecv
  PROVE  /\ OverTLS' = Append(OverTLS, e)
         /\ Amount(OverTLS)' = Amount(OverTLS) + (IF IsData(e) THEN 1 ELSE 0)
<1>1. OverTLS' = Append(OverTLS, e)
  <2>1. srecv \o Append(up, e) = Append(srecv \o up, e)
    <3>1. PICK T : T = Words \cup Items
      OBVIOUS
    <3>2. srecv \in Seq(T) /\ up \in Seq(T) /\ e \in T
      BY <3>1, StreamTypes
    <3> QED
      BY ONLY <3>2, AppendLast
  <2> QED
    BY <2>1 DEF OverTLS
<1>2. Amount(Append(OverTLS, e)) = Amount(OverTLS) + (IF IsData(e) THEN 1 ELSE 0)
  BY StreamTypes, DataAppend
<1> QED
  BY <1>1, <1>2

LEMMA OutGrows ==
  ASSUME TypeOK, NEW e \in Lines \cup Items, lout' = Append(lout, e), crecv' = crecv
  PROVE  /\ ToClientSoFar' = Append(ToClientSoFar, e)
         /\ Amount(ToClientSoFar)' = Amount(ToClientSoFar) + (IF IsData(e) THEN 1 ELSE 0)
<1>1. ToClientSoFar' = Append(ToClientSoFar, e)
  <2>1. crecv \o Append(lout, e) = Append(crecv \o lout, e)
    <3>1. PICK T : T = Lines \cup Items
      OBVIOUS
    <3>2. crecv \in Seq(T) /\ lout \in Seq(T) /\ e \in T
      BY <3>1, StreamTypes
    <3> QED
      BY ONLY <3>2, AppendLast
  <2> QED
    BY <2>1 DEF ToClientSoFar
<1>2. Amount(Append(ToClientSoFar, e)) = Amount(ToClientSoFar) + (IF IsData(e) THEN 1 ELSE 0)
  BY StreamTypes, DataAppend
<1> QED
  BY <1>1, <1>2

-----------------------------------------------------------------------------
(* What a step leaves alone. *)

LEMMA CommandsFrame ==
  ASSUME CommandsInv, OverTLS' = OverTLS, UNCHANGED <<lin, csent>>,
         pc' = "finished" \/ (pc # "finished" /\ (pc' = "write" <=> pc = "write")
                              /\ (pc = "write" => buffer' = buffer))
  PROVE  CommandsInv'
<1>1. Amount(OverTLS)' = Amount(OverTLS)
      /\ (FirstSent(OverTLS, csent)' <=> FirstSent(OverTLS, csent))
  OBVIOUS
<1>2. CASE pc' = "finished"
  BY <1>1, <1>2 DEF CommandsInv
<1>3. CASE pc # "finished" /\ (pc' = "write" <=> pc = "write") /\ (pc = "write" => buffer' = buffer)
  <2>1. Held("write")' = Held("write")
    BY <1>3 DEF Held
  <2> QED
    BY <1>1, <1>3, <2>1 DEF CommandsInv
<1> QED
  BY <1>2, <1>3

LEMMA RepliesFrame ==
  ASSUME RepliesInv, ToClientSoFar' = ToClientSoFar, ssent' = ssent,
         pc' = "finished" \/ (pc # "finished" /\ down' = down /\ (pc' = "send" <=> pc = "send")
                              /\ (pc = "send" => buffer' = buffer))
  PROVE  RepliesInv'
<1>1. Amount(ToClientSoFar)' = Amount(ToClientSoFar)
      /\ (FirstSent(ToClientSoFar, ssent)' <=> FirstSent(ToClientSoFar, ssent))
  OBVIOUS
<1>2. CASE pc' = "finished"
  BY <1>1, <1>2 DEF RepliesInv
<1>3. CASE /\ pc # "finished" /\ down' = down /\ (pc' = "send" <=> pc = "send")
           /\ (pc = "send" => buffer' = buffer)
  <2>1. Held("send")' = Held("send")
    BY <1>3 DEF Held
  <2> QED
    BY <1>1, <1>3, <2>1 DEF RepliesInv, Continues
<1> QED
  BY <1>2, <1>3

(* Something else than data was taken from the server's socket. *)
LEMMA RepliesTaken ==
  ASSUME TypeOK, RepliesInv, ToClientSoFar' = ToClientSoFar, ssent' = ssent, pc # "finished",
         down # <<>>, down' = Tail(down), Head(down).kind # "record",
         pc # "send", pc' # "send"
  PROVE  RepliesInv'
<1>1. Amount(ToClientSoFar)' = Amount(ToClientSoFar)
      /\ (FirstSent(ToClientSoFar, ssent)' <=> FirstSent(ToClientSoFar, ssent))
  OBVIOUS
<1>2. /\ Len(down) \in Nat /\ Len(down) >= 1 /\ Len(down') = Len(down) - 1 /\ Head(down) = down[1]
      /\ \A i \in 1 .. Len(down) - 1 : down'[i] = down[i + 1]
      /\ DOMAIN down' = 1 .. Len(down')
  BY TailFacts DEF TypeOK
<1>3. PICK f \in [0 .. Len(down) -> 0 .. ssent] : Continues(f)
  BY DEF RepliesInv
<1>4. f[1] = f[0]
  <2>1. 1 \in DOMAIN down /\ 1 - 1 = 0 /\ down[1].kind # "record"
    BY <1>2 DEF TypeOK
  <2> QED
    BY <1>3, <2>1 DEF Continues
<1>5. PICK g \in [0 .. Len(down') -> 0 .. ssent'] : \A i \in 0 .. Len(down) - 1 : g[i] = f[i + 1]
  <2> DEFINE h == [i \in 0 .. Len(down) - 1 |-> f[i + 1]]
  <2>1. h \in [0 .. Len(down') -> 0 .. ssent']
    BY <1>2
  <2> QED
    BY <2>1
<1>6. Continues(g)'
  <2>1. g[0] = Amount(ToClientSoFar) + Held("send") /\ g[Len(down')] = ssent
    BY <1>2, <1>3, <1>4, <1>5 DEF Continues
  <2>2. Held("send")' = Held("send")
    BY DEF Held
  <2>3. ASSUME NEW i \in 1 .. Len(down)'
        PROVE  IF down'[i].kind = "record"
               THEN /\ g[i] = g[i - 1] + Len(down'[i].items)
                    /\ \A k \in DOMAIN down'[i].items : down'[i].items[k].n = g[i - 1] + k
               ELSE g[i] = g[i - 1]
    <3>1. i + 1 \in 1 .. Len(down) /\ down'[i] = down[i + 1] /\ g[i] = f[i + 1] /\ g[i - 1] = f[i]
      BY <1>2, <1>5
    <3>2. /\ (i + 1) - 1 = i /\ i + 1 \in DOMAIN down
      BY <3>1, <1>2 DEF TypeOK
    <3> QED
      BY <1>3, <3>1, <3>2 DEF Continues
  <2>4. g[0] = Amount(ToClientSoFar)' + Held("send")' /\ g[Len(down')] = ssent'
    BY <1>1, <2>1, <2>2
  <2>5. \A i \in DOMAIN down' :
          IF down'[i].kind = "record"
          THEN /\ g[i] = g[i - 1] + Len(down'[i].items)
               /\ \A k \in DOMAIN down'[i].items : down'[i].items[k].n = g[i - 1] + k
          ELSE g[i] = g[i - 1]
    BY <1>2, <2>3
  <2> QED
    BY <2>4, <2>5 DEF Continues
<1> QED
  BY <1>1, <1>5, <1>6 DEF RepliesInv

(* The server said more, or sent its next data. *)
LEMMA RepliesSaid ==
  ASSUME TypeOK, RepliesInv, ToClientSoFar' = ToClientSoFar, pc' = pc, buffer' = buffer,
         NEW e \in Lines \cup Words \cup Records, down' = Append(down, e), ssent' \in Nat,
         IF e.kind = "record"
         THEN ssent' = ssent + Len(e.items) /\ \A k \in DOMAIN e.items : e.items[k].n = ssent + k
         ELSE ssent' = ssent,
         Len(e.items) \in Nat \/ e.kind # "record"
  PROVE  RepliesInv'
<1>1. Amount(ToClientSoFar)' = Amount(ToClientSoFar) /\ Held("send")' = Held("send")
  BY DEF Held
<1>2. ssent \in Nat /\ ssent <= ssent'
  <2>1. ssent \in Nat
    BY StreamTypes
  <2>2. CASE e.kind = "record"
    BY ONLY <2>1, <2>2, ssent' = ssent + Len(e.items), Len(e.items) \in Nat
  <2>3. CASE e.kind # "record"
    BY ONLY <2>1, <2>3, ssent' = ssent
  <2> QED
    BY ONLY <2>1, <2>2, <2>3
<1>3. FirstSent(ToClientSoFar, ssent)'
  <2>1. FirstSent(ToClientSoFar, ssent')
    BY <1>2, StreamTypes, SentMore DEF RepliesInv
  <2> QED
    BY <2>1
<1>4. CASE pc = "finished"
  BY <1>3, <1>4 DEF RepliesInv
<1>5. CASE pc # "finished"
  <2>1. /\ Len(down) \in Nat /\ Len(down') = Len(down) + 1 /\ down'[Len(down) + 1] = e
        /\ \A i \in 1 .. Len(down) : down'[i] = down[i]
        /\ DOMAIN down' = 1 .. Len(down') /\ DOMAIN down = 1 .. Len(down)
    BY AppendFacts DEF TypeOK
  <2>2. PICK f \in [0 .. Len(down) -> 0 .. ssent] : Continues(f)
    BY <1>5 DEF RepliesInv
  <2>3. PICK g \in [0 .. Len(down') -> 0 .. ssent'] :
          g[Len(down) + 1] = ssent' /\ \A i \in 0 .. Len(down) : g[i] = f[i]
    <3> DEFINE h == [i \in 0 .. Len(down) + 1 |-> IF i = Len(down) + 1 THEN ssent' ELSE f[i]]
    <3>1. h \in [0 .. Len(down') -> 0 .. ssent']
      BY <1>2, <2>1
    <3>2. h[Len(down) + 1] = ssent' /\ \A i \in 0 .. Len(down) : h[i] = f[i]
      BY <2>1
    <3> QED
      BY <3>1, <3>2
  <2>4. g[0] = Amount(ToClientSoFar) + Held("send") /\ g[Len(down')] = ssent'
    BY <2>1, <2>2, <2>3 DEF Continues
  <2>5. ASSUME NEW i \in 1 .. Len(down)'
        PROVE  IF down'[i].kind = "record"
               THEN /\ g[i] = g[i - 1] + Len(down'[i].items)
                    /\ \A k \in DOMAIN down'[i].items : down'[i].items[k].n = g[i - 1] + k
               ELSE g[i] = g[i - 1]
    <3>1. CASE i \in 1 .. Len(down)
      <4>1. i \in 0 .. Len(down) /\ i - 1 \in 0 .. Len(down) /\ i \in DOMAIN down
        BY <2>1, <3>1
      <4>2. down'[i] = down[i] /\ g[i] = f[i] /\ g[i - 1] = f[i - 1]
        BY <2>1, <2>3, <3>1, <4>1
      <4> QED
        BY <2>2, <4>1, <4>2 DEF Continues
    <3>2. CASE i = Len(down) + 1
      <4>1. down'[i] = e /\ g[i] = ssent' /\ i - 1 = Len(down) /\ g[i - 1] = f[Len(down)]
        BY <2>1, <2>3, <3>2
      <4>2. f[Len(down)] = ssent
        BY <2>2 DEF Continues
      <4> QED
        BY <4>1, <4>2
    <3> QED
      BY <2>1, <3>1, <3>2
  <2>6. Continues(g)'
    <3>1. g[0] = Amount(ToClientSoFar)' + Held("send")' /\ g[Len(down')] = ssent'
      BY <1>1, <2>4
    <3>2. \A i \in DOMAIN down' :
            IF down'[i].kind = "record"
            THEN /\ g[i] = g[i - 1] + Len(down'[i].items)
                 /\ \A k \in DOMAIN down'[i].items : down'[i].items[k].n = g[i - 1] + k
            ELSE g[i] = g[i - 1]
      BY <2>1, <2>5
    <3> QED
      BY <3>1, <3>2 DEF Continues
  <2> QED
    BY <1>1, <1>3, <1>5, <2>3, <2>6 DEF RepliesInv
<1> QED
  BY <1>4, <1>5

-----------------------------------------------------------------------------
(* The client and the server. *)

LEMMA MessageTypes ==
  ASSUME TypeOK
  PROVE  /\ \A n \in Nat : Item(n) \in Items /\ Item(n).n = n /\ IsData(Item(n)) /\ ~IsLine(Item(n))
         /\ \A w \in {"EHLO", "STARTTLS", "ClientHello", "ServerHello", "ticket"} :
              Word(w) \in Words /\ Word(w).kind = w /\ ~IsData(Word(w))
         /\ \A e \in Items : IsData(e) /\ ~IsLine(e) /\ e.n \in Nat
         /\ \A e \in Lines : IsLine(e) /\ ~IsData(e) /\ e.kind = "line"
         /\ \A e \in Words : ~IsLine(e) /\ ~IsData(e)
  BY DEF Item, Items, IsData, IsLine, Word, Words, Lines

LEMMA ClientSendsStep ==
  ASSUME RelayInv, ClientSends
  PROVE  RelayInv'
<1> USE DEF RelayInv
<1>1. /\ pc # "finished" /\ csent < MaxCommands /\ HasRoom(lin)
      /\ csent' = csent + 1 /\ lin' = Append(lin, Item(csent + 1))
      /\ UNCHANGED <<mode, honest, pc, setup, relay, ended, lout, up, down, closed, server, ssent,
                     ticketed, crecv, srecv>>
  BY DEF ClientSends
<1>2. PICK e \in Items : e = Item(csent + 1) /\ e.n = csent + 1
  BY MessageTypes, StreamTypes
<1>3. /\ lin' \in Seq(Items) /\ Len(lin') = Len(lin) + 1 /\ lin'[Len(lin) + 1] = e
      /\ \A i \in 1 .. Len(lin) : lin'[i] = lin[i]
      /\ DOMAIN lin' = 1 .. Len(lin')
  BY <1>1, <1>2, AppendFacts DEF TypeOK
<1>4. TypeOK'
  BY <1>1, <1>3, RelayConstants DEF TypeOK, setup, relay, HasRoom
<1>5. ResponseInv' /\ DialogueInv' /\ RecordInv'
  BY <1>1 DEF ResponseInv, DialogueInv, RecordInv
<1>6. BufferInv' /\ GreetingInv'
  BY <1>1 DEF BufferInv, GreetingInv, HasFinal, ToClientSoFar, setup, relay
<1>7. CommandsInv'
  <2>1. /\ OverTLS' = OverTLS /\ Amount(OverTLS)' = Amount(OverTLS) /\ Held("write")' = Held("write")
    BY <1>1 DEF OverTLS, Held, relay
  <2>2. FirstSent(OverTLS, csent')
    BY <1>1, StreamTypes, SentMore DEF CommandsInv
  <2>3. FirstSent(OverTLS, csent)'
    BY <2>1, <2>2
  <2>4. Held("write") \in Nat
    BY StreamTypes DEF Held
  <2>5. ASSUME NEW i \in DOMAIN lin'
        PROVE  lin'[i].n = Amount(OverTLS) + Held("write") + i
    <3>1. CASE i = Len(lin) + 1
      BY <1>1, <1>2, <1>3, <2>4, <3>1, StreamTypes DEF CommandsInv
    <3>2. CASE i \in 1 .. Len(lin)
      BY <1>1, <1>3, <3>2 DEF CommandsInv, TypeOK
    <3> QED
      BY <1>3, <3>1, <3>2, StreamTypes
  <2>6. Amount(OverTLS)' + Held("write")' + Len(lin)' = csent'
    BY <1>1, <1>3, <2>1, <2>4, StreamTypes DEF CommandsInv
  <2>7. \A i \in DOMAIN lin' : lin'[i].n = Amount(OverTLS)' + Held("write")' + i
    BY <2>1, <2>5
  <2>8. pc' = "write" => \A i \in DOMAIN buffer' : buffer'[i].n = Amount(OverTLS)' + i
    BY <1>1, <2>1 DEF CommandsInv, relay
  <2> QED
    BY <2>3, <2>6, <2>7, <2>8 DEF CommandsInv
<1>8. RepliesInv'
  BY <1>1, RepliesFrame DEF ToClientSoFar, relay
<1> QED
  BY <1>4, <1>5, <1>6, <1>7, <1>8

LEMMA ClientReadsStep ==
  ASSUME RelayInv, ClientReads
  PROVE  RelayInv'
<1> USE DEF RelayInv
<1>1. /\ lout # <<>> /\ lout' = Tail(lout) /\ crecv' = Append(crecv, Head(lout))
      /\ UNCHANGED <<mode, honest, pc, setup, relay, ended, lin, up, down, closed, server, csent,
                     ssent, ticketed, srecv>>
  BY DEF ClientReads
<1>2. PICK T : T = Lines \cup Items
  OBVIOUS
<1>3. crecv \in Seq(T) /\ lout \in Seq(T)
  BY <1>2, StreamTypes
<1>4. /\ Head(lout) \in T /\ lout' \in Seq(T) /\ Len(lout') = Len(lout) - 1 /\ Len(lout) \in Nat
  BY <1>1, <1>3, TailFacts
<1>5. crecv' \in Seq(T)
  BY <1>1, <1>3, <1>4, AppendFacts
<1>6. ToClientSoFar' = ToClientSoFar
  <2>1. Append(crecv, Head(lout)) \o Tail(lout) = crecv \o lout
    BY <1>1, <1>3, HandedOver
  <2> QED
    BY <1>1, <2>1 DEF ToClientSoFar
<1>7. TypeOK'
  BY <1>1, <1>2, <1>4, <1>5, RelayConstants DEF TypeOK, setup, relay
<1>8. ResponseInv' /\ DialogueInv' /\ RecordInv'
  BY <1>1 DEF ResponseInv, DialogueInv, RecordInv
<1>9. BufferInv' /\ GreetingInv'
  BY <1>1, <1>6 DEF BufferInv, GreetingInv, HasFinal, setup, relay
<1>10. CommandsInv'
  <2>1. CASE pc = "finished"
    BY <1>1, <2>1, CommandsFrame DEF OverTLS, relay
  <2>2. CASE pc # "finished"
    BY <1>1, <2>2, CommandsFrame DEF OverTLS, relay
  <2> QED
    BY <2>1, <2>2
<1>11. RepliesInv'
  <2>1. CASE pc = "finished"
    BY <1>1, <1>6, <2>1, RepliesFrame DEF relay
  <2>2. CASE pc # "finished"
    BY <1>1, <1>6, <2>2, RepliesFrame DEF relay
  <2> QED
    BY <2>1, <2>2
<1> QED
  BY <1>7, <1>8, <1>9, <1>10, <1>11

LEMMA PeerClosesStep ==
  ASSUME RelayInv, NEW peer \in {"client", "server"}, PeerCloses(peer)
  PROVE  RelayInv'
<1> USE DEF RelayInv
<1>1. /\ pc # "finished" /\ closed' = closed \cup {peer}
      /\ UNCHANGED <<mode, honest, pc, setup, relay, ended, lin, lout, up, down, server, csent, ssent,
                     ticketed, crecv, srecv>>
  BY DEF PeerCloses
<1>2. TypeOK'
  BY <1>1, RelayConstants DEF TypeOK, setup, relay
<1>3. ResponseInv' /\ DialogueInv' /\ RecordInv'
  BY <1>1 DEF ResponseInv, DialogueInv, RecordInv
<1>4. BufferInv' /\ GreetingInv'
  BY <1>1 DEF BufferInv, GreetingInv, HasFinal, ToClientSoFar, setup, relay
<1>5. CommandsInv' /\ RepliesInv'
  BY <1>1, CommandsFrame, RepliesFrame DEF OverTLS, ToClientSoFar, relay
<1> QED
  BY <1>2, <1>3, <1>4, <1>5

(* Who gets a line in the clear: a thread that reads, or one that ended. *)
LEMMA ServerRepliesStep ==
  ASSUME RelayInv, ServerReplies
  PROVE  RelayInv'
<1> USE DEF RelayInv
<1>1. /\ server.at \in {"reply", "agree"} /\ HasRoom(down)
      /\ UNCHANGED <<mode, honest, pc, setup, relay, ended, lin, lout, up, closed, csent, ssent,
                     ticketed, crecv, srecv>>
  BY DEF ServerReplies, ServerSays
<1>2. PICK last \in BOOLEAN, starttls \in BOOLEAN :
        /\ down' = Append(down, Line(server.code, last, starttls))
        /\ server' = IF ~last THEN server
                     ELSE [at |-> IF server.at = "agree" /\ server.code = 220 THEN "tls" ELSE "wait",
                           code |-> 0]
  BY DEF ServerReplies, ServerSays
<1>3. PICK e \in Lines : /\ e = Line(server.code, last, starttls)
                         /\ e.kind = "line" /\ e.code = server.code /\ e.last = last
  <2>1. server.code \in Nat
    BY DEF TypeOK
  <2>2. Line(server.code, last, starttls) \in Lines
    BY <2>1 DEF Line, Lines
  <2> QED
    BY <2>2 DEF Line
<1>4. /\ down' \in Seq(Lines \cup Words \cup Records) /\ Len(down') = Len(down) + 1
      /\ Len(down) \in Nat /\ down'[Len(down) + 1] = e
      /\ DOMAIN down' = 1 .. Len(down) + 1 /\ DOMAIN down = 1 .. Len(down)
      /\ \A i \in DOMAIN down : down'[i] = down[i]
  <2>1. PICK T : T = Lines \cup Words \cup Records
    OBVIOUS
  <2>2. down \in Seq(T) /\ e \in T
    BY <2>1 DEF TypeOK
  <2>3. /\ Append(down, e) \in Seq(T) /\ Len(Append(down, e)) = Len(down) + 1
        /\ Append(down, e)[Len(down) + 1] = e
        /\ \A i \in 1 .. Len(down) : Append(down, e)[i] = down[i]
    BY ONLY <2>2, AppendFacts
  <2> QED
    BY <1>2, <1>3, <2>1, <2>2, <2>3
<1>5. /\ server' \in [at : {"reply", "agree", "wait", "tls", "open"}, code : Nat]
      /\ ~last => server' = server
      /\ last => server'.at \in {"wait", "tls"}
      /\ last /\ server'.at = "tls" => server.at = "agree"
      /\ last /\ server'.at = "wait" /\ server.at = "agree" => server.code # 220
  BY <1>1, <1>2 DEF TypeOK
<1>6. TypeOK'
  BY <1>1, <1>4, <1>5, RelayConstants DEF TypeOK, setup, relay, HasRoom
<1>7. pc \in Clear \cup {"finished"} /\ server'.at # "open"
  BY <1>1, <1>5 DEF TypeOK, DialogueInv, Clear, Setup
<1>8. ResponseInv'
  <2>1. ASSUME NEW i \in DOMAIN down', pc \in Clear
        PROVE  /\ IsLine(down'[i]) /\ (down'[i].last => i = Len(down') /\ last)
               /\ pc = "agreed" => down'[i].code = server.code
    <3>1. CASE i = Len(down) + 1
      BY <1>3, <1>4, <3>1 DEF IsLine
    <3>2. CASE i \in DOMAIN down
      BY <1>1, <1>4, <2>1, <3>2 DEF ResponseInv, DialogueInv
    <3> QED
      BY <1>4, <3>1, <3>2
  <2> QED
    BY <1>1, <1>5, <2>1 DEF ResponseInv, DialogueInv
<1>9. DialogueInv'
  BY <1>1, <1>5, <1>7 DEF DialogueInv, Clear, Relaying
<1>10. RecordInv'
  <2>1. \A i \in DOMAIN down' : down'[i].kind = "record" => Len(down'[i].items) <= Buffer
    BY <1>3, <1>4 DEF RecordInv
  <2> QED
    BY <1>1, <1>7, <2>1 DEF RecordInv, Clear, Relaying
<1>11. BufferInv' /\ GreetingInv'
  BY <1>1 DEF BufferInv, GreetingInv, HasFinal, ToClientSoFar, setup, relay
<1>12. CommandsInv'
  <2>1. CASE pc = "finished"
    BY <1>1, <2>1, CommandsFrame DEF OverTLS, relay
  <2>2. CASE pc # "finished"
    BY <1>1, <2>2, CommandsFrame DEF OverTLS, relay
  <2> QED
    BY <2>1, <2>2
<1>13. RepliesInv'
  <2>1. ToClientSoFar' = ToClientSoFar /\ ssent' = ssent /\ pc' = pc /\ buffer' = buffer /\ ssent \in Nat
    BY <1>1, StreamTypes DEF ToClientSoFar, relay
  <2> QED
    BY <1>2, <1>3, <2>1, RepliesSaid
<1> QED
  BY <1>6, <1>8, <1>9, <1>10, <1>11, <1>12, <1>13

LEMMA ServerSendsStep ==
  ASSUME RelayInv, ServerSends
  PROVE  RelayInv'
<1> USE DEF RelayInv
<1>1. /\ server.at = "open" /\ HasRoom(down) /\ pc # "finished"
      /\ UNCHANGED <<mode, honest, pc, setup, relay, ended, lin, lout, up, closed, server, csent, crecv,
                     srecv>>
  BY DEF ServerSends, ServerSays
<1>2. PICK e \in Words \cup Records :
        /\ down' = Append(down, e) /\ e.kind \in {"record", "ticket"}
        /\ e.kind = "record" => e.items \in Seq(Items) /\ Len(e.items) <= Buffer
        /\ IF e.kind = "record"
           THEN ssent' = ssent + Len(e.items) /\ \A k \in DOMAIN e.items : e.items[k].n = ssent + k
           ELSE ssent' = ssent
        /\ ssent' \in 0 .. MaxReplies /\ ticketed' \in BOOLEAN
  <2>1. CASE \E n \in 1 .. Buffer :
               /\ ssent + n <= MaxReplies
               /\ ServerSays(Record([i \in 1 .. n |-> Item(ssent + i)]))
               /\ ssent' = ssent + n /\ UNCHANGED ticketed
    <3>1. PICK n \in 1 .. Buffer :
               /\ ssent + n <= MaxReplies
               /\ ServerSays(Record([i \in 1 .. n |-> Item(ssent + i)]))
               /\ ssent' = ssent + n /\ UNCHANGED ticketed
      BY <2>1
    <3>2. PICK items : items = [i \in 1 .. n |-> Item(ssent + i)]
      OBVIOUS
    <3>3. n \in Nat /\ n <= Buffer
      BY RelayConstants
    <3>4. \A i \in 1 .. n : items[i] \in Items /\ items[i].n = ssent + i
      BY <3>2, <3>3, MessageTypes, StreamTypes
    <3>5. items \in Seq(Items) /\ Len(items) = n /\ DOMAIN items = 1 .. n
      BY <3>2, <3>3, <3>4
    <3>6. Record(items) \in Records /\ Record(items).kind = "record" /\ Record(items).items = items
      BY <3>5 DEF Record, Records
    <3>7. down' = Append(down, Record(items))
      BY <3>1, <3>2 DEF ServerSays
    <3>8. ssent' \in 0 .. MaxReplies /\ ticketed' \in BOOLEAN
      BY <3>1, <3>3, StreamTypes DEF TypeOK
    <3> QED
      BY <3>1, <3>3, <3>4, <3>5, <3>6, <3>7, <3>8
  <2>2. CASE ~ticketed /\ ServerSays(Word("ticket")) /\ ticketed' = TRUE /\ UNCHANGED ssent
    <3>1. Word("ticket") \in Words /\ Word("ticket").kind = "ticket"
      BY MessageTypes
    <3>2. down' = Append(down, Word("ticket")) /\ ssent' = ssent /\ ticketed' = TRUE
      BY <2>2 DEF ServerSays
    <3>3. ssent \in 0 .. MaxReplies
      BY DEF TypeOK
    <3> QED
      BY <3>1, <3>2, <3>3
  <2> QED
    BY <2>1, <2>2 DEF ServerSends
<1>3. /\ down' \in Seq(Lines \cup Words \cup Records) /\ Len(down') = Len(down) + 1
      /\ Len(down) \in Nat /\ down'[Len(down) + 1] = e
      /\ DOMAIN down' = 1 .. Len(down) + 1 /\ DOMAIN down = 1 .. Len(down)
      /\ \A i \in DOMAIN down : down'[i] = down[i]
  <2>1. PICK T : T = Lines \cup Words \cup Records
    OBVIOUS
  <2>2. down \in Seq(T) /\ e \in T
    BY <2>1 DEF TypeOK
  <2>3. /\ Append(down, e) \in Seq(T) /\ Len(Append(down, e)) = Len(down) + 1
        /\ Append(down, e)[Len(down) + 1] = e
        /\ \A i \in 1 .. Len(down) : Append(down, e)[i] = down[i]
    BY ONLY <2>2, AppendFacts
  <2> QED
    BY <1>2, <2>1, <2>2, <2>3
<1>4. TypeOK'
  BY <1>1, <1>2, <1>3, RelayConstants DEF TypeOK, setup, relay, HasRoom
<1>5. pc \notin Clear /\ pc # "hello"
  BY <1>1 DEF DialogueInv
<1>6. ResponseInv' /\ DialogueInv'
  BY <1>1, <1>5 DEF ResponseInv, DialogueInv
<1>7. RecordInv'
  <2>1. pc = "verify" => down # <<>>
    BY <1>1 DEF RecordInv
  <2>2. down # <<>> => Len(down) >= 1
    BY <1>3, EmptySeq DEF TypeOK
  <2> QED
    BY <1>1, <1>2, <1>3, <2>1, <2>2 DEF RecordInv
<1>8. BufferInv' /\ GreetingInv'
  BY <1>1 DEF BufferInv, GreetingInv, HasFinal, ToClientSoFar, setup, relay
<1>9. CommandsInv'
  BY <1>1, CommandsFrame DEF OverTLS, relay
<1>10. RepliesInv'
  <2>1. ToClientSoFar' = ToClientSoFar /\ pc' = pc /\ buffer' = buffer /\ ssent' \in Nat
    BY <1>1, <1>2, RelayConstants DEF ToClientSoFar, relay
  <2>2. Len(e.items) \in Nat \/ e.kind # "record"
    BY <1>2
  <2> QED
    BY <1>2, <2>1, <2>2, RepliesSaid
<1> QED
  BY <1>4, <1>6, <1>7, <1>8, <1>9, <1>10

LEMMA ServerReadsStep ==
  ASSUME RelayInv, ServerReads
  PROVE  RelayInv'
<1> USE DEF RelayInv
<1>1. /\ up # <<>> /\ up' = Tail(up)
      /\ UNCHANGED <<mode, honest, pc, setup, relay, ended, lin, lout, closed, csent, ssent, ticketed,
                     crecv>>
  BY DEF ServerReads
<1>2. PICK T : T = Words \cup Items
  OBVIOUS
<1>3. srecv \in Seq(T) /\ up \in Seq(T)
  BY <1>2, StreamTypes
<1>4. /\ Head(up) \in T /\ Head(up) = up[1] /\ up' \in Seq(T) /\ Len(up) \in Nat /\ Len(up) >= 1
      /\ Len(up') = Len(up) - 1 /\ DOMAIN up' = 1 .. Len(up) - 1 /\ DOMAIN up = 1 .. Len(up)
      /\ \A i \in 1 .. Len(up) - 1 : up'[i] = up[i + 1]
  BY <1>1, <1>3, TailFacts
<1>5. ToClientSoFar' = ToClientSoFar /\ ssent' = ssent /\ pc' = pc /\ buffer' = buffer
  BY <1>1 DEF ToClientSoFar, relay
<1>6. GreetingInv'
  BY <1>1, <1>5 DEF GreetingInv, HasFinal, setup
<1>7. BufferInv'
  BY <1>1 DEF BufferInv, setup, relay
<1>8. ASSUME server.at = "open"
      PROVE  RelayInv'
  <2>1. srecv' = Append(srecv, Head(up)) /\ UNCHANGED <<down, server>>
    BY <1>8 DEF ServerReads
  <2>2. srecv' \in Seq(T)
    BY <1>3, <1>4, <2>1, AppendFacts
  <2>3. OverTLS' = OverTLS
    <3>1. Append(srecv, Head(up)) \o Tail(up) = srecv \o up
      BY <1>1, <1>3, HandedOver
    <3> QED
      BY <1>1, <2>1, <3>1 DEF OverTLS
  <2>4. TypeOK'
    BY <1>1, <1>2, <1>4, <2>1, <2>2, RelayConstants DEF TypeOK, setup, relay
  <2>5. ResponseInv' /\ DialogueInv' /\ RecordInv'
    BY <1>1, <1>8, <2>1 DEF ResponseInv, DialogueInv, RecordInv
  <2>6. CommandsInv'
    <3>1. CASE pc = "finished"
      BY <1>1, <1>5, <2>3, <3>1, CommandsFrame
    <3>2. CASE pc # "finished"
      BY <1>1, <1>5, <2>3, <3>2, CommandsFrame
    <3> QED
      BY <3>1, <3>2
  <2>7. RepliesInv'
    <3>1. CASE pc = "finished"
      BY <1>5, <3>1, RepliesFrame
    <3>2. CASE pc # "finished"
      BY <1>5, <2>1, <3>2, RepliesFrame
    <3> QED
      BY <3>1, <3>2
  <2> QED
    BY <1>6, <1>7, <2>4, <2>5, <2>6, <2>7
<1>9. ASSUME server.at # "open"
      PROVE  RelayInv'
  <2>1. srecv = <<>> /\ srecv' = <<>> /\ \A i \in DOMAIN up : ~IsData(up[i])
    BY <1>9 DEF ServerReads, DialogueInv
  <2>2. \A i \in DOMAIN up' : ~IsData(up'[i])
    BY <1>4, <2>1
  <2>3. \/ /\ server.at = "wait" /\ Head(up).kind \in {"EHLO", "STARTTLS"} /\ down' = down
           /\ Head(up).kind = "EHLO" => server'.at = "reply"
           /\ Head(up).kind = "STARTTLS" => server'.at = "agree"
        \/ /\ server.at = "tls" /\ server'.at = "open" /\ HasRoom(down)
           /\ down' = Append(down, Word("ServerHello"))
    BY <1>9 DEF ServerReads, ServerSays, TypeOK
  <2>4. server' \in [at : {"reply", "agree", "wait", "tls", "open"}, code : Nat]
    BY <1>9 DEF ServerReads, TypeOK
  <2>5. PICK e \in Words : e = Word("ServerHello") /\ e.kind = "ServerHello"
    BY MessageTypes
  <2>6. server.at = "tls" =>
          /\ down' \in Seq(Lines \cup Words \cup Records) /\ Len(down') = Len(down) + 1
          /\ Len(down) \in Nat /\ down'[Len(down) + 1] = e
          /\ DOMAIN down' = 1 .. Len(down) + 1 /\ DOMAIN down = 1 .. Len(down)
          /\ \A i \in DOMAIN down : down'[i] = down[i]
    <3>1. PICK S : S = Lines \cup Words \cup Records
      OBVIOUS
    <3>2. down \in Seq(S) /\ e \in S
      BY <3>1 DEF TypeOK
    <3>3. /\ Append(down, e) \in Seq(S) /\ Len(Append(down, e)) = Len(down) + 1
          /\ Append(down, e)[Len(down) + 1] = e
          /\ \A i \in 1 .. Len(down) : Append(down, e)[i] = down[i]
      BY ONLY <3>2, AppendFacts
    <3> QED
      BY <2>3, <2>5, <3>1, <3>2, <3>3
  <2>7. TypeOK'
    <3>1. down' \in Seq(Lines \cup Words \cup Records) /\ Len(down') <= Capacity
      BY <2>3, <2>6, RelayConstants DEF TypeOK, HasRoom
    <3>2. srecv' \in Seq(Words \cup Items)
      BY <2>1
    <3>3. up' \in Seq(Words \cup Items) /\ Len(up') <= Capacity
      BY <1>2, <1>4, RelayConstants DEF TypeOK
    <3> QED
      BY <1>1, <2>4, <3>1, <3>2, <3>3 DEF TypeOK, setup, relay
  <2>8. CommandsInv'
    <3>1. Amount(OverTLS) = 0 /\ Amount(OverTLS)' = 0 /\ FirstSent(OverTLS, csent)'
      <4>1. OverTLS = up /\ OverTLS' = up'
        BY <1>3, <1>4, <2>1, ConcatEmptySeq DEF OverTLS
      <4>2. Amount(up) = 0 /\ Amount(up') = 0 /\ DataIn(up') = {}
        BY <1>3, <1>4, <2>1, <2>2, NoData
      <4>3. FirstSent(up', csent')
        BY <1>1, <4>2, StreamTypes DEF FirstSent
      <4> QED
        BY <4>1, <4>2, <4>3
    <3>2. Held("write")' = Held("write")
      BY <1>5 DEF Held
    <3> QED
      BY <1>1, <1>5, <3>1, <3>2 DEF CommandsInv
  <2>9. RepliesInv'
    <3>1. CASE server.at = "tls"
      BY <1>5, <2>3, <2>5, <3>1, StreamTypes, RepliesSaid
    <3>2. CASE down' = down /\ pc # "finished"
      BY <1>5, <3>2, RepliesFrame
    <3>3. CASE pc = "finished"
      BY <1>5, <3>3, RepliesFrame
    <3> QED
      BY <2>3, <3>1, <3>2, <3>3
  <2>10. pc \notin Relaying \cup {"welcome", "hello"}
    BY <1>1, <1>9 DEF DialogueInv
  <2>11. CASE pc \in Clear
    <3>1. /\ server.at = "wait" /\ down = <<>> /\ down' = <<>> /\ pc \in {"capabilities", "agreed"}
          /\ Len(up') = 0
          /\ server'.at = (IF pc = "capabilities" THEN "reply" ELSE "agree")
      BY <1>1, <1>4, <2>3, <2>11 DEF DialogueInv, Clear
    <3>2. up' = <<>>
      BY <1>4, <3>1, EmptySeq
    <3>3. ResponseInv' /\ RecordInv'
      BY <1>5, <3>1 DEF ResponseInv, RecordInv, Clear, Relaying
    <3>4. DialogueInv'
      BY <1>5, <2>1, <2>2, <3>1, <3>2 DEF DialogueInv, Clear, Relaying
    <3> QED
      BY <1>6, <1>7, <2>7, <2>8, <2>9, <3>3, <3>4
  <2>12. CASE pc = "verify"
    <3>1. server.at = "tls" /\ server'.at = "open" /\ Len(down) = 0
      BY <2>3, <2>12, EmptySeq DEF DialogueInv, RecordInv
    <3>2. ResponseInv' /\ DialogueInv'
      BY <1>5, <2>12, <3>1 DEF ResponseInv, DialogueInv, Clear, Relaying
    <3>3. DOMAIN down' = {1} /\ down'[1].kind = "ServerHello" /\ down' # <<>>
      BY <2>5, <2>6, <3>1, EmptySeq
    <3>4. RecordInv'
      BY <1>5, <2>12, <3>1, <3>3 DEF RecordInv, Relaying
    <3> QED
      BY <1>6, <1>7, <2>7, <2>8, <2>9, <3>2, <3>4
  <2>13. CASE pc = "finished"
    <3>1. ResponseInv' /\ DialogueInv'
      BY <1>5, <2>1, <2>2, <2>13 DEF ResponseInv, DialogueInv, Clear, Relaying
    <3>2. RecordInv'
      BY <1>5, <2>3, <2>5, <2>6, <2>13 DEF RecordInv, Relaying
    <3> QED
      BY <1>6, <1>7, <2>7, <2>8, <2>9, <3>1, <3>2
  <2> QED
    BY <2>10, <2>11, <2>12, <2>13 DEF TypeOK, Setup, Clear
<1> QED
  BY <1>8, <1>9

-----------------------------------------------------------------------------
(* The thread: the dialogue and the upgrade. *)

LEMMA TakenFromServer ==
  ASSUME TypeOK, down # <<>>, down' = Tail(down)
  PROVE  /\ Head(down) \in Lines \cup Words \cup Records /\ Head(down) = down[1]
         /\ down' \in Seq(Lines \cup Words \cup Records)
         /\ Len(down) \in Nat /\ Len(down) >= 1 /\ Len(down') = Len(down) - 1
         /\ DOMAIN down' = 1 .. Len(down) - 1 /\ DOMAIN down = 1 .. Len(down)
         /\ \A i \in 1 .. Len(down) - 1 : down'[i] = down[i + 1]
         /\ Len(down) = 1 => down' = <<>>
<1>1. PICK T : T = Lines \cup Words \cup Records
  OBVIOUS
<1>2. down \in Seq(T)
  BY <1>1 DEF TypeOK
<1>3. /\ Head(down) \in T /\ Head(down) = down[1] /\ Tail(down) \in Seq(T)
      /\ Len(down) \in Nat /\ Len(down) >= 1 /\ Len(Tail(down)) = Len(down) - 1
      /\ \A i \in 1 .. Len(down) - 1 : Tail(down)[i] = down[i + 1]
  BY ONLY <1>2, down # <<>>, TailFacts
<1>4. Len(Tail(down)) = 0 => Tail(down) = <<>>
  BY ONLY <1>3, EmptySeq
<1> QED
  BY <1>1, <1>2, <1>3, <1>4

(* An ended thread says and takes nothing. *)
LEMMA FinishStep ==
  ASSUME RelayInv, pc' = "finished", TypeOK',
         UNCHANGED <<mode, buffer, ready, lin, lout, up, peers>>,
         mode = "tls" => greeting' = <<>>,
         down' = down \/ (down # <<>> /\ down' = Tail(down))
  PROVE  RelayInv'
<1> USE DEF RelayInv, peers
<1>1. ResponseInv' /\ DialogueInv'
  BY DEF ResponseInv, DialogueInv, Clear, Relaying
<1>2. RecordInv'
  <2>1. \A i \in DOMAIN down' : down'[i].kind = "record" => Len(down'[i].items) <= Buffer
    <3>1. CASE down' = down
      BY <3>1 DEF RecordInv
    <3>2. CASE down # <<>> /\ down' = Tail(down)
      <4>1. /\ Len(down) \in Nat /\ DOMAIN down' = 1 .. Len(down) - 1 /\ DOMAIN down = 1 .. Len(down)
            /\ \A i \in 1 .. Len(down) - 1 : down'[i] = down[i + 1]
        BY <3>2, TakenFromServer
      <4>2. \A i \in DOMAIN down' : i + 1 \in DOMAIN down /\ down'[i] = down[i + 1]
        BY ONLY <4>1
      <4> QED
        BY <4>2 DEF RecordInv
    <3> QED
      BY <3>1, <3>2
  <2> QED
    BY <2>1 DEF RecordInv, Relaying
<1>3. BufferInv'
  BY DEF BufferInv, Setup, Clear
<1>4. GreetingInv'
  BY DEF GreetingInv, HasFinal, ToClientSoFar, Setup, Relaying
<1>5. CommandsInv' /\ RepliesInv'
  BY CommandsFrame, RepliesFrame DEF OverTLS, ToClientSoFar
<1> QED
  BY <1>1, <1>2, <1>3, <1>4, <1>5

(* The thread ends at a limit, an end or an error. *)
LEMMA EndStep ==
  ASSUME RelayInv, ResponseTooLong \/ PeerGone \/ RCSetSocketTimeouts
  PROVE  RelayInv'
<1>1. /\ pc' = "finished" /\ ended' \in {"too long", "server closed", "send failed", "time limit"}
      /\ UNCHANGED <<mode, honest, setup, relay, lin, lout, up, down, peers>>
  BY DEF ResponseTooLong, PeerGone, RCSetSocketTimeouts, Gives
<1>2. TypeOK'
  BY <1>1, RelayConstants DEF RelayInv, TypeOK, setup, relay, peers
<1>3. mode = "tls" => greeting' = <<>>
  BY <1>1 DEF RelayInv, BufferInv, setup
<1> QED
  BY <1>1, <1>2, <1>3, FinishStep DEF relay

LEMMA ReadResponseStep ==
  ASSUME RelayInv, RCReadSMTPResponse
  PROVE  RelayInv'
<1> USE DEF RelayInv
<1>1. /\ Reading /\ used < ResponseLimit /\ down # <<>> /\ IsLine(Head(down)) /\ down' = Tail(down)
      /\ UNCHANGED <<mode, honest, relay, lin, lout, up, peers>>
  BY DEF RCReadSMTPResponse
<1>2. PICK line \in Lines : line = Head(down) /\ line = down[1]
  BY <1>1, TakenFromServer DEF IsLine, Words, Records
<1>3. /\ greeting' = IF pc = "greeting" THEN Append(greeting, line) ELSE greeting
      /\ offered' = (offered \/ (pc = "capabilities" /\ line.starttls))
      /\ used' = IF IsFinal(line) THEN 0 ELSE used + 1
  BY <1>2 DEF RCReadSMTPResponse, Counted
<1>4. \/ ~IsFinal(line) /\ pc' = pc /\ ended' = ended
      \/ IsFinal(line) /\ pc = "capabilities" /\ pc' = "finished" /\ ended' = "refused"
      \/ /\ IsFinal(line) /\ ended' = ended
         /\ pc' = CASE pc = "greeting" -> "ehlo" [] pc = "capabilities" -> "upgrade"
                    [] OTHER -> "hello"
  BY <1>2 DEF RCReadSMTPResponse
<1>5. pc \in {"greeting", "capabilities", "agreed"} /\ pc \in Clear /\ mode = "starttls"
  BY <1>1 DEF Reading, Clear, BufferInv, TypeOK
<1>6. /\ greeting' \in Seq(Lines) /\ Len(greeting') <= ResponseLimit
      /\ pc = "greeting" => /\ Len(greeting') = used + 1 /\ greeting' # <<>>
                            /\ greeting'[Len(greeting')] = line
  <2>1. CASE pc # "greeting"
    BY <1>3, <2>1 DEF TypeOK
  <2>2. CASE pc = "greeting"
    <3>1. /\ greeting \in Seq(Lines) /\ Len(greeting) = used /\ used \in Nat
          /\ greeting' = Append(greeting, line)
      BY <1>3, <2>2, RelayConstants DEF TypeOK, BufferInv
    <3>2. /\ greeting' \in Seq(Lines) /\ Len(greeting') = used + 1 /\ greeting' # <<>>
          /\ greeting'[Len(greeting')] = line
      BY <3>1, AppendFacts
    <3> QED
      BY <1>1, <3>1, <3>2, RelayConstants
  <2> QED
    BY <2>1, <2>2
<1>7. /\ down' \in Seq(Lines \cup Words \cup Records) /\ Len(down) \in Nat /\ Len(down) >= 1
      /\ Len(down') = Len(down) - 1 /\ DOMAIN down' = 1 .. Len(down) - 1
      /\ DOMAIN down = 1 .. Len(down) /\ \A i \in 1 .. Len(down) - 1 : down'[i] = down[i + 1]
  BY <1>1, TakenFromServer
<1>8. TypeOK'
  <2>1. used' \in 0 .. ResponseLimit /\ offered' \in BOOLEAN
    BY <1>1, <1>2, <1>3, RelayConstants DEF TypeOK, Lines
  <2>2. pc' \in Setup \cup Relaying \cup {"finished"} /\ ((pc' = "finished") = (ended' # "no"))
        /\ pc' # "select"
    BY <1>4, <1>5 DEF TypeOK, Setup
  <2>3. Len(down') <= Capacity
    BY <1>7, RelayConstants DEF TypeOK
  <2> QED
    BY <1>1, <1>6, <1>7, <2>1, <2>2, <2>3 DEF TypeOK, relay, peers
<1>9. CASE pc' = "finished"
  <2>1. UNCHANGED <<mode, buffer, ready, lin, lout, up, peers>>
    BY <1>1 DEF relay
  <2> QED
    BY <1>1, <1>5, <1>8, <1>9, <2>1, FinishStep
<1>10. CASE pc' # "finished"
  <2>1. line.last => Len(down) = 1 /\ down' = <<>>
    <3>1. line.last => Len(down) = 1
      BY <1>2, <1>5, <1>7 DEF ResponseInv
    <3> QED
      BY <1>1, <3>1, TakenFromServer
  <2>2. \/ ~IsFinal(line) /\ pc' = pc
        \/ IsFinal(line) /\ pc = "greeting" /\ pc' = "ehlo"
        \/ IsFinal(line) /\ pc = "capabilities" /\ pc' = "upgrade"
        \/ IsFinal(line) /\ pc = "agreed" /\ pc' = "hello"
    BY <1>4, <1>5, <1>10
  <2>3. IsFinal(line) => line.last /\ line.code = (IF pc = "capabilities" THEN 250 ELSE 220)
    BY DEF IsFinal, Expected
  <2>4. up = <<>> /\ up' = <<>>
    BY <1>1, <1>5 DEF DialogueInv
  <2>5. server' = server /\ srecv' = srecv /\ mode' = mode /\ buffer' = buffer
    BY <1>1 DEF peers, relay
  <2>6. IsFinal(line) => server.at = (IF pc = "agreed" THEN "tls" ELSE "wait")
    <3>1. line.last => server.at \notin {"reply", "agree"}
      BY <1>2, <1>5, <1>7 DEF ResponseInv
    <3>2. line.code = 220 /\ pc = "agreed" => server.at # "wait"
      BY <1>2, <1>5, <1>7 DEF ResponseInv
    <3>3. pc # "agreed" => server.at # "tls"
      BY <1>5 DEF DialogueInv
    <3>4. server.at \in {"reply", "agree", "wait", "tls"}
      BY <1>5 DEF DialogueInv, TypeOK
    <3> QED
      BY <1>5, <2>3, <3>1, <3>2, <3>3, <3>4
  <2>7. ResponseInv'
    <3>1. CASE pc' = pc
      BY <1>2, <1>5, <1>7, <2>5, <3>1 DEF ResponseInv
    <3>2. CASE pc' # pc
      BY <2>1, <2>2, <2>3, <3>2 DEF ResponseInv
    <3> QED
      BY <3>1, <3>2
  <2>8. DialogueInv'
    <3>1. CASE pc' = pc
      BY <1>5, <2>4, <2>5, <3>1 DEF DialogueInv, Clear, Relaying
    <3>2. CASE pc' # pc
      BY <1>5, <2>1, <2>2, <2>3, <2>4, <2>5, <2>6, <3>2 DEF DialogueInv, Clear, Relaying
    <3> QED
      BY <3>1, <3>2
  <2>9. RecordInv'
    <3>1. pc' \in Clear \cup {"hello"}
      BY <1>5, <2>2 DEF Clear
    <3>2. \A i \in DOMAIN down' : i + 1 \in DOMAIN down /\ down'[i] = down[i + 1]
      BY <1>7
    <3> QED
      BY <3>1, <3>2 DEF RecordInv, Clear, Relaying
  <2>10. BufferInv'
    BY <1>3, <1>5, <1>6, <2>2, <2>5 DEF BufferInv, Setup
  <2>11. ToClientSoFar' = ToClientSoFar /\ Amount(ToClientSoFar)' = Amount(ToClientSoFar)
    BY <1>1 DEF ToClientSoFar, peers
  <2>12. GreetingInv'
    <3>1. ToClientSoFar = <<>> /\ pc' \in Setup \ {"welcome"} /\ (HasFinal' <=> HasFinal)
      BY <1>5, <2>2, <2>11 DEF GreetingInv, Setup, HasFinal
    <3>2. pc' # "greeting" => greeting' # <<>> /\ greeting'[Len(greeting')].last
      <4>1. CASE pc = "greeting"
        BY <1>6, <2>2, <2>3, <4>1
      <4>2. CASE pc # "greeting"
        BY <1>3, <1>5, <4>2 DEF GreetingInv, Setup
      <4> QED
        BY <4>1, <4>2
    <3> QED
      BY <2>5, <2>11, <3>1, <3>2 DEF GreetingInv, Setup, Relaying
  <2>13. CommandsInv'
    BY <1>1, <1>5, <2>2, CommandsFrame DEF OverTLS, peers, Clear
  <2>14. RepliesInv'
    <3>1. Head(down).kind # "record"
      BY <1>1 DEF IsLine
    <3> QED
      BY <1>1, <1>5, <2>2, <2>11, <3>1, RepliesTaken DEF peers
  <2> QED
    BY <1>8, <2>7, <2>8, <2>9, <2>10, <2>12, <2>13, <2>14
<1> QED
  BY <1>9, <1>10

(* One of our words, at the right time. *)
LEMMA SpeaksStep ==
  ASSUME RelayInv, RCPrepareSMTPStartTLS
  PROVE  RelayInv'
<1> USE DEF RelayInv
<1>1. PICK from \in {"ehlo", "upgrade", "hello"}, word \in {"EHLO", "STARTTLS", "ClientHello"},
           next \in {"capabilities", "agreed", "verify"} :
        /\ pc = from /\ HasRoom(up) /\ up' = Append(up, Word(word)) /\ pc' = next
        /\ UNCHANGED <<mode, honest, setup, relay, ended, lin, lout, down, peers>>
        /\ \/ from = "ehlo" /\ word = "EHLO" /\ next = "capabilities"
           \/ from = "upgrade" /\ word = "STARTTLS" /\ next = "agreed"
           \/ from = "hello" /\ word = "ClientHello" /\ next = "verify"
  BY DEF RCPrepareSMTPStartTLS, Speaks
<1>2. PICK e \in Words : e = Word(word) /\ e.kind = word /\ ~IsData(e)
  BY MessageTypes
<1>3. up = <<>> /\ down = <<>>
  BY <1>1 DEF DialogueInv, Clear
<1>4. /\ up' \in Seq(Words \cup Items) /\ Len(up') = 1 /\ up' # <<>> /\ DOMAIN up' = {1}
      /\ up'[1] = e /\ Head(up') = e
  <2>1. PICK T : T = Words \cup Items
    OBVIOUS
  <2>2. up \in Seq(T) /\ e \in T
    BY <2>1, StreamTypes
  <2>3. /\ Append(up, e) \in Seq(T) /\ Len(Append(up, e)) = Len(up) + 1 /\ Append(up, e) # <<>>
        /\ Append(up, e)[Len(up) + 1] = e
    BY ONLY <2>2, AppendFacts
  <2>4. Head(Append(up, e)) = Append(up, e)[1]
    BY ONLY <2>3, TailFacts
  <2> QED
    BY <1>1, <1>2, <1>3, <2>1, <2>2, <2>3, <2>4
<1>5. TypeOK'
  <2>1. pc' \in Setup /\ pc' \notin {"select", "finished"} /\ pc # "finished"
    BY <1>1 DEF Setup
  <2>2. Len(up') <= Capacity
    BY <1>4, RelayConstants
  <2> QED
    BY <1>1, <1>4, <2>1, <2>2 DEF TypeOK, setup, relay, peers
<1>6. server' = server /\ down' = down /\ srecv' = srecv /\ mode' = mode
  BY <1>1 DEF peers
<1>7. ResponseInv'
  BY <1>3, <1>6 DEF ResponseInv
<1>8. DialogueInv'
  BY <1>1, <1>2, <1>3, <1>4, <1>6 DEF DialogueInv, Clear, Relaying
<1>9. RecordInv'
  BY <1>1, <1>3, <1>6 DEF RecordInv, Relaying, DialogueInv
<1>10. BufferInv' /\ GreetingInv'
  BY <1>1, <1>6 DEF BufferInv, GreetingInv, HasFinal, ToClientSoFar, Setup, Clear, Relaying, setup,
     relay, peers
<1>11. CommandsInv'
  <2>1. /\ OverTLS' = Append(OverTLS, e) /\ Amount(OverTLS)' = Amount(OverTLS)
        /\ csent' = csent /\ lin' = lin
    BY <1>1, <1>2, <1>6, UpGrows, StreamTypes DEF peers
  <2>2. FirstSent(Append(OverTLS, e), csent)
    <3>1. PICK T : T = Words \cup Items
      OBVIOUS
    <3>2. OverTLS \in Seq(T) /\ e \in T /\ csent \in Nat /\ csent <= csent
      BY <3>1, StreamTypes
    <3>3. FirstSent(OverTLS, csent) /\ ~IsData(e)
      BY <1>2 DEF CommandsInv
    <3> QED
      BY ONLY <3>2, <3>3, SentAppend
  <2>3. Held("write")' = Held("write")
    BY <1>1 DEF Held
  <2>4. FirstSent(OverTLS, csent)'
    BY <2>1, <2>2
  <2> QED
    BY <1>1, <2>1, <2>3, <2>4 DEF CommandsInv
<1>12. RepliesInv'
  BY <1>1, <1>6, RepliesFrame DEF ToClientSoFar, peers
<1> QED
  BY <1>5, <1>7, <1>8, <1>9, <1>10, <1>11, <1>12

LEMMA ConnectStep ==
  ASSUME RelayInv, RCConnectTLS
  PROVE  RelayInv'
<1> USE DEF RelayInv
<1>1. /\ pc = "verify" /\ down # <<>> /\ down' = Tail(down)
      /\ UNCHANGED <<mode, honest, setup, relay, lin, lout, up, peers>>
  BY DEF RCConnectTLS
<1>2. \/ Head(down).kind = "ServerHello" /\ pc' = "welcome" /\ ended' = ended
      \/ pc' = "finished" /\ ended' = "not verified"
  BY DEF RCConnectTLS, Gives
<1>3. /\ Head(down) = down[1] /\ down' \in Seq(Lines \cup Words \cup Records) /\ Len(down) \in Nat
      /\ Len(down') = Len(down) - 1 /\ DOMAIN down' = 1 .. Len(down) - 1
      /\ DOMAIN down = 1 .. Len(down) /\ \A i \in 1 .. Len(down) - 1 : down'[i] = down[i + 1]
  BY <1>1, TakenFromServer
<1>4. TypeOK'
  <2>1. pc' \in Setup \cup {"finished"} /\ pc' # "select" /\ ((pc' = "finished") = (ended' # "no"))
    BY <1>1, <1>2 DEF Setup, TypeOK
  <2>2. Len(down') <= Capacity
    BY <1>3, RelayConstants DEF TypeOK
  <2> QED
    BY <1>1, <1>3, <2>1, <2>2 DEF TypeOK, setup, relay, peers
<1>5. CASE pc' = "finished"
  BY <1>1, <1>4, <1>5, FinishStep DEF BufferInv, setup, relay
<1>6. CASE pc' = "welcome"
  <2>1. server.at = "open"
    BY <1>1 DEF DialogueInv, RecordInv
  <2>2. ResponseInv' /\ DialogueInv'
    BY <1>1, <1>6, <2>1 DEF ResponseInv, DialogueInv, Clear, Relaying, peers
  <2>3. RecordInv'
    <3>1. \A i \in DOMAIN down' : i + 1 \in DOMAIN down /\ i + 1 # 1 /\ down'[i] = down[i + 1]
      BY ONLY <1>3
    <3> QED
      BY <1>1, <1>6, <3>1 DEF RecordInv, Relaying
  <2>4. BufferInv' /\ GreetingInv'
    BY <1>1, <1>6 DEF BufferInv, GreetingInv, HasFinal, ToClientSoFar, Setup, Clear, Relaying, setup,
       relay, peers
  <2>5. CommandsInv'
    BY <1>1, <1>6, CommandsFrame DEF OverTLS, peers
  <2>6. RepliesInv'
    BY <1>1, <1>2, <1>6, RepliesTaken DEF ToClientSoFar, peers
  <2> QED
    BY <1>4, <2>2, <2>3, <2>4, <2>5, <2>6
<1> QED
  BY <1>2, <1>5, <1>6

-----------------------------------------------------------------------------
(* The thread: the relay. *)

LEMMA OutStream ==
  ASSUME TypeOK, NEW e \in Lines \cup Items, lout' = Append(lout, e), crecv' = crecv
  PROVE  /\ Len(ToClientSoFar) \in Nat /\ DOMAIN ToClientSoFar = 1 .. Len(ToClientSoFar)
         /\ DOMAIN ToClientSoFar' = 1 .. Len(ToClientSoFar) + 1
         /\ ToClientSoFar'[Len(ToClientSoFar) + 1] = e
         /\ \A i \in DOMAIN ToClientSoFar : ToClientSoFar'[i] = ToClientSoFar[i]
         /\ lout' \in Seq(Lines \cup Items) /\ Len(lout') = Len(lout) + 1
<1>1. PICK T : T = Lines \cup Items
  OBVIOUS
<1>2. PICK s \in Seq(T), t \in Seq(T) : s = ToClientSoFar /\ t = lout
  BY <1>1, StreamTypes
<1>3. /\ Append(s, e) \in Seq(T) /\ Len(Append(s, e)) = Len(s) + 1 /\ Append(s, e)[Len(s) + 1] = e
      /\ \A i \in 1 .. Len(s) : Append(s, e)[i] = s[i]
      /\ Append(t, e) \in Seq(T) /\ Len(Append(t, e)) = Len(t) + 1
  <2>1. e \in T
    BY <1>1
  <2> QED
    BY ONLY <2>1, s \in Seq(T), t \in Seq(T), AppendFacts
<1>4. ToClientSoFar' = Append(s, e)
  BY <1>2, OutGrows
<1> QED
  BY <1>1, <1>2, <1>3, <1>4

(* What the relay handed to the client left its buffer. *)
LEMMA RepliesHanded ==
  ASSUME TypeOK, RepliesInv, pc # "finished", NEW e \in Lines \cup Items,
         lout' = Append(lout, e), UNCHANGED <<pc, crecv, down, ssent>>,
         IF IsData(e)
         THEN /\ pc = "send" /\ buffer # <<>> /\ e = Head(buffer) /\ buffer' = Tail(buffer)
         ELSE buffer' = buffer /\ pc # "send"
  PROVE  RepliesInv'
<1>1. /\ ToClientSoFar' = Append(ToClientSoFar, e)
      /\ Amount(ToClientSoFar)' = Amount(ToClientSoFar) + (IF IsData(e) THEN 1 ELSE 0)
  BY OutGrows
<1>2. PICK f \in [0 .. Len(down) -> 0 .. ssent] : Continues(f)
  BY DEF RepliesInv
<1>3. IsData(e) => /\ e = buffer[1] /\ Len(buffer) >= 1 /\ Len(buffer') = Len(buffer) - 1
                   /\ Len(buffer) \in Nat /\ DOMAIN buffer = 1 .. Len(buffer)
                   /\ DOMAIN buffer' = 1 .. Len(buffer) - 1
                   /\ \A i \in 1 .. Len(buffer) - 1 : buffer'[i] = buffer[i + 1]
  <2>1. SUFFICES ASSUME IsData(e)
                 PROVE  /\ e = buffer[1] /\ Len(buffer) >= 1 /\ Len(buffer') = Len(buffer) - 1
                        /\ Len(buffer) \in Nat /\ DOMAIN buffer = 1 .. Len(buffer)
                        /\ DOMAIN buffer' = 1 .. Len(buffer) - 1
                        /\ \A i \in 1 .. Len(buffer) - 1 : buffer'[i] = buffer[i + 1]
    OBVIOUS
  <2>2. buffer \in Seq(Items) /\ buffer # <<>> /\ e = Head(buffer) /\ buffer' = Tail(buffer)
    BY <2>1 DEF TypeOK
  <2>3. /\ Head(buffer) = buffer[1] /\ Tail(buffer) \in Seq(Items)
        /\ Len(buffer) \in Nat /\ Len(buffer) >= 1 /\ Len(Tail(buffer)) = Len(buffer) - 1
        /\ \A i \in 1 .. Len(buffer) - 1 : Tail(buffer)[i] = buffer[i + 1]
    BY ONLY <2>2, TailFacts
  <2> QED
    BY ONLY <2>2, <2>3
<1>4. Amount(ToClientSoFar)' + Held("send")' = Amount(ToClientSoFar) + Held("send")
  <2>1. CASE IsData(e)
    <3>1. Held("send") = Len(buffer) /\ Held("send")' = Len(buffer)'
      BY <2>1 DEF Held
    <3>2. Amount(ToClientSoFar) \in Nat
      BY StreamTypes
    <3>3. Len(buffer)' = Len(buffer) - 1 /\ Len(buffer) \in Nat
      BY ONLY <1>3, <2>1
    <3>4. Amount(ToClientSoFar)' = Amount(ToClientSoFar) + 1
      BY ONLY <1>1, <2>1
    <3> QED
      BY ONLY <3>1, <3>2, <3>3, <3>4
  <2>2. CASE ~IsData(e)
    <3>1. Held("send") = 0 /\ Held("send")' = 0
      BY <2>2 DEF Held
    <3> QED
      BY <1>1, <2>2, <3>1, StreamTypes
  <2> QED
    BY <2>1, <2>2
<1>5. Continues(f)'
  <2>1. f[0] = Amount(ToClientSoFar)' + Held("send")' /\ f[Len(down')] = ssent'
    BY <1>2, <1>4 DEF Continues
  <2> QED
    BY <1>2, <2>1 DEF Continues
<1>6. f[0] \in 0 .. ssent /\ f[0] = Amount(ToClientSoFar) + Held("send") /\ ssent \in Nat
  <2>1. 0 \in 0 .. Len(down)
    BY DEF TypeOK
  <2> QED
    BY <1>2, <2>1, StreamTypes DEF Continues
<1>7. IsData(e) => e.n = Amount(ToClientSoFar) + 1 /\ e.n <= ssent
  <2>1. SUFFICES ASSUME IsData(e)
                 PROVE  e.n = Amount(ToClientSoFar) + 1 /\ e.n <= ssent
    OBVIOUS
  <2>2. 1 \in DOMAIN buffer /\ pc = "send" /\ e = buffer[1]
    BY <1>3, <2>1
  <2>3. e.n = Amount(ToClientSoFar) + 1
    BY <2>2 DEF RepliesInv
  <2>4. Held("send") = Len(buffer)
    BY <2>2 DEF Held
  <2>5. Amount(ToClientSoFar) \in Nat
    BY StreamTypes
  <2> QED
    BY ONLY <1>3, <1>6, <2>1, <2>3, <2>4, <2>5
<1>8. FirstSent(Append(ToClientSoFar, e), ssent)
  <2>1. PICK T : T = Lines \cup Items
    OBVIOUS
  <2>2. ToClientSoFar \in Seq(T) /\ e \in T /\ ssent \in Nat /\ ssent <= ssent
    BY <2>1, StreamTypes
  <2>3. FirstSent(ToClientSoFar, ssent)
    BY DEF RepliesInv
  <2> QED
    BY ONLY <1>7, <2>2, <2>3, SentAppend
<1>9. FirstSent(ToClientSoFar, ssent)'
  BY <1>1, <1>8
<1>10. pc' = "send" => \A i \in DOMAIN buffer' : buffer'[i].n = Amount(ToClientSoFar)' + i
  <2>1. CASE IsData(e)
    <3>1. ASSUME NEW i \in DOMAIN buffer' PROVE buffer'[i].n = Amount(ToClientSoFar)' + i
      <4>1. i + 1 \in DOMAIN buffer /\ buffer'[i] = buffer[i + 1] /\ i \in Nat
        BY <1>3, <2>1
      <4>2. buffer[i + 1].n = Amount(ToClientSoFar) + (i + 1)
        BY <2>1, <4>1 DEF RepliesInv
      <4> QED
        BY <1>1, <2>1, <4>1, <4>2, StreamTypes
    <3> QED
      BY <3>1
  <2>2. CASE ~IsData(e)
    BY <2>2
  <2> QED
    BY <2>1, <2>2
<1> QED
  BY <1>2, <1>5, <1>9, <1>10 DEF RepliesInv

LEMMA WelcomeStep ==
  ASSUME RelayInv, Welcome
  PROVE  RelayInv'
<1> USE DEF RelayInv
<1>1. /\ pc = "welcome" /\ UNCHANGED <<mode, honest, used, offered, relay, ended, lin, up, down, peers>>
  BY DEF Welcome
<1>2. CASE greeting = <<>>
  <2>1. pc' = "select" /\ UNCHANGED <<greeting, lout>>
    BY <1>1, <1>2 DEF Welcome
  <2>2. TypeOK' /\ BufferInv'
    BY <1>1, <2>1 DEF TypeOK, BufferInv, Setup, Relaying, Clear, relay, peers
  <2>3. ResponseInv' /\ DialogueInv' /\ RecordInv'
    BY <1>1, <2>1 DEF ResponseInv, DialogueInv, RecordInv, Clear, Relaying, peers
  <2>4. GreetingInv'
    BY <1>1, <1>2, <2>1 DEF GreetingInv, HasFinal, ToClientSoFar, Setup, Relaying, peers
  <2>5. CommandsInv' /\ RepliesInv'
    BY <1>1, <2>1, CommandsFrame, RepliesFrame DEF OverTLS, ToClientSoFar, peers
  <2> QED
    BY <2>2, <2>3, <2>4, <2>5
<1>3. CASE greeting # <<>>
  <2>1. HasRoom(lout) /\ lout' = Append(lout, Head(greeting)) /\ greeting' = Tail(greeting) /\ pc' = pc
    BY <1>1, <1>3 DEF Welcome, RCSendAll
  <2>2. /\ Head(greeting) \in Lines /\ Head(greeting) = greeting[1] /\ greeting' \in Seq(Lines)
        /\ Len(greeting) \in Nat /\ Len(greeting) >= 1 /\ Len(greeting') = Len(greeting) - 1
        /\ \A i \in 1 .. Len(greeting) - 1 : greeting'[i] = greeting[i + 1]
    BY <1>3, <2>1, TailFacts DEF TypeOK
  <2>3. PICK e \in Lines : e = Head(greeting) /\ IsLine(e) /\ ~IsData(e)
    BY <2>2, MessageTypes
  <2>4. crecv' = crecv /\ mode' = mode /\ lout' = Append(lout, e) /\ buffer' = buffer /\ down' = down
        /\ ssent' = ssent
    BY <1>1, <2>1, <2>3 DEF peers, relay
  <2>5. /\ Len(ToClientSoFar) \in Nat /\ DOMAIN ToClientSoFar = 1 .. Len(ToClientSoFar)
        /\ DOMAIN ToClientSoFar' = 1 .. Len(ToClientSoFar) + 1
        /\ ToClientSoFar'[Len(ToClientSoFar) + 1] = e
        /\ \A i \in DOMAIN ToClientSoFar : ToClientSoFar'[i] = ToClientSoFar[i]
        /\ lout' \in Seq(Lines \cup Items) /\ Len(lout') = Len(lout) + 1
        /\ Amount(ToClientSoFar)' = Amount(ToClientSoFar)
    BY <2>3, <2>4, OutStream, OutGrows, StreamTypes
  <2>6. TypeOK'
    <3>1. Len(lout') <= Capacity
      BY <2>1, <2>5, RelayConstants DEF TypeOK, HasRoom
    <3>2. Len(greeting') <= ResponseLimit
      <4>1. greeting \in Seq(Lines) /\ Len(greeting) <= ResponseLimit
        BY DEF TypeOK
      <4> QED
        BY <2>2, <4>1, RelayConstants
    <3> QED
      BY <1>1, <2>1, <2>2, <2>5, <3>1, <3>2 DEF TypeOK, relay, peers
  <2>7. ResponseInv' /\ DialogueInv' /\ RecordInv' /\ BufferInv'
    BY <1>1, <1>3, <2>1 DEF ResponseInv, DialogueInv, RecordInv, BufferInv, Clear, Relaying, Setup,
       peers, relay
  <2>8. GreetingInv'
    <3>1. \A i \in DOMAIN ToClientSoFar' : IsLine(ToClientSoFar'[i])
      BY <1>1, <2>3, <2>5 DEF GreetingInv
    <3>2. HasFinal => HasFinal'
      BY <2>5 DEF HasFinal
    <3>3. e.last => HasFinal'
      BY <2>3, <2>5 DEF HasFinal
    <3>4. greeting[Len(greeting)].last => e.last \/ (greeting' # <<>> /\ greeting'[Len(greeting')].last)
      <4>1. CASE Len(greeting) = 1
        BY <2>2, <2>3, <4>1
      <4>2. CASE Len(greeting) # 1
        <5>1. Len(greeting') \in 1 .. Len(greeting) - 1 /\ Len(greeting') + 1 = Len(greeting)
          BY <2>2, <4>2
        <5>2. greeting' # <<>>
          BY <2>2, <5>1, EmptySeq
        <5> QED
          BY <2>2, <5>1, <5>2
      <4> QED
        BY <4>1, <4>2
    <3>5. \A i \in DOMAIN ToClientSoFar' : \A j \in 1 .. i : j \in DOMAIN ToClientSoFar'
      BY <2>5
    <3> QED
      BY <1>1, <2>1, <2>4, <2>5, <3>1, <3>2, <3>3, <3>4, <3>5 DEF GreetingInv, Setup, Relaying
  <2>9. CommandsInv'
    BY <1>1, <2>1, CommandsFrame DEF OverTLS, peers
  <2>10. RepliesInv'
    BY <1>1, <2>1, <2>3, <2>4, RepliesHanded
  <2> QED
    BY <2>6, <2>7, <2>8, <2>9, <2>10
<1> QED
  BY <1>2, <1>3

LEMMA SelectStep ==
  ASSUME RelayInv, Select
  PROVE  RelayInv'
<1> USE DEF RelayInv
<1>1. /\ pc = "select" /\ pc' \in {"local", "remote"} /\ ready' \subseteq {"client", "server"}
      /\ UNCHANGED <<mode, honest, setup, buffer, ended, lin, lout, up, down, peers>>
  BY DEF Select
<1>2. TypeOK' /\ BufferInv'
  BY <1>1 DEF TypeOK, BufferInv, Setup, Relaying, Clear, setup, peers
<1>3. ResponseInv' /\ DialogueInv' /\ RecordInv'
  BY <1>1 DEF ResponseInv, DialogueInv, RecordInv, Clear, Relaying, peers
<1>4. GreetingInv'
  BY <1>1 DEF GreetingInv, HasFinal, ToClientSoFar, Setup, Relaying, setup, peers
<1>5. CommandsInv' /\ RepliesInv'
  BY <1>1, CommandsFrame, RepliesFrame DEF OverTLS, ToClientSoFar, peers
<1> QED
  BY <1>2, <1>3, <1>4, <1>5

LEMMA LocalStep ==
  ASSUME RelayInv, Local
  PROVE  RelayInv'
<1> USE DEF RelayInv
<1>1. pc = "local" /\ UNCHANGED <<mode, honest, setup, ready, lout, up, down, peers>>
  BY DEF Local
<1>2. CASE lin = <<>>
  <2>1. pc' = "finished" /\ ended' = "client closed" /\ UNCHANGED <<buffer, lin>>
    BY <1>2 DEF Local, Gives
  <2>2. TypeOK'
    BY <1>1, <2>1 DEF TypeOK, setup, peers
  <2> QED
    BY <1>1, <2>1, <2>2, FinishStep DEF BufferInv, setup
<1>3. CASE lin # <<>>
  <2>1. PICK n \in Nat : n = IF Len(lin) < Buffer THEN Len(lin) ELSE Buffer
    BY RelayConstants, StreamTypes
  <2>2. buffer' = SubSeq(lin, 1, n) /\ lin' = SubSeq(lin, n + 1, Len(lin)) /\ pc' = "write" /\ ended' = ended
    BY <1>3, <2>1 DEF Local
  <2>3. lin \in Seq(Items) /\ Len(lin) \in Nat /\ n <= Len(lin) /\ n <= Buffer /\ Len(lin) <= Capacity
    BY <2>1, RelayConstants DEF TypeOK
  <2>4. /\ buffer' \in Seq(Items) /\ Len(buffer') = n /\ DOMAIN buffer' = 1 .. n
        /\ \A i \in 1 .. n : buffer'[i] = lin[i]
    <3>1. 1 \in 1 .. Len(lin) + 1 /\ n \in 1 - 1 .. Len(lin)
      BY <2>3
    <3>2. /\ SubSeq(lin, 1, n) \in Seq(Items) /\ Len(SubSeq(lin, 1, n)) = n
          /\ \A i \in 1 .. n : SubSeq(lin, 1, n)[i] = lin[i]
      BY <2>3, <3>1, SubSeqProperties
    <3> QED
      BY <2>2, <3>2
  <2>5. /\ lin' \in Seq(Items) /\ Len(lin') = Len(lin) - n /\ DOMAIN lin' = 1 .. Len(lin) - n
        /\ \A i \in 1 .. Len(lin) - n : lin'[i] = lin[n + i]
    <3>1. n + 1 \in 1 .. Len(lin) + 1 /\ Len(lin) \in (n + 1) - 1 .. Len(lin)
      BY <2>3
    <3>2. /\ SubSeq(lin, n + 1, Len(lin)) \in Seq(Items)
          /\ Len(SubSeq(lin, n + 1, Len(lin))) = Len(lin) - n
          /\ \A i \in 1 .. Len(lin) - n : SubSeq(lin, n + 1, Len(lin))[i] = lin[n + i]
      BY <2>3, <3>1, SubSeqProperties
    <3> QED
      BY <2>2, <3>2
  <2>6. TypeOK'
    <3>1. Len(buffer') <= Buffer /\ Len(lin') <= Capacity
      BY <2>3, <2>4, <2>5, RelayConstants
    <3> QED
      BY <1>1, <2>2, <2>4, <2>5, <3>1 DEF TypeOK, Setup, Relaying, setup, peers
  <2>7. ResponseInv' /\ DialogueInv' /\ RecordInv' /\ BufferInv'
    BY <1>1, <2>2 DEF ResponseInv, DialogueInv, RecordInv, BufferInv, Clear, Relaying, Setup, setup, peers
  <2>8. GreetingInv'
    BY <1>1, <2>2 DEF GreetingInv, HasFinal, ToClientSoFar, Setup, Relaying, setup, peers
  <2>9. CommandsInv'
    <3>1. Held("write") = 0 /\ Held("write")' = n
      BY <1>1, <2>2, <2>4 DEF Held
    <3>2. /\ Amount(OverTLS)' = Amount(OverTLS) /\ csent' = csent
          /\ (FirstSent(OverTLS, csent)' <=> FirstSent(OverTLS, csent))
      BY <1>1 DEF OverTLS, peers
    <3>3. Amount(OverTLS) \in Nat /\ csent \in Nat
      BY StreamTypes
    <3>4. /\ Amount(OverTLS) + Len(lin) = csent
          /\ \A i \in DOMAIN lin : lin[i].n = Amount(OverTLS) + i
          /\ DOMAIN lin = 1 .. Len(lin) /\ FirstSent(OverTLS, csent)
      BY <1>1, <2>3, <3>1, <3>3 DEF CommandsInv
    <3>5. Amount(OverTLS)' + Held("write")' + Len(lin)' = csent'
      BY ONLY <2>3, <2>5, <3>1, <3>2, <3>3, <3>4
    <3>6. \A i \in DOMAIN lin' : lin'[i].n = Amount(OverTLS)' + Held("write")' + i
      <4>1. ASSUME NEW i \in DOMAIN lin' PROVE lin'[i].n = Amount(OverTLS) + n + i
        <5>1. n + i \in DOMAIN lin /\ lin'[i] = lin[n + i] /\ i \in Nat
          BY ONLY <2>3, <2>5, <3>4, i \in DOMAIN lin', n \in Nat
        <5> QED
          BY ONLY <3>3, <3>4, <5>1, n \in Nat
      <4> QED
        BY <3>1, <3>2, <4>1
    <3>7. \A i \in DOMAIN buffer' : buffer'[i].n = Amount(OverTLS)' + i
      BY <2>3, <2>4, <3>2, <3>4
    <3> QED
      BY <3>2, <3>4, <3>5, <3>6, <3>7 DEF CommandsInv
  <2>10. RepliesInv'
    BY <1>1, <2>2, RepliesFrame DEF ToClientSoFar, peers
  <2> QED
    BY <2>6, <2>7, <2>8, <2>9, <2>10
<1> QED
  BY <1>2, <1>3

LEMMA WriteStep ==
  ASSUME RelayInv, RCSSLWriteAll
  PROVE  RelayInv'
<1> USE DEF RelayInv
<1>1. pc = "write" /\ UNCHANGED <<mode, honest, setup, ready, ended, lin, lout, down, peers>>
  BY DEF RCSSLWriteAll
<1>2. CASE buffer = <<>>
  <2>1. pc' \in {"remote", "select"} /\ UNCHANGED <<buffer, up>>
    BY <1>2 DEF RCSSLWriteAll
  <2>2. TypeOK' /\ BufferInv'
    BY <1>1, <1>2, <2>1 DEF TypeOK, BufferInv, Setup, Relaying, Clear, setup, peers
  <2>3. ResponseInv' /\ DialogueInv' /\ RecordInv'
    BY <1>1, <2>1 DEF ResponseInv, DialogueInv, RecordInv, Clear, Relaying, peers
  <2>4. GreetingInv'
    BY <1>1, <2>1 DEF GreetingInv, HasFinal, ToClientSoFar, Setup, Relaying, setup, peers
  <2>5. CommandsInv'
    <3>1. Held("write") = 0 /\ Held("write")' = 0
      BY <1>1, <1>2, <2>1 DEF Held
    <3>2. /\ Amount(OverTLS)' = Amount(OverTLS) /\ csent' = csent /\ lin' = lin
          /\ (FirstSent(OverTLS, csent)' <=> FirstSent(OverTLS, csent))
      BY <1>1, <2>1 DEF OverTLS, peers
    <3> QED
      BY <1>1, <2>1, <3>1, <3>2 DEF CommandsInv
  <2>6. RepliesInv'
    BY <1>1, <2>1, RepliesFrame DEF ToClientSoFar, peers
  <2> QED
    BY <2>2, <2>3, <2>4, <2>5, <2>6
<1>3. CASE buffer # <<>>
  <2>1. HasRoom(up) /\ up' = Append(up, Head(buffer)) /\ buffer' = Tail(buffer) /\ pc' = pc
    BY <1>1, <1>3 DEF RCSSLWriteAll, RCSendAll
  <2>2. /\ Head(buffer) \in Items /\ Head(buffer) = buffer[1] /\ buffer' \in Seq(Items)
        /\ Len(buffer) \in Nat /\ Len(buffer) >= 1 /\ Len(buffer') = Len(buffer) - 1
        /\ DOMAIN buffer' = 1 .. Len(buffer) - 1 /\ DOMAIN buffer = 1 .. Len(buffer)
        /\ \A i \in 1 .. Len(buffer) - 1 : buffer'[i] = buffer[i + 1]
    BY <1>3, <2>1, TailFacts DEF TypeOK
  <2>3. PICK e \in Items : e = Head(buffer) /\ IsData(e)
    BY <2>2, MessageTypes
  <2>4. up' \in Seq(Words \cup Items) /\ Len(up') = Len(up) + 1
    BY <2>1, <2>3, StreamTypes, AppendFacts
  <2>5. TypeOK'
    <3>1. Len(up') <= Capacity /\ Len(buffer') <= Buffer
      BY <2>1, <2>2, <2>4, RelayConstants, StreamTypes DEF TypeOK, HasRoom
    <3> QED
      BY <1>1, <2>1, <2>2, <2>4, <3>1 DEF TypeOK, setup, peers
  <2>6. ResponseInv' /\ DialogueInv' /\ RecordInv' /\ BufferInv'
    BY <1>1, <2>1 DEF ResponseInv, DialogueInv, RecordInv, BufferInv, Clear, Relaying, Setup, setup, peers
  <2>7. GreetingInv'
    BY <1>1, <2>1 DEF GreetingInv, HasFinal, ToClientSoFar, Setup, Relaying, setup, peers
  <2>8. CommandsInv'
    <3>1. /\ OverTLS' = Append(OverTLS, e) /\ Amount(OverTLS)' = Amount(OverTLS) + 1
          /\ csent' = csent /\ lin' = lin
      BY <1>1, <2>1, <2>3, UpGrows, StreamTypes DEF peers
    <3>2. Held("write") = Len(buffer) /\ Held("write")' = Len(buffer) - 1
      BY <1>1, <2>1, <2>2 DEF Held
    <3>3. Amount(OverTLS) \in Nat /\ csent \in Nat /\ Len(lin) \in Nat
      BY StreamTypes
    <3>4. /\ FirstSent(OverTLS, csent) /\ Amount(OverTLS) + Held("write") + Len(lin) = csent
          /\ \A i \in DOMAIN lin : lin[i].n = Amount(OverTLS) + Held("write") + i
          /\ \A i \in DOMAIN buffer : buffer[i].n = Amount(OverTLS) + i
      BY <1>1 DEF CommandsInv
    <3>5. e.n = Amount(OverTLS) + 1 /\ e.n <= csent
      <4>1. 1 \in DOMAIN buffer /\ e = buffer[1]
        BY <2>2, <2>3
      <4>2. e.n = Amount(OverTLS) + 1
        BY ONLY <3>4, <4>1
      <4> QED
        BY ONLY <2>2, <3>2, <3>3, <3>4, <4>2
    <3>6. FirstSent(Append(OverTLS, e), csent)
      <4>1. PICK T : T = Words \cup Items
        OBVIOUS
      <4>2. OverTLS \in Seq(T) /\ e \in T /\ csent \in Nat /\ csent <= csent
        BY <4>1, StreamTypes
      <4> QED
        BY ONLY <3>4, <3>5, <4>2, SentAppend
    <3>7. FirstSent(OverTLS, csent)'
      BY <3>1, <3>6
    <3>8. Amount(OverTLS)' + Held("write")' = Amount(OverTLS) + Held("write")
      BY ONLY <2>2, <3>1, <3>2, <3>3
    <3>9. /\ Amount(OverTLS)' + Held("write")' + Len(lin)' = csent'
          /\ \A i \in DOMAIN lin' : lin'[i].n = Amount(OverTLS)' + Held("write")' + i
      BY <3>1, <3>4, <3>8
    <3>10. \A i \in DOMAIN buffer' : buffer'[i].n = Amount(OverTLS)' + i
      <4>1. ASSUME NEW i \in DOMAIN buffer' PROVE buffer'[i].n = Amount(OverTLS) + 1 + i
        <5>1. i + 1 \in DOMAIN buffer /\ buffer'[i] = buffer[i + 1] /\ i \in Nat
          BY ONLY <2>2, i \in DOMAIN buffer'
        <5> QED
          BY ONLY <3>3, <3>4, <5>1
      <4> QED
        BY <3>1, <4>1
    <3> QED
      BY <3>7, <3>9, <3>10 DEF CommandsInv
  <2>9. RepliesInv'
    BY <1>1, <2>1, RepliesFrame DEF ToClientSoFar, peers
  <2> QED
    BY <2>5, <2>6, <2>7, <2>8, <2>9
<1> QED
  BY <1>2, <1>3

(* A record of data was taken from the server's socket into the buffer. *)
LEMMA RepliesHeld ==
  ASSUME TypeOK, RepliesInv, ToClientSoFar' = ToClientSoFar, ssent' = ssent,
         pc = "remote", pc' = "send", down # <<>>, down' = Tail(down),
         NEW items \in Seq(Items), Head(down).kind = "record", Head(down).items = items,
         buffer' = items
  PROVE  RepliesInv'
<1>1. /\ Amount(ToClientSoFar)' = Amount(ToClientSoFar) /\ Amount(ToClientSoFar) \in Nat
      /\ (FirstSent(ToClientSoFar, ssent)' <=> FirstSent(ToClientSoFar, ssent))
  BY StreamTypes
<1>2. /\ Len(down) \in Nat /\ Len(down) >= 1 /\ Len(down') = Len(down) - 1 /\ Head(down) = down[1]
      /\ \A i \in 1 .. Len(down) - 1 : down'[i] = down[i + 1]
      /\ DOMAIN down' = 1 .. Len(down) - 1 /\ DOMAIN down = 1 .. Len(down)
  BY TakenFromServer
<1>3. PICK f \in [0 .. Len(down) -> 0 .. ssent] : Continues(f)
  BY DEF RepliesInv
<1>4. Held("send") = 0 /\ Held("send")' = Len(items) /\ Len(items) \in Nat
  BY DEF Held
<1>5. /\ f[0] = Amount(ToClientSoFar) /\ f[Len(down)] = ssent
      /\ f[1] = Amount(ToClientSoFar) + Len(items)
      /\ \A k \in DOMAIN items : items[k].n = Amount(ToClientSoFar) + k
  <2>1. f[0] = Amount(ToClientSoFar) /\ f[Len(down)] = ssent
    BY <1>1, <1>3, <1>4 DEF Continues
  <2>2. 1 \in DOMAIN down /\ 1 - 1 = 0 /\ down[1].kind = "record" /\ down[1].items = items
    BY <1>2
  <2>3. f[1] = f[0] + Len(items) /\ \A k \in DOMAIN items : items[k].n = f[0] + k
    BY <1>3, <2>2 DEF Continues
  <2> QED
    BY <2>1, <2>3
<1>6. PICK g \in [0 .. Len(down') -> 0 .. ssent'] : \A i \in 0 .. Len(down) - 1 : g[i] = f[i + 1]
  <2> DEFINE h == [i \in 0 .. Len(down) - 1 |-> f[i + 1]]
  <2>1. h \in [0 .. Len(down') -> 0 .. ssent']
    BY <1>2
  <2> QED
    BY <2>1
<1>7. Continues(g)'
  <2>1. g[0] = Amount(ToClientSoFar)' + Held("send")' /\ g[Len(down')] = ssent'
    <3>1. g[0] = f[1] /\ g[Len(down')] = f[Len(down)]
      BY <1>2, <1>6
    <3> QED
      BY <1>1, <1>4, <1>5, <3>1
  <2>2. ASSUME NEW i \in DOMAIN down'
        PROVE  IF down'[i].kind = "record"
               THEN /\ g[i] = g[i - 1] + Len(down'[i].items)
                    /\ \A k \in DOMAIN down'[i].items : down'[i].items[k].n = g[i - 1] + k
               ELSE g[i] = g[i - 1]
    <3>1. i + 1 \in DOMAIN down /\ down'[i] = down[i + 1] /\ g[i] = f[i + 1] /\ g[i - 1] = f[i]
      BY <1>2, <1>6
    <3>2. (i + 1) - 1 = i
      BY <1>2
    <3> QED
      BY <1>3, <3>1, <3>2 DEF Continues
  <2> QED
    BY <2>1, <2>2 DEF Continues
<1>8. pc' = "send" => \A i \in DOMAIN buffer' : buffer'[i].n = Amount(ToClientSoFar)' + i
  BY <1>1, <1>5
<1> QED
  BY <1>1, <1>6, <1>7, <1>8 DEF RepliesInv

LEMMA RemoteStep ==
  ASSUME RelayInv, Remote
  PROVE  RelayInv'
<1> USE DEF RelayInv
<1>1. /\ pc = "remote" /\ down # <<>> /\ down' = Tail(down)
      /\ UNCHANGED <<mode, honest, setup, ready, ended, lin, lout, up, peers>>
  BY DEF Remote
<1>2. /\ Head(down) \in Lines \cup Words \cup Records /\ Head(down) = down[1]
      /\ down' \in Seq(Lines \cup Words \cup Records)
      /\ Len(down) \in Nat /\ Len(down) >= 1 /\ Len(down') = Len(down) - 1
      /\ DOMAIN down' = 1 .. Len(down) - 1 /\ DOMAIN down = 1 .. Len(down)
      /\ \A i \in 1 .. Len(down) - 1 : down'[i] = down[i + 1]
  BY <1>1, TakenFromServer
<1>3. /\ Head(down).kind \in {"record", "ticket"}
      /\ Head(down).kind = "record" => Len(Head(down).items) <= Buffer
  BY <1>1, <1>2 DEF RecordInv, Relaying
<1>4. PICK s \in Seq(Items) :
        \/ Head(down).kind = "ticket" /\ pc' = "remote" /\ s = buffer
        \/ /\ Head(down).kind = "record" /\ pc' = "send" /\ s = Head(down).items
           /\ Len(s) <= Buffer
  <2>1. CASE Head(down).kind = "ticket"
    BY <1>1, <2>1 DEF Remote, TypeOK
  <2>2. CASE Head(down).kind = "record"
    <3>1. Head(down).items \in Seq(Items)
      BY <1>2, <2>2 DEF Lines, Words, Records
    <3> QED
      BY <1>1, <1>3, <2>2, <3>1 DEF Remote
  <2> QED
    BY <1>3, <2>1, <2>2
<1>5. buffer' = s
  BY <1>4 DEF Remote
<1>6. TypeOK'
  <2>1. Len(down') <= Capacity
    <3>1. Len(down) <= Capacity /\ Capacity \in Nat
      BY RelayConstants DEF TypeOK
    <3> QED
      BY ONLY <1>2, <3>1
  <2>2. buffer' \in Seq(Items) /\ Len(buffer') <= Buffer /\ pc' \in Relaying /\ pc' # "select"
    BY <1>4, <1>5 DEF TypeOK, Relaying
  <2> QED
    BY <1>1, <1>2, <2>1, <2>2 DEF TypeOK, setup, peers, Setup, Relaying
<1>7. \A i \in DOMAIN down' : i + 1 \in DOMAIN down /\ down'[i] = down[i + 1]
  BY <1>2
<1>8. pc \in Relaying /\ pc' \in Relaying /\ pc' \notin Clear /\ pc' \notin Setup
  BY <1>1, <1>4 DEF Relaying, Clear, Setup
<1>9. ResponseInv' /\ DialogueInv' /\ RecordInv'
  <2>1. RecordInv'
    BY <1>7, <1>8 DEF RecordInv, Relaying, Clear, Setup
  <2>2. DialogueInv'
    BY <1>1, <1>8 DEF DialogueInv, Clear, Relaying, peers, Setup
  <2> QED
    BY <1>8, <2>1, <2>2 DEF ResponseInv
<1>10. BufferInv'
  BY <1>1, <1>4, <1>5, <1>8 DEF BufferInv, Setup, Clear, setup
<1>11. GreetingInv'
  BY <1>1, <1>8 DEF GreetingInv, HasFinal, ToClientSoFar, Setup, Relaying, setup, peers
<1>12. CommandsInv'
  BY <1>1, <1>4, CommandsFrame DEF OverTLS, peers
<1>13. RepliesInv'
  <2>1. ToClientSoFar' = ToClientSoFar /\ ssent' = ssent
    BY <1>1 DEF ToClientSoFar, peers
  <2>2. CASE Head(down).kind = "ticket"
    BY <1>1, <1>4, <2>1, <2>2, RepliesTaken
  <2>3. CASE Head(down).kind = "record"
    BY <1>1, <1>4, <1>5, <2>1, <2>3, RepliesHeld
  <2> QED
    BY <1>3, <2>2, <2>3
<1> QED
  BY <1>6, <1>9, <1>10, <1>11, <1>12, <1>13

LEMMA SendLocalStep ==
  ASSUME RelayInv, SendLocal
  PROVE  RelayInv'
<1> USE DEF RelayInv
<1>1. pc = "send" /\ UNCHANGED <<mode, honest, setup, ready, ended, lin, up, down, peers>>
  BY DEF SendLocal
<1>2. CASE buffer = <<>>
  <2>1. pc' = "select" /\ UNCHANGED <<buffer, lout>>
    BY <1>2 DEF SendLocal
  <2>2. TypeOK' /\ BufferInv'
    BY <1>1, <1>2, <2>1 DEF TypeOK, BufferInv, Setup, Relaying, Clear, setup, peers
  <2>3. ResponseInv' /\ DialogueInv' /\ RecordInv'
    BY <1>1, <2>1 DEF ResponseInv, DialogueInv, RecordInv, Clear, Relaying, peers
  <2>4. GreetingInv'
    BY <1>1, <2>1 DEF GreetingInv, HasFinal, ToClientSoFar, Setup, Relaying, setup, peers
  <2>5. CommandsInv'
    BY <1>1, <2>1, CommandsFrame DEF OverTLS, peers
  <2>6. RepliesInv'
    <3>1. Held("send") = 0 /\ Held("send")' = 0
      BY <1>1, <1>2, <2>1 DEF Held
    <3>2. /\ Amount(ToClientSoFar)' = Amount(ToClientSoFar) /\ ssent' = ssent /\ down' = down
          /\ (FirstSent(ToClientSoFar, ssent)' <=> FirstSent(ToClientSoFar, ssent))
      BY <1>1, <2>1 DEF ToClientSoFar, peers
    <3> QED
      BY <1>1, <2>1, <3>1, <3>2 DEF RepliesInv, Continues
  <2> QED
    BY <2>2, <2>3, <2>4, <2>5, <2>6
<1>3. CASE buffer # <<>>
  <2>1. HasRoom(lout) /\ lout' = Append(lout, Head(buffer)) /\ buffer' = Tail(buffer) /\ pc' = pc
    BY <1>1, <1>3 DEF SendLocal, RCSendAll
  <2>2. /\ Head(buffer) \in Items /\ buffer' \in Seq(Items)
        /\ Len(buffer) \in Nat /\ Len(buffer') = Len(buffer) - 1
    BY <1>3, <2>1, TailFacts DEF TypeOK
  <2>3. PICK e \in Items : e = Head(buffer) /\ IsData(e) /\ ~IsLine(e)
    BY <2>2, MessageTypes
  <2>4. crecv' = crecv /\ mode' = mode /\ lout' = Append(lout, e) /\ down' = down /\ ssent' = ssent
    BY <1>1, <2>1, <2>3 DEF peers
  <2>5. /\ Len(ToClientSoFar) \in Nat /\ DOMAIN ToClientSoFar = 1 .. Len(ToClientSoFar)
        /\ DOMAIN ToClientSoFar' = 1 .. Len(ToClientSoFar) + 1
        /\ ToClientSoFar'[Len(ToClientSoFar) + 1] = e
        /\ \A i \in DOMAIN ToClientSoFar : ToClientSoFar'[i] = ToClientSoFar[i]
        /\ lout' \in Seq(Lines \cup Items) /\ Len(lout') = Len(lout) + 1
    BY <2>3, <2>4, OutStream
  <2>6. TypeOK'
    <3>1. Len(lout') <= Capacity /\ Len(buffer') <= Buffer
      BY <2>1, <2>2, <2>5, RelayConstants, StreamTypes DEF TypeOK, HasRoom
    <3> QED
      BY <1>1, <2>1, <2>2, <2>5, <3>1 DEF TypeOK, setup, peers
  <2>7. ResponseInv' /\ DialogueInv' /\ RecordInv' /\ BufferInv'
    BY <1>1, <2>1 DEF ResponseInv, DialogueInv, RecordInv, BufferInv, Clear, Relaying, Setup, setup,
       peers
  <2>8. GreetingInv'
    <3>1. HasFinal => HasFinal'
      BY <2>5 DEF HasFinal
    <3>2. ASSUME NEW i \in DOMAIN ToClientSoFar', IsLine(ToClientSoFar'[i]), NEW j \in 1 .. i
          PROVE  IsLine(ToClientSoFar'[j])
      <4>1. i \in DOMAIN ToClientSoFar /\ ToClientSoFar'[i] = ToClientSoFar[i]
        BY <2>3, <2>5, <3>2
      <4>2. j \in DOMAIN ToClientSoFar /\ ToClientSoFar'[j] = ToClientSoFar[j]
        BY <2>5, <4>1
      <4> QED
        BY <3>2, <4>1, <4>2 DEF GreetingInv
    <3>3. pc \in Relaying /\ pc' \in Relaying /\ pc' \notin Setup
      BY <1>1, <2>1 DEF Relaying, Setup
    <3>4. mode = "starttls" => HasFinal
      BY <3>3 DEF GreetingInv
    <3> QED
      BY <2>4, <3>1, <3>2, <3>3, <3>4 DEF GreetingInv, Setup
  <2>9. CommandsInv'
    BY <1>1, <2>1, CommandsFrame DEF OverTLS, peers
  <2>10. RepliesInv'
    BY <1>1, <1>3, <2>1, <2>3, <2>4, RepliesHanded
  <2> QED
    BY <2>6, <2>7, <2>8, <2>9, <2>10
<1> QED
  BY <1>2, <1>3

-----------------------------------------------------------------------------
(* The invariant. *)

LEMMA RelayInit == Init => RelayInv
<1> SUFFICES ASSUME Init
             PROVE  RelayInv
  OBVIOUS
<1>1. TypeOK
  <2>1. server \in [at : {"reply", "agree", "wait", "tls", "open"}, code : Nat]
    BY DEF Init
  <2>2. pc \in Setup /\ pc # "finished"
    BY DEF Init, Setup
  <2>3. /\ used \in 0 .. ResponseLimit /\ csent \in 0 .. MaxCommands /\ ssent \in 0 .. MaxReplies
        /\ Len(buffer) <= Buffer /\ Len(greeting) <= ResponseLimit
        /\ \A queue \in {lin, lout, up, down} : Len(queue) <= Capacity
    BY RelayConstants DEF Init
  <2>4. /\ buffer \in Seq(Items) /\ lin \in Seq(Items) /\ greeting \in Seq(Lines)
        /\ lout \in Seq(Lines \cup Items) /\ crecv \in Seq(Lines \cup Items)
        /\ up \in Seq(Words \cup Items) /\ srecv \in Seq(Words \cup Items)
        /\ down \in Seq(Lines \cup Words \cup Records)
    BY EmptySeq DEF Init
  <2>5. /\ mode \in {"tls", "starttls"} /\ honest \in BOOLEAN /\ ended = "no"
        /\ offered \in BOOLEAN /\ ready = {} /\ closed = {} /\ ticketed \in BOOLEAN
        /\ (pc = "select" => buffer = <<>>)
    BY DEF Init
  <2> QED
    BY <2>1, <2>2, <2>3, <2>4, <2>5 DEF TypeOK
<1>2. ResponseInv /\ RecordInv
  BY DEF Init, ResponseInv, RecordInv, Clear, Relaying
<1>3. DialogueInv
  BY DEF Init, DialogueInv, Clear, Relaying
<1>4. BufferInv
  BY DEF Init, BufferInv, Setup, Clear
<1>5. OverTLS = <<>> /\ ToClientSoFar = <<>>
  BY ConcatEmptySeq DEF Init, OverTLS, ToClientSoFar
<1>6. Amount(OverTLS) = 0 /\ DataIn(OverTLS) = {} /\ Amount(ToClientSoFar) = 0 /\ DataIn(ToClientSoFar) = {}
  <2>1. <<>> \in Seq(Items) /\ \A i \in DOMAIN <<>> : ~IsData(<<>>[i])
    OBVIOUS
  <2> QED
    BY <1>5, <2>1, NoData
<1>7. GreetingInv
  BY <1>5, <1>6 DEF Init, GreetingInv, Setup, Relaying
<1>8. CommandsInv
  BY <1>6 DEF Init, CommandsInv, FirstSent, Held
<1>9. RepliesInv
  <2>1. PICK f \in [0 .. Len(down) -> 0 .. ssent] : f[0] = 0
    <3>1. Len(down) = 0 /\ ssent = 0
      BY DEF Init
    <3>2. [i \in 0 .. Len(down) |-> 0] \in [0 .. Len(down) -> 0 .. ssent]
      BY <3>1
    <3>3. [i \in 0 .. Len(down) |-> 0][0] = 0
      BY <3>1
    <3> QED
      BY <3>2, <3>3
  <2>2. Continues(f)
    BY <1>6, <2>1 DEF Init, Continues, Held
  <2>3. FirstSent(ToClientSoFar, ssent)
    BY <1>6 DEF Init, FirstSent
  <2>4. pc # "send"
    BY DEF Init
  <2> QED
    BY <2>1, <2>2, <2>3, <2>4 DEF RepliesInv
<1> QED
  BY <1>1, <1>2, <1>3, <1>4, <1>7, <1>8, <1>9 DEF RelayInv

LEMMA RelayStays ==
  ASSUME RelayInv, UNCHANGED vars
  PROVE  RelayInv'
<1> USE DEF vars, setup, relay, peers
<1>1. TypeOK' /\ ResponseInv' /\ DialogueInv' /\ RecordInv' /\ BufferInv'
  BY DEF RelayInv, TypeOK, ResponseInv, DialogueInv, RecordInv, BufferInv
<1>2. GreetingInv'
  BY DEF RelayInv, GreetingInv, HasFinal, ToClientSoFar
<1>3. CommandsInv'
  BY DEF RelayInv, CommandsInv, Held, OverTLS
<1>4. RepliesInv'
  BY DEF RelayInv, RepliesInv, Continues, Held, ToClientSoFar
<1> QED
  BY <1>1, <1>2, <1>3, <1>4 DEF RelayInv

LEMMA RelayStep == RelayInv /\ [Next]_vars => RelayInv'
<1> SUFFICES ASSUME RelayInv, [Next]_vars
             PROVE  RelayInv'
  OBVIOUS
<1>1. CASE Thread
  BY <1>1, ReadResponseStep, EndStep, SpeaksStep, ConnectStep, WelcomeStep, SelectStep, LocalStep,
     WriteStep, RemoteStep, SendLocalStep DEF Thread
<1>2. CASE Closed \/ UNCHANGED vars
  BY <1>2, RelayStays DEF Closed
<1>3. CASE ClientSends \/ ClientReads
  BY <1>3, ClientSendsStep, ClientReadsStep
<1>4. CASE ServerReplies \/ ServerReads \/ ServerSends
  BY <1>4, ServerRepliesStep, ServerReadsStep, ServerSendsStep
<1>5. CASE \E peer \in {"client", "server"} : PeerCloses(peer)
  BY <1>5, PeerClosesStep
<1> QED
  BY <1>1, <1>2, <1>3, <1>4, <1>5 DEF Next

(* RCConnectionMain and the two peers keep the relay's invariant: taking   *)
(* turns in the clear, and unbroken numbers of whatever is on its way.     *)
THEOREM RelayInvariant == Spec => []RelayInv
  BY RelayInit, RelayStep, PTL DEF Spec

(* The state of a connection in RCMailProxy.c has the stated types, and    *)
(* every queue and buffer stays within the bound of the code.              *)
THEOREM RelayTypes == Spec => []TypeOK
<1>1. RelayInv => TypeOK
  BY DEF RelayInv
<1> QED
  BY <1>1, RelayInvariant, PTL

(* RCPrepareSMTPStartTLS reads a response byte by byte up to its final     *)
(* line: when SSL_connect begins, the server is at its TLS handshake and   *)
(* nothing said in the clear is left in the socket.                        *)
THEOREM UpgradeIsClean == Spec => []CleanUpgrade
<1>1. RelayInv => CleanUpgrade
  BY DEF RelayInv, DialogueInv, CleanUpgrade
<1> QED
  BY <1>1, RelayInvariant, PTL

(* RCRelayMailConnection, RCSSLWriteAll and RCSendAll hand over what they  *)
(* read: neither direction loses, repeats or reorders data, and with       *)
(* STARTTLS the client gets the complete greeting first.                   *)
THEOREM MailInOrder == Spec => []InOrder
<1>1. RelayInv => InOrder
  BY DEF RelayInv, GreetingInv, CommandsInv, RepliesInv, HasFinal, InOrder
<1> QED
  BY <1>1, RelayInvariant, PTL

-----------------------------------------------------------------------------
(* The threads of the proxy.                                               *)

Live   == {"connect", "handshake", "relay", "finished", "remove"}
SetUps == {"link", "spawn", "discard"}
After  == {"drain", "waiting", "returned"}

(* The state functions have their ranges.                                  *)
Shape ==
  /\ main \in {"starting", "running", "worker", "stop", "joining"} \cup After
  /\ joined \in 0 .. Listeners
  /\ exiting \in BOOLEAN /\ woken \in BOOLEAN /\ freed \in BOOLEAN /\ stopping \in BOOLEAN
  /\ linked \subseteq Conns
  /\ lpc \in [Services -> {"none", "bound", "check", "select", "ended", "closed"} \cup SetUps]
  /\ lconn \in [Services -> Conns \cup {NoConn}]
  /\ cpc \in [Conns -> {"none", "gone"} \cup Live]
  /\ local \in [Conns -> Socket] /\ remote \in [Conns -> Socket]

(* A connection is on the list as long as its thread runs, and before that *)
(* only while its listener starts the thread.                              *)
ThreadsLinked ==
  \A c \in Conns :
    /\ cpc[c] \in Live => c \in linked
    /\ c \in linked /\ cpc[c] \notin Live =>
         \E l \in Services : lconn[l] = c /\ lpc[l] = "spawn"
    /\ \A l \in Services : lconn[l] = c /\ lpc[l] = "spawn" => c \in linked

(* A listener holds a connection exactly while it sets it up, and no other *)
(* listener and no thread has it.                                          *)
HeldOnce ==
  \A l \in Services :
    IF lpc[l] \in SetUps
    THEN /\ lconn[l] \in Conns /\ cpc[lconn[l]] = "none" /\ remote[lconn[l]] = "none"
         /\ local[lconn[l]] \in {"open", "shut"}
         /\ \A m \in Services : lconn[m] = lconn[l] => m = l
    ELSE lconn[l] = NoConn

(* Where the sockets are: nobody forgets one, and a serving thread has not *)
(* closed either.                                                          *)
SocketsOwned ==
  \A c \in Conns :
    /\ cpc[c] = "none" => remote[c] = "none"
    /\ cpc[c] = "none" /\ local[c] \in {"open", "shut"} =>
         \E l \in Services : lconn[l] = c /\ lpc[l] \in SetUps
    /\ cpc[c] \in {"remove", "gone"} =>
         local[c] = "closed" /\ remote[c] \in {"none", "closed"}
    /\ cpc[c] \in {"connect", "handshake", "relay", "finished"} =>
         local[c] \in {"open", "shut"}
    /\ cpc[c] = "connect" => remote[c] = "none"
    /\ cpc[c] \in {"handshake", "relay"} => remote[c] \in {"open", "shut"}

(* Listeners are made in order and joined in order, all of them before the *)
(* list is drained.                                                        *)
JoinedFirst ==
  /\ \A l \in Services, m \in Services : m < l /\ lpc[l] # "none" => lpc[m] # "none"
  /\ \A l \in Services : lpc[l] = "closed" <=> l <= joined
  /\ joined # 0 => main \in {"joining"} \cup After
  /\ main \in After => \A l \in Services : lpc[l] \in {"none", "closed"}

(* The proxy is freed last, with the list empty.                           *)
FreedLast == freed => main = "returned" /\ linked = {}

ProxyInv ==
  /\ Shape /\ ThreadsLinked /\ HeldOnce /\ SocketsOwned /\ JoinedFirst /\ FreedLast
  /\ NothingServedAfterStop

USE ProxyConstants DEF Live, SetUps, After, Services, Socket, Made, mainVars, connVars

(* The calloc'ed proxy, before its first listener.                         *)
LEMMA InitProxy == ProxyInit => ProxyInv
<1> SUFFICES ASSUME ProxyInit PROVE ProxyInv
  OBVIOUS
<1>1. Shape
  <2>1. linked \subseteq Conns /\ joined \in 0 .. Listeners
    BY DEF ProxyInit
  <2>2. /\ main \in {"starting", "running", "worker", "stop", "joining"} \cup After
        /\ exiting \in BOOLEAN /\ woken \in BOOLEAN /\ freed \in BOOLEAN /\ stopping \in BOOLEAN
    BY DEF ProxyInit
  <2>3. /\ lpc \in [Services -> {"none", "bound", "check", "select", "ended", "closed"} \cup SetUps]
        /\ lconn \in [Services -> Conns \cup {NoConn}]
        /\ cpc \in [Conns -> {"none", "gone"} \cup Live]
        /\ local \in [Conns -> Socket] /\ remote \in [Conns -> Socket]
    BY DEF ProxyInit
  <2>4. QED
    BY <2>1, <2>2, <2>3 DEF Shape
<1>2. ThreadsLinked /\ SocketsOwned
  BY DEF ProxyInit, ThreadsLinked, SocketsOwned
<1>3. HeldOnce /\ JoinedFirst
  BY DEF ProxyInit, HeldOnce, JoinedFirst
<1>4. FreedLast /\ NothingServedAfterStop
  BY DEF ProxyInit, FreedLast, NothingServedAfterStop
<1>5. QED
  BY <1>1, <1>2, <1>3, <1>4 DEF ProxyInv

(* The main thread: starting, and the steps that stop the proxy.           *)
LEMMA MainKeeps ==
  ASSUME ProxyInv, Start \/ RequestStop \/ WorkerStopped \/ StopProxy \/ JoinListener \/ Deadline
  PROVE  ProxyInv'
<1>1. ASSUME NEW l \in Services, StartListener(l) PROVE ProxyInv'
  BY <1>1 DEF StartListener, ProxyInv, Shape, ThreadsLinked, HeldOnce, SocketsOwned,
       JoinedFirst, FreedLast, NothingServedAfterStop
<1>2. CASE Started
  BY <1>2 DEF Started, ProxyInv, Shape, ThreadsLinked, HeldOnce, SocketsOwned,
       JoinedFirst, FreedLast, NothingServedAfterStop
<1>3. CASE StartFailed
  BY <1>3 DEF StartFailed, ProxyInv, Shape, ThreadsLinked, HeldOnce, SocketsOwned,
       JoinedFirst, FreedLast, NothingServedAfterStop
<1>4. CASE RequestStop
  BY <1>4 DEF RequestStop, RCMailProxyRequestStop, ShutLinked, ProxyInv, Shape, ThreadsLinked, HeldOnce,
       SocketsOwned, JoinedFirst, FreedLast, NothingServedAfterStop
<1>5. CASE WorkerStopped
  BY <1>5 DEF WorkerStopped, ProxyInv, Shape, ThreadsLinked, HeldOnce, SocketsOwned,
       JoinedFirst, FreedLast, NothingServedAfterStop
<1>6. CASE StopProxy
  BY <1>6 DEF StopProxy, RCMailProxyRequestStop, ShutLinked, ProxyInv, Shape, ThreadsLinked, HeldOnce,
       SocketsOwned, JoinedFirst, FreedLast, NothingServedAfterStop
<1>7. CASE JoinListener
  BY <1>7 DEF JoinListener, ProxyInv, Shape, ThreadsLinked, HeldOnce, SocketsOwned,
       JoinedFirst, FreedLast, NothingServedAfterStop
<1>8. CASE Deadline
  BY <1>8 DEF Deadline, ProxyInv, Shape, ThreadsLinked, HeldOnce, SocketsOwned,
       JoinedFirst, FreedLast, NothingServedAfterStop
<1>9. QED
  BY <1>1, <1>2, <1>3, <1>4, <1>5, <1>6, <1>7, <1>8 DEF Start

(* The drain frees the proxy only on an empty list, so no thread is left.  *)
LEMMA DrainKeeps == ASSUME ProxyInv, Drain PROVE ProxyInv'
<1>1. CASE linked = {}
  <2>1. /\ freed' = TRUE /\ main' = "returned" /\ main \in After
        /\ UNCHANGED <<woken, local, remote, joined, exiting, stopping, linked, cpc, lpc, lconn>>
    BY <1>1 DEF Drain
  <2>2. FreedLast'
    BY <1>1, <2>1 DEF FreedLast
  <2>3. Shape'
    BY <2>1 DEF ProxyInv, Shape
  <2>4. (ThreadsLinked /\ HeldOnce /\ SocketsOwned /\ JoinedFirst /\ NothingServedAfterStop)'
    BY <2>1 DEF ProxyInv, ThreadsLinked, HeldOnce, SocketsOwned, JoinedFirst, NothingServedAfterStop
  <2>5. QED
    BY <2>2, <2>3, <2>4 DEF ProxyInv
<1>2. CASE linked # {}
  <2>1. ~freed
    BY <1>2 DEF ProxyInv, FreedLast
  <2>2. /\ main' = "waiting" /\ woken' = FALSE /\ freed' = freed
        /\ local' = ShutLinked(local) /\ remote' = ShutLinked(remote)
        /\ main \in After
        /\ UNCHANGED <<joined, exiting, stopping, linked, cpc, lpc, lconn>>
    BY <1>2 DEF Drain
  <2>3. FreedLast'
    BY <2>1, <2>2 DEF FreedLast
  <2>4. Shape'
    BY <2>1, <2>2 DEF ShutLinked, ProxyInv, Shape
  <2>5. (ThreadsLinked /\ HeldOnce /\ SocketsOwned /\ JoinedFirst /\ NothingServedAfterStop)'
    BY <2>2 DEF ShutLinked, ProxyInv, Shape, ThreadsLinked, HeldOnce, SocketsOwned, JoinedFirst,
                NothingServedAfterStop
  <2>6. QED
    BY <2>3, <2>4, <2>5 DEF ProxyInv
<1>3. QED
  BY <1>1, <1>2

(* A listener hands its connection to a thread, or takes it back.          *)
LEMMA SpawnKeeps == ASSUME ProxyInv, NEW l \in Services, Spawn(l) PROVE ProxyInv'
<1> DEFINE c == lconn[l]
<1>0. /\ c \in Conns /\ cpc[c] = "none" /\ c \in linked
      /\ \A m \in Services : lconn[m] = c => m = l
  BY DEF Spawn, ProxyInv, HeldOnce, ThreadsLinked, Shape
<1>1. CASE cpc' = [cpc EXCEPT ![c] = "connect"]
  <2>1. /\ lpc[l] = "spawn" /\ lpc' = [lpc EXCEPT ![l] = "check"]
        /\ lconn' = [lconn EXCEPT ![l] = NoConn]
        /\ UNCHANGED <<linked, woken, main, joined, exiting, freed, stopping, local, remote>>
    BY <1>0, <1>1 DEF Spawn, ProxyInv, Shape
  <2>2. (Shape /\ JoinedFirst /\ FreedLast /\ NothingServedAfterStop)'
    BY <1>0, <1>1, <2>1 DEF ProxyInv, Shape, JoinedFirst, FreedLast, NothingServedAfterStop
  <2>3. ThreadsLinked'
    BY <1>0, <1>1, <2>1 DEF ProxyInv, Shape, ThreadsLinked
  <2>4. HeldOnce'
    BY <1>0, <1>1, <2>1 DEF ProxyInv, Shape, HeldOnce
  <2>5. SocketsOwned'
    BY <1>0, <1>1, <2>1 DEF ProxyInv, Shape, HeldOnce, SocketsOwned
  <2>6. QED
    BY <2>2, <2>3, <2>4, <2>5 DEF ProxyInv
<1>2. CASE RCRemoveConnection(c) /\ UNCHANGED cpc
  BY <1>0, <1>2 DEF Spawn, RCRemoveConnection, ProxyInv, Shape, ThreadsLinked, HeldOnce, SocketsOwned,
       JoinedFirst, FreedLast, NothingServedAfterStop
<1>3. QED
  BY <1>1, <1>2 DEF Spawn

(* A listener thread.                                                      *)
LEMMA ListenerKeeps ==
  ASSUME ProxyInv, NEW l \in Services, Listen(l) \/ \E c \in Conns : Accept(l, c)
  PROVE  ProxyInv'
<1>1. CASE RCProxyIsStopping(l)
  BY <1>1 DEF RCProxyIsStopping, ProxyInv, Shape, ThreadsLinked, HeldOnce, SocketsOwned,
       JoinedFirst, FreedLast, NothingServedAfterStop
<1>2. CASE NotAccepted(l)
  BY <1>2 DEF NotAccepted, ProxyInv, Shape, ThreadsLinked, HeldOnce, SocketsOwned,
       JoinedFirst, FreedLast, NothingServedAfterStop
<1>3. CASE Link(l)
  BY <1>3 DEF Link, ProxyInv, Shape, ThreadsLinked, HeldOnce, SocketsOwned,
       JoinedFirst, FreedLast, NothingServedAfterStop
<1>4. CASE Discard(l)
  BY <1>4 DEF Discard, ProxyInv, Shape, ThreadsLinked, HeldOnce, SocketsOwned,
       JoinedFirst, FreedLast, NothingServedAfterStop
<1>5. ASSUME NEW c \in Conns, Accept(l, c) PROVE ProxyInv'
  BY <1>5 DEF Accept, ProxyInv, Shape, ThreadsLinked, HeldOnce, SocketsOwned,
       JoinedFirst, FreedLast, NothingServedAfterStop
<1>6. QED
  BY <1>1, <1>2, <1>3, <1>4, <1>5, SpawnKeeps DEF Listen

(* A connection thread.                                                    *)
LEMMA ConnectionKeeps ==
  ASSUME ProxyInv, NEW c \in Conns, Serve(c) \/ Connected(c) \/ RelayEnds(c)
  PROVE  ProxyInv'
<1>1. CASE Connected(c)
  <2>1. (Shape /\ JoinedFirst /\ FreedLast)'
    BY <1>1 DEF Connected, ProxyInv, Shape, JoinedFirst, FreedLast
  <2>2. ThreadsLinked'
    BY <1>1 DEF Connected, ProxyInv, Shape, ThreadsLinked
  <2>3. HeldOnce'
    BY <1>1 DEF Connected, ProxyInv, Shape, HeldOnce
  <2>4. SocketsOwned'
    BY <1>1 DEF Connected, ProxyInv, Shape, SocketsOwned
  <2>5. NothingServedAfterStop'
    BY <1>1 DEF Connected, ProxyInv, Shape, NothingServedAfterStop
  <2>6. QED
    BY <2>1, <2>2, <2>3, <2>4, <2>5 DEF ProxyInv
<1>2. CASE Handshake(c)
  BY <1>2 DEF Handshake, ProxyInv, Shape, ThreadsLinked, HeldOnce, SocketsOwned,
       JoinedFirst, FreedLast, NothingServedAfterStop
<1>3. CASE RelayEnds(c)
  BY <1>3 DEF RelayEnds, ProxyInv, Shape, ThreadsLinked, HeldOnce, SocketsOwned,
       JoinedFirst, FreedLast, NothingServedAfterStop
<1>4. CASE CloseSockets(c)
  BY <1>4 DEF CloseSockets, ProxyInv, Shape, ThreadsLinked, HeldOnce, SocketsOwned,
       JoinedFirst, FreedLast, NothingServedAfterStop
<1>5. CASE Remove(c)
  BY <1>5 DEF Remove, RCRemoveConnection, ProxyInv, Shape, ThreadsLinked, HeldOnce, SocketsOwned,
       JoinedFirst, FreedLast, NothingServedAfterStop
<1>6. QED
  BY <1>1, <1>2, <1>3, <1>4, <1>5 DEF Serve

(* Every step of every thread keeps the invariant.                         *)
LEMMA StepKeeps == ProxyInv /\ [ProxyNext]_proxyVars => ProxyInv'
<1> SUFFICES ASSUME ProxyInv, [ProxyNext]_proxyVars PROVE ProxyInv'
  OBVIOUS
<1>1. CASE UNCHANGED proxyVars
  BY <1>1 DEF proxyVars, ProxyInv, Shape, ThreadsLinked, HeldOnce, SocketsOwned,
       JoinedFirst, FreedLast, NothingServedAfterStop
<1>2. CASE Start \/ RequestStop \/ Stop \/ Deadline \/ Exited
  BY <1>1, <1>2, MainKeeps, DrainKeeps DEF Stop, Exited
<1>3. CASE \E l \in Services : Listen(l) \/ \E c \in Conns : Accept(l, c)
  BY <1>3, ListenerKeeps
<1>4. CASE \E c \in Conns : Serve(c) \/ Connected(c) \/ RelayEnds(c)
  BY <1>4, ConnectionKeeps
<1>5. QED
  BY <1>1, <1>2, <1>3, <1>4 DEF ProxyNext

-----------------------------------------------------------------------------

(* The conjunction of the ownership facts above is an invariant.           *)
THEOREM ProxyInvariant == ProxySpec => []ProxyInv
BY InitProxy, StepKeeps, PTL DEF ProxySpec

(* Every linked connection has its own thread, or the listener about to    *)
(* start it, to unlink it again (RCListenerMain, RCRemoveConnection).      *)
THEOREM LinkedHasOwner == ProxySpec => []ProxyTypeOK
<1>1. ProxyInv => ProxyTypeOK
  BY DEF ProxyInv, Shape, ThreadsLinked, ProxyTypeOK
<1>2. QED
  BY <1>1, ProxyInvariant, PTL

(* The proxy (RCStopProxy) is freed only when no listener and no detached  *)
(* connection thread can touch it again, for any number of connections.    *)
THEOREM FreedWhenUnused == ProxySpec => []NoUseAfterFree
<1>1. ProxyInv => NoUseAfterFree
  BY DEF ProxyInv, Shape, ThreadsLinked, JoinedFirst, FreedLast, NoUseAfterFree
<1>2. QED
  BY <1>1, ProxyInvariant, PTL

(* After RCMailProxyRequestStop every connection in service, however it    *)
(* raced with the request, has both its sockets shut.                      *)
THEOREM StopReachesEveryConnection == ProxySpec => []NothingServedAfterStop
<1>1. ProxyInv => NothingServedAfterStop
  BY DEF ProxyInv
<1>2. QED
  BY <1>1, ProxyInvariant, PTL

(* A proxy that RCStopProxy freed has closed every socket it ever had.     *)
THEOREM SocketsClosed == ProxySpec => []NoDescriptorLeak
<1>1. ProxyInv => NoDescriptorLeak
  BY DEF ProxyInv, Shape, ThreadsLinked, SocketsOwned, JoinedFirst, FreedLast, NoDescriptorLeak
<1>2. QED
  BY <1>1, ProxyInvariant, PTL

=============================================================================
