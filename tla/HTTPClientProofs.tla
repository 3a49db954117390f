--------------------------- MODULE HTTPClientProofs ---------------------------
(***************************************************************************)
(* CredentialsStayHome and MutationSentOnce hold of every call, for any    *)
(* set of hosts, any redirect limit and any response bound.                *)
(*                                                                         *)
(* A hop leaves "validate" only for an allowed destination, and the URL    *)
(* does not change until the hop is judged: so what Perform sends goes     *)
(* home.  A conditional call never follows a redirect, so its only hop is  *)
(* its first.  That its header list is right when libcurl takes it rests   *)
(* on the order of the appends: the precondition is the last header but    *)
(* one, both of these are checked, and Overwrite: F follows Destination    *)
(* at once, so that whichever append fails, what is emptied is emptied     *)
(* before the precondition and takes Destination with it.                  *)
(***************************************************************************)
EXTENDS HTTPClient, SequenceTheorems, TLAPS

Preconditions == {"If-Match", "If-None-Match"}

(* The calls that carry a precondition. *)
Conditional(c) == c.ifMatch \/ c.ifNoneMatch

(* The order of the headers that the appends rely on. *)
DestinationThenOverwrite(h) ==
    \A i \in 1..Len(h) :
        h[i] = "Destination" => i < Len(h) /\ h[i + 1] = "Overwrite"

AcceptIsLast(h) == Len(h) >= 1 /\ h[Len(h)] = "Accept"

PreconditionIsLast(h) == Len(h) >= 2 /\ h[Len(h) - 1] \in Preconditions

(* What is left to append, and the list, once the first n headers of call c *)
(* have been tried.                                                        *)
After(c, n, rest, list) ==
    LET h == Headers(c) IN
    /\ rest = SubSeq(h, n + 1, Len(h))
    /\ Conditional(c) /\ n >= Len(h) - 1 => list \cap Preconditions # {}
    /\ "Destination" \in list =>
          "Overwrite" \in list \/ (n > 0 /\ h[n] = "Destination")

HeadersInv ==
    pc = "headers" => \E n \in 0..Len(Headers(call)) : After(call, n, todo, headers)

DestinationInv == pc = "headers" => ValidDestination(currentURL)

(* A request that carried its precondition to the href of the call. *)
SafelySent(request) ==
    /\ request.url = call.url
    /\ request.headers \cap Preconditions # {}
    /\ "Destination" \in request.headers => "Overwrite" \in request.headers

SentOnceInv ==
    Conditional(call) =>
        /\ currentURL = call.url
        /\ pc \in {"idle", "validate", "headers"} => sent = <<>>
        /\ Len(sent) <= 1
        /\ \A i \in DOMAIN sent : SafelySent(sent[i])

ClientInv ==
    /\ TypeOK
    /\ HeadersInv
    /\ DestinationInv
    /\ SentOnceInv
    /\ CredentialsStayHome

-----------------------------------------------------------------------------
(* The calls and their headers. *)

CallType == [method : Methods, url : URLs, ifMatch : BOOLEAN,
             ifNoneMatch : BOOLEAN, destination : BOOLEAN]

(* What the entry points accept: a well-formed call, whose method changes   *)
(* something only under a precondition.                                     *)
LEMMA AcceptedShape ==
    ASSUME NEW c \in AcceptedCalls
    PROVE  /\ c \in CallType
           /\ c.method \in Mutations => Conditional(c)
<1>1. CASE c \in PlainCalls
  <2>1. PICK m \in {x \in Methods : RequestAccepts(x)} :
              c \in {Arguments(m, u, FALSE, FALSE, FALSE) : u \in URLs}
    BY <1>1, Zenon DEF PlainCalls
  <2>2. m \in Methods /\ m \notin Mutations
    BY DEF RequestAccepts
  <2>3. PICK u \in URLs : c = Arguments(m, u, FALSE, FALSE, FALSE)
    BY <2>1, Zenon
  <2> QED
    BY <2>2, <2>3 DEF Arguments, CallType
<1>2. CASE c \in ConditionalCalls
  <2>1. PICK a \in Methods \X {"none", "weak", "strong"} \X BOOLEAN :
              /\ \E body \in BOOLEAN : ConditionalAccepts(a[1], a[2], a[3], body)
              /\ c \in {Arguments(a[1], u, a[2] # "none", a[3], FALSE) : u \in URLs}
    BY <1>2, Zenon DEF ConditionalCalls
  <2>2. PICK u \in URLs : c = Arguments(a[1], u, a[2] # "none", a[3], FALSE)
    BY <2>1, Zenon
  <2>3. a[1] \in Methods /\ a[3] \in BOOLEAN
    OBVIOUS
  <2>4. a[2] # "none" \/ a[3]
    BY <2>1 DEF ConditionalAccepts
  <2> QED
    BY <2>2, <2>3, <2>4 DEF Arguments, CallType, Conditional
<1>3. CASE c \in MoveCalls
  <2>1. PICK u \in URLs : c = Arguments("MOVE", u, TRUE, FALSE, TRUE)
    BY <1>3 DEF MoveCalls
  <2> QED
    BY <2>1 DEF Arguments, CallType, Conditional, Methods, Mutations
<1> QED
  BY <1>1, <1>2, <1>3, Zenon DEF AcceptedCalls

LEMMA Joined ==
    ASSUME NEW a \in Seq(HeaderNames), NEW b \in Seq(HeaderNames)
    PROVE  /\ a \o b \in Seq(HeaderNames)
           /\ Len(a) \in Nat /\ Len(b) \in Nat
           /\ Len(a \o b) = Len(a) + Len(b)
           /\ \A i \in 1..Len(a) : (a \o b)[i] = a[i]
           /\ \A i \in 1..Len(b) : (a \o b)[Len(a) + i] = b[i]
  OBVIOUS

LEMMA OneHeader ==
    ASSUME NEW x \in HeaderNames, x # "Destination"
    PROVE  /\ <<x>> \in Seq(HeaderNames)
           /\ Len(<<x>>) = 1 /\ <<x>>[1] = x
           /\ DestinationThenOverwrite(<<x>>)
<1>1. Len(<<x>>) = 1 /\ <<x>>[1] = x
  OBVIOUS
<1>2. \A i \in 1..1 : i = 1
  OBVIOUS
<1> QED
  BY <1>1, <1>2 DEF DestinationThenOverwrite

LEMMA NoHeader ==
    <<>> \in Seq(HeaderNames) /\ DestinationThenOverwrite(<<>>)
  BY DEF DestinationThenOverwrite

LEMMA JoinedInOrder ==
    ASSUME NEW a \in Seq(HeaderNames), NEW b \in Seq(HeaderNames),
           DestinationThenOverwrite(a), DestinationThenOverwrite(b)
    PROVE  a \o b \in Seq(HeaderNames) /\ DestinationThenOverwrite(a \o b)
<1> DEFINE s == a \o b
<1>1. /\ s \in Seq(HeaderNames)
      /\ Len(a) \in Nat /\ Len(b) \in Nat
      /\ Len(s) = Len(a) + Len(b)
  BY Joined
<1>2. \A i \in 1..Len(a) : s[i] = a[i]
  BY Joined
<1>3. \A i \in 1..Len(b) : s[Len(a) + i] = b[i]
  BY Joined
<1> HIDE DEF s
<1>4. ASSUME NEW i \in 1..Len(s), s[i] = "Destination"
      PROVE  i < Len(s) /\ s[i + 1] = "Overwrite"
  <2>1. CASE i <= Len(a)
    <3>1. i \in 1..Len(a)
      BY <1>1, <2>1
    <3>2. i < Len(a) /\ a[i + 1] = "Overwrite"
      BY <1>2, <1>4, <3>1 DEF DestinationThenOverwrite
    <3>3. i + 1 \in 1..Len(a) /\ i < Len(s)
      BY <1>1, <3>1, <3>2
    <3> QED
      BY <1>2, <3>2, <3>3
  <2>2. CASE i > Len(a)
    <3> DEFINE j == i - Len(a)
    <3>1. j \in 1..Len(b) /\ i = Len(a) + j
      BY <1>1, <2>2
    <3> HIDE DEF j
    <3>2. j < Len(b) /\ b[j + 1] = "Overwrite"
      BY <1>3, <1>4, <3>1 DEF DestinationThenOverwrite
    <3>3. j + 1 \in 1..Len(b) /\ i < Len(s) /\ i + 1 = Len(a) + (j + 1)
      BY <1>1, <3>1, <3>2
    <3> QED
      BY <1>3, <3>2, <3>3
  <2> QED
    BY <1>1, <2>1, <2>2
<1> QED
  BY <1>1, <1>4 DEF s, DestinationThenOverwrite

(* The headers come in the order RCRequest appends them. *)
LEMMA HeaderOrder ==
    ASSUME NEW c
    PROVE  /\ Headers(c) \in Seq(HeaderNames)
           /\ DestinationThenOverwrite(Headers(c))
           /\ AcceptIsLast(Headers(c))
           /\ Conditional(c) => PreconditionIsLast(Headers(c))
<1> DEFINE depth == IF c.method = "PROPFIND" THEN <<"Depth">> ELSE <<>>
           move == IF c.destination THEN <<"Destination", "Overwrite">> ELSE <<>>
           type == IF c.method \in {"PROPFIND", "PUT", "MKCALENDAR"}
                   THEN <<"Content-Type">> ELSE <<>>
           tag == IF c.ifMatch THEN <<"If-Match">>
                  ELSE IF c.ifNoneMatch THEN <<"If-None-Match">> ELSE <<>>
           others == depth \o move \o type
           last == <<"Accept">>
<1>1. Headers(c) = (others \o tag) \o last
  BY DEF Headers
<1>2. depth \in Seq(HeaderNames) /\ DestinationThenOverwrite(depth)
  BY OneHeader, NoHeader DEF HeaderNames
<1>3. move \in Seq(HeaderNames) /\ DestinationThenOverwrite(move)
  <2>1. CASE c.destination
    <3> DEFINE m == <<"Destination", "Overwrite">>
    <3>1. m \in Seq(HeaderNames) /\ Len(m) = 2 /\ m[1] = "Destination" /\ m[2] = "Overwrite"
      BY DEF HeaderNames
    <3>2. \A i \in 1..2 : i = 1 \/ i = 2
      OBVIOUS
    <3> HIDE DEF m
    <3>3. DestinationThenOverwrite(m)
      BY <3>1, <3>2 DEF DestinationThenOverwrite
    <3> QED
      BY <2>1, <3>1, <3>3 DEF m
  <2>2. CASE ~c.destination
    BY <2>2, NoHeader
  <2> QED
    BY <2>1, <2>2
<1>4. type \in Seq(HeaderNames) /\ DestinationThenOverwrite(type)
  BY OneHeader, NoHeader DEF HeaderNames
<1>5. /\ tag \in Seq(HeaderNames) /\ DestinationThenOverwrite(tag)
      /\ Conditional(c) => Len(tag) = 1 /\ tag[1] \in Preconditions
  <2>1. CASE c.ifMatch
    BY <2>1, OneHeader DEF HeaderNames, Preconditions
  <2>2. CASE ~c.ifMatch /\ c.ifNoneMatch
    BY <2>2, OneHeader DEF HeaderNames, Preconditions
  <2>3. CASE ~c.ifMatch /\ ~c.ifNoneMatch
    BY <2>3, NoHeader DEF Conditional
  <2> QED
    BY <2>1, <2>2, <2>3
<1>6. /\ last \in Seq(HeaderNames) /\ DestinationThenOverwrite(last)
      /\ Len(last) = 1 /\ last[1] = "Accept"
  BY OneHeader DEF HeaderNames
<1> HIDE DEF depth, move, type, tag, last
<1>7. others \in Seq(HeaderNames) /\ DestinationThenOverwrite(others)
  BY <1>2, <1>3, <1>4, JoinedInOrder, Zenon
<1> HIDE DEF others
<1>8. others \o tag \in Seq(HeaderNames) /\ DestinationThenOverwrite(others \o tag)
  BY <1>5, <1>7, JoinedInOrder, Zenon
<1>9. /\ (others \o tag) \o last \in Seq(HeaderNames)
      /\ DestinationThenOverwrite((others \o tag) \o last)
  BY <1>6, <1>8, JoinedInOrder, Zenon
<1>10. AcceptIsLast((others \o tag) \o last)
  <2> DEFINE a == others \o tag
  <2> HIDE DEF a
  <2>1. a \in Seq(HeaderNames)
    BY <1>8 DEF a
  <2>2. AcceptIsLast(a \o last)
    <3>1. /\ Len(a) \in Nat /\ Len(a \o last) = Len(a) + 1
          /\ (a \o last)[Len(a) + 1] = last[1]
      BY <2>1, <1>6, Joined
    <3> QED
      BY <3>1, <1>6 DEF AcceptIsLast
  <2> QED
    BY <2>2 DEF a
<1>11. ASSUME Conditional(c)
       PROVE  PreconditionIsLast((others \o tag) \o last)
  <2> DEFINE a == others \o tag
  <2>1. /\ a \in Seq(HeaderNames) /\ Len(a) >= 1
        /\ a[Len(a)] \in Preconditions
    <3>1. Len(tag) = 1 /\ tag[1] \in Preconditions /\ 1 \in 1..Len(tag)
      BY <1>5, <1>11
    <3>2. /\ a \in Seq(HeaderNames) /\ Len(others) \in Nat
          /\ Len(a) = Len(others) + 1 /\ a[Len(others) + 1] = tag[1]
      BY <1>5, <1>7, <3>1, Joined
    <3> QED
      BY <3>1, <3>2
  <2> HIDE DEF a
  <2>2. PreconditionIsLast(a \o last)
    <3>1. /\ Len(a) \in Nat /\ Len(a \o last) = Len(a) + 1
          /\ (a \o last)[Len(a)] = a[Len(a)]
      BY <2>1, <1>6, Joined
    <3> QED
      BY <2>1, <3>1 DEF PreconditionIsLast
  <2> QED
    BY <2>2 DEF a
<1> QED
  BY <1>1, <1>9, <1>10, <1>11

(* The headers that are left once the first n have been tried. *)
LEMMA Remaining ==
    ASSUME NEW h \in Seq(HeaderNames), NEW n \in 0..Len(h)
    PROVE  LET rest == SubSeq(h, n + 1, Len(h)) IN
           /\ rest = <<>> => n = Len(h)
           /\ rest # <<>> => /\ n + 1 \in 1..Len(h)
                             /\ Head(rest) = h[n + 1]
                             /\ Tail(rest) = SubSeq(h, (n + 1) + 1, Len(h))
<1> DEFINE rest == SubSeq(h, n + 1, Len(h))
           next == SubSeq(h, (n + 1) + 1, Len(h))
<1>1. Len(h) \in Nat /\ n \in Nat /\ \A i \in 1..Len(h) : h[i] \in HeaderNames
  OBVIOUS
<1>2. /\ rest \in Seq(HeaderNames) /\ Len(rest) = Len(h) - n
      /\ \A i \in 1..(Len(h) - n) : rest[i] = h[n + i]
  BY <1>1, SubSeqProperties
<1>3. /\ next \in Seq(HeaderNames)
      /\ Len(next) = IF n < Len(h) THEN Len(h) - n - 1 ELSE 0
      /\ \A i \in 1..(Len(h) - n - 1) : next[i] = h[n + 1 + i]
  BY <1>1, SubSeqProperties
<1> HIDE DEF rest, next
<1>4. ASSUME rest # <<>>
      PROVE  /\ n + 1 \in 1..Len(h)
             /\ Head(rest) = h[n + 1]
             /\ Tail(rest) = next
  <2>1. n < Len(h)
    BY <1>1, <1>2, <1>4
  <2>2. rest[1] = h[n + 1]
    BY <1>1, <1>2, <2>1
  <2>3. /\ Head(rest) = rest[1]
        /\ Tail(rest) \in Seq(HeaderNames) /\ Len(Tail(rest)) = Len(h) - n - 1
        /\ \A i \in 1..(Len(h) - n - 1) : Tail(rest)[i] = rest[i + 1]
    BY <1>2, <1>4
  <2>4. ASSUME NEW i \in 1..(Len(h) - n - 1)
        PROVE  Tail(rest)[i] = next[i]
    <3>1. i + 1 \in 1..(Len(h) - n) /\ n + (i + 1) = n + 1 + i
      BY <1>1
    <3> QED
      BY <1>2, <1>3, <2>3, <3>1
  <2>5. Tail(rest) = next
    <3>1. Len(Tail(rest)) = Len(next) /\ Len(next) = Len(h) - n - 1
      BY <1>1, <1>3, <2>1, <2>3
    <3>2. \A i \in 1..Len(Tail(rest)) : Tail(rest)[i] = next[i]
      BY <2>4, <3>1
    <3> QED
      BY <1>3, <2>3, <3>1, <3>2, SeqEqual, Zenon
  <2> QED
    BY <1>1, <2>1, <2>2, <2>3, <2>5
<1>5. rest = <<>> => n = Len(h)
  BY <1>1, <1>2
<1> QED
  BY <1>4, <1>5, Zenon DEF rest, next

-----------------------------------------------------------------------------
(* Types. *)

LEMMA ResolveURL ==
    ASSUME NEW base \in URLs, NEW href \in Hrefs, Resolvable(base, href)
    PROVE  Resolve(base, href) \in URLs
  BY DEF Resolve, Resolvable, Hrefs, Relative, Unparsable

LEMMA ResponseChanges ==
    ASSUME NEW r \in ResponseType
    PROVE  /\ ResponseClear(r) \in ResponseType
           /\ Aged(r) \in ResponseType
<1>1. ResponseClear(r) \in ResponseType
  BY DEF ResponseClear, Cleared, ResponseType, Hrefs, Relative
<1>2. /\ [f \in Fields |-> IF r.field[f] = {} THEN {} ELSE {0}] \in [Fields -> SUBSET Nat]
      /\ (IF r.from = {} THEN {} ELSE {0}) \in SUBSET Nat
  OBVIOUS
<1>3. Aged(r) \in ResponseType
  BY <1>2 DEF Aged, ResponseType
<1> QED
  BY <1>1, <1>3

(* Every step keeps the types; what is appended comes from Headers(call).  *)
LEMMA TypeStep ==
    ASSUME TypeOK, HeadersInv, [Next]_vars
    PROVE  TypeOK'
<1> USE HTTPAssumption
<1>1. /\ call \in AcceptedCalls /\ currentURL \in URLs
      /\ redirectCount \in 0..RedirectLimit
      /\ headers \subseteq HeaderNames
      /\ response \in ResponseType
      /\ exceededLimit \in BOOLEAN /\ failed \in BOOLEAN /\ stop \in BOOLEAN
      /\ offered \in Nat
      /\ sent \in Seq(SentType)
  BY DEF TypeOK
<1>2. \A c \in AcceptedCalls : c.url \in URLs
  BY AcceptedShape DEF CallType
<1>3. CASE UNCHANGED vars
  BY <1>3 DEF TypeOK, vars
<1>4. ASSUME NEW c \in AcceptedCalls, Begin(c)
      PROVE  TypeOK'
  <2>1. Aged(response) \in ResponseType
    BY <1>1, ResponseChanges
  <2>2. <<>> \in Seq(SentType)
    OBVIOUS
  <2> QED
    <3>1. /\ pc' = "validate" /\ call' = c /\ currentURL' = c.url
          /\ redirectCount' = 0 /\ headers' = {} /\ sent' = <<>> /\ offered' = 0
          /\ response' \in ResponseType
      BY <1>4, <2>1 DEF Begin
    <3>2. exceededLimit' \in BOOLEAN /\ failed' \in BOOLEAN /\ stop' \in BOOLEAN
      BY <1>1, <1>4 DEF Begin
    <3>3. c.url \in URLs /\ 0 \in 0..RedirectLimit
      BY <1>2
    <3> QED
      BY <2>2, <3>1, <3>2, <3>3 DEF TypeOK
<1>5. CASE Validate
  <2>1. ResponseClear(response) \in ResponseType
    BY <1>1, ResponseChanges
  <2>2. CASE Return("failure") /\ UNCHANGED response
    BY <1>1, <2>2 DEF Return, TypeOK
  <2>3. CASE /\ pc' = "headers" /\ response' = ResponseClear(response)
             /\ headers' = {} /\ offered' = 0
             /\ exceededLimit' = FALSE /\ failed' = FALSE
             /\ UNCHANGED <<call, currentURL, redirectCount, stop, sent>>
    <3>1. headers' \subseteq HeaderNames /\ offered' \in Nat
      BY <2>3
    <3>2. response' \in ResponseType
      BY <2>1, <2>3
    <3>3. exceededLimit' \in BOOLEAN /\ failed' \in BOOLEAN /\ stop' \in BOOLEAN
      BY <1>1, <2>3
    <3> QED
      BY <1>1, <2>3, <3>1, <3>2, <3>3 DEF TypeOK
  <2> QED
    BY <1>5, <2>2, <2>3 DEF Validate
<1>6. CASE AppendHeader
  <2>1. Head(todo) \in HeaderNames
    <3>1. PICK n \in 0..Len(Headers(call)) : After(call, n, todo, headers)
      BY <1>6 DEF AppendHeader, HeadersInv
    <3>2. Headers(call) \in Seq(HeaderNames)
      BY HeaderOrder
    <3>3. n + 1 \in 1..Len(Headers(call)) /\ Head(todo) = Headers(call)[n + 1]
      BY <1>6, <3>1, <3>2, Remaining DEF After, AppendHeader
    <3> QED
      BY <3>2, <3>3
  <2> QED
    BY <1>1, <1>6, <2>1 DEF AppendHeader, TypeOK
<1>7. CASE AppendFails
  BY <1>1, <1>7 DEF AppendFails, FailedAppend, Return, TypeOK
<1>8. CASE SetupFails
  BY <1>1, <1>8 DEF SetupFails, Return, TypeOK
<1>9. CASE Perform
  <2>1. [url |-> currentURL, headers |-> headers] \in SentType
    BY <1>1 DEF SentType
  <2>2. sent' \in Seq(SentType)
    <3>1. CASE UNCHANGED sent
      BY <1>1, <3>1
    <3>2. CASE sent' = Append(sent, [url |-> currentURL, headers |-> headers])
      BY <1>1, <2>1, <3>2, AppendProperties
    <3> QED
      BY <1>9, <3>1, <3>2 DEF Perform, StartTransfer
  <2> QED
    BY <1>1, <1>9, <2>2 DEF Perform, StartTransfer, TypeOK
<1>10. ASSUME NEW status \in {200, 302}, EndTransfer(status)
       PROVE  TypeOK'
  <2>1. [response EXCEPT !.status = status] \in ResponseType
    BY <1>1 DEF ResponseType
  <2> QED
    BY <1>1, <1>10, <2>1 DEF EndTransfer, TypeOK
<1>11. CASE BreakTransfer
  BY <1>1, <1>11 DEF BreakTransfer, TypeOK
<1>12. CASE Judge
  <2>1. CASE (Return("failure") \/ Return("success")) /\ UNCHANGED response
    BY <1>1, <2>1 DEF Return, TypeOK
  <2>2. CASE /\ redirectCount # RedirectLimit
             /\ Resolvable(currentURL, response.target)
             /\ currentURL' = Resolve(currentURL, response.target)
             /\ redirectCount' = NextCount(redirectCount)
             /\ pc' = "validate"
             /\ UNCHANGED <<call, headers, exceededLimit, failed, stop, sent,
                            offered, response>>
    <3>1. currentURL' \in URLs
      BY <1>1, <2>2, ResolveURL DEF ResponseType
    <3>2. redirectCount' \in 0..RedirectLimit
      BY <1>1, <2>2 DEF NextCount
    <3> QED
      BY <1>1, <2>2, <3>1, <3>2 DEF TypeOK
  <2> QED
    BY <1>12, <2>1, <2>2 DEF Judge
<1>13. ASSUME NEW f \in Fields, NEW h \in Hrefs, ReceiveHeader(f, h)
       PROVE  TypeOK'
  <2>1. Len(sent) \in Nat /\ {Len(sent)} \in SUBSET Nat
    BY <1>1
  <2>2. [response.field EXCEPT ![f] = {Len(sent)}] \in [Fields -> SUBSET Nat]
    BY <1>1, <2>1 DEF ResponseType
  <2>3. (IF f = "location" THEN h ELSE response.target) \in Hrefs
    BY <1>1 DEF ResponseType
  <2>4. response' \in ResponseType
    BY <1>1, <1>13, <2>2, <2>3 DEF ReceiveHeader, ResponseType
  <2> QED
    BY <1>1, <1>13, <2>4 DEF ReceiveHeader, TypeOK
<1>14. ASSUME NEW n \in ChunkSizes, ReceiveBody(n)
       PROVE  TypeOK'
  <2>1. n \in Nat /\ offered' \in Nat
    BY <1>1, <1>14 DEF ReceiveBody
  <2>2. response' \in ResponseType
    <3>1. Len(sent) \in Nat
      BY <1>1
    <3>2. response.length + n \in Nat /\ response.from \cup {Len(sent)} \in SUBSET Nat
      BY <1>1, <2>1, <3>1 DEF ResponseType
    <3>3. [response EXCEPT !.length = response.length + n,
                           !.from = response.from \cup {Len(sent)}] \in ResponseType
      BY <1>1, <3>2 DEF ResponseType
    <3>4. \/ response' = [response EXCEPT !.length = response.length + n,
                                         !.from = response.from \cup {Len(sent)}]
          \/ response' = response
      BY <1>14 DEF ReceiveBody
    <3> QED
      BY <1>1, <3>3, <3>4
  <2>3. exceededLimit' \in BOOLEAN
    BY <1>1, <1>14 DEF ReceiveBody
  <2> QED
    BY <1>1, <1>14, <2>1, <2>2, <2>3 DEF ReceiveBody, TypeOK
<1>15. CASE RequestStop
  BY <1>1, <1>15 DEF RequestStop, TypeOK
<1> QED
  BY <1>3, <1>4, <1>5, <1>6, <1>7, <1>8, <1>9, <1>10, <1>11, <1>12, <1>13,
     <1>14, <1>15 DEF Next, Step

-----------------------------------------------------------------------------
(* The header list. *)

LEMMA NothingAppended ==
    ASSUME NEW c
    PROVE  0 \in 0..Len(Headers(c)) /\ After(c, 0, Headers(c), {})
<1> DEFINE h == Headers(c)
<1>1. /\ h \in Seq(HeaderNames) /\ Len(h) \in Nat
      /\ Conditional(c) => Len(h) >= 2
  BY HeaderOrder DEF PreconditionIsLast
<1>2. h = SubSeq(h, 0 + 1, Len(h))
  BY <1>1
<1> HIDE DEF h
<1>3. Conditional(c) => ~(0 >= Len(h) - 1)
  BY <1>1
<1> QED
  BY <1>1, <1>2, <1>3 DEF After, h

(* The next append, made or failed, leads to the next place in the order.  *)
LEMMA NextAppended ==
    ASSUME NEW c, NEW n \in 0..Len(Headers(c)), NEW rest, NEW list,
           After(c, n, rest, list), rest # <<>>
    PROVE  /\ n + 1 \in 0..Len(Headers(c))
           /\ After(c, n + 1, Tail(rest), list \cup {Head(rest)})
           /\ Head(rest) \notin Checked => After(c, n + 1, Tail(rest), {})
<1> DEFINE h == Headers(c)
<1>1. /\ h \in Seq(HeaderNames)
      /\ DestinationThenOverwrite(h)
      /\ AcceptIsLast(h)
      /\ Conditional(c) => PreconditionIsLast(h)
  BY HeaderOrder
<1>2. /\ n + 1 \in 1..Len(h)
      /\ Head(rest) = h[n + 1]
      /\ Tail(rest) = SubSeq(h, (n + 1) + 1, Len(h))
  BY <1>1, Remaining DEF After
<1>3. /\ Conditional(c) /\ n >= Len(h) - 1 => list \cap Preconditions # {}
      /\ "Destination" \in list =>
            "Overwrite" \in list \/ (n > 0 /\ h[n] = "Destination")
  BY DEF After
<1>4. n \in Nat /\ Len(h) \in Nat
  BY <1>1
<1> HIDE DEF h
<1>5. ASSUME Conditional(c), n + 1 >= Len(h) - 1
      PROVE  (list \cup {Head(rest)}) \cap Preconditions # {}
  <2>1. CASE n >= Len(h) - 1
    BY <1>3, <1>5, <2>1
  <2>2. CASE n + 1 = Len(h) - 1
    BY <1>1, <1>2, <1>5, <2>2 DEF PreconditionIsLast
  <2> QED
    BY <1>4, <1>5, <2>1, <2>2
<1>6. ASSUME "Destination" \in list \cup {Head(rest)}
      PROVE  \/ "Overwrite" \in list \cup {Head(rest)}
             \/ n + 1 > 0 /\ h[n + 1] = "Destination"
  <2>1. CASE Head(rest) = "Destination"
    BY <1>2, <1>4, <2>1
  <2>2. CASE n > 0 /\ h[n] = "Destination"
    <3>1. n \in 1..Len(h)
      BY <1>2, <1>4, <2>2
    <3> QED
      BY <1>1, <1>2, <2>2, <3>1 DEF DestinationThenOverwrite
  <2> QED
    BY <1>3, <1>6, <2>1, <2>2
<1>7. ASSUME Head(rest) \notin Checked, Conditional(c)
      PROVE  ~(n + 1 >= Len(h) - 1)
  <2>1. Len(h) >= 2 /\ h[Len(h) - 1] \in Checked /\ h[Len(h)] \in Checked
    BY <1>1, <1>7 DEF PreconditionIsLast, AcceptIsLast, Preconditions, Checked
  <2>2. n + 1 # Len(h) - 1 /\ n + 1 # Len(h)
    BY <1>2, <1>7, <2>1
  <2> QED
    BY <1>2, <1>4, <2>1, <2>2
<1>8. n + 1 \in 0..Len(h)
  BY <1>2, <1>4
<1>9. After(c, n + 1, Tail(rest), list \cup {Head(rest)})
  BY <1>2, <1>5, <1>6 DEF After, h
<1>10. Head(rest) \notin Checked => After(c, n + 1, Tail(rest), {})
  BY <1>2, <1>7 DEF After, h
<1> QED
  BY <1>8, <1>9, <1>10 DEF h

LEMMA AllAppended ==
    ASSUME NEW c, NEW n \in 0..Len(Headers(c)), NEW list, After(c, n, <<>>, list)
    PROVE  /\ Conditional(c) => list \cap Preconditions # {}
           /\ "Destination" \in list => "Overwrite" \in list
<1> DEFINE h == Headers(c)
<1>1. h \in Seq(HeaderNames) /\ AcceptIsLast(h) /\ Len(h) \in Nat
  BY HeaderOrder
<1>2. n = Len(h)
  BY <1>1, Remaining DEF After
<1>3. h[n] = "Accept"
  BY <1>1, <1>2 DEF AcceptIsLast
<1> HIDE DEF h
<1>4. n >= Len(h) - 1
  BY <1>1, <1>2
<1> QED
  BY <1>3, <1>4 DEF After, h

LEMMA HeadersStep ==
    ASSUME TypeOK, HeadersInv, [Next]_vars
    PROVE  HeadersInv'
<1>1. CASE UNCHANGED <<pc, call, todo, headers>>
  BY <1>1 DEF HeadersInv
<1>2. CASE pc' # "headers"
  BY <1>2 DEF HeadersInv
<1>3. CASE Validate
  <2>1. CASE /\ call' = call /\ todo' = Headers(call) /\ headers' = {}
    BY <2>1, NothingAppended DEF HeadersInv
  <2> QED
    BY <1>2, <1>3, <2>1 DEF Validate, Return
<1>4. CASE pc = "headers" /\ todo # <<>> /\ (AppendHeader \/ AppendFails)
  <2>1. PICK n \in 0..Len(Headers(call)) : After(call, n, todo, headers)
    BY <1>4 DEF HeadersInv
  <2>2. /\ n + 1 \in 0..Len(Headers(call))
        /\ After(call, n + 1, Tail(todo), headers \cup {Head(todo)})
        /\ Head(todo) \notin Checked => After(call, n + 1, Tail(todo), {})
    BY <1>4, <2>1, NextAppended
  <2>3. CASE /\ call' = call /\ todo' = Tail(todo)
             /\ \/ headers' = headers \cup {Head(todo)}
                \/ headers' = {} /\ Head(todo) \notin Checked
    <3>1. n + 1 \in 0..Len(Headers(call')) /\ After(call', n + 1, todo', headers')
      BY <2>2, <2>3
    <3> QED
      BY <3>1 DEF HeadersInv
  <2> QED
    BY <1>2, <1>4, <2>3 DEF AppendHeader, AppendFails, FailedAppend, Return
<1>5. CASE SetupFails \/ Perform \/ BreakTransfer \/ Judge
           \/ \E status \in {200, 302} : EndTransfer(status)
  BY <1>2, <1>5 DEF SetupFails, Perform, StartTransfer, BreakTransfer, Judge,
                    EndTransfer, Return
<1>6. CASE RequestStop \/ (\E f \in Fields, h \in Hrefs : ReceiveHeader(f, h))
           \/ \E k \in ChunkSizes : ReceiveBody(k)
  BY <1>1, <1>6 DEF RequestStop, ReceiveHeader, ReceiveBody
<1>7. CASE \E c \in AcceptedCalls : Begin(c)
  BY <1>2, <1>7 DEF Begin
<1>8. CASE UNCHANGED vars
  BY <1>1, <1>8 DEF vars
<1> QED
  BY <1>3, <1>4, <1>5, <1>6, <1>7, <1>8 DEF Next, Step, AppendHeader, AppendFails

-----------------------------------------------------------------------------
(* What is sent. *)

LEMMA DestinationStep ==
    ASSUME DestinationInv, [Next]_vars
    PROVE  DestinationInv'
<1>1. CASE UNCHANGED <<pc, currentURL>>
  BY <1>1 DEF DestinationInv
<1>2. CASE pc' # "headers"
  BY <1>2 DEF DestinationInv
<1>3. CASE Validate
  <2>1. CASE ValidDestination(currentURL) /\ currentURL' = currentURL
    BY <2>1 DEF DestinationInv
  <2> QED
    BY <1>2, <1>3, <2>1 DEF Validate, Return
<1>4. CASE AppendHeader \/ AppendFails
  BY <1>1, <1>2, <1>4 DEF AppendHeader, AppendFails, Return
<1>5. CASE SetupFails \/ Perform \/ BreakTransfer \/ Judge
           \/ \E status \in {200, 302} : EndTransfer(status)
  BY <1>2, <1>5 DEF SetupFails, Perform, StartTransfer, BreakTransfer, Judge,
                    EndTransfer, Return
<1>6. CASE RequestStop \/ (\E f \in Fields, h \in Hrefs : ReceiveHeader(f, h))
           \/ \E k \in ChunkSizes : ReceiveBody(k)
  BY <1>1, <1>6 DEF RequestStop, ReceiveHeader, ReceiveBody
<1>7. CASE \E c \in AcceptedCalls : Begin(c)
  BY <1>2, <1>7 DEF Begin
<1>8. CASE UNCHANGED vars
  BY <1>1, <1>8 DEF vars
<1> QED
  BY <1>3, <1>4, <1>5, <1>6, <1>7, <1>8 DEF Next, Step

(* Only Begin and Perform change what was sent. *)
LEMMA SentChanges ==
    ASSUME [Next]_vars, ~Perform
    PROVE  UNCHANGED sent \/ \E c \in AcceptedCalls : Begin(c)
  BY DEF Next, Step, Validate, AppendHeader, AppendFails, SetupFails, EndTransfer,
         BreakTransfer, Judge, ReceiveHeader, ReceiveBody, RequestStop, Return, vars

(* A performed request: one more, of this hop's URL and list. *)
LEMMA Performed ==
    ASSUME TypeOK, Perform
    PROVE  /\ pc = "headers" /\ todo = <<>>
           /\ UNCHANGED <<call, currentURL>>
           /\ pc' \in {"transfer", "judge"}
           /\ \/ sent' = sent
              \/ /\ Len(sent') = Len(sent) + 1
                 /\ DOMAIN sent' = DOMAIN sent \cup {Len(sent) + 1}
                 /\ \A i \in DOMAIN sent : sent'[i] = sent[i]
                 /\ sent'[Len(sent) + 1] = [url |-> currentURL, headers |-> headers]
<1> DEFINE request == [url |-> currentURL, headers |-> headers]
<1>1. request \in SentType /\ sent \in Seq(SentType) /\ Len(sent) \in Nat
  BY DEF TypeOK, SentType
<1>2. CASE sent' = Append(sent, request)
  <2> HIDE DEF request
  <2>1. /\ Len(sent') = Len(sent) + 1 /\ sent' \in Seq(SentType)
        /\ \A i \in 1..Len(sent) : sent'[i] = sent[i]
        /\ sent'[Len(sent) + 1] = request
    BY <1>1, <1>2, AppendProperties
  <2>2. DOMAIN sent = 1..Len(sent) /\ DOMAIN sent' = 1..(Len(sent) + 1)
    BY <1>1, <2>1
  <2> QED
    BY <1>1, <2>1, <2>2 DEF Perform, StartTransfer, request
<1> QED
  BY <1>2 DEF Perform, StartTransfer

LEMMA CredentialsStep ==
    ASSUME TypeOK, DestinationInv, CredentialsStayHome, [Next]_vars
    PROVE  CredentialsStayHome'
<1>1. CASE Perform
  <2>1. ValidDestination(currentURL)
    BY <1>1 DEF Perform, DestinationInv
  <2> QED
    BY <1>1, <2>1, Performed DEF CredentialsStayHome, ValidDestination
<1>2. CASE \E c \in AcceptedCalls : Begin(c)
  BY <1>2 DEF Begin, CredentialsStayHome
<1>3. CASE UNCHANGED sent
  BY <1>3 DEF CredentialsStayHome
<1> QED
  BY <1>1, <1>2, <1>3, SentChanges

LEMMA SentOnceStep ==
    ASSUME TypeOK, HeadersInv, SentOnceInv, [Next]_vars
    PROVE  SentOnceInv'
<1>1. CASE \E c \in AcceptedCalls : Begin(c)
  BY <1>1 DEF Begin, SentOnceInv
<1>2. CASE Perform
  <2>1. ASSUME Conditional(call)
        PROVE  /\ currentURL = call.url /\ sent = <<>>
               /\ SafelySent([url |-> currentURL, headers |-> headers])
    <3>1. PICK n \in 0..Len(Headers(call)) : After(call, n, <<>>, headers)
      BY <1>2 DEF Perform, HeadersInv
    <3>2. /\ headers \cap Preconditions # {}
          /\ "Destination" \in headers => "Overwrite" \in headers
      BY <2>1, <3>1, AllAppended
    <3> QED
      BY <1>2, <2>1, <3>2 DEF Perform, SentOnceInv, SafelySent
  <2>2. ASSUME Conditional(call')
        PROVE  /\ currentURL' = call'.url
               /\ Len(sent') <= 1
               /\ \A i \in DOMAIN sent' : SafelySent(sent[i])'
    <3>1. call' = call /\ currentURL' = currentURL
      BY <1>2 DEF Perform
    <3>2. /\ currentURL = call.url /\ sent = <<>>
          /\ SafelySent([url |-> currentURL, headers |-> headers])
      BY <2>1, <2>2, <3>1
    <3>3. Len(sent) = 0 /\ DOMAIN sent = {}
      BY <3>2
    <3>4. CASE sent' = sent
      BY <3>1, <3>2, <3>3, <3>4
    <3>5. CASE /\ Len(sent') = 1 /\ DOMAIN sent' = {1}
               /\ sent'[1] = [url |-> currentURL, headers |-> headers]
      BY <3>1, <3>2, <3>5 DEF SafelySent
    <3>6. \/ sent' = sent
          \/ /\ Len(sent') = 1 /\ DOMAIN sent' = {1}
             /\ sent'[1] = [url |-> currentURL, headers |-> headers]
      BY <1>2, <3>3, Performed
    <3> QED
      BY <3>4, <3>5, <3>6
  <2>3. pc' \notin {"idle", "validate", "headers"}
    BY <1>2 DEF Perform, StartTransfer
  <2> QED
    BY <2>2, <2>3 DEF SentOnceInv
<1>3. CASE UNCHANGED <<call, currentURL, sent>>
           /\ (pc' \in {"idle", "validate", "headers"} =>
                    pc \in {"idle", "validate", "headers"})
  BY <1>3 DEF SentOnceInv, SafelySent
<1>4. CASE Judge
  <2>1. CASE Follows(call, response.status)
    <3>1. ~Conditional(call) /\ call' = call
      BY <1>4, <2>1 DEF Follows, Conditional, Judge, Return
    <3> QED
      BY <3>1 DEF SentOnceInv
  <2>2. CASE ~Follows(call, response.status)
    BY <1>3, <1>4, <2>2 DEF Judge, Return
  <2> QED
    BY <2>1, <2>2
<1>5. CASE Validate \/ AppendHeader \/ AppendFails \/ SetupFails
  BY <1>3, <1>5 DEF Validate, AppendHeader, AppendFails, SetupFails, Return
<1>6. CASE BreakTransfer \/ (\E status \in {200, 302} : EndTransfer(status))
           \/ RequestStop \/ (\E f \in Fields, h \in Hrefs : ReceiveHeader(f, h))
           \/ \E k \in ChunkSizes : ReceiveBody(k)
  BY <1>3, <1>6 DEF BreakTransfer, EndTransfer, RequestStop, ReceiveHeader, ReceiveBody
<1>7. CASE UNCHANGED vars
  BY <1>3, <1>7 DEF vars
<1> QED
  BY <1>1, <1>2, <1>4, <1>5, <1>6, <1>7 DEF Next, Step

-----------------------------------------------------------------------------
(* The theorems. *)

LEMMA ClientInit == Init => ClientInv
<1> SUFFICES ASSUME Init PROVE ClientInv
  OBVIOUS
<1> USE HTTPAssumption
<1> DEFINE u == CHOOSE u \in URLs : TRUE
<1>1. u \in URLs
  <2>1. PICK h \in Hosts : TRUE
    OBVIOUS
  <2>2. [https |-> TRUE, host |-> h, user |-> FALSE] \in URLs
    BY DEF URLs
  <2> QED
    BY <2>2, Zenon
<1>2. call = Arguments("PROPFIND", u, FALSE, FALSE, FALSE)
  BY DEF Init
<1> HIDE DEF u
<1>3. call \in PlainCalls
  <2>1. "PROPFIND" \in {x \in Methods : RequestAccepts(x)}
    BY DEF Methods, Mutations, RequestAccepts
  <2> DEFINE S(m) == {Arguments(m, v, FALSE, FALSE, FALSE) : v \in URLs}
  <2>2. call \in S("PROPFIND")
    BY <1>1, <1>2
  <2> HIDE DEF S
  <2>3. call \in UNION {S(m) : m \in {x \in Methods : RequestAccepts(x)}}
    BY <2>1, <2>2
  <2> QED
    BY <2>3 DEF S, PlainCalls
<1>4. call.url \in URLs /\ ~Conditional(call)
  BY <1>1, <1>2 DEF Arguments, Conditional
<1>5. Cleared \in ResponseType
  BY DEF Cleared, ResponseType, Hrefs, Relative
<1>6. <<>> \in Seq(SentType) /\ DOMAIN <<>> = {} /\ 0 \in 0..RedirectLimit
  OBVIOUS
<1>7. TypeOK
  BY <1>3, <1>4, <1>5, <1>6 DEF Init, TypeOK, AcceptedCalls
<1>8. HeadersInv /\ DestinationInv /\ SentOnceInv
  BY <1>4 DEF Init, HeadersInv, DestinationInv, SentOnceInv
<1>9. CredentialsStayHome
  BY <1>6 DEF Init, CredentialsStayHome
<1> QED
  BY <1>7, <1>8, <1>9 DEF ClientInv

(* The invariant is inductive: it holds of every call, of any client.      *)
THEOREM ClientInvariant == Spec => []ClientInv
<1>1. ClientInv /\ [Next]_vars => ClientInv'
  BY TypeStep, HeadersStep, DestinationStep, SentOnceStep, CredentialsStep DEF ClientInv
<1> QED
  BY ClientInit, <1>1, PTL DEF Spec

(* Every variable of a call keeps its type, whatever the server answers.   *)
THEOREM ClientTypes == Spec => []TypeOK
<1>1. ClientInv => TypeOK
  BY DEF ClientInv
<1> QED
  BY ClientInvariant, <1>1, PTL

(* The password never leaves for a host that is not allowed, nor in the     *)
(* clear, for any set of hosts and any number of redirects: RCRequest only  *)
(* performs a hop whose URL RCValidateDestination has just accepted.        *)
THEOREM CredentialsStay == Spec => []CredentialsStayHome
<1>1. ClientInv => CredentialsStayHome
  BY DEF ClientInv
<1> QED
  BY ClientInvariant, <1>1, PTL

(* A mutation is sent at most once, to the URL it was called for, with its  *)
(* precondition, and a MOVE with Overwrite: F, however the server answers   *)
(* and whichever allocation fails.                                          *)
THEOREM MutationsAreSentOnce == Spec => []MutationSentOnce
<1>1. ClientInv => MutationSentOnce
  <2> SUFFICES ASSUME ClientInv, call.method \in Mutations
               PROVE  /\ Len(sent) <= 1
                      /\ \A i \in DOMAIN sent : SafelySent(sent[i])
    BY DEF MutationSentOnce, SafelySent, Preconditions
  <2>1. Conditional(call)
    BY AcceptedShape DEF ClientInv, TypeOK
  <2> QED
    BY <2>1 DEF ClientInv, SentOnceInv
<1> QED
  BY ClientInvariant, <1>1, PTL
=============================================================================
