------------------------------ MODULE HTTPClient ------------------------------
(***************************************************************************)
(* RCHTTPClient.c: one DAV request over libcurl, from the entry point that *)
(* accepts it to the response it hands back.  RCRequest loops over hops:   *)
(* check the destination, clear the response, build the header list, let   *)
(* libcurl perform the transfer (which calls RCReceiveHeader and           *)
(* RCReceiveBody as the answer arrives), then return, fail or follow the   *)
(* redirect.  The daemon's stop flag may be raised between any two steps,  *)
(* and every allocation may fail.                                          *)
(*                                                                         *)
(* A URL is its scheme, its host and whether it names a user.  Header      *)
(* values and body bytes are known by the request of the call they answer, *)
(* 0 standing for a request of an earlier call on the same response.       *)
(***************************************************************************)
EXTENDS Naturals, Sequences, FiniteSets

CONSTANTS
    Hosts,                  \* the hosts a URL can name
    AllowedHosts,           \* those that end in client->allowedHostSuffix
    RedirectLimit,          \* RC_HTTP_REDIRECT_LIMIT
    MaximumBytes,           \* client->maximumResponseBytes
    ChunkSizes              \* the sizes of the blocks libcurl delivers

ASSUME HTTPAssumption ==
    /\ Hosts # {}
    /\ AllowedHosts \subseteq Hosts
    /\ RedirectLimit \in Nat
    /\ MaximumBytes \in Nat \ {0}
    /\ ChunkSizes \subseteq Nat

VARIABLES
    pc,             \* where RCRequest is
    call,           \* its arguments
    currentURL,
    redirectCount,
    todo, headers,  \* the headers still to append, the list built so far
    response,
    exceededLimit,  \* writeContext.exceededLimit
    failed,         \* curlResult is not CURLE_OK
    stop,           \* RCStopRequested
    sent,           \* the requests of this call that reached a server
    offered         \* the body bytes the server has sent in this hop

vars == <<pc, call, currentURL, redirectCount, todo, headers, response,
          exceededLimit, failed, stop, sent, offered>>

URLs == [https : BOOLEAN, host : Hosts, user : BOOLEAN]
Hrefs == URLs \cup {[relative |-> TRUE], [relative |-> FALSE]}
Relative == [relative |-> TRUE]     \* a path on the server that answered
Unparsable == [relative |-> FALSE]  \* a text libcurl rejects

Mutations == {"PUT", "DELETE", "MOVE", "MKCALENDAR"}
Methods == Mutations \cup {"PROPFIND", "GET"}
Fields == {"location", "etag"}

-----------------------------------------------------------------------------
(* Entry points. *)

Arguments(method, url, ifMatch, ifNoneMatch, destination) ==
    [method |-> method, url |-> url, ifMatch |-> ifMatch,
     ifNoneMatch |-> ifNoneMatch, destination |-> destination]

RequestAccepts(method) == method \notin Mutations

ConditionalAccepts(method, tag, ifNoneMatch, body) ==
    /\ method \in {"PUT", "DELETE", "MKCALENDAR"}
    /\ IF tag # "none" THEN tag = "strong" /\ ~ifNoneMatch ELSE ifNoneMatch
    /\ method = "MKCALENDAR" => tag = "none" /\ ifNoneMatch
    /\ method = "DELETE" => tag # "none" /\ ~body
    /\ method \in {"PUT", "MKCALENDAR"} => body

(* Faulty variant: only the scheme is checked. *)
SchemeOnly(url) == ~url.user /\ url.https

ValidDestination(url) ==
    /\ ~url.user
    /\ url.https
    /\ url.host \in AllowedHosts

PlainCalls ==
    UNION {{Arguments(m, u, FALSE, FALSE, FALSE) : u \in URLs} :
        m \in {x \in Methods : RequestAccepts(x)}}

ConditionalCalls ==
    UNION {{Arguments(a[1], u, a[2] # "none", a[3], FALSE) : u \in URLs} :
        a \in {a \in Methods \X {"none", "weak", "strong"} \X BOOLEAN :
                \E body \in BOOLEAN : ConditionalAccepts(a[1], a[2], a[3], body)}}

MoveCalls ==
    {Arguments("MOVE", u, TRUE, FALSE, TRUE) :
        u \in {source \in URLs : \E d \in URLs : ValidDestination(d)}}

AcceptedCalls == PlainCalls \cup ConditionalCalls \cup MoveCalls

-----------------------------------------------------------------------------
(* The response. *)

Cleared == [status |-> 0, field |-> [f \in Fields |-> {}], target |-> Relative,
            length |-> 0, from |-> {}]

ResponseClear(r) == Cleared

(* What an earlier call may have left in the caller's response: its fields  *)
(* and its body, whatever request they answered, are the earlier call's.   *)
Aged(r) ==
    [r EXCEPT !.field = [f \in Fields |-> IF r.field[f] = {} THEN {} ELSE {0}],
              !.from = IF r.from = {} THEN {} ELSE {0}]

Fits(length, count) == count <= MaximumBytes - length

-----------------------------------------------------------------------------
(* The header list; Overwrite stands for "Overwrite: F".                  *)

HeaderNames == {"Depth", "Destination", "Overwrite", "Content-Type",
                "If-Match", "If-None-Match", "Accept"}

Headers(c) ==
    (IF c.method = "PROPFIND" THEN <<"Depth">> ELSE <<>>)
    \o (IF c.destination THEN <<"Destination", "Overwrite">> ELSE <<>>)
    \o (IF c.method \in {"PROPFIND", "PUT", "MKCALENDAR"} THEN <<"Content-Type">> ELSE <<>>)
    \o (IF c.ifMatch THEN <<"If-Match">>
        ELSE IF c.ifNoneMatch THEN <<"If-None-Match">> ELSE <<>>)
    \o <<"Accept">>

(* The appends whose failure RCRequest notices. *)
Checked == {"If-Match", "If-None-Match", "Accept"}

(* The header whose text is first copied into a checked allocation. *)
Copied == {"Destination"}

(* curl_slist_append returns NULL when it fails, and the unchecked appends  *)
(* assign that: the list starts again from nothing.                         *)
FailedAppend(list) == {}

-----------------------------------------------------------------------------

Init ==
    /\ pc = "idle"
    /\ call = Arguments("PROPFIND", CHOOSE u \in URLs : TRUE, FALSE, FALSE, FALSE)
    /\ currentURL = call.url
    /\ redirectCount = 0
    /\ todo = <<>> /\ headers = {}
    /\ response = Cleared
    /\ exceededLimit = FALSE /\ failed = FALSE /\ stop = FALSE
    /\ sent = <<>> /\ offered = 0

Return(result) ==
    /\ pc' = result
    /\ UNCHANGED <<call, currentURL, redirectCount, todo, headers, exceededLimit,
                   failed, stop, sent, offered>>

Begin(c) ==
    /\ pc \in {"idle", "success", "failure"}
    /\ pc' = "validate"
    /\ call' = c /\ currentURL' = c.url /\ redirectCount' = 0
    /\ response' = Aged(response)
    /\ todo' = <<>> /\ headers' = {}
    /\ sent' = <<>> /\ offered' = 0
    /\ exceededLimit' = FALSE /\ failed' = FALSE
    /\ UNCHANGED stop

Validate ==
    /\ pc = "validate"
    /\ \/ /\ redirectCount > RedirectLimit \/ ~ValidDestination(currentURL)
          /\ Return("failure") /\ UNCHANGED response
       \/ /\ redirectCount <= RedirectLimit /\ ValidDestination(currentURL)
          /\ pc' = "headers"
          /\ response' = ResponseClear(response)
          /\ todo' = Headers(call) /\ headers' = {}
          /\ exceededLimit' = FALSE /\ failed' = FALSE /\ offered' = 0
          /\ UNCHANGED <<call, currentURL, redirectCount, stop, sent>>

AppendHeader ==
    /\ pc = "headers" /\ todo # <<>>
    /\ headers' = headers \cup {Head(todo)} /\ todo' = Tail(todo)
    /\ UNCHANGED <<pc, call, currentURL, redirectCount, response, exceededLimit,
                   failed, stop, sent, offered>>

AppendFails ==
    /\ pc = "headers" /\ todo # <<>>
    /\ \/ /\ Head(todo) \in Checked \cup Copied
          /\ Return("failure") /\ UNCHANGED response
       \/ /\ Head(todo) \notin Checked
          /\ headers' = FailedAppend(headers) /\ todo' = Tail(todo)
          /\ UNCHANGED <<pc, call, currentURL, redirectCount, response,
                         exceededLimit, failed, stop, sent, offered>>

(* curl_easy_init or one of the options fails: nothing is performed. *)
SetupFails ==
    /\ pc = "headers" /\ todo = <<>>
    /\ Return("failure") /\ UNCHANGED response

StartTransfer ==
    \/ /\ stop
       /\ failed' = TRUE /\ pc' = "judge"
       /\ UNCHANGED sent
    \/ /\ ~stop
       /\ sent' = Append(sent, [url |-> currentURL, headers |-> headers])
       /\ pc' = "transfer"
       /\ UNCHANGED failed

Perform ==
    /\ pc = "headers" /\ todo = <<>>
    /\ StartTransfer
    /\ UNCHANGED <<call, currentURL, redirectCount, todo, headers, response,
                   exceededLimit, stop, offered>>

ReceiveHeader(field, href) ==
    /\ pc = "transfer"
    /\ response' = [response EXCEPT
            !.field[field] = {Len(sent)},
            !.target = IF field = "location" THEN href ELSE @]
    /\ UNCHANGED <<pc, call, currentURL, redirectCount, todo, headers,
                   exceededLimit, failed, stop, sent, offered>>

(* A block that does not fit makes RCReceiveBody return 0 and libcurl give  *)
(* the transfer up.  Bound: the server stops at the first byte over.        *)
ReceiveBody(count) ==
    /\ pc = "transfer" /\ ~exceededLimit
    /\ offered <= MaximumBytes
    /\ offered' = offered + count
    /\ IF Fits(response.length, count)
       THEN /\ response' = [response EXCEPT !.length = @ + count,
                                            !.from = @ \cup {Len(sent)}]
            /\ UNCHANGED exceededLimit
       ELSE /\ exceededLimit' = TRUE
            /\ UNCHANGED response
    /\ UNCHANGED <<pc, call, currentURL, redirectCount, todo, headers, failed,
                   stop, sent>>

(* The transfer ends with a status, or breaks: a refused block, the         *)
(* progress callback seeing the stop flag, a timeout, a lost connection.    *)
EndTransfer(status) ==
    /\ pc = "transfer" /\ ~exceededLimit
    /\ response' = [response EXCEPT !.status = status]
    /\ pc' = "judge"
    /\ UNCHANGED <<call, currentURL, redirectCount, todo, headers, exceededLimit,
                   failed, stop, sent, offered>>

BreakTransfer ==
    /\ pc = "transfer"
    /\ failed' = TRUE
    /\ pc' = "judge"
    /\ UNCHANGED <<call, currentURL, redirectCount, todo, headers, response,
                   exceededLimit, stop, sent, offered>>

(* Faulty variant: a creation follows redirects. *)
FollowsCreation(c, status) == ~c.ifMatch /\ status \in {301, 302, 307, 308}

Follows(c, status) ==
    /\ ~c.ifMatch /\ ~c.ifNoneMatch
    /\ status \in {301, 302, 307, 308}

(* RCURLResolve: the base may name no user, the reference may. *)
Resolvable(base, href) == ~base.user /\ href # Unparsable

Resolve(base, href) == IF href = Relative THEN base ELSE href

NextCount(count) == count + 1

Judge ==
    /\ pc = "judge"
    /\ \/ /\ stop \/ failed
          /\ Return("failure")
       \/ /\ ~stop /\ ~failed
          /\ ~Follows(call, response.status)
          /\ Return("success")
       \/ /\ ~stop /\ ~failed
          /\ Follows(call, response.status)
          /\ \/ response.field["location"] = {}
             \/ redirectCount = RedirectLimit
             \/ ~Resolvable(currentURL, response.target)
          /\ Return("failure")
       \/ /\ ~stop /\ ~failed
          /\ Follows(call, response.status)
          /\ response.field["location"] # {}
          /\ redirectCount # RedirectLimit
          /\ Resolvable(currentURL, response.target)
          /\ currentURL' = Resolve(currentURL, response.target)
          /\ redirectCount' = NextCount(redirectCount)
          /\ pc' = "validate"
          /\ UNCHANGED <<call, todo, headers, exceededLimit, failed, stop, sent,
                         offered>>
    /\ UNCHANGED response

(* The stop signal's handler. *)
RequestStop ==
    /\ ~stop /\ stop' = TRUE
    /\ UNCHANGED <<pc, call, currentURL, redirectCount, todo, headers, response,
                   exceededLimit, failed, sent, offered>>

Step ==
    \/ Validate \/ AppendHeader \/ AppendFails \/ SetupFails \/ Perform
    \/ \E status \in {200, 302} : EndTransfer(status)
    \/ BreakTransfer \/ Judge

Next ==
    \/ \E c \in AcceptedCalls : Begin(c)
    \/ Step
    \/ \E f \in Fields, h \in Hrefs : ReceiveHeader(f, h)
    \/ \E n \in ChunkSizes : ReceiveBody(n)
    \/ RequestStop

(* Every step of RCRequest is bounded, and CURLOPT_TIMEOUT ends a transfer. *)
Fairness == WF_vars(Step)

Spec == Init /\ [][Next]_vars /\ Fairness

-----------------------------------------------------------------------------
(* Properties. *)

ResponseType == [status : {0, 200, 302}, field : [Fields -> SUBSET Nat],
                 target : Hrefs, length : Nat, from : SUBSET Nat]

SentType == [url : URLs, headers : SUBSET HeaderNames]

TypeOK ==
    /\ pc \in {"idle", "validate", "headers", "transfer", "judge", "success", "failure"}
    /\ call \in AcceptedCalls
    /\ currentURL \in URLs
    /\ redirectCount \in 0..RedirectLimit
    /\ headers \subseteq HeaderNames
    /\ response \in ResponseType
    /\ exceededLimit \in BOOLEAN /\ failed \in BOOLEAN /\ stop \in BOOLEAN
    /\ offered \in Nat
    /\ sent \in Seq(SentType)

(* The account's password goes only to an allowed host over HTTPS, on every *)
(* hop: RCRequest validates what RCURLResolve made of each Location before  *)
(* it gives libcurl the credentials (RCHTTPClient.c, RCValidateDestination).*)
CredentialsStayHome ==
    \A i \in DOMAIN sent :
        /\ sent[i].url.https /\ ~sent[i].url.user
        /\ sent[i].url.host \in AllowedHosts

(* A mutation reaches a server at most once per call, at the href the       *)
(* journal owns, never without its precondition and never to a destination  *)
(* it may overwrite: redirects of conditional requests are not followed, no *)
(* entry point sends a bare mutation, and however the appends fail the      *)
(* header list does not keep Destination and lose Overwrite: F              *)
(* (RCHTTPClient.h, "Conditional mutations never follow redirects").        *)
MutationSentOnce ==
    call.method \in Mutations =>
        /\ Len(sent) <= 1
        /\ \A i \in DOMAIN sent :
              /\ sent[i].url = call.url
              /\ sent[i].headers \cap {"If-Match", "If-None-Match"} # {}
              /\ "Destination" \in sent[i].headers => "Overwrite" \in sent[i].headers

=============================================================================
