----------------------------- MODULE MailProxy ------------------------------
(***************************************************************************)
(* The threads of the local mail proxy (RCMailProxy.c): the main thread    *)
(* that starts and stops it, one listener thread per service, and one      *)
(* detached thread per accepted connection.  They share the list of        *)
(* connections and the stopping flag under connectionMutex; every critical *)
(* section is one step, everything between two of them is another.         *)
(*                                                                         *)
(* The relayed bytes, TLS and SMTP dialogue are left out: what matters is  *)
(* which socket calls can still block.  A shutdown wakes every one of      *)
(* them; nothing wakes the resolver inside RCConnectToHost.                *)
(***************************************************************************)
EXTENDS Naturals

CONSTANTS
  Listeners,  \* the number of configured services, at most RC_MAX_LISTENERS
  Conns,      \* bound: connections accepted in the proxy's life
  NoConn

ASSUME ProxyConstants == Listeners \in 1 .. 2 /\ NoConn \notin Conns

VARIABLES
  main,      \* where the main thread is
  joined,    \* listeners joined and closed by RCStopProxy
  exiting,   \* RCMailProxyStopForExit rather than RCMailProxyStop
  woken,     \* the condition was signalled since the wait began
  freed,     \* the proxy has been freed
  stopping,  \* proxy->stopping
  linked,    \* proxy->connections
  lpc,       \* where each listener thread is
  lconn,     \* the connection it is setting up
  cpc,       \* where each connection thread is
  local,     \* the socket of the mail client
  remote     \* the socket to the mail server

mainVars == <<main, joined, exiting, woken, freed, stopping>>
connVars == <<linked, cpc, local, remote>>
proxyVars == <<mainVars, connVars, lpc, lconn>>

Services == 1 .. Listeners
Socket   == {"none", "open", "shut", "closed"}

ProxyInit ==
  /\ main = "starting" /\ joined = 0
  /\ exiting = FALSE /\ woken = FALSE /\ freed = FALSE /\ stopping = FALSE
  /\ linked = {}
  /\ lpc = [l \in Services |-> "none"] /\ lconn = [l \in Services |-> NoConn]
  /\ cpc = [c \in Conns |-> "none"]
  /\ local = [c \in Conns |-> "none"] /\ remote = [c \in Conns |-> "none"]

-----------------------------------------------------------------------------
(* Starting.                                                               *)

Made == {l \in Services : lpc[l] # "none"}

(* Each service in turn: bind, listen and start its thread.                *)
StartListener(l) ==
  /\ main = "starting" /\ Made = 1 .. (l - 1)
  /\ lpc' = [lpc EXCEPT ![l] = "check"]
  /\ UNCHANGED <<mainVars, connVars, lconn>>

Started ==
  /\ main = "starting" /\ Made = Services
  /\ main' = "running"
  /\ UNCHANGED <<joined, exiting, woken, freed, stopping, connVars, lpc, lconn>>

(* TLS set-up or a socket failed, or a thread could not be created and     *)
(* left its socket bound: RCMailProxyStop undoes what was started.         *)
StartFailed ==
  /\ main = "starting" /\ Made # Services
  /\ \/ UNCHANGED lpc
     \/ \E l \in Services : Made = 1 .. (l - 1) /\ lpc' = [lpc EXCEPT ![l] = "bound"]
  /\ main' = "stop"
  /\ UNCHANGED <<joined, exiting, woken, freed, stopping, connVars, lconn>>

-----------------------------------------------------------------------------
(* Stopping.                                                               *)

ShutLinked(socket) ==
  [c \in Conns |-> IF c \in linked /\ socket[c] = "open" THEN "shut" ELSE socket[c]]

RCMailProxyRequestStop(after) ==
  /\ stopping' = TRUE
  /\ local' = ShutLinked(local) /\ remote' = ShutLinked(remote)
  /\ main' = after
  /\ UNCHANGED <<joined, woken, freed, linked, cpc, lpc, lconn>>

(* The signal: the sync worker is stopped between this and StopForExit.    *)
RequestStop ==
  /\ main = "running"
  /\ RCMailProxyRequestStop("worker") /\ exiting' = TRUE

WorkerStopped ==
  /\ main = "worker"
  /\ main' = "stop"
  /\ UNCHANGED <<joined, exiting, woken, freed, stopping, connVars, lpc, lconn>>

StopProxy ==
  /\ main = "stop"
  /\ RCMailProxyRequestStop("joining") /\ UNCHANGED exiting

(* Listeners are joined in order, and their sockets closed.                *)
JoinListener ==
  /\ main = "joining"
  /\ LET l == joined + 1 IN
     IF l \in Made
     THEN /\ lpc[l] \in {"ended", "bound"}
          /\ joined' = l /\ lpc' = [lpc EXCEPT ![l] = "closed"] /\ UNCHANGED main
     ELSE main' = "drain" /\ UNCHANGED <<joined, lpc>>
  /\ UNCHANGED <<exiting, woken, freed, stopping, connVars, lconn>>

Drain ==
  /\ main = "drain" \/ (main = "waiting" /\ woken)
  /\ IF linked = {}
     THEN /\ freed' = TRUE /\ main' = "returned"
          /\ UNCHANGED <<woken, local, remote>>
     ELSE /\ local' = ShutLinked(local) /\ remote' = ShutLinked(remote)
          /\ main' = "waiting" /\ woken' = FALSE
          /\ UNCHANGED freed
  /\ UNCHANGED <<joined, exiting, stopping, linked, cpc, lpc, lconn>>

(* Faulty variant: the proxy is freed at the deadline.                     *)
DeadlineFrees ==
  /\ main = "waiting" /\ exiting
  /\ main' = "returned" /\ freed' = TRUE
  /\ UNCHANGED <<joined, exiting, woken, stopping, connVars, lpc, lconn>>

(* Two seconds after StopForExit began: the proxy stays allocated for the  *)
(* threads that remain; with none left the loop ends as in Drain.          *)
Deadline ==
  /\ main = "waiting" /\ exiting
  /\ main' = "returned" /\ freed' = (linked = {})
  /\ UNCHANGED <<joined, exiting, woken, stopping, connVars, lpc, lconn>>

-----------------------------------------------------------------------------
(* A listener thread.                                                      *)

RCProxyIsStopping(l) ==
  /\ lpc[l] = "check"
  /\ lpc' = [lpc EXCEPT ![l] = IF stopping THEN "ended" ELSE "select"]
  /\ UNCHANGED <<mainVars, connVars, lconn>>

(* A second without a client, a failed accept, or no memory.               *)
NotAccepted(l) ==
  /\ lpc[l] = "select"
  /\ lpc' = [lpc EXCEPT ![l] = "check"]
  /\ UNCHANGED <<mainVars, connVars, lconn>>

Accept(l, c) ==
  /\ lpc[l] = "select" /\ local[c] = "none"
  /\ lpc' = [lpc EXCEPT ![l] = "link"] /\ lconn' = [lconn EXCEPT ![l] = c]
  /\ local' = [local EXCEPT ![c] = "open"]
  /\ UNCHANGED <<mainVars, linked, cpc, remote>>

Link(l) ==
  /\ lpc[l] = "link"
  /\ linked' = linked \cup {lconn[l]}
  /\ lpc' = [lpc EXCEPT ![l] = "spawn"]
  /\ UNCHANGED <<mainVars, cpc, local, remote, lconn>>

(* Faulty variant: a thread leaves the list without a broadcast.           *)
RemovedSilently(c) == linked' = linked \ {c} /\ UNCHANGED woken

RCRemoveConnection(c) == linked' = linked \ {c} /\ woken' = (woken \/ main = "waiting")

Spawn(l) ==
  /\ lpc[l] = "spawn"
  /\ \/ /\ cpc' = [cpc EXCEPT ![lconn[l]] = "connect"]
        /\ lpc' = [lpc EXCEPT ![l] = "check"] /\ lconn' = [lconn EXCEPT ![l] = NoConn]
        /\ UNCHANGED <<linked, woken>>
     \/ /\ RCRemoveConnection(lconn[l])
        /\ lpc' = [lpc EXCEPT ![l] = "discard"]
        /\ UNCHANGED <<cpc, lconn>>
  /\ UNCHANGED <<main, joined, exiting, freed, stopping, local, remote>>

(* Faulty variant: the client's socket is forgotten.                       *)
DiscardOpen(l) ==
  /\ lpc[l] = "discard"
  /\ lpc' = [lpc EXCEPT ![l] = "check"] /\ lconn' = [lconn EXCEPT ![l] = NoConn]
  /\ UNCHANGED <<mainVars, local, linked, cpc, remote>>

Discard(l) ==
  /\ lpc[l] = "discard"
  /\ local' = [local EXCEPT ![lconn[l]] = "closed"]
  /\ lpc' = [lpc EXCEPT ![l] = "check"] /\ lconn' = [lconn EXCEPT ![l] = NoConn]
  /\ UNCHANGED <<mainVars, linked, cpc, remote>>

-----------------------------------------------------------------------------
(* A connection thread.                                                    *)

(* Faulty variant: stopping is not read with the socket's publication.     *)
ConnectedUnchecked(c) ==
  /\ cpc[c] = "connect"
  /\ \/ remote' = [remote EXCEPT ![c] = "open"] /\ cpc' = [cpc EXCEPT ![c] = "handshake"]
     \/ cpc' = [cpc EXCEPT ![c] = "finished"] /\ UNCHANGED remote
  /\ UNCHANGED <<mainVars, linked, local, lpc, lconn>>

(* RCConnectToHost returned: the socket is published and stopping read in  *)
(* one critical section.                                                   *)
Connected(c) ==
  /\ cpc[c] = "connect"
  /\ \/ /\ remote' = [remote EXCEPT ![c] = "open"]
        /\ cpc' = [cpc EXCEPT ![c] = IF stopping THEN "finished" ELSE "handshake"]
     \/ /\ cpc' = [cpc EXCEPT ![c] = "finished"]
        /\ UNCHANGED remote
  /\ UNCHANGED <<mainVars, linked, local, lpc, lconn>>

(* STARTTLS, verified TLS and the greeting; each wait is limited to two    *)
(* minutes and fails at once on a socket that was shut down.               *)
Handshake(c) ==
  /\ cpc[c] = "handshake"
  /\ \/ cpc' = [cpc EXCEPT ![c] = "finished"]
     \/ local[c] = "open" /\ remote[c] = "open" /\ cpc' = [cpc EXCEPT ![c] = "relay"]
  /\ UNCHANGED <<mainVars, linked, local, remote, lpc, lconn>>

(* The relay ends when a peer closes or fails, or on a shutdown.           *)
RelayEnds(c) ==
  /\ cpc[c] = "relay"
  /\ cpc' = [cpc EXCEPT ![c] = "finished"]
  /\ UNCHANGED <<mainVars, linked, local, remote, lpc, lconn>>

CloseSockets(c) ==
  /\ cpc[c] = "finished"
  /\ cpc' = [cpc EXCEPT ![c] = "remove"]
  /\ local' = [local EXCEPT ![c] = "closed"]
  /\ remote' = [remote EXCEPT ![c] = IF @ = "none" THEN @ ELSE "closed"]
  /\ UNCHANGED <<mainVars, linked, lpc, lconn>>

Remove(c) ==
  /\ cpc[c] = "remove"
  /\ RCRemoveConnection(c)
  /\ cpc' = [cpc EXCEPT ![c] = "gone"]
  /\ UNCHANGED <<main, joined, exiting, freed, stopping, local, remote, lpc, lconn>>

-----------------------------------------------------------------------------

(* The process has ended.                                                  *)
Exited == main = "returned" /\ UNCHANGED proxyVars

Start == StartFailed \/ Started \/ \E l \in Services : StartListener(l)
Stop == WorkerStopped \/ StopProxy \/ JoinListener \/ Drain
Listen(l) == RCProxyIsStopping(l) \/ NotAccepted(l) \/ Link(l) \/ Spawn(l) \/ Discard(l)
Serve(c) == Handshake(c) \/ CloseSockets(c) \/ Remove(c)

ProxyNext ==
  \/ Start \/ RequestStop \/ Stop \/ Deadline \/ Exited
  \/ \E l \in Services : Listen(l) \/ \E c \in Conns : Accept(l, c)
  \/ \E c \in Conns : Serve(c) \/ Connected(c) \/ RelayEnds(c)

ProxySpec == ProxyInit /\ [][ProxyNext]_proxyVars

(* Threads run; a select lasts a second, a handshake has its time limits,  *)
(* the deadline passes, and a relay ends once a socket is shut.  No        *)
(* fairness for RCConnectToHost: the resolver may hang.                    *)
ProxyFairSpec ==
  /\ ProxySpec
  /\ WF_proxyVars(Start) /\ WF_proxyVars(Stop) /\ WF_proxyVars(Deadline)
  /\ \A l \in Services : WF_proxyVars(Listen(l))
  /\ \A c \in Conns :
       /\ WF_proxyVars(Serve(c))
       /\ WF_proxyVars((local[c] = "shut" \/ remote[c] = "shut") /\ RelayEnds(c))

-----------------------------------------------------------------------------

(* A linked connection has its thread or its listener to remove it, and    *)
(* only the listener that accepted a connection holds it.                  *)
ProxyTypeOK ==
  /\ main \in {"starting", "running", "worker", "stop", "joining", "drain", "waiting", "returned"}
  /\ joined \in 0 .. Listeners
  /\ exiting \in BOOLEAN /\ woken \in BOOLEAN /\ freed \in BOOLEAN /\ stopping \in BOOLEAN
  /\ linked \subseteq Conns
  /\ lpc \in [Services -> {"none", "bound", "check", "select", "link", "spawn", "discard",
                           "ended", "closed"}]
  /\ lconn \in [Services -> Conns \cup {NoConn}]
  /\ cpc \in [Conns -> {"none", "connect", "handshake", "relay", "finished", "remove", "gone"}]
  /\ local \in [Conns -> Socket] /\ remote \in [Conns -> Socket]
  /\ \A c \in linked :
       cpc[c] \in {"none", "gone"} => \E l \in Services : lconn[l] = c /\ lpc[l] = "spawn"

(* The proxy is freed only when no thread can touch it again: no listener  *)
(* runs, and every connection thread has made its last access, although    *)
(* connection threads are detached and never joined.                       *)
NoUseAfterFree ==
  freed => /\ \A l \in Made : lpc[l] = "closed"
           /\ \A c \in Conns : cpc[c] \in {"none", "gone"}

(* Nothing is relayed once stopping was requested: a connection still in   *)
(* service has both its sockets shut, also the one that was accepted or    *)
(* got its upstream socket while the request was being made.               *)
NothingServedAfterStop ==
  stopping => \A c \in Conns :
    cpc[c] \in {"handshake", "relay"} => local[c] = "shut" /\ remote[c] = "shut"

(* A proxy that was freed left no socket open.                             *)
NoDescriptorLeak ==
  freed => \A c \in Conns : local[c] \in {"none", "closed"} /\ remote[c] \in {"none", "closed"}

(* Stopping ends: for an exiting daemon whatever the threads are doing,    *)
(* after a failed start unless a name lookup never returns.                *)
StopReturns ==
  (main = "stop") ~>
    (main = "returned" \/ (~exiting /\ \E c \in Conns : cpc[c] = "connect"))
=============================================================================
