----------------------------- MODULE Lifecycle -----------------------------
(***************************************************************************)
(* How one tripflare process starts its servers, how a failure of any of   *)
(* them reaches the root context, and how it ends (cmd/tripflare/main.go   *)
(* and the ListenAndServe methods of internal/dns and internal/httpserver).*)
(*                                                                         *)
(* Goroutines: main; the DNS server, waiting for its UDP and TCP           *)
(* listeners; the HTTP server, waiting for its HTTP and HTTPS listeners;   *)
(* the four listeners; the ACME manager; the flush loop.  A step is what   *)
(* one of them does between two points where it can wait.  Requests and    *)
(* SIGKILL are not modelled here: see Tripflare and Persistence.  Each     *)
(* setting is read in one place, so it is chosen there, out of the         *)
(* configurations that Load accepts.                                       *)
(***************************************************************************)
EXTENDS Naturals, FiniteSets, Config, Process

CONSTANT
  MaxFaults        \* bound: listeners that have failed unnoticed at one time

ASSUME MaxFaultsAssumption == MaxFaults \in Nat

VARIABLES
  main,            \* where main() is
  status,          \* the exit status of an ended process
  lst,             \* the listeners
  dns,             \* the DNS server's goroutine
  noticed,         \* the listeners whose NotifyStarted it has received
  http,            \* the HTTP server's goroutine
  acme,            \* the ACME manager's goroutine
  loop             \* the flush loop's goroutine

serverVars == <<lst, dns, noticed, http, acme, loop>>
lifeVars == <<main, status, up, ctxDone, serverVars>>

DnsListeners == {"udp", "tcp"}
HttpListeners == {"http", "https"}
Listeners == DnsListeners \cup HttpListeners

LifeTypeOK ==
  /\ main \in {"load", "init", "start", "waitDns", "run", "wait", "flush",
               "ended"}
  /\ status \in 0..2
  /\ up \in BOOLEAN
  /\ ctxDone \in BOOLEAN
  /\ lst \in [Listeners -> {"off", "starting", "up", "unbound", "broken",
                            "closed", "never"}]
  /\ dns \in {"off", "waiting", "serving", "returned"}
  /\ noticed \subseteq DnsListeners
  /\ http \in {"off", "serving", "stopping", "returned"}
  /\ acme \in {"off", "on"}
  /\ loop \in {"off", "started", "ticking"}

LifeInit ==
  /\ main = "load"
  /\ status = 0
  /\ up = FALSE
  /\ ctxDone = FALSE
  /\ lst = [l \in Listeners |-> "off"]
  /\ dns = "off"
  /\ noticed = {}
  /\ http = "off"
  /\ acme = "off"
  /\ loop = "off"

\* The process ends, and every goroutine with it.
EndsWith(code) ==
  /\ main' = "ended"
  /\ status' = code
  /\ up' = FALSE
  /\ ctxDone' = FALSE
  /\ lst' = [l \in Listeners |-> "off"]
  /\ dns' = "off"
  /\ noticed' = {}
  /\ http' = "off"
  /\ acme' = "off"
  /\ loop' = "off"

MainGoes(to) == main' = to /\ UNCHANGED <<status, up, ctxDone>>

\* go ListenAndServe
Starting(S) == [l \in Listeners |-> IF l \in S THEN "starting" ELSE lst[l]]
-----------------------------------------------------------------------------
(* main() and run().                                                       *)

LoadConfig ==
  /\ main = "load"
  /\ Settings # {}
  /\ MainGoes("init")
  /\ UNCHANGED serverVars

\* The file is missing, is not YAML, or is not valid.
LoadConfigFails ==
  /\ main = "load"
  /\ EndsWith(1)

InitServices ==
  /\ main = "init"
  /\ main' = "start"
  /\ up' = TRUE
  /\ UNCHANGED <<status, ctxDone, serverVars>>

\* The store does not open, or LoadFrom fails, also because of a signal.
InitServicesFails ==
  /\ main = "init"
  /\ EndsWith(1)

StartDns ==
  /\ main = "start"
  /\ \E c \in Settings : c.ip = "valid"
  /\ MainGoes("waitDns")
  /\ dns' = "waiting"
  /\ lst' = Starting(DnsListeners)
  /\ UNCHANGED <<noticed, http, acme, loop>>

\* dns.New: run returns the error; nothing is flushed.
NewDnsFails ==
  /\ main = "start"
  /\ \E c \in Settings : c.ip = "bad"
  /\ EndsWith(1)

\* Mutant: one of the two listeners is enough.
ReadyEarly == noticed # {}

\* close(ready) follows the second notice.
Ready == noticed = DnsListeners

\* case <-dnsReady
StartAcmeAndHttp ==
  /\ main = "waitDns"
  /\ Ready
  /\ MainGoes("run")
  /\ acme' = "on"
  /\ http' = "serving"
  /\ lst' = Starting(HttpListeners)
  /\ UNCHANGED <<dns, noticed, loop>>

\* acme.New: DNS has been answering and recording, and nothing is flushed.
NewAcmeFails ==
  /\ main = "waitDns"
  /\ Ready
  /\ EndsWith(1)

\* Mutant: main returns at once.
GiveUpAndExit ==
  /\ main = "waitDns"
  /\ ctxDone
  /\ EndsWith(0)

\* case <-ctx.Done(): startServers returns nil and run goes on.
GiveUp ==
  /\ main = "waitDns"
  /\ ctxDone
  /\ MainGoes("run")
  /\ UNCHANGED serverVars

\* go flushLoop
StartFlushLoop ==
  /\ main = "run"
  /\ MainGoes("wait")
  /\ loop' = "started"
  /\ UNCHANGED <<lst, dns, noticed, http, acme>>

\* time.NewTicker, at the beginning of flushLoop ...
MakeTicker ==
  /\ loop = "started"
  /\ \E c \in Settings : c.ticks
  /\ loop' = "ticking"
  /\ UNCHANGED <<main, status, up, ctxDone, lst, dns, noticed, http, acme>>

\* ... of an interval that is not positive; nobody recovers the panic, wherever
\* main is by then.
FlushLoopPanics ==
  /\ loop = "started"
  /\ \E c \in Settings : ~c.ticks
  /\ EndsWith(2)

\* <-ctx.Done() in run, then FlushTo is called ...
BeginFinalFlush ==
  /\ main = "wait"
  /\ ctxDone
  /\ MainGoes("flush")
  /\ UNCHANGED serverVars

\* ... and returns: geo and store are closed and main returns, whatever the
\* servers are doing.
RunReturns ==
  /\ main = "flush"
  /\ EndsWith(0)

\* SIGINT or SIGTERM.
Signal ==
  /\ up
  /\ ~ctxDone
  /\ ctxDone' = TRUE
  /\ UNCHANGED <<main, status, up, serverVars>>
-----------------------------------------------------------------------------
(* Listeners.                                                              *)

\* Shutdown makes an http.Server that is still starting return at once.
IsShutDown(l) == l \in HttpListeners /\ http # "serving"

Bind(l) ==
  /\ lst[l] = "starting"
  /\ lst' = [lst EXCEPT ![l] = IF IsShutDown(l) THEN "never" ELSE "up"]
  /\ UNCHANGED <<main, status, up, ctxDone, dns, noticed, http, acme, loop>>

\* A listener whose error nobody has read from errCh yet.
Failed(l) == lst[l] \in {"unbound", "broken"}

Fault(l, from, to) ==
  /\ lst[l] = from
  /\ Cardinality({k \in Listeners : Failed(k)}) < MaxFaults
  /\ lst' = [lst EXCEPT ![l] = to]
  /\ UNCHANGED <<main, status, up, ctxDone, dns, noticed, http, acme, loop>>

BindFails(l) == ~IsShutDown(l) /\ Fault(l, "starting", "unbound")

ListenerBreaks(l) == Fault(l, "up", "broken")

\* Nothing listens for S any more, or its error has been read: "closed" if it
\* ever listened, "never" if not.
Closed(S) ==
  [l \in Listeners |->
     CASE l \in S /\ lst[l] \in {"up", "broken"} -> "closed"
       [] l \in S /\ lst[l] = "unbound"          -> "never"
       [] OTHER                                  -> lst[l]]
-----------------------------------------------------------------------------
(* ListenAndServe of the DNS server, and the goroutine around it.          *)

\* case <-serversReady in the first loop, which does not watch the context.
TakeNotice(l) ==
  /\ dns = "waiting"
  /\ lst[l] \in {"up", "broken"}
  /\ l \in DnsListeners \ noticed
  /\ noticed' = noticed \cup {l}
  /\ dns' = IF Ready' THEN "serving" ELSE dns
  /\ UNCHANGED <<main, status, up, ctxDone, lst, http, acme, loop>>

\* case err := <-errCh in either select: the other listener is left running
\* and the caller cancels the context.
DnsFails ==
  /\ dns \in {"waiting", "serving"}
  /\ \E l \in DnsListeners : Failed(l) /\ lst' = Closed({l})
  /\ dns' = "returned"
  /\ ctxDone' = TRUE
  /\ UNCHANGED <<main, status, up, noticed, http, acme, loop>>

\* Both calls of Shutdown and wg.Wait.
DnsStops ==
  /\ dns = "serving"
  /\ ctxDone
  /\ dns' = "returned"
  /\ lst' = Closed(DnsListeners)
  /\ UNCHANGED <<main, status, up, ctxDone, noticed, http, acme, loop>>
-----------------------------------------------------------------------------
(* ListenAndServe of the HTTP server, and the goroutine around it.         *)

\* case <-ctx.Done(): both calls of Shutdown, and nil is returned.
HttpStops ==
  /\ http = "serving"
  /\ ctxDone
  /\ http' = "returned"
  /\ lst' = Closed(HttpListeners)
  /\ UNCHANGED <<main, status, up, ctxDone, dns, noticed, acme, loop>>

\* Mutant: ListenAndServe returns nil after a failure too.
HttpFailsQuietly ==
  /\ http = "serving"
  /\ \E l \in HttpListeners : Failed(l)
  /\ http' = "returned"
  /\ lst' = Closed(HttpListeners)
  /\ UNCHANGED <<main, status, up, ctxDone, dns, noticed, acme, loop>>

\* case err := <-errCh: both calls of Shutdown ...
HttpFails ==
  /\ http = "serving"
  /\ \E l \in HttpListeners : Failed(l)
  /\ http' = "stopping"
  /\ lst' = Closed(HttpListeners)
  /\ UNCHANGED <<main, status, up, ctxDone, dns, noticed, acme, loop>>

\* Mutant: the error is logged and the context is left alone.
HttpReturnsQuietly ==
  /\ http = "stopping"
  /\ \A l \in HttpListeners : lst[l] # "starting"
  /\ http' = "returned"
  /\ UNCHANGED <<main, status, up, ctxDone, lst, dns, noticed, acme, loop>>

\* ... wg.Wait, and the caller cancels the context.
HttpReturns ==
  /\ http = "stopping"
  /\ \A l \in HttpListeners : lst[l] # "starting"
  /\ http' = "returned"
  /\ ctxDone' = TRUE
  /\ UNCHANGED <<main, status, up, lst, dns, noticed, acme, loop>>
-----------------------------------------------------------------------------
\* The ACME manager's Run cannot make the certificate directory.  With ACME
\* disabled Run returns at once and nobody notices; otherwise see Acme.
AcmeFails ==
  /\ acme = "on"
  /\ ~ctxDone
  /\ \E c \in Settings : c.acme
  /\ ctxDone' = TRUE
  /\ UNCHANGED <<main, status, up, serverVars>>
-----------------------------------------------------------------------------
\* Whatever ACME asks the CA for, DNS is there to answer: neither ACME nor HTTP
\* starts before both DNS listeners have bound (startServers waits for the
\* channel that dns.ListenAndServe closes).
AcmeAfterDns ==
  acme = "on" \/ http # "off" =>
    \A l \in DnsListeners : lst[l] \in {"up", "broken", "closed"}

\* Nobody waits for what will not come.  Until the context is cancelled, every
\* listener's error has a server that will read it, no server has returned,
\* and while startServers waits for DNS, the DNS server is counting notices
\* and each one that is missing, or an error in its place, is still to come.
FailuresAreHeard ==
  ~ctxDone =>
    /\ \A l \in DnsListeners : Failed(l) => dns \in {"waiting", "serving"}
    /\ \A l \in HttpListeners : Failed(l) => http = "serving"
    /\ dns # "returned" /\ http # "returned"
    /\ main = "waitDns" /\ ~Ready =>
         /\ dns = "waiting"
         /\ \A l \in DnsListeners \ noticed :
              lst[l] = "starting" \/ lst[l] = "up" \/ Failed(l)

\* Once the context is cancelled, or any listener has failed, the process ends:
\* no goroutine waits for one that waits for it and no failure is swallowed on
\* its way from errCh to cancel.
StopsOnceAsked ==
  (ctxDone \/ \E l \in Listeners : Failed(l)) ~> main = "ended"
=============================================================================
