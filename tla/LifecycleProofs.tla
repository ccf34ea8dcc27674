--------------------------- MODULE LifecycleProofs ---------------------------
(***************************************************************************)
(* The process, with any number of listeners failing at any time, beside   *)
(* any number of slugs and hits: how it starts and ends, and that no       *)
(* failure goes unheard; that it is a behaviour of Persistence, and so     *)
(* inherits what is proved there; and that a graceful stop saves what was  *)
(* held.                                                                   *)
(***************************************************************************)
EXTENDS Tripflare, LogProofs

\* The listeners that have bound their socket.
Bound(l) == lst[l] \in {"up", "broken", "closed"}

\* The DNS server is not running before startServers, notices come from
\* listeners that have bound, and ACME and HTTP are started after both.
StartInvariant ==
  /\ LifeTypeOK
  /\ main \in {"load", "init", "start"} => dns = "off" /\ noticed = {}
  /\ \A l \in noticed : Bound(l)
  /\ acme = "on" \/ http # "off" => noticed = DnsListeners

\* The final FlushTo is begun, and goes on, while main is in its "flush" step;
\* afterwards "flushed" tells how it went.
EndInvariant ==
  /\ pc \in [Flushers -> FlushPC]
  /\ main # "flush" => pc["final"] = "idle"
  /\ main = "flush" => flushed # "no"
  /\ main \notin {"flush", "ended"} => flushed = "no"
  /\ CleanExitFlushed

\* Where each server is, its listeners are: none before it starts, each with a
\* notice or an error still to come while it reads them, and none that can
\* fail after Shutdown.  A server returns with the context cancelled.
HearInvariant ==
  /\ dns = "off" => \A l \in DnsListeners : lst[l] = "off"
  /\ dns \in {"waiting", "serving"} =>
       \A l \in DnsListeners : lst[l] \in {"starting", "up", "unbound", "broken"}
  /\ dns = "waiting" => ~Ready
  /\ dns = "serving" => Ready
  /\ dns = "returned" => ctxDone
  /\ main \in {"load", "init", "start", "ended"} => dns = "off"
  /\ main \in {"load", "init", "start", "waitDns", "ended"} => http = "off"
  /\ main = "waitDns" => dns # "off"
  /\ http = "off" => \A l \in HttpListeners : lst[l] = "off"
  /\ http \in {"stopping", "returned"} =>
       \A l \in HttpListeners : lst[l] \notin {"up", "unbound", "broken"}
  /\ http = "returned" => ctxDone
-----------------------------------------------------------------------------
(* Start.                                                                  *)

LEMMA EndKeepsStart ==
  ASSUME NEW code \in 0..2, EndsWith(code)
  PROVE  StartInvariant'
BY DEF EndsWith, StartInvariant, LifeTypeOK, Bound, DnsListeners

LEMMA MainKeepsStart ==
  ASSUME StartInvariant,
         LoadConfig \/ LoadConfigFails \/ InitServices \/ InitServicesFails
           \/ StartDns \/ NewDnsFails \/ StartAcmeAndHttp \/ NewAcmeFails
           \/ GiveUp \/ StartFlushLoop \/ FlushLoopPanics
           \/ BeginFinalFlush \/ RunReturns
  PROVE  StartInvariant'
<1>1. CASE LoadConfigFails \/ InitServicesFails \/ NewDnsFails \/ NewAcmeFails
             \/ FlushLoopPanics \/ RunReturns
  BY <1>1, EndKeepsStart DEF LoadConfigFails, InitServicesFails, NewDnsFails,
     NewAcmeFails, FlushLoopPanics, RunReturns
<1>2. CASE LoadConfig \/ InitServices \/ GiveUp \/ StartFlushLoop
             \/ BeginFinalFlush
  BY <1>2, ZenonT(30) DEF LoadConfig, InitServices, GiveUp, StartFlushLoop,
     BeginFinalFlush, MainGoes, serverVars, StartInvariant, LifeTypeOK, Bound
<1>3. CASE StartDns
  <2>1. /\ main' = "waitDns"
        /\ UNCHANGED <<status, up, ctxDone, noticed, http, acme, loop>>
    BY <1>3 DEF StartDns, MainGoes
  <2>2. dns' = "waiting"
    BY <1>3 DEF StartDns
  <2>3. lst' = Starting(DnsListeners)
    BY <1>3 DEF StartDns
  <2>4. LifeTypeOK'
    BY <2>1, <2>2, <2>3 DEF Starting, StartInvariant, LifeTypeOK
  <2>5. noticed' = {}
    BY <1>3, <2>1 DEF StartDns, StartInvariant
  <2>. QED  BY <2>1, <2>4, <2>5 DEF StartInvariant
<1>4. CASE StartAcmeAndHttp
  BY <1>4 DEF StartAcmeAndHttp, MainGoes, Ready, Starting, StartInvariant,
     LifeTypeOK, Bound, Listeners, DnsListeners, HttpListeners
<1>. QED  BY <1>1, <1>2, <1>3, <1>4

LEMMA ServersKeepStart ==
  ASSUME StartInvariant,
         \/ \E l \in Listeners : Bind(l) \/ BindFails(l) \/ ListenerBreaks(l)
         \/ \E l \in DnsListeners : TakeNotice(l)
         \/ DnsFails \/ DnsStops \/ HttpStops \/ HttpFails \/ HttpReturns
         \/ MakeTicker \/ Signal \/ AcmeFails
  PROVE  StartInvariant'
<1> USE DEF StartInvariant, LifeTypeOK, Bound
<1>1. CASE \E l \in Listeners : Bind(l) \/ BindFails(l) \/ ListenerBreaks(l)
  <2>1. PICK l \in Listeners : Bind(l) \/ BindFails(l) \/ ListenerBreaks(l)
    BY <1>1
  <2>2. CASE Bind(l)
    BY <2>2 DEF Bind
  <2>3. CASE BindFails(l)
    BY <2>3 DEF BindFails, Fault
  <2>4. CASE ListenerBreaks(l)
    BY <2>4 DEF ListenerBreaks, Fault
  <2>. QED  BY <2>1, <2>2, <2>3, <2>4
<1>2. CASE \E l \in DnsListeners : TakeNotice(l)
  BY <1>2 DEF TakeNotice, Ready
<1>3. ASSUME NEW S \in SUBSET Listeners, lst' = Closed(S)
      PROVE  /\ lst' \in [Listeners -> {"off", "starting", "up", "unbound",
                                        "broken", "closed", "never"}]
             /\ \A l \in Listeners : Bound(l) => Bound(l)'
  BY <1>3 DEF Closed
<1>4. CASE DnsFails
  <2>1. PICK l \in DnsListeners : lst' = Closed({l})
    BY <1>4 DEF DnsFails
  <2>. QED  BY <1>3, <1>4, <2>1 DEF DnsFails, Listeners, DnsListeners
<1>5. CASE DnsStops \/ HttpStops \/ HttpFails
  <2>1. CASE DnsStops
    BY <1>3, <2>1 DEF DnsStops, Listeners, DnsListeners
  <2>2. CASE HttpStops
    BY <1>3, <2>2 DEF HttpStops, Listeners, DnsListeners
  <2>3. CASE HttpFails
    BY <1>3, <2>3 DEF HttpFails, Listeners, DnsListeners
  <2>. QED  BY <1>5, <2>1, <2>2, <2>3
<1>6. CASE HttpReturns \/ Signal \/ AcmeFails
  BY <1>6, ZenonT(30) DEF HttpReturns, Signal, AcmeFails, serverVars
<1>7. CASE MakeTicker
  BY <1>7 DEF MakeTicker
<1>. QED  BY <1>1, <1>2, <1>4, <1>5, <1>6, <1>7

\* Every step of the process is one of the above or leaves the servers alone.
LEMMA NextKeepsStart ==
  StartInvariant /\ [SystemNext]_systemVars => StartInvariant'
<1> SUFFICES ASSUME StartInvariant, [SystemNext]_systemVars
             PROVE  StartInvariant'
  OBVIOUS
<1>1. CASE Main
  BY <1>1, MainKeepsStart
     DEF Main, MainAlone, Restore, Abort, SystemFinalFlush, SystemExit
<1>2. CASE ServersAlone \/ Cancel
  BY <1>2, ServersKeepStart DEF ServersAlone, Cancel
<1>3. CASE Serving \/ FinalWrites \/ UNCHANGED systemVars
  BY <1>3 DEF Serving, FinalWrites, systemVars, lifeVars, serverVars,
     StartInvariant, LifeTypeOK, Bound
<1>. QED  BY <1>1, <1>2, <1>3 DEF SystemNext

LEMMA InitStart == SystemInit => StartInvariant
<1> SUFFICES ASSUME LifeInit  PROVE StartInvariant
  BY DEF SystemInit
<1>1. status \in 0..2
  BY DEF LifeInit
<1>2. up \in BOOLEAN /\ ctxDone \in BOOLEAN
  BY DEF LifeInit
<1>3. lst \in [Listeners -> {"off", "starting", "up", "unbound", "broken",
                             "closed", "never"}]
  BY DEF LifeInit
<1>4. LifeTypeOK
  BY <1>1, <1>2, <1>3 DEF LifeInit, LifeTypeOK
<1>. QED  BY <1>4 DEF LifeInit, StartInvariant

LEMMA StartKept == SystemSpec => []StartInvariant
BY InitStart, NextKeepsStart, PTL DEF SystemSpec

\* Neither ACME nor HTTP starts before both DNS listeners have bound, whatever
\* fails in which order while startServers waits.
THEOREM DnsFirst == SystemSpec => []AcmeAfterDns
<1>1. StartInvariant => AcmeAfterDns
  BY DEF StartInvariant, AcmeAfterDns, Bound
<1>. QED  BY <1>1, StartKept, PTL
-----------------------------------------------------------------------------
(* Every failure is heard.                                                 *)

LEMMA EndKeepsHear ==
  ASSUME NEW code \in 0..2, EndsWith(code)
  PROVE  HearInvariant'
BY DEF EndsWith, HearInvariant, Ready, Listeners, DnsListeners, HttpListeners

LEMMA MainKeepsHear ==
  ASSUME StartInvariant, HearInvariant,
         LoadConfig \/ LoadConfigFails \/ InitServices \/ InitServicesFails
           \/ StartDns \/ NewDnsFails \/ StartAcmeAndHttp \/ NewAcmeFails
           \/ GiveUp \/ StartFlushLoop \/ FlushLoopPanics
           \/ BeginFinalFlush \/ RunReturns
  PROVE  HearInvariant'
<1>1. CASE LoadConfigFails \/ InitServicesFails \/ NewDnsFails \/ NewAcmeFails
             \/ FlushLoopPanics \/ RunReturns
  BY <1>1, EndKeepsHear DEF LoadConfigFails, InitServicesFails, NewDnsFails,
     NewAcmeFails, FlushLoopPanics, RunReturns
<1>2. CASE LoadConfig \/ InitServices \/ GiveUp \/ StartFlushLoop
             \/ BeginFinalFlush
  <2>1. UNCHANGED <<ctxDone, lst, dns, noticed, http>>
    BY <1>2 DEF LoadConfig, InitServices, GiveUp, StartFlushLoop,
       BeginFinalFlush, MainGoes, serverVars
  <2>2. CASE main \in {"load", "init"} /\ main' \in {"init", "start"}
    BY <2>1, <2>2 DEF HearInvariant, Ready
  <2>3. CASE main' \in {"run", "wait", "flush"}
    BY <2>1, <2>3 DEF HearInvariant, Ready
  <2>. QED
    BY <1>2, <2>2, <2>3 DEF LoadConfig, InitServices, GiveUp, StartFlushLoop,
       BeginFinalFlush, MainGoes
<1>3. CASE StartDns
  <2>1. main = "start" /\ main' = "waitDns" /\ dns' = "waiting"
    BY <1>3 DEF StartDns, MainGoes
  <2>2. UNCHANGED <<ctxDone, noticed, http>> /\ noticed = {} /\ http = "off"
    BY <1>3, <2>1 DEF StartDns, MainGoes, StartInvariant, HearInvariant
  <2>3. \A l \in DnsListeners : lst'[l] = "starting"
    BY <1>3 DEF StartDns, Starting, Listeners
  <2>4. \A l \in HttpListeners : lst'[l] = "off"
    BY <1>3, <2>2 DEF StartDns, Starting, Listeners, DnsListeners,
       HttpListeners, HearInvariant
  <2>. QED
    BY <2>1, <2>2, <2>3, <2>4 DEF HearInvariant, Ready, DnsListeners
<1>4. CASE StartAcmeAndHttp
  <2>1. /\ main' = "run" /\ http' = "serving"
        /\ UNCHANGED <<ctxDone, dns, noticed>>
    BY <1>4 DEF StartAcmeAndHttp, MainGoes
  <2>2. \A l \in DnsListeners : lst'[l] = lst[l]
    BY <1>4 DEF StartAcmeAndHttp, Starting, Listeners, DnsListeners,
       HttpListeners
  <2>. QED  BY <2>1, <2>2 DEF HearInvariant, Ready
<1>. QED  BY <1>1, <1>2, <1>3, <1>4

\* A listener is bound, fails to bind, or breaks.
LEMMA ListenerKeepsHear ==
  ASSUME StartInvariant, HearInvariant, NEW l \in Listeners,
         Bind(l) \/ BindFails(l) \/ ListenerBreaks(l)
  PROVE  HearInvariant'
<1>1. UNCHANGED <<main, ctxDone, dns, noticed, http>>
  BY DEF Bind, BindFails, ListenerBreaks, Fault
<1>2. \A k \in Listeners : k # l => lst'[k] = lst[k]
  BY DEF Bind, BindFails, ListenerBreaks, Fault, StartInvariant, LifeTypeOK
<1>3. /\ lst[l] \in {"starting", "up"}
      /\ lst'[l] \in {"up", "unbound", "broken", "never"}
      /\ IsShutDown(l) /\ lst[l] = "starting" => lst'[l] = "never"
      /\ ~IsShutDown(l) => lst'[l] # "never"
      /\ lst[l] = "up" => lst'[l] = "broken"
  BY DEF Bind, BindFails, ListenerBreaks, Fault, StartInvariant, LifeTypeOK
<1>4. CASE l \in DnsListeners
  <2>1. dns \in {"waiting", "serving", "returned"} /\ ~IsShutDown(l)
    BY <1>3, <1>4 DEF HearInvariant, StartInvariant, LifeTypeOK, IsShutDown,
       DnsListeners, HttpListeners
  <2>2. lst'[l] \in {"up", "unbound", "broken"}
    BY <1>3, <2>1
  <2>3. \A k \in DnsListeners : k # l => lst'[k] = lst[k]
    BY <1>2 DEF Listeners
  <2>4. \A k \in HttpListeners : lst'[k] = lst[k]
    BY <1>2, <1>4 DEF Listeners, DnsListeners, HttpListeners
  <2>. QED
    BY <1>1, <1>4, <2>1, <2>2, <2>3, <2>4 DEF HearInvariant, Ready
<1>5. CASE l \in HttpListeners
  <2>1. \A k \in DnsListeners : lst'[k] = lst[k]
    BY <1>2, <1>5 DEF Listeners, DnsListeners, HttpListeners
  <2>2. http # "off"
    BY <1>3, <1>5 DEF HearInvariant
  <2>3. http \in {"stopping", "returned"} => lst'[l] = "never"
    BY <1>3, <1>5 DEF HearInvariant, IsShutDown
  <2>4. \A k \in HttpListeners : k # l => lst'[k] = lst[k]
    BY <1>2 DEF Listeners
  <2>. QED  BY <1>1, <2>1, <2>2, <2>3, <2>4 DEF HearInvariant, Ready
<1>. QED  BY <1>4, <1>5 DEF Listeners

LEMMA ServersKeepHear ==
  ASSUME StartInvariant, HearInvariant,
         \/ \E l \in DnsListeners : TakeNotice(l)
         \/ DnsFails \/ DnsStops \/ HttpStops \/ HttpFails \/ HttpReturns
         \/ MakeTicker \/ Signal \/ AcmeFails
  PROVE  HearInvariant'
<1>1. CASE \E l \in DnsListeners : TakeNotice(l)
  <2>1. /\ dns = "waiting" /\ dns' = IF Ready' THEN "serving" ELSE dns
        /\ UNCHANGED <<main, ctxDone, lst, http>>
    BY <1>1 DEF TakeNotice
  <2>2. dns' = IF Ready' THEN "serving" ELSE "waiting"
    BY <2>1
  <2> HIDE DEF Ready
  <2>. QED  BY <2>1, <2>2 DEF HearInvariant
<1>2. CASE DnsFails \/ DnsStops
  <2>1. /\ dns \in {"waiting", "serving"} /\ dns' = "returned" /\ ctxDone'
        /\ UNCHANGED <<main, http>>
    BY <1>2 DEF DnsFails, DnsStops
  <2>2. \A l \in HttpListeners : lst'[l] = lst[l]
    BY <1>2 DEF DnsFails, DnsStops, Closed, Listeners, DnsListeners,
       HttpListeners
  <2>. QED  BY <2>1, <2>2 DEF HearInvariant
<1>3. CASE HttpStops \/ HttpFails
  <2>1. /\ http = "serving" /\ http' \in {"stopping", "returned"}
        /\ http' = "returned" => ctxDone
        /\ UNCHANGED <<main, ctxDone, dns, noticed>>
    BY <1>3 DEF HttpStops, HttpFails
  <2>2. \A l \in DnsListeners : lst'[l] = lst[l]
    BY <1>3 DEF HttpStops, HttpFails, Closed, Listeners, DnsListeners,
       HttpListeners
  <2>3. \A l \in HttpListeners : lst'[l] \notin {"up", "unbound", "broken"}
    BY <1>3 DEF HttpStops, HttpFails, Closed, Listeners
  <2>. QED  BY <2>1, <2>2, <2>3 DEF HearInvariant, Ready
<1>4. CASE HttpReturns
  <2>1. /\ http = "stopping" /\ http' = "returned" /\ ctxDone'
        /\ UNCHANGED <<main, lst, dns, noticed>>
    BY <1>4 DEF HttpReturns
  <2>. QED  BY <2>1 DEF HearInvariant, Ready
<1>5. CASE Signal \/ AcmeFails
  <2>1. ctxDone' /\ UNCHANGED <<main, lst, dns, noticed, http>>
    BY <1>5 DEF Signal, AcmeFails, serverVars
  <2>. QED  BY <2>1 DEF HearInvariant, Ready
<1>6. CASE MakeTicker
  <2>1. UNCHANGED <<main, ctxDone, lst, dns, noticed, http>>
    BY <1>6 DEF MakeTicker
  <2>. QED  BY <2>1 DEF HearInvariant, Ready
<1>. QED  BY <1>1, <1>2, <1>3, <1>4, <1>5, <1>6

LEMMA NextKeepsHear ==
  StartInvariant /\ HearInvariant /\ [SystemNext]_systemVars => HearInvariant'
<1> SUFFICES ASSUME StartInvariant, HearInvariant, [SystemNext]_systemVars
             PROVE  HearInvariant'
  OBVIOUS
<1>1. CASE Main
  BY <1>1, MainKeepsHear
     DEF Main, MainAlone, Restore, Abort, SystemFinalFlush, SystemExit
<1>2. CASE ServersAlone \/ Cancel
  BY <1>2, ListenerKeepsHear, ServersKeepHear DEF ServersAlone, Cancel
<1>3. CASE Serving \/ FinalWrites \/ UNCHANGED systemVars
  <2>1. UNCHANGED <<main, ctxDone, lst, dns, noticed, http>>
    BY <1>3 DEF Serving, FinalWrites, systemVars, lifeVars, serverVars
  <2>. QED  BY <2>1 DEF HearInvariant, Ready
<1>. QED  BY <1>1, <1>2, <1>3 DEF SystemNext

LEMMA HearKept == SystemSpec => []HearInvariant
<1>1. SystemInit => HearInvariant
  BY DEF SystemInit, LifeInit, HearInvariant, Ready, Listeners, DnsListeners,
     HttpListeners
<1>. QED  BY <1>1, NextKeepsHear, StartKept, PTL DEF SystemSpec

\* Until the context is cancelled no listener's failure goes unread, no server
\* is gone, and startServers waits for nothing that cannot come: with any
\* number of failures at one time, in any order.
THEOREM NobodyWaitsInVain == SystemSpec => []FailuresAreHeard
<1>1. StartInvariant /\ HearInvariant => FailuresAreHeard
  <2> SUFFICES ASSUME StartInvariant, HearInvariant, ~ctxDone
               PROVE  FailuresAreHeard
    BY DEF FailuresAreHeard
  <2>1. /\ dns \in {"off", "waiting", "serving"}
        /\ http \in {"off", "serving", "stopping"}
    BY DEF StartInvariant, LifeTypeOK, HearInvariant
  <2>2. \A l \in DnsListeners : Failed(l) => dns \in {"waiting", "serving"}
    BY <2>1 DEF HearInvariant, Failed
  <2>3. \A l \in HttpListeners : Failed(l) => http = "serving"
    BY <2>1 DEF HearInvariant, Failed
  <2>4. main = "waitDns" /\ ~Ready => dns = "waiting"
    BY <2>1 DEF HearInvariant
  <2>5. dns = "waiting" => \A l \in DnsListeners :
                             lst[l] = "starting" \/ lst[l] = "up" \/ Failed(l)
    BY DEF HearInvariant, Failed
  <2>. QED  BY <2>1, <2>2, <2>3, <2>4, <2>5 DEF FailuresAreHeard
<1>. QED  BY <1>1, StartKept, HearKept, PTL
-----------------------------------------------------------------------------
(* End.                                                                    *)

LEMMA ContinueKeepsPc ==
  ASSUME NEW f \in Flushers, NEW p, NEW taken, NEW c,
         NEW next \in {"insertSlug", "insertEvents"},
         pc \in [Flushers -> FlushPC],
         Continue(f, p, taken, next, c)
  PROVE  /\ pc' \in [Flushers -> FlushPC]
         /\ f = "loop" => pc'["final"] = pc["final"]
BY DEF Continue, Flushers, FlushPC, AfterFlush

\* What the flush loop and the handlers do does not touch the final FlushTo.
LEMMA ServingKeepsPc ==
  ASSUME pc \in [Flushers -> FlushPC], Serving
  PROVE  pc' \in [Flushers -> FlushPC] /\ pc'["final"] = pc["final"]
<1> USE DEF Flushers
<1>1. CASE \E s \in Slugs : RecordDNS(s) \/ RecordHTTP(s) \/ ApiCall(s)
  BY <1>1 DEF RecordDNS, RecordHTTP, ApiCall, Record, CreateSlug,
     ClearEvents, flushVars
<1>2. CASE Tick \/ FlushFails("loop") \/ Book("loop")
  BY <1>2, ContinueKeepsPc DEF Tick, CollectDirtySnapshots, FlushFails, Book
<1>3. CASE \E s \in Slugs : FlushSlug("loop", s)
  BY <1>3, ContinueKeepsPc DEF FlushSlug, FlushPC
<1>4. CASE FlushEvents("loop") \/ Cleanup \/ PurgeExpired
             \/ PurgeExpiredFails \/ LoopReturns
  BY <1>4 DEF FlushEvents, Cleanup, PurgeExpired, PurgeExpiredFails,
     LoopReturns, FlushPC
<1>. QED  BY <1>1, <1>2, <1>3, <1>4 DEF Serving, FlushLoop

LEMMA FinalWritesKeepEnd ==
  ASSUME EndInvariant, FinalWrites
  PROVE  EndInvariant'
<1>1. UNCHANGED <<main, status>>
  BY DEF FinalWrites, lifeVars
<1>2. main = "flush"
  BY DEF FinalWrites, EndInvariant, FlushSlug, FlushEvents, Book,
     FlushFails
<1>3. pc' \in [Flushers -> FlushPC]
  <2> USE DEF EndInvariant, Flushers
  <2>1. CASE FlushFails("final") \/ Book("final")
    BY <2>1, ContinueKeepsPc DEF FlushFails, Book
  <2>2. CASE \E s \in Slugs : FlushSlug("final", s)
    BY <2>2, ContinueKeepsPc DEF FlushSlug, FlushPC
  <2>3. CASE FlushEvents("final")
    BY <2>3 DEF FlushEvents, FlushPC
  <2>. QED  BY <2>1, <2>2, <2>3 DEF FinalWrites
<1>4. flushed' # "no"
  BY <1>2 DEF FinalWrites, EndInvariant
<1>. QED  BY <1>1, <1>2, <1>3, <1>4 DEF EndInvariant, CleanExitFlushed

LEMMA MainKeepsEnd ==
  ASSUME EndInvariant, Main
  PROVE  EndInvariant'
<1> USE DEF EndInvariant, CleanExitFlushed, storeVars
<1>1. CASE MainAlone
  BY <1>1 DEF MainAlone, LoadConfig, LoadConfigFails, InitServicesFails,
     StartDns, StartAcmeAndHttp, GiveUp, StartFlushLoop, MainGoes, EndsWith
<1>2. CASE Restore
  BY <1>2 DEF Restore, InitServices, MainGoes, Start, flushVars
<1>3. CASE Abort
  BY <1>3 DEF Abort, NewDnsFails, NewAcmeFails, FlushLoopPanics, EndsWith,
     Crash, ProcessEnds, Flushers, FlushPC
<1>4. CASE SystemFinalFlush
  BY <1>4, ContinueKeepsPc DEF SystemFinalFlush, BeginFinalFlush, MainGoes,
     FinalFlush, CollectDirtySnapshots, Flushers
<1>5. CASE SystemExit
  BY <1>5 DEF SystemExit, RunReturns, EndsWith, Exit, ProcessEnds, Flushers,
     FlushPC
<1>. QED  BY <1>1, <1>2, <1>3, <1>4, <1>5 DEF Main

LEMMA OthersKeepEnd ==
  ASSUME EndInvariant, ServersAlone \/ Cancel \/ UNCHANGED systemVars
  PROVE  EndInvariant'
<1>1. UNCHANGED <<main, status, pc, flushed>>
  BY DEF ServersAlone, Cancel, ContextEnds, systemVars, lifeVars, storeVars, Bind,
     BindFails, ListenerBreaks, Fault, TakeNotice, DnsStops, HttpStops,
     HttpFails, MakeTicker, Signal, DnsFails, HttpReturns, AcmeFails,
     Shutdown, flushVars
<1>. QED  BY <1>1 DEF EndInvariant, CleanExitFlushed

LEMMA NextKeepsEnd == EndInvariant /\ [SystemNext]_systemVars => EndInvariant'
<1> SUFFICES ASSUME EndInvariant, [SystemNext]_systemVars  PROVE EndInvariant'
  OBVIOUS
<1>1. CASE Serving
  <2>1. UNCHANGED <<main, status, flushed>>
    BY <1>1 DEF Serving, lifeVars
  <2>. QED  BY <1>1, <2>1, ServingKeepsPc DEF EndInvariant, CleanExitFlushed
<1>. QED  BY <1>1, MainKeepsEnd, OthersKeepEnd, FinalWritesKeepEnd DEF SystemNext

LEMMA EndKept == SystemSpec => []EndInvariant
<1>1. SystemInit => EndInvariant
  BY DEF SystemInit, LifeInit, Init, EndInvariant, CleanExitFlushed, Flushers,
     FlushPC
<1>. QED  BY <1>1, NextKeepsEnd, PTL DEF SystemSpec

\* Exit status 0 means that the final FlushTo was made, exit status 1 that it
\* was not, on every path through run and startServers.
THEOREM ExitStatusTellsFlush == SystemSpec => []CleanExitFlushed
<1>1. EndInvariant => CleanExitFlushed
  BY DEF EndInvariant
<1>. QED  BY <1>1, EndKept, PTL
-----------------------------------------------------------------------------
(* The process implements Persistence.                                     *)

\* The registry is loaded from initServices to the end; nothing cancels the
\* context before, and the final FlushTo waits for its cancellation.
RunInvariant ==
  /\ main \in {"load", "init", "ended"} => ~up
  /\ main \in {"load", "init"} => ~ctxDone
  /\ main = "flush" => ctxDone

LEMMA RunStep ==
  ASSUME StartInvariant, RunInvariant, [SystemNext]_systemVars
  PROVE  RunInvariant'
<1> USE DEF RunInvariant
<1>1. CASE \E code \in 0..2 : EndsWith(code)
  BY <1>1 DEF EndsWith
<1>2. CASE MainAlone
  BY <1>1, <1>2 DEF MainAlone, LoadConfig, LoadConfigFails, InitServicesFails,
     StartDns, StartAcmeAndHttp, GiveUp, StartFlushLoop, MainGoes
<1>3. CASE Restore \/ SystemFinalFlush
  BY <1>3 DEF Restore, InitServices, SystemFinalFlush, BeginFinalFlush, MainGoes
<1>4. CASE Abort \/ SystemExit
  BY <1>1, <1>4 DEF Abort, NewDnsFails, NewAcmeFails, FlushLoopPanics,
     SystemExit, RunReturns
<1>5. CASE ServersAlone \/ Serving \/ FinalWrites \/ UNCHANGED systemVars
  <2>1. UNCHANGED <<main, up, ctxDone>>
    BY <1>5 DEF ServersAlone, Bind, BindFails, ListenerBreaks, Fault,
       TakeNotice, DnsStops, HttpStops, HttpFails, MakeTicker, Serving,
       FinalWrites, systemVars, lifeVars
  <2>. QED  BY <2>1
<1>6. CASE Cancel
  <2>1. UNCHANGED <<main, up>> /\ ctxDone'
    BY <1>6 DEF Cancel, Signal, DnsFails, HttpReturns, AcmeFails
  <2>2. main \notin {"load", "init"}
    BY <1>6 DEF Cancel, Signal, DnsFails, HttpReturns, AcmeFails,
       StartInvariant, DnsListeners
  <2>. QED  BY <2>1, <2>2
<1>. QED  BY <1>2, <1>3, <1>4, <1>5, <1>6 DEF SystemNext, Main

LEMMA RunKept == SystemSpec => []RunInvariant
<1>1. SystemInit => RunInvariant
  BY DEF SystemInit, LifeInit, RunInvariant
<1>. QED  BY <1>1, RunStep, StartKept, PTL DEF SystemSpec

\* What the process does is what Persistence allows it to do.
LEMMA SystemStep ==
  ASSUME StartInvariant, RunInvariant, [SystemNext]_systemVars
  PROVE  [Next]_vars
<1> USE DEF vars, processVars, memVars, flushVars, historyVars, storeVars
<1>1. up \in BOOLEAN /\ ctxDone \in BOOLEAN
  BY DEF StartInvariant, LifeTypeOK
<1>2. CASE MainAlone
  <2>1. CASE LoadConfigFails \/ InitServicesFails
    <3>1. up = FALSE /\ ctxDone = FALSE
      BY <1>1, <2>1 DEF RunInvariant, LoadConfigFails, InitServicesFails
    <3>2. up' = FALSE /\ ctxDone' = FALSE
      BY <2>1 DEF LoadConfigFails, InitServicesFails, EndsWith
    <3>. QED  BY <1>2, <3>1, <3>2 DEF MainAlone
  <2>2. CASE LoadConfig \/ StartDns \/ StartAcmeAndHttp \/ GiveUp
               \/ StartFlushLoop
    BY <1>2, <2>2 DEF MainAlone, LoadConfig, StartDns, StartAcmeAndHttp,
       GiveUp, StartFlushLoop, MainGoes
  <2>. QED  BY <1>2, <2>1, <2>2 DEF MainAlone
<1>3. CASE Restore \/ Abort \/ SystemFinalFlush \/ SystemExit
  BY <1>3 DEF Restore, Abort, SystemFinalFlush, SystemExit, Next
<1>4. CASE ServersAlone
  BY <1>4 DEF ServersAlone, Bind, BindFails, ListenerBreaks, Fault,
     TakeNotice, DnsStops, HttpStops, HttpFails, MakeTicker
<1>5. CASE Cancel
  <2>1. CASE ctxDone
    <3>1. UNCHANGED <<up, storeVars>> /\ ctxDone' = TRUE
      BY <1>5, <2>1 DEF Cancel, ContextEnds, Signal, DnsFails, HttpReturns,
         AcmeFails
    <3>2. ctxDone = TRUE
      BY <1>1, <2>1
    <3>. QED  BY <3>1, <3>2
  <2>2. CASE ~ctxDone
    BY <1>5, <2>2 DEF Cancel, ContextEnds, Next
  <2>. QED  BY <2>1, <2>2
<1>6. CASE Serving
  BY <1>6 DEF Serving, RecordDNS, RecordHTTP, ApiCall, FlushLoop, Next, Flushers
<1>7. CASE FinalWrites
  BY <1>7 DEF FinalWrites, Next, Flushers
<1>8. CASE UNCHANGED systemVars
  BY <1>8 DEF systemVars, lifeVars
<1>. QED
  BY <1>2, <1>3, <1>4, <1>5, <1>6, <1>7, <1>8 DEF SystemNext, Main

\* One life of the process, with its listeners, signals and failures, is a
\* behaviour of Persistence: what is proved of the registry and the store
\* there holds for the process.
THEOREM SystemImplementsPersistence == SystemSpec => Spec
<1>1. SystemInit => Init
  BY DEF SystemInit
<1>. QED
  BY <1>1, SystemStep, StartKept, RunKept, PTL DEF SystemSpec, Spec

\* So the running process keeps the promise of DurableLog too.
THEOREM SystemDurable == SystemSpec => ImplementsDurableLog
BY SystemImplementsPersistence, PersistenceRefines, PTL
-----------------------------------------------------------------------------
(* A graceful stop saves what it found.                                    *)

\* What the final FlushTo still has to write of slug s.
ToBeSaved(s) ==
  IF s \in pending["final"] THEN Unwritten("final", s) ELSE {}

\* Until the final FlushTo looks, the hits to be saved are in the buffers of
\* slugs that nobody has cleared under a snapshot ...
EarlyHeld(s) ==
  early[s] \subseteq Range(mem[s].events) /\ (s \in raced => early[s] = {})

\* ... and from then on in SQLite or in a snapshot that is yet to be written.
EarlySafe(s) == early[s] \subseteq Saved(db, s) \cup ToBeSaved(s)

EarlyInvariant ==
  /\ ~ctxDone /\ main # "ended" => \A s \in Slugs : early[s] = {}
  /\ up /\ pc["final"] = "idle" => \A s \in Slugs : EarlyHeld(s)
  /\ pc["final"] # "idle" /\ flushed = "ok" => \A s \in Slugs : EarlySafe(s)
  /\ GracefulExitSaves

\* Of what Persistence allows, nothing expires in one life of the process, and
\* the bounds are kept.
BoundInvariant ==
  /\ expired = {}
  /\ \A s \in Slugs : hits[s] <= MaxHits
  /\ flushed \in {"no", "ok", "failed"}
  /\ early \in [Slugs -> SUBSET (1..MaxHits)]

\* What holds of Persistence, and so of the process.
StoreInvariant ==
  TypeOK /\ FlushInvariant /\ OrderInvariant /\ AbsentEmpty

LEMMA StoreKept == SystemSpec => []StoreInvariant
<1>1. TypeOK /\ FlushInvariant /\ OrderInvariant /\ AbsentEmpty => StoreInvariant
  BY DEF StoreInvariant
<1>. QED
  BY <1>1, SystemImplementsPersistence, TypeCorrect, FlushCorrect, OrderKept,
     AbsentKept, PTL

\* A hit in a buffer that no race has spoiled is one of those recorded.
LEMMA BufferBounded ==
  ASSUME StoreInvariant, BoundInvariant, NEW s \in Slugs, s \notin raced
  PROVE  Range(mem[s].events) \subseteq 1..MaxHits
<1>1. mem[s].events \in Seq(Hit) /\ hits[s] \in Nat
  BY SlugTypes DEF StoreInvariant, Entry
<1>2. UpTo(Range(mem[s].events), hits[s])
  BY DEF StoreInvariant, OrderInvariant, Ordered, BufferOrdered
<1>3. \A h \in Range(mem[s].events) : h \in Hit /\ h <= hits[s]
  BY <1>1, <1>2, HitsAreNumbers DEF UpTo
<1>4. hits[s] <= MaxHits /\ MaxHits \in Nat
  BY PersistenceAssumption DEF BoundInvariant
<1>. QED  BY <1>1, <1>3, <1>4 DEF Hit

LEMMA BoundStep ==
  ASSUME StoreInvariant, BoundInvariant, [SystemNext]_systemVars
  PROVE  BoundInvariant'
<1> USE DEF BoundInvariant, storeVars
<1>1. ASSUME UNCHANGED <<expired, hits, flushed, early>>
      PROVE  BoundInvariant'
  BY <1>1
<1>2. CASE Main
  <2>1. UNCHANGED <<expired, hits, early>>
    BY <1>2 DEF Main, MainAlone, Restore, Abort, SystemFinalFlush, SystemExit,
       Start, Crash, ProcessEnds, FinalFlush, CollectDirtySnapshots, Exit
  <2>2. flushed' \in {"no", "ok", "failed"}
    BY <1>2 DEF Main, MainAlone, Restore, Abort, SystemFinalFlush, SystemExit
  <2>. QED  BY <2>1, <2>2
<1>3. CASE ServersAlone \/ UNCHANGED systemVars
  BY <1>1, <1>3 DEF ServersAlone, systemVars
<1>4. CASE Cancel
  <2>1. UNCHANGED <<expired, hits, flushed>>
    BY <1>4 DEF Cancel, ContextEnds, Shutdown
  <2>2. CASE ctxDone
    BY <1>4, <2>1, <2>2 DEF Cancel, ContextEnds
  <2>3. CASE ~ctxDone
    <3>1. early' = [s \in Slugs |-> IF s \in raced THEN {}
                                    ELSE Range(mem[s].events)]
      BY <1>4, <2>3 DEF Cancel, ContextEnds
    <3>2. \A s \in Slugs \ raced : Range(mem[s].events) \subseteq 1..MaxHits
      BY BufferBounded
    <3>3. early' \in [Slugs -> SUBSET (1..MaxHits)]
      BY <3>1, <3>2
    <3>. QED  BY <2>1, <3>3
  <2>. QED  BY <2>2, <2>3
<1>5. ASSUME StillHeld
      PROVE  early' \in [Slugs -> SUBSET (1..MaxHits)]
  BY <1>5 DEF StillHeld
<1>6. CASE FinalWrites
  <2>1. UNCHANGED <<expired, hits>>
    BY <1>6 DEF FinalWrites, FlushSlug, FlushEvents, Book, FlushFails
  <2>2. flushed' \in {"no", "ok", "failed"}
    BY <1>6 DEF FinalWrites
  <2>. QED  BY <1>5, <1>6, <2>1, <2>2 DEF FinalWrites
<1>7. CASE Serving
  <2>1. UNCHANGED <<expired, flushed>>
    BY <1>7 DEF Serving, RecordDNS, RecordHTTP, ApiCall, FlushLoop, Record,
       CreateSlug, ClearEvents, Tick, CollectDirtySnapshots, FlushSlug,
       FlushEvents, FlushFails, Book, Cleanup, PurgeExpired,
       PurgeExpiredFails, LoopReturns
  <2>2. \/ UNCHANGED hits
        \/ \E s \in Slugs : hits[s] < MaxHits
                              /\ hits' = [hits EXCEPT ![s] = @ + 1]
    BY <1>7 DEF Serving, RecordDNS, RecordHTTP, ApiCall, FlushLoop, Record,
       CreateSlug, ClearEvents, Tick, CollectDirtySnapshots, FlushSlug,
       FlushEvents, FlushFails, Book, Cleanup, PurgeExpired,
       PurgeExpiredFails, LoopReturns
  <2>3. hits \in [Slugs -> Nat] /\ MaxHits \in Nat
    BY PersistenceAssumption DEF StoreInvariant, TypeOK
  <2>4. \A s \in Slugs : hits'[s] <= MaxHits
    BY <2>2, <2>3
  <2>5. StillHeld
    BY <1>7 DEF Serving
  <2>. QED  BY <1>5, <2>1, <2>4, <2>5
<1>. QED  BY <1>2, <1>3, <1>4, <1>6, <1>7 DEF SystemNext

LEMMA BoundKept == SystemSpec => []BoundInvariant
<1>1. SystemInit => BoundInvariant
  BY PersistenceAssumption DEF SystemInit, Init, BoundInvariant
<1>. QED  BY <1>1, BoundStep, StoreKept, PTL DEF SystemSpec

\* Every variable of the process and of its history keeps its type: hits stay
\* numbers up to MaxHits, and what a stop has to save is among them.
THEOREM SystemTypeCorrect == SystemSpec => []SystemTypeOK
<1>1. StartInvariant /\ StoreInvariant /\ BoundInvariant => SystemTypeOK
  BY DEF StartInvariant, StoreInvariant, BoundInvariant, SystemTypeOK
<1>. QED  BY <1>1, StartKept, StoreKept, BoundKept, PTL

\* No store call of the final FlushTo fails because of the context.
LEMMA FinalContinues ==
  ASSUME TypeOK, NEW p \in SUBSET Slugs, NEW taken, NEW next, NEW c,
         Continue("final", p, taken, next, c)
  PROVE  /\ pending'["final"] = p
         /\ \A s \in p : snap'["final"][s] = taken[s]
         /\ p # {} => pc'["final"] = next /\ cur'["final"] = c
         /\ p = {} => pc'["final"] = "returned"
<1>1. /\ pending \in [Flushers -> SUBSET Slugs]
      /\ snap \in [Flushers -> [Slugs -> Snapshot]]
      /\ pc \in [Flushers -> FlushPC]
      /\ cur \in [Flushers -> Slugs \cup {None}]
      /\ "final" \in Flushers
  BY DEF TypeOK, Flushers
<1>2. ~CallFails("final") /\ AfterFlush("final") = "returned"
  BY DEF CallFails, AfterFlush
<1>3. CASE p = {}
  BY <1>1, <1>2, <1>3 DEF Continue
<1>4. CASE p # {}
  BY <1>1, <1>2, <1>4 DEF Continue
<1>. QED  BY <1>3, <1>4

LEMMA SavedGrows ==
  ASSUME StoreInvariant, BoundInvariant, NEW s \in Slugs,
         \/ UNCHANGED db
         \/ \E f \in Flushers, t \in Slugs : FlushSlug(f, t)
         \/ \E f \in Flushers : FlushEvents(f)
         \/ PurgeExpired
  PROVE  Saved(db, s) \subseteq Saved(db', s)
<1>1. TypeOK /\ FlushShape
  BY DEF StoreInvariant, FlushInvariant
<1>2. ASSUME NEW f \in Flushers, NEW t \in Slugs, FlushSlug(f, t)
      PROVE  Saved(db, s) \subseteq Saved(db', s)
  BY <1>1, <1>2, FlushSlugFacts DEF Saved
<1>3. ASSUME NEW f \in Flushers, FlushEvents(f)
      PROVE  Saved(db, s) \subseteq Saved(db', s)
  <2>1. /\ Saved(db', cur[f]) = Saved(db, cur[f]) \cup Range(snap[f][cur[f]].rows)
        /\ \A t \in Slugs \ {cur[f]} : db'.events[t] = db.events[t]
    BY <1>1, <1>3, FlushEventsFacts
  <2>. QED  BY <2>1 DEF Saved
<1>4. CASE PurgeExpired
  <2>1. db'.events[s] = db.events[s]
    BY <1>4 DEF PurgeExpired, DeleteExpired, ExpiredRows, BoundInvariant
  <2>. QED  BY <2>1 DEF Saved
<1>. QED  BY <1>2, <1>3, <1>4

\* The final FlushTo takes everything that is not in SQLite: the flushed prefix
\* and the buffers of clean slugs are there, as no race has spoiled them.
LEMMA FinalTakesEarly ==
  ASSUME StoreInvariant, BoundInvariant, NEW s \in Slugs, EarlyHeld(s),
         CollectDirtySnapshots("final"), early' = early
  PROVE  EarlySafe(s)'
<1>1. TypeOK /\ mem[s] \in Entry
  BY SlugTypes DEF StoreInvariant
<1>2. UNCHANGED db
  BY DEF CollectDirtySnapshots
<1> DEFINE dirty == {t \in live : mem[t].dirty}
           taken == [t \in Slugs |-> SnapshotOf(mem[t])]
<1>3. /\ pending'["final"] = dirty
      /\ \A t \in dirty : snap'["final"][t] = taken[t]
      /\ dirty # {} => pc'["final"] = "insertSlug"
  <2>1. dirty \in SUBSET Slugs
    BY <1>1 DEF TypeOK
  <2>2. Continue("final", dirty, taken, "insertSlug", None)
    BY DEF CollectDirtySnapshots
  <2>. QED  BY <1>1, <2>1, <2>2, FinalContinues
<1>4. CASE s \notin live \/ s \in raced
  <2>1. early[s] = {}
    BY <1>4 DEF StoreInvariant, AbsentEmpty, NoEntry, NewEntry, EarlyHeld, Range
  <2>. QED  BY <2>1 DEF EarlySafe
<1>5. CASE s \in live \ raced
  <2>1. EntryExact(s)
    BY <1>5 DEF StoreInvariant, FlushInvariant, BookkeepingExact, Accountable,
       BoundInvariant, Exact
  <2>2. CASE mem[s].dirty
    <3>1. s \in pending'["final"] /\ snap'["final"][s] = SnapshotOf(mem[s])
            /\ pc'["final"] = "insertSlug"
      BY <1>3, <1>5, <2>2
    <3>2. ToBeSaved(s)' = Range(SnapshotOf(mem[s]).rows)
      BY <3>1 DEF ToBeSaved, Unwritten
    <3>3. PrefixIn(mem[s], Len(mem[s].events),
                   Saved(db, s) \cup Range(SnapshotOf(mem[s]).rows))
      BY <1>1, <2>1, SnapshotComplete DEF EntryExact, SnapshotOf
    <3>4. Range(mem[s].events)
            \subseteq Saved(db, s) \cup Range(SnapshotOf(mem[s]).rows)
      BY <1>1, <3>3 DEF PrefixIn, Range, Entry
    <3>. QED  BY <1>2, <3>2, <3>4 DEF EarlyHeld, EarlySafe
  <2>3. CASE ~mem[s].dirty
    BY <1>2, <2>1, <2>3 DEF EntryExact, EarlyHeld, EarlySafe
  <2>. QED  BY <2>2, <2>3
<1>. QED  BY <1>4, <1>5

\* What the final FlushTo drops from its snapshots it has written.
LEMMA FinalWritesEarly ==
  ASSUME StoreInvariant, BoundInvariant, NEW s \in Slugs, EarlySafe(s),
         \/ \E t \in Slugs : FlushSlug("final", t)
         \/ FlushEvents("final")
         \/ Book("final"),
         early'[s] = early[s]
  PROVE  EarlySafe(s)'
<1>1. TypeOK /\ FlushShape /\ "final" \in Flushers
  BY DEF StoreInvariant, FlushInvariant, Flushers
<1>2. CASE \E t \in Slugs : FlushSlug("final", t)
  <2>1. PICK t \in Slugs : FlushSlug("final", t)
    BY <1>2
  <2>2. /\ Saved(db', s) = Saved(db, s)
        /\ pc["final"] = "insertSlug" /\ t \in pending["final"]
    BY <1>1, <2>1, FlushSlugFacts DEF Saved
  <2>3. CASE snap["final"][t].rows # <<>>
    <3>1. Continue("final", pending["final"], snap["final"], "insertEvents", t)
      BY <2>1, <2>3 DEF FlushSlug
    <3>2. pending["final"] \in SUBSET Slugs
      BY <1>1 DEF TypeOK
    <3>3. /\ pending'["final"] = pending["final"]
          /\ \A u \in pending["final"] : snap'["final"][u] = snap["final"][u]
          /\ pending["final"] # {} => pc'["final"] = "insertEvents"
      BY <1>1, <3>1, <3>2, FinalContinues, ZenonT(30)
    <3>4. pc'["final"] = "insertEvents"
      BY <2>2, <3>3
    <3>5. ToBeSaved(s)' = ToBeSaved(s)
      BY <2>2, <3>3, <3>4 DEF ToBeSaved, Unwritten
    <3>. QED  BY <2>2, <3>5 DEF EarlySafe
  <2>4. CASE snap["final"][t].rows = <<>>
    <3>1. /\ UNCHANGED <<pending, snap>>
          /\ pc' = [pc EXCEPT !["final"] = "book"]
          /\ cur' = [cur EXCEPT !["final"] = t]
      BY <2>1, <2>4, Zenon DEF FlushSlug
    <3>2. pc'["final"] = "book" /\ cur'["final"] = t
      BY <1>1, <3>1 DEF TypeOK
    <3>3. CASE s = t
      <4>1. ToBeSaved(s) = {}
        BY <2>2, <2>4, <3>3, IncreasingEmpty DEF ToBeSaved, Unwritten
      <4>. QED  BY <2>2, <4>1 DEF EarlySafe
    <3>4. CASE s # t
      <4>1. ToBeSaved(s)' = ToBeSaved(s)
        BY <2>2, <3>1, <3>2, <3>4 DEF ToBeSaved, Unwritten
      <4>. QED  BY <2>2, <4>1 DEF EarlySafe
    <3>. QED  BY <3>3, <3>4
  <2>. QED  BY <2>3, <2>4
<1>3. CASE FlushEvents("final")
  <2> DEFINE t == cur["final"]
  <2>1. /\ pc["final"] = "insertEvents" /\ pc'["final"] = "book"
        /\ UNCHANGED <<pending, snap, cur>>
        /\ Saved(db', t) = Saved(db, t) \cup Range(snap["final"][t].rows)
        /\ \A u \in Slugs \ {t} : db'.events[u] = db.events[u]
    BY <1>1, <1>3, FlushEventsFacts
  <2>2. CASE s = t
    BY <2>1, <2>2 DEF EarlySafe, ToBeSaved, Unwritten
  <2>3. CASE s # t
    BY <2>1, <2>3 DEF EarlySafe, ToBeSaved, Unwritten, Saved
  <2>. QED  BY <2>2, <2>3
<1>4. CASE Book("final")
  <2> DEFINE t == cur["final"]
             rest == pending["final"] \ {t}
  <2>1. pc["final"] = "book" /\ UNCHANGED db
    BY <1>4 DEF Book
  <2>2. Continue("final", rest, snap["final"], "insertSlug", None)
    BY <1>4 DEF Book
  <2>3. rest \in SUBSET Slugs
    BY <1>1 DEF TypeOK
  <2>4. /\ pending'["final"] = rest
        /\ \A u \in rest : snap'["final"][u] = snap["final"][u]
        /\ rest # {} => pc'["final"] = "insertSlug"
    BY <1>1, <2>2, <2>3, FinalContinues, ZenonT(30)
  <2>5. CASE s \in rest
    BY <2>1, <2>4, <2>5 DEF EarlySafe, ToBeSaved, Unwritten
  <2>6. CASE s \notin rest
    <3>1. ToBeSaved(s) = {}
      BY <2>1, <2>6 DEF ToBeSaved, Unwritten
    <3>. QED  BY <2>1, <3>1 DEF EarlySafe
  <2>. QED  BY <2>5, <2>6
<1>. QED  BY <1>2, <1>3, <1>4

\* Before the final FlushTo, requests and the flush loop spoil no hit that is
\* to be saved: what they clear or evict is no longer counted.
LEMMA ServingHoldsEarly ==
  ASSUME StoreInvariant, BoundInvariant, Serving, pc["final"] = "idle",
         NEW s \in Slugs, EarlyHeld(s)
  PROVE  EarlyHeld(s)'
<1>1. early'[s] = early[s] \cap Range(mem'[s].events)
  BY DEF Serving, StillHeld
<1>2. CASE s \in raced
  BY <1>1, <1>2 DEF EarlyHeld
<1>4. CASE s \notin raced /\ UNCHANGED raced
  BY <1>1, <1>4 DEF EarlyHeld
<1>5. CASE s \notin raced /\ \E t \in Slugs : ClearEvents(t)
  <2>1. PICK t \in Slugs : ClearEvents(t)
    BY <1>5
  <2>2. CASE t = s
    <3>1. mem'[s].events = <<>>
      BY <2>1, <2>2 DEF ClearEvents, Cleared, StoreInvariant, TypeOK, Entry
    <3>2. early'[s] = {}
      BY <1>1, <3>1, IncreasingEmpty
    <3>. QED  BY <3>2 DEF EarlyHeld
  <2>3. CASE t # s
    <3>1. s \notin raced'
      BY <1>5, <2>1, <2>3 DEF ClearEvents
    <3>. QED  BY <1>1, <3>1 DEF EarlyHeld
  <2>. QED  BY <2>2, <2>3
<1>6. CASE s \notin raced /\ Tick
  <2>1. \A f \in Flushers : pending[f] = {}
    BY <1>6 DEF Tick, StoreInvariant, FlushInvariant, FlushShape, FlusherShape,
       Flushers
  <2>2. s \notin raced'
    BY <1>6, <2>1 DEF Tick, CollectDirtySnapshots, InFlight
  <2>. QED  BY <1>1, <2>2 DEF EarlyHeld
<1>7. CASE s \notin raced /\ PurgeExpired
  <2>1. s \notin raced'
    BY <1>7 DEF PurgeExpired, ExpiredRows, BoundInvariant
  <2>. QED  BY <1>1, <2>1 DEF EarlyHeld
<1>8. \/ UNCHANGED raced
      \/ \E t \in Slugs : ClearEvents(t)
      \/ Tick
      \/ PurgeExpired
  BY DEF Serving, RecordDNS, RecordHTTP, ApiCall, FlushLoop, Record,
     CreateSlug, FlushSlug, FlushEvents, FlushFails, Book, Cleanup,
     PurgeExpiredFails, LoopReturns, historyVars
<1>. QED  BY <1>2, <1>4, <1>5, <1>6, <1>7, <1>8

\* Nothing that runs beside the final FlushTo takes away what is saved or the
\* snapshots that are to be.
LEMMA ServingKeepsSafe ==
  ASSUME StoreInvariant, BoundInvariant, Serving, pc["final"] # "idle",
         NEW s \in Slugs, EarlySafe(s)
  PROVE  EarlySafe(s)'
<1>1. early'[s] = early[s]
  BY DEF Serving, StillHeld
<1>2. TypeOK /\ FlushShape /\ {"loop", "final"} \subseteq Flushers
  BY DEF StoreInvariant, FlushInvariant, Flushers
<1>3. Saved(db, s) \subseteq Saved(db', s)
  <2>1. \/ UNCHANGED db
        \/ \E f \in Flushers, t \in Slugs : FlushSlug(f, t)
        \/ \E f \in Flushers : FlushEvents(f)
        \/ PurgeExpired
    BY <1>2 DEF Serving, RecordDNS, RecordHTTP, ApiCall, FlushLoop, Record,
       CreateSlug, ClearEvents, Tick, CollectDirtySnapshots, FlushFails, Book,
       Cleanup, PurgeExpiredFails, LoopReturns
  <2>. QED  BY <2>1, SavedGrows
<1>4. Untouched("final")
  <2>1. CASE \E t \in Slugs : RecordDNS(t) \/ RecordHTTP(t) \/ ApiCall(t)
    BY <2>1, FlushVarsUntouched DEF RecordDNS, RecordHTTP, ApiCall, Record,
       CreateSlug, ClearEvents
  <2>2. CASE Tick
    BY <1>2, <2>2, CollectFacts DEF Tick
  <2>3. CASE \E t \in Slugs : FlushSlug("loop", t)
    BY <1>2, <2>3, FlushSlugFacts
  <2>4. CASE FlushEvents("loop")
    BY <1>2, <2>4, FlushEventsFacts
  <2>5. CASE FlushFails("loop")
    BY <1>2, <2>5, FlushFailsFacts
  <2>6. CASE Book("loop")
    BY <1>2, <2>6, BookFacts
  <2>7. CASE Cleanup \/ PurgeExpired \/ PurgeExpiredFails \/ LoopReturns
    BY <1>2, <2>7 DEF Cleanup, PurgeExpired, PurgeExpiredFails, LoopReturns,
       Untouched, TypeOK
  <2>. QED
    BY <2>1, <2>2, <2>3, <2>4, <2>5, <2>6, <2>7 DEF Serving, FlushLoop
<1>5. ToBeSaved(s)' = ToBeSaved(s)
  BY <1>4 DEF Untouched, ToBeSaved, Unwritten
<1>. QED  BY <1>1, <1>3, <1>5 DEF EarlySafe

LEMMA EarlyStep ==
  ASSUME StartInvariant, EndInvariant, RunInvariant, StoreInvariant,
         BoundInvariant, EarlyInvariant, [SystemNext]_systemVars
  PROVE  EarlyInvariant'
<1>1. ASSUME UNCHANGED <<mem, db, pc, pending, snap, cur, raced, early>>
      PROVE  \A s \in Slugs : /\ EarlyHeld(s)' <=> EarlyHeld(s)
                              /\ EarlySafe(s)' <=> EarlySafe(s)
  BY <1>1 DEF EarlyHeld, EarlySafe, ToBeSaved, Unwritten
<1>2. ASSUME NEW code \in {1, 2}, EndsWith(code), pc'["final"] = "idle"
      PROVE  EarlyInvariant'
  BY <1>2 DEF EndsWith, EarlyInvariant, GracefulExitSaves
<1>3. CASE MainAlone
  <2>1. /\ UNCHANGED <<mem, db, pc, pending, snap, cur, raced, early>>
        /\ UNCHANGED flushed
    BY <1>3 DEF MainAlone, storeVars
  <2>2. CASE LoadConfigFails \/ InitServicesFails
    <3>1. EndsWith(1)
      BY <2>2 DEF LoadConfigFails, InitServicesFails
    <3>2. pc["final"] = "idle"
      BY <2>2 DEF LoadConfigFails, InitServicesFails, EndInvariant
    <3>. QED  BY <1>2, <2>1, <3>1, <3>2
  <2>3. CASE LoadConfig \/ StartDns \/ StartAcmeAndHttp \/ GiveUp
               \/ StartFlushLoop
    <3>1. UNCHANGED <<up, ctxDone>> /\ main # "ended" /\ main' # "ended"
      BY <2>3 DEF LoadConfig, StartDns, StartAcmeAndHttp, GiveUp,
         StartFlushLoop, MainGoes
    <3>. QED  BY <1>1, <2>1, <3>1 DEF EarlyInvariant, GracefulExitSaves
  <2>. QED  BY <1>3, <2>2, <2>3 DEF MainAlone
<1>4. CASE Restore
  <2>1. main = "init" /\ main' = "start" /\ UNCHANGED <<ctxDone, pc, early>>
    BY <1>4 DEF Restore, InitServices, Start, flushVars
  <2>2. ~ctxDone /\ pc["final"] = "idle"
    BY <2>1 DEF RunInvariant, EndInvariant
  <2>3. \A s \in Slugs : early[s] = {}
    BY <2>1, <2>2 DEF EarlyInvariant
  <2>. QED
    BY <2>1, <2>2, <2>3 DEF EarlyInvariant, EarlyHeld, GracefulExitSaves
<1>5. CASE Abort
  <2>1. pc'["final"] = "idle"
    BY <1>5 DEF Abort, Crash, ProcessEnds, Flushers
  <2>. QED
    BY <1>2, <1>5, <2>1 DEF Abort, NewDnsFails, NewAcmeFails, FlushLoopPanics
<1>6. CASE SystemFinalFlush
  <2>1. /\ main' = "flush" /\ ctxDone' /\ up /\ pc["final"] = "idle"
        /\ CollectDirtySnapshots("final") /\ early' = early
    BY <1>6 DEF SystemFinalFlush, BeginFinalFlush, MainGoes, FinalFlush
  <2>2. pc'["final"] # "idle"
    <3>1. TypeOK /\ "final" \in Flushers
      BY DEF StoreInvariant, Flushers
    <3>. QED  BY <2>1, <3>1, CollectFacts DEF AfterFlush
  <2>3. \A s \in Slugs : EarlySafe(s)'
    BY <2>1, FinalTakesEarly DEF EarlyInvariant
  <2>. QED  BY <2>1, <2>2, <2>3 DEF EarlyInvariant, GracefulExitSaves
<1>7. CASE SystemExit
  <2>1. /\ main' = "ended" /\ ~up' /\ pc["final"] = "returned"
        /\ pc'["final"] = "idle" /\ UNCHANGED <<db, flushed, early>>
    BY <1>7 DEF SystemExit, RunReturns, EndsWith, Exit, ProcessEnds, Flushers
  <2>2. pending["final"] = {}
    BY <2>1 DEF StoreInvariant, FlushInvariant, FlushShape, FlusherShape,
       Flushers
  <2>3. flushed = "ok" => \A s \in Slugs : early[s] \subseteq Saved(db, s)
    BY <2>1, <2>2 DEF EarlyInvariant, EarlySafe, ToBeSaved
  <2>. QED  BY <2>1, <2>3 DEF EarlyInvariant, GracefulExitSaves
<1>8. CASE ServersAlone \/ UNCHANGED systemVars
  <2>1. UNCHANGED <<mem, db, pc, pending, snap, cur, raced, early>>
    BY <1>8 DEF ServersAlone, systemVars, storeVars
  <2>2. UNCHANGED <<main, status, up, ctxDone, flushed>>
    BY <1>8 DEF ServersAlone, Bind, BindFails, ListenerBreaks, Fault,
       TakeNotice, DnsStops, HttpStops, HttpFails, MakeTicker, systemVars,
       lifeVars
  <2>. QED  BY <1>1, <2>1, <2>2 DEF EarlyInvariant, GracefulExitSaves
<1>9. CASE Cancel
  <2>1. UNCHANGED <<main, status, up, flushed>> /\ ctxDone'
    BY <1>9 DEF Cancel, ContextEnds, Signal, DnsFails, HttpReturns, AcmeFails
  <2>2. UNCHANGED <<mem, db, pc, pending, snap, cur, raced>>
    BY <1>9 DEF Cancel, ContextEnds, storeVars, Shutdown, memVars, flushVars,
       historyVars
  <2>3. CASE ctxDone
    <3>1. early' = early
      BY <1>9, <2>3 DEF Cancel, ContextEnds
    <3>. QED
      BY <1>1, <2>1, <2>2, <3>1 DEF EarlyInvariant, GracefulExitSaves
  <2>4. CASE ~ctxDone
    <3>1. pc["final"] = "idle"
      BY <2>4 DEF RunInvariant, EndInvariant
    <3>2. \A s \in Slugs : early'[s] = IF s \in raced THEN {}
                                       ELSE Range(mem[s].events)
      BY <1>9, <2>4 DEF Cancel, ContextEnds
    <3>3. \A s \in Slugs : EarlyHeld(s)'
      BY <2>2, <3>2 DEF EarlyHeld
    <3>4. main # "ended"
      BY <1>9, <2>4 DEF Cancel, ContextEnds, Shutdown, RunInvariant
    <3>. QED
      BY <2>1, <2>2, <3>1, <3>3, <3>4 DEF EarlyInvariant, GracefulExitSaves
  <2>. QED  BY <2>3, <2>4
<1>10. CASE Serving
  <2>1. UNCHANGED <<main, status, up, ctxDone, flushed>>
    BY <1>10 DEF Serving, lifeVars
  <2>2. pc'["final"] = pc["final"]
    BY <1>10, ServingKeepsPc DEF EndInvariant
  <2>3. up
    BY <1>10 DEF Serving, RecordDNS, RecordHTTP, ApiCall, FlushLoop, Record,
       CreateSlug, ClearEvents, Tick, FlushSlug, FlushEvents, FlushFails, Book,
       Cleanup, PurgeExpired, PurgeExpiredFails, LoopReturns
  <2>4. main # "ended"
    BY <2>3 DEF RunInvariant
  <2>5. ~ctxDone => \A s \in Slugs : early'[s] = {}
    BY <1>10, <2>4 DEF Serving, StillHeld, EarlyInvariant
  <2>6. pc["final"] = "idle" => \A s \in Slugs : EarlyHeld(s)'
    BY <1>10, <2>3, ServingHoldsEarly DEF EarlyInvariant
  <2>7. pc["final"] # "idle" /\ flushed = "ok" => \A s \in Slugs : EarlySafe(s)'
    BY <1>10, ServingKeepsSafe DEF EarlyInvariant
  <2>. QED
    BY <2>1, <2>2, <2>4, <2>5, <2>6, <2>7 DEF EarlyInvariant, GracefulExitSaves
<1>11. CASE FinalWrites
  <2>1. UNCHANGED <<main, status, up, ctxDone>>
    BY <1>11 DEF FinalWrites, lifeVars
  <2>2. pc["final"] # "idle"
    BY <1>11 DEF FinalWrites, FlushSlug, FlushEvents, Book, FlushFails
  <2>3. main = "flush" /\ ctxDone
    BY <2>2 DEF EndInvariant, RunInvariant
  <2>4. \A s \in Slugs : early'[s] = early[s]
    BY <1>11, <2>2 DEF FinalWrites, StillHeld
  <2>5. pc'["final"] # "idle"
    <3>1. TypeOK /\ FlushShape /\ "final" \in Flushers
      BY DEF StoreInvariant, FlushInvariant, Flushers
    <3>2. CASE \E s \in Slugs : FlushSlug("final", s)
      BY <3>1, <3>2, FlushSlugFacts DEF AfterFlush
    <3>3. CASE FlushEvents("final")
      BY <3>1, <3>3, FlushEventsFacts
    <3>4. CASE Book("final")
      BY <3>1, <3>4, BookFacts DEF AfterFlush
    <3>5. CASE FlushFails("final")
      BY <3>1, <3>5, FlushFailsFacts DEF AfterFlush
    <3>. QED  BY <1>11, <3>2, <3>3, <3>4, <3>5 DEF FinalWrites
  <2>6. flushed' = "ok" =>
          /\ flushed = "ok"
          /\ \/ \E t \in Slugs : FlushSlug("final", t)
             \/ FlushEvents("final")
             \/ Book("final")
    BY <1>11 DEF FinalWrites
  <2>7. flushed' = "ok" => \A s \in Slugs : EarlySafe(s)'
    BY <2>2, <2>4, <2>6, FinalWritesEarly DEF EarlyInvariant
  <2>. QED
    BY <2>1, <2>3, <2>5, <2>7 DEF EarlyInvariant, GracefulExitSaves
<1>. QED
  BY <1>3, <1>4, <1>5, <1>6, <1>7, <1>8, <1>9, <1>10, <1>11 DEF SystemNext, Main

\* A process that exits with status 0 and whose final FlushTo met no error has
\* saved every hit that was buffered when its context was cancelled and that
\* no request removed since: with any number of slugs, hits and listeners, and
\* with the flush loop and the servers going on beside it.
THEOREM GracefulStopSaves == SystemSpec => []GracefulExitSaves
<1>1. SystemInit => EarlyInvariant
  BY DEF SystemInit, LifeInit, Init, EarlyInvariant, EarlyHeld,
     GracefulExitSaves, Flushers
<1>2. EarlyInvariant => GracefulExitSaves
  BY DEF EarlyInvariant
<1>. QED
  BY <1>1, <1>2, EarlyStep, StartKept, EndKept, RunKept, StoreKept, BoundKept,
     PTL DEF SystemSpec
=============================================================================
