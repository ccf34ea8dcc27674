----------------------------- MODULE Tripflare -----------------------------
(***************************************************************************)
(* One life of a tripflare process, from an empty database: the life cycle *)
(* of the servers (Lifecycle) together with the registry, the flush loop   *)
(* and the final flush (Persistence).                                      *)
(*                                                                         *)
(* Every step that touches the registry or the store is conjoined with the *)
(* action of Persistence that it is.  Requests reach them through the      *)
(* listeners, with the slugs that Dns and Http read out of names; a        *)
(* handler that has begun may finish after its listener is closed, since   *)
(* nothing waits for it.  SIGKILL, restarts, buffers that make recordEvent *)
(* panic, and the deletion and expiry of slugs, which leave nothing to     *)
(* save, are left to Persistence.                                          *)
(***************************************************************************)
EXTENDS Lifecycle, Persistence, Http, GeoIP

VARIABLES
  flushed,         \* "no", or how the final FlushTo goes
  early            \* history: hits that were in the buffers when the context
                   \* was cancelled and that the final FlushTo has to save

storeVars == <<stops, live, mem, db, pc, pending, snap, cur, del, issued,
               expired, hits, raced, deleted>>
systemVars == <<lifeVars, storeVars, flushed, early>>

SystemTypeOK ==
  /\ LifeTypeOK
  /\ TypeOK
  /\ flushed \in {"no", "ok", "failed"}
  /\ early \in [Slugs -> SUBSET (1..MaxHits)]

SystemInit ==
  /\ LifeInit
  /\ Init
  /\ flushed = "no"
  /\ early = [s \in Slugs |-> {}]
-----------------------------------------------------------------------------
(* The life cycle and what it means to the registry.                       *)

\* Steps of main that leave the registry alone.
MainAlone ==
  /\ LoadConfig \/ LoadConfigFails \/ InitServicesFails \/ StartDns
       \/ StartAcmeAndHttp \/ GiveUp \/ StartFlushLoop
  /\ UNCHANGED <<storeVars, flushed, early>>

\* Steps of the servers that leave it alone.
ServersAlone ==
  /\ \/ \E l \in Listeners : Bind(l) \/ BindFails(l) \/ ListenerBreaks(l)
     \/ \E l \in DnsListeners : TakeNotice(l)
     \/ DnsStops \/ HttpStops \/ HttpFails \/ MakeTicker
  /\ UNCHANGED <<storeVars, flushed, early>>

Restore ==
  /\ InitServices
  /\ Start
  /\ UNCHANGED <<flushed, early>>

\* run returns an error or a goroutine panics: memory is lost.
Abort ==
  /\ NewDnsFails \/ NewAcmeFails \/ FlushLoopPanics
  /\ Crash
  /\ UNCHANGED <<flushed, early>>

\* What is in the buffers when the context ends is what a graceful stop is
\* about; slugs whose bookkeeping a race has spoiled before are left out.
ContextEnds ==
  /\ IF ctxDone
     THEN UNCHANGED <<storeVars, early>>
     ELSE /\ Shutdown
          /\ early' = [s \in Slugs |-> IF s \in raced THEN {}
                                       ELSE Range(mem[s].events)]
  /\ UNCHANGED flushed

\* A signal, or a server that failed.
Cancel == (Signal \/ DnsFails \/ HttpReturns \/ AcmeFails) /\ ContextEnds

SystemFinalFlush ==
  /\ BeginFinalFlush
  /\ FinalFlush
  /\ flushed' = "ok"
  /\ UNCHANGED early

SystemExit ==
  /\ RunReturns
  /\ Exit
  /\ UNCHANGED <<flushed, early>>
-----------------------------------------------------------------------------
(* What happens to the registry between those steps.                       *)

\* Until the final FlushTo takes its snapshots, hits may still be evicted
\* or cleared by requests.
StillHeld ==
  early' = [s \in Slugs |-> IF pc["final"] = "idle"
                            THEN early[s] \cap Range(mem'[s].events)
                            ELSE early[s]]

\* A listener that accepted a request, or did so before it was closed.
Reached(l) == lst[l] \in {"up", "broken", "closed"}

\* The slugs that names can lead to.
DnsSlugs == {DnsHit(q) : q \in Question}

HttpSlugs == {HttpSlug(n) : n \in Name}

\* recordEvent of the DNS server.
RecordDNS(s) ==
  /\ Reached("udp") \/ Reached("tcp")
  /\ s \in DnsSlugs
  /\ Record(s)

\* handleTripflare, if the limiter lets the request pass.
RecordHTTP(s) ==
  /\ Reached("http") \/ Reached("https")
  /\ s \in HttpSlugs
  /\ Record(s)

\* handleCreateSlug and handleClearEvents.
ApiCall(s) ==
  /\ Reached("https")
  /\ CreateSlug(s) \/ ClearEvents(s)

\* flushLoop, once its ticker is made.
FlushLoop ==
  /\ loop = "ticking"
  /\ \/ Tick
     \/ \E s \in Slugs : FlushSlug("loop", s)
     \/ FlushEvents("loop")
     \/ FlushFails("loop")
     \/ Book("loop")
     \/ Cleanup
     \/ PurgeExpired
     \/ PurgeExpiredFails
     \/ LoopReturns

\* The writes of the final FlushTo.
FinalWrites ==
  /\ UNCHANGED lifeVars
  /\ \/ \E s \in Slugs : FlushSlug("final", s) /\ UNCHANGED flushed
     \/ FlushEvents("final") /\ UNCHANGED flushed
     \/ Book("final") /\ UNCHANGED flushed
     \/ FlushFails("final") /\ flushed' = "failed"
  /\ StillHeld

\* What the handlers and the flush loop do.
Serving ==
  /\ UNCHANGED <<lifeVars, flushed>>
  /\ \/ \E s \in Slugs : RecordDNS(s) \/ RecordHTTP(s) \/ ApiCall(s)
     \/ FlushLoop
  /\ StillHeld

Main == MainAlone \/ Restore \/ Abort \/ SystemFinalFlush \/ SystemExit

SystemNext == Main \/ ServersAlone \/ Cancel \/ Serving \/ FinalWrites

SystemSpec == SystemInit /\ [][SystemNext]_systemVars

\* Goroutines go on unless they wait; calls of the store return, with or
\* without an error; binding a socket succeeds or fails.  Signals, faults,
\* requests and the clock are not fair.
SystemFairness ==
  LET Alone == UNCHANGED <<storeVars, flushed, early>>
  IN  /\ WF_systemVars(Main)
      /\ WF_systemVars(FinalWrites)
      /\ \A l \in Listeners : WF_systemVars((Bind(l) \/ BindFails(l)) /\ Alone)
      /\ \A l \in DnsListeners : WF_systemVars(TakeNotice(l) /\ Alone)
      /\ WF_systemVars(DnsFails /\ ContextEnds)
      /\ WF_systemVars((HttpStops \/ HttpFails) /\ Alone)
      /\ WF_systemVars(HttpReturns /\ ContextEnds)

FairSystemSpec == SystemSpec /\ SystemFairness
-----------------------------------------------------------------------------
\* A process that exits with status 0 has made its final flush, one that exits
\* with status 1 has not: there is no path through startServers that reports
\* success and skips it.
CleanExitFlushed ==
  main = "ended" => /\ status = 0 => flushed # "no"
                    /\ status = 1 => flushed = "no"

\* A graceful stop saves what it found.  Every hit that was in a buffer when
\* the context was cancelled, and that no request removed before the final
\* FlushTo looked, is in SQLite when the process exits with status 0 and the
\* final FlushTo did not fail: although the servers still serve, although the
\* flush loop may be in the middle of a FlushTo of the same slugs, and although
\* its store calls begin to fail.
GracefulExitSaves ==
  main = "ended" /\ status = 0 /\ flushed = "ok" =>
    \A s \in Slugs : early[s] \subseteq Saved(db, s)

\* The laws of Dns, Http and GeoIP.  No step changes them: they are evaluated
\* where the process begins.

\* The DNS server answers for and records about its own zone only.
ZoneOnly == main = "load" => ZoneLaw

\* A question's case changes neither the slug it counts for nor, NS and SOA
\* apart, its records.
CaseBlind == main = "load" => CaseLaw

\* Only tracking is open without TLS and valid credentials.
OnlyTrackingIsOpen == main = "load" => AccessLaw

\* A reply depends on no slug but those of the user who is logged in; a hit that
\* panics gets none.
OthersSlugsInvisible == main = "load" => PrivacyLaw

\* The HTTP request for a name counts for the slug of its address queries or,
\* with capitals or further labels in the name, for none.
StagesAgree == main = "load" => StageLaw

\* The newest databases are used, the last by name where times are equal.
NewestDatabaseWins == main = "load" => NewestLaw
=============================================================================
