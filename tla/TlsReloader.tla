---------------------------- MODULE TlsReloader ----------------------------
(***************************************************************************)
(* The certificates of one web listener: adapters/web/_tls_reload.py with  *)
(* the watcher, the serving task and the stop of adapters/web/_adapter.py. *)
(* The operator replaces the two files one after the other, while a reload *)
(* reads each of them three times in a thread of its own.                  *)
(***************************************************************************)
EXTENDS Integers, Sequences, FiniteSets

CONSTANTS
  Writes,      \* bound: times that each file is replaced
  ReadErrors   \* bound: reads of a file that fail

ASSUME TlsAssumption == Writes \in Nat /\ ReadErrors \in Nat

VARIABLES
  files,     \* files[f]: how often f was replaced
  reads,     \* reads[j]: what job j read so far, in order
  reloadLock,      \* the jobs in the reloader's lock: the first holds it
  context,   \* the pair of versions _current_context was built from
  applied,   \* _applied: the pair of versions that is recorded for it
  watch,     \* the watcher task: "none", "asleep", "reloading", "ended"
  retries,   \* failed reloads since the watcher last slept a whole interval
  web,       \* the adapter: "starting", "scheduled", "serving", "leaving", "left",
             \* "stopping", "stopped"
  leaving,   \* should_exit, or the cancellation of the serving task
  closed,    \* times the uvicorn server was shut down
  errors

tlsVars == <<files, reads, reloadLock, context, applied, watch, retries, web, leaving, closed, errors>>

File == {"cert", "key"}
Job  == {"startup", "watch", "manual"}
None == <<>>

\* A file that is replaced twice has its first content again (a rollback); its
\* inode and its time of modification still tell the versions apart.
Content(pair) == [i \in DOMAIN pair |-> pair[i] % 2]

TlsInit ==
  /\ files = [f \in File |-> 0]
  /\ reads = [j \in Job |-> <<>>]
  /\ reloadLock = <<"startup">>
  /\ context = None /\ applied = None
  /\ watch = "none" /\ retries = 0
  /\ web = "starting" /\ leaving = FALSE
  /\ closed = 0 /\ errors = 0

\* The operator: the certificate first, then its key.
Replace(f) ==
  /\ files[f] < Writes
  /\ f = "key" => files["key"] < files["cert"]
  /\ f = "cert" => files["cert"] = files["key"]
  /\ files' = [files EXCEPT ![f] = @ + 1]
  /\ UNCHANGED <<reads, reloadLock, context, applied, watch, retries, web, leaving, closed, errors>>

-----------------------------------------------------------------------------
\* A job reads the two files before, while and after it builds a context.
Holds(j) == reloadLock # <<>> /\ Head(reloadLock) = j /\ (j = "watch" => watch = "reloading")
VersionBefore(seen) == SubSeq(seen, 1, 2)
Loaded(seen) == SubSeq(seen, 3, 4)
VersionAfter(seen)  == SubSeq(seen, 5, 6)

ReadFile(j) ==
  /\ Holds(j) /\ Len(reads[j]) < 6
  /\ Len(reads[j]) = 2 => Content(reads[j]) # Content(applied)
  /\ Len(reads[j]) = 4 => Content(reads[j])[3] = Content(reads[j])[4]
  /\ reads' = [reads EXCEPT ![j] = Append(@, files[IF Len(@) % 2 = 0 THEN "cert" ELSE "key"])]
  /\ UNCHANGED <<files, reloadLock, context, applied, watch, retries, web, leaving, closed, errors>>

\* The two comparisons: unchanged content is left alone, and a context is only
\* installed if no file changed while it was built.
Unchanged(j) == Len(reads[j]) = 2 /\ Content(reads[j]) = Content(applied)
SameFilesByContent(seen) == Content(VersionBefore(seen)) = Content(VersionAfter(seen))   \* mutant
SameFiles(seen) == VersionBefore(seen) = VersionAfter(seen)
Loads(j) == Len(reads[j]) = 6 /\ SameFiles(reads[j])
KeyMismatch(j) == Len(reads[j]) = 4 /\ Content(reads[j])[3] # Content(reads[j])[4]
Changed(j) == Len(reads[j]) = 6 /\ ~SameFiles(reads[j])

Install(j) ==
  IF Loads(j) THEN context' = Loaded(reads[j]) /\ applied' = VersionAfter(reads[j])
  ELSE UNCHANGED <<context, applied>>

\* The watcher after a reload: an interval, or one of the three delays; after the
\* third it is an interval again.
WatcherGivesUp(ok) ==                                                  \* mutant
  /\ watch' = IF ok \/ retries < 3 THEN "asleep" ELSE "ended"
  /\ retries' = IF ok THEN 0 ELSE IF retries < 3 THEN retries + 1 ELSE retries
WatcherSleeps(ok) ==
  /\ watch' = "asleep"
  /\ retries' = IF ok THEN 0 ELSE (retries + 1) % 4

\* reload returns, by a result or by the exception it turns into one.
ReloadEnds(j) ==
  /\ Holds(j) /\ j # "startup"
  /\ \/ (Unchanged(j) \/ Loads(j) \/ KeyMismatch(j) \/ Changed(j)) /\ UNCHANGED errors
     \/ errors < ReadErrors /\ Len(reads[j]) < 6 /\ errors' = errors + 1
  /\ IF errors' = errors THEN Install(j) ELSE UNCHANGED <<context, applied>>
  /\ IF j = "watch" THEN WatcherSleeps((Unchanged(j) \/ Loads(j)) /\ errors' = errors)
     ELSE UNCHANGED <<watch, retries>>
  /\ reloadLock' = Tail(reloadLock)
  /\ reads' = [reads EXCEPT ![j] = <<>>]
  /\ UNCHANGED <<files, web, leaving, closed>>

\* ssl_context_factory inside start: no lock, and an error ends the start.
StartEnds ==
  /\ web = "starting"
  /\ Loads("startup") \/ KeyMismatch("startup") \/ Changed("startup")
  /\ reloadLock' = <<>> /\ reads' = [reads EXCEPT !["startup"] = <<>>]
  /\ Install("startup")
  /\ IF Loads("startup") THEN web' = "scheduled" /\ watch' = "asleep"
     ELSE web' = "stopped" /\ UNCHANGED watch
  /\ UNCHANGED <<files, retries, leaving, closed, errors>>

\* _watch_tls wakes.
WatcherWakes ==
  /\ watch = "asleep"
  /\ IF leaving THEN watch' = "ended" /\ UNCHANGED reloadLock
     ELSE watch' = "reloading" /\ reloadLock' = Append(reloadLock, "watch")
  /\ UNCHANGED <<files, reads, context, applied, retries, web, leaving, closed, errors>>

\* _reload_local: a command reaches the listener.
Active == web \in {"scheduled", "serving", "leaving"}
Manual ==
  /\ Active /\ "manual" \notin {reloadLock[i] : i \in DOMAIN reloadLock}
  /\ reloadLock' = Append(reloadLock, "manual")
  /\ UNCHANGED <<files, reads, context, applied, watch, retries, web, leaving, closed, errors>>

-----------------------------------------------------------------------------
\* serve: the loop runs until should_exit, a cancellation or an error.
ServeStarts ==
  /\ web = "scheduled" /\ web' = IF leaving THEN "left" ELSE "serving"
  /\ UNCHANGED <<files, reads, reloadLock, context, applied, watch, retries, leaving, closed, errors>>

\* _stop_tls_watcher: a cancelled watcher leaves the lock, or its place in it.
CancelWatcher ==
  /\ watch' = IF watch = "none" THEN "none" ELSE "ended"
  /\ reloadLock' = SelectSeq(reloadLock, LAMBDA j : j # "watch")
  /\ reads' = [reads EXCEPT !["watch"] = <<>>]

ServeLeaves ==
  /\ web = "serving"
  /\ \/ leaving /\ UNCHANGED errors
     \/ errors < ReadErrors /\ errors' = errors + 1
  /\ web' = "leaving"
  /\ CancelWatcher
  /\ UNCHANGED <<files, context, applied, retries, leaving, closed>>

\* The rest of serve's finally: the server is shut down if nobody did.
ServeEnded ==
  /\ web = "leaving" /\ web' = "left"
  /\ closed' = closed + 1
  /\ UNCHANGED <<files, reads, reloadLock, context, applied, watch, retries, leaving, errors>>

\* The worker is told to end: its main task cancels the serving tasks.
Leave ==
  /\ web \in {"scheduled", "serving", "leaving", "left"} /\ ~leaving
  /\ leaving' = TRUE
  /\ UNCHANGED <<files, reads, reloadLock, context, applied, watch, retries, web, closed, errors>>

\* stop, once serve is over; a task that was cancelled before its first step never
\* entered serve, and stop shuts the server down.
StopBegins ==
  /\ web = "left" /\ leaving /\ web' = "stopping"
  /\ CancelWatcher
  /\ UNCHANGED <<files, context, applied, retries, leaving, closed, errors>>
StopEnds ==
  /\ web = "stopping" /\ web' = "stopped"
  /\ closed' = IF closed = 0 THEN 1 ELSE closed
  /\ UNCHANGED <<files, reads, reloadLock, context, applied, watch, retries, leaving, errors>>

TlsNext ==
  \/ \E f \in File : Replace(f)
  \/ \E j \in Job : ReadFile(j) \/ ReloadEnds(j)
  \/ StartEnds \/ WatcherWakes \/ Manual
  \/ ServeStarts \/ ServeLeaves \/ ServeEnded \/ Leave \/ StopBegins \/ StopEnds

TlsSpec == TlsInit /\ [][TlsNext]_tlsVars
-----------------------------------------------------------------------------
TlsTypeOK ==
  /\ files \in [File -> 0 .. Writes]
  /\ \A j \in Job : reads[j] \in Seq(0 .. Writes) /\ Len(reads[j]) <= 6
  /\ reloadLock \in Seq(Job) /\ Cardinality({reloadLock[i] : i \in DOMAIN reloadLock}) = Len(reloadLock)
  /\ watch \in {"none", "asleep", "reloading", "ended"} /\ retries \in 0 .. 3
  /\ web \in {"starting", "scheduled", "serving", "leaving", "left", "stopping", "stopped"}
  /\ closed \in 0 .. 1

\* The context that answers handshakes holds a certificate with its own key, and is
\* made of the contents that are recorded as applied: were it not, the next reload
\* would find the files unchanged and leave the wrong certificate in service for
\* good.  The files change between any two reads.
AppliedIsServed ==
  context # None =>
    /\ Content(context) = Content(applied)
    /\ Content(context)[1] = Content(context)[2]

\* In the modes "watch" and "both" a listener that keeps serving answers with the
\* last pair of files some time after the operator put it there, whatever number of
\* reloads met half of it, failed to read it, or queued behind a manual one.
WatchCatchesUp ==
  (\A f \in File : files[f] = Writes) /\ web = "serving"
    ~> Content(context) = Content(<<files["cert"], files["key"]>>) \/ web # "serving" \/ leaving
=============================================================================
