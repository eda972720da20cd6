----------------------------- MODULE AdapterProofs -----------------------------
(***************************************************************************)
(* What holds of the adapters for every number of threads, sessions, files *)
(* and rotations: the certificate that is recorded as applied is the one   *)
(* that is served (TlsReloader), no channel is forgotten and none is used  *)
(* with an older certificate than its call has seen (GrpcChannel), a       *)
(* caller that waits is owed an answer and an upload that ended is whole   *)
(* (SocketLink), a task reads its own context (RequestContext), a          *)
(* connection is told farewell once (WsConnection), the gate opens for     *)
(* good tokens (WebGate), each RPC ends with the status of its error       *)
(* (GrpcServer), each route fires once per message (MqttSession), handlers *)
(* and watches see what was written (OpcUaNodes), and a site answers with  *)
(* its own routes (WebSite).  Each part defines its inductive invariant    *)
(* first, then has one lemma per action or group of actions.               *)
(***************************************************************************)
EXTENDS Parts, TlsReloader, GrpcChannel, SocketLink,
        TLAPS, FiniteSetTheorems, FunctionTheorems, SequenceTheorems, WellFoundedInduction,
        NaturalsInduction

-----------------------------------------------------------------------------
(* The TLS reloader *)

\* What job j has read was read in this order from files that are only replaced by
\* newer ones: the same file read again is the same or newer, and none is newer
\* than what is there now.  A fifth read follows a pair that belongs together.
FileAt(i) == IF i % 2 = 1 THEN "cert" ELSE "key"
ReadsInTime(j) ==
  /\ \A i \in DOMAIN reads[j] : reads[j][i] <= files[FileAt(i)]
  /\ \A i, k \in DOMAIN reads[j] : k = i + 2 => reads[j][i] <= reads[j][k]
  /\ Len(reads[j]) > 4 => reads[j][3] % 2 = reads[j][4] % 2
TlsInv ==
  /\ files \in [File -> Nat]
  /\ reads \in [Job -> Seq(Nat)] /\ \A j \in Job : Len(reads[j]) <= 6
  /\ \A j \in Job : ReadsInTime(j)
  /\ AppliedIsServed

\* What a job has read is left alone or forgotten, and the context stays.
LEMMA ReadsUndisturbed ==
  ASSUME TlsInv, UNCHANGED <<context, applied>>, files' \in [File -> Nat],
         \A f \in File : files'[f] >= files[f],
         reads' \in [Job -> Seq(Nat)],
         \A j \in Job : reads'[j] = reads[j] \/ reads'[j] = <<>>
  PROVE  TlsInv'
<1> USE DEF TlsInv
<1>1. ASSUME NEW j \in Job PROVE ReadsInTime(j)' /\ Len(reads'[j]) <= 6
  <2>1. CASE reads'[j] = <<>>
    BY <2>1 DEF ReadsInTime
  <2>2. CASE reads'[j] = reads[j]
    <3>1. \A i \in DOMAIN reads[j] : reads[j][i] \in Nat /\ FileAt(i) \in File
      BY DEF FileAt, File
    <3>2. \A i \in DOMAIN reads[j] : reads[j][i] <= files'[FileAt(i)]
      BY <3>1 DEF ReadsInTime
    <3> QED
      BY <2>2, <3>2 DEF ReadsInTime
  <2> QED
    BY <2>1, <2>2
<1>2. AppliedIsServed'
  BY DEF AppliedIsServed, Content
<1> QED
  BY <1>1, <1>2

\* One more read, of the file as it is now.
LEMMA ReadFileKeeps == ASSUME NEW j \in Job PROVE TlsInv /\ ReadFile(j) => TlsInv'
<1> SUFFICES ASSUME TlsInv, ReadFile(j) PROVE TlsInv'
  OBVIOUS
<1> USE DEF TlsInv
<1> DEFINE seen == reads[j]
           n == Len(seen)
           f == IF n % 2 = 0 THEN "cert" ELSE "key"
<1>1. /\ seen \in Seq(Nat) /\ n \in 0 .. 5 /\ DOMAIN seen = 1 .. n
      /\ n = 4 => Content(seen)[3] = Content(seen)[4]
      /\ reads' = [reads EXCEPT ![j] = Append(seen, files[f])]
      /\ UNCHANGED <<files, context, applied>>
  <2>1. seen \in Seq(Nat)
    OBVIOUS
  <2>2. n \in Nat /\ DOMAIN seen = 1 .. n
    BY <2>1
  <2>3. n < 6
    BY DEF ReadFile
  <2>4. UNCHANGED <<files, context, applied>>
    BY DEF ReadFile
  <2>5. n = 4 => Content(seen)[3] = Content(seen)[4]
    BY DEF ReadFile
  <2>6. reads' = [reads EXCEPT ![j] = Append(seen, files[f])]
    BY DEF ReadFile
  <2> HIDE DEF seen, n, f
  <2>7. n \in 0 .. 5
    BY <2>2, <2>3
  <2> QED
    BY <2>1, <2>2, <2>4, <2>5, <2>6, <2>7
<1>2. files[f] \in Nat /\ f = FileAt(n + 1)
  <2>1. f \in File
    BY DEF File
  <2>2. n % 2 = 0 <=> (n + 1) % 2 = 1
    <3> HIDE DEF n
    <3>1. n = 0 \/ n = 1 \/ n = 2 \/ n = 3 \/ n = 4 \/ n = 5
      BY <1>1
    <3> QED
      BY <3>1
  <2> QED
    BY <2>1, <2>2 DEF FileAt
<1>3. /\ Append(seen, files[f]) \in Seq(Nat) /\ Len(Append(seen, files[f])) = n + 1
      /\ DOMAIN Append(seen, files[f]) = 1 .. n + 1
      /\ \A i \in 1 .. n : Append(seen, files[f])[i] = seen[i]
      /\ Append(seen, files[f])[n + 1] = files[f]
  BY <1>1, <1>2, AppendProperties
<1>4. PICK s \in Seq(Nat) : s = Append(seen, files[f])
  BY <1>3
<1>5. /\ reads' \in [Job -> Seq(Nat)] /\ reads'[j] = s
      /\ \A k \in Job : k # j => reads'[k] = reads[k]
  BY <1>1, <1>4
<1>6. /\ Len(s) = n + 1 /\ DOMAIN s = 1 .. n + 1 /\ \A i \in 1 .. n : s[i] = seen[i]
      /\ s[n + 1] = files[FileAt(n + 1)]
  BY <1>2, <1>3, <1>4
<1>7. /\ \A i \in 1 .. n : seen[i] <= files[FileAt(i)] /\ seen[i] \in Nat
      /\ \A i, k \in 1 .. n : k = i + 2 => seen[i] <= seen[k]
      /\ n > 4 => seen[3] % 2 = seen[4] % 2
  <2>1. ReadsInTime(j)
    OBVIOUS
  <2>2. \A i \in 1 .. n : seen[i] \in Nat
    BY <1>1
  <2>3. n > 4 => seen[3] % 2 = seen[4] % 2
    BY <2>1 DEF ReadsInTime
  <2>4. \A i \in 1 .. n : seen[i] <= files[FileAt(i)]
    BY <1>1, <2>1 DEF ReadsInTime
  <2>5. \A i, k \in 1 .. n : k = i + 2 => seen[i] <= seen[k]
    BY <1>1, <2>1 DEF ReadsInTime
  <2> QED
    BY <2>2, <2>3, <2>4, <2>5
<1>8. n = 4 => seen[3] % 2 = seen[4] % 2
  BY <1>1 DEF Content
<1>9. FileAt(n - 1) = FileAt(n + 1)
  BY <1>1 DEF FileAt
<1> HIDE DEF seen, n, f
<1>10. ReadsInTime(j)'
  <2>1. \A i \in 1 .. n + 1 : s[i] <= files[FileAt(i)]
    <3>1. s[n + 1] <= files[FileAt(n + 1)]
      BY <1>2, <1>6
    <3>2. \A i \in 1 .. n + 1 : i \in 1 .. n \/ i = n + 1
      BY <1>1
    <3> QED
      BY <1>6, <1>7, <3>1, <3>2
  <2>2. ASSUME NEW i \in 1 .. n + 1, NEW k \in 1 .. n + 1, k = i + 2 PROVE s[i] <= s[k]
    <3>1. CASE k = n + 1
      <4>1. i = n - 1 /\ i \in 1 .. n
        BY <1>1, <2>2, <3>1
      <4> QED
        BY <1>6, <1>7, <1>9, <3>1, <4>1
    <3>2. CASE k # n + 1
      <4>1. i \in 1 .. n /\ k \in 1 .. n
        BY <1>1, <2>2, <3>2
      <4> QED
        BY <1>6, <1>7, <2>2, <4>1
    <3> QED
      BY <3>1, <3>2
  <2>3. n + 1 > 4 => s[3] % 2 = s[4] % 2
    <3>1. n + 1 > 4 => n = 4 \/ n > 4
      BY <1>1
    <3>2. n + 1 > 4 => s[3] = seen[3] /\ s[4] = seen[4]
      BY <1>1, <1>6
    <3> QED
      BY <1>7, <1>8, <3>1, <3>2
  <2>4. files' = files
    BY <1>1
  <2> QED
    BY <1>5, <1>6, <2>1, <2>2, <2>3, <2>4 DEF ReadsInTime
<1>11. ASSUME NEW k \in Job, k # j PROVE ReadsInTime(k)'
  BY <1>1, <1>5, <1>11 DEF ReadsInTime
<1>12. AppliedIsServed'
  BY <1>1 DEF AppliedIsServed, Content
<1>13. \A k \in Job : Len(reads'[k]) <= 6
  BY <1>1, <1>5, <1>6
<1> QED
  BY <1>1, <1>5, <1>10, <1>11, <1>12, <1>13

\* A context is built of the pair that was there before and after: the same pair,
\* so it belongs together.
LEMMA InstallIsServed ==
  ASSUME TlsInv, NEW j \in Job, Install(j)
  PROVE  AppliedIsServed'
<1> USE DEF TlsInv
<1>1. CASE ~Loads(j)
  BY <1>1 DEF Install, AppliedIsServed, Content
<1>2. CASE Loads(j)
  <2> DEFINE seen == reads[j]
  <2>1. /\ seen \in Seq(Nat) /\ Len(seen) = 6 /\ DOMAIN seen = 1 .. 6
        /\ SubSeq(seen, 1, 2) = SubSeq(seen, 5, 6)
        /\ context' = SubSeq(seen, 3, 4) /\ applied' = SubSeq(seen, 5, 6)
    BY <1>2 DEF Loads, SameFiles, VersionBefore, VersionAfter, Loaded, Install
  <2>2. /\ \A i, k \in 1 .. 6 : k = i + 2 => seen[i] <= seen[k]
        /\ seen[3] % 2 = seen[4] % 2 /\ \A i \in 1 .. 6 : seen[i] \in Nat
    <3>1. ReadsInTime(j)
      OBVIOUS
    <3>2. seen[3] % 2 = seen[4] % 2
      BY <2>1, <3>1 DEF ReadsInTime
    <3>3. \A i, k \in 1 .. 6 : k = i + 2 => seen[i] <= seen[k]
      BY <2>1, <3>1 DEF ReadsInTime
    <3> HIDE DEF seen
    <3>4. \A i \in 1 .. 6 : seen[i] \in Nat
      <4>1. \A s \in Seq(Nat) : \A i \in DOMAIN s : s[i] \in Nat
        OBVIOUS
      <4> QED
        BY <2>1, <4>1
    <3> QED
      BY <3>2, <3>3, <3>4
  <2> HIDE DEF seen
  <2>3. ASSUME NEW a \in {1, 3, 5}
        PROVE  /\ DOMAIN SubSeq(seen, a, a + 1) = 1 .. 2
               /\ SubSeq(seen, a, a + 1)[1] = seen[a] /\ SubSeq(seen, a, a + 1)[2] = seen[a + 1]
    BY <2>1
  <2>4. seen[1] = seen[5] /\ seen[2] = seen[6]
    <3>1. SubSeq(seen, 1, 2)[1] = seen[1] /\ SubSeq(seen, 1, 2)[2] = seen[2]
      BY <2>3
    <3>2. SubSeq(seen, 5, 6)[1] = seen[5] /\ SubSeq(seen, 5, 6)[2] = seen[6]
      BY <2>3
    <3> QED
      BY <2>1, <3>1, <3>2
  <2>5. seen[3] = seen[5] /\ seen[4] = seen[6]
    <3>1. seen[1] <= seen[3] /\ seen[3] <= seen[5] /\ seen[2] <= seen[4] /\ seen[4] <= seen[6]
      BY <2>2
    <3> QED
      BY <2>2, <2>4, <3>1
  <2>6. /\ DOMAIN context' = 1 .. 2 /\ context'[1] = seen[3] /\ context'[2] = seen[4]
        /\ DOMAIN applied' = 1 .. 2 /\ applied'[1] = seen[5] /\ applied'[2] = seen[6]
    BY <2>1, <2>3
  <2>7. \A i \in 1 .. 2 : context'[i] = applied'[i]
    BY <2>5, <2>6
  <2> QED
    BY <2>2, <2>6, <2>7 DEF AppliedIsServed, Content
<1> QED
  BY <1>1, <1>2

\* A reload, or the start, that ends forgets what it has read.
LEMMA EndKeeps ==
  ASSUME TlsInv, NEW j \in Job, files' = files, reads' = [reads EXCEPT ![j] = <<>>],
         Install(j) \/ UNCHANGED <<context, applied>>
  PROVE  TlsInv'
<1> USE DEF TlsInv
<1>1. /\ reads' \in [Job -> Seq(Nat)] /\ reads'[j] = <<>>
      /\ \A k \in Job : k # j => reads'[k] = reads[k]
  OBVIOUS
<1>2. \A k \in Job : ReadsInTime(k)' /\ Len(reads'[k]) <= 6
  BY <1>1 DEF ReadsInTime
<1>3. AppliedIsServed'
  BY InstallIsServed DEF AppliedIsServed, Content
<1> QED
  BY <1>1, <1>2, <1>3

\* At first nothing is read and nothing served.
LEMMA TlsInitHolds == TlsInit => TlsInv
BY DEF TlsInit, TlsInv, ReadsInTime, AppliedIsServed, None

\* Every step keeps the invariant.
LEMMA TlsStepKeeps == TlsInv /\ [TlsNext]_tlsVars => TlsInv'
<1> SUFFICES ASSUME TlsInv, [TlsNext]_tlsVars PROVE TlsInv'
  OBVIOUS
<1>1. files \in [File -> Nat] /\ reads \in [Job -> Seq(Nat)]
  BY DEF TlsInv
<1>2. ASSUME NEW f \in File, Replace(f) PROVE TlsInv'
  <2>1. files' = [files EXCEPT ![f] = @ + 1] /\ UNCHANGED <<reads, context, applied>>
    BY <1>2 DEF Replace
  <2> QED
    BY <1>1, <2>1, ReadsUndisturbed
<1>3. ASSUME NEW j \in Job, ReloadEnds(j) PROVE TlsInv'
  BY <1>3, EndKeeps DEF ReloadEnds
<1>4. CASE StartEnds
  BY <1>4, EndKeeps DEF StartEnds, Job
<1>5. CASE ServeLeaves \/ StopBegins
  <2>1. reads' = [reads EXCEPT !["watch"] = <<>>] /\ UNCHANGED <<files, context, applied>>
    BY <1>5 DEF ServeLeaves, StopBegins, CancelWatcher
  <2> QED
    BY <2>1, EndKeeps DEF Job
<1>6. CASE UNCHANGED <<files, reads, context, applied>>
  BY <1>1, <1>6, ReadsUndisturbed
<1>7. CASE WatcherWakes \/ Manual \/ ServeStarts \/ ServeEnded \/ Leave \/ StopEnds \/ UNCHANGED tlsVars
  BY <1>6, <1>7 DEF WatcherWakes, Manual, ServeStarts, ServeEnded, Leave, StopEnds, tlsVars
<1> QED
  BY <1>2, <1>3, <1>4, <1>5, <1>7, ReadFileKeeps DEF TlsNext

\* For any number of replacements and failed reads, at any moment of a reload: what
\* answers handshakes is a certificate with its own key, and the pair that is
\* recorded as applied (_tls_reload.py).
THEOREM ServedIsApplied == TlsSpec => []AppliedIsServed
<1>1. TlsInv => AppliedIsServed
  BY DEF TlsInv
<1> QED
  BY <1>1, TlsInitHolds, TlsStepKeeps, PTL DEF TlsSpec

-----------------------------------------------------------------------------
(* The gRPC channel *)

\* Types: a channel has an index, a call that is on one has that index.
ChannelRec == [cert : Nat, state : {"open", "closing", "closed"}]
CallRec    == [at : {"idle", "looking", "building", "installing", "inflight"},
               version : Nat, on : Nat, attempt : Nat]
OnChannel(t) == caller[t].at \in {"building", "installing", "inflight"}

GrpcShape ==
  /\ certificate \in Nat /\ certVersion \in Int /\ channels \in Seq(ChannelRec)
  /\ channel \in 0 .. Len(channels) /\ retired \subseteq 1 .. Len(channels)
  /\ caller \in [Callers -> CallRec]
  /\ \A t \in Callers : OnChannel(t) => caller[t].on \in 1 .. Len(channels)

\* Versions are those of the past, and a channel that is used, or built, has a
\* certificate at least as new as the version that its call has read.
Versions ==
  /\ certVersion <= certificate
  /\ \A t \in Callers : caller[t].version <= certificate
  /\ channel # 0 => channels[channel].cert >= certVersion
  /\ \A t \in Callers : OnChannel(t) => channels[caller[t].on].cert >= caller[t].version

\* One caller has the lock; when it is about to install its channel, the old one has
\* been retired, and may be closed by now.
Lock ==
  /\ \A t, u \in Callers : Owns(t) /\ Owns(u) => t = u
  /\ closing = "no" =>
       \A t \in Callers : caller[t].at = "installing" =>
         channel = 0 \/ channel \in retired \/ channels[channel].state = "closed"
GrpcInv == GrpcShape /\ Versions /\ Lock /\ NoChannelForgotten

\* Only callers change, or the certificate, and nobody holds the lock or lets it go.
LEMMA CallersOnly ==
  ASSUME GrpcInv, UNCHANGED <<channels, channel, certVersion, retired, closing>>,
         certificate' \in Nat, certificate' >= certificate,
         caller' \in [Callers -> CallRec],
         \A t \in Callers : Owns(t)' <=> Owns(t),
         \A t \in Callers : Owns(t) => caller'[t] = caller[t],
         \A t \in Callers : caller'[t].version <= certificate',
         \A t \in Callers : OnChannel(t)' =>
           caller'[t].on \in 1 .. Len(channels) /\ channels[caller'[t].on].cert >= caller'[t].version
  PROVE  GrpcInv'
<1> USE DEF GrpcInv
<1>1. GrpcShape'
  BY DEF GrpcShape, OnChannel
<1>2. Versions'
  <2>1. certVersion' <= certificate'
    BY DEF GrpcShape, Versions
  <2> QED
    BY <2>1 DEF Versions, OnChannel
<1>3. \A t \in Callers : caller'[t].at = "installing" => caller[t].at = "installing"
  BY DEF Owns
<1>4. Lock'
  BY <1>3 DEF Lock
<1>5. NoChannelForgotten'
  BY DEF NoChannelForgotten
<1> QED
  BY <1>1, <1>2, <1>4, <1>5

\* Nobody has called and no channel is built.
LEMMA GrpcInitHolds == GrpcInit => GrpcInv
<1> SUFFICES ASSUME GrpcInit PROVE GrpcInv
  OBVIOUS
<1>1. NoCall \in CallRec /\ NoCall.at = "idle" /\ NoCall.version = 0
  BY DEF NoCall, CallRec
<1>2. <<>> \in Seq(ChannelRec) /\ Len(<<>>) = 0 /\ DOMAIN <<>> = {}
  OBVIOUS
<1>3. GrpcShape
  BY <1>1, <1>2 DEF GrpcInit, GrpcShape, OnChannel
<1>4. Versions
  BY <1>1 DEF GrpcInit, Versions, OnChannel
<1>5. Lock /\ NoChannelForgotten
  BY <1>1, <1>2 DEF GrpcInit, Lock, NoChannelForgotten, Owns
<1> QED
  BY <1>3, <1>4, <1>5 DEF GrpcInv

\* The steps of a call outside the lock.
LEMMA CallersKeep ==
  ASSUME NEW t \in Callers
  PROVE  GrpcInv /\ (CallBegins(t) \/ UseChannel(t) \/ Retry(t) \/ CallEnds(t)) => GrpcInv'
<1> SUFFICES ASSUME GrpcInv, CallBegins(t) \/ UseChannel(t) \/ Retry(t) \/ CallEnds(t) PROVE GrpcInv'
  OBVIOUS
<1>1. /\ certificate \in Nat /\ certVersion \in Int /\ caller \in [Callers -> CallRec] /\ caller[t] \in CallRec
      /\ channel \in 0 .. Len(channels)
      /\ \A u \in Callers : OnChannel(u) => caller[u].on \in 1 .. Len(channels)
      /\ \A u \in Callers : OnChannel(u) => channels[caller[u].on].cert >= caller[u].version
      /\ \A u \in Callers : caller[u].version <= certificate
      /\ channel # 0 => channels[channel].cert >= certVersion
  BY DEF GrpcInv, GrpcShape, Versions
<1>2. /\ UNCHANGED <<channels, channel, certVersion, retired, closing, certificate>>
      /\ \E c \in CallRec :
           /\ caller' = [caller EXCEPT ![t] = c]
           /\ caller[t].at \notin {"building", "installing"} /\ c.at \notin {"building", "installing"}
           /\ c.version <= certificate
           /\ c.at = "inflight" => c.on \in 1 .. Len(channels) /\ channels[c.on].cert >= c.version
  <2>1. CASE CallBegins(t)
    <3> DEFINE c == [NoCall EXCEPT !.at = "looking", !.version = certificate]
    <3>1. NoCall \in CallRec
      BY DEF NoCall, CallRec
    <3>2. c \in CallRec /\ c.at = "looking" /\ c.version = certificate
      BY <1>1, <3>1 DEF CallRec
    <3>3. caller' = [caller EXCEPT ![t] = c] /\ caller[t].at = "idle"
      BY <2>1 DEF CallBegins
    <3>4. c.version <= certificate
      BY <1>1, <3>2
    <3> HIDE DEF c
    <3> QED
      BY <2>1, <3>2, <3>3, <3>4 DEF CallBegins
  <2>2. CASE UseChannel(t)
    <3> DEFINE c == [caller[t] EXCEPT !.at = "inflight", !.on = channel, !.attempt = 1]
    <3>1. channel \in Nat \ {0} /\ channel \in 1 .. Len(channels) /\ caller[t].version = certVersion
      BY <1>1, <2>2 DEF UseChannel, Stale, GrpcInv, GrpcShape
    <3>2. c \in CallRec /\ c.at = "inflight" /\ c.on = channel /\ c.version = caller[t].version
      BY <1>1, <3>1 DEF CallRec
    <3>3. c.version <= certificate /\ channels[c.on].cert >= c.version
      BY <1>1, <3>1, <3>2
    <3>4. caller' = [caller EXCEPT ![t] = c] /\ caller[t].at = "looking"
      BY <2>2 DEF UseChannel
    <3> HIDE DEF c
    <3> QED
      BY <2>2, <3>1, <3>2, <3>3, <3>4 DEF UseChannel
  <2>3. CASE Retry(t)
    <3> DEFINE c == [at |-> "inflight", version |-> caller[t].version, on |-> caller[t].on,
                     attempt |-> caller[t].attempt + 1]
    <3>1. c \in CallRec
      BY <1>1 DEF CallRec
    <3>3. [caller[t] EXCEPT !.attempt = caller[t].attempt + 1] = c
      BY <1>1, <2>3 DEF CallRec, Retry
    <3>4. caller' = [caller EXCEPT ![t] = c]
      BY <2>3, <3>3 DEF Retry
    <3>2. OnChannel(t)
      BY <2>3 DEF Retry, OnChannel
    <3> QED
      BY <1>1, <2>3, <3>1, <3>2, <3>4 DEF Retry
  <2>4. CASE CallEnds(t)
    <3>1. NoCall \in CallRec /\ NoCall.at = "idle" /\ NoCall.version = 0
      BY DEF NoCall, CallRec
    <3>2. caller' = [caller EXCEPT ![t] = NoCall] /\ caller[t].at = "inflight"
      BY <2>4 DEF CallEnds
    <3>3. NoCall.version <= certificate
      BY <1>1, <3>1
    <3> QED
      BY <2>4, <3>1, <3>2, <3>3 DEF CallEnds
  <2> QED
    BY <2>1, <2>2, <2>3, <2>4
<1>3. PICK c \in CallRec :
        /\ caller' = [caller EXCEPT ![t] = c]
        /\ caller[t].at \notin {"building", "installing"} /\ c.at \notin {"building", "installing"}
        /\ c.version <= certificate
        /\ c.at = "inflight" => c.on \in 1 .. Len(channels) /\ channels[c.on].cert >= c.version
  BY <1>2
<1>4. /\ caller' \in [Callers -> CallRec] /\ caller'[t] = c
      /\ \A u \in Callers : u # t => caller'[u] = caller[u]
  BY <1>1, <1>3
<1>5. \A u \in Callers : Owns(u)' <=> Owns(u)
  BY <1>3, <1>4 DEF Owns
<1>6. \A u \in Callers : Owns(u) => caller'[u] = caller[u]
  BY <1>3, <1>4 DEF Owns
<1>7. \A u \in Callers : OnChannel(u)' =>
        caller'[u].on \in 1 .. Len(channels) /\ channels[caller'[u].on].cert >= caller'[u].version
  <2> SUFFICES ASSUME NEW u \in Callers, OnChannel(u)'
               PROVE  caller'[u].on \in 1 .. Len(channels) /\ channels[caller'[u].on].cert >= caller'[u].version
    OBVIOUS
  <2>1. CASE u = t
    BY <1>3, <1>4, <2>1 DEF OnChannel
  <2>2. CASE u # t
    BY <1>1, <1>4, <2>2 DEF OnChannel
  <2> QED
    BY <2>1, <2>2
<1>8. \A u \in Callers : caller'[u].version <= certificate
  BY <1>1, <1>3, <1>4
<1>9. certificate' \in Nat /\ certificate' >= certificate /\ certificate' = certificate
  BY <1>1, <1>2
<1> QED
  BY <1>2, <1>4, <1>5, <1>6, <1>7, <1>8, <1>9, CallersOnly

\* Channels only close, and a retired one is only let go when it is closed.
LEMMA ChannelsClose ==
  ASSUME GrpcInv, UNCHANGED <<certificate, certVersion, caller>>,
         channels' \in Seq(ChannelRec), Len(channels') = Len(channels),
         \A c \in 1 .. Len(channels) :
           /\ channels'[c].cert = channels[c].cert
           /\ channels[c].state = "closed" => channels'[c].state = "closed",
         retired' \subseteq retired,
         \A c \in retired : c \notin retired' => channels'[c].state = "closed",
         closing' = "no" => closing = "no" /\ channel' = channel,
         channel' = channel \/ channel' = 0
  PROVE  GrpcInv'
<1> USE DEF GrpcInv
<1>1. Len(channels) \in Nat /\ DOMAIN channels = 1 .. Len(channels) /\ DOMAIN channels' = 1 .. Len(channels)
      /\ channel \in 0 .. Len(channels) /\ retired \subseteq 1 .. Len(channels)
  BY DEF GrpcShape
<1>2. GrpcShape'
  BY <1>1 DEF GrpcShape, OnChannel
<1>3. Versions'
  <2>1. channel' # 0 => channels'[channel'].cert >= certVersion
    BY <1>1 DEF Versions
  <2>2. \A t \in Callers : OnChannel(t) => channels'[caller[t].on].cert >= caller[t].version
    BY DEF Versions, GrpcShape
  <2> QED
    BY <2>1, <2>2 DEF Versions, OnChannel
<1>4. Lock'
  <2>1. ASSUME closing' = "no", NEW t \in Callers, caller[t].at = "installing", channel # 0
        PROVE  channel \in retired' \/ channels'[channel].state = "closed"
    BY <1>1, <2>1 DEF Lock
  <2> QED
    BY <2>1 DEF Lock, Owns
<1>5. NoChannelForgotten'
  <2> SUFFICES ASSUME closing' = "no", NEW c \in DOMAIN channels', channels'[c].state # "closed"
               PROVE  c = channel' \/ c \in retired' \/ \E t \in Callers : Owns(t)' /\ caller'[t].on = c
    BY DEF NoChannelForgotten
  <2>1. c \in DOMAIN channels /\ channels[c].state # "closed"
    BY <1>1
  <2>2. c = channel \/ c \in retired \/ \E t \in Callers : Owns(t) /\ caller[t].on = c
    BY <2>1 DEF NoChannelForgotten
  <2> QED
    BY <2>2 DEF Owns
<1> QED
  BY <1>2, <1>3, <1>4, <1>5

\* The end of a retired channel, and of all channels.
LEMMA ClosingKeeps ==
  GrpcInv /\ (CloseCurrent \/ CloseRetired \/ \E c \in retired : RetiredCloses(c)) => GrpcInv'
<1> SUFFICES ASSUME GrpcInv, CloseCurrent \/ CloseRetired \/ \E c \in retired : RetiredCloses(c)
             PROVE  GrpcInv'
  OBVIOUS
<1>1. /\ channels \in Seq(ChannelRec) /\ Len(channels) \in Nat /\ DOMAIN channels = 1 .. Len(channels)
      /\ channel \in 0 .. Len(channels) /\ retired \subseteq 1 .. Len(channels)
  BY DEF GrpcInv, GrpcShape
\* what is closed of a set of channels
<1> DEFINE closedOf(S) == [c \in 1 .. Len(channels) |->
                             IF c \in S THEN [channels[c] EXCEPT !.state = "closed"] ELSE channels[c]]
<1>2. ASSUME NEW S
      PROVE  /\ closedOf(S) \in Seq(ChannelRec) /\ Len(closedOf(S)) = Len(channels)
             /\ \A c \in 1 .. Len(channels) :
                  /\ closedOf(S)[c].cert = channels[c].cert
                  /\ channels[c].state = "closed" => closedOf(S)[c].state = "closed"
                  /\ c \in S => closedOf(S)[c].state = "closed"
  <2>1. \A c \in 1 .. Len(channels) :
          /\ channels[c] \in ChannelRec
          /\ [channels[c] EXCEPT !.state = "closed"] \in ChannelRec
          /\ [channels[c] EXCEPT !.state = "closed"].cert = channels[c].cert
          /\ [channels[c] EXCEPT !.state = "closed"].state = "closed"
    <3>1. \A r \in ChannelRec :
            /\ [r EXCEPT !.state = "closed"] \in ChannelRec
            /\ [r EXCEPT !.state = "closed"].cert = r.cert
            /\ [r EXCEPT !.state = "closed"].state = "closed"
      BY DEF ChannelRec
    <3>2. \A c \in 1 .. Len(channels) : channels[c] \in ChannelRec
      BY <1>1
    <3> QED
      BY <3>1, <3>2
  <2>2. closedOf(S) \in [1 .. Len(channels) -> ChannelRec]
    BY <2>1
  <2>3. closedOf(S) \in Seq(ChannelRec) /\ Len(closedOf(S)) = Len(channels)
    BY <1>1, <2>2
  <2> QED
    BY <2>1, <2>3
<1>3. CASE CloseCurrent
  <2>1. channels' = closedOf({channel}) \/ channels' = channels
    <3>1. CASE channel = 0
      BY <1>3, <3>1 DEF CloseCurrent
    <3>2. CASE channel # 0
      <4>1. channels' = [channels EXCEPT ![channel].state = "closed"]
        BY <1>3, <3>2 DEF CloseCurrent
      <4> QED
        BY <1>1, <4>1
    <3> QED
      BY <3>1, <3>2
  <2>2. UNCHANGED <<certificate, certVersion, caller, channel, retired>> /\ closing' = "current"
    BY <1>3 DEF CloseCurrent
  <2> HIDE DEF closedOf
  <2> QED
    BY <1>1, <1>2, <2>1, <2>2, ChannelsClose
<1>4. CASE CloseRetired
  <2>1. channels' = closedOf(retired) /\ retired' = {} /\ channel' = 0 /\ closing' = "done"
        /\ UNCHANGED <<certificate, certVersion, caller>>
    BY <1>1, <1>4 DEF CloseRetired
  <2> HIDE DEF closedOf
  <2> QED
    BY <1>1, <1>2, <2>1, ChannelsClose
<1>5. ASSUME NEW c \in retired, RetiredCloses(c) PROVE GrpcInv'
  <2>1. channels' = closedOf({c}) /\ retired' = retired \ {c}
        /\ UNCHANGED <<certificate, certVersion, caller, channel, closing>>
    BY <1>1, <1>5 DEF RetiredCloses
  <2> HIDE DEF closedOf
  <2> QED
    BY <1>1, <1>2, <2>1, ChannelsClose
<1> QED
  BY <1>3, <1>4, <1>5

\* A new channel, which its caller owns until it is installed.
LEMMA BuildKeeps == ASSUME NEW t \in Callers PROVE GrpcInv /\ BuildChannel(t) => GrpcInv'
<1> SUFFICES ASSUME GrpcInv, BuildChannel(t) PROVE GrpcInv'
  OBVIOUS
<1> USE DEF GrpcInv
<1> DEFINE n == Len(channels)
           new == [cert |-> certificate, state |-> "open"]
<1>1. /\ channels \in Seq(ChannelRec) /\ n \in Nat /\ DOMAIN channels = 1 .. n
      /\ certificate \in Nat /\ certVersion \in Int /\ caller \in [Callers -> CallRec] /\ caller[t] \in CallRec
      /\ channel \in 0 .. n /\ retired \subseteq 1 .. n
      /\ \A u \in Callers : OnChannel(u) => caller[u].on \in 1 .. n
  BY DEF GrpcShape
<1>2. /\ caller[t].at = "looking" /\ \A u \in Callers : ~Owns(u)
      /\ channels' = Append(channels, new)
      /\ caller' = [caller EXCEPT ![t].at = "building", ![t].on = n + 1]
      /\ UNCHANGED <<certificate, channel, certVersion, retired, closing>>
  BY DEF BuildChannel, LockFree
<1>3. new \in ChannelRec
  BY <1>1 DEF ChannelRec
<1>4. /\ channels' \in Seq(ChannelRec) /\ Len(channels') = n + 1 /\ DOMAIN channels' = 1 .. n + 1
      /\ \A c \in 1 .. n : channels'[c] = channels[c]
      /\ channels'[n + 1] = new
  BY <1>1, <1>2, <1>3, AppendProperties
<1>5. /\ caller' \in [Callers -> CallRec]
      /\ caller'[t].at = "building" /\ caller'[t].on = n + 1 /\ caller'[t].version = caller[t].version
      /\ \A u \in Callers : u # t => caller'[u] = caller[u]
  <2> HIDE DEF n
  <2> DEFINE r == [caller[t] EXCEPT !.at = "building", !.on = n + 1]
  <2>1. n + 1 \in Nat
    BY <1>1
  <2>2. r \in CallRec /\ r.at = "building" /\ r.on = n + 1 /\ r.version = caller[t].version
    BY <1>1, <2>1 DEF CallRec
  <2>3. caller' = [caller EXCEPT ![t] = r]
    BY <1>2
  <2> HIDE DEF r
  <2> QED
    BY <1>1, <2>2, <2>3
<1> HIDE DEF n
<1>6. GrpcShape'
  BY <1>1, <1>2, <1>4, <1>5 DEF GrpcShape, OnChannel
<1>7. Versions'
  <2>1. ASSUME NEW u \in Callers, OnChannel(u)' PROVE channels'[caller'[u].on].cert >= caller'[u].version
    <3>1. CASE u = t
      BY <1>4, <1>5, <3>1 DEF Versions
    <3>2. CASE u # t
      <4>1. OnChannel(u) /\ caller'[u] = caller[u]
        BY <1>5, <2>1, <3>2 DEF OnChannel
      <4> QED
        BY <1>1, <1>4, <4>1 DEF Versions
    <3> QED
      BY <3>1, <3>2
  <2>2. channel # 0 => channels'[channel].cert >= certVersion
    BY <1>1, <1>4 DEF Versions
  <2>3. \A u \in Callers : caller'[u].version <= certificate
    BY <1>5 DEF Versions
  <2> QED
    BY <1>2, <2>1, <2>2, <2>3 DEF Versions
<1>8. Lock'
  <2>1. \A u \in Callers : Owns(u)' <=> u = t
    BY <1>2, <1>5 DEF Owns
  <2>2. \A u \in Callers : caller'[u].at # "installing"
    BY <1>2, <1>5 DEF Owns
  <2> QED
    BY <2>1, <2>2 DEF Lock
<1>9. NoChannelForgotten'
  <2> SUFFICES ASSUME closing' = "no", NEW c \in DOMAIN channels', channels'[c].state # "closed"
               PROVE  c = channel' \/ c \in retired' \/ \E u \in Callers : Owns(u)' /\ caller'[u].on = c
    BY DEF NoChannelForgotten
  <2>1. CASE c = n + 1
    BY <1>5, <2>1 DEF Owns
  <2>2. CASE c # n + 1
    <3>1. c \in DOMAIN channels /\ channels[c].state # "closed"
      BY <1>1, <1>4, <2>2
    <3> QED
      BY <1>2, <3>1 DEF NoChannelForgotten
  <2> QED
    BY <2>1, <2>2
<1> QED
  BY <1>6, <1>7, <1>8, <1>9

\* The old channel is retired, if it is still open.
LEMMA RetireKeeps == ASSUME NEW t \in Callers PROVE GrpcInv /\ RetireOld(t) => GrpcInv'
<1> SUFFICES ASSUME GrpcInv, RetireOld(t) PROVE GrpcInv'
  OBVIOUS
<1> USE DEF GrpcInv
<1>1. /\ channels \in Seq(ChannelRec) /\ Len(channels) \in Nat /\ DOMAIN channels = 1 .. Len(channels)
      /\ caller \in [Callers -> CallRec] /\ caller[t] \in CallRec
      /\ channel \in 0 .. Len(channels) /\ retired \subseteq 1 .. Len(channels)
      /\ \A u \in Callers : OnChannel(u) => caller[u].on \in 1 .. Len(channels)
  BY DEF GrpcShape
<1>2. /\ caller[t].at = "building"
      /\ caller' = [caller EXCEPT ![t].at = "installing"]
      /\ UNCHANGED <<certificate, channel, certVersion, closing>>
  BY DEF RetireOld
<1>3. /\ channels' \in Seq(ChannelRec) /\ Len(channels') = Len(channels) /\ DOMAIN channels' = DOMAIN channels
      /\ \A c \in 1 .. Len(channels) : channels'[c].cert = channels[c].cert
      /\ \A c \in 1 .. Len(channels) : channels[c].state = "closed" => channels'[c].state = "closed"
      /\ retired' \subseteq 1 .. Len(channels) /\ retired \subseteq retired'
      /\ channel # 0 => channel \in retired'
  <2>1. CASE channel = 0
    BY <1>1, <2>1 DEF RetireOld
  <2>2. CASE channel # 0
    <3>1. PICK state \in {"closing", "open"} :
            channels' = [channels EXCEPT ![channel].state = IF @ = "closed" THEN @ ELSE state]
      BY <2>2 DEF RetireOld
    <3> DEFINE after == IF channels[channel].state = "closed" THEN "closed" ELSE state
    <3>2. channel \in 1 .. Len(channels) /\ channels[channel] \in ChannelRec
      BY <1>1, <2>2
    <3>3. channels' = [channels EXCEPT ![channel] = [channels[channel] EXCEPT !.state = after]]
      BY <3>1
    <3>4. /\ [channels[channel] EXCEPT !.state = after] \in ChannelRec
          /\ [channels[channel] EXCEPT !.state = after].cert = channels[channel].cert
          /\ [channels[channel] EXCEPT !.state = after].state = after
      BY <3>2 DEF ChannelRec
    <3>5. channels' \in Seq(ChannelRec) /\ Len(channels') = Len(channels) /\ DOMAIN channels' = DOMAIN channels
      BY <1>1, <3>2, <3>3, <3>4
    <3>6. retired' = retired \cup {channel}
      BY <2>2 DEF RetireOld
    <3> QED
      BY <1>1, <3>2, <3>3, <3>4, <3>5, <3>6
  <2> QED
    BY <2>1, <2>2
<1>4. /\ caller' \in [Callers -> CallRec]
      /\ caller'[t].at = "installing" /\ caller'[t].on = caller[t].on /\ caller'[t].version = caller[t].version
      /\ \A u \in Callers : u # t => caller'[u] = caller[u]
  BY <1>1, <1>2 DEF CallRec
<1>5. \A u \in Callers : /\ OnChannel(u)' => OnChannel(u)
                         /\ caller'[u].on = caller[u].on /\ caller'[u].version = caller[u].version
                         /\ Owns(u)' <=> Owns(u)
  BY <1>2, <1>4 DEF OnChannel, Owns
<1>6. GrpcShape'
  BY <1>1, <1>2, <1>3, <1>4, <1>5 DEF GrpcShape
<1>7. Versions'
  <2>1. channel # 0 => channels'[channel].cert >= certVersion
    BY <1>1, <1>3 DEF Versions
  <2>2. \A u \in Callers : OnChannel(u)' => channels'[caller'[u].on].cert >= caller'[u].version
    BY <1>1, <1>3, <1>5 DEF Versions
  <2>3. \A u \in Callers : caller'[u].version <= certificate
    BY <1>5 DEF Versions
  <2> QED
    BY <1>2, <2>1, <2>2, <2>3 DEF Versions
<1>8. Lock'
  BY <1>2, <1>3, <1>5 DEF Lock
<1>9. NoChannelForgotten'
  <2> SUFFICES ASSUME closing' = "no", NEW c \in DOMAIN channels', channels'[c].state # "closed"
               PROVE  c = channel' \/ c \in retired' \/ \E u \in Callers : Owns(u)' /\ caller'[u].on = c
    BY DEF NoChannelForgotten
  <2>1. c \in DOMAIN channels /\ channels[c].state # "closed"
    BY <1>1, <1>3
  <2> QED
    BY <1>2, <1>3, <1>5, <2>1 DEF NoChannelForgotten
<1> QED
  BY <1>6, <1>7, <1>8, <1>9

\* The new channel is the current one.
LEMMA InstallKeeps == ASSUME NEW t \in Callers PROVE GrpcInv /\ InstallChannel(t) => GrpcInv'
<1> SUFFICES ASSUME GrpcInv, InstallChannel(t) PROVE GrpcInv'
  OBVIOUS
<1> USE DEF GrpcInv
<1>1. /\ caller \in [Callers -> CallRec] /\ caller[t] \in CallRec /\ certificate \in Nat
      /\ Len(channels) \in Nat /\ DOMAIN channels = 1 .. Len(channels)
      /\ channel \in 0 .. Len(channels) /\ retired \subseteq 1 .. Len(channels)
      /\ \A u \in Callers : OnChannel(u) => caller[u].on \in 1 .. Len(channels)
  BY DEF GrpcShape
<1>2. /\ caller[t].at = "installing" /\ OnChannel(t) /\ Owns(t)
      /\ channel' = caller[t].on /\ certVersion' = caller[t].version
      /\ caller' = [caller EXCEPT ![t].at = "inflight", ![t].attempt = 1]
      /\ UNCHANGED <<certificate, channels, retired, closing>>
  BY DEF InstallChannel, Recorded, OnChannel, Owns
<1>3. /\ caller' \in [Callers -> CallRec]
      /\ caller'[t].at = "inflight" /\ caller'[t].on = caller[t].on /\ caller'[t].version = caller[t].version
      /\ \A u \in Callers : u # t => caller'[u] = caller[u]
  BY <1>1, <1>2 DEF CallRec
<1>4. \A u \in Callers : /\ OnChannel(u)' => OnChannel(u)
                         /\ caller'[u].on = caller[u].on /\ caller'[u].version = caller[u].version
                         /\ Owns(u)' => Owns(u) /\ u # t
                         /\ caller'[u].at # "installing"
  BY <1>2, <1>3 DEF OnChannel, Owns, Lock
<1>5. GrpcShape'
  <2>1. caller[t].version \in Int /\ caller[t].on \in 0 .. Len(channels)
    BY <1>1, <1>2 DEF CallRec
  <2> QED
    BY <1>1, <1>2, <1>3, <1>4, <2>1 DEF GrpcShape
<1>6. Versions'
  <2>1. channels[caller[t].on].cert >= caller[t].version /\ caller[t].version <= certificate
    BY <1>2 DEF Versions
  <2>2. \A u \in Callers : OnChannel(u)' => channels[caller'[u].on].cert >= caller'[u].version
    BY <1>4 DEF Versions
  <2>3. \A u \in Callers : caller'[u].version <= certificate
    BY <1>4 DEF Versions
  <2> QED
    BY <1>2, <2>1, <2>2, <2>3 DEF Versions
<1>7. Lock'
  BY <1>4 DEF Lock
<1>8. NoChannelForgotten'
  <2> SUFFICES ASSUME closing = "no", NEW c \in DOMAIN channels, channels[c].state # "closed"
               PROVE  c = channel' \/ c \in retired \/ \E u \in Callers : Owns(u)' /\ caller'[u].on = c
    BY <1>2 DEF NoChannelForgotten
  <2>1. c = channel \/ c \in retired \/ \E u \in Callers : Owns(u) /\ caller[u].on = c
    BY DEF NoChannelForgotten
  <2>2. CASE c = channel
    BY <1>1, <1>2, <2>2 DEF Lock
  <2>3. ASSUME NEW u \in Callers, Owns(u), caller[u].on = c PROVE c = channel'
    BY <1>2, <2>3 DEF Lock
  <2> QED
    BY <2>1, <2>2, <2>3
<1> QED
  BY <1>5, <1>6, <1>7, <1>8

\* Every step keeps the invariant.
LEMMA GrpcStepKeeps == GrpcInv /\ [GrpcNext]_grpcVars => GrpcInv'
<1> SUFFICES ASSUME GrpcInv, [GrpcNext]_grpcVars PROVE GrpcInv'
  OBVIOUS
<1>1. CASE RotateCertificate \/ UNCHANGED grpcVars
  <2>1. /\ certificate' \in Nat /\ certificate' >= certificate /\ certificate \in Nat
        /\ UNCHANGED <<channels, channel, certVersion, retired, closing, caller>>
    BY <1>1 DEF RotateCertificate, grpcVars, GrpcInv, GrpcShape
  <2>2. \A t \in Callers : caller[t].version <= certificate' /\ caller[t] \in CallRec
    BY <2>1 DEF GrpcInv, GrpcShape, Versions, CallRec
  <2>3. \A t \in Callers : OnChannel(t) =>
          caller[t].on \in 1 .. Len(channels) /\ channels[caller[t].on].cert >= caller[t].version
    BY DEF GrpcInv, GrpcShape, Versions
  <2>4. caller' = caller /\ caller \in [Callers -> CallRec]
    BY <2>1 DEF GrpcInv, GrpcShape
  <2>5. \A t \in Callers : (Owns(t)' <=> Owns(t)) /\ (OnChannel(t)' <=> OnChannel(t))
    BY <2>1 DEF Owns, OnChannel
  <2> QED
    BY <2>1, <2>2, <2>3, <2>4, <2>5, CallersOnly
<1>2. CASE GrpcNext
  BY <1>1, <1>2, CallersKeep, ClosingKeeps, BuildKeeps, RetireKeeps, InstallKeeps DEF GrpcNext
<1> QED
  BY <1>1, <1>2

\* For any number of callers and rotations: a call never goes out with a certificate
\* older than the one that was current when it began, and until close() no open
\* channel is lost (_channel.py:162-247).
THEOREM ChannelsStaySound == GrpcSpec => []ChannelsAreSound
<1>1. GrpcInv => ChannelsAreSound
  BY DEF GrpcInv, Versions, OnChannel, ChannelsAreSound, CallsUseFreshCertificates
<1> QED
  BY <1>1, GrpcInitHolds, GrpcStepKeeps, PTL DEF GrpcSpec

-----------------------------------------------------------------------------
(* The socket connection: answers *)

\* Frames to the server and to the client, and what a queue of an upload holds.
UpFrame   == [kind : {"command"}, sid : Commands] \cup [kind : {"start"}, sid : Streams]
             \cup [kind : {"chunk", "oversized", "end", "cancel"}, sid : Uploads]
DownFrame == [kind : {"chunk", "result", "error"}, sid : Sessions]
Putting   == [kind : {"chunk", "end"}, sid : Uploads]
Item      == {"chunk", "end", "timeout"}
Tasks     == {"none", "runs", "whole", "cancelled", "done"}
Stages    == {"new", "writes", "waits", "over"}
Kinds     == {"command", "start", "chunk", "oversized", "end", "cancel"}

\* Types; only an upload is written to by the client, and only streams are sessions.
ClientShape ==
  /\ link \in {"up", "down"} /\ inbox \in Seq(UpFrame) /\ outbox \in Seq(DownFrame)
  /\ callStage \in [Sessions -> Stages] /\ answer \in [Sessions -> {"none", "result", "error"}]
  /\ \A s \in Sessions : callStage[s] = "writes" => s \in Uploads
  /\ written \in [Sessions -> Nat]
ServerShape ==
  /\ reader \in {Reads, Ended} \cup Putting
  /\ sessions \subseteq Streams /\ expired \subseteq sessions
  /\ handler \in [Sessions -> Tasks]
  /\ queue \in [Sessions -> Seq(Item)] /\ taken \in [Sessions -> Nat]
SocketShape == ClientShape /\ ServerShape

\* A frame more, and a frame less.
LEMMA OneMore ==
  ASSUME NEW T, NEW q \in Seq(T), NEW x \in T, NEW r, r = Append(q, x)
  PROVE  /\ r \in Seq(T) /\ Len(q) \in Nat /\ DOMAIN q = 1 .. Len(q) /\ DOMAIN r = 1 .. Len(q) + 1
         /\ \A i \in 1 .. Len(q) : r[i] = q[i]
         /\ r[Len(q) + 1] = x
<1>1. /\ Append(q, x) \in Seq(T) /\ Len(Append(q, x)) = Len(q) + 1
      /\ \A i \in 1 .. Len(q) : Append(q, x)[i] = q[i]
      /\ Append(q, x)[Len(q) + 1] = x
  BY AppendProperties
<1> QED
  BY <1>1

\* The frames without the first.
LEMMA OneLess ==
  ASSUME NEW T, NEW q \in Seq(T), q # <<>>, NEW r, r = Tail(q)
  PROVE  /\ r \in Seq(T) /\ Len(q) \in Nat \ {0} /\ DOMAIN q = 1 .. Len(q) /\ DOMAIN r = 1 .. Len(q) - 1
         /\ \A i \in 1 .. Len(q) - 1 : r[i] = q[i + 1]
         /\ Head(q) = q[1] /\ Head(q) \in T
<1>1. /\ Tail(q) \in Seq(T) /\ Len(Tail(q)) = Len(q) - 1
      /\ \A i \in 1 .. Len(Tail(q)) : Tail(q)[i] = q[i + 1]
  BY HeadTailProperties
<1> QED
  BY <1>1

\* What a call of the client does to the frames.
LEMMA CallShape ==
  ASSUME SocketShape, NEW s \in Sessions, NEW k, NEW next \in Stages,
         Frame(k, s) \in UpFrame, Call(s, k, next), next = "writes" => s \in Uploads
  PROVE  /\ inbox' \in Seq(UpFrame) /\ callStage' \in [Sessions -> Stages]
         /\ \A u \in Sessions : callStage'[u] = "writes" => u \in Uploads
         /\ \A u \in Sessions : u # s => callStage'[u] = callStage[u]
         /\ link = "up" => inbox' = Append(inbox, Frame(k, s)) /\ callStage'[s] = next
         /\ link # "up" => inbox' = inbox /\ callStage'[s] = "over"
         /\ UNCHANGED <<link, outbox, answer, reader, sessions, handler, queue, taken, expired, reaped>>
<1> USE DEF SocketShape, ClientShape
<1>1. CASE link = "up"
  <2>1. inbox' = Append(inbox, Frame(k, s)) /\ callStage' = [callStage EXCEPT ![s] = next]
        /\ UNCHANGED <<link, outbox, answer, reader, sessions, handler, queue, taken, expired, reaped>>
    BY <1>1 DEF Call, serverVars
  <2>2. inbox' \in Seq(UpFrame)
    BY <2>1, OneMore
  <2> QED
    BY <1>1, <2>1, <2>2 DEF Stages
<1>2. CASE link # "up"
  <2>1. inbox' = inbox /\ callStage' = [callStage EXCEPT ![s] = "over"]
        /\ UNCHANGED <<link, outbox, answer, reader, sessions, handler, queue, taken, expired, reaped>>
    BY <1>2 DEF Call, serverVars
  <2> QED
    BY <1>2, <2>1 DEF Stages
<1> QED
  BY <1>1, <1>2

\* The four calls, and where they leave the session.
ClientCalls(s, k, next) ==
  /\ Call(s, k, next)
  /\ \/ callStage[s] = "new" /\ k \in {"command", "start"} /\ next \in {"writes", "waits"} /\ written' = written
     \/ callStage[s] = "writes" /\ k \in {"chunk", "oversized"} /\ next = "writes"
        /\ written' = [written EXCEPT ![s] = @ + 1]
     \/ callStage[s] = "writes" /\ k = "end" /\ next = "waits" /\ written' = written
     \/ callStage[s] = "writes" /\ k = "cancel" /\ next = "over" /\ written' = written
\* What the four calls of the client send, and where they leave the session.
LEMMA CallsAreFour ==
  ASSUME SocketShape, NEW s \in Sessions, OpensSession(s) \/ ClientWrites(s) \/ Finishes(s) \/ Aborts(s)
  PROVE  \E k \in Kinds : \E next \in Stages :
           /\ ClientCalls(s, k, next) /\ Frame(k, s) \in UpFrame
           /\ next = "writes" => s \in Uploads
           /\ k = "command" <=> callStage[s] = "new" /\ s \in Commands
<1>1. CASE OpensSession(s)
  <2>1. s \in Commands \/ (s \notin Commands /\ s \in Streams)
    BY DEF Sessions, Streams
  <2>2. s \in Commands => s \notin Uploads
    BY SocketAssumption
  <2> QED
    BY <1>1, <2>1, <2>2 DEF OpensSession, ClientCalls, Kinds, Stages, Frame, UpFrame
<1>2. CASE ClientWrites(s) \/ Finishes(s) \/ Aborts(s)
  <2>1. s \in Uploads /\ callStage[s] = "writes"
    BY <1>2 DEF ClientWrites, Finishes, Aborts, SocketShape, ClientShape
  <2> QED
    BY <1>2, <2>1 DEF ClientWrites, Finishes, Aborts, ClientCalls, Kinds, Stages, Frame, UpFrame
<1> QED
  BY <1>1, <1>2

\* A frame for the client, if it is still there.
LEMMA SentShape ==
  ASSUME SocketShape, NEW k \in {"chunk", "result", "error"}, NEW s \in Sessions
  PROVE  Sent(k, s) \in Seq(DownFrame) /\ Frame(k, s) \in DownFrame
<1>1. Frame(k, s) \in DownFrame
  BY DEF Frame, DownFrame
<1>2. Append(outbox, Frame(k, s)) \in Seq(DownFrame)
  BY <1>1, OneMore DEF SocketShape, ClientShape
<1> QED
  BY <1>1, <1>2 DEF Sent, SocketShape, ClientShape

\* What destroy() does: tasks of sessions that exist are cancelled.
LEMMA DestroyShape ==
  ASSUME SocketShape, NEW S, DestroySessions(S)
  PROVE  /\ sessions' = sessions \ S /\ sessions' \subseteq Streams /\ expired' \subseteq sessions'
         /\ handler' \in [Sessions -> Tasks]
         /\ \A s \in Sessions : s \in S \cap sessions /\ HandlerAlive(s) => handler'[s] = "cancelled"
         /\ \A s \in Sessions : ~(s \in S \cap sessions /\ HandlerAlive(s)) => handler'[s] = handler[s]
BY DEF DestroySessions, SocketShape, ServerShape, Tasks

\* A frame is its kind and its session.
LEMMA UpFrames == \A f \in UpFrame : f = Frame(f.kind, f.sid) /\ f.sid \in Sessions
<1>1. ASSUME NEW K, NEW S, NEW f \in [kind : K, sid : S] PROVE f = Frame(f.kind, f.sid) /\ f.sid \in S
  BY DEF Frame
<1>2. Commands \subseteq Sessions /\ Streams \subseteq Sessions /\ Uploads \subseteq Sessions
  BY DEF Sessions, Streams
<1> QED
  BY <1>1, <1>2 DEF UpFrame

\* The frame that the read loop of the server takes.
LEMMA ReceivedShape ==
  ASSUME SocketShape, Received
  PROVE  /\ inbox \in Seq(UpFrame) /\ inbox # <<>> /\ inbox' = Tail(inbox) /\ inbox' \in Seq(UpFrame)
         /\ Head(inbox) \in UpFrame /\ Head(inbox) = Frame(Head(inbox).kind, Head(inbox).sid)
         /\ Head(inbox).sid \in Sessions /\ reader = Reads
<1>1. inbox \in Seq(UpFrame) /\ inbox # <<>> /\ inbox' = Tail(inbox) /\ reader = Reads
  BY DEF Received, SocketShape, ClientShape
<1>2. inbox' \in Seq(UpFrame) /\ Head(inbox) \in UpFrame
  BY <1>1, OneLess
<1> QED
  BY <1>1, <1>2, UpFrames

\* Nothing has been sent at the start.
LEMMA SocketInitShape == SocketInit => SocketShape
<1> SUFFICES ASSUME SocketInit PROVE SocketShape
  OBVIOUS
<1>1. <<>> \in Seq(UpFrame) /\ <<>> \in Seq(DownFrame) /\ <<>> \in Seq(Item)
  OBVIOUS
<1> QED
  BY <1>1 DEF SocketInit, SocketShape, ClientShape, ServerShape, Stages, Tasks

\* A count that goes up stays a count.
LEMMA OneHigher ==
  ASSUME NEW D, NEW f \in [D -> Nat], NEW s \in D
  PROVE  [f EXCEPT ![s] = @ + 1] \in [D -> Nat]
OBVIOUS

\* The types after a step of the client.
LEMMA ClientShapeKept ==
  ASSUME SocketShape,
         ClientReads \/ ClientSeesEnd \/ WireBreaks
           \/ \E u \in Sessions : \/ OpensSession(u) \/ ClientWrites(u)
                                 \/ Finishes(u) \/ Aborts(u) \/ CallReturns(u)
  PROVE  SocketShape'
<1>1. ASSUME NEW s \in Sessions, OpensSession(s) \/ ClientWrites(s) \/ Finishes(s) \/ Aborts(s) PROVE SocketShape'
  <2>4. written' \in [Sessions -> Nat]
    <3>1. written \in [Sessions -> Nat]
      BY DEF SocketShape, ClientShape
    <3>2. written' = written \/ written' = [written EXCEPT ![s] = @ + 1]
      BY <1>1 DEF OpensSession, ClientWrites, Finishes, Aborts
    <3> QED
      BY <3>1, <3>2, OneHigher
  <2>1. PICK k \in Kinds, next \in Stages :
          /\ ClientCalls(s, k, next) /\ Frame(k, s) \in UpFrame
          /\ next = "writes" => s \in Uploads
    BY <1>1, CallsAreFour
  <2>2. Call(s, k, next)
    BY <2>1 DEF ClientCalls
  <2>3. /\ inbox' \in Seq(UpFrame) /\ callStage' \in [Sessions -> Stages]
        /\ \A u \in Sessions : callStage'[u] = "writes" => u \in Uploads
        /\ UNCHANGED <<link, outbox, answer, reader, sessions, handler, queue, taken, expired, reaped>>
    BY <2>1, <2>2, CallShape
  <2> QED
    BY <2>3, <2>4 DEF SocketShape, ClientShape, ServerShape
<1>2. ASSUME NEW s \in Sessions, CallReturns(s) PROVE SocketShape'
  <2>1. callStage' \in [Sessions -> Stages] /\ \A u \in Sessions : callStage'[u] = "writes" => u \in Uploads
    BY <1>2 DEF CallReturns, SocketShape, ClientShape, Stages
  <2> QED
    BY <1>2, <2>1 DEF CallReturns, SocketShape, ClientShape, ServerShape, serverVars
<1>3. CASE ClientReads
  <2>1. outbox \in Seq(DownFrame) /\ outbox # <<>> /\ outbox' = Tail(outbox)
    BY <1>3 DEF ClientReads, SocketShape, ClientShape
  <2>2. outbox' \in Seq(DownFrame) /\ Head(outbox) \in DownFrame
    BY <2>1, OneLess
  <2>3. answer' \in [Sessions -> {"none", "result", "error"}]
    BY <1>3, <2>2 DEF ClientReads, SocketShape, ClientShape, DownFrame
  <2> QED
    BY <1>3, <2>2, <2>3 DEF ClientReads, SocketShape, ClientShape, ServerShape, serverVars
<1>4. CASE ClientSeesEnd
  <2>1. answer' \in [Sessions -> {"none", "result", "error"}]
    BY <1>4 DEF ClientSeesEnd, FailAll, SocketShape, ClientShape
  <2> QED
    BY <1>4, <2>1 DEF ClientSeesEnd, SocketShape, ClientShape, ServerShape, serverVars
<1>5. CASE WireBreaks
  BY <1>5 DEF WireBreaks, SocketShape, ClientShape, ServerShape, serverVars
<1> QED
  BY <1>1, <1>2, <1>3, <1>4, <1>5

\* The types after a step of the read loop of the server.
LEMMA ReaderShapeKept ==
  ASSUME SocketShape, ServerOpens \/ ServerReceives \/ ServerPuts \/ ServerDestroys \/ ReaderEnds
  PROVE  SocketShape'
<1> USE DEF SocketShape
<1>1. CASE ServerOpens
  <2> DEFINE f == Head(inbox)
  <2>1. f \in UpFrame /\ f.sid \in Sessions /\ inbox' \in Seq(UpFrame)
    BY <1>1, ReceivedShape DEF ServerOpens
  <2>2. f.kind = "start" => f.sid \in Streams
    BY <2>1 DEF UpFrame
  <2>3. UNCHANGED <<link, reader, queue, taken, expired, reaped, callStage, written, answer>>
    BY <1>1 DEF ServerOpens
  <2>4. handler' \in [Sessions -> Tasks] /\ sessions' \subseteq Streams /\ sessions \subseteq sessions'
        /\ outbox' \in Seq(DownFrame)
    BY <1>1, <2>1, <2>2, SentShape DEF ServerOpens, ClientShape, ServerShape, Tasks
  <2> QED
    BY <2>1, <2>3, <2>4 DEF ClientShape, ServerShape
<1>2. ASSUME NEW f \in Putting, f = Frame(f.kind, f.sid), Put(f)
      PROVE  reader' \in {Reads, Ended} \cup Putting /\ queue' \in [Sessions -> Seq(Item)]
  <2>1. f.kind \in Item /\ f.sid \in Sessions
    BY DEF Putting, Item, Sessions, Streams
  <2>2. queue[f.sid] \in Seq(Item)
    BY <2>1 DEF ServerShape
  <2>3. Append(queue[f.sid], f.kind) \in Seq(Item)
    BY <2>1, <2>2, OneMore
  <2> QED
    BY <1>2, <2>1, <2>3 DEF Put, Queued, ServerShape
<1>3. CASE ServerReceives
  <2> DEFINE f == Head(inbox)
  <2>1. f \in UpFrame /\ f.sid \in Sessions /\ inbox' \in Seq(UpFrame) /\ f = Frame(f.kind, f.sid)
    BY <1>3, ReceivedShape DEF ServerReceives
  <2>2. f \in Putting
    BY <1>3, <2>1 DEF ServerReceives, UpFrame, Putting
  <2>3. /\ Put(f) \/ UNCHANGED <<reader, queue>>
        /\ expired' \subseteq sessions
        /\ UNCHANGED <<link, outbox, sessions, handler, taken, reaped, callStage, written, answer>>
    BY <1>3 DEF ServerReceives, ServerShape
  <2>4. reader' \in {Reads, Ended} \cup Putting /\ queue' \in [Sessions -> Seq(Item)]
    BY <1>2, <2>1, <2>2, <2>3 DEF ServerShape
  <2> QED
    BY <2>1, <2>3, <2>4 DEF ClientShape, ServerShape
<1>4. CASE ServerPuts
  <2>1. reader \in Putting
    BY <1>4 DEF ServerPuts, ServerShape, Reads, Ended, Frame
  <2>2. reader = Frame(reader.kind, reader.sid)
    BY <2>1 DEF Putting, Frame
  <2>3. reader' \in {Reads, Ended} \cup Putting /\ queue' \in [Sessions -> Seq(Item)]
    BY <1>2, <1>4, <2>1, <2>2 DEF ServerPuts
  <2> QED
    BY <1>4, <2>3 DEF ServerPuts, ClientShape, ServerShape
<1>5. CASE ServerDestroys
  <2> DEFINE f == Head(inbox)
  <2>1. f.sid \in Sessions /\ inbox' \in Seq(UpFrame)
    BY <1>5, ReceivedShape DEF ServerDestroys
  <2>2. DestroySessions({f.sid}) /\ outbox' \in Seq(DownFrame)
        /\ UNCHANGED <<link, reader, queue, taken, reaped, callStage, written, answer>>
    BY <1>5, <2>1, SentShape DEF ServerDestroys, ClientShape
  <2>3. handler' \in [Sessions -> Tasks] /\ sessions' \subseteq Streams /\ expired' \subseteq sessions'
    BY <2>2, DestroyShape
  <2> QED
    BY <2>1, <2>2, <2>3 DEF ClientShape, ServerShape
<1>6. CASE ReaderEnds
  <2>1. DestroySessions(sessions)
    BY <1>6 DEF ReaderEnds
  <2>2. handler' \in [Sessions -> Tasks] /\ sessions' \subseteq Streams /\ expired' \subseteq sessions'
    BY <2>1, DestroyShape
  <2> QED
    BY <1>6, <2>2 DEF ReaderEnds, ClientShape, ServerShape
<1> QED
  BY <1>1, <1>3, <1>4, <1>5, <1>6

\* The types after a step of a handler, of the clock or of the reaper.
LEMMA HandlerShapeKept ==
  ASSUME SocketShape, NEW s \in Sessions,
         HandlerTakes(s) \/ HandlerWrites(s) \/ HandlerEnds(s) \/ TimeOut(s) \/ Reap(s)
  PROVE  SocketShape'
<1> USE DEF SocketShape
<1>1. CASE HandlerTakes(s)
  <2>1. queue[s] \in Seq(Item) /\ queue[s] # <<>>
    BY <1>1 DEF HandlerTakes, ServerShape
  <2>2. Tail(queue[s]) \in Seq(Item)
    BY <2>1, OneLess
  <2>3. queue' \in [Sessions -> Seq(Item)]
    BY <1>1, <2>2 DEF HandlerTakes, ServerShape
  <2>4. taken' \in [Sessions -> Nat] /\ handler' \in [Sessions -> Tasks]
    <3>1. taken \in [Sessions -> Nat] /\ handler \in [Sessions -> Tasks] /\ "whole" \in Tasks
      BY DEF ServerShape, Tasks
    <3>2. \/ taken' = [taken EXCEPT ![s] = @ + 1] /\ handler' = handler
          \/ handler' = [handler EXCEPT ![s] = "whole"] /\ taken' = taken
      BY <1>1 DEF HandlerTakes
    <3> QED
      BY <3>1, <3>2
  <2> QED
    BY <1>1, <2>3, <2>4 DEF HandlerTakes, ClientShape, ServerShape
<1>2. CASE HandlerWrites(s)
  <2>1. outbox' \in Seq(DownFrame) /\ written' \in [Sessions -> Nat]
    BY <1>2, SentShape DEF HandlerWrites, ClientShape
  <2> QED
    BY <1>2, <2>1 DEF HandlerWrites, ClientShape, ServerShape
<1>3. CASE HandlerEnds(s)
  <2>1. outbox' \in Seq(DownFrame)
    BY <1>3, SentShape DEF HandlerEnds, ErrorReply
  <2>2. handler' \in [Sessions -> Tasks] /\ sessions' \subseteq Streams /\ expired' \subseteq sessions'
    BY <1>3 DEF HandlerEnds, ServerShape, Tasks
  <2> QED
    BY <1>3, <2>1, <2>2 DEF HandlerEnds, ClientShape, ServerShape
<1>4. CASE TimeOut(s)
  BY <1>4 DEF TimeOut, ClientShape, ServerShape
<1>5. CASE Reap(s)
  <2>1. DestroySessions({s})
    BY <1>5 DEF Reap
  <2>2. handler' \in [Sessions -> Tasks] /\ sessions' \subseteq Streams /\ expired' \subseteq sessions'
    BY <2>1, DestroyShape
  <2>3. Append(queue[s], "timeout") \in Seq(Item)
    <3>1. queue[s] \in Seq(Item) /\ "timeout" \in Item
      BY DEF ServerShape, Item
    <3> QED
      BY <3>1, OneMore
  <2>4. queue' \in [Sessions -> Seq(Item)]
    BY <1>5, <2>3 DEF Reap, ServerShape
  <2> QED
    BY <1>5, <2>2, <2>4 DEF Reap, ClientShape, ServerShape
<1> QED
  BY <1>1, <1>2, <1>3, <1>4, <1>5

\* The types hold throughout.
LEMMA SocketShapeKept == SocketShape /\ [SocketNext]_socketVars => SocketShape'
<1> SUFFICES ASSUME SocketShape, [SocketNext]_socketVars PROVE SocketShape'
  OBVIOUS
<1>1. CASE UNCHANGED socketVars
  BY <1>1 DEF socketVars, SocketShape, ClientShape, ServerShape
<1>2. CASE \/ ClientReads \/ ClientSeesEnd \/ WireBreaks
           \/ \E s \in Sessions : \/ OpensSession(s) \/ ClientWrites(s)
                                 \/ Finishes(s) \/ Aborts(s) \/ CallReturns(s)
  BY <1>2, ClientShapeKept
<1>3. CASE \E s \in Sessions : \/ HandlerTakes(s) \/ HandlerWrites(s) \/ HandlerEnds(s)
                               \/ TimeOut(s) \/ Reap(s)
  BY <1>3, HandlerShapeKept
<1>5. CASE ServerOpens \/ ServerReceives \/ ServerPuts \/ ServerDestroys \/ ReaderEnds
  BY <1>5, ReaderShapeKept
<1> QED
  BY <1>1, <1>2, <1>3, <1>5 DEF SocketNext

\* The frame that opens s is still on its way, or s has been promised an answer: a
\* task runs that ends in one, one is on its way or there, or there is none to be had.
Opening(s)  == \E i \in DOMAIN inbox : inbox[i] \in {Frame("command", s), Frame("start", s)}
Replied(s)  == \E i \in DOMAIN outbox : outbox[i] \in {Frame("result", s), Frame("error", s)}
Promised(s) == HandlerAlive(s) \/ Replied(s) \/ answer[s] # "none" \/ s \in reaped \/ link = "down"
AnswerInv ==
  /\ \A s \in Sessions : callStage[s] \in {"writes", "waits"} => Opening(s) \/ Promised(s)
  /\ \A i \in DOMAIN inbox : inbox[i].kind = "cancel" => callStage[inbox[i].sid] = "over"

\* A frame that is sent to the client is on its way to it, and so are the others.
LEMMA SentIsReplied ==
  ASSUME SocketShape, NEW k \in {"chunk", "result", "error"}, NEW s \in Sessions, outbox' = Sent(k, s)
  PROVE  /\ \A u \in Sessions : Replied(u) => Replied(u)'
         /\ k # "chunk" => Replied(s)' \/ link = "down"
<1>1. CASE link = "up"
  <2>1. outbox' = Append(outbox, Frame(k, s)) /\ Frame(k, s) \in DownFrame /\ outbox \in Seq(DownFrame)
    BY <1>1, SentShape DEF Sent, SocketShape, ClientShape
  <2>2. /\ DOMAIN outbox = 1 .. Len(outbox) /\ DOMAIN outbox' = 1 .. Len(outbox) + 1 /\ Len(outbox) \in Nat
        /\ \A i \in 1 .. Len(outbox) : outbox'[i] = outbox[i]
        /\ outbox'[Len(outbox) + 1] = Frame(k, s)
    BY <2>1, OneMore
  <2>3. \A u \in Sessions : Replied(u) => Replied(u)'
    BY <2>2 DEF Replied
  <2>4. Len(outbox) + 1 \in DOMAIN outbox'
    BY <2>2
  <2>5. k # "chunk" => Replied(s)'
    BY <2>2, <2>4 DEF Replied
  <2> QED
    BY <2>3, <2>5
<1>2. CASE link = "down"
  BY <1>2 DEF Sent, Replied
<1> QED
  BY <1>1, <1>2 DEF SocketShape, ClientShape

\* A promise lasts: what the client is told of is not taken back.
LEMMA PromiseKept ==
  ASSUME SocketShape, NEW s \in Sessions, Promised(s),
         HandlerAlive(s) => HandlerAlive(s)' \/ Promised(s)',
         Replied(s) => Replied(s)' \/ answer'[s] # "none",
         answer[s] # "none" => answer'[s] # "none",
         reaped \subseteq reaped', link = "down" => link' = "down"
  PROVE  Promised(s)'
BY DEF Promised

\* The calls of the client add frames, and nothing else that matters here.
LEMMA CallsKeepAnswers ==
  ASSUME SocketShape, AnswerInv, NEW s \in Sessions,
         OpensSession(s) \/ ClientWrites(s) \/ Finishes(s) \/ Aborts(s)
  PROVE  AnswerInv'
<1>1. PICK k \in Kinds, to \in Stages :
        /\ ClientCalls(s, k, to) /\ Frame(k, s) \in UpFrame
        /\ to = "writes" => s \in Uploads
  BY CallsAreFour
<1>2. /\ \A u \in Sessions : u # s => callStage'[u] = callStage[u]
      /\ link = "up" => inbox' = Append(inbox, Frame(k, s)) /\ callStage'[s] = to
      /\ link # "up" => inbox' = inbox /\ callStage'[s] = "over"
      /\ UNCHANGED <<link, outbox, answer, reader, sessions, handler, queue, taken, expired, reaped>>
  BY <1>1, CallShape DEF ClientCalls
<1>3. \A u \in Sessions : Promised(u) => Promised(u)'
  BY <1>2 DEF Promised, HandlerAlive, Replied
<1>4. /\ callStage[s] = "new" => k \in {"command", "start"}
      /\ callStage[s] # "new" => callStage[s] = "writes"
      /\ k = "cancel" => to = "over"
  BY <1>1 DEF ClientCalls
<1>5. CASE link # "up"
  <2>1. \A i \in DOMAIN inbox : inbox[i].sid \in Sessions
    <3>1. \A f \in UpFrame : f.sid \in Sessions
      BY DEF UpFrame, Sessions, Streams
    <3> QED
      BY <3>1 DEF SocketShape, ClientShape
  <2>2. inbox' = inbox /\ \A u \in Sessions : callStage'[u] = callStage[u] \/ callStage'[u] = "over"
    BY <1>2, <1>5
  <2>3. \A u \in Sessions : Opening(u)' <=> Opening(u)
    BY <2>2 DEF Opening
  <2> QED
    BY <1>3, <2>1, <2>2, <2>3 DEF AnswerInv
<1>6. CASE link = "up"
  <2> DEFINE n == Len(inbox)
  <2>1. inbox \in Seq(UpFrame)
    BY DEF SocketShape, ClientShape
  <2>2. /\ n \in Nat /\ DOMAIN inbox = 1 .. n /\ DOMAIN inbox' = 1 .. n + 1
        /\ \A i \in 1 .. n : inbox'[i] = inbox[i]
        /\ inbox'[n + 1] = Frame(k, s)
    BY <1>1, <1>2, <1>6, <2>1, OneMore
  <2> HIDE DEF n
  <2>3. \A u \in Sessions : Opening(u) => Opening(u)'
    BY <2>2 DEF Opening
  <2>4. callStage[s] = "new" => Opening(s)'
    <3>1. n + 1 \in DOMAIN inbox'
      BY <2>2
    <3> QED
      BY <1>4, <2>2, <3>1 DEF Opening
  <2>5. ASSUME NEW u \in Sessions, callStage'[u] \in {"writes", "waits"} PROVE Opening(u)' \/ Promised(u)'
    <3>1. CASE u = s
      BY <1>3, <1>4, <2>3, <2>4, <3>1 DEF AnswerInv
    <3>2. CASE u # s
      BY <1>2, <1>3, <2>3, <2>5, <3>2 DEF AnswerInv
    <3> QED
      BY <3>1, <3>2
  <2>6. ASSUME NEW i \in DOMAIN inbox', inbox'[i].kind = "cancel" PROVE callStage'[inbox'[i].sid] = "over"
    <3>1. CASE i = n + 1
      <4>1. k = "cancel" /\ inbox'[i].sid = s
        BY <2>2, <2>6, <3>1 DEF Frame
      <4> QED
        BY <1>2, <1>4, <1>6, <4>1
    <3>2. CASE i # n + 1
      <4>1. i \in DOMAIN inbox /\ inbox'[i] = inbox[i]
        BY <2>2, <3>2
      <4>2. callStage[inbox[i].sid] = "over" /\ inbox[i].sid \in Sessions
        <5>1. \A f \in UpFrame : f.sid \in Sessions
          BY DEF UpFrame, Sessions, Streams
        <5> QED
          BY <2>1, <2>6, <4>1, <5>1 DEF AnswerInv
      <4>3. inbox[i].sid # s
        BY <1>4, <4>2
      <4> QED
        BY <1>2, <4>1, <4>2, <4>3
    <3> QED
      BY <3>1, <3>2
  <2> QED
    BY <2>5, <2>6 DEF AnswerInv
<1> QED
  BY <1>5, <1>6

\* Steps that leave the inbox: no promise is broken, no call goes back.
LEMMA AnswersUndisturbed ==
  ASSUME SocketShape, AnswerInv, inbox' = inbox,
         \A s \in Sessions : callStage'[s] = callStage[s] \/ callStage'[s] = "over",
         \A s \in Sessions : Promised(s) => Promised(s)'
  PROVE  AnswerInv'
<1>1. \A i \in DOMAIN inbox : inbox[i].sid \in Sessions
  <2>1. \A f \in UpFrame : f.sid \in Sessions
    BY DEF UpFrame, Sessions, Streams
  <2> QED
    BY <2>1 DEF SocketShape, ClientShape
<1>2. \A s \in Sessions : Opening(s)' <=> Opening(s)
  BY DEF Opening
<1> QED
  BY <1>1, <1>2 DEF AnswerInv

\* Steps that take the head of the inbox.
LEMMA AnswersOfReceived ==
  ASSUME SocketShape, AnswerInv, Received, callStage' = callStage,
         \A s \in Sessions : Promised(s) /\ callStage[s] # "over" => Promised(s)',
         \A s \in Sessions : s = Head(inbox).sid /\ Head(inbox).kind \in {"command", "start"} => Promised(s)'
  PROVE  AnswerInv'
<1> DEFINE n == Len(inbox)
<1>1. inbox \in Seq(UpFrame) /\ inbox # <<>> /\ inbox' = Tail(inbox)
  BY ReceivedShape
<1>2. /\ n \in Nat \ {0} /\ DOMAIN inbox = 1 .. n /\ DOMAIN inbox' = 1 .. n - 1
      /\ \A i \in 1 .. n - 1 : inbox'[i] = inbox[i + 1]
      /\ Head(inbox) = inbox[1]
  BY <1>1, OneLess
<1> HIDE DEF n
<1>3. \A i \in 1 .. n - 1 : i + 1 \in 1 .. n
  BY <1>2
<1>4. ASSUME NEW s \in Sessions, callStage[s] \in {"writes", "waits"} PROVE Opening(s)' \/ Promised(s)'
  <2>1. CASE Promised(s)
    BY <1>4, <2>1
  <2>2. CASE Opening(s)
    <3>1. PICK i \in DOMAIN inbox : inbox[i] \in {Frame("command", s), Frame("start", s)}
      BY <2>2 DEF Opening
    <3>2. CASE i = 1
      BY <1>2, <3>1, <3>2 DEF Frame
    <3>3. CASE i # 1
      <4>1. i - 1 \in DOMAIN inbox' /\ inbox'[i - 1] = inbox[i]
        BY <1>2, <3>3
      <4> QED
        BY <3>1, <4>1 DEF Opening
    <3> QED
      BY <3>2, <3>3
  <2> QED
    BY <1>4, <2>1, <2>2 DEF AnswerInv
<1>5. \A i \in DOMAIN inbox' : inbox'[i].kind = "cancel" => callStage[inbox'[i].sid] = "over"
  BY <1>2, <1>3 DEF AnswerInv
<1> QED
  BY <1>4, <1>5 DEF AnswerInv

\* The steps of the client keep what is owed, its calls aside.
LEMMA ClientKeepsAnswers ==
  ASSUME SocketShape, AnswerInv,
         ClientReads \/ ClientSeesEnd \/ WireBreaks \/ \E u \in Sessions : CallReturns(u)
  PROVE  AnswerInv'
<1>1. CASE ClientReads
  <2> DEFINE n == Len(outbox)
  <2>1. outbox \in Seq(DownFrame) /\ outbox # <<>> /\ outbox' = Tail(outbox)
    BY <1>1 DEF ClientReads, SocketShape, ClientShape
  <2>2. /\ n \in Nat \ {0} /\ DOMAIN outbox = 1 .. n /\ DOMAIN outbox' = 1 .. n - 1
        /\ \A i \in 1 .. n - 1 : outbox'[i] = outbox[i + 1]
        /\ Head(outbox) = outbox[1] /\ Head(outbox) \in DownFrame
    BY <2>1, OneLess
  <2> HIDE DEF n
  <2>3. UNCHANGED <<link, inbox, callStage, handler, reaped>>
    BY <1>1 DEF ClientReads, serverVars
  <2>4. answer \in [Sessions -> {"none", "result", "error"}]
    BY DEF SocketShape, ClientShape
  <2>5. ASSUME NEW s \in Sessions, answer[s] # "none" PROVE answer'[s] # "none"
    BY <1>1, <2>2, <2>4, <2>5 DEF ClientReads, DownFrame
  <2>6. ASSUME NEW s \in Sessions, Replied(s) PROVE Replied(s)' \/ answer'[s] # "none"
    <3>1. PICK i \in DOMAIN outbox : outbox[i] \in {Frame("result", s), Frame("error", s)}
      BY <2>6 DEF Replied
    <3>2. CASE i = 1
      <4>1. Head(outbox).sid = s /\ Head(outbox).kind \in {"result", "error"}
        BY <2>2, <3>1, <3>2 DEF Frame
      <4>2. CASE answer[s] = "none"
        <5>1. answer' = [answer EXCEPT ![s] = Head(outbox).kind]
          BY <1>1, <4>1, <4>2 DEF ClientReads
        <5> QED
          BY <2>4, <4>1, <5>1
      <4> QED
        BY <2>5, <4>2
    <3>3. CASE i # 1
      <4>1. i - 1 \in DOMAIN outbox' /\ outbox'[i - 1] = outbox[i]
        BY <2>2, <3>3
      <4> QED
        BY <3>1, <4>1 DEF Replied
    <3> QED
      BY <3>2, <3>3
  <2>7. \A s \in Sessions : Promised(s) => Promised(s)'
    BY <2>3, <2>5, <2>6 DEF Promised, HandlerAlive
  <2> QED
    BY <2>3, <2>7, AnswersUndisturbed
<1>2. CASE ClientSeesEnd
  <2>1. UNCHANGED <<link, inbox, outbox, callStage, handler, reaped>> /\ answer' = FailAll
    BY <1>2 DEF ClientSeesEnd, serverVars
  <2>2. \A s \in Sessions : answer[s] # "none" => answer'[s] # "none"
    BY <2>1 DEF FailAll
  <2>3. \A s \in Sessions : Promised(s) => Promised(s)'
    BY <2>1, <2>2 DEF Promised, HandlerAlive, Replied
  <2> QED
    BY <2>1, <2>3, AnswersUndisturbed
<1>3. CASE WireBreaks
  <2>1. UNCHANGED <<inbox, callStage>> /\ link' = "down"
    BY <1>3 DEF WireBreaks
  <2>2. \A s \in Sessions : Promised(s)'
    BY <2>1 DEF Promised
  <2> QED
    BY <2>1, <2>2, AnswersUndisturbed
<1>4. ASSUME NEW s \in Sessions, CallReturns(s) PROVE AnswerInv'
  <2>1. UNCHANGED <<link, inbox, outbox, answer, handler, reaped>>
        /\ callStage' = [callStage EXCEPT ![s] = "over"] /\ callStage \in [Sessions -> Stages]
    BY <1>4 DEF CallReturns, serverVars, SocketShape, ClientShape
  <2>2. \A u \in Sessions : Promised(u) => Promised(u)'
    BY <2>1 DEF Promised, HandlerAlive, Replied
  <2> QED
    BY <2>1, <2>2, AnswersUndisturbed
<1> QED
  BY <1>1, <1>2, <1>3, <1>4

\* The read loop starts a handler, answers or cancels, and each is a promise.
LEMMA ReaderKeepsAnswers ==
  ASSUME SocketShape, AnswerInv, ServerOpens \/ ServerReceives \/ ServerPuts \/ ServerDestroys \/ ReaderEnds
  PROVE  AnswerInv'
<1>1. CASE ServerOpens
  <2>0. PICK f \in UpFrame : f = Head(inbox)
    BY <1>1, ReceivedShape DEF ServerOpens
  <2>1. Received /\ f.sid \in Sessions /\ UNCHANGED <<link, callStage, answer, reaped>>
    BY <1>1, <2>0, ReceivedShape DEF ServerOpens
  <2>2. CASE handler' = [handler EXCEPT ![f.sid] = "runs"] /\ outbox' = outbox
    <3>1. handler \in [Sessions -> Tasks]
      BY DEF SocketShape, ServerShape
    <3>2. \A s \in Sessions : Promised(s) => Promised(s)'
      BY <2>1, <2>2, <3>1 DEF Promised, HandlerAlive, Replied
    <3>3. Promised(f.sid)'
      BY <2>1, <2>2, <3>1 DEF Promised, HandlerAlive
    <3> QED
      BY <2>0, <2>1, <3>2, <3>3, AnswersOfReceived
  <2>3. CASE outbox' = Sent("error", f.sid) /\ handler' = handler
    <3>1. /\ \A u \in Sessions : Replied(u) => Replied(u)'
          /\ Replied(f.sid)' \/ link = "down"
      BY <2>1, <2>3, SentIsReplied
    <3>2. \A s \in Sessions : Promised(s) => Promised(s)'
      BY <2>1, <2>3, <3>1 DEF Promised, HandlerAlive
    <3>3. Promised(f.sid)'
      BY <2>1, <3>1 DEF Promised
    <3> QED
      BY <2>0, <2>1, <3>2, <3>3, AnswersOfReceived
  <2> QED
    BY <1>1, <2>0, <2>2, <2>3 DEF ServerOpens
<1>2. CASE ServerReceives
  <2>1. /\ Received /\ Head(inbox).kind \in {"chunk", "end"}
        /\ UNCHANGED <<link, outbox, handler, reaped, callStage, answer>>
    BY <1>2 DEF ServerReceives
  <2>2. \A s \in Sessions : Promised(s) => Promised(s)'
    BY <2>1 DEF Promised, HandlerAlive, Replied
  <2> QED
    BY <2>1, <2>2, AnswersOfReceived
<1>3. CASE ServerPuts
  <2>1. UNCHANGED <<link, inbox, outbox, handler, reaped, callStage, answer>>
    BY <1>3 DEF ServerPuts
  <2>2. \A s \in Sessions : Promised(s) => Promised(s)'
    BY <2>1 DEF Promised, HandlerAlive, Replied
  <2> QED
    BY <2>1, <2>2, AnswersUndisturbed
<1>4. CASE ServerDestroys
  <2>0. PICK f \in UpFrame : f = Head(inbox)
    BY <1>4, ReceivedShape DEF ServerDestroys
  <2>1. /\ Received /\ f.sid \in Sessions /\ f.kind \in {"oversized", "cancel"} /\ DestroySessions({f.sid})
        /\ UNCHANGED <<link, reaped, callStage, answer>>
    BY <1>4, <2>0, ReceivedShape DEF ServerDestroys
  <2>2. \A s \in Sessions : s \notin {f.sid} \cap sessions => handler'[s] = handler[s]
    BY <2>1, DestroyShape
  <2>3. CASE f.kind = "oversized" /\ f.sid \in sessions
    <3>1. outbox' = Sent("error", f.sid)
      BY <1>4, <2>0, <2>3 DEF ServerDestroys
    <3>2. /\ \A u \in Sessions : Replied(u) => Replied(u)'
          /\ Replied(f.sid)' \/ link = "down"
      BY <2>1, <3>1, SentIsReplied
    <3>3. ASSUME NEW s \in Sessions, Promised(s) PROVE Promised(s)'
      <4>1. CASE s = f.sid
        BY <2>1, <3>2, <4>1 DEF Promised
      <4>2. CASE s # f.sid
        BY <2>1, <2>2, <3>2, <3>3, <4>2 DEF Promised, HandlerAlive
      <4> QED
        BY <4>1, <4>2
    <3> QED
      BY <2>0, <2>1, <3>3, AnswersOfReceived
  <2>4. CASE ~(f.kind = "oversized" /\ f.sid \in sessions)
    <3>1. outbox' = outbox
      BY <1>4, <2>0, <2>4 DEF ServerDestroys
    <3>2. f.kind = "cancel" => callStage[f.sid] = "over"
      <4>1. 1 \in DOMAIN inbox /\ f = inbox[1]
        <5>1. inbox \in Seq(UpFrame) /\ inbox # <<>>
          BY <2>1, ReceivedShape
        <5>2. Head(inbox) = inbox[1] /\ DOMAIN inbox = 1 .. Len(inbox) /\ Len(inbox) \in Nat \ {0}
          BY <5>1, OneLess
        <5> QED
          BY <2>0, <5>2
      <4> QED
        BY <4>1 DEF AnswerInv
    <3>3. ASSUME NEW s \in Sessions, Promised(s), callStage[s] # "over" PROVE Promised(s)'
      <4>1. s \notin {f.sid} \cap sessions
        BY <2>1, <2>4, <3>2, <3>3
      <4> QED
        BY <2>1, <2>2, <3>1, <3>3, <4>1 DEF Promised, HandlerAlive, Replied
    <3> QED
      BY <2>0, <2>1, <3>3, AnswersOfReceived
  <2> QED
    BY <2>3, <2>4
<1>5. CASE ReaderEnds
  <2>1. UNCHANGED <<link, inbox, callStage>> /\ link = "down"
    BY <1>5 DEF ReaderEnds
  <2>2. \A s \in Sessions : Promised(s)'
    BY <2>1 DEF Promised
  <2> QED
    BY <2>1, <2>2, AnswersUndisturbed
<1> QED
  BY <1>1, <1>2, <1>3, <1>4, <1>5

\* A handler that ends has answered; one that was reaped is remembered as such.
LEMMA HandlerKeepsAnswers ==
  ASSUME SocketShape, AnswerInv, NEW s \in Sessions,
         HandlerTakes(s) \/ HandlerWrites(s) \/ HandlerEnds(s) \/ TimeOut(s) \/ Reap(s)
  PROVE  AnswerInv'
<1>1. handler \in [Sessions -> Tasks]
  BY DEF SocketShape, ServerShape
<1>2. CASE HandlerTakes(s)
  <2>1. UNCHANGED <<link, inbox, outbox, reaped, callStage, answer>>
    BY <1>2 DEF HandlerTakes
  <2>2. \A u \in Sessions : HandlerAlive(u) => HandlerAlive(u)'
    BY <1>1, <1>2 DEF HandlerTakes, HandlerAlive
  <2>3. \A u \in Sessions : Promised(u) => Promised(u)'
    BY <2>1, <2>2 DEF Promised, Replied
  <2> QED
    BY <2>1, <2>3, AnswersUndisturbed
<1>3. CASE HandlerWrites(s)
  <2>1. UNCHANGED <<link, inbox, reaped, callStage, answer, handler>> /\ outbox' = Sent("chunk", s)
    BY <1>3 DEF HandlerWrites
  <2>2. \A u \in Sessions : Replied(u) => Replied(u)'
    BY <2>1, SentIsReplied
  <2>3. \A u \in Sessions : Promised(u) => Promised(u)'
    BY <2>1, <2>2 DEF Promised, HandlerAlive
  <2> QED
    BY <2>1, <2>3, AnswersUndisturbed
<1>4. CASE HandlerEnds(s)
  <2>1. UNCHANGED <<link, inbox, reaped, callStage, answer>> /\ handler' = [handler EXCEPT ![s] = "done"]
    BY <1>4 DEF HandlerEnds
  <2>2. outbox' = Sent("result", s) \/ outbox' = Sent("error", s)
    BY <1>4 DEF HandlerEnds, ErrorReply
  <2>3. (\A u \in Sessions : Replied(u) => Replied(u)') /\ (Replied(s)' \/ link = "down")
    BY <2>2, SentIsReplied
  <2>4. ASSUME NEW u \in Sessions, Promised(u) PROVE Promised(u)'
    <3>1. CASE u = s
      BY <2>1, <2>3, <3>1 DEF Promised
    <3>2. CASE u # s
      BY <1>1, <2>1, <2>3, <2>4, <3>2 DEF Promised, HandlerAlive
    <3> QED
      BY <3>1, <3>2
  <2> QED
    BY <2>1, <2>4, AnswersUndisturbed
<1>5. CASE TimeOut(s)
  <2>1. UNCHANGED <<link, inbox, outbox, reaped, callStage, answer, handler>>
    BY <1>5 DEF TimeOut
  <2>2. \A u \in Sessions : Promised(u) => Promised(u)'
    BY <2>1 DEF Promised, HandlerAlive, Replied
  <2> QED
    BY <2>1, <2>2, AnswersUndisturbed
<1>6. CASE Reap(s)
  <2>1. UNCHANGED <<link, inbox, outbox, callStage, answer>> /\ reaped' = reaped \cup {s} /\ DestroySessions({s})
    BY <1>6 DEF Reap
  <2>2. \A u \in Sessions : u # s => handler'[u] = handler[u]
    BY <2>1, DestroyShape
  <2>3. ASSUME NEW u \in Sessions, Promised(u) PROVE Promised(u)'
    <3>1. CASE u = s
      BY <2>1, <3>1 DEF Promised
    <3>2. CASE u # s
      BY <2>1, <2>2, <2>3, <3>2 DEF Promised, HandlerAlive, Replied
    <3> QED
      BY <3>1, <3>2
  <2> QED
    BY <2>1, <2>3, AnswersUndisturbed
<1> QED
  BY <1>2, <1>3, <1>4, <1>5, <1>6

\* Every step keeps what is owed.
LEMMA AnswersKept == SocketShape /\ AnswerInv /\ [SocketNext]_socketVars => AnswerInv'
<1> SUFFICES ASSUME SocketShape, AnswerInv, [SocketNext]_socketVars PROVE AnswerInv'
  OBVIOUS
<1>1. CASE UNCHANGED socketVars
  <2>1. UNCHANGED <<link, inbox, outbox, callStage, answer, handler, reaped>>
    BY <1>1 DEF socketVars
  <2>2. \A u \in Sessions : Promised(u) => Promised(u)'
    BY <2>1 DEF Promised, HandlerAlive, Replied
  <2> QED
    BY <2>1, <2>2, AnswersUndisturbed
<1>2. CASE \E s \in Sessions : OpensSession(s) \/ ClientWrites(s) \/ Finishes(s) \/ Aborts(s)
  BY <1>2, CallsKeepAnswers
<1>3. CASE \E s \in Sessions : \/ HandlerTakes(s) \/ HandlerWrites(s) \/ HandlerEnds(s)
                               \/ TimeOut(s) \/ Reap(s)
  BY <1>3, HandlerKeepsAnswers
<1>4. CASE ClientReads \/ ClientSeesEnd \/ WireBreaks \/ \E u \in Sessions : CallReturns(u)
  BY <1>4, ClientKeepsAnswers
<1>5. CASE ServerOpens \/ ServerReceives \/ ServerPuts \/ ServerDestroys \/ ReaderEnds
  BY <1>5, ReaderKeepsAnswers
<1> QED
  BY <1>1, <1>2, <1>3, <1>4, <1>5 DEF SocketNext

\* For any number of sessions, chunks and breaks of the connection, and any size of
\* the queue: a call that waits is owed an answer, unless the reaper took its session
\* or the connection is down (_client.py, _adapter.py, _session.py).
THEOREM AnswersAreOwed == SocketSpec => []AnswerIsOwed
<1>1. SocketInit => AnswerInv
  BY DEF SocketInit, AnswerInv
<1>2. AnswerInv => AnswerIsOwed
  <2> SUFFICES ASSUME AnswerInv, NEW s \in Sessions, callStage[s] = "waits", answer[s] = "none"
               PROVE  Owed(s) \/ s \in reaped \/ link = "down"
    BY DEF AnswerIsOwed
  <2>1. Opening(s) => \E i \in DOMAIN inbox : inbox[i].sid = s
    BY DEF Opening, Frame
  <2> QED
    BY <2>1 DEF AnswerInv, Promised, Replied, Owed
<1> QED
  BY <1>1, <1>2, SocketInitShape, SocketShapeKept, AnswersKept, PTL DEF SocketSpec

-----------------------------------------------------------------------------
(* The socket connection: uploads *)

\* How often a member of X is in q, whether x is, and whether a frame of s is.
Occur(q, X)    == Cardinality({i \in DOMAIN q : q[i] \in X})
Has(q, x)      == \E i \in DOMAIN q : q[i] = x
Mentions(q, s) == \E i \in DOMAIN q : q[i].sid = s

\* r holds what q holds, and x once more.
OneMoreIn(q, x, r) ==
  /\ \A y : Has(r, y) <=> Has(q, y) \/ y = x
  /\ \A s : Mentions(r, s) <=> Mentions(q, s) \/ x.sid = s
  /\ \A X : Occur(q, X) \in Nat /\ Occur(r, X) = Occur(q, X) + (IF x \in X THEN 1 ELSE 0)

\* The start of an upload is its first frame, its end the last; no chunk comes after END.
Ordered(q) ==
  \A i, j \in DOMAIN q : i < j /\ q[i].sid = q[j].sid /\ q[i].sid \in Uploads =>
    q[j].kind # "start" /\ q[i].kind # "end"
ChunksFirst(q) == \A i, j \in DOMAIN q : i < j /\ q[i] = "end" => q[j] # "chunk"

\* What the client has sent in s is with the handler or on its way to it.
Chunks(s)  == {Frame("chunk", s), Frame("oversized", s)}
Puts(s)    == {Frame("chunk", s), Frame("end", s)}
Starting(s) == Has(inbox, Frame("start", s))
EndSent(s) == Has(inbox, Frame("end", s)) \/ reader = Frame("end", s) \/ Has(queue[s], "end")
UnderWay(s) ==
  Occur(queue[s], {"chunk"}) + (IF reader = Frame("chunk", s) THEN 1 ELSE 0) + Occur(inbox, Chunks(s))
Untouched(s) ==
  handler[s] = "none" /\ s \notin sessions /\ taken[s] = 0 /\ queue[s] = <<>> /\ reader \notin Puts(s)

\* Nothing of s is known before its start, nothing comes after its end, and as long as
\* its handler is to run or runs, and the end is to come, no chunk has been lost.
UploadOf(s) ==
  /\ callStage[s] = "new" => written[s] = 0 /\ ~Mentions(inbox, s) /\ Untouched(s)
  /\ Starting(s) => Untouched(s)
  /\ callStage[s] = "writes" => ~EndSent(s)
  /\ reader = Frame("end", s) => ~Mentions(inbox, s)
  /\ Has(queue[s], "end") => ~Mentions(inbox, s) /\ reader \notin Puts(s)
  /\ ChunksFirst(queue[s]) /\ (handler[s] = "runs" => ~Has(queue[s], "timeout"))
  /\ s \in sessions <=> HandlerAlive(s)
  /\ (Starting(s) \/ handler[s] = "runs") /\ (callStage[s] = "writes" \/ EndSent(s)) =>
       taken[s] + UnderWay(s) = written[s]
  /\ handler[s] = "whole" => callStage[s] \in {"waits", "over"} /\ taken[s] = written[s]
UploadInv == Ordered(inbox) /\ \A u \in Uploads : UploadOf(u)

\* What one more element adds.
LEMMA AddOne ==
  ASSUME NEW T, NEW q \in Seq(T), NEW x \in T, NEW r, r = Append(q, x)
  PROVE  OneMoreIn(q, x, r)
<1> DEFINE n == Len(q)
<1>1. /\ n \in Nat /\ DOMAIN q = 1 .. n /\ DOMAIN r = 1 .. n + 1
      /\ \A i \in 1 .. n : r[i] = q[i]
      /\ r[n + 1] = x
  BY OneMore
<1> HIDE DEF n
<1>2. n + 1 \in DOMAIN r /\ \A i \in DOMAIN r : i \in 1 .. n \/ i = n + 1
  BY <1>1
<1>3. \A y : Has(r, y) <=> Has(q, y) \/ y = x
  BY <1>1, <1>2 DEF Has
<1>4. \A s : Mentions(r, s) <=> Mentions(q, s) \/ x.sid = s
  BY <1>1, <1>2 DEF Mentions
<1>5. ASSUME NEW X
      PROVE  Occur(q, X) \in Nat /\ Occur(r, X) = Occur(q, X) + (IF x \in X THEN 1 ELSE 0)
  <2> DEFINE old == {i \in DOMAIN q : q[i] \in X}
             new == {i \in DOMAIN r : r[i] \in X}
  <2>1. IsFiniteSet(old) /\ Cardinality(old) \in Nat
    <3>0. 1 \in Int /\ n \in Int
      BY <1>1
    <3>1. IsFiniteSet(1 .. n) /\ old \subseteq 1 .. n
      BY <1>1, <3>0, FS_Interval
    <3> QED
      BY <3>1, FS_Subset, FS_CardinalityType
  <2>2. CASE x \in X
    <3>1. new = old \cup {n + 1} /\ n + 1 \notin old
      BY <1>1, <1>2, <2>2
    <3>2. Cardinality(new) = Cardinality(old) + 1
      BY <2>1, <3>1, FS_AddElement
    <3> QED
      BY <2>1, <2>2, <3>2 DEF Occur
  <2>3. CASE x \notin X
    <3>1. new = old
      BY <1>1, <1>2, <2>3
    <3>2. Occur(q, X) = Cardinality(old) /\ Occur(r, X) = Cardinality(new)
      BY DEF Occur
    <3> HIDE DEF old, new
    <3> QED
      BY <2>1, <2>3, <3>1, <3>2
  <2> QED
    BY <2>2, <2>3
<1> QED
  BY <1>3, <1>4, <1>5 DEF OneMoreIn

\* What the head was.
LEMMA DropOne ==
  ASSUME NEW T, NEW q \in Seq(T), q # <<>>, NEW r, r = Tail(q), NEW x, x = Head(q)
  PROVE  OneMoreIn(r, x, q)
<1> DEFINE n == Len(q)
<1>1. /\ n \in Nat \ {0} /\ DOMAIN q = 1 .. n /\ DOMAIN r = 1 .. n - 1
      /\ \A i \in 1 .. n - 1 : r[i] = q[i + 1]
      /\ x = q[1]
  BY OneLess
<1> HIDE DEF n
<1>2. /\ 1 \in DOMAIN q /\ \A i \in DOMAIN r : i + 1 \in DOMAIN q
      /\ \A i \in DOMAIN q : i # 1 => i - 1 \in DOMAIN r /\ r[i - 1] = q[i]
  BY <1>1
<1>3. \A y : Has(q, y) <=> Has(r, y) \/ y = x
  BY <1>1, <1>2 DEF Has
<1>4. \A s : Mentions(q, s) <=> Mentions(r, s) \/ x.sid = s
  BY <1>1, <1>2 DEF Mentions
<1>5. ASSUME NEW X
      PROVE  Occur(r, X) \in Nat /\ Occur(q, X) = Occur(r, X) + (IF x \in X THEN 1 ELSE 0)
  <2> DEFINE old == {i \in DOMAIN q : q[i] \in X}
             new == {i \in DOMAIN r : r[i] \in X}
             up  == [i \in new |-> i + 1]
  <2>1. IsFiniteSet(new) /\ Cardinality(new) \in Nat
    <3>0. 1 \in Int /\ n - 1 \in Int
      BY <1>1
    <3>1. IsFiniteSet(1 .. n - 1) /\ new \subseteq 1 .. n - 1
      BY <1>1, <3>0, FS_Interval
    <3> QED
      BY <3>1, FS_Subset, FS_CardinalityType
  <2>2. up \in Bijection(new, old \ {1})
    <3>1. up \in [new -> old \ {1}]
      BY <1>1, <1>2
    <3>2. \A i, j \in new : up[i] = up[j] => i = j
      BY <1>1
    <3>3. \A k \in old \ {1} : \E i \in new : up[i] = k
      <4> SUFFICES ASSUME NEW k \in old \ {1} PROVE \E i \in new : up[i] = k
        OBVIOUS
      <4>1. k - 1 \in new /\ k - 1 + 1 = k
        BY <1>1, <1>2
      <4> QED
        BY <4>1
    <3> QED
      BY <3>1, <3>2, <3>3, Fun_IsBij
  <2>3. IsFiniteSet(old \ {1}) /\ Cardinality(old \ {1}) = Cardinality(new)
    BY <2>1, <2>2, FS_Bijection DEF ExistsBijection
  <2>4. CASE x \in X
    <3>1. old = (old \ {1}) \cup {1} /\ 1 \notin old \ {1}
      BY <1>1, <1>2, <2>4
    <3>2. Cardinality(old) = Cardinality(old \ {1}) + 1
      BY <2>3, <3>1, FS_AddElement
    <3> QED
      BY <2>1, <2>3, <2>4, <3>2 DEF Occur
  <2>5. CASE x \notin X
    <3>1. old = old \ {1}
      BY <1>1, <2>5
    <3>2. Occur(q, X) = Cardinality(old) /\ Occur(r, X) = Cardinality(new)
      BY DEF Occur
    <3>3. Cardinality(old) = Cardinality(new)
      BY <2>3, <3>1
    <3> HIDE DEF old, new
    <3> QED
      BY <2>1, <2>5, <3>2, <3>3
  <2> QED
    BY <2>4, <2>5
<1> QED
  BY <1>3, <1>4, <1>5 DEF OneMoreIn

\* The order of frames when one leaves and when one comes.
LEMMA OrderedTail ==
  ASSUME NEW q \in Seq(UpFrame), q # <<>>, Ordered(q), NEW r, r = Tail(q), NEW f, f = Head(q)
  PROVE  /\ Ordered(r)
         /\ f.sid \in Uploads /\ Mentions(r, f.sid) => f.kind # "end"
         /\ f.sid \in Uploads => ~Has(r, Frame("start", f.sid))
<1>1. /\ Len(q) \in Nat \ {0} /\ DOMAIN q = 1 .. Len(q) /\ DOMAIN r = 1 .. Len(q) - 1
      /\ \A i \in 1 .. Len(q) - 1 : r[i] = q[i + 1]
      /\ f = q[1]
  BY OneLess
<1>2. 1 \in DOMAIN q /\ \A i \in DOMAIN r : i + 1 \in DOMAIN q /\ 1 < i + 1
  BY <1>1
<1>3. ASSUME NEW i \in DOMAIN r, NEW j \in DOMAIN r, i < j, r[i].sid = r[j].sid, r[i].sid \in Uploads
      PROVE  r[j].kind # "start" /\ r[i].kind # "end"
  <2>1. i + 1 < j + 1
    BY <1>1, <1>3
  <2> QED
    BY <1>1, <1>2, <1>3, <2>1 DEF Ordered
<1>4. ASSUME NEW i \in DOMAIN r, r[i].sid = f.sid, f.sid \in Uploads
      PROVE  f.kind # "end" /\ r[i].kind # "start"
  BY <1>1, <1>2, <1>4 DEF Ordered
<1>5. ASSUME f.sid \in Uploads, Has(r, Frame("start", f.sid)) PROVE FALSE
  <2>1. PICK i \in DOMAIN r : r[i] = Frame("start", f.sid)
    BY <1>5 DEF Has
  <2> QED
    BY <1>4, <1>5, <2>1 DEF Frame
<1> QED
  BY <1>3, <1>4, <1>5 DEF Ordered, Mentions

\* A frame that may come keeps the order.
LEMMA OrderedAppend ==
  ASSUME NEW q \in Seq(UpFrame), Ordered(q), NEW k, NEW s, Frame(k, s) \in UpFrame,
         s \in Uploads => (k = "start" => ~Mentions(q, s)) /\ ~Has(q, Frame("end", s)),
         NEW r, r = Append(q, Frame(k, s))
  PROVE  Ordered(r)
<1> DEFINE n == Len(q)
<1>1. /\ n \in Nat /\ DOMAIN q = 1 .. n /\ DOMAIN r = 1 .. n + 1
      /\ \A i \in 1 .. n : r[i] = q[i]
      /\ r[n + 1] = Frame(k, s)
  BY OneMore
<1>2. \A i \in 1 .. n : q[i].sid = s /\ s \in Uploads => q[i].kind # "end" /\ k # "start"
  <2> SUFFICES ASSUME NEW i \in 1 .. n, q[i].sid = s, s \in Uploads PROVE q[i].kind # "end" /\ k # "start"
    OBVIOUS
  <2>1. q[i] \in UpFrame
    BY <1>1
  <2>2. q[i] = Frame(q[i].kind, q[i].sid)
    BY <2>1, UpFrames
  <2> QED
    BY <1>1, <2>2 DEF Has, Mentions
<1> HIDE DEF n
<1>3. ASSUME NEW i \in DOMAIN r, NEW j \in DOMAIN r, i < j, r[i].sid = r[j].sid, r[i].sid \in Uploads
      PROVE  r[j].kind # "start" /\ r[i].kind # "end"
  <2>1. i \in 1 .. n
    BY <1>1, <1>3
  <2>2. CASE j = n + 1
    BY <1>1, <1>2, <1>3, <2>1, <2>2 DEF Frame
  <2>3. CASE j # n + 1
    <3>1. j \in 1 .. n
      BY <1>1, <2>3
    <3> QED
      BY <1>1, <1>3, <2>1, <3>1 DEF Ordered
  <2> QED
    BY <2>2, <2>3
<1> QED
  BY <1>3 DEF Ordered

\* The same of the queue of an upload.
LEMMA ChunksFirstTail ==
  ASSUME NEW q \in Seq(Item), q # <<>>, ChunksFirst(q), NEW r, r = Tail(q)
  PROVE  ChunksFirst(r) /\ (Head(q) = "end" => Occur(r, {"chunk"}) = 0)
<1>1. /\ Len(q) \in Nat \ {0} /\ DOMAIN q = 1 .. Len(q) /\ DOMAIN r = 1 .. Len(q) - 1
      /\ \A i \in 1 .. Len(q) - 1 : r[i] = q[i + 1]
      /\ Head(q) = q[1]
  BY OneLess
<1>2. 1 \in DOMAIN q /\ \A i \in DOMAIN r : i + 1 \in DOMAIN q /\ 1 < i + 1
  BY <1>1
<1>3. ASSUME NEW i \in DOMAIN r, NEW j \in DOMAIN r, i < j, r[i] = "end" PROVE r[j] # "chunk"
  <2>1. i + 1 < j + 1
    BY <1>1, <1>3
  <2> QED
    BY <1>1, <1>2, <1>3, <2>1 DEF ChunksFirst
<1>4. ASSUME Head(q) = "end" PROVE Occur(r, {"chunk"}) = 0
  <2>1. \A i \in DOMAIN r : r[i] # "chunk"
    BY <1>1, <1>2, <1>4 DEF ChunksFirst
  <2>2. {i \in DOMAIN r : r[i] \in {"chunk"}} = {}
    BY <2>1
  <2> QED
    BY <2>2, FS_EmptySet DEF Occur
<1> QED
  BY <1>3, <1>4 DEF ChunksFirst

\* No chunk is put behind END.
LEMMA ChunksFirstAppend ==
  ASSUME NEW q \in Seq(Item), ChunksFirst(q), NEW x \in Item, ~Has(q, "end") \/ x # "chunk",
         NEW r, r = Append(q, x)
  PROVE  ChunksFirst(r)
<1> DEFINE n == Len(q)
<1>1. /\ n \in Nat /\ DOMAIN q = 1 .. n /\ DOMAIN r = 1 .. n + 1
      /\ \A i \in 1 .. n : r[i] = q[i]
      /\ r[n + 1] = x
  BY OneMore
<1> HIDE DEF n
<1>2. ASSUME NEW i \in DOMAIN r, NEW j \in DOMAIN r, i < j, r[i] = "end" PROVE r[j] # "chunk"
  <2>1. i \in 1 .. n /\ q[i] = "end"
    BY <1>1, <1>2
  <2>2. CASE j = n + 1
    BY <1>1, <2>1, <2>2 DEF Has
  <2>3. CASE j # n + 1
    <3>1. j \in 1 .. n
      BY <1>1, <2>3
    <3> QED
      BY <1>1, <1>2, <2>1, <3>1 DEF ChunksFirst
  <2> QED
    BY <2>2, <2>3
<1> QED
  BY <1>2 DEF ChunksFirst

\* A frame is told by its kind and its session.
LEMMA FrameOf ==
  ASSUME NEW k, NEW s, NEW l, NEW u
  PROVE  /\ Frame(k, s).kind = k /\ Frame(k, s).sid = s
         /\ Frame(k, s) = Frame(l, u) <=> k = l /\ s = u
         /\ Frame(k, s) \in Chunks(u) <=> s = u /\ k \in {"chunk", "oversized"}
         /\ Frame(k, s) \in Puts(u) <=> s = u /\ k \in {"chunk", "end"}
         /\ \A f \in Chunks(u) : f.sid = u
<1>1. \A m : Frame(k, s) = Frame(m, u) <=> k = m /\ s = u
  BY DEF Frame
<1>2. Frame(k, s).kind = k /\ Frame(k, s).sid = s /\ \A m : Frame(m, u).sid = u
  BY DEF Frame
<1>3. \A f : f \in Chunks(u) <=> f = Frame("chunk", u) \/ f = Frame("oversized", u)
  BY DEF Chunks
<1>4. \A f : f \in Puts(u) <=> f = Frame("chunk", u) \/ f = Frame("end", u)
  BY DEF Puts
<1>5. Frame(k, s) \in Chunks(u) <=> s = u /\ k \in {"chunk", "oversized"}
  <2>1. Frame(k, s) = Frame("chunk", u) <=> k = "chunk" /\ s = u
    BY <1>1
  <2>2. Frame(k, s) = Frame("oversized", u) <=> k = "oversized" /\ s = u
    BY <1>1
  <2>3. Frame(k, s) \in Chunks(u) <=> Frame(k, s) = Frame("chunk", u) \/ Frame(k, s) = Frame("oversized", u)
    BY <1>3
  <2> QED
    BY <2>1, <2>2, <2>3
<1>6. Frame(k, s) \in Puts(u) <=> s = u /\ k \in {"chunk", "end"}
  BY <1>1, <1>4
<1> QED
  BY <1>1, <1>2, <1>3, <1>5, <1>6

\* What there is none of is not counted, and nothing is in an empty queue.
LEMMA NotMentioned ==
  ASSUME NEW q, NEW s, ~Mentions(q, s)
  PROVE  (\A k : ~Has(q, Frame(k, s))) /\ Occur(q, Chunks(s)) = 0
<1>1. \A k : ~Has(q, Frame(k, s))
  BY DEF Mentions, Has, Frame
<1>2. {i \in DOMAIN q : q[i] \in Chunks(s)} = {}
  <2>1. \A f \in Chunks(s) : f.sid = s
    BY FrameOf
  <2> QED
    BY <2>1 DEF Mentions
<1> QED
  BY <1>1, <1>2, FS_EmptySet DEF Occur

\* Of an empty sequence everything holds.
LEMMA NothingInEmpty ==
  /\ \A x : ~Has(<<>>, x) /\ ~Mentions(<<>>, x)
  /\ \A X : Occur(<<>>, X) = 0
  /\ ChunksFirst(<<>>) /\ Ordered(<<>>)
<1>1. DOMAIN <<>> = {}
  OBVIOUS
<1>2. ASSUME NEW X PROVE Occur(<<>>, X) = 0
  <2>1. {i \in DOMAIN <<>> : <<>>[i] \in X} = {}
    BY <1>1
  <2> QED
    BY <2>1, FS_EmptySet DEF Occur
<1> QED
  BY <1>1, <1>2 DEF Has, Mentions, ChunksFirst, Ordered


\* What an upload is judged by; a step that leaves it alone leaves the upload as it was.
Same(u) ==
  /\ callStage'[u] = callStage[u] /\ written'[u] = written[u] /\ handler'[u] = handler[u]
  /\ taken'[u] = taken[u] /\ queue'[u] = queue[u] /\ (u \in sessions' <=> u \in sessions)
  /\ \A f \in Puts(u) : reader' = f <=> reader = f
SameFrames(u) ==
  /\ Mentions(inbox, u)' <=> Mentions(inbox, u)
  /\ \A k : Has(inbox', Frame(k, u)) <=> Has(inbox, Frame(k, u))
  /\ Occur(inbox', Chunks(u)) = Occur(inbox, Chunks(u))
\* What such a step leaves as it was.
LEMMA Undisturbed ==
  ASSUME NEW u \in Uploads, UploadOf(u), Same(u), SameFrames(u)
  PROVE  UploadOf(u)'
<1>1. (reader' = Frame("end", u) <=> reader = Frame("end", u)) /\ (reader' = Frame("chunk", u) <=> reader = Frame("chunk", u))
      /\ (reader' \in Puts(u) <=> reader \in Puts(u))
  BY DEF Same, Puts
<1>2. (Starting(u)' <=> Starting(u)) /\ (EndSent(u)' <=> EndSent(u)) /\ (HandlerAlive(u)' <=> HandlerAlive(u))
      /\ (Untouched(u)' <=> Untouched(u)) /\ UnderWay(u)' = UnderWay(u)
  BY <1>1 DEF Same, SameFrames, Starting, EndSent, HandlerAlive, Untouched, UnderWay
<1>3. /\ callStage'[u] = callStage[u] /\ written'[u] = written[u] /\ handler'[u] = handler[u]
      /\ taken'[u] = taken[u] /\ queue'[u] = queue[u] /\ (u \in sessions' <=> u \in sessions)
      /\ (Mentions(inbox, u)' <=> Mentions(inbox, u))
  BY DEF Same, SameFrames
<1> QED
  BY <1>1, <1>2, <1>3 DEF UploadOf

\* A frame of another session.
LEMMA OtherFrameSent ==
  ASSUME SocketShape, NEW u, NEW s, NEW k, Frame(k, s) \in UpFrame, u # s, inbox' = Append(inbox, Frame(k, s))
  PROVE  SameFrames(u)
<1>1. inbox \in Seq(UpFrame)
  BY DEF SocketShape, ClientShape
<1>2. \A l : Frame(k, s).sid # u /\ Frame(k, s) # Frame(l, u) /\ Frame(k, s) \notin Chunks(u)
  <2>1. Frame(k, s).sid = s /\ \A l : Frame(l, u).sid = u
    BY DEF Frame
  <2>2. \A f \in Chunks(u) : f.sid = u
    BY FrameOf
  <2> QED
    BY <2>1, <2>2
<1>3. OneMoreIn(inbox, Frame(k, s), inbox')
  BY <1>1, AddOne
<1>4. Occur(inbox', Chunks(u)) = Occur(inbox, Chunks(u))
  BY <1>2, <1>3 DEF OneMoreIn
<1> QED
  BY <1>2, <1>3, <1>4 DEF SameFrames, OneMoreIn

\* Nor does the receipt of a frame of another session.
LEMMA OtherFrameReceived ==
  ASSUME SocketShape, Received, NEW u, u # Head(inbox).sid
  PROVE  SameFrames(u)
<1> DEFINE f == Head(inbox)
<1>1. inbox \in Seq(UpFrame) /\ inbox # <<>> /\ inbox' = Tail(inbox) /\ f = Frame(f.kind, f.sid)
  BY ReceivedShape
<1>2. \A l : f.sid # u /\ f # Frame(l, u) /\ f \notin Chunks(u)
  BY ZenonT(60), <1>1, FrameOf
<1>3. OneMoreIn(inbox', f, inbox)
  BY <1>1, DropOne
<1>4. Occur(inbox', Chunks(u)) = Occur(inbox, Chunks(u))
  BY <1>2, <1>3 DEF OneMoreIn
<1> QED
  BY <1>2, <1>3, <1>4 DEF SameFrames, OneMoreIn

\* The handler of u is over, and nothing starts one.
LEMMA HandlerOver ==
  ASSUME SocketShape, NEW u \in Uploads, UploadOf(u),
         callStage'[u] = callStage[u], written'[u] = written[u], taken'[u] = taken[u], reader' \notin Puts(u) \/ reader' = reader,
         handler'[u] = handler[u] \/ (HandlerAlive(u) /\ handler'[u] \in {"cancelled", "done"}),
         ~HandlerAlive(u)', u \notin sessions', ~Starting(u)',
         Mentions(inbox, u)' => Mentions(inbox, u),
         Has(inbox', Frame("end", u)) => Has(inbox, Frame("end", u)),
         Has(queue'[u], "end") <=> Has(queue[u], "end"), ChunksFirst(queue'[u]),
         queue'[u] = queue[u] \/ HandlerAlive(u)
  PROVE  UploadOf(u)'
<1>1. reader' = Frame("end", u) => reader = Frame("end", u)
  BY DEF Puts
<1>2. EndSent(u)' => EndSent(u)
  BY <1>1 DEF EndSent
<1>3. Untouched(u) => Untouched(u)'
  BY DEF Untouched, HandlerAlive
<1>4. callStage'[u] = "new" => written'[u] = 0 /\ ~Mentions(inbox, u)' /\ Untouched(u)'
  BY <1>3 DEF UploadOf
<1>5. handler'[u] # "runs" /\ handler'[u] # "whole"
  BY DEF HandlerAlive
<1>6. Has(queue'[u], "end") => ~Mentions(inbox, u)' /\ reader' \notin Puts(u)
  BY DEF UploadOf
<1> QED
  BY <1>1, <1>2, <1>4, <1>5, <1>6 DEF UploadOf

\* The calls of the client: what it sends is under way, and END is sent once.
LEMMA CallsKeepUploads ==
  ASSUME SocketShape, UploadInv, NEW s \in Sessions,
         OpensSession(s) \/ ClientWrites(s) \/ Finishes(s) \/ Aborts(s)
  PROVE  UploadInv'
<1>1. PICK k \in Kinds, to \in Stages :
        /\ ClientCalls(s, k, to) /\ Frame(k, s) \in UpFrame
        /\ to = "writes" => s \in Uploads
        /\ k = "command" <=> callStage[s] = "new" /\ s \in Commands
  BY CallsAreFour
<1>2. /\ \A u \in Sessions : u # s => callStage'[u] = callStage[u]
      /\ link = "up" => inbox' = Append(inbox, Frame(k, s)) /\ callStage'[s] = to
      /\ link # "up" => inbox' = inbox /\ callStage'[s] = "over"
      /\ UNCHANGED <<link, outbox, answer, reader, sessions, handler, queue, taken, expired, reaped>>
  BY <1>1, CallShape DEF ClientCalls
<1>3. \/ callStage[s] = "new" /\ k \in {"command", "start"} /\ to \in {"writes", "waits"} /\ written' = written
      \/ callStage[s] = "writes" /\ k \in {"chunk", "oversized"} /\ to = "writes"
         /\ written' = [written EXCEPT ![s] = @ + 1]
      \/ callStage[s] = "writes" /\ k = "end" /\ to = "waits" /\ written' = written
      \/ callStage[s] = "writes" /\ k = "cancel" /\ to = "over" /\ written' = written
  BY <1>1 DEF ClientCalls
<1>4. inbox \in Seq(UpFrame) /\ written \in [Sessions -> Nat] /\ Uploads \subseteq Sessions /\ (s \in Uploads => s \notin Commands)
  BY SocketAssumption DEF SocketShape, ClientShape, Sessions
<1>5. ASSUME NEW u \in Uploads, u # s PROVE UploadOf(u)'
  <2>1. UploadOf(u) /\ Same(u)
    BY <1>2, <1>3, <1>4, <1>5 DEF UploadInv, Same
  <2>2. SameFrames(u)
    BY <1>1, <1>2, <1>5, OtherFrameSent DEF SameFrames
  <2> QED
    BY <2>1, <2>2, Undisturbed
<1>6. ASSUME s \in Uploads PROVE UploadOf(s)' /\ (k = "start" => ~Mentions(inbox, s)) /\ ~Has(inbox, Frame("end", s))
  <2>1. UploadOf(s)
    BY <1>6 DEF UploadInv
  <2>2. callStage[s] = "new" => ~Mentions(inbox, s) /\ Untouched(s) /\ written[s] = 0
    BY <2>1 DEF UploadOf
  <2>3. ~EndSent(s)
    <3>1. CASE callStage[s] = "new"
      BY <2>2, <3>1, NotMentioned, NothingInEmpty DEF EndSent, Untouched, Puts
    <3>2. CASE callStage[s] = "writes"
      BY <2>1, <3>2 DEF UploadOf
    <3> QED
      BY <1>3, <3>1, <3>2
  <2>4. ~Has(inbox, Frame("end", s)) /\ reader # Frame("end", s) /\ ~Has(queue[s], "end")
    BY <2>3 DEF EndSent
  <2>5. handler[s] # "whole"
    BY <1>3, <2>1, <2>2 DEF UploadOf, Untouched
  <2>6. /\ written'[s] \in Nat /\ written[s] \in Nat
        /\ k \in {"chunk", "oversized"} => written'[s] = written[s] + 1
        /\ k \notin {"chunk", "oversized"} => written'[s] = written[s]
        /\ k = "start" <=> callStage[s] = "new"
    BY <1>1, <1>3, <1>4, <1>6
  <2>7. CASE link # "up"
    <3>1. /\ inbox' = inbox /\ callStage'[s] = "over"
          /\ UNCHANGED <<reader, sessions, handler, queue, taken>>
      BY <1>2, <2>7
    <3>3. /\ queue'[s] = queue[s] /\ handler'[s] = handler[s] /\ (s \in sessions' <=> s \in sessions)
          /\ reader' # Frame("end", s) /\ ~Has(queue'[s], "end") /\ handler'[s] # "whole"
          /\ ChunksFirst(queue'[s]) /\ (handler'[s] = "runs" => ~Has(queue'[s], "timeout"))
          /\ (s \in sessions <=> HandlerAlive(s)) /\ (Starting(s) => Untouched(s))
      BY <2>1, <2>4, <2>5, <3>1 DEF UploadOf
    <3>2. ~EndSent(s)' /\ (Starting(s)' <=> Starting(s)) /\ (Untouched(s)' <=> Untouched(s)) /\ (HandlerAlive(s)' <=> HandlerAlive(s))
      BY <2>3, <3>1 DEF EndSent, Starting, Untouched, HandlerAlive
    <3> QED
      BY <2>2, <2>4, <2>6, <3>1, <3>2, <3>3 DEF UploadOf
  <2>8. CASE link = "up"
    <3>1. /\ inbox' = Append(inbox, Frame(k, s)) /\ callStage'[s] = to
          /\ UNCHANGED <<reader, sessions, handler, queue, taken>>
      BY <1>2, <2>8
    <3>2. OneMoreIn(inbox, Frame(k, s), inbox')
      BY <1>1, <1>4, <3>1, AddOne
    <3>3. /\ Starting(s)' <=> Starting(s) \/ k = "start"
          /\ EndSent(s)' <=> k = "end"
          /\ Untouched(s)' <=> Untouched(s)
          /\ HandlerAlive(s)' <=> HandlerAlive(s)
      <4>1. \A l : Frame(k, s) = Frame(l, s) <=> k = l
        BY DEF Frame
      <4> QED
        BY <2>4, <3>1, <3>2, <4>1 DEF OneMoreIn, Starting, EndSent, Untouched, HandlerAlive
    <3>4. /\ UnderWay(s)' = Occur(queue[s], {"chunk"}) + (IF reader = Frame("chunk", s) THEN 1 ELSE 0) + Occur(inbox', Chunks(s))
          /\ UnderWay(s) = Occur(queue[s], {"chunk"}) + (IF reader = Frame("chunk", s) THEN 1 ELSE 0) + Occur(inbox, Chunks(s))
          /\ Occur(queue[s], {"chunk"}) \in Nat /\ Occur(inbox, Chunks(s)) \in Nat
      <4>1. Occur(queue[s], {"chunk"}) \in Nat
        <5>1. queue[s] \in Seq(Item) /\ "chunk" \in Item
          BY <1>4, <1>6 DEF SocketShape, ServerShape, Item
        <5>2. OneMoreIn(queue[s], "chunk", Append(queue[s], "chunk"))
          BY <5>1, AddOne
        <5> QED
          BY <5>2 DEF OneMoreIn
      <4> QED
        BY <3>1, <3>2, <4>1 DEF UnderWay, OneMoreIn
    <3>5. Occur(inbox', Chunks(s)) = Occur(inbox, Chunks(s)) + (IF k \in {"chunk", "oversized"} THEN 1 ELSE 0)
      <4>1. Frame(k, s) \in Chunks(s) <=> k \in {"chunk", "oversized"}
        BY FrameOf
      <4> QED
        BY <3>2, <4>1 DEF OneMoreIn
    <3>6. taken[s] \in Nat /\ UnderWay(s) \in Nat
      BY <1>4, <1>6, <3>4 DEF SocketShape, ServerShape
    <3>7. (Starting(s)' \/ handler'[s] = "runs") /\ (callStage'[s] = "writes" \/ EndSent(s)')
            => taken'[s] + UnderWay(s)' = written'[s]
      <4>1. CASE k = "start"
        <5>1. Occur(queue[s], {"chunk"}) = 0 /\ Occur(inbox, Chunks(s)) = 0 /\ reader # Frame("chunk", s)
              /\ taken[s] = 0 /\ written[s] = 0
          BY <2>2, <2>6, <4>1, NotMentioned, NothingInEmpty DEF Untouched, Puts
        <5>2. Occur(inbox', Chunks(s)) = 0
          BY <3>5, <4>1, <5>1
        <5>3. UnderWay(s)' = 0 /\ taken'[s] = 0
          BY <3>1, <3>4, <5>1, <5>2
        <5> QED
          BY <2>6, <4>1, <5>1, <5>3
      <4>2. CASE k # "start"
        <5>1. callStage[s] = "writes"
          BY <1>3, <2>6, <4>2
        <5>2. Starting(s) \/ handler[s] = "runs" => taken[s] + UnderWay(s) = written[s]
          BY <2>1, <5>1 DEF UploadOf
        <5>3. UnderWay(s)' = UnderWay(s) + (IF k \in {"chunk", "oversized"} THEN 1 ELSE 0)
          BY <3>4, <3>5
        <5> QED
          BY <2>6, <3>1, <3>3, <3>6, <4>2, <5>2, <5>3
      <4> QED
        BY <4>1, <4>2
    <3>10. /\ queue'[s] = queue[s] /\ handler'[s] = handler[s] /\ (s \in sessions' <=> s \in sessions)
          /\ reader' # Frame("end", s) /\ ~Has(queue'[s], "end") /\ handler'[s] # "whole"
          /\ ChunksFirst(queue'[s]) /\ (handler'[s] = "runs" => ~Has(queue'[s], "timeout"))
          /\ (s \in sessions <=> HandlerAlive(s)) /\ (Starting(s) => Untouched(s))
      BY <2>1, <2>4, <2>5, <3>1 DEF UploadOf
    <3>8. to # "new" /\ (to = "writes" => k # "end") /\ (Starting(s)' => Untouched(s)')
      <4>1. Starting(s) => Untouched(s)
        BY <2>1 DEF UploadOf
      <4> QED
        BY <1>3, <2>2, <2>6, <3>3, <4>1
    <3> QED
      BY <2>2, <2>4, <2>6, <3>1, <3>3, <3>7, <3>8, <3>10 DEF UploadOf
  <2> QED
    BY <2>4, <2>6, <2>2, <2>7, <2>8
<1>7. Ordered(inbox')
  <2>1. CASE link # "up"
    BY <1>2, <2>1 DEF UploadInv
  <2>2. CASE link = "up"
    BY <1>1, <1>2, <1>4, <1>6, <2>2, OrderedAppend DEF UploadInv
  <2> QED
    BY <2>1, <2>2
<1> QED
  BY <1>5, <1>6, <1>7 DEF UploadInv

\* What the read loop knows of a frame of an upload.
LEMMA UploadFrame ==
  ASSUME SocketShape, UploadInv, Received, NEW f, f = Head(inbox), NEW u \in Uploads, f.sid = u
  PROVE  /\ f = Frame(f.kind, u) /\ f.kind \in Kinds \ {"command"} /\ OneMoreIn(inbox', f, inbox)
         /\ reader = Reads /\ callStage[u] # "new" /\ ~Has(queue[u], "end")
         /\ ~Starting(u)' /\ (Starting(u) <=> f.kind = "start")
         /\ Mentions(inbox', u) => f.kind # "end"
<1>1. inbox \in Seq(UpFrame) /\ inbox # <<>> /\ inbox' = Tail(inbox) /\ f \in UpFrame
      /\ f = Frame(f.kind, f.sid) /\ reader = Reads
  BY ReceivedShape
<1>2. f.kind \in Kinds \ {"command"}
  BY <1>1, SocketAssumption DEF UpFrame, Kinds
<1>3. OneMoreIn(inbox', f, inbox)
  BY <1>1, DropOne
<1>4. Mentions(inbox, u)
  BY <1>3 DEF OneMoreIn
<1>5. callStage[u] # "new" /\ ~Has(queue[u], "end")
  BY <1>4 DEF UploadInv, UploadOf
<1>6. ~Starting(u)' /\ (Mentions(inbox', u) => f.kind # "end")
  BY <1>1, OrderedTail DEF UploadInv, Starting
<1>7. Starting(u) <=> f.kind = "start"
  <2>1. Frame("start", u) = f <=> f.kind = "start"
    BY <1>1 DEF Frame
  <2> QED
    BY <1>3, <1>6, <2>1 DEF OneMoreIn, Starting
<1> QED
  BY <1>1, <1>2, <1>3, <1>5, <1>6, <1>7

\* The order of the frames that are left.
LEMMA OrderLeft == ASSUME SocketShape, UploadInv, Received PROVE Ordered(inbox')
BY ReceivedShape, OrderedTail DEF UploadInv

\* A start gives the upload its handler, or the client an error.
LEMMA OpensKeepsUploads ==
  ASSUME SocketShape, UploadInv, ServerOpens
  PROVE  UploadInv'
<1> DEFINE f == Head(inbox)
<1>1. /\ Received /\ f.kind \in {"command", "start"} /\ f.sid \in Sessions
      /\ UNCHANGED <<reader, queue, taken, callStage, written>>
      /\ \/ /\ handler' = [handler EXCEPT ![f.sid] = "runs"]
            /\ sessions' = IF f.kind = "start" THEN sessions \union {f.sid} ELSE sessions
         \/ UNCHANGED <<handler, sessions>>
  BY ReceivedShape DEF ServerOpens
<1>2. handler \in [Sessions -> Tasks] /\ Uploads \subseteq Sessions
  BY DEF SocketShape, ServerShape, Sessions
<1>3. ASSUME NEW u \in Uploads, u # f.sid PROVE UploadOf(u)'
  <2>1. SameFrames(u)
    BY <1>1, <1>3, OtherFrameReceived
  <2>2. UploadOf(u) /\ Same(u)
    BY <1>1, <1>2, <1>3 DEF UploadInv, Same
  <2> QED
    BY <2>1, <2>2, Undisturbed
<1>4. ASSUME NEW u \in Uploads, u = f.sid PROVE UploadOf(u)'
  <2>1. /\ f = Frame(f.kind, u) /\ f.kind = "start" /\ OneMoreIn(inbox', f, inbox)
        /\ reader = Reads /\ callStage[u] # "new" /\ ~Has(queue[u], "end")
        /\ ~Starting(u)' /\ Starting(u)
    BY <1>1, <1>4, UploadFrame
  <2>2. UploadOf(u) /\ Untouched(u)
    BY <2>1 DEF UploadInv, UploadOf
  <2>3. /\ queue'[u] = <<>> /\ queue[u] = <<>> /\ taken'[u] = taken[u] /\ callStage'[u] = callStage[u]
        /\ written'[u] = written[u] /\ reader' = reader /\ reader # Frame("end", u)
    BY <1>1, <2>2 DEF Untouched, Puts
  <2>4. f # Frame("end", u) /\ f \notin Chunks(u)
    <3>1. Frame("start", u) # Frame("end", u)
      BY DEF Frame
    <3>2. Frame("start", u) \notin Chunks(u)
      BY FrameOf
    <3> QED
      BY <2>1, <3>1, <3>2
  <2>5. (EndSent(u)' <=> EndSent(u)) /\ UnderWay(u)' = UnderWay(u)
    <3>1. Occur(inbox', Chunks(u)) = Occur(inbox, Chunks(u))
      BY <2>1, <2>4 DEF OneMoreIn
    <3>2. Has(inbox', Frame("end", u)) <=> Has(inbox, Frame("end", u))
      BY <2>1, <2>4 DEF OneMoreIn
    <3> QED
      BY <2>3, <3>1, <3>2 DEF EndSent, UnderWay
  <2>6. callStage[u] = "writes" => ~EndSent(u)
    BY <2>2 DEF UploadOf
  <2>7. callStage[u] = "writes" \/ EndSent(u) => taken[u] + UnderWay(u) = written[u]
    BY <2>1, <2>2 DEF UploadOf
  <2>8. handler'[u] # "whole" /\ (u \in sessions' <=> HandlerAlive(u)')
    BY <1>1, <1>2, <1>4, <2>1, <2>2 DEF Untouched, HandlerAlive
  <2> QED
    BY <2>1, <2>3, <2>5, <2>6, <2>7, <2>8, NothingInEmpty DEF UploadOf
<1> QED
  BY <1>1, <1>3, <1>4, OrderLeft DEF UploadInv

\* A frame that the read loop puts in the queue of its session, or waits with.
LEMMA PutKeepsUpload ==
  ASSUME SocketShape, NEW u \in Uploads, NEW k \in {"chunk", "end"}, NEW f, f = Frame(k, u),
         UploadOf(u), ~Starting(u), ~Starting(u)', callStage[u] # "new", ~Has(queue[u], "end"),
         \/ reader = f /\ inbox' = inbox /\ PutFits(f)
         \/ reader = Reads /\ OneMoreIn(inbox', f, inbox),
         Mentions(inbox', u) => k # "end", Put(f),
         UNCHANGED <<sessions, handler, taken, callStage, written>>
  PROVE  UploadOf(u)'
<1>1. f.sid = u /\ f.kind = k /\ k \in Item /\ queue[u] \in Seq(Item) /\ u \in Sessions
      /\ (f = Frame("end", u) <=> k = "end") /\ (f = Frame("chunk", u) <=> k = "chunk")
      /\ (f \in Chunks(u) <=> k = "chunk") /\ Reads \notin Puts(u)
  <2>1. k \in Item /\ queue[u] \in Seq(Item) /\ u \in Sessions
    BY DEF SocketShape, ServerShape, Item, Sessions
  <2>2. f.sid = u /\ f.kind = k
    BY FrameOf
  <2>3. Frame(k, u) = Frame("end", u) <=> k = "end"
    BY DEF Frame
  <2>4. Frame(k, u) = Frame("chunk", u) <=> k = "chunk"
    BY DEF Frame
  <2>5. Frame(k, u) \in Chunks(u) <=> k = "chunk"
    BY FrameOf
  <2>6. Reads \notin Puts(u)
    BY FrameOf DEF Reads
  <2> QED
    BY <2>1, <2>2, <2>3, <2>4, <2>5, <2>6
<1>2. \/ PutFits(f) /\ reader' = Reads /\ queue'[u] = Append(queue[u], k)
      \/ ~PutFits(f) /\ reader' = f /\ queue' = queue
  BY <1>1 DEF Put, Queued, SocketShape, ServerShape
<1>3. OneMoreIn(queue[u], k, Append(queue[u], k))
  BY <1>1, AddOne
<1>4. ChunksFirst(queue'[u]) /\ (handler'[u] = "runs" => ~Has(queue'[u], "timeout"))
  <2>1. ChunksFirst(queue[u]) /\ (handler[u] = "runs" => ~Has(queue[u], "timeout"))
    BY DEF UploadOf
  <2>2. ChunksFirst(Append(queue[u], k))
    BY <1>1, <2>1, ChunksFirstAppend
  <2> QED
    BY <1>2, <1>3, <2>1, <2>2 DEF OneMoreIn
<1>5. (EndSent(u)' <=> EndSent(u)) /\ (Has(queue'[u], "end") => k = "end" /\ reader' = Reads)
      /\ (reader' = Frame("end", u) => k = "end")
  <2>1. Reads # Frame("end", u)
    BY <1>1 DEF Puts
  <2>2. /\ Has(Append(queue[u], k), "end") <=> k = "end"
        /\ EndSent(u)' <=> Has(inbox', Frame("end", u)) \/ reader' = Frame("end", u) \/ Has(queue'[u], "end")
        /\ EndSent(u) <=> Has(inbox, Frame("end", u)) \/ reader = Frame("end", u) \/ Has(queue[u], "end")
    BY <1>3 DEF EndSent, OneMoreIn
  <2>3. CASE inbox' = inbox /\ reader = f /\ PutFits(f)
    BY <1>1, <1>2, <2>1, <2>2, <2>3
  <2>4. CASE reader = Reads /\ OneMoreIn(inbox', f, inbox)
    <3>1. Has(inbox, Frame("end", u)) <=> Has(inbox', Frame("end", u)) \/ k = "end"
      BY <1>1, <2>4 DEF OneMoreIn
    <3> QED
      BY <1>1, <1>2, <2>1, <2>2, <2>4, <3>1
  <2> QED
    BY <2>3, <2>4
<1>6. UnderWay(u)' = UnderWay(u)
  <2>1. Reads # Frame("chunk", u)
    BY <1>1 DEF Puts
  <2>2. /\ Occur(queue[u], {"chunk"}) \in Nat
        /\ Occur(Append(queue[u], k), {"chunk"}) = Occur(queue[u], {"chunk"}) + (IF k = "chunk" THEN 1 ELSE 0)
    BY <1>3 DEF OneMoreIn
  <2>5. /\ UnderWay(u) = Occur(queue[u], {"chunk"}) + (IF reader = Frame("chunk", u) THEN 1 ELSE 0) + Occur(inbox, Chunks(u))
        /\ UnderWay(u)' = Occur(queue'[u], {"chunk"}) + (IF reader' = Frame("chunk", u) THEN 1 ELSE 0) + Occur(inbox', Chunks(u))
    BY DEF UnderWay
  <2>6. Occur(inbox', Chunks(u)) \in Nat
    <3>1. inbox' = inbox \/ OneMoreIn(inbox', f, inbox)
      OBVIOUS
    <3>2. Occur(inbox, Chunks(u)) \in Nat
      <4>1. inbox \in Seq(UpFrame) /\ Frame("chunk", u) \in UpFrame
        BY DEF SocketShape, ClientShape, Frame, UpFrame
      <4>2. OneMoreIn(inbox, Frame("chunk", u), Append(inbox, Frame("chunk", u)))
        BY <4>1, AddOne
      <4> QED
        BY <4>2 DEF OneMoreIn
    <3> QED
      BY <3>1, <3>2 DEF OneMoreIn
  <2>3. CASE inbox' = inbox /\ reader = f /\ PutFits(f)
    <3>1. UnderWay(u) = Occur(queue[u], {"chunk"}) + (IF k = "chunk" THEN 1 ELSE 0) + Occur(inbox, Chunks(u))
      BY <1>1, <2>3, <2>5
    <3>2. queue'[u] = Append(queue[u], k) /\ reader' # Frame("chunk", u)
      BY <1>2, <2>1, <2>3
    <3>3. UnderWay(u)' = Occur(Append(queue[u], k), {"chunk"}) + 0 + Occur(inbox, Chunks(u))
      BY <2>3, <2>5, <3>2
    <3> QED
      BY <2>2, <2>3, <2>6, <3>1, <3>3
  <2>4. CASE reader = Reads /\ OneMoreIn(inbox', f, inbox)
    <3>1. /\ Occur(inbox', Chunks(u)) \in Nat
          /\ Occur(inbox, Chunks(u)) = Occur(inbox', Chunks(u)) + (IF k = "chunk" THEN 1 ELSE 0)
      BY <1>1, <2>4 DEF OneMoreIn
    <3> QED
      <4>1. UnderWay(u) = Occur(queue[u], {"chunk"}) + 0 + Occur(inbox, Chunks(u))
        BY <2>1, <2>4, <2>5
      <4>2. CASE PutFits(f)
        <5>1. reader' # Frame("chunk", u) /\ queue'[u] = Append(queue[u], k)
          BY <1>2, <2>1, <4>2
        <5>2. UnderWay(u)' = Occur(Append(queue[u], k), {"chunk"}) + 0 + Occur(inbox', Chunks(u))
          BY <2>5, <5>1
        <5> QED
          BY <2>2, <3>1, <4>1, <5>2
      <4>3. CASE ~PutFits(f)
        <5>1. (reader' = Frame("chunk", u) <=> k = "chunk") /\ queue' = queue
          BY <1>1, <1>2, <4>3
        <5>2. UnderWay(u)' = Occur(queue[u], {"chunk"}) + (IF k = "chunk" THEN 1 ELSE 0) + Occur(inbox', Chunks(u))
          BY <2>5, <5>1
        <5> QED
          BY <2>2, <3>1, <4>1, <5>2
      <4> QED
        BY <4>2, <4>3
  <2> QED
    BY <2>3, <2>4
<1>7. /\ callStage'[u] = callStage[u] /\ written'[u] = written[u] /\ taken'[u] = taken[u]
      /\ handler'[u] = handler[u] /\ (u \in sessions' <=> u \in sessions) /\ (HandlerAlive(u)' <=> HandlerAlive(u))
  BY DEF HandlerAlive
<1> QED
  BY <1>1, <1>4, <1>5, <1>6, <1>7 DEF UploadOf

\* A chunk or an END for a session that is there goes into its queue, and one for a
\* session that is not goes nowhere, for no handler of it is left.
LEMMA ReceivesKeepsUploads ==
  ASSUME SocketShape, UploadInv, ServerReceives
  PROVE  UploadInv'
<1>1. PICK f \in UpFrame :
        /\ Received /\ f = Head(inbox) /\ f.kind \in {"chunk", "end"}
        /\ UNCHANGED <<sessions, handler, taken, callStage, written>>
        /\ IF f.sid \in sessions THEN Put(f) ELSE UNCHANGED <<reader, queue>>
  BY ReceivedShape DEF ServerReceives
<1>2. f.sid \in Uploads /\ f.sid \in Sessions /\ Uploads \subseteq Sessions
  BY <1>1 DEF UpFrame, Sessions
<1>3. ASSUME NEW u \in Uploads, u = f.sid PROVE UploadOf(u)'
  <2> DEFINE k == f.kind
  <2>1. /\ f = Frame(k, u) /\ OneMoreIn(inbox', f, inbox)
        /\ reader = Reads /\ callStage[u] # "new" /\ ~Has(queue[u], "end")
        /\ ~Starting(u)' /\ ~Starting(u) /\ (Mentions(inbox', u) => k # "end")
    BY <1>1, <1>3, UploadFrame
  <2>2. UploadOf(u)
    BY <1>2 DEF UploadInv
  <2>3. CASE u \in sessions
    BY <1>1, <1>3, <2>1, <2>2, <2>3, PutKeepsUpload
  <2>4. CASE u \notin sessions
    <3>1. ~HandlerAlive(u)
      BY <2>2, <2>4 DEF UploadOf
    <3>2. Mentions(inbox, u)' => Mentions(inbox, u)
      BY <2>1 DEF OneMoreIn
    <3>3. Has(inbox', Frame("end", u)) => Has(inbox, Frame("end", u))
      BY <2>1 DEF OneMoreIn
    <3>4. UNCHANGED <<reader, queue, sessions, handler, taken, callStage, written>> /\ ~HandlerAlive(u)'
      BY <1>1, <1>3, <2>4, <3>1 DEF HandlerAlive
    <3>5. ChunksFirst(queue'[u])
      BY <2>2, <3>4 DEF UploadOf
    <3> QED
      BY <1>2, <2>1, <2>2, <2>4, <3>2, <3>3, <3>4, <3>5, HandlerOver
  <2> QED
    BY <2>3, <2>4
<1>4. ASSUME NEW u \in Uploads, u # f.sid PROVE UploadOf(u)'
  <2>1. SameFrames(u)
    BY <1>1, <1>4, OtherFrameReceived
  <2>2. UploadOf(u) /\ Same(u)
    <3>1. \A g \in Puts(u) : f # g /\ Reads # g
      <4>1. f = Frame(f.kind, f.sid) /\ \A g \in Puts(u) : g.sid = u /\ g.kind \in {"chunk", "end"}
        BY <1>1, UpFrames DEF Puts, Frame
      <4> QED
        BY <1>4, <4>1 DEF Reads, Frame
    <3>2. reader = Reads
      BY <1>1, ReceivedShape
    <3>3. queue'[u] = queue[u] /\ (reader' = reader \/ reader' = f \/ reader' = Reads)
      BY <1>1, <1>2, <1>4 DEF Put, Queued, SocketShape, ServerShape
    <3> QED
      BY <1>1, <3>1, <3>2, <3>3 DEF UploadInv, Same
  <2> QED
    BY <2>1, <2>2, Undisturbed
<1> QED
  BY <1>1, <1>3, <1>4, OrderLeft DEF UploadInv

\* The put that the read loop has waited with.
LEMMA PutsKeepsUploads ==
  ASSUME SocketShape, UploadInv, ServerPuts
  PROVE  UploadInv'
<1>1. reader \in Putting
  BY DEF ServerPuts, SocketShape, ServerShape, Reads, Ended, Frame
<1>2. /\ reader.sid \in Uploads /\ reader.kind \in {"chunk", "end"} /\ reader = Frame(reader.kind, reader.sid)
      /\ Uploads \subseteq Sessions
  BY <1>1 DEF Putting, Frame, Sessions
<1>3. /\ PutFits(reader) /\ reader' = Reads /\ queue' = Queued(reader)
      /\ UNCHANGED <<inbox, sessions, handler, taken, callStage, written>>
  BY DEF ServerPuts, Put
<1>4. PICK k \in {"chunk", "end"}, v \in Uploads : reader = Frame(k, v) /\ reader.sid = v
  BY <1>2
<1>5. UploadOf(v)'
  <2>1. UploadOf(v) /\ reader \in Puts(v)
    <3>1. Frame(k, v) \in Puts(v)
      BY FrameOf
    <3> QED
      BY <1>4, <3>1 DEF UploadInv
  <2>2. ~Starting(v) /\ callStage[v] # "new" /\ ~Has(queue[v], "end")
    BY <2>1 DEF UploadOf, Untouched
  <2>3. ~Starting(v)' /\ (Mentions(inbox', v) => k # "end")
    BY <1>3, <1>4, <2>1, <2>2 DEF UploadOf, Starting
  <2>4. Put(Frame(k, v)) /\ PutFits(Frame(k, v))
    BY <1>3, <1>4 DEF Put
  <2> QED
    BY <1>3, <1>4, <2>1, <2>2, <2>3, <2>4, PutKeepsUpload
<1>6. ASSUME NEW u \in Uploads, u # v PROVE UploadOf(u)'
  <2>1. SameFrames(u)
    BY <1>3 DEF SameFrames
  <2>2. \A g \in Puts(u) : reader # g /\ Reads # g
    <3>1. \A g \in Puts(u) : g.sid = u /\ g.kind \in {"chunk", "end"}
      BY DEF Puts, Frame
    <3> QED
      BY <1>4, <1>6, <3>1 DEF Reads, Frame
  <2>3. queue'[u] = queue[u]
    BY <1>2, <1>3, <1>4, <1>6 DEF Queued, SocketShape, ServerShape
  <2>4. UploadOf(u) /\ Same(u)
    BY <1>3, <2>2, <2>3 DEF UploadInv, Same
  <2> QED
    BY <2>1, <2>4, Undisturbed
<1> QED
  BY <1>3, <1>5, <1>6 DEF UploadInv

\* Who is destroyed has no handler any more, and nothing happens to the others.
LEMMA DestroyedUploads ==
  ASSUME SocketShape, UploadInv, NEW S, DestroySessions(S), NEW u \in Uploads
  PROVE  /\ u \in S => ~HandlerAlive(u)' /\ u \notin sessions'
         /\ handler'[u] = handler[u] \/ (HandlerAlive(u) /\ handler'[u] \in {"cancelled", "done"})
         /\ u \notin S => handler'[u] = handler[u] /\ (u \in sessions' <=> u \in sessions)
<1>1. /\ sessions' = sessions \ S
      /\ u \in S \cap sessions /\ HandlerAlive(u) => handler'[u] = "cancelled"
      /\ ~(u \in S \cap sessions /\ HandlerAlive(u)) => handler'[u] = handler[u]
  BY DestroyShape DEF Sessions
<1>2. u \in sessions <=> HandlerAlive(u)
  BY DEF UploadInv, UploadOf
<1> QED
  BY <1>1, <1>2 DEF HandlerAlive

\* A chunk that is too large and a CANCEL end the session.
LEMMA DestroysKeepsUploads ==
  ASSUME SocketShape, UploadInv, ServerDestroys
  PROVE  UploadInv'
<1>1. PICK f \in UpFrame :
        /\ Received /\ f = Head(inbox) /\ f.kind \in {"oversized", "cancel"} /\ DestroySessions({f.sid})
        /\ UNCHANGED <<reader, queue, taken, callStage, written>>
  BY ReceivedShape DEF ServerDestroys
<1>2. ASSUME NEW u \in Uploads, u = f.sid PROVE UploadOf(u)'
  <2>1. OneMoreIn(inbox', f, inbox) /\ ~Starting(u)'
    BY <1>1, <1>2, UploadFrame
  <2>2. UploadOf(u)
    BY DEF UploadInv
  <2>3. (Mentions(inbox, u)' => Mentions(inbox, u)) /\ (Has(inbox', Frame("end", u)) => Has(inbox, Frame("end", u)))
    BY <2>1 DEF OneMoreIn
  <2>4. /\ ~HandlerAlive(u)' /\ u \notin sessions'
        /\ handler'[u] = handler[u] \/ (HandlerAlive(u) /\ handler'[u] \in {"cancelled", "done"})
    BY <1>1, <1>2, DestroyedUploads
  <2>5. ChunksFirst(queue'[u])
    BY <1>1, <2>2 DEF UploadOf
  <2> QED
    BY <1>1, <2>1, <2>2, <2>3, <2>4, <2>5, HandlerOver
<1>3. ASSUME NEW u \in Uploads, u # f.sid PROVE UploadOf(u)'
  <2>1. SameFrames(u)
    BY <1>1, <1>3, OtherFrameReceived
  <2>2. handler'[u] = handler[u] /\ (u \in sessions' <=> u \in sessions)
    BY <1>1, <1>3, DestroyedUploads
  <2>3. UploadOf(u) /\ Same(u)
    BY <1>1, <2>2 DEF UploadInv, Same
  <2> QED
    BY <2>1, <2>3, Undisturbed
<1> QED
  BY <1>1, <1>2, <1>3, OrderLeft DEF UploadInv

\* At the end of the read loop all sessions end, and no frame is left.
LEMMA EndKeepsUploads ==
  ASSUME SocketShape, UploadInv, ReaderEnds
  PROVE  UploadInv'
<1>1. /\ reader' = Ended /\ inbox = <<>> /\ DestroySessions(sessions)
      /\ UNCHANGED <<inbox, queue, taken, callStage, written>>
  BY DEF ReaderEnds
<1>2. ASSUME NEW u \in Uploads PROVE UploadOf(u)'
  <2>1. UploadOf(u)
    BY DEF UploadInv
  <2>2. /\ u \in sessions => ~HandlerAlive(u)' /\ u \notin sessions'
        /\ handler'[u] = handler[u] \/ (HandlerAlive(u) /\ handler'[u] \in {"cancelled", "done"})
        /\ u \notin sessions => handler'[u] = handler[u] /\ (u \in sessions' <=> u \in sessions)
    BY <1>1, DestroyedUploads
  <2>3. ~HandlerAlive(u)' /\ u \notin sessions'
    BY <2>1, <2>2 DEF UploadOf, HandlerAlive
  <2>4. ~Starting(u)'
    BY <1>1, NothingInEmpty DEF Starting
  <2>5. reader' \notin Puts(u)
    BY <1>1 DEF Ended, Puts, Frame
  <2>6. ChunksFirst(queue'[u])
    BY <1>1, <2>1 DEF UploadOf
  <2> QED
    BY <1>1, <2>1, <2>2, <2>3, <2>4, <2>5, <2>6, HandlerOver
<1> QED
  BY <1>1, <1>2 DEF UploadInv

\* A handler that took END has taken every chunk, for none is left anywhere.
LEMMA TakesKeepsUploads ==
  ASSUME SocketShape, UploadInv, NEW s \in Sessions, HandlerTakes(s)
  PROVE  UploadInv'
<1>1. /\ handler[s] = "runs" /\ s \in Uploads /\ queue[s] # <<>>
      /\ queue' = [queue EXCEPT ![s] = Tail(queue[s])]
      /\ UNCHANGED <<inbox, reader, sessions, callStage, written>>
  BY DEF HandlerTakes
<1>2. \/ Head(queue[s]) = "chunk" /\ taken' = [taken EXCEPT ![s] = @ + 1] /\ handler' = handler
      \/ Head(queue[s]) # "chunk" /\ handler' = [handler EXCEPT ![s] = "whole"] /\ taken' = taken
  BY DEF HandlerTakes
<1>3. /\ queue \in [Sessions -> Seq(Item)] /\ taken \in [Sessions -> Nat] /\ handler \in [Sessions -> Tasks]
      /\ Uploads \subseteq Sessions
  BY DEF SocketShape, ServerShape, Sessions
<1>4. ASSUME NEW u \in Uploads, u # s PROVE UploadOf(u)'
  <2>1. UploadOf(u) /\ Same(u) /\ SameFrames(u)
    BY <1>1, <1>2, <1>3, <1>4 DEF UploadInv, Same, SameFrames
  <2> QED
    BY <2>1, Undisturbed
<1>5. UploadOf(s)'
  <2> DEFINE x == Head(queue[s])
             q == queue[s]
             r == Tail(queue[s])
  <2>1. UploadOf(s) /\ q \in Seq(Item) /\ q # <<>>
    BY <1>1, <1>3 DEF UploadInv
  <2>2. x \in Item /\ r \in Seq(Item) /\ OneMoreIn(r, x, q)
    BY <2>1, OneLess, DropOne
  <2>3. ChunksFirst(r) /\ (x = "end" => Occur(r, {"chunk"}) = 0)
    BY <2>1, ChunksFirstTail DEF UploadOf
  <2>4. x \in {"chunk", "end"} /\ ~Has(r, "timeout")
    BY <1>1, <2>1, <2>2 DEF UploadOf, OneMoreIn, Item
  <2>5. queue'[s] = r /\ (Has(r, "end") => Has(q, "end"))
    BY <1>1, <1>3, <2>2 DEF OneMoreIn
  <2>6. ~Starting(s) /\ ~Starting(s)' /\ callStage[s] # "new"
    BY <1>1, <2>1 DEF UploadOf, Untouched, Starting
  <2>7. /\ Occur(r, {"chunk"}) \in Nat
        /\ Occur(q, {"chunk"}) = Occur(r, {"chunk"}) + (IF x = "chunk" THEN 1 ELSE 0)
    BY <2>2 DEF OneMoreIn
  <2>8. /\ UnderWay(s) = Occur(q, {"chunk"}) + (IF reader = Frame("chunk", s) THEN 1 ELSE 0) + Occur(inbox, Chunks(s))
        /\ UnderWay(s)' = Occur(r, {"chunk"}) + (IF reader = Frame("chunk", s) THEN 1 ELSE 0) + Occur(inbox, Chunks(s))
    BY <1>1, <2>5 DEF UnderWay
  <2>9. callStage[s] = "writes" \/ EndSent(s) => taken[s] + UnderWay(s) = written[s]
    BY <1>1, <2>1 DEF UploadOf
  <2>10. /\ UNCHANGED <<inbox, reader, sessions, callStage, written>>
         /\ EndSent(s)' => EndSent(s)
    BY <1>1, <2>5 DEF EndSent
  <2>11. CASE x = "chunk"
    <3>1. /\ taken'[s] = taken[s] + 1 /\ taken[s] \in Nat /\ handler' = handler
      BY <1>1, <1>2, <1>3, <2>11
    <3>2. Occur(inbox, Chunks(s)) \in Nat
      <4>1. inbox \in Seq(UpFrame) /\ Frame("chunk", s) \in UpFrame
        BY <1>1 DEF SocketShape, ClientShape, Frame, UpFrame
      <4>2. OneMoreIn(inbox, Frame("chunk", s), Append(inbox, Frame("chunk", s)))
        BY <4>1, AddOne
      <4> QED
        BY <4>2 DEF OneMoreIn
    <3>3. taken'[s] + UnderWay(s)' = taken[s] + UnderWay(s)
      BY <2>7, <2>8, <2>11, <3>1, <3>2
    <3> QED
      BY <1>1, <2>1, <2>3, <2>4, <2>5, <2>6, <2>9, <2>10, <3>1, <3>3 DEF UploadOf, HandlerAlive
  <2>12. CASE x = "end"
    <3>1. handler'[s] = "whole" /\ taken' = taken
      BY <1>1, <1>2, <1>3, <2>12
    <3>2. Has(q, "end")
      BY <2>2, <2>12 DEF OneMoreIn
    <3>3. ~Mentions(inbox, s) /\ reader \notin Puts(s) /\ EndSent(s)
      BY <2>1, <3>2 DEF UploadOf, EndSent
    <3>4. callStage[s] \in {"waits", "over"}
      BY <1>1, <2>1, <2>6, <3>3 DEF UploadOf, SocketShape, ClientShape, Stages
    <3>5. Occur(inbox, Chunks(s)) = 0 /\ Occur(q, {"chunk"}) = 0 /\ reader # Frame("chunk", s) /\ reader # Frame("end", s)
      BY <2>3, <2>7, <2>12, <3>3, NotMentioned DEF Puts
    <3>6. taken[s] = written[s]
      BY <1>1, <1>3, <2>8, <2>9, <3>3, <3>5
    <3> QED
      BY <1>1, <2>1, <2>3, <2>4, <2>5, <2>6, <2>10, <3>1, <3>3, <3>4, <3>5, <3>6 DEF UploadOf, HandlerAlive
  <2> QED
    BY <2>4, <2>11, <2>12
<1> QED
  BY <1>1, <1>4, <1>5 DEF UploadInv

\* A handler that ends, or whom the reaper ends.
LEMMA HandlerEndKeepsUploads ==
  ASSUME SocketShape, UploadInv, NEW s \in Sessions, HandlerEnds(s) \/ Reap(s)
  PROVE  UploadInv'
<1>1. UNCHANGED <<inbox, reader, taken, callStage, written>>
  BY DEF HandlerEnds, Reap
<1>2. \A u \in Uploads : Mentions(inbox, u)' <=> Mentions(inbox, u)
  BY <1>1
<1>3. CASE HandlerEnds(s)
  <2>1. /\ HandlerAlive(s) /\ sessions' = sessions \ {s} /\ handler' = [handler EXCEPT ![s] = "done"] /\ queue' = queue
    BY <1>3 DEF HandlerEnds
  <2>2. ASSUME NEW u \in Uploads, u # s PROVE UploadOf(u)'
    <3>1. UploadOf(u) /\ Same(u) /\ SameFrames(u)
      BY <1>1, <2>1, <2>2 DEF UploadInv, Same, SameFrames
    <3> QED
      BY <3>1, Undisturbed
  <2>3. ASSUME s \in Uploads PROVE UploadOf(s)'
    <3>1. UploadOf(s) /\ handler[s] # "none"
      BY <2>1, <2>3 DEF UploadInv, HandlerAlive
    <3>2. ~Starting(s)' /\ ChunksFirst(queue'[s])
      BY <1>1, <2>1, <3>1 DEF UploadOf, Untouched, Starting
    <3>3. handler'[s] = "done" /\ ~HandlerAlive(s)'
      BY <2>1 DEF HandlerAlive, SocketShape, ServerShape
    <3> QED
      BY <1>1, <1>2, <2>1, <2>3, <3>1, <3>2, <3>3, HandlerOver
  <2> QED
    BY <1>1, <2>2, <2>3 DEF UploadInv
<1>4. CASE Reap(s)
  <2>1. /\ s \in sessions /\ DestroySessions({s})
        /\ queue' = queue \/ queue' = [queue EXCEPT ![s] = Append(queue[s], "timeout")]
    BY <1>4 DEF Reap, SocketShape, ServerShape
  <2>2. queue \in [Sessions -> Seq(Item)] /\ "timeout" \in Item /\ Uploads \subseteq Sessions
    BY DEF SocketShape, ServerShape, Item, Sessions
  <2>3. ASSUME NEW u \in Uploads, u # s PROVE UploadOf(u)'
    <3>1. handler'[u] = handler[u] /\ (u \in sessions' <=> u \in sessions)
      BY <2>1, <2>3, DestroyedUploads
    <3>2. UploadOf(u) /\ Same(u) /\ SameFrames(u)
      BY <1>1, <2>1, <2>2, <2>3, <3>1 DEF UploadInv, Same, SameFrames
    <3> QED
      BY <3>2, Undisturbed
  <2>4. ASSUME s \in Uploads PROVE UploadOf(s)'
    <3>1. UploadOf(s) /\ HandlerAlive(s) /\ handler[s] # "none"
      BY <2>1, <2>4 DEF UploadInv, UploadOf, HandlerAlive
    <3>2. OneMoreIn(queue[s], "timeout", Append(queue[s], "timeout")) /\ ChunksFirst(Append(queue[s], "timeout"))
      BY <2>2, <3>1, AddOne, ChunksFirstAppend DEF UploadOf
    <3>3. queue'[s] = queue[s] \/ queue'[s] = Append(queue[s], "timeout")
      BY <2>1, <2>2
    <3>4. (Has(queue'[s], "end") <=> Has(queue[s], "end")) /\ ChunksFirst(queue'[s])
      BY <3>1, <3>2, <3>3 DEF OneMoreIn, UploadOf
    <3>5. ~Starting(s)'
      BY <1>1, <3>1 DEF UploadOf, Untouched, Starting
    <3>6. /\ ~HandlerAlive(s)' /\ s \notin sessions'
          /\ handler'[s] = handler[s] \/ (HandlerAlive(s) /\ handler'[s] \in {"cancelled", "done"})
      BY <2>1, <2>4, DestroyedUploads
    <3> QED
      BY <1>1, <1>2, <2>4, <3>1, <3>4, <3>5, <3>6, HandlerOver
  <2> QED
    BY <1>1, <2>3, <2>4 DEF UploadInv
<1> QED
  BY <1>3, <1>4

\* The rest concerns no upload, or only that its client is done.
LEMMA OthersKeepUploads ==
  ASSUME SocketShape, UploadInv, NEW s \in Sessions,
         CallReturns(s) \/ HandlerWrites(s) \/ TimeOut(s) \/ ClientReads \/ ClientSeesEnd \/ WireBreaks
  PROVE  UploadInv'
<1>1. UNCHANGED <<inbox, reader, sessions, handler, queue, taken>>
  BY DEF CallReturns, HandlerWrites, TimeOut, ClientReads, ClientSeesEnd, WireBreaks, serverVars
<1>2. \A u \in Uploads : written'[u] = written[u]
  <2>1. CASE HandlerWrites(s)
    <3>1. s \notin Uploads
      BY <2>1, SocketAssumption DEF HandlerWrites
    <3> QED
      BY <2>1, <3>1 DEF HandlerWrites, SocketShape, ClientShape, Sessions
  <2>2. CASE ~HandlerWrites(s)
    BY <2>2 DEF CallReturns, TimeOut, ClientReads, ClientSeesEnd, WireBreaks
  <2> QED
    BY <2>1, <2>2
<1>3. ASSUME NEW u \in Uploads, callStage'[u] = callStage[u] PROVE UploadOf(u)'
  <2>1. UploadOf(u) /\ Same(u) /\ SameFrames(u)
    BY <1>1, <1>2, <1>3 DEF UploadInv, Same, SameFrames
  <2> QED
    BY <2>1, Undisturbed
<1>4. ASSUME NEW u \in Uploads, callStage'[u] # callStage[u] PROVE UploadOf(u)'
  <2>1. callStage[u] = "waits" /\ callStage'[u] = "over"
    <3>1. CASE CallReturns(s)
      BY <1>4, <3>1 DEF CallReturns, SocketShape, ClientShape, Sessions
    <3>2. CASE ~CallReturns(s)
      BY <1>4, <3>2 DEF HandlerWrites, TimeOut, ClientReads, ClientSeesEnd, WireBreaks
    <3> QED
      BY <3>1, <3>2
  <2>2. UploadOf(u) /\ written'[u] = written[u]
    BY <1>2 DEF UploadInv
  <2>3. /\ Starting(u)' <=> Starting(u)
        /\ EndSent(u)' <=> EndSent(u)
        /\ HandlerAlive(u)' <=> HandlerAlive(u)
        /\ Untouched(u)' <=> Untouched(u)
        /\ UnderWay(u)' = UnderWay(u)
    BY <1>1 DEF Starting, EndSent, HandlerAlive, Untouched, UnderWay
  <2> QED
    BY <1>1, <2>1, <2>2, <2>3 DEF UploadOf
<1> QED
  BY <1>1, <1>3, <1>4 DEF UploadInv

\* No upload has been opened at the start.
LEMMA UploadInitHolds == SocketInit => UploadInv
<1> SUFFICES ASSUME SocketInit PROVE UploadInv
  OBVIOUS
<1>1. inbox = <<>> /\ Ordered(inbox) /\ Uploads \subseteq Sessions
  BY NothingInEmpty DEF SocketInit, Sessions
<1>2. ASSUME NEW u \in Uploads PROVE UploadOf(u)
  <2>1. /\ callStage[u] = "new" /\ written[u] = 0 /\ handler[u] = "none" /\ u \notin sessions
        /\ taken[u] = 0 /\ queue[u] = <<>> /\ reader = Reads
    BY <1>1 DEF SocketInit
  <2>2. reader \notin Puts(u)
    BY <2>1 DEF Reads, Puts, Frame
  <2>3. /\ ~Starting(u) /\ ~Mentions(inbox, u) /\ ~Has(queue[u], "end") /\ ChunksFirst(queue[u])
    BY <1>1, <2>1, NothingInEmpty DEF Starting
  <2>4. reader # Frame("end", u)
    BY <2>2 DEF Puts
  <2> QED
    BY <2>1, <2>2, <2>3, <2>4 DEF UploadOf, Untouched, HandlerAlive
<1> QED
  BY <1>1, <1>2 DEF UploadInv

\* A handler that read its upload to END has every chunk that the client sent before it.
THEOREM UploadsAreWhole == SocketSpec => []UploadIsWhole
<1>1. SocketInit => SocketShape /\ UploadInv
  BY SocketInitShape, UploadInitHolds
<1>2. SocketShape /\ UploadInv /\ [SocketNext]_socketVars => (SocketShape /\ UploadInv)'
  <2> SUFFICES ASSUME SocketShape, UploadInv, [SocketNext]_socketVars PROVE UploadInv'
    BY SocketShapeKept
  <2>1. CASE UNCHANGED socketVars
    <3>1. ASSUME NEW u \in Uploads PROVE UploadOf(u)'
      <4>1. UploadOf(u) /\ Same(u) /\ SameFrames(u)
        BY <2>1 DEF socketVars, UploadInv, Same, SameFrames
      <4> QED
        BY <4>1, Undisturbed
    <3> QED
      BY <2>1, <3>1 DEF socketVars, UploadInv
  <2>2. ASSUME NEW s \in Sessions, OpensSession(s) \/ ClientWrites(s) \/ Finishes(s) \/ Aborts(s) PROVE UploadInv'
    BY <2>2, CallsKeepUploads
  <2>3. ASSUME NEW s \in Sessions, CallReturns(s) \/ HandlerWrites(s) \/ TimeOut(s) PROVE UploadInv'
    BY <2>3, OthersKeepUploads
  <2>4. ASSUME NEW s \in Sessions, HandlerTakes(s) PROVE UploadInv'
    BY <2>4, TakesKeepsUploads
  <2>5. ASSUME NEW s \in Sessions, HandlerEnds(s) \/ Reap(s) PROVE UploadInv'
    BY <2>5, HandlerEndKeepsUploads
  <2>6. CASE ClientReads \/ ClientSeesEnd \/ WireBreaks
    <3>1. CASE Sessions = {}
      <4>1. UNCHANGED inbox /\ Uploads = {}
        BY <2>6, <3>1 DEF ClientReads, ClientSeesEnd, WireBreaks, Sessions
      <4> QED
        BY <4>1 DEF UploadInv
    <3>2. CASE Sessions # {}
      BY <2>6, <3>2, OthersKeepUploads
    <3> QED
      BY <3>1, <3>2
  <2>7. CASE ServerOpens \/ ServerReceives \/ ServerPuts \/ ServerDestroys \/ ReaderEnds
    BY <2>7, OpensKeepsUploads, ReceivesKeepsUploads, PutsKeepsUploads, DestroysKeepsUploads, EndKeepsUploads
  <2> QED
    BY <2>1, <2>2, <2>3, <2>4, <2>5, <2>6, <2>7 DEF SocketNext
<1>3. UploadInv => UploadIsWhole
  BY DEF UploadInv, UploadOf, UploadIsWhole
<1> QED
  BY <1>1, <1>2, <1>3, PTL DEF SocketSpec


----------------------------------------------------------------------------
(* The request context                                                     *)

(* Dicts are bound, never changed: what a task is bound to has been made,  *)
(* so that the next dict is nobody's yet, and it is what the task meant.   *)
ContextInv ==
  /\ ContextTypeOK
  /\ meant \in [CtxTasks -> [CtxKeys -> CtxTasks \union {Absence}]]
  /\ \A t \in CtxTasks : bound[t] <= made
  /\ ContextIsOwn

LEMMA ContextInitInv == ContextInit => ContextInv
BY ContextAssumption DEF ContextInit, ContextInv, ContextTypeOK, ContextIsOwn, Seen, EmptyDict, NoDict, Absence

LEMMA RebindsSafe ==
  ASSUME ContextInv, NEW t \in CtxTasks, NEW d \in [CtxKeys -> CtxTasks \union {Absence}],
         Rebinds(t, d), living' = living, meant' = [meant EXCEPT ![t] = d]
  PROVE  ContextInv'
<1>1. made + 1 \in 1 .. MaxDicts /\ made' = made + 1 /\ made \in Nat
  BY ContextAssumption DEF ContextInv, ContextTypeOK, Rebinds
<1>2. dicts' \in [1 .. MaxDicts -> [CtxKeys -> CtxTasks \union {Absence}]]
  BY <1>1 DEF ContextInv, ContextTypeOK, Rebinds
<1>3. bound' \in [CtxTasks -> 0 .. MaxDicts] /\ \A u \in CtxTasks : bound'[u] <= made'
  BY <1>1 DEF ContextInv, ContextTypeOK, Rebinds
<1>4. \A u \in living : Seen(u)' = meant'[u]
  <2> TAKE u \in living
  <2>1. CASE u = t
    BY <2>1, <1>1 DEF ContextInv, ContextTypeOK, Rebinds, Seen, NoDict
  <2>2. CASE u # t
    BY <2>2, <1>1 DEF ContextInv, ContextTypeOK, ContextIsOwn, Rebinds, Seen, NoDict
  <2> QED
    BY <2>1, <2>2
<1>5. made' \in 0 .. MaxDicts
  BY <1>1, ContextAssumption
<1>6. meant' \in [CtxTasks -> [CtxKeys -> CtxTasks \union {Absence}]]
  BY DEF ContextInv
<1> QED
  BY <1>2, <1>3, <1>4, <1>5, <1>6 DEF ContextInv, ContextTypeOK, ContextIsOwn

LEMMA ContextNextInv == ContextInv /\ [ContextNext]_contextVars => ContextInv'
<1> SUFFICES ASSUME ContextInv, [ContextNext]_contextVars PROVE ContextInv'
  OBVIOUS
<1>1. ASSUME NEW t \in CtxTasks, NEW k \in CtxKeys, SetKey(t, k) PROVE ContextInv'
  <2>1. [Seen(t) EXCEPT ![k] = t] = [meant[t] EXCEPT ![k] = t]
    BY <1>1 DEF SetKey, ContextInv, ContextIsOwn
  <2>2. [meant[t] EXCEPT ![k] = t] \in [CtxKeys -> CtxTasks \union {Absence}]
    BY <1>1 DEF ContextInv
  <2>3. meant' = [meant EXCEPT ![t] = [meant[t] EXCEPT ![k] = t]]
    BY <1>1 DEF SetKey, ContextInv
  <2> QED
    BY <1>1, <2>1, <2>2, <2>3, RebindsSafe DEF SetKey
<1>2. ASSUME NEW t \in CtxTasks, NEW k \in CtxKeys, DeleteKey(t, k) PROVE ContextInv'
  <2>1. [Seen(t) EXCEPT ![k] = Absence] = [meant[t] EXCEPT ![k] = Absence]
    BY <1>2 DEF DeleteKey, ContextInv, ContextIsOwn
  <2>2. [meant[t] EXCEPT ![k] = Absence] \in [CtxKeys -> CtxTasks \union {Absence}]
    BY <1>2 DEF ContextInv
  <2>3. meant' = [meant EXCEPT ![t] = [meant[t] EXCEPT ![k] = Absence]]
    BY <1>2 DEF DeleteKey, ContextInv
  <2> QED
    BY <1>2, <2>1, <2>2, <2>3, RebindsSafe DEF DeleteKey
<1>3. ASSUME NEW t \in CtxTasks, NEW u \in CtxTasks, StartsAnother(t, u) PROVE ContextInv'
  BY <1>3 DEF StartsAnother, ContextInv, ContextTypeOK, ContextIsOwn, Seen
<1>4. ASSUME NEW t \in CtxTasks, ClearsContext(t) PROVE ContextInv'
  <2>1. EmptyDict \in [CtxKeys -> CtxTasks \union {Absence}]
    BY DEF EmptyDict
  <2>2. 0 \in 0 .. MaxDicts /\ made >= 0
    BY ContextAssumption DEF ContextInv, ContextTypeOK
  <2> QED
    BY <1>4, <2>1, <2>2 DEF ClearsContext, ContextInv, ContextTypeOK, ContextIsOwn, Seen, NoDict
<1>5. ASSUME UNCHANGED contextVars PROVE ContextInv'
  BY <1>5 DEF contextVars, ContextInv, ContextTypeOK, ContextIsOwn, Seen
<1> QED
  BY <1>1, <1>2, <1>3, <1>4, <1>5 DEF ContextNext

(* A task sees what it set and inherited, for any number of tasks, keys and *)
(* dicts (request_context.py:23-58).                                        *)
THEOREM ContextStaysOwn == ContextSpec => [](ContextTypeOK /\ ContextIsOwn)
<1>1. ContextInv => ContextTypeOK /\ ContextIsOwn
  BY DEF ContextInv
<1> QED
  BY <1>1, ContextInitInv, ContextNextInv, PTL DEF ContextSpec

----------------------------------------------------------------------------
(* WebSocket connection                                                    *)

(* What handle() has said at each place it can be.                         *)
WsInv ==
  /\ farewells \in [calls : Nat, raised : Nat]
  /\ handling = "connecting" => ~accepted /\ farewells.calls = 0
  /\ handling \in {"receiving", "message"} => accepted /\ farewells.calls = 0
  /\ handling = "loop_farewell" => accepted /\ farewells.calls = 1
  /\ handling # "except_farewell" /\ handling # "done" => farewells.raised = 0
  /\ handling = "except_farewell" => accepted /\ farewells.calls = 1 + farewells.raised
  /\ handling \in {"connecting", "receiving", "message", "loop_farewell",
                   "except_farewell", "done"}
  /\ FarewellOnce

LEMMA WsNextInv == ASSUME WsInv, [WsNext]_wsVars PROVE WsInv'
<1>1. CASE UNCHANGED wsVars
  BY <1>1 DEF wsVars, WsInv, FarewellOnce
<1>2. CASE ConnectReturns \/ ReceivesMessage \/ MessageReturns
  BY <1>2 DEF ConnectReturns, ReceivesMessage, MessageReturns, WsInv, FarewellOnce
<1>3. CASE ReceivesDisconnect
  <2>1. /\ handling' = "loop_farewell" /\ UNCHANGED accepted
        /\ farewells' = [farewells EXCEPT !.calls = 1]
    BY <1>3 DEF ReceivesDisconnect, WsInv
  <2>2. farewells'.calls = 1 /\ farewells'.raised = 0 /\ farewells' \in [calls : Nat, raised : Nat]
    BY <1>3, <2>1 DEF ReceivesDisconnect, WsInv
  <2>3. accepted'
    BY <1>3 DEF ReceivesDisconnect, WsInv
  <2> QED
    BY <2>1, <2>2, <2>3 DEF WsInv, FarewellOnce
<1>4. CASE CallbackRaises
  <2>1. CASE accepted
    <3>1. /\ handling' = "except_farewell" /\ UNCHANGED accepted
          /\ \/ farewells' = [farewells EXCEPT !.calls = farewells.calls + 1,
                                               !.raised = farewells.raised + 1]
                /\ handling = "loop_farewell"
             \/ farewells' = [farewells EXCEPT !.calls = farewells.calls + 1]
                /\ handling = "message"
      BY <1>4, <2>1, Zenon DEF CallbackRaises, WsInv
    <3>2. /\ farewells.raised = 0 /\ farewells \in [calls : Nat, raised : Nat]
          /\ handling = "message" => farewells.calls = 0
          /\ handling = "loop_farewell" => farewells.calls = 1
      BY <3>1 DEF WsInv
    <3>3. farewells' \in [calls : Nat, raised : Nat] /\ farewells'.calls = 1 + farewells'.raised
      <4>1. CASE handling = "message"
        BY <3>1, <3>2, <4>1
      <4>2. CASE handling = "loop_farewell"
        <5>1. farewells.calls + 1 = 2 /\ farewells.raised + 1 = 1 /\ handling # "message"
          BY <3>2, <4>2
        <5>2. farewells' = [farewells EXCEPT !.calls = 2, !.raised = 1]
          BY <3>1, <5>1
        <5>3. farewells' \in [calls : Nat, raised : Nat]
          BY <3>2, <5>2
        <5>4. farewells'.calls = 1 + farewells'.raised
          BY <3>2, <5>2
        <5> QED
          BY <5>3, <5>4
      <4> QED
        BY <3>1, <4>1, <4>2
    <3> QED
      BY <2>1, <3>1, <3>3 DEF WsInv, FarewellOnce
  <2>2. CASE ~accepted
    BY <1>4, <2>2 DEF CallbackRaises, HandleEnds, WsInv, FarewellOnce
  <2> QED
    BY <2>1, <2>2
<1>5. CASE FarewellEnds
  BY <1>5 DEF FarewellEnds, HandleEnds, WsInv, FarewellOnce
<1>6. CASE HandleCancelled
  <2>1. accepted' = accepted /\ farewells' = farewells /\ cancelled' = TRUE /\ handling' = "done"
        /\ expiry' # "waiting"
    BY <1>6 DEF HandleCancelled, HandleEnds
  <2>2. handling # "done"
    BY <1>6 DEF HandleCancelled
  <2>3. /\ farewells \in [calls : Nat, raised : Nat] /\ ~accepted => farewells.calls = 0
        /\ farewells.calls <= 1 + farewells.raised
    BY <2>2 DEF WsInv
  <2> QED
    BY <2>1, <2>3 DEF WsInv, FarewellOnce
<1>7. CASE ClientLeaves
  BY <1>7 DEF ClientLeaves, WsInv, FarewellOnce
<1>8. CASE TokenExpires
  BY <1>8 DEF TokenExpires, WsInv, FarewellOnce
<1> QED
  BY <1>1, <1>2, <1>3, <1>4, <1>5, <1>6, <1>7, <1>8 DEF WsNext

(* on_disconnect is called once for every connection that was accepted,    *)
(* whatever raises, expires or is cancelled, and no expiry task is left.   *)
THEOREM WsSaysFarewellOnce == WsSpec => []FarewellOnce
<1>1. WsInit => WsInv
  BY DEF WsInit, WsInv, FarewellOnce
<1>2. WsInv => FarewellOnce
  BY DEF WsInv
<1> QED
  BY <1>1, <1>2, WsNextInv, PTL DEF WsSpec

----------------------------------------------------------------------------
(* Web gate                                                                *)

LEMMA LeastExists ==
  ASSUME NEW T \in SUBSET Nat, T # {}
  PROVE  \E m \in T : \A n \in T : m <= n
<1> DEFINE R == OpToRel(<, Nat)
<1>1. IsWellFoundedOn(R, Nat)
  BY NatLessThanWellFounded
<1>2. \A x, y \in Nat : y < x => <<y, x>> \in R
  BY DEF OpToRel
<1> HIDE DEF R
<1>3. PICK m \in T : \A y \in T : ~(<<y, m>> \in R)
  BY <1>1, WFMin
<1>4. ASSUME NEW n \in T PROVE m <= n
  <2>1. ~(n < m)
    BY <1>2, <1>3
  <2> QED
    BY <2>1
<1> QED
  BY <1>4

GateTypes ==
  /\ jwtSetup \in JwtSetups /\ tokenTime \in Nat
  /\ issuer \in [current : Nat, published : SUBSET (Nat \ {0})]
  /\ IsFiniteSet(issuer.published) /\ keyring \in Seq(Nat \ {0})
  /\ issued \subseteq Nat \X Nat

(* The keys that can have signed a token still valid are published and in  *)
(* the provider's ring: before their first token, after their last.        *)
KeysCover ==
  /\ issuer.current \in issuer.published \intersect ToSet(keyring)
  /\ \A k \in ToSet(keyring) : k >= issuer.current => k \in issuer.published
  /\ \A t \in issued : t[1] <= issuer.current
  /\ \A t \in issued : t[2] > tokenTime - Leeway =>
       t[1] \in issuer.published \intersect ToSet(keyring)

(* The visit is what the gate makes of it, in the present state.           *)
VisitIsCurrent ==
  /\ app = "serving" => SetupAllowed
  /\ visit.at # "none" =>
       /\ app = "serving" /\ Exists(visit.token)
       /\ visit.at = Admission(visit.path, visit.ws, visit.token)

GateInv == GateTypes /\ KeysCover /\ VisitIsCurrent

LEMMA RingOfOne == ToSet(<<1>>) = {1} /\ <<1>> \in Seq(Nat \ {0})
BY DEF ToSet

LEMMA GateInitInv == GateInit => GateInv
<1> SUFFICES ASSUME GateInit PROVE GateInv
  OBVIOUS
<1>1. /\ jwtSetup \in JwtSetups /\ app = "new" /\ keyring = <<1>> /\ issued = {} /\ tokenTime = 0
      /\ issuer = [current |-> 1, published |-> {1}] /\ visit.at = "none"
  BY DEF GateInit, NoVisit
<1>2. GateTypes
  <2>1. issuer \in [current : Nat, published : SUBSET (Nat \ {0})] /\ issuer.published = {1}
    BY <1>1
  <2>2. IsFiniteSet({1})
    BY FS_Singleton
  <2> QED
    BY <1>1, <2>1, <2>2, RingOfOne DEF GateTypes
<1>3. KeysCover
  BY <1>1, RingOfOne DEF KeysCover
<1> QED
  BY <1>1, <1>2, <1>3 DEF GateInv, VisitIsCurrent

(* The steps of the issuer, the provider and time, between two requests.   *)
LEMMA BetweenKeeps ==
  ASSUME GateInv, Between, UNCHANGED <<jwtSetup, app, visit>>, GateTypes', KeysCover'
  PROVE  GateInv'
BY DEF GateInv, VisitIsCurrent, Between, SetupAllowed

LEMMA IssuerKeeps ==
  ASSUME GateInv, \/ IssueToken \/ RefreshKeys \/ UseNextKey \/ TimePasses
                  \/ \E k \in IssuerKeys : PublishKey(k) \/ WithdrawKey(k)
  PROVE  GateInv'
<1>1. /\ jwtSetup \in JwtSetups /\ tokenTime \in Nat /\ TokenLife \in Nat /\ Leeway \in Nat
      /\ issuer \in [current : Nat, published : SUBSET (Nat \ {0})]
      /\ keyring \in Seq(Nat \ {0}) /\ issued \subseteq Nat \X Nat
      /\ IssuerKeys \subseteq Nat \ {0}
  BY GateAssumption DEF Stranger, GateInv, GateTypes
<1>2. Between /\ UNCHANGED <<jwtSetup, app, visit>>
  BY DEF IssueToken, RefreshKeys, UseNextKey, TimePasses, PublishKey, WithdrawKey
<1>3. CASE IssueToken
  <2>1. /\ issued' = issued \union {<<issuer.current, tokenTime + TokenLife>>}
        /\ UNCHANGED <<issuer, keyring, tokenTime>>
    BY <1>3 DEF IssueToken
  <2>2. GateTypes'
    BY <1>1, <1>2, <2>1 DEF GateInv, GateTypes
  <2>3. KeysCover'
    BY <1>1, <2>1 DEF GateInv, KeysCover
  <2> QED
    BY <1>2, <2>2, <2>3, BetweenKeeps
<1>4. CASE RefreshKeys
  <2>1. /\ keyring' \in [1 .. Cardinality(issuer.published) -> issuer.published]
        /\ ToSet(keyring') = issuer.published /\ UNCHANGED <<issuer, issued, tokenTime>>
    BY <1>4 DEF RefreshKeys
  <2>2. keyring' \in Seq(Nat \ {0})
    <3>1. Cardinality(issuer.published) \in Nat
      BY FS_CardinalityType DEF GateInv, GateTypes
    <3> QED
      BY <1>1, <2>1, <3>1, SeqDef
  <2>3. GateTypes'
    BY <1>1, <1>2, <2>1, <2>2 DEF GateInv, GateTypes
  <2>4. KeysCover'
    BY <1>1, <2>1 DEF GateInv, KeysCover
  <2> QED
    BY <1>2, <2>3, <2>4, BetweenKeeps
<1>5. CASE UseNextKey
  <2>1. /\ issuer.current + 1 \in ToSet(keyring) /\ UNCHANGED <<keyring, issued, tokenTime>>
        /\ issuer' = [issuer EXCEPT !.current = issuer.current + 1]
    BY <1>5 DEF UseNextKey
  <2>2. issuer' \in [current : Nat, published : SUBSET (Nat \ {0})]
    <3>1. issuer.current + 1 \in Nat
      BY <1>1
    <3> QED
      BY <1>1, <2>1, <3>1
  <2>3. issuer'.current = issuer.current + 1 /\ issuer'.published = issuer.published
    BY <1>1, <2>1
  <2>4. GateTypes'
    BY <1>1, <1>2, <2>1, <2>2, <2>3, FS_AddElement, FS_RemoveElement DEF GateInv, GateTypes
  <2>5. \A k \in ToSet(keyring) : k \in Nat
    BY <1>1 DEF ToSet
  <2>6. KeysCover'
    BY <1>1, <2>1, <2>3, <2>5 DEF GateInv, KeysCover
  <2> QED
    BY <1>2, <2>4, <2>6, BetweenKeeps
<1>6. CASE TimePasses
  <2>1. tokenTime' = tokenTime + 1 /\ UNCHANGED <<issuer, keyring, issued>>
    BY <1>6 DEF TimePasses
  <2>2. GateTypes'
    BY <1>1, <1>2, <2>1 DEF GateInv, GateTypes
  <2>3. KeysCover'
    BY <1>1, <2>1 DEF GateInv, KeysCover
  <2> QED
    BY <1>2, <2>2, <2>3, BetweenKeeps
<1>7. ASSUME NEW k \in IssuerKeys, PublishKey(k) PROVE GateInv'
  <2>1. /\ issuer' = [issuer EXCEPT !.published = issuer.published \union {k}]
        /\ UNCHANGED <<keyring, issued, tokenTime>>
    BY <1>7 DEF PublishKey
  <2>2. issuer' \in [current : Nat, published : SUBSET (Nat \ {0})]
    BY <1>1, <2>1
  <2>3. issuer'.current = issuer.current /\ issuer'.published = issuer.published \union {k}
    BY <1>1, <2>1
  <2>4. GateTypes'
    BY <1>1, <1>2, <2>1, <2>2, <2>3, FS_AddElement, FS_RemoveElement DEF GateInv, GateTypes
  <2>5. KeysCover'
    BY <2>1, <2>3 DEF GateInv, KeysCover
  <2> QED
    BY <1>2, <2>4, <2>5, BetweenKeeps
<1>8. ASSUME NEW k \in IssuerKeys, WithdrawKey(k) PROVE GateInv'
  <2>1. /\ k < issuer.current /\ UNCHANGED <<keyring, issued, tokenTime>>
        /\ \A t \in issued : t[1] = k => t[2] + Leeway <= tokenTime
        /\ issuer' = [issuer EXCEPT !.published = issuer.published \ {k}]
    BY <1>8 DEF WithdrawKey
  <2>2. issuer' \in [current : Nat, published : SUBSET (Nat \ {0})]
    BY <1>1, <2>1
  <2>3. issuer'.current = issuer.current /\ issuer'.published = issuer.published \ {k}
    BY <1>1, <2>1
  <2>4. GateTypes'
    BY <1>1, <1>2, <2>1, <2>2, <2>3, FS_AddElement, FS_RemoveElement DEF GateInv, GateTypes
  <2>5. \A t \in issued : t[1] = k => ~(t[2] > tokenTime - Leeway)
    BY <1>1, <2>1
  <2>6. KeysCover'
    BY <1>1, <2>1, <2>3, <2>5 DEF GateInv, KeysCover
  <2> QED
    BY <1>2, <2>4, <2>6, BetweenKeeps
<1> QED
  BY <1>3, <1>4, <1>5, <1>6, <1>7, <1>8

(* What a verification says, of the state it reads.                        *)
VerdictOn(t, keys, dead, oldest) ==
  LET Try(k) == IF k \in dead THEN "crash"
                ELSE IF t.key # k THEN "refused"
                ELSE IF t.exp <= oldest THEN "expired"
                ELSE IF ~t.aud THEN "refused" ELSE "ok"
      Ends(i) == Try(keys[i]) \in {"ok", "crash"}
  IN IF \E i \in DOMAIN keys : Ends(i)
     THEN Try(keys[CHOOSE i \in DOMAIN keys : Ends(i) /\ \A j \in 1 .. i - 1 : ~Ends(j)])
     ELSE IF \E i \in DOMAIN keys : Try(keys[i]) = "expired" THEN "expired" ELSE "refused"

LEMMA AdmissionStands ==
  ASSUME UNCHANGED <<jwtSetup, keyring, tokenTime>>, NEW path, NEW ws, NEW t,
         visit'.path = path, visit'.ws = ws, visit'.token = t
  PROVE  Admission(visit.path, visit.ws, visit.token)' = Admission(path, ws, t)
<1>1. CandidateKeys(visit.token)' = CandidateKeys(t)
  BY DEF CandidateKeys
<1>3. VerifyToken(visit.token)' = VerifyToken(t)
  <2>1. VerifyToken(t) = VerdictOn(t, CandidateKeys(t), jwtSetup.dead, tokenTime - Leeway)
    BY DEF VerifyToken, TryKey, VerdictOn
  <2>2. VerifyToken(visit.token)'
          = VerdictOn(visit'.token, CandidateKeys(visit.token)', jwtSetup'.dead, tokenTime' - Leeway)
    BY DEF VerifyToken, TryKey, VerdictOn
  <2> QED
    BY <1>1, <2>1, <2>2
<1>4. PathIsPublic(visit.path, visit.ws)' = PathIsPublic(path, ws)
  BY DEF PathIsPublic, PublicPatterns
<1> QED
  BY <1>3, <1>4 DEF Admission

LEMMA GateNextInv == ASSUME GateInv, [GateNext]_gateVars PROVE GateInv'
<1>1. CASE UNCHANGED gateVars
  <2>1. Admission(visit.path, visit.ws, visit.token)' = Admission(visit.path, visit.ws, visit.token)
    BY <1>1, AdmissionStands DEF gateVars
  <2> QED
    BY <1>1, <2>1 DEF gateVars, GateInv, GateTypes, KeysCover, VisitIsCurrent, SetupAllowed, Exists
<1>2. CASE BuildApp
  BY <1>2 DEF BuildApp, GateInv, GateTypes, KeysCover, VisitIsCurrent, SetupAllowed
<1>3. ASSUME NEW path, NEW ws, NEW t, Arrives(path, ws, t) PROVE GateInv'
  <2>1. /\ app = "serving" /\ Exists(t) /\ UNCHANGED <<jwtSetup, app, issuer, keyring, issued, tokenTime>>
        /\ visit' = [at |-> Admission(path, ws, t), path |-> path, ws |-> ws, token |-> t]
    BY <1>3 DEF Arrives, Between
  <2>2. /\ visit'.at = Admission(path, ws, t) /\ visit'.path = path /\ visit'.ws = ws
        /\ visit'.token = t
    BY <2>1
  <2>3. Admission(visit.path, visit.ws, visit.token)' = Admission(path, ws, t)
    BY <2>1, <2>2, AdmissionStands
  <2> QED
    BY <2>1, <2>2, <2>3 DEF GateInv, GateTypes, KeysCover, VisitIsCurrent, SetupAllowed, Exists
<1>4. CASE RequestEnds
  BY <1>4 DEF RequestEnds, NoVisit, GateInv, GateTypes, KeysCover, VisitIsCurrent, SetupAllowed
<1> QED
  BY <1>1, <1>2, <1>3, <1>4, IssuerKeeps DEF GateNext, RequestArrives, HandshakeArrives

(* A ring with the key of a valid token lets it pass, unless a key without *)
(* material comes first.                                                   *)
LEMMA VerifyFinds ==
  ASSUME NEW t, t.aud, ~(t.exp <= tokenTime - Leeway),
         CandidateKeys(t) \in Seq(Nat), t.key \in ToSet(CandidateKeys(t))
  PROVE  VerifyToken(t) \in {"ok", "crash"}
<1> DEFINE keys == CandidateKeys(t)
           Ends(i) == TryKey(t, keys[i]) \in {"ok", "crash"}
           E == {i \in DOMAIN keys : Ends(i)}
<1>1. PICK i \in DOMAIN keys : keys[i] = t.key
  BY DEF ToSet
<1>2. Ends(i)
  <2>1. t.key = keys[i] /\ ~(t.exp <= tokenTime - Leeway) /\ t.aud
    BY <1>1
  <2> QED
    BY <2>1 DEF TryKey
<1>3. E # {} /\ E \subseteq Nat /\ DOMAIN keys = 1 .. Len(keys) /\ Len(keys) \in Nat
  BY <1>1, <1>2
<1>4. \E k \in E : \A j \in E : k <= j
  <2> HIDE DEF E
  <2> QED
    BY <1>3, LeastExists
<1>5. \E k \in DOMAIN keys : Ends(k) /\ \A j \in 1 .. k - 1 : ~Ends(j)
  <2>1. PICK k \in E : \A j \in E : k <= j
    BY <1>4
  <2>2. \A j \in 1 .. k - 1 : j \in DOMAIN keys /\ ~(k <= j)
    BY <1>3, <2>1
  <2>3. \A j \in 1 .. k - 1 : ~Ends(j)
    BY <2>1, <2>2
  <2> QED
    BY <2>1, <2>3
<1>6. Ends(CHOOSE k \in DOMAIN keys : Ends(k) /\ \A j \in 1 .. k - 1 : ~Ends(j))
  <2> HIDE DEF Ends, keys
  <2> QED
    BY <1>5
<1> QED
  BY <1>1, <1>2, <1>6 DEF VerifyToken

(* What a verification that does not end with such a key says.             *)
LEMMA VerifySays ==
  ASSUME NEW t, CandidateKeys(t) \in Seq(Nat)
  PROVE  /\ VerifyToken(t) = "ok" => t.aud /\ ~(t.exp <= tokenTime - Leeway)
                                     /\ t.key \in ToSet(CandidateKeys(t))
         /\ VerifyToken(t) = "expired" => t.exp <= tokenTime - Leeway
                                          /\ t.key \in ToSet(CandidateKeys(t))
         /\ VerifyToken(t) = "refused" /\ t.exp <= tokenTime - Leeway
              => t.key \notin ToSet(CandidateKeys(t))
         /\ VerifyToken(t) \in {"ok", "crash", "expired", "refused"}
<1> DEFINE keys == CandidateKeys(t)
           Ends(i) == TryKey(t, keys[i]) \in {"ok", "crash"}
           E == {i \in DOMAIN keys : Ends(i)}
           first == CHOOSE k \in DOMAIN keys : Ends(k) /\ \A j \in 1 .. k - 1 : ~Ends(j)
<1>1. DOMAIN keys = 1 .. Len(keys) /\ Len(keys) \in Nat
  OBVIOUS
<1>2. \A i \in DOMAIN keys :
        /\ TryKey(t, keys[i]) = "ok" => t.key = keys[i] /\ t.aud /\ ~(t.exp <= tokenTime - Leeway)
        /\ TryKey(t, keys[i]) = "expired" => t.key = keys[i] /\ t.exp <= tokenTime - Leeway
        /\ t.key = keys[i] /\ t.exp <= tokenTime - Leeway => TryKey(t, keys[i]) \in {"crash", "expired"}
  BY DEF TryKey
<1>3. CASE \E i \in DOMAIN keys : Ends(i)
  <2>1. E # {} /\ E \subseteq Nat
    BY <1>1, <1>3
  <2>2. \E k \in E : \A j \in E : k <= j
    <3> HIDE DEF E
    <3> QED
      BY <2>1, LeastExists
  <2>3. \E k \in DOMAIN keys : Ends(k) /\ \A j \in 1 .. k - 1 : ~Ends(j)
    <3>1. PICK k \in E : \A j \in E : k <= j
      BY <2>2
    <3>2. \A j \in 1 .. k - 1 : j \in DOMAIN keys /\ j < k
      BY <1>1, <3>1
    <3> QED
      BY <1>1, <3>1, <3>2
  <2>4. first \in DOMAIN keys /\ Ends(first)
    <3> HIDE DEF Ends, keys
    <3> QED
      BY <2>3
  <2>5. VerifyToken(t) = TryKey(t, keys[first])
    BY <1>3 DEF VerifyToken
  <2> HIDE DEF first
  <2> QED
    BY <1>2, <2>4, <2>5 DEF ToSet
<1>4. CASE ~\E i \in DOMAIN keys : Ends(i)
  <2>1. VerifyToken(t) = IF \E i \in DOMAIN keys : TryKey(t, keys[i]) = "expired"
                         THEN "expired" ELSE "refused"
    BY <1>4 DEF VerifyToken
  <2>2. VerifyToken(t) = "refused" => ~\E i \in DOMAIN keys : TryKey(t, keys[i]) = "expired"
    BY <2>1
  <2> HIDE DEF keys
  <2>3. \A i \in DOMAIN keys : TryKey(t, keys[i]) # "crash"
    BY <1>4
  <2> QED
    BY <1>2, <2>1, <2>2, <2>3 DEF ToSet, keys
<1> QED
  BY <1>3, <1>4

LEMMA CandidatesAre ==
  ASSUME GateInv, NEW t, t.key \in Nat
  PROVE  /\ CandidateKeys(t) \in Seq(Nat) /\ 0 \notin ToSet(CandidateKeys(t))
         /\ jwtSetup.source = "static" => ToSet(CandidateKeys(t)) = {1}
         /\ jwtSetup.source # "static" /\ t.key \in ToSet(keyring)
              => t.key \in ToSet(CandidateKeys(t))
<1>1. keyring \in Seq(Nat) /\ 0 \notin ToSet(keyring)
  <2>1. keyring \in Seq(Nat \ {0})
    BY DEF GateInv, GateTypes
  <2> QED
    BY <2>1 DEF ToSet
<1>2. <<t.key>> \in Seq(Nat) /\ ToSet(<<t.key>>) = {t.key}
  BY DEF ToSet
<1>3. <<>> \in Seq(Nat) /\ ToSet(<<>>) = {} /\ <<1>> \in Seq(Nat)
  BY DEF ToSet
<1>4. CASE jwtSetup.source = "static"
  BY <1>3, <1>4, RingOfOne DEF CandidateKeys
<1>5. CASE jwtSetup.source # "static" /\ ~t.kid
  BY <1>1, <1>5 DEF CandidateKeys
<1>6. CASE jwtSetup.source # "static" /\ t.kid /\ t.key \in ToSet(keyring)
  <2>1. CandidateKeys(t) = <<t.key>> /\ t.key # 0
    BY <1>1, <1>6 DEF CandidateKeys
  <2> QED
    BY <1>2, <1>6, <2>1
<1>7. CASE jwtSetup.source # "static" /\ t.kid /\ t.key \notin ToSet(keyring)
  <2>1. CandidateKeys(t) = <<>>
    BY <1>7 DEF CandidateKeys
  <2> QED
    BY <1>3, <1>7, <2>1
<1> QED
  BY <1>4, <1>5, <1>6, <1>7

LEMMA GateInvSound == ASSUME GateInv PROVE GateIsSound
<1> DEFINE t == visit.token
<1>0. Stranger \in Nat /\ Stranger # 1 /\ tokenTime \in Nat /\ Leeway \in Nat
  BY GateAssumption DEF Stranger, GateInv, GateTypes
<1>1. visit.at # "none" =>
        /\ app = "serving" /\ SetupAllowed /\ Exists(t)
        /\ visit.at = Admission(visit.path, visit.ws, t)
  BY DEF GateInv, VisitIsCurrent
<1>2. visit.at \notin {"none", "anonymous"} /\ t # NoToken =>
        /\ jwtSetup.source \in {"static", "provider"}
        /\ visit.at = IF VerifyToken(t) = "ok" /\ ~t.sub THEN "refused" ELSE VerifyToken(t)
  BY <1>1 DEF Admission, SetupAllowed
<1>3. visit.at \notin {"none", "anonymous"} /\ t = NoToken => visit.at = "refused"
  BY <1>1 DEF Admission
<1>4. NoToken.key = Stranger
  BY DEF NoToken
<1>5. visit.at # "none" /\ t.key # Stranger => <<t.key, t.exp>> \in issued /\ t.key \in Nat /\ t.exp \in Nat
  BY <1>1, <1>4 DEF Exists, GateInv, GateTypes
<1>6. visit.at # "none" => t.key \in Nat
  BY <1>0, <1>1, <1>5
<1>7. ValidTokensPass
  <2> SUFFICES ASSUME visit.at \notin {"none", "anonymous", "crash"}, t.key # Stranger, t.aud, t.sub,
                      t.exp > tokenTime - Leeway, jwtSetup.source = "provider" \/ t.key = 1
               PROVE  visit.at = "ok"
    BY DEF ValidTokensPass
  <2>1. t.key \in ToSet(keyring)
    BY <1>5 DEF GateInv, KeysCover
  <2>2. t.key \in ToSet(CandidateKeys(t)) /\ CandidateKeys(t) \in Seq(Nat)
    BY <1>2, <1>4, <1>6, <2>1, CandidatesAre
  <2>3. ~(t.exp <= tokenTime - Leeway)
    BY <1>0, <1>5
  <2>4. VerifyToken(t) \in {"ok", "crash"}
    BY <2>2, <2>3, VerifyFinds
  <2> QED
    BY <1>2, <1>4, <2>4
<1>8. OnlyValidTokensPass
  <2>1. visit.at # "none" => CandidateKeys(t) \in Seq(Nat)
    BY <1>6, CandidatesAre
  <2>2. visit.at = "ok" => t.key # Stranger /\ t.aud /\ t.sub /\ t.exp > tokenTime - Leeway
    <3> SUFFICES ASSUME visit.at = "ok"
                 PROVE  t.key # Stranger /\ t.aud /\ t.sub /\ t.exp > tokenTime - Leeway
      OBVIOUS
    <3>1. VerifyToken(t) = "ok" /\ t.sub
      BY <1>2, <1>3
    <3>2. t.aud /\ ~(t.exp <= tokenTime - Leeway) /\ t.key \in ToSet(CandidateKeys(t))
      BY <2>1, <3>1, VerifySays
    <3>3. t.key # Stranger
      BY <1>6, <3>2, CandidatesAre DEF Stranger
    <3>4. t.exp \in Nat
      BY <1>5, <3>3
    <3>5. t.exp > tokenTime - Leeway
      BY <1>0, <3>2, <3>4
    <3> QED
      BY <3>1, <3>2, <3>3, <3>5
  <2>3. visit.at = "refused" /\ t # NoToken /\ t.exp <= tokenTime - Leeway
          => t.key \notin ToSet(CandidateKeys(t))
    BY <1>2, <2>1, VerifySays
  <2>4. visit.at = "expired" => t.exp <= tokenTime - Leeway /\ t.key \in ToSet(CandidateKeys(t))
    BY <1>2, <1>3, <2>1, VerifySays
  <2> QED
    BY <2>2, <2>3, <2>4 DEF OnlyValidTokensPass
<1>9. ProbesAreOpen
  <2> SUFFICES ASSUME visit.at # "none", jwtSetup.health, visit.path = HealthPath, ~visit.ws
               PROVE  visit.at = "anonymous"
    BY DEF ProbesAreOpen
  <2>1. Pattern(HealthPath, "none") \in PublicPatterns(visit.ws)
    BY DEF PublicPatterns
  <2>2. Pattern(HealthPath, "none").star = "none" /\ Pattern(HealthPath, "none").segments = HealthPath
    BY DEF Pattern
  <2>3. PathIsPublic(visit.path, visit.ws)
    BY <2>1, <2>2 DEF PathIsPublic
  <2> QED
    BY <1>1, <2>3 DEF Admission
<1> QED
  BY <1>7, <1>8, <1>9 DEF GateIsSound

(* While keys are published before their first token and withdrawn after   *)
(* their last, a valid token passes and only a valid one does, and probes  *)
(* need none: for any number of keys, lifetime, leeway and configuration.  *)
THEOREM GateStaysSound == GateSpec => []GateIsSound
<1> QED
  BY GateInvSound, GateInitInv, GateNextInv, PTL DEF GateSpec

----------------------------------------------------------------------------
(* The gRPC server                                                         *)

LivePhases == {"priming", "handling", "consuming", "yielding", "joining"}

(* What an endpoint listens with, and how far its certificates have come:  *)
(* what is presented is never older than the version it is taken for.      *)
EndpointRecord ==
  [setup : EndpointSetups,
   phase : {"new", "refused", "registered", "credentials", "bound", "serving", "stopped"},
   bound : {"none", "plain", "secure"}]

EndpointInv ==
  /\ endpoint \in EndpointRecord
  /\ endpoint.phase = "credentials" => endpoint.setup.tls = "provider"
  /\ errorMap \in ErrorMaps /\ NeverInTheClear

CertsRecord ==
  [version : Nat, read : Nat, last : Nat, presented : Nat, step : {"idle", "fetch", "current"},
   since : Nat, errors : Nat]

CertsInv ==
  /\ certs \in CertsRecord
  /\ certs.last <= certs.version /\ certs.since <= certs.version
  /\ certs.step = "current" => certs.read <= certs.version
  /\ endpoint.phase \in {"new", "registered"} => certs.last = 0
  /\ endpoint.phase \in {"bound", "serving", "stopped"} => certs.last <= certs.presented
  /\ certs.step # "idle" => endpoint.phase \in {"serving", "stopped"}
  /\ CertificateIsFresh

(* The chunks that are written and not sent wait in the queue of a         *)
(* download, and after them the end mark, once the handler has ended.      *)
QueueHolds(r) ==
  /\ r.sent <= r.written
  /\ r.handler = "running" =>
       Len(r.queue) = r.written - r.sent /\ \A i \in 1 .. Len(r.queue) : r.queue[i] = "chunk"
  /\ r.handler = "ended" =>
       /\ Len(r.queue) = (r.written - r.sent) + 1 /\ r.queue[Len(r.queue)] = "done"
       /\ \A i \in 1 .. Len(r.queue) : i < Len(r.queue) => r.queue[i] = "chunk"

(* The status of a call that is over.                                      *)
Answered1(status) ==
  /\ status # NoStatus
  /\ status.details \in ErrorType =>
       \E i \in DOMAIN errorMap :
         /\ errorMap[i] \in Supertypes[status.details] \X {status.code}
         /\ \A j \in 1 .. i - 1 : errorMap[j][1] \notin Supertypes[status.details]
  /\ status.code = "INTERNAL" => status.details \in ErrorType \union {"generic"}

Statuses ==
  [code : {"none", "OK", "CANCELLED", "UNKNOWN", "INTERNAL", "own"}
            \union UNION {{m[i][2] : i \in DOMAIN m} : m \in ErrorMaps},
   details : ErrorType \union {"none", "generic", "library", "own"}]

RpcRecord ==
  [kind : CallKinds \union {"none"}, phase : LivePhases \union {"none", "abandoned", "over"},
   context : BOOLEAN, handler : {"none", "running", "ended", "cancelling", "cancelled"},
   raised : ErrorType \union {"none"}, queue : Seq({"chunk", "done"}), written : Nat, sent : Nat,
   status : Statuses, aborts : Nat]

(* The kinds differ in where they can be; a live call has no status yet.   *)
RpcShape(r) ==
  /\ r \in RpcRecord /\ r.raised \in (ErrorType \ {"AbortError"}) \union {"none"}
  /\ r.kind # "download" => r.sent = r.written /\ r.phase \notin {"consuming", "joining"}
  /\ r.kind = "download" => r.phase \notin {"priming", "handling"}
  /\ r.phase \in LivePhases => r.handler \in {"running", "ended"}
  /\ r.phase \in LivePhases \union {"none"} => r.status = NoStatus /\ r.aborts = 0
  /\ r.phase = "abandoned" => r.status = Status("CANCELLED", "none") /\ r.aborts = 0
  /\ r.phase = "none" => r.handler = "none"

CallInv(r) ==
  /\ RpcShape(r)
  /\ r.kind = "download" /\ r.phase \in {"consuming", "yielding"} => QueueHolds(r)
  /\ r.phase = "joining" => r.sent = r.written /\ r.handler = "ended"
  /\ r.phase = "over" =>
       /\ r.handler # "running" /\ r.aborts <= 1 /\ Answered1(r.status)
       /\ r.status.code # "CANCELLED" => r.sent = r.written

CallsInv == EndpointInv /\ CertsInv /\ CallInv(rpc)

LEMMA CallsInitInv == GrpcServerInit => CallsInv
<1> SUFFICES ASSUME GrpcServerInit PROVE CallsInv
  OBVIOUS
<1>1. EndpointInv
  BY DEF GrpcServerInit, EndpointInv, EndpointRecord, NeverInTheClear
<1>2. CertsInv
  BY DEF GrpcServerInit, CertsInv, CertsRecord, CertificateIsFresh
<1>3. NoRpc \in RpcRecord
  <2>1. <<>> \in Seq({"chunk", "done"}) /\ NoStatus \in Statuses
    BY DEF NoStatus, Statuses
  <2> QED BY <2>1 DEF NoRpc, RpcRecord
<1>4. CallInv(rpc)
  BY <1>3 DEF GrpcServerInit, CallInv, RpcShape, NoRpc, LivePhases
<1> QED
  BY <1>1, <1>2, <1>4 DEF CallsInv

LEMMA EndpointKeeps ==
  ASSUME CallsInv,
         StartChecked \/ BindStatic \/ ProviderMissing \/ ReadFirstVersion
           \/ ReadFirstCertificate \/ Serve \/ StopEndpoint
  PROVE  CallsInv'
<1>1. CallInv(rpc)' /\ errorMap' = errorMap
  BY DEF CallsInv, CallInv, RpcShape, Answered1, StartChecked, BindStatic, ProviderMissing,
         ReadFirstVersion, ReadFirstCertificate, Serve, StopEndpoint
<1>2. EndpointInv'
  <2>1. /\ \A p \in {"new", "refused", "registered", "credentials", "bound", "serving", "stopped"} :
             /\ [endpoint EXCEPT !.phase = p] \in EndpointRecord
             /\ [endpoint EXCEPT !.phase = p].phase = p
             /\ [endpoint EXCEPT !.phase = p].setup = endpoint.setup
             /\ [endpoint EXCEPT !.phase = p].bound = endpoint.bound
        /\ \A b \in {"plain", "secure"} :
             /\ [endpoint EXCEPT !.phase = "bound", !.bound = b] \in EndpointRecord
             /\ [endpoint EXCEPT !.phase = "bound", !.bound = b].setup = endpoint.setup
             /\ [endpoint EXCEPT !.phase = "bound", !.bound = b].bound = b
    BY DEF CallsInv, EndpointInv, EndpointRecord
  <2>2. \/ \E p \in {"refused", "registered", "credentials"} :
             endpoint' = [endpoint EXCEPT !.phase = p] /\ (p = "credentials" => endpoint.setup.tls = "provider")
        \/ endpoint.phase \in {"bound", "serving"} /\ \E p \in {"serving", "stopped"} :
             endpoint' = [endpoint EXCEPT !.phase = p]
        \/ \E b \in {"plain", "secure"} : /\ endpoint' = [endpoint EXCEPT !.phase = "bound", !.bound = b]
                                          /\ b = "plain" <=> endpoint.setup.tls = "off"
    <3>1. CASE StartChecked \/ ProviderMissing \/ ReadFirstVersion
      BY <3>1 DEF StartChecked, ProviderMissing, ReadFirstVersion, Refuse, Setup
    <3>2. CASE BindStatic
      BY <3>2 DEF BindStatic, Setup
    <3>3. CASE ReadFirstCertificate
      <4>1. endpoint.setup.tls = "provider"
        BY <3>3 DEF ReadFirstCertificate, CallsInv, EndpointInv
      <4> QED BY <3>3, <4>1 DEF ReadFirstCertificate, Refuse, Setup
    <3>4. CASE Serve \/ StopEndpoint
      BY <3>4 DEF Serve, StopEndpoint
    <3> QED BY <3>1, <3>2, <3>3, <3>4
  <2>3. /\ endpoint' \in EndpointRecord
        /\ endpoint'.phase = "credentials" => endpoint'.setup.tls = "provider"
        /\ endpoint'.phase \in {"bound", "serving", "stopped"} =>
             (endpoint'.bound = "plain" <=> endpoint'.setup.tls = "off")
    <3>1. ASSUME NEW p \in {"refused", "registered", "credentials"},
                 endpoint' = [endpoint EXCEPT !.phase = p],
                 p = "credentials" => endpoint.setup.tls = "provider"
          PROVE  <2>3!:
      BY <2>1, <3>1
    <3>2. ASSUME endpoint.phase \in {"bound", "serving"}, NEW p \in {"serving", "stopped"},
                 endpoint' = [endpoint EXCEPT !.phase = p]
          PROVE  <2>3!:
      <4>1. endpoint.bound = "plain" <=> endpoint.setup.tls = "off"
        BY <3>2 DEF CallsInv, EndpointInv, NeverInTheClear, Setup
      <4> QED BY <2>1, <3>2, <4>1
    <3>3. ASSUME NEW b \in {"plain", "secure"}, b = "plain" <=> endpoint.setup.tls = "off",
                 endpoint' = [endpoint EXCEPT !.phase = "bound", !.bound = b]
          PROVE  <2>3!:
      <4>1. endpoint'.phase = "bound"
        BY <2>1, <3>3 DEF CallsInv, EndpointInv, EndpointRecord
      <4> QED BY <2>1, <3>3, <4>1
    <3> QED BY <2>2, <3>1, <3>2, <3>3
  <2> QED
    BY <1>1, <2>3 DEF CallsInv, EndpointInv, NeverInTheClear, Setup
<1>3. CertsInv'
  <2> DEFINE C == certs
  <2>1. /\ certs \in CertsRecord /\ certs.last <= certs.version /\ certs.since <= certs.version
        /\ certs.step # "idle" => endpoint.phase \in {"serving", "stopped"}
        /\ CertificateIsFresh
    BY DEF CallsInv, CertsInv
  <2>2. CASE StartChecked \/ BindStatic \/ ProviderMissing \/ Serve \/ StopEndpoint
    <3>1. certs' = certs /\ handshakes' = handshakes
      BY <2>2 DEF StartChecked, BindStatic, ProviderMissing, Serve, StopEndpoint
    <3>2. endpoint'.phase \in {"new", "registered"} => endpoint.phase \in {"new", "registered"}
      BY <2>2 DEF CallsInv, EndpointInv, EndpointRecord, StartChecked, BindStatic, ProviderMissing,
                  Serve, StopEndpoint, Refuse
    <3>3. endpoint'.phase \in {"bound", "serving", "stopped"} =>
            endpoint.phase \in {"registered", "bound", "serving"}
      BY <2>2 DEF CallsInv, EndpointInv, EndpointRecord, StartChecked, BindStatic, ProviderMissing,
                  Serve, StopEndpoint, Refuse
    <3>4. certs.step # "idle" => endpoint'.phase \in {"serving", "stopped"}
      BY <2>1, <2>2 DEF CallsInv, EndpointInv, EndpointRecord, StartChecked, BindStatic,
                  ProviderMissing, Serve, StopEndpoint, Refuse
    <3>5. certs.last = 0 => certs.last <= certs.presented
      BY <2>1 DEF CertsRecord
    <3> QED
      BY <3>1, <3>2, <3>3, <3>4, <3>5 DEF CallsInv, CertsInv, CertificateIsFresh
  <2>3. CASE ReadFirstVersion
    <3>1. /\ certs' = [certs EXCEPT !.read = certs.version, !.last = certs.version]
          /\ endpoint'.phase = "credentials" /\ endpoint.phase = "registered" /\ handshakes' = handshakes
      BY <2>3 DEF ReadFirstVersion, CallsInv, EndpointInv, EndpointRecord
    <3>2. /\ certs' \in CertsRecord /\ certs'.last = certs.version /\ certs'.version = certs.version
          /\ certs'.since = certs.since /\ certs'.step = certs.step
      BY <2>1, <3>1 DEF CertsRecord
    <3>3. certs.version <= certs.version
      <4>1. certs.version \in Nat
        BY <2>1 DEF CertsRecord
      <4> QED BY <4>1
    <3> QED
      BY <2>1, <3>1, <3>2, <3>3 DEF CertsInv, CertificateIsFresh
  <2>4. CASE ReadFirstCertificate
    <3>1. /\ endpoint.phase = "credentials" /\ handshakes' = handshakes
          /\ \/ certs' = certs /\ endpoint'.phase = "refused"
             \/ certs' = [certs EXCEPT !.presented = certs.version] /\ endpoint'.phase = "bound"
      BY <2>4 DEF ReadFirstCertificate, Refuse, CallsInv, EndpointInv, EndpointRecord
    <3>2. CASE certs' = certs
      BY <2>1, <3>1, <3>2 DEF CertsInv, CertificateIsFresh, CertsRecord
    <3>3. CASE certs' = [certs EXCEPT !.presented = certs.version] /\ endpoint'.phase = "bound"
      <4>1. /\ certs' \in CertsRecord /\ certs'.last = certs.last /\ certs'.version = certs.version
            /\ certs'.since = certs.since /\ certs'.step = certs.step /\ certs'.presented = certs.version
        BY <2>1, <3>3 DEF CertsRecord
      <4> QED
        BY <2>1, <3>1, <3>3, <4>1 DEF CertsInv, CertificateIsFresh
    <3> QED
      BY <3>1, <3>2, <3>3
  <2> QED
    BY <2>2, <2>3, <2>4
<1> QED
  BY <1>1, <1>2, <1>3 DEF CallsInv

LEMMA CertificatesKeep ==
  ASSUME CallsInv,
         ProviderRotates \/ HandshakeBegins \/ FetchVersion \/ FetchCurrent \/ FetchFails
  PROVE  CallsInv'
<1>1. rpc' = rpc /\ errorMap' = errorMap /\ endpoint' = endpoint
  BY DEF ProviderRotates, HandshakeBegins, FetchVersion, FetchCurrent, FetchFails
<1>2. CallInv(rpc)' /\ EndpointInv'
  BY <1>1 DEF CallsInv, CallInv, RpcShape, Answered1, EndpointInv, NeverInTheClear, Setup
<1>3. /\ certs \in CertsRecord /\ certs.last <= certs.version /\ certs.since <= certs.version
      /\ certs.step = "current" => certs.read <= certs.version
      /\ certs.step # "idle" => endpoint.phase \in {"serving", "stopped"}
      /\ endpoint.phase \in {"serving", "stopped"} => certs.last <= certs.presented
      /\ CertificateIsFresh
  BY DEF CallsInv, CertsInv
<1>4. CertsInv'
  <2>1. CASE ProviderRotates
    <3>1. certs' = [certs EXCEPT !.version = @ + 1] /\ handshakes' = handshakes
      BY <2>1 DEF ProviderRotates
    <3>2. /\ certs' \in CertsRecord /\ certs'.version = certs.version + 1 /\ certs'.last = certs.last
          /\ certs'.since = certs.since /\ certs'.step = certs.step /\ certs'.read = certs.read
          /\ certs'.presented = certs.presented
      BY <1>3, <3>1 DEF CertsRecord
    <3>3. certs.version \in Nat /\ certs.last \in Nat /\ certs.since \in Nat /\ certs.read \in Nat
      BY <1>3 DEF CertsRecord
    <3>4. certs'.last <= certs'.version /\ certs'.since <= certs'.version
      BY <1>3, <3>2, <3>3
    <3>5. certs.step = "current" => certs'.read <= certs'.version
      BY <1>3, <3>2, <3>3
    <3> QED
      BY <1>1, <3>1, <3>2, <3>4, <3>5 DEF CallsInv, CertsInv, CertificateIsFresh
  <2>2. CASE HandshakeBegins
    <3>1. /\ certs' = [certs EXCEPT !.step = "fetch", !.since = certs.version]
          /\ handshakes' = handshakes /\ endpoint.phase = "serving"
      BY <2>2 DEF HandshakeBegins
    <3>2. /\ certs' \in CertsRecord /\ certs'.version = certs.version /\ certs'.last = certs.last
          /\ certs'.since = certs.version /\ certs'.step = "fetch"
          /\ certs'.presented = certs.presented
      BY <1>3, <3>1 DEF CertsRecord
    <3>3. certs.version <= certs.version
      <4>1. certs.version \in Nat
        BY <1>3 DEF CertsRecord
      <4> QED BY <4>1
    <3> QED
      BY <1>1, <1>3, <3>1, <3>2, <3>3 DEF CertsInv, CertificateIsFresh
  <2>3. ASSUME certs' \in CertsRecord, certs'.version = certs.version, certs'.since = certs.since,
               certs'.step = "idle", certs'.last <= certs.version, certs'.last <= certs'.presented,
               endpoint.phase \in {"serving", "stopped"},
               \/ Handshake(FALSE) /\ certs.since <= certs'.presented
               \/ Handshake(TRUE)
        PROVE  CertsInv'
    <3>1. certs.since \in Nat /\ certs'.presented \in Nat
      BY <1>3, <2>3 DEF CertsRecord
    <3>2. PICK h : handshakes' = handshakes \union {h} /\ (h.presented >= h.since \/ h.failed)
      <4>1. CASE Handshake(FALSE) /\ certs.since <= certs'.presented
        <5> DEFINE h == [since |-> certs.since, presented |-> certs'.presented, failed |-> FALSE]
        <5>1. handshakes' = handshakes \union {h}
          BY <4>1 DEF Handshake
        <5>2. h.presented >= h.since
          BY <3>1, <4>1
        <5> QED BY <5>1, <5>2
      <4>2. CASE Handshake(TRUE)
        <5> DEFINE h == [since |-> certs.since, presented |-> certs'.presented, failed |-> TRUE]
        <5>1. handshakes' = handshakes \union {h} /\ h.failed
          BY <4>2 DEF Handshake
        <5> QED BY <5>1
      <4> QED BY <2>3, <4>1, <4>2
    <3>3. CertificateIsFresh'
      BY <1>3, <3>2 DEF CertificateIsFresh
    <3> QED
      BY <1>1, <1>3, <2>3, <3>3 DEF CertsInv
  <2>4. certs.step \in {"fetch", "current"} => endpoint.phase \in {"serving", "stopped"}
    BY <1>3
  <2>5. /\ certs.version \in Nat /\ certs.last \in Nat /\ certs.since \in Nat
        /\ certs.presented \in Nat /\ certs.read \in Nat
    BY <1>3 DEF CertsRecord
  <2>6. CASE FetchVersion
    <3>1. CASE certs.version = certs.last
      <4>1. certs' = [certs EXCEPT !.step = "idle"] /\ Handshake(FALSE) /\ certs.step = "fetch"
        BY <2>6, <3>1 DEF FetchVersion
      <4>2. /\ certs' \in CertsRecord /\ certs'.version = certs.version /\ certs'.since = certs.since
            /\ certs'.step = "idle" /\ certs'.last = certs.last /\ certs'.presented = certs.presented
        BY <1>3, <4>1 DEF CertsRecord
      <4>3. certs.last <= certs.presented /\ certs.since <= certs.presented
        BY <1>3, <2>4, <2>5, <3>1, <4>1
      <4> QED BY <1>3, <2>3, <2>4, <4>1, <4>2, <4>3
    <3>2. CASE certs.version # certs.last
      <4>1. /\ certs' = [certs EXCEPT !.read = certs.version, !.step = "current"]
            /\ handshakes' = handshakes /\ certs.step = "fetch"
        BY <2>6, <3>2 DEF FetchVersion
      <4>2. /\ certs' \in CertsRecord /\ certs'.version = certs.version /\ certs'.since = certs.since
            /\ certs'.last = certs.last /\ certs'.presented = certs.presented
            /\ certs'.read = certs.version
        BY <1>3, <4>1 DEF CertsRecord
      <4>3. certs.version <= certs.version
        BY <2>5
      <4> QED BY <1>1, <1>3, <2>4, <4>1, <4>2, <4>3 DEF CertsInv, CertificateIsFresh
    <3> QED BY <3>1, <3>2
  <2>7. CASE FetchCurrent
    <3>1. /\ certs' = [certs EXCEPT !.presented = certs.version, !.last = certs.read, !.step = "idle"]
          /\ Handshake(FALSE) /\ certs.step = "current"
      BY <2>7 DEF FetchCurrent
    <3>2. /\ certs' \in CertsRecord /\ certs'.version = certs.version /\ certs'.since = certs.since
          /\ certs'.step = "idle" /\ certs'.last = certs.read /\ certs'.presented = certs.version
      BY <1>3, <3>1 DEF CertsRecord
    <3> QED BY <1>3, <2>3, <2>4, <3>1, <3>2
  <2>8. CASE FetchFails
    <3>1. /\ certs' = [certs EXCEPT !.step = "idle", !.errors = @ + 1]
          /\ Handshake(TRUE) /\ certs.step \in {"fetch", "current"}
      BY <2>8 DEF FetchFails
    <3>2. certs.errors + 1 \in Nat
      BY <1>3 DEF CertsRecord
    <3>3. /\ certs' \in CertsRecord /\ certs'.version = certs.version /\ certs'.since = certs.since
          /\ certs'.step = "idle" /\ certs'.last = certs.last /\ certs'.presented = certs.presented
      BY <1>3, <3>1, <3>2 DEF CertsRecord
    <3> QED BY <1>3, <2>3, <2>4, <3>1, <3>3
  <2> QED BY <2>1, <2>2, <2>6, <2>7, <2>8
<1> QED
  BY <1>2, <1>4 DEF CallsInv

(* The statuses that calls end with.                                       *)
LEMMA ErrorAnswers ==
  ASSUME EndpointInv, NEW e \in ErrorType
  PROVE  Answered1(ErrorStatus(e)) /\ ErrorStatus(e) \in Statuses
<1>1. /\ errorMap \in ErrorMaps /\ Len(errorMap) \in Nat /\ DOMAIN errorMap = 1 .. Len(errorMap)
      /\ \A i \in DOMAIN errorMap : errorMap[i] = <<errorMap[i][1], errorMap[i][2]>>
      /\ e \notin {"none", "generic"} /\ "generic" \notin ErrorType
  <2>1. errorMap \in ErrorMaps /\ errorMap \in Seq({errorMap[i] : i \in DOMAIN errorMap})
    BY GrpcServerAssumption DEF EndpointInv
  <2>2. Len(errorMap) \in Nat /\ DOMAIN errorMap = 1 .. Len(errorMap)
    BY <2>1
  <2> QED BY <2>1, <2>2, GrpcServerAssumption
<1>2. CASE MappedAt(e) = {}
  <2>1. ErrorStatus(e) = [code |-> "INTERNAL", details |-> "generic"]
    BY <1>2 DEF ErrorStatus, IsMapped, Status
  <2> QED
    BY <1>1, <2>1 DEF Answered1, NoStatus, Statuses
<1>3. CASE MappedAt(e) # {}
  <2> DEFINE i == CHOOSE i \in MappedAt(e) : \A j \in MappedAt(e) : i <= j
  <2>1. MappedAt(e) \subseteq DOMAIN errorMap /\ DOMAIN errorMap \subseteq Nat
    BY <1>1 DEF MappedAt
  <2>2. i \in MappedAt(e) /\ \A j \in MappedAt(e) : i <= j
    BY <1>3, <2>1, LeastExists
  <2>3. ErrorStatus(e) = [code |-> errorMap[i][2], details |-> e]
    BY <1>3 DEF ErrorStatus, IsMapped, Status, Mapping
  <2> HIDE DEF i
  <2>4. errorMap[i][1] \in Supertypes[e] /\ i \in DOMAIN errorMap
    BY <1>1, <2>2 DEF MappedAt
  <2>5. errorMap[i] \in Supertypes[e] \X {errorMap[i][2]}
    <3>1. errorMap[i] = <<errorMap[i][1], errorMap[i][2]>>
      BY <1>1, <2>4
    <3>2. <<errorMap[i][1], errorMap[i][2]>> \in Supertypes[e] \X {errorMap[i][2]}
      BY <2>4
    <3> QED BY <3>1, <3>2
  <2>6. ASSUME NEW j \in 1 .. i - 1 PROVE errorMap[j][1] \notin Supertypes[e]
    <3>1. j \in DOMAIN errorMap /\ ~(i <= j)
      BY <1>1, <2>4
    <3> QED
      BY <2>2, <3>1 DEF MappedAt
  <2> QED
    BY <1>1, <2>3, <2>4, <2>5, <2>6 DEF Answered1, NoStatus, Statuses
<1> QED
  BY <1>2, <1>3

(* A live call ends: with a status that answers, or with its client gone.  *)
LEMMA RpcEndKeeps ==
  ASSUME CallsInv, NEW r, RpcShape(r), r.phase \in LivePhases, r.handler # "running",
         r.sent = r.written, NEW status \in Statuses, Answered1(status)
  PROVE  CallInv(EndsWith(r, status)) /\ EndsWith(r, status).aborts = 0
         /\ CallInv([EndsWith(r, status) EXCEPT !.aborts = @ + 1])
<1> DEFINE o == EndsWith(r, status)
           a == [o EXCEPT !.aborts = @ + 1]
<1>1. /\ o \in RpcRecord /\ o.phase = "over" /\ o.status = status /\ o.aborts = 0
      /\ o.handler = r.handler /\ o.sent = r.sent /\ o.written = r.written /\ o.kind = r.kind
      /\ o.raised = r.raised
  BY DEF EndsWith, Over, RpcShape, RpcRecord
<1>2. /\ a \in RpcRecord /\ a.phase = "over" /\ a.status = status /\ a.aborts = 1
      /\ a.handler = r.handler /\ a.sent = r.sent /\ a.written = r.written /\ a.kind = r.kind
      /\ a.raised = r.raised
  <2> HIDE DEF o
  <2> QED BY <1>1 DEF RpcRecord
<1> HIDE DEF o, a
<1>3. CallInv(o) /\ CallInv(a)
  BY <1>1, <1>2 DEF CallInv, RpcShape, LivePhases
<1> QED
  BY <1>1, <1>3 DEF o, a

LEMMA FailureKeeps ==
  ASSUME CallsInv, NEW r, RpcShape(r), r.phase \in LivePhases, r.handler # "running",
         r.sent = r.written, NEW e \in ErrorType \ {"AbortError"}
  PROVE  CallInv(Fails(r, e))
<1>1. CASE e = "RpcError"
  <2>1. Answered1(Status("UNKNOWN", "library")) /\ Status("UNKNOWN", "library") \in Statuses
    BY GrpcServerAssumption DEF Answered1, Status, NoStatus, Statuses
  <2> QED
    BY <1>1, <2>1, RpcEndKeeps DEF Fails
<1>2. CASE e # "RpcError"
  BY <1>2, ErrorAnswers, RpcEndKeeps DEF Fails, CallsInv
<1> QED
  BY <1>1, <1>2

LEMMA AbortKeeps ==
  ASSUME CallsInv, NEW r, RpcShape(r), r.phase \in LivePhases, r.handler # "running",
         r.sent = r.written
  PROVE  CallInv(Fails(MethodAborts(r), "AbortError"))
<1>0. Status("own", "own") \in Statuses /\ r.aborts = 0
  BY DEF Status, Statuses, RpcShape
<1> DEFINE m == MethodAborts(r)
           o == EndsWith(m, m.status)
<1>1. /\ m \in RpcRecord /\ m.status = Status("own", "own") /\ m.aborts = 1
      /\ m.handler = r.handler /\ m.sent = r.sent /\ m.written = r.written /\ m.kind = r.kind
      /\ m.raised = r.raised
  <2>1. m = [r EXCEPT !.status = Status("own", "own"), !.aborts = r.aborts + 1] /\ r \in RpcRecord
    BY DEF MethodAborts, RpcShape
  <2>2. r.aborts + 1 = 1
    BY <1>0
  <2>3. m = [r EXCEPT !.status = Status("own", "own"), !.aborts = 1]
    BY <2>1, <2>2
  <2> DEFINE n == [r EXCEPT !.status = Status("own", "own")]
  <2>4. n \in RpcRecord /\ n.status = Status("own", "own") /\ n.handler = r.handler
        /\ n.sent = r.sent /\ n.written = r.written /\ n.kind = r.kind /\ n.raised = r.raised
    BY <1>0, <2>1 DEF RpcRecord
  <2>5. m = [n EXCEPT !.aborts = 1]
    BY <2>3
  <2> HIDE DEF m, n
  <2> QED BY <2>4, <2>5 DEF RpcRecord
<1> HIDE DEF m
<1>2. /\ o \in RpcRecord /\ o.phase = "over" /\ o.status = Status("own", "own") /\ o.aborts = 1
      /\ o.handler = r.handler /\ o.sent = r.sent /\ o.written = r.written /\ o.kind = r.kind
      /\ o.raised = r.raised
  BY <1>1 DEF EndsWith, Over, RpcRecord
<1>3. Answered1(Status("own", "own"))
  BY GrpcServerAssumption DEF Answered1, Status, NoStatus
<1> HIDE DEF o
<1>4. CallInv(o)
  BY <1>1, <1>2, <1>3 DEF CallInv, RpcShape, LivePhases
<1> QED
  BY <1>4 DEF o, m, Fails

LEMMA AnsweredStays == ASSUME NEW status, UNCHANGED errorMap, Answered1(status) PROVE Answered1(status)'
  BY DEF Answered1

(* A step of the call keeps the endpoint, its certificates and the mapping. *)
LEMMA MoveKeeps ==
  ASSUME CallsInv, NEW r, CallInv(r), Moves(r)
  PROVE  CallsInv'
<1>1. rpc' = r /\ errorMap' = errorMap /\ endpoint' = endpoint /\ certs' = certs /\ handshakes' = handshakes
  BY DEF Moves
<1>2. EndpointInv' /\ CertsInv'
  BY <1>1 DEF CallsInv, EndpointInv, CertsInv, NeverInTheClear, CertificateIsFresh, Setup
<1>3. CallInv(rpc)'
  BY <1>1, AnsweredStays DEF CallInv, RpcShape
<1> QED
  BY <1>2, <1>3 DEF CallsInv

LEMMA RpcBeginsWell ==
  ASSUME CallsInv, NEW k \in CallKinds, RpcBegins(k)
  PROVE  CallsInv'
<1> DEFINE ph == CASE k = "unary" -> "handling" [] k = "upload" -> "priming"
                   [] k = "download" -> "consuming" [] k = "typed" -> "handling"
           r == [NoRpc EXCEPT !.kind = k, !.context = TRUE, !.handler = "running", !.phase = ph]
<1>1. Moves(r)
  BY DEF RpcBegins
<1>2. /\ ph \in {"handling", "priming", "consuming"}
      /\ k = "download" <=> ph = "consuming"
  BY DEF CallKinds
<1> HIDE DEF ph
<1>3. NoRpc \in RpcRecord
  <2>1. <<>> \in Seq({"chunk", "done"}) /\ NoStatus \in Statuses
    BY DEF NoStatus, Statuses
  <2> QED BY <2>1 DEF NoRpc, RpcRecord
<1>4. /\ NoRpc.raised = "none" /\ NoRpc.queue = <<>> /\ NoRpc.written = 0 /\ NoRpc.sent = 0
      /\ NoRpc.status = NoStatus /\ NoRpc.aborts = 0
  BY DEF NoRpc
<1>5. /\ r \in RpcRecord /\ r.kind = k /\ r.phase = ph /\ r.handler = "running" /\ r.raised = "none"
      /\ r.queue = <<>> /\ r.written = 0 /\ r.sent = 0 /\ r.status = NoStatus /\ r.aborts = 0
  BY <1>2, <1>3, <1>4 DEF RpcRecord, LivePhases
<1> HIDE DEF r
<1>6. QueueHolds(r)
  BY <1>5 DEF QueueHolds
<1>7. CallInv(r)
  BY <1>2, <1>5, <1>6 DEF CallInv, RpcShape, LivePhases
<1> QED
  BY <1>1, <1>7, MoveKeeps

(* The handler in the serving task: what it returns, raises and yields.    *)
LEMMA MethodKeeps ==
  ASSUME CallsInv,
         Primed \/ NothingSent \/ MethodReturns \/ TypedItem \/ \E e \in ErrorType : MethodRaises(e)
  PROVE  CallsInv'
<1> DEFINE r == [rpc EXCEPT !.handler = "ended"]
<1>1. CallInv(rpc) /\ RpcShape(rpc) /\ rpc \in RpcRecord
  BY DEF CallsInv, CallInv, RpcShape
<1>2. /\ r \in RpcRecord /\ r.handler = "ended" /\ r.phase = rpc.phase /\ r.sent = rpc.sent
      /\ r.written = rpc.written /\ r.kind = rpc.kind /\ r.status = rpc.status
      /\ r.aborts = rpc.aborts /\ r.raised = rpc.raised
  BY <1>1 DEF RpcRecord
<1>3. rpc.phase \in {"priming", "handling"} =>
        RpcShape(r) /\ r.phase \in LivePhases /\ r.handler # "running" /\ r.sent = r.written
  <2> HIDE DEF r
  <2> QED BY <1>1, <1>2 DEF RpcShape, LivePhases
<1>4. CASE Primed
  <2> DEFINE h == [rpc EXCEPT !.phase = "handling"]
  <2>1. rpc.phase = "priming" /\ Moves(h)
    BY <1>4 DEF Primed
  <2>2. /\ h \in RpcRecord /\ h.handler = rpc.handler /\ h.phase = "handling" /\ h.sent = rpc.sent
        /\ h.written = rpc.written /\ h.kind = rpc.kind /\ h.status = rpc.status
        /\ h.aborts = rpc.aborts /\ h.raised = rpc.raised
    BY <1>1 DEF RpcRecord, LivePhases
  <2> HIDE DEF h
  <2>3. CallInv(h)
    BY <1>1, <2>1, <2>2 DEF CallInv, RpcShape, LivePhases
  <2> QED BY <2>1, <2>3, MoveKeeps
<1>5. CASE NothingSent
  <2>1. rpc.phase = "priming" /\ Moves(Fails(r, "StopAsyncIteration"))
    BY <1>5 DEF NothingSent
  <2> HIDE DEF r
  <2>2. CallInv(Fails(r, "StopAsyncIteration"))
    BY <1>3, <2>1, FailureKeeps, GrpcServerAssumption
  <2> QED BY <2>1, <2>2, MoveKeeps
<1>6. CASE MethodReturns
  <2>1. rpc.phase = "handling" /\ Moves(EndsWith(r, Status("OK", "none")))
    BY <1>6 DEF MethodReturns
  <2>2. Status("OK", "none") \in Statuses /\ Answered1(Status("OK", "none"))
    BY GrpcServerAssumption DEF Status, Statuses, Answered1, NoStatus
  <2> HIDE DEF r
  <2>3. CallInv(EndsWith(r, Status("OK", "none")))
    BY <1>3, <2>1, <2>2, RpcEndKeeps
  <2> QED BY <2>1, <2>3, MoveKeeps
<1>7. CASE TypedItem
  <2> DEFINE h == [rpc EXCEPT !.phase = "yielding", !.written = rpc.written + 1, !.sent = rpc.sent + 1]
  <2>1. rpc.phase = "handling" /\ rpc.kind = "typed" /\ Moves(h)
    BY <1>7 DEF TypedItem
  <2>2. rpc.written + 1 \in Nat /\ rpc.sent + 1 \in Nat /\ (rpc.sent = rpc.written => rpc.sent + 1 = rpc.written + 1)
    BY <1>1 DEF RpcRecord
  <2>3. /\ h \in RpcRecord /\ h.handler = rpc.handler /\ h.phase = "yielding"
        /\ h.sent = rpc.sent + 1 /\ h.written = rpc.written + 1 /\ h.kind = rpc.kind
        /\ h.status = rpc.status /\ h.aborts = rpc.aborts /\ h.raised = rpc.raised
    BY <1>1, <2>2 DEF RpcRecord, LivePhases
  <2> HIDE DEF h
  <2>4. CallInv(h)
    BY <1>1, <2>1, <2>2, <2>3 DEF CallInv, RpcShape, LivePhases
  <2> QED BY <2>1, <2>4, MoveKeeps
<1>8. ASSUME NEW e \in ErrorType, MethodRaises(e) PROVE CallsInv'
  <2>1. rpc.phase = "handling" /\ Moves(Fails(IF e = "AbortError" THEN MethodAborts(r) ELSE r, e))
    BY <1>8 DEF MethodRaises
  <2> HIDE DEF r
  <2>2. CASE e = "AbortError"
    BY <1>3, <2>1, <2>2, AbortKeeps, MoveKeeps
  <2>3. CASE e # "AbortError"
    BY <1>3, <2>1, <2>3, FailureKeeps, MoveKeeps
  <2> QED BY <2>2, <2>3
<1> QED
  BY <1>4, <1>5, <1>6, <1>7, <1>8

(* The task of a download writes, ends, or is cancelled.                   *)
LEMMA RpcTaskKeeps ==
  ASSUME CallsInv,
         TaskWrites \/ TaskReturns \/ TaskCancelled \/ \E e \in ErrorType : TaskRaises(e)
  PROVE  CallsInv'
<1>1. CallInv(rpc) /\ RpcShape(rpc) /\ rpc \in RpcRecord /\ rpc.queue \in Seq({"chunk", "done"})
  BY DEF CallsInv, CallInv, RpcShape, RpcRecord
<1>2. rpc.written \in Nat /\ rpc.sent \in Nat /\ Len(rpc.queue) \in Nat
  BY <1>1 DEF RpcRecord
<1>3. \A q \in {"chunk", "done"} :
        /\ Append(rpc.queue, q) \in Seq({"chunk", "done"})
        /\ Len(Append(rpc.queue, q)) = Len(rpc.queue) + 1
        /\ Append(rpc.queue, q)[Len(rpc.queue) + 1] = q
        /\ \A i \in 1 .. Len(rpc.queue) : Append(rpc.queue, q)[i] = rpc.queue[i]
  BY <1>1
<1>4. CASE TaskWrites
  <2> DEFINE h == [rpc EXCEPT !.written = rpc.written + 1, !.queue = Append(rpc.queue, "chunk")]
  <2>1. rpc.kind = "download" /\ rpc.handler = "running" /\ Moves(h)
    BY <1>4 DEF TaskWrites
  <2>2. /\ h \in RpcRecord /\ h.handler = rpc.handler /\ h.phase = rpc.phase
        /\ h.sent = rpc.sent /\ h.written = rpc.written + 1 /\ h.kind = rpc.kind
        /\ h.status = rpc.status /\ h.aborts = rpc.aborts /\ h.raised = rpc.raised
        /\ h.queue = Append(rpc.queue, "chunk")
    <3>1. rpc.written + 1 \in Nat /\ Append(rpc.queue, "chunk") \in Seq({"chunk", "done"})
      BY <1>2, <1>3
    <3> QED BY <1>1, <3>1 DEF RpcRecord
  <2> HIDE DEF h
  <2>3. QueueHolds(rpc) => QueueHolds(h)
    <3> SUFFICES ASSUME QueueHolds(rpc) PROVE QueueHolds(h)
      OBVIOUS
    <3>1. rpc.sent <= rpc.written /\ Len(rpc.queue) = rpc.written - rpc.sent
          /\ \A i \in 1 .. Len(rpc.queue) : rpc.queue[i] = "chunk"
      BY <2>1 DEF QueueHolds
    <3>2. h.sent <= h.written /\ Len(h.queue) = h.written - h.sent
      BY <1>2, <1>3, <2>2, <3>1
    <3>3. \A i \in 1 .. Len(h.queue) : h.queue[i] = "chunk"
      <4>1. \A i \in 1 .. Len(rpc.queue) + 1 : i \in 1 .. Len(rpc.queue) \/ i = Len(rpc.queue) + 1
        BY <1>2
      <4> QED BY <1>3, <2>2, <3>1, <4>1
    <3> QED BY <2>1, <2>2, <3>2, <3>3 DEF QueueHolds
  <2>4. CallInv(h)
    BY <1>1, <2>1, <2>2, <2>3 DEF CallInv, RpcShape, LivePhases
  <2> QED BY <2>1, <2>4, MoveKeeps
<1>5. ASSUME NEW e \in (ErrorType \ {"AbortError"}) \union {"none"}, NEW h, h \in RpcRecord,
             rpc.kind = "download", rpc.handler = "running", Moves(h), h.handler = "ended",
             h.phase = rpc.phase, h.sent = rpc.sent, h.written = rpc.written, h.kind = rpc.kind,
             h.status = rpc.status, h.aborts = rpc.aborts, h.raised = e,
             h.queue = Append(rpc.queue, "done")
      PROVE  CallsInv'
  <2>1. QueueHolds(rpc) => QueueHolds(h)
    <3> SUFFICES ASSUME QueueHolds(rpc) PROVE QueueHolds(h)
      OBVIOUS
    <3>1. rpc.sent <= rpc.written /\ Len(rpc.queue) = rpc.written - rpc.sent
          /\ \A i \in 1 .. Len(rpc.queue) : rpc.queue[i] = "chunk"
      BY <1>5 DEF QueueHolds
    <3>2. h.sent <= h.written /\ Len(h.queue) = (h.written - h.sent) + 1 /\ h.queue[Len(h.queue)] = "done"
      BY <1>2, <1>3, <1>5, <3>1
    <3>3. \A i \in 1 .. Len(h.queue) : i < Len(h.queue) => h.queue[i] = "chunk"
      <4>1. \A i \in 1 .. Len(rpc.queue) + 1 : i < Len(rpc.queue) + 1 => i \in 1 .. Len(rpc.queue)
        BY <1>2
      <4> QED BY <1>3, <1>5, <3>1, <4>1
    <3> QED BY <1>5, <3>2, <3>3 DEF QueueHolds
  <2>2. CallInv(h)
    BY <1>1, <1>5, <2>1 DEF CallInv, RpcShape, LivePhases
  <2> QED BY <1>5, <2>2, MoveKeeps
<1>6. CASE TaskReturns
  <2> DEFINE h == [rpc EXCEPT !.handler = "ended", !.queue = Append(rpc.queue, "done")]
  <2>1. rpc.kind = "download" /\ rpc.handler = "running" /\ Moves(h)
    BY <1>6 DEF TaskReturns
  <2>2. /\ h \in RpcRecord /\ h.handler = "ended" /\ h.phase = rpc.phase
        /\ h.sent = rpc.sent /\ h.written = rpc.written /\ h.kind = rpc.kind
        /\ h.status = rpc.status /\ h.aborts = rpc.aborts /\ h.raised = rpc.raised
        /\ h.queue = Append(rpc.queue, "done")
    BY <1>1, <1>3 DEF RpcRecord
  <2>3. rpc.raised \in (ErrorType \ {"AbortError"}) \union {"none"}
    BY <1>1 DEF RpcShape
  <2> HIDE DEF h
  <2> QED BY <1>5, <2>1, <2>2, <2>3
<1>7. ASSUME NEW e \in ErrorType, TaskRaises(e) PROVE CallsInv'
  <2> DEFINE h == [rpc EXCEPT !.handler = "ended", !.raised = e, !.queue = Append(rpc.queue, "done")]
  <2>1. rpc.kind = "download" /\ rpc.handler = "running" /\ e # "AbortError" /\ Moves(h)
    BY <1>7 DEF TaskRaises
  <2>2. /\ h \in RpcRecord /\ h.handler = "ended" /\ h.phase = rpc.phase
        /\ h.sent = rpc.sent /\ h.written = rpc.written /\ h.kind = rpc.kind
        /\ h.status = rpc.status /\ h.aborts = rpc.aborts /\ h.raised = e
        /\ h.queue = Append(rpc.queue, "done")
    BY <1>1, <1>3 DEF RpcRecord
  <2> HIDE DEF h
  <2> QED BY <1>5, <2>1, <2>2
<1>8. CASE TaskCancelled
  <2> DEFINE h == [rpc EXCEPT !.handler = "cancelled", !.queue = Append(rpc.queue, "done")]
  <2>1. rpc.handler = "cancelling" /\ Moves(h)
    BY <1>8 DEF TaskCancelled
  <2>2. /\ h \in RpcRecord /\ h.handler = "cancelled" /\ h.phase = rpc.phase
        /\ h.sent = rpc.sent /\ h.written = rpc.written /\ h.kind = rpc.kind
        /\ h.status = rpc.status /\ h.aborts = rpc.aborts /\ h.raised = rpc.raised
    BY <1>1, <1>3 DEF RpcRecord
  <2> HIDE DEF h
  <2>3. CallInv(h)
    BY <1>1, <2>1, <2>2 DEF CallInv, RpcShape, LivePhases
  <2> QED BY <2>1, <2>3, MoveKeeps
<1> QED
  BY <1>4, <1>6, <1>7, <1>8

(* The serving task of a download: what it takes from the queue.           *)
LEMMA StreamKeeps ==
  ASSUME CallsInv, TakeChunk \/ Resumed \/ TakeDone \/ Joined
  PROVE  CallsInv'
<1>1. CallInv(rpc) /\ RpcShape(rpc) /\ rpc \in RpcRecord /\ rpc.queue \in Seq({"chunk", "done"})
  BY DEF CallsInv, CallInv, RpcShape, RpcRecord
<1>2. /\ rpc.written \in Nat /\ rpc.sent \in Nat /\ rpc.sent + 1 \in Nat /\ Len(rpc.queue) \in Nat
  BY <1>1 DEF RpcRecord
<1>3. rpc.queue # <<>> =>
        /\ Tail(rpc.queue) \in Seq({"chunk", "done"}) /\ Head(rpc.queue) = rpc.queue[1]
        /\ Len(Tail(rpc.queue)) = Len(rpc.queue) - 1 /\ Len(rpc.queue) >= 1
        /\ \A i \in 1 .. Len(rpc.queue) - 1 : Tail(rpc.queue)[i] = rpc.queue[i + 1]
  BY <1>1
<1>4. rpc.phase = "consuming" => rpc.kind = "download" /\ QueueHolds(rpc) /\ rpc.handler \in {"running", "ended"}
  BY <1>1 DEF CallInv, RpcShape, LivePhases
<1>5. CASE TakeChunk
  <2> DEFINE h == [rpc EXCEPT !.phase = "yielding", !.queue = Tail(rpc.queue), !.sent = rpc.sent + 1]
  <2>1. rpc.phase = "consuming" /\ rpc.queue # <<>> /\ rpc.queue[1] = "chunk" /\ Moves(h)
    BY <1>3, <1>5 DEF TakeChunk
  <2>2. /\ h \in RpcRecord /\ h.handler = rpc.handler /\ h.phase = "yielding"
        /\ h.sent = rpc.sent + 1 /\ h.written = rpc.written /\ h.kind = rpc.kind
        /\ h.status = rpc.status /\ h.aborts = rpc.aborts /\ h.raised = rpc.raised
        /\ h.queue = Tail(rpc.queue)
    BY <1>1, <1>2, <1>3, <2>1 DEF RpcRecord, LivePhases
  <2> HIDE DEF h
  <2>3. QueueHolds(h)
    <3>1. CASE rpc.handler = "running"
      <4>1. rpc.sent <= rpc.written /\ Len(rpc.queue) = rpc.written - rpc.sent
            /\ \A i \in 1 .. Len(rpc.queue) : rpc.queue[i] = "chunk"
        BY <1>4, <2>1, <3>1 DEF QueueHolds
      <4>2. h.sent <= h.written /\ Len(h.queue) = h.written - h.sent
        BY <1>2, <1>3, <2>1, <2>2, <4>1
      <4>3. \A i \in 1 .. Len(rpc.queue) - 1 : i + 1 \in 1 .. Len(rpc.queue)
        BY <1>2
      <4>4. \A i \in 1 .. Len(h.queue) : h.queue[i] = "chunk"
        BY <1>3, <2>1, <2>2, <4>1, <4>3
      <4> QED BY <2>2, <3>1, <4>2, <4>4 DEF QueueHolds
    <3>2. CASE rpc.handler = "ended"
      <4>1. rpc.sent <= rpc.written /\ Len(rpc.queue) = (rpc.written - rpc.sent) + 1
            /\ rpc.queue[Len(rpc.queue)] = "done"
            /\ \A i \in 1 .. Len(rpc.queue) : i < Len(rpc.queue) => rpc.queue[i] = "chunk"
        BY <1>4, <2>1, <3>2 DEF QueueHolds
      <4>2. Len(rpc.queue) # 1
        BY <2>1, <4>1
      <4>3. h.sent <= h.written /\ Len(h.queue) = (h.written - h.sent) + 1 /\ Len(rpc.queue) > 1
        <5>1. Len(rpc.queue) > 1 /\ Len(h.queue) = Len(rpc.queue) - 1
          <6>1. Len(rpc.queue) >= 1 /\ Len(Tail(rpc.queue)) = Len(rpc.queue) - 1
            BY <1>3, <2>1
          <6>2. Len(rpc.queue) > 1
            <7>1. \A l \in Nat : l >= 1 /\ l # 1 => l > 1
              OBVIOUS
            <7> QED BY <1>2, <4>2, <6>1, <7>1
          <6> QED BY <2>2, <6>1, <6>2
        <5>2. ASSUME NEW w \in Nat, NEW t \in Nat, NEW l \in Nat, l = (w - t) + 1, l > 1
              PROVE  t + 1 <= w /\ l - 1 = (w - (t + 1)) + 1
          BY <5>2
        <5> QED BY <1>2, <2>2, <4>1, <5>1, <5>2
      <4>4. \A i \in 1 .. Len(rpc.queue) - 1 :
              /\ i + 1 \in 1 .. Len(rpc.queue) /\ (i < Len(rpc.queue) - 1 => i + 1 < Len(rpc.queue))
              /\ i = Len(rpc.queue) - 1 => i + 1 = Len(rpc.queue)
        BY <1>2
      <4>5. \A i \in 1 .. Len(h.queue) : i < Len(h.queue) => h.queue[i] = "chunk"
        BY <1>3, <2>1, <2>2, <4>1, <4>4
      <4>6. Len(rpc.queue) - 1 \in 1 .. Len(rpc.queue) - 1 /\ Len(h.queue) = Len(rpc.queue) - 1
        BY <1>2, <1>3, <2>1, <2>2, <4>3
      <4>7. h.queue[Len(h.queue)] = "done"
        BY <1>3, <2>1, <2>2, <4>1, <4>4, <4>6
      <4> QED BY <2>2, <3>2, <4>3, <4>5, <4>7 DEF QueueHolds
    <3> QED BY <1>4, <2>1, <3>1, <3>2
  <2>4. CallInv(h)
    BY <1>1, <1>4, <2>1, <2>2, <2>3 DEF CallInv, RpcShape, LivePhases
  <2> QED BY <2>1, <2>4, MoveKeeps
<1>6. CASE Resumed
  <2> DEFINE ph == IF rpc.kind = "download" THEN "consuming" ELSE "handling"
             h == [rpc EXCEPT !.phase = ph]
  <2>1. rpc.phase = "yielding" /\ Moves(h)
    BY <1>6 DEF Resumed
  <2>2. ph \in {"consuming", "handling"} /\ (rpc.kind = "download" <=> ph = "consuming")
    OBVIOUS
  <2> HIDE DEF ph
  <2>3. /\ h \in RpcRecord /\ h.handler = rpc.handler /\ h.phase = ph
        /\ h.sent = rpc.sent /\ h.written = rpc.written /\ h.kind = rpc.kind
        /\ h.status = rpc.status /\ h.aborts = rpc.aborts /\ h.raised = rpc.raised
        /\ h.queue = rpc.queue
    BY <1>1, <2>2 DEF RpcRecord, LivePhases
  <2> HIDE DEF h
  <2>4. QueueHolds(rpc) => QueueHolds(h)
    BY <2>3 DEF QueueHolds
  <2>5. CallInv(h)
    BY <1>1, <2>1, <2>2, <2>3, <2>4 DEF CallInv, RpcShape, LivePhases
  <2> QED BY <2>1, <2>5, MoveKeeps
<1>7. CASE TakeDone
  <2> DEFINE h == [rpc EXCEPT !.phase = "joining", !.queue = Tail(rpc.queue)]
  <2>1. rpc.phase = "consuming" /\ rpc.queue # <<>> /\ rpc.queue[1] = "done" /\ Moves(h)
    BY <1>3, <1>7 DEF TakeDone
  <2>2. /\ h \in RpcRecord /\ h.handler = rpc.handler /\ h.phase = "joining"
        /\ h.sent = rpc.sent /\ h.written = rpc.written /\ h.kind = rpc.kind
        /\ h.status = rpc.status /\ h.aborts = rpc.aborts /\ h.raised = rpc.raised
    BY <1>1, <1>3, <2>1 DEF RpcRecord, LivePhases
  <2> HIDE DEF h
  <2>3. 1 \in 1 .. Len(rpc.queue)
    BY <1>2, <1>3, <2>1
  <2>4. rpc.handler = "ended"
    BY <1>4, <2>1, <2>3 DEF QueueHolds
  <2>5. Len(rpc.queue) = (rpc.written - rpc.sent) + 1 /\ ~(1 < Len(rpc.queue))
    BY <1>4, <2>1, <2>3, <2>4 DEF QueueHolds
  <2>6. rpc.written = rpc.sent
    BY <1>2, <1>3, <2>1, <2>5
  <2>7. CallInv(h)
    BY <1>1, <1>4, <2>1, <2>2, <2>4, <2>6 DEF CallInv, RpcShape, LivePhases
  <2> QED BY <2>1, <2>7, MoveKeeps
<1>8. CASE Joined
  <2>1. /\ rpc.phase = "joining" /\ rpc.handler = "ended" /\ rpc.sent = rpc.written
        /\ RpcShape(rpc) /\ rpc.phase \in LivePhases /\ rpc.handler # "running"
    BY <1>1, <1>8 DEF Joined, CallInv, LivePhases
  <2>2. CASE rpc.raised = "none"
    <3>1. Status("OK", "none") \in Statuses /\ Answered1(Status("OK", "none"))
      BY GrpcServerAssumption DEF Status, Statuses, Answered1, NoStatus
    <3>2. Moves(EndsWith(rpc, Status("OK", "none")))
      BY <1>8, <2>2 DEF Joined
    <3> QED BY <2>1, <3>1, <3>2, RpcEndKeeps, MoveKeeps
  <2>3. CASE rpc.raised # "none"
    <3>1. rpc.raised \in ErrorType \ {"AbortError"} /\ Moves(Fails(rpc, rpc.raised))
      BY <1>1, <1>8, <2>3 DEF Joined, RpcShape
    <3> QED BY <2>1, <3>1, FailureKeeps, MoveKeeps
  <2> QED BY <2>2, <2>3
<1> QED
  BY <1>5, <1>6, <1>7, <1>8

(* The client leaves; a suspended generator is closed later.               *)
LEMMA ReleaseKeeps ==
  ASSUME CallsInv, NEW r, r \in RpcRecord, r.status = Status("CANCELLED", "none"), r.aborts = 0,
         r.raised \in (ErrorType \ {"AbortError"}) \union {"none"},
         r.kind # "download" => r.sent = r.written
  PROVE  CallInv(Released(r))
<1> DEFINE t == IF r.handler # "running" THEN r.handler
                ELSE IF r.kind = "download" THEN "cancelling" ELSE "ended"
           h == [r EXCEPT !.handler = t]
           o == Over(h)
<1>1. Released(r) = o
  BY DEF Released
<1>2. t # "running" /\ t \in {"none", "running", "ended", "cancelling", "cancelled"}
  BY DEF RpcRecord
<1> HIDE DEF t
<1>3. /\ h \in RpcRecord /\ h.handler = t /\ h.sent = r.sent /\ h.written = r.written
      /\ h.kind = r.kind /\ h.status = r.status /\ h.aborts = r.aborts /\ h.raised = r.raised
  BY <1>2 DEF RpcRecord
<1> HIDE DEF h
<1>4. /\ o \in RpcRecord /\ o.phase = "over" /\ o.handler = t /\ o.sent = r.sent
      /\ o.written = r.written /\ o.kind = r.kind /\ o.status = r.status /\ o.aborts = r.aborts
      /\ o.raised = r.raised
  BY <1>3 DEF RpcRecord, Over
<1> HIDE DEF o
<1>5. Answered1(r.status) /\ r.status.code = "CANCELLED"
  BY GrpcServerAssumption DEF Answered1, Status, NoStatus
<1>6. CallInv(o)
  BY <1>2, <1>4, <1>5 DEF CallInv, RpcShape, LivePhases
<1> QED
  BY <1>1, <1>6

LEMMA LeavingKeeps ==
  ASSUME CallsInv, CallerLeaves \/ GeneratorClosed
  PROVE  CallsInv'
<1>1. CallInv(rpc) /\ RpcShape(rpc) /\ rpc \in RpcRecord
      /\ rpc.raised \in (ErrorType \ {"AbortError"}) \union {"none"}
  BY DEF CallsInv, CallInv, RpcShape
<1>2. CASE CallerLeaves
  <2> DEFINE r == [rpc EXCEPT !.status = Status("CANCELLED", "none")]
             a == [r EXCEPT !.phase = "abandoned"]
  <2>1. rpc.phase \in LivePhases /\ Moves(IF rpc.phase = "yielding" THEN a ELSE Released(r))
    BY <1>2 DEF CallerLeaves, LivePhases
  <2>2. Status("CANCELLED", "none") \in Statuses
    BY DEF Status, Statuses
  <2>3. /\ r \in RpcRecord /\ r.handler = rpc.handler /\ r.phase = rpc.phase
        /\ r.sent = rpc.sent /\ r.written = rpc.written /\ r.kind = rpc.kind
        /\ r.status = Status("CANCELLED", "none") /\ r.aborts = rpc.aborts /\ r.raised = rpc.raised
    BY <1>1, <2>2 DEF RpcRecord
  <2> HIDE DEF r
  <2>4. /\ a \in RpcRecord /\ a.handler = r.handler /\ a.phase = "abandoned"
        /\ a.sent = r.sent /\ a.written = r.written /\ a.kind = r.kind
        /\ a.status = r.status /\ a.aborts = r.aborts /\ a.raised = r.raised
    BY <2>3 DEF RpcRecord
  <2> HIDE DEF a
  <2>5. rpc.aborts = 0 /\ (rpc.kind # "download" => rpc.sent = rpc.written)
    BY <1>1, <2>1 DEF RpcShape
  <2>6. CASE rpc.phase = "yielding"
    <3>1. CallInv(a)
      BY <1>1, <2>3, <2>4, <2>5 DEF CallInv, RpcShape, LivePhases
    <3> QED BY <2>1, <2>6, <3>1, MoveKeeps
  <2>7. CASE rpc.phase # "yielding"
    <3>1. CallInv(Released(r))
      BY <1>1, <2>3, <2>5, ReleaseKeeps
    <3> QED BY <2>1, <2>7, <3>1, MoveKeeps
  <2> QED BY <2>6, <2>7
<1>3. CASE GeneratorClosed
  <2>1. rpc.phase = "abandoned" /\ Moves(Released(rpc))
    BY <1>3 DEF GeneratorClosed
  <2>2. CallInv(Released(rpc))
    BY <1>1, <2>1, ReleaseKeeps DEF RpcShape
  <2> QED BY <2>1, <2>2, MoveKeeps
<1> QED
  BY <1>2, <1>3

LEMMA CallsNextInv == CallsInv /\ [GrpcServerNext]_grpcServerVars => CallsInv'
<1> SUFFICES ASSUME CallsInv, [GrpcServerNext]_grpcServerVars PROVE CallsInv'
  OBVIOUS
<1>1. CASE UNCHANGED grpcServerVars
  <2>1. rpc' = rpc /\ errorMap' = errorMap /\ endpoint' = endpoint /\ certs' = certs /\ handshakes' = handshakes
    BY <1>1 DEF grpcServerVars
  <2> QED BY <2>1, MoveKeeps DEF Moves, CallsInv
<1>2. CASE GrpcServerNext
  BY <1>2, EndpointKeeps, CertificatesKeep, RpcBeginsWell, MethodKeeps, RpcTaskKeeps, StreamKeeps,
     LeavingKeeps DEF GrpcServerNext
<1> QED
  BY <1>1, <1>2

(* However an endpoint is configured, a provider rotates and fails, and    *)
(* handlers, their tasks and clients end: it never listens in the clear    *)
(* where TLS is asked for, presents fresh certificates, loses no chunk of  *)
(* a stream, leaves no handler behind and gives each call one status       *)
(* (grpc/_adapter.py, interceptors/_error.py, tls/_credentials.py).        *)
THEOREM CallsStayServed == GrpcServerSpec => []CallsAreServed
<1>1. CallsInv => CallsAreServed
  <2> SUFFICES ASSUME CallsInv PROVE CallsAreServed
    OBVIOUS
  <2>1. NeverInTheClear /\ CertificateIsFresh
    BY DEF CallsInv, EndpointInv, CertsInv
  <2>2. CallInv(rpc) /\ RpcShape(rpc) /\ rpc \in RpcRecord
    BY DEF CallsInv, CallInv, RpcShape
  <2>3. rpc.phase = "over" \/ (rpc.status.code \in {"none", "CANCELLED"} /\ rpc.status.details = "none" /\ rpc.aborts = 0)
    BY <2>2 DEF RpcShape, RpcRecord, LivePhases, NoStatus, Status
  <2>4. OneStatus
    <3>1. CASE rpc.phase = "over"
      BY <2>2, <3>1 DEF CallInv, OneStatus, Answered1
    <3>2. CASE rpc.phase # "over"
      BY <2>3, <3>2, GrpcServerAssumption DEF OneStatus
    <3> QED BY <3>1, <3>2
  <2>5. StreamIsWhole /\ NoHandlerIsLeft
    BY <2>2 DEF CallInv, StreamIsWhole, NoHandlerIsLeft
  <2> QED
    BY <2>1, <2>4, <2>5 DEF CallsAreServed
<1> QED
  BY <1>1, CallsInitInv, CallsNextInv, PTL DEF GrpcServerSpec

----------------------------------------------------------------------------
(* The MQTT session                                                        *)

(* The deliveries that wait, the one in hand first, and those that handlers *)
(* have taken are apart: no two of them name one route for one message.    *)
MqttQueue == inHand \o arrived
DeliveryRecord == [message : Nat, topic : Topics, ids : Seq(Nat)]
HandlerRecord == [message : Nat, ids : Seq(Nat), owes : BOOLEAN, todo : Seq(Nat)]
Apart(d, e) == d.message = e.message => ToSet(d.ids) \cap ToSet(e.ids) = {}
Honest(d) ==
  /\ d.message \in 1 .. published /\ d.ids # <<>> /\ IsInjective(d.ids)
  /\ ToSet(d.ids) \subseteq wanted[d.message]

MqttTypes ==
  /\ session.phase \in {"off", "attached", "stopped"} /\ session.live \in BOOLEAN
  /\ session.subscribed \in 0 .. Len(Filters)
  /\ DOMAIN session = {"phase", "live", "subscribed", "drops"}
  /\ arrived \in Seq(DeliveryRecord) /\ inHand \in Seq(DeliveryRecord) /\ Len(inHand) <= 1
  /\ handlers \subseteq HandlerRecord /\ IsFiniteSet(handlers)
  /\ slots \in Nat /\ slots + Cardinality(handlers) = MaxHandlers
  /\ published \in 0 .. MaxMessages /\ DOMAIN wanted = MessageNo
  /\ ran \in Seq(Nat \X Nat)

QueueIsHonest ==
  /\ \A i \in DOMAIN MqttQueue : Honest(MqttQueue[i])
  /\ \A i, j \in DOMAIN MqttQueue :
       i < j => Apart(MqttQueue[i], MqttQueue[j]) /\ MqttQueue[i].message <= MqttQueue[j].message
HandlersAreHonest ==
  /\ \A t \in handlers : Honest(t) /\ IsInjective(t.todo) /\ ToSet(t.todo) \subseteq ToSet(t.ids)
  /\ \A t, u \in handlers : t # u => Apart(t, u)
  /\ \A t \in handlers : \A i \in DOMAIN MqttQueue :
       Apart(t, MqttQueue[i]) /\ t.message <= MqttQueue[i].message

(* What ran was wanted, ran once, and is neither waited for nor to be done; *)
(* what was wanted and not lost ran or still will.                         *)
Due(m, r) ==
  \/ \E i \in DOMAIN MqttQueue : MqttQueue[i].message = m /\ r \in ToSet(MqttQueue[i].ids)
  \/ \E t \in handlers : t.message = m /\ r \in ToSet(t.todo)
RanIsHonest ==
  /\ \A i \in DOMAIN ran : /\ ran[i][1] \in 1 .. published /\ ran[i][2] \in wanted[ran[i][1]]
                           /\ ~Due(ran[i][1], ran[i][2])
  /\ \A i, j \in DOMAIN ran : ran[i] = ran[j] => i = j
NothingIsForgotten ==
  session.phase # "stopped" =>
    \A m \in 1 .. published \ gone : \A r \in wanted[m] :
      Due(m, r) \/ \E i \in DOMAIN ran : ran[i] = <<m, r>>
RanInOrder ==
  /\ \A i \in DOMAIN ran : \A j \in DOMAIN MqttQueue : ran[i][1] <= MqttQueue[j].message
  /\ MaxHandlers = 1 =>
       /\ \A i, j \in DOMAIN ran : i < j => ran[i][1] <= ran[j][1]
       /\ \A i \in DOMAIN ran : \A t \in handlers : ran[i][1] <= t.message
SessionStopped == session.phase = "stopped" => MqttQueue = <<>> /\ handlers = {} /\ ~session.live

MqttInv ==
  /\ MqttTypes /\ QueueIsHonest /\ HandlersAreHonest /\ RanIsHonest
  /\ NothingIsForgotten /\ RanInOrder /\ SessionStopped

LEMMA TailShape ==
  ASSUME NEW S, NEW q \in Seq(S), q # <<>>
  PROVE  /\ Head(q) \in S /\ Tail(q) \in Seq(S) /\ Len(q) \in Nat \ {0}
         /\ Len(Tail(q)) = Len(q) - 1 /\ DOMAIN Tail(q) = 1 .. Len(q) - 1 /\ DOMAIN q = 1 .. Len(q)
         /\ \A i \in 1 .. Len(q) - 1 : Tail(q)[i] = q[i + 1] /\ i + 1 \in DOMAIN q
         /\ Head(q) = q[1] /\ 1 \in DOMAIN q
BY HeadTailProperties

LEMMA FirstLeaves ==
  ASSUME NEW q \in Seq(Nat), q # <<>>, IsInjective(q)
  PROVE  /\ Head(q) \in Nat /\ Tail(q) \in Seq(Nat) /\ IsInjective(Tail(q))
         /\ ToSet(q) = {Head(q)} \cup ToSet(Tail(q)) /\ Head(q) \notin ToSet(Tail(q))
<1>1. /\ Head(q) \in Nat /\ Tail(q) \in Seq(Nat) /\ Len(q) \in Nat \ {0}
      /\ DOMAIN Tail(q) = 1 .. Len(q) - 1 /\ DOMAIN q = 1 .. Len(q)
      /\ \A i \in 1 .. Len(q) - 1 : Tail(q)[i] = q[i + 1] /\ i + 1 \in DOMAIN q
      /\ Head(q) = q[1] /\ 1 \in DOMAIN q
  BY TailShape
<1> DEFINE z == Tail(q)
<1> HIDE DEF z
<1>2. IsInjective(z)
  <2> SUFFICES ASSUME NEW i \in 1 .. Len(q) - 1, NEW j \in 1 .. Len(q) - 1, q[i + 1] = q[j + 1]
               PROVE  i = j
    BY <1>1 DEF IsInjective, z
  <2>1. i + 1 = j + 1
    BY <1>1 DEF IsInjective
  <2> QED BY <2>1
<1>3. ToSet(z) \subseteq ToSet(q)
  BY <1>1 DEF ToSet, z
<1>4. Head(q) \in ToSet(q)
  BY <1>1 DEF ToSet
<1>5. ASSUME NEW r \in ToSet(q), r # Head(q) PROVE r \in ToSet(z)
  <2>1. PICK i \in 1 .. Len(q) : q[i] = r
    BY <1>1 DEF ToSet
  <2>2. i # 1 /\ i - 1 \in 1 .. Len(q) - 1 /\ (i - 1) + 1 = i
    BY <1>1, <1>5, <2>1
  <2>3. z[i - 1] = r
    BY <1>1, <2>1, <2>2 DEF z
  <2> QED BY <1>1, <2>2, <2>3 DEF ToSet, z
<1>6. Head(q) \notin ToSet(z)
  <2> SUFFICES ASSUME NEW i \in 1 .. Len(q) - 1, q[i + 1] = q[1] PROVE FALSE
    BY <1>1 DEF ToSet, z
  <2>1. i + 1 = 1
    BY <1>1 DEF IsInjective
  <2> QED BY <2>1
<1> QED BY <1>1, <1>2, <1>3, <1>4, <1>5, <1>6 DEF z

LEMMA QueueShape ==
  ASSUME MqttTypes
  PROVE  /\ MqttQueue \in Seq(DeliveryRecord) /\ Len(MqttQueue) \in Nat
         /\ DOMAIN MqttQueue = 1 .. Len(MqttQueue)
         /\ \A i \in DOMAIN MqttQueue : MqttQueue[i] \in DeliveryRecord
BY DEF MqttTypes, MqttQueue

(* A handler that is apart from the others, whatever else changes in it.   *)
LEMMA HandlerReplaced ==
  ASSUME MqttInv, NEW t \in handlers, NEW u, u.message = t.message, u.ids = t.ids
  PROVE  /\ u \notin handlers \ {t} /\ IsFiniteSet((handlers \ {t}) \cup {u})
         /\ Cardinality((handlers \ {t}) \cup {u}) = Cardinality(handlers)
         /\ IsFiniteSet(handlers \ {t}) /\ Cardinality(handlers \ {t}) = Cardinality(handlers) - 1
         /\ Cardinality(handlers) \in Nat
<1>1. IsFiniteSet(handlers) /\ Cardinality(handlers) \in Nat
  BY FS_CardinalityType DEF MqttInv, MqttTypes
<1>2. u \notin handlers \ {t}
  <2> SUFFICES ASSUME u \in handlers, u # t PROVE FALSE
    OBVIOUS
  <2>1. Apart(t, u)
    BY DEF MqttInv, HandlersAreHonest
  <2>2. t.ids # <<>> /\ t.ids \in Seq(Nat)
    BY DEF MqttInv, HandlersAreHonest, Honest, MqttTypes, HandlerRecord
  <2>3. ToSet(t.ids) # {}
    <3>1. t.ids[1] \in ToSet(t.ids)
      BY <2>2, TailShape DEF ToSet
    <3> QED BY <3>1
  <2> QED BY <2>1, <2>3 DEF Apart
<1>3. IsFiniteSet(handlers \ {t}) /\ Cardinality(handlers \ {t}) = Cardinality(handlers) - 1
  BY <1>1, FS_RemoveElement
<1>4. /\ IsFiniteSet((handlers \ {t}) \cup {u})
      /\ Cardinality((handlers \ {t}) \cup {u}) = Cardinality(handlers \ {t}) + 1
  BY <1>2, <1>3, FS_AddElement
<1> QED BY <1>1, <1>2, <1>3, <1>4

LEMMA OneHandler ==
  ASSUME MqttInv, MaxHandlers = 1, NEW t \in handlers
  PROVE  handlers = {t}
<1>1. /\ IsFiniteSet(handlers \ {t}) /\ Cardinality(handlers \ {t}) = Cardinality(handlers) - 1
      /\ Cardinality(handlers) \in Nat
  BY HandlerReplaced
<1>2. slots \in Nat /\ slots + Cardinality(handlers) = 1
  BY DEF MqttInv, MqttTypes
<1>3. Cardinality(handlers \ {t}) \in Nat
  BY <1>1, FS_CardinalityType
<1>4. Cardinality(handlers \ {t}) = 0
  BY <1>1, <1>2, <1>3
<1>5. handlers \ {t} = {}
  BY <1>1, <1>4, FS_EmptySet
<1> QED BY <1>5

(* A step that leaves the deliveries, the handlers and what ran as they    *)
(* are, as do the steps of the connection and the turn of the next message. *)
LEMMA SessionStepKeeps ==
  ASSUME MqttInv, MqttTypes', MqttQueue' = MqttQueue,
         UNCHANGED <<handlers, published, wanted, gone, ran>>,
         session'.phase = "stopped" <=> session.phase = "stopped",
         session'.phase = "stopped" => ~session'.live
  PROVE  MqttInv'
<1>1. \A d : Honest(d)' <=> Honest(d)
  BY DEF Honest
<1>2. \A m, r : Due(m, r)' <=> Due(m, r)
  BY DEF Due
<1>3. QueueIsHonest' /\ HandlersAreHonest'
  BY <1>1 DEF MqttInv, QueueIsHonest, HandlersAreHonest
<1>4. RanIsHonest'
  BY <1>2 DEF MqttInv, RanIsHonest
<1>5. NothingIsForgotten'
  BY <1>2 DEF MqttInv, NothingIsForgotten
<1>6. RanInOrder'
  BY DEF MqttInv, RanInOrder
<1>7. SessionStopped'
  BY DEF MqttInv, SessionStopped
<1> QED BY <1>3, <1>4, <1>5, <1>6, <1>7 DEF MqttInv

LEMMA SessionSteps ==
  ASSUME MqttInv, Connects \/ Subscribes \/ NextMessage \/ ConnectionLost \/ UNCHANGED mqttVars
  PROVE  MqttInv'
<1>1. UNCHANGED <<slots, handlers, published, wanted, gone, ran>>
  BY DEF Connects, Subscribes, NextMessage, ConnectionLost, mqttVars
<1>2. /\ session'.phase \in {"off", "attached", "stopped"} /\ session'.live \in BOOLEAN
      /\ session'.subscribed \in 0 .. Len(Filters)
      /\ DOMAIN session' = {"phase", "live", "subscribed", "drops"}
      /\ session'.phase = "stopped" <=> session.phase = "stopped"
      /\ session'.phase = "stopped" => ~session'.live
  <2>0. Len(Filters) \in Nat
    BY MqttAssumption
  <2>1. CASE Connects
    BY <2>0, <2>1 DEF Connects, MqttInv, MqttTypes
  <2>2. CASE Subscribes
    <3>1. /\ session' = [session EXCEPT !.subscribed = @ + 1]
          /\ session.subscribed \in 0 .. Len(Filters) /\ session.subscribed < Len(Filters)
      BY <2>2 DEF Subscribes, MqttInv, MqttTypes
    <3>2. /\ session'.subscribed = session.subscribed + 1 /\ DOMAIN session' = DOMAIN session
          /\ session'.phase = session.phase /\ session'.live = session.live
      BY <3>1 DEF MqttInv, MqttTypes
    <3>3. session.subscribed + 1 \in 0 .. Len(Filters)
      BY <2>0, <3>1
    <3> QED BY <3>2, <3>3 DEF MqttInv, MqttTypes, SessionStopped
  <2>3. CASE NextMessage
    BY <2>0, <2>3 DEF NextMessage, MqttInv, MqttTypes
  <2>4. CASE ConnectionLost
    BY <2>0, <2>4 DEF ConnectionLost, MqttInv, MqttTypes, SessionStopped
  <2>5. CASE UNCHANGED mqttVars
    BY <2>0, <2>5 DEF mqttVars, MqttInv, MqttTypes, SessionStopped
  <2> QED BY <2>1, <2>2, <2>3, <2>4, <2>5
<1>3. /\ arrived' \in Seq(DeliveryRecord) /\ inHand' \in Seq(DeliveryRecord) /\ Len(inHand') <= 1
      /\ MqttQueue' = MqttQueue
  <2>1. CASE NextMessage
    <3>1. arrived # <<>> /\ inHand = <<>> /\ inHand' = <<Head(arrived)>> /\ arrived' = Tail(arrived)
      BY <2>1 DEF NextMessage
    <3>2. arrived \in Seq(DeliveryRecord)
      BY DEF MqttInv, MqttTypes
    <3>3. Head(arrived) \in DeliveryRecord /\ Tail(arrived) \in Seq(DeliveryRecord)
      BY <3>1, <3>2, TailShape
    <3>4. <<Head(arrived)>> \o Tail(arrived) = arrived
      BY <3>1, <3>2
    <3>5. <<>> \o arrived = arrived
      BY <3>2
    <3>6. MqttQueue' = inHand' \o arrived' /\ MqttQueue = inHand \o arrived
      BY DEF MqttQueue
    <3>7. MqttQueue' = MqttQueue
      BY <3>1, <3>4, <3>5, <3>6
    <3> QED BY <3>1, <3>3, <3>7
  <2>2. CASE ~NextMessage
    BY <2>2 DEF Connects, Subscribes, ConnectionLost, mqttVars, MqttQueue, MqttInv, MqttTypes
  <2> QED BY <2>1, <2>2
<1>4. MqttTypes'
  BY <1>1, <1>2, <1>3 DEF MqttInv, MqttTypes
<1> QED BY <1>1, <1>2, <1>3, <1>4, SessionStepKeeps

LEMMA StopKeeps == MqttInv /\ StopsMqtt => MqttInv'
<1> SUFFICES ASSUME MqttInv, StopsMqtt PROVE MqttInv'
  OBVIOUS
<1>1. /\ session' = [session EXCEPT !.phase = "stopped", !.live = FALSE]
      /\ handlers' = {} /\ slots' = slots + Cardinality(handlers) /\ arrived' = <<>> /\ inHand' = <<>>
      /\ UNCHANGED <<published, wanted, gone, ran>>
  BY DEF StopsMqtt
<1>2. session'.phase = "stopped" /\ session'.live = FALSE /\ session'.subscribed = session.subscribed
      /\ DOMAIN session' = DOMAIN session
  BY <1>1 DEF MqttInv, MqttTypes
<1>3. MqttQueue' = <<>> /\ DOMAIN MqttQueue' = {}
  BY <1>1 DEF MqttQueue
<1>4. IsFiniteSet({}) /\ Cardinality({}) = 0
  BY FS_EmptySet
<1>5. slots' \in Nat /\ slots' + Cardinality(handlers') = MaxHandlers
  BY <1>1, <1>4, MqttAssumption DEF MqttInv, MqttTypes
<1>6. MqttTypes'
  BY <1>1, <1>2, <1>4, <1>5 DEF MqttInv, MqttTypes
<1>7. \A m, r : ~Due(m, r)'
  BY <1>1, <1>3 DEF Due
<1>8. RanIsHonest'
  BY <1>1, <1>7 DEF MqttInv, RanIsHonest
<1>9. QueueIsHonest' /\ HandlersAreHonest'
  BY <1>1, <1>3 DEF QueueIsHonest, HandlersAreHonest
<1>10. RanInOrder'
  BY <1>1, <1>3 DEF MqttInv, RanInOrder
<1>11. NothingIsForgotten' /\ SessionStopped'
  BY <1>1, <1>2, <1>3 DEF NothingIsForgotten, SessionStopped
<1> QED BY <1>6, <1>8, <1>9, <1>10, <1>11 DEF MqttInv

LEMMA LossKeeps == MqttInv /\ NoticesLoss => MqttInv'
<1> SUFFICES ASSUME MqttInv, NoticesLoss PROVE MqttInv'
  OBVIOUS
<1>1. /\ session' = [session EXCEPT !.phase = "off", !.subscribed = 0] /\ inHand = <<>>
      /\ gone' = gone \union {arrived[i].message : i \in DOMAIN arrived} /\ arrived' = <<>>
      /\ UNCHANGED <<inHand, slots, handlers, published, wanted, ran>> /\ session.phase = "attached"
  BY DEF NoticesLoss
<1>2. session'.phase = "off" /\ session'.live = session.live /\ session'.subscribed = 0
      /\ DOMAIN session' = DOMAIN session
  BY <1>1 DEF MqttInv, MqttTypes
<1>3. MqttQueue' = <<>> /\ DOMAIN MqttQueue' = {} /\ MqttQueue = arrived
  BY <1>1 DEF MqttQueue, MqttInv, MqttTypes
<1>4. 0 \in 0 .. Len(Filters)
  BY MqttAssumption
<1>5. MqttTypes'
  BY <1>1, <1>2, <1>4 DEF MqttInv, MqttTypes
<1>6. \A m, r : Due(m, r)' => Due(m, r)
  BY <1>1, <1>3 DEF Due
<1>7. \A m \in 1 .. published \ gone' : \A r : Due(m, r) => Due(m, r)'
  BY <1>1, <1>3 DEF Due
<1>8. \A d : Honest(d)' <=> Honest(d)
  BY <1>1 DEF Honest
<1>9. RanIsHonest'
  BY <1>1, <1>6 DEF MqttInv, RanIsHonest
<1>10. QueueIsHonest' /\ HandlersAreHonest'
  BY <1>1, <1>3, <1>8 DEF MqttInv, QueueIsHonest, HandlersAreHonest
<1>11. RanInOrder'
  BY <1>1, <1>3 DEF MqttInv, RanInOrder
<1>12. NothingIsForgotten' /\ SessionStopped'
  BY <1>1, <1>2, <1>7 DEF MqttInv, NothingIsForgotten, SessionStopped
<1> QED BY <1>5, <1>9, <1>10, <1>11, <1>12 DEF MqttInv

(* A handler may do less than it had to do.                                *)
LEMMA HandlersSlots ==
  ASSUME MqttInv, NEW t \in handlers, slots' = slots + 1, handlers' = handlers \ {t},
         UNCHANGED <<session, arrived, inHand, published, wanted, ran>>
  PROVE  MqttTypes'
<1>1. /\ IsFiniteSet(handlers \ {t}) /\ Cardinality(handlers \ {t}) = Cardinality(handlers) - 1
      /\ Cardinality(handlers) \in Nat
  BY HandlerReplaced
<1>2. slots \in Nat /\ slots + Cardinality(handlers) = MaxHandlers
  BY DEF MqttInv, MqttTypes
<1>3. slots' \in Nat /\ slots' + Cardinality(handlers') = MaxHandlers
  BY <1>1, <1>2
<1> QED BY <1>1, <1>3 DEF MqttInv, MqttTypes

LEMMA DoneKeeps == ASSUME NEW t \in handlers, MqttInv, TaskDone(t) PROVE MqttInv'
<1>1. /\ t.todo = <<>> /\ handlers' = handlers \ {t} /\ slots' = slots + 1
      /\ UNCHANGED <<session, arrived, inHand, published, wanted, gone, ran>>
  BY DEF TaskDone, Without
<1>2. MqttTypes' /\ MqttQueue' = MqttQueue
  BY <1>1, HandlersSlots DEF MqttQueue
<1>3. ToSet(t.todo) = {}
  BY <1>1 DEF ToSet
<1>4. \A m, r : Due(m, r)' <=> Due(m, r)
  BY <1>1, <1>2, <1>3 DEF Due
<1>5. \A d : Honest(d)' <=> Honest(d)
  BY <1>1 DEF Honest
<1>6. QueueIsHonest' /\ HandlersAreHonest'
  BY <1>1, <1>2, <1>5 DEF MqttInv, QueueIsHonest, HandlersAreHonest
<1>7. RanIsHonest'
  BY <1>1, <1>4 DEF MqttInv, RanIsHonest
<1>8. NothingIsForgotten'
  BY <1>1, <1>4 DEF MqttInv, NothingIsForgotten
<1>9. RanInOrder' /\ SessionStopped'
  BY <1>1, <1>2 DEF MqttInv, RanInOrder, SessionStopped
<1> QED BY <1>2, <1>6, <1>7, <1>8, <1>9 DEF MqttInv

(* The handler t becomes u, which has the same delivery in hand.           *)
LEMMA TurnKeeps ==
  ASSUME MqttInv, NEW t \in handlers, NEW u \in HandlerRecord,
         u.message = t.message, u.ids = t.ids, IsInjective(u.todo), ToSet(u.todo) \subseteq ToSet(t.todo),
         handlers' = (handlers \ {t}) \cup {u}, ran' \in Seq(Nat \X Nat),
         UNCHANGED <<session, slots, arrived, inHand, published, wanted, gone>>
  PROVE  /\ MqttTypes' /\ MqttQueue' = MqttQueue /\ QueueIsHonest' /\ HandlersAreHonest' /\ SessionStopped'
<1>1. MqttTypes'
  BY HandlerReplaced DEF MqttInv, MqttTypes
<1>2. MqttQueue' = MqttQueue
  BY DEF MqttQueue
<1>3. \A d : Honest(d)' <=> Honest(d)
  BY DEF Honest
<1>4. QueueIsHonest'
  BY <1>2, <1>3 DEF MqttInv, QueueIsHonest
<1>5. Honest(u)
  BY DEF MqttInv, HandlersAreHonest, Honest
<1>6. \A d : (Apart(u, d) <=> Apart(t, d)) /\ (Apart(d, u) <=> Apart(d, t))
  BY DEF Apart
<1>7. HandlersAreHonest'
  <2>1. \A v \in handlers' : Honest(v)' /\ IsInjective(v.todo) /\ ToSet(v.todo) \subseteq ToSet(v.ids)
    BY <1>3, <1>5 DEF MqttInv, HandlersAreHonest
  <2>2. \A v, w \in handlers' : v # w => Apart(v, w)
    BY <1>6 DEF MqttInv, HandlersAreHonest
  <2>3. \A v \in handlers' : \A i \in DOMAIN MqttQueue' :
          Apart(v, MqttQueue'[i]) /\ v.message <= MqttQueue'[i].message
    BY <1>2, <1>6 DEF MqttInv, HandlersAreHonest
  <2> QED BY <2>1, <2>2, <2>3 DEF HandlersAreHonest
<1>8. SessionStopped'
  BY <1>2 DEF MqttInv, SessionStopped
<1> QED BY <1>1, <1>2, <1>4, <1>7, <1>8

LEMMA RepliesKeeps == ASSUME NEW t \in handlers, MqttInv, Replies(t) PROVE MqttInv'
<1> DEFINE u == [t EXCEPT !.owes = FALSE]
<1>1. /\ handlers' = (handlers \ {t}) \cup {u}
      /\ UNCHANGED <<session, slots, arrived, inHand, published, wanted, gone, ran>>
  BY DEF Replies, Without
<1>2. t \in HandlerRecord /\ ran \in Seq(Nat \X Nat) /\ IsInjective(t.todo)
  BY DEF MqttInv, MqttTypes, HandlersAreHonest
<1>3. u \in HandlerRecord /\ u.message = t.message /\ u.ids = t.ids /\ u.todo = t.todo
  BY <1>2 DEF HandlerRecord
<1> HIDE DEF u
<1>4. MqttTypes' /\ MqttQueue' = MqttQueue /\ QueueIsHonest' /\ HandlersAreHonest' /\ SessionStopped'
  BY <1>1, <1>2, <1>3, TurnKeeps
<1>5. \A m, r : Due(m, r)' <=> Due(m, r)
  BY <1>1, <1>3, <1>4 DEF Due
<1>6. RanIsHonest'
  BY <1>1, <1>5 DEF MqttInv, RanIsHonest
<1>7. NothingIsForgotten'
  BY <1>1, <1>5 DEF MqttInv, NothingIsForgotten
<1>8. RanInOrder'
  BY <1>1, <1>3, <1>4 DEF MqttInv, RanInOrder
<1> QED BY <1>4, <1>6, <1>7, <1>8 DEF MqttInv

(* A route runs: the pair leaves what is due as it joins what ran.         *)
LEMMA RunsKeeps == ASSUME NEW t \in handlers, MqttInv, RunsRoute(t) PROVE MqttInv'
<1> DEFINE m0 == t.message
           r0 == Head(t.todo)
<1>0. PICK owes \in {FALSE, (r0 \in RpcRoutes)} :
        handlers' = (handlers \ {t}) \cup {[t EXCEPT !.owes = owes, !.todo = Tail(@)]}
  BY DEF RunsRoute, Without
<1>1. /\ owes \in BOOLEAN
      /\ t.todo # <<>> /\ ran' = Append(ran, <<m0, r0>>)
      /\ handlers' = (handlers \ {t}) \cup {[t EXCEPT !.owes = owes, !.todo = Tail(@)]}
      /\ UNCHANGED <<session, arrived, inHand, slots, published, wanted, gone>>
  <2>1. owes \in BOOLEAN
    <3>1. (r0 \in RpcRoutes) \in BOOLEAN
      OBVIOUS
    <3> QED BY <1>0, <3>1, Zenon
  <2> QED BY <1>0, <2>1 DEF RunsRoute
<1> DEFINE u == [t EXCEPT !.owes = owes, !.todo = Tail(@)]
<1>2. /\ t \in HandlerRecord /\ ran \in Seq(Nat \X Nat) /\ IsInjective(t.todo)
      /\ ToSet(t.todo) \subseteq ToSet(t.ids) /\ Honest(t)
  BY DEF MqttInv, MqttTypes, HandlersAreHonest
<1>3. t.todo \in Seq(Nat) /\ m0 \in Nat
  BY <1>2 DEF HandlerRecord
<1>4. /\ r0 \in Nat /\ Tail(t.todo) \in Seq(Nat) /\ IsInjective(Tail(t.todo))
      /\ ToSet(t.todo) = {r0} \cup ToSet(Tail(t.todo)) /\ r0 \notin ToSet(Tail(t.todo))
  BY <1>1, <1>2, <1>3, FirstLeaves
<1>5. u \in HandlerRecord /\ u.message = t.message /\ u.ids = t.ids /\ u.todo = Tail(t.todo)
  BY <1>1, <1>2, <1>4 DEF HandlerRecord
<1>6. handlers' = (handlers \ {t}) \cup {u}
  BY <1>1
<1> HIDE DEF u, r0, m0
<1>7. /\ ran' \in Seq(Nat \X Nat) /\ DOMAIN ran' = 1 .. Len(ran) + 1 /\ Len(ran) \in Nat
      /\ DOMAIN ran = 1 .. Len(ran)
      /\ \A i \in 1 .. Len(ran) : ran'[i] = ran[i]
      /\ ran'[Len(ran) + 1] = <<m0, r0>>
      /\ \A i \in DOMAIN ran' : i \in 1 .. Len(ran) \/ i = Len(ran) + 1
  BY <1>1, <1>2, <1>3, <1>4
<1>8. MqttTypes' /\ MqttQueue' = MqttQueue /\ QueueIsHonest' /\ HandlersAreHonest' /\ SessionStopped'
  BY <1>1, <1>2, <1>4, <1>5, <1>6, <1>7, TurnKeeps
<1>9. Due(m0, r0)
  BY <1>4 DEF Due, m0
<1>10. \A m, r : Due(m, r)' => Due(m, r)
  BY <1>4, <1>5, <1>6, <1>8 DEF Due
<1>11. \A m, r : Due(m, r) => Due(m, r)' \/ (m = m0 /\ r = r0)
  BY <1>4, <1>5, <1>6, <1>8 DEF Due, m0
<1>12. ~Due(m0, r0)'
  <2>1. r0 \in ToSet(t.ids)
    BY <1>2, <1>4
  <2>2. ASSUME NEW i \in DOMAIN MqttQueue, MqttQueue[i].message = m0 PROVE r0 \notin ToSet(MqttQueue[i].ids)
    <3>1. Apart(t, MqttQueue[i])
      BY DEF MqttInv, HandlersAreHonest
    <3> QED BY <2>1, <2>2, <3>1 DEF Apart, m0
  <2>3. ASSUME NEW v \in handlers \ {t}, v.message = m0 PROVE r0 \notin ToSet(v.todo)
    <3>1. Apart(t, v) /\ ToSet(v.todo) \subseteq ToSet(v.ids)
      BY DEF MqttInv, HandlersAreHonest
    <3> QED BY <2>1, <2>3, <3>1 DEF Apart, m0
  <2> QED BY <1>4, <1>5, <1>6, <1>8, <2>2, <2>3 DEF Due
<1>13. \A i \in 1 .. Len(ran) : ran[i] # <<m0, r0>>
  <2> SUFFICES ASSUME NEW i \in 1 .. Len(ran), ran[i] = <<m0, r0>> PROVE FALSE
    OBVIOUS
  <2>1. ran[i][1] = m0 /\ ran[i][2] = r0
    OBVIOUS
  <2> QED BY <1>7, <1>9, <2>1 DEF MqttInv, RanIsHonest
<1>14. RanIsHonest'
  <2>1. ASSUME NEW i \in DOMAIN ran'
        PROVE  /\ ran'[i][1] \in 1 .. published /\ ran'[i][2] \in wanted[ran'[i][1]]
               /\ ~Due(ran[i][1], ran[i][2])'
    <3>1. CASE i \in 1 .. Len(ran)
      <4>1. /\ ran[i][1] \in 1 .. published /\ ran[i][2] \in wanted[ran[i][1]]
            /\ ~Due(ran[i][1], ran[i][2])
        BY <1>7, <3>1 DEF MqttInv, RanIsHonest
      <4>2. ran'[i] = ran[i]
        BY <1>7, <3>1
      <4> QED BY <1>10, <4>1, <4>2
    <3>2. CASE i = Len(ran) + 1
      <4>1. ran'[i][1] = m0 /\ ran'[i][2] = r0
        BY <1>7, <3>2
      <4>2. m0 \in 1 .. published /\ r0 \in wanted[m0]
        BY <1>2, <1>4 DEF Honest, m0
      <4> QED BY <1>12, <4>1, <4>2
    <3> QED BY <1>7, <2>1, <3>1, <3>2
  <2>2. ASSUME NEW i \in DOMAIN ran', NEW j \in DOMAIN ran', ran'[i] = ran'[j] PROVE i = j
    <3>1. \A k, l \in 1 .. Len(ran) : ran[k] = ran[l] => k = l
      BY <1>7 DEF MqttInv, RanIsHonest
    <3>2. CASE i \in 1 .. Len(ran) /\ j \in 1 .. Len(ran)
      BY <1>7, <2>2, <3>1, <3>2
    <3>3. CASE i \in 1 .. Len(ran) /\ j = Len(ran) + 1
      BY <1>7, <1>13, <2>2, <3>3
    <3>4. CASE j \in 1 .. Len(ran) /\ i = Len(ran) + 1
      BY <1>7, <1>13, <2>2, <3>4
    <3> QED BY <1>7, <2>2, <3>2, <3>3, <3>4
  <2> QED BY <1>1, <2>1, <2>2 DEF RanIsHonest
<1>15. NothingIsForgotten'
  <2> SUFFICES ASSUME session'.phase # "stopped", NEW m \in 1 .. published \ gone, NEW r \in wanted[m], ~Due(m, r)'
               PROVE  \E i \in DOMAIN ran' : ran'[i] = <<m, r>>
    BY <1>1 DEF NothingIsForgotten
  <2>1. CASE m = m0 /\ r = r0
    BY SMTT(20), <1>7, <2>1
  <2>2. CASE ~(m = m0 /\ r = r0)
    <3>1. ~Due(m, r)
      BY <1>11, <2>2
    <3>2. PICK i \in DOMAIN ran : ran[i] = <<m, r>>
      BY <1>1, <3>1 DEF MqttInv, NothingIsForgotten
    <3>3. i \in DOMAIN ran' /\ ran'[i] = <<m, r>>
      BY <1>7, <3>2
    <3> QED BY <3>3
  <2> QED BY <2>1, <2>2
<1>16. RanInOrder'
  <2>1. \A j \in DOMAIN MqttQueue : m0 <= MqttQueue[j].message
    BY DEF MqttInv, HandlersAreHonest, m0
  <2>2. \A i \in DOMAIN ran' : \A j \in DOMAIN MqttQueue : ran'[i][1] <= MqttQueue[j].message
    <3> SUFFICES ASSUME NEW i \in DOMAIN ran', NEW j \in DOMAIN MqttQueue
                 PROVE  ran'[i][1] <= MqttQueue[j].message
      OBVIOUS
    <3>1. CASE i \in 1 .. Len(ran)
      <4>1. ran[i][1] <= MqttQueue[j].message /\ ran'[i] = ran[i]
        BY <1>7, <3>1 DEF MqttInv, RanInOrder
      <4> QED BY <4>1
    <3>2. CASE i = Len(ran) + 1
      <4>1. ran'[i][1] = m0
        BY <1>7, <3>2
      <4> QED BY <2>1, <4>1
    <3> QED BY <1>7, <3>1, <3>2
  <2>3. ASSUME MaxHandlers = 1
        PROVE  /\ \A i, j \in DOMAIN ran' : i < j => ran'[i][1] <= ran'[j][1]
               /\ \A i \in DOMAIN ran' : \A v \in handlers' : ran'[i][1] <= v.message
    <3>1. handlers' = {u} /\ u.message = m0
      BY <1>5, <1>6, <2>3, OneHandler DEF m0
    <3>2. \A i \in 1 .. Len(ran) : ran[i][1] <= m0
      BY <1>7, <2>3 DEF MqttInv, RanInOrder, m0
    <3>3. \A i, j \in 1 .. Len(ran) : i < j => ran[i][1] <= ran[j][1]
      BY <1>7, <2>3 DEF MqttInv, RanInOrder
    <3>4. m0 <= m0 /\ ran'[Len(ran) + 1][1] = m0
      BY <1>3, <1>7
    <3>5. ASSUME NEW i \in DOMAIN ran' PROVE ran'[i][1] <= m0
      <4>1. CASE i \in 1 .. Len(ran)
        <5>1. ran[i][1] <= m0 /\ ran'[i] = ran[i]
          BY <1>7, <3>2, <4>1
        <5> QED BY <5>1
      <4>2. CASE i = Len(ran) + 1
        BY <3>4, <4>2
      <4> QED BY <1>7, <3>5, <4>1, <4>2
    <3>6. ASSUME NEW i \in DOMAIN ran', NEW j \in DOMAIN ran', i < j PROVE ran'[i][1] <= ran'[j][1]
      <4>1. i \in 1 .. Len(ran)
        BY <1>7, <3>6
      <4>2. CASE j \in 1 .. Len(ran)
        <5>1. ran'[i] = ran[i] /\ ran'[j] = ran[j] /\ ran[i][1] <= ran[j][1]
          BY <1>7, <3>3, <3>6, <4>1, <4>2
        <5> QED BY <5>1
      <4>3. CASE j = Len(ran) + 1
        BY <3>4, <3>5, <4>3
      <4> QED BY <1>7, <3>6, <4>2, <4>3
    <3> QED BY <3>1, <3>5, <3>6
  <2> QED BY <1>8, <2>2, <2>3 DEF RanInOrder
<1> QED BY <1>8, <1>14, <1>15, <1>16 DEF MqttInv

(* A task takes the delivery in hand, the first one of the queue.          *)
LEMMA TaskKeeps == MqttInv /\ StartsTask => MqttInv'
<1> SUFFICES ASSUME MqttInv, StartsTask PROVE MqttInv'
  OBVIOUS
<1> DEFINE d == inHand[1]
           t0 == [message |-> d.message, ids |-> d.ids, owes |-> FALSE, todo |-> RoutesFor(d.ids, d.topic)]
<1>1. /\ session.phase = "attached" /\ inHand # <<>> /\ slots > 0
      /\ handlers' = handlers \cup {t0} /\ slots' = slots - 1 /\ inHand' = <<>>
      /\ UNCHANGED <<session, arrived, published, wanted, gone, ran>>
  BY DEF StartsTask
<1>2. inHand \in Seq(DeliveryRecord) /\ Len(inHand) <= 1 /\ arrived \in Seq(DeliveryRecord)
  BY DEF MqttInv, MqttTypes
<1>3. Len(inHand) = 1 /\ DOMAIN inHand = {1} /\ d \in DeliveryRecord
  <2>1. Len(inHand) \in Nat \ {0} /\ DOMAIN inHand = 1 .. Len(inHand) /\ 1 \in DOMAIN inHand
    BY <1>1, <1>2, TailShape
  <2>2. Len(inHand) = 1
    BY <1>2, <2>1
  <2>3. d \in DeliveryRecord
    BY <1>2, <2>1
  <2> QED BY <2>1, <2>2, <2>3
<1>4. /\ MqttQueue' = arrived /\ DOMAIN arrived = 1 .. Len(arrived) /\ Len(arrived) \in Nat
      /\ Len(MqttQueue) = Len(arrived) + 1 /\ DOMAIN MqttQueue = 1 .. Len(arrived) + 1
      /\ MqttQueue[1] = d /\ \A i \in 1 .. Len(arrived) : MqttQueue[i + 1] = arrived[i]
  <2>1. MqttQueue = inHand \o arrived /\ MqttQueue' = <<>> \o arrived
    BY <1>1 DEF MqttQueue
  <2>2. MqttQueue' = arrived
    BY <1>2, <2>1
  <2>3. DOMAIN arrived = 1 .. Len(arrived) /\ Len(arrived) \in Nat
    BY <1>2
  <2>4. /\ Len(inHand \o arrived) = Len(inHand) + Len(arrived)
        /\ \A i \in 1 .. Len(inHand) + Len(arrived) :
             (inHand \o arrived)[i] = IF i <= Len(inHand) THEN inHand[i] ELSE arrived[i - Len(inHand)]
        /\ inHand \o arrived \in Seq(DeliveryRecord)
    BY <1>2, ConcatProperties
  <2>5. Len(MqttQueue) = Len(arrived) + 1 /\ DOMAIN MqttQueue = 1 .. Len(arrived) + 1
    BY <1>3, <2>1, <2>3, <2>4
  <2>6. MqttQueue[1] = d
    BY <1>3, <2>1, <2>3, <2>4
  <2>7. ASSUME NEW i \in 1 .. Len(arrived) PROVE MqttQueue[i + 1] = arrived[i]
    <3>1. i + 1 \in 1 .. Len(inHand) + Len(arrived) /\ ~(i + 1 <= 1) /\ (i + 1) - 1 = i
      BY <1>3, <2>3
    <3> QED BY <1>3, <2>1, <2>4, <3>1
  <2> QED BY <2>2, <2>3, <2>5, <2>6, <2>7
<1>5. Honest(d) /\ d.ids \in Seq(Nat) /\ d.message \in Nat
  <2>1. 1 \in DOMAIN MqttQueue
    BY <1>4
  <2>2. d.ids \in Seq(Nat) /\ d.message \in Nat
    BY <1>3 DEF DeliveryRecord
  <2> QED BY <1>4, <2>1, <2>2 DEF MqttInv, QueueIsHonest
<1>6. t0.message = d.message /\ t0.ids = d.ids /\ t0.todo = d.ids /\ t0 \in HandlerRecord
  BY <1>5 DEF Honest, RoutesFor, HandlerRecord
<1> HIDE DEF t0, d
<1>7. \A t \in handlers : Apart(t, d) /\ t.message <= d.message
  BY <1>4 DEF MqttInv, HandlersAreHonest
<1>8. t0 \notin handlers
  <2> SUFFICES ASSUME t0 \in handlers PROVE FALSE
    OBVIOUS
  <2>1. Apart(t0, d)
    BY <1>7
  <2>2. d.ids # <<>>
    BY <1>5 DEF Honest
  <2>3. d.ids[1] \in ToSet(d.ids)
    BY <1>5, <2>2, TailShape DEF ToSet
  <2> QED BY <1>6, <2>1, <2>3 DEF Apart
<1>9. MqttTypes'
  <2>1. IsFiniteSet(handlers) /\ Cardinality(handlers) \in Nat /\ slots \in Nat
        /\ slots + Cardinality(handlers) = MaxHandlers
    BY FS_CardinalityType DEF MqttInv, MqttTypes
  <2>2. IsFiniteSet(handlers \cup {t0}) /\ Cardinality(handlers \cup {t0}) = Cardinality(handlers) + 1
    BY <1>8, <2>1, FS_AddElement
  <2>3. slots' \in Nat /\ slots' + Cardinality(handlers') = MaxHandlers
    BY <1>1, <2>1, <2>2
  <2>4. <<>> \in Seq(DeliveryRecord) /\ Len(<<>>) <= 1
    OBVIOUS
  <2> QED BY <1>1, <1>6, <2>2, <2>3, <2>4 DEF MqttInv, MqttTypes
<1>10. \A e : Honest(e)' <=> Honest(e)
  BY <1>1 DEF Honest
<1>11. \A i \in 1 .. Len(arrived) : i + 1 \in DOMAIN MqttQueue /\ 1 < i + 1 /\ 1 \in DOMAIN MqttQueue
  BY <1>4
<1>12. QueueIsHonest'
  <2>1. \A i \in 1 .. Len(arrived) : Honest(arrived[i])
    BY <1>4, <1>11 DEF MqttInv, QueueIsHonest
  <2>2. ASSUME NEW i \in 1 .. Len(arrived), NEW j \in 1 .. Len(arrived), i < j
        PROVE  Apart(arrived[i], arrived[j]) /\ arrived[i].message <= arrived[j].message
    <3>1. i + 1 < j + 1
      BY <2>2
    <3> QED BY <1>4, <1>11, <3>1 DEF MqttInv, QueueIsHonest
  <2> QED BY <1>4, <1>10, <2>1, <2>2 DEF QueueIsHonest
<1>13. \A i \in 1 .. Len(arrived) : Apart(d, arrived[i]) /\ d.message <= arrived[i].message
  BY <1>4, <1>11 DEF MqttInv, QueueIsHonest
<1>14. \A e : (Apart(t0, e) <=> Apart(d, e)) /\ (Apart(e, t0) <=> Apart(e, d)) /\ (Apart(d, e) <=> Apart(e, d))
  BY <1>6 DEF Apart
<1>15. HandlersAreHonest'
  <2>1. \A t \in handlers' : Honest(t)' /\ IsInjective(t.todo) /\ ToSet(t.todo) \subseteq ToSet(t.ids)
    BY <1>1, <1>5, <1>6, <1>10 DEF MqttInv, HandlersAreHonest, Honest
  <2>2. \A t, u \in handlers' : t # u => Apart(t, u)
    BY <1>1, <1>7, <1>14 DEF MqttInv, HandlersAreHonest
  <2>3. \A t \in handlers : \A i \in 1 .. Len(arrived) : Apart(t, arrived[i]) /\ t.message <= arrived[i].message
    BY <1>4, <1>11 DEF MqttInv, HandlersAreHonest
  <2>4. \A t \in handlers' : \A i \in 1 .. Len(arrived) : Apart(t, arrived[i]) /\ t.message <= arrived[i].message
    BY <1>1, <1>6, <1>13, <1>14, <2>3
  <2> QED BY <1>4, <2>1, <2>2, <2>4 DEF HandlersAreHonest
<1>16. \A m, r : Due(m, r)' <=> Due(m, r)
  <2> SUFFICES ASSUME NEW m, NEW r PROVE Due(m, r)' <=> Due(m, r)
    OBVIOUS
  <2>1. (\E i \in DOMAIN MqttQueue : MqttQueue[i].message = m /\ r \in ToSet(MqttQueue[i].ids))
        <=> \/ d.message = m /\ r \in ToSet(d.ids)
            \/ \E i \in 1 .. Len(arrived) : arrived[i].message = m /\ r \in ToSet(arrived[i].ids)
    <3>1. \A i \in DOMAIN MqttQueue : i = 1 \/ (i - 1 \in 1 .. Len(arrived) /\ (i - 1) + 1 = i)
      BY <1>4
    <3> QED BY <1>4, <1>11, <3>1
  <2>2. (\E t \in handlers' : t.message = m /\ r \in ToSet(t.todo))
        <=> \/ d.message = m /\ r \in ToSet(d.ids)
            \/ \E t \in handlers : t.message = m /\ r \in ToSet(t.todo)
    BY <1>1, <1>6
  <2> QED BY <1>4, <2>1, <2>2 DEF Due
<1>17. RanIsHonest'
  BY <1>1, <1>16 DEF MqttInv, RanIsHonest
<1>18. NothingIsForgotten'
  BY <1>1, <1>16 DEF MqttInv, NothingIsForgotten
<1>19. RanInOrder'
  <2>1. \A i \in DOMAIN ran : \A j \in 1 .. Len(arrived) : ran[i][1] <= arrived[j].message
    BY <1>4, <1>11 DEF MqttInv, RanInOrder
  <2>2. \A i \in DOMAIN ran : ran[i][1] <= d.message
    BY <1>4, <1>11 DEF MqttInv, RanInOrder
  <2> QED BY <1>1, <1>4, <1>6, <2>1, <2>2 DEF MqttInv, RanInOrder
<1>20. SessionStopped'
  BY <1>1 DEF SessionStopped
<1> QED BY <1>9, <1>12, <1>15, <1>17, <1>18, <1>19, <1>20 DEF MqttInv

(* What the broker delivers for one message: deliveries apart from one     *)
(* another, that name together the routes which the message was wanted for. *)
Delivers(new, m, routes) ==
  /\ new \in Seq(DeliveryRecord)
  /\ \A i \in DOMAIN new : /\ new[i].message = m /\ new[i].ids # <<>> /\ IsInjective(new[i].ids)
                           /\ ToSet(new[i].ids) \subseteq routes
  /\ \A i, j \in DOMAIN new : i < j => Apart(new[i], new[j])
  /\ \A r \in routes : \E i \in DOMAIN new : r \in ToSet(new[i].ids)

LEMMA DeliveriesAre ==
  ASSUME NEW m \in Nat, NEW topic \in Topics, NEW subs \in Seq(Nat), subs # <<>>, IsInjective(subs)
  PROVE  /\ Delivers(<<Delivery(m, topic, subs)>>, m, ToSet(subs))
         /\ Delivers([i \in DOMAIN subs |-> Delivery(m, topic, <<subs[i]>>)], m, ToSet(subs))
<1>1. Delivers(<<Delivery(m, topic, subs)>>, m, ToSet(subs))
  <2> DEFINE d == Delivery(m, topic, subs)
             new == <<d>>
  <2>1. d \in DeliveryRecord /\ d.message = m /\ d.ids = subs
    BY DEF Delivery, DeliveryRecord
  <2> HIDE DEF d
  <2>2. new \in Seq(DeliveryRecord) /\ DOMAIN new = {1} /\ new[1] = d
    BY <2>1
  <2> HIDE DEF new
  <2>3. Delivers(new, m, ToSet(subs))
    BY <2>1, <2>2 DEF Delivers
  <2> QED BY <2>3 DEF new, d
<1>2. Delivers([i \in DOMAIN subs |-> Delivery(m, topic, <<subs[i]>>)], m, ToSet(subs))
  <2> DEFINE new == [i \in DOMAIN subs |-> Delivery(m, topic, <<subs[i]>>)]
  <2>1. DOMAIN subs = 1 .. Len(subs) /\ Len(subs) \in Nat /\ \A i \in DOMAIN subs : subs[i] \in Nat
    OBVIOUS
  <2>2. \A i \in DOMAIN subs : <<subs[i]>> \in Seq(Nat) /\ <<subs[i]>> # <<>>
                               /\ IsInjective(<<subs[i]>>) /\ ToSet(<<subs[i]>>) = {subs[i]}
    BY <2>1 DEF IsInjective, ToSet
  <2>3. \A i \in DOMAIN subs : /\ new[i].message = m /\ new[i].ids = <<subs[i]>>
                               /\ new[i] \in DeliveryRecord
    BY <2>2 DEF Delivery, DeliveryRecord
  <2>4. new \in Seq(DeliveryRecord) /\ DOMAIN new = DOMAIN subs
    BY <2>1, <2>3
  <2> HIDE DEF new
  <2>5. ASSUME NEW i \in DOMAIN new, NEW j \in DOMAIN new, i < j PROVE Apart(new[i], new[j])
    <3>1. subs[i] # subs[j]
      BY <2>1, <2>4, <2>5 DEF IsInjective
    <3> QED BY ZenonT(60), <2>2, <2>3, <2>4, <3>1 DEF Apart
  <2>6. ASSUME NEW r \in ToSet(subs) PROVE \E i \in DOMAIN new : r \in ToSet(new[i].ids)
    <3>1. PICK i \in DOMAIN subs : r = subs[i]
      BY DEF ToSet
    <3>2. new[i].ids = <<subs[i]>> /\ ToSet(<<subs[i]>>) = {subs[i]}
      BY <2>2, <2>3
    <3>3. r \in ToSet(new[i].ids)
      BY <3>1, <3>2
    <3> QED BY <2>4, <3>3
  <2>7. \A i \in DOMAIN subs : subs[i] \in ToSet(subs)
    BY DEF ToSet
  <2>8. \A i \in DOMAIN new : /\ new[i].message = m /\ new[i].ids # <<>> /\ IsInjective(new[i].ids)
                               /\ ToSet(new[i].ids) \subseteq ToSet(subs)
    <3> SUFFICES ASSUME NEW i \in DOMAIN subs
                 PROVE  /\ new[i].message = m /\ new[i].ids # <<>> /\ IsInjective(new[i].ids)
                        /\ ToSet(new[i].ids) \subseteq ToSet(subs)
      BY <2>4
    <3>1. new[i].message = m /\ new[i].ids = <<subs[i]>>
      BY <2>3
    <3>2. <<subs[i]>> # <<>> /\ IsInjective(<<subs[i]>>) /\ ToSet(<<subs[i]>>) \subseteq ToSet(subs)
      BY <2>2, <2>7
    <3> QED BY <3>1, <3>2
  <2>9. Delivers(new, m, ToSet(subs))
    BY <2>4, <2>5, <2>6, <2>8 DEF Delivers
  <2> QED BY <2>9 DEF new
<1> QED BY <1>1, <1>2

LEMMA DeliveryKeeps ==
  ASSUME MqttInv, NEW new, NEW routes, Delivers(new, published + 1, routes),
         published < MaxMessages, session.live,
         arrived' = arrived \o new, wanted' = [wanted EXCEPT ![published + 1] = routes],
         published' = published + 1, UNCHANGED <<session, inHand, slots, handlers, gone, ran>>
  PROVE  MqttInv'
<1> DEFINE m0 == published + 1
           Q == MqttQueue
<1>1. /\ published \in Nat /\ m0 \in Nat /\ m0 \in 1 .. MaxMessages /\ DOMAIN wanted = 1 .. MaxMessages
      /\ 1 .. m0 = (1 .. published) \cup {m0} /\ m0 \notin 1 .. published
  BY SMTT(20), MqttAssumption DEF MqttInv, MqttTypes, MessageNo
<1>2. /\ wanted'[m0] = routes /\ DOMAIN wanted' = DOMAIN wanted
      /\ \A m \in 1 .. published : wanted'[m] = wanted[m]
  BY <1>1
<1>3. /\ Q \in Seq(DeliveryRecord) /\ Len(Q) \in Nat /\ DOMAIN Q = 1 .. Len(Q)
      /\ new \in Seq(DeliveryRecord) /\ Len(new) \in Nat /\ DOMAIN new = 1 .. Len(new)
  BY QueueShape DEF MqttInv, Delivers
<1>4. MqttQueue' = Q \o new
  <2>1. MqttQueue' = inHand \o (arrived \o new) /\ Q = inHand \o arrived
    BY DEF MqttQueue
  <2>2. arrived \in Seq(DeliveryRecord) /\ inHand \in Seq(DeliveryRecord)
    BY DEF MqttInv, MqttTypes
  <2> QED BY SMTT(20), <1>3, <2>1, <2>2, ConcatAssociative
<1> HIDE DEF Q
<1>5. /\ Len(Q \o new) = Len(Q) + Len(new)
      /\ \A i \in 1 .. Len(Q) + Len(new) : (Q \o new)[i] = IF i <= Len(Q) THEN Q[i] ELSE new[i - Len(Q)]
      /\ Q \o new \in Seq(DeliveryRecord)
  BY <1>3, ConcatProperties
<1>6. /\ DOMAIN MqttQueue' = 1 .. Len(Q) + Len(new)
      /\ \A i \in 1 .. Len(Q) : i \in DOMAIN MqttQueue' /\ MqttQueue'[i] = Q[i]
      /\ \A i \in 1 .. Len(new) : Len(Q) + i \in DOMAIN MqttQueue' /\ MqttQueue'[Len(Q) + i] = new[i]
      /\ \A i \in DOMAIN MqttQueue' : \/ i \in 1 .. Len(Q)
                                      \/ i - Len(Q) \in 1 .. Len(new) /\ MqttQueue'[i] = new[i - Len(Q)]
  <2>1. DOMAIN MqttQueue' = 1 .. Len(Q) + Len(new)
    BY <1>4, <1>5
  <2>2. \A i \in 1 .. Len(Q) : i \in DOMAIN MqttQueue' /\ MqttQueue'[i] = Q[i]
    BY <1>3, <1>4, <1>5, <2>1
  <2>3. ASSUME NEW i \in 1 .. Len(new) PROVE Len(Q) + i \in DOMAIN MqttQueue' /\ MqttQueue'[Len(Q) + i] = new[i]
    <3>1. Len(Q) + i \in 1 .. Len(Q) + Len(new) /\ ~(Len(Q) + i <= Len(Q)) /\ (Len(Q) + i) - Len(Q) = i
      BY <1>3
    <3> QED BY <1>4, <1>5, <2>1, <3>1
  <2>4. \A i \in DOMAIN MqttQueue' : \/ i \in 1 .. Len(Q)
                                     \/ i - Len(Q) \in 1 .. Len(new) /\ MqttQueue'[i] = new[i - Len(Q)]
    BY <1>3, <1>4, <1>5, <2>1
  <2> QED BY <2>1, <2>2, <2>3, <2>4
<1>7. MqttTypes'
  <2>1. arrived' \in Seq(DeliveryRecord)
    BY <1>3 DEF MqttInv, MqttTypes
  <2>2. published' \in 0 .. MaxMessages
    BY <1>1, MqttAssumption
  <2> QED BY <1>2, <2>1, <2>2 DEF MqttInv, MqttTypes
<1> DEFINE Good(d) == /\ d.message \in 1 .. m0 /\ d.ids # <<>> /\ IsInjective(d.ids)
                      /\ ToSet(d.ids) \subseteq wanted'[d.message]
<1>8. /\ \A d : Honest(d) => Good(d) /\ d.message \in 1 .. published
      /\ \A d : Good(d) <=> Honest(d)'
  BY <1>1, <1>2 DEF Honest
<1>9. \A i \in 1 .. Len(Q) : Honest(Q[i]) /\ Good(Q[i]) /\ Q[i].message \in 1 .. published
  BY <1>3, <1>8 DEF MqttInv, QueueIsHonest, Q
<1>10. \A i \in 1 .. Len(new) : Good(new[i]) /\ new[i].message = m0
  BY <1>1, <1>2, <1>3 DEF Delivers
<1> HIDE DEF Good
<1>11. \A n \in 1 .. published : n <= m0
  BY <1>1
<1>12. \A d, e : d.message # e.message => Apart(d, e)
  BY DEF Apart
<1>13. QueueIsHonest'
  <2> DEFINE R == MqttQueue'
  <2>1. /\ DOMAIN R = 1 .. Len(Q) + Len(new)
        /\ \A i \in DOMAIN R : i \in 1 .. Len(Q) \/ (i - Len(Q) \in 1 .. Len(new) /\ R[i] = new[i - Len(Q)])
        /\ \A i \in 1 .. Len(Q) : R[i] = Q[i]
    BY <1>6
  <2> HIDE DEF R
  <2>2. \A i \in DOMAIN R : Good(R[i])
    BY <1>9, <1>10, <2>1
  <2>3. ASSUME NEW i \in DOMAIN R, NEW j \in DOMAIN R, i < j
        PROVE  Apart(R[i], R[j]) /\ R[i].message <= R[j].message
    <3>1. CASE i \in 1 .. Len(Q) /\ j \in 1 .. Len(Q)
      <4>1. R[i] = Q[i] /\ R[j] = Q[j]
        BY <2>1, <3>1
      <4>2. Apart(Q[i], Q[j]) /\ Q[i].message <= Q[j].message
        BY <1>3, <2>3, <3>1 DEF MqttInv, QueueIsHonest, Q
      <4> QED BY <4>1, <4>2
    <3>2. CASE i \in 1 .. Len(Q) /\ j \notin 1 .. Len(Q)
      <4>1. R[i] = Q[i] /\ R[j] = new[j - Len(Q)] /\ j - Len(Q) \in 1 .. Len(new)
        BY <2>1, <2>3, <3>2
      <4>2. R[i].message \in 1 .. published /\ R[j].message = m0
        BY <1>9, <1>10, <3>2, <4>1
      <4>3. R[i].message # R[j].message
        BY <1>1, <4>2
      <4> QED BY <1>11, <1>12, <4>2, <4>3
    <3>3. CASE i \notin 1 .. Len(Q)
      <4>1. /\ R[i] = new[i - Len(Q)] /\ i - Len(Q) \in 1 .. Len(new)
            /\ R[j] = new[j - Len(Q)] /\ j - Len(Q) \in 1 .. Len(new) /\ i - Len(Q) < j - Len(Q)
        BY <1>3, <2>1, <2>3, <3>3
      <4>2. R[i].message = m0 /\ R[j].message = m0 /\ m0 <= m0
        BY <1>1, <1>10, <4>1
      <4>3. Apart(R[i], R[j])
        BY <1>3, <4>1 DEF Delivers
      <4> QED BY <4>2, <4>3
    <3> QED BY <3>1, <3>2, <3>3
  <2> QED BY <1>8, <2>2, <2>3 DEF QueueIsHonest, R
<1>14. \A t \in handlers : Honest(t) /\ Good(t) /\ t.message \in 1 .. published
  BY <1>8 DEF MqttInv, HandlersAreHonest
<1>15. HandlersAreHonest'
  <2>1. \A t \in handlers' : Honest(t)' /\ IsInjective(t.todo) /\ ToSet(t.todo) \subseteq ToSet(t.ids)
    BY <1>8, <1>14 DEF MqttInv, HandlersAreHonest
  <2>2. \A t, u \in handlers' : t # u => Apart(t, u)
    BY DEF MqttInv, HandlersAreHonest
  <2>3. ASSUME NEW t \in handlers, NEW i \in DOMAIN MqttQueue'
        PROVE  Apart(t, MqttQueue'[i]) /\ t.message <= MqttQueue'[i].message
    <3>1. CASE i \in 1 .. Len(Q)
      BY <1>3, <1>6, <3>1 DEF MqttInv, HandlersAreHonest, Q
    <3>2. CASE i \notin 1 .. Len(Q)
      <4>1. MqttQueue'[i].message = m0
        BY <1>6, <1>10, <2>3, <3>2
      <4>2. t.message # m0 /\ t.message <= m0
        BY <1>1, <1>11, <1>14
      <4> QED BY <1>12, <4>1, <4>2
    <3> QED BY <3>1, <3>2
  <2> QED BY <2>1, <2>2, <2>3 DEF HandlersAreHonest
<1>16. \A m, r : Due(m, r) => Due(m, r)'
  <2> SUFFICES ASSUME NEW m, NEW r, Due(m, r) PROVE Due(m, r)'
    OBVIOUS
  <2>1. CASE \E i \in DOMAIN MqttQueue : MqttQueue[i].message = m /\ r \in ToSet(MqttQueue[i].ids)
    <3>1. PICK i \in 1 .. Len(Q) : Q[i].message = m /\ r \in ToSet(Q[i].ids)
      BY <1>3, <2>1 DEF Q
    <3> QED BY <1>6, <3>1 DEF Due
  <2>2. CASE \E t \in handlers : t.message = m /\ r \in ToSet(t.todo)
    BY <2>2 DEF Due
  <2> QED BY <2>1, <2>2 DEF Due
<1>17. \A m \in 1 .. published : \A r : Due(m, r)' => Due(m, r)
  <2> SUFFICES ASSUME NEW m \in 1 .. published, NEW r, Due(m, r)' PROVE Due(m, r)
    OBVIOUS
  <2>1. CASE \E t \in handlers : t.message = m /\ r \in ToSet(t.todo)
    BY <2>1 DEF Due
  <2>2. CASE \E i \in DOMAIN MqttQueue' : MqttQueue'[i].message = m /\ r \in ToSet(MqttQueue'[i].ids)
    <3>1. PICK i \in DOMAIN MqttQueue' : MqttQueue'[i].message = m /\ r \in ToSet(MqttQueue'[i].ids)
      BY <2>2
    <3>2. i \in 1 .. Len(Q)
      BY <1>1, <1>6, <1>10, <3>1
    <3>3. Q[i].message = m /\ r \in ToSet(Q[i].ids)
      BY <1>6, <3>1, <3>2
    <3> QED BY <1>3, <3>2, <3>3 DEF Due, Q
  <2> QED BY <2>1, <2>2 DEF Due
<1>18. ASSUME NEW m, m = m0, NEW r \in routes PROVE Due(m, r)'
  <2>1. PICK i \in 1 .. Len(new) : r \in ToSet(new[i].ids)
    BY <1>3 DEF Delivers
  <2>2. Len(Q) + i \in DOMAIN MqttQueue' /\ MqttQueue'[Len(Q) + i] = new[i] /\ new[i].message = m
    BY <1>6, <1>10, <1>18
  <2> QED BY <2>1, <2>2 DEF Due
<1>19. \A i \in DOMAIN ran : ran[i][1] \in 1 .. published /\ ran[i][2] \in wanted[ran[i][1]]
                              /\ ~Due(ran[i][1], ran[i][2])
  BY DEF MqttInv, RanIsHonest
<1>20. RanIsHonest'
  <2>1. \A i \in DOMAIN ran : /\ ran[i][1] \in 1 .. m0 /\ ran[i][2] \in wanted'[ran[i][1]]
                              /\ ~Due(ran[i][1], ran[i][2])'
    BY <1>1, <1>2, <1>17, <1>19
  <2> QED BY <2>1 DEF MqttInv, RanIsHonest
<1>21. NothingIsForgotten'
  <2> SUFFICES ASSUME session.phase # "stopped", NEW m \in 1 .. m0 \ gone, NEW r \in wanted'[m]
               PROVE  Due(m, r)' \/ \E i \in DOMAIN ran : ran[i] = <<m, r>>
    BY DEF NothingIsForgotten
  <2>1. CASE m = m0
    BY <1>2, <1>18, <2>1
  <2>2. CASE m # m0
    BY <1>1, <1>2, <1>16, <2>2 DEF MqttInv, NothingIsForgotten
  <2> QED BY <2>1, <2>2
<1>22. RanInOrder'
  <2>1. ASSUME NEW i \in DOMAIN ran, NEW j \in DOMAIN MqttQueue' PROVE ran[i][1] <= MqttQueue'[j].message
    <3>1. CASE j \in 1 .. Len(Q)
      BY <1>3, <1>6, <3>1 DEF MqttInv, RanInOrder, Q
    <3>2. CASE j \notin 1 .. Len(Q)
      <4>1. MqttQueue'[j].message = m0
        BY SMTT(20), <1>6, <1>10, <2>1, <3>2
      <4> QED BY <1>11, <1>19, <4>1
    <3> QED BY <3>1, <3>2
  <2> QED BY <2>1 DEF MqttInv, RanInOrder
<1>23. SessionStopped'
  BY DEF MqttInv, SessionStopped
<1> QED BY <1>7, <1>13, <1>15, <1>20, <1>21, <1>22, <1>23 DEF MqttInv

LEMMA BrokerKeeps == MqttInv /\ BrokerPublishes => MqttInv'
<1> SUFFICES ASSUME MqttInv, BrokerPublishes PROVE MqttInv'
  OBVIOUS
<1>1. PICK topic \in Topics : \E subs \in Listings(Matching(topic)) :
        /\ subs # <<>> /\ wanted' = [wanted EXCEPT ![published + 1] = ToSet(subs)]
        /\ \/ arrived' = Append(arrived, Delivery(published + 1, topic, subs))
           \/ arrived' = arrived \o [i \in DOMAIN subs |-> Delivery(published + 1, topic, <<subs[i]>>)]
  BY DEF BrokerPublishes
<1>2. PICK subs \in Listings(Matching(topic)) :
        /\ subs # <<>> /\ wanted' = [wanted EXCEPT ![published + 1] = ToSet(subs)]
        /\ \/ arrived' = Append(arrived, Delivery(published + 1, topic, subs))
           \/ arrived' = arrived \o [i \in DOMAIN subs |-> Delivery(published + 1, topic, <<subs[i]>>)]
  BY <1>1
<1>3. /\ published < MaxMessages /\ session.live /\ published' = published + 1
      /\ UNCHANGED <<session, inHand, slots, handlers, gone, ran>>
  BY DEF BrokerPublishes
<1>4. subs \in Seq(Nat) /\ IsInjective(subs)
  <2>1. /\ subs \in [1 .. Cardinality(Matching(topic)) -> Matching(topic)]
        /\ \A i, j \in DOMAIN subs : i < j => subs[i] < subs[j]
    BY DEF Listings
  <2>2. Matching(topic) \subseteq 1 .. session.subscribed /\ session.subscribed \in Nat
    BY MqttAssumption DEF Matching, MqttInv, MqttTypes
  <2>3. IsFiniteSet(1 .. session.subscribed)
    BY <2>2, FS_Interval
  <2>4. Cardinality(Matching(topic)) \in Nat
    BY <2>2, <2>3, FS_Subset, FS_CardinalityType
  <2>5. subs \in Seq(Nat) /\ DOMAIN subs = 1 .. Cardinality(Matching(topic))
    BY <2>1, <2>2, <2>4
  <2>6. \A i \in DOMAIN subs : subs[i] \in Nat /\ i \in Nat
    BY <2>4, <2>5
  <2>7. IsInjective(subs)
    BY <2>1, <2>6 DEF IsInjective
  <2> QED BY <2>5, <2>7
<1>5. published + 1 \in Nat
  BY DEF MqttInv, MqttTypes
<1>6. /\ Delivers(<<Delivery(published + 1, topic, subs)>>, published + 1, ToSet(subs))
      /\ Delivers([i \in DOMAIN subs |-> Delivery(published + 1, topic, <<subs[i]>>)],
                  published + 1, ToSet(subs))
  BY <1>2, <1>4, <1>5, DeliveriesAre
<1>7. \A d : Append(arrived, d) = arrived \o <<d>>
  OBVIOUS
<1>8. CASE arrived' = Append(arrived, Delivery(published + 1, topic, subs))
  BY <1>2, <1>3, <1>6, <1>7, <1>8, DeliveryKeeps
<1>9. CASE arrived' = arrived \o [i \in DOMAIN subs |-> Delivery(published + 1, topic, <<subs[i]>>)]
  BY <1>2, <1>3, <1>6, <1>9, DeliveryKeeps
<1> QED BY <1>2, <1>8, <1>9

(* Overlapping filters each fire once, a slot is never lost, and one slot  *)
(* means strict order, for any filters, topics and number of slots and     *)
(* through any lost connection (docs/en/mqtt.md:217-223).                  *)
THEOREM MessagesStaySound == MqttSpec => []MessagesAreSound
<1>1. MqttInit => MqttInv
  <2> SUFFICES ASSUME MqttInit PROVE MqttInv
    OBVIOUS
  <2>1. IsFiniteSet({}) /\ Cardinality({}) = 0
    BY FS_EmptySet
  <2>2. MqttQueue = <<>> /\ DOMAIN MqttQueue = {}
    BY DEF MqttInit, MqttQueue
  <2>3. Len(Filters) \in Nat
    BY MqttAssumption
  <2>4. MqttTypes
    BY <2>1, <2>3, MqttAssumption DEF MqttInit, MqttTypes
  <2> QED
    BY <2>2, <2>4 DEF MqttInit, MqttInv, QueueIsHonest, HandlersAreHonest, RanIsHonest,
                      NothingIsForgotten, RanInOrder, SessionStopped
<1>2. MqttInv /\ [MqttNext]_mqttVars => MqttInv'
  BY SessionSteps, TaskKeeps, LossKeeps, StopKeeps, BrokerKeeps, RunsKeeps, RepliesKeeps, DoneKeeps
  DEF MqttNext
<1>3. MqttInv => MessagesAreSound
  <2> SUFFICES ASSUME MqttInv PROVE MessagesAreSound
    OBVIOUS
  <2>1. slots + Cardinality(handlers) = MaxHandlers
    BY DEF MqttInv, MqttTypes
  <2>2. \A i, j \in DOMAIN ran : ran[i] = ran[j] => i = j
    BY DEF MqttInv, RanIsHonest
  <2>3. ASSUME session.phase # "stopped", NEW m \in 1 .. published, ~InFlight(m), m \notin gone
        PROVE  wanted[m] = {ran[i][2] : i \in {j \in DOMAIN ran : ran[j][1] = m}}
    <3>1. \A r : ~Due(m, r)
      <4>1. \A t \in handlers : t.message # m
        BY <2>3 DEF InFlight
      <4>2. \A i \in DOMAIN MqttQueue : MqttQueue[i].message # m
        <5>1. /\ arrived \in Seq(DeliveryRecord) /\ inHand \in Seq(DeliveryRecord) /\ Len(inHand) <= 1
              /\ Len(arrived) \in Nat /\ Len(inHand) \in Nat /\ DOMAIN arrived = 1 .. Len(arrived)
          BY DEF MqttInv, MqttTypes
        <5>2. /\ DOMAIN MqttQueue = 1 .. Len(inHand) + Len(arrived)
              /\ \A i \in 1 .. Len(inHand) + Len(arrived) :
                   MqttQueue[i] = IF i <= Len(inHand) THEN inHand[i] ELSE arrived[i - Len(inHand)]
          BY <5>1, ConcatProperties DEF MqttQueue
        <5>3. ASSUME NEW i \in DOMAIN MqttQueue, i <= Len(inHand) PROVE MqttQueue[i].message # m
          <6>1. i = 1 /\ inHand # <<>> /\ MqttQueue[i] = inHand[1]
            BY <5>1, <5>2, <5>3
          <6> QED BY <2>3, <6>1 DEF InFlight
        <5>4. ASSUME NEW i \in DOMAIN MqttQueue, ~(i <= Len(inHand)) PROVE MqttQueue[i].message # m
          <6>1. i - Len(inHand) \in DOMAIN arrived /\ MqttQueue[i] = arrived[i - Len(inHand)]
            BY <5>1, <5>2, <5>4
          <6> QED BY <2>3, <6>1 DEF InFlight
        <5> QED BY <5>3, <5>4
      <4> QED BY <4>1, <4>2 DEF Due
    <3>2. \A r \in wanted[m] : \E i \in DOMAIN ran : ran[i] = <<m, r>>
      BY <2>3, <3>1 DEF MqttInv, NothingIsForgotten
    <3>3. \A i \in DOMAIN ran : ran[i][2] \in wanted[ran[i][1]]
      BY DEF MqttInv, RanIsHonest
    <3> QED BY <3>2, <3>3
  <2>4. MaxHandlers = 1 => \A i, j \in DOMAIN ran : i < j => ran[i][1] <= ran[j][1]
    BY DEF MqttInv, RanInOrder
  <2> QED BY <2>1, <2>2, <2>3, <2>4 DEF MessagesAreSound, EachRouteFiresOnce, SlotsAreSound
<1> QED BY <1>1, <1>2, <1>3, PTL DEF MqttSpec

----------------------------------------------------------------------------
(* OPC UA nodes                                                            *)

ServerStates ==
  [phase : {"down", "listening", "watching"}, node : [UaNodes -> UaValue],
   own : [Handled -> Seq(UaValue)], ready : SUBSET Handled, base : [Handled -> UaValue],
   handled : [Handled -> Seq(UaValue)]]
ClientStates ==
  [phase : {"off", "subscribing", "watching", "stopped"}, live : BOOLEAN, subscribed : SUBSET UaNodes]
UaSeen == [UaNodes -> UaValue \union {NotNotified}]

UaTypes ==
  /\ uaServer \in ServerStates /\ provided \in [UaNodes -> UaValue]
  /\ DOMAIN asked = Handled /\ uaClient \in ClientStates
  /\ feed \in [UaNodes -> Seq(UaValue)] /\ lastSeen \in UaSeen /\ firstSeen \in UaSeen
  /\ told \in [UaWatches -> UaValue \union {NotNotified}]

(* The server's own subscription to a node that has a write handler: the   *)
(* first notification is what the node held, the others are writes, and    *)
(* the last is what the node holds.                                        *)
OwnReads(n) ==
  /\ uaServer.phase # "watching" =>
       uaServer.own[n] = <<>> /\ uaServer.handled[n] = <<>> /\ n \notin uaServer.ready
  /\ \A i \in DOMAIN uaServer.handled[n] : uaServer.handled[n][i] \in asked[n]
  /\ \A i \in DOMAIN uaServer.own[n] :
       uaServer.own[n][i] \in asked[n] \/ (i = 1 /\ n \notin uaServer.ready)
  /\ n \notin uaServer.ready => uaServer.handled[n] = <<>>
  /\ uaServer.phase = "watching" =>
       /\ n \notin uaServer.ready =>
            uaServer.own[n] # <<>> /\ uaServer.own[n][1] = uaServer.base[n]
       /\ uaServer.own[n] # <<>> =>
            uaServer.own[n][Len(uaServer.own[n])] = uaServer.node[n]
       /\ uaServer.own[n] = <<>> =>
            \/ uaServer.handled[n] = <<>> /\ uaServer.node[n] = uaServer.base[n]
            \/ /\ uaServer.handled[n] # <<>>
               /\ uaServer.handled[n][Len(uaServer.handled[n])] = uaServer.node[n]

(* The client's subscription to a node ends with what the node holds.      *)
FeedReads(n) ==
  uaClient.live /\ n \in uaClient.subscribed =>
    /\ feed[n] # <<>> => feed[n][Len(feed[n])] = uaServer.node[n]
    /\ feed[n] = <<>> => lastSeen[n] = uaServer.node[n]

WatchReads(w) ==
  /\ lastSeen[w.node] = NotNotified => told[w] = NotNotified /\ firstSeen[w.node] = NotNotified
  /\ lastSeen[w.node] # NotNotified =>
       \/ told[w] = lastSeen[w.node]
       \/ told[w] = NotNotified /\ ~w.initial /\ lastSeen[w.node] = firstSeen[w.node]

UaInv ==
  /\ UaTypes /\ (uaClient.live => uaServer.phase # "down")
  /\ \A n \in Handled : OwnReads(n)
  /\ \A n \in UaNodes : FeedReads(n)
  /\ \A w \in UaWatches : WatchReads(w)

LEMMA UaConstants ==
  /\ NotNotified \notin UaValue /\ 0 \in UaValue /\ Handled \subseteq UaNodes
  /\ \A w \in UaWatches : w.node \in UaNodes
BY UaAssumption DEF NotNotified, UaValue

LEMMA EmptyServer ==
  /\ NoServer \in ServerStates
  /\ NoServer.phase = "down" /\ NoServer.ready = {}
  /\ NoServer.own = [n \in Handled |-> <<>>] /\ NoServer.handled = [n \in Handled |-> <<>>]
BY UaConstants DEF NoServer, ServerStates

LEMMA UaInitInv == UaInit => UaInv
<1> SUFFICES ASSUME UaInit PROVE UaInv
  OBVIOUS
<1>1. UaTypes
  <2>1. uaClient \in ClientStates
    BY DEF UaInit, ClientStates
  <2> QED
    BY <2>1, EmptyServer, UaConstants DEF UaInit, UaTypes, UaSeen
<1>2. ~uaClient.live
  BY DEF UaInit
<1>3. \A n \in Handled : OwnReads(n)
  BY EmptyServer DEF UaInit, OwnReads
<1>4. \A w \in UaWatches : WatchReads(w)
  BY UaConstants DEF UaInit, WatchReads
<1> QED
  BY <1>1, <1>2, <1>3, <1>4 DEF UaInv, FeedReads

(* What a sequence gains and loses at its ends.                            *)
LEMMA SequenceEnds ==
  ASSUME NEW S, NEW s \in Seq(S)
  PROVE  /\ \A v \in S : /\ Append(s, v) \in Seq(S) /\ Append(s, v) # <<>>
                         /\ Append(s, v)[Len(Append(s, v))] = v
                         /\ \A i \in DOMAIN Append(s, v) :
                              (Append(s, v)[i] = v /\ i = Len(s) + 1) \/ (i \in DOMAIN s /\ Append(s, v)[i] = s[i])
                         /\ s # <<>> => Append(s, v)[1] = s[1]
                         /\ s = <<>> => Append(s, v)[1] = v
         /\ s # <<>> => /\ Tail(s) \in Seq(S) /\ Head(s) \in S /\ Head(s) = s[1] /\ 1 \in DOMAIN s
                        /\ \A i \in DOMAIN Tail(s) : i + 1 \in DOMAIN s /\ Tail(s)[i] = s[i + 1] /\ i + 1 # 1
                        /\ Tail(s) # <<>> => Tail(s)[Len(Tail(s))] = s[Len(s)]
                        /\ Tail(s) = <<>> => s[Len(s)] = s[1]
<1>1. ASSUME NEW v \in S
      PROVE  /\ Append(s, v) \in Seq(S) /\ Append(s, v) # <<>>
             /\ Append(s, v)[Len(Append(s, v))] = v
             /\ \A i \in DOMAIN Append(s, v) :
                  (Append(s, v)[i] = v /\ i = Len(s) + 1) \/ (i \in DOMAIN s /\ Append(s, v)[i] = s[i])
             /\ s # <<>> => Append(s, v)[1] = s[1]
             /\ s = <<>> => Append(s, v)[1] = v
  <2>1. /\ Append(s, v) \in Seq(S) /\ Len(Append(s, v)) = Len(s) + 1 /\ Len(s) \in Nat
        /\ Append(s, v)[Len(s) + 1] = v /\ DOMAIN Append(s, v) = 1 .. Len(s) + 1
        /\ DOMAIN s = 1 .. Len(s)
    OBVIOUS
  <2>2. \A i \in 1 .. Len(s) : Append(s, v)[i] = s[i]
    OBVIOUS
  <2>3. s # <<>> => 1 \in 1 .. Len(s)
    OBVIOUS
  <2>4. s = <<>> => Len(s) + 1 = 1
    OBVIOUS
  <2>5. Append(s, v) # <<>>
    BY SMTT(20)
  <2>6. \A i \in 1 .. Len(s) + 1 : i = Len(s) + 1 \/ i \in 1 .. Len(s)
    BY <2>1
  <2>7. \A i \in DOMAIN Append(s, v) :
          (Append(s, v)[i] = v /\ i = Len(s) + 1) \/ (i \in DOMAIN s /\ Append(s, v)[i] = s[i])
    <3> SUFFICES ASSUME NEW i \in 1 .. Len(s) + 1
                 PROVE  (Append(s, v)[i] = v /\ i = Len(s) + 1) \/ (i \in 1 .. Len(s) /\ Append(s, v)[i] = s[i])
      BY <2>1
    <3>1. CASE i = Len(s) + 1
      <4>1. Append(s, v)[i] = v
        BY <2>1, <3>1, Zenon
      <4> QED
        BY <3>1, <4>1, Zenon
    <3>2. CASE i \in 1 .. Len(s)
      BY <2>2, <3>2
    <3> QED
      BY <2>6, <3>1, <3>2
  <2>8. s # <<>> => Append(s, v)[1] = s[1]
    BY <2>2, <2>3
  <2>9. s = <<>> => Append(s, v)[1] = v
    BY <2>1, <2>4
  <2>10. Append(s, v)[Len(Append(s, v))] = v
    BY <2>1
  <2> QED
    BY <2>1, <2>5, <2>7, <2>8, <2>9, <2>10
<1>2. ASSUME s # <<>>
      PROVE  /\ Tail(s) \in Seq(S) /\ Head(s) \in S /\ Head(s) = s[1] /\ 1 \in DOMAIN s
             /\ \A i \in DOMAIN Tail(s) : i + 1 \in DOMAIN s /\ Tail(s)[i] = s[i + 1] /\ i + 1 # 1
             /\ Tail(s) # <<>> => Tail(s)[Len(Tail(s))] = s[Len(s)]
             /\ Tail(s) = <<>> => s[Len(s)] = s[1]
  <2>1. /\ Tail(s) \in Seq(S) /\ Head(s) = s[1] /\ Len(s) \in Nat /\ Len(s) >= 1
        /\ Len(Tail(s)) = Len(s) - 1 /\ DOMAIN s = 1 .. Len(s) /\ s[1] \in S
    BY <1>2
  <2>2. DOMAIN Tail(s) = 1 .. Len(s) - 1
    BY <2>1
  <2>3. \A i \in 1 .. Len(s) - 1 : Tail(s)[i] = s[i + 1]
    BY <1>2
  <2>4. \A i \in 1 .. Len(s) - 1 : i + 1 \in 1 .. Len(s) /\ i + 1 # 1
    BY <2>1
  <2>5. Tail(s) # <<>> => Len(s) - 1 \in 1 .. Len(s) - 1 /\ (Len(s) - 1) + 1 = Len(s)
    BY <2>1
  <2>6. Tail(s) = <<>> => Len(s) = 1
    BY <2>1
  <2>7. Tail(s) # <<>> => Tail(s)[Len(Tail(s))] = s[Len(s)]
    BY <2>1, <2>3, <2>5
  <2> QED
    BY <2>1, <2>2, <2>3, <2>4, <2>6, <2>7
<1> QED
  BY <1>1, <1>2

(* A write reaches the node, and whoever is subscribed to a node it changes. *)
LEMMA WriteReaches ==
  ASSUME UaTypes, NEW values, DOMAIN values \subseteq UaNodes, \A m \in DOMAIN values : values[m] \in UaValue,
         Written(values)
  PROVE  /\ uaServer' \in ServerStates /\ feed' \in [UaNodes -> Seq(UaValue)]
         /\ uaServer'.phase = uaServer.phase /\ uaServer'.ready = uaServer.ready
         /\ uaServer'.base = uaServer.base /\ uaServer'.handled = uaServer.handled
         /\ \A n \in UaNodes :
              \/ uaServer'.node[n] = uaServer.node[n] /\ feed'[n] = feed[n]
              \/ /\ uaServer'.node[n] \in UaValue
                 /\ uaClient.live /\ n \in uaClient.subscribed =>
                      feed'[n] = Append(feed[n], uaServer'.node[n])
         /\ \A n \in Handled :
              \/ uaServer'.node[n] = uaServer.node[n] /\ uaServer'.own[n] = uaServer.own[n]
              \/ /\ n \in DOMAIN values /\ uaServer'.node[n] = values[n]
                 /\ uaServer'.own[n] = IF uaServer.phase = "watching"
                                       THEN Append(uaServer.own[n], values[n]) ELSE uaServer.own[n]
<1> DEFINE changed == {n \in DOMAIN values : values[n] # uaServer.node[n]}
           N == [n \in UaNodes |-> IF n \in changed THEN values[n] ELSE uaServer.node[n]]
           O == [n \in Handled |-> IF n \in changed /\ uaServer.phase = "watching"
                                   THEN Append(uaServer.own[n], values[n]) ELSE uaServer.own[n]]
<1>1. uaServer \in ServerStates /\ feed \in [UaNodes -> Seq(UaValue)] /\ Handled \subseteq UaNodes
  BY UaConstants DEF UaTypes
<1>2. /\ uaServer' = [uaServer EXCEPT !.node = N, !.own = O]
      /\ feed' = [n \in UaNodes |-> IF n \in changed \cap uaClient.subscribed /\ uaClient.live
                                    THEN Append(feed[n], values[n]) ELSE feed[n]]
  BY DEF Written
<1>3. N \in [UaNodes -> UaValue]
  BY <1>1 DEF ServerStates
<1>4. O \in [Handled -> Seq(UaValue)]
  BY <1>1 DEF ServerStates
<1>5. uaServer'.node = N /\ uaServer'.own = O
  BY <1>1, <1>2 DEF ServerStates
<1>6. /\ uaServer'.phase = uaServer.phase /\ uaServer'.ready = uaServer.ready
      /\ uaServer'.base = uaServer.base /\ uaServer'.handled = uaServer.handled
  BY <1>1, <1>2 DEF ServerStates
<1>7. uaServer' \in ServerStates
  <2> HIDE DEF N, O
  <2> QED
    BY <1>1, <1>2, <1>3, <1>4 DEF ServerStates
<1>8. feed' \in [UaNodes -> Seq(UaValue)]
  BY <1>1, <1>2
<1> QED
  BY <1>1, <1>2, <1>3, <1>5, <1>6, <1>7, <1>8

(* What a write leaves behind at each node: `fresh' are the values that    *)
(* clients wrote with it.                                                  *)
LEMMA WriteKeeps ==
  ASSUME UaInv, NEW values, DOMAIN values \subseteq UaNodes, \A m \in DOMAIN values : values[m] \in UaValue,
         Written(values), UNCHANGED <<provided, uaClient, lastSeen, firstSeen, told>>,
         DOMAIN asked' = Handled,
         \A n \in Handled : asked[n] \subseteq asked'[n]
                            /\ (n \in DOMAIN values => values[n] \in asked'[n])
  PROVE  UaInv'
<1>1. /\ uaServer' \in ServerStates /\ feed' \in [UaNodes -> Seq(UaValue)]
      /\ uaServer'.phase = uaServer.phase /\ uaServer'.ready = uaServer.ready
      /\ uaServer'.base = uaServer.base /\ uaServer'.handled = uaServer.handled
      /\ \A n \in UaNodes :
           \/ uaServer'.node[n] = uaServer.node[n] /\ feed'[n] = feed[n]
           \/ /\ uaServer'.node[n] \in UaValue
              /\ uaClient.live /\ n \in uaClient.subscribed =>
                   feed'[n] = Append(feed[n], uaServer'.node[n])
      /\ \A n \in Handled :
           \/ uaServer'.node[n] = uaServer.node[n] /\ uaServer'.own[n] = uaServer.own[n]
           \/ /\ n \in DOMAIN values /\ uaServer'.node[n] = values[n]
              /\ uaServer'.own[n] = IF uaServer.phase = "watching"
                                    THEN Append(uaServer.own[n], values[n]) ELSE uaServer.own[n]
  BY WriteReaches DEF UaInv
<1>2. UaTypes'
  BY <1>1 DEF UaInv, UaTypes
<1>3. ASSUME NEW n \in UaNodes PROVE FeedReads(n)'
  <2>1. FeedReads(n) /\ feed[n] \in Seq(UaValue)
    BY DEF UaInv, UaTypes
  <2>2. CASE uaServer'.node[n] = uaServer.node[n] /\ feed'[n] = feed[n]
    BY <2>1, <2>2 DEF FeedReads
  <2>3. CASE /\ uaServer'.node[n] \in UaValue
             /\ uaClient.live /\ n \in uaClient.subscribed =>
                  feed'[n] = Append(feed[n], uaServer'.node[n])
    BY <2>1, <2>3, SequenceEnds DEF FeedReads
  <2> QED
    BY <1>1, <2>2, <2>3
<1>4. ASSUME NEW n \in Handled PROVE OwnReads(n)'
  <2>1. OwnReads(n) /\ uaServer.own[n] \in Seq(UaValue)
    BY DEF UaInv, UaTypes, ServerStates
  <2>2. CASE uaServer'.node[n] = uaServer.node[n] /\ uaServer'.own[n] = uaServer.own[n]
    BY <1>1, <2>1, <2>2 DEF OwnReads
  <2>3. CASE /\ n \in DOMAIN values /\ uaServer'.node[n] = values[n] /\ uaServer.phase = "watching"
             /\ uaServer'.own[n] = Append(uaServer.own[n], values[n])
    <3> DEFINE s == uaServer.own[n]
               v == values[n]
    <3>1. v \in UaValue /\ v \in asked'[n] /\ asked[n] \subseteq asked'[n]
      BY <2>3
    <3>2. /\ uaServer'.own[n] # <<>> /\ uaServer'.own[n][Len(uaServer'.own[n])] = uaServer'.node[n]
          /\ \A i \in DOMAIN uaServer'.own[n] :
               uaServer'.own[n][i] = v \/ (i \in DOMAIN s /\ uaServer'.own[n][i] = s[i])
          /\ s # <<>> => uaServer'.own[n][1] = s[1]
      BY <2>1, <2>3, <3>1, SequenceEnds
    <3> HIDE DEF v, s
    <3>3. n \notin uaServer.ready => s # <<>> /\ s[1] = uaServer.base[n]
      BY <2>1, <2>3 DEF OwnReads, s
    <3>4. \A i \in DOMAIN uaServer'.own[n] :
            uaServer'.own[n][i] \in asked'[n] \/ (i = 1 /\ n \notin uaServer'.ready)
      BY <1>1, <2>1, <3>1, <3>2 DEF OwnReads, s
    <3>5. \A i \in DOMAIN uaServer'.handled[n] : uaServer'.handled[n][i] \in asked'[n]
      BY <1>1, <2>1, <3>1 DEF OwnReads
    <3>6. n \notin uaServer'.ready => uaServer'.handled[n] = <<>>
      BY <1>1, <2>1 DEF OwnReads
    <3> QED
      BY <1>1, <2>3, <3>2, <3>3, <3>4, <3>5, <3>6 DEF OwnReads
  <2>4. CASE /\ n \in DOMAIN values /\ uaServer.phase # "watching"
             /\ uaServer'.own[n] = uaServer.own[n]
    <3>1. asked[n] \subseteq asked'[n]
      OBVIOUS
    <3> QED
      BY <1>1, <2>1, <2>4, <3>1 DEF OwnReads
  <2> QED
    BY <1>1, <2>2, <2>3, <2>4
<1> QED
  BY <1>1, <1>2, <1>3, <1>4 DEF UaInv, WatchReads

LEMMA LocalChangeKeeps ==
  ASSUME UaInv, NEW n \in Handled, LocalChange(n) PROVE UaInv'
<1> DEFINE s == uaServer.own[n]
           v == Head(s)
           h == IF n \in uaServer.ready THEN Append(uaServer.handled[n], v) ELSE uaServer.handled[n]
           O == [uaServer.own EXCEPT ![n] = Tail(s)]
           H == [uaServer.handled EXCEPT ![n] = h]
           R == uaServer.ready \union {n}
<1>1. /\ uaServer \in ServerStates /\ uaServer.own \in [Handled -> Seq(UaValue)]
      /\ uaServer.handled \in [Handled -> Seq(UaValue)] /\ s \in Seq(UaValue) /\ s # <<>>
      /\ uaServer.handled[n] \in Seq(UaValue) /\ uaServer.phase = "watching" /\ OwnReads(n)
  BY DEF UaInv, UaTypes, ServerStates, LocalChange
<1>2. /\ v \in UaValue /\ Tail(s) \in Seq(UaValue) /\ v = s[1] /\ 1 \in DOMAIN s
      /\ \A i \in DOMAIN Tail(s) : i + 1 \in DOMAIN s /\ Tail(s)[i] = s[i + 1] /\ i + 1 # 1
      /\ Tail(s) # <<>> => Tail(s)[Len(Tail(s))] = s[Len(s)]
      /\ Tail(s) = <<>> => s[Len(s)] = s[1]
  BY <1>1, SequenceEnds
<1>3. /\ UNCHANGED <<provided, asked, uaClient, feed, lastSeen, firstSeen, told>>
      /\ uaServer' = [uaServer EXCEPT !.own = O, !.ready = R, !.handled = H]
  BY <1>1 DEF LocalChange, ServerStates
<1>4. h \in Seq(UaValue)
  BY <1>1, <1>2
<1>5. O \in [Handled -> Seq(UaValue)] /\ H \in [Handled -> Seq(UaValue)] /\ R \in SUBSET Handled
  <2> HIDE DEF h, s
  <2> QED
    BY <1>1, <1>2, <1>4 DEF ServerStates
<1>6. /\ uaServer' \in ServerStates
      /\ uaServer'.own = O /\ uaServer'.handled = H /\ uaServer'.ready = R
      /\ uaServer'.phase = "watching" /\ uaServer'.node = uaServer.node
      /\ uaServer'.base = uaServer.base
  <2> HIDE DEF O, H, R
  <2> QED
    BY <1>1, <1>3, <1>5 DEF ServerStates
<1>7. UaTypes'
  BY <1>3, <1>6 DEF UaInv, UaTypes
<1>8. \A m \in Handled \ {n} : OwnReads(m)'
  <2> SUFFICES ASSUME NEW m \in Handled \ {n} PROVE OwnReads(m)'
    OBVIOUS
  <2>1. OwnReads(m)
    BY DEF UaInv
  <2>2. /\ uaServer'.own[m] = uaServer.own[m] /\ uaServer'.handled[m] = uaServer.handled[m]
        /\ (m \in uaServer'.ready) = (m \in uaServer.ready)
    BY <1>1, <1>6
  <2> QED
    BY <1>1, <1>3, <1>6, <2>1, <2>2 DEF OwnReads
<1>9. OwnReads(n)'
  <2>1. uaServer'.own[n] = Tail(s) /\ uaServer'.handled[n] = h /\ n \in uaServer'.ready
    BY <1>1, <1>6
  <2>2. \A i \in DOMAIN Tail(s) : Tail(s)[i] \in asked[n]
    BY <1>1, <1>2 DEF OwnReads
  <2>3. \A i \in DOMAIN h : h[i] \in asked[n]
    <3>1. n \in uaServer.ready => v \in asked[n]
      BY <1>1, <1>2 DEF OwnReads
    <3>2. CASE n \in uaServer.ready
      <4>1. \A i \in DOMAIN h : h[i] = v \/ (i \in DOMAIN uaServer.handled[n] /\ h[i] = uaServer.handled[n][i])
        BY <1>1, <1>2, <3>2, SequenceEnds
      <4> HIDE DEF h, v
      <4> QED
        BY <1>1, <3>1, <3>2, <4>1 DEF OwnReads
    <3>3. CASE n \notin uaServer.ready
      BY <1>1, <3>3 DEF OwnReads
    <3> QED
      BY <3>2, <3>3
  <2>4. Tail(s) # <<>> => Tail(s)[Len(Tail(s))] = uaServer.node[n]
    BY <1>1, <1>2 DEF OwnReads
  <2>5. Tail(s) = <<>> => v = uaServer.node[n]
    BY <1>1, <1>2 DEF OwnReads
  <2>6. Tail(s) = <<>> => \/ h = <<>> /\ uaServer.node[n] = uaServer.base[n]
                          \/ h # <<>> /\ h[Len(h)] = uaServer.node[n]
    <3>1. CASE n \in uaServer.ready
      <4>1. uaServer.handled[n] \in Seq(UaValue) /\ v \in UaValue /\ h = Append(uaServer.handled[n], v)
        BY <1>1, <1>2, <3>1
      <4> HIDE DEF h, v
      <4>2. h # <<>> /\ h[Len(h)] = v
        BY <4>1, SequenceEnds
      <4> QED
        BY <2>5, <4>2
    <3>2. CASE n \notin uaServer.ready
      <4>1. h = <<>> /\ v = uaServer.base[n]
        BY <1>1, <1>2, <3>2 DEF OwnReads
      <4> QED
        BY <2>5, <4>1
    <3> QED
      BY <3>1, <3>2
  <2> HIDE DEF h, s, v
  <2> QED
    BY <1>3, <1>6, <2>1, <2>2, <2>3, <2>4, <2>6 DEF OwnReads
<1>10. (uaClient.live => uaServer.phase # "down")' /\ \A m \in UaNodes : FeedReads(m)'
  BY <1>1, <1>3, <1>6 DEF UaInv, FeedReads
<1> QED
  BY <1>3, <1>7, <1>8, <1>9, <1>10 DEF UaInv, WatchReads

LEMMA ServerKeeps ==
  ASSUME UaInv, NodesCreated \/ WatchesWrites \/ ServerStops PROVE UaInv'
<1>0. uaServer \in ServerStates /\ uaClient \in ClientStates /\ Handled \subseteq UaNodes
  BY UaConstants DEF UaInv, UaTypes
<1>1. CASE NodesCreated
  <2>1. /\ uaServer.phase = "down" /\ uaServer' = [NoServer EXCEPT !.phase = "listening"]
        /\ asked' = [n \in Handled |-> {}]
        /\ UNCHANGED <<provided, uaClient, feed, lastSeen, firstSeen, told>>
    BY <1>1 DEF NodesCreated
  <2>2. /\ uaServer' \in ServerStates /\ uaServer'.phase = "listening" /\ uaServer'.ready = {}
        /\ uaServer'.own = [n \in Handled |-> <<>>] /\ uaServer'.handled = [n \in Handled |-> <<>>]
    BY <2>1, EmptyServer DEF ServerStates
  <2>3. ~uaClient.live /\ UaTypes'
    BY <2>1, <2>2 DEF UaInv, UaTypes
  <2>4. \A n \in Handled : OwnReads(n)'
    BY <2>2 DEF OwnReads
  <2>5. (\A n \in UaNodes : FeedReads(n)') /\ \A w \in UaWatches : WatchReads(w)'
    BY <2>1, <2>3 DEF UaInv, FeedReads, WatchReads
  <2> QED
    BY <2>1, <2>3, <2>4, <2>5 DEF UaInv
<1>2. CASE WatchesWrites
  <2> DEFINE O == [n \in Handled |-> <<uaServer.node[n]>>]
             B == [n \in Handled |-> uaServer.node[n]]
  <2>1. /\ uaServer.phase = "listening"
        /\ uaServer' = [uaServer EXCEPT !.phase = "watching", !.own = O, !.base = B]
        /\ UNCHANGED <<provided, asked, uaClient, feed, lastSeen, firstSeen, told>>
    BY <1>2 DEF WatchesWrites
  <2>2. O \in [Handled -> Seq(UaValue)] /\ B \in [Handled -> UaValue]
    BY <1>0 DEF ServerStates
  <2>3. /\ uaServer' \in ServerStates /\ uaServer'.phase = "watching"
        /\ uaServer'.ready = uaServer.ready /\ uaServer'.own = O /\ uaServer'.base = B
        /\ uaServer'.handled = uaServer.handled /\ uaServer'.node = uaServer.node
    <3> HIDE DEF O, B
    <3> QED
      BY <1>0, <2>1, <2>2 DEF ServerStates
  <2>4. UaTypes' /\ (uaClient.live => uaServer.phase # "down")'
    BY <2>1, <2>3 DEF UaInv, UaTypes
  <2>5. ASSUME NEW n \in Handled PROVE OwnReads(n)'
    <3>1. uaServer.handled[n] = <<>> /\ n \notin uaServer.ready
      BY <2>1 DEF UaInv, OwnReads
    <3>2. uaServer'.own[n] = <<uaServer'.node[n]>> /\ uaServer'.base[n] = uaServer'.node[n]
      BY <2>3
    <3> QED
      BY <2>3, <3>1, <3>2 DEF OwnReads
  <2>6. (\A n \in UaNodes : FeedReads(n)') /\ \A w \in UaWatches : WatchReads(w)'
    BY <2>1, <2>3 DEF UaInv, FeedReads, WatchReads
  <2> QED
    BY <2>4, <2>5, <2>6 DEF UaInv
<1>3. CASE ServerStops
  <2>1. /\ uaServer' = NoServer /\ uaClient' = [uaClient EXCEPT !.live = FALSE]
        /\ UNCHANGED <<provided, asked, feed, lastSeen, firstSeen, told>>
    BY <1>3 DEF ServerStops
  <2>2. uaClient' \in ClientStates /\ ~uaClient'.live
    BY <1>0, <2>1 DEF ClientStates
  <2>3. UaTypes'
    BY <2>1, <2>2, EmptyServer DEF UaInv, UaTypes
  <2>4. \A n \in Handled : OwnReads(n)'
    BY <2>1, EmptyServer DEF OwnReads
  <2>5. (\A n \in UaNodes : FeedReads(n)') /\ \A w \in UaWatches : WatchReads(w)'
    BY <2>1, <2>2 DEF UaInv, FeedReads, WatchReads
  <2> QED
    BY <2>2, <2>3, <2>4, <2>5 DEF UaInv
<1> QED
  BY <1>1, <1>2, <1>3

(* Steps of the client that leave the server and what was seen alone.      *)
LEMMA ClientKeeps ==
  ASSUME UaInv, \/ ClientConnects \/ SubscribeFails \/ ClientStops
                \/ \E n \in UaNodes : SubscribesTo(n)
  PROVE  UaInv'
<1>0. /\ uaServer \in ServerStates /\ uaClient \in ClientStates /\ Watchable \subseteq UaNodes
      /\ feed \in [UaNodes -> Seq(UaValue)]
      /\ UNCHANGED <<uaServer, provided, asked, lastSeen, firstSeen, told>>
  <2>1. UNCHANGED <<uaServer, provided, asked, lastSeen, firstSeen, told>>
    BY DEF ClientConnects, SubscribeFails, ClientStops, SubscribesTo
  <2>2. Watchable \subseteq UaNodes
    BY UaConstants DEF Watchable
  <2> QED
    BY <2>1, <2>2 DEF UaInv, UaTypes
<1>1. ASSUME uaClient' \in ClientStates, feed' \in [UaNodes -> Seq(UaValue)],
             uaClient'.live => uaServer.phase # "down", \A n \in UaNodes : FeedReads(n)'
      PROVE  UaInv'
  BY <1>0, <1>1 DEF UaInv, UaTypes, OwnReads, WatchReads
<1>2. CASE ClientConnects \/ SubscribeFails \/ ClientStops
  <2>1. /\ feed' = [n \in UaNodes |-> <<>>] /\ uaClient' \in ClientStates
        /\ uaClient'.subscribed = {} /\ (uaClient'.live => uaServer.phase # "down")
    <3>1. CASE ClientConnects
      BY <3>1 DEF ClientConnects, ClientStates
    <3>2. CASE SubscribeFails
      BY <3>2 DEF SubscribeFails, ClientStates
    <3>3. CASE ClientStops
      BY <3>3 DEF ClientStops, ClientStates
    <3> QED
      BY <1>2, <3>1, <3>2, <3>3
  <2>2. feed' \in [UaNodes -> Seq(UaValue)]
    BY <2>1
  <2>3. \A n \in UaNodes : FeedReads(n)'
    BY <2>1 DEF FeedReads
  <2> QED
    BY <1>1, <2>1, <2>2, <2>3
<1>3. ASSUME NEW n \in UaNodes, SubscribesTo(n) PROVE UaInv'
  <2>1. /\ uaClient.live /\ feed' = [feed EXCEPT ![n] = <<uaServer.node[n]>>]
        /\ \E p \in {"watching", uaClient.phase} :
             uaClient' = [uaClient EXCEPT !.subscribed = uaClient.subscribed \union {n}, !.phase = p]
    BY <1>3 DEF SubscribesTo
  <2>2. uaServer.node[n] \in UaValue /\ uaServer.phase # "down"
    BY <1>0, <2>1 DEF ServerStates, UaInv
  <2>3. /\ uaClient' \in ClientStates /\ uaClient'.live = uaClient.live
        /\ uaClient'.subscribed = uaClient.subscribed \union {n}
    BY <1>0, <2>1 DEF ClientStates
  <2>4. feed' \in [UaNodes -> Seq(UaValue)]
    BY <1>0, <2>1, <2>2
  <2>5. ASSUME NEW m \in UaNodes PROVE FeedReads(m)'
    <3>1. CASE m = n
      <4>1. feed'[m] = <<uaServer.node[n]>>
        BY <1>0, <2>1, <3>1
      <4> QED
        BY <1>0, <2>2, <3>1, <4>1 DEF FeedReads
    <3>2. CASE m # n
      <4>1. feed'[m] = feed[m] /\ FeedReads(m)
        BY <1>0, <2>1, <3>2 DEF UaInv
      <4> QED
        BY <1>0, <2>3, <3>2, <4>1 DEF FeedReads
    <3> QED
      BY <3>1, <3>2
  <2> QED
    BY <1>1, <2>2, <2>3, <2>4, <2>5
<1> QED
  BY <1>2, <1>3

LEMMA DataChangeKeeps ==
  ASSUME UaInv, NEW n \in UaNodes, DataChange(n) PROVE UaInv'
<1> DEFINE s == feed[n]
           v == Head(s)
<1>1. /\ s \in Seq(UaValue) /\ s # <<>> /\ lastSeen \in UaSeen /\ firstSeen \in UaSeen
      /\ feed \in [UaNodes -> Seq(UaValue)] /\ told \in [UaWatches -> UaValue \union {NotNotified}]
      /\ UNCHANGED <<uaServer, provided, asked, uaClient>>
      /\ told' = [w \in UaWatches |-> IF w.node = n /\ Runs(w, v) THEN v ELSE told[w]]
      /\ lastSeen' = [lastSeen EXCEPT ![n] = v]
      /\ firstSeen' = [firstSeen EXCEPT ![n] = IF firstSeen[n] = NotNotified THEN v ELSE firstSeen[n]]
      /\ feed' = [feed EXCEPT ![n] = Tail(s)]
  BY DEF UaInv, UaTypes, DataChange, UaSeen
<1>2. /\ v \in UaValue /\ Tail(s) \in Seq(UaValue) /\ v = s[1]
      /\ Tail(s) # <<>> => Tail(s)[Len(Tail(s))] = s[Len(s)]
      /\ Tail(s) = <<>> => s[Len(s)] = s[1]
  BY <1>1, SequenceEnds
<1> HIDE DEF v
<1>3. UaTypes'
  <2>1. lastSeen' \in UaSeen /\ firstSeen' \in UaSeen
    BY <1>1, <1>2 DEF UaSeen
  <2>2. told' \in [UaWatches -> UaValue \union {NotNotified}] /\ feed' \in [UaNodes -> Seq(UaValue)]
    BY <1>1, <1>2
  <2> QED
    BY <1>1, <2>1, <2>2 DEF UaInv, UaTypes
<1>4. ASSUME NEW m \in UaNodes PROVE FeedReads(m)'
  <2>1. FeedReads(m)
    BY DEF UaInv
  <2>2. CASE m = n
    <3>1. feed'[m] = Tail(s) /\ lastSeen'[m] = v
      BY <1>1, <2>2 DEF UaSeen
    <3> QED
      BY <1>1, <1>2, <2>1, <2>2, <3>1 DEF FeedReads
  <2>3. CASE m # n
    <3>1. feed'[m] = feed[m] /\ lastSeen'[m] = lastSeen[m]
      BY <1>1, <2>3 DEF UaSeen
    <3> QED
      BY <1>1, <2>1, <3>1 DEF FeedReads
  <2> QED
    BY <2>2, <2>3
<1>5. ASSUME NEW w \in UaWatches PROVE WatchReads(w)'
  <2>1. WatchReads(w) /\ w.node \in UaNodes /\ w.initial \in BOOLEAN /\ v # NotNotified
    BY <1>2, UaConstants, UaAssumption DEF UaInv
  <2>2. told'[w] = IF w.node = n /\ Runs(w, v) THEN v ELSE told[w]
    BY <1>1
  <2>3. CASE w.node = n
    <3>1. /\ lastSeen'[w.node] = v
          /\ firstSeen'[w.node] = IF firstSeen[n] = NotNotified THEN v ELSE firstSeen[n]
      BY <1>1, <2>1, <2>3 DEF UaSeen
    <3>2. CASE lastSeen[n] = NotNotified
      <4>1. told[w] = NotNotified /\ firstSeen[n] = NotNotified
        BY <2>1, <2>3, <3>2 DEF WatchReads
      <4>2. told'[w] = IF w.initial THEN v ELSE NotNotified
        BY <2>2, <2>3, <3>2, <4>1 DEF Runs
      <4> QED
        BY <2>1, <2>3, <3>1, <4>1, <4>2 DEF WatchReads
    <3>3. CASE lastSeen[n] # NotNotified /\ lastSeen[n] # v
      <4>1. told'[w] = v
        BY <2>2, <2>3, <3>3 DEF Runs
      <4> QED
        BY <2>1, <3>1, <4>1 DEF WatchReads
    <3>4. CASE lastSeen[n] # NotNotified /\ lastSeen[n] = v
      <4>1. told'[w] = told[w]
        BY <2>2, <2>3, <3>4 DEF Runs
      <4>2. told[w] = v \/ (told[w] = NotNotified /\ ~w.initial /\ v = firstSeen[n])
        BY <2>1, <2>3, <3>4 DEF WatchReads
      <4> QED
        BY <2>1, <3>1, <4>1, <4>2 DEF WatchReads
    <3> QED
      BY <3>2, <3>3, <3>4
  <2>4. CASE w.node # n
    <3>1. /\ lastSeen'[w.node] = lastSeen[w.node] /\ firstSeen'[w.node] = firstSeen[w.node]
          /\ told'[w] = told[w]
      BY <1>1, <2>1, <2>2, <2>4 DEF UaSeen
    <3> QED
      BY <2>1, <3>1 DEF WatchReads
  <2> QED
    BY <2>3, <2>4
<1>6. \A m \in Handled : OwnReads(m)'
  BY <1>1 DEF UaInv, OwnReads
<1> QED
  BY <1>1, <1>3, <1>4, <1>5, <1>6 DEF UaInv

LEMMA UaNextInv == ASSUME UaInv, [UaNext]_uaVars PROVE UaInv'
<1>1. CASE UNCHANGED uaVars
  BY <1>1 DEF uaVars, UaInv, UaTypes, OwnReads, FeedReads, WatchReads
<1>2. CASE Refresh
  <2> DEFINE values == [n \in Published |-> provided[n]]
  <2>1. /\ Written(values) /\ UNCHANGED <<provided, asked, uaClient, lastSeen, firstSeen, told>>
        /\ DOMAIN values = UaNodes \ Handled
    BY <1>2 DEF Refresh, Published
  <2>2. \A m \in DOMAIN values : values[m] \in UaValue
    BY <2>1 DEF UaInv, UaTypes
  <2>3. DOMAIN asked' = Handled
    BY <2>1 DEF UaInv, UaTypes
  <2> HIDE DEF values
  <2> QED
    BY <2>1, <2>2, <2>3, WriteKeeps
<1>3. ASSUME NEW n \in Handled, UaClientWrites(n) PROVE UaInv'
  <2>1. PICK v \in UaValue : /\ Written([m \in {n} |-> v])
                             /\ asked' = [asked EXCEPT ![n] = @ \union {v}]
    BY <1>3 DEF UaClientWrites
  <2>2. UNCHANGED <<provided, uaClient, lastSeen, firstSeen, told>> /\ n \in UaNodes
    BY <1>3, UaConstants DEF UaClientWrites
  <2> DEFINE values == [m \in {n} |-> v]
  <2>3. DOMAIN values = {n} /\ values[n] = v
    OBVIOUS
  <2>4. DOMAIN asked' = Handled
    BY <2>1 DEF UaInv, UaTypes
  <2>5. \A m \in Handled : asked[m] \subseteq asked'[m] /\ (m \in DOMAIN values => values[m] \in asked'[m])
    BY <2>1, <2>3 DEF UaInv, UaTypes
  <2> HIDE DEF values
  <2> QED
    BY <2>1, <2>2, <2>3, <2>4, <2>5, WriteKeeps DEF values
<1>4. ASSUME NEW n \in UaNodes, ModelMoves(n) PROVE UaInv'
  <2>1. /\ provided' \in [UaNodes -> UaValue]
        /\ UNCHANGED <<uaServer, asked, uaClient, feed, lastSeen, firstSeen, told>>
    BY <1>4 DEF ModelMoves, UaInv, UaTypes
  <2> QED
    BY <2>1 DEF UaInv, UaTypes, OwnReads, FeedReads, WatchReads
<1> QED
  BY <1>1, <1>2, <1>3, <1>4, ServerKeeps, ClientKeeps, DataChangeKeeps, LocalChangeKeeps DEF UaNext

(* A write handler sees the clients' writes and ends with what its node    *)
(* holds; every watch was last called with the last value received: for    *)
(* any nodes, watches and values, through restarts and lost connections.   *)
THEOREM NodesStaySound == UaSpec => []NodesAreSound
<1>1. UaInv => NodesAreSound
  <2> SUFFICES ASSUME UaInv PROVE NodesAreSound
    OBVIOUS
  <2>1. HandlersSeeTheWrites
    BY DEF UaInv, OwnReads, HandlersSeeTheWrites, ToSet
  <2>2. EveryWatchIsCurrent
    <3>1. uaClient.subscribed \subseteq UaNodes
      BY DEF UaInv, UaTypes, ClientStates
    <3> QED
      BY <3>1 DEF UaInv, WatchReads, FeedReads, EveryWatchIsCurrent
  <2> QED
    BY <2>1, <2>2 DEF NodesAreSound
<1> QED
  BY <1>1, UaInitInv, UaNextInv, PTL DEF UaSpec

----------------------------------------------------------------------------
(***************************************************************************)
(* Web sites: an adapter that runs was built out of an accepted            *)
(* configuration, and keeps the layers and the first routes it was given.  *)
(***************************************************************************)
LayerName == {"context", "cors", "guard", "lost", "jwt"}
Catalogue == ToSet(siteSetup.controllers)
OwnRoute(c) == SiteRoute(c.path, c.name)
FrameworkRoute ==
  {SiteRoute("schema", "schema"), SiteRoute("docs", "page"), SiteRoute("docs", "titled_page"),
   SiteRoute("healthz", "health"), SiteRoute("healthz", "report"), SiteRoute("reload", "reload")}
AnyRoute == FrameworkRoute \cup {OwnRoute(c) : c \in Catalogue}
Running == {"built", "listening", "deaf", "serving"}
IsOpen == {"listening", "serving"}

\* The fields of an adapter.
SiteShape(s) ==
  /\ s = [at |-> s.at, scheme |-> s.scheme, layers |-> s.layers, routes |-> s.routes,
          left |-> s.left, schema |-> s.schema]
  /\ s.layers \in Seq(LayerName) /\ s.routes \in Seq(AnyRoute) /\ s.left \in Seq(Catalogue)

\* What it was built of, as long as it runs.
Assembled(s) ==
  s.at \in Running =>
    /\ ManagementAllowed /\ CorsAllowed /\ TlsAllowed
    /\ s.scheme = Scheme /\ s.layers = Layers
    /\ \A k \in DOMAIN FirstRoutes : k \in DOMAIN s.routes /\ s.routes[k] = FirstRoutes[k]

\* No controller is forgotten: it is registered, or still to be.
SiteRegistered(i, s) ==
  /\ s.at \in Running =>
       \A c \in Catalogue : c.server = i => c \in ToSet(s.left) \/ OwnRoute(c) \in ToSet(s.routes)
  /\ s.at \in IsOpen => s.left = <<>>

\* Its routes are the framework's and its own controllers', and a page has its schema.
RoutesFit(i, s) ==
  /\ \A k \in DOMAIN s.routes :
       s.routes[k] \in ToSet(FirstRoutes) \/ \E c \in Catalogue : c.server = i /\ s.routes[k] = OwnRoute(c)
  /\ \A k \in DOMAIN s.routes :
       s.routes[k].owner \in {"page", "titled_page"} =>
         \E l \in DOMAIN s.routes : s.routes[l] = SiteRoute("schema", "schema")

\* The schema that is kept names them all.
SchemaFits(i, s) ==
  s.schema # {} => s.schema = {SiteRoute(c.path, c.name) : c \in {d \in Catalogue : d.server = i}}

SiteFits(i, s) ==
  SiteShape(s) /\ Assembled(s) /\ SiteRegistered(i, s) /\ RoutesFit(i, s) /\ SchemaFits(i, s)

\* The management listener.
ManagementFits(m) ==
  /\ SiteShape(m) /\ m.at \in {"new", "listening", "closed"}
  /\ m.at = "listening" =>
       siteSetup.management = "local" /\ m.layers = <<>> /\ m.routes = ManagementRoutes

\* The last answer, by what was configured.
ExchangeFits ==
  /\ exchange.answer \in {"schema", "page", "titled_page"} => siteSetup.dev
  /\ OwnControllers /\ LayersAreRight
  /\ exchange.at = "management" =>
       exchange.answer \in {"report", "reload", "not_found", "not_allowed"}
  /\ exchange.answer = "reload" => exchange.at = "management"
  /\ exchange.at = "management" /\ exchange.path = "reload" /\ siteSetup.reload
       /\ exchange.kind # "preflight" => exchange.answer = "reload"

SitesFit ==
  /\ siteSetup \in SiteSetups
  /\ DOMAIN site = Sites \cup {"management"}
  /\ \A i \in Sites : SiteFits(i, site[i])
  /\ ManagementFits(site["management"])
SiteInv == SitesFit /\ ExchangeFits

----------------------------------------------------------------------------
(* The configuration.                                                      *)

\* A configuration is one that the assumption speaks of.
LEMMA SetupShape ==
  ASSUME NEW s \in SiteSetups
  PROVE  /\ {s.dev, s.jwt, s.health, s.credentials, s.reload} \subseteq BOOLEAN
         /\ s.stack \in Seq({"cors", "guard", "lost"})
         /\ s.controllers \in Seq(ToSet(s.controllers))
         /\ \A c, d \in ToSet(s.controllers) : c.name \notin OwnAnswers /\ (c.name = d.name => c = d)
         /\ s.management \in {"off", "local", "outside"}
         /\ {s.cell, s.flat} \subseteq TlsChoices /\ s.scan \in {"whole", "broken"}
<1>1. s.stack \in Seq(ToSet(s.stack)) /\ ToSet(s.stack) \subseteq {"cors", "guard", "lost"}
  BY SiteAssumption
<1>2. s.stack \in Seq({"cors", "guard", "lost"})
  BY <1>1
<1> QED
  BY <1>2, SiteAssumption

\* Nothing that is derived from the configuration changes with the rest.
LEMMA SetupStays ==
  ASSUME siteSetup' = siteSetup
  PROVE  /\ Layers' = Layers /\ FirstRoutes' = FirstRoutes /\ Scheme' = Scheme
         /\ (ManagementAllowed' <=> ManagementAllowed) /\ (CorsAllowed' <=> CorsAllowed)
         /\ (TlsAllowed' <=> TlsAllowed) /\ Catalogue' = Catalogue /\ AnyRoute' = AnyRoute
         /\ ManagementRoutes' = ManagementRoutes
<1>1. Layers' = Layers
  BY DEF Layers, Added
<1>2. FirstRoutes' = FirstRoutes
  BY DEF FirstRoutes, SchemaRoutes, PageRoutes, PageOwner, HealthRoutes, DocsAllowed
<1>3. Scheme' = Scheme /\ (TlsAllowed' <=> TlsAllowed)
  BY DEF Scheme, Tls, TlsAllowed
<1>4. (ManagementAllowed' <=> ManagementAllowed) /\ (CorsAllowed' <=> CorsAllowed)
  BY DEF ManagementAllowed, CorsAllowed
<1>5. Catalogue' = Catalogue /\ AnyRoute' = AnyRoute
  BY DEF Catalogue, AnyRoute
<1>6. ManagementRoutes' = ManagementRoutes
  BY DEF ManagementRoutes
<1> QED
  BY <1>1, <1>2, <1>3, <1>4, <1>5, <1>6

\* The layers, outermost first: the request context, what was configured, the token.
LEMMA LayersAre ==
  ASSUME siteSetup \in SiteSetups
  PROVE  /\ Layers \in Seq(LayerName) /\ Len(siteSetup.stack) \in Nat
         /\ Len(Layers) = 1 + Len(siteSetup.stack) + (IF siteSetup.jwt THEN 1 ELSE 0)
         /\ Layers[1] = "context"
         /\ \A k \in DOMAIN siteSetup.stack : Layers[k + 1] = siteSetup.stack[k]
         /\ siteSetup.jwt => Layers[Len(siteSetup.stack) + 2] = "jwt"
<1> DEFINE q == siteSetup.stack
           n == Len(q)
           j == IF siteSetup.jwt THEN <<"jwt">> ELSE <<>>
           a == j \o Reverse(q)
<1>1. q \in Seq(LayerName) /\ n \in Nat /\ DOMAIN q = 1 .. n
  BY SetupShape DEF LayerName
<1>2. j \in Seq(LayerName) /\ Len(j) = (IF siteSetup.jwt THEN 1 ELSE 0) /\ (siteSetup.jwt => j[1] = "jwt")
  <2>1. CASE siteSetup.jwt
    <3>1. j = <<"jwt">>
      BY <2>1
    <3> QED
      BY <2>1, <3>1 DEF LayerName
  <2>2. CASE ~siteSetup.jwt
    <3>1. j = <<>>
      BY <2>2
    <3> QED
      BY <2>2, <3>1
  <2> QED
    BY <2>1, <2>2
<1>3. /\ Reverse(q) \in Seq(LayerName) /\ Len(Reverse(q)) = n
      /\ \A i \in 1 .. n : Reverse(q)[i] = q[(n - i) + 1]
  <2>1. \A i \in 1 .. n : q[(n - i) + 1] \in LayerName
    BY <1>1
  <2> QED
    BY <1>1, <2>1, IsASeq DEF Reverse
<1> HIDE DEF q, n, j
<1> DEFINE r == Reverse(q)
<1>10. a = j \o r
  BY DEF r
<1> HIDE DEF r
<1>4. /\ a \in Seq(LayerName) /\ Len(a) = Len(j) + n
      /\ \A i \in 1 .. Len(j) : a[i] = j[i]
      /\ \A i \in 1 .. n : a[Len(j) + i] = q[(n - i) + 1]
  <2>1. /\ r \in Seq(LayerName) /\ Len(r) = n
        /\ \A i \in 1 .. n : r[i] = q[(n - i) + 1]
    BY <1>3 DEF r
  <2>2. /\ j \o r \in Seq(LayerName) /\ Len(j \o r) = Len(j) + Len(r)
        /\ \A i \in 1 .. Len(j) + Len(r) : (j \o r)[i] = IF i <= Len(j) THEN j[i] ELSE r[i - Len(j)]
    BY <1>2, <2>1, ConcatProperties
  <2>3. Len(j) \in Nat
    BY <1>2
  <2>4. \A i \in 1 .. n : (j \o r)[Len(j) + i] = r[i]
    BY <1>1, <2>1, <2>2, <2>3
  <2>5. \A i \in 1 .. Len(j) : (j \o r)[i] = j[i]
    BY <1>1, <2>1, <2>2, <2>3
  <2> QED
    BY <1>10, <2>1, <2>2, <2>4, <2>5
<1> HIDE DEF a
<1>5. /\ Added = a \o <<"context">> /\ Added \in Seq(LayerName) /\ Len(Added) = Len(j) + n + 1
      /\ Added[Len(j) + n + 1] = "context"
      /\ \A i \in 1 .. Len(j) + n : Added[i] = a[i]
  <2>1. Added = a \o <<"context">>
    BY DEF Added, a, j, q
  <2>2. <<"context">> \in Seq(LayerName) /\ Len(<<"context">>) = 1 /\ <<"context">>[1] = "context"
    BY DEF LayerName
  <2> DEFINE c == <<"context">>
  <2> HIDE DEF c
  <2>3. c \in Seq(LayerName) /\ Len(c) = 1 /\ c[1] = "context" /\ Added = a \o c
    BY <2>1, <2>2 DEF c
  <2>4. /\ a \o c \in Seq(LayerName) /\ Len(a \o c) = Len(a) + Len(c)
        /\ \A i \in 1 .. Len(a) + Len(c) : (a \o c)[i] = IF i <= Len(a) THEN a[i] ELSE c[i - Len(a)]
    BY <1>4, <2>3, ConcatProperties
  <2>5. Len(j) + n \in Nat /\ Len(a) = Len(j) + n
    BY <1>1, <1>2, <1>4
  <2>6. (a \o c)[Len(j) + n + 1] = "context"
    BY <2>3, <2>4, <2>5
  <2>7. \A i \in 1 .. Len(j) + n : (a \o c)[i] = a[i]
    BY <2>3, <2>4, <2>5
  <2> QED
    BY <2>1, <2>3, <2>4, <2>5, <2>6, <2>7
<1>6. /\ Layers \in Seq(LayerName) /\ Len(Layers) = Len(Added)
      /\ \A i \in 1 .. Len(Added) : Layers[i] = Added[(Len(Added) - i) + 1]
  <2>1. \A i \in 1 .. Len(Added) : Added[(Len(Added) - i) + 1] \in LayerName
    BY <1>1, <1>2, <1>5
  <2> QED
    BY <1>1, <1>2, <1>5, <2>1, IsASeq DEF Layers, Reverse
<1>7. Layers[1] = "context" /\ Len(Layers) = 1 + n + Len(j)
  BY <1>1, <1>2, <1>5, <1>6
<1>8. ASSUME NEW k \in 1 .. n PROVE Layers[k + 1] = q[k]
  <2> DEFINE l == Len(j)
  <2> HIDE DEF l
  <2>5. l \in Nat /\ l = Len(j)
    BY <1>2 DEF l
  <2>6. k + 1 \in 1 .. l + n + 1 /\ Len(Added) = l + n + 1
    BY <1>1, <1>5, <2>5
  <2>7. \A i \in 1 .. l + n + 1 : Layers[i] = Added[((l + n + 1) - i) + 1]
    BY <1>6, <2>6
  <2> DEFINE i == k + 1
  <2>8. Layers[i] = Added[((l + n + 1) - i) + 1]
    <3> HIDE DEF i
    <3>1. i \in 1 .. l + n + 1
      BY <2>6 DEF i
    <3> QED
      BY <2>7, <3>1
  <2>1. Layers[k + 1] = Added[(Len(j) + n + 1 - (k + 1)) + 1]
    BY <1>1, <2>5, <2>8
  <2>2. (Len(j) + n + 1 - (k + 1)) + 1 = Len(j) + (n - k + 1) /\ n - k + 1 \in 1 .. n
    BY <1>1, <1>2
  <2>3. Added[Len(j) + (n - k + 1)] = a[Len(j) + (n - k + 1)]
    BY <1>1, <1>2, <1>5, <2>2
  <2>4. a[Len(j) + (n - k + 1)] = q[(n - (n - k + 1)) + 1] /\ (n - (n - k + 1)) + 1 = k
    <3>1. PICK m : m = n - k + 1
      OBVIOUS
    <3>2. m \in 1 .. n /\ a[Len(j) + m] = q[(n - m) + 1] /\ (n - m) + 1 = k
      <4>1. m \in 1 .. n /\ (n - m) + 1 = k
        BY <1>1, <2>2, <3>1
      <4> QED
        BY <1>4, <4>1
    <3> QED
      BY <3>1, <3>2
  <2> QED
    BY <2>1, <2>2, <2>3, <2>4
<1>9. siteSetup.jwt => Layers[n + 2] = "jwt"
  BY <1>1, <1>2, <1>4, <1>5, <1>6
<1> QED
  BY <1>1, <1>2, <1>6, <1>7, <1>8, <1>9 DEF q, n

\* The sequences that a few routes make.
LEMMA ShortSequences ==
  ASSUME NEW a, NEW b, NEW c
  PROVE  /\ <<>> \o (<<>> \o <<>>) = <<>> /\ <<>> \o (<<>> \o <<c>>) = <<c>>
         /\ <<>> \o (<<c>> \o <<>>) = <<c>>
         /\ <<a>> \o (<<b>> \o <<>>) = <<a, b>> /\ <<a>> \o (<<>> \o <<b>>) = <<a, b>>
         /\ <<a>> \o (<<b>> \o <<c>>) = <<a, b, c>>
<1> DEFINE S == {a, b, c}
<1>1. <<>> \in Seq(S) /\ <<a>> \in Seq(S) /\ <<b>> \in Seq(S) /\ <<c>> \in Seq(S)
  OBVIOUS
<1>2. \A s \in Seq(S) : s \o <<>> = s /\ <<>> \o s = s
  BY ConcatEmptySeq
<1>3. ASSUME NEW x \in S, NEW y \in S PROVE <<x>> \o <<y>> = <<x, y>>
  <2> DEFINE u == <<x>>
             v == <<y>>
             w == <<x, y>>
  <2>1. u \in Seq(S) /\ v \in Seq(S) /\ Len(u) = 1 /\ Len(v) = 1 /\ u[1] = x /\ v[1] = y
    OBVIOUS
  <2>2. w \in Seq(S) /\ Len(w) = 2 /\ w[1] = x /\ w[2] = y
    OBVIOUS
  <2> HIDE DEF u, v, w
  <2>3. /\ u \o v \in Seq(S) /\ Len(u \o v) = 2
        /\ \A i \in 1 .. 2 : (u \o v)[i] = IF i <= 1 THEN u[i] ELSE v[i - 1]
    BY <2>1, ConcatProperties
  <2>4. (u \o v)[1] = x /\ (u \o v)[2] = y
    BY <2>1, <2>3
  <2>5. \A i \in 1 .. Len(w) : (u \o v)[i] = w[i]
    <3>1. \A i \in 1 .. Len(w) : i = 1 \/ i = 2
      BY <2>2
    <3> QED
      BY <2>2, <2>4, <3>1
  <2>6. u \o v = w
    BY <2>2, <2>3, <2>5, SeqEqual
  <2> QED
    BY <2>6 DEF u, v, w
<1>4. <<a>> \o <<b, c>> = <<a, b, c>>
  <2> DEFINE u == <<a>>
             v == <<b, c>>
             w == <<a, b, c>>
  <2>1. u \in Seq(S) /\ v \in Seq(S) /\ Len(u) = 1 /\ Len(v) = 2 /\ u[1] = a /\ v[1] = b /\ v[2] = c
    OBVIOUS
  <2>2. w \in Seq(S) /\ Len(w) = 3 /\ w[1] = a /\ w[2] = b /\ w[3] = c
    OBVIOUS
  <2> HIDE DEF u, v, w
  <2>3. /\ u \o v \in Seq(S) /\ Len(u \o v) = 3
        /\ \A i \in 1 .. 3 : (u \o v)[i] = IF i <= 1 THEN u[i] ELSE v[i - 1]
    <3>1. /\ u \o v \in Seq(S) /\ Len(u \o v) = Len(u) + Len(v)
          /\ \A i \in 1 .. Len(u) + Len(v) :
               (u \o v)[i] = IF i <= Len(u) THEN u[i] ELSE v[i - Len(u)]
      BY ONLY <2>1, ConcatProperties
    <3> QED
      BY ONLY <2>1, <3>1
  <2>4. (u \o v)[1] = a /\ (u \o v)[2] = b /\ (u \o v)[3] = c
    BY <2>1, <2>3
  <2>5. \A i \in 1 .. Len(w) : (u \o v)[i] = w[i]
    <3>1. \A i \in 1 .. Len(w) : i = 1 \/ i = 2 \/ i = 3
      BY <2>2
    <3> QED
      BY <2>2, <2>4, <3>1
  <2>6. u \o v = w
    BY <2>2, <2>3, <2>5, SeqEqual
  <2> QED
    BY <2>6 DEF u, v, w
<1> QED
  BY <1>1, <1>2, <1>3, <1>4

\* What the framework registers itself, in its order.
LEMMA FirstRoutesAre ==
  ASSUME siteSetup \in SiteSetups
  PROVE  /\ FirstRoutes \in Seq(FrameworkRoute)
         /\ \A k \in DOMAIN FirstRoutes :
              /\ FirstRoutes[k].owner \in {"schema", "page", "titled_page", "health"}
              /\ FirstRoutes[k].owner \in {"schema", "page", "titled_page"} =>
                   /\ siteSetup.dev
                   /\ \E l \in DOMAIN FirstRoutes : FirstRoutes[l] = SiteRoute("schema", "schema")
         /\ siteSetup.health =>
              \E k \in DOMAIN FirstRoutes :
                /\ FirstRoutes[k] = SiteRoute("healthz", "health")
                /\ \A j \in 1 .. k - 1 : FirstRoutes[j].path # "healthz"
<1> DEFINE s == SiteRoute("schema", "schema")
           p == SiteRoute("docs", PageOwner)
           h == SiteRoute("healthz", "health")
<1>1. PageOwner \in {"page", "titled_page"}
  BY DEF PageOwner
<1>2. {s, p, h} \subseteq FrameworkRoute
  BY <1>1 DEF FrameworkRoute
<1>3. /\ s.owner = "schema" /\ p.owner = PageOwner /\ h.owner = "health"
      /\ s.path = "schema" /\ p.path = "docs" /\ h.path = "healthz"
  BY DEF SiteRoute
<1>4. /\ SchemaRoutes = IF DocsAllowed THEN <<s>> ELSE <<>>
      /\ PageRoutes = IF DocsAllowed THEN <<p>> ELSE <<>>
      /\ HealthRoutes = IF siteSetup.health THEN <<h>> ELSE <<>>
  BY DEF SchemaRoutes, PageRoutes, HealthRoutes
<1>5. DocsAllowed => siteSetup.dev
  BY DEF DocsAllowed
<1> HIDE DEF s, p, h
<1>6. CASE DocsAllowed /\ siteSetup.health
  <2>1. FirstRoutes \in {<<s, p, h>>, <<s, h, p>>}
    BY <1>1, <1>4, <1>6, ShortSequences DEF FirstRoutes
  <2>2. CASE FirstRoutes = <<s, p, h>>
    BY <1>1, <1>2, <1>3, <1>5, <1>6, <2>2 DEF s, h
  <2>3. CASE FirstRoutes = <<s, h, p>>
    BY <1>1, <1>2, <1>3, <1>5, <1>6, <2>3 DEF s, h
  <2> QED
    BY <2>1, <2>2, <2>3
<1>7. CASE DocsAllowed /\ ~siteSetup.health
  <2>1. FirstRoutes = <<s, p>>
    BY <1>1, <1>4, <1>7, ShortSequences DEF FirstRoutes
  <2> QED
    BY <1>1, <1>2, <1>3, <1>5, <1>7, <2>1 DEF s
<1>8. CASE ~DocsAllowed /\ siteSetup.health
  <2>1. FirstRoutes = <<h>>
    BY <1>1, <1>4, <1>8, ShortSequences DEF FirstRoutes
  <2> QED
    BY <1>2, <1>3, <1>8, <2>1 DEF h
<1>9. CASE ~DocsAllowed /\ ~siteSetup.health
  <2>1. FirstRoutes = <<>>
    BY <1>1, <1>4, <1>9, ShortSequences DEF FirstRoutes
  <2> QED
    BY <1>9, <2>1
<1> QED
  BY <1>6, <1>7, <1>8, <1>9

----------------------------------------------------------------------------
(* One adapter moves.                                                      *)

\* What fits the configuration fits it after a step, which leaves it alone.
LEMMA FitStays ==
  ASSUME siteSetup' = siteSetup, NEW i, NEW n
  PROVE  /\ SiteFits(i, n) => SiteFits(i, n)'
         /\ ManagementFits(n) => ManagementFits(n)'
<1>1. SiteShape(n) => SiteShape(n)'
  BY SetupStays DEF SiteShape
<1>2. Assembled(n) => Assembled(n)'
  BY SetupStays DEF Assembled
<1>3. SiteRegistered(i, n) => SiteRegistered(i, n)'
  BY SetupStays DEF SiteRegistered
<1>4. RoutesFit(i, n) => RoutesFit(i, n)'
  BY SetupStays DEF RoutesFit
<1>5. SchemaFits(i, n) => SchemaFits(i, n)'
  BY SetupStays DEF SchemaFits
<1>6. SiteFits(i, n) => SiteFits(i, n)'
  BY <1>1, <1>2, <1>3, <1>4, <1>5 DEF SiteFits
<1>7. ManagementFits(n) => ManagementFits(n)'
  BY <1>1, SetupStays DEF ManagementFits
<1> QED
  BY <1>6, <1>7

\* No adapter has the name of the management listener.
LEMMA NoAdapterIsManagement == "management" \notin Sites /\ "none" \notin Sites
BY SiteAssumption DEF Sites

LEMMA SiteMoves ==
  ASSUME SitesFit, siteSetup' = siteSetup, NEW i \in Sites, NEW n, SiteFits(i, n),
         site' = [site EXCEPT ![i] = n]
  PROVE  SitesFit'
<1>1. /\ DOMAIN site' = Sites \cup {"management"} /\ i # "management"
      /\ site'[i] = n /\ \A j \in DOMAIN site \ {i} : site'[j] = site[j]
  BY NoAdapterIsManagement DEF SitesFit
<1>2. ASSUME NEW j \in Sites PROVE SiteFits(j, site[j])'
  <2>1. PICK m : m = IF j = i THEN n ELSE site[j]
    OBVIOUS
  <2>2. SiteFits(j, m) /\ site'[j] = m
    BY <1>1, <2>1 DEF SitesFit
  <2>3. SiteFits(j, m)'
    BY <2>2, FitStays
  <2> QED
    BY <2>2, <2>3
<1>3. ManagementFits(site["management"])'
  <2>1. PICK m : m = site["management"]
    OBVIOUS
  <2>2. ManagementFits(m) /\ site'["management"] = m
    BY <1>1, <2>1 DEF SitesFit
  <2>3. ManagementFits(m)'
    BY <2>2, FitStays
  <2> QED
    BY <2>2, <2>3
<1> QED
  BY <1>1, <1>2, <1>3 DEF SitesFit

LEMMA ManagementMoves ==
  ASSUME SitesFit, siteSetup' = siteSetup, NEW n, ManagementFits(n),
         site' = [site EXCEPT !["management"] = n]
  PROVE  SitesFit'
<1>1. /\ DOMAIN site' = Sites \cup {"management"} /\ site'["management"] = n
      /\ \A j \in Sites : site'[j] = site[j]
  BY NoAdapterIsManagement DEF SitesFit
<1>2. ASSUME NEW j \in Sites PROVE SiteFits(j, site[j])'
  <2>1. PICK m : m = site[j]
    OBVIOUS
  <2>2. SiteFits(j, m) /\ site'[j] = m
    BY <1>1, <2>1 DEF SitesFit
  <2>3. SiteFits(j, m)'
    BY <2>2, FitStays
  <2> QED
    BY <2>2, <2>3
<1>3. ManagementFits(site["management"])'
  <2>1. ManagementFits(n)'
    BY FitStays
  <2> QED
    BY <1>1, <2>1
<1> QED
  BY <1>1, <1>2, <1>3 DEF SitesFit

\* A new adapter, and one that was closed, has nothing.
LEMMA EmptySite ==
  ASSUME NEW i, NEW a, a \notin Running
  PROVE  SiteFits(i, [NewSite EXCEPT !.at = a])
<1>1. PICK n : n = [NewSite EXCEPT !.at = a]
  OBVIOUS
<1>2. /\ n.at = a /\ n.layers = <<>> /\ n.routes = <<>> /\ n.left = <<>> /\ n.schema = {}
      /\ n = [at |-> n.at, scheme |-> n.scheme, layers |-> n.layers, routes |-> n.routes,
              left |-> n.left, schema |-> n.schema]
  BY <1>1 DEF NewSite
<1>5. SiteShape(n)
  BY <1>2 DEF SiteShape
<1>3. Assembled(n) /\ SiteRegistered(i, n)
  BY <1>2 DEF Assembled, SiteRegistered, Running, IsOpen
<1>4. RoutesFit(i, n) /\ SchemaFits(i, n)
  BY <1>2 DEF RoutesFit, SchemaFits
<1> QED
  BY <1>1, <1>3, <1>4, <1>5 DEF SiteFits

\* What build_app returns.
LEMMA BuildSiteKeeps ==
  ASSUME SitesFit, NEW i \in Sites, BuildSite(i)
  PROVE  SitesFit'
<1> DEFINE fits == ManagementAllowed /\ OptionsFound /\ CorsAllowed /\ TlsAllowed
           n == [NewSite EXCEPT !.at = "built", !.scheme = Scheme, !.layers = Layers,
                                !.routes = FirstRoutes, !.left = siteSetup.controllers]
           r == [NewSite EXCEPT !.at = "refused"]
<1>1. siteSetup' = siteSetup /\ site' = [site EXCEPT ![i] = IF fits THEN n ELSE r]
  BY DEF BuildSite
<1>2. CASE ~fits
  <2>1. SiteFits(i, r)
    BY EmptySite DEF Running
  <2> HIDE DEF r, n, fits
  <2> QED
    BY <1>1, <1>2, <2>1, SiteMoves
<1>3. CASE fits
  <2>1. PICK m : m = n
    OBVIOUS
  <2>2. ManagementAllowed /\ CorsAllowed /\ TlsAllowed
    BY <1>3
  <2>3. /\ m.at = "built" /\ m.scheme = Scheme /\ m.layers = Layers /\ m.routes = FirstRoutes
        /\ m.left = siteSetup.controllers /\ m.schema = {}
        /\ m = [at |-> m.at, scheme |-> m.scheme, layers |-> m.layers, routes |-> m.routes,
                left |-> m.left, schema |-> m.schema]
    BY <2>1 DEF NewSite
  <2> HIDE DEF n, fits
  <2>4. siteSetup \in SiteSetups
    BY DEF SitesFit
  <2>5. siteSetup.controllers \in Seq(Catalogue) /\ ToSet(siteSetup.controllers) = Catalogue
    BY <2>4, SetupShape DEF Catalogue
  <2>6. Layers \in Seq(LayerName)
    BY <2>4, LayersAre
  <2>7. FirstRoutes \in Seq(AnyRoute)
    BY <2>4, FirstRoutesAre DEF AnyRoute
  <2>8. SiteShape(m)
    BY <2>3, <2>5, <2>6, <2>7 DEF SiteShape
  <2>9. Assembled(m)
    BY <2>2, <2>3 DEF Assembled
  <2>10. SiteRegistered(i, m)
    BY <2>3, <2>5 DEF SiteRegistered, IsOpen
  <2>11. RoutesFit(i, m)
    <3>1. \A k \in DOMAIN FirstRoutes : FirstRoutes[k] \in ToSet(FirstRoutes)
      BY DEF ToSet
    <3>2. \A k \in DOMAIN FirstRoutes :
            FirstRoutes[k].owner \in {"page", "titled_page"} =>
              \E l \in DOMAIN FirstRoutes : FirstRoutes[l] = SiteRoute("schema", "schema")
      BY <2>4, FirstRoutesAre
    <3> QED
      BY <2>3, <3>1, <3>2 DEF RoutesFit
  <2>12. SchemaFits(i, m)
    BY <2>3 DEF SchemaFits
  <2>13. SiteFits(i, m)
    BY <2>8, <2>9, <2>10, <2>11, <2>12 DEF SiteFits
  <2> QED
    BY <1>1, <1>3, <2>1, <2>13, SiteMoves
<1> QED
  BY <1>2, <1>3

\* Its stages.
LEMMA StageKeeps ==
  ASSUME NEW i, NEW s, SiteFits(i, s), NEW a, NEW n, n = [s EXCEPT !.at = a],
         a \in Running => s.at \in Running, a \in IsOpen => s.left = <<>>
  PROVE  SiteFits(i, n)
<1>1. /\ n.at = a /\ n.scheme = s.scheme /\ n.layers = s.layers /\ n.routes = s.routes
      /\ n.left = s.left /\ n.schema = s.schema
      /\ n = [at |-> n.at, scheme |-> n.scheme, layers |-> n.layers, routes |-> n.routes,
              left |-> n.left, schema |-> n.schema]
  BY DEF SiteFits, SiteShape
<1>2. SiteShape(n)
  BY <1>1 DEF SiteFits, SiteShape
<1>3. Assembled(n)
  BY <1>1 DEF SiteFits, Assembled
<1>4. SiteRegistered(i, n)
  BY <1>1 DEF SiteFits, SiteRegistered
<1>5. RoutesFit(i, n) /\ SchemaFits(i, n)
  BY <1>1 DEF SiteFits, RoutesFit, SchemaFits
<1> QED
  BY <1>2, <1>3, <1>4, <1>5 DEF SiteFits

\* A controller goes from what is left to the routes, or is another adapter's.
LEMMA OnwardKeeps ==
  ASSUME SitesFit, NEW i \in Sites, NEW s, SiteFits(i, s), s.at = "built", s.left # <<>>,
         NEW c, c = Head(s.left), NEW r, r = IF c.server = i THEN Append(s.routes, OwnRoute(c)) ELSE s.routes,
         NEW n,
         n = [at |-> s.at, scheme |-> s.scheme, layers |-> s.layers, routes |-> r,
              left |-> Tail(s.left), schema |-> s.schema]
  PROVE  SiteFits(i, n)
<1>1. /\ n.at = "built" /\ n.scheme = s.scheme /\ n.layers = s.layers /\ n.routes = r
      /\ n.left = Tail(s.left) /\ n.schema = s.schema
      /\ n = [at |-> n.at, scheme |-> n.scheme, layers |-> n.layers, routes |-> n.routes,
              left |-> n.left, schema |-> n.schema]
  OBVIOUS
<1>2. s.left \in Seq(Catalogue) /\ s.routes \in Seq(AnyRoute)
  BY DEF SiteFits, SiteShape
<1>3. /\ c \in Catalogue /\ Tail(s.left) \in Seq(Catalogue)
      /\ \A d \in ToSet(s.left) : d = c \/ d \in ToSet(Tail(s.left))
  <2>1. PICK q : q = s.left
    OBVIOUS
  <2>2. PICK t, m : t = Tail(q) /\ m = Len(q)
    OBVIOUS
  <2>3. /\ q \in Seq(Catalogue) /\ q # <<>>
    BY <1>2, <2>1
  <2>4. /\ c = q[1] /\ m \in Nat /\ m >= 1 /\ DOMAIN q = 1 .. m
        /\ t \in Seq(Catalogue) /\ DOMAIN t = 1 .. m - 1
        /\ \A k \in 1 .. m - 1 : t[k] = q[k + 1]
    BY <2>1, <2>2, <2>3
  <2>5. ASSUME NEW k \in 1 .. m, k # 1 PROVE k - 1 \in DOMAIN t /\ t[k - 1] = q[k]
    <3>1. k - 1 \in 1 .. m - 1 /\ (k - 1) + 1 = k
      BY <2>4, <2>5
    <3> QED
      BY <2>4, <3>1
  <2>6. c \in Catalogue
    BY <2>3, <2>4
  <2>7. ASSUME NEW d \in ToSet(q), d # c PROVE d \in ToSet(t)
    <3>1. PICK k \in 1 .. m : d = q[k]
      BY <2>4 DEF ToSet
    <3>2. k # 1
      BY <2>4, <2>7, <3>1
    <3>3. k - 1 \in DOMAIN t /\ t[k - 1] = d
      BY <2>5, <3>1, <3>2
    <3> QED
      BY <3>3 DEF ToSet
  <2> QED
    BY <2>1, <2>2, <2>4, <2>6, <2>7
<1>4. /\ siteSetup \in SiteSetups /\ c.name \notin OwnAnswers
      /\ OwnRoute(c) \in AnyRoute /\ OwnRoute(c).owner = c.name
  <2>1. siteSetup \in SiteSetups
    BY DEF SitesFit
  <2> QED
    BY <1>3, <2>1, SetupShape DEF Catalogue, AnyRoute, OwnRoute, SiteRoute
<1>5. /\ r \in Seq(AnyRoute)
      /\ \A k \in DOMAIN s.routes : k \in DOMAIN r /\ r[k] = s.routes[k]
      /\ \A k \in DOMAIN r : (k \in DOMAIN s.routes) \/ (c.server = i /\ r[k] = OwnRoute(c))
      /\ c.server = i => OwnRoute(c) \in ToSet(r)
  <2>1. CASE c.server = i
    <3>1. r = Append(s.routes, OwnRoute(c))
      BY <2>1
    <3> DEFINE o == OwnRoute(c)
    <3>2. o \in AnyRoute
      BY <1>4
    <3> HIDE DEF o
    <3>3. /\ Append(s.routes, o) \in Seq(AnyRoute) /\ Len(s.routes) \in Nat
          /\ DOMAIN s.routes = 1 .. Len(s.routes) /\ DOMAIN Append(s.routes, o) = 1 .. Len(s.routes) + 1
          /\ \A k \in 1 .. Len(s.routes) : Append(s.routes, o)[k] = s.routes[k]
          /\ Append(s.routes, o)[Len(s.routes) + 1] = o
      BY <1>2, <3>2
    <3>4. /\ Len(s.routes) + 1 \in DOMAIN Append(s.routes, o)
          /\ \A k \in DOMAIN Append(s.routes, o) : k \in DOMAIN s.routes \/ k = Len(s.routes) + 1
          /\ \A k \in DOMAIN s.routes : k \in DOMAIN Append(s.routes, o)
      BY <3>3
    <3>5. r = Append(s.routes, o)
      BY <3>1 DEF o
    <3>6. o \in ToSet(r)
      BY <3>3, <3>4, <3>5 DEF ToSet
    <3> QED
      BY <2>1, <3>3, <3>4, <3>5, <3>6 DEF o
  <2>2. CASE c.server # i
    <3>1. r = s.routes
      BY <2>2
    <3> QED
      BY <1>2, <2>2, <3>1
  <2> QED
    BY <2>1, <2>2
<1>6. SiteShape(n)
  BY <1>1, <1>3, <1>5 DEF SiteFits, SiteShape
<1>7. Assembled(n)
  BY <1>1, <1>5 DEF SiteFits, Assembled, Running
<1>8. SiteRegistered(i, n)
  <2>1. ASSUME NEW d \in Catalogue, d.server = i PROVE d \in ToSet(n.left) \/ OwnRoute(d) \in ToSet(n.routes)
    <3>1. d \in ToSet(s.left) \/ OwnRoute(d) \in ToSet(s.routes)
      BY <2>1 DEF SiteFits, SiteRegistered, Running
    <3>2. CASE d \in ToSet(s.left)
      BY <1>1, <1>3, <1>5, <2>1, <3>2
    <3>3. CASE OwnRoute(d) \in ToSet(s.routes)
      BY <1>1, <1>5, <3>3 DEF ToSet
    <3> QED
      BY <3>1, <3>2, <3>3
  <2> QED
    BY <1>1, <2>1 DEF SiteRegistered, IsOpen
<1>9. RoutesFit(i, n)
  <2>1. ASSUME NEW k \in DOMAIN r
        PROVE  r[k] \in ToSet(FirstRoutes) \/ \E d \in Catalogue : d.server = i /\ r[k] = OwnRoute(d)
    <3>1. CASE k \in DOMAIN s.routes
      BY <1>5, <3>1 DEF SiteFits, RoutesFit
    <3>2. CASE c.server = i /\ r[k] = OwnRoute(c)
      BY <1>3, <3>2
    <3> QED
      BY <1>5, <3>1, <3>2
  <2>2. ASSUME NEW k \in DOMAIN r, r[k].owner \in {"page", "titled_page"}
        PROVE  \E l \in DOMAIN r : r[l] = SiteRoute("schema", "schema")
    <3>1. CASE k \in DOMAIN s.routes
      <4>1. PICK l \in DOMAIN s.routes : s.routes[l] = SiteRoute("schema", "schema")
        BY <1>5, <2>2, <3>1 DEF SiteFits, RoutesFit
      <4> QED
        BY <1>5, <4>1
    <3>2. CASE c.server = i /\ r[k] = OwnRoute(c)
      BY <1>4, <2>2, <3>2 DEF OwnAnswers
    <3> QED
      BY <1>5, <3>1, <3>2
  <2> QED
    BY <1>1, <2>1, <2>2 DEF RoutesFit
<1>10. SchemaFits(i, n)
  BY <1>1 DEF SiteFits, SchemaFits
<1> QED
  BY <1>6, <1>7, <1>8, <1>9, <1>10 DEF SiteFits

LEMMA RegisterKeeps ==
  ASSUME SitesFit, NEW i \in Sites, RegisterNext(i)
  PROVE  SitesFit'
<1>1. PICK s : s = site[i]
  OBVIOUS
<1>2. PICK c : c = Head(s.left)
  OBVIOUS
<1>3. PICK r : r = IF c.server = i THEN Append(s.routes, OwnRoute(c)) ELSE s.routes
  OBVIOUS
<1>4. PICK n : n = site'[i]
  OBVIOUS
<1>5. /\ siteSetup' = siteSetup /\ s.at = "built" /\ ~OpensSite(i) /\ SiteFits(i, s)
      /\ site' = [site EXCEPT ![i] = n]
  BY <1>1, <1>4 DEF RegisterNext, SitesFit
<1>6. SiteFits(i, n)
  <2>1. CASE siteSetup.scan = "broken" \/ (c.server = i /\ ~c.bean)
    <3>1. PICK a : a = "deaf"
      OBVIOUS
    <3>2. n = [s EXCEPT !.at = a]
      BY <1>1, <1>2, <1>4, <2>1, <3>1 DEF RegisterNext, SitesFit
    <3>3. (a \in Running => s.at \in Running) /\ a \notin IsOpen
      BY <1>5, <3>1 DEF Running, IsOpen
    <3> QED
      BY <1>5, <3>2, <3>3, StageKeeps
  <2>2. CASE ~(siteSetup.scan = "broken" \/ (c.server = i /\ ~c.bean))
    <3>1. n = Include(i, s)
      BY <1>1, <1>2, <1>4, <2>2 DEF RegisterNext, SitesFit
    <3>2. n = [at |-> s.at, scheme |-> s.scheme, layers |-> s.layers, routes |-> r,
               left |-> Tail(s.left), schema |-> s.schema]
      BY <1>2, <1>3, <1>5, <3>1 DEF Include, SiteFits, SiteShape, OwnRoute
    <3>3. s.left # <<>>
      BY <1>1, <1>5, <2>2, SetupShape DEF OpensSite, SitesFit
    <3> QED
      BY <1>2, <1>3, <1>5, <3>2, <3>3, OnwardKeeps
  <2> QED
    BY <2>1, <2>2
<1> QED
  BY <1>5, <1>6, SiteMoves

LEMMA OpenKeeps ==
  ASSUME SitesFit, NEW i \in Sites, OpenSite(i) \/ ServeSite(i)
  PROVE  SitesFit'
<1>1. PICK s : s = site[i]
  OBVIOUS
<1>2. PICK a : a = IF OpenSite(i) THEN "listening" ELSE IF s.at = "deaf" THEN "closed" ELSE "serving"
  OBVIOUS
<1>3. PICK n : n = [s EXCEPT !.at = a]
  OBVIOUS
<1>4. /\ SiteFits(i, s) /\ siteSetup' = siteSetup
      /\ s.at \in {"built", "listening", "deaf"} /\ (s.at = "built" => s.left = <<>>)
      /\ s.at = "deaf" => a = "closed"
      /\ a \in {"listening", "serving", "closed"}
  BY <1>1, <1>2 DEF SitesFit, OpenSite, ServeSite, OpensSite
<1>5. site' = [site EXCEPT ![i] = n]
  BY <1>1, <1>2, <1>3 DEF OpenSite, ServeSite, SitesFit
<1>6. a \in IsOpen => s.left = <<>>
  BY <1>4 DEF SiteFits, SiteRegistered, IsOpen
<1>7. SiteFits(i, n)
  BY <1>3, <1>4, <1>6, StageKeeps DEF Running
<1> QED
  BY <1>4, <1>5, <1>7, SiteMoves

LEMMA StopSiteKeeps ==
  ASSUME SitesFit, NEW i \in DOMAIN site, StopSite(i)
  PROVE  SitesFit'
<1>1. PICK n : n = [NewSite EXCEPT !.at = "closed"]
  OBVIOUS
<1>2. siteSetup' = siteSetup /\ site' = [site EXCEPT ![i] = n]
  BY <1>1 DEF StopSite
<1>3. SiteFits("management", n) /\ SiteFits(i, n)
  BY <1>1, EmptySite DEF Running
<1>4. n.at = "closed"
  BY <1>1 DEF NewSite
<1>5. CASE i \in Sites
  BY <1>2, <1>3, <1>5, SiteMoves
<1>6. CASE i = "management"
  <2>1. ManagementFits(n)
    BY <1>3, <1>4 DEF ManagementFits, SiteFits
  <2> QED
    BY <1>2, <1>6, <2>1, ManagementMoves
<1> QED
  BY <1>5, <1>6 DEF SitesFit

LEMMA OpenManagementKeeps ==
  ASSUME SitesFit, OpenManagement
  PROVE  SitesFit'
<1>1. PICK n : n = [NewSite EXCEPT !.at = "listening", !.scheme = "http", !.routes = ManagementRoutes]
  OBVIOUS
<1>2. /\ siteSetup' = siteSetup /\ site' = [site EXCEPT !["management"] = n]
      /\ siteSetup.management # "off" /\ ManagementAllowed /\ siteSetup \in SiteSetups
  BY <1>1 DEF OpenManagement, SitesFit
<1>3. siteSetup.management = "local"
  BY <1>2, SetupShape DEF ManagementAllowed
<1>4. ManagementRoutes \in Seq(AnyRoute)
  <2> DEFINE h == SiteRoute("healthz", "report")
             t == SiteRoute("reload", "reload")
  <2>1. h \in AnyRoute /\ t \in AnyRoute
    BY DEF AnyRoute, FrameworkRoute
  <2>2. ManagementRoutes = <<h>> \o IF siteSetup.reload THEN <<t>> ELSE <<>>
    BY DEF ManagementRoutes, ManagementHealth
  <2> HIDE DEF h, t
  <2>3. <<h>> \in Seq(AnyRoute) /\ <<t>> \in Seq(AnyRoute) /\ <<>> \in Seq(AnyRoute)
    BY <2>1
  <2> QED
    BY <2>2, <2>3, ConcatProperties
<1>5. /\ n.at = "listening" /\ n.layers = <<>> /\ n.routes = ManagementRoutes /\ n.left = <<>>
      /\ n = [at |-> n.at, scheme |-> n.scheme, layers |-> n.layers, routes |-> n.routes,
              left |-> n.left, schema |-> n.schema]
  BY <1>1 DEF NewSite
<1>6. SiteShape(n)
  BY <1>4, <1>5 DEF SiteShape
<1>7. ManagementFits(n)
  BY <1>3, <1>5, <1>6 DEF ManagementFits
<1> QED
  BY <1>2, <1>7, ManagementMoves

\* The schema that a request builds names the adapter's controllers, all of them.
LEMMA SchemaIsWhole ==
  ASSUME SitesFit, NEW i \in Sites, site[i].at \in IsOpen
  PROVE  Controllers(i) = {SiteRoute(c.path, c.name) : c \in {d \in Catalogue : d.server = i}}
<1>1. PICK s : s = site[i]
  OBVIOUS
<1>2. siteSetup \in SiteSetups /\ SiteFits(i, s) /\ s.at \in IsOpen
  BY <1>1 DEF SitesFit
<1>3. \A c \in Catalogue : c.name \notin OwnAnswers /\ OwnRoute(c).owner = c.name
  BY <1>2, SetupShape DEF Catalogue, OwnRoute, SiteRoute
<1>4. ASSUME NEW c \in Catalogue, c.server = i PROVE OwnRoute(c) \in Controllers(i)
  <2>1. s.left = <<>> /\ (c \in ToSet(s.left) \/ OwnRoute(c) \in ToSet(s.routes))
    BY <1>2, <1>4 DEF SiteFits, SiteRegistered, IsOpen, Running
  <2>2. OwnRoute(c) \in ToSet(s.routes)
    BY <2>1 DEF ToSet
  <2> QED
    BY <1>1, <1>3, <2>2 DEF Controllers, Catalogue
<1>5. ASSUME NEW r \in Controllers(i) PROVE \E c \in Catalogue : c.server = i /\ r = OwnRoute(c)
  <2>1. PICK k \in DOMAIN s.routes : r = s.routes[k]
    BY <1>1, <1>5 DEF Controllers, ToSet
  <2>2. PICK c \in Catalogue : c.name = r.owner
    BY <1>5 DEF Controllers, Catalogue
  <2>3. CASE r \in ToSet(FirstRoutes)
    <3>1. PICK l \in DOMAIN FirstRoutes : r = FirstRoutes[l]
      BY <2>3 DEF ToSet
    <3>2. r.owner \in {"schema", "page", "titled_page", "health"}
      BY <1>2, <3>1, FirstRoutesAre
    <3> QED
      BY <1>3, <2>2, <3>2 DEF OwnAnswers
  <2> QED
    BY <1>2, <2>1, <2>3 DEF SiteFits, RoutesFit
<1>6. \A c : OwnRoute(c) = SiteRoute(c.path, c.name)
  BY DEF OwnRoute
<1> QED
  BY <1>4, <1>5, <1>6

LEMMA AskKeepsSites ==
  ASSUME SitesFit, NEW i \in DOMAIN site, NEW kind, NEW path, Ask(i, kind, path)
  PROVE  SitesFit'
<1>1. PICK s : s = site[i]
  OBVIOUS
<1>2. PICK v : /\ siteSetup' = siteSetup /\ s.at \in IsOpen /\ (v = s.schema \/ v = SchemaOf(i))
               /\ site' = [site EXCEPT ![i] = [s EXCEPT !.schema = v]]
  BY <1>1 DEF Ask, IsOpen
<1>3. PICK n : n = [s EXCEPT !.schema = v]
  OBVIOUS
<1>4. SiteShape(s)
  BY <1>1 DEF SitesFit, SiteFits, ManagementFits
<1>5. /\ n.at = s.at /\ n.scheme = s.scheme /\ n.layers = s.layers /\ n.routes = s.routes
      /\ n.left = s.left /\ n.schema = v
      /\ n = [at |-> n.at, scheme |-> n.scheme, layers |-> n.layers, routes |-> n.routes,
              left |-> n.left, schema |-> n.schema]
  BY <1>3, <1>4 DEF SiteShape
<1>6. SiteShape(n)
  BY <1>4, <1>5 DEF SiteShape
<1>7. CASE i \in Sites
  <2>1. SiteFits(i, s)
    BY <1>1, <1>7 DEF SitesFit
  <2>2. SchemaFits(i, n)
    <3>1. CASE v = s.schema
      BY <1>5, <2>1, <3>1 DEF SiteFits, SchemaFits
    <3>2. CASE v = SchemaOf(i)
      <4>1. v = s.schema \/ v = Controllers(i)
        BY <1>1, <3>2 DEF SchemaOf
      <4>2. Controllers(i) = {SiteRoute(c.path, c.name) : c \in {d \in Catalogue : d.server = i}}
        BY <1>1, <1>2, <1>7, SchemaIsWhole
      <4> QED
        BY <1>5, <3>1, <4>1, <4>2 DEF SchemaFits
    <3> QED
      BY <1>2, <3>1, <3>2
  <2>3. Assembled(n) /\ SiteRegistered(i, n) /\ RoutesFit(i, n)
    BY <1>5, <2>1 DEF SiteFits, Assembled, SiteRegistered, RoutesFit
  <2>4. SiteFits(i, n)
    BY <1>6, <2>2, <2>3 DEF SiteFits
  <2> QED
    BY <1>2, <1>3, <1>7, <2>4, SiteMoves
<1>8. CASE i = "management"
  <2>1. ManagementFits(n)
    BY <1>1, <1>5, <1>6, <1>8 DEF SitesFit, ManagementFits
  <2> QED
    BY <1>2, <1>3, <1>8, <2>1, ManagementMoves
<1> QED
  BY <1>7, <1>8 DEF SitesFit

----------------------------------------------------------------------------
(* A request.                                                              *)



LEMMA LeastIs ==
  ASSUME NEW T \in SUBSET Nat, T # {}
  PROVE  Least(T) \in T /\ \A n \in T : Least(T) <= n
BY LeastExists DEF Least

\* What the routes of an adapter answer.
LEMMA RoutedIs ==
  ASSUME NEW i, site[i].routes \in Seq(AnyRoute), NEW kind, NEW path
  PROVE  /\ Found(i, path) = {} => Routed(i, kind, path) = "not_found"
         /\ Found(i, path) # {} /\ kind = "preflight" => Routed(i, kind, path) = "not_allowed"
         /\ Found(i, path) # {} /\ kind # "preflight" =>
              \E k \in DOMAIN site[i].routes :
                /\ site[i].routes[k].path = path /\ Routed(i, kind, path) = site[i].routes[k].owner
                /\ \A l \in DOMAIN site[i].routes : site[i].routes[l].path = path => k <= l
<1>1. Found(i, path) \in SUBSET Nat
  BY DEF Found
<1>2. CASE Found(i, path) # {} /\ kind # "preflight"
  <2>1. PICK k : k = Least(Found(i, path))
    OBVIOUS
  <2>2. k \in Found(i, path) /\ \A l \in Found(i, path) : k <= l
    BY <1>1, <1>2, <2>1, LeastIs
  <2>3. Routed(i, kind, path) = site[i].routes[k].owner
    BY <1>2, <2>1 DEF Routed
  <2> QED
    BY <1>2, <2>2, <2>3 DEF Found
<1> QED
  BY <1>2 DEF Routed

\* What passes, and what answers.
Answering(i, kind, path, q) ==
  /\ siteSetup' = siteSetup /\ site[i].at \in IsOpen
  /\ exchange'.at = i /\ exchange'.kind = kind /\ exchange'.path = path
  /\ \/ /\ \A k \in DOMAIN q : ~Answers(q[k], kind, path)
        /\ exchange'.through = q /\ exchange'.answer = Routed(i, kind, path)
     \/ \E m \in DOMAIN q :
          /\ Answers(q[m], kind, path) /\ \A k \in 1 .. m - 1 : ~Answers(q[k], kind, path)
          /\ exchange'.through = SubSeq(q, 1, m)
          /\ exchange'.answer = IF q[m] = "cors" THEN "preflight" ELSE "unauthorized"
LEMMA AskIs ==
  ASSUME NEW i \in DOMAIN site, NEW kind, NEW path, Ask(i, kind, path),
         NEW q, q = site[i].layers, q \in Seq(LayerName)
  PROVE  Answering(i, kind, path, q)
<1> DEFINE closes == Stopping(q, kind, path)
           through == IF closes = {} THEN q ELSE SubSeq(q, 1, Least(closes))
           ans == IF closes = {} THEN Routed(i, kind, path)
                     ELSE IF Last(through) = "cors" THEN "preflight" ELSE "unauthorized"
<1>1. /\ siteSetup' = siteSetup /\ site[i].at \in IsOpen
      /\ exchange' = [at |-> i, path |-> path, kind |-> kind, through |-> through, answer |-> ans]
  BY DEF Ask, IsOpen
<1>2. Len(q) \in Nat /\ DOMAIN q = 1 .. Len(q) /\ closes \in SUBSET Nat
  BY DEF Stopping
<1>3. \A k \in DOMAIN q : k \in closes <=> Answers(q[k], kind, path)
  BY DEF Stopping
<1>4. closes \subseteq DOMAIN q
  BY DEF Stopping
<1> HIDE DEF closes
<1>5. CASE closes = {}
  <2>1. through = q /\ ans = Routed(i, kind, path)
    BY <1>5
  <2>2. \A k \in DOMAIN q : ~Answers(q[k], kind, path)
    BY <1>3, <1>5
  <2> HIDE DEF through, ans
  <2> QED
    BY <1>1, <2>1, <2>2 DEF Answering
<1>6. CASE closes # {}
  <2>1. PICK m : m = Least(closes)
    OBVIOUS
  <2>2. m \in closes /\ \A k \in closes : m <= k
    BY <1>2, <1>6, <2>1, LeastIs
  <2>3. m \in 1 .. Len(q) /\ Answers(q[m], kind, path)
    BY <1>2, <1>3, <1>4, <2>2
  <2>4. ASSUME NEW k \in 1 .. m - 1 PROVE ~Answers(q[k], kind, path)
    <3>1. k \in DOMAIN q /\ ~(m <= k)
      BY <1>2, <2>3
    <3> QED
      BY <1>3, <2>2, <3>1
  <2>5. through = SubSeq(q, 1, m)
    BY <1>6, <2>1
  <2>6. Len(SubSeq(q, 1, m)) = m /\ SubSeq(q, 1, m)[m] = q[m]
    BY <1>2, <2>3
  <2>7. ans = IF q[m] = "cors" THEN "preflight" ELSE "unauthorized"
    BY <1>6, <2>5, <2>6 DEF Last
  <2> HIDE DEF through, ans
  <2> QED
    BY <1>1, <1>2, <2>3, <2>4, <2>5, <2>7 DEF Answering
<1> QED
  BY <1>5, <1>6

\* Each layer of an adapter that runs is the request context, one that was
\* configured, at its place, or the token check, innermost.
LEMMA LayerIs ==
  ASSUME siteSetup \in SiteSetups, NEW k \in DOMAIN Layers
  PROVE  \/ k = 1 /\ Layers[k] = "context"
         \/ /\ k - 1 \in DOMAIN siteSetup.stack /\ Layers[k] = siteSetup.stack[k - 1]
            /\ Layers[k] \in {"cors", "guard", "lost"}
         \/ siteSetup.jwt /\ k = Len(siteSetup.stack) + 2 /\ Layers[k] = "jwt"
<1> DEFINE q == siteSetup.stack
           n == Len(q)
           d == IF siteSetup.jwt THEN 1 ELSE 0
<1>1. /\ q \in Seq({"cors", "guard", "lost"}) /\ n \in Nat /\ DOMAIN q = 1 .. n
  BY SetupShape
<1>2. /\ DOMAIN Layers = 1 .. (1 + n + d) /\ Layers[1] = "context"
      /\ \A l \in DOMAIN q : Layers[l + 1] = q[l]
      /\ siteSetup.jwt => Layers[n + 2] = "jwt"
  <2>1. Layers \in Seq(LayerName) /\ Len(Layers) = 1 + n + d
    BY LayersAre
  <2>2. DOMAIN Layers = 1 .. (1 + n + d)
    BY <2>1
  <2> QED
    BY <2>2, LayersAre
<1>3. d \in {0, 1} /\ (d = 1 => siteSetup.jwt)
  OBVIOUS
<1> HIDE DEF q, n, d
<1>4. CASE k = 1
  BY <1>2, <1>4
<1>5. CASE k - 1 \in 1 .. n
  <2>1. PICK l : l = k - 1
    OBVIOUS
  <2>2. l \in DOMAIN q /\ k = l + 1
    BY <1>1, <1>2, <1>5, <2>1
  <2>3. Layers[k] = q[l] /\ q[l] \in {"cors", "guard", "lost"}
    BY <1>1, <1>2, <2>2
  <2> QED
    BY <2>1, <2>2, <2>3 DEF q
<1>6. CASE k = n + 2 /\ d = 1
  BY <1>2, <1>3, <1>6 DEF q, n
<1> QED
  BY <1>1, <1>2, <1>3, <1>4, <1>5, <1>6

\* What an adapter may answer.
LEMMA SiteAnswers ==
  ASSUME SitesFit, NEW i \in Sites, site[i].at \in IsOpen, NEW kind, NEW path
  PROVE  LET a == Routed(i, kind, path)
         IN \/ a \in {"not_found", "not_allowed", "health"}
            \/ a \in {"schema", "page", "titled_page"} /\ siteSetup.dev
            \/ \E c \in Catalogue : c.server = i /\ a = c.name
<1>1. PICK s : s = site[i]
  OBVIOUS
<1>2. siteSetup \in SiteSetups /\ SiteFits(i, s) /\ s.routes \in Seq(AnyRoute)
  BY <1>1 DEF SitesFit, SiteFits, SiteShape
<1>3. PICK a : a = Routed(i, kind, path)
  OBVIOUS
<1>4. a \in {"not_found", "not_allowed"} \/ \E k \in DOMAIN s.routes : a = s.routes[k].owner
  BY <1>1, <1>2, <1>3, RoutedIs
<1>5. ASSUME NEW k \in DOMAIN s.routes, a = s.routes[k].owner
      PROVE  \/ a = "health"
             \/ a \in {"schema", "page", "titled_page"} /\ siteSetup.dev
             \/ \E c \in Catalogue : c.server = i /\ a = c.name
  <2>1. CASE s.routes[k] \in ToSet(FirstRoutes)
    <3>1. PICK l \in DOMAIN FirstRoutes : s.routes[k] = FirstRoutes[l]
      BY <2>1 DEF ToSet
    <3> QED
      BY <1>2, <1>5, <3>1, FirstRoutesAre
  <2>2. ASSUME NEW c \in Catalogue, c.server = i, s.routes[k] = OwnRoute(c)
        PROVE  a = c.name
    BY <1>5, <2>2 DEF OwnRoute, SiteRoute
  <2> QED
    BY <1>2, <2>1, <2>2 DEF SiteFits, RoutesFit
<1> QED
  BY <1>3, <1>4, <1>5

LEMMA AskSite ==
  ASSUME SitesFit, NEW i \in Sites, NEW kind, NEW path, Ask(i, kind, path)
  PROVE  ExchangeFits'
<1> DEFINE a == exchange'.answer
           n == Len(siteSetup.stack)
<1>20. PICK q : q = Layers
  OBVIOUS
<1>1. /\ siteSetup \in SiteSetups /\ SiteFits(i, site[i]) /\ i \in DOMAIN site /\ i # "management"
  BY NoAdapterIsManagement DEF SitesFit
<1>2. site[i].at \in IsOpen
  BY DEF Ask, IsOpen
<1>3. q = site[i].layers /\ q \in Seq(LayerName) /\ site[i].routes \in Seq(AnyRoute)
  BY <1>1, <1>2, <1>20 DEF SiteFits, SiteShape, Assembled, Running, IsOpen
<1>4. /\ siteSetup' = siteSetup
      /\ exchange'.at = i /\ exchange'.kind = kind /\ exchange'.path = path
      /\ \/ /\ \A k \in DOMAIN q : ~Answers(q[k], kind, path)
            /\ exchange'.through = q /\ a = Routed(i, kind, path)
         \/ \E m \in DOMAIN q :
              /\ Answers(q[m], kind, path) /\ \A k \in 1 .. m - 1 : ~Answers(q[k], kind, path)
              /\ exchange'.through = SubSeq(q, 1, m)
              /\ a = IF q[m] = "cors" THEN "preflight" ELSE "unauthorized"
  <2>1. Answering(i, kind, path, q)
    BY <1>1, <1>3, AskIs
  <2> QED
    BY <2>1 DEF Answering
<1>5. /\ q[1] = "context" /\ n \in Nat /\ DOMAIN siteSetup.stack = 1 .. n
      /\ Len(q) = 1 + n + (IF siteSetup.jwt THEN 1 ELSE 0) /\ DOMAIN q = 1 .. Len(q)
      /\ \A k \in DOMAIN siteSetup.stack : q[k + 1] = siteSetup.stack[k]
      /\ siteSetup.jwt => q[n + 2] = "jwt"
  <2>1. /\ q[1] = "context" /\ Len(q) = 1 + n + (IF siteSetup.jwt THEN 1 ELSE 0)
        /\ \A k \in DOMAIN siteSetup.stack : q[k + 1] = siteSetup.stack[k]
        /\ siteSetup.jwt => q[n + 2] = "jwt"
    BY <1>1, <1>20, LayersAre
  <2>2. siteSetup.stack \in Seq({"cors", "guard", "lost"})
    BY <1>1, SetupShape
  <2>3. n \in Nat /\ DOMAIN siteSetup.stack = 1 .. n
    BY <2>2
  <2>4. DOMAIN q = 1 .. Len(q)
    BY <1>3
  <2> HIDE DEF n
  <2> QED
    BY <2>1, <2>3, <2>4
<1>6. \A k \in DOMAIN q :
        \/ k = 1 /\ q[k] = "context"
        \/ /\ k - 1 \in DOMAIN siteSetup.stack /\ q[k] = siteSetup.stack[k - 1]
           /\ q[k] \in {"cors", "guard", "lost"}
        \/ siteSetup.jwt /\ k = n + 2 /\ q[k] = "jwt"
  BY <1>1, <1>20, LayerIs
<1> HIDE DEF n
<1>7. /\ \A l : Answers("cors", kind, path) <=> kind = "preflight"
      /\ Answers("jwt", kind, path) <=> kind # "bearer" /\ ~(siteSetup.health /\ path = "healthz")
      /\ \A l \in {"context", "guard", "lost"} : ~Answers(l, kind, path)
  BY DEF Answers
<1>8. \/ a \in {"not_found", "not_allowed", "health", "preflight", "unauthorized"}
      \/ a \in {"schema", "page", "titled_page"} /\ siteSetup.dev
      \/ \E c \in Catalogue : c.server = i /\ a = c.name
  <2>1. CASE a = Routed(i, kind, path)
    BY <1>2, <2>1, SiteAnswers
  <2> QED
    BY <1>4, <2>1
<1>9. \A c, d \in Catalogue : c.name \notin OwnAnswers /\ (c.name = d.name => c = d)
  BY <1>1, SetupShape DEF Catalogue
<1>10. a \in {"schema", "page", "titled_page"} => siteSetup.dev
  BY <1>8, <1>9 DEF OwnAnswers
<1>11. a # "reload"
  BY <1>8, <1>9 DEF OwnAnswers
<1>12. ASSUME NEW c \in Catalogue
       PROVE  /\ a = c.name => i = c.server
              /\ i = c.server /\ path = c.path /\ kind = "bearer" => a # "not_found"
  <2>1. a = c.name => i = c.server
    BY <1>8, <1>9 DEF OwnAnswers
  <2>2. ASSUME i = c.server, path = c.path, kind = "bearer" PROVE a # "not_found"
    <3>1. \A k \in DOMAIN q : ~Answers(q[k], kind, path)
      BY <1>6, <1>7, <2>2
    <3>2. a = Routed(i, kind, path)
      BY <1>4, <3>1
    <3>3. OwnRoute(c) \in ToSet(site[i].routes)
      <4>1. /\ site[i].left = <<>>
            /\ c \in ToSet(site[i].left) \/ OwnRoute(c) \in ToSet(site[i].routes)
        BY <1>1, <1>2, <2>2 DEF SiteFits, SiteRegistered, Running, IsOpen
      <4> QED
        BY <4>1 DEF ToSet
    <3>4. Found(i, path) # {}
      BY <2>2, <3>3 DEF Found, ToSet, OwnRoute, SiteRoute
    <3>5. PICK k \in DOMAIN site[i].routes : a = site[i].routes[k].owner
      BY <1>3, <2>2, <3>2, <3>4, RoutedIs
    <3>6. CASE site[i].routes[k] \in ToSet(FirstRoutes)
      <4>1. PICK l \in DOMAIN FirstRoutes : site[i].routes[k] = FirstRoutes[l]
        BY <3>6 DEF ToSet
      <4> QED
        BY <1>1, <3>5, <4>1, FirstRoutesAre
    <3>7. ASSUME NEW d \in Catalogue, site[i].routes[k] = OwnRoute(d) PROVE a # "not_found"
      <4>1. OwnRoute(d).owner = d.name /\ d.name \notin OwnAnswers
        BY <1>9 DEF OwnRoute, SiteRoute
      <4> QED
        BY <3>5, <3>7, <4>1 DEF OwnAnswers
    <3> QED
      BY <1>1, <3>6, <3>7 DEF SiteFits, RoutesFit
  <2> QED
    BY <2>1, <2>2
<1>13. "cors" \in ToSet(siteSetup.stack) /\ kind = "preflight" => a = "preflight"
  <2> SUFFICES ASSUME "cors" \in ToSet(siteSetup.stack), kind = "preflight" PROVE a = "preflight"
    OBVIOUS
  <2>1. PICK k \in DOMAIN siteSetup.stack : siteSetup.stack[k] = "cors"
    BY DEF ToSet
  <2>2. k + 1 \in DOMAIN q /\ q[k + 1] = "cors" /\ Answers(q[k + 1], kind, path) /\ k <= n
    BY <1>5, <1>7, <2>1
  <2>3. PICK m \in DOMAIN q :
          /\ Answers(q[m], kind, path) /\ \A l \in 1 .. m - 1 : ~Answers(q[l], kind, path)
          /\ a = IF q[m] = "cors" THEN "preflight" ELSE "unauthorized"
    BY <1>4, <2>2
  <2>4. ~(k + 1 \in 1 .. m - 1)
    BY <2>2, <2>3
  <2>5. m # n + 2
    BY <1>5, <2>1, <2>2, <2>3, <2>4
  <2>6. q[m] = "cors"
    BY <1>6, <1>7, <2>3, <2>5
  <2> QED
    BY <2>3, <2>6
<1>14. siteSetup.jwt /\ kind = "bare" => a \in {"unauthorized", "health"}
  <2> SUFFICES ASSUME siteSetup.jwt, kind = "bare" PROVE a \in {"unauthorized", "health"}
    OBVIOUS
  <2>1. n + 2 \in DOMAIN q /\ q[n + 2] = "jwt"
    BY <1>5
  <2>2. CASE \E m \in DOMAIN q : /\ Answers(q[m], kind, path)
                                 /\ a = IF q[m] = "cors" THEN "preflight" ELSE "unauthorized"
    BY <1>7, <2>2
  <2>3. CASE /\ \A k \in DOMAIN q : ~Answers(q[k], kind, path)
             /\ a = Routed(i, kind, path)
    <3>1. siteSetup.health /\ path = "healthz"
      BY <1>7, <2>1, <2>3
    <3>2. PICK k \in DOMAIN FirstRoutes :
            /\ FirstRoutes[k] = SiteRoute("healthz", "health")
            /\ \A j \in 1 .. k - 1 : FirstRoutes[j].path # "healthz"
      BY <1>1, <3>1, FirstRoutesAre
    <3>3. FirstRoutes \in Seq(FrameworkRoute)
      BY <1>1, FirstRoutesAre
    <3>4. \A l \in DOMAIN FirstRoutes : l \in DOMAIN site[i].routes /\ site[i].routes[l] = FirstRoutes[l]
      BY <1>1, <1>2 DEF SiteFits, Assembled, Running, IsOpen
    <3>5. k \in Found(i, path)
      BY <3>1, <3>2, <3>4 DEF Found, SiteRoute
    <3>6. PICK m \in DOMAIN site[i].routes :
            /\ site[i].routes[m].path = path /\ a = site[i].routes[m].owner
            /\ \A l \in DOMAIN site[i].routes : site[i].routes[l].path = path => m <= l
      BY <1>3, <2>3, <3>5, RoutedIs
    <3>7. m <= k
      BY <3>1, <3>2, <3>4, <3>6 DEF SiteRoute
    <3>8. m \in 1 .. k
      BY <1>3, <3>3, <3>7
    <3>9. m \in DOMAIN FirstRoutes
      BY <3>3, <3>8
    <3>10. ~(m \in 1 .. k - 1)
      BY <3>1, <3>2, <3>4, <3>6, <3>9
    <3>11. m = k
      BY <3>3, <3>8, <3>10
    <3> QED
      BY <3>2, <3>4, <3>6, <3>11 DEF SiteRoute
  <2> QED
    BY <1>4, <2>2, <2>3
<1>15. /\ exchange'.through # <<>> /\ Head(exchange'.through) = "context"
       /\ \A k \in DOMAIN exchange'.through \ {1} :
            exchange'.through[k] # "jwt" =>
              k - 1 \in DOMAIN siteSetup.stack /\ exchange'.through[k] = siteSetup.stack[k - 1]
  <2>1. PICK m \in 1 .. Len(q) : exchange'.through = SubSeq(q, 1, m)
    <3>1. CASE exchange'.through = q
      <4>1. SubSeq(q, 1, Len(q)) = q /\ Len(q) \in 1 .. Len(q)
        BY <1>3, <1>5
      <4> QED
        BY <3>1, <4>1
    <3> QED
      BY <1>4, <1>5, <3>1
  <2>2. PICK t : t = exchange'.through
    OBVIOUS
  <2>3. Len(t) = m /\ t \in Seq(LayerName) /\ \A k \in 1 .. m : t[k] = q[k] /\ k \in DOMAIN q
    BY <1>3, <1>5, <2>1, <2>2
  <2>4. t # <<>> /\ Head(t) = "context"
    BY <1>5, <2>1, <2>3
  <2>5. ASSUME NEW k \in DOMAIN t \ {1}, t[k] # "jwt"
        PROVE  k - 1 \in DOMAIN siteSetup.stack /\ t[k] = siteSetup.stack[k - 1]
    BY <1>6, <2>3, <2>5
  <2> QED
    BY <2>2, <2>4, <2>5
<1>16. OwnControllers'
  BY <1>4, <1>12 DEF OwnControllers, Catalogue
<1>17. LayersAreRight'
  BY <1>4, <1>13, <1>14, <1>15 DEF LayersAreRight
<1> QED
  BY <1>1, <1>4, <1>10, <1>11, <1>16, <1>17 DEF ExchangeFits

LEMMA AskManagement ==
  ASSUME SitesFit, NEW kind, NEW path, Ask("management", kind, path)
  PROVE  ExchangeFits'
<1> DEFINE a == exchange'.answer
           m == site["management"]
           h == SiteRoute("healthz", "report")
           r == SiteRoute("reload", "reload")
<1>1. /\ siteSetup \in SiteSetups /\ "management" \in DOMAIN site /\ "management" \notin Sites
      /\ m.at = "listening" /\ m.layers = <<>> /\ m.routes = ManagementRoutes
      /\ m.routes \in Seq(AnyRoute)
  BY NoAdapterIsManagement DEF SitesFit, ManagementFits, SiteShape, Ask
<1>2. PICK q : q = <<>>
  OBVIOUS
<1>3. q = m.layers /\ q \in Seq(LayerName) /\ DOMAIN q = {}
  BY <1>1, <1>2
<1>4. Answering("management", kind, path, q)
  BY <1>1, <1>3, AskIs
<1>5. /\ siteSetup' = siteSetup /\ exchange'.at = "management" /\ exchange'.kind = kind
      /\ exchange'.path = path /\ a = Routed("management", kind, path)
  BY <1>3, <1>4 DEF Answering
<1>6. /\ h.path = "healthz" /\ h.owner = "report" /\ r.path = "reload" /\ r.owner = "reload"
  BY DEF SiteRoute
<1>7. /\ siteSetup.reload => m.routes = <<h, r>>
      /\ ~siteSetup.reload => m.routes = <<h>>
  <2>1. m.routes = <<h>> \o IF siteSetup.reload THEN <<r>> ELSE <<>>
    BY <1>1 DEF ManagementRoutes, ManagementHealth
  <2> HIDE DEF h, r, m
  <2>2. <<h>> \o <<r>> = <<h, r>>
    <3>1. <<h>> \o (<<r>> \o <<>>) = <<h, r>>
      BY ShortSequences
    <3>2. <<r>> \in Seq({r}) /\ <<r>> \o <<>> = <<r>>
      BY ConcatEmptySeq
    <3> QED
      BY <3>1, <3>2
  <2>3. <<h>> \in Seq({h}) /\ <<h>> \o <<>> = <<h>>
    BY ConcatEmptySeq
  <2> QED
    BY <2>1, <2>2, <2>3
<1> HIDE DEF h, r
<1>8. \A k \in DOMAIN m.routes : m.routes[k] \in {h, r}
  BY <1>7
<1>9. a \in {"report", "reload", "not_found", "not_allowed"}
  BY <1>1, <1>5, <1>6, <1>8, RoutedIs
<1>10. path = "reload" /\ siteSetup.reload /\ kind # "preflight" => a = "reload"
  <2> SUFFICES ASSUME path = "reload", siteSetup.reload, kind # "preflight" PROVE a = "reload"
    OBVIOUS
  <2>1. 2 \in Found("management", path)
    BY <1>6, <1>7 DEF Found
  <2>2. PICK k \in DOMAIN m.routes : m.routes[k].path = path /\ a = m.routes[k].owner
    BY <1>1, <1>5, <2>1, RoutedIs
  <2> QED
    BY <1>6, <1>8, <2>2
<1>11. \A c \in Catalogue : a # c.name
  <2>1. \A c \in Catalogue : c.name \notin OwnAnswers
    BY <1>1, SetupShape DEF Catalogue
  <2>2. a \in OwnAnswers
    BY <1>9 DEF OwnAnswers
  <2> QED
    BY <2>1, <2>2
<1>12. OwnControllers'
  BY <1>1, <1>5, <1>11 DEF OwnControllers, Catalogue
<1>13. LayersAreRight'
  BY <1>1, <1>5 DEF LayersAreRight
<1> QED
  BY <1>5, <1>9, <1>10, <1>12, <1>13 DEF ExchangeFits

\* No request, or the same one.
LEMMA QuietExchange ==
  ASSUME SiteInv, siteSetup' = siteSetup, exchange' = exchange
  PROVE  ExchangeFits'
BY DEF SiteInv, ExchangeFits, OwnControllers, LayersAreRight

LEMMA SitesStay ==
  ASSUME SitesFit, siteSetup' = siteSetup, site' = site
  PROVE  SitesFit'
<1>1. \A i \in Sites : SiteFits(i, site[i])'
  <2> SUFFICES ASSUME NEW i \in Sites PROVE SiteFits(i, site[i])'
    OBVIOUS
  <2>1. PICK s : s = site[i]
    OBVIOUS
  <2>2. SiteFits(i, s)'
    BY <2>1, FitStays DEF SitesFit
  <2> QED
    BY <2>1, <2>2
<1>2. ManagementFits(site["management"])'
  <2>1. PICK s : s = site["management"]
    OBVIOUS
  <2>2. ManagementFits(s)'
    BY <2>1, FitStays DEF SitesFit
  <2> QED
    BY <2>1, <2>2
<1> QED
  BY <1>1, <1>2 DEF SitesFit

LEMMA NoAnswer ==
  ASSUME SitesFit, siteSetup' = siteSetup, exchange' = NoExchange
  PROVE  ExchangeFits'
<1>1. /\ exchange'.at = "none" /\ exchange'.kind = "" /\ exchange'.answer = ""
  BY DEF NoExchange
<1>2. \A c \in Catalogue : c.name # ""
  BY SetupShape DEF SitesFit, Catalogue, OwnAnswers
<1>3. OwnControllers'
  BY <1>1, <1>2, NoAdapterIsManagement DEF OwnControllers, Catalogue
<1>4. LayersAreRight'
  BY <1>1, NoAdapterIsManagement DEF LayersAreRight
<1> QED
  BY <1>1, <1>3, <1>4 DEF ExchangeFits

LEMMA SiteStarts == SiteInit => SiteInv
<1> SUFFICES ASSUME SiteInit PROVE SiteInv
  OBVIOUS
<1>1. PICK n, a : a = "new" /\ n = [NewSite EXCEPT !.at = a]
  OBVIOUS
<1>2. n = NewSite
  BY <1>1 DEF NewSite
<1>3. siteSetup \in SiteSetups /\ site = [i \in Sites \cup {"management"} |-> n] /\ exchange = NoExchange
  BY <1>2 DEF SiteInit
<1>4. \A i : SiteFits(i, n)
  BY <1>1, EmptySite DEF Running
<1>5. ManagementFits(n)
  <2>1. n.at = "new" /\ SiteShape(n)
    BY <1>2, <1>4 DEF NewSite, SiteFits
  <2> QED
    BY <2>1 DEF ManagementFits
<1>6. SitesFit
  BY <1>3, <1>4, <1>5 DEF SitesFit
<1>7. /\ exchange.at = "none" /\ exchange.kind = "" /\ exchange.answer = ""
  BY <1>3 DEF NoExchange
<1>8. \A c \in Catalogue : c.name # ""
  BY <1>3, SetupShape DEF Catalogue, OwnAnswers
<1>9. OwnControllers
  BY <1>7, <1>8, NoAdapterIsManagement DEF OwnControllers, Catalogue
<1>10. LayersAreRight
  BY <1>7, NoAdapterIsManagement DEF LayersAreRight
<1>11. ExchangeFits
  BY <1>7, <1>9, <1>10 DEF ExchangeFits
<1> QED
  BY <1>6, <1>11 DEF SiteInv

LEMMA SiteSteps == SiteInv /\ [SiteNext]_siteVars => SiteInv'
<1> SUFFICES ASSUME SiteInv, [SiteNext]_siteVars PROVE SiteInv'
  OBVIOUS
<1>1. SitesFit
  BY DEF SiteInv
<1>2. CASE SiteChanges
  <2>1. SitesFit'
    <3>1. CASE OpenManagement
      BY <1>1, <3>1, OpenManagementKeeps
    <3>2. ASSUME NEW i \in Sites, BuildSite(i) \/ RegisterNext(i) \/ OpenSite(i) \/ ServeSite(i)
          PROVE  SitesFit'
      BY <1>1, <3>2, BuildSiteKeeps, RegisterKeeps, OpenKeeps
    <3>3. ASSUME NEW i \in DOMAIN site, StopSite(i) PROVE SitesFit'
      BY <1>1, <3>3, StopSiteKeeps
    <3> QED
      BY <1>2, <3>1, <3>2, <3>3 DEF SiteChanges
  <2>2. siteSetup' = siteSetup /\ exchange' = exchange
    BY <1>2 DEF SiteChanges, OpenManagement, BuildSite, RegisterNext, OpenSite, ServeSite, StopSite
  <2> QED
    BY <2>1, <2>2, QuietExchange DEF SiteInv
<1>3. ASSUME NEW i \in DOMAIN site, NEW kind, NEW path, Ask(i, kind, path)
      PROVE  SiteInv'
  <2>1. SitesFit'
    BY <1>1, <1>3, AskKeepsSites
  <2>2. i \in Sites \/ i = "management"
    BY <1>1 DEF SitesFit
  <2>3. ExchangeFits'
    BY <1>1, <1>3, <2>2, AskSite, AskManagement
  <2> QED
    BY <2>1, <2>3 DEF SiteInv
<1>4. CASE Answered
  <2>1. siteSetup' = siteSetup /\ site' = site /\ exchange' = NoExchange
    BY <1>4 DEF Answered
  <2>2. ExchangeFits'
    BY <1>1, <2>1, NoAnswer
  <2>3. SitesFit'
    BY <1>1, <2>1, SitesStay
  <2> QED
    BY <2>2, <2>3 DEF SiteInv
<1>5. CASE UNCHANGED siteVars
  <2>1. siteSetup' = siteSetup /\ site' = site /\ exchange' = exchange
    BY <1>5 DEF siteVars
  <2> QED
    BY <1>1, <2>1, SitesStay, QuietExchange DEF SiteInv
<1> QED
  BY <1>2, <1>3, <1>4, <1>5 DEF SiteNext

LEMMA PortsFollow == SiteInv => PortsAreAsConfigured
<1> SUFFICES ASSUME SiteInv, NEW i \in Sites, site[i].at \in IsOpen
             PROVE  /\ siteSetup.cell \in {"unset", "empty"} \/ site[i].scheme = "https"
                    /\ siteSetup.cell = "empty" => site[i].scheme = "http"
                    /\ siteSetup.cell = "unset" => (site[i].scheme = "https" <=> siteSetup.flat = "good")
                    /\ ~("cors" \in ToSet(siteSetup.stack) /\ siteSetup.origins = "star"
                           /\ siteSetup.credentials)
  BY DEF PortsAreAsConfigured, IsOpen
<1>1. CorsAllowed /\ TlsAllowed /\ site[i].scheme = Scheme
  BY DEF SiteInv, SitesFit, SiteFits, Assembled, Running, IsOpen
<1>2. Tls \in {"unset", "empty", "good"} /\ Scheme = IF Tls = "good" THEN "https" ELSE "http"
  BY <1>1 DEF TlsAllowed, Scheme
<1> QED
  BY <1>1, <1>2 DEF CorsAllowed, Tls

\* Every adapter of a process serves as it was configured, and to no one else: nothing
\* of the documentation outside development, a page only with the schema it loads, no
\* controller of another adapter, none without a token where tokens are asked for, no
\* preflight refused for want of one, no port that speaks what its cell does not say,
\* and a management listener that only the machine itself reaches (adapters/web).
THEOREM SiteStaysSound == SiteSpec => []SiteIsSound
<1>1. SiteInv => SiteIsSound
  <2> SUFFICES ASSUME SiteInv PROVE SiteIsSound
    OBVIOUS
  <2>1. DocsAreForDevelopment
    BY DEF SiteInv, SitesFit, ExchangeFits, SiteFits, RoutesFit, SchemaFits, DocsAreForDevelopment, Catalogue
  <2>2. OwnControllers /\ LayersAreRight
    BY DEF SiteInv, ExchangeFits
  <2>3. ManagementIsApart
    BY DEF SiteInv, SitesFit, ExchangeFits, ManagementFits, ManagementIsApart
  <2> QED
    BY <2>1, <2>2, <2>3, PortsFollow DEF SiteIsSound
<1> QED
  BY <1>1, SiteStarts, SiteSteps, PTL DEF SiteSpec

----------------------------------------------------------------------------
(* Parts that meet the same outside world                                  *)

(* However requests, frames, tasks and tokens interleave, a connection is  *)
(* told farewell once, a task reads its own context, the gate opens for    *)
(* good tokens only, an RPC ends with the status its error maps to and a   *)
(* site answers with its own routes behind its own middleware              *)
(* (web/ws/_handler.py, core/context, starters/jwt, adapters/grpc,         *)
(* adapters/web).                                                          *)
THEOREM RequestsStaySound ==
  WsSpec /\ ContextSpec /\ GateSpec /\ GrpcServerSpec /\ SiteSpec => []RequestsAreSound
<1>1. FarewellOnce /\ ContextTypeOK /\ ContextIsOwn /\ GateIsSound /\ CallsAreServed
        /\ SiteIsSound => RequestsAreSound
  BY DEF RequestsAreSound
<1> QED
  BY <1>1, WsSaysFarewellOnce, ContextStaysOwn, GateStaysSound, CallsStayServed,
     SiteStaysSound, PTL

(* Whatever the broker and the OPC UA peers send, drop and resend, routes, *)
(* handlers and watches see each message and value as the code says        *)
(* (mqtt/_adapter.py; opcua/_server.py, _adapter.py).                      *)
THEOREM DevicesStaySound == MqttSpec /\ UaSpec => []DevicesAreSound
<1>1. MessagesAreSound /\ NodesAreSound => DevicesAreSound
  BY DEF DevicesAreSound
<1> QED BY <1>1, MessagesStaySound, NodesStaySound, PTL
=============================================================================
