---------------------------- MODULE GrpcChannel ----------------------------
(***************************************************************************)
(* The channel of one gRPC client whose certificates rotate:               *)
(* adapters/grpc/client/_channel.py and _config.py.  Calls come from       *)
(* several threads; each looks at the version of the certificate, rebuilds *)
(* the channel under a lock if it is another one, and retires the old one. *)
(***************************************************************************)
EXTENDS Integers, Sequences, FiniteSets

CONSTANTS
  Callers,     \* threads that call
  MaxCert,     \* bound: rotations of the certificate
  MaxAttempts, \* retry.max_attempts
  MaxChannels  \* bound: channels built

ASSUME GrpcAssumption ==
  MaxCert \in Nat /\ MaxAttempts \in Nat \ {0} /\ MaxChannels \in Nat \ {0}

VARIABLES
  certificate,  \* what the provider has: version() and current()
  channels,     \* every grpc.aio channel built: its certificate and its state
  channel,      \* _channel: an index of channels, or 0
  certVersion,  \* _cert_version
  retired,      \* _retired
  caller,       \* caller[t]: a call of thread t
  closing       \* close(): "no", "current", "retired", "done"

grpcVars == <<certificate, channels, channel, certVersion, retired, caller, closing>>

NoCall == [at |-> "idle", version |-> 0, on |-> 0, attempt |-> 0]

GrpcInit ==
  /\ certificate = 0 /\ channels = <<>> /\ channel = 0 /\ certVersion = -1
  /\ retired = {} /\ caller = [t \in Callers |-> NoCall] /\ closing = "no"

RotateCertificate ==
  /\ certificate < MaxCert /\ certificate' = certificate + 1
  /\ UNCHANGED <<channels, channel, certVersion, retired, caller, closing>>

\* _dynamic_channel reads the version before it takes the lock.
CallBegins(t) ==
  /\ caller[t].at = "idle"
  /\ caller' = [caller EXCEPT ![t] = [NoCall EXCEPT !.at = "looking", !.version = certificate]]
  /\ UNCHANGED <<certificate, channels, channel, certVersion, retired, closing>>

Owns(t) == caller[t].at \in {"building", "installing"}
LockFree == \A t \in Callers : ~Owns(t)
Stale(t) == channel = 0 \/ caller[t].version # certVersion

UseChannel(t) ==
  /\ caller[t].at = "looking" /\ LockFree /\ ~Stale(t)
  /\ caller' = [caller EXCEPT ![t].at = "inflight", ![t].on = channel, ![t].attempt = 1]
  /\ UNCHANGED <<certificate, channels, channel, certVersion, retired, closing>>

\* A channel is made of the certificate the provider has by now ...
BuildChannel(t) ==
  /\ caller[t].at = "looking" /\ LockFree /\ Stale(t) /\ Len(channels) < MaxChannels
  /\ channels' = Append(channels, [cert |-> certificate, state |-> "open"])
  /\ caller' = [caller EXCEPT ![t].at = "building", ![t].on = Len(channels) + 1]
  /\ UNCHANGED <<certificate, channel, certVersion, retired, closing>>

\* ... and replaces the old one.  Where a loop runs the old one begins to close, with
\* a grace for its calls; without one it waits for close().
RetireOld(t) ==
  /\ caller[t].at = "building"
  /\ caller' = [caller EXCEPT ![t].at = "installing"]
  /\ IF channel = 0 THEN UNCHANGED <<channels, retired>>
     ELSE /\ retired' = retired \cup {channel}
          /\ \E state \in {"closing", "open"} :
               channels' = [channels EXCEPT ![channel].state = IF @ = "closed" THEN @ ELSE state]
  /\ UNCHANGED <<certificate, channel, certVersion, closing>>

\* What is filed with it is the version that the call had read.
RecordedLate(t) == certificate                                  \* mutant
Recorded(t)     == caller[t].version
InstallChannel(t) ==
  /\ caller[t].at = "installing"
  /\ channel' = caller[t].on
  /\ certVersion' = Recorded(t)
  /\ caller' = [caller EXCEPT ![t].at = "inflight", ![t].attempt = 1]
  /\ UNCHANGED <<certificate, channels, retired, closing>>

\* close_later: the grace is over, or no call is left.
RetiredCloses(c) ==
  /\ c \in retired /\ channels[c].state = "closing"
  /\ channels' = [channels EXCEPT ![c].state = "closed"]
  /\ retired' = retired \ {c}
  /\ UNCHANGED <<certificate, channel, certVersion, caller, closing>>

\* _unary_with_retry: a retryable status is tried again on the same channel, and a
\* channel that closes takes no new attempt.
Retry(t) ==
  /\ caller[t].at = "inflight" /\ caller[t].attempt < MaxAttempts
  /\ channels[caller[t].on].state = "open"
  /\ caller' = [caller EXCEPT ![t].attempt = @ + 1]
  /\ UNCHANGED <<certificate, channels, channel, certVersion, retired, closing>>

CallEnds(t) ==
  /\ caller[t].at = "inflight"
  /\ caller' = [caller EXCEPT ![t] = NoCall]
  /\ UNCHANGED <<certificate, channels, channel, certVersion, retired, closing>>

\* close(): the current channel, then every retired one.  Both are awaited.
CloseCurrent ==
  /\ closing = "no" /\ closing' = "current"
  /\ channels' = IF channel = 0 THEN channels ELSE [channels EXCEPT ![channel].state = "closed"]
  /\ UNCHANGED <<certificate, channel, certVersion, retired, caller>>
CloseRetired ==
  /\ closing = "current" /\ closing' = "done"
  /\ channel' = 0
  /\ channels' = [c \in DOMAIN channels |->
                    IF c \in retired THEN [channels[c] EXCEPT !.state = "closed"] ELSE channels[c]]
  /\ retired' = {}
  /\ UNCHANGED <<certificate, certVersion, caller>>

GrpcNext ==
  \/ RotateCertificate \/ CloseCurrent \/ CloseRetired
  \/ \E t \in Callers : \/ CallBegins(t) \/ UseChannel(t) \/ BuildChannel(t)
                        \/ RetireOld(t) \/ InstallChannel(t) \/ Retry(t) \/ CallEnds(t)
  \/ \E c \in retired : RetiredCloses(c)

GrpcSpec == GrpcInit /\ [][GrpcNext]_grpcVars
-----------------------------------------------------------------------------
GrpcTypeOK ==
  /\ certificate \in 0 .. MaxCert /\ certVersion \in -1 .. MaxCert
  /\ channel \in 0 .. Len(channels) /\ retired \subseteq DOMAIN channels
  /\ \A c \in DOMAIN channels :
       channels[c] \in [cert : 0 .. MaxCert, state : {"open", "closing", "closed"}]
  /\ \A t \in Callers : caller[t].at \in {"idle", "looking", "building", "installing", "inflight"}

\* A call goes out with the certificate that was current when it began, or a newer
\* one: the version that is filed for a channel never runs ahead of the certificate
\* the channel was made of, although the provider rotates between version() and
\* current(), and slow callers come to the lock with versions long outdated.
CallsUseFreshCertificates ==
  /\ channel # 0 => channels[channel].cert >= certVersion
  /\ \A t \in Callers : caller[t].at = "inflight" => channels[caller[t].on].cert >= caller[t].version

\* Until the client is closed no connection is forgotten: a channel that is open is
\* the current one, is kept to be closed, or is being installed - of two callers
\* that see a rotation at the same time one builds, and the other takes its channel.
NoChannelForgotten ==
  closing = "no" =>
    \A c \in DOMAIN channels : channels[c].state # "closed" =>
      c = channel \/ c \in retired \/ \E t \in Callers : Owns(t) /\ caller[t].on = c

\* Rotation of client certificates under concurrent calls (_channel.py:162-247).
ChannelsAreSound == CallsUseFreshCertificates /\ NoChannelForgotten
=============================================================================
