---------------------------- MODULE LinkContract ----------------------------
(***************************************************************************)
(* What the bus promises one reader: until the reader is lapped on a       *)
(* channel, that channel hands it every message marked for it, once, whole *)
(* and in the order each writer sent them.  Being lapped is visible (the   *)
(* `missed' counter of the reader is no longer 0), and from then on        *)
(* nothing is promised on that channel.                                    *)
(***************************************************************************)
EXTENDS Integers, Sequences

CONSTANTS Reader, Channel

VARIABLES
  owed,       \* owed[r]: messages marked for r and not yet taken by it
  delivered,  \* delivered[r]: what r has taken, in order
  lapped      \* lapped[r]: the channels on which r knows it lost something

vars == <<owed, delivered, lapped>>

SameSource(x, y) == x.ch = y.ch /\ x.msg.from = y.msg.from

Taken(r) == {[ch |-> delivered[r][i].ch, msg |-> delivered[r][i].body] : i \in DOMAIN delivered[r]}

Init ==
  /\ owed = [r \in Reader |-> {}]
  /\ delivered = [r \in Reader |-> <<>>]
  /\ lapped = [r \in Reader |-> {}]

\* A writer marks a message newer than all it has marked for r before.
Mark(r, x) ==
  /\ x.ch \notin lapped[r]
  /\ \A y \in owed[r] \cup Taken(r) : SameSource(x, y) => y.msg.n < x.msg.n
  /\ owed' = [owed EXCEPT ![r] = @ \cup {x}]
  /\ UNCHANGED <<delivered, lapped>>

\* The reader takes the oldest message some writer still owes it.
Take(r, x) ==
  /\ \A y \in owed[r] : SameSource(x, y) => x.msg.n <= y.msg.n
  /\ owed' = [owed EXCEPT ![r] = @ \ {x}]
  /\ delivered' = [delivered EXCEPT ![r] = Append(@, [ch |-> x.ch, head |-> x.msg, body |-> x.msg])]
  /\ UNCHANGED lapped

Lap(r, c) ==
  /\ lapped' = [lapped EXCEPT ![r] = @ \cup {c}]
  /\ owed' = [owed EXCEPT ![r] = {x \in @ : x.ch # c}]
  /\ UNCHANGED delivered

\* On a lapped channel anything may come out of a row.
TakeAnything(r, x) ==
  /\ x.ch \in lapped[r]
  /\ delivered' = [delivered EXCEPT ![r] = Append(@, x)]
  /\ UNCHANGED <<owed, lapped>>

Next ==
  \E r \in Reader :
    \/ \E x \in owed'[r] : Mark(r, x)
    \/ \E x \in owed[r] : Take(r, x)
    \/ \E c \in Channel : Lap(r, c)
    \/ \E i \in DOMAIN delivered'[r] : TakeAnything(r, delivered'[r][i])

Spec == Init /\ [][Next]_vars
=============================================================================
