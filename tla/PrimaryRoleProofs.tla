------------------------- MODULE PrimaryRoleProofs -------------------------
(***************************************************************************)
(* The safety properties of PrimaryRole for any number of workers, any     *)
(* list of adapters, any limit of promotions and any number of faults and  *)
(* refusals.  The invariants that carry them are stated one by one below,  *)
(* each with the section that proves it.                                   *)
(***************************************************************************)
EXTENDS PrimaryRole, SequenceTheorems, WellFoundedInduction, TLAPS

\* Where the adapters of a process are, k being the next one of its startup.
Lists(x, k) ==
  /\ x.standby \cup x.waiting \cup x.started = {j \in Adapter : j < k}
  /\ (x.standby \cup x.waiting) \cap x.started = {}

\* The handler of the control channel, between two of its awaits.
Handler(x) ==
  /\ x.ctl # "idle" => x.role
  /\ x.ctl # "standby" => x.waiting = {}
  /\ x.ctl = "standby" => x.standby = {} /\ x.launched \subseteq x.waiting /\ x.launched # x.waiting

GoodWorker(x) ==
  /\ x \in Process
  /\ Lists(x, x.k)
  /\ Handler(x)
  /\ x.pc \in {"boot", "once"} => x.k = 0
  /\ x.pc = "starting" => x.k \in Adapter
  /\ x.pc = "serving" => \A j \in x.started : x.serving[j] > 0

\* What the supervisor may rely on at each point of its loop.
GoodBoss ==
  /\ boss \in Boss
  /\ boss.stopped => boss.primary = Nobody
  /\ boss.pc \in {"first", "rest", "wait", "sleep"} => boss.batch = <<>>
  /\ boss.pc = "first" => boss.children = {}
  /\ boss.ready \subseteq boss.children
  /\ boss.pc = "sleep" => boss.who \in Worker \ boss.children /\ ~Exists(boss.who)
  /\ \A w \in boss.ready : ~Exists(w)
  /\ \A w \in Worker \ boss.children :
       worker[w].life = "unborn" \/ (boss.pc = "sleep" /\ boss.who = w)

Messages == [once : BOOLEAN, life : Nat]

RoleTypeInv ==
  /\ GoodBoss
  /\ worker \in [Worker -> Process] /\ \A w \in Worker : GoodWorker(worker[w])
  /\ mail \in [Worker -> Seq(Messages)]
  /\ inbox \in Seq(Reports)
  /\ onceEver \in BOOLEAN /\ misled \in BOOLEAN
  /\ faults \in Nat /\ refusals \in Nat
-----------------------------------------------------------------------------
(* The operators of PrimaryRole *)

\* Least, the `min' and the "first one" of the code, is a least member of any
\* non-empty set of numbers.
LEMMA LeastIn ==
  ASSUME NEW S, S \subseteq Nat, S # {}
  PROVE  Least(S) \in S /\ \A y \in S : Least(S) <= y
<1> DEFINE R == OpToRel(<, Nat)
<1>1. IsWellFoundedOn(R, Nat)
  BY NatLessThanWellFounded
<1>2. PICK x \in S : \A y \in S : ~(<<y, x>> \in R)
  <2> HIDE DEF R
  <2> QED
    BY <1>1, WFMin
<1>3. \A y \in S : x <= y
  <2> SUFFICES ASSUME NEW y \in S PROVE x <= y
    OBVIOUS
  <2>1. x \in Nat /\ y \in Nat
    OBVIOUS
  <2>2. y < x => <<y, x>> \in R
    BY <2>1 DEF OpToRel
  <2> HIDE DEF R
  <2> QED
    BY <1>2, <2>1, <2>2
<1> QED
  BY <1>3 DEF Least

LEMMA Sets ==
  /\ Adapter = 1 .. Len(Scaling) /\ Len(Scaling) \in Nat
  /\ Worker \subseteq Nat /\ Nobody \notin Worker
  /\ PromotionLimit \in Nat \ {0} /\ FirstPrimary \in Worker
BY RoleAssumption DEF RoleAssumption, Adapter, Worker, Nobody

\* RunFrom goes through the rest of the startup loop: it leaves the process
\* before an adapter it has to start or serving, with everything passed listed.
LEMMA RunFromFacts ==
  ASSUME NEW x \in Process, NEW k \in 1 .. Len(Scaling) + 1, Handler(x), Lists(x, k)
  PROVE  LET y == RunFrom(x, k) IN
           /\ GoodWorker(y)
           /\ y.pc \in {"starting", "serving"}
           /\ y.life = x.life /\ y.lives = x.lives /\ y.role = x.role /\ y.ctl = x.ctl
<1> DEFINE ends == {j \in k .. Len(Scaling) + 1 :
                      j \in Adapter => x.role \/ Scaling[j] # "singleton"}
           j    == Least(ends)
           y    == [x EXCEPT !.standby = @ \cup (k .. j - 1), !.k = j, !.pc = "starting"]
           z    == [y EXCEPT !.pc = "serving",
                     !.serving = [i \in Adapter |-> IF i \in x.started THEN @[i] + 1 ELSE @[i]]]
<1>1. /\ ends \subseteq Nat /\ ends \subseteq k .. Len(Scaling) + 1
      /\ Len(Scaling) + 1 \in ends
      /\ x.role => k \in ends
  BY Sets
<1>2. j \in ends /\ \A i \in ends : j <= i
  <2> HIDE DEF ends
  <2> QED
    BY <1>1, LeastIn
<1>3. /\ j \in k .. Len(Scaling) + 1 /\ j \in Nat
      /\ x.role => j = k
      /\ k .. j - 1 \subseteq Adapter
      /\ j \notin Adapter => j = Len(Scaling) + 1
  <2> HIDE DEF ends, j
  <2> QED
    BY <1>1, <1>2, Sets
<1> HIDE DEF j, ends
<1>4. /\ y \in Process
      /\ y.k = j /\ y.pc = "starting" /\ y.standby = x.standby \cup (k .. j - 1)
      /\ y.waiting = x.waiting /\ y.started = x.started /\ y.launched = x.launched
      /\ y.life = x.life /\ y.lives = x.lives /\ y.role = x.role /\ y.ctl = x.ctl
      /\ y.serving = x.serving /\ y.needed = x.needed
  <2>1. j \in 0 .. Len(Scaling) + 1 /\ x.standby \cup (k .. j - 1) \in SUBSET Adapter
    BY <1>3, Sets DEF Process
  <2> DEFINE s == x.standby \cup (k .. j - 1)
  <2>2. y = [x EXCEPT !.standby = s, !.k = j, !.pc = "starting"]
    BY DEF Process
  <2> HIDE DEF s, y
  <2> QED
    BY <2>1, <2>2 DEF Process, s
<1> HIDE DEF y
<1>5. /\ z \in Process
      /\ z.k = j /\ z.pc = "serving" /\ z.standby = y.standby
      /\ z.waiting = x.waiting /\ z.started = x.started /\ z.launched = x.launched
      /\ z.life = x.life /\ z.lives = x.lives /\ z.role = x.role /\ z.ctl = x.ctl
      /\ \A i \in x.started : z.serving[i] > 0
  <2>1. z \in Process
    <3> DEFINE f == [i \in Adapter |-> IF i \in x.started THEN y.serving[i] + 1 ELSE y.serving[i]]
    <3>1. f \in [Adapter -> Nat]
      BY <1>4 DEF Process
    <3>2. z = [y EXCEPT !.pc = "serving", !.serving = f]
      BY <1>4 DEF Process
    <3> HIDE DEF f, z
    <3> QED
      BY <3>1, <3>2, <1>4 DEF Process
  <2>2. \A i \in x.started : i \in Adapter /\ y.serving[i] \in Nat
    BY <1>4 DEF Process
  <2>3. \A i \in Adapter : z.serving[i] = IF i \in x.started THEN y.serving[i] + 1 ELSE y.serving[i]
    BY <1>4 DEF Process
  <2>4. \A i \in x.started : z.serving[i] > 0
    BY <2>2, <2>3
  <2> QED
    BY <2>1, <2>4, <1>4 DEF Process
<1>6. RunFrom(x, k) = IF j \in Adapter THEN y ELSE z
  BY DEF RunFrom, y, j, ends
<1>7. /\ x.standby \cup (k .. j - 1) \cup x.waiting \cup x.started = {i \in Adapter : i < j}
      /\ (x.standby \cup (k .. j - 1) \cup x.waiting) \cap x.started = {}
      /\ x.ctl = "standby" => x.standby \cup (k .. j - 1) = {}
  <2>1. \A i \in k .. j - 1 : i \in Adapter /\ i < j /\ ~(i < k)
    BY <1>3
  <2>2. \A i \in Adapter : i < j => i < k \/ i \in k .. j - 1
    BY <1>3, Sets
  <2>3. \A i \in Adapter : i < k => i < j
    BY <1>3, Sets
  <2>4. x.ctl = "standby" => k .. j - 1 = {}
    BY <1>3 DEF Handler
  <2> QED
    BY <2>1, <2>2, <2>3, <2>4 DEF Lists, Handler
<1>8. Lists(y, j) /\ Handler(y) /\ Lists(z, j) /\ Handler(z)
  BY <1>4, <1>5, <1>7 DEF Lists, Handler
<1> HIDE DEF z
<1> QED
  BY <1>3, <1>4, <1>5, <1>6, <1>8 DEF GoodWorker

LEMMA UnbornFacts == GoodWorker(Unborn) /\ Unborn.life = "unborn" /\ Unborn.lives = 0
                     /\ Unborn.pc = "boot" /\ Unborn.ctl = "idle" /\ ~Unborn.role
<1>1. Unborn \in Process
  BY Sets DEF Process, Unborn
<1>2. {j \in Adapter : j < 0} = {}
  BY Sets
<1> QED
  BY <1>1, <1>2 DEF Unborn, GoodWorker, Lists, Handler

\* What Launch leaves alone, and that it keeps the process good.
LEMMA LaunchFacts ==
  ASSUME NEW x, GoodWorker(x), x.role, x.ctl # "standby"
  PROVE  /\ GoodWorker(Launch(x))
         /\ Launch(x).life = x.life /\ Launch(x).lives = x.lives /\ Launch(x).pc = x.pc
         /\ Launch(x).role /\ Launch(x).needed = x.needed /\ Launch(x).ctl \in {"idle", "standby"}
<1>1. x \in Process
  BY DEF GoodWorker
<1>2. CASE x.standby = {}
  BY <1>1, <1>2 DEF Launch, GoodWorker, Process, Lists, Handler
<1>3. CASE x.standby # {}
  <2> DEFINE y == [x EXCEPT !.ctl = "standby", !.waiting = x.standby, !.launched = {},
                            !.standby = {}]
  <2>1. /\ y \in Process
        /\ y.life = x.life /\ y.lives = x.lives /\ y.pc = x.pc /\ y.k = x.k /\ y.role = x.role
        /\ y.needed = x.needed /\ y.ctl = "standby" /\ y.waiting = x.standby /\ y.launched = {}
        /\ y.standby = {} /\ y.started = x.started /\ y.serving = x.serving
    BY <1>1 DEF Process
  <2>2. Launch(x) = y
    BY <1>3 DEF Launch
  <2> HIDE DEF y
  <2> QED
    BY <1>1, <1>3, <2>1, <2>2 DEF GoodWorker, Lists, Handler
<1> QED
  BY <1>2, <1>3

\* The start() of one more standby adapter.
LEMMA StandbyFacts ==
  ASSUME NEW x, GoodWorker(x), x.ctl = "standby"
  PROVE  LET launched == x.launched \cup {Least(x.waiting \ x.launched)}
             y == IF launched = x.waiting THEN ServeLaunched(x, launched)
                  ELSE [x EXCEPT !.launched = launched]
         IN  /\ GoodWorker(y)
             /\ y.life = x.life /\ y.lives = x.lives /\ y.pc = x.pc
             /\ y.role = x.role /\ y.needed = x.needed /\ y.ctl \in {"idle", "standby"}
<1> DEFINE launched == x.launched \cup {Least(x.waiting \ x.launched)}
<1>1. x \in Process
  BY DEF GoodWorker
<1>2. x.waiting \subseteq Adapter /\ launched \subseteq x.waiting
  <2>1. x.waiting \ x.launched # {} /\ x.waiting \ x.launched \subseteq Nat
    <3>1. x.launched \subseteq x.waiting /\ x.launched # x.waiting
      BY DEF GoodWorker, Handler
    <3>2. x.waiting \subseteq Nat
      BY <1>1, Sets DEF Process
    <3> QED
      BY <3>1, <3>2
  <2>2. Least(x.waiting \ x.launched) \in x.waiting \ x.launched
    BY <2>1, LeastIn
  <2> QED
    BY <1>1, <2>2 DEF GoodWorker, Handler, Process
<1> HIDE DEF launched
<1>3. CASE launched = x.waiting
  <2> DEFINE f == [i \in Adapter |-> IF i \in launched THEN x.serving[i] + 1 ELSE x.serving[i]]
             y == ServeLaunched(x, launched)
  <2>1. f \in [Adapter -> Nat] /\ x.started \subseteq Adapter
    BY <1>1 DEF Process
  <2>2. /\ y = [x EXCEPT !.ctl = "idle", !.waiting = {}, !.launched = {},
                        !.started = x.started \cup launched, !.serving = f]
    BY <1>1 DEF ServeLaunched, Process
  <2>3. x.pc = "serving" => \A i \in x.started \cup launched : f[i] > 0
    <3>1. \A i \in Adapter : x.serving[i] \in Nat
      BY <1>1 DEF Process
    <3> QED
      BY <1>2, <2>1, <3>1 DEF GoodWorker
  <2> HIDE DEF f, y
  <2>4. /\ y \in Process
        /\ y.life = x.life /\ y.lives = x.lives /\ y.pc = x.pc /\ y.k = x.k /\ y.role = x.role
        /\ y.needed = x.needed /\ y.ctl = "idle" /\ y.waiting = {} /\ y.launched = {}
        /\ y.standby = x.standby /\ y.started = x.started \cup launched /\ y.serving = f
    BY <1>1, <1>2, <2>1, <2>2 DEF Process
  <2>5. GoodWorker(y)
    <3>1. Lists(y, y.k) /\ Handler(y)
      BY <1>3, <2>4 DEF GoodWorker, Lists, Handler
    <3> QED
      BY <2>3, <2>4, <3>1 DEF GoodWorker
  <2> QED
    BY <1>3, <2>4, <2>5 DEF y, launched
<1>4. CASE launched # x.waiting
  <2> DEFINE y == [x EXCEPT !.launched = launched]
  <2>1. /\ y \in Process
        /\ y.life = x.life /\ y.lives = x.lives /\ y.pc = x.pc /\ y.k = x.k /\ y.role = x.role
        /\ y.needed = x.needed /\ y.ctl = x.ctl /\ y.waiting = x.waiting /\ y.launched = launched
        /\ y.standby = x.standby /\ y.started = x.started /\ y.serving = x.serving
    BY <1>1, <1>2 DEF Process
  <2> HIDE DEF y
  <2>2. GoodWorker(y)
    BY <1>2, <1>4, <2>1 DEF GoodWorker, Lists, Handler
  <2> QED
    BY <1>4, <2>1, <2>2 DEF y, launched
<1> QED
  BY <1>3, <1>4

\* The rollback of a promotion.
LEMMA RefusedFacts ==
  ASSUME NEW x, GoodWorker(x), x.ctl # "idle"
  PROVE  /\ GoodWorker(Refused(x))
         /\ Refused(x).life = x.life /\ Refused(x).lives = x.lives /\ Refused(x).pc = x.pc
         /\ ~Refused(x).role /\ Refused(x).ctl = "idle"
<1> DEFINE y == Refused(x)
           s == IF x.ctl = "standby" THEN x.waiting ELSE x.standby
<1>1. x \in Process
  BY DEF GoodWorker
<1>2. /\ y \in Process
      /\ y.life = x.life /\ y.lives = x.lives /\ y.pc = x.pc /\ y.k = x.k /\ y.role = FALSE
      /\ y.needed = x.needed /\ y.ctl = "idle" /\ y.waiting = {} /\ y.launched = {}
      /\ y.standby = s /\ y.started = x.started /\ y.serving = x.serving
  BY <1>1 DEF Process, Refused
<1>3. s = x.standby \cup x.waiting
  BY DEF GoodWorker, Handler
<1> HIDE DEF y, s
<1>4. GoodWorker(y)
  BY <1>2, <1>3 DEF GoodWorker, Lists, Handler
<1> QED
  BY <1>2, <1>4 DEF y

\* A spawn replaces one process and leaves the others.
LEMMA SpawnedFacts ==
  ASSUME RoleTypeInv, NEW w \in Worker
  PROVE  LET workers == Spawned(boss, w) IN
           /\ workers \in [Worker -> Process]
           /\ \A v \in Worker : GoodWorker(workers[v])
           /\ \A v \in Worker : v # w => workers[v] = worker[v]
           /\ workers[w].life = "alive" /\ workers[w].lives = worker[w].lives + 1
           /\ workers[w].role = (w = boss.primary)
           /\ workers[w].needed = (w = boss.primary /\ ~boss.onceDone)
           /\ workers[w].pc = "boot" /\ workers[w].ctl = "idle"
<1> DEFINE u == Unborn
           l == worker[w].lives + 1
           r == SpawnAsPrimary(boss, w)
           n == SpawnAsPrimary(boss, w) /\ StillOnce(boss)
           y == [u EXCEPT !.life = "alive", !.lives = l, !.role = r, !.needed = n]
<1>1. worker \in [Worker -> Process] /\ \A v \in Worker : GoodWorker(worker[v])
  BY DEF RoleTypeInv
<1>2. Spawned(boss, w) = [worker EXCEPT ![w] = y]
  BY DEF Spawned
<1>3. /\ GoodWorker(y)
      /\ y.life = "alive" /\ y.lives = l /\ y.role = r /\ y.needed = n
      /\ y.pc = "boot" /\ y.ctl = "idle"
  <2>1. l \in Nat /\ r \in BOOLEAN /\ n \in BOOLEAN
    BY <1>1 DEF Process, SpawnAsPrimary, StillOnce
  <2>2. u \in Process /\ GoodWorker(u) /\ u.pc = "boot" /\ u.ctl = "idle"
    BY UnbornFacts DEF GoodWorker
  <2> HIDE DEF u, l, r, n
  <2>3. /\ y \in Process
        /\ y.life = "alive" /\ y.lives = l /\ y.role = r /\ y.needed = n
        /\ y.pc = u.pc /\ y.k = u.k /\ y.ctl = u.ctl /\ y.waiting = u.waiting
        /\ y.launched = u.launched /\ y.standby = u.standby /\ y.started = u.started
        /\ y.serving = u.serving
    BY <2>1, <2>2 DEF Process
  <2> HIDE DEF y
  <2>4. GoodWorker(y)
    BY <2>2, <2>3 DEF GoodWorker, Lists, Handler
  <2> QED
    BY <2>2, <2>3, <2>4
<1>4. r = (w = boss.primary) /\ n = (w = boss.primary /\ ~boss.onceDone)
  BY DEF SpawnAsPrimary, StillOnce
<1> HIDE DEF y
<1>5. y \in Process
  BY <1>3 DEF GoodWorker
<1> QED
  BY <1>1, <1>2, <1>3, <1>4, <1>5

\* A promotion makes p of b and m of the mail: nobody gets the role, or it is
\* reserved for the process about to be respawned, or a live child other than the
\* one excluded gets it and is told.
HandOver(b, p, m, exclude, restart) ==
  /\ p \in Boss /\ p.pc = b.pc /\ p.ready = b.ready /\ p.who = b.who
  /\ p.batch = b.batch /\ p.children = b.children /\ p.onceDone = b.onceDone
  /\ p.stopped => p.primary = Nobody
  /\ \/ m = mail /\ p.primary \in {Nobody, restart}
     \/ /\ p.primary \in b.children \ {exclude} /\ Exists(p.primary)
        /\ m = [mail EXCEPT ![p.primary] =
                  Append(@, [once |-> ~p.onceDone, life |-> worker[p.primary].lives])]

LEMMA PromoteFacts ==
  ASSUME NEW b \in Boss, b.recent = boss.recent, b.stopped => b.primary = Nobody,
         worker \in [Worker -> Process], mail \in [Worker -> Seq(Messages)],
         NEW exclude \in Worker, NEW restart \in {exclude, Nobody}
  PROVE  HandOver(b, Promote(b, exclude, restart),
                  Told(Promote(b, exclude, restart), restart), exclude, restart)
<1> DEFINE alive == {w \in b.children \ {exclude} : Exists(w)}
           c == Candidate(b, exclude, restart)
           p == Promote(b, exclude, restart)
           q == [b EXCEPT !.recent = @ + 1, !.primary = c]
<1>1. b.children \subseteq Worker /\ b.recent \in 0 .. PromotionLimit
  BY DEF Boss
<1>2. \/ c = restart
      \/ c \in b.children \ {exclude} /\ Exists(c)
  <2>1. CASE alive = {}
    BY <2>1 DEF Candidate
  <2>2. CASE alive # {}
    <3>1. alive \subseteq Nat
      BY <1>1, Sets
    <3>2. Least(alive) \in alive
      BY <2>2, <3>1, LeastIn
    <3> QED
      BY <2>2, <3>2 DEF Candidate
  <2> QED
    BY <2>1, <2>2
<1> HIDE DEF c, alive
<1>3. CASE b.stopped
  <2>1. p = b
    BY <1>3 DEF Promote
  <2>2. Told(p, restart) = mail
    BY <1>1, <2>1, Sets DEF Told
  <2> QED
    BY <1>3, <2>1, <2>2 DEF HandOver
<1>4. CASE ~b.stopped /\ b.recent >= PromotionLimit
  <2>1. p = [b EXCEPT !.stopped = TRUE, !.primary = Nobody]
    BY <1>4 DEF Promote
  <2>2. /\ p \in Boss /\ p.pc = b.pc /\ p.ready = b.ready /\ p.who = b.who
        /\ p.batch = b.batch /\ p.children = b.children /\ p.onceDone = b.onceDone
        /\ p.primary = Nobody /\ p.recent = b.recent
    BY <2>1 DEF Boss
  <2>3. Told(p, restart) = mail
    BY <1>1, <2>2, Sets DEF Told
  <2> QED
    BY <2>2, <2>3 DEF HandOver
<1>5. CASE ~b.stopped /\ ~(b.recent >= PromotionLimit) /\ c = Nobody
  <2>1. p = [b EXCEPT !.primary = Nobody]
    BY <1>5 DEF Promote, c
  <2>2. /\ p \in Boss /\ p.pc = b.pc /\ p.ready = b.ready /\ p.who = b.who
        /\ p.batch = b.batch /\ p.children = b.children /\ p.onceDone = b.onceDone
        /\ p.primary = Nobody /\ p.recent = b.recent
    BY <2>1 DEF Boss
  <2>3. Told(p, restart) = mail
    BY <1>1, <2>2, Sets DEF Told
  <2> QED
    BY <2>2, <2>3 DEF HandOver
<1>6. CASE ~b.stopped /\ ~(b.recent >= PromotionLimit) /\ c # Nobody
  <2>1. p = q
    BY <1>6 DEF Promote, c
  <2>2. c \in Worker
    BY <1>1, <1>2, <1>6
  <2>3. /\ q \in Boss /\ q.pc = b.pc /\ q.ready = b.ready /\ q.who = b.who
        /\ q.batch = b.batch /\ q.children = b.children /\ q.onceDone = b.onceDone
        /\ q.primary = c /\ q.recent = b.recent + 1 /\ q.stopped = FALSE
    <3> DEFINE n == b.recent + 1
    <3>1. n \in 0 .. PromotionLimit
      BY <1>1, <1>6, Sets
    <3>2. q = [b EXCEPT !.recent = n, !.primary = c]
      BY DEF Boss
    <3> HIDE DEF n, q
    <3>3. q \in Boss /\ q.recent = n /\ q.stopped = b.stopped
      BY <2>2, <3>1, <3>2 DEF Boss
    <3>4. b.stopped \in BOOLEAN
      BY DEF Boss
    <3> QED
      BY <1>6, <3>2, <3>3, <3>4 DEF Boss, n
  <2> HIDE DEF q, p
  <2>4. q.recent > boss.recent
    BY <1>1, <2>3, Sets
  <2>5. CASE c = restart
    <3>1. Told(p, restart) = mail
      BY <2>1, <2>3, <2>5 DEF Told
    <3> QED
      BY <2>1, <2>3, <2>5, <3>1 DEF p, HandOver
  <2>6. CASE c # restart
    <3>1. Told(p, restart) = [mail EXCEPT ![c] =
                                Append(@, [once |-> ~b.onceDone, life |-> worker[c].lives])]
      BY <2>1, <2>3, <2>4, <2>6 DEF Told, StillOnce
    <3> QED
      BY <1>2, <2>1, <2>3, <2>6, <3>1 DEF p, HandOver
  <2> QED
    BY <2>5, <2>6
<1> QED
  BY <1>3, <1>4, <1>5, <1>6

\* Report and Told: what an append adds, and what reading the oldest one leaves.
LEMMA AppendFacts ==
  ASSUME NEW S, NEW s \in Seq(S), NEW e \in S
  PROVE  LET t == Append(s, e) IN
           /\ t \in Seq(S) /\ t # <<>> /\ Len(s) \in Nat
           /\ DOMAIN s = 1 .. Len(s) /\ DOMAIN t = 1 .. Len(s) + 1
           /\ \A i \in DOMAIN s : t[i] = s[i]
           /\ t[Len(s) + 1] = e
BY AppendProperties, LenProperties

LEMMA TailFacts ==
  ASSUME NEW S, NEW s \in Seq(S), s # <<>>
  PROVE  /\ Head(s) \in S /\ Tail(s) \in Seq(S)
         /\ 1 \in DOMAIN s /\ Head(s) = s[1]
         /\ \A i \in DOMAIN Tail(s) : i \in Nat \ {0} /\ i + 1 \in DOMAIN s /\ Tail(s)[i] = s[i + 1]
         /\ \A i \in DOMAIN s : i = 1 \/ (i - 1 \in DOMAIN Tail(s) /\ Tail(s)[i - 1] = s[i])
<1>1. /\ Head(s) \in S /\ Tail(s) \in Seq(S) /\ Len(Tail(s)) = Len(s) - 1
      /\ \A i \in 1 .. Len(Tail(s)) : Tail(s)[i] = s[i + 1]
  BY HeadTailProperties
<1>2. /\ Len(s) \in Nat \ {0} /\ DOMAIN s = 1 .. Len(s) /\ DOMAIN Tail(s) = 1 .. Len(Tail(s))
  BY <1>1, LenProperties, EmptySeq
<1>3. Head(s) = s[1]
  OBVIOUS
<1>4. \A i \in DOMAIN Tail(s) : i \in Nat \ {0} /\ i + 1 \in DOMAIN s /\ Tail(s)[i] = s[i + 1]
  BY <1>1, <1>2
<1>5. \A i \in DOMAIN s : i = 1 \/ (i - 1 \in DOMAIN Tail(s) /\ Tail(s)[i - 1] = s[i])
  <2> SUFFICES ASSUME NEW i \in DOMAIN s, i # 1
               PROVE  i - 1 \in DOMAIN Tail(s) /\ Tail(s)[i - 1] = s[i]
    OBVIOUS
  <2>1. i - 1 \in 1 .. Len(Tail(s)) /\ (i - 1) + 1 = i
    BY <1>1, <1>2
  <2> QED
    BY <1>1, <1>2, <2>1
<1> QED
  BY <1>1, <1>2, <1>3, <1>4, <1>5
-----------------------------------------------------------------------------
(* Type correctness, with what each part of the program relies on *)

\* Whoever is spared run_once() is spared it because one has returned.
Spared(x, once) ==
  /\ x.pc = "boot" /\ x.role /\ ~x.needed => once
  /\ x.pc = "boot" => x.ctl = "idle"
  /\ x.ctl = "standby" => once
  /\ x.role /\ x.ctl = "idle" /\ x.pc \in {"starting", "serving"} => once

Quiet(w) == Startup(w) \/ PromotionOnce(w) \/ StandbyStarts(w)
DoneReport(w) == [key |-> "run-once-done", who |-> w]
FailedReport(w) == [key |-> "promote-failed", who |-> w]

\* The steps of a worker that neither take nor give back the role: the startup
\* sequence and the awaits of a promotion that return.
LEMMA QuietFacts ==
  ASSUME RoleTypeInv, NEW w \in Worker, Quiet(w)
  PROVE  /\ worker[w].life = "alive"
         /\ UNCHANGED <<boss, mail, misled, faults, refusals>>
         /\ \/ inbox' = inbox /\ onceEver' = onceEver
            \/ inbox' = Append(inbox, DoneReport(w)) /\ onceEver'
         /\ \E y : /\ worker' = [worker EXCEPT ![w] = y]
                   /\ GoodWorker(y)
                   /\ y.life = worker[w].life /\ y.lives = worker[w].lives
                   /\ y.role = worker[w].role
                   /\ Spared(worker[w], onceEver) => Spared(y, onceEver')
<1> DEFINE x == worker[w]
<1>1. GoodWorker(x) /\ x \in Process /\ x.role \in BOOLEAN
  BY DEF RoleTypeInv, GoodWorker, Process
<1>2. ASSUME x.pc \in {"boot", "once"}
      PROVE  /\ 1 \in 1 .. Len(Scaling) + 1 /\ Lists(x, 1) /\ Handler(x)
  <2>1. {j \in Adapter : j < 0} = {j \in Adapter : j < 1}
    BY Sets
  <2>2. x.k = 0 /\ Lists(x, x.k) /\ Handler(x)
    BY <1>1, <1>2 DEF GoodWorker
  <2>3. Lists(x, 1)
    BY <2>1, <2>2 DEF Lists
  <2> QED
    BY <2>2, <2>3, Sets
<1>3. CASE Listen(w) /\ x.role /\ x.needed
  <2> DEFINE y == [x EXCEPT !.pc = "once"]
  <2>1. worker' = [worker EXCEPT ![w] = y]
    BY <1>3 DEF Listen
  <2>2. /\ y \in Process
        /\ y.life = x.life /\ y.lives = x.lives /\ y.pc = "once" /\ y.k = x.k /\ y.role = x.role
        /\ y.needed = x.needed /\ y.ctl = x.ctl /\ y.waiting = x.waiting
        /\ y.launched = x.launched
        /\ y.standby = x.standby /\ y.started = x.started /\ y.serving = x.serving
    BY <1>1 DEF Process
  <2> HIDE DEF y
  <2>3. GoodWorker(y) /\ (Spared(x, onceEver) => Spared(y, onceEver))
    BY <1>1, <1>3, <2>2 DEF Listen, GoodWorker, Lists, Handler, Spared
  <2> QED
    BY <1>3, <2>1, <2>2, <2>3 DEF Listen
<1>4. CASE Listen(w) /\ ~(x.role /\ x.needed)
  <2> DEFINE y == RunFrom(x, 1)
  <2>1. worker' = [worker EXCEPT ![w] = y]
    BY <1>4 DEF Listen
  <2>2. x.pc = "boot"
    BY <1>4 DEF Listen
  <2>3. /\ GoodWorker(y) /\ y.pc \in {"starting", "serving"}
        /\ y.life = x.life /\ y.lives = x.lives /\ y.role = x.role /\ y.ctl = x.ctl
    BY <1>1, <1>2, <2>2, RunFromFacts
  <2> HIDE DEF y
  <2>4. Spared(x, onceEver) => Spared(y, onceEver)
    BY <1>4, <2>2, <2>3 DEF Spared
  <2> QED
    BY <1>4, <2>1, <2>3, <2>4 DEF Listen
<1>5. CASE StartupOnce(w)
  <2> DEFINE y == RunFrom(x, 1)
  <2>1. worker' = [worker EXCEPT ![w] = y]
    BY <1>5 DEF StartupOnce
  <2>2. x.pc = "once"
    BY <1>5 DEF StartupOnce
  <2>3. /\ GoodWorker(y) /\ y.pc \in {"starting", "serving"}
        /\ y.life = x.life /\ y.lives = x.lives /\ y.role = x.role /\ y.ctl = x.ctl
    BY <1>1, <1>2, <2>2, RunFromFacts
  <2> HIDE DEF y
  <2>4. Spared(y, TRUE)
    BY <2>3 DEF Spared
  <2>5. onceEver' /\ (onceEver' = TRUE) /\ inbox' = Append(inbox, DoneReport(w))
    BY <1>5 DEF StartupOnce, Report, DoneReport
  <2> QED
    BY <1>5, <2>1, <2>3, <2>4, <2>5 DEF StartupOnce
<1>6. CASE AdapterStarts(w)
  <2> DEFINE s == [x EXCEPT !.started = @ \cup {x.k}]
             y == RunFrom(s, x.k + 1)
  <2>1. worker' = [worker EXCEPT ![w] = y]
    BY <1>6 DEF AdapterStarts
  <2>2. x.pc = "starting" /\ x.k \in Adapter /\ Lists(x, x.k) /\ Handler(x)
    BY <1>1, <1>6 DEF AdapterStarts, GoodWorker
  <2>3. /\ s \in Process
        /\ s.life = x.life /\ s.lives = x.lives /\ s.role = x.role /\ s.waiting = x.waiting
        /\ s.ctl = x.ctl /\ s.launched = x.launched /\ s.standby = x.standby
        /\ s.started = x.started \cup {x.k}
    BY <1>1, <2>2 DEF Process
  <2>4. x.k + 1 \in 1 .. Len(Scaling) + 1
    BY <2>2, Sets
  <2>5. Lists(s, x.k + 1) /\ Handler(s)
    <3>1. \A j \in Adapter : j < x.k + 1 <=> j < x.k \/ j = x.k
      BY <2>2, Sets
    <3>2. ~(x.k < x.k)
      BY <2>2, Sets
    <3> HIDE DEF s, x
    <3>3. Lists(s, x.k + 1)
      BY <2>2, <2>3, <3>1, <3>2 DEF Lists
    <3>4. Handler(s)
      BY <2>2, <2>3 DEF Handler
    <3> QED
      BY <3>3, <3>4
  <2> HIDE DEF s
  <2>6. /\ GoodWorker(y) /\ y.pc \in {"starting", "serving"}
        /\ y.life = x.life /\ y.lives = x.lives /\ y.role = x.role /\ y.ctl = x.ctl
    BY <2>3, <2>4, <2>5, RunFromFacts
  <2> HIDE DEF y
  <2>7. Spared(x, onceEver) => Spared(y, onceEver)
    BY <2>2, <2>6 DEF Spared
  <2> QED
    BY <1>6, <2>1, <2>6, <2>7 DEF AdapterStarts
<1>7. CASE PromotionOnce(w)
  <2> DEFINE y == Launch(x)
  <2>1. worker' = [worker EXCEPT ![w] = y]
    BY <1>7 DEF PromotionOnce
  <2>2. x.ctl = "once" /\ x.role
    BY <1>1, <1>7 DEF PromotionOnce, GoodWorker, Handler
  <2>3. /\ GoodWorker(y) /\ y.pc = x.pc
        /\ y.life = x.life /\ y.lives = x.lives /\ y.role
    BY <1>1, <2>2, LaunchFacts
  <2> HIDE DEF y
  <2>4. Spared(x, onceEver) => Spared(y, TRUE)
    BY <2>2, <2>3 DEF Spared
  <2>5. onceEver' /\ (onceEver' = TRUE) /\ inbox' = Append(inbox, DoneReport(w))
    BY <1>7 DEF PromotionOnce, Report, DoneReport
  <2>6. y.role = x.role
    BY <1>1, <2>2, <2>3 DEF GoodWorker, Process
  <2> QED
    BY <1>7, <2>1, <2>3, <2>4, <2>5, <2>6 DEF PromotionOnce
<1>8. CASE StandbyStarts(w)
  <2> DEFINE launched == x.launched \cup {Least(x.waiting \ x.launched)}
             y == IF launched = x.waiting THEN ServeLaunched(x, launched)
                  ELSE [x EXCEPT !.launched = launched]
  <2>1. worker' = [worker EXCEPT ![w] = y]
    BY <1>8 DEF StandbyStarts
  <2>2. x.ctl = "standby"
    BY <1>8 DEF StandbyStarts
  <2>3. /\ GoodWorker(y) /\ y.pc = x.pc
        /\ y.life = x.life /\ y.lives = x.lives /\ y.role = x.role
    BY <1>1, <2>2, StandbyFacts
  <2> HIDE DEF y
  <2>4. Spared(x, onceEver) => Spared(y, onceEver)
    BY <2>2, <2>3 DEF Spared
  <2> QED
    BY <1>8, <2>1, <2>3, <2>4 DEF StandbyStarts
<1> QED
  BY <1>3, <1>4, <1>5, <1>6, <1>7, <1>8 DEF Quiet, Startup

\* A PROMOTE is read: nothing comes of it in a process that has the role, and any
\* other takes the role.
LEMMA ReadFacts ==
  ASSUME RoleTypeInv, NEW w \in Worker, ReadPromote(w)
  PROVE  /\ worker[w].life = "alive" /\ mail[w] # <<>>
         /\ mail' = [mail EXCEPT ![w] = Tail(mail[w])]
         /\ UNCHANGED <<boss, inbox, onceEver, faults, refusals>>
         /\ \/ worker[w].role /\ UNCHANGED <<worker, misled>>
            \/ /\ ~worker[w].role
               /\ misled' = (misled \/ Head(mail[w]).life # worker[w].lives)
               /\ \E y : /\ worker' = [worker EXCEPT ![w] = y]
                         /\ GoodWorker(y)
                         /\ y.life = worker[w].life /\ y.lives = worker[w].lives /\ y.role
                         /\ (~Head(mail[w]).once => onceEver) => Spared(y, onceEver)
<1> DEFINE x == worker[w]
           m == Head(mail[w])
<1>1. GoodWorker(x) /\ x \in Process /\ x.role \in BOOLEAN
  BY DEF RoleTypeInv, GoodWorker, Process
<1>2. x.ctl = "idle" /\ x.pc # "boot"
  BY DEF ReadPromote
<1>3. CASE x.role
  BY <1>3 DEF ReadPromote
<1>4. CASE ~x.role /\ m.once
  <2> DEFINE y == [x EXCEPT !.role = TRUE, !.ctl = "once"]
  <2>1. /\ y \in Process
        /\ y.life = x.life /\ y.lives = x.lives /\ y.pc = x.pc /\ y.k = x.k /\ y.role = TRUE
        /\ y.needed = x.needed /\ y.ctl = "once" /\ y.waiting = x.waiting
        /\ y.launched = x.launched
        /\ y.standby = x.standby /\ y.started = x.started /\ y.serving = x.serving
    BY <1>1 DEF Process
  <2>2. worker' = [worker EXCEPT ![w] = y]
    BY <1>4 DEF ReadPromote
  <2> HIDE DEF y
  <2>3. GoodWorker(y)
    BY <1>1, <1>2, <2>1 DEF GoodWorker, Lists, Handler
  <2>4. Spared(y, onceEver)
    BY <1>2, <2>1 DEF Spared
  <2> QED
    BY <1>4, <2>1, <2>2, <2>3, <2>4 DEF ReadPromote
<1>5. CASE ~x.role /\ ~m.once
  <2> DEFINE s == [x EXCEPT !.role = TRUE]
             y == Launch(s)
  <2>1. /\ s \in Process
        /\ s.life = x.life /\ s.lives = x.lives /\ s.pc = x.pc /\ s.k = x.k /\ s.role = TRUE
        /\ s.needed = x.needed /\ s.ctl = x.ctl /\ s.waiting = x.waiting
        /\ s.launched = x.launched
        /\ s.standby = x.standby /\ s.started = x.started /\ s.serving = x.serving
    BY <1>1 DEF Process
  <2>2. worker' = [worker EXCEPT ![w] = y]
    BY <1>5 DEF ReadPromote
  <2> HIDE DEF s
  <2>3. GoodWorker(s)
    BY <1>1, <1>2, <2>1 DEF GoodWorker, Lists, Handler
  <2>4. /\ GoodWorker(y) /\ y.pc = s.pc
        /\ y.life = s.life /\ y.lives = s.lives /\ y.role
    BY <1>2, <2>1, <2>3, LaunchFacts
  <2> HIDE DEF y
  <2>5. onceEver => Spared(y, onceEver)
    BY <1>2, <2>1, <2>4 DEF Spared
  <2> QED
    BY <1>5, <2>1, <2>2, <2>4, <2>5 DEF ReadPromote
<1> QED
  BY <1>1, <1>3, <1>4, <1>5

\* A promotion fails: the role is given back and the supervisor is told.
LEMMA RefuseFacts ==
  ASSUME RoleTypeInv, NEW w \in Worker, Refuse(w)
  PROVE  /\ worker[w].life = "alive" /\ worker[w].role
         /\ inbox' = Append(inbox, FailedReport(w))
         /\ UNCHANGED <<boss, mail, onceEver, misled, faults>> /\ refusals' = refusals + 1
         /\ \E y : /\ worker' = [worker EXCEPT ![w] = y]
                   /\ GoodWorker(y)
                   /\ y.life = worker[w].life /\ y.lives = worker[w].lives /\ ~y.role
                   /\ Spared(y, onceEver)
<1> DEFINE x == worker[w]
           y == Refused(x)
<1>1. GoodWorker(x) /\ x.ctl # "idle"
  BY DEF RoleTypeInv, Refuse
<1>2. worker' = [worker EXCEPT ![w] = y]
  BY DEF Refuse
<1>3. /\ GoodWorker(y) /\ y.life = x.life /\ y.lives = x.lives
      /\ ~y.role /\ y.ctl = "idle"
  BY <1>1, RefusedFacts
<1> HIDE DEF y
<1>4. Spared(y, onceEver)
  BY <1>3 DEF Spared
<1> QED
  BY <1>1, <1>2, <1>3, <1>4 DEF Refuse, Report, FailedReport, GoodWorker, Handler

\* Nothing of a process depends on its being alive, hung or dead.
LEMMA LifeFacts ==
  ASSUME NEW x, GoodWorker(x), NEW l \in {"alive", "hung", "dead"}, NEW once
  PROVE  LET y == [x EXCEPT !.life = l] IN
           /\ GoodWorker(y) /\ y.life = l /\ y.lives = x.lives /\ y.role = x.role
           /\ Spared(x, once) => Spared(y, once)
<1> DEFINE y == [x EXCEPT !.life = l]
<1>1. x \in Process
  BY DEF GoodWorker
<1>2. /\ y \in Process
      /\ y.life = l /\ y.lives = x.lives /\ y.pc = x.pc /\ y.k = x.k /\ y.role = x.role
      /\ y.needed = x.needed /\ y.ctl = x.ctl /\ y.waiting = x.waiting
      /\ y.launched = x.launched
      /\ y.standby = x.standby /\ y.started = x.started /\ y.serving = x.serving
  BY <1>1 DEF Process
<1> HIDE DEF y
<1>3. GoodWorker(y) /\ (Spared(x, once) => Spared(y, once))
  BY <1>2 DEF GoodWorker, Lists, Handler, Spared
<1> QED
  BY <1>2, <1>3 DEF y

\* A worker dies, hangs or comes back: only its life changes.
LEMMA FaultFacts ==
  ASSUME RoleTypeInv, NEW w \in Worker, Crash(w) \/ Hang(w) \/ Wake(w)
  PROVE  /\ Exists(w)
         /\ UNCHANGED <<boss, mail, inbox, onceEver, misled, refusals>>
         /\ faults' \in {faults, faults + 1}
         /\ \E y : /\ worker' = [worker EXCEPT ![w] = y]
                   /\ GoodWorker(y)
                   /\ y.life \in {"alive", "hung", "dead"}
                   /\ y.lives = worker[w].lives /\ y.role = worker[w].role
                   /\ Spared(worker[w], onceEver) => Spared(y, onceEver)
<1> DEFINE x == worker[w]
<1>1. GoodWorker(x) /\ x \in Process
  BY DEF RoleTypeInv, GoodWorker
<1>2. \A l \in {"alive", "hung", "dead"} : LET y == [x EXCEPT !.life = l] IN
        /\ GoodWorker(y) /\ y.life = l /\ y.lives = x.lives /\ y.role = x.role
        /\ Spared(x, onceEver) => Spared(y, onceEver)
  BY <1>1, LifeFacts
<1>3. \/ worker' = [worker EXCEPT ![w] = [x EXCEPT !.life = "dead"]]
      \/ worker' = [worker EXCEPT ![w] = [x EXCEPT !.life = "hung"]]
      \/ worker' = [worker EXCEPT ![w] = [x EXCEPT !.life = "alive"]]
  BY DEF Crash, Hang, Wake
<1>4. /\ Exists(w) /\ faults' \in {faults, faults + 1}
      /\ UNCHANGED <<boss, mail, inbox, onceEver, misled, refusals>>
  BY DEF Crash, Hang, Wake, Exists
<1> QED
  BY <1>2, <1>3, <1>4

LEMMA RoleTypeInit == Init => RoleTypeInv
<1> SUFFICES ASSUME Init PROVE RoleTypeInv
  OBVIOUS
<1>1. boss \in Boss
  BY Sets DEF Init, Boss
<1>2. \A w \in Worker : worker[w] = Unborn
  BY DEF Init
<1>3. GoodBoss
  BY <1>1, <1>2, UnbornFacts DEF Init, GoodBoss
<1>4. worker \in [Worker -> Process] /\ \A w \in Worker : GoodWorker(worker[w])
  BY <1>2, UnbornFacts DEF Init, GoodWorker
<1>5. mail \in [Worker -> Seq(Messages)] /\ inbox \in Seq(Reports)
  <2>1. <<>> \in Seq(Messages) /\ <<>> \in Seq(Reports)
    BY EmptySeq
  <2> QED
    BY <2>1 DEF Init
<1> QED
  BY <1>3, <1>4, <1>5 DEF Init, RoleTypeInv

\* A step of one existing process keeps what the supervisor relies on.
LEMMA WorkerStepTypes ==
  ASSUME RoleTypeInv, NEW w \in Worker, Exists(w), NEW y, GoodWorker(y),
         worker' = [worker EXCEPT ![w] = y], boss' = boss,
         mail' \in [Worker -> Seq(Messages)], inbox' \in Seq(Reports),
         onceEver' \in BOOLEAN, misled' \in BOOLEAN, faults' \in Nat, refusals' \in Nat
  PROVE  RoleTypeInv'
<1>1. /\ worker \in [Worker -> Process] /\ worker' \in [Worker -> Process]
      /\ \A v \in Worker : GoodWorker(worker'[v])
      /\ worker'[w] = y
      /\ \A v \in Worker : v # w => worker'[v] = worker[v]
  BY DEF RoleTypeInv, GoodWorker
<1>2. boss \in Boss /\ boss.ready \subseteq Worker
  BY DEF RoleTypeInv, GoodBoss, Boss
<1>3. w \notin boss.ready /\ (boss.pc = "sleep" => boss.who # w) /\ w \in boss.children
  BY DEF RoleTypeInv, GoodBoss, Exists
<1>4. (\A v \in boss.ready : ~Exists(v))'
  BY <1>1, <1>2, <1>3 DEF RoleTypeInv, GoodBoss, Exists
<1>5. (boss.pc = "sleep" => boss.who \in Worker \ boss.children /\ ~Exists(boss.who))'
  BY <1>1, <1>2, <1>3 DEF RoleTypeInv, GoodBoss, Exists
<1>6. (\A v \in Worker \ boss.children :
         worker[v].life = "unborn" \/ (boss.pc = "sleep" /\ boss.who = v))'
  BY <1>1, <1>2, <1>3 DEF RoleTypeInv, GoodBoss
<1>7. GoodBoss'
  BY <1>4, <1>5, <1>6 DEF RoleTypeInv, GoodBoss
<1> QED
  BY <1>1, <1>7 DEF RoleTypeInv

LEMMA WorkerTypes ==
  ASSUME RoleTypeInv, NEW w \in Worker,
         Quiet(w) \/ ReadPromote(w) \/ Refuse(w) \/ Crash(w) \/ Hang(w) \/ Wake(w)
  PROVE  RoleTypeInv'
<1>1. /\ mail \in [Worker -> Seq(Messages)] /\ inbox \in Seq(Reports)
      /\ onceEver \in BOOLEAN /\ misled \in BOOLEAN /\ faults \in Nat /\ refusals \in Nat
  BY DEF RoleTypeInv
<1>2. DoneReport(w) \in Reports /\ FailedReport(w) \in Reports
  BY DEF DoneReport, FailedReport, Reports
<1>3. /\ Append(inbox, DoneReport(w)) \in Seq(Reports)
      /\ Append(inbox, FailedReport(w)) \in Seq(Reports)
  BY <1>1, <1>2, AppendFacts
<1>4. CASE Quiet(w)
  <2>1. /\ Exists(w) /\ boss' = boss /\ mail' \in [Worker -> Seq(Messages)]
        /\ inbox' \in Seq(Reports) /\ misled' \in BOOLEAN /\ faults' \in Nat /\ refusals' \in Nat
    BY <1>1, <1>3, <1>4, QuietFacts DEF Exists
  <2>2. onceEver' \in BOOLEAN
    BY <1>1, <1>4 DEF Quiet, Startup, Listen, StartupOnce, AdapterStarts, PromotionOnce,
                      StandbyStarts
  <2> QED
    BY <1>4, <2>1, <2>2, QuietFacts, WorkerStepTypes
<1>5. CASE ReadPromote(w)
  <2>1. /\ Exists(w) /\ boss' = boss
        /\ inbox' \in Seq(Reports) /\ faults' \in Nat /\ refusals' \in Nat
        /\ onceEver' \in BOOLEAN
    BY <1>1, <1>5, ReadFacts DEF Exists
  <2>2. mail' \in [Worker -> Seq(Messages)]
    <3>1. mail[w] # <<>> /\ mail[w] \in Seq(Messages)
      BY <1>1, <1>5, ReadFacts
    <3>2. Tail(mail[w]) \in Seq(Messages)
      BY <3>1, TailFacts
    <3> QED
      BY <1>1, <1>5, <3>2, ReadFacts
  <2>3. misled' \in BOOLEAN
    BY <1>1, <1>5 DEF ReadPromote
  <2>4. CASE worker[w].role /\ UNCHANGED <<worker, misled>>
    <3>1. worker' = [worker EXCEPT ![w] = worker[w]] /\ GoodWorker(worker[w])
      BY <2>4 DEF RoleTypeInv
    <3>2. \E y : worker' = [worker EXCEPT ![w] = y] /\ GoodWorker(y)
      BY <3>1
    <3> QED
      BY <2>1, <2>2, <2>3, <3>2, WorkerStepTypes
  <2>5. CASE ~worker[w].role
    BY <1>5, <2>1, <2>2, <2>3, <2>5, ReadFacts, WorkerStepTypes
  <2> QED
    BY <1>5, <2>4, <2>5, ReadFacts
<1>6. CASE Refuse(w)
  <2>1. /\ boss' = boss /\ mail' = mail /\ misled' = misled /\ onceEver' = onceEver
        /\ faults' = faults /\ refusals' = refusals + 1 /\ inbox' = Append(inbox, FailedReport(w))
        /\ worker[w].life = "alive"
    BY <1>6, RefuseFacts
  <2>2. /\ Exists(w) /\ mail' \in [Worker -> Seq(Messages)]
        /\ inbox' \in Seq(Reports) /\ misled' \in BOOLEAN /\ faults' \in Nat /\ refusals' \in Nat
        /\ onceEver' \in BOOLEAN
    BY <1>1, <1>3, <2>1 DEF Exists
  <2> QED
    BY <1>6, <2>1, <2>2, RefuseFacts, WorkerStepTypes
<1>7. CASE Crash(w) \/ Hang(w) \/ Wake(w)
  <2>1. /\ Exists(w) /\ boss' = boss /\ mail' \in [Worker -> Seq(Messages)]
        /\ inbox' \in Seq(Reports) /\ misled' \in BOOLEAN /\ faults' \in Nat /\ refusals' \in Nat
        /\ onceEver' \in BOOLEAN
    BY <1>1, <1>7, FaultFacts
  <2> QED
    BY <1>7, <2>1, FaultFacts, WorkerStepTypes
<1> QED
  BY <1>4, <1>5, <1>6, <1>7

\* The supervisor spawns a process, the first one, the next one or the one it
\* has buried; none of them is among its children.
Spawns(w) ==
  /\ w \in Worker \ boss.children /\ boss.batch = <<>>
  /\ worker' = Spawned(boss, w)
  /\ boss'.pc \in {"await", "rest", "control"} /\ boss'.children = boss.children \cup {w}
  /\ boss'.ready = boss.ready /\ boss'.batch = <<>> /\ boss'.primary = boss.primary
  /\ boss'.stopped = boss.stopped /\ boss'.onceDone = boss.onceDone
  /\ boss' \in Boss
  /\ \A v \in Worker \ boss.children : v # w => worker[v].life = "unborn"
  /\ boss.pc = "sleep" \/ worker[w].life = "unborn"
  /\ boss.pc = "sleep" => w = boss.who
  /\ UNCHANGED <<mail, inbox, onceEver, misled, faults, refusals>>

LEMMA SpawnsFacts ==
  ASSUME RoleTypeInv,
         \/ SpawnFirst
         \/ SpawnRest /\ Worker \ boss.children # {}
         \/ Respawn
  PROVE  \E w \in Worker : Spawns(w)
<1>1. boss \in Boss /\ boss.children \subseteq Worker
  BY DEF RoleTypeInv, GoodBoss, Boss
<1>2. \A v \in Worker \ boss.children : boss.pc # "sleep" => worker[v].life = "unborn"
  BY DEF RoleTypeInv, GoodBoss
<1>3. CASE SpawnFirst
  <2>1. /\ boss' = [boss EXCEPT !.pc = "await", !.children = {FirstPrimary}]
        /\ boss.pc = "first" /\ boss.children = {} /\ boss.batch = <<>>
    BY <1>3 DEF SpawnFirst, RoleTypeInv, GoodBoss
  <2>2. FirstPrimary \in Worker
    BY Sets
  <2>3. /\ boss' \in Boss /\ boss'.pc = "await" /\ boss'.children = {FirstPrimary}
        /\ boss'.ready = boss.ready /\ boss'.batch = boss.batch /\ boss'.primary = boss.primary
        /\ boss'.stopped = boss.stopped /\ boss'.onceDone = boss.onceDone
    BY <1>1, <2>1, <2>2 DEF Boss
  <2>4. Spawns(FirstPrimary)
    BY <1>2, <1>3, <2>1, <2>2, <2>3 DEF Spawns, SpawnFirst
  <2> QED
    BY <2>2, <2>4
<1>4. CASE SpawnRest /\ Worker \ boss.children # {}
  <2> DEFINE w == Least(Worker \ boss.children)
  <2>1. Worker \ boss.children # {} /\ worker' = Spawned(boss, w)
        /\ boss' = [boss EXCEPT !.children = @ \cup {w}]
        /\ boss.pc = "rest" /\ boss.batch = <<>>
    BY <1>4 DEF SpawnRest, RoleTypeInv, GoodBoss
  <2>2. w \in Worker \ boss.children
    <3>1. Worker \ boss.children \subseteq Nat
      BY Sets
    <3> QED
      BY <2>1, <3>1, LeastIn
  <2> HIDE DEF w
  <2>3. /\ boss' \in Boss /\ boss'.pc = "rest" /\ boss'.children = boss.children \cup {w}
        /\ boss'.ready = boss.ready /\ boss'.batch = boss.batch /\ boss'.primary = boss.primary
        /\ boss'.stopped = boss.stopped /\ boss'.onceDone = boss.onceDone
    BY <1>1, <2>1, <2>2 DEF Boss
  <2>4. Spawns(w)
    BY <1>2, <1>4, <2>1, <2>2, <2>3 DEF Spawns, SpawnRest
  <2> QED
    BY <2>2, <2>4
<1>5. CASE Respawn
  <2> DEFINE w == boss.who
  <2>1. /\ boss' = [boss EXCEPT !.pc = "control", !.who = Nobody, !.children = @ \cup {w}]
        /\ boss.pc = "sleep" /\ boss.batch = <<>> /\ w \in Worker \ boss.children
        /\ \A v \in Worker \ boss.children : v # w => worker[v].life = "unborn"
    BY <1>5 DEF Respawn, RoleTypeInv, GoodBoss
  <2>2. /\ boss' \in Boss /\ boss'.pc = "control" /\ boss'.children = boss.children \cup {w}
        /\ boss'.ready = boss.ready /\ boss'.batch = boss.batch /\ boss'.primary = boss.primary
        /\ boss'.stopped = boss.stopped /\ boss'.onceDone = boss.onceDone
    BY <1>1, <2>1 DEF Boss
  <2>3. Spawns(w)
    BY <1>5, <2>1, <2>2 DEF Spawns, Respawn
  <2> QED
    BY <2>1, <2>3
<1> QED
  BY <1>3, <1>4, <1>5

LEMMA SpawnTypes ==
  ASSUME RoleTypeInv, NEW w \in Worker, Spawns(w)
  PROVE  RoleTypeInv'
<1>1. /\ worker' \in [Worker -> Process] /\ \A v \in Worker : GoodWorker(worker'[v])
      /\ \A v \in Worker : v # w => worker'[v] = worker[v]
  BY SpawnedFacts DEF Spawns
<1>2. boss.ready \subseteq boss.children /\ boss.children \subseteq Worker /\ w \notin boss.ready
  BY DEF RoleTypeInv, GoodBoss, Boss, Spawns
<1>3. (\A v \in boss.ready : ~Exists(v))'
  BY <1>1, <1>2 DEF RoleTypeInv, GoodBoss, Exists, Spawns
<1>4. (\A v \in Worker \ boss.children : worker[v].life = "unborn")'
  BY <1>1 DEF Spawns
<1>5. GoodBoss'
  <2>1. boss.stopped => boss.primary = Nobody
    BY DEF RoleTypeInv, GoodBoss
  <2> QED
    BY <1>2, <1>3, <1>4, <2>1 DEF GoodBoss, Spawns
<1> QED
  BY <1>1, <1>5 DEF RoleTypeInv, Spawns

\* The supervisor takes what it has not read, waiting for run_once() or between
\* two rounds of its loop.
Pumps ==
  /\ boss.batch = <<>> /\ boss'.batch = inbox /\ inbox' = <<>>
  /\ boss'.pc \in {"await", "control"} /\ boss.pc # "sleep"
  /\ boss'.ready \subseteq boss.children /\ \A w \in boss'.ready : ~Exists(w)
  /\ boss'.children = boss.children /\ boss'.primary = boss.primary
  /\ boss'.stopped = boss.stopped /\ boss'.onceDone = boss.onceDone
  /\ boss' \in Boss
  /\ UNCHANGED <<worker, mail, onceEver, misled, faults, refusals>>

LEMMA PumpsFacts ==
  ASSUME RoleTypeInv, Wait \/ AwaitPumps
  PROVE  Pumps
<1>1. /\ boss \in Boss /\ boss.children \subseteq Worker /\ boss.ready \subseteq boss.children
      /\ \A w \in boss.ready : ~Exists(w)
      /\ inbox \in Seq(Reports)
  BY DEF RoleTypeInv, GoodBoss, Boss
<1>2. CASE Wait
  <2> DEFINE gone == {w \in boss.children : ~Exists(w)}
  <2>1. boss.pc = "wait" /\ boss.batch = <<>>
    BY <1>2 DEF Wait, RoleTypeInv, GoodBoss
  <2>2. boss' = [boss EXCEPT !.pc = "control", !.ready = gone, !.batch = inbox]
    BY <1>2 DEF Wait
  <2>3. gone \subseteq Worker
    BY <1>1
  <2> HIDE DEF gone
  <2>4. /\ boss' \in Boss /\ boss'.pc = "control" /\ boss'.children = boss.children
        /\ boss'.ready = gone /\ boss'.batch = inbox /\ boss'.primary = boss.primary
        /\ boss'.stopped = boss.stopped /\ boss'.onceDone = boss.onceDone
    BY <1>1, <2>2, <2>3 DEF Boss
  <2> QED
    BY <1>2, <2>1, <2>4 DEF Pumps, Wait, gone
<1>3. CASE AwaitPumps
  <2>1. boss' = [boss EXCEPT !.batch = inbox] /\ boss.pc = "await" /\ boss.batch = <<>>
    BY <1>3 DEF AwaitPumps
  <2>2. /\ boss' \in Boss /\ boss'.pc = "await" /\ boss'.children = boss.children
        /\ boss'.ready = boss.ready /\ boss'.batch = inbox /\ boss'.primary = boss.primary
        /\ boss'.stopped = boss.stopped /\ boss'.onceDone = boss.onceDone
    BY <1>1, <2>1 DEF Boss
  <2> QED
    BY <1>1, <1>3, <2>1, <2>2 DEF Pumps, AwaitPumps
<1> QED
  BY <1>2, <1>3

LEMMA PumpTypes ==
  ASSUME RoleTypeInv, Pumps
  PROVE  RoleTypeInv'
<1>1. <<>> \in Seq(Reports)
  BY EmptySeq
<1>2. (\A v \in boss.ready : ~Exists(v))'
  BY DEF Pumps, Exists
<1>3. (\A v \in Worker \ boss.children : worker[v].life = "unborn")'
  BY DEF RoleTypeInv, GoodBoss, Pumps
<1>4. GoodBoss'
  <2>1. boss.stopped => boss.primary = Nobody
    BY DEF RoleTypeInv, GoodBoss
  <2> QED
    BY <1>2, <1>3, <2>1 DEF GoodBoss, Pumps
<1> QED
  BY <1>1, <1>4 DEF RoleTypeInv, Pumps

\* The supervisor moves on: only its program counter or the window changes.
MovesOn ==
  /\ boss' \in Boss
  /\ \/ boss'.pc = boss.pc
     \/ boss.pc \in {"await", "rest"} /\ boss'.pc \in {"rest", "wait"} /\ boss.batch = <<>>
  /\ boss'.ready = boss.ready /\ boss'.who = boss.who /\ boss'.batch = boss.batch
  /\ boss'.children = boss.children /\ boss'.primary = boss.primary
  /\ boss'.stopped = boss.stopped /\ boss'.onceDone = boss.onceDone
  /\ UNCHANGED <<worker, mail, inbox, onceEver, misled, faults, refusals>>

LEMMA MovesOnFacts ==
  ASSUME RoleTypeInv,
         \/ AwaitEnds(TRUE) \/ AwaitEnds(FALSE)
         \/ SpawnRest /\ Worker \ boss.children = {}
         \/ WindowSlides
  PROVE  MovesOn
<1>1. boss \in Boss
  BY DEF RoleTypeInv, GoodBoss
<1>2. CASE AwaitEnds(TRUE) \/ AwaitEnds(FALSE)
  <2>1. boss.pc = "await" /\ boss.batch = <<>> /\ boss' = [boss EXCEPT !.pc = "rest"]
    BY <1>2 DEF AwaitEnds
  <2>2. UNCHANGED <<worker, mail, inbox, onceEver, misled, faults, refusals>>
    BY <1>2 DEF AwaitEnds
  <2> QED
    BY <1>1, <2>1, <2>2 DEF MovesOn, Boss
<1>3. CASE SpawnRest /\ Worker \ boss.children = {}
  <2>1. /\ boss.pc = "rest" /\ boss.batch = <<>> /\ boss' = [boss EXCEPT !.pc = "wait"]
        /\ UNCHANGED <<worker, mail, inbox, onceEver, misled, faults, refusals>>
    BY <1>3 DEF SpawnRest, RoleTypeInv, GoodBoss
  <2> QED
    BY <1>1, <2>1 DEF MovesOn, Boss
<1>4. CASE WindowSlides
  <2> DEFINE n == boss.recent - 1
  <2>1. n \in 0 .. PromotionLimit
    BY <1>1, <1>4, Sets DEF Boss, WindowSlides
  <2>2. boss' = [boss EXCEPT !.recent = n]
    BY <1>4 DEF WindowSlides
  <2> HIDE DEF n
  <2> QED
    BY <1>1, <1>4, <2>1, <2>2 DEF MovesOn, Boss, WindowSlides
<1> QED
  BY <1>2, <1>3, <1>4

LEMMA MovesOnTypes ==
  ASSUME RoleTypeInv, MovesOn
  PROVE  RoleTypeInv'
<1>1. GoodBoss'
  <2>1. (boss.pc = "sleep" => boss.who \in Worker \ boss.children /\ ~Exists(boss.who))'
    BY DEF RoleTypeInv, GoodBoss, MovesOn, Exists
  <2>2. (\A w \in boss.ready : ~Exists(w))'
    BY DEF RoleTypeInv, GoodBoss, MovesOn, Exists
  <2>3. (\A w \in Worker \ boss.children :
           worker[w].life = "unborn" \/ (boss.pc = "sleep" /\ boss.who = w))'
    BY DEF RoleTypeInv, GoodBoss, MovesOn
  <2> QED
    BY <2>1, <2>2, <2>3 DEF RoleTypeInv, GoodBoss, MovesOn
<1> QED
  BY <1>1 DEF RoleTypeInv, MovesOn

\* The primary of the next state is a live child and is told so.
TellsPrimary ==
  LET p == boss'.primary
  IN  /\ p \in boss'.children /\ Exists(p)
      /\ mail' = [mail EXCEPT ![p] = Append(@, [once |-> ~boss'.onceDone,
                                                life |-> worker[p].lives])]

\* The supervisor deals with the oldest report of its batch.
Handles ==
  /\ boss.pc \in {"await", "control"} /\ boss.batch # <<>>
  /\ boss' \in Boss /\ boss'.pc = boss.pc /\ boss'.ready = boss.ready /\ boss'.who = boss.who
  /\ boss'.batch = Tail(boss.batch) /\ boss'.children = boss.children
  /\ boss'.stopped => boss'.primary = Nobody
  /\ UNCHANGED <<worker, inbox, onceEver, misled, faults, refusals>>
  /\ \/ /\ Head(boss.batch).key = "run-once-done"
        /\ boss'.onceDone /\ boss'.primary = boss.primary /\ mail' = mail
     \/ /\ Head(boss.batch).key = "promote-failed" /\ boss'.onceDone = boss.onceDone
        /\ (mail' = mail /\ boss'.primary = Nobody) \/ TellsPrimary

LEMMA HandlesFacts ==
  ASSUME RoleTypeInv, HandleReport
  PROVE  Handles
<1> DEFINE report == Head(boss.batch)
           rest == Tail(boss.batch)
           b == [boss EXCEPT !.batch = rest]
<1>1. /\ boss \in Boss /\ boss.batch \in Seq(Reports) /\ boss.batch # <<>>
      /\ boss.pc \in {"await", "control"}
      /\ boss.stopped => boss.primary = Nobody
  BY DEF RoleTypeInv, GoodBoss, Boss, HandleReport
<1>2. rest \in Seq(Reports) /\ report \in Reports /\ report.who \in Worker
  <2>1. rest \in Seq(Reports) /\ report \in Reports
    BY <1>1, TailFacts
  <2> QED
    BY <2>1 DEF Reports
<1>3. /\ b \in Boss /\ b.pc = boss.pc /\ b.ready = boss.ready /\ b.who = boss.who
      /\ b.batch = rest /\ b.children = boss.children /\ b.primary = boss.primary
      /\ b.onceDone = boss.onceDone /\ b.recent = boss.recent /\ b.stopped = boss.stopped
  BY <1>1, <1>2 DEF Boss
<1>4. /\ UNCHANGED <<worker, inbox, onceEver, misled, faults, refusals>>
      /\ \/ /\ report.key = "run-once-done"
            /\ boss' = [b EXCEPT !.onceDone = TRUE]
            /\ mail' = mail
         \/ /\ report.key = "promote-failed"
            /\ boss' = Promote(b, report.who, Nobody)
            /\ mail' = Told(boss', Nobody)
  BY DEF HandleReport
<1> HIDE DEF b, report, rest
<1>5. CASE report.key = "run-once-done" /\ boss' = [b EXCEPT !.onceDone = TRUE] /\ mail' = mail
  <2>1. /\ boss' \in Boss /\ boss'.pc = b.pc /\ boss'.ready = b.ready /\ boss'.who = b.who
        /\ boss'.batch = b.batch /\ boss'.children = b.children /\ boss'.primary = b.primary
        /\ boss'.onceDone = TRUE /\ boss'.stopped = b.stopped
    BY <1>3, <1>5 DEF Boss
  <2> QED
    BY <1>1, <1>3, <1>4, <1>5, <2>1 DEF Handles, report, rest
<1>6. CASE /\ report.key = "promote-failed" /\ boss' = Promote(b, report.who, Nobody)
           /\ mail' = Told(boss', Nobody)
  <2> DEFINE p == Promote(b, report.who, Nobody)
             m == Told(p, Nobody)
  <2>1. boss' = p /\ mail' = m
    BY <1>6
  <2>2. HandOver(b, p, m, report.who, Nobody)
    <3>1. /\ worker \in [Worker -> Process] /\ mail \in [Worker -> Seq(Messages)]
          /\ b.stopped => b.primary = Nobody
      BY <1>1, <1>3 DEF RoleTypeInv
    <3> QED
      BY <1>2, <1>3, <3>1, PromoteFacts
  <2> HIDE DEF p, m
  <2>3. (mail' = mail /\ boss'.primary = Nobody) \/ TellsPrimary
    BY <1>3, <2>1, <2>2 DEF TellsPrimary, HandOver
  <2> QED
    BY <1>1, <1>3, <1>4, <1>6, <2>1, <2>2, <2>3 DEF Handles, HandOver, report, rest
<1> QED
  BY <1>4, <1>5, <1>6

\* A PROMOTE is a message, and telling the primary keeps the mailboxes typed.
LEMMA TellsFacts ==
  ASSUME RoleTypeInv, TellsPrimary, boss' \in Boss
  PROVE  LET p == boss'.primary
             m == [once |-> ~boss'.onceDone, life |-> worker[p].lives]
         IN  /\ p \in Worker /\ Exists(p) /\ m \in Messages
             /\ mail[p] \in Seq(Messages) /\ mail'[p] = Append(mail[p], m)
             /\ \A v \in Worker : v # p => mail'[v] = mail[v]
             /\ mail' \in [Worker -> Seq(Messages)]
<1> DEFINE p == boss'.primary
           m == [once |-> ~boss'.onceDone, life |-> worker[p].lives]
<1>1. p \in Worker /\ Exists(p)
  BY DEF TellsPrimary, Boss
<1>2. m \in Messages
  <2>1. worker[p].lives \in Nat
    BY <1>1 DEF RoleTypeInv, Process
  <2> QED
    BY <2>1 DEF Messages
<1>3. mail \in [Worker -> Seq(Messages)] /\ mail' = [mail EXCEPT ![p] = Append(mail[p], m)]
  BY DEF RoleTypeInv, TellsPrimary
<1> HIDE DEF p, m
<1>4. mail[p] \in Seq(Messages) /\ Append(mail[p], m) \in Seq(Messages)
  BY <1>1, <1>2, <1>3, AppendFacts
<1> QED
  BY <1>1, <1>2, <1>3, <1>4 DEF p, m

LEMMA HandlesTypes ==
  ASSUME RoleTypeInv, Handles
  PROVE  RoleTypeInv'
<1>1. (\A w \in boss.ready : ~Exists(w))'
  BY DEF RoleTypeInv, GoodBoss, Handles, Exists
<1>2. (\A w \in Worker \ boss.children : worker[w].life = "unborn")'
  BY DEF RoleTypeInv, GoodBoss, Handles
<1>3. GoodBoss'
  BY <1>1, <1>2 DEF RoleTypeInv, GoodBoss, Handles
<1>4. mail' \in [Worker -> Seq(Messages)]
  BY TellsFacts DEF RoleTypeInv, Handles
<1> QED
  BY <1>3, <1>4 DEF RoleTypeInv, Handles

\* The supervisor deals with the death of w.
Buries(w) ==
  /\ boss.pc = "control" /\ boss.batch = <<>> /\ w \in boss.ready
  /\ boss' \in Boss /\ boss'.pc = "sleep" /\ boss'.ready = boss.ready \ {w} /\ boss'.who = w
  /\ boss'.batch = <<>> /\ boss'.children = boss.children \ {w}
  /\ boss'.onceDone = boss.onceDone
  /\ boss'.stopped => boss'.primary = Nobody
  /\ UNCHANGED <<worker, inbox, onceEver, misled, faults, refusals>>
  /\ \/ /\ w # boss.primary
        /\ boss'.primary = boss.primary /\ mail' = mail
     \/ /\ w = boss.primary
        /\ (mail' = mail /\ boss'.primary \in {Nobody, w}) \/ TellsPrimary

LEMMA BuriesFacts ==
  ASSUME RoleTypeInv, NEW w \in Worker, Bury(w)
  PROVE  Buries(w)
<1> DEFINE r == boss.ready \ {w}
           c == boss.children \ {w}
           b == [boss EXCEPT !.pc = "sleep", !.who = w, !.ready = r, !.children = c]
           n == [b EXCEPT !.primary = Nobody]
<1>1. /\ boss \in Boss /\ r \subseteq Worker /\ c \subseteq Worker
      /\ boss.pc = "control" /\ boss.batch = <<>> /\ w \in boss.ready
      /\ boss.stopped => boss.primary = Nobody
  BY DEF RoleTypeInv, GoodBoss, Boss, Bury
<1>2. /\ UNCHANGED <<worker, inbox, onceEver, misled, faults, refusals>>
      /\ IF w = boss.primary
         THEN boss' = Promote(n, w, w) /\ mail' = Told(boss', w)
         ELSE boss' = b /\ mail' = mail
  BY DEF Bury
<1> HIDE DEF r, c
<1>3. /\ b \in Boss /\ b.pc = "sleep" /\ b.ready = r /\ b.who = w
      /\ b.batch = boss.batch /\ b.children = c /\ b.primary = boss.primary
      /\ b.onceDone = boss.onceDone /\ b.recent = boss.recent /\ b.stopped = boss.stopped
  BY <1>1 DEF Boss
<1> HIDE DEF b
<1>4. /\ n \in Boss /\ n.pc = "sleep" /\ n.ready = r /\ n.who = w
      /\ n.batch = boss.batch /\ n.children = c /\ n.primary = Nobody
      /\ n.onceDone = boss.onceDone /\ n.recent = boss.recent
  BY <1>3 DEF Boss
<1> HIDE DEF n
<1>5. CASE w # boss.primary
  BY <1>1, <1>2, <1>3, <1>5 DEF Buries, r, c
<1>6. CASE w = boss.primary
  <2> DEFINE p == Promote(n, w, w)
             m == Told(p, w)
  <2>1. boss' = p /\ mail' = m
    BY <1>2, <1>6
  <2>2. HandOver(n, p, m, w, w)
    <3>1. /\ worker \in [Worker -> Process] /\ mail \in [Worker -> Seq(Messages)]
          /\ n.stopped => n.primary = Nobody
      BY <1>4 DEF RoleTypeInv
    <3> QED
      BY <1>4, <3>1, PromoteFacts
  <2> HIDE DEF p, m
  <2>3. (mail' = mail /\ boss'.primary \in {Nobody, w}) \/ TellsPrimary
    BY <1>4, <2>1, <2>2 DEF TellsPrimary, HandOver
  <2> QED
    BY <1>1, <1>2, <1>4, <1>6, <2>1, <2>2, <2>3 DEF Buries, HandOver, r, c
<1> QED
  BY <1>5, <1>6

LEMMA BuryTypes ==
  ASSUME RoleTypeInv, NEW w \in Worker, Buries(w)
  PROVE  RoleTypeInv'
<1>1. w \in boss.children /\ ~Exists(w) /\ boss.ready \subseteq boss.children
  BY DEF RoleTypeInv, GoodBoss, Buries
<1>2. (\A v \in boss.ready : ~Exists(v))'
  BY DEF RoleTypeInv, GoodBoss, Buries, Exists
<1>3. (\A v \in Worker \ boss.children :
         worker[v].life = "unborn" \/ (boss.pc = "sleep" /\ boss.who = v))'
  BY DEF RoleTypeInv, GoodBoss, Buries
<1>4. (boss.pc = "sleep" => boss.who \in Worker \ boss.children /\ ~Exists(boss.who))'
  BY <1>1 DEF Buries, Exists
<1>5. boss'.stopped => boss'.primary = Nobody
  BY DEF Buries
<1>6. GoodBoss'
  BY <1>1, <1>2, <1>3, <1>4, <1>5 DEF GoodBoss, Buries
<1>7. mail' \in [Worker -> Seq(Messages)]
  BY TellsFacts DEF RoleTypeInv, Buries
<1> QED
  BY <1>6, <1>7 DEF RoleTypeInv, Buries

\* The supervisor kills what hangs and changes nothing else of a process.
Reaps ==
  /\ boss.pc = "control" /\ boss.batch = <<>> /\ boss.ready = {}
  /\ boss' \in Boss /\ boss'.pc = "wait" /\ boss'.ready = boss.ready
  /\ boss'.batch = boss.batch /\ boss'.children = boss.children
  /\ boss'.primary = boss.primary /\ boss'.stopped = boss.stopped
  /\ boss'.onceDone = boss.onceDone
  /\ UNCHANGED <<mail, inbox, onceEver, misled, faults, refusals>>
  /\ worker' \in [Worker -> Process]
  /\ \A w \in Worker :
       /\ GoodWorker(worker'[w])
       /\ worker'[w].lives = worker[w].lives /\ worker'[w].role = worker[w].role
       /\ \/ worker'[w].life = worker[w].life
          \/ worker[w].life = "hung" /\ worker'[w].life = "dead"
       /\ Spared(worker[w], onceEver) => Spared(worker'[w], onceEver)

LEMMA ReapsFacts ==
  ASSUME RoleTypeInv, Reap
  PROVE  Reaps
<1>1. /\ boss \in Boss /\ boss' = [boss EXCEPT !.pc = "wait"]
      /\ boss.pc = "control" /\ boss.batch = <<>> /\ boss.ready = {}
      /\ UNCHANGED <<mail, inbox, onceEver, misled, faults, refusals>>
  BY DEF RoleTypeInv, GoodBoss, Reap
<1>2. /\ boss' \in Boss /\ boss'.pc = "wait" /\ boss'.ready = boss.ready
      /\ boss'.batch = boss.batch /\ boss'.children = boss.children
      /\ boss'.primary = boss.primary /\ boss'.stopped = boss.stopped
      /\ boss'.onceDone = boss.onceDone
  BY <1>1 DEF Boss
<1> DEFINE killed(w) == [worker[w] EXCEPT !.life = "dead"]
<1>3. \A w \in Worker :
        worker'[w] = IF worker[w].life = "hung" THEN killed(w) ELSE worker[w]
  BY DEF Reap
<1>4. \A w \in Worker :
        /\ GoodWorker(killed(w)) /\ killed(w).life = "dead"
        /\ killed(w).lives = worker[w].lives /\ killed(w).role = worker[w].role
        /\ Spared(worker[w], onceEver) => Spared(killed(w), onceEver)
  BY LifeFacts DEF RoleTypeInv
<1> HIDE DEF killed
<1>5. \A w \in Worker :
       /\ GoodWorker(worker'[w])
       /\ worker'[w].lives = worker[w].lives /\ worker'[w].role = worker[w].role
       /\ \/ worker'[w].life = worker[w].life
          \/ worker[w].life = "hung" /\ worker'[w].life = "dead"
       /\ Spared(worker[w], onceEver) => Spared(worker'[w], onceEver)
  BY <1>3, <1>4 DEF RoleTypeInv
<1>6. worker' \in [Worker -> Process]
  BY <1>5 DEF Reap, GoodWorker
<1> QED
  BY <1>1, <1>2, <1>5, <1>6 DEF Reaps

LEMMA ReapTypes ==
  ASSUME RoleTypeInv, Reaps
  PROVE  RoleTypeInv'
<1>1. (\A v \in boss.ready : ~Exists(v))'
  BY DEF Reaps
<1>2. (\A v \in Worker \ boss.children : worker[v].life = "unborn")'
  <2>1. \A v \in Worker \ boss.children : worker[v].life = "unborn"
    BY DEF RoleTypeInv, GoodBoss, Reaps
  <2> QED
    BY <2>1 DEF Reaps
<1>3. GoodBoss'
  BY <1>1, <1>2 DEF RoleTypeInv, GoodBoss, Reaps
<1> QED
  BY <1>3 DEF RoleTypeInv, Reaps

\* The kinds of steps the invariants below have to be kept by.
LEMMA Steps ==
  ASSUME RoleTypeInv, Next
  PROVE  \/ \E w \in Worker : Spawns(w)
         \/ Pumps \/ MovesOn \/ Handles \/ Reaps
         \/ \E w \in Worker : Buries(w)
         \/ \E w \in Worker : Quiet(w)
         \/ \E w \in Worker : ReadPromote(w)
         \/ \E w \in Worker : Refuse(w)
         \/ \E w \in Worker : Crash(w) \/ Hang(w) \/ Wake(w)
<1>1. CASE SpawnFirst \/ (SpawnRest /\ Worker \ boss.children # {}) \/ Respawn
  BY <1>1, SpawnsFacts
<1>2. CASE Wait \/ AwaitPumps
  BY <1>2, PumpsFacts
<1>3. CASE \/ AwaitEnds(TRUE) \/ AwaitEnds(FALSE) \/ WindowSlides
           \/ SpawnRest /\ Worker \ boss.children = {}
  BY <1>3, MovesOnFacts
<1>4. CASE HandleReport
  BY <1>4, HandlesFacts
<1>5. CASE Reap
  BY <1>5, ReapsFacts
<1>6. CASE \E w \in Worker : Bury(w)
  BY <1>6, BuriesFacts
<1> QED
  BY <1>1, <1>2, <1>3, <1>4, <1>5, <1>6 DEF Next, BossStep, Control, Quiet

LEMMA RoleTypeStep == RoleTypeInv /\ [Next]_vars => RoleTypeInv'
<1> SUFFICES ASSUME RoleTypeInv, [Next]_vars PROVE RoleTypeInv'
  OBVIOUS
<1>1. CASE Next
  BY <1>1, Steps, SpawnTypes, PumpTypes, MovesOnTypes, HandlesTypes, ReapTypes, BuryTypes,
     WorkerTypes
<1>2. CASE UNCHANGED vars
  BY <1>2 DEF vars, RoleTypeInv, GoodBoss, Exists
<1> QED
  BY <1>1, <1>2

LEMMA RoleTyped == Spec => []RoleTypeInv
BY RoleTypeInit, RoleTypeStep, PTL DEF Spec
-----------------------------------------------------------------------------
(* What follows from the types alone *)

\* TypeOK: every variable keeps its shape, and the promotions of the window of
\* _promote_someone never exceed the limit.
THEOREM RoleTypes == Spec => []TypeOK
<1>1. RoleTypeInv => TypeOK
  BY DEF RoleTypeInv, GoodBoss, Messages, TypeOK
<1> QED
  BY <1>1, RoleTyped, PTL

\* NoAdapterIsLost: what the startup loop has passed is started or can still be
\* promoted, and not both, wherever a promotion or its rollback meets the loop.
THEOREM AdaptersAreListed == Spec => []NoAdapterIsLost
<1>1. RoleTypeInv => NoAdapterIsLost
  BY DEF RoleTypeInv, GoodWorker, Lists, NoAdapterIsLost
<1> QED
  BY <1>1, RoleTyped, PTL

\* StartedIsServed: what a serving worker has started it serves, whether startup
\* or a promotion started it.
THEOREM StartedAdaptersServe == Spec => []StartedIsServed
<1>1. RoleTypeInv => StartedIsServed
  BY DEF RoleTypeInv, GoodWorker, StartedIsServed
<1> QED
  BY <1>1, RoleTyped, PTL
-----------------------------------------------------------------------------
(* run_once() comes first *)

\* Whoever is told that run_once() has been done is told so because it has.
OnceInv ==
  /\ boss.onceDone => onceEver
  /\ \A i \in DOMAIN inbox : inbox[i].key = "run-once-done" => onceEver
  /\ \A i \in DOMAIN boss.batch : boss.batch[i].key = "run-once-done" => onceEver
  /\ \A w \in Worker : \A i \in DOMAIN mail[w] : ~mail[w][i].once => onceEver
  /\ \A w \in Worker : Spared(worker[w], onceEver)

LEMMA OnceInit == Init => OnceInv
<1> SUFFICES ASSUME Init PROVE OnceInv
  OBVIOUS
<1>1. inbox = <<>> /\ boss.batch = <<>> /\ ~boss.onceDone
      /\ \A w \in Worker : mail[w] = <<>> /\ worker[w] = Unborn
  BY DEF Init
<1>2. Spared(Unborn, onceEver)
  BY UnbornFacts DEF Spared
<1> QED
  BY <1>1, <1>2 DEF OnceInv

\* The part about the processes, for the steps of one of them.
LEMMA SparedStep ==
  ASSUME RoleTypeInv, OnceInv, NEW w \in Worker, NEW y, worker' = [worker EXCEPT ![w] = y],
         Spared(y, onceEver'), onceEver => onceEver'
  PROVE  \A v \in Worker : Spared(worker'[v], onceEver')
BY DEF OnceInv, RoleTypeInv, Spared

LEMMA OnceStep == RoleTypeInv /\ OnceInv /\ [Next]_vars => OnceInv'
<1> SUFFICES ASSUME RoleTypeInv, OnceInv, [Next]_vars PROVE OnceInv'
  OBVIOUS
<1>1. ASSUME NEW w \in Worker, Spawns(w) PROVE OnceInv'
  <2>1. /\ worker'[w].role /\ ~worker'[w].needed => onceEver
        /\ worker'[w].pc = "boot" /\ worker'[w].ctl = "idle"
        /\ \A v \in Worker : v # w => worker'[v] = worker[v]
    BY <1>1, SpawnedFacts DEF Spawns, OnceInv
  <2>2. \A v \in Worker : Spared(worker'[v], onceEver)
    BY <2>1 DEF OnceInv, Spared
  <2> QED
    BY <1>1, <2>2 DEF OnceInv, Spawns
<1>2. CASE Pumps
  BY <1>2 DEF OnceInv, Pumps
<1>3. CASE MovesOn
  BY <1>3 DEF OnceInv, MovesOn
<1>4. CASE Handles
  <2>1. boss.batch \in Seq(Reports) /\ boss.batch # <<>>
    BY <1>4 DEF RoleTypeInv, GoodBoss, Boss, Handles
  <2>2. /\ 1 \in DOMAIN boss.batch /\ Head(boss.batch) = boss.batch[1]
        /\ \A i \in DOMAIN boss'.batch :
             i + 1 \in DOMAIN boss.batch /\ boss'.batch[i] = boss.batch[i + 1]
    BY <1>4, <2>1, TailFacts DEF Handles
  <2>3. \A i \in DOMAIN boss'.batch : boss'.batch[i].key = "run-once-done" => onceEver
    BY <2>2 DEF OnceInv
  <2>4. boss'.onceDone => onceEver
    BY <1>4, <2>2 DEF OnceInv, Handles
  <2>5. \A w \in Worker : \A i \in DOMAIN mail'[w] : ~mail'[w][i].once => onceEver
    <3>1. CASE mail' = mail
      BY <3>1 DEF OnceInv
    <3>2. CASE TellsPrimary
      <4> DEFINE p == boss'.primary
                 m == [once |-> ~boss'.onceDone, life |-> worker[p].lives]
      <4>1. /\ p \in Worker /\ m \in Messages
            /\ mail[p] \in Seq(Messages) /\ mail'[p] = Append(mail[p], m)
            /\ \A v \in Worker : v # p => mail'[v] = mail[v]
        BY <1>4, <3>2, TellsFacts DEF Handles
      <4>2. ~m.once => onceEver
        BY <2>4
      <4> HIDE DEF p, m
      <4>3. \A i \in DOMAIN mail'[p] : ~mail'[p][i].once => onceEver
        BY <4>1, <4>2, AppendFacts DEF OnceInv
      <4> QED
        BY <4>1, <4>3 DEF OnceInv
    <3> QED
      BY <1>4, <3>1, <3>2 DEF Handles
  <2> QED
    BY <1>4, <2>3, <2>4, <2>5 DEF OnceInv, Handles
<1>5. CASE Reaps
  BY <1>5 DEF OnceInv, Reaps
<1>6. ASSUME NEW w \in Worker, Buries(w) PROVE OnceInv'
  <2>1. \A v \in Worker : \A i \in DOMAIN mail'[v] : ~mail'[v][i].once => onceEver
    <3>1. CASE mail' = mail
      BY <3>1 DEF OnceInv
    <3>2. CASE TellsPrimary
      <4> DEFINE p == boss'.primary
                 m == [once |-> ~boss'.onceDone, life |-> worker[p].lives]
      <4>1. /\ p \in Worker /\ m \in Messages
            /\ mail[p] \in Seq(Messages) /\ mail'[p] = Append(mail[p], m)
            /\ \A v \in Worker : v # p => mail'[v] = mail[v]
        BY <1>6, <3>2, TellsFacts DEF Buries
      <4>2. ~m.once => onceEver
        BY <1>6 DEF OnceInv, Buries
      <4> HIDE DEF p, m
      <4>3. \A i \in DOMAIN mail'[p] : ~mail'[p][i].once => onceEver
        BY <4>1, <4>2, AppendFacts DEF OnceInv
      <4> QED
        BY <4>1, <4>3 DEF OnceInv
    <3> QED
      BY <1>6, <3>1, <3>2 DEF Buries
  <2> QED
    BY <1>6, <2>1 DEF OnceInv, Buries
<1>7. ASSUME NEW w \in Worker, Quiet(w) PROVE OnceInv'
  <2>1. /\ boss' = boss /\ mail' = mail
        /\ \/ inbox' = inbox /\ onceEver' = onceEver
           \/ inbox' = Append(inbox, DoneReport(w)) /\ onceEver'
    BY <1>7, QuietFacts
  <2>2. PICK y : /\ worker' = [worker EXCEPT ![w] = y]
                 /\ Spared(worker[w], onceEver) => Spared(y, onceEver')
    BY <1>7, QuietFacts
  <2>3. onceEver => onceEver'
    BY <2>1
  <2>4. \A v \in Worker : Spared(worker'[v], onceEver')
    BY <2>2, <2>3, SparedStep DEF OnceInv
  <2>5. \A i \in DOMAIN inbox' : inbox'[i].key = "run-once-done" => onceEver'
    BY <2>1 DEF OnceInv
  <2> QED
    BY <2>1, <2>3, <2>4, <2>5 DEF OnceInv
<1>8. ASSUME NEW w \in Worker, ReadPromote(w) PROVE OnceInv'
  <2>1. /\ mail[w] # <<>> /\ mail[w] \in Seq(Messages) /\ mail \in [Worker -> Seq(Messages)]
        /\ mail' = [mail EXCEPT ![w] = Tail(mail[w])]
        /\ UNCHANGED <<boss, inbox, onceEver>>
    BY <1>8, ReadFacts DEF RoleTypeInv
  <2>2. /\ ~Head(mail[w]).once => onceEver
        /\ \A i \in DOMAIN Tail(mail[w]) : ~Tail(mail[w])[i].once => onceEver
    BY <2>1, TailFacts DEF OnceInv
  <2>3. \A v \in Worker : \A i \in DOMAIN mail'[v] : ~mail'[v][i].once => onceEver
    BY <2>1, <2>2 DEF OnceInv
  <2>4. \A v \in Worker : Spared(worker'[v], onceEver)
    <3>1. CASE worker' = worker
      BY <3>1 DEF OnceInv
    <3>2. CASE \E y : worker' = [worker EXCEPT ![w] = y] /\ Spared(y, onceEver)
      BY <3>2 DEF OnceInv, RoleTypeInv
    <3> QED
      BY <1>8, <2>2, <3>1, <3>2, ReadFacts
  <2> QED
    BY <2>1, <2>3, <2>4 DEF OnceInv
<1>9. ASSUME NEW w \in Worker, Refuse(w) PROVE OnceInv'
  <2>1. /\ boss' = boss /\ mail' = mail /\ onceEver' = onceEver
        /\ inbox' = Append(inbox, FailedReport(w))
        /\ inbox \in Seq(Reports) /\ FailedReport(w) \in Reports
    BY <1>9, RefuseFacts DEF RoleTypeInv, FailedReport, Reports
  <2>2. \A v \in Worker : Spared(worker'[v], onceEver)
    <3>1. \E y : worker' = [worker EXCEPT ![w] = y] /\ Spared(y, onceEver)
      BY <1>9, RefuseFacts
    <3> QED
      BY <3>1 DEF OnceInv, RoleTypeInv
  <2>3. \A i \in DOMAIN inbox' : inbox'[i].key = "run-once-done" => onceEver
    <3>1. FailedReport(w).key = "promote-failed"
      BY DEF FailedReport
    <3> QED
      BY <2>1, <3>1, AppendFacts DEF OnceInv
  <2> QED
    BY <2>1, <2>2, <2>3 DEF OnceInv
<1>10. ASSUME NEW w \in Worker, Crash(w) \/ Hang(w) \/ Wake(w) PROVE OnceInv'
  <2>1. boss' = boss /\ mail' = mail /\ inbox' = inbox /\ onceEver' = onceEver
    BY <1>10, FaultFacts
  <2>2. \E y : worker' = [worker EXCEPT ![w] = y] /\ Spared(y, onceEver)
    BY <1>10, FaultFacts DEF OnceInv
  <2> QED
    BY <2>1, <2>2 DEF OnceInv, RoleTypeInv
<1>11. CASE UNCHANGED vars
  BY <1>11 DEF vars, OnceInv
<1> QED
  BY <1>1, <1>2, <1>3, <1>4, <1>5, <1>6, <1>7, <1>8, <1>9, <1>10, <1>11, Steps

\* SettledAfterRunOnce: a worker settled in the role knows that some run_once() of
\* the cluster has returned, by its own, its handle or the PROMOTE it obeyed.
THEOREM RoleAfterRunOnce == Spec => []SettledAfterRunOnce
<1>1. OnceInv => SettledAfterRunOnce
  BY DEF OnceInv, Spared, SettledAfterRunOnce, HasRole
<1> QED
  BY <1>1, OnceInit, OnceStep, RoleTyped, PTL DEF Spec
-----------------------------------------------------------------------------
(* The role is never lost *)

LEMMA LostInit == Init => RoleIsNeverLost
BY UnbornFacts DEF Init, RoleIsNeverLost, Exists

\* A step that gives the role to nobody new and takes neither it nor word of it
\* from a process that has them.
LEMMA LostStays ==
  ASSUME RoleIsNeverLost, boss'.primary = boss.primary,
         \A v \in Worker : boss.primary = v /\ Exists(v)' =>
           /\ Exists(v)
           /\ worker[v].role => worker'[v].role
           /\ mail[v] # <<>> => mail'[v] # <<>> \/ worker'[v].role
           /\ InFlight(v, inbox) \/ InFlight(v, boss.batch) =>
                InFlight(v, inbox') \/ InFlight(v, boss'.batch)
  PROVE  RoleIsNeverLost'
BY DEF RoleIsNeverLost

LEMMA FlightAppend ==
  ASSUME NEW s \in Seq(Reports), NEW r \in Reports, NEW v
  PROVE  /\ InFlight(v, s) => InFlight(v, Append(s, r))
         /\ r = FailedReport(v) => InFlight(v, Append(s, r))
<1>1. InFlight(v, s) => InFlight(v, Append(s, r))
  <2> SUFFICES ASSUME NEW i \in DOMAIN s, s[i] = [key |-> "promote-failed", who |-> v]
               PROVE  InFlight(v, Append(s, r))
    BY DEF InFlight
  <2>1. i \in DOMAIN Append(s, r) /\ Append(s, r)[i] = s[i]
    BY AppendFacts
  <2> QED
    BY <2>1 DEF InFlight
<1>2. r = FailedReport(v) => InFlight(v, Append(s, r))
  <2>1. Len(s) + 1 \in DOMAIN Append(s, r) /\ Append(s, r)[Len(s) + 1] = r
    BY AppendFacts
  <2> QED
    BY <2>1 DEF InFlight, FailedReport
<1> QED
  BY <1>1, <1>2

LEMMA LostStep == RoleTypeInv /\ RoleIsNeverLost /\ [Next]_vars => RoleIsNeverLost'
<1> SUFFICES ASSUME RoleTypeInv, RoleIsNeverLost, [Next]_vars PROVE RoleIsNeverLost'
  OBVIOUS
<1>1. ASSUME NEW w \in Worker, Spawns(w) PROVE RoleIsNeverLost'
  <2>1. /\ worker'[w].role = (w = boss.primary)
        /\ \A v \in Worker : v # w => worker'[v] = worker[v]
    BY <1>1, SpawnedFacts DEF Spawns
  <2>2. \A v \in Worker : ~InFlight(v, boss.batch)
    BY <1>1 DEF InFlight, Spawns
  <2>3. \A v \in Worker : boss'.primary = v /\ Exists(v)' =>
          \/ worker'[v].role
          \/ mail'[v] # <<>>
          \/ InFlight(v, inbox') \/ InFlight(v, boss'.batch)
    <3> SUFFICES ASSUME NEW v \in Worker, boss'.primary = v, Exists(v)'
                 PROVE  \/ worker'[v].role
                        \/ mail'[v] # <<>>
                        \/ InFlight(v, inbox') \/ InFlight(v, boss'.batch)
      OBVIOUS
    <3>1. CASE v = w
      BY <1>1, <2>1, <3>1 DEF Spawns
    <3>2. CASE v # w
      <4>1. worker'[v] = worker[v] /\ Exists(v) /\ boss.primary = v
            /\ mail' = mail /\ inbox' = inbox
        BY <1>1, <2>1, <3>2 DEF Spawns, Exists
      <4> QED
        BY <2>2, <4>1 DEF RoleIsNeverLost
    <3> QED
      BY <3>1, <3>2
  <2> QED
    BY <2>3 DEF RoleIsNeverLost
<1>2. CASE Pumps
  <2>1. \A v \in Worker : ~InFlight(v, boss.batch)
    BY <1>2 DEF InFlight, Pumps
  <2> QED
    BY <1>2, <2>1, LostStays DEF Pumps, Exists
<1>3. CASE MovesOn
  BY <1>3, LostStays DEF MovesOn, Exists
<1>4. CASE Handles
  <2>1. CASE Head(boss.batch).key = "run-once-done" /\ boss'.primary = boss.primary /\ mail' = mail
    <3>1. boss.batch \in Seq(Reports) /\ boss.batch # <<>>
      BY <1>4 DEF RoleTypeInv, GoodBoss, Boss, Handles
    <3>2. /\ Head(boss.batch) = boss.batch[1]
          /\ \A i \in DOMAIN boss.batch :
               i = 1 \/ (i - 1 \in DOMAIN boss'.batch /\ boss'.batch[i - 1] = boss.batch[i])
      BY <1>4, <3>1, TailFacts DEF Handles
    <3>3. \A v \in Worker : InFlight(v, boss.batch) => InFlight(v, boss'.batch)
      <4> SUFFICES ASSUME NEW v \in Worker, NEW i \in DOMAIN boss.batch,
                          boss.batch[i] = [key |-> "promote-failed", who |-> v]
                   PROVE  InFlight(v, boss'.batch)
        BY DEF InFlight
      <4>1. boss.batch[i].key = "promote-failed"
        OBVIOUS
      <4>2. i # 1
        BY <2>1, <3>2, <4>1
      <4> QED
        BY <3>2, <4>2 DEF InFlight
    <3> QED
      BY <1>4, <2>1, <3>3, LostStays DEF Handles, Exists
  <2>2. CASE boss'.primary = Nobody
    BY <2>2, Sets DEF RoleIsNeverLost
  <2>3. CASE TellsPrimary
    BY <1>4, <2>3, TellsFacts, AppendFacts DEF RoleIsNeverLost, Handles
  <2> QED
    BY <1>4, <2>1, <2>2, <2>3 DEF Handles
<1>5. CASE Reaps
  <2>1. \A v \in Worker : Exists(v)' => Exists(v) /\ worker'[v].role = worker[v].role
    BY <1>5 DEF Reaps, Exists
  <2> QED
    BY <1>5, <2>1, LostStays DEF Reaps
<1>6. ASSUME NEW w \in Worker, Buries(w) PROVE RoleIsNeverLost'
  <2>1. CASE boss'.primary = boss.primary /\ mail' = mail
    BY <1>6, <2>1, LostStays DEF Buries, Exists
  <2>2. CASE boss'.primary = Nobody
    BY <2>2, Sets DEF RoleIsNeverLost
  <2>3. CASE boss'.primary = w
    <3>1. ~Exists(w)
      BY <1>6 DEF RoleTypeInv, GoodBoss, Buries
    <3> QED
      BY <1>6, <2>3, <3>1 DEF RoleIsNeverLost, Buries, Exists
  <2>4. CASE TellsPrimary
    BY <1>6, <2>4, TellsFacts, AppendFacts DEF RoleIsNeverLost, Buries
  <2> QED
    BY <1>6, <2>1, <2>2, <2>3, <2>4 DEF Buries
<1>7. ASSUME NEW w \in Worker, Quiet(w) PROVE RoleIsNeverLost'
  <2>1. /\ boss' = boss /\ mail' = mail /\ Exists(w)
        /\ inbox' = inbox \/ inbox' = Append(inbox, DoneReport(w))
    BY <1>7, QuietFacts DEF Exists
  <2>2. PICK y : worker' = [worker EXCEPT ![w] = y] /\ y.role = worker[w].role
    BY <1>7, QuietFacts
  <2>3. \A v \in Worker : Exists(v)' => Exists(v) /\ worker'[v].role = worker[v].role
    BY <2>1, <2>2 DEF Exists, RoleTypeInv
  <2>4. inbox \in Seq(Reports) /\ DoneReport(w) \in Reports
    BY DEF RoleTypeInv, DoneReport, Reports
  <2>5. \A v \in Worker : InFlight(v, inbox) => InFlight(v, inbox')
    BY <2>1, <2>4, FlightAppend
  <2> QED
    BY <2>1, <2>3, <2>5, LostStays
<1>8. ASSUME NEW w \in Worker, ReadPromote(w) PROVE RoleIsNeverLost'
  <2>1. /\ boss' = boss /\ inbox' = inbox /\ Exists(w)
        /\ \A v \in Worker : v # w => mail'[v] = mail[v]
    BY <1>8, ReadFacts DEF Exists, RoleTypeInv
  <2>2. worker'[w].role /\ \A v \in Worker : v # w => worker'[v] = worker[v]
    BY <1>8, ReadFacts DEF RoleTypeInv
  <2> QED
    BY <2>1, <2>2, LostStays DEF Exists
<1>9. ASSUME NEW w \in Worker, Refuse(w) PROVE RoleIsNeverLost'
  <2>1. /\ boss' = boss /\ mail' = mail /\ inbox' = Append(inbox, FailedReport(w))
    BY <1>9, RefuseFacts
  <2>2. \A v \in Worker : v # w => worker'[v] = worker[v]
    BY <1>9, RefuseFacts DEF RoleTypeInv
  <2>3. inbox \in Seq(Reports) /\ FailedReport(w) \in Reports
    BY DEF RoleTypeInv, FailedReport, Reports
  <2>4. InFlight(w, inbox') /\ \A v \in Worker : InFlight(v, inbox) => InFlight(v, inbox')
    BY <2>1, <2>3, FlightAppend
  <2> QED
    BY <2>1, <2>2, <2>4 DEF RoleIsNeverLost, Exists
<1>10. ASSUME NEW w \in Worker, Crash(w) \/ Hang(w) \/ Wake(w) PROVE RoleIsNeverLost'
  <2>1. boss' = boss /\ mail' = mail /\ inbox' = inbox /\ Exists(w)
    BY <1>10, FaultFacts
  <2>2. PICK y : worker' = [worker EXCEPT ![w] = y] /\ y.role = worker[w].role
    BY <1>10, FaultFacts
  <2>3. \A v \in Worker : Exists(v)' => Exists(v) /\ worker'[v].role = worker[v].role
    BY <2>1, <2>2 DEF Exists, RoleTypeInv
  <2> QED
    BY <2>1, <2>3, LostStays
<1>11. CASE UNCHANGED vars
  BY <1>11, LostStays DEF vars, Exists
<1> QED
  BY <1>1, <1>2, <1>3, <1>4, <1>5, <1>6, <1>7, <1>8, <1>9, <1>10, <1>11, Steps

\* RoleIsNeverLost: the live worker the supervisor takes for primary has the
\* role, or will read about it, or has refused it with its refusal on the way,
\* for any number of faults and refusals.
THEOREM RoleSurvives == Spec => []RoleIsNeverLost
BY LostInit, LostStep, RoleTyped, PTL DEF Spec
-----------------------------------------------------------------------------
(* One primary *)

Failed(reports) == {i \in DOMAIN reports : reports[i].key = "promote-failed"}
\* The PROMOTE messages for w that were sent to the process it is now.
Current(w) == {i \in DOMAIN mail[w] : Exists(w) /\ mail[w][i].life = worker[w].lives}
NoFailure == Failed(inbox) = {} /\ Failed(boss.batch) = {}

LivesInv == \A w \in Worker : \A i \in DOMAIN mail[w] : mail[w][i].life <= worker[w].lives

\* There is one token of the role, and it is in one place: the process that has
\* the role, a PROMOTE that is current, or a refusal that is on the way.  It is
\* always where the supervisor believes its primary to be.
Refusals ==
  /\ \A i \in Failed(inbox) :
       /\ boss.primary = inbox[i].who /\ worker[inbox[i].who].life # "unborn"
       /\ inbox[i].who \notin boss.ready
       /\ boss.pc = "sleep" => inbox[i].who # boss.who
  /\ \A i \in Failed(boss.batch) : boss.primary = boss.batch[i].who
  /\ \A i, j \in Failed(inbox) : i = j
  /\ \A i, j \in Failed(boss.batch) : i = j
  /\ Failed(inbox) = {} \/ Failed(boss.batch) = {}

Holders ==
  \A w \in Worker :
    /\ HasRole(w) => boss.primary = w /\ NoFailure /\ Current(w) = {}
    /\ Current(w) # {} => boss.primary = w /\ NoFailure
    /\ \A i, j \in Current(w) : i = j

SoleInv == Refusals /\ Holders

LEMMA LivesStep == RoleTypeInv /\ LivesInv /\ [Next]_vars => LivesInv'
<1> SUFFICES ASSUME RoleTypeInv, LivesInv, [Next]_vars PROVE LivesInv'
  OBVIOUS
<1>1. \A w \in Worker : worker[w].lives \in Nat
  BY DEF RoleTypeInv, Process
<1>2. mail \in [Worker -> Seq(Messages)]
      /\ \A w \in Worker : \A i \in DOMAIN mail[w] : mail[w][i].life \in Nat
  <2>1. mail \in [Worker -> Seq(Messages)]
    BY DEF RoleTypeInv
  <2>2. \A w \in Worker : \A i \in DOMAIN mail[w] : mail[w][i] \in Messages
    BY <2>1, LenProperties
  <2> QED
    BY <2>1, <2>2 DEF Messages
<1>3. CASE mail' = mail /\ \A w \in Worker : worker'[w].lives = worker[w].lives
  BY <1>3 DEF LivesInv
<1>4. ASSUME NEW w \in Worker, Spawns(w) PROVE LivesInv'
  <2>1. /\ mail' = mail /\ worker'[w].lives = worker[w].lives + 1
        /\ \A v \in Worker : v # w => worker'[v] = worker[v]
    BY <1>4, SpawnedFacts DEF Spawns
  <2> QED
    BY <1>1, <1>2, <2>1 DEF LivesInv
<1>5. CASE TellsPrimary /\ boss' \in Boss /\ worker' = worker
  <2> DEFINE p == boss'.primary
             m == [once |-> ~boss'.onceDone, life |-> worker[p].lives]
  <2>1. /\ p \in Worker /\ m \in Messages
        /\ mail[p] \in Seq(Messages) /\ mail'[p] = Append(mail[p], m)
        /\ \A v \in Worker : v # p => mail'[v] = mail[v]
    BY <1>5, TellsFacts
  <2>2. m.life <= worker[p].lives
    BY <1>1, <2>1
  <2> HIDE DEF p, m
  <2>3. \A i \in DOMAIN mail'[p] : mail'[p][i].life <= worker[p].lives
    BY <2>1, <2>2, AppendFacts DEF LivesInv
  <2> QED
    BY <1>5, <2>1, <2>3 DEF LivesInv
<1>6. CASE Pumps \/ MovesOn \/ Reaps
  BY <1>3, <1>6 DEF Pumps, MovesOn, Reaps
<1>7. CASE Handles
  BY <1>3, <1>5, <1>7 DEF Handles
<1>8. ASSUME NEW w \in Worker, Buries(w) PROVE LivesInv'
  BY <1>3, <1>5, <1>8 DEF Buries
<1>9. ASSUME NEW w \in Worker, Quiet(w) \/ Refuse(w) \/ Crash(w) \/ Hang(w) \/ Wake(w)
      PROVE  LivesInv'
  <2>1. /\ mail' = mail
        /\ \E y : worker' = [worker EXCEPT ![w] = y] /\ y.lives = worker[w].lives
    BY <1>9, QuietFacts, RefuseFacts, FaultFacts
  <2> QED
    BY <1>3, <2>1 DEF RoleTypeInv
<1>10. ASSUME NEW w \in Worker, ReadPromote(w) PROVE LivesInv'
  <2>1. /\ mail[w] # <<>> /\ mail[w] \in Seq(Messages)
        /\ mail' = [mail EXCEPT ![w] = Tail(mail[w])]
    BY <1>2, <1>10, ReadFacts
  <2>2. \A v \in Worker : worker'[v].lives = worker[v].lives
    BY <1>10, ReadFacts DEF RoleTypeInv
  <2>3. \A i \in DOMAIN Tail(mail[w]) : Tail(mail[w])[i].life <= worker[w].lives
    BY <2>1, TailFacts DEF LivesInv
  <2> QED
    BY <1>2, <2>1, <2>2, <2>3 DEF LivesInv
<1>11. CASE UNCHANGED vars
  BY <1>3, <1>11 DEF vars
<1> QED
  BY <1>4, <1>6, <1>7, <1>8, <1>9, <1>10, <1>11, Steps

\* A step after which the token is where it was, or is gone with its process.
LEMMA SoleStays ==
  ASSUME SoleInv, boss'.primary = boss.primary,
         Failed(inbox') = Failed(inbox), Failed(boss'.batch) = Failed(boss.batch),
         \A i \in Failed(inbox) :
           /\ inbox'[i] = inbox[i] /\ worker'[inbox[i].who].life # "unborn"
           /\ inbox[i].who \notin boss'.ready
           /\ boss'.pc = "sleep" => inbox[i].who # boss'.who,
         \A i \in Failed(boss.batch) : boss'.batch[i] = boss.batch[i],
         \A v \in Worker : (HasRole(v)' => HasRole(v)) /\ Current(v)' \subseteq Current(v)
  PROVE  SoleInv'
<1>1. Failed(inbox)' = Failed(inbox) /\ Failed(boss.batch)' = Failed(boss.batch)
  BY DEF Failed
<1>2. Refusals'
  BY <1>1 DEF SoleInv, Refusals
<1>3. Holders'
  BY <1>1 DEF SoleInv, Holders, NoFailure
<1> QED
  BY <1>2, <1>3 DEF SoleInv

\* Current does not grow when processes die, hang or wake and mail stays.
LEMMA CurrentStays ==
  ASSUME NEW v \in Worker, mail'[v] = mail[v], Exists(v)' => Exists(v),
         worker'[v].lives = worker[v].lives
  PROVE  Current(v)' \subseteq Current(v)
BY DEF Current

\* Nobody has the role, a word of it or a refusal under way, and it is given out.
LEMMA SoleGain ==
  ASSUME RoleTypeInv, boss' \in Boss, worker' = worker, inbox' = inbox,
         Failed(inbox) = {}, Failed(boss'.batch) = {},
         \A v \in Worker : ~HasRole(v) /\ Current(v) = {},
         mail' = mail \/ TellsPrimary
  PROVE  SoleInv'
<1>1. Failed(inbox)' = {} /\ Failed(boss.batch)' = {}
  BY DEF Failed
<1>2. \A v \in Worker : ~HasRole(v)'
  BY DEF HasRole, Exists
<1>3. \A v \in Worker : mail'[v] = mail[v] => Current(v)' = {}
  BY CurrentStays DEF Exists
<1>4. CASE mail' = mail
  BY <1>1, <1>2, <1>3, <1>4 DEF SoleInv, Refusals, Holders, NoFailure
<1>5. CASE TellsPrimary
  <2>1. PICK p \in Worker : p = boss'.primary
    BY <1>5, TellsFacts
  <2> DEFINE m == [once |-> ~boss'.onceDone, life |-> worker[p].lives]
  <2>2. /\ m \in Messages /\ mail[p] \in Seq(Messages) /\ mail'[p] = Append(mail[p], m)
        /\ \A v \in Worker : v # p => mail'[v] = mail[v]
    BY <1>5, <2>1, TellsFacts
  <2>3. Exists(p)
    BY <1>5, <2>1, TellsFacts
  <2> HIDE DEF m
  <2>4. \A i \in DOMAIN mail[p] : mail[p][i].life # worker[p].lives
    BY <2>3 DEF Current
  <2>5. \A i \in Current(p)' : i = Len(mail[p]) + 1
    <3>1. \A i \in DOMAIN mail'[p] : i = Len(mail[p]) + 1 \/ i \in DOMAIN mail[p]
      BY <2>2, AppendFacts
    <3>2. \A i \in DOMAIN mail[p] : mail'[p][i] = mail[p][i]
      BY <2>2, AppendFacts
    <3> QED
      BY <2>4, <3>1, <3>2 DEF Current
  <2>6. Holders'
    <3>1. \A v \in Worker : v # p => Current(v)' = {}
      BY <1>3, <2>2
    <3> QED
      BY <1>1, <1>2, <2>1, <2>5, <3>1 DEF Holders, NoFailure
  <2>7. Refusals'
    BY <1>1 DEF Refusals
  <2> QED
    BY <2>6, <2>7 DEF SoleInv
<1> QED
  BY <1>4, <1>5

LEMMA SoleInit == Init => LivesInv /\ SoleInv
<1> SUFFICES ASSUME Init PROVE LivesInv /\ SoleInv
  OBVIOUS
<1>1. inbox = <<>> /\ boss.batch = <<>> /\ \A w \in Worker : mail[w] = <<>> /\ worker[w] = Unborn
  BY DEF Init
<1> QED
  BY <1>1, UnbornFacts DEF LivesInv, SoleInv, Refusals, Holders, NoFailure, Failed, Current,
                           HasRole, Exists

\* What an append and a read do to the refusals among the reports.
LEMMA FailedAppend ==
  ASSUME NEW s \in Seq(Reports), NEW r \in Reports
  PROVE  /\ \A i \in Failed(s) : Append(s, r)[i] = s[i]
         /\ r.key # "promote-failed" => Failed(Append(s, r)) = Failed(s)
         /\ Failed(Append(s, r)) \subseteq Failed(s) \cup {Len(s) + 1}
         /\ Append(s, r)[Len(s) + 1] = r
BY AppendFacts DEF Failed

LEMMA FailedTail ==
  ASSUME NEW s \in Seq(Reports), s # <<>>
  PROVE  /\ \A i \in Failed(Tail(s)) : i \in Nat \ {0} /\ i + 1 \in Failed(s) /\ Tail(s)[i] = s[i + 1]
         /\ Head(s).key = "promote-failed" => 1 \in Failed(s)
BY TailFacts DEF Failed

LEMMA SoleStep ==
  RoleTypeInv /\ LivesInv /\ (misled \/ SoleInv) /\ [Next]_vars => (misled \/ SoleInv)'
<1> SUFFICES ASSUME RoleTypeInv, LivesInv, misled \/ SoleInv, [Next]_vars
             PROVE  (misled \/ SoleInv)'
  OBVIOUS
<1>1. ASSUME NEW w \in Worker, Spawns(w), SoleInv PROVE SoleInv'
  <2>1. /\ worker'[w].role = (w = boss.primary) /\ worker'[w].life = "alive"
        /\ worker'[w].lives = worker[w].lives + 1
        /\ \A v \in Worker : v # w => worker'[v] = worker[v]
    BY <1>1, SpawnedFacts DEF Spawns
  <2>2. Current(w)' = {}
    <3>1. \A i \in DOMAIN mail[w] : mail[w][i].life \in Nat /\ mail[w][i].life <= worker[w].lives
      <4>1. mail[w] \in Seq(Messages)
        BY DEF RoleTypeInv
      <4>2. \A i \in DOMAIN mail[w] : mail[w][i] \in Messages
        BY <4>1, LenProperties
      <4> QED
        BY <4>2 DEF LivesInv, Messages
    <3>2. worker[w].lives \in Nat
      BY DEF RoleTypeInv, Process
    <3> QED
      BY <1>1, <2>1, <3>1, <3>2 DEF Current, Spawns
  <2>3. Failed(boss.batch) = {} /\ Failed(boss'.batch) = {}
    BY <1>1 DEF Spawns, Failed
  <2>4. \A v \in Worker : v # w => (HasRole(v)' => HasRole(v)) /\ Current(v)' \subseteq Current(v)
    BY <1>1, <2>1, CurrentStays DEF HasRole, Exists, Spawns
  <2>5. \A i \in Failed(inbox) : boss.primary = inbox[i].who /\ inbox[i].who # w
    BY <1>1 DEF SoleInv, Refusals, Spawns
  <2>6. CASE w # boss.primary
    <3>1. \A i \in Failed(inbox) :
            /\ inbox'[i] = inbox[i] /\ worker'[inbox[i].who].life # "unborn"
            /\ inbox[i].who \notin boss'.ready
            /\ boss'.pc = "sleep" => inbox[i].who # boss'.who
      <4>1. boss.primary \in Worker \cup {Nobody}
        BY DEF RoleTypeInv, GoodBoss, Boss
      <4>2. \A i \in Failed(inbox) : inbox[i].who \in Worker
        <5>1. inbox \in Seq(Reports)
          BY DEF RoleTypeInv
        <5>2. \A i \in DOMAIN inbox : inbox[i] \in Reports
          BY <5>1, LenProperties
        <5> QED
          BY <5>2 DEF Failed, Reports
      <4> QED
        BY <1>1, <2>1, <2>5, <4>2 DEF SoleInv, Refusals, Spawns
    <3>2. ~HasRole(w)'
      BY <2>1, <2>6 DEF HasRole
    <3> QED
      BY <1>1, <2>2, <2>3, <2>4, <3>1, <3>2, SoleStays DEF Spawns
  <2>7. CASE w = boss.primary
    <3>1. Failed(inbox) = {}
      BY <2>5, <2>7
    <3>2. Failed(inbox)' = {} /\ Failed(boss.batch)' = {}
      BY <1>1, <2>3, <3>1 DEF Failed, Spawns
    <3>3. \A v \in Worker : v # w => ~HasRole(v)' /\ Current(v)' = {}
      BY <1>1, <2>4, <2>7 DEF SoleInv, Holders
    <3> QED
      BY <1>1, <2>2, <2>7, <3>2, <3>3 DEF SoleInv, Refusals, Holders, NoFailure, Spawns
  <2> QED
    BY <2>6, <2>7
<1>2. ASSUME Pumps, SoleInv PROVE SoleInv'
  <2>1. Failed(boss.batch) = {} /\ Failed(inbox)' = {} /\ Failed(boss.batch)' = Failed(inbox)
    BY <1>2 DEF Failed, Pumps
  <2>2. \A v \in Worker : (HasRole(v)' => HasRole(v)) /\ Current(v)' \subseteq Current(v)
    BY <1>2, CurrentStays DEF HasRole, Exists, Pumps
  <2>3. Refusals'
    BY <1>2, <2>1 DEF SoleInv, Refusals, Pumps
  <2>4. Holders'
    BY <1>2, <2>1, <2>2 DEF SoleInv, Holders, NoFailure, Pumps
  <2> QED
    BY <2>3, <2>4 DEF SoleInv
<1>3. ASSUME MovesOn, SoleInv PROVE SoleInv'
  <2>1. \A v \in Worker : (HasRole(v)' => HasRole(v)) /\ Current(v)' \subseteq Current(v)
    BY <1>3, CurrentStays DEF HasRole, Exists, MovesOn
  <2>2. \A i \in Failed(inbox) :
          /\ worker'[inbox[i].who].life # "unborn" /\ inbox[i].who \notin boss'.ready
          /\ boss'.pc = "sleep" => inbox[i].who # boss'.who
    BY <1>3 DEF SoleInv, Refusals, MovesOn
  <2> QED
    BY <1>3, <2>1, <2>2, SoleStays DEF MovesOn
<1>4. ASSUME Handles, SoleInv PROVE SoleInv'
  <2>1. /\ boss.batch \in Seq(Reports) /\ boss.batch # <<>> /\ boss'.batch = Tail(boss.batch)
        /\ boss' \in Boss /\ worker' = worker /\ inbox' = inbox
        /\ boss'.pc = boss.pc /\ boss'.who = boss.who /\ boss'.ready = boss.ready
    BY <1>4 DEF RoleTypeInv, GoodBoss, Boss, Handles
  <2>2. \A i \in Failed(boss'.batch) :
          i \in Nat \ {0} /\ i + 1 \in Failed(boss.batch) /\ boss'.batch[i] = boss.batch[i + 1]
    BY <2>1, FailedTail
  <2>3. CASE boss'.primary = boss.primary /\ mail' = mail
    <3>1. \A v \in Worker : (HasRole(v)' => HasRole(v)) /\ Current(v)' \subseteq Current(v)
      BY <2>1, <2>3, CurrentStays DEF HasRole, Exists
    <3>2. Failed(inbox)' = Failed(inbox) /\ Failed(boss.batch)' = Failed(boss'.batch)
      BY <2>1 DEF Failed
    <3>3. \A i, j \in Failed(boss'.batch) : i = j
      BY <1>4, <2>2 DEF SoleInv, Refusals
    <3>4. Refusals'
      BY <1>4, <2>1, <2>2, <2>3, <3>2, <3>3 DEF SoleInv, Refusals
    <3>5. Holders'
      BY <1>4, <2>2, <2>3, <3>1, <3>2 DEF SoleInv, Holders, NoFailure
    <3> QED
      BY <3>4, <3>5 DEF SoleInv
  <2>4. CASE Head(boss.batch).key = "promote-failed"
    <3>1. 1 \in Failed(boss.batch)
      BY <2>1, <2>4, FailedTail
    <3>2. Failed(inbox) = {} /\ Failed(boss'.batch) = {}
      BY <1>4, <2>2, <3>1 DEF SoleInv, Refusals
    <3>3. \A v \in Worker : ~HasRole(v) /\ Current(v) = {}
      BY <1>4, <3>1 DEF SoleInv, Holders, NoFailure
    <3>4. mail' = mail \/ TellsPrimary
      BY <1>4 DEF Handles
    <3> QED
      BY <2>1, <3>2, <3>3, <3>4, SoleGain
  <2> QED
    BY <1>4, <2>3, <2>4 DEF Handles
<1>5. ASSUME Reaps, SoleInv PROVE SoleInv'
  <2>1. \A v \in Worker : Exists(v)' => Exists(v) /\ worker'[v].role = worker[v].role
    BY <1>5 DEF Reaps, Exists
  <2>2. \A v \in Worker : (HasRole(v)' => HasRole(v)) /\ Current(v)' \subseteq Current(v)
    BY <1>5, <2>1, CurrentStays DEF HasRole, Reaps
  <2>3. \A i \in Failed(inbox) : inbox[i].who \in Worker
    <3>1. inbox \in Seq(Reports)
      BY DEF RoleTypeInv
    <3>2. \A i \in DOMAIN inbox : inbox[i] \in Reports
      BY <3>1, LenProperties
    <3> QED
      BY <3>2 DEF Failed, Reports
  <2>4. \A i \in Failed(inbox) :
          /\ worker'[inbox[i].who].life # "unborn" /\ inbox[i].who \notin boss'.ready
          /\ boss'.pc # "sleep"
    BY <1>5, <2>3 DEF SoleInv, Refusals, Reaps
  <2> QED
    BY <1>5, <2>2, <2>4, SoleStays DEF Reaps
<1>6. ASSUME NEW w \in Worker, Buries(w), SoleInv PROVE SoleInv'
  <2>1. /\ ~Exists(w) /\ w \in boss.ready /\ boss' \in Boss /\ worker' = worker /\ inbox' = inbox
        /\ boss.batch = <<>> /\ boss'.batch = <<>>
    BY <1>6 DEF RoleTypeInv, GoodBoss, Buries
  <2>2. Failed(boss.batch) = {} /\ Failed(boss'.batch) = {}
    BY <2>1 DEF Failed
  <2>3. CASE w # boss.primary
    <3>1. boss'.primary = boss.primary /\ mail' = mail
      BY <1>6, <2>3 DEF Buries
    <3>2. \A v \in Worker : (HasRole(v)' => HasRole(v)) /\ Current(v)' \subseteq Current(v)
      BY <2>1, <3>1, CurrentStays DEF HasRole, Exists
    <3>3. \A i \in Failed(inbox) :
            /\ worker'[inbox[i].who].life # "unborn" /\ inbox[i].who \notin boss'.ready
            /\ boss'.pc = "sleep" => inbox[i].who # boss'.who
      BY <1>6, <2>1 DEF SoleInv, Refusals, Buries
    <3> QED
      BY <1>6, <2>1, <2>2, <3>1, <3>2, <3>3, SoleStays
  <2>4. CASE w = boss.primary
    <3>1. Failed(inbox) = {}
      BY <1>6, <2>1, <2>4 DEF SoleInv, Refusals
    <3>2. \A v \in Worker : ~HasRole(v) /\ Current(v) = {}
      BY <1>6, <2>1, <2>4 DEF SoleInv, Holders, HasRole, Current
    <3>3. mail' = mail \/ TellsPrimary
      BY <1>6 DEF Buries
    <3> QED
      BY <2>1, <2>2, <3>1, <3>2, <3>3, SoleGain
  <2> QED
    BY <2>3, <2>4
<1>7. ASSUME NEW w \in Worker, Quiet(w), SoleInv PROVE SoleInv'
  <2>1. /\ boss' = boss /\ mail' = mail /\ Exists(w)
        /\ inbox' = inbox \/ inbox' = Append(inbox, DoneReport(w))
        /\ inbox \in Seq(Reports) /\ DoneReport(w) \in Reports
        /\ DoneReport(w).key # "promote-failed"
    BY <1>7, QuietFacts DEF Exists, RoleTypeInv, DoneReport, Reports
  <2>2. PICK y : /\ worker' = [worker EXCEPT ![w] = y] /\ y.role = worker[w].role
                 /\ y.life = worker[w].life /\ y.lives = worker[w].lives
    BY <1>7, QuietFacts
  <2>3. \A v \in Worker : /\ worker'[v].role = worker[v].role
                          /\ worker'[v].life = worker[v].life /\ worker'[v].lives = worker[v].lives
    BY <2>2 DEF RoleTypeInv
  <2>4. \A v \in Worker : (HasRole(v)' => HasRole(v)) /\ Current(v)' \subseteq Current(v)
    BY <2>1, <2>3, CurrentStays DEF HasRole, Exists
  <2>5. Failed(inbox') = Failed(inbox) /\ \A i \in Failed(inbox) : inbox'[i] = inbox[i]
    <3>1. CASE inbox' = inbox
      BY <3>1
    <3>2. CASE inbox' = Append(inbox, DoneReport(w))
      <4> DEFINE r == DoneReport(w)
      <4>1. r \in Reports /\ r.key # "promote-failed" /\ inbox' = Append(inbox, r)
        BY <2>1, <3>2
      <4> HIDE DEF r
      <4> QED
        BY <2>1, <4>1, FailedAppend
    <3> QED
      BY <2>1, <3>1, <3>2
  <2>6. \A i \in Failed(inbox) : inbox[i].who \in Worker
    <3>1. \A i \in DOMAIN inbox : inbox[i] \in Reports
      BY <2>1, LenProperties
    <3> QED
      BY <3>1 DEF Failed, Reports
  <2>7. \A i \in Failed(inbox) :
          /\ worker'[inbox[i].who].life # "unborn" /\ inbox[i].who \notin boss.ready
          /\ boss.pc = "sleep" => inbox[i].who # boss.who
    BY <1>7, <2>3, <2>6 DEF SoleInv, Refusals
  <2> QED
    BY <1>7, <2>1, <2>4, <2>5, <2>7, SoleStays
<1>8. ASSUME NEW w \in Worker, ReadPromote(w), SoleInv PROVE (misled \/ SoleInv)'
  <2>1. /\ boss' = boss /\ inbox' = inbox /\ worker[w].life = "alive"
        /\ mail[w] # <<>> /\ mail[w] \in Seq(Messages)
        /\ mail'[w] = Tail(mail[w]) /\ \A v \in Worker : v # w => mail'[v] = mail[v]
    BY <1>8, ReadFacts DEF RoleTypeInv
  <2>2. /\ \A i \in DOMAIN Tail(mail[w]) :
             i \in Nat \ {0} /\ i + 1 \in DOMAIN mail[w] /\ Tail(mail[w])[i] = mail[w][i + 1]
        /\ 1 \in DOMAIN mail[w] /\ Head(mail[w]) = mail[w][1]
    BY <2>1, TailFacts
  <2>3. \A v \in Worker : worker'[v].life = worker[v].life /\ worker'[v].lives = worker[v].lives
    BY <1>8, ReadFacts DEF RoleTypeInv
  <2>4. \A v \in Worker : v # w => (HasRole(v)' => HasRole(v)) /\ Current(v)' \subseteq Current(v)
    <3>1. \A v \in Worker : v # w => worker'[v] = worker[v]
      BY <1>8, ReadFacts DEF RoleTypeInv
    <3> QED
      BY <2>1, <3>1, CurrentStays DEF HasRole, Exists
  <2>5. \A i \in Current(w)' : i \in Nat \ {0} /\ i + 1 \in Current(w)
    BY <2>1, <2>2, <2>3 DEF Current, Exists
  <2>6. CASE worker[w].role /\ UNCHANGED <<worker, misled>>
    <3>1. Current(w) = {}
      BY <1>8, <2>1, <2>6 DEF SoleInv, Holders, HasRole, Exists
    <3>2. \A v \in Worker : (HasRole(v)' => HasRole(v)) /\ Current(v)' \subseteq Current(v)
      BY <2>4, <2>5, <2>6, <3>1 DEF HasRole, Exists
    <3>3. \A i \in Failed(inbox) :
            /\ worker'[inbox[i].who].life # "unborn" /\ inbox[i].who \notin boss.ready
            /\ boss.pc = "sleep" => inbox[i].who # boss.who
      BY <1>8, <2>6 DEF SoleInv, Refusals
    <3> QED
      BY <1>8, <2>1, <3>2, <3>3, SoleStays
  <2>7. CASE /\ misled' = (misled \/ Head(mail[w]).life # worker[w].lives)
             /\ Head(mail[w]).life = worker[w].lives
    <3>1. 1 \in Current(w)
      BY <2>1, <2>2, <2>7 DEF Current, Exists
    <3>2. boss.primary = w /\ NoFailure /\ Current(w)' = {}
      BY <1>8, <2>5, <3>1 DEF SoleInv, Holders
    <3>3. \A v \in Worker : v # w => ~HasRole(v)' /\ Current(v)' = {}
      BY <1>8, <2>4, <3>2 DEF SoleInv, Holders
    <3>4. Failed(inbox)' = {} /\ Failed(boss.batch)' = {}
      BY <2>1, <3>2 DEF NoFailure, Failed
    <3> QED
      BY <2>1, <3>2, <3>3, <3>4 DEF SoleInv, Refusals, Holders, NoFailure
  <2>8. CASE misled' = (misled \/ Head(mail[w]).life # worker[w].lives)
    BY <2>7, <2>8
  <2> QED
    BY <1>8, <2>6, <2>8, ReadFacts
<1>9. ASSUME NEW w \in Worker, Refuse(w), SoleInv PROVE SoleInv'
  <2>1. /\ boss' = boss /\ mail' = mail /\ inbox' = Append(inbox, FailedReport(w))
        /\ worker[w].life = "alive" /\ HasRole(w)
    BY <1>9, RefuseFacts DEF HasRole, Exists
  <2>2. PICK y : /\ worker' = [worker EXCEPT ![w] = y] /\ ~y.role
                 /\ y.life = worker[w].life /\ y.lives = worker[w].lives
    BY <1>9, RefuseFacts
  <2>3. boss.primary = w /\ NoFailure /\ Current(w) = {}
    BY <1>9, <2>1 DEF SoleInv, Holders
  <2>4. /\ inbox \in Seq(Reports) /\ FailedReport(w) \in Reports /\ FailedReport(w).who = w
    BY DEF RoleTypeInv, FailedReport, Reports
  <2>5. \A i \in Failed(inbox') : i = Len(inbox) + 1 /\ inbox'[i] = FailedReport(w)
    BY <2>1, <2>3, <2>4, FailedAppend DEF NoFailure
  <2>6. /\ worker'[w].life = "alive" /\ ~HasRole(w)'
        /\ \A v \in Worker : v # w => worker'[v] = worker[v]
    BY <2>1, <2>2 DEF RoleTypeInv, HasRole
  <2>7. w \notin boss.ready /\ (boss.pc = "sleep" => w # boss.who)
    BY <2>1 DEF RoleTypeInv, GoodBoss, HasRole
  <2>8. Failed(inbox)' = Failed(inbox') /\ Failed(boss.batch)' = {}
    BY <2>1, <2>3 DEF Failed, NoFailure
  <2>9. Refusals'
    BY <2>1, <2>3, <2>4, <2>5, <2>6, <2>7, <2>8 DEF Refusals
  <2>10. \A v \in Worker : ~HasRole(v)' /\ Current(v)' = {}
    <3>1. \A v \in Worker : v # w => ~HasRole(v) /\ Current(v) = {}
      BY <1>9, <2>3 DEF SoleInv, Holders
    <3>2. \A v \in Worker : Current(v)' \subseteq Current(v)
      BY <2>1, <2>2, CurrentStays DEF RoleTypeInv, Exists
    <3> QED
      BY <2>3, <2>6, <3>1, <3>2 DEF HasRole, Exists
  <2> QED
    BY <2>9, <2>10 DEF SoleInv, Holders
<1>10. ASSUME NEW w \in Worker, Crash(w) \/ Hang(w) \/ Wake(w), SoleInv PROVE SoleInv'
  <2>1. boss' = boss /\ mail' = mail /\ inbox' = inbox /\ Exists(w)
    BY <1>10, FaultFacts
  <2>2. PICK y : /\ worker' = [worker EXCEPT ![w] = y] /\ y.role = worker[w].role
                 /\ y.life \in {"alive", "hung", "dead"} /\ y.lives = worker[w].lives
    BY <1>10, FaultFacts
  <2>3. \A v \in Worker :
          /\ Exists(v)' => Exists(v)
          /\ worker'[v].role = worker[v].role /\ worker'[v].lives = worker[v].lives
          /\ worker[v].life # "unborn" => worker'[v].life # "unborn"
    BY <2>1, <2>2 DEF Exists, RoleTypeInv
  <2>4. \A v \in Worker : (HasRole(v)' => HasRole(v)) /\ Current(v)' \subseteq Current(v)
    BY <2>1, <2>3, CurrentStays DEF HasRole
  <2>5. \A i \in Failed(inbox) : inbox[i].who \in Worker
    <3>1. inbox \in Seq(Reports)
      BY DEF RoleTypeInv
    <3>2. \A i \in DOMAIN inbox : inbox[i] \in Reports
      BY <3>1, LenProperties
    <3> QED
      BY <3>2 DEF Failed, Reports
  <2>6. \A i \in Failed(inbox) :
          /\ worker'[inbox[i].who].life # "unborn" /\ inbox[i].who \notin boss.ready
          /\ boss.pc = "sleep" => inbox[i].who # boss.who
    BY <1>10, <2>3, <2>5 DEF SoleInv, Refusals
  <2> QED
    BY <1>10, <2>1, <2>4, <2>6, SoleStays
<1>11. ASSUME UNCHANGED vars, SoleInv PROVE SoleInv'
  BY <1>11 DEF vars, SoleInv, Refusals, Holders, NoFailure, Failed, Current, HasRole, Exists
<1>12. CASE SoleInv
  BY <1>1, <1>2, <1>3, <1>4, <1>5, <1>6, <1>7, <1>8, <1>9, <1>10, <1>11, <1>12, Steps
<1>13. CASE misled
  <2>1. \A w \in Worker : ReadPromote(w) => misled'
    BY <1>13, ReadFacts
  <2>2. \A w \in Worker :
          Quiet(w) \/ Refuse(w) \/ Crash(w) \/ Hang(w) \/ Wake(w) => misled' = misled
    BY QuietFacts, RefuseFacts, FaultFacts
  <2> QED
    BY <1>13, <2>1, <2>2, Steps
       DEF vars, Spawns, Pumps, MovesOn, Handles, Reaps, Buries
<1> QED
  BY <1>12, <1>13

\* OnePrimaryUnlessMisled: two live processes both believe they are primary only
\* after one of them has obeyed a PROMOTE sent to its predecessor.
THEOREM OnlyOnePrimary == Spec => []OnePrimaryUnlessMisled
<1>1. Init => LivesInv /\ (misled \/ SoleInv)
  BY SoleInit
<1>2. (misled \/ SoleInv) => OnePrimaryUnlessMisled
  BY DEF SoleInv, Holders, OnePrimaryUnlessMisled, OnePrimary
<1> QED
  BY <1>1, <1>2, LivesStep, SoleStep, RoleTyped, PTL DEF Spec
=============================================================================
